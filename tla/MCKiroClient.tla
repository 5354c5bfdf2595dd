--------------------------- MODULE MCKiroClient ---------------------------
EXTENDS KiroClient
=============================================================================
