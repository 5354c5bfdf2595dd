----------------------------- MODULE MCSniProxy -----------------------------
(* One connection and the messages that may open it, for TLC.              *)
EXTENDS SniConnection
=============================================================================
