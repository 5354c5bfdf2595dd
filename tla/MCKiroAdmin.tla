---------------------------- MODULE MCKiroAdmin ----------------------------
(* Instances of KiroAdmin for TLC.                                         *)
EXTENDS KiroAdmin, TLC

Symmetry == Permutations(Handlers) \cup Permutations(Keys)
=============================================================================
