---------------------------- MODULE MCKubeconfig ----------------------------
(* Two commands and an enable on a small contexts file, for TLC.           *)
EXTENDS Kubeconfig, TLC

Symmetry == Permutations(Commands) \cup Permutations(Names)
=============================================================================
