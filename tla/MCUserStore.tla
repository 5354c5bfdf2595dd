----------------------------- MODULE MCUserStore -----------------------------
(* A small kiro-admin process for TLC: the main goroutine and two handlers. *)
EXTENDS UserStore, TLC
=============================================================================
