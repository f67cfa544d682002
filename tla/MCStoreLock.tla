----------------------------- MODULE MCStoreLock -----------------------------
(***************************************************************************)
(* StoreLock with the paths of the handlers, for TLC.  The cfg picks the   *)
(* handlers that run.                                                      *)
(***************************************************************************)
EXTENDS LockRules, TLC

Symmetry == Permutations(Goroutine)
=============================================================================
