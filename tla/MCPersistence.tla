---------------------------- MODULE MCPersistence ----------------------------
(***************************************************************************)
(* Persistence with a few requests, for TLC.  Requests are                 *)
(* interchangeable; of two records one is an invitation.                   *)
(***************************************************************************)
EXTENDS Persistence, TLC

Symmetry == Permutations(Request)
=============================================================================
