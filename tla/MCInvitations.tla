---------------------------- MODULE MCInvitations ----------------------------
(***************************************************************************)
(* Invitations with a few requests, for TLC.  Which handlers run is not    *)
(* restricted; requests and addresses are interchangeable.                 *)
(***************************************************************************)
EXTENDS Invitations, TLC

Symmetry == Permutations(Request) \cup Permutations(Email)
=============================================================================
