------------------------------- MODULE MCLeases ------------------------------
(***************************************************************************)
(* Leases with a few requests, for TLC.  Requests are interchangeable; the *)
(* two units are not, one has its listing in "auto" mode.                  *)
(***************************************************************************)
EXTENDS Leases, TLC

Symmetry == Permutations(Request)
=============================================================================
