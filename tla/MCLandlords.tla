----------------------------- MODULE MCLandlords -----------------------------
(***************************************************************************)
(* Accounts and tiers with a few requests, for TLC.  Requests and accounts *)
(* are interchangeable.                                                    *)
(***************************************************************************)
EXTENDS Landlords, TLC

Symmetry == Permutations(Request) \cup Permutations(Account)
=============================================================================
