------------------------------ MODULE Landlords ------------------------------
(***************************************************************************)
(* Accounts and Tiers together, as the program has them: a request for a   *)
(* higher tier comes with a session, a landlord's file is opened after the *)
(* landlord is registered, in another section, and the KYC decision that   *)
(* waits for itself keeps the requests of both from the Store's mutex.     *)
(***************************************************************************)
EXTENDS Accounts, Naturals

CONSTANT MaxLevel   \* the highest tier

ASSUME MaxLevelAssumption == MaxLevel \in Nat /\ MaxLevel >= 2

VARIABLES file, stage, landlord, goal, items, wedged, disturbed

T == INSTANCE Tiers

tiers   == <<file, stage, landlord, goal, items, wedged, disturbed>>
allvars == <<vars, tiers>>

AllTypesOK == TypeOK /\ T!TypeOK

AllInit == Init /\ T!Init

\* What auth.go does, up to the point where another component takes over.
AccountStep(r) ==
    /\ Free(r) \/ (~wedged /\ Locked(r))
    /\ UNCHANGED tiers

\* The last section of Register, for a landlord.
OpenFile(r) == pc[r] = "file" /\ Return(r) /\ T!OpenFile(r, who[r])

\* A landlord, or support, has been let in by the session.
Ask(r) ==
    /\ pc[r] = "away"
    /\ T!UpgradeTier(r, who[r]) \/ \E u \in Account : T!VerifyKYC(r, u)
    /\ UNCHANGED vars

TierStep(r) == T!Continue(r) /\ UNCHANGED vars

\* The request is answered, by Tiers or by a component that is not modelled
\* here.
Answer(r) ==
    /\ pc[r] = "away"
    /\ stage[r] \in {"idle", "done"}
    /\ Return(r)
    /\ UNCHANGED tiers

AllNext ==
    \E r \in Request : AccountStep(r) \/ OpenFile(r) \/ Ask(r) \/ TierStep(r) \/ Answer(r)

AllSpec == AllInit /\ [][AllNext]_allvars

-----------------------------------------------------------------------------
(* Properties.                                                             *)

\* A file that nobody raises, and for which there was no overlap and no
\* approval, has the tier, the snapshot and the history that belong together.
TierExplained == T!TierExplained
=============================================================================
