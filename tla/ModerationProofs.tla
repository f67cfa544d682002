-------------------------- MODULE ModerationProofs --------------------------
(***************************************************************************)
(* Proofs about Moderation, for any listings and properties, and any age   *)
(* at which the worker warns and publishes.                                *)
(***************************************************************************)
EXTENDS Moderation, TLAPS

\* The clock of the round is never ahead of the clock, so what the round takes
\* for a day is one.
RoundIsNotAhead == \A l \in Listing : roundAge[l] <= age[l]

\* A listing is a draft until it exists.
NoneDelistedBefore == \A l \in Listing : ~Exists(l) => shown[l] = "draft"

\* The inductive invariant.
IInv == TypeOK /\ RoundIsNotAhead /\ NoneDelistedBefore /\ CronWaitsADay /\ ApprovalCoversLastChange

\* Init satisfies every part of the invariant.
LEMMA InitIInv == Init => IInv
  <1> SUFFICES ASSUME Init PROVE IInv
    OBVIOUS
  <1>1. TypeOK
    <2>1. age \in [Listing -> 0..Day] /\ roundAge \in [Listing -> 0..Day]
      BY AgeAssumption DEF Init
    <2>2. fresh \in [Property -> BOOLEAN] /\ stalled \in BOOLEAN
      BY Zenon DEF Init
    <2> QED
      BY <2>1, <2>2 DEF Init, TypeOK, Item
  <1>2. RoundIsNotAhead /\ NoneDelistedBefore
    BY DEF Init, RoundIsNotAhead, NoneDelistedBefore
  <1>3. CronWaitsADay /\ ApprovalCoversLastChange
    BY DEF Init, CronWaitsADay, ApprovalCoversLastChange, Item
  <1> QED
    BY <1>1, <1>2, <1>3 DEF IInv

\* Every handler keeps the invariant.  Listings and properties are told apart
\* by KindAssumption: they share the tables of decisions.
LEMMA HandlersIInv ==
    ASSUME IInv, Handlers
    PROVE  IInv'
  <1> USE AgeAssumption, KindAssumption
          DEF IInv, TypeOK, Item, Exists, Pending, RoundIsNotAhead, NoneDelistedBefore,
              CronWaitsADay, ApprovalCoversLastChange, round
  <1>1. ASSUME NEW l \in Listing, CreateListing(l) PROVE IInv'
    BY <1>1 DEF CreateListing
  <1>2. ASSUME NEW l \in Listing, ApproveListing(l) \/ RejectListing(l) PROVE IInv'
    BY <1>2 DEF ApproveListing, RejectListing
  <1>3. ASSUME NEW l \in Listing, UnpublishListing(l) PROVE IInv'
    BY <1>3 DEF UnpublishListing
  <1>4. ASSUME NEW p \in Property, CreateProperty(p) \/ UpdateProperty(p) PROVE IInv'
    BY <1>4 DEF CreateProperty, UpdateProperty
  <1>5. ASSUME NEW p \in Property, DecideProperty(p) PROVE IInv'
    BY <1>5 DEF DecideProperty
  <1> QED
    BY <1>1, <1>2, <1>3, <1>4, <1>5 DEF Handlers

\* Every step of the worker keeps the invariant.
LEMMA WorkerIInv ==
    ASSUME IInv, Worker
    PROVE  IInv'
  <1> USE AgeAssumption, KindAssumption
          DEF IInv, TypeOK, Item, Exists, Pending, RoundIsNotAhead, NoneDelistedBefore,
              CronWaitsADay, ApprovalCoversLastChange, review
  <1>1. CASE Tick \/ BeginRound \/ Save \/ Announce \/ Warned \/ EndRound
    BY <1>1 DEF Tick, BeginRound, Save, Announce, Warned, EndRound
  <1>2. ASSUME NEW l \in Listing, Publish(l) PROVE IInv'
    <2>1. age[l] = Day
      BY <1>2 DEF Publish
    <2> QED
      BY <1>2, <2>1 DEF Publish
  <1>3. ASSUME NEW l \in Listing, Warn(l) \/ Skip(l) PROVE IInv'
    BY <1>3 DEF Warn, Skip
  <1> QED
    BY <1>1, <1>2, <1>3 DEF Worker

\* Every step, and every stuttering step, keeps the invariant.
LEMMA NextIInv == IInv /\ [Next]_vars => IInv'
  <1> SUFFICES ASSUME IInv, [Next]_vars PROVE IInv'
    OBVIOUS
  <1> USE DEF IInv, TypeOK, Item, Exists, Pending, RoundIsNotAhead, NoneDelistedBefore,
              CronWaitsADay, ApprovalCoversLastChange
  <1>1. CASE TimePasses
    BY <1>1, AgeAssumption DEF TimePasses, round
  <1>2. CASE PeerStalls
    BY <1>2 DEF PeerStalls, review
  <1>3. CASE UNCHANGED vars
    BY <1>3 DEF vars, review, round
  <1> QED
    BY <1>1, <1>2, <1>3, HandlersIInv, WorkerIInv DEF Next

\* The inductive invariant holds of every behaviour.
THEOREM Invariance == Spec => []IInv
  BY InitIInv, NextIInv, PTL DEF Spec

\* Every variable keeps its type.
THEOREM TypeCorrect == Spec => []TypeOK
  <1>1. IInv => TypeOK
    BY DEF IInv
  <1> QED
    BY <1>1, Invariance, PTL

\* The worker approves nothing before its day is over.
THEOREM SilenceTakesADay == Spec => []CronWaitsADay
  <1>1. IInv => CronWaitsADay
    BY DEF IInv
  <1> QED
    BY <1>1, Invariance, PTL

\* An approved property has not changed since.
THEOREM ApprovalIsCurrent == Spec => []ApprovalCoversLastChange
  <1>1. IInv => ApprovalCoversLastChange
    BY DEF IInv
  <1> QED
    BY <1>1, Invariance, PTL

\* Once it has been taken down a listing stays down, whoever approves it and
\* whatever round the worker is in (support.go 22-67, main.go 119-155).
THEOREM DelistingIsFinal == Spec => DelistedStaysHidden
  <1>1. IInv /\ [Next]_vars =>
           [\A l \in Listing : TakenDown(l) => (TakenDown(l) /\ ~Visible(l))']_vars
    <2> SUFFICES ASSUME IInv, Next, NEW l \in Listing, TakenDown(l)
                 PROVE  shown'[l] = "delisted" /\ approval'[l] # "pending"
      BY DEF TakenDown, Visible, Pending
    <2> USE DEF IInv, TypeOK, Item, NoneDelistedBefore, Exists, Pending, TakenDown, review, round
    <2>1. CASE Worker
      BY <2>1 DEF Worker, Tick, BeginRound, Save, Announce, Warned, EndRound, Publish, Warn,
         Skip
    <2>2. ASSUME NEW k \in Listing,
                 CreateListing(k) \/ ApproveListing(k) \/ RejectListing(k) \/ UnpublishListing(k)
          PROVE  shown'[l] = "delisted" /\ approval'[l] # "pending"
      BY <2>2 DEF CreateListing, ApproveListing, RejectListing, UnpublishListing
    <2>3. ASSUME NEW p \in Property, CreateProperty(p) \/ DecideProperty(p) \/ UpdateProperty(p)
          PROVE  shown'[l] = "delisted" /\ approval'[l] # "pending"
      BY <2>3, KindAssumption DEF CreateProperty, DecideProperty, UpdateProperty
    <2>4. CASE TimePasses \/ PeerStalls
      BY <2>4 DEF TimePasses, PeerStalls
    <2> QED
      BY <2>1, <2>2, <2>3, <2>4 DEF Next, Handlers
  <1> QED
    BY <1>1, Invariance, PTL DEF Spec, DelistedStaysHidden

\* No step of the worker changes a listing that is decided.
THEOREM WorkerOverridesNobody == Spec => DecisionStands
  <1>1. IInv /\ [Next]_vars =>
           [Worker => \A l \in Listing :
               ~Pending(l) => approval'[l] = approval[l] /\ shown'[l] = shown[l]]_vars
    <2> SUFFICES ASSUME IInv, Worker, NEW l \in Listing, ~Pending(l)
                 PROVE  approval'[l] = approval[l] /\ shown'[l] = shown[l]
      OBVIOUS
    <2>1. CASE \E k \in Listing : Publish(k)
      BY <2>1 DEF Publish, Pending, IInv, TypeOK, Item
    <2>2. CASE ~\E k \in Listing : Publish(k)
      BY <2>2 DEF Worker, Tick, BeginRound, Save, Announce, Warned, EndRound, Warn, Skip, review
    <2> QED
      BY <2>1, <2>2
  <1> QED
    BY <1>1, Invariance, PTL DEF Spec, DecisionStands

-----------------------------------------------------------------------------
(* What the liveness of the review rests on.                               *)

\* In a round, what is no longer left and had been pending for a day is decided;
\* a listing that was not there when the round began is of no age in it.
DueAreDone ==
    /\ \A l \in Listing : ~Exists(l) => age[l] = 0
    /\ worker \notin {"idle", "lock"} =>
          \A l \in Listing \ left : roundAge[l] >= Day => ~Pending(l)

\* Every step keeps it: who is decided is not pending again, and time makes only
\* the clock, not the clock of the round, advance.
LEMMA NextDueAreDone == IInv /\ DueAreDone /\ [Next]_vars => DueAreDone'
  <1> SUFFICES ASSUME IInv, DueAreDone, [Next]_vars PROVE DueAreDone'
    OBVIOUS
  <1> USE AgeAssumption, KindAssumption
          DEF IInv, TypeOK, Item, Exists, Pending, RoundIsNotAhead, DueAreDone
  <1>1. ASSUME NEW l \in Listing, CreateListing(l) PROVE DueAreDone'
    BY <1>1 DEF CreateListing, round
  <1>2. ASSUME NEW l \in Listing, ApproveListing(l) \/ RejectListing(l) \/ UnpublishListing(l)
        PROVE  DueAreDone'
    BY <1>2 DEF ApproveListing, RejectListing, UnpublishListing, round
  <1>3. ASSUME NEW p \in Property, CreateProperty(p) \/ DecideProperty(p) \/ UpdateProperty(p)
        PROVE  DueAreDone'
    BY <1>3 DEF CreateProperty, DecideProperty, UpdateProperty, round
  <1>4. CASE Tick \/ Save \/ Announce \/ Warned \/ EndRound
    BY <1>4 DEF Tick, Save, Announce, Warned, EndRound, review
  <1>5. CASE BeginRound
    BY <1>5 DEF BeginRound, review
  <1>6. ASSUME NEW l \in Listing, Publish(l) PROVE DueAreDone'
    BY <1>6 DEF Publish
  <1>7. ASSUME NEW l \in Listing, Warn(l) \/ Skip(l) PROVE DueAreDone'
    BY <1>7 DEF Warn, Skip, review
  <1>8. CASE TimePasses
    BY <1>8 DEF TimePasses, round
  <1>9. CASE PeerStalls
    BY <1>9 DEF PeerStalls, review
  <1>10. CASE UNCHANGED vars
    BY <1>10 DEF vars, review, round
  <1> QED
    BY <1>1, <1>2, <1>3, <1>4, <1>5, <1>6, <1>7, <1>8, <1>9, <1>10
       DEF Next, Handlers, Worker

\* A round never takes a listing up twice.
THEOREM RoundEnds == Spec => EachListingOnce
  <1>1. IInv /\ [Next]_vars =>
           [worker \notin {"idle", "lock"} =>
               /\ left' \subseteq left
               /\ Worker /\ worker = "round" => left' # left \/ (left = {} /\ worker' = "idle")]_vars
    <2> SUFFICES ASSUME IInv, Next, worker \notin {"idle", "lock"}
                 PROVE  /\ left' \subseteq left
                        /\ Worker /\ worker = "round" =>
                               left' # left \/ (left = {} /\ worker' = "idle")
      OBVIOUS
    <2>1. CASE Handlers \/ TimePasses \/ PeerStalls
      <3>1. left' = left
        BY <2>1 DEF Handlers, CreateListing, ApproveListing, RejectListing, UnpublishListing,
           CreateProperty, DecideProperty, UpdateProperty, TimePasses, PeerStalls, round
      <3>2. worker = "round" => ~Worker
        BY <2>1, <3>1 DEF Handlers, CreateListing, ApproveListing, RejectListing,
           UnpublishListing, CreateProperty, DecideProperty, UpdateProperty, TimePasses,
           PeerStalls, round, Unlocked, Worker, Tick, BeginRound, Save, Announce, Warned,
           EndRound, Publish, Warn, Skip
      <3> QED
        BY <3>1, <3>2
    <2>2. CASE Worker
      BY <2>2 DEF Worker, Tick, BeginRound, Save, Announce, Warned, EndRound, Publish, Warn,
         Skip
    <2> QED
      BY <2>1, <2>2 DEF Next
  <1> QED
    BY <1>1, Invariance, PTL DEF Spec, EachListingOnce

\* When a round is over nobody it was due for has been missed.
THEOREM NobodyMissed == Spec => RoundMissesNobody
  <1>1. Init => DueAreDone
    BY DEF Init, DueAreDone, Exists, Item
  <1>2. IInv /\ DueAreDone /\ [Next]_vars =>
           [EndRound => \A l \in Listing : roundAge[l] >= Day => ~Pending(l)']_vars
    <2> SUFFICES ASSUME IInv, DueAreDone, EndRound, NEW l \in Listing, roundAge[l] >= Day
                 PROVE  ~Pending(l)'
      OBVIOUS
    <2> QED
      BY DEF EndRound, DueAreDone, Pending, review
  <1> QED
    BY <1>1, <1>2, NextDueAreDone, Invariance, PTL DEF Spec, RoundMissesNobody
=============================================================================
