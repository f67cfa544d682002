------------------------------ MODULE Moderation ------------------------------
(***************************************************************************)
(* Review of listings and properties: CreateListing, ApproveListing,       *)
(* RejectListing (handlers/operations.go), UnpublishListing (support.go),  *)
(* the property handlers of the same names (properties.go), and the hourly *)
(* listing review worker of cmd/server/main.go.                            *)
(*                                                                         *)
(* Each handler makes its change in one section of the Store's mutex; the  *)
(* worker keeps the mutex for a whole round, except while it saves and     *)
(* announces a listing it has published.  UpdateListing is not here: it    *)
(* never gets as far as its assignments (ReentryConfined in LockRules).    *)
(***************************************************************************)
EXTENDS Naturals

CONSTANTS
    Listing,    \* listings
    Property,   \* properties
    WarnAge,    \* 4 hours, in the unit of the clock
    Day         \* 24 hours, in the unit of the clock

ASSUME AgeAssumption == WarnAge \in Nat /\ Day \in Nat /\ 0 < WarnAge /\ WarnAge < Day
ASSUME KindAssumption == Listing \cap Property = {}

Item == Listing \cup Property

VARIABLES
    approval,  \* approval[i]: ApprovalStatus of item i, "absent" before it exists
    by,        \* by[i]: who decided last, by ApprovedBy: "nobody", "admin", "system_cron"
    shown,     \* shown[l]: Status of listing l
    age,       \* age[l]: time since listing l was submitted, up to Day, while pending
    fresh,     \* fresh[p]: property p has changed since it was last decided
    worker,    \* "idle", "lock", "round", "warn", "save", "announce": where the worker is
    roundAge,  \* roundAge[l]: age of l by the "now" of the round, 0 between rounds
    left,      \* listings the round has still to look at
    stalled    \* the peer the worker writes to has stopped reading

review == <<approval, by, shown, age, fresh>>
round  == <<worker, roundAge, left, stalled>>
vars   == <<review, round>>

TypeOK ==
    /\ approval \in [Item -> {"absent", "pending", "approved", "rejected"}]
    /\ by \in [Item -> {"nobody", "admin", "system_cron"}]
    /\ shown \in [Listing -> {"draft", "published", "delisted"}]
    /\ age \in [Listing -> 0..Day]
    /\ fresh \in [Property -> BOOLEAN]
    /\ worker \in {"idle", "lock", "round", "warn", "save", "announce"}
    /\ roundAge \in [Listing -> 0..Day]
    /\ left \subseteq Listing
    /\ stalled \in BOOLEAN

Init ==
    /\ approval = [i \in Item |-> "absent"]
    /\ by = [i \in Item |-> "nobody"]
    /\ shown = [l \in Listing |-> "draft"]
    /\ age = [l \in Listing |-> 0]
    /\ fresh = [p \in Property |-> FALSE]
    /\ worker = "idle"
    /\ roundAge = [l \in Listing |-> 0]
    /\ left = {}
    /\ stalled = FALSE

Exists(i)  == approval[i] # "absent"
Pending(i) == approval[i] = "pending"

\* The worker has the mutex, and no handler's section can run.
Unlocked == worker \in {"idle", "lock", "save", "announce"}

-----------------------------------------------------------------------------
(* Handlers.                                                               *)

\* The body is a whole listing: its Status and ApprovedBy are kept as they come
\* (an admin's name decides nothing here, the worker's would), its ApprovalStatus
\* and time of submission are not.
CreateListing(l) ==
    /\ Unlocked
    /\ ~Exists(l)
    /\ approval' = [approval EXCEPT ![l] = "pending"]
    /\ \E s \in {"draft", "published", "delisted"} : shown' = [shown EXCEPT ![l] = s]
    /\ \E a \in {"nobody", "system_cron"} : by' = [by EXCEPT ![l] = a]
    /\ UNCHANGED <<age, fresh, round>>

\* Mutant: an approved listing is also put (back) on show.
ApproveListingPublishing(l) ==
    /\ Unlocked
    /\ Exists(l)
    /\ approval' = [approval EXCEPT ![l] = "approved"]
    /\ by' = [by EXCEPT ![l] = "admin"]
    /\ shown' = [shown EXCEPT ![l] = "published"]
    /\ UNCHANGED <<age, fresh, round>>

\* Whatever was decided before; the Status stays as it is.
ApproveListing(l) ==
    /\ Unlocked
    /\ Exists(l)
    /\ approval' = [approval EXCEPT ![l] = "approved"]
    /\ by' = [by EXCEPT ![l] = "admin"]
    /\ UNCHANGED <<shown, age, fresh, round>>

RejectListing(l) ==
    /\ Unlocked
    /\ Exists(l)
    /\ approval' = [approval EXCEPT ![l] = "rejected"]
    /\ by' = [by EXCEPT ![l] = "admin"]
    /\ UNCHANGED <<shown, age, fresh, round>>

\* Mutant: the new Status is stored as the ApprovalStatus.
UnpublishListingMixedUp(l) ==
    /\ Unlocked
    /\ Exists(l)
    /\ approval' = [approval EXCEPT ![l] = "delisted"]
    /\ UNCHANGED <<by, shown, age, fresh, round>>

\* ApprovedBy is left alone.
UnpublishListing(l) ==
    /\ Unlocked
    /\ Exists(l)
    /\ approval' = [approval EXCEPT ![l] = "rejected"]
    /\ shown' = [shown EXCEPT ![l] = "delisted"]
    /\ UNCHANGED <<by, age, fresh, round>>

CreateProperty(p) ==
    /\ Unlocked
    /\ ~Exists(p)
    /\ approval' = [approval EXCEPT ![p] = "pending"]
    /\ fresh' = [fresh EXCEPT ![p] = TRUE]
    /\ UNCHANGED <<by, shown, age, round>>

\* ApproveProperty and RejectProperty.
DecideProperty(p) ==
    /\ Unlocked
    /\ Exists(p)
    /\ \E s \in {"approved", "rejected"} : approval' = [approval EXCEPT ![p] = s]
    /\ by' = [by EXCEPT ![p] = "admin"]
    /\ fresh' = [fresh EXCEPT ![p] = FALSE]
    /\ UNCHANGED <<shown, age, round>>

\* Mutant: only a rejected property goes back to review.
UpdatePropertyKeepingApproval(p) ==
    /\ Unlocked
    /\ Exists(p)
    /\ approval' = [approval EXCEPT ![p] = IF @ = "approved" THEN @ ELSE "pending"]
    /\ fresh' = [fresh EXCEPT ![p] = TRUE]
    /\ UNCHANGED <<by, shown, age, round>>

\* Every change sends the property back to review.
UpdateProperty(p) ==
    /\ Unlocked
    /\ Exists(p)
    /\ approval' = [approval EXCEPT ![p] = "pending"]
    /\ fresh' = [fresh EXCEPT ![p] = TRUE]
    /\ UNCHANGED <<by, shown, age, round>>

-----------------------------------------------------------------------------
(* startListingReviewWorker.                                               *)

TimePasses ==
    /\ age' = [l \in Listing |-> IF Pending(l) /\ age[l] < Day THEN age[l] + 1 ELSE age[l]]
    /\ age' # age
    /\ UNCHANGED <<approval, by, shown, fresh, round>>

\* The ticker fires: "now" is read once for the round, before the mutex is
\* taken; a listing created later is of no age at all.
Tick ==
    /\ worker = "idle"
    /\ worker' = "lock"
    /\ roundAge' = age
    /\ UNCHANGED <<review, left, stalled>>

\* The worker has the mutex.  A listing created while the round gives it back
\* may be looked at or not; it is too young for either to make a difference.
BeginRound ==
    /\ worker = "lock"
    /\ worker' = "round"
    /\ left' = {l \in Listing : Exists(l)}
    /\ UNCHANGED <<review, roundAge, stalled>>

\* Mutant: the status is not looked at again after the mutex was given back.
PublishAsFound(l) ==
    /\ worker = "round"
    /\ l \in left
    /\ roundAge[l] >= Day
    /\ approval' = [approval EXCEPT ![l] = "approved"]
    /\ by' = [by EXCEPT ![l] = "system_cron"]
    /\ shown' = [shown EXCEPT ![l] = "published"]
    /\ left' = left \ {l}
    /\ worker' = "save"
    /\ UNCHANGED <<age, fresh, roundAge, stalled>>

\* Mutant: published at the age of the warning.
PublishEarly(l) ==
    /\ worker = "round"
    /\ l \in left
    /\ Pending(l)
    /\ roundAge[l] >= WarnAge
    /\ approval' = [approval EXCEPT ![l] = "approved"]
    /\ by' = [by EXCEPT ![l] = "system_cron"]
    /\ shown' = [shown EXCEPT ![l] = "published"]
    /\ left' = left \ {l}
    /\ worker' = "save"
    /\ UNCHANGED <<age, fresh, roundAge, stalled>>

\* Pending for 24 hours: approved, published, and the mutex is given back.
Publish(l) ==
    /\ worker = "round"
    /\ l \in left
    /\ Pending(l)
    /\ roundAge[l] >= Day
    /\ approval' = [approval EXCEPT ![l] = "approved"]
    /\ by' = [by EXCEPT ![l] = "system_cron"]
    /\ shown' = [shown EXCEPT ![l] = "published"]
    /\ left' = left \ {l}
    /\ worker' = "save"
    /\ UNCHANGED <<age, fresh, roundAge, stalled>>

\* CreateListing saves it in a section of its own, BroadcastNotification
\* follows ...
Save ==
    /\ worker = "save"
    /\ worker' = "announce"
    /\ UNCHANGED <<review, roundAge, left, stalled>>

\* ... and the mutex is taken again.
Announce ==
    /\ worker = "announce"
    /\ ~stalled
    /\ worker' = "round"
    /\ UNCHANGED <<review, roundAge, left, stalled>>

\* Mutant: a listing that was announced is not done with.
WarnAgain(l) ==
    /\ worker = "round"
    /\ l \in left
    /\ Pending(l)
    /\ roundAge[l] \in WarnAge..(Day - 1)
    /\ worker' = "warn"
    /\ UNCHANGED <<review, roundAge, left, stalled>>

\* Pending for 4 hours: the admins are told, with the mutex held.
Warn(l) ==
    /\ worker = "round"
    /\ l \in left
    /\ Pending(l)
    /\ roundAge[l] \in WarnAge..(Day - 1)
    /\ left' = left \ {l}
    /\ worker' = "warn"
    /\ UNCHANGED <<review, roundAge, stalled>>

Warned ==
    /\ worker = "warn"
    /\ ~stalled
    /\ worker' = "round"
    /\ UNCHANGED <<review, roundAge, left, stalled>>

\* A listing that is decided, or younger than 4 hours.
Skip(l) ==
    /\ worker = "round"
    /\ l \in left
    /\ ~Pending(l) \/ roundAge[l] < WarnAge
    /\ left' = left \ {l}
    /\ UNCHANGED <<review, worker, roundAge, stalled>>

EndRound ==
    /\ worker = "round"
    /\ left = {}
    /\ worker' = "idle"
    /\ roundAge' = [l \in Listing |-> 0]
    /\ UNCHANGED <<review, left, stalled>>

\* A peer that is being written to stops reading, for good.
PeerStalls ==
    /\ worker \in {"warn", "announce"}
    /\ ~stalled
    /\ stalled' = TRUE
    /\ UNCHANGED <<review, worker, roundAge, left>>

-----------------------------------------------------------------------------

Worker ==
    \/ Tick \/ BeginRound \/ Save \/ Announce \/ Warned \/ EndRound
    \/ \E l \in Listing : Publish(l) \/ Warn(l) \/ Skip(l)

Handlers ==
    \/ \E l \in Listing :
          CreateListing(l) \/ ApproveListing(l) \/ RejectListing(l) \/ UnpublishListing(l)
    \/ \E p \in Property : CreateProperty(p) \/ DecideProperty(p) \/ UpdateProperty(p)

Next == Handlers \/ Worker \/ TimePasses \/ PeerStalls

\* Time passes, the ticker fires, and the worker is run and gets the mutex:
\* handlers hold it for one section only.  Nobody must send a request.
Spec == Init /\ [][Next]_vars /\ WF_vars(Worker) /\ WF_vars(TimePasses)

-----------------------------------------------------------------------------
(***************************************************************************)
(* Properties.                                                             *)
(***************************************************************************)

\* ListListings: what guests get to see.
Visible(l) == approval[l] = "approved" /\ shown[l] = "published"

\* What support leaves behind when it takes a listing down: delisted, and not
\* waiting for a decision.
TakenDown(l) == shown[l] = "delisted" /\ ~Pending(l)

\* A listing that has been taken down stays so, and hidden, whoever approves it
\* afterwards and whatever the worker had begun.  This is not true of every
\* delisted listing: one that its owner's body called delisted is pending, and
\* the worker publishes it after its day like any other.
DelistedStaysHidden ==
    [][\A l \in Listing : TakenDown(l) => (TakenDown(l) /\ ~Visible(l))']_vars

\* The worker overrides nobody: a listing that was decided, also while the
\* worker had given the mutex back in the middle of its round, stays as it is.
DecisionStands ==
    [][Worker => \A l \in Listing :
          ~Pending(l) => approval'[l] = approval[l] /\ shown'[l] = shown[l]]_vars

\* A listing that is approved in the worker's name has waited the 24 hours: nobody
\* else's silence counts sooner.  The name alone says nothing, a body may have
\* put it there.
CronWaitsADay ==
    \A l \in Listing : approval[l] = "approved" /\ by[l] = "system_cron" => age[l] = Day

\* An approved property has not been changed since the decision; whether the admin,
\* who decides by ID, had seen the last change before it is not claimed.
ApprovalCoversLastChange == \A p \in Property : approval[p] = "approved" => ~fresh[p]

\* What EveryListingDecided rests on: a round takes up each listing at most
\* once, so with nobody stalling it comes to its end ...
EachListingOnce ==
    [][worker \notin {"idle", "lock"} =>
          /\ left' \subseteq left
          /\ Worker /\ worker = "round" => left' # left \/ (left = {} /\ worker' = "idle")]_vars

\* ... and then no listing that had been pending for a day when it began is
\* pending any more, whatever handlers did while the mutex was given back.
RoundMissesNobody ==
    [][EndRound => \A l \in Listing : roundAge[l] >= Day => ~Pending(l)']_vars

\* Every listing is decided in the end, if by nobody else then by the worker,
\* unless a peer has stopped the worker for good.
EveryListingDecided ==
    \A l \in Listing : Pending(l) ~> (~Pending(l) \/ stalled)
=============================================================================
