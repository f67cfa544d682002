------------------------------ MODULE LockRules ------------------------------
(***************************************************************************)
(* StoreLock with the paths of the handlers, and which handler breaks      *)
(* which rule of the mutex.                                                *)
(***************************************************************************)
EXTENDS StoreLock, LockPaths

\* The paths of each handler ...
PathsOf ==
    [PayRent              |-> PayRent,
     UpdateProperty       |-> UpdateProperty,
     DeleteRegion         |-> DeleteRegion,
     ListKYCQueues        |-> ListKYCQueues,
     DebugDB              |-> DebugDB,
     DebugListInvitations |-> DebugListInvitations,
     ListingReviewWorker  |-> ListingReviewWorker,
     ListDisputes         |-> ListDisputes,
     GetDashboardStats    |-> GetDashboardStats,
     ListStaff            |-> ListStaff,
     VerifyToken          |-> VerifyToken,
     UpdateListing        |-> UpdateListing,
     PublishProperty      |-> PublishProperty,
     UnpublishProperty    |-> UnpublishProperty,
     SuspendUser          |-> SuspendUser,
     VerifyKYC            |-> VerifyKYC,
     ListApplications     |-> ListApplications,
     Me                   |-> Me,
     SubmitReview         |-> SubmitReview,
     RespondToReview      |-> RespondToReview]

\* ... and of those that run, the value the runs give Paths.
HandlerPaths == [h \in Handler |-> PathsOf[h]]

-----------------------------------------------------------------------------
(***************************************************************************)
(* Which handlers break which rule of the mutex.                           *)
(***************************************************************************)

\* These call a Store method while they hold the write lock ...
ReenterWriting ==
    {"UpdateListing", "PublishProperty", "UnpublishProperty", "SuspendUser", "VerifyKYC",
     "ListApplications", "Me"}

\* ... and these while they hold the read lock, which is fatal only when a
\* writer has announced itself in between.
ReenterReading == {"ListDisputes", "GetDashboardStats", "ListStaff", "VerifyToken"}

\* These unlock by hand and again in the deferred call ...
UnlockTwice == {"SubmitReview", "RespondToReview"}

\* ... and these write to a peer while they hold the lock, the two review
\* handlers only a short error text, which may stay in the response's buffer.
\* ListApplications would, if it got that far.
WritePeerLocked ==
    {"ListKYCQueues", "DebugDB", "DebugListInvitations", "ListDisputes", "GetDashboardStats",
     "ListingReviewWorker", "SubmitReview", "RespondToReview"}

\* Only the seven handlers above wait for themselves as soon as they run
\* their ordinary path, only those four when a writer arrives; every other
\* path of the program gives the lock back before it asks for it again.
ReentryConfined ==
    \A g \in Goroutine : SelfDeadlocked(g) =>
        running[g] \in IF InWrite(g) THEN ReenterWriting ELSE ReenterReading

\* Only the two review handlers unlock what they no longer hold, and so only
\* they can end the process or take the lock from under another goroutine.
MisuseConfined == misuse \in UnlockTwice \cup {Nobody}

\* A peer that does not read can stop the whole program only through these:
\* no other handler writes to a peer while it holds the lock.
PeerWaitConfined ==
    \A g \in Goroutine : Holds(g) /\ NextOp(g, "Peer") => running[g] \in WritePeerLocked

\* The rules of the mutex that hold of every path of the program but for the
\* handlers named above: it is given back, asked for once at a time, unlocked
\* by its holder, and not kept while a peer is written to.
LockRulesKept == NothingLeaked /\ ReentryConfined /\ MisuseConfined /\ PeerWaitConfined

-----------------------------------------------------------------------------
(***************************************************************************)
(* What follows from the rules, and from a breach of them.                 *)
(***************************************************************************)

\* The handlers that break no rule.
Clean == DOMAIN PathsOf \ (ReenterWriting \cup ReenterReading \cup UnlockTwice
                              \cup WritePeerLocked)

\* Whenever somebody waits for the mutex, somebody who has it or is next to
\* get it stands before a step that nothing can hold up but MongoDB's 5
\* seconds: it gives the lock back, waits for the database, or enters.
WaitedForCanMove ==
    (\E g \in Goroutine : Blocked(g)) =>
        \E g \in Goroutine :
            \/ NextOp(g, "RUnlock") /\ InRead(g)
            \/ NextOp(g, "Unlock") /\ InWrite(g)
            \/ NextOp(g, "Mongo") /\ Holds(g)
            \/ /\ NextOp(g, "Lock") /\ writer = g /\ ~exclusive
               /\ \A r \in Goroutine : ~InRead(r)

\* A goroutine that waits for itself does so for good, nobody gets the write
\* lock any more, and if it is inside Lock nobody gets a read lock either: one
\* request of a handler of ReenterWriting ends the service of all.
WaitsForItselfForGood ==
    [][\A g \in Goroutine : SelfDeadlocked(g) =>
          /\ SelfDeadlocked(g)' /\ rest'[g] = rest[g] /\ running'[g] = running[g]
          /\ \A r \in Goroutine : InWrite(r)' => InWrite(r)
          /\ InWrite(g) => \A r \in Goroutine : ~InRead(r)']_vars

\* Its request is never answered.
NeverAnswered ==
    \A g \in Goroutine : [](SelfDeadlocked(g) => [](running[g] # Nobody))

-----------------------------------------------------------------------------
(***************************************************************************)
(* What comments of the code promise.                                      *)
(***************************************************************************)

\* "PublishProperty sets a property's publish_status to "published"": a
\* request for it comes to an end.
PublishAnswered ==
    \A g \in Goroutine : running[g] = "PublishProperty" ~> running[g] = Nobody
=============================================================================
