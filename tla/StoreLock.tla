------------------------------ MODULE StoreLock ------------------------------
(***************************************************************************)
(* The mutex of the in-memory Store and the goroutines that use it.        *)
(*                                                                         *)
(* internal/store/store.go keeps every map of the application behind ONE   *)
(* sync.RWMutex.  Store methods take it for their own body; handlers also  *)
(* take it themselves through Store.Lock / Store.RLock and then call Store *)
(* methods, which is where the trouble starts: the mutex is not re-entrant.*)
(*                                                                         *)
(* A goroutine is the list of lock operations it still has to make.  What  *)
(* it computes between them does not matter here and is left out; the      *)
(* lists of each handler are in module LockPaths.  The mutex follows Go's  *)
(* sync.RWMutex: a writer announces itself, keeps new readers out, waits   *)
(* for the readers inside, and hands the lock to all parked readers when   *)
(* it leaves.                                                              *)
(***************************************************************************)
EXTENDS Naturals, Sequences

CONSTANTS
    Goroutine,   \* goroutines that serve requests or run in the background
    Handler,     \* names of the handlers and workers they may run
    Paths,       \* Paths[h]: the lists of lock operations h may perform
    Nobody       \* no goroutine; also: no handler

\* "Mongo" is a database call made by the goroutine itself, "Peer" a write to
\* a client, a WebSocket or Redis.
Op == {"RLock", "RUnlock", "Lock", "Unlock", "Mongo", "Peer"}

ASSUME NobodyAssumption == Nobody \notin Goroutine /\ Nobody \notin Handler
ASSUME PathsAssumption  == Paths \in [Handler -> SUBSET Seq(Op)]

VARIABLES
    running,     \* running[g]: the handler g is executing, Nobody when idle
    rest,        \* rest[g]: the lock operations g still has to perform
    reads,       \* reads[g]: read locks granted to g and not yet released
    parked,      \* goroutines waiting in RLock behind an announced writer
    writer,      \* the goroutine inside or entering Lock, else Nobody
    exclusive,   \* TRUE once that writer's wait for the readers is over
    misuse       \* handler that unlocked what it did not hold, else Nobody

vars == <<running, rest, reads, parked, writer, exclusive, misuse>>

TypeOK ==
    /\ running \in [Goroutine -> Handler \cup {Nobody}]
    /\ rest \in [Goroutine -> Seq(Op)]
    /\ reads \in [Goroutine -> Nat]
    /\ parked \subseteq Goroutine
    /\ writer \in Goroutine \cup {Nobody}
    /\ exclusive \in BOOLEAN
    /\ misuse \in Handler \cup {Nobody}

NextOp(g, op) == rest[g] # <<>> /\ Head(rest[g]) = op

InRead(g)  == reads[g] > 0
InWrite(g) == exclusive /\ writer = g
Holds(g)   == InRead(g) \/ InWrite(g)

-----------------------------------------------------------------------------

Init ==
    /\ running = [g \in Goroutine |-> Nobody]
    /\ rest = [g \in Goroutine |-> <<>>]
    /\ reads = [g \in Goroutine |-> 0]
    /\ parked = {}
    /\ writer = Nobody
    /\ exclusive = FALSE
    /\ misuse = Nobody

Advance(g) == rest' = [rest EXCEPT ![g] = Tail(@)]

\* A request arrives, or the worker's ticker fires; which path it takes is
\* decided by data this module does not have.
Start(g) ==
    /\ running[g] = Nobody
    /\ \E h \in Handler : \E p \in Paths[h] :
          /\ running' = [running EXCEPT ![g] = h]
          /\ rest' = [rest EXCEPT ![g] = p]
    /\ UNCHANGED <<reads, parked, writer, exclusive, misuse>>

\* The handler returns and the goroutine is free for the next request.
Respond(g) ==
    /\ running[g] # Nobody
    /\ rest[g] = <<>>
    /\ running' = [running EXCEPT ![g] = Nobody]
    /\ UNCHANGED <<rest, reads, parked, writer, exclusive, misuse>>

\* RLock with no writer announced: the read lock is granted at once, even to
\* a goroutine that already has one.
RLock(g) ==
    /\ NextOp(g, "RLock")
    /\ writer = Nobody
    /\ reads' = [reads EXCEPT ![g] = @ + 1]
    /\ Advance(g)
    /\ UNCHANGED <<running, parked, writer, exclusive, misuse>>

\* RLock behind a writer: the goroutine parks until that writer unlocks.
Park(g) ==
    /\ NextOp(g, "RLock")
    /\ writer # Nobody
    /\ g \notin parked
    /\ parked' = parked \cup {g}
    /\ UNCHANGED <<running, rest, reads, writer, exclusive, misuse>>

\* Mutant: released by hand and once more by the deferred call.
RUnlockTwice(g) ==
    /\ NextOp(g, "RUnlock")
    /\ reads' = [reads EXCEPT ![g] = @ - 2]
    /\ Advance(g)
    /\ UNCHANGED <<running, parked, writer, exclusive, misuse>>

RUnlock(g) ==
    /\ NextOp(g, "RUnlock")
    /\ InRead(g)
    /\ reads' = [reads EXCEPT ![g] = @ - 1]
    /\ Advance(g)
    /\ UNCHANGED <<running, parked, writer, exclusive, misuse>>

\* First half of Lock: the writer takes the writers' mutex and announces
\* itself.  From here on new readers park.
Announce(g) ==
    /\ NextOp(g, "Lock")
    /\ writer = Nobody
    /\ writer' = g
    /\ UNCHANGED <<running, rest, reads, parked, exclusive, misuse>>

\* Mutant: the writer does not wait for the readers inside.
EnterAtOnce(g) ==
    /\ NextOp(g, "Lock")
    /\ writer = g
    /\ ~exclusive
    /\ exclusive' = TRUE
    /\ Advance(g)
    /\ UNCHANGED <<running, reads, parked, writer, misuse>>

\* Second half of Lock: the readers that were inside have all left.
Enter(g) ==
    /\ NextOp(g, "Lock")
    /\ writer = g
    /\ ~exclusive
    /\ \A r \in Goroutine : ~InRead(r)
    /\ exclusive' = TRUE
    /\ Advance(g)
    /\ UNCHANGED <<running, reads, parked, writer, misuse>>

\* Mutant: the parked readers are not woken.
UnlockForgettingReaders(g) ==
    /\ NextOp(g, "Unlock")
    /\ InWrite(g)
    /\ writer' = Nobody
    /\ exclusive' = FALSE
    /\ Advance(g)
    /\ UNCHANGED <<running, reads, parked, misuse>>

\* Unlock by the holder: every parked reader is let in before another writer
\* can announce itself.
Unlock(g) ==
    /\ NextOp(g, "Unlock")
    /\ InWrite(g)
    /\ writer' = Nobody
    /\ exclusive' = FALSE
    /\ reads' = [r \in Goroutine |-> IF r \in parked THEN reads[r] + 1 ELSE reads[r]]
    /\ rest' = [r \in Goroutine |-> IF r \in parked \cup {g} THEN Tail(rest[r])
                                                            ELSE rest[r]]
    /\ parked' = {}
    /\ UNCHANGED <<running, misuse>>

\* Unlock or RUnlock without the lock.  With no writer the Go runtime ends
\* the process ("sync: Unlock of unlocked RWMutex" is not a panic and cannot
\* be recovered); with one, the lock is taken from under it.  Either way the
\* state of the mutex means nothing afterwards and the model stops.
Misuse(g) ==
    /\ \/ NextOp(g, "Unlock") /\ ~InWrite(g)
       \/ NextOp(g, "RUnlock") /\ ~InRead(g)
    /\ misuse' = running[g]
    /\ UNCHANGED <<running, rest, reads, parked, writer, exclusive>>

\* Store.Delete* waits for MongoDB, for at most the 5 seconds of its context.
CallMongo(g) ==
    /\ NextOp(g, "Mongo")
    /\ Advance(g)
    /\ UNCHANGED <<running, reads, parked, writer, exclusive, misuse>>

\* A write to a peer, which takes as long as the peer likes.
WritePeer(g) ==
    /\ NextOp(g, "Peer")
    /\ Advance(g)
    /\ UNCHANGED <<running, reads, parked, writer, exclusive, misuse>>

\* What a goroutine that is executing a handler can do by itself.
Work(g) ==
    \/ Respond(g) \/ RLock(g) \/ Park(g) \/ RUnlock(g)
    \/ Announce(g) \/ Enter(g) \/ Unlock(g) \/ Misuse(g) \/ CallMongo(g)

Next ==
    /\ misuse = Nobody
    /\ \E g \in Goroutine : Start(g) \/ Work(g) \/ WritePeer(g)

Spec == Init /\ [][Next]_vars

\* The scheduler runs every goroutine that can run.  Announce needs strong
\* fairness: the writers' mutex is free only now and then, and Go's sync.Mutex
\* hands it to a waiter of more than 1 ms (starvation mode).  Nothing makes a
\* peer read, so WritePeer has no fairness, and nobody must send a request.
Fairness ==
    \A g \in Goroutine :
        /\ WF_vars(misuse = Nobody /\ Work(g))
        /\ SF_vars(misuse = Nobody /\ Announce(g))

FairSpec == Spec /\ Fairness

-----------------------------------------------------------------------------
(***************************************************************************)
(* Properties.                                                             *)
(***************************************************************************)

\* A goroutine inside Lock..Unlock shares the Store with nobody: no reader is
\* inside with it, and a read lock is never granted while a writer waits
\* inside.
Exclusion == exclusive => /\ writer # Nobody
                          /\ \A r \in Goroutine : ~InRead(r)

\* Whatever the handlers do, the mutex is the lock they rely on: shared by
\* readers, a writer's alone, closed to new readers while a writer waits, and
\* opened to all who waited for it when that writer leaves.
Mutex == INSTANCE ReadersWriter WITH
    Client <- Goroutine, shares <- reads, waiting <- parked, door <- writer,
    alone <- exclusive
ImplementsReadersWriter == Mutex!Spec

\* Every handler gives back what it took before it returns.
NothingLeaked == \A g \in Goroutine : rest[g] = <<>> => ~Holds(g)

\* g waits for a lock that only g itself could release.
SelfDeadlocked(g) ==
    /\ Holds(g)
    /\ NextOp(g, "Lock") \/ (NextOp(g, "RLock") /\ writer # Nobody)

\* g is executing a handler and can take no step.
Blocked(g) ==
    /\ running[g] # Nobody
    /\ \/ NextOp(g, "RLock") /\ g \in parked
       \/ NextOp(g, "Lock") /\ writer \notin {g, Nobody}
       \/ NextOp(g, "Lock") /\ writer = g /\ (exclusive \/ \E r \in Goroutine : InRead(r))

\* Whenever somebody waits for the mutex, somebody who holds it or is next to
\* get it can move; if not, one goroutine is waiting for itself or has
\* returned with the lock.  No cycle of several goroutines can form.
WedgeNeedsReentry ==
    (\E g \in Goroutine : Blocked(g)) =>
        \/ \E g \in Goroutine : (Holds(g) \/ writer = g) /\ ~Blocked(g) /\ rest[g] # <<>>
        \/ \E g \in Goroutine : SelfDeadlocked(g)
        \/ \E g \in Goroutine : Holds(g) /\ rest[g] = <<>>

\* No request is lost on the lock: whatever a goroutine started, it finishes.
EveryRequestAnswered ==
    \A g \in Goroutine : running[g] # Nobody ~> running[g] = Nobody
=============================================================================
