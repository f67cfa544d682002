---------------------------- MODULE SnapshotStore ----------------------------
(***************************************************************************)
(* What the Store (internal/store/store.go) promises of its database: a    *)
(* document is at any time empty or a snapshot of the record in memory,    *)
(* with all the record had when the snapshot was begun and nothing it did  *)
(* not have when it was finished.  Snapshots travel on their own: they may *)
(* be late, overtake each other or get lost, and a finished one outlives   *)
(* the process that took it.  A process begins with what is in the         *)
(* database or less.                                                       *)
(*                                                                         *)
(* Nothing is said here of requests, locks, map keys or goroutines: that   *)
(* is Persistence, which implements this module.                           *)
(***************************************************************************)
CONSTANTS
    Record,    \* the records
    Change     \* what a record can have taken in

VARIABLES
    alive,     \* the process is running
    memory,    \* memory[d]: the changes record d has in memory
    begun,     \* begun[d]: what d had when snapshots still being taken were begun
    flying,    \* flying[d]: snapshots of record d on their way
    disk       \* disk[d]: the changes the document of d has

store == <<alive, memory, begun, flying, disk>>

Nothing == [d \in Record |-> {}]

Init ==
    /\ alive = TRUE
    /\ memory = Nothing /\ begun = Nothing /\ flying = Nothing /\ disk = Nothing

\* A record takes a change in, or more of what it has.
TakeIn(d, c) ==
    /\ alive
    /\ memory' = [memory EXCEPT ![d] = @ \cup {c}]
    /\ UNCHANGED <<alive, begun, flying, disk>>

Begin(d) ==
    /\ alive
    /\ begun' = [begun EXCEPT ![d] = @ \cup {memory[d]}]
    /\ UNCHANGED <<alive, memory, flying, disk>>

\* Removed(f, d, x): x is no longer in f[d], unless it was there for two.
Removed(f, d, x) == {f, [f EXCEPT ![d] = @ \ {x}]}

\* The snapshot begun with b is finished and is s.
Finish(d, b, s) ==
    /\ alive
    /\ b \subseteq s
    /\ flying' = [flying EXCEPT ![d] = @ \cup {s}]
    /\ begun' \in Removed(begun, d, b)
    /\ UNCHANGED <<alive, memory, disk>>

\* A snapshot replaces the document, of a process that may be dead by now.
Arrive(d, s) ==
    /\ disk' = [disk EXCEPT ![d] = s]
    /\ flying' \in Removed(flying, d, s)
    /\ UNCHANGED <<alive, memory, begun>>

\* A snapshot is given up, or gets lost.
Lose(d, s) ==
    /\ alive
    /\ \/ begun' \in Removed(begun, d, s) /\ UNCHANGED flying
       \/ flying' \in Removed(flying, d, s) /\ UNCHANGED begun
    /\ UNCHANGED <<alive, memory, disk>>

\* The document is deleted, also when nobody waits for it any more; the
\* pointers to the record live on.
Erase(d) ==
    /\ disk' = [disk EXCEPT ![d] = {}]
    /\ UNCHANGED <<alive, memory, begun, flying>>

Die ==
    /\ alive
    /\ alive' = FALSE
    /\ memory' = Nothing /\ begun' = Nothing
    /\ UNCHANGED <<flying, disk>>

Start ==
    /\ ~alive
    /\ alive' = TRUE
    /\ \E read \in SUBSET Record :
          memory' = [d \in Record |-> IF d \in read THEN disk[d] ELSE {}]
    /\ UNCHANGED <<begun, flying, disk>>

Next ==
    \/ \E d \in Record :
          \/ \E c \in Change : TakeIn(d, c)
          \/ Begin(d)
          \/ \E b \in begun[d], s \in SUBSET memory[d] : Finish(d, b, s)
          \/ \E s \in flying[d] : Arrive(d, s)
          \/ \E s \in begun[d] \cup flying[d] : Lose(d, s)
          \/ Erase(d)
    \/ Die \/ Start

Spec == Init /\ [][Next]_store
=============================================================================
