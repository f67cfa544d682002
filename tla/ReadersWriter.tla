---------------------------- MODULE ReadersWriter ----------------------------
(***************************************************************************)
(* What the handlers rely on when they take the mutex of the Store         *)
(* (internal/store/store.go): readers share it, a writer has it alone, a   *)
(* writer that waits closes the door to new readers, and whoever waited    *)
(* for that writer is let in before the next one can close the door again. *)
(* Nobody gives back what it has not got, and who waits does nothing else. *)
(*                                                                         *)
(* Nothing is said here of handlers, of their lists of operations or of    *)
(* what they do between them: that is StoreLock, which implements this     *)
(* module.                                                                 *)
(***************************************************************************)
EXTENDS Naturals

CONSTANTS
    Client,    \* those that share the lock
    Nobody     \* none of them

VARIABLES
    shares,    \* shares[c]: how often c has the lock to read
    waiting,   \* clients that wait for a writer to open the door again
    door,      \* the writer that closed it, else Nobody
    alone      \* that writer is inside, the readers have left

lock == <<shares, waiting, door, alone>>

Init ==
    /\ shares = [c \in Client |-> 0]
    /\ waiting = {}
    /\ door = Nobody
    /\ alone = FALSE

\* c waits neither for a writer nor, as a writer, for the readers.
Active(c) == c \notin waiting /\ (door = c => alone)

\* c reads, or reads once more.
Share(c) ==
    /\ door = Nobody
    /\ shares' = [shares EXCEPT ![c] = @ + 1]
    /\ UNCHANGED <<waiting, door, alone>>

\* c would read and finds the door closed.
Wait(c) ==
    /\ Active(c)
    /\ door # Nobody
    /\ waiting' = waiting \cup {c}
    /\ UNCHANGED <<shares, door, alone>>

Return(c) ==
    /\ Active(c)
    /\ shares[c] > 0
    /\ shares' = [shares EXCEPT ![c] = @ - 1]
    /\ UNCHANGED <<waiting, door, alone>>

\* c would write: it keeps new readers out ...
Close(c) ==
    /\ door = Nobody
    /\ door' = c
    /\ UNCHANGED <<shares, waiting, alone>>

\* ... is inside when the last reader has left ...
Own(c) ==
    /\ door = c
    /\ ~alone
    /\ \A r \in Client : shares[r] = 0
    /\ alone' = TRUE
    /\ UNCHANGED <<shares, waiting, door>>

\* ... and lets in everybody who has waited for it.
Open(c) ==
    /\ Active(c)
    /\ door = c
    /\ door' = Nobody
    /\ alone' = FALSE
    /\ shares' = [r \in Client |-> IF r \in waiting THEN shares[r] + 1 ELSE shares[r]]
    /\ waiting' = {}

Next ==
    \E c \in Client : Share(c) \/ Wait(c) \/ Return(c) \/ Close(c) \/ Own(c) \/ Open(c)

Spec == Init /\ [][Next]_lock
=============================================================================
