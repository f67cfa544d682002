--------------------------- MODULE StoreLockProofs ---------------------------
(***************************************************************************)
(* Proofs about StoreLock, for any number of goroutines.  The first part   *)
(* is for any set of handlers and any lock paths: nothing is assumed about *)
(* how the handlers bracket their sections.  The second is about the       *)
(* handlers of the program and their paths in LockPaths.                   *)
(***************************************************************************)
EXTENDS LockRules, Integers, TLAPS

\* A goroutine that runs nothing has nothing left to do.
IdleIsDone == \A g \in Goroutine : running[g] = Nobody => rest[g] = <<>>

\* Whoever is parked stands before an RLock and behind some writer.
ParkedWait == \A g \in parked : NextOp(g, "RLock") /\ writer # Nobody

\* A writer that has announced itself and is not inside stands before its Lock.
AnnouncedWaits == writer # Nobody /\ ~exclusive => NextOp(writer, "Lock")

\* The inductive invariant.
IInv == TypeOK /\ IdleIsDone /\ ParkedWait /\ AnnouncedWaits /\ Exclusion

-----------------------------------------------------------------------------

\* Taking the head off one goroutine's list leaves the lists well typed and
\* everybody else's list alone.
LEMMA AdvanceLemma ==
    ASSUME rest \in [Goroutine -> Seq(Op)],
           NEW g \in Goroutine, rest[g] # <<>>, Advance(g)
    PROVE  /\ rest' \in [Goroutine -> Seq(Op)]
           /\ \A r \in Goroutine : r # g => rest'[r] = rest[r]
  <1>1. Tail(rest[g]) \in Seq(Op)
    OBVIOUS
  <1> QED
    BY <1>1 DEF Advance

\* The initial state satisfies the inductive invariant.
LEMMA InitIInv == Init => IInv
  <1> SUFFICES ASSUME Init PROVE IInv
    OBVIOUS
  <1>1. TypeOK
    <2>1. <<>> \in Seq(Op)
      OBVIOUS
    <2> QED
      BY <2>1 DEF Init, TypeOK
  <1>2. IdleIsDone /\ ParkedWait /\ AnnouncedWaits /\ Exclusion
    BY DEF Init, IdleIsDone, ParkedWait, AnnouncedWaits, Exclusion
  <1> QED
    BY <1>1, <1>2 DEF IInv

\* Every action preserves the inductive invariant.
LEMMA NextIInv == IInv /\ [Next]_vars => IInv'
  <1> SUFFICES ASSUME IInv, [Next]_vars PROVE IInv'
    OBVIOUS
  <1> USE DEF IInv
  <1>1. ASSUME NEW g \in Goroutine, Start(g) PROVE IInv'
    <2>0. PICK h \in Handler : \E p \in Paths[h] :
             /\ running' = [running EXCEPT ![g] = h]
             /\ rest' = [rest EXCEPT ![g] = p]
      BY <1>1 DEF Start
    <2>1. PICK p \in Paths[h] : /\ running' = [running EXCEPT ![g] = h]
                                /\ rest' = [rest EXCEPT ![g] = p]
      BY <2>0
    <2>2. p \in Seq(Op)
      BY PathsAssumption
    <2>3. running[g] = Nobody /\ rest[g] = <<>> /\ h # Nobody
      BY <1>1, NobodyAssumption DEF Start, IdleIsDone
    <2>4. UNCHANGED <<reads, parked, writer, exclusive, misuse>>
      BY <1>1 DEF Start
    <2>5. TypeOK'
      BY <2>1, <2>2, <2>4 DEF TypeOK
    <2>6. IdleIsDone'
      BY <2>1, <2>3 DEF IdleIsDone, TypeOK
    <2>7. ParkedWait'
      BY <2>1, <2>3, <2>4 DEF ParkedWait, NextOp, TypeOK
    <2>8. AnnouncedWaits'
      BY <2>1, <2>3, <2>4 DEF AnnouncedWaits, NextOp, TypeOK
    <2>9. Exclusion'
      BY <2>4 DEF Exclusion, InRead
    <2> QED
      BY <2>5, <2>6, <2>7, <2>8, <2>9
  <1>2. ASSUME NEW g \in Goroutine, Respond(g) PROVE IInv'
    <2>1. TypeOK'
      BY <1>2 DEF Respond, TypeOK
    <2>2. IdleIsDone'
      BY <1>2 DEF Respond, IdleIsDone, TypeOK
    <2>3. ParkedWait' /\ AnnouncedWaits' /\ Exclusion'
      BY <1>2 DEF Respond, ParkedWait, AnnouncedWaits, Exclusion, NextOp, InRead
    <2> QED
      BY <2>1, <2>2, <2>3
  <1>3. ASSUME NEW g \in Goroutine, RLock(g) PROVE IInv'
    <2>1. rest[g] # <<>> /\ writer = Nobody /\ ~exclusive /\ parked = {}
      BY <1>3 DEF RLock, NextOp, Exclusion, ParkedWait
    <2>2. /\ rest' \in [Goroutine -> Seq(Op)]
          /\ \A r \in Goroutine : r # g => rest'[r] = rest[r]
      BY <1>3, <2>1, AdvanceLemma DEF RLock, TypeOK
    <2>3. TypeOK'
      <3>1. reads' \in [Goroutine -> Nat]
        BY <1>3 DEF RLock, TypeOK
      <3> QED
        BY <1>3, <2>2, <3>1 DEF RLock, TypeOK
    <2>4. IdleIsDone'
      BY <1>3, <2>1, <2>2 DEF RLock, IdleIsDone
    <2>5. ParkedWait' /\ AnnouncedWaits' /\ Exclusion'
      BY <1>3, <2>1 DEF RLock, ParkedWait, AnnouncedWaits, Exclusion
    <2> QED
      BY <2>3, <2>4, <2>5
  <1>4. ASSUME NEW g \in Goroutine, Park(g) PROVE IInv'
    <2>1. TypeOK' /\ IdleIsDone'
      BY <1>4 DEF Park, TypeOK, IdleIsDone
    <2>2. ParkedWait'
      BY <1>4 DEF Park, ParkedWait, NextOp
    <2>3. AnnouncedWaits' /\ Exclusion'
      BY <1>4 DEF Park, AnnouncedWaits, Exclusion, NextOp, InRead
    <2> QED
      BY <2>1, <2>2, <2>3
  <1>5. ASSUME NEW g \in Goroutine, NextOp(g, "RUnlock"), Advance(g),
               reads' = [reads EXCEPT ![g] = @ - 1], InRead(g),
               UNCHANGED <<running, parked, writer, exclusive, misuse>>
        PROVE IInv'
    <2>1. rest[g] # <<>> /\ g \notin parked
      BY <1>5 DEF NextOp, ParkedWait
    <2>2. /\ rest' \in [Goroutine -> Seq(Op)]
          /\ \A r \in Goroutine : r # g => rest'[r] = rest[r]
      BY <1>5, <2>1, AdvanceLemma DEF TypeOK
    <2>3. reads' \in [Goroutine -> Nat]
      BY <1>5 DEF TypeOK, InRead
    <2>4. TypeOK'
      BY <1>5, <2>2, <2>3 DEF TypeOK
    <2>5. IdleIsDone'
      BY <1>5, <2>1, <2>2 DEF IdleIsDone
    <2>6. ParkedWait'
      BY <1>5, <2>1, <2>2 DEF ParkedWait, NextOp, TypeOK
    <2>7. AnnouncedWaits'
      BY <1>5, <2>2 DEF AnnouncedWaits, NextOp, TypeOK
    <2>8. Exclusion'
      BY <1>5 DEF Exclusion, InRead, TypeOK
    <2> QED
      BY <2>4, <2>5, <2>6, <2>7, <2>8
  <1>6. ASSUME NEW g \in Goroutine, Announce(g) PROVE IInv'
    <2>1. writer = Nobody /\ ~exclusive /\ g # Nobody
      BY <1>6, NobodyAssumption DEF Announce, Exclusion
    <2>2. TypeOK' /\ IdleIsDone'
      BY <1>6 DEF Announce, TypeOK, IdleIsDone
    <2>3. ParkedWait' /\ AnnouncedWaits' /\ Exclusion'
      BY <1>6, <2>1 DEF Announce, ParkedWait, AnnouncedWaits, Exclusion, NextOp
    <2> QED
      BY <2>2, <2>3
  <1>7. ASSUME NEW g \in Goroutine, Enter(g) PROVE IInv'
    <2>1. rest[g] # <<>> /\ g \notin parked /\ g # Nobody
      BY <1>7, NobodyAssumption DEF Enter, NextOp, ParkedWait
    <2>2. /\ rest' \in [Goroutine -> Seq(Op)]
          /\ \A r \in Goroutine : r # g => rest'[r] = rest[r]
      BY <1>7, <2>1, AdvanceLemma DEF Enter, TypeOK
    <2>3. TypeOK'
      BY <1>7, <2>2 DEF Enter, TypeOK
    <2>4. IdleIsDone'
      BY <1>7, <2>1, <2>2 DEF Enter, IdleIsDone
    <2>5. ParkedWait'
      BY <1>7, <2>1, <2>2 DEF Enter, ParkedWait, NextOp, TypeOK
    <2>6. AnnouncedWaits' /\ Exclusion'
      BY <1>7, <2>1 DEF Enter, AnnouncedWaits, Exclusion, InRead
    <2> QED
      BY <2>3, <2>4, <2>5, <2>6
  <1>8. ASSUME NEW g \in Goroutine, Unlock(g) PROVE IInv'
    <2>1. /\ \A r \in parked \cup {g} : r \in Goroutine /\ rest[r] # <<>>
          /\ exclusive' = FALSE /\ writer' = Nobody /\ parked' = {}
          /\ running' = running /\ misuse' = misuse
      BY <1>8 DEF Unlock, NextOp, ParkedWait, TypeOK
    <2>2. \A r \in parked \cup {g} : Tail(rest[r]) \in Seq(Op)
      BY <2>1 DEF TypeOK
    <2>3. rest' \in [Goroutine -> Seq(Op)]
      BY <1>8, <2>2 DEF Unlock, TypeOK
    <2>4. reads' \in [Goroutine -> Nat]
      BY <1>8 DEF Unlock, TypeOK
    <2>5. TypeOK'
      BY <2>1, <2>3, <2>4 DEF TypeOK
    <2>6. \A r \in Goroutine \ (parked \cup {g}) : rest'[r] = rest[r]
      BY <1>8 DEF Unlock
    <2>7. IdleIsDone'
      BY <2>1, <2>6 DEF IdleIsDone
    <2>8. ParkedWait' /\ AnnouncedWaits' /\ Exclusion'
      BY <2>1 DEF ParkedWait, AnnouncedWaits, Exclusion
    <2> QED
      BY <2>5, <2>7, <2>8
  <1>9. ASSUME NEW g \in Goroutine, Misuse(g) PROVE IInv'
    <2>1. running[g] \in Handler
      <3>1. rest[g] # <<>>
        BY <1>9 DEF Misuse, NextOp
      <3> QED
        BY <3>1 DEF IdleIsDone, TypeOK
    <2>2. TypeOK' /\ IdleIsDone'
      BY <1>9, <2>1 DEF Misuse, TypeOK, IdleIsDone
    <2>3. ParkedWait' /\ AnnouncedWaits' /\ Exclusion'
      BY <1>9 DEF Misuse, ParkedWait, AnnouncedWaits, Exclusion, NextOp, InRead
    <2> QED
      BY <2>2, <2>3
  <1>10. ASSUME NEW g \in Goroutine, NEW op \in {"Mongo", "Peer"}, NextOp(g, op),
                Advance(g), UNCHANGED <<running, reads, parked, writer, exclusive, misuse>>
         PROVE IInv'
    <2>1. rest[g] # <<>> /\ g \notin parked /\ (writer = g => exclusive)
      BY <1>10, NobodyAssumption DEF NextOp, ParkedWait, AnnouncedWaits
    <2>2. /\ rest' \in [Goroutine -> Seq(Op)]
          /\ \A r \in Goroutine : r # g => rest'[r] = rest[r]
      BY <1>10, <2>1, AdvanceLemma DEF TypeOK
    <2>3. TypeOK'
      BY <1>10, <2>2 DEF TypeOK
    <2>4. IdleIsDone'
      BY <1>10, <2>1, <2>2 DEF IdleIsDone
    <2>5. ParkedWait'
      BY <1>10, <2>1, <2>2 DEF ParkedWait, NextOp, TypeOK
    <2>6. AnnouncedWaits'
      BY <1>10, <2>1, <2>2 DEF AnnouncedWaits, NextOp, TypeOK
    <2>7. Exclusion'
      BY <1>10 DEF Exclusion, InRead
    <2> QED
      BY <2>3, <2>4, <2>5, <2>6, <2>7
  <1>11. CASE UNCHANGED vars
    BY <1>11 DEF vars, TypeOK, IdleIsDone, ParkedWait, AnnouncedWaits, Exclusion,
                 NextOp, InRead
  <1>12. CASE Next
    <2>1. PICK g \in Goroutine : Start(g) \/ Work(g) \/ WritePeer(g)
      BY <1>12 DEF Next
    <2>2. CASE RUnlock(g)
      BY <1>5, <2>2 DEF RUnlock
    <2>3. CASE CallMongo(g) \/ WritePeer(g)
      BY <1>10, <2>3 DEF CallMongo, WritePeer
    <2> QED
      BY <1>1, <1>2, <1>3, <1>4, <1>6, <1>7, <1>8, <1>9, <2>1, <2>2, <2>3 DEF Work
  <1> QED
    BY <1>11, <1>12

\* The inductive invariant holds in every reachable state.
THEOREM Invariance == Spec => []IInv
  BY InitIInv, NextIInv, PTL DEF Spec

-----------------------------------------------------------------------------

\* The lists, the read counts and the owner of the mutex keep their types: no
\* unlock takes a read count below zero and no wake-up consumes an operation
\* of a goroutine that was not waiting.
THEOREM TypeCorrect == Spec => []TypeOK
  <1>1. IInv => TypeOK
    BY DEF IInv
  <1> QED
    BY <1>1, Invariance, PTL

\* A goroutine between Lock and Unlock is alone in the Store.
THEOREM MutualExclusion == Spec => []Exclusion
  <1>1. IInv => Exclusion
    BY DEF IInv
  <1> QED
    BY <1>1, Invariance, PTL

-----------------------------------------------------------------------------
(* Every step of the mutex is a step of ReadersWriter, or none.            *)

\* A goroutine whose next operation is neither an RLock nor a Lock waits for
\* nothing, and neither does one that takes either without having to wait.
LEMMA ActiveOnes ==
    ASSUME IInv, NEW g \in Goroutine
    PROVE  /\ NextOp(g, "RUnlock") \/ NextOp(g, "Unlock") => Mutex!Active(g)
           /\ NextOp(g, "RLock") /\ g \notin parked => Mutex!Active(g)
  <1>1. g \in parked => NextOp(g, "RLock")
    BY DEF IInv, ParkedWait
  <1>2. writer = g /\ ~exclusive => NextOp(g, "Lock")
    BY NobodyAssumption DEF IInv, AnnouncedWaits
  <1> QED
    BY <1>1, <1>2 DEF Mutex!Active, NextOp

\* One goroutine's step.
LEMMA StepIsLocks ==
    ASSUME IInv, NEW g \in Goroutine, Start(g) \/ Work(g) \/ WritePeer(g)
    PROVE  [Mutex!Next]_(Mutex!lock)
  <1>1. ASSUME Mutex!Share(g) \/ Mutex!Wait(g) \/ Mutex!Return(g) \/ Mutex!Close(g)
                  \/ Mutex!Own(g) \/ Mutex!Open(g)
        PROVE  Mutex!Next
    BY <1>1 DEF Mutex!Next
  <1>2. CASE Start(g) \/ Respond(g) \/ Misuse(g) \/ CallMongo(g) \/ WritePeer(g)
    BY <1>2 DEF Start, Respond, Misuse, CallMongo, WritePeer, Mutex!lock
  <1>3. CASE RLock(g)
    <2>1. Mutex!Share(g)
      BY <1>3 DEF RLock, Mutex!Share
    <2> QED
      BY <1>1, <2>1
  <1>4. CASE Park(g)
    <2>1. Mutex!Wait(g)
      BY <1>4, ActiveOnes DEF Park, Mutex!Wait
    <2> QED
      BY <1>1, <2>1
  <1>5. CASE RUnlock(g)
    <2>1. Mutex!Return(g)
      BY <1>5, ActiveOnes DEF RUnlock, InRead, Mutex!Return
    <2> QED
      BY <1>1, <2>1
  <1>6. CASE Announce(g)
    <2>1. Mutex!Close(g)
      BY <1>6 DEF Announce, Mutex!Close
    <2> QED
      BY <1>1, <2>1
  <1>7. CASE Enter(g)
    <2>1. \A r \in Goroutine : reads[r] = 0
      BY <1>7 DEF Enter, InRead, IInv, TypeOK
    <2>2. Mutex!Own(g)
      BY <1>7, <2>1 DEF Enter, Mutex!Own
    <2> QED
      BY <1>1, <2>2
  <1>8. CASE Unlock(g)
    <2>1. Mutex!Open(g)
      BY <1>8, ActiveOnes DEF Unlock, InWrite, Mutex!Open
    <2> QED
      BY <1>1, <2>1
  <1> QED
    BY <1>2, <1>3, <1>4, <1>5, <1>6, <1>7, <1>8 DEF Work

\* Whatever lists of operations the handlers run, and whether they bracket them
\* or not, the mutex is the lock of ReadersWriter.
THEOREM Refinement == Spec => ImplementsReadersWriter
  <1>1. Init => Mutex!Init
    BY DEF Init, Mutex!Init
  <1>2. IInv /\ [Next]_vars => [Mutex!Next]_(Mutex!lock)
    <2>1. UNCHANGED vars => UNCHANGED Mutex!lock
      BY DEF vars, Mutex!lock
    <2> QED
      BY <2>1, StepIsLocks DEF Next
  <1> QED
    BY <1>1, <1>2, Invariance, PTL DEF Spec, ImplementsReadersWriter, Mutex!Spec

-----------------------------------------------------------------------------
(* Who waits for whom.                                                     *)

\* A goroutine that holds the lock and cannot move waits for itself.
LEMMA HolderBlocked ==
    ASSUME IInv, NEW g \in Goroutine, Holds(g), Blocked(g)
    PROVE  SelfDeadlocked(g)
  <1>1. NextOp(g, "Lock") \/ (NextOp(g, "RLock") /\ g \in parked)
    BY DEF Blocked
  <1>2. g \in parked => writer # Nobody
    BY DEF IInv, ParkedWait
  <1> QED
    BY <1>1, <1>2 DEF SelfDeadlocked

\* Whatever the handlers do, the program can only stop on the mutex through
\* ONE goroutine: one that waits for itself, or one that returned holding it.
THEOREM NoCycleOfGoroutines == Spec => []WedgeNeedsReentry
  <1>1. IInv => WedgeNeedsReentry
    <2> SUFFICES ASSUME IInv, NEW b \in Goroutine, Blocked(b)
                 PROVE  \/ \E g \in Goroutine : (Holds(g) \/ writer = g) /\ ~Blocked(g) /\ rest[g] # <<>>
                        \/ \E g \in Goroutine : SelfDeadlocked(g)
                        \/ \E g \in Goroutine : Holds(g) /\ rest[g] = <<>>
      BY DEF WedgeNeedsReentry
    <2>1. writer \in Goroutine
      <3>1. writer # Nobody
        BY NobodyAssumption DEF Blocked, IInv, ParkedWait
      <3> QED
        BY <3>1 DEF IInv, TypeOK
    <2>2. ASSUME NEW g \in Goroutine, Holds(g)
          PROVE  \/ Holds(g) /\ ~Blocked(g) /\ rest[g] # <<>>
                 \/ SelfDeadlocked(g)
                 \/ Holds(g) /\ rest[g] = <<>>
      BY <2>2, HolderBlocked
    <2>3. CASE exclusive
      <3>1. Holds(writer)
        BY <2>3 DEF Holds, InWrite
      <3> QED
        BY <2>1, <2>2, <3>1
    <2>4. CASE \E r \in Goroutine : InRead(r)
      <3>1. PICK r \in Goroutine : InRead(r)
        BY <2>4
      <3>2. Holds(r)
        BY <3>1 DEF Holds
      <3> QED
        BY <2>2, <3>2
    <2>5. CASE ~exclusive /\ \A r \in Goroutine : ~InRead(r)
      <3>1. NextOp(writer, "Lock")
        BY <2>1, <2>5, NobodyAssumption DEF IInv, AnnouncedWaits
      <3>2. ~Blocked(writer) /\ rest[writer] # <<>>
        BY <2>1, <2>5, <3>1 DEF Blocked, NextOp
      <3> QED
        BY <2>1, <3>2
    <2> QED
      BY <2>3, <2>4, <2>5
  <1> QED
    BY <1>1, Invariance, PTL

-----------------------------------------------------------------------------
(***************************************************************************)
(* Lists of lock operations that keep the rules.                           *)
(***************************************************************************)

\* What a goroutine holds, as a number: that many read locks, or -1 for the
\* write lock.
Grip(g) == IF InWrite(g) THEN -1 ELSE reads[g]

\* Whether somebody who holds k can get through op when nobody else is in the
\* way ...
Can(k, op) ==
    CASE op = "RLock"   -> k >= 0
      [] op = "RUnlock" -> k > 0
      [] op = "Lock"    -> k = 0
      [] op = "Unlock"  -> k = -1
      [] OTHER          -> TRUE

\* ... and what it holds afterwards.
After(k, op) ==
    CASE op = "RLock"   -> k + 1
      [] op = "RUnlock" -> k - 1
      [] op = "Lock"    -> -1
      [] op = "Unlock"  -> 0
      [] OTHER          -> k

\* Handler h may stand before op while it holds k.
Obeys(h, k, op) ==
    /\ op \in {"Lock", "RLock"} /\ k = -1 => h \in ReenterWriting
    /\ op \in {"Lock", "RLock"} /\ k > 0 => h \in ReenterReading
    /\ op \in {"Unlock", "RUnlock"} /\ ~Can(k, op) => h \in UnlockTwice
    /\ op = "Peer" /\ k # 0 => h \in WritePeerLocked

\* A set of pairs of what is held and what is left to do, such that whoever is
\* at one of them obeys and gets to another, until nothing is left and it
\* holds j.
Closed(h, L, j) ==
    \A i \in Int, q \in Seq(Op) : <<i, q>> \in L =>
        IF q = <<>> THEN i = j
        ELSE /\ Obeys(h, i, Head(q))
             /\ Can(i, Head(q)) => <<After(i, Head(q)), Tail(q)>> \in L

\* In handler h the list p keeps the rules from k on, and leaves h with j
\* unless it gets stuck.  Such a set stands for the recursion over p.
Leads(h, k, p, j) ==
    \E L \in SUBSET (Int \X Seq(Op)) : <<k, p>> \in L /\ Closed(h, L, j)

Keeps(h, k, p) == Leads(h, k, p, 0)

\* What is held stays a number.
LEMMA AfterType ==
    ASSUME NEW k \in Int, NEW op PROVE After(k, op) \in Int
  BY DEF After

\* The head of a concatenation, and what is left of it.
LEMMA Uncons ==
    ASSUME NEW r \in Seq(Op), NEW q \in Seq(Op), r # <<>>
    PROVE  /\ r \o q \in Seq(Op)
           /\ r \o q # <<>>
           /\ Head(r \o q) = Head(r)
           /\ Tail(r \o q) = Tail(r) \o q
           /\ Tail(r) \in Seq(Op)
           /\ Head(r) \in Op
  <1>1. Len(r) \in Nat \ {0} /\ Len(r \o q) = Len(r) + Len(q) /\ Len(q) \in Nat
    OBVIOUS
  <1>2. r \o q \in Seq(Op) /\ r \o q # <<>> /\ Tail(r) \in Seq(Op) /\ Head(r) \in Op
    BY <1>1
  <1>3. Head(r \o q) = Head(r)
    BY <1>1
  <1>4. Tail(r \o q) = Tail(r) \o q
    BY <1>1, <1>2
  <1> QED
    BY <1>2, <1>3, <1>4

\* The first operation of a list that keeps the rules obeys, and the rest of
\* the list keeps them.
LEMMA LeadsStep ==
    ASSUME NEW h, NEW k, NEW p, NEW j, Leads(h, k, p, j)
    PROVE  /\ k \in Int /\ p \in Seq(Op)
           /\ p = <<>> => k = j
           /\ p # <<>> => /\ Obeys(h, k, Head(p))
                          /\ Can(k, Head(p)) => Leads(h, After(k, Head(p)), Tail(p), j)
  <1>1. PICK L \in SUBSET (Int \X Seq(Op)) : <<k, p>> \in L /\ Closed(h, L, j)
    BY DEF Leads
  <1>2. k \in Int /\ p \in Seq(Op)
    BY <1>1
  <1> QED
    BY <1>1, <1>2 DEF Closed, Leads

\* Doing nothing keeps the rules.
LEMMA LeadsNowhere ==
    ASSUME NEW h, NEW k \in Int PROVE Leads(h, k, <<>>, k)
  <1> DEFINE L == {<<k, <<>> >>}
  <1>1. <<>> \in Seq(Op)
    OBVIOUS
  <1>2. \A q \in Seq(Op) : {<<k, q>>} \in SUBSET (Int \X Seq(Op)) /\ <<k, q>> \in {<<k, q>>}
    OBVIOUS
  <1>3. Closed(h, L, k)
    BY DEF Closed
  <1> QED
    BY <1>1, <1>2, <1>3 DEF Leads

\* One operation before a list, or instead of one where it cannot be passed.
LEMMA LeadsCons ==
    ASSUME NEW h, NEW k \in Int, NEW p \in Seq(Op), NEW j, p # <<>>,
           Obeys(h, k, Head(p)),
           Can(k, Head(p)) => Leads(h, After(k, Head(p)), Tail(p), j)
    PROVE  Leads(h, k, p, j)
  <1>1. {<<k, p>>} \in SUBSET (Int \X Seq(Op))
    OBVIOUS
  <1>2. CASE ~Can(k, Head(p))
    <2>1. Closed(h, {<<k, p>>}, j)
      BY <1>2 DEF Closed
    <2> QED
      BY <1>1, <2>1 DEF Leads
  <1>3. CASE Can(k, Head(p))
    <2>1. PICK L \in SUBSET (Int \X Seq(Op)) :
             <<After(k, Head(p)), Tail(p)>> \in L /\ Closed(h, L, j)
      BY <1>3 DEF Leads
    <2>2. Closed(h, L \cup {<<k, p>>}, j)
      BY <2>1 DEF Closed
    <2>3. L \cup {<<k, p>>} \in SUBSET (Int \X Seq(Op))
      BY <1>1
    <2> QED
      BY <2>2, <2>3 DEF Leads
  <1> QED
    BY <1>2, <1>3

\* One list after another.
LEMMA LeadsOn ==
    ASSUME NEW h, NEW k, NEW p, NEW m, NEW q, NEW j,
           Leads(h, k, p, m), Leads(h, m, q, j)
    PROVE  Leads(h, k, p \o q, j)
  <1>1. PICK P \in SUBSET (Int \X Seq(Op)) : <<k, p>> \in P /\ Closed(h, P, m)
    BY DEF Leads
  <1>2. PICK Q \in SUBSET (Int \X Seq(Op)) : <<m, q>> \in Q /\ Closed(h, Q, j)
    BY DEF Leads
  <1>3. k \in Int /\ p \in Seq(Op) /\ m \in Int /\ q \in Seq(Op)
    BY <1>1, <1>2
  <1> DEFINE L == {e \in Int \X Seq(Op) : \/ e \in Q
                                          \/ \E i \in Int, r \in Seq(Op) :
                                                <<i, r>> \in P /\ e = <<i, r \o q>>}
  <1>4. \A r \in Seq(Op) : r \o q \in Seq(Op)
    BY <1>3
  <1>5. <<k, p \o q>> \in L
    BY <1>1, <1>3, <1>4
  <1>6. ASSUME NEW i \in Int, NEW s \in Seq(Op), <<i, s>> \in L
        PROVE  IF s = <<>> THEN i = j
               ELSE /\ Obeys(h, i, Head(s))
                    /\ Can(i, Head(s)) => <<After(i, Head(s)), Tail(s)>> \in L
    <2>1. CASE <<i, s>> \in Q
      BY <1>2, <2>1 DEF Closed
    <2>2. CASE \E r \in Seq(Op) : r # <<>> /\ <<i, r>> \in P /\ s = r \o q
      <3>1. PICK r \in Seq(Op) : r # <<>> /\ <<i, r>> \in P /\ s = r \o q
        BY <2>2
      <3>2. /\ s # <<>> /\ Head(s) = Head(r) /\ Tail(s) = Tail(r) \o q
            /\ Tail(r) \in Seq(Op)
        BY <1>3, <3>1, Uncons
      <3>3. /\ Obeys(h, i, Head(s))
            /\ Can(i, Head(s)) => <<After(i, Head(s)), Tail(r)>> \in P
        BY <1>1, <3>1, <3>2 DEF Closed
      <3>4. After(i, Head(s)) \in Int
        BY AfterType
      <3>5. Can(i, Head(s)) => <<After(i, Head(s)), Tail(s)>> \in L
        BY <1>4, <3>2, <3>3, <3>4
      <3> QED
        BY <3>2, <3>3, <3>5
    <2>3. CASE <<i, <<>> >> \in P /\ s = <<>> \o q
      <3>1. i = m
        BY <1>1, <2>3 DEF Closed
      <3>2. s = q
        BY <1>3, <2>3
      <3> QED
        BY <1>2, <2>1, <3>1, <3>2
    <2> QED
      <3>1. CASE \E a \in Int, r \in Seq(Op) : <<a, r>> \in P /\ <<i, s>> = <<a, r \o q>>
        <4>1. PICK r \in Seq(Op) : <<i, r>> \in P /\ s = r \o q
          BY <3>1
        <4> QED
          BY <2>2, <2>3, <4>1
      <3> QED
        BY <1>6, <2>1, <3>1
  <1>7. Closed(h, L, j)
    BY <1>6 DEF Closed
  <1> QED
    BY <1>5, <1>7 DEF Leads
\* Lists given in full, operation by operation.
LEMMA LeadsOne ==
    ASSUME NEW h, NEW k \in Int, NEW a \in Op, NEW j, Obeys(h, k, a),
           Can(k, a) => j = After(k, a)
    PROVE  Leads(h, k, <<a>>, j)
  <1>1. <<a>> \in Seq(Op) /\ <<a>> # <<>> /\ Head(<<a>>) = a /\ Tail(<<a>>) = <<>>
    OBVIOUS
  <1>2. Can(k, a) => Leads(h, After(k, a), <<>>, j)
    BY AfterType, LeadsNowhere
  <1> QED
    BY <1>1, <1>2, LeadsCons

LEMMA LeadsTwo ==
    ASSUME NEW h, NEW k \in Int, NEW a \in Op, NEW b \in Op, NEW j, Obeys(h, k, a),
           Can(k, a) => Leads(h, After(k, a), <<b>>, j)
    PROVE  Leads(h, k, <<a, b>>, j)
  <1>1. <<a, b>> \in Seq(Op) /\ <<a, b>> # <<>> /\ Head(<<a, b>>) = a /\ Tail(<<a, b>>) = <<b>>
    OBVIOUS
  <1> QED
    BY <1>1, LeadsCons

LEMMA LeadsThree ==
    ASSUME NEW h, NEW k \in Int, NEW a \in Op, NEW b \in Op, NEW c \in Op, NEW j,
           Obeys(h, k, a), Can(k, a) => Leads(h, After(k, a), <<b, c>>, j)
    PROVE  Leads(h, k, <<a, b, c>>, j)
  <1>1. /\ <<a, b, c>> \in Seq(Op) /\ <<a, b, c>> # <<>>
        /\ Head(<<a, b, c>>) = a /\ Tail(<<a, b, c>>) = <<b, c>>
    OBVIOUS
  <1> QED
    BY <1>1, LeadsCons

\* Concatenation is associative.
LEMMA Assoc ==
    ASSUME NEW p \in Seq(Op), NEW q \in Seq(Op), NEW s \in Seq(Op)
    PROVE  (p \o q) \o s = p \o (q \o s) /\ q \o s \in Seq(Op)
  OBVIOUS

\* When each operation is in order, and what it does to what is held.
LEMMA Operations ==
    ASSUME NEW h
    PROVE  /\ Obeys(h, 0, "RLock") /\ After(0, "RLock") = 1
           /\ Obeys(h, 1, "RUnlock") /\ Can(1, "RUnlock") /\ After(1, "RUnlock") = 0
           /\ Obeys(h, 0, "Lock") /\ Can(0, "Lock") /\ After(0, "Lock") = -1
           /\ Obeys(h, -1, "Unlock") /\ Can(-1, "Unlock") /\ After(-1, "Unlock") = 0
           /\ Obeys(h, -1, "Mongo") /\ After(-1, "Mongo") = -1
           /\ \A k \in Int : Can(k, "Peer") /\ After(k, "Peer") = k
           /\ Obeys(h, 0, "Peer")
           /\ h \in WritePeerLocked => Obeys(h, -1, "Peer") /\ Obeys(h, 1, "Peer")
           /\ h \in ReenterReading => /\ Obeys(h, 1, "RLock") /\ After(1, "RLock") = 2
                                      /\ Obeys(h, 2, "RUnlock") /\ Can(2, "RUnlock")
                                      /\ After(2, "RUnlock") = 1
           /\ h \in ReenterWriting => Obeys(h, -1, "RLock") /\ ~Can(-1, "RLock")
           /\ h \in UnlockTwice => Obeys(h, 0, "Unlock") /\ ~Can(0, "Unlock")
  BY DEF Can, After, Obeys

\* Single operations of a handler's own.
LEMMA Singles ==
    ASSUME NEW h
    PROVE  /\ Leads(h, 0, <<"RLock">>, 1) /\ Leads(h, 1, <<"RUnlock">>, 0)
           /\ Leads(h, 0, <<"Lock">>, -1) /\ Leads(h, -1, <<"Unlock">>, 0)
           /\ h \in WritePeerLocked => Leads(h, -1, <<"Peer">>, -1)
           /\ h \in UnlockTwice => Leads(h, 0, <<"Unlock">>, 0)
  <1>1. "RLock" \in Op /\ "RUnlock" \in Op /\ "Lock" \in Op /\ "Unlock" \in Op /\ "Peer" \in Op
    BY DEF Op
  <1>2. Leads(h, 0, <<"RLock">>, 1)
    <2>1. Obeys(h, 0, "RLock") /\ After(0, "RLock") = 1
      BY Operations
    <2> QED
      BY <1>1, <2>1, LeadsOne
  <1>3. Leads(h, 1, <<"RUnlock">>, 0)
    <2>1. Obeys(h, 1, "RUnlock") /\ After(1, "RUnlock") = 0
      BY Operations
    <2> QED
      BY <1>1, <2>1, LeadsOne
  <1>4. Leads(h, 0, <<"Lock">>, -1) /\ Leads(h, -1, <<"Unlock">>, 0)
    <2>1. Obeys(h, 0, "Lock") /\ After(0, "Lock") = -1
      BY Operations
    <2>2. Obeys(h, -1, "Unlock") /\ After(-1, "Unlock") = 0
      BY Operations
    <2>3. Leads(h, 0, <<"Lock">>, -1)
      BY <1>1, <2>1, LeadsOne
    <2>4. Leads(h, -1, <<"Unlock">>, 0)
      BY <1>1, <2>2, LeadsOne
    <2> QED
      BY <2>3, <2>4
  <1>5. ASSUME h \in WritePeerLocked PROVE Leads(h, -1, <<"Peer">>, -1)
    <2>1. Obeys(h, -1, "Peer") /\ Can(-1, "Peer") /\ After(-1, "Peer") = -1
      BY <1>5, Operations
    <2> QED
      BY <1>1, <2>1, LeadsOne
  <1>6. ASSUME h \in UnlockTwice PROVE Leads(h, 0, <<"Unlock">>, 0)
    BY <1>1, <1>6, Operations, LeadsOne
  <1> QED
    BY <1>2, <1>3, <1>4, <1>5, <1>6

\* Sections of a Store method: with no lock held, in every handler; inside a
\* section of the handler's own, only where the rules name it.
LEMMA Sections ==
    ASSUME NEW h
    PROVE  /\ R \in Seq(Op) /\ W \in Seq(Op)
           /\ Keeps(h, 0, <<>>) /\ Keeps(h, 0, R) /\ Keeps(h, 0, W)
           /\ h \in ReenterReading => Leads(h, 1, R, 1)
           /\ h \in ReenterWriting => \A j : Leads(h, -1, R, j)
  <1>1. Keeps(h, 0, <<>>)
    BY LeadsNowhere DEF Keeps
  <1>2. "RLock" \in Op /\ "RUnlock" \in Op /\ "Lock" \in Op /\ "Unlock" \in Op
    BY DEF Op
  <1>3. R \in Seq(Op) /\ W \in Seq(Op) /\ R # <<>> /\ Head(R) = "RLock"
    BY <1>2 DEF R, W
  <1>4. Keeps(h, 0, R)
    <2>1. Obeys(h, 0, "RLock") /\ Leads(h, After(0, "RLock"), <<"RUnlock">>, 0)
      BY Operations, Singles
    <2>2. Leads(h, 0, <<"RLock", "RUnlock">>, 0)
      BY <1>2, <2>1, LeadsTwo
    <2> QED
      BY <2>2 DEF Keeps, R
  <1>5. Keeps(h, 0, W)
    <2>1. Obeys(h, 0, "Lock") /\ Leads(h, After(0, "Lock"), <<"Unlock">>, 0)
      BY Operations, Singles
    <2>2. Leads(h, 0, <<"Lock", "Unlock">>, 0)
      BY <1>2, <2>1, LeadsTwo
    <2> QED
      BY <2>2 DEF Keeps, W
  <1>6. ASSUME h \in ReenterReading PROVE Leads(h, 1, R, 1)
    <2>1. Leads(h, 2, <<"RUnlock">>, 1)
      BY <1>2, <1>6, Operations, LeadsOne
    <2> QED
      BY <1>2, <1>6, <2>1, Operations, LeadsTwo DEF R
  <1>7. ASSUME h \in ReenterWriting, NEW j PROVE Leads(h, -1, R, j)
    BY <1>3, <1>7, Operations, LeadsCons
  <1> QED
    BY <1>1, <1>3, <1>4, <1>5, <1>6, <1>7

\* A section after what keeps the rules, or before it.
LEMMA Combine ==
    ASSUME NEW h, NEW p, NEW q, Keeps(h, 0, p), Keeps(h, 0, q)
    PROVE  Keeps(h, 0, p \o q)
  BY LeadsOn DEF Keeps

\* The same for all the paths of a set.
LEMMA CombineAll ==
    ASSUME NEW h, NEW p, NEW S, Keeps(h, 0, p), \A s \in S : Keeps(h, 0, s)
    PROVE  \A s \in Then(p, S) : Keeps(h, 0, s)
  <1> SUFFICES ASSUME NEW s \in S PROVE Keeps(h, 0, p \o s)
    BY DEF Then
  <1> QED
    BY Combine

\* The sections in front of a handler's own.
LEMMA SessionKeeps ==
    ASSUME NEW h, NEW S, \A p \in S : Keeps(h, 0, p)
    PROVE  /\ \A p \in Session(S) : Keeps(h, 0, p)
           /\ \A p \in SessionUser(S) : Keeps(h, 0, p)
  <1>1. ASSUME NEW T, \A p \in T : Keeps(h, 0, p)
        PROVE  \A p \in Session(T) : Keeps(h, 0, p)
    <2>1. \A p \in Then(R, T) : Keeps(h, 0, p)
      BY <1>1, Sections, CombineAll
    <2> QED
      BY <2>1, Sections DEF Session
  <1>2. \A p \in Then(R, S) : Keeps(h, 0, p)
    BY Sections, CombineAll
  <1>3. \A p \in {R} \cup Then(R, S) : Keeps(h, 0, p)
    BY <1>2, Sections
  <1> QED
    BY <1>1, <1>3 DEF SessionUser

-----------------------------------------------------------------------------
(* Every path of every handler keeps the rules.                            *)

\* The lists the handlers give in full.
LEMMA Literals ==
    ASSUME NEW h
    PROVE  /\ Keeps(h, 0, <<"Lock", "Mongo", "Unlock">>)
           /\ Leads(h, 0, <<"Peer", "Lock">>, -1)
           /\ h \in WritePeerLocked => /\ Keeps(h, 0, <<"Lock", "Peer", "Unlock">>)
                                       /\ Keeps(h, 0, <<"RLock", "Peer", "RUnlock">>)
                                       /\ Leads(h, 1, <<"Peer", "RUnlock">>, 0)
  <1>1. /\ "RLock" \in Op /\ "RUnlock" \in Op /\ "Lock" \in Op /\ "Unlock" \in Op
        /\ "Peer" \in Op /\ "Mongo" \in Op
    BY DEF Op
  <1>2. Keeps(h, 0, <<"Lock", "Mongo", "Unlock">>)
    <2>1. Obeys(h, -1, "Mongo") /\ Leads(h, After(-1, "Mongo"), <<"Unlock">>, 0)
      BY Operations, Singles
    <2>2. Leads(h, -1, <<"Mongo", "Unlock">>, 0)
      BY <1>1, <2>1, LeadsTwo
    <2>3. Obeys(h, 0, "Lock") /\ Leads(h, After(0, "Lock"), <<"Mongo", "Unlock">>, 0)
      BY <2>2, Operations
    <2> QED
      BY <1>1, <2>3, LeadsThree DEF Keeps
  <1>3. Leads(h, 0, <<"Peer", "Lock">>, -1)
    <2>1. Obeys(h, 0, "Peer") /\ After(0, "Peer") = 0
      BY Operations
    <2>2. Leads(h, After(0, "Peer"), <<"Lock">>, -1)
      BY <2>1, Singles
    <2> QED
      BY <1>1, <2>1, <2>2, LeadsTwo
  <1>4. ASSUME h \in WritePeerLocked
        PROVE  Keeps(h, 0, <<"Lock", "Peer", "Unlock">>)
    <2>1. Obeys(h, -1, "Peer") /\ After(-1, "Peer") = -1
      BY <1>4, Operations
    <2>2. Leads(h, After(-1, "Peer"), <<"Unlock">>, 0)
      BY <2>1, Singles
    <2>3. Leads(h, -1, <<"Peer", "Unlock">>, 0)
      BY <1>1, <2>1, <2>2, LeadsTwo
    <2>4. Obeys(h, 0, "Lock") /\ Leads(h, After(0, "Lock"), <<"Peer", "Unlock">>, 0)
      BY <2>3, Operations
    <2> QED
      BY <1>1, <2>4, LeadsThree DEF Keeps
  <1>5. ASSUME h \in WritePeerLocked
        PROVE  /\ Keeps(h, 0, <<"RLock", "Peer", "RUnlock">>)
               /\ Leads(h, 1, <<"Peer", "RUnlock">>, 0)
    <2>1. Obeys(h, 1, "Peer") /\ After(1, "Peer") = 1
      BY <1>5, Operations
    <2>2. Leads(h, After(1, "Peer"), <<"RUnlock">>, 0)
      BY <2>1, Singles
    <2>3. Leads(h, 1, <<"Peer", "RUnlock">>, 0)
      BY <1>1, <2>1, <2>2, LeadsTwo
    <2>4. Obeys(h, 0, "RLock") /\ Leads(h, After(0, "RLock"), <<"Peer", "RUnlock">>, 0)
      BY <2>3, Operations
    <2>5. Leads(h, 0, <<"RLock", "Peer", "RUnlock">>, 0)
      BY <1>1, <2>4, LeadsThree
    <2> QED
      BY <2>3, <2>5 DEF Keeps
  <1> QED
    BY <1>2, <1>3, <1>4, <1>5

\* Handlers that use the lock one section at a time, whatever their name.
LEMMA PlainHandlers ==
    ASSUME NEW h
    PROVE  \A p \in PayRent \cup UpdateProperty \cup DeleteRegion : Keeps(h, 0, p)
  <1>1. /\ Keeps(h, 0, R \o R) /\ Keeps(h, 0, R \o R \o W \o W)
        /\ Keeps(h, 0, W \o W)
    BY Sections, Combine
  <1>2. \A p \in PayRent : Keeps(h, 0, p)
    <2>1. \A p \in {R, R \o R, R \o R \o W \o W} : Keeps(h, 0, p)
      BY <1>1, Sections
    <2> QED
      BY <2>1, SessionKeeps DEF PayRent
  <1>3. \A p \in UpdateProperty : Keeps(h, 0, p)
    <2>1. \A p \in {W, W \o W} : Keeps(h, 0, p)
      BY <1>1, Sections
    <2> QED
      BY <2>1, SessionKeeps DEF UpdateProperty
  <1>4. \A p \in DeleteRegion : Keeps(h, 0, p)
    <2>1. \A p \in DeleteRecord : Keeps(h, 0, p)
      BY Sections, Literals DEF DeleteRecord
    <2>2. \A p \in Then(R, DeleteRecord) : Keeps(h, 0, p)
      BY <2>1, Sections, CombineAll
    <2>3. \A p \in {R} \cup Then(R, DeleteRecord) : Keeps(h, 0, p)
      BY <2>2, Sections
    <2> QED
      BY <2>3, SessionKeeps DEF DeleteRegion
  <1> QED
    BY <1>2, <1>3, <1>4

\* Handlers that write to a peer inside a section.
LEMMA PeerHandlers ==
    /\ \A p \in ListKYCQueues : Keeps("ListKYCQueues", 0, p)
    /\ \A p \in DebugDB : Keeps("DebugDB", 0, p)
    /\ \A p \in DebugListInvitations : Keeps("DebugListInvitations", 0, p)
    /\ \A p \in ListingReviewWorker : Keeps("ListingReviewWorker", 0, p)
  <1>1. \A p \in ListKYCQueues : Keeps("ListKYCQueues", 0, p)
    <2>1. "ListKYCQueues" \in WritePeerLocked
      BY DEF WritePeerLocked
    <2>2. \A p \in {<<"Lock", "Peer", "Unlock">>} : Keeps("ListKYCQueues", 0, p)
      BY <2>1, Literals
    <2> QED
      BY <2>2, SessionKeeps DEF ListKYCQueues
  <1>2. /\ \A p \in DebugDB : Keeps("DebugDB", 0, p)
        /\ \A p \in DebugListInvitations : Keeps("DebugListInvitations", 0, p)
    <2>1. "DebugDB" \in WritePeerLocked /\ "DebugListInvitations" \in WritePeerLocked
      BY DEF WritePeerLocked
    <2> QED
      BY <2>1, Literals DEF DebugDB, DebugListInvitations
  <1>3. \A p \in ListingReviewWorker : Keeps("ListingReviewWorker", 0, p)
    <2> DEFINE h == "ListingReviewWorker"
    <2>1. h \in WritePeerLocked
      BY DEF WritePeerLocked
    <2> HIDE DEF h
    <2> DEFINE Listing == {<<>>, <<"Peer">>, <<"Unlock">> \o W \o <<"Peer", "Lock">>}
    <2>2. ASSUME NEW x \in Listing PROVE Leads(h, -1, x, -1)
      <3>1. Leads(h, -1, <<>>, -1)
        BY LeadsNowhere
      <3>2. Leads(h, -1, <<"Peer">>, -1)
        BY <2>1, Singles
      <3>3. Leads(h, -1, <<"Unlock">>, 0) /\ Leads(h, 0, W, 0)
        BY Singles, Sections DEF Keeps
      <3>4. Leads(h, -1, <<"Unlock">> \o W, 0)
        BY <3>3, LeadsOn
      <3>5. Leads(h, -1, <<"Unlock">> \o W \o <<"Peer", "Lock">>, -1)
        BY <3>4, Literals, LeadsOn
      <3> QED
        BY <3>1, <3>2, <3>5
    <2>3. ASSUME NEW x \in Listing, NEW y \in Listing
          PROVE  Keeps(h, 0, <<"Lock">> \o x \o y \o <<"Unlock">>)
      <3>1. Leads(h, -1, x, -1) /\ Leads(h, -1, y, -1)
        BY <2>2
      <3>2. Leads(h, 0, <<"Lock">>, -1) /\ Leads(h, -1, <<"Unlock">>, 0)
        BY Singles
      <3>3. Leads(h, 0, <<"Lock">> \o x, -1)
        BY <3>1, <3>2, LeadsOn
      <3>4. Leads(h, 0, <<"Lock">> \o x \o y, -1)
        BY <3>1, <3>3, LeadsOn
      <3>5. Leads(h, 0, <<"Lock">> \o x \o y \o <<"Unlock">>, 0)
        BY <3>2, <3>4, LeadsOn
      <3> QED
        BY <3>5 DEF Keeps
    <2>4. ASSUME NEW p \in ListingReviewWorker PROVE Keeps(h, 0, p)
      <3>1. ListingReviewWorker =
               {<<"Lock">> \o x \o y \o <<"Unlock">> : x \in Listing, y \in Listing}
        BY DEF ListingReviewWorker
      <3> HIDE DEF Listing
      <3>2. PICK x \in Listing, y \in Listing : p = <<"Lock">> \o x \o y \o <<"Unlock">>
        BY <2>4, <3>1
      <3> QED
        BY <2>3, <3>2
    <2> QED
      BY <2>4 DEF h
  <1> QED
    BY <1>1, <1>2, <1>3

\* A getter called under the read lock.
LEMMA GetterReading ==
    ASSUME NEW h \in ReenterReading
    PROVE  /\ Leads(h, 0, <<"RLock">> \o R, 1)
           /\ Keeps(h, 0, <<"RLock">> \o R \o <<"RUnlock">>)
           /\ h \in WritePeerLocked => Keeps(h, 0, <<"RLock">> \o R \o <<"Peer", "RUnlock">>)
  <1>1. Leads(h, 0, <<"RLock">>, 1) /\ Leads(h, 1, R, 1) /\ Leads(h, 1, <<"RUnlock">>, 0)
    BY Singles, Sections
  <1>2. Leads(h, 0, <<"RLock">> \o R, 1)
    BY <1>1, LeadsOn
  <1>3. Leads(h, 0, <<"RLock">> \o R \o <<"RUnlock">>, 0)
    BY <1>1, <1>2, LeadsOn
  <1>4. ASSUME h \in WritePeerLocked
        PROVE  Leads(h, 0, <<"RLock">> \o R \o <<"Peer", "RUnlock">>, 0)
    <2>1. Leads(h, 1, <<"Peer", "RUnlock">>, 0)
      BY <1>4, Literals
    <2> QED
      BY <1>2, <2>1, LeadsOn
  <1> QED
    BY <1>2, <1>3, <1>4 DEF Keeps

\* Handlers that call a getter under the read lock.
LEMMA ReadingHandlers ==
    /\ \A p \in ListDisputes : Keeps("ListDisputes", 0, p)
    /\ \A p \in GetDashboardStats : Keeps("GetDashboardStats", 0, p)
    /\ \A p \in ListStaff : Keeps("ListStaff", 0, p)
    /\ \A p \in VerifyToken : Keeps("VerifyToken", 0, p)
  <1>1. ASSUME NEW h \in {"ListDisputes", "GetDashboardStats"}
        PROVE  \A p \in SessionUser({<<"RLock", "Peer", "RUnlock">>,
                                     <<"RLock">> \o R \o <<"Peer", "RUnlock">>}) : Keeps(h, 0, p)
    <2>1. h \in ReenterReading /\ h \in WritePeerLocked
      BY DEF ReenterReading, WritePeerLocked
    <2>2. Keeps(h, 0, <<"RLock", "Peer", "RUnlock">>)
      BY <2>1, Literals
    <2>3. Keeps(h, 0, <<"RLock">> \o R \o <<"Peer", "RUnlock">>)
      BY <2>1, GetterReading
    <2>4. \A p \in {<<"RLock", "Peer", "RUnlock">>, <<"RLock">> \o R \o <<"Peer", "RUnlock">>} :
             Keeps(h, 0, p)
      BY <2>2, <2>3
    <2> QED
      BY <2>4, SessionKeeps
  <1>2. \A p \in ListStaff : Keeps("ListStaff", 0, p)
    <2> DEFINE h == "ListStaff"
    <2>1. h \in ReenterReading
      BY DEF ReenterReading
    <2> HIDE DEF h
    <2> DEFINE Repair == {<<>>, R, R \o R, R \o R \o R \o W}
               Member == {<<>>, <<"RLock">> \o R \o <<"RUnlock">> \o R \o R \o R \o R}
    <2>2. \A x \in Repair : Keeps(h, 0, x)
      BY Sections, Combine
    <2>3. \A y \in Member : Keeps(h, 0, y)
      <3>1. Keeps(h, 0, <<"RLock">> \o R \o <<"RUnlock">>)
        BY <2>1, GetterReading
      <3> QED
        BY <3>1, Sections, Combine
    <2>4. ASSUME NEW x \in Repair, NEW y \in Member
          PROVE  Keeps(h, 0, R \o x \o R \o y)
      <3> HIDE DEF Repair, Member
      <3>1. Keeps(h, 0, x) /\ Keeps(h, 0, y)
        BY <2>2, <2>3
      <3> QED
        BY <3>1, Sections, Combine
    <2> DEFINE S == {R \o x \o R \o y : x \in Repair, y \in Member}
    <2>5. ASSUME NEW p \in S PROVE Keeps(h, 0, p)
      <3> HIDE DEF Repair, Member
      <3>1. PICK x \in Repair, y \in Member : p = R \o x \o R \o y
        OBVIOUS
      <3> QED
        BY <2>4, <3>1
    <2>6. ListStaff = Session(S)
      BY DEF ListStaff
    <2> HIDE DEF S
    <2>7. \A p \in Session(S) : Keeps(h, 0, p)
      BY <2>5, SessionKeeps
    <2> QED
      BY <2>6, <2>7 DEF h
  <1>3. \A p \in VerifyToken : Keeps("VerifyToken", 0, p)
    <2>1. "VerifyToken" \in ReenterReading
      BY DEF ReenterReading
    <2> QED
      BY <2>1, GetterReading, Sections DEF VerifyToken
  <1> QED
    BY <1>1, <1>2, <1>3 DEF ListDisputes, GetDashboardStats

\* A getter called under the write lock: the goroutine gets no further, so what
\* stands behind it does not matter.
LEMMA GetterWriting ==
    ASSUME NEW h \in ReenterWriting, NEW j
    PROVE  Leads(h, 0, <<"Lock">> \o R, j)
  <1>1. Leads(h, 0, <<"Lock">>, -1) /\ Leads(h, -1, R, j)
    BY Singles, Sections
  <1> QED
    BY <1>1, LeadsOn

\* The list goes on behind the getter with what the handler would do if it got
\* there with the write lock.
LEMMA GetterUnlock ==
    ASSUME NEW h \in ReenterWriting, NEW s, Keeps(h, 0, s)
    PROVE  /\ Keeps(h, 0, <<"Lock">> \o R \o <<"Unlock">>)
           /\ Keeps(h, 0, <<"Lock">> \o R \o <<"Unlock">> \o s)
           /\ Keeps(h, 0, <<"Lock">> \o R \o (<<"Unlock">> \o s))
  <1>1. Leads(h, 0, <<"Lock">> \o R, -1) /\ Leads(h, -1, <<"Unlock">>, 0)
    BY GetterWriting, Singles
  <1>2. Leads(h, 0, <<"Lock">> \o R \o <<"Unlock">>, 0)
    BY <1>1, LeadsOn
  <1>3. Leads(h, -1, <<"Unlock">> \o s, 0)
    BY <1>1, LeadsOn DEF Keeps
  <1> QED
    BY <1>1, <1>2, <1>3, LeadsOn DEF Keeps

\* Handlers that call a getter under the write lock.
LEMMA UpdateListingKeeps == \A p \in UpdateListing : Keeps("UpdateListing", 0, p)
  <1> DEFINE h == "UpdateListing"
  <1>1. h \in ReenterWriting
    BY DEF ReenterWriting
  <1> HIDE DEF h
  <1> DEFINE S == {<<"Lock">> \o x \o <<"Unlock">> \o W : x \in {R, R \o R \o R}}
  <1>2. \A x \in {R, R \o R \o R} : Leads(h, -1, x, -1)
    <2>1. Leads(h, -1, R, -1)
      BY <1>1, Sections
    <2> QED
      BY <2>1, LeadsOn
  <1>3. ASSUME NEW x \in {R, R \o R \o R}
        PROVE  Keeps(h, 0, <<"Lock">> \o x \o <<"Unlock">> \o W)
    <2>1. Leads(h, 0, <<"Lock">> \o x, -1) /\ Leads(h, -1, <<"Unlock">>, 0)
      BY <1>2, Singles, LeadsOn
    <2>2. Leads(h, 0, <<"Lock">> \o x \o <<"Unlock">>, 0)
      BY <2>1, LeadsOn
    <2> QED
      BY <2>2, Sections, LeadsOn DEF Keeps
  <1>4. \A p \in {W} \cup S : Keeps(h, 0, p)
    BY <1>3, Sections
  <1> QED
    BY <1>4, SessionKeeps DEF UpdateListing, h

LEMMA PublishKeeps ==
    ASSUME NEW h \in {"PublishProperty", "UnpublishProperty"}
    PROVE  \A p \in PublishProperty : Keeps(h, 0, p)
  <1>1. h \in ReenterWriting
    BY DEF ReenterWriting
  <1> DEFINE Ending == {<<"Unlock">>, <<"Unlock">> \o W \o R}
             S == {<<"Lock">> \o x \o y : x \in OwnerWalk, y \in Ending}
  <1>2. \A x \in OwnerWalk : Leads(h, -1, x, -1)
    <2>1. Leads(h, -1, R, -1)
      BY <1>1, Sections
    <2> QED
      BY <2>1, LeadsOn DEF OwnerWalk
  <1>3. \A y \in Ending : Leads(h, -1, y, 0)
    <2>1. Leads(h, -1, <<"Unlock">>, 0) /\ Leads(h, 0, W, 0) /\ Leads(h, 0, R, 0)
      BY Singles, Sections DEF Keeps
    <2>2. Leads(h, -1, <<"Unlock">> \o W, 0)
      BY <2>1, LeadsOn
    <2>3. Leads(h, -1, <<"Unlock">> \o W \o R, 0)
      BY <2>1, <2>2, LeadsOn
    <2> QED
      BY <2>1, <2>3
  <1>4. ASSUME NEW p \in S PROVE Keeps(h, 0, p)
    <2> HIDE DEF Ending
    <2>1. PICK x \in OwnerWalk, y \in Ending : p = <<"Lock">> \o x \o y
      OBVIOUS
    <2>2. Leads(h, 0, <<"Lock">> \o x, -1)
      BY <1>2, Singles, LeadsOn
    <2>3. Leads(h, 0, <<"Lock">> \o x \o y, 0)
      BY <1>3, <2>2, LeadsOn
    <2> QED
      BY <2>1, <2>3 DEF Keeps
  <1>5. PublishProperty = Session({W} \cup S)
    BY DEF PublishProperty
  <1> HIDE DEF S
  <1>6. \A p \in {W} \cup S : Keeps(h, 0, p)
    BY <1>4, Sections
  <1> QED
    BY <1>5, <1>6, SessionKeeps

LEMMA SuspendUserKeeps == \A p \in SuspendUser : Keeps("SuspendUser", 0, p)
  <1> DEFINE h == "SuspendUser"
  <1>1. h \in ReenterWriting
    BY DEF ReenterWriting
  <1> HIDE DEF h
  <1> DEFINE S == {<<"Lock">> \o R \o x : x \in {<<"Unlock">>, <<"Unlock">> \o W}}
  <1>2. /\ Keeps(h, 0, <<"Lock">> \o R \o <<"Unlock">>)
        /\ Keeps(h, 0, <<"Lock">> \o R \o (<<"Unlock">> \o W))
    BY <1>1, Sections, GetterUnlock
  <1>3. \A p \in S : Keeps(h, 0, p)
    BY <1>2
  <1> QED
    BY <1>3, SessionKeeps DEF SuspendUser, h

LEMMA VerifyKYCKeeps == \A p \in VerifyKYC : Keeps("VerifyKYC", 0, p)
  <1> DEFINE h == "VerifyKYC"
  <1>1. h \in ReenterWriting
    BY DEF ReenterWriting
  <1> HIDE DEF h
  <1> DEFINE S == {W \o W \o <<"Lock">> \o R \o x : x \in {<<"Unlock">>, <<"Unlock">> \o W}}
  <1>2. ASSUME NEW x \in {<<"Unlock">>, <<"Unlock">> \o W}
        PROVE  Keeps(h, 0, W \o W \o <<"Lock">> \o R \o x)
    <2>1. Leads(h, 0, W \o W, 0) /\ Leads(h, 0, <<"Lock">>, -1) /\ Leads(h, -1, R, -1)
      BY <1>1, Sections, Singles, Combine DEF Keeps
    <2>2. Leads(h, 0, W \o W \o <<"Lock">>, -1)
      BY <2>1, LeadsOn
    <2>3. Leads(h, 0, W \o W \o <<"Lock">> \o R, -1)
      BY <2>1, <2>2, LeadsOn
    <2>4. Leads(h, -1, x, 0)
      BY Sections, Singles, LeadsOn DEF Keeps
    <2> QED
      BY <2>3, <2>4, LeadsOn DEF Keeps
  <1>3. \A p \in {W} \cup S : Keeps(h, 0, p)
    BY <1>2, Sections
  <1> QED
    BY <1>3, SessionKeeps DEF VerifyKYC, h

\* ListApplications would write to a peer under the lock, but stands still
\* before.
LEMMA ListApplicationsKeeps == \A p \in ListApplications : Keeps("ListApplications", 0, p)
  <1> DEFINE h == "ListApplications"
  <1>1. h \in ReenterWriting
    BY DEF ReenterWriting
  <1> HIDE DEF h
  <1> DEFINE T == {<<>>, <<"Lock", "Peer", "Unlock">>}
             S == {<<"Lock">> \o R \o <<"Unlock">> \o x : x \in T}
  <1>2. "RLock" \in Op /\ "Lock" \in Op /\ "Unlock" \in Op /\ "Peer" \in Op
    BY DEF Op
  <1>3. <<"Lock">> \in Seq(Op) /\ <<"Unlock">> \in Seq(Op) /\ \A x \in T : x \in Seq(Op)
    BY <1>2
  <1>4. ASSUME NEW x \in Seq(Op)
        PROVE  Keeps(h, 0, <<"Lock">> \o R \o <<"Unlock">> \o x)
    <2> DEFINE s == <<"Unlock">> \o x
    <2>1. s \in Seq(Op)
      BY <1>3
    <2>2. <<"Lock">> \o R \o <<"Unlock">> \o x = <<"Lock">> \o (R \o s)
      <3>1. <<"Lock">> \o R \o <<"Unlock">> = <<"Lock">> \o (R \o <<"Unlock">>)
        BY <1>3, Sections, Assoc
      <3>2. R \o <<"Unlock">> \in Seq(Op)
        BY <1>3, Sections, Assoc
      <3>3. <<"Lock">> \o (R \o <<"Unlock">>) \o x = <<"Lock">> \o (R \o <<"Unlock">> \o x)
        BY <1>3, <3>2, Assoc
      <3>4. R \o <<"Unlock">> \o x = R \o s
        BY <1>3, Sections, Assoc
      <3> QED
        BY <3>1, <3>3, <3>4
    <2> HIDE DEF s
    <2>3. R # <<>> /\ Head(R) = "RLock" /\ R \in Seq(Op)
      BY <1>2, Sections DEF R
    <2>4. R \o s \in Seq(Op) /\ R \o s # <<>> /\ Head(R \o s) = "RLock"
      BY <2>1, <2>3, Uncons
    <2>5. Leads(h, -1, R \o s, 0)
      <3>1. Obeys(h, -1, "RLock") /\ ~Can(-1, "RLock")
        BY <1>1, Operations
      <3>2. ASSUME NEW p \in Seq(Op), p # <<>>, Head(p) = "RLock" PROVE Leads(h, -1, p, 0)
        BY <3>1, <3>2, LeadsCons
      <3> QED
        BY <2>4, <3>2
    <2>6. Leads(h, 0, <<"Lock">> \o (R \o s), 0)
      BY <2>5, Singles, LeadsOn
    <2> QED
      BY <2>2, <2>6 DEF Keeps
  <1>5. \A p \in S : Keeps(h, 0, p)
    <2>1. \A x \in T : Keeps(h, 0, <<"Lock">> \o R \o <<"Unlock">> \o x)
      BY <1>3, <1>4
    <2> HIDE DEF T
    <2> QED
      BY <2>1
  <1>6. ListApplications = Session(S)
    BY DEF ListApplications
  <1> HIDE DEF S
  <1> QED
    BY <1>5, <1>6, SessionKeeps DEF h

LEMMA MeKeeps == \A p \in Me : Keeps("Me", 0, p)
  <1>1. "Me" \in ReenterWriting
    BY DEF ReenterWriting
  <1>2. Keeps("Me", 0, <<"Lock">> \o R \o <<"Unlock">>)
    BY <1>1, Sections, GetterUnlock
  <1> QED
    BY <1>2, Sections DEF Me

\* Handlers that unlock twice.
LEMMA TwiceHandlers ==
    /\ \A p \in SubmitReview : Keeps("SubmitReview", 0, p)
    /\ \A p \in RespondToReview : Keeps("RespondToReview", 0, p)
  <1>1. ASSUME NEW h \in UnlockTwice
        PROVE  /\ Keeps(h, 0, W \o <<"Unlock">>)
               /\ Keeps(h, 0, W \o W \o <<"Unlock">>)
    <2>1. Keeps(h, 0, W) /\ Keeps(h, 0, <<"Unlock">>)
      BY Sections, Singles DEF Keeps
    <2> QED
      BY <2>1, Combine
  <1>2. \A p \in SubmitReview : Keeps("SubmitReview", 0, p)
    <2>1. "SubmitReview" \in UnlockTwice /\ "SubmitReview" \in WritePeerLocked
      BY DEF UnlockTwice, WritePeerLocked
    <2>2. \A p \in {<<"Lock", "Peer", "Unlock">>, W \o W \o <<"Unlock">>} :
             Keeps("SubmitReview", 0, p)
      BY <1>1, <2>1, Literals
    <2> QED
      BY <2>2, SessionKeeps DEF SubmitReview
  <1>3. \A p \in RespondToReview : Keeps("RespondToReview", 0, p)
    <2>1. "RespondToReview" \in UnlockTwice /\ "RespondToReview" \in WritePeerLocked
      BY DEF UnlockTwice, WritePeerLocked
    <2>2. \A p \in {<<"Lock", "Peer", "Unlock">>, W \o <<"Unlock">>, W \o W \o <<"Unlock">>} :
             Keeps("RespondToReview", 0, p)
      BY <1>1, <2>1, Literals
    <2> QED
      BY <2>2, SessionKeeps DEF RespondToReview
  <1> QED
    BY <1>2, <1>3

\* The whole table.
LEMMA EveryPathKeeps == \A h \in DOMAIN PathsOf : \A p \in PathsOf[h] : Keeps(h, 0, p)
  <1> SUFFICES ASSUME NEW h \in DOMAIN PathsOf PROVE \A p \in PathsOf[h] : Keeps(h, 0, p)
    OBVIOUS
  <1>1. CASE h \in {"PayRent", "UpdateProperty", "DeleteRegion"}
    <2>1. PathsOf[h] \subseteq PayRent \cup UpdateProperty \cup DeleteRegion
      BY <1>1 DEF PathsOf
    <2> QED
      BY <2>1, PlainHandlers
  <1>2. CASE h \in {"ListKYCQueues", "DebugDB", "DebugListInvitations", "ListingReviewWorker"}
    BY <1>2, PeerHandlers DEF PathsOf
  <1>3. CASE h \in {"ListDisputes", "GetDashboardStats", "ListStaff", "VerifyToken"}
    BY <1>3, ReadingHandlers DEF PathsOf
  <1>4. CASE h \in {"PublishProperty", "UnpublishProperty"}
    BY <1>4, PublishKeeps DEF PathsOf, UnpublishProperty
  <1>5. CASE h \in {"UpdateListing", "SuspendUser", "VerifyKYC", "ListApplications", "Me"}
    BY <1>5, UpdateListingKeeps, SuspendUserKeeps, VerifyKYCKeeps, ListApplicationsKeeps, MeKeeps
       DEF PathsOf
  <1>6. CASE h \in {"SubmitReview", "RespondToReview"}
    BY <1>6, TwiceHandlers DEF PathsOf
  <1> QED
    BY <1>1, <1>2, <1>3, <1>4, <1>5, <1>6 DEF PathsOf

-----------------------------------------------------------------------------
(* Goroutines that run such lists.                                         *)

\* The lists of lock operations the goroutines may be given keep the rules.
ListsKeep == \A h \in Handler : \A p \in Paths[h] : Keeps(h, 0, p)

\* What a goroutine still has to do keeps the rules from what it holds on.
RulesInv ==
    \A g \in Goroutine : IF running[g] = Nobody THEN Grip(g) = 0
                                                ELSE Keeps(running[g], Grip(g), rest[g])

\* A goroutine that a step leaves alone keeps to the rules.
LEMMA LeftAlone ==
    ASSUME RulesInv, NEW r \in Goroutine, running'[r] = running[r], rest'[r] = rest[r],
           Grip(r)' = Grip(r)
    PROVE  IF running'[r] = Nobody THEN Grip(r)' = 0
                                   ELSE Keeps(running'[r], Grip(r)', rest'[r])
  BY DEF RulesInv

\* A goroutine with something left to do obeys, and goes on keeping the rules
\* with what it holds after the operation.
LEMMA MovesOn ==
    ASSUME IInv, RulesInv, NEW g \in Goroutine, NEW op, NextOp(g, op)
    PROVE  /\ running[g] # Nobody
           /\ Obeys(running[g], Grip(g), op)
           /\ Can(Grip(g), op) => Keeps(running[g], After(Grip(g), op), Tail(rest[g]))
  <1>1. running[g] # Nobody /\ rest[g] # <<>> /\ Head(rest[g]) = op
    BY DEF IInv, IdleIsDone, NextOp
  <1>2. Leads(running[g], Grip(g), rest[g], 0)
    BY <1>1 DEF RulesInv, Keeps
  <1> QED
    BY <1>1, <1>2, LeadsStep DEF Keeps

\* Every action leaves every goroutine with a list that keeps the rules.
LEMMA NextRules ==
    ASSUME ListsKeep, IInv, RulesInv, MisuseConfined, [Next]_vars
    PROVE  RulesInv' /\ MisuseConfined'
  <1> DEFINE OK(r) == IF running'[r] = Nobody THEN Grip(r)' = 0
                                              ELSE Keeps(running'[r], Grip(r)', rest'[r])
  <1>0. /\ TypeOK /\ IdleIsDone /\ ParkedWait /\ AnnouncedWaits /\ Exclusion
        /\ writer = Nobody => ~exclusive
    BY DEF IInv, Exclusion
  <1>1. ASSUME NEW g \in Goroutine, Start(g) PROVE RulesInv' /\ MisuseConfined'
    <2>1. PICK h \in Handler : \E p \in Paths[h] :
             /\ running' = [running EXCEPT ![g] = h]
             /\ rest' = [rest EXCEPT ![g] = p]
      BY <1>1 DEF Start
    <2>2. PICK p \in Paths[h] : /\ running' = [running EXCEPT ![g] = h]
                                /\ rest' = [rest EXCEPT ![g] = p]
      BY <2>1
    <2>3. running[g] = Nobody /\ UNCHANGED <<reads, writer, exclusive, misuse>>
      BY <1>1 DEF Start
    <2>4. \A r \in Goroutine : Grip(r)' = Grip(r)
      BY <2>3 DEF Grip, InWrite
    <2>5. Grip(g) = 0
      BY <2>3 DEF RulesInv
    <2>6. running'[g] = h /\ rest'[g] = p
      BY <1>0, <2>2 DEF TypeOK
    <2>7. Keeps(h, 0, p)
      BY DEF ListsKeep
    <2>8. OK(g)
      BY <2>4, <2>5, <2>6, <2>7, NobodyAssumption
    <2>9. ASSUME NEW r \in Goroutine, r # g PROVE OK(r)
      <3>1. running'[r] = running[r] /\ rest'[r] = rest[r]
        BY <1>0, <2>2, <2>9 DEF TypeOK
      <3> QED
        BY <2>4, <3>1, LeftAlone
    <2> QED
      BY <2>3, <2>8, <2>9 DEF RulesInv, MisuseConfined
  <1>2. ASSUME NEW g \in Goroutine, Respond(g) PROVE RulesInv' /\ MisuseConfined'
    <2>1. /\ running[g] # Nobody /\ rest[g] = <<>> /\ running' = [running EXCEPT ![g] = Nobody]
          /\ UNCHANGED <<rest, reads, writer, exclusive, misuse>>
      BY <1>2 DEF Respond
    <2>2. \A r \in Goroutine : Grip(r)' = Grip(r)
      BY <2>1 DEF Grip, InWrite
    <2>3. Grip(g) = 0
      BY <2>1, LeadsStep DEF RulesInv, Keeps
    <2>4. OK(g)
      BY <1>0, <2>1, <2>2, <2>3 DEF TypeOK
    <2>5. ASSUME NEW r \in Goroutine, r # g PROVE OK(r)
      <3>1. running'[r] = running[r] /\ rest'[r] = rest[r]
        BY <1>0, <2>1, <2>5 DEF TypeOK
      <3> QED
        BY <2>2, <3>1, LeftAlone
    <2> QED
      BY <2>1, <2>4, <2>5 DEF RulesInv, MisuseConfined
  <1>3. ASSUME NEW g \in Goroutine, NEW op, NextOp(g, op), Can(Grip(g), op), Advance(g),
               Grip(g)' = After(Grip(g), op),
               \A r \in Goroutine : r # g => Grip(r)' = Grip(r),
               UNCHANGED <<running, misuse>>
        PROVE  RulesInv' /\ MisuseConfined'
    <2>1. Keeps(running[g], After(Grip(g), op), Tail(rest[g])) /\ running[g] # Nobody
      BY <1>3, MovesOn
    <2>2. rest'[g] = Tail(rest[g]) /\ \A r \in Goroutine : r # g => rest'[r] = rest[r]
      BY <1>0, <1>3 DEF Advance, TypeOK
    <2>3. OK(g)
      BY <1>3, <2>1, <2>2
    <2>4. ASSUME NEW r \in Goroutine, r # g PROVE OK(r)
      BY <1>3, <2>2, <2>4, LeftAlone
    <2> QED
      BY <1>3, <2>3, <2>4 DEF RulesInv, MisuseConfined
  <1>4. ASSUME NEW g \in Goroutine, RLock(g) PROVE RulesInv' /\ MisuseConfined'
    <2>1. /\ NextOp(g, "RLock") /\ ~exclusive /\ reads' = [reads EXCEPT ![g] = @ + 1]
          /\ Advance(g) /\ UNCHANGED <<running, writer, exclusive, misuse>>
      BY <1>0, <1>4 DEF RLock
    <2>2. Grip(g) = reads[g] /\ Grip(g)' = reads[g] + 1 /\ reads[g] \in Nat
      BY <1>0, <2>1 DEF Grip, InWrite, TypeOK
    <2>3. Can(Grip(g), "RLock") /\ After(Grip(g), "RLock") = Grip(g)'
      BY <2>2 DEF Can, After
    <2>4. \A r \in Goroutine : r # g => Grip(r)' = Grip(r)
      BY <1>0, <2>1 DEF Grip, InWrite, TypeOK
    <2> QED
      BY <1>3, <2>1, <2>3, <2>4
  <1>5. ASSUME NEW g \in Goroutine, RUnlock(g) PROVE RulesInv' /\ MisuseConfined'
    <2>1. /\ NextOp(g, "RUnlock") /\ InRead(g) /\ reads' = [reads EXCEPT ![g] = @ - 1]
          /\ Advance(g) /\ UNCHANGED <<running, writer, exclusive, misuse>>
      BY <1>5 DEF RUnlock
    <2>2. ~exclusive
      BY <1>0, <2>1 DEF Exclusion
    <2>3. Grip(g) = reads[g] /\ Grip(g)' = reads[g] - 1 /\ reads[g] \in Nat /\ reads[g] > 0
      BY <1>0, <2>1, <2>2 DEF Grip, InWrite, InRead, TypeOK
    <2>4. Can(Grip(g), "RUnlock") /\ After(Grip(g), "RUnlock") = Grip(g)'
      BY <2>3 DEF Can, After
    <2>5. \A r \in Goroutine : r # g => Grip(r)' = Grip(r)
      BY <1>0, <2>1 DEF Grip, InWrite, TypeOK
    <2> QED
      BY <1>3, <2>1, <2>4, <2>5
  <1>6. ASSUME NEW g \in Goroutine, Enter(g) PROVE RulesInv' /\ MisuseConfined'
    <2>1. /\ NextOp(g, "Lock") /\ writer = g /\ ~exclusive /\ exclusive'
          /\ \A r \in Goroutine : ~InRead(r)
          /\ Advance(g) /\ UNCHANGED <<running, reads, writer, misuse>>
      BY <1>6 DEF Enter
    <2>2. Grip(g) = 0 /\ Grip(g)' = -1
      BY <1>0, <2>1 DEF Grip, InWrite, InRead, TypeOK
    <2>3. Can(Grip(g), "Lock") /\ After(Grip(g), "Lock") = Grip(g)'
      BY <2>2 DEF Can, After
    <2>4. \A r \in Goroutine : r # g => Grip(r)' = Grip(r)
      BY <2>1 DEF Grip, InWrite
    <2> QED
      BY <1>3, <2>1, <2>3, <2>4
  <1>7. ASSUME NEW g \in Goroutine, Unlock(g) PROVE RulesInv' /\ MisuseConfined'
    <2>1. /\ NextOp(g, "Unlock") /\ exclusive /\ writer = g
          /\ writer' = Nobody /\ exclusive' = FALSE /\ UNCHANGED <<running, misuse>>
          /\ reads' = [r \in Goroutine |-> IF r \in parked THEN reads[r] + 1 ELSE reads[r]]
          /\ rest' = [r \in Goroutine |-> IF r \in parked \cup {g} THEN Tail(rest[r]) ELSE rest[r]]
      BY <1>7 DEF Unlock, InWrite
    <2>2. g \notin parked
      BY <1>0, <2>1 DEF ParkedWait, NextOp
    <2>3. \A r \in Goroutine : reads[r] = 0
      BY <1>0, <2>1 DEF Exclusion, InRead, TypeOK
    <2>4. \A r \in Goroutine : /\ Grip(r) = IF r = g THEN -1 ELSE 0
                               /\ Grip(r)' = IF r \in parked THEN 1 ELSE 0
      BY <2>1, <2>3 DEF Grip, InWrite
    <2>5. ASSUME NEW r \in Goroutine PROVE OK(r)
      <3>1. CASE r = g
        <4>1. Can(Grip(r), "Unlock") /\ After(Grip(r), "Unlock") = Grip(r)'
          BY <2>2, <2>4, <3>1 DEF Can, After
        <4> QED
          BY <2>1, <3>1, <4>1, MovesOn
      <3>2. CASE r \in parked
        <4>1. NextOp(r, "RLock")
          BY <1>0, <3>2 DEF ParkedWait
        <4>2. Can(Grip(r), "RLock") /\ After(Grip(r), "RLock") = Grip(r)'
          BY <2>2, <2>4, <3>2 DEF Can, After
        <4> QED
          BY <2>1, <3>2, <4>1, <4>2, MovesOn
      <3>3. CASE r # g /\ r \notin parked
        BY <2>1, <2>4, <3>3, LeftAlone
      <3> QED
        BY <3>1, <3>2, <3>3
    <2> QED
      BY <2>1, <2>5 DEF RulesInv, MisuseConfined
  <1>8. ASSUME NEW g \in Goroutine, CallMongo(g) \/ WritePeer(g)
        PROVE  RulesInv' /\ MisuseConfined'
    <2>1. PICK op \in {"Mongo", "Peer"} : NextOp(g, op)
      BY <1>8 DEF CallMongo, WritePeer
    <2>2. Advance(g) /\ UNCHANGED <<running, reads, writer, exclusive, misuse>>
      BY <1>8 DEF CallMongo, WritePeer
    <2>3. \A r \in Goroutine : Grip(r)' = Grip(r)
      BY <2>2 DEF Grip, InWrite
    <2>4. Can(Grip(g), op) /\ After(Grip(g), op) = Grip(g)
      BY DEF Can, After
    <2> QED
      BY <1>3, <2>1, <2>2, <2>3, <2>4
  <1>9. ASSUME UNCHANGED <<running, rest>>, \A r \in Goroutine : Grip(r)' = Grip(r)
        PROVE  RulesInv'
    BY <1>9 DEF RulesInv
  <1>10. ASSUME NEW g \in Goroutine, Park(g) \/ Announce(g) PROVE RulesInv' /\ MisuseConfined'
    <2>1. UNCHANGED <<running, rest, reads, exclusive, misuse>>
      BY <1>10 DEF Park, Announce
    <2>2. \A r \in Goroutine : InWrite(r)' = InWrite(r)
      BY <1>0, <1>10 DEF Park, Announce, InWrite
    <2>3. \A r \in Goroutine : Grip(r)' = Grip(r)
      BY <2>1, <2>2 DEF Grip
    <2> QED
      BY <1>9, <2>1, <2>3 DEF MisuseConfined
  <1>11. ASSUME NEW g \in Goroutine, Misuse(g) PROVE RulesInv' /\ MisuseConfined'
    <2>1. /\ UNCHANGED <<running, rest, reads, writer, exclusive>> /\ misuse' = running[g]
          /\ \/ NextOp(g, "Unlock") /\ ~InWrite(g)
             \/ NextOp(g, "RUnlock") /\ ~InRead(g)
      BY <1>11 DEF Misuse
    <2>2. \A r \in Goroutine : Grip(r)' = Grip(r)
      BY <2>1 DEF Grip, InWrite
    <2>3. reads[g] \in Nat
      BY <1>0 DEF TypeOK
    <2>4. running[g] \in UnlockTwice
      <3>1. CASE NextOp(g, "Unlock") /\ ~InWrite(g)
        <4>1. ~Can(Grip(g), "Unlock")
          BY <2>3, <3>1 DEF Can, Grip
        <4> QED
          BY <3>1, <4>1, MovesOn DEF Obeys
      <3>2. CASE NextOp(g, "RUnlock") /\ ~InRead(g)
        <4>1. ~Can(Grip(g), "RUnlock")
          BY <2>3, <3>2 DEF Can, Grip, InRead
        <4> QED
          BY <3>2, <4>1, MovesOn DEF Obeys
      <3> QED
        BY <2>1, <3>1, <3>2
    <2> QED
      BY <1>9, <2>1, <2>2, <2>4 DEF MisuseConfined
  <1>12. CASE UNCHANGED vars
    <2>1. \A r \in Goroutine : Grip(r)' = Grip(r)
      BY <1>12 DEF vars, Grip, InWrite
    <2> QED
      BY <1>9, <1>12, <2>1 DEF vars, MisuseConfined
  <1>13. CASE Next
    <2>1. PICK g \in Goroutine : Start(g) \/ Work(g) \/ WritePeer(g)
      BY <1>13 DEF Next
    <2> QED
      BY <1>1, <1>2, <1>4, <1>5, <1>6, <1>7, <1>8, <1>10, <1>11, <2>1 DEF Work
  <1> QED
    BY <1>12, <1>13

\* The rules follow from the invariants in each state.
LEMMA RulesHold ==
    ASSUME IInv, RulesInv, MisuseConfined
    PROVE  LockRulesKept
  <1>0. TypeOK /\ IdleIsDone /\ Exclusion
    BY DEF IInv
  <1>1. ASSUME NEW g \in Goroutine
        PROVE  /\ InWrite(g) => Grip(g) = -1
               /\ ~InWrite(g) => Grip(g) = reads[g]
               /\ Holds(g) => Grip(g) # 0
               /\ Holds(g) /\ ~InWrite(g) => Grip(g) > 0
    BY <1>0 DEF Grip, Holds, InRead, InWrite, TypeOK
  <1>2. NothingLeaked
    <2> SUFFICES ASSUME NEW g \in Goroutine, rest[g] = <<>> PROVE Grip(g) = 0
      BY <1>1 DEF NothingLeaked
    <2> QED
      BY LeadsStep DEF RulesInv, Keeps
  <1>3. ReentryConfined
    <2> SUFFICES ASSUME NEW g \in Goroutine, SelfDeadlocked(g)
                 PROVE  running[g] \in IF InWrite(g) THEN ReenterWriting ELSE ReenterReading
      BY DEF ReentryConfined
    <2>1. PICK op \in {"Lock", "RLock"} : NextOp(g, op)
      BY DEF SelfDeadlocked
    <2>2. Holds(g)
      BY DEF SelfDeadlocked
    <2>3. Obeys(running[g], Grip(g), op)
      BY <2>1, MovesOn
    <2> QED
      BY <1>1, <2>2, <2>3 DEF Obeys
  <1>4. PeerWaitConfined
    <2> SUFFICES ASSUME NEW g \in Goroutine, Holds(g), NextOp(g, "Peer")
                 PROVE  running[g] \in WritePeerLocked
      BY DEF PeerWaitConfined
    <2>1. Obeys(running[g], Grip(g), "Peer")
      BY MovesOn
    <2> QED
      BY <1>1, <2>1 DEF Obeys
  <1> QED
    BY <1>2, <1>3, <1>4 DEF LockRulesKept

\* What a goroutine holds depends on nothing but how far it has come in its own
\* list.
LEMMA RulesInvariance ==
    ASSUME ListsKeep PROVE Spec => [](RulesInv /\ MisuseConfined)
  <1>1. Init => RulesInv /\ MisuseConfined
    BY DEF Init, RulesInv, MisuseConfined, Grip, InWrite
  <1>2. RulesInv /\ MisuseConfined /\ IInv /\ [Next]_vars => (RulesInv /\ MisuseConfined)'
    BY NextRules
  <1> QED
    BY <1>1, <1>2, Invariance, PTL DEF Spec

\* Lists that keep the rules one by one keep them under every interleaving of
\* any number of goroutines.
THEOREM ListsSuffice ==
    ASSUME ListsKeep PROVE Spec => []LockRulesKept
  <1>1. IInv /\ RulesInv /\ MisuseConfined => LockRulesKept
    BY RulesHold
  <1> QED
    BY <1>1, RulesInvariance, Invariance, PTL

\* Of the handlers of the program, run by any number of goroutines in any
\* selection, only those named give the lock back late, ask for it twice, give
\* it back twice or write to a peer under it.
THEOREM RulesKept ==
    ASSUME Handler \subseteq DOMAIN PathsOf, Paths = HandlerPaths
    PROVE  Spec => []LockRulesKept
  <1>1. ListsKeep
    BY EveryPathKeeps DEF ListsKeep, HandlerPaths
  <1> QED
    BY <1>1, ListsSuffice

-----------------------------------------------------------------------------
(* What follows from the rules, and from a breach of them.                 *)

\* In a clean handler every operation is one that can be passed, and whoever
\* holds the lock asks for no other and writes to nobody.
LEMMA CleanInOrder ==
    ASSUME Handler \subseteq Clean, IInv, RulesInv, NEW g \in Goroutine, NEW op, NextOp(g, op)
    PROVE  /\ op \in {"Lock", "RLock", "Peer"} => ~Holds(g)
           /\ op = "Unlock" => InWrite(g)
           /\ op = "RUnlock" => InRead(g)
           /\ op \in Op
  <1>1. running[g] \in Handler
    BY DEF IInv, TypeOK, IdleIsDone, NextOp
  <1>2. /\ running[g] \notin ReenterWriting /\ running[g] \notin ReenterReading
        /\ running[g] \notin UnlockTwice /\ running[g] \notin WritePeerLocked
    BY <1>1 DEF Clean
  <1>3. Obeys(running[g], Grip(g), op)
    BY MovesOn
  <1>4. /\ InWrite(g) => Grip(g) = -1
        /\ ~InWrite(g) => Grip(g) = reads[g]
        /\ reads[g] \in Nat
    BY DEF Grip, IInv, TypeOK
  <1>5. op \in {"Lock", "RLock", "Peer"} => Grip(g) = 0
    BY <1>2, <1>3, <1>4 DEF Obeys
  <1>6. op \in {"Lock", "RLock", "Peer"} => ~Holds(g)
    <2>1. Exclusion
      BY DEF IInv
    <2> QED
      BY <1>4, <1>5, <2>1 DEF Holds, InRead
  <1>7. op = "Unlock" => InWrite(g)
    BY <1>2, <1>3, <1>4 DEF Obeys, Can
  <1>8. op = "RUnlock" => InRead(g)
    BY <1>2, <1>3, <1>4 DEF Obeys, Can, InRead
  <1>9. op \in Op
    <2>1. rest[g] \in Seq(Op) /\ rest[g] # <<>> /\ Head(rest[g]) = op
      BY DEF IInv, TypeOK, NextOp
    <2> QED
      BY <2>1
  <1> QED
    BY <1>6, <1>7, <1>8, <1>9

\* With handlers that break no rule, whoever is waited for can move: the part
\* of EveryRequestAnswered that is not fairness, for any number of goroutines.
THEOREM CleanHandlersMoveOn ==
    ASSUME Handler \subseteq Clean, Paths = HandlerPaths
    PROVE  Spec => []WaitedForCanMove
  <1>1. ListsKeep
    BY EveryPathKeeps DEF ListsKeep, HandlerPaths, Clean
  <1>2. IInv /\ RulesInv /\ LockRulesKept /\ WedgeNeedsReentry => WaitedForCanMove
    <2> SUFFICES ASSUME IInv, RulesInv, LockRulesKept, WedgeNeedsReentry,
                        \E b \in Goroutine : Blocked(b)
                 PROVE  \E g \in Goroutine :
                           \/ NextOp(g, "RUnlock") /\ InRead(g)
                           \/ NextOp(g, "Unlock") /\ InWrite(g)
                           \/ NextOp(g, "Mongo") /\ Holds(g)
                           \/ /\ NextOp(g, "Lock") /\ writer = g /\ ~exclusive
                              /\ \A r \in Goroutine : ~InRead(r)
      BY DEF WaitedForCanMove
    <2>1. \A g \in Goroutine : ~SelfDeadlocked(g)
      BY CleanInOrder DEF SelfDeadlocked
    <2>2. PICK g \in Goroutine : (Holds(g) \/ writer = g) /\ ~Blocked(g) /\ rest[g] # <<>>
      BY <2>1 DEF WedgeNeedsReentry, LockRulesKept, NothingLeaked
    <2>3. CASE Holds(g)
      <3>1. PICK op : NextOp(g, op)
        BY <2>2 DEF NextOp
      <3> QED
        BY <2>3, <3>1, CleanInOrder DEF Op
    <2>4. CASE ~Holds(g)
      <3>1. writer = g /\ ~exclusive
        BY <2>2, <2>4 DEF Holds, InWrite
      <3>2. NextOp(g, "Lock")
        BY <3>1, NobodyAssumption DEF IInv, AnnouncedWaits
      <3>3. running[g] # Nobody
        BY <2>2 DEF IInv, IdleIsDone
      <3> QED
        BY <2>2, <3>1, <3>2, <3>3 DEF Blocked
    <2> QED
      BY <2>3, <2>4
  <1> QED
    BY <1>1, <1>2, RulesInvariance, ListsSuffice, NoCycleOfGoroutines, Invariance, PTL

\* A step of any goroutine leaves one that waits for itself where it is, and
\* gives the lock to nobody.
LEMMA StuckStep ==
    ASSUME IInv, Next, NEW g \in Goroutine, SelfDeadlocked(g)
    PROVE  /\ SelfDeadlocked(g)' /\ rest'[g] = rest[g] /\ running'[g] = running[g]
           /\ \A r \in Goroutine : InWrite(r)' => InWrite(r)
           /\ InWrite(g) => \A r \in Goroutine : ~InRead(r)'
  <1> DEFINE Goal == /\ SelfDeadlocked(g)' /\ rest'[g] = rest[g] /\ running'[g] = running[g]
                     /\ \A r \in Goroutine : InWrite(r)' => InWrite(r)
                     /\ InWrite(g) => \A r \in Goroutine : ~InRead(r)'
  <1>1. /\ TypeOK /\ Exclusion
        /\ NextOp(g, "Lock") \/ (NextOp(g, "RLock") /\ writer # Nobody)
        /\ InRead(g) \/ InWrite(g)
        /\ rest[g] # <<>>
        /\ NextOp(g, "Lock") \/ NextOp(g, "RLock")
        /\ g # Nobody
    BY NobodyAssumption DEF IInv, SelfDeadlocked, Holds, NextOp
  <1>2. /\ InWrite(g) => writer = g /\ exclusive /\ \A r \in Goroutine : ~InRead(r)
        /\ InRead(g) => ~exclusive
    BY <1>1 DEF Exclusion, InWrite
  <1>3. PICK r \in Goroutine : Start(r) \/ Work(r) \/ WritePeer(r)
    BY DEF Next
  <1>4. CASE Start(r) \/ Respond(r)
    <2>1. UNCHANGED <<reads, writer, exclusive>>
      BY <1>4 DEF Start, Respond
    <2>2. r # g
      BY <1>1, <1>4 DEF Start, Respond, IInv, IdleIsDone
    <2>3. rest'[g] = rest[g] /\ running'[g] = running[g]
      BY <1>1, <1>4, <2>2 DEF Start, Respond, TypeOK
    <2> QED
      BY <1>1, <1>2, <2>1, <2>3 DEF SelfDeadlocked, Holds, InRead, InWrite, NextOp
  <1>5. CASE RLock(r)
    <2>1. writer = Nobody /\ r # g
      BY <1>1, <1>2, <1>5 DEF RLock, NextOp
    <2>2. rest'[g] = rest[g] /\ reads'[g] = reads[g]
      BY <1>1, <1>5, <2>1 DEF RLock, Advance, TypeOK
    <2>3. UNCHANGED <<running, writer, exclusive>> /\ ~InWrite(g)
      BY <1>1, <1>5, <2>1 DEF RLock, InWrite
    <2> QED
      BY <1>1, <2>2, <2>3 DEF SelfDeadlocked, Holds, InRead, InWrite, NextOp
  <1>6. CASE RUnlock(r) \/ CallMongo(r) \/ WritePeer(r)
    <2>1. r # g
      BY <1>1, <1>6 DEF RUnlock, CallMongo, WritePeer, NextOp
    <2>2. rest'[g] = rest[g] /\ reads'[g] = reads[g]
      BY <1>1, <1>6, <2>1 DEF RUnlock, CallMongo, WritePeer, Advance, TypeOK
    <2>3. UNCHANGED <<running, writer, exclusive>>
      BY <1>6 DEF RUnlock, CallMongo, WritePeer
    <2>4. InWrite(g) => UNCHANGED reads
      BY <1>2, <1>6 DEF RUnlock, CallMongo, WritePeer
    <2> QED
      BY <1>1, <1>2, <2>2, <2>3, <2>4 DEF SelfDeadlocked, Holds, InRead, InWrite, NextOp
  <1>7. CASE Park(r) \/ Misuse(r)
    <2>1. UNCHANGED <<running, rest, reads, writer, exclusive>>
      BY <1>7 DEF Park, Misuse
    <2> QED
      BY <1>1, <1>2, <2>1 DEF SelfDeadlocked, Holds, InRead, InWrite, NextOp
  <1>8. CASE Announce(r)
    <2>1. writer = Nobody /\ writer' = r /\ UNCHANGED <<running, rest, reads, exclusive>>
      BY <1>8 DEF Announce
    <2>2. ~exclusive /\ ~InWrite(g) /\ r # Nobody
      BY <1>1, <2>1, NobodyAssumption DEF Exclusion, InWrite
    <2> QED
      BY <1>1, <2>1, <2>2 DEF SelfDeadlocked, Holds, InRead, InWrite, NextOp
  <1>9. CASE Enter(r)
    BY <1>1, <1>2, <1>9 DEF Enter, InWrite
  <1>10. CASE Unlock(r)
    <2>1. InWrite(r) /\ NextOp(r, "Unlock")
      BY <1>10 DEF Unlock
    <2>2. r = g
      BY <1>1, <1>2, <2>1 DEF InWrite
    <2> QED
      BY <1>1, <2>1, <2>2 DEF NextOp
  <1> QED
    BY <1>3, <1>4, <1>5, <1>6, <1>7, <1>8, <1>9, <1>10 DEF Work

\* Once a goroutine waits for itself, whatever the handlers are, it does so for
\* good, and the lock is lost to everybody else.
THEOREM StuckIsForGood == Spec => WaitsForItselfForGood
  <1>1. ASSUME IInv, [Next]_vars, ~UNCHANGED vars, NEW g \in Goroutine, SelfDeadlocked(g)
        PROVE  /\ SelfDeadlocked(g)' /\ rest'[g] = rest[g] /\ running'[g] = running[g]
               /\ \A r \in Goroutine : InWrite(r)' => InWrite(r)
               /\ InWrite(g) => \A r \in Goroutine : ~InRead(r)'
    BY <1>1, StuckStep
  <1>2. IInv /\ [Next]_vars =>
           [\A g \in Goroutine : SelfDeadlocked(g) =>
               /\ SelfDeadlocked(g)' /\ rest'[g] = rest[g] /\ running'[g] = running[g]
               /\ \A r \in Goroutine : InWrite(r)' => InWrite(r)
               /\ InWrite(g) => \A r \in Goroutine : ~InRead(r)']_vars
    BY <1>1
  <1> QED
    BY <1>2, Invariance, PTL DEF Spec, WaitsForItselfForGood

\* Its request is never answered: what lock_publish shows for two goroutines,
\* for any number of them and every handler that calls the Store under the lock.
THEOREM StuckIsNeverAnswered == Spec => NeverAnswered
  <1> SUFFICES ASSUME NEW g \in Goroutine
               PROVE  Spec => [](SelfDeadlocked(g) => [](running[g] # Nobody))
    BY DEF NeverAnswered
  <1>1. IInv /\ SelfDeadlocked(g) /\ [Next]_vars => SelfDeadlocked(g)'
    <2>1. ASSUME IInv, SelfDeadlocked(g), UNCHANGED vars PROVE SelfDeadlocked(g)'
      BY <2>1 DEF vars, SelfDeadlocked, Holds, InRead, InWrite, NextOp
    <2> QED
      BY <2>1, StuckStep
  <1>2. IInv /\ SelfDeadlocked(g) => running[g] # Nobody
    BY DEF IInv, IdleIsDone, SelfDeadlocked, NextOp
  <1> QED
    BY <1>1, <1>2, Invariance, PTL DEF Spec
=============================================================================
