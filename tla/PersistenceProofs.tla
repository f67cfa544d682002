-------------------------- MODULE PersistenceProofs --------------------------
(***************************************************************************)
(* Proofs about Persistence, for any number of requests, records and       *)
(* crashes.                                                                *)
(***************************************************************************)
EXTENDS Persistence, TLAPS

\* A request writes at its end, is about nothing before its beginning, and drops
\* only what it has deleted.
Started ==
    \A r \in Request : /\ pc[r] # "done" => write[r] = "none"
                       /\ pc[r] = "new" => doc[r] = None
                       /\ pc[r] \in {"drop", "unsure"} => doc[r] \in deleted

\* A process that is down has crashed and has no requests at work and no
\* goroutines.
DownIsIdle ==
    ~up => /\ crashes # 0
           /\ \A r \in Request : /\ write[r] \in {"none", "orphan"}
                               /\ pc[r] \in {"new", "unsure", "done"}

\* A record that is, or was, in memory, in its map or in the database was some
\* request's.
Used ==
    \A d \in Doc : obj[d] # {} \/ db[d] # {} \/ keyed[d] # "nothing" \/ d \in deleted =>
        \E q \in Request : doc[q] = d

\* The image of r's write is begun or finished in this process ...
Marshalled(r) == write[r] \in {"marshal", "sent"}

\* ... or is finished at any rate.
Made(r) == write[r] \in {"marshal", "sent", "orphan"}

\* The writes of record d that this process has under way.
Own(d) == {r \in InFlight(d) : write[r] # "orphan"}

\* Content only grows while the process is up, so what a write was started for
\* and what it marshalled is still in the record.
ImageIsOld ==
    \A r \in Request :
        /\ write[r] = "queued" => basis[r] \subseteq obj[doc[r]]
        /\ Made(r) => basis[r] \subseteq image[r]
        /\ Marshalled(r) => image[r] \subseteq obj[doc[r]]

\* A record that somebody can find, change or write has all its document has.
MemoryIsAhead ==
    up => \A d \in Doc \ overdue : keyed[d] # "nothing" \/ Holders(d) # {} \/ Own(d) # {} =>
              db[d] \subseteq obj[d]

\* What a write that is on its way will take out of the document got there
\* while the write was in flight.
Overwritten ==
    \A r \in Request : Made(r) /\ doc[r] \notin overdue => db[doc[r]] \subseteq image[r] \cup during[r]

\* The records of a dead process's writes are not settled.
OrphansUnsettled == \A r \in Request : write[r] = "orphan" => doc[r] \in unsettled

\* A record that is not unsettled has at most one write in flight ...
OneWrite ==
    \A d \in Doc \ unsettled : \A q, r \in InFlight(d) : q = r

\* ... and when nobody has a change of it still to save, that write has, or
\* else the document has, all there is in memory.
Settled ==
    up => \A d \in Doc \ (unsettled \cup deleted) :
        keyed[d] # "nothing" /\ (\A q \in Holders(d) : pc[q] # "save") =>
            /\ InFlight(d) = {} => db[d] = obj[d]
            /\ \A r \in InFlight(d) : Marshalled(r) => image[r] = obj[d]

\* In a process without a database nothing is written, and what it works on is
\* not in the database, nor on its way there from an earlier process.
Alone ==
    up /\ ~attached =>
        /\ \A r \in Request : write[r] \in {"none", "orphan"}
        /\ \A r \in Request : pc[r] \notin {"new", "unsure", "done"} =>
                db[doc[r]] = {} /\ InFlight(doc[r]) = {}
        /\ \A d \in Doc : keyed[d] # "nothing" => db[d] = {} /\ InFlight(d) = {}

\* Somebody's delete of record d has yet to reach the database.
Dropping(d) == \E r \in Request : doc[r] = d /\ pc[r] = "drop"

\* Nobody finds, changes or writes a record that was deleted in peace, before a
\* start can have brought it back.
Gone ==
    \A d \in deleted \ raced :
        /\ d \notin undone \/ crashes = 0 \/ Dropping(d) =>
               keyed[d] = "nothing" /\ InFlight(d) = {} /\ Holders(d) = {}
        /\ d \notin undone /\ ~Dropping(d) => db[d] = {}

\* The inductive invariant.
IInv ==
    /\ TypeOK /\ Started /\ DownIsIdle /\ Used /\ ImageIsOld /\ MemoryIsAhead
    /\ Overwritten /\ OrphansUnsettled /\ OneWrite /\ Settled /\ Alone /\ Gone

-----------------------------------------------------------------------------

(* Each part of the invariant is kept by each step.                        *)

\* What is sent has what the image had when it was begun, and nothing the
\* record does not have; nothing but the image and the stage changes.
LEMMA SendGrows ==
    ASSUME IInv, NEW r \in Request, Send(r)
    PROVE  /\ image[r] \subseteq image'[r] /\ image'[r] \subseteq obj[doc[r]]
           /\ \A q \in Request \ {r} : image'[q] = image[q]
           /\ \A q \in Request : Marshalled(q)' <=> Marshalled(q)
           /\ \A d \in Doc : /\ InFlight(d)' = InFlight(d) /\ Own(d)' = Own(d)
                              /\ Holders(d)' = Holders(d)
           /\ UNCHANGED <<up, attached, obj, keyed, db, pc, doc, unsettled, overdue, deleted>>
  <1> USE DEF IInv, TypeOK, Send, process, memory, hist
  <1>1. PICK caught \in SUBSET (obj[doc[r]] \ image[r]) :
            image' = [image EXCEPT ![r] = @ \cup caught]
    OBVIOUS
  <1>2. image[r] \subseteq obj[doc[r]]
    BY DEF ImageIsOld, Marshalled
  <1>3. \A q \in Request : Marshalled(q)' <=> Marshalled(q)
    BY DEF Marshalled
  <1>4. \A d \in Doc : InFlight(d)' = InFlight(d) /\ Own(d)' = Own(d) /\ Holders(d)' = Holders(d)
    BY DEF InFlight, Own, Holders
  <1> QED
    BY <1>1, <1>2, <1>3, <1>4

\* Each step keeps the types.
LEMMA TypeNext ==
    ASSUME IInv, Next
    PROVE  TypeOK'
  <1> USE DEF IInv, TypeOK, Goto, process, memory, writes, hist
  <1>1. ASSUME NEW r \in Request, Create(r) PROVE TypeOK'
    BY <1>1 DEF Create, WriteDoc
  <1>2. ASSUME NEW r \in Request, Lookup(r) \/ Mutate(r) \/ LinkGoogleID(r) PROVE TypeOK'
    BY <1>2 DEF Lookup, Mutate, LinkGoogleID
  <1>3. ASSUME NEW r \in Request, Save(r) PROVE TypeOK'
    BY <1>3 DEF Save, WriteDoc
  <1>4. ASSUME NEW r \in Request, Delete(r) \/ Drop(r) \/ DropLate(r) PROVE TypeOK'
    BY <1>4 DEF Delete, Drop, DropLate
  <1>5. ASSUME NEW r \in Request, Marshal(r) \/ Send(r) PROVE TypeOK'
    BY <1>5 DEF Marshal, Send, Started
  <1>6. ASSUME NEW r \in Request, Land(r) PROVE TypeOK'
    BY <1>6 DEF Land, EndWrite, Started
  <1>7. ASSUME NEW r \in Request, Fail(r) \/ GiveUp(r) PROVE TypeOK'
    BY <1>7 DEF Fail, GiveUp, EndWrite, Started
  <1>8. CASE Crash
    <2>1. crashes' \in 0..MaxCrashes
      BY <1>8, CrashesAssumption DEF Crash
    <2>2. undone' \subseteq Doc
      BY <1>8 DEF Crash
    <2>3. \A r \in Request : pc'[r] \in {"new", "unsure", "done"} /\ (pc'[r] = "new" <=> pc[r] = "new")
      BY <1>8 DEF Crash
    <2> QED
      BY <1>8, <2>1, <2>2, <2>3 DEF Crash
  <1>9. CASE Restart
    BY <1>9 DEF Restart, LoadKey
  <1> QED
    BY <1>1, <1>2, <1>3, <1>4, <1>5, <1>6, <1>7, <1>8, <1>9 DEF Next

\* Every step keeps Started.
LEMMA StartedNext ==
    ASSUME IInv, Next
    PROVE  Started'
  <1> USE DEF IInv, TypeOK, Marshalled, Made, Goto, InFlight, Own, Holders, process, memory, writes, hist,
              Started
  <1>1. ASSUME NEW r \in Request, Create(r) \/ Save(r) PROVE Started'
    BY <1>1, NoneAssumption DEF Create, Save, WriteDoc, Free
  <1>2. ASSUME NEW r \in Request, Lookup(r) PROVE Started'
    BY <1>2, NoneAssumption DEF Lookup, Free
  <1>3. ASSUME NEW r \in Request, Mutate(r) \/ LinkGoogleID(r) \/ Delete(r) \/ Drop(r) \/ DropLate(r) PROVE Started'
    BY <1>3, NoneAssumption DEF Mutate, LinkGoogleID, Delete, Drop, DropLate, Free
  <1>4. ASSUME NEW r \in Request, Marshal(r) \/ Send(r) \/ Land(r) \/ Fail(r) \/ GiveUp(r) PROVE Started'
    BY <1>4, NoneAssumption DEF Marshal, Send, Land, Fail, GiveUp, EndWrite
  <1>5. CASE Crash \/ Restart
    BY <1>5 DEF Crash, Restart, LoadKey
  <1> QED
    BY <1>1, <1>2, <1>3, <1>4, <1>5 DEF Next

\* Every step keeps DownIsIdle.
LEMMA DownIsIdleNext ==
    ASSUME IInv, Next
    PROVE  DownIsIdle'
  <1> USE DEF IInv, TypeOK, Marshalled, Made, Goto, InFlight, Own, Holders, process, memory, writes, hist,
              DownIsIdle
  <1>1. ASSUME NEW r \in Request, Create(r) \/ Save(r) PROVE DownIsIdle'
    BY <1>1, NoneAssumption DEF Create, Save, WriteDoc, Free
  <1>2. ASSUME NEW r \in Request, Lookup(r) \/ Mutate(r) \/ LinkGoogleID(r) \/ Delete(r) \/ Drop(r) \/ DropLate(r) PROVE DownIsIdle'
    BY <1>2, NoneAssumption DEF Lookup, Mutate, LinkGoogleID, Delete, Drop, DropLate, Free
  <1>3. ASSUME NEW r \in Request, Marshal(r) \/ Send(r) \/ Land(r) \/ Fail(r) \/ GiveUp(r) PROVE DownIsIdle'
    BY <1>3, NoneAssumption DEF Marshal, Send, Land, Fail, GiveUp, EndWrite
  <1>4. CASE Crash
    BY <1>4 DEF Crash
  <1>5. CASE Restart
    BY <1>5 DEF Restart, LoadKey
  <1> QED
    BY <1>1, <1>2, <1>3, <1>4, <1>5 DEF Next

\* Every step keeps Used.
LEMMA UsedNext ==
    ASSUME IInv, Next
    PROVE  Used'
  <1> USE DEF IInv, TypeOK, Marshalled, Made, Goto, InFlight, Own, Holders, process, memory, writes, hist,
              Used, Started
  <1>1. ASSUME NEW r \in Request, Create(r) PROVE Used'
    BY <1>1, NoneAssumption DEF Create, WriteDoc, Free
  <1>2. ASSUME NEW r \in Request, Save(r) PROVE Used'
    BY <1>2, NoneAssumption DEF Save, WriteDoc, Free
  <1>3. ASSUME NEW r \in Request, Lookup(r) PROVE Used'
    BY <1>3, NoneAssumption DEF Lookup, Free
  <1>4. ASSUME NEW r \in Request, Mutate(r) \/ LinkGoogleID(r) \/ Delete(r) \/ Drop(r) \/ DropLate(r) PROVE Used'
    BY <1>4, NoneAssumption DEF Mutate, LinkGoogleID, Delete, Drop, DropLate, Free
  <1>5. ASSUME NEW r \in Request, Marshal(r) \/ Send(r) \/ Land(r) \/ Fail(r) \/ GiveUp(r) PROVE Used'
    BY <1>5, NoneAssumption DEF Marshal, Send, Land, Fail, GiveUp, EndWrite
  <1>6. CASE Crash
    BY <1>6 DEF Crash
  <1>7. CASE Restart
    BY <1>7 DEF Restart, LoadKey
  <1> QED
    BY <1>1, <1>2, <1>3, <1>4, <1>5, <1>6, <1>7 DEF Next

\* Every step keeps ImageIsOld.
LEMMA ImageIsOldNext ==
    ASSUME IInv, Next
    PROVE  ImageIsOld'
  <1> USE DEF IInv, TypeOK, Marshalled, Made, Goto, InFlight, Own, Holders, process, memory, writes, hist,
              ImageIsOld, Started, DownIsIdle
  <1>1. ASSUME NEW r \in Request, Create(r) PROVE ImageIsOld'
    BY <1>1, NoneAssumption DEF Create, WriteDoc, Free
  <1>2. ASSUME NEW r \in Request, Save(r) PROVE ImageIsOld'
    BY <1>2, NoneAssumption DEF Save, WriteDoc, Free
  <1>3. ASSUME NEW r \in Request, Lookup(r) PROVE ImageIsOld'
    BY <1>3, NoneAssumption DEF Lookup, Free
  <1>4. ASSUME NEW r \in Request, Mutate(r) \/ LinkGoogleID(r) PROVE ImageIsOld'
    BY <1>4, NoneAssumption DEF Mutate, LinkGoogleID, Free
  <1>5. ASSUME NEW r \in Request, Delete(r) \/ Drop(r) \/ DropLate(r) PROVE ImageIsOld'
    BY <1>5, NoneAssumption DEF Delete, Drop, DropLate, Free
  <1>6. ASSUME NEW r \in Request, Marshal(r) \/ Send(r) PROVE ImageIsOld'
    BY <1>6, NoneAssumption DEF Marshal, Send
  <1>7. ASSUME NEW r \in Request, Land(r) \/ Fail(r) \/ GiveUp(r) PROVE ImageIsOld'
    BY <1>7, NoneAssumption DEF Land, Fail, GiveUp, EndWrite
  <1>8. CASE Crash
    BY <1>8 DEF Crash
  <1>9. CASE Restart
    BY <1>9 DEF Restart, LoadKey
  <1> QED
    BY <1>1, <1>2, <1>3, <1>4, <1>5, <1>6, <1>7, <1>8, <1>9 DEF Next

\* Every step keeps MemoryIsAhead.
LEMMA MemoryIsAheadNext ==
    ASSUME IInv, Next
    PROVE  MemoryIsAhead'
  <1> USE DEF IInv, TypeOK, Marshalled, Made, Goto, InFlight, Own, Holders, process, memory, writes, hist,
              MemoryIsAhead, Started, DownIsIdle, Used, ImageIsOld
  <1>1. ASSUME NEW r \in Request, Create(r) PROVE MemoryIsAhead'
    BY <1>1, NoneAssumption DEF Create, WriteDoc, Free
  <1>2. ASSUME NEW r \in Request, Save(r) PROVE MemoryIsAhead'
    BY <1>2, NoneAssumption DEF Save, WriteDoc, Free
  <1>3. ASSUME NEW r \in Request, Lookup(r) PROVE MemoryIsAhead'
    BY <1>3, NoneAssumption DEF Lookup, Free
  <1>4. ASSUME NEW r \in Request, Mutate(r) \/ LinkGoogleID(r) PROVE MemoryIsAhead'
    <2>1. CASE Mutate(r)
      BY <2>1 DEF Mutate
    <2>2. CASE LinkGoogleID(r)
      BY <2>2 DEF LinkGoogleID, Free
    <2> QED
      BY <1>4, <2>1, <2>2
  <1>5. ASSUME NEW r \in Request, Delete(r) PROVE MemoryIsAhead'
    BY <1>5, NoneAssumption DEF Delete, Free
  <1>6. ASSUME NEW r \in Request, Drop(r) \/ DropLate(r) PROVE MemoryIsAhead'
    <2>1. CASE Drop(r)
      BY <2>1, NoneAssumption DEF Drop
    <2>2. CASE DropLate(r)
      BY <2>2, NoneAssumption DEF DropLate
    <2> QED
      BY <1>6, <2>1, <2>2
  <1>7. ASSUME NEW r \in Request, Marshal(r) \/ Send(r) PROVE MemoryIsAhead'
    <2>1. CASE Marshal(r)
      BY <2>1, NoneAssumption DEF Marshal
    <2>2. CASE Send(r)
      <3> HIDE DEF InFlight, Own, Holders, Marshalled
      <3> QED
        BY <2>2, SendGrows
    <2> QED
      BY <1>7, <2>1, <2>2
  <1>8. ASSUME NEW r \in Request, Land(r) PROVE MemoryIsAhead'
    BY <1>8, NoneAssumption DEF Land, EndWrite
  <1>9. ASSUME NEW r \in Request, Fail(r) \/ GiveUp(r) PROVE MemoryIsAhead'
    <2>1. CASE Fail(r)
      BY <2>1, NoneAssumption DEF Fail, EndWrite
    <2>2. CASE GiveUp(r)
      BY <2>2, NoneAssumption DEF GiveUp
    <2> QED
      BY <1>9, <2>1, <2>2
  <1>10. CASE Crash
    BY <1>10 DEF Crash
  <1>11. CASE Restart
    BY <1>11 DEF Restart, LoadKey
  <1> QED
    BY <1>1, <1>2, <1>3, <1>4, <1>5, <1>6, <1>7, <1>8, <1>9, <1>10, <1>11 DEF Next

\* Every step keeps Overwritten.
LEMMA OverwrittenNext ==
    ASSUME IInv, Next
    PROVE  Overwritten'
  <1> USE DEF IInv, TypeOK, Marshalled, Made, Goto, InFlight, Own, Holders, process, memory, writes, hist,
              Overwritten, Started, DownIsIdle, ImageIsOld, MemoryIsAhead
  <1>1. ASSUME NEW r \in Request, Create(r) PROVE Overwritten'
    BY <1>1, NoneAssumption DEF Create, WriteDoc, Free
  <1>2. ASSUME NEW r \in Request, Save(r) PROVE Overwritten'
    BY <1>2, NoneAssumption DEF Save, WriteDoc, Free
  <1>3. ASSUME NEW r \in Request, Lookup(r) PROVE Overwritten'
    BY <1>3, NoneAssumption DEF Lookup, Free
  <1>4. ASSUME NEW r \in Request, Mutate(r) \/ LinkGoogleID(r) \/ Delete(r) PROVE Overwritten'
    BY <1>4, NoneAssumption DEF Mutate, LinkGoogleID, Delete, Free
  <1>5. ASSUME NEW r \in Request, Drop(r) \/ DropLate(r) PROVE Overwritten'
    BY <1>5, NoneAssumption DEF Drop, DropLate
  <1>6. ASSUME NEW r \in Request, Marshal(r) \/ Send(r) PROVE Overwritten'
    BY <1>6, NoneAssumption DEF Marshal, Send
  <1>7. ASSUME NEW r \in Request, Land(r) PROVE Overwritten'
    BY <1>7, NoneAssumption DEF Land, EndWrite
  <1>8. ASSUME NEW r \in Request, Fail(r) \/ GiveUp(r) PROVE Overwritten'
    BY <1>8, NoneAssumption DEF Fail, GiveUp, EndWrite
  <1>9. CASE Crash
    BY <1>9 DEF Crash
  <1>10. CASE Restart
    BY <1>10 DEF Restart, LoadKey
  <1> QED
    BY <1>1, <1>2, <1>3, <1>4, <1>5, <1>6, <1>7, <1>8, <1>9, <1>10 DEF Next

\* Every step keeps OrphansUnsettled.
LEMMA OrphansUnsettledNext ==
    ASSUME IInv, Next
    PROVE  OrphansUnsettled'
  <1> USE DEF IInv, TypeOK, Goto, InFlight, process, memory, writes, hist, OrphansUnsettled,
              Started
  <1>1. ASSUME NEW r \in Request, Create(r) \/ Save(r) PROVE OrphansUnsettled'
    BY <1>1 DEF Create, Save, WriteDoc
  <1>2. ASSUME NEW r \in Request, Lookup(r) \/ Mutate(r) \/ LinkGoogleID(r) PROVE OrphansUnsettled'
    BY <1>2 DEF Lookup, Mutate, LinkGoogleID
  <1>3. ASSUME NEW r \in Request, Delete(r) \/ Drop(r) \/ DropLate(r) PROVE OrphansUnsettled'
    BY <1>3 DEF Delete, Drop, DropLate
  <1>4. ASSUME NEW r \in Request, Marshal(r) \/ Send(r) \/ Land(r) \/ Fail(r) \/ GiveUp(r)
        PROVE  OrphansUnsettled'
    BY <1>4 DEF Marshal, Send, Land, Fail, GiveUp, EndWrite
  <1>5. CASE Crash
    BY <1>5 DEF Crash
  <1>6. CASE Restart
    BY <1>6 DEF Restart
  <1> QED
    BY <1>1, <1>2, <1>3, <1>4, <1>5, <1>6 DEF Next

\* Every step keeps OneWrite.
LEMMA OneWriteNext ==
    ASSUME IInv, Next
    PROVE  OneWrite'
  <1> USE DEF IInv, TypeOK, Marshalled, Made, Goto, InFlight, Own, Holders, process, memory, writes, hist,
              OneWrite, Started, Used
  <1>1. ASSUME NEW r \in Request, Create(r) PROVE OneWrite'
    BY <1>1, NoneAssumption DEF Create, WriteDoc, Free
  <1>2. ASSUME NEW r \in Request, Save(r) PROVE OneWrite'
    BY <1>2, NoneAssumption DEF Save, WriteDoc, Free
  <1>3. ASSUME NEW r \in Request, Lookup(r) PROVE OneWrite'
    BY <1>3, NoneAssumption DEF Lookup, Free
  <1>4. ASSUME NEW r \in Request, Mutate(r) \/ LinkGoogleID(r) \/ Delete(r) \/ Drop(r) \/ DropLate(r) PROVE OneWrite'
    BY <1>4, NoneAssumption DEF Mutate, LinkGoogleID, Delete, Drop, DropLate, Free
  <1>5. ASSUME NEW r \in Request, Marshal(r) \/ Send(r) PROVE OneWrite'
    BY <1>5, NoneAssumption DEF Marshal, Send
  <1>6. ASSUME NEW r \in Request, Land(r) PROVE OneWrite'
    BY <1>6, NoneAssumption DEF Land, EndWrite
  <1>7. ASSUME NEW r \in Request, Fail(r) \/ GiveUp(r) PROVE OneWrite'
    BY <1>7, NoneAssumption DEF Fail, GiveUp, EndWrite
  <1>8. CASE Crash
    BY <1>8 DEF Crash
  <1>9. CASE Restart
    BY <1>9 DEF Restart, LoadKey
  <1> QED
    BY <1>1, <1>2, <1>3, <1>4, <1>5, <1>6, <1>7, <1>8, <1>9 DEF Next

\* Sending leaves a record settled: there is nothing in memory that the image
\* of its only write has not.
LEMMA SendSettled ==
    ASSUME IInv, NEW r \in Request, Send(r)
    PROVE  Settled'
  <1> SUFFICES ASSUME up', NEW d \in Doc \ (unsettled' \cup deleted'), keyed'[d] # "nothing",
                      \A q \in Holders(d)' : pc'[q] # "save"
               PROVE  /\ InFlight(d)' = {} => db'[d] = obj'[d]
                      /\ \A q \in InFlight(d)' : Marshalled(q)' => image'[q] = obj'[d]
    BY DEF Settled
  <1>1. /\ InFlight(d) = {} => db[d] = obj[d]
        /\ \A q \in InFlight(d) : Marshalled(q) => image[q] = obj[d]
    <2>1. up /\ d \in Doc \ (unsettled \cup deleted) /\ keyed[d] # "nothing"
      BY SendGrows
    <2>2. \A q \in Holders(d) : pc[q] # "save"
      BY SendGrows
    <2> QED
      BY <2>1, <2>2 DEF IInv, Settled
  <1>2. \A q \in InFlight(d) : q \in Request /\ doc[q] = d
    BY DEF InFlight
  <1>3. Marshalled(r)
    BY DEF Send, Marshalled
  <1>4. ASSUME NEW q \in InFlight(d), Marshalled(q)
        PROVE  image'[q] = obj[d]
    <2>1. CASE q = r
      <3>1. image[r] = obj[d] /\ doc[r] = d
        BY <1>1, <1>2, <1>3, <2>1
      <3>2. obj[d] \subseteq image'[r] /\ image'[r] \subseteq obj[d]
        BY <3>1, SendGrows
      <3> QED
        BY <2>1, <3>2
    <2>2. CASE q # r
      BY <1>1, <1>2, <1>4, <2>2, SendGrows
    <2> QED
      BY <2>1, <2>2
  <1> QED
    BY <1>1, <1>2, <1>4, SendGrows

\* Every step keeps Settled.
LEMMA SettledNext ==
    ASSUME IInv, Next
    PROVE  Settled'
  <1> USE DEF IInv, TypeOK, Marshalled, Made, Goto, InFlight, Own, Holders, process, memory, writes, hist,
              Settled, Started, DownIsIdle, Used, OneWrite, OrphansUnsettled
  <1>1. ASSUME NEW r \in Request, Create(r) PROVE Settled'
    BY <1>1, NoneAssumption DEF Create, WriteDoc, Free
  <1>2. ASSUME NEW r \in Request, Save(r) PROVE Settled'
    BY <1>2, NoneAssumption DEF Save, WriteDoc, Free
  <1>3. ASSUME NEW r \in Request, Lookup(r) PROVE Settled'
    BY <1>3, NoneAssumption DEF Lookup, Free
  <1>4. ASSUME NEW r \in Request, Mutate(r) PROVE Settled'
    BY <1>4, NoneAssumption DEF Mutate
  <1>5. ASSUME NEW r \in Request, LinkGoogleID(r) PROVE Settled'
    BY <1>5, NoneAssumption DEF LinkGoogleID, Free
  <1>6. ASSUME NEW r \in Request, Delete(r) PROVE Settled'
    BY <1>6, NoneAssumption DEF Delete, Free
  <1>7. ASSUME NEW r \in Request, Drop(r) \/ DropLate(r) PROVE Settled'
    <2>1. CASE Drop(r)
      BY <2>1, NoneAssumption DEF Drop
    <2>2. CASE DropLate(r)
      BY <2>2, NoneAssumption DEF DropLate
    <2> QED
      BY <1>7, <2>1, <2>2
  <1>8. ASSUME NEW r \in Request, Marshal(r) \/ Send(r) PROVE Settled'
    <2>1. CASE Marshal(r)
      BY <2>1, NoneAssumption DEF Marshal
    <2>2. CASE Send(r)
      BY <2>2, SendSettled
    <2> QED
      BY <1>8, <2>1, <2>2
  <1>9. ASSUME NEW r \in Request, Land(r) PROVE Settled'
    BY <1>9, NoneAssumption DEF Land, EndWrite
  <1>10. ASSUME NEW r \in Request, Fail(r) \/ GiveUp(r) PROVE Settled'
    <2>1. CASE Fail(r)
      BY <2>1, NoneAssumption DEF Fail, EndWrite
    <2>2. CASE GiveUp(r)
      BY <2>2, NoneAssumption DEF GiveUp
    <2> QED
      BY <1>10, <2>1, <2>2
  <1>11. CASE Crash
    BY <1>11 DEF Crash
  <1>12. CASE Restart
    BY <1>12 DEF Restart, LoadKey
  <1> QED
    BY <1>1, <1>2, <1>3, <1>4, <1>5, <1>6, <1>7, <1>8, <1>9, <1>10, <1>11, <1>12 DEF Next

\* Every step keeps Alone.
LEMMA AloneNext ==
    ASSUME IInv, Next
    PROVE  Alone'
  <1> USE DEF IInv, TypeOK, Marshalled, Made, Goto, InFlight, Own, Holders, process, memory, writes, hist,
              Alone, Started, DownIsIdle, Used
  <1>1. ASSUME NEW r \in Request, Create(r) PROVE Alone'
    BY <1>1, NoneAssumption DEF Create, WriteDoc, Free
  <1>2. ASSUME NEW r \in Request, Save(r) PROVE Alone'
    BY <1>2, NoneAssumption DEF Save, WriteDoc, Free
  <1>3. ASSUME NEW r \in Request, Lookup(r) PROVE Alone'
    BY <1>3, NoneAssumption DEF Lookup, Free
  <1>4. ASSUME NEW r \in Request, Mutate(r) \/ LinkGoogleID(r) PROVE Alone'
    <2>1. CASE Mutate(r)
      BY <2>1 DEF Mutate
    <2>2. CASE LinkGoogleID(r)
      BY <2>2 DEF LinkGoogleID, Free
    <2> QED
      BY <1>4, <2>1, <2>2
  <1>5. ASSUME NEW r \in Request, Delete(r) PROVE Alone'
    BY <1>5, NoneAssumption DEF Delete, Free
  <1>6. ASSUME NEW r \in Request, Drop(r) \/ DropLate(r) PROVE Alone'
    <2>1. CASE Drop(r)
      BY <2>1, NoneAssumption DEF Drop
    <2>2. CASE DropLate(r)
      BY <2>2, NoneAssumption DEF DropLate
    <2> QED
      BY <1>6, <2>1, <2>2
  <1>7. ASSUME NEW r \in Request, Marshal(r) \/ Send(r) PROVE Alone'
    BY <1>7, NoneAssumption DEF Marshal, Send
  <1>8. ASSUME NEW r \in Request, Land(r) PROVE Alone'
    BY <1>8, NoneAssumption DEF Land, EndWrite
  <1>9. ASSUME NEW r \in Request, Fail(r) \/ GiveUp(r) PROVE Alone'
    BY <1>9, NoneAssumption DEF Fail, GiveUp, EndWrite
  <1>10. CASE Crash
    BY <1>10 DEF Crash
  <1>11. CASE Restart
    BY <1>11 DEF Restart, LoadKey
  <1> QED
    BY <1>1, <1>2, <1>3, <1>4, <1>5, <1>6, <1>7, <1>8, <1>9, <1>10, <1>11 DEF Next

\* Every step keeps Gone.
LEMMA GoneNext ==
    ASSUME IInv, Next
    PROVE  Gone'
  <1> USE DEF IInv, TypeOK, Marshalled, Made, Goto, InFlight, Own, Holders, process, memory, writes, hist,
              Gone, Dropping, Started, DownIsIdle, Used, Alone
  <1>1. ASSUME NEW r \in Request, Create(r) PROVE Gone'
    BY <1>1, NoneAssumption DEF Create, WriteDoc, Free
  <1>2. ASSUME NEW r \in Request, Save(r) PROVE Gone'
    BY <1>2, NoneAssumption DEF Save, WriteDoc, Free
  <1>3. ASSUME NEW r \in Request, Lookup(r) PROVE Gone'
    BY <1>3, NoneAssumption DEF Lookup, Free
  <1>4. ASSUME NEW r \in Request, Mutate(r) \/ LinkGoogleID(r) PROVE Gone'
    BY <1>4, NoneAssumption DEF Mutate, LinkGoogleID, Free
  <1>5. ASSUME NEW r \in Request, Delete(r) PROVE Gone'
    BY <1>5, NoneAssumption DEF Delete, Free
  <1>6. ASSUME NEW r \in Request, Drop(r) \/ DropLate(r) PROVE Gone'
    BY <1>6, NoneAssumption DEF Drop, DropLate
  <1>7. ASSUME NEW r \in Request, Marshal(r) \/ Send(r) PROVE Gone'
    BY <1>7, NoneAssumption DEF Marshal, Send
  <1>8. ASSUME NEW r \in Request, Land(r) PROVE Gone'
    BY <1>8, NoneAssumption DEF Land, EndWrite
  <1>9. ASSUME NEW r \in Request, Fail(r) \/ GiveUp(r) PROVE Gone'
    BY <1>9, NoneAssumption DEF Fail, GiveUp, EndWrite
  <1>10. CASE Crash
    BY <1>10 DEF Crash
  <1>11. CASE Restart
    BY <1>11 DEF Restart, LoadKey
  <1> QED
    BY <1>1, <1>2, <1>3, <1>4, <1>5, <1>6, <1>7, <1>8, <1>9, <1>10, <1>11 DEF Next

-----------------------------------------------------------------------------
(* The theorems.                                                           *)

\* Init satisfies every part of the invariant: nobody has come yet.
LEMMA InitIInv == Init => IInv
  <1> SUFFICES ASSUME Init PROVE IInv
    OBVIOUS
  <1>1. TypeOK
    BY CrashesAssumption DEF Init, TypeOK
  <1>2. Started /\ DownIsIdle /\ Used /\ ImageIsOld /\ Overwritten /\ OrphansUnsettled
    BY DEF Init, Started, DownIsIdle, Used, ImageIsOld, Overwritten, OrphansUnsettled,
       Marshalled, Made
  <1>3. MemoryIsAhead /\ OneWrite /\ Settled /\ Alone /\ Gone
    BY DEF Init, MemoryIsAhead, OneWrite, Settled, Alone, Gone, InFlight, Own, Holders,
       Marshalled
  <1> QED
    BY <1>1, <1>2, <1>3 DEF IInv

\* Every step, and every stuttering step, keeps the invariant.
LEMMA NextIInv == IInv /\ [Next]_vars => IInv'
  <1> SUFFICES ASSUME IInv, [Next]_vars PROVE IInv'
    OBVIOUS
  <1>1. CASE Next
    BY <1>1, TypeNext, StartedNext, DownIsIdleNext, UsedNext, ImageIsOldNext,
       MemoryIsAheadNext, OverwrittenNext, OrphansUnsettledNext, OneWriteNext, SettledNext, AloneNext, GoneNext
       DEF IInv
  <1>2. CASE UNCHANGED vars
    BY <1>2 DEF vars, process, memory, writes, hist, IInv, TypeOK, Started, DownIsIdle, Used,
       ImageIsOld, MemoryIsAhead, Overwritten, OrphansUnsettled, OneWrite, Settled, Alone,
       Gone, Dropping, InFlight, Own, Holders, Marshalled, Made
  <1> QED
    BY <1>1, <1>2

\* The inductive invariant holds of every behaviour.
THEOREM Invariance == Spec => []IInv
  BY InitIInv, NextIInv, PTL DEF Spec

\* Every variable keeps its type.
THEOREM TypeCorrect == Spec => []TypeOK
  <1>1. IInv => TypeOK
    BY DEF IInv
  <1> QED
    BY <1>1, Invariance, PTL

\* A write has the change it was started for, although it marshals the record
\* later and without the mutex.
THEOREM WriteIsNotTooOld == Spec => []WriteHasItsChange
  <1>1. IInv => WriteHasItsChange
    BY DEF IInv, ImageIsOld, Made, WriteHasItsChange
  <1> QED
    BY <1>1, Invariance, PTL

\* A record whose writes did not overlap, fail or go missing is saved.
THEOREM QuietIsSaved == Spec => []QuietMeansSaved
  <1>1. IInv => QuietMeansSaved
    BY DEF IInv, Settled, QuietMeansSaved
  <1> QED
    BY <1>1, Invariance, PTL

\* A record deleted in peace does not come back while the process runs, nor with
\* any later start if its last DeleteOne was carried out.
THEOREM DeletionIsFinal == Spec => []DeletedStaysDeleted
  <1>1. IInv => DeletedStaysDeleted
    BY DEF IInv, Gone, Dropping, DeletedStaysDeleted
  <1> QED
    BY <1>1, Invariance, PTL

\* A change that is in the database is taken out again only by a write that was
\* in flight when it got there.
THEOREM LandedIsLanded == Spec => LandedChangeLostOnlyToOlderWrite
  <1>1. IInv /\ [Next]_vars =>
           [\A r \in Request :
               /\ write[r] \in {"sent", "orphan"} /\ write'[r] = "none" /\ db' # db
               /\ doc[r] \notin deleted \cup overdue
               => db[doc[r]] \ db'[doc[r]] \subseteq during[r]]_vars
    <2> SUFFICES ASSUME IInv, Next, NEW r \in Request,
                        write[r] \in {"sent", "orphan"}, write'[r] = "none", db' # db,
                        doc[r] \notin overdue
                 PROVE  db[doc[r]] \ db'[doc[r]] \subseteq during[r]
      OBVIOUS
    <2>1. Land(r)
      BY DEF IInv, TypeOK, Next, Create, Lookup, Mutate, LinkGoogleID, Save, Delete, Drop, DropLate,
         Marshal, Send, Land, Fail, GiveUp, EndWrite, Crash, Restart, WriteDoc, writes
    <2>2. doc[r] \in Doc
      BY DEF IInv, TypeOK, Started
    <2> QED
      BY <2>1, <2>2 DEF Land, EndWrite, IInv, TypeOK, Overwritten, Made
  <1> QED
    BY <1>1, Invariance, PTL DEF Spec, LandedChangeLostOnlyToOlderWrite

-----------------------------------------------------------------------------
(* The links of invitations.                                               *)

\* Before the first crash the process is up and no record was loaded.
NotLoaded == crashes = 0 => up /\ \A d \in Doc : keyed[d] # "id"

\* Record d was made, and the map does not have it under its key.
Lost(d) ==
    /\ keyed[d] # "key"
    /\ \E q \in Request : doc[q] = d

\* Only NewStore keys an invitation by its id, so the links are good until the
\* first crash.
THEOREM LinkGoodOnce == Spec => []LinkGoodUntilCrash
  <1>1. Init => NotLoaded
    BY DEF Init, NotLoaded
  <1>2. IInv /\ NotLoaded /\ [Next]_vars => NotLoaded'
    <2> SUFFICES ASSUME IInv, NotLoaded, [Next]_vars, crashes' = 0
                 PROVE  up' /\ \A d \in Doc : keyed'[d] # "id"
      BY DEF NotLoaded
    <2>1. ASSUME NEW r \in Request, Create(r) \/ Lookup(r) \/ Mutate(r) \/ LinkGoogleID(r)
                                      \/ Save(r) \/ Delete(r) \/ Drop(r) \/ DropLate(r)
          PROVE  crashes' = crashes /\ up' = up /\ \A d \in Doc : keyed'[d] # keyed[d] => keyed'[d] # "id"
      BY <2>1 DEF IInv, TypeOK, Create, Lookup, Mutate, LinkGoogleID, Save, Delete, Drop, DropLate,
         process, memory
    <2>2. ASSUME NEW r \in Request, Marshal(r) \/ Send(r) \/ Land(r) \/ Fail(r) \/ GiveUp(r)
          PROVE  UNCHANGED <<crashes, up, keyed>>
      BY <2>2 DEF Marshal, Send, Land, Fail, GiveUp, process, memory
    <2>3. CASE Crash
      BY <2>3, CrashesAssumption DEF Crash, IInv, TypeOK
    <2>4. CASE Restart
      BY <2>4 DEF Restart, NotLoaded
    <2>5. CASE UNCHANGED vars
      BY <2>5 DEF vars, process, memory, NotLoaded
    <2> QED
      BY <2>1, <2>2, <2>3, <2>4, <2>5 DEF Next, NotLoaded
  <1>3. IInv /\ NotLoaded => LinkGoodUntilCrash
    BY InvitationAssumption DEF IInv, TypeOK, NotLoaded, LinkGoodUntilCrash, LinkFindsInvitation
  <1> QED
    BY <1>1, <1>2, <1>3, Invariance, PTL DEF Spec

\* A process that is down has no maps.
DownIsUnkeyed == ~up => \A d \in Doc : keyed[d] = "nothing"

LEMMA DownUnkeyed == Spec => []DownIsUnkeyed
  <1>1. Init => DownIsUnkeyed
    BY DEF Init, DownIsUnkeyed
  <1>2. DownIsUnkeyed /\ [Next]_vars => DownIsUnkeyed'
    <2> SUFFICES ASSUME DownIsUnkeyed, [Next]_vars PROVE DownIsUnkeyed'
      OBVIOUS
    <2>1. ASSUME NEW r \in Request, Create(r) \/ Lookup(r) \/ Mutate(r) \/ LinkGoogleID(r)
                                      \/ Save(r) \/ Delete(r) \/ Drop(r)
          PROVE  up'
      BY <2>1 DEF Create, Lookup, Mutate, LinkGoogleID, Save, Delete, Drop, Free, process
    <2>2. ASSUME NEW r \in Request, DropLate(r) \/ Marshal(r) \/ Send(r) \/ Land(r) \/ Fail(r) \/ GiveUp(r)
          PROVE  UNCHANGED <<up, keyed>>
      BY <2>2 DEF DropLate, Marshal, Send, Land, Fail, GiveUp, process, memory
    <2>3. CASE Crash \/ Restart
      BY <2>3 DEF Crash, Restart, DownIsUnkeyed
    <2>4. CASE UNCHANGED vars
      BY <2>4 DEF vars, process, memory, DownIsUnkeyed
    <2> QED
      BY <2>1, <2>2, <2>3, <2>4 DEF Next, DownIsUnkeyed
  <1> QED
    BY <1>1, <1>2, PTL DEF Spec

\* What is lost stays lost: a record has one Create, a request that finds it by
\* its id leaves it there, and so does a start.
LEMMA LostStep ==
    ASSUME IInv, NEW d \in Invitation, Lost(d), [Next]_vars
    PROVE  Lost(d)'
  <1> USE DEF IInv, TypeOK, Lost, Goto
  <1>1. d \in Doc
    BY InvitationAssumption
  <1>2. ASSUME NEW r \in Request, Create(r) PROVE Lost(d)'
    BY <1>1, <1>2, NoneAssumption DEF Create, Started
  <1>3. ASSUME NEW r \in Request, Lookup(r) PROVE Lost(d)'
    BY <1>1, <1>3, NoneAssumption DEF Lookup, memory, Started
  <1>4. ASSUME NEW r \in Request,
               Mutate(r) \/ LinkGoogleID(r) \/ Save(r) \/ Delete(r) \/ Drop(r) \/ DropLate(r)
        PROVE  Lost(d)'
    <2>1. keyed'[d] # "key" /\ UNCHANGED doc
      BY <1>1, <1>4 DEF Mutate, LinkGoogleID, Save, Delete, Drop, DropLate, memory
    <2> QED
      BY <2>1
  <1>5. ASSUME NEW r \in Request, Marshal(r) \/ Send(r) \/ Land(r) \/ Fail(r) \/ GiveUp(r) PROVE Lost(d)'
    BY <1>5 DEF Marshal, Send, Land, Fail, GiveUp, memory
  <1>6. CASE Crash
    BY <1>1, <1>6 DEF Crash
  <1>7. CASE Restart
    BY <1>1, <1>7 DEF Restart, LoadKey
  <1>8. CASE UNCHANGED vars
    BY <1>8 DEF vars, memory
  <1> QED
    BY <1>2, <1>3, <1>4, <1>5, <1>6, <1>7, <1>8 DEF Next

\* The link of an invitation made before a crash never finds it again.
THEOREM LinksDieForGood == Spec => NoLinkSurvives
  <1> SUFFICES ASSUME NEW d \in Invitation
               PROVE  Spec => [](~up /\ (\E q \in Request : doc[q] = d) => [](keyed[d] # "key"))
    BY DEF NoLinkSurvives
  <1>1. IInv /\ DownIsUnkeyed /\ ~up /\ (\E q \in Request : doc[q] = d) => Lost(d)
    BY InvitationAssumption, NoneAssumption DEF IInv, TypeOK, DownIsIdle, DownIsUnkeyed, Started, Lost
  <1>2. IInv /\ Lost(d) /\ [Next]_vars => Lost(d)'
    BY LostStep
  <1>3. Lost(d) => keyed[d] # "key"
    BY DEF Lost
  <1> QED
    BY <1>1, <1>2, <1>3, Invariance, DownUnkeyed, PTL DEF Spec

-----------------------------------------------------------------------------
(* Every step of the Store is a step of SnapshotStore, or none.            *)

Flying == {"sent", "orphan"}
Taken == [d \in Doc |-> Images(d, {"marshal"})]
OnTheWire == [d \in Doc |-> Images(d, Flying)]

\* Images of some stages stay when what is at these stages stays.
LEMMA SameImages ==
    ASSUME NEW stages,
           \A q \in Request :
              /\ (write'[q] \in stages) <=> (write[q] \in stages)
              /\ write[q] \in stages => image'[q] = image[q] /\ doc'[q] = doc[q]
    PROVE  \A d \in Doc : Images(d, stages)' = Images(d, stages)
  BY DEF Images

\* A write that gets to a stage adds its image to that of its record.
LEMMA AnotherImage ==
    ASSUME IInv, NEW stages, NEW r \in Request, doc[r] \in Doc,
           write[r] \notin stages, write'[r] \in stages, UNCHANGED doc,
           \A q \in Request \ {r} : write'[q] = write[q] /\ image'[q] = image[q]
    PROVE  [d \in Doc |-> Images(d, stages)]'
               = [[d \in Doc |-> Images(d, stages)] EXCEPT ![doc[r]] = @ \cup {image'[r]}]
  <1>1. \A d \in Doc \ {doc[r]} : Images(d, stages)' = Images(d, stages)
    BY DEF Images
  <1>2. Images(doc[r], stages)' = Images(doc[r], stages) \cup {image'[r]}
    BY DEF Images
  <1> QED
    BY <1>1, <1>2

\* A write that leaves a stage takes its image along, unless another write of
\* the record has the same.
LEMMA ImageLess ==
    ASSUME IInv, NEW stages, NEW r \in Request, doc[r] \in Doc,
           write[r] \in stages, write'[r] \notin stages, UNCHANGED doc,
           \A q \in Request \ {r} : write'[q] = write[q] /\ image'[q] = image[q]
    PROVE  LET f == [d \in Doc |-> Images(d, stages)]
           IN  f' \in Snapshots!Removed(f, doc[r], image[r])
  <1> DEFINE f == [d \in Doc |-> Images(d, stages)]
  <1>1. \A d \in Doc \ {doc[r]} : Images(d, stages)' = Images(d, stages)
    BY DEF Images
  <1>2. \/ Images(doc[r], stages)' = Images(doc[r], stages)
        \/ Images(doc[r], stages)' = Images(doc[r], stages) \ {image[r]}
    BY DEF Images
  <1>3. f' = f \/ f' = [f EXCEPT ![doc[r]] = @ \ {image[r]}]
    BY <1>1, <1>2
  <1> QED
    BY <1>3 DEF Snapshots!Removed

\* A request that changes a record, or creates it, lets it take a change in.
LEMMA ChangeIsTakenIn ==
    ASSUME IInv, NEW r \in Request, Create(r) \/ Mutate(r) \/ LinkGoogleID(r)
    PROVE  [Snapshots!Next]_(Snapshots!store)
  <1> USE DEF IInv, TypeOK, Started, Goto, process, memory, writes, hist
  <1>1. PICK d \in Doc : obj' = [obj EXCEPT ![d] = @ \cup {r}]
    <2>1. CASE Create(r)
      <3>1. PICK d \in Doc : /\ \A q \in Request : doc[q] # d
                             /\ obj' = [obj EXCEPT ![d] = {r}]
        BY <2>1 DEF Create
      <3>2. obj[d] = {}
        BY <3>1 DEF Used
      <3> QED
        BY <3>1, <3>2
    <2>2. CASE Mutate(r)
      BY <2>2 DEF Mutate
    <2>3. CASE LinkGoogleID(r)
      BY <2>3 DEF LinkGoogleID
    <2> QED
      BY <2>1, <2>2, <2>3
  <1>2. up /\ UNCHANGED <<up, db>>
    BY DEF Create, Mutate, LinkGoogleID, Free
  <1>3. \A stages \in {{"marshal"}, Flying} : \A q \in Request :
            /\ (write'[q] \in stages) <=> (write[q] \in stages)
            /\ write[q] \in stages => image'[q] = image[q] /\ doc'[q] = doc[q]
    <2>1. \A q \in Request : \/ UNCHANGED <<write[q], image[q], doc[q]>>
                             \/ write[q] = "none" /\ write'[q] \in {"none", "queued"}
      BY DEF Create, WriteDoc, Mutate, LinkGoogleID
    <2> QED
      BY <2>1 DEF Flying
  <1>4. UNCHANGED <<Taken, OnTheWire>>
    BY <1>3, SameImages DEF Taken, OnTheWire, Flying
  <1>5. Snapshots!TakeIn(d, r)
    BY <1>1, <1>2, <1>4 DEF Snapshots!TakeIn, Taken, OnTheWire, Flying
  <1> QED
    BY <1>5 DEF Snapshots!Next

\* Whoever looks up, saves or takes out of the map does nothing to see.
LEMMA NothingToSee ==
    ASSUME IInv, NEW r \in Request, Lookup(r) \/ Save(r) \/ Delete(r)
    PROVE  UNCHANGED Snapshots!store
  <1> USE DEF IInv, TypeOK, Started, Goto, process, memory, writes, hist
  <1>1. UNCHANGED <<up, obj, db>>
    BY DEF Lookup, Save, Delete
  <1>2. \A stages \in {{"marshal"}, Flying} : \A q \in Request :
            /\ (write'[q] \in stages) <=> (write[q] \in stages)
            /\ write[q] \in stages => image'[q] = image[q] /\ doc'[q] = doc[q]
    <2>1. \A q \in Request : \/ UNCHANGED <<write[q], image[q], doc[q]>>
                             \/ write[q] = "none" /\ write'[q] \in {"none", "queued"}
      BY DEF Lookup, Save, WriteDoc, Delete
    <2> QED
      BY <2>1 DEF Flying
  <1>3. UNCHANGED <<Taken, OnTheWire>>
    BY <1>2, SameImages DEF Taken, OnTheWire, Flying
  <1> QED
    BY <1>1, <1>3 DEF Snapshots!store, Taken, OnTheWire, Flying

\* The end of a delete erases the document, if there is a database and it does.
LEMMA DropErases ==
    ASSUME IInv, NEW r \in Request, Drop(r) \/ DropLate(r)
    PROVE  [Snapshots!Next]_(Snapshots!store)
  <1> USE DEF IInv, TypeOK, Started, Goto, process, memory, writes, hist
  <1>1. UNCHANGED <<up, obj, write, image, doc>> /\ doc[r] \in Doc
    BY DEF Drop, DropLate
  <1>2. UNCHANGED <<Taken, OnTheWire>>
    BY <1>1 DEF Taken, OnTheWire, Flying, Images
  <1>3. CASE UNCHANGED db
    BY <1>1, <1>2, <1>3 DEF Snapshots!store, Taken, OnTheWire, Flying
  <1>4. CASE db' = [db EXCEPT ![doc[r]] = {}]
    <2>1. Snapshots!Erase(doc[r])
      BY <1>1, <1>2, <1>4 DEF Snapshots!Erase, Taken, OnTheWire, Flying
    <2> QED
      BY <1>1, <2>1 DEF Snapshots!Next
  <1> QED
    BY <1>3, <1>4 DEF Drop, DropLate

\* Marshalling begins a snapshot, sending finishes it.
LEMMA WriteIsSnapshot ==
    ASSUME IInv, NEW r \in Request, Marshal(r) \/ Send(r)
    PROVE  Snapshots!Next
  <1> USE DEF process, memory, writes, hist
  <1> DEFINE d == doc[r]
  <1>1. up /\ d \in Doc /\ UNCHANGED <<up, obj, db, doc>>
    BY DEF IInv, TypeOK, Started, Marshal, Send
  <1>2. \A q \in Request \ {r} : write'[q] = write[q] /\ image'[q] = image[q]
    BY DEF IInv, TypeOK, Marshal, Send
  <1>3. CASE Marshal(r)
    <2>1. write[r] = "queued" /\ write'[r] = "marshal" /\ image'[r] = obj[d]
      BY <1>3 DEF IInv, TypeOK, Marshal
    <2>2. Taken' = [Taken EXCEPT ![d] = @ \cup {obj[d]}]
      BY <1>1, <1>2, <2>1, AnotherImage DEF Taken
    <2>3. UNCHANGED OnTheWire
      BY <1>1, <1>2, <2>1, SameImages DEF OnTheWire, Flying
    <2>4. Snapshots!Begin(d)
      BY <1>1, <2>2, <2>3 DEF Snapshots!Begin, Taken, OnTheWire, Flying
    <2> QED
      BY <1>1, <2>4 DEF Snapshots!Next
  <1>4. CASE Send(r)
    <2>1. write[r] = "marshal" /\ write'[r] = "sent"
      BY <1>4 DEF IInv, TypeOK, Send
    <2>2. image[r] \subseteq image'[r] /\ image'[r] \subseteq obj[d]
      BY <1>4, SendGrows
    <2>3. OnTheWire' = [OnTheWire EXCEPT ![d] = @ \cup {image'[r]}]
      BY <1>1, <1>2, <2>1, AnotherImage DEF OnTheWire, Flying
    <2>4. Taken' \in Snapshots!Removed(Taken, d, image[r])
      BY <1>1, <1>2, <2>1, ImageLess DEF Taken
    <2>5. Snapshots!Finish(d, image[r], image'[r])
      BY <1>1, <2>2, <2>3, <2>4 DEF Snapshots!Finish, Taken, OnTheWire, Flying
    <2>6. image[r] \in Taken[d]
      BY <1>1, <2>1 DEF Taken, Images
    <2> QED
      BY <1>1, <2>2, <2>5, <2>6 DEF Snapshots!Next, Taken
  <1> QED
    BY <1>3, <1>4

\* A write that lands replaces the document by its image; one that fails is lost,
\* and one that is given up stays on its way.
LEMMA WriteEnds ==
    ASSUME IInv, NEW r \in Request, Land(r) \/ Fail(r) \/ GiveUp(r)
    PROVE  [Snapshots!Next]_(Snapshots!store)
  <1> USE DEF EndWrite, process, memory, writes, hist
  <1> DEFINE d == doc[r]
  <1>1. d \in Doc /\ UNCHANGED <<up, obj, doc>>
    BY DEF IInv, TypeOK, Started, Land, Fail, GiveUp
  <1>2. CASE GiveUp(r)
    <2>1. UNCHANGED <<up, obj, db, doc, write, image>>
      BY <1>2 DEF GiveUp
    <2> QED
      BY <2>1 DEF Snapshots!store, Images
  <1>3. CASE Land(r) \/ Fail(r)
    <2>1. /\ \A q \in Request \ {r} : write'[q] = write[q] /\ image'[q] = image[q]
          /\ write'[r] = "none"
      BY <1>3 DEF IInv, TypeOK, Land, Fail
    <2>2. ASSUME NEW stages \in {{"marshal"}, Flying}, write[r] \notin stages
          PROVE  UNCHANGED [c \in Doc |-> Images(c, stages)]
      <3>1. \A q \in Request : /\ (write'[q] \in stages) <=> (write[q] \in stages)
                               /\ write[q] \in stages => image'[q] = image[q] /\ doc'[q] = doc[q]
        BY <1>1, <2>1, <2>2 DEF Flying
      <3> QED
        BY <3>1, SameImages
    <2>3. write[r] = "marshal" => Taken' \in Snapshots!Removed(Taken, d, image[r])
      BY <1>1, <2>1, ImageLess DEF Taken
    <2>4. write[r] \in Flying => OnTheWire' \in Snapshots!Removed(OnTheWire, d, image[r])
      BY <1>1, <2>1, ImageLess DEF OnTheWire, Flying
    <2>5. /\ write[r] = "marshal" => image[r] \in Taken[d]
          /\ write[r] \in Flying => image[r] \in OnTheWire[d]
      BY <1>1 DEF Taken, OnTheWire, Images
    <2>6. CASE Land(r)
      <3>1. write[r] \in Flying /\ db' = [db EXCEPT ![d] = image[r]]
        BY <2>6 DEF Land, Flying
      <3>2. UNCHANGED Taken
        BY <2>2, <3>1 DEF Taken, Flying
      <3>3. Snapshots!Arrive(d, image[r])
        BY <1>1, <2>4, <3>1, <3>2 DEF Snapshots!Arrive, Taken, OnTheWire, Flying
      <3> QED
        BY <1>1, <2>5, <3>1, <3>3 DEF Snapshots!Next, OnTheWire, Flying
    <2>7. CASE Fail(r)
      <3>1. up /\ UNCHANGED db /\ write[r] \in {"queued", "marshal", "sent"}
        BY <2>7 DEF Fail
      <3>2. CASE write[r] = "queued"
        <4>1. UNCHANGED <<Taken, OnTheWire>>
          BY <2>2, <3>2 DEF Taken, OnTheWire, Flying
        <4> QED
          BY <1>1, <3>1, <4>1 DEF Snapshots!store, Taken, OnTheWire, Flying
      <3>3. CASE write[r] = "marshal"
        <4>1. UNCHANGED OnTheWire
          BY <2>2, <3>3 DEF OnTheWire, Flying
        <4>2. Snapshots!Lose(d, image[r])
          BY <1>1, <2>3, <3>1, <3>3, <4>1 DEF Snapshots!Lose, Taken, OnTheWire, Flying
        <4> QED
          BY <1>1, <2>5, <3>3, <4>2 DEF Snapshots!Next, Taken, OnTheWire, Flying
      <3>4. CASE write[r] = "sent"
        <4>1. UNCHANGED Taken
          BY <2>2, <3>4 DEF Taken, Flying
        <4>2. Snapshots!Lose(d, image[r])
          BY <1>1, <2>4, <3>1, <3>4, <4>1 DEF Snapshots!Lose, Taken, OnTheWire, Flying
        <4> QED
          BY <1>1, <2>5, <3>4, <4>2 DEF Snapshots!Next, Taken, OnTheWire, Flying
      <3> QED
        BY <3>1, <3>2, <3>3, <3>4
    <2> QED
      BY <1>3, <2>6, <2>7
  <1> QED
    BY <1>2, <1>3

\* A crash takes memory and the unfinished snapshots along, a start reads what
\* it can.
LEMMA ProcessDiesAndStarts ==
    ASSUME IInv, Crash \/ Restart
    PROVE  Snapshots!Next
  <1>1. CASE Crash
    <2>1. \A q \in Request : /\ write'[q] # "marshal"
                             /\ (write'[q] \in Flying) <=> (write[q] \in Flying)
                             /\ write[q] \in Flying => image'[q] = image[q] /\ doc'[q] = doc[q]
      BY <1>1 DEF Crash, Flying
    <2>2. Taken' = Snapshots!Nothing
      BY <2>1 DEF Taken, Images, Snapshots!Nothing
    <2>3. UNCHANGED OnTheWire
      BY <2>1, SameImages DEF OnTheWire
    <2>4. Snapshots!Die
      BY <1>1, <2>2, <2>3 DEF Crash, Snapshots!Die, Snapshots!Nothing, Taken, OnTheWire, Flying
    <2> QED
      BY <2>4 DEF Snapshots!Next
  <1>2. CASE Restart
    <2>1. UNCHANGED <<Taken, OnTheWire>>
      BY <1>2 DEF Restart, writes, Taken, OnTheWire, Images
    <2>2. Snapshots!Start
      BY <1>2, <2>1 DEF Restart, Snapshots!Start, Taken, OnTheWire, Flying
    <2> QED
      BY <2>2 DEF Snapshots!Next
  <1> QED
    BY <1>1, <1>2

\* The Store implements the promise: its documents are snapshots.
THEOREM Refinement == Spec => ImplementsSnapshotStore
  <1>1. Init => Snapshots!Init
    BY DEF Init, Snapshots!Init, Snapshots!Nothing, Images
  <1>2. IInv /\ [Next]_vars => [Snapshots!Next]_(Snapshots!store)
    <2> SUFFICES ASSUME IInv, [Next]_vars
                 PROVE  [Snapshots!Next]_(Snapshots!store)
      OBVIOUS
    <2>1. CASE Next
      BY <2>1, ChangeIsTakenIn, NothingToSee, DropErases, WriteIsSnapshot, WriteEnds,
         ProcessDiesAndStarts DEF Next
    <2>2. CASE UNCHANGED vars
      BY <2>2 DEF vars, process, memory, writes, Snapshots!store, Images
    <2> QED
      BY <2>1, <2>2
  <1> QED
    BY <1>1, <1>2, Invariance, PTL DEF Spec, ImplementsSnapshotStore, Snapshots!Spec
=============================================================================
