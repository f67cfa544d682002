----------------------------- MODULE Persistence -----------------------------
(***************************************************************************)
(* The Store's records in memory and in MongoDB (internal/store/store.go). *)
(*                                                                         *)
(* A Store method changes the map under the mutex and starts a goroutine   *)
(* that later, and without the mutex, marshals the record as it is BY THEN *)
(* and replaces the document; nobody waits for it, and an error is only    *)
(* printed.  Deletes go to the database while the mutex is held.           *)
(* LoadFromMongo fills the maps when the process starts; a process that    *)
(* cannot reach MongoDB then works in memory only for as long as it lives. *)
(*                                                                         *)
(* The content of a record is the set of the requests whose changes it     *)
(* has, {} when there is no record.  A request runs once, changes one      *)
(* record and starts at most one write, which is named after it.           *)
(***************************************************************************)
EXTENDS Naturals, FiniteSets

CONSTANTS
    Request,      \* the requests
    Doc,          \* the records, each created at most once (its id is a UUID)
    Invitation,   \* those that are invitations, looked up by token, not by id
    MaxCrashes,   \* bound on the number of crashes
    None          \* no record, no request

ASSUME NoneAssumption == None \notin Request \cup Doc
ASSUME InvitationAssumption == Invitation \subseteq Doc
ASSUME CrashesAssumption == MaxCrashes \in Nat

VARIABLES
    up,        \* the process is running
    attached,  \* it reached the database when it started (s.db # nil)
    crashes,   \* how often it has crashed
    obj,       \* obj[d]: content of record d in memory
    keyed,     \* keyed[d]: what the map has d under: "key", "id" or "nothing"
    db,        \* db[d]: content of the document of d
    locked,    \* the request that deletes under the mutex, else None
    pc,        \* pc[r]: where request r is
    doc,       \* doc[r]: the record request r is about
    write,     \* write[r]: r's write: "none", "queued", "marshal", "sent" or "orphan", which
               \* is sent by a process that is dead
    image,     \* image[r]: the content it found when it began to marshal, then sent
    basis,     \* history: the content when r's write was started
    during,    \* history: changes that landed while r's write was in flight
    deleted,   \* history: records whose deletion has begun
    raced,     \* history: records deleted while somebody was at work on them
    undone,    \* history: records whose last DeleteOne failed or was cut off by a crash
    unsettled, \* history: records with a write that failed, overlapped or was never made
    overdue    \* history: records that an orphan reached when a new process was running

memory == <<obj, keyed, locked>>
writes == <<write, image, basis, during>>
hist   == <<deleted, raced, undone, unsettled, overdue>>
process == <<up, attached, crashes>>
vars   == <<process, memory, db, pc, doc, writes, hist>>

TypeOK ==
    /\ up \in BOOLEAN /\ attached \in BOOLEAN
    /\ crashes \in 0..MaxCrashes
    /\ obj \in [Doc -> SUBSET Request]
    /\ keyed \in [Doc -> {"nothing", "key", "id"}]
    /\ db \in [Doc -> SUBSET Request]
    /\ locked \in Request \cup {None}
    /\ pc \in [Request -> {"new", "mutate", "save", "delete", "drop", "unsure", "done"}]
    /\ doc \in [Request -> Doc \cup {None}]
    /\ write \in [Request -> {"none", "queued", "marshal", "sent", "orphan"}]
    /\ image \in [Request -> SUBSET Request]
    /\ basis \in [Request -> SUBSET Request]
    /\ during \in [Request -> SUBSET Request]
    /\ deleted \subseteq Doc /\ raced \subseteq Doc /\ undone \subseteq Doc
    /\ unsettled \subseteq Doc /\ overdue \subseteq Doc
    /\ \A r \in Request : pc[r] # "new" => doc[r] \in Doc

\* NewStore, with an empty database or none.
Init ==
    /\ up = TRUE
    /\ attached \in BOOLEAN
    /\ crashes = 0
    /\ obj = [d \in Doc |-> {}]
    /\ keyed = [d \in Doc |-> "nothing"]
    /\ db = [d \in Doc |-> {}]
    /\ locked = None
    /\ pc = [r \in Request |-> "new"]
    /\ doc = [r \in Request |-> None]
    /\ write = [r \in Request |-> "none"]
    /\ image = [r \in Request |-> {}]
    /\ basis = [r \in Request |-> {}]
    /\ during = [r \in Request |-> {}]
    /\ deleted = {} /\ raced = {} /\ undone = {} /\ unsettled = {} /\ overdue = {}

Goto(r, label) == pc' = [pc EXCEPT ![r] = label]
InFlight(d) == {r \in Request : doc[r] = d /\ write[r] # "none"}
Holders(d) == {r \in Request : doc[r] = d /\ pc[r] \in {"mutate", "save"}}

\* Only one request is inside the mutex; the others' sections are single steps.
Free == up /\ locked = None

-----------------------------------------------------------------------------
(* Requests.                                                               *)

\* writeDoc: starts the goroutine and returns; without a database it only
\* returns.
WriteDoc(r, d, content) ==
    /\ IF attached
       THEN /\ write' = [write EXCEPT ![r] = "queued"]
            /\ basis' = [basis EXCEPT ![r] = content]
       ELSE UNCHANGED <<write, basis>>
    /\ unsettled' = IF attached /\ InFlight(d) = {} THEN unsettled ELSE unsettled \cup {d}
    /\ UNCHANGED <<image, during>>

\* Store.Create*: a new record, its map entry and its write in one section.
Create(r) ==
    /\ Free
    /\ pc[r] = "new"
    /\ \E d \in Doc :
          /\ \A q \in Request : doc[q] # d
          /\ doc' = [doc EXCEPT ![r] = d]
          /\ obj' = [obj EXCEPT ![d] = {r}]
          /\ keyed' = [keyed EXCEPT ![d] = "key"]
          /\ WriteDoc(r, d, {r})
    /\ Goto(r, "done")
    /\ UNCHANGED <<process, locked, db, deleted, raced, undone, overdue>>

\* Mutant: goes on without looking at the second result of the lookup.
LookupUnchecked(r) ==
    /\ Free
    /\ pc[r] = "new"
    /\ \E d \in Doc : doc' = [doc EXCEPT ![r] = IF keyed[d] = "key" THEN d ELSE None]
    /\ Goto(r, "mutate")
    /\ UNCHANGED <<process, memory, db, writes, hist>>

\* A handler looks up the record it will change or delete; an invitation that
\* the map has under its id is found by a request that gives the id as token.
Lookup(r) ==
    /\ Free
    /\ pc[r] = "new"
    /\ \E d \in Doc :
          /\ keyed[d] # "nothing"
          /\ doc' = [doc EXCEPT ![r] = d]
          /\ \/ Goto(r, "mutate")
             \/ d \notin Invitation /\ Goto(r, "delete")
    /\ UNCHANGED <<process, memory, db, writes, hist>>

\* Mutant: the record is replaced by the body of the request.
MutateReplacing(r) ==
    /\ up
    /\ pc[r] = "mutate"
    /\ obj' = [obj EXCEPT ![doc[r]] = {r}]
    /\ Goto(r, "save")
    /\ UNCHANGED <<process, keyed, locked, db, doc, writes, hist>>

\* Mutant: the change is not saved.
MutateUnsaved(r) ==
    /\ up
    /\ pc[r] = "mutate"
    /\ obj' = [obj EXCEPT ![doc[r]] = @ \cup {r}]
    /\ Goto(r, "done")
    /\ UNCHANGED <<process, keyed, locked, db, doc, writes, hist>>

\* The change, made through the pointer; UpdateRegion and ToggleRegion make
\* it without the mutex, also while a delete holds it.
Mutate(r) ==
    /\ up
    /\ pc[r] = "mutate"
    /\ obj' = [obj EXCEPT ![doc[r]] = @ \cup {r}]
    /\ Goto(r, "save")
    /\ UNCHANGED <<process, keyed, locked, db, doc, writes, hist>>

\* AcceptInvitation links a Google account to the user it found by address,
\* and does not save the user.
LinkGoogleID(r) ==
    /\ Free
    /\ pc[r] = "mutate"
    /\ obj' = [obj EXCEPT ![doc[r]] = @ \cup {r}]
    /\ unsettled' = unsettled \cup {doc[r]}
    /\ Goto(r, "done")
    /\ UNCHANGED <<process, keyed, locked, db, doc, writes, deleted, raced, undone, overdue>>

\* Store.Update*: the record is put (back) into its map and written;
\* UpdateInvitationStatus leaves the map as it is.
Save(r) ==
    /\ Free
    /\ pc[r] = "save"
    /\ keyed' = IF doc[r] \in Invitation THEN keyed ELSE [keyed EXCEPT ![doc[r]] = "key"]
    /\ WriteDoc(r, doc[r], obj[doc[r]])
    /\ Goto(r, "done")
    /\ UNCHANGED <<process, obj, locked, db, doc, deleted, raced, undone, overdue>>

\* Store.Delete* removes the map entry and goes on to the database ...
Delete(r) ==
    /\ Free
    /\ pc[r] = "delete"
    /\ keyed' = [keyed EXCEPT ![doc[r]] = "nothing"]
    /\ locked' = r
    /\ deleted' = deleted \cup {doc[r]}
    /\ raced' = IF InFlight(doc[r]) \cup Holders(doc[r]) = {} THEN raced
                                                            ELSE raced \cup {doc[r]}
    /\ undone' = undone \ {doc[r]}
    /\ Goto(r, "drop")
    /\ UNCHANGED <<process, obj, db, doc, writes, unsettled, overdue>>

\* Mutant: the document is left for the next start to clean up.
DropLater(r) ==
    /\ up
    /\ pc[r] = "drop"
    /\ locked' = None
    /\ Goto(r, "done")
    /\ UNCHANGED <<process, obj, keyed, db, doc, writes, hist>>

\* ... if there is one, and unlocks.  An error of DeleteOne, also the end of
\* its 5 seconds, is ignored.
Drop(r) ==
    /\ up
    /\ pc[r] = "drop"
    /\ \/ /\ attached
          /\ db' = [db EXCEPT ![doc[r]] = {}]
          /\ Goto(r, "done")
          /\ UNCHANGED undone
       \/ /\ attached
          /\ undone' = undone \cup {doc[r]}
          /\ Goto(r, "unsure")
          /\ UNCHANGED db
       \/ /\ ~attached
          /\ Goto(r, "done")
          /\ UNCHANGED <<db, undone>>
    /\ locked' = None
    /\ UNCHANGED <<process, obj, keyed, doc, writes, deleted, raced, unsettled, overdue>>

\* The database may still carry out a delete that nobody waits for any more.
DropLate(r) ==
    /\ pc[r] = "unsure"
    /\ db' = [db EXCEPT ![doc[r]] = {}]
    /\ Goto(r, "done")
    /\ UNCHANGED <<process, memory, doc, writes, hist>>

-----------------------------------------------------------------------------
(* The goroutines of writeDoc.                                             *)

\* ReplaceOne begins to marshal the record as it is now ...
Marshal(r) ==
    /\ up
    /\ write[r] = "queued"
    /\ write' = [write EXCEPT ![r] = "marshal"]
    /\ image' = [image EXCEPT ![r] = obj[doc[r]]]
    /\ UNCHANGED <<process, memory, db, pc, doc, basis, during, hist>>

\* Mutant: leaves out what nobody has saved yet.
SendTorn(r) ==
    /\ up
    /\ write[r] = "marshal"
    /\ write' = [write EXCEPT ![r] = "sent"]
    /\ image' = [image EXCEPT ![r] = @ \ {q \in Request : pc[q] = "save"}]
    /\ UNCHANGED <<process, memory, db, pc, doc, basis, during, hist>>

\* ... and takes no lock for it: of the changes made meanwhile the image has
\* any, also a later one without an earlier one.
Send(r) ==
    /\ up
    /\ write[r] = "marshal"
    /\ write' = [write EXCEPT ![r] = "sent"]
    /\ \E caught \in SUBSET (obj[doc[r]] \ image[r]) :
          image' = [image EXCEPT ![r] = @ \cup caught]
    /\ UNCHANGED <<process, memory, db, pc, doc, basis, during, hist>>

\* The goroutine is over; landed: what the others have to add to their history.
EndWrite(r, landed) ==
    /\ write' = [write EXCEPT ![r] = "none"]
    /\ image' = [image EXCEPT ![r] = {}]
    /\ basis' = [basis EXCEPT ![r] = {}]
    /\ during' = [landed EXCEPT ![r] = {}]

\* The database replaces or inserts the document, in whatever order the
\* writes reach it, also when the goroutine has given up or its process died.
Land(r) ==
    /\ write[r] = "orphan" \/ (up /\ write[r] = "sent")
    /\ db' = [db EXCEPT ![doc[r]] = image[r]]
    /\ EndWrite(r, [q \in Request |->
                       IF q \in InFlight(doc[r]) THEN during[q] \cup image[r]
                                                 ELSE during[q]])
    /\ overdue' = IF up /\ write[r] = "orphan" THEN overdue \cup {doc[r]} ELSE overdue
    /\ UNCHANGED <<process, memory, pc, doc, deleted, raced, undone, unsettled>>

\* The write fails and the error is printed ...
Fail(r) ==
    /\ up
    /\ write[r] \in {"queued", "marshal", "sent"}
    /\ EndWrite(r, during)
    /\ unsettled' = unsettled \cup {doc[r]}
    /\ UNCHANGED <<process, memory, db, pc, doc, deleted, raced, undone, overdue>>

\* ... as it is when the 10 seconds are over, but then what was sent may still
\* reach the database, or never.
GiveUp(r) ==
    /\ up
    /\ write[r] = "sent"
    /\ unsettled' = unsettled \cup {doc[r]}
    /\ UNCHANGED <<process, memory, db, pc, doc, writes, deleted, raced, undone, overdue>>

-----------------------------------------------------------------------------
(* The process.                                                            *)

\* Memory, requests and goroutines are gone; a write or a delete that was on
\* its way may still reach the database.
Crash ==
    /\ up
    /\ crashes < MaxCrashes
    /\ up' = FALSE
    /\ crashes' = crashes + 1
    /\ obj' = [d \in Doc |-> {}]
    /\ keyed' = [d \in Doc |-> "nothing"]
    /\ locked' = None
    /\ LET OnItsWay(r) == write[r] \in {"sent", "orphan"}
       IN /\ write' = [r \in Request |-> IF OnItsWay(r) THEN "orphan" ELSE "none"]
          /\ image' = [r \in Request |-> IF OnItsWay(r) THEN image[r] ELSE {}]
          /\ basis' = [r \in Request |-> IF OnItsWay(r) THEN basis[r] ELSE {}]
          /\ during' = [r \in Request |-> IF OnItsWay(r) THEN during[r] ELSE {}]
    /\ pc' = [r \in Request |-> IF pc[r] \in {"new", "unsure"} THEN pc[r]
                                ELSE IF pc[r] = "drop" /\ attached THEN "unsure" ELSE "done"]
    /\ undone' = undone \cup {doc[r] : r \in {q \in Request : pc[q] = "drop"}}
    /\ unsettled' = unsettled \cup {d \in Doc : InFlight(d) # {}}
    /\ UNCHANGED <<attached, db, doc, deleted, raced, overdue>>

\* LoadFromMongo keys every map by id, also the one of the invitations, whose
\* other users key it by token.
LoadKey(d) == IF d \in Invitation THEN "id" ELSE "key"

\* NewStore: an error of a collection's Find or of a document's Decode only
\* skips what it concerns, one of the Ping leaves the maps empty.
Restart ==
    /\ ~up
    /\ attached' \in BOOLEAN
    /\ \E read \in SUBSET {d \in Doc : attached' /\ db[d] # {}} :
          /\ obj' = [d \in Doc |-> IF d \in read THEN db[d] ELSE {}]
          /\ keyed' = [d \in Doc |-> IF d \in read THEN LoadKey(d) ELSE "nothing"]
    /\ up' = TRUE
    /\ UNCHANGED <<crashes, locked, db, pc, doc, writes, hist>>

-----------------------------------------------------------------------------

Next ==
    \/ \E r \in Request :
          \/ Create(r) \/ Lookup(r) \/ Mutate(r) \/ LinkGoogleID(r) \/ Save(r)
          \/ Delete(r) \/ Drop(r) \/ DropLate(r)
          \/ Marshal(r) \/ Send(r) \/ Land(r) \/ Fail(r) \/ GiveUp(r)
    \/ Crash \/ Restart

Spec == Init /\ [][Next]_vars

-----------------------------------------------------------------------------
(***************************************************************************)
(* Properties.                                                             *)
(***************************************************************************)

\* A write never stores something older than the change it was started for.
WriteHasItsChange ==
    \A r \in Request : write[r] \in {"sent", "orphan"} => basis[r] \subseteq image[r]

\* A change that has reached the database is taken back only by a write that
\* was already in flight when it did, by a delete, or not at all: whoever
\* starts later, even after a restart, writes it again.  The exception is a
\* record that a write of a dead process reached behind the back of the next
\* one, which had loaded it before and does not know what has come.
LandedChangeLostOnlyToOlderWrite ==
    [][\A r \in Request :
          /\ write[r] \in {"sent", "orphan"} /\ write'[r] = "none" /\ db' # db
          /\ doc[r] \notin deleted \cup overdue
          => db[doc[r]] \ db'[doc[r]] \subseteq during[r]]_vars

\* A record whose writes never overlapped, failed or were left out is in the
\* database as it is in memory once everybody is through with it.
QuietMeansSaved ==
    \A d \in Doc \ (unsettled \cup deleted) :
        up /\ keyed[d] # "nothing" /\ InFlight(d) \cup Holders(d) = {} => db[d] = obj[d]

\* A record deleted when nobody was changing or writing it is gone, from memory
\* and database and through every restart, if the last DeleteOne was carried
\* out.  One that failed, whose error is ignored, or that a crash cut off leaves
\* the document, and the next start may bring the record back; until the first
\* crash it is gone from memory even so.
DeletedStaysDeleted ==
    \A d \in deleted \ raced :
        \/ \E r \in Request : doc[r] = d /\ pc[r] = "drop"
        \/ /\ d \notin undone => db[d] = {}
           /\ d \notin undone \/ crashes = 0 => keyed[d] = "nothing"

\* Whatever requests, deletes, write goroutines and crashes do, the Store is a
\* SnapshotStore: a document never mixes two images and never has a change the
\* record in memory did not have.
Images(d, stages) == {image[r] : r \in {q \in Request : doc[q] = d /\ write[q] \in stages}}
Snapshots == INSTANCE SnapshotStore WITH
    Record <- Doc, Change <- Request, alive <- up, memory <- obj, disk <- db,
    begun <- [d \in Doc |-> Images(d, {"marshal"})],
    flying <- [d \in Doc |-> Images(d, {"sent", "orphan"})]
ImplementsSnapshotStore == Snapshots!Spec

\* An invitation is valid for "7 days": as long as the Store has it, its
\* link, which carries the token, finds it.
LinkFindsInvitation ==
    \A d \in Invitation : keyed[d] # "nothing" => keyed[d] = "key"

\* That holds for as long as the process that made the invitation runs ...
LinkGoodUntilCrash == crashes = 0 => LinkFindsInvitation

\* ... and no longer: the link of an invitation that was made before a crash
\* finds it never again, whatever requests come and however often the process
\* starts anew.
NoLinkSurvives ==
    \A d \in Invitation :
        [](~up /\ (\E q \in Request : doc[q] = d) => [](keyed[d] # "key"))
=============================================================================
