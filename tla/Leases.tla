------------------------------- MODULE Leases --------------------------------
(***************************************************************************)
(* Units, leases, rental applications and the rent ledger: the lease part  *)
(* of AcceptInvitation, CreateApplication, UpdateApplication, VacateLease, *)
(* TransferTenant (handlers/support.go) and PayRent.                       *)
(*                                                                         *)
(* Each handler changes a lease, then a unit, then the ledger in sections  *)
(* of the Store's mutex of their own; one action is one such section.  The *)
(* CreateLease and CreateUnit calls that only save a record changed before *)
(* are not steps here, the record is in memory already.  The lease, the    *)
(* application and the ledger entry a request makes are named after it.    *)
(* A request runs once.                                                    *)
(***************************************************************************)
EXTENDS Naturals, FiniteSets

CONSTANTS
    Request,   \* the requests, and the names of what they create
    Unit,      \* the units, each with one listing
    AutoUnit,  \* units whose listing is in "auto" application review mode
    Key,       \* X-Idempotency-Key values clients send
    None       \* no lease, unit, or key

ASSUME NoneAssumption == None \notin Request \cup Unit \cup Key
ASSUME AutoAssumption == AutoUnit \subseteq Unit

VARIABLES
    leaseStatus,  \* leaseStatus[l]: "absent" before lease l exists
    leaseUnit,    \* leaseUnit[l]: the unit of lease l
    unitStatus,   \* unitStatus[u]
    currentLease, \* currentLease[u]: CurrentLeaseID of unit u
    application,  \* application[a]: its status, "absent" before it exists
    ledger,       \* the entries: which request added it, for which lease, its key
    pc,           \* pc[r]: where request r is
    op,           \* op[r]: the handler of request r
    arg,          \* arg[r]: the lease or the application request r is about
    unit,         \* unit[r]: the unit request r is about
    key,          \* key[r]: the idempotency key request r carries
    prior         \* history: payments answered before payment r arrived

leases == <<leaseStatus, leaseUnit>>
units  == <<unitStatus, currentLease>>
local  == <<op, arg, unit, key, prior>>
vars   == <<leases, units, application, ledger, pc, local>>

Handler == {"MoveIn", "CreateApplication", "UpdateApplication", "VacateLease",
            "TransferTenant", "PayRent"}
Label == {"new", "done", "lease", "unit", "entry", "file", "notice", "unitNotice",
          "free", "scan", "pay"}

TypeOK ==
    /\ leaseStatus \in [Request -> {"absent", "active", "notice_given", "terminated"}]
    /\ leaseUnit \in [Request -> Unit \cup {None}]
    /\ unitStatus \in [Unit -> {"available", "occupied", "notice_given"}]
    /\ currentLease \in [Unit -> Request \cup {None}]
    /\ application \in [Request -> {"absent", "pending", "approved", "rejected"}]
    /\ ledger \subseteq [by : Request, lease : Request, key : Key \cup {None}]
    /\ pc \in [Request -> Label]
    /\ op \in [Request -> Handler \cup {None}]
    /\ arg \in [Request -> Request \cup {None}]
    /\ unit \in [Request -> Unit \cup {None}]
    /\ key \in [Request -> Key \cup {None}]
    /\ prior \in [Request -> SUBSET Request]

Init ==
    /\ leaseStatus = [l \in Request |-> "absent"]
    /\ leaseUnit = [l \in Request |-> None]
    /\ unitStatus = [u \in Unit |-> "available"]
    /\ currentLease = [u \in Unit |-> None]
    /\ application = [a \in Request |-> "absent"]
    /\ ledger = {}
    /\ pc = [r \in Request |-> "new"]
    /\ op = [r \in Request |-> None]
    /\ arg = [r \in Request |-> None]
    /\ unit = [r \in Request |-> None]
    /\ key = [r \in Request |-> None]
    /\ prior = [r \in Request |-> {}]

LeaseExists(l) == leaseStatus[l] # "absent"
Goto(r, label) == pc' = [pc EXCEPT ![r] = label]

\* Request r arrives for handler h, about lease or application a and unit u.
Arrive(r, h, a, u, label) ==
    /\ pc[r] = "new"
    /\ Goto(r, label)
    /\ op' = [op EXCEPT ![r] = h]
    /\ arg' = [arg EXCEPT ![r] = a]
    /\ unit' = [unit EXCEPT ![r] = u]

-----------------------------------------------------------------------------
(* Arrivals.  Each makes the handler's first section.                      *)

\* A tenant's invitation for unit u was accepted (module Invitations); what
\* remains is the lease, the unit and the deposit.
MoveIn(r) ==
    /\ \E u \in Unit : Arrive(r, "MoveIn", None, u, "lease")
    /\ UNCHANGED <<leases, units, application, ledger, key, prior>>

\* A strong applicant for a listing in auto mode gets the lease at once, and
\* the application is filed at the end; anybody else is filed as pending.
CreateApplication(r) ==
    /\ \E u \in Unit, strong \in BOOLEAN :
          Arrive(r, "CreateApplication", None, u,
                 IF u \in AutoUnit /\ strong THEN "lease" ELSE "file")
    /\ UNCHANGED <<leases, units, application, ledger, key, prior>>

\* Sets whatever status the reviewer sends; "approved" also makes a lease.
UpdateApplication(r) ==
    /\ \E a \in Request, s \in {"approved", "rejected"} :
          /\ application[a] # "absent"
          /\ Arrive(r, "UpdateApplication", a, unit[a],
                    IF s = "approved" THEN "lease" ELSE "done")
          /\ application' = [application EXCEPT ![a] = s]
    /\ UNCHANGED <<leases, units, ledger, key, prior>>

VacateLease(r) ==
    /\ \E l \in Request :
          /\ LeaseExists(l)
          /\ Arrive(r, "VacateLease", l, leaseUnit[l], "notice")
    /\ UNCHANGED <<leases, units, application, ledger, key, prior>>

\* Both records are looked up and the current lease ends in one section.
TransferTenant(r) ==
    /\ \E l \in Request, u \in Unit :
          /\ LeaseExists(l)
          /\ Arrive(r, "TransferTenant", l, u, "free")
          /\ leaseStatus' = [leaseStatus EXCEPT ![l] = "terminated"]
    /\ UNCHANGED <<leaseUnit, units, application, ledger, key, prior>>

\* A client that sends no key gets a fresh one, here None.
PayRent(r) ==
    /\ \E l \in Request, k \in Key \cup {None} :
          /\ LeaseExists(l)
          /\ Arrive(r, "PayRent", l, leaseUnit[l], "scan")
          /\ key' = [key EXCEPT ![r] = k]
    /\ prior' = [prior EXCEPT ![r] = {q \in Request : op[q] = "PayRent" /\ pc[q] = "done"}]
    /\ UNCHANGED <<leases, units, application, ledger>>

-----------------------------------------------------------------------------
(* Sections shared by the handlers that let a unit.                        *)

CreateLease(r) ==
    /\ pc[r] = "lease"
    /\ leaseStatus' = [leaseStatus EXCEPT ![r] = "active"]
    /\ leaseUnit' = [leaseUnit EXCEPT ![r] = unit[r]]
    /\ Goto(r, "unit")
    /\ UNCHANGED <<units, application, ledger, local>>

\* What comes after the unit is taken.
AfterUnit(r) ==
    CASE op[r] = "CreateApplication" -> "file"
      [] op[r] = "UpdateApplication" -> "done"
      [] OTHER                       -> "entry"

\* Mutant: the unit points to the lease it was let under before.
TakeUnitKeepingLease(r) ==
    /\ pc[r] = "unit"
    /\ unitStatus' = [unitStatus EXCEPT ![unit[r]] = "occupied"]
    /\ Goto(r, AfterUnit(r))
    /\ UNCHANGED <<leases, currentLease, application, ledger, local>>

\* UpdateUnitStatus, or the same assignments under the handler's own lock.
TakeUnit(r) ==
    /\ pc[r] = "unit"
    /\ unitStatus' = [unitStatus EXCEPT ![unit[r]] = "occupied"]
    /\ currentLease' = [currentLease EXCEPT ![unit[r]] = r]
    /\ Goto(r, AfterUnit(r))
    /\ UNCHANGED <<leases, application, ledger, local>>

\* Mutant: the entry names the lease the request was sent about.
AddEntryForArgument(r) ==
    /\ pc[r] = "entry"
    /\ ledger' = ledger \cup {[by |-> r, lease |-> arg[r], key |-> None]}
    /\ Goto(r, "done")
    /\ UNCHANGED <<leases, units, application, local>>

\* The deposit of a move-in, the transfer entry of a transfer.
AddEntry(r) ==
    /\ pc[r] = "entry"
    /\ ledger' = ledger \cup {[by |-> r, lease |-> r, key |-> None]}
    /\ Goto(r, "done")
    /\ UNCHANGED <<leases, units, application, local>>

\* Mutant: a listing in auto mode approves the weak applicants too.
FileApplicationByMode(r) ==
    /\ pc[r] = "file"
    /\ application' = [application EXCEPT ![r] = IF unit[r] \in AutoUnit THEN "approved"
                                                                       ELSE "pending"]
    /\ Goto(r, "done")
    /\ UNCHANGED <<leases, units, ledger, local>>

\* An application that went through has a lease named after it.
FileApplication(r) ==
    /\ pc[r] = "file"
    /\ application' = [application EXCEPT ![r] = IF LeaseExists(r) THEN "approved"
                                                                  ELSE "pending"]
    /\ Goto(r, "done")
    /\ UNCHANGED <<leases, units, ledger, local>>

-----------------------------------------------------------------------------
(* The rest of TransferTenant, VacateLease and PayRent.                    *)

\* Mutant: the target unit is made available, not the one left behind.
FreeTargetUnit(r) ==
    /\ pc[r] = "free"
    /\ unitStatus' = [unitStatus EXCEPT ![unit[r]] = "available"]
    /\ Goto(r, "lease")
    /\ UNCHANGED <<leases, currentLease, application, ledger, local>>

\* The unit left behind is available again; its CurrentLeaseID stays.
FreeUnit(r) ==
    /\ pc[r] = "free"
    /\ unitStatus' = [unitStatus EXCEPT ![leaseUnit[arg[r]]] = "available"]
    /\ Goto(r, "lease")
    /\ UNCHANGED <<leases, currentLease, application, ledger, local>>

GiveNotice(r) ==
    /\ pc[r] = "notice"
    /\ leaseStatus' = [leaseStatus EXCEPT ![arg[r]] = "notice_given"]
    /\ Goto(r, "unitNotice")
    /\ UNCHANGED <<leaseUnit, units, application, ledger, local>>

MarkUnit(r) ==
    /\ pc[r] = "unitNotice"
    /\ unitStatus' = [unitStatus EXCEPT ![unit[r]] = "notice_given"]
    /\ Goto(r, "done")
    /\ UNCHANGED <<leases, currentLease, application, ledger, local>>

\* Mutant: looks for the key among this lease's entries by the same request.
ScanOwn(r) ==
    /\ pc[r] = "scan"
    /\ Goto(r, IF \E e \in ledger : e.key = key[r] /\ e.by = r /\ key[r] # None
               THEN "done" ELSE "pay")
    /\ UNCHANGED <<leases, units, application, ledger, local>>

\* An entry with this key is the answer; a fresh key has none.
Scan(r) ==
    /\ pc[r] = "scan"
    /\ Goto(r, IF \E e \in ledger : e.key = key[r] /\ key[r] # None THEN "done" ELSE "pay")
    /\ UNCHANGED <<leases, units, application, ledger, local>>

AddRent(r) ==
    /\ pc[r] = "pay"
    /\ ledger' = ledger \cup {[by |-> r, lease |-> arg[r], key |-> key[r]]}
    /\ Goto(r, "done")
    /\ UNCHANGED <<leases, units, application, local>>

-----------------------------------------------------------------------------

Next ==
    \E r \in Request :
        \/ MoveIn(r) \/ CreateApplication(r) \/ UpdateApplication(r)
        \/ VacateLease(r) \/ TransferTenant(r) \/ PayRent(r)
        \/ CreateLease(r) \/ TakeUnit(r) \/ AddEntry(r) \/ FileApplication(r)
        \/ FreeUnit(r) \/ GiveNotice(r) \/ MarkUnit(r) \/ Scan(r) \/ AddRent(r)

Spec == Init /\ [][Next]_vars

-----------------------------------------------------------------------------
(***************************************************************************)
(* Properties.                                                             *)
(***************************************************************************)

LeasesOf(u) == {l \in Request : LeaseExists(l) /\ leaseUnit[l] = u}

\* Whichever handlers race for a unit, its CurrentLeaseID names a lease that
\* exists and is a lease of this unit, and an occupied unit has one.
CurrentLeaseIsOfUnit ==
    \A u \in Unit :
        /\ currentLease[u] # None => currentLease[u] \in LeasesOf(u)
        /\ unitStatus[u] = "occupied" => currentLease[u] # None

\* A unit shown as available whose active lease is past TakeUnit was let
\* twice: another lease of the same unit has come to its end.
VacancyExplained ==
    \A u \in Unit, l \in Request :
        /\ unitStatus[u] = "available"
        /\ l \in LeasesOf(u)
        /\ leaseStatus[l] = "active"
        /\ pc[l] # "unit"
        => \E m \in LeasesOf(u) : leaseStatus[m] # "active"

\* An approved application nobody is working on has its lease, also when it
\* was approved and rejected by several reviewers at once.
ApprovedHasLease ==
    \A a \in Request :
        LET Reviews == {r \in Request : op[r] = "UpdateApplication" /\ arg[r] = a}
        IN  application[a] = "approved" /\ (\A r \in Reviews : pc[r] = "done") =>
                \E l \in Reviews \cup {a} : LeaseExists(l)

\* A payment sent again after the first one was answered adds nothing: no
\* entry carries the key of a payment answered before its own request came.
RetryPaysOnce ==
    \A e \in ledger : e.key # None =>
        \A q \in prior[e.by] : key[q] # e.key

\* "Verify idempotency": no two entries carry the same key.
OneEntryPerKey ==
    \A d, e \in ledger : d.key = e.key /\ d.key # None => d = e
=============================================================================
