---------------------------- MODULE LeasesProofs ----------------------------
(***************************************************************************)
(* Proofs about Leases, for any number of requests, units and keys and any *)
(* choice of the units that are let automatically.                         *)
(***************************************************************************)
EXTENDS Leases, TLAPS

\* Who has not arrived has made nothing; who has is about a unit.
Arrived ==
    \A r \in Request :
        /\ pc[r] = "new" => application[r] = "absent"
        /\ pc[r] # "new" => unit[r] \in Unit

\* A lease that exists is past CreateLease and is a lease of some unit, and the
\* request about to take the unit has its lease.
LeaseMade ==
    \A l \in Request :
        /\ LeaseExists(l) => leaseUnit[l] \in Unit /\ pc[l] \notin {"new", "lease", "free"}
        /\ pc[l] = "unit" => LeaseExists(l) /\ leaseUnit[l] = unit[l]

\* Who ends a lease is about one that exists; the one a transfer has ended
\* never becomes active again.
LeaseGiven ==
    \A r \in Request :
        /\ pc[r] \in {"free", "notice", "scan", "pay"} => arg[r] \in Request /\ LeaseExists(arg[r])
        /\ pc[r] = "free" => leaseStatus[arg[r]] # "active"

\* Only PayRent scans and pays, and it does nothing else.
PaymentsOnly ==
    \A r \in Request :
        /\ pc[r] \in {"scan", "pay"} => op[r] = "PayRent"
        /\ op[r] = "PayRent" => pc[r] \in {"new", "scan", "pay", "done"}

\* The payments answered before r came are payments and are answered, and one
\* answered with a key has an entry with that key.
AnsweredPaid ==
    \A r \in Request :
        /\ \A q \in prior[r] : op[q] = "PayRent" /\ pc[q] = "done"
        /\ op[r] = "PayRent" /\ pc[r] = "done" /\ key[r] # None =>
              \E e \in ledger : e.key = key[r]

\* Who is going to add an entry found none with the key, so that no payment
\* answered before had it.
NotPaidBefore ==
    \A r \in Request : pc[r] = "pay" /\ key[r] # None =>
        \A q \in prior[r] : key[q] # key[r]

\* An entry carries the key of the request that added it, and that is done.
EntriesSigned ==
    \A e \in ledger : e.key # None => key[e.by] = e.key /\ pc[e.by] = "done"

\* An approved application has its lease, or a reviewer is about to make it.
ApprovalUnderway ==
    \A a \in Request : application[a] = "approved" =>
        \/ LeaseExists(a)
        \/ \E r \in Request : /\ op[r] = "UpdateApplication"
                              /\ arg[r] = a
                              /\ pc[r] = "lease" \/ LeaseExists(r)

\* The inductive invariant.
IInv ==
    /\ TypeOK /\ Arrived /\ LeaseMade /\ LeaseGiven /\ PaymentsOnly /\ AnsweredPaid
    /\ NotPaidBefore /\ EntriesSigned /\ ApprovalUnderway
    /\ CurrentLeaseIsOfUnit /\ VacancyExplained /\ RetryPaysOnce

-----------------------------------------------------------------------------
(* What single steps do.                                                   *)

\* The first step of a request, and a later one.
Come(r) == MoveIn(r) \/ CreateApplication(r) \/ UpdateApplication(r)
           \/ VacateLease(r) \/ TransferTenant(r) \/ PayRent(r)
GoOn(r) == CreateLease(r) \/ TakeUnit(r) \/ AddEntry(r) \/ FileApplication(r)
           \/ FreeUnit(r) \/ GiveNotice(r) \/ MarkUnit(r) \/ Scan(r) \/ AddRent(r)

\* Each step keeps the types.
LEMMA TypeNext ==
    ASSUME IInv, NEW r \in Request, Come(r) \/ GoOn(r)
    PROVE  TypeOK'
  <1> USE DEF IInv, TypeOK, Goto, Label, Handler, leases, units, local
  <1>1. CASE MoveIn(r) \/ CreateApplication(r)
    BY <1>1 DEF MoveIn, CreateApplication, Arrive
  <1>2. CASE UpdateApplication(r) \/ VacateLease(r) \/ TransferTenant(r)
    BY <1>2 DEF UpdateApplication, VacateLease, TransferTenant, Arrive
  <1>3. CASE PayRent(r)
    BY <1>3 DEF PayRent, Arrive
  <1>4. CASE CreateLease(r) \/ FreeUnit(r) \/ GiveNotice(r) \/ MarkUnit(r)
    BY <1>4 DEF CreateLease, FreeUnit, GiveNotice, MarkUnit
  <1>5. CASE TakeUnit(r)
    BY <1>5 DEF TakeUnit, AfterUnit
  <1>6. CASE AddEntry(r) \/ FileApplication(r) \/ Scan(r)
    BY <1>6 DEF AddEntry, FileApplication, Scan
  <1>7. CASE AddRent(r)
    BY <1>7 DEF AddRent, LeaseGiven
  <1> QED
    BY <1>1, <1>2, <1>3, <1>4, <1>5, <1>6, <1>7 DEF Come, GoOn

\* Only r moves, and what it is about is settled when it arrives.
LEMMA Moves ==
    ASSUME TypeOK, NEW r \in Request, Come(r) \/ GoOn(r), NEW q \in Request
    PROVE  /\ q # r => pc'[q] = pc[q]
           /\ pc[q] # "new" => /\ pc'[q] # "new"
                               /\ op'[q] = op[q] /\ arg'[q] = arg[q] /\ unit'[q] = unit[q]
                               /\ key'[q] = key[q] /\ prior'[q] = prior[q]
           /\ q # r => /\ op'[q] = op[q] /\ arg'[q] = arg[q] /\ unit'[q] = unit[q]
                       /\ key'[q] = key[q] /\ prior'[q] = prior[q]
           /\ pc[r] # "done"
           /\ Come(r) <=> pc[r] = "new"
  <1> USE DEF TypeOK, Goto, local, Come, GoOn
  <1>1. CASE Come(r)
    BY <1>1 DEF MoveIn, CreateApplication, UpdateApplication, VacateLease, TransferTenant,
       PayRent, Arrive
  <1>2. CASE GoOn(r)
    BY <1>2 DEF CreateLease, TakeUnit, AddEntry, FileApplication, FreeUnit, GiveNotice,
       MarkUnit, Scan, AddRent, AfterUnit, MoveIn, CreateApplication, UpdateApplication,
       VacateLease, TransferTenant, PayRent, Arrive
  <1> QED
    BY <1>1, <1>2

\* Leases stay in existence, with their unit; none becomes active again; and a
\* new one is r's.
LEMMA LeasesStay ==
    ASSUME IInv, NEW r \in Request, Come(r) \/ GoOn(r), NEW l \in Request
    PROVE  /\ LeaseExists(l) => /\ LeaseExists(l)'
                                /\ leaseUnit'[l] = leaseUnit[l]
                                /\ leaseStatus[l] # "active" => leaseStatus'[l] # "active"
           /\ ~LeaseExists(l) /\ LeaseExists(l)' => l = r /\ CreateLease(r)
  <1> USE DEF IInv, TypeOK, LeaseExists, leases
  <1>1. CASE CreateLease(r)
    BY <1>1 DEF CreateLease, LeaseMade
  <1>2. CASE TransferTenant(r)
    BY <1>2 DEF TransferTenant
  <1>3. CASE GiveNotice(r)
    BY <1>3 DEF GiveNotice, LeaseGiven
  <1>4. CASE ~(CreateLease(r) \/ TransferTenant(r) \/ GiveNotice(r))
    BY <1>4 DEF Come, GoOn, MoveIn, CreateApplication, UpdateApplication, VacateLease, PayRent,
       TakeUnit, AddEntry, FileApplication, FreeUnit, MarkUnit, Scan, AddRent
  <1> QED
    BY <1>1, <1>2, <1>3, <1>4

-----------------------------------------------------------------------------
(* Each part of the invariant is kept by each step.                        *)

\* Every step keeps Arrived.
LEMMA ArrivedNext ==
    ASSUME IInv, NEW r \in Request, Come(r) \/ GoOn(r)
    PROVE  Arrived'
  <1> USE DEF IInv, TypeOK, Arrived, Goto, leases, units, local
  <1>1. CASE MoveIn(r) \/ CreateApplication(r) \/ PayRent(r) \/ TransferTenant(r)
    BY <1>1 DEF MoveIn, CreateApplication, PayRent, TransferTenant, Arrive, LeaseMade
  <1>2. CASE UpdateApplication(r) \/ VacateLease(r)
    BY <1>2 DEF UpdateApplication, VacateLease, Arrive, LeaseMade
  <1>3. CASE GoOn(r)
    BY <1>3 DEF GoOn, CreateLease, TakeUnit, AddEntry, FileApplication, FreeUnit, GiveNotice,
       MarkUnit, Scan, AddRent, AfterUnit
  <1> QED
    BY <1>1, <1>2, <1>3 DEF Come

\* Every step keeps LeaseMade.
LEMMA LeaseMadeNext ==
    ASSUME IInv, NEW r \in Request, Come(r) \/ GoOn(r)
    PROVE  LeaseMade'
  <1> USE DEF IInv, TypeOK, LeaseMade, LeaseExists, Goto, leases, units, local
  <1>1. CASE MoveIn(r) \/ CreateApplication(r) \/ PayRent(r) \/ UpdateApplication(r)
             \/ VacateLease(r)
    BY <1>1 DEF MoveIn, CreateApplication, PayRent, UpdateApplication, VacateLease, Arrive
  <1>2. CASE TransferTenant(r)
    BY <1>2 DEF TransferTenant, Arrive
  <1>3. CASE CreateLease(r)
    BY <1>3 DEF CreateLease, Arrived
  <1>4. CASE GiveNotice(r)
    BY <1>4 DEF GiveNotice, LeaseGiven
  <1>5. CASE TakeUnit(r) \/ AddEntry(r) \/ FileApplication(r) \/ FreeUnit(r) \/ MarkUnit(r)
             \/ Scan(r) \/ AddRent(r)
    BY <1>5 DEF TakeUnit, AddEntry, FileApplication, FreeUnit, MarkUnit, Scan, AddRent,
       AfterUnit
  <1> QED
    BY <1>1, <1>2, <1>3, <1>4, <1>5 DEF Come, GoOn

\* Every step keeps LeaseGiven.
LEMMA LeaseGivenNext ==
    ASSUME IInv, NEW r \in Request, Come(r) \/ GoOn(r)
    PROVE  LeaseGiven'
  <1> SUFFICES ASSUME NEW q \in Request
               PROVE  /\ (pc[q] \in {"free", "notice", "scan", "pay"} =>
                            arg[q] \in Request /\ LeaseExists(arg[q]))'
                      /\ (pc[q] = "free" => leaseStatus[arg[q]] # "active")'
    BY DEF LeaseGiven
  <1>1. CASE pc[q] \in {"free", "notice", "scan", "pay"} /\ pc'[q] = pc[q]
    BY <1>1, Moves, LeasesStay DEF IInv, LeaseGiven
  <1>2. CASE q = r /\ pc[q] = "new"
    <2> USE DEF IInv, TypeOK, LeaseExists, Goto, leases, units, local
    <2>1. CASE MoveIn(r) \/ CreateApplication(r) \/ UpdateApplication(r)
      BY <1>2, <2>1 DEF MoveIn, CreateApplication, UpdateApplication, Arrive
    <2>2. CASE VacateLease(r) \/ PayRent(r)
      BY <1>2, <2>2 DEF VacateLease, PayRent, Arrive
    <2>3. CASE TransferTenant(r)
      BY <1>2, <2>3 DEF TransferTenant, Arrive
    <2> QED
      BY <1>2, <2>1, <2>2, <2>3, Moves DEF Come
  <1>3. CASE q = r /\ pc[q] # "new"
    <2>1. GoOn(r)
      BY <1>3, Moves DEF IInv
    <2>2. pc'[r] \notin {"free", "notice", "scan"} /\ (pc'[r] = "pay" => pc[r] = "scan")
      BY <2>1 DEF GoOn, CreateLease, TakeUnit, AddEntry, FileApplication, FreeUnit, GiveNotice,
         MarkUnit, Scan, AddRent, AfterUnit, Goto, IInv, TypeOK
    <2> QED
      BY <1>3, <2>2, Moves, LeasesStay DEF IInv, LeaseGiven
  <1>4. CASE q # r
    BY <1>1, <1>4, Moves DEF IInv
  <1> QED
    BY <1>2, <1>3, <1>4

\* Only FileApplication and UpdateApplication decide an application.
LEMMA Decisions ==
    ASSUME IInv, NEW r \in Request, Come(r) \/ GoOn(r), NEW a \in Request,
           application'[a] = "approved", application[a] # "approved"
    PROVE  \/ a = r /\ LeaseExists(r) /\ FileApplication(r)
           \/ UpdateApplication(r) /\ op'[r] = "UpdateApplication" /\ arg'[r] = a /\ pc'[r] = "lease"
  <1> USE DEF IInv, TypeOK, Goto
  <1>1. CASE FileApplication(r)
    BY <1>1 DEF FileApplication
  <1>2. CASE UpdateApplication(r)
    <2>1. PICK b \in Request, s \in {"approved", "rejected"} :
             /\ Arrive(r, "UpdateApplication", b, unit[b],
                       IF s = "approved" THEN "lease" ELSE "done")
             /\ application' = [application EXCEPT ![b] = s]
      BY <1>2 DEF UpdateApplication
    <2>2. b = a /\ s = "approved"
      BY <2>1
    <2> QED
      BY <1>2, <2>1, <2>2 DEF Arrive
  <1>3. CASE ~(FileApplication(r) \/ UpdateApplication(r))
    BY <1>3 DEF Come, GoOn, MoveIn, CreateApplication, VacateLease, TransferTenant, PayRent,
       CreateLease, TakeUnit, AddEntry, FreeUnit, GiveNotice, MarkUnit, Scan, AddRent
  <1> QED
    BY <1>1, <1>2, <1>3

\* Every step keeps ApprovalUnderway.
LEMMA ApprovalUnderwayNext ==
    ASSUME IInv, NEW r \in Request, Come(r) \/ GoOn(r)
    PROVE  ApprovalUnderway'
  <1> SUFFICES ASSUME NEW a \in Request, application'[a] = "approved"
               PROVE  \/ LeaseExists(a)'
                      \/ \E q \in Request : /\ op'[q] = "UpdateApplication"
                                            /\ arg'[q] = a
                                            /\ pc'[q] = "lease" \/ LeaseExists(q)'
    BY DEF ApprovalUnderway
  <1>1. CASE application[a] # "approved"
    BY <1>1, Decisions, LeasesStay
  <1>2. CASE application[a] = "approved" /\ LeaseExists(a)
    BY <1>2, LeasesStay
  <1>3. CASE application[a] = "approved" /\ ~LeaseExists(a)
    <2>1. PICK q \in Request : /\ op[q] = "UpdateApplication"
                               /\ arg[q] = a
                               /\ pc[q] = "lease" \/ LeaseExists(q)
      BY <1>3 DEF IInv, ApprovalUnderway
    <2>2. pc[q] # "new"
      BY <2>1 DEF IInv, LeaseMade
    <2>3. op'[q] = "UpdateApplication" /\ arg'[q] = a
      BY <2>1, <2>2, Moves DEF IInv
    <2>4. pc'[q] = "lease" \/ LeaseExists(q)'
      <3>1. CASE LeaseExists(q)
        BY <3>1, LeasesStay
      <3>2. CASE pc[q] = "lease" /\ q # r
        BY <3>2, Moves DEF IInv
      <3>3. CASE pc[q] = "lease" /\ q = r
        <4>1. GoOn(r)
          BY <3>3, Moves DEF IInv
        <4>2. CreateLease(r)
          BY <3>3, <4>1 DEF GoOn, TakeUnit, AddEntry, FileApplication, FreeUnit, GiveNotice,
             MarkUnit, Scan, AddRent
        <4> QED
          BY <3>3, <4>2 DEF CreateLease, LeaseExists, IInv, TypeOK
      <3> QED
        BY <2>1, <3>1, <3>2, <3>3
    <2> QED
      BY <2>3, <2>4
  <1> QED
    BY <1>1, <1>2, <1>3

\* Entries stay, and a new one that has a key is that of the payment r is
\* finishing.
LEMMA EntriesStay ==
    ASSUME IInv, NEW r \in Request, Come(r) \/ GoOn(r)
    PROVE  /\ ledger \subseteq ledger'
           /\ \A e \in ledger' \ ledger : e.key # None =>
                 /\ e.by = r /\ e.key = key[r]
                 /\ pc[r] = "pay" /\ pc'[r] = "done"
  <1>1. CASE AddEntry(r)
    BY <1>1 DEF AddEntry
  <1>2. CASE AddRent(r)
    BY <1>2 DEF AddRent, Goto, IInv, TypeOK
  <1>3. CASE ~(AddEntry(r) \/ AddRent(r))
    <2>1. ledger' = ledger
      BY <1>3 DEF Come, GoOn, MoveIn, CreateApplication, UpdateApplication, VacateLease,
         TransferTenant, PayRent, CreateLease, TakeUnit, FileApplication, FreeUnit,
         GiveNotice, MarkUnit, Scan
    <2> QED
      BY <2>1
  <1> QED
    BY <1>1, <1>2, <1>3

\* A payment gets to "pay" or "done" only by Scan and AddRent.
LEMMA PaymentSteps ==
    ASSUME IInv, NEW r \in Request, Come(r) \/ GoOn(r), op'[r] = "PayRent"
    PROVE  \/ PayRent(r) /\ pc'[r] = "scan"
           \/ Scan(r) /\ pc[r] = "scan"
           \/ AddRent(r) /\ pc'[r] = "done"
  <1> USE DEF IInv, TypeOK, Goto
  <1>1. CASE Come(r)
    BY <1>1 DEF Come, MoveIn, CreateApplication, UpdateApplication, VacateLease,
       TransferTenant, PayRent, Arrive
  <1>2. CASE GoOn(r)
    <2>1. op[r] = "PayRent"
      BY <1>2 DEF GoOn, CreateLease, TakeUnit, AddEntry, FileApplication, FreeUnit, GiveNotice,
         MarkUnit, Scan, AddRent, local
    <2> QED
      BY <1>2, <2>1 DEF GoOn, CreateLease, TakeUnit, AddEntry, FileApplication, FreeUnit,
         GiveNotice, MarkUnit, Scan, AddRent, PaymentsOnly
  <1> QED
    BY <1>1, <1>2

\* Every step keeps PaymentsOnly.
LEMMA PaymentsOnlyNext ==
    ASSUME IInv, NEW r \in Request, Come(r) \/ GoOn(r)
    PROVE  PaymentsOnly'
  <1> USE DEF IInv, TypeOK, PaymentsOnly, Goto, local
  <1>1. CASE Come(r)
    BY <1>1 DEF Come, MoveIn, CreateApplication, UpdateApplication, VacateLease,
       TransferTenant, PayRent, Arrive
  <1>2. CASE GoOn(r)
    BY <1>2 DEF GoOn, CreateLease, TakeUnit, AddEntry, FileApplication, FreeUnit, GiveNotice,
       MarkUnit, Scan, AddRent, AfterUnit
  <1> QED
    BY <1>1, <1>2

\* Every step keeps AnsweredPaid.
LEMMA AnsweredPaidNext ==
    ASSUME IInv, NEW r \in Request, Come(r) \/ GoOn(r)
    PROVE  AnsweredPaid'
  <1>1. ASSUME NEW q \in Request, NEW p \in prior'[q]
        PROVE  op'[p] = "PayRent" /\ pc'[p] = "done"
    <2>1. /\ p \in Request
          /\ op[p] = "PayRent" /\ pc[p] = "done"
      <3>1. CASE p \in prior[q]
        BY <1>1, <3>1 DEF IInv, TypeOK, AnsweredPaid
      <3>2. CASE p \notin prior[q]
        <4>1. q = r /\ PayRent(r)
          BY <1>1, <3>2, Moves DEF IInv, TypeOK, Come, GoOn, MoveIn, CreateApplication,
             UpdateApplication, VacateLease, TransferTenant
        <4> QED
          BY <1>1, <4>1 DEF PayRent, IInv, TypeOK
      <3> QED
        BY <3>1, <3>2
    <2> QED
      BY <2>1, Moves DEF IInv
  <1>2. ASSUME NEW q \in Request, op'[q] = "PayRent", pc'[q] = "done", key'[q] # None
        PROVE  \E e \in ledger' : e.key = key'[q]
    <2>1. CASE q # r
      BY <1>2, <2>1, Moves, EntriesStay DEF IInv, AnsweredPaid
    <2>2. CASE q = r /\ Scan(r)
      BY <1>2, <2>2 DEF Scan, Goto, local, IInv, TypeOK
    <2>3. CASE q = r /\ AddRent(r)
      <3> DEFINE new == [by |-> r, lease |-> arg[r], key |-> key[r]]
      <3>1. new \in ledger' /\ new.key = key'[r]
        BY <2>3 DEF AddRent, local
      <3> HIDE DEF new
      <3> QED
        BY <2>3, <3>1
    <2> QED
      BY <1>2, <2>1, <2>2, <2>3, PaymentSteps
  <1> QED
    BY <1>1, <1>2 DEF AnsweredPaid

\* Every step keeps NotPaidBefore.
LEMMA NotPaidBeforeNext ==
    ASSUME IInv, NEW r \in Request, Come(r) \/ GoOn(r)
    PROVE  NotPaidBefore'
  <1> SUFFICES ASSUME NEW q \in Request, pc'[q] = "pay", key'[q] # None, NEW p \in prior'[q]
               PROVE  key'[p] # key'[q]
    BY DEF NotPaidBefore
  <1>1. CASE pc[q] = "pay" /\ pc'[q] = pc[q]
    <2>1. prior'[q] = prior[q] /\ key'[q] = key[q]
      BY <1>1, Moves DEF IInv
    <2>2. p \in Request /\ pc[p] = "done"
      BY <2>1 DEF IInv, TypeOK, AnsweredPaid
    <2> QED
      BY <1>1, <2>1, <2>2, Moves DEF IInv, NotPaidBefore
  <1>2. CASE q = r /\ pc[r] # "pay"
    <2>1. Scan(r)
      BY <1>2 DEF IInv, TypeOK, Goto, Come, GoOn, MoveIn, CreateApplication,
         UpdateApplication, VacateLease, TransferTenant, PayRent, Arrive, CreateLease, TakeUnit,
         AddEntry, FileApplication, FreeUnit, GiveNotice, MarkUnit, AddRent, AfterUnit
    <2>2. /\ prior' = prior /\ key' = key
          /\ \A e \in ledger : e.key # key[r]
      BY <1>2, <2>1 DEF Scan, Goto, local, IInv, TypeOK
    <2>3. p \in Request /\ op[p] = "PayRent" /\ pc[p] = "done"
      BY <1>2, <2>2 DEF IInv, TypeOK, AnsweredPaid
    <2> QED
      BY <1>2, <2>2, <2>3 DEF IInv, AnsweredPaid
  <1>3. CASE q = r /\ pc[r] = "pay"
    <2>1. pc'[r] # "pay"
      BY <1>3 DEF IInv, TypeOK, Goto, Come, GoOn, MoveIn, CreateApplication,
         UpdateApplication, VacateLease, TransferTenant, PayRent, Arrive, CreateLease, TakeUnit,
         AddEntry, FileApplication, FreeUnit, GiveNotice, MarkUnit, Scan, AddRent
    <2> QED
      BY <1>3, <2>1
  <1> QED
    BY <1>1, <1>2, <1>3, Moves DEF IInv

\* Every step keeps EntriesSigned, and the payments sent again pay once.
LEMMA PaysOnceNext ==
    ASSUME IInv, NEW r \in Request, Come(r) \/ GoOn(r)
    PROVE  EntriesSigned' /\ RetryPaysOnce'
  <1> SUFFICES ASSUME NEW e \in ledger', e.key # None
               PROVE  /\ key'[e.by] = e.key /\ pc'[e.by] = "done"
                      /\ \A q \in prior'[e.by] : key'[q] # e.key
    BY DEF EntriesSigned, RetryPaysOnce
  <1>1. /\ e.by \in Request /\ key[e.by] = e.key
        /\ pc[e.by] # "new" /\ pc'[e.by] = "done"
        /\ \A q \in prior[e.by] : key[q] # e.key
    <2>1. CASE e \in ledger
      <3>1. e.by \in Request /\ key[e.by] = e.key /\ pc[e.by] = "done"
        BY <2>1 DEF IInv, TypeOK, EntriesSigned
      <3> QED
        BY <2>1, <3>1, Moves DEF IInv, RetryPaysOnce
    <2>2. CASE e \notin ledger
      BY <2>2, EntriesStay DEF IInv, NotPaidBefore
    <2> QED
      BY <2>1, <2>2
  <1>2. key'[e.by] = key[e.by] /\ prior'[e.by] = prior[e.by]
    BY <1>1, Moves DEF IInv
  <1>3. \A q \in prior[e.by] : key'[q] = key[q]
    BY <1>1, Moves DEF IInv, TypeOK, AnsweredPaid
  <1> QED
    BY <1>1, <1>2, <1>3

\* Only TakeUnit, FreeUnit and MarkUnit change a unit.
LEMMA UnitSteps ==
    ASSUME IInv, NEW r \in Request, Come(r) \/ GoOn(r),
           ~(TakeUnit(r) \/ FreeUnit(r) \/ MarkUnit(r))
    PROVE  unitStatus' = unitStatus /\ currentLease' = currentLease
  BY DEF Come, GoOn, MoveIn, CreateApplication, UpdateApplication, VacateLease, TransferTenant,
     PayRent, CreateLease, AddEntry, FileApplication, GiveNotice, Scan, AddRent, units

\* Every step keeps CurrentLeaseIsOfUnit.
LEMMA CurrentLeaseNext ==
    ASSUME IInv, NEW r \in Request, Come(r) \/ GoOn(r)
    PROVE  CurrentLeaseIsOfUnit'
  <1> SUFFICES ASSUME NEW u \in Unit
               PROVE  /\ currentLease'[u] # None => /\ currentLease'[u] \in Request
                                                    /\ LeaseExists(currentLease[u])'
                                                    /\ leaseUnit'[currentLease'[u]] = u
                      /\ unitStatus'[u] = "occupied" => currentLease'[u] # None
    BY DEF CurrentLeaseIsOfUnit, LeasesOf, LeaseExists
  <1>1. /\ currentLease[u] # None => /\ currentLease[u] \in Request
                                     /\ LeaseExists(currentLease[u])
                                     /\ leaseUnit[currentLease[u]] = u
        /\ unitStatus[u] = "occupied" => currentLease[u] # None
    BY DEF IInv, CurrentLeaseIsOfUnit, LeasesOf
  <1>2. CASE currentLease'[u] = currentLease[u] /\ (unitStatus'[u] = "occupied" =>
                                                      unitStatus[u] = "occupied")
    BY <1>1, <1>2, LeasesStay DEF LeaseExists
  <1>3. CASE TakeUnit(r) /\ u = unit[r]
    <2>1. LeaseExists(r) /\ leaseUnit[r] = u /\ currentLease'[u] = r
      BY <1>3 DEF TakeUnit, IInv, TypeOK, LeaseMade
    <2> QED
      BY <2>1, LeasesStay, NoneAssumption DEF LeaseExists
  <1>4. CASE TakeUnit(r) /\ u # unit[r]
    BY <1>2, <1>4 DEF TakeUnit, IInv, TypeOK
  <1>5. CASE FreeUnit(r) \/ MarkUnit(r)
    BY <1>2, <1>5 DEF FreeUnit, MarkUnit, IInv, TypeOK
  <1> QED
    BY <1>2, <1>3, <1>4, <1>5, UnitSteps

\* Every step keeps VacancyExplained.
LEMMA VacancyExplainedNext ==
    ASSUME IInv, NEW r \in Request, Come(r) \/ GoOn(r)
    PROVE  VacancyExplained'
  <1> SUFFICES ASSUME NEW u \in Unit, NEW l \in Request,
                      unitStatus'[u] = "available", LeaseExists(l)', leaseUnit'[l] = u,
                      leaseStatus'[l] = "active", pc'[l] # "unit"
               PROVE  \E m \in Request : /\ LeaseExists(m)' /\ leaseUnit'[m] = u
                                         /\ leaseStatus'[m] # "active"
    BY DEF VacancyExplained, LeasesOf
  <1>1. CASE FreeUnit(r) /\ u = leaseUnit[arg[r]]
    <2>1. arg[r] \in Request /\ LeaseExists(arg[r]) /\ leaseStatus[arg[r]] # "active"
      BY <1>1 DEF FreeUnit, IInv, LeaseGiven
    <2> QED
      BY <1>1, <2>1, LeasesStay
  <1>2. CASE ~(FreeUnit(r) /\ u = leaseUnit[arg[r]])
    <2>1. unitStatus[u] = "available"
      <3>1. CASE FreeUnit(r)
        BY <1>2, <3>1 DEF FreeUnit, IInv, TypeOK
      <3>2. CASE TakeUnit(r) \/ MarkUnit(r)
        BY <3>2 DEF TakeUnit, MarkUnit, IInv, TypeOK
      <3> QED
        BY <3>1, <3>2, UnitSteps
    <2>2. LeaseExists(l) /\ leaseUnit[l] = u /\ leaseStatus[l] = "active"
      <3>1. ~CreateLease(r) \/ l # r
        BY DEF CreateLease, Goto, IInv, TypeOK
      <3> QED
        BY <3>1, LeasesStay DEF LeaseExists, IInv, TypeOK
    <2>3. pc[l] # "unit"
      <3>1. CASE l # r
        BY <3>1, Moves DEF IInv
      <3>2. CASE l = r /\ TakeUnit(r)
        BY <2>1, <2>2, <3>2 DEF TakeUnit, IInv, TypeOK, LeaseMade
      <3>3. CASE l = r /\ ~TakeUnit(r)
        BY <3>3 DEF Come, GoOn, MoveIn, CreateApplication, UpdateApplication, VacateLease,
           TransferTenant, PayRent, Arrive, CreateLease, AddEntry, FileApplication, FreeUnit,
           GiveNotice, MarkUnit, Scan, AddRent
      <3> QED
        BY <3>1, <3>2, <3>3
    <2>4. PICK m \in Request : LeaseExists(m) /\ leaseUnit[m] = u /\ leaseStatus[m] # "active"
      BY <2>1, <2>2, <2>3 DEF IInv, VacancyExplained, LeasesOf
    <2> QED
      BY <2>4, LeasesStay
  <1> QED
    BY <1>1, <1>2

-----------------------------------------------------------------------------
(* The theorems.                                                           *)

\* Init satisfies every part of the invariant: nobody has come yet.
LEMMA InitIInv == Init => IInv
  BY NoneAssumption DEF Init, IInv, TypeOK, Label, Handler, Arrived, LeaseMade, LeaseExists,
     LeaseGiven, PaymentsOnly, AnsweredPaid, NotPaidBefore, EntriesSigned, ApprovalUnderway,
     CurrentLeaseIsOfUnit, VacancyExplained, RetryPaysOnce, LeasesOf

\* Every step, and every stuttering step, keeps the invariant.
LEMMA NextIInv == IInv /\ [Next]_vars => IInv'
  <1> SUFFICES ASSUME IInv, [Next]_vars PROVE IInv'
    OBVIOUS
  <1>1. ASSUME NEW r \in Request, Come(r) \/ GoOn(r) PROVE IInv'
    BY <1>1, TypeNext, ArrivedNext, LeaseMadeNext, LeaseGivenNext, PaymentsOnlyNext,
       AnsweredPaidNext, NotPaidBeforeNext, PaysOnceNext, ApprovalUnderwayNext,
       CurrentLeaseNext, VacancyExplainedNext DEF IInv
  <1>2. CASE UNCHANGED vars
    BY <1>2 DEF vars, leases, units, local, IInv, TypeOK, Arrived, LeaseMade, LeaseExists,
       LeaseGiven, PaymentsOnly, AnsweredPaid, NotPaidBefore, EntriesSigned,
       ApprovalUnderway, CurrentLeaseIsOfUnit, VacancyExplained, RetryPaysOnce, LeasesOf
  <1> QED
    BY <1>1, <1>2 DEF Next, Come, GoOn

\* The inductive invariant holds of every behaviour.
THEOREM Invariance == Spec => []IInv
  BY InitIInv, NextIInv, PTL DEF Spec

\* Every variable keeps its type.
THEOREM TypeCorrect == Spec => []TypeOK
  <1>1. IInv => TypeOK
    BY DEF IInv
  <1> QED
    BY <1>1, Invariance, PTL

\* However lettings of a unit overlap, its CurrentLeaseID names a lease of the
\* unit.
THEOREM CurrentLeaseIsRight == Spec => []CurrentLeaseIsOfUnit
  <1>1. IInv => CurrentLeaseIsOfUnit
    BY DEF IInv
  <1> QED
    BY <1>1, Invariance, PTL

\* A unit that is shown as available although it has an active lease was let
\* twice.
THEOREM VacancyHasReason == Spec => []VacancyExplained
  <1>1. IInv => VacancyExplained
    BY DEF IInv
  <1> QED
    BY <1>1, Invariance, PTL

\* An approved application nobody is working on has its lease.
THEOREM ApprovalIsHonoured == Spec => []ApprovedHasLease
  <1>1. IInv => ApprovedHasLease
    BY DEF IInv, ApprovalUnderway, ApprovedHasLease
  <1> QED
    BY <1>1, Invariance, PTL

\* A payment repeated after its answer is not booked again.
THEOREM RetryIsSafe == Spec => []RetryPaysOnce
  <1>1. IInv => RetryPaysOnce
    BY DEF IInv
  <1> QED
    BY <1>1, Invariance, PTL
=============================================================================
