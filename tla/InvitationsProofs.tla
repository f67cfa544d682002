-------------------------- MODULE InvitationsProofs --------------------------
(***************************************************************************)
(* Proofs about Invitations, for any number of requests and addresses.     *)
(***************************************************************************)
EXTENDS Invitations, TLAPS

\* Labels of a request that is about an invitation it has looked up.
Holding == Deciding \cup {"look", "join", "peek", "revokeLook", "resendLook", "healCheck",
                          "healCreate"}

\* A request that holds an invitation holds one that exists.
HeldExists == \A r \in Request : pc[r] \in Holding => at[r] \in Request /\ Exists(at[r])

\* What a request has not created yet is not there.
NotYetThere ==
    \A r \in Request :
        /\ pc[r] \in {"new", "check", "insert"} => ~Exists(r)
        /\ pc[r] \in {"new", "look", "due", "find", "enrol"} => account[r] = None

\* A request that is going to use the address in its body has one, and so has
\* an invitation.
MailGiven ==
    \A r \in Request :
        /\ pc[r] \in {"check", "insert", "look", "due", "find", "enrol"} => mail[r] \in Email
        /\ Exists(r) => to[r] \in Email

\* A request that goes on with a user goes on with one the Store knows; only
\* InviteStaff may not.
UserKnown ==
    \A r \in Request :
        /\ pc[r] \in {"accept", "join", "healCheck", "healCreate"} =>
              user[r] \in Request /\ account[user[r]] # None
        /\ pc[r] = "hire" => user[r] \in Request

\* Whoever accepted an invitation that is accepted is on record.
AcceptedBySomebody ==
    \A i \in Request : status[i] = "accepted" =>
        \E r \in Request : /\ at[r] = i
                           /\ pc[r] \in {"join", "done"}
                           /\ user[r] \in Request
                           /\ account[user[r]] # None

\* Memberships that come of invitations are memberships of known users.
MembersKnown == \A m \in member : m.for # None => account[m.user] # None

\* Whoever may still write the status of an accepted invitation was busy with
\* it when it was accepted.
ReadersRecorded ==
    \A r \in Request : pc[r] \in Deciding /\ status[at[r]] = "accepted" => r \in early[at[r]]

\* An invitation a ListStaff request found without membership is still to be
\* looked at, or is being looked at, or has one by now.
DebtCovered ==
    \A r \in Request : \A i \in owed[r] :
        /\ status[i] = "accepted"
        /\ Registered(to[i])
        /\ \/ ~Lacks(i)
           \/ pc[r] \in {"heal", "healCheck", "healCreate"} /\ i \in todo[r]
           \/ /\ pc[r] \in {"healCheck", "healCreate"}
              /\ at[r] = i
              /\ user[r] \in AccountsOf(to[i])

\* A creation whose check still holds finds nothing pending at its address, and
\* what a resend makes pending is on record.
ChecksRecorded ==
    /\ \A r \in Request \ unchecked : pc[r] = "insert" =>
          \A i \in Request : status[i] = "pending" => to[i] # mail[r]
    /\ \A r \in Request : pc[r] = "restore" => at[r] \in unchecked

\* The inductive invariant.
IInv ==
    /\ TypeOK /\ HeldExists /\ NotYetThere /\ MailGiven /\ UserKnown /\ OneAccountPerEmail
    /\ AcceptedBySomebody /\ MembersKnown /\ ReadersRecorded /\ DebtCovered
    /\ ChecksRecorded /\ SecondPendingExplained

-----------------------------------------------------------------------------
(* What single steps do.                                                   *)

Act(r) == Arrive(r) \/ Continue(r) \/ WeekPasses(r)

\* Each step keeps the types.
LEMMA TypeNext ==
    ASSUME IInv, NEW r \in Request, Act(r)
    PROVE  TypeOK'
  <1> USE DEF IInv, TypeOK, Goto, SetStatus, Label, Deciding, Status, invs, local, hist,
              Overtaken, Revive
  <1>1. CASE Register(r)
    BY <1>1 DEF Register, CreateUser
  <1>2. CASE InviteStaff(r)
    BY <1>2 DEF InviteStaff, CreateUser
  <1>3. CASE CreateInvitation(r) \/ CheckInvitee(r)
    BY <1>3 DEF CreateInvitation, CheckInvitee
  <1>4. CASE InsertInvitation(r) \/ WeekPasses(r)
    BY <1>4 DEF InsertInvitation, WeekPasses
  <1>5. CASE GetInvitationDetails(r) \/ AcceptInvitation(r)
    BY <1>5 DEF GetInvitationDetails, AcceptInvitation, About
  <1>6. CASE RevokeInvitation(r) \/ ResendInvitation(r)
    BY <1>6 DEF RevokeInvitation, ResendInvitation, About
  <1>7. CASE ListStaff(r)
    BY <1>7 DEF ListStaff
  <1>8. CASE Hire(r) \/ Join(r) \/ HealCreate(r)
    <2>1. user[r] \in Request
      BY <1>8 DEF Hire, Join, HealCreate, UserKnown
    <2> QED
      BY <1>8, <2>1 DEF Hire, Join, HealCreate
  <1>9. CASE LookPending(r) \/ LookDue(r) \/ LookRevocable(r) \/ LookResendable(r)
    BY <1>9 DEF LookPending, LookDue, LookRevocable, LookResendable
  <1>10. CASE Expire(r) \/ Revoke(r) \/ Restore(r)
    <2>1. at[r] \in Request
      BY <1>10 DEF Expire, Revoke, Restore, HeldExists, Holding
    <2> QED
      BY <1>10, <2>1 DEF Expire, Revoke, Restore, UpdateInvitationStatus, Undo
  <1>11. CASE Renew(r)
    <2>1. at[r] \in Request
      BY <1>11 DEF Renew, HeldExists, Holding
    <2> QED
      BY <1>11, <2>1 DEF Renew, Undo
  <1>12. CASE Accept(r)
    <2>1. /\ status' = [status EXCEPT ![at[r]] = "accepted"]
          /\ pc' = [pc EXCEPT ![r] = "join"]
          /\ UNCHANGED <<to, lapsed, account, member, local, owed, unchecked>>
      BY <1>12 DEF Accept, UpdateInvitationStatus
    <2>2. early' \in [Request -> SUBSET Request]
      BY <1>12 DEF Accept
    <2> QED
      BY <2>1, <2>2
  <1>13. CASE FindUser(r)
    BY <1>13 DEF FindUser
  <1>14. CASE Enrol(r)
    <2>1. mail[r] \in Email
      BY <1>14 DEF Enrol, MailGiven
    <2>2. account' \in [Request -> Email \cup {None}] /\ pc' \in [Request -> Label]
      BY <1>14, <2>1 DEF Enrol, CreateUser
    <2>3. user' \in [Request -> Request \cup {None}]
      BY <1>14 DEF Enrol
    <2>4. UNCHANGED <<status, to, lapsed, member, at, mail, todo, early, owed, unchecked>>
      BY <1>14 DEF Enrol
    <2> QED
      BY <2>2, <2>3, <2>4
  <1>15. CASE Heal(r)
    BY <1>15 DEF Heal, AccountsOf
  <1>16. CASE HealCheck(r) \/ ListDone(r)
    BY <1>16 DEF HealCheck, ListDone
  <1> QED
    BY <1>1, <1>2, <1>3, <1>4, <1>5, <1>6, <1>7, <1>8, <1>9, <1>10, <1>11, <1>12, <1>13,
       <1>14, <1>15, <1>16 DEF Act, Arrive, Continue

\* A step of r leaves the place, the invitation and the user of every other
\* request alone.
LEMMA OthersStay ==
    ASSUME TypeOK, NEW r \in Request, Act(r), NEW q \in Request, q # r
    PROVE  pc'[q] = pc[q] /\ at'[q] = at[q] /\ user'[q] = user[q]
  <1> USE DEF TypeOK, Goto, invs, local, hist
  <1>1. CASE Arrive(r)
    BY <1>1 DEF Arrive, Register, InviteStaff, CreateInvitation, GetInvitationDetails,
       AcceptInvitation, RevokeInvitation, ResendInvitation, ListStaff, CreateUser, About
  <1>2. CASE Hire(r) \/ CheckInvitee(r) \/ InsertInvitation(r) \/ LookPending(r)
             \/ LookDue(r) \/ LookRevocable(r) \/ LookResendable(r) \/ Join(r)
             \/ HealCheck(r) \/ HealCreate(r) \/ ListDone(r) \/ WeekPasses(r)
    BY <1>2 DEF Hire, CheckInvitee, InsertInvitation, LookPending, LookDue, LookRevocable,
       LookResendable, Join, HealCheck, HealCreate, ListDone, WeekPasses
  <1>3. CASE Expire(r) \/ Revoke(r) \/ Restore(r) \/ Renew(r) \/ Accept(r)
    BY <1>3 DEF Expire, Revoke, Restore, Renew, Accept, UpdateInvitationStatus
  <1>4. CASE FindUser(r) \/ Enrol(r) \/ Heal(r)
    BY <1>4 DEF FindUser, Enrol, Heal, CreateUser
  <1> QED
    BY <1>1, <1>2, <1>3, <1>4 DEF Act, Continue

\* The only account a step of r can make is r's, at an address nobody has.
LEMMA AccountsGrow ==
    ASSUME IInv, NEW r \in Request, Act(r)
    PROVE  \/ account' = account
           \/ /\ pc[r] \in {"new", "enrol"}
              /\ account[r] = None
              /\ \E e \in Email : ~Registered(e) /\ account' = [account EXCEPT ![r] = e]
  <1> USE DEF IInv, TypeOK, invs, local, hist
  <1>1. CASE Register(r)
    BY <1>1 DEF Register, CreateUser, NotYetThere
  <1>2. CASE InviteStaff(r)
    BY <1>2 DEF InviteStaff, CreateUser, NotYetThere
  <1>3. CASE Enrol(r)
    <2>1. account' # account => mail[r] \in Email
      BY <1>3 DEF Enrol, MailGiven
    <2> QED
      BY <1>3, <2>1 DEF Enrol, CreateUser, NotYetThere
  <1>4. CASE ~(Register(r) \/ InviteStaff(r) \/ Enrol(r))
    BY <1>4 DEF Act, Arrive, Continue, CreateInvitation, GetInvitationDetails, About,
       AcceptInvitation, RevokeInvitation, ResendInvitation, ListStaff, Hire, CheckInvitee,
       InsertInvitation, LookPending, LookDue, LookRevocable, LookResendable, Join,
       HealCheck, HealCreate, ListDone, WeekPasses, Expire, Revoke, Restore, Renew, Accept,
       UpdateInvitationStatus, FindUser, Heal
  <1> QED
    BY <1>1, <1>2, <1>3, <1>4

\* Accounts stay what they are.
LEMMA AccountsStay ==
    ASSUME IInv, NEW r \in Request, Act(r), NEW u \in Request, account[u] # None
    PROVE  account'[u] = account[u]
  BY AccountsGrow DEF IInv, TypeOK

\* Invitations stay in existence.
LEMMA InvitationsStay ==
    ASSUME IInv, NEW r \in Request, Act(r), NEW i \in Request, Exists(i)
    PROVE  Exists(i)'
  <1> USE DEF IInv, TypeOK, Exists, SetStatus, invs, local, hist
  <1>1. CASE \/ Expire(r) \/ Revoke(r) \/ Restore(r) \/ Renew(r) \/ Accept(r)
             \/ InsertInvitation(r)
    BY <1>1 DEF Expire, Revoke, Restore, Renew, Accept, InsertInvitation,
       UpdateInvitationStatus
  <1>2. CASE ~(\/ Expire(r) \/ Revoke(r) \/ Restore(r) \/ Renew(r) \/ Accept(r)
               \/ InsertInvitation(r))
    BY <1>2 DEF Act, Arrive, Continue, Register, InviteStaff, CreateInvitation,
       GetInvitationDetails, About, AcceptInvitation, RevokeInvitation, ResendInvitation,
       ListStaff, Hire, CheckInvitee, LookPending, LookDue, LookRevocable, LookResendable,
       Join, HealCheck, HealCreate, ListDone, WeekPasses, FindUser, Enrol, Heal
  <1> QED
    BY <1>1, <1>2


\* A step of r changes the status of the invitation it holds, or of its own
\* when it makes it.
LEMMA StatusSteps ==
    ASSUME IInv, NEW r \in Request, Act(r), NEW i \in Request, status'[i] # status[i]
    PROVE  \/ i = at[r] /\ Exists(i) /\ pc[r] \in Deciding
           \/ i = r /\ pc[r] = "insert"
  <1> USE DEF IInv, TypeOK, SetStatus, Goto, invs, local, hist
  <1>1. CASE Expire(r) \/ Revoke(r) \/ Restore(r) \/ Renew(r) \/ Accept(r)
    <2>1. pc[r] \in Deciding /\ i = at[r]
      BY <1>1 DEF Expire, Revoke, Restore, Renew, Accept, UpdateInvitationStatus, Deciding
    <2>2. Exists(at[r])
      BY <2>1 DEF HeldExists, Holding
    <2> QED
      BY <2>1, <2>2
  <1>2. CASE InsertInvitation(r)
    BY <1>2 DEF InsertInvitation
  <1>3. CASE ~(\/ Expire(r) \/ Revoke(r) \/ Restore(r) \/ Renew(r) \/ Accept(r)
               \/ InsertInvitation(r))
    BY <1>3 DEF Act, Arrive, Continue, Register, InviteStaff, CreateInvitation,
       GetInvitationDetails, About, AcceptInvitation, RevokeInvitation, ResendInvitation,
       ListStaff, Hire, CheckInvitee, LookPending, LookDue, LookRevocable, LookResendable,
       Join, HealCheck, HealCreate, ListDone, WeekPasses, FindUser, Enrol, Heal
  <1> QED
    BY <1>1, <1>2, <1>3

-----------------------------------------------------------------------------
(* Each part of the invariant is kept by each step.                        *)

\* Every step keeps HeldExists.
LEMMA HeldExistsNext ==
    ASSUME IInv, NEW r \in Request, Act(r)
    PROVE  HeldExists'
  <1> SUFFICES ASSUME NEW q \in Request, (pc[q] \in Holding)'
               PROVE  at'[q] \in Request /\ Exists(at[q])'
    BY DEF HeldExists
  <1>1. CASE q # r
    BY <1>1, OthersStay, InvitationsStay DEF IInv, HeldExists
  <1>2. CASE q = r /\ pc[r] \in Holding /\ at'[r] = at[r]
    BY <1>2, InvitationsStay DEF IInv, HeldExists
  <1>3. CASE q = r /\ ~(pc[r] \in Holding /\ at'[r] = at[r])
    <2> USE DEF IInv, TypeOK, Holding, Deciding, Goto, invs, local, hist
    <2>1. CASE \/ GetInvitationDetails(r) \/ AcceptInvitation(r)
               \/ RevokeInvitation(r) \/ ResendInvitation(r)
      BY <1>3, <2>1 DEF GetInvitationDetails, AcceptInvitation, RevokeInvitation,
         ResendInvitation, About, Exists
    <2>2. CASE Heal(r)
      BY <1>3, <2>2 DEF Heal, Exists
    <2>3. CASE \/ Register(r) \/ InviteStaff(r) \/ CreateInvitation(r) \/ ListStaff(r)
               \/ Hire(r) \/ CheckInvitee(r) \/ InsertInvitation(r) \/ ListDone(r)
               \/ WeekPasses(r)
      BY <1>3, <2>3 DEF Register, InviteStaff, CreateInvitation, ListStaff, Hire,
         CheckInvitee, InsertInvitation, ListDone, WeekPasses, CreateUser
    <2>4. CASE \/ LookPending(r) \/ LookDue(r) \/ LookRevocable(r) \/ LookResendable(r)
               \/ Join(r) \/ HealCheck(r) \/ HealCreate(r) \/ Expire(r) \/ Revoke(r)
               \/ Restore(r) \/ Renew(r) \/ Accept(r) \/ FindUser(r) \/ Enrol(r)
      BY <1>3, <2>4 DEF LookPending, LookDue, LookRevocable, LookResendable, Join, HealCheck,
         HealCreate, Expire, Revoke, Restore, Renew, Accept, FindUser, Enrol,
         UpdateInvitationStatus
    <2> QED
      BY <2>1, <2>2, <2>3, <2>4 DEF Act, Arrive, Continue
  <1> QED
    BY <1>1, <1>2, <1>3

\* Every step keeps NotYetThere.
LEMMA NotYetThereNext ==
    ASSUME IInv, NEW r \in Request, Act(r)
    PROVE  NotYetThere'
  <1> USE DEF IInv, TypeOK, Goto, SetStatus, Exists, invs, local, hist
  <1>1. ASSUME NEW q \in Request, q # r
        PROVE  /\ (pc[q] \in {"new", "check", "insert"} => ~Exists(q))'
               /\ (pc[q] \in {"new", "look", "due", "find", "enrol"} => account[q] = None)'
    BY <1>1, OthersStay, StatusSteps, AccountsGrow DEF NotYetThere
  <1>2. /\ (pc[r] \in {"new", "check", "insert"} => ~Exists(r))'
        /\ (pc[r] \in {"new", "look", "due", "find", "enrol"} => account[r] = None)'
    <2>1. CASE Register(r) \/ InviteStaff(r)
      BY <2>1 DEF Register, InviteStaff, CreateUser
    <2>2. CASE Enrol(r)
      BY <2>2 DEF Enrol, CreateUser
    <2>3. CASE \/ Expire(r) \/ Revoke(r) \/ Restore(r) \/ Renew(r) \/ Accept(r)
               \/ InsertInvitation(r)
      BY <2>3 DEF Expire, Revoke, Restore, Renew, Accept, InsertInvitation,
         UpdateInvitationStatus
    <2>4. CASE ~(\/ Register(r) \/ InviteStaff(r) \/ Enrol(r) \/ Expire(r) \/ Revoke(r)
                 \/ Restore(r) \/ Renew(r) \/ Accept(r) \/ InsertInvitation(r))
      BY <2>4 DEF NotYetThere, Act, Arrive, Continue, CreateInvitation, GetInvitationDetails,
         About, AcceptInvitation, RevokeInvitation, ResendInvitation, ListStaff, Hire,
         CheckInvitee, LookPending, LookDue, LookRevocable, LookResendable, Join, HealCheck,
         HealCreate, ListDone, WeekPasses, FindUser, Heal
    <2> QED
      BY <2>1, <2>2, <2>3, <2>4
  <1> QED
    BY <1>1, <1>2 DEF NotYetThere

\* Every step keeps MailGiven.
LEMMA MailGivenNext ==
    ASSUME IInv, NEW r \in Request, Act(r)
    PROVE  MailGiven'
  <1> USE DEF IInv, TypeOK, Goto, invs, local, hist
  <1>1. ASSUME NEW q \in Request, q # r
        PROVE  mail'[q] = mail[q] /\ pc'[q] = pc[q]
    BY <1>1, OthersStay DEF Act, Arrive, Continue, Register, InviteStaff, CreateInvitation,
       GetInvitationDetails, About, AcceptInvitation, RevokeInvitation, ResendInvitation,
       ListStaff, Hire, CheckInvitee, LookPending, LookDue, LookRevocable, LookResendable,
       Join, HealCheck, HealCreate, ListDone, WeekPasses, FindUser, Enrol, Heal, Expire,
       Revoke, Restore, Renew, Accept, InsertInvitation, UpdateInvitationStatus
  <1>2. (pc[r] \in {"check", "insert", "look", "due", "find", "enrol"} => mail[r] \in Email)'
    <2>1. CASE CreateInvitation(r) \/ AcceptInvitation(r)
      BY <2>1 DEF CreateInvitation, AcceptInvitation, About
    <2>2. CASE Enrol(r) \/ Register(r) \/ InviteStaff(r)
      BY <2>2 DEF Enrol, Register, InviteStaff, CreateUser
    <2>3. CASE ~(\/ CreateInvitation(r) \/ AcceptInvitation(r) \/ Enrol(r) \/ Register(r)
                 \/ InviteStaff(r))
      BY <2>3 DEF MailGiven, Act, Arrive, Continue, GetInvitationDetails, About,
         RevokeInvitation, ResendInvitation, ListStaff, Hire, CheckInvitee, LookPending,
         LookDue, LookRevocable, LookResendable, Join, HealCheck, HealCreate, ListDone,
         WeekPasses, FindUser, Heal, Expire, Revoke, Restore, Renew, Accept,
         InsertInvitation, UpdateInvitationStatus
    <2> QED
      BY <2>1, <2>2, <2>3
  <1>3. ASSUME NEW i \in Request, Exists(i)'
        PROVE  to'[i] \in Email
    <2>1. CASE InsertInvitation(r)
      BY <1>3, <2>1 DEF InsertInvitation, MailGiven, Exists, SetStatus
    <2>2. CASE ~InsertInvitation(r)
      <3>1. to' = to
        BY <2>2 DEF Act, Arrive, Continue, Register, InviteStaff, CreateInvitation,
           GetInvitationDetails, About, AcceptInvitation, RevokeInvitation, ResendInvitation,
           ListStaff, Hire, CheckInvitee, LookPending, LookDue, LookRevocable,
           LookResendable, Join, HealCheck, HealCreate, ListDone, WeekPasses, FindUser,
           Enrol, Heal, Expire, Revoke, Restore, Renew, Accept, UpdateInvitationStatus
      <3>2. pc[r] # "insert" \/ status' = status
        BY <2>2 DEF Act, Arrive, Continue, Register, InviteStaff, CreateInvitation,
           GetInvitationDetails, About, AcceptInvitation, RevokeInvitation, ResendInvitation,
           ListStaff, Hire, CheckInvitee, LookPending, LookDue, LookRevocable,
           LookResendable, Join, HealCheck, HealCreate, ListDone, WeekPasses, FindUser,
           Enrol, Heal, Expire, Revoke, Restore, Renew, Accept, UpdateInvitationStatus
      <3>3. Exists(i)
        BY <1>3, <3>2, StatusSteps DEF Exists
      <3> QED
        BY <3>1, <3>3 DEF MailGiven
    <2> QED
      BY <2>1, <2>2
  <1> QED
    BY <1>1, <1>2, <1>3 DEF MailGiven

\* Every step keeps UserKnown.
LEMMA UserKnownNext ==
    ASSUME IInv, NEW r \in Request, Act(r)
    PROVE  UserKnown'
  <1> USE DEF IInv, TypeOK, Goto, invs, local, hist
  <1>1. ASSUME NEW q \in Request, q # r
        PROVE  /\ (pc[q] \in {"accept", "join", "healCheck", "healCreate"} =>
                      user[q] \in Request /\ account[user[q]] # None)'
               /\ (pc[q] = "hire" => user[q] \in Request)'
    BY <1>1, OthersStay, AccountsStay DEF UserKnown
  <1>2. /\ (pc[r] \in {"accept", "join", "healCheck", "healCreate"} =>
               user[r] \in Request /\ account[user[r]] # None)'
        /\ (pc[r] = "hire" => user[r] \in Request)'
    <2>1. CASE Enrol(r)
      <3>1. mail[r] \in Email /\ mail[r] # None
        BY <2>1, NoneAssumption DEF Enrol, MailGiven
      <3>2. account[r] = None
        BY <2>1 DEF Enrol, NotYetThere
      <3> QED
        BY <2>1, <3>1, <3>2 DEF Enrol, CreateUser
    <2>2. CASE Register(r) \/ InviteStaff(r)
      BY <2>2 DEF Register, InviteStaff, CreateUser
    <2>3. CASE FindUser(r) \/ Heal(r)
      <3>1. CASE FindUser(r)
        BY <3>1 DEF FindUser
      <3>2. CASE Heal(r) /\ pc'[r] = pc[r]
        BY <3>2 DEF Heal
      <3>3. CASE Heal(r) /\ pc'[r] # pc[r]
        <4>1. PICK i \in todo[r] : /\ i \in Request
                                   /\ status[i] = "accepted"
                                   /\ user'[r] \in AccountsOf(to[i])
          BY <3>3 DEF Heal, AccountsOf
        <4>2. to[i] # None
          BY <4>1, NoneAssumption DEF MailGiven, Exists
        <4> QED
          BY <3>3, <4>1, <4>2 DEF Heal, AccountsOf
      <3> QED
        BY <2>3, <3>1, <3>2, <3>3
    <2>4. CASE ~(Enrol(r) \/ Register(r) \/ InviteStaff(r) \/ FindUser(r) \/ Heal(r))
      BY <2>4 DEF UserKnown, Act, Arrive, Continue, CreateInvitation, AcceptInvitation,
         GetInvitationDetails, About, RevokeInvitation, ResendInvitation, ListStaff, Hire,
         CheckInvitee, LookPending, LookDue, LookRevocable, LookResendable, Join, HealCheck,
         HealCreate, ListDone, WeekPasses, Expire, Revoke, Restore, Renew, Accept,
         InsertInvitation, UpdateInvitationStatus
    <2> QED
      BY <2>1, <2>2, <2>3, <2>4
  <1> QED
    BY <1>1, <1>2 DEF UserKnown

\* Every step keeps OneAccountPerEmail.
LEMMA OneAccountNext ==
    ASSUME IInv, NEW r \in Request, Act(r)
    PROVE  OneAccountPerEmail'
  <1>1. CASE account' = account
    BY <1>1 DEF IInv, OneAccountPerEmail
  <1>2. CASE \E e \in Email : ~Registered(e) /\ account' = [account EXCEPT ![r] = e]
    BY <1>2 DEF IInv, TypeOK, OneAccountPerEmail, Registered, AccountsOf
  <1> QED
    BY <1>1, <1>2, AccountsGrow

\* Only Accept makes an invitation accepted, and only Accept writes to early.
LEMMA OnlyAcceptAccepts ==
    ASSUME IInv, NEW r \in Request, Act(r), ~Accept(r)
    PROVE  /\ early' = early
           /\ \A i \in Request : status'[i] = "accepted" => status[i] = "accepted"
  <1> USE DEF IInv, TypeOK, SetStatus, invs, local, hist
  <1>1. CASE \/ Expire(r) \/ Revoke(r) \/ Restore(r) \/ Renew(r) \/ InsertInvitation(r)
    BY <1>1 DEF Expire, Revoke, Restore, Renew, InsertInvitation, UpdateInvitationStatus, Undo
  <1>2. CASE ~(Expire(r) \/ Revoke(r) \/ Restore(r) \/ Renew(r) \/ InsertInvitation(r))
    BY <1>2 DEF Act, Arrive, Continue, Register, InviteStaff, CreateInvitation,
       GetInvitationDetails, About, AcceptInvitation, RevokeInvitation, ResendInvitation,
       ListStaff, Hire, CheckInvitee, LookPending, LookDue, LookRevocable, LookResendable,
       Join, HealCheck, HealCreate, ListDone, WeekPasses, FindUser, Enrol, Heal
  <1> QED
    BY <1>1, <1>2

\* What Accept does.
LEMMA AcceptDoes ==
    ASSUME IInv, NEW r \in Request, Accept(r)
    PROVE  /\ pc[r] = "accept" /\ pc' = [pc EXCEPT ![r] = "join"]
           /\ status' = [status EXCEPT ![at[r]] = "accepted"]
           /\ early' = [early EXCEPT ![at[r]] =
                           {q \in Request \ {r} : at[q] = at[r] /\ pc[q] \in Deciding}]
           /\ UNCHANGED <<to, account, member, at, user, todo, owed>>
           /\ at[r] \in Request
  <1>1. pc[r] = "accept"
    BY DEF Accept
  <1>2. at[r] \in Request
    BY <1>1 DEF IInv, HeldExists, Holding, Deciding
  <1> QED
    BY <1>1, <1>2 DEF Accept, UpdateInvitationStatus, Goto, SetStatus, local

\* Every step keeps AcceptedBySomebody.
LEMMA AcceptedNext ==
    ASSUME IInv, NEW r \in Request, Act(r)
    PROVE  AcceptedBySomebody'
  <1> SUFFICES ASSUME NEW i \in Request, status'[i] = "accepted"
               PROVE  \E q \in Request : /\ at'[q] = i
                                         /\ pc'[q] \in {"join", "done"}
                                         /\ user'[q] \in Request
                                         /\ account'[user'[q]] # None
    BY DEF AcceptedBySomebody
  <1>1. CASE Accept(r) /\ i = at[r]
    BY <1>1, AcceptDoes DEF IInv, TypeOK, UserKnown
  <1>2. CASE ~(Accept(r) /\ i = at[r])
    <2>1. status[i] = "accepted"
      BY <1>2, OnlyAcceptAccepts, AcceptDoes DEF IInv, TypeOK
    <2>2. PICK q \in Request : /\ at[q] = i
                               /\ pc[q] \in {"join", "done"}
                               /\ user[q] \in Request
                               /\ account[user[q]] # None
      BY <2>1 DEF IInv, AcceptedBySomebody
    <2>3. account'[user[q]] # None
      BY <2>2, AccountsStay
    <2>4. CASE q # r
      BY <2>2, <2>3, <2>4, OthersStay DEF IInv
    <2>5. CASE q = r
      <3>1. Join(r) \/ WeekPasses(r)
        BY <2>2, <2>5 DEF Act, Arrive, Continue, Register, InviteStaff, CreateInvitation,
           GetInvitationDetails, About, AcceptInvitation, RevokeInvitation, ResendInvitation,
           ListStaff, Hire, CheckInvitee, LookPending, LookDue, LookRevocable,
           LookResendable, HealCheck, HealCreate, ListDone, FindUser, Enrol, Heal, Expire,
           Revoke, Restore, Renew, Accept, InsertInvitation
      <3>2. at' = at /\ user' = user /\ pc'[r] \in {"join", "done"}
        BY <2>2, <2>5, <3>1 DEF Join, WeekPasses, Goto, local, IInv, TypeOK
      <3> QED
        BY <2>2, <2>3, <2>5, <3>2
    <2> QED
      BY <2>4, <2>5
  <1> QED
    BY <1>1, <1>2

\* The memberships a step of r can add.
LEMMA MembersGrow ==
    ASSUME IInv, NEW r \in Request, Act(r)
    PROVE  /\ member \subseteq member'
           /\ \A m \in member' \ member : m.for # None =>
                 m.user = user[r] /\ pc[r] \in {"join", "healCreate"}
  <1>1. CASE Hire(r) \/ Join(r) \/ HealCreate(r)
    BY <1>1 DEF Hire, Join, HealCreate
  <1>2. CASE ~(Hire(r) \/ Join(r) \/ HealCreate(r))
    <2>1. member' = member
      BY <1>2 DEF Act, Arrive, Continue, Register, InviteStaff, CreateInvitation,
         GetInvitationDetails, About, AcceptInvitation, RevokeInvitation, ResendInvitation,
         ListStaff, CheckInvitee, LookPending, LookDue, LookRevocable, LookResendable,
         HealCheck, ListDone, WeekPasses, FindUser, Enrol, Heal, Expire, Revoke, Restore,
         Renew, Accept, InsertInvitation, UpdateInvitationStatus
    <2> QED
      BY <2>1
  <1> QED
    BY <1>1, <1>2

\* Every step keeps MembersKnown.
LEMMA MembersKnownNext ==
    ASSUME IInv, NEW r \in Request, Act(r)
    PROVE  MembersKnown'
  <1> SUFFICES ASSUME NEW m \in member', m.for # None
               PROVE  account'[m.user] # None
    BY DEF MembersKnown
  <1>1. CASE m \in member
    <2>1. m.user \in Request /\ account[m.user] # None
      BY <1>1 DEF IInv, TypeOK, MembersKnown
    <2> QED
      BY <2>1, AccountsStay
  <1>2. CASE m \notin member
    <2>1. m.user \in Request /\ account[m.user] # None
      BY <1>2, MembersGrow DEF IInv, UserKnown
    <2> QED
      BY <2>1, AccountsStay
  <1> QED
    BY <1>1, <1>2

\* Every step keeps ReadersRecorded.
LEMMA ReadersRecordedNext ==
    ASSUME IInv, NEW r \in Request, Act(r)
    PROVE  ReadersRecorded'
  <1> SUFFICES ASSUME NEW q \in Request, pc'[q] \in Deciding, status'[at'[q]] = "accepted"
               PROVE  q \in early'[at'[q]]
    BY DEF ReadersRecorded
  <1>1. CASE Accept(r)
    <2>1. q # r /\ pc[q] \in Deciding /\ at' = at
      BY <1>1, AcceptDoes DEF IInv, TypeOK, Deciding
    <2>2. at[q] \in Request
      BY <2>1 DEF IInv, HeldExists, Holding
    <2>3. CASE at[q] = at[r]
      BY <1>1, <2>1, <2>3, AcceptDoes DEF IInv, TypeOK
    <2>4. CASE at[q] # at[r]
      <3>1. status'[at[q]] = status[at[q]] /\ early'[at[q]] = early[at[q]]
        BY <1>1, <2>2, <2>4, AcceptDoes DEF IInv, TypeOK
      <3> QED
        BY <2>1, <3>1 DEF IInv, ReadersRecorded
    <2> QED
      BY <2>3, <2>4
  <1>2. CASE ~Accept(r) /\ pc[q] \in Deciding /\ at'[q] = at[q]
    <2>1. at[q] \in Request
      BY <1>2 DEF IInv, HeldExists, Holding
    <2> QED
      BY <1>2, <2>1, OnlyAcceptAccepts DEF IInv, ReadersRecorded
  <1>3. CASE ~Accept(r) /\ ~(pc[q] \in Deciding /\ at'[q] = at[q])
    <2>1. q = r
      BY <1>3, OthersStay DEF IInv
    <2> USE DEF IInv, TypeOK, Goto, Deciding, invs, local, hist
    <2>2. CASE LookPending(r) \/ LookRevocable(r) \/ LookResendable(r)
      BY <1>3, <2>1, <2>2 DEF LookPending, LookRevocable, LookResendable
    <2>3. CASE Enrol(r) \/ Register(r) \/ InviteStaff(r)
      BY <1>3, <2>1, <2>3 DEF Enrol, Register, InviteStaff, CreateUser
    <2>4. CASE ~(\/ LookPending(r) \/ LookRevocable(r) \/ LookResendable(r) \/ Enrol(r)
                 \/ Register(r) \/ InviteStaff(r))
      BY <1>3, <2>1, <2>4 DEF Act, Arrive, Continue, CreateInvitation, GetInvitationDetails,
         About, AcceptInvitation, RevokeInvitation, ResendInvitation, ListStaff, Hire,
         CheckInvitee, LookDue, Join, HealCheck, HealCreate, ListDone, WeekPasses, FindUser,
         Heal, Expire, Revoke, Restore, Renew, InsertInvitation, UpdateInvitationStatus
    <2> QED
      BY <2>2, <2>3, <2>4
  <1> QED
    BY <1>1, <1>2, <1>3

\* An accepted invitation keeps its address, and its address its accounts.
LEMMA AddressesStay ==
    ASSUME IInv, NEW r \in Request, Act(r), NEW i \in Request, status[i] = "accepted",
           Registered(to[i])
    PROVE  to'[i] = to[i] /\ AccountsOf(to[i])' = AccountsOf(to[i])
  <1>1. to'[i] = to[i]
    <2>1. CASE InsertInvitation(r)
      BY <2>1 DEF InsertInvitation, IInv, TypeOK, NotYetThere, Exists
    <2>2. CASE ~InsertInvitation(r)
      BY <2>2 DEF Act, Arrive, Continue, Register, InviteStaff, CreateInvitation,
         GetInvitationDetails, About, AcceptInvitation, RevokeInvitation, ResendInvitation,
         ListStaff, Hire, CheckInvitee, LookPending, LookDue, LookRevocable, LookResendable,
         Join, HealCheck, HealCreate, ListDone, WeekPasses, FindUser, Enrol, Heal, Expire,
         Revoke, Restore, Renew, Accept, UpdateInvitationStatus, invs
    <2> QED
      BY <2>1, <2>2
  <1>2. to[i] # None
    BY NoneAssumption DEF IInv, MailGiven, Exists
  <1>3. CASE account' = account
    BY <1>1, <1>3 DEF AccountsOf
  <1>4. CASE account[r] = None /\ \E e \in Email : /\ ~Registered(e)
                                                 /\ account' = [account EXCEPT ![r] = e]
    BY <1>1, <1>2, <1>4 DEF IInv, TypeOK, AccountsOf, Registered
  <1> QED
    BY <1>3, <1>4, AccountsGrow

\* Debts are only forgiven, except for those a new ListStaff request finds,
\* and only for invitations that stay accepted are they kept.
LEMMA DebtSteps ==
    ASSUME IInv, NEW r \in Request, Act(r), ~ListStaff(r),
           NEW q \in Request, NEW i \in owed'[q]
    PROVE  /\ i \in owed[q]
           /\ status'[i] = "accepted"
           /\ q # r => todo'[q] = todo[q]
  <1>0. owed[q] \subseteq Request
    BY DEF IInv, TypeOK
  <1>1. CASE Expire(r) \/ Revoke(r) \/ Restore(r) \/ Renew(r)
    <2>1. /\ owed'[q] = owed[q] \ {at[r]} /\ todo' = todo
          /\ \E s \in Status : status' = [status EXCEPT ![at[r]] = s]
      BY <1>1 DEF Expire, Revoke, Restore, Renew, UpdateInvitationStatus, Undo, SetStatus,
         Status, local
    <2> QED
      BY <1>0, <2>1 DEF IInv, TypeOK, DebtCovered
  <1>2. CASE Accept(r)
    BY <1>0, <1>2, AcceptDoes DEF IInv, TypeOK, DebtCovered
  <1>3. CASE InsertInvitation(r)
    <2>1. i \in owed[q] /\ status[i] = "accepted" /\ status[r] = "absent"
      BY <1>3 DEF InsertInvitation, IInv, DebtCovered, NotYetThere, Exists, hist
    <2> QED
      BY <1>0, <1>3, <2>1 DEF InsertInvitation, SetStatus, IInv, TypeOK, local
  <1>4. CASE ~(\/ Expire(r) \/ Revoke(r) \/ Restore(r) \/ Renew(r) \/ Accept(r)
               \/ InsertInvitation(r))
    <2>1. owed' = owed /\ status' = status
      BY <1>4 DEF Act, Arrive, Continue, Register, InviteStaff, CreateInvitation,
         GetInvitationDetails, About, AcceptInvitation, RevokeInvitation, ResendInvitation,
         Hire, CheckInvitee, LookPending, LookDue, LookRevocable, LookResendable, Join,
         HealCheck, HealCreate, ListDone, WeekPasses, FindUser, Enrol, Heal, hist, invs
    <2>2. q # r => todo'[q] = todo[q]
      BY <1>4 DEF Act, Arrive, Continue, Register, InviteStaff, CreateInvitation,
         GetInvitationDetails, About, AcceptInvitation, RevokeInvitation, ResendInvitation,
         Hire, CheckInvitee, LookPending, LookDue, LookRevocable, LookResendable, Join,
         HealCheck, HealCreate, ListDone, WeekPasses, FindUser, Enrol, Heal, local,
         IInv, TypeOK
    <2> QED
      BY <1>0, <2>1, <2>2 DEF IInv, DebtCovered
  <1> QED
    BY <1>1, <1>2, <1>3, <1>4

\* What is not lacking now is not lacking after a step that leaves the
\* invitation accepted.
LEMMA LackStays ==
    ASSUME IInv, NEW r \in Request, Act(r), NEW i \in Request, status[i] = "accepted",
           Registered(to[i]), ~Lacks(i)
    PROVE  ~Lacks(i)'
  BY AddressesStay, MembersGrow DEF Lacks

\* Every step keeps DebtCovered.
LEMMA DebtCoveredNext ==
    ASSUME IInv, NEW r \in Request, Act(r)
    PROVE  DebtCovered'
  <1> USE DEF IInv
  <1> DEFINE Due(q, i) == /\ pc[q] \in {"heal", "healCheck", "healCreate"}
                          /\ i \in todo[q]
             At(q, i)  == /\ pc[q] \in {"healCheck", "healCreate"}
                          /\ at[q] = i
                          /\ user[q] \in AccountsOf(to[i])
  <1>1. ASSUME ListStaff(r), NEW i \in owed'[r]
        PROVE  status'[i] = "accepted" /\ Registered(to[i])' /\ Due(r, i)'
    <2>1. /\ i \in Request /\ Lacks(i) /\ pc'[r] = "heal"
          /\ todo'[r] = {j \in Request : Exists(j)}
          /\ UNCHANGED <<status, to, account>>
      BY <1>1 DEF ListStaff, Goto, TypeOK, invs
    <2> QED
      BY <2>1 DEF Lacks, Registered, AccountsOf, Exists
  <1>2. ASSUME NEW q \in Request, NEW i \in owed'[q], ~(ListStaff(r) /\ q = r)
        PROVE  /\ status'[i] = "accepted" /\ Registered(to[i])'
               /\ ~Lacks(i)' \/ Due(q, i)' \/ At(q, i)'
    <2>1. /\ i \in owed[q] /\ status'[i] = "accepted"
          /\ q # r => todo'[q] = todo[q]
      <3>1. CASE ListStaff(r)
        BY <1>2, <3>1 DEF ListStaff, TypeOK, DebtCovered, invs
      <3> QED
        BY <3>1, DebtSteps
    <2>2. /\ i \in Request /\ status[i] = "accepted" /\ Registered(to[i])
          /\ ~Lacks(i) \/ Due(q, i) \/ At(q, i)
      BY <2>1 DEF TypeOK, DebtCovered
    <2>3. to'[i] = to[i] /\ AccountsOf(to[i])' = AccountsOf(to[i]) /\ Registered(to[i])'
      BY <2>2, AddressesStay DEF Registered
    <2>4. CASE ~Lacks(i)
      BY <2>1, <2>2, <2>3, <2>4, LackStays
    <2>5. CASE q # r /\ ~~Lacks(i)
      BY <2>1, <2>2, <2>3, <2>5, OthersStay
    <2>6. CASE q = r /\ ~~Lacks(i)
      <3> USE DEF TypeOK, Goto, invs, local, hist
      <3>1. CASE Heal(r)
        <4>1. PICK j \in todo[r] :
                 /\ at' = [at EXCEPT ![r] = j]
                 /\ todo' = [todo EXCEPT ![r] = @ \ {j}]
                 /\ IF status[j] = "accepted" /\ Registered(to[j])
                    THEN /\ \E u \in AccountsOf(to[j]) : user' = [user EXCEPT ![r] = u]
                         /\ Goto(r, "healCheck")
                    ELSE UNCHANGED <<user, pc>>
          BY <3>1 DEF Heal
        <4>2. pc[r] = "heal" /\ Due(r, i)
          BY <2>2, <2>6, <3>1 DEF Heal
        <4>3. CASE i # j
          BY <2>1, <2>3, <2>6, <4>1, <4>2, <4>3
        <4>4. CASE i = j
          <5>1. /\ at'[r] = i /\ pc'[r] = "healCheck"
                /\ \E u \in AccountsOf(to[i]) : user'[r] = u
            BY <2>2, <4>1, <4>4 DEF AccountsOf
          <5> QED
            BY <2>1, <2>3, <2>6, <5>1
        <4> QED
          BY <4>3, <4>4
      <3>2. CASE HealCheck(r)
        <4>1. CASE Due(r, i)
          BY <2>1, <2>3, <2>6, <3>2, <4>1 DEF HealCheck
        <4>2. CASE At(r, i) /\ \E m \in member : m.user = user[r]
          <5>1. \A u \in AccountsOf(to[i]) : u = user[r]
            BY <2>2, <4>2, NoneAssumption DEF AccountsOf, OneAccountPerEmail, MailGiven, Exists
          <5> QED
            BY <2>6, <4>2, <5>1 DEF Lacks
        <4>3. CASE At(r, i) /\ ~\E m \in member : m.user = user[r]
          BY <2>1, <2>3, <2>6, <3>2, <4>3 DEF HealCheck
        <4> QED
          BY <2>2, <2>6, <4>1, <4>2, <4>3
      <3>3. CASE HealCreate(r)
        <4>1. CASE Due(r, i)
          BY <2>1, <2>3, <2>6, <3>3, <4>1 DEF HealCreate
        <4>2. CASE At(r, i)
          <5>1. \A u \in AccountsOf(to[i]) : u = user[r]
            BY <2>2, <4>2, NoneAssumption DEF AccountsOf, OneAccountPerEmail, MailGiven, Exists
          <5>2. \E m \in member' : m.user = user[r]
            <6> DEFINE new == [by |-> r, for |-> at[r], user |-> user[r]]
            <6>1. new \in member' /\ new.user = user[r]
              BY <3>3 DEF HealCreate
            <6> HIDE DEF new
            <6> QED
              BY <6>1
          <5>3. ~Lacks(i)'
            BY <2>3, <5>1, <5>2 DEF Lacks
          <5> QED
            BY <2>1, <2>3, <5>3
        <4> QED
          BY <2>2, <2>6, <4>1, <4>2
      <3>4. CASE WeekPasses(r)
        BY <2>1, <2>2, <2>3, <2>6, <3>4 DEF WeekPasses
      <3>5. CASE ~(Heal(r) \/ HealCheck(r) \/ HealCreate(r) \/ WeekPasses(r))
        <4>1. pc[r] \in {"heal", "healCheck", "healCreate"} => ListDone(r)
          BY <3>5 DEF Act, Arrive, Continue, Register, InviteStaff, CreateInvitation,
             GetInvitationDetails, About, AcceptInvitation, RevokeInvitation,
             ResendInvitation, ListStaff, Hire, CheckInvitee, LookPending, LookDue,
             LookRevocable, LookResendable, Join, FindUser, Enrol, Expire, Revoke, Restore,
             Renew, Accept, InsertInvitation
        <4> QED
          BY <2>2, <2>6, <4>1 DEF ListDone
      <3> QED
        BY <3>1, <3>2, <3>3, <3>4, <3>5
    <2> QED
      BY <2>4, <2>5, <2>6
  <1> QED
    BY <1>1, <1>2 DEF DebtCovered

\* An invitation becomes pending by an insertion or a resend only; every other
\* step leaves pending at most what was, with its address.
LEMMA PendingStays ==
    ASSUME IInv, NEW r \in Request, Act(r), ~InsertInvitation(r), ~Renew(r), ~Restore(r)
    PROVE  /\ UNCHANGED <<to, unchecked>>
           /\ \A i \in Request : status'[i] = "pending" => status[i] = "pending"
  <1>1. CASE Accept(r) \/ Expire(r) \/ Revoke(r)
    BY <1>1 DEF Accept, Expire, Revoke, UpdateInvitationStatus, SetStatus, IInv, TypeOK
  <1>2. CASE ~(Accept(r) \/ Expire(r) \/ Revoke(r))
    BY <1>2 DEF Act, Arrive, Continue, Register, InviteStaff, CreateInvitation,
       GetInvitationDetails, About, AcceptInvitation, RevokeInvitation, ResendInvitation,
       ListStaff, Hire, CheckInvitee, LookPending, LookDue, LookRevocable, LookResendable,
       Join, HealCheck, HealCreate, ListDone, WeekPasses, FindUser, Enrol, Heal, invs, hist
  <1> QED
    BY <1>1, <1>2

\* Every step keeps ChecksRecorded and SecondPendingExplained.
LEMMA ChecksRecordedNext ==
    ASSUME IInv, NEW r \in Request, Act(r)
    PROVE  ChecksRecorded' /\ SecondPendingExplained'
  <1> USE DEF IInv, ChecksRecorded, SecondPendingExplained
  <1>1. CASE InsertInvitation(r)
    BY <1>1 DEF InsertInvitation, Overtaken, SetStatus, Goto, TypeOK, local
  <1>2. CASE Renew(r)
    BY <1>2 DEF Renew, Revive, Overtaken, SetStatus, Goto, TypeOK, HeldExists, Holding,
       Deciding, local
  <1>3. CASE Restore(r)
    BY <1>3 DEF Restore, Revive, Overtaken, UpdateInvitationStatus, SetStatus, Goto, TypeOK,
       HeldExists, Holding, Deciding, local
  <1>4. CASE CheckInvitee(r)
    BY <1>4 DEF CheckInvitee, Goto, TypeOK, invs, local, hist
  <1>5. CASE ~(InsertInvitation(r) \/ Renew(r) \/ Restore(r) \/ CheckInvitee(r))
    <2>1. /\ UNCHANGED <<to, unchecked>>
          /\ \A i \in Request : status'[i] = "pending" => status[i] = "pending"
      BY <1>5, PendingStays
    <2>2. \A q \in Request :
              /\ pc'[q] = "insert" => pc[q] = "insert" /\ mail'[q] = mail[q]
              /\ pc'[q] = "restore" => pc[q] = "restore" /\ at'[q] = at[q]
      BY <1>5, OthersStay DEF Act, Arrive, Continue, Register, CreateUser, InviteStaff,
         CreateInvitation, GetInvitationDetails, About, AcceptInvitation, RevokeInvitation,
         ResendInvitation, ListStaff, Hire, LookPending, LookDue, LookRevocable,
         LookResendable, Join, HealCheck, HealCreate, ListDone, WeekPasses, FindUser, Enrol,
         Heal, Accept, Expire, Revoke, UpdateInvitationStatus, Goto, TypeOK, local
    <2> QED
      BY <2>1, <2>2
  <1> QED
    BY <1>1, <1>2, <1>3, <1>4, <1>5

-----------------------------------------------------------------------------
(* The theorems.                                                           *)

\* Init satisfies every part of the invariant: nobody has come yet.
LEMMA InitIInv == Init => IInv
  BY NoneAssumption DEF Init, IInv, TypeOK, Status, Label, HeldExists, Holding, Deciding,
     NotYetThere, Exists, MailGiven, UserKnown, OneAccountPerEmail, AcceptedBySomebody,
     MembersKnown, ReadersRecorded, DebtCovered, ChecksRecorded, SecondPendingExplained

\* Every step, and every stuttering step, keeps the invariant.
LEMMA NextIInv == IInv /\ [Next]_vars => IInv'
  <1> SUFFICES ASSUME IInv, [Next]_vars PROVE IInv'
    OBVIOUS
  <1>1. ASSUME NEW r \in Request, Act(r) PROVE IInv'
    BY <1>1, TypeNext, HeldExistsNext, NotYetThereNext, MailGivenNext, UserKnownNext,
       OneAccountNext, AcceptedNext, MembersKnownNext, ReadersRecordedNext, DebtCoveredNext,
       ChecksRecordedNext
       DEF IInv
  <1>2. CASE UNCHANGED vars
    BY <1>2 DEF vars, invs, local, hist, IInv, TypeOK, HeldExists, NotYetThere, Exists,
       MailGiven, UserKnown, OneAccountPerEmail, AcceptedBySomebody, MembersKnown,
       ReadersRecorded, DebtCovered, Lacks, Registered, AccountsOf, ChecksRecorded,
       SecondPendingExplained
  <1> QED
    BY <1>1, <1>2 DEF Next, Act

\* The inductive invariant holds of every behaviour.
THEOREM Invariance == Spec => []IInv
  BY InitIInv, NextIInv, PTL DEF Spec

\* Every variable keeps its type.
THEOREM TypeCorrect == Spec => []TypeOK
  <1>1. IInv => TypeOK
    BY DEF IInv
  <1> QED
    BY <1>1, Invariance, PTL

\* No address ever has two accounts, although it is looked up in one section
\* and registered in another.
THEOREM NoDoubleAccount == Spec => []OneAccountPerEmail
  <1>1. IInv => OneAccountPerEmail
    BY DEF IInv
  <1> QED
    BY <1>1, Invariance, PTL

\* Nobody the Store does not know has accepted an invitation or got a
\* membership by one.
THEOREM NoStranger == Spec => []NobodyUnknown
  <1>1. IInv => NobodyUnknown
    <2> SUFFICES ASSUME IInv PROVE NobodyUnknown
      OBVIOUS
    <2>1. \A i \in Request : status[i] = "accepted" =>
             \E r \in Request : at[r] = i /\ Known(user[r])
      BY NoneAssumption DEF IInv, AcceptedBySomebody, Known
    <2>2. \A m \in member : m.for # None => Known(m.user)
      BY NoneAssumption DEF IInv, TypeOK, MembersKnown, Known
    <2> QED
      BY <2>1, <2>2 DEF NobodyUnknown
  <1> QED
    BY <1>1, Invariance, PTL

\* A ListStaff request that is answered has repaired all it found broken,
\* whatever ran beside it.
THEOREM RepairIsComplete == Spec => []HealingComplete
  <1>1. IInv => HealingComplete
    BY DEF IInv, DebtCovered, HealingComplete
  <1> QED
    BY <1>1, Invariance, PTL

\* Two invitations are pending for one address only through a resend or through
\* an insertion that came between another's check and insertion.
THEOREM DuplicateIsOverlap == Spec => []SecondPendingExplained
  <1>1. IInv => SecondPendingExplained
    BY DEF IInv
  <1> QED
    BY <1>1, Invariance, PTL

\* Only a request that was already at work when an invitation was accepted
\* can undo the acceptance.
THEOREM AcceptanceIsFinal == Spec => OnlyOverlapUndoesAcceptance
  <1>1. IInv /\ [Next]_vars =>
           [\A r \in Request :
              /\ pc[r] \in {"accept", "expire", "revoke", "renew", "restore"}
              /\ pc'[r] # pc[r]
              /\ status[at[r]] = "accepted"
              => r \in early[at[r]]]_vars
    BY DEF IInv, ReadersRecorded, Deciding
  <1> QED
    BY <1>1, Invariance, PTL DEF Spec, OnlyOverlapUndoesAcceptance
=============================================================================
