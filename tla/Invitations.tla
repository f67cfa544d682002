----------------------------- MODULE Invitations -----------------------------
(***************************************************************************)
(* Staff invitations: handlers/invitations.go, the self-healing loop of    *)
(* OperationsHandler.ListStaff, InviteStaff, which takes a short cut, and   *)
(* the Store methods they call.                                            *)
(*                                                                         *)
(* A handler takes the Store's mutex for each lookup and each change and   *)
(* lets go of it in between, so one action below is one section under the  *)
(* mutex, or one unlocked read of the invitation it holds a pointer to.    *)
(* Everything a request creates is named after the request (the code draws *)
(* a UUID per request): invitation r is the one request r created, account *)
(* r the one it registered.  A request runs once.                          *)
(***************************************************************************)
EXTENDS Naturals, FiniteSets

CONSTANTS
    Request,   \* the requests, and the names of what they create
    Email,     \* addresses people are invited at and register with
    None       \* no request, no address

ASSUME NoneAssumption == None \notin Request /\ None \notin Email

VARIABLES
    status,    \* status[i]: the Status of invitation i, "absent" before it exists
    to,        \* to[i]: the address invitation i was sent to
    lapsed,    \* invitations whose ExpiresAt has passed
    account,   \* account[u]: the address user u is registered with
    member,    \* staff memberships: who created it, for which invitation, whose
    pc,        \* pc[r]: where request r is
    at,        \* at[r]: the invitation request r is about
    mail,      \* mail[r]: the address in the body of request r
    user,      \* user[r]: the user request r found or registered
    todo,      \* todo[r]: invitations a ListStaff request has still to look at
    early,     \* history: readers of i's status still busy when i was accepted
    owed,      \* history: invitations without membership when ListStaff began
    unchecked  \* history: invitations made pending on no check, or an outdated one

invs  == <<status, to, lapsed>>
local == <<at, mail, user, todo>>
hist  == <<early, owed, unchecked>>
vars  == <<invs, account, member, pc, local, hist>>

Status == {"absent", "pending", "accepted", "expired", "revoked"}

\* Labels of a request that has read the status of at[r] and may yet write it.
Deciding == {"due", "find", "enrol", "accept", "peekDue", "expire", "revoke",
             "renew", "restore"}

Label == Deciding \cup {"new", "done", "check", "insert", "look", "join", "peek",
                        "revokeLook", "resendLook", "heal", "healCheck", "healCreate", "hire"}

TypeOK ==
    /\ status \in [Request -> Status]
    /\ to \in [Request -> Email \cup {None}]
    /\ lapsed \subseteq Request
    /\ account \in [Request -> Email \cup {None}]
    /\ member \subseteq [by : Request, for : Request \cup {None}, user : Request]
    /\ pc \in [Request -> Label]
    /\ at \in [Request -> Request \cup {None}]
    /\ mail \in [Request -> Email \cup {None}]
    /\ user \in [Request -> Request \cup {None}]
    /\ todo \in [Request -> SUBSET Request]
    /\ early \in [Request -> SUBSET Request]
    /\ owed \in [Request -> SUBSET Request]
    /\ unchecked \subseteq Request

Init ==
    /\ status = [i \in Request |-> "absent"]
    /\ to = [i \in Request |-> None]
    /\ lapsed = {}
    /\ account = [u \in Request |-> None]
    /\ member = {}
    /\ pc = [r \in Request |-> "new"]
    /\ at = [r \in Request |-> None]
    /\ mail = [r \in Request |-> None]
    /\ user = [r \in Request |-> None]
    /\ todo = [r \in Request |-> {}]
    /\ early = [i \in Request |-> {}]
    /\ owed = [r \in Request |-> {}]
    /\ unchecked = {}

Goto(r, label) == pc' = [pc EXCEPT ![r] = label]
SetStatus(i, s) == status' = [status EXCEPT ![i] = s]

Exists(i) == status[i] # "absent"
AccountsOf(e) == {u \in Request : account[u] = e}
Registered(e) == AccountsOf(e) # {}

-----------------------------------------------------------------------------
(* Store methods.                                                          *)

\* Mutant: relies on the caller having looked for the address before.
CreateUserUnchecked(r, e, next, taken) ==
    account' = [account EXCEPT ![r] = e] /\ Goto(r, next)

\* Store.CreateUser: refuses an address or a phone number that somebody has,
\* under one lock.
CreateUser(r, e, next, taken) ==
    \/ /\ ~Registered(e)
       /\ account' = [account EXCEPT ![r] = e]
       /\ Goto(r, next)
    \/ /\ \E u \in Request : account[u] # None
       /\ Goto(r, taken)
       /\ UNCHANGED account

\* Store.UpdateInvitationStatus, the last thing the handler does with the
\* invitation.
UpdateInvitationStatus(r, s, next) ==
    /\ SetStatus(at[r], s)
    /\ Goto(r, next)
    /\ UNCHANGED <<to, lapsed, account, member, local>>

\* Nobody owes a membership for an invitation that is no longer accepted.
Undo(i) == owed' = [r \in Request |-> owed[r] \ {i}] /\ UNCHANGED early

-----------------------------------------------------------------------------
(* POST /api/auth/register, as far as accounts go.                         *)

Register(r) ==
    /\ pc[r] = "new"
    /\ \E e \in Email : CreateUser(r, e, "done", "done")
    /\ UNCHANGED <<invs, member, local, hist>>

-----------------------------------------------------------------------------
(* InviteStaff.                                                            *)

\* The staff member is registered at once; when that fails nobody notices ...
InviteStaff(r) ==
    /\ pc[r] = "new"
    /\ \E e \in Email : CreateUser(r, e, "hire", "hire")
    /\ user' = [user EXCEPT ![r] = r]
    /\ UNCHANGED <<invs, member, at, mail, todo, hist>>

\* ... and the membership is created all the same.
Hire(r) ==
    /\ pc[r] = "hire"
    /\ member' = member \cup {[by |-> r, for |-> None, user |-> user[r]]}
    /\ Goto(r, "done")
    /\ UNCHANGED <<invs, account, local, hist>>

-----------------------------------------------------------------------------
(* CreateInvitation.                                                       *)

CreateInvitation(r) ==
    /\ pc[r] = "new"
    /\ \E e \in Email : mail' = [mail EXCEPT ![r] = e]
    /\ Goto(r, "check")
    /\ UNCHANGED <<invs, account, member, at, user, todo, hist>>

\* Mutant: check 2 looks at the caller's own invitations only, and finds none.
CheckInviteeOnce(r) ==
    /\ pc[r] = "check"
    /\ Goto(r, IF Registered(mail[r]) THEN "done" ELSE "insert")
    /\ UNCHANGED <<invs, account, member, local, hist>>

\* Check 1 and check 2 share one read section.
CheckInvitee(r) ==
    /\ pc[r] = "check"
    /\ Goto(r, IF \/ Registered(mail[r])
                  \/ \E i \in Request : to[i] = mail[r] /\ status[i] = "pending"
               THEN "done" ELSE "insert")
    /\ UNCHANGED <<invs, account, member, local, hist>>

\* Those whose check for e is outdated when an invitation to e becomes pending.
Overtaken(e) == {q \in Request : pc[q] = "insert" /\ mail[q] = e}

InsertInvitation(r) ==
    /\ pc[r] = "insert"
    /\ SetStatus(r, "pending")
    /\ to' = [to EXCEPT ![r] = mail[r]]
    /\ unchecked' = unchecked \cup (Overtaken(mail[r]) \ {r})
    /\ Goto(r, "done")
    /\ UNCHANGED <<lapsed, account, member, local, early, owed>>

\* The seven days of an invitation pass.
WeekPasses(i) ==
    /\ Exists(i)
    /\ i \notin lapsed
    /\ lapsed' = lapsed \cup {i}
    /\ UNCHANGED <<status, to, account, member, pc, local, hist>>

-----------------------------------------------------------------------------
(* GetInvitationDetails and AcceptInvitation.                              *)

\* A request about an invitation whose link was sent out.
About(r, label) ==
    /\ pc[r] = "new"
    /\ \E i \in Request : Exists(i) /\ at' = [at EXCEPT ![r] = i]
    /\ Goto(r, label)

GetInvitationDetails(r) ==
    About(r, "peek") /\ UNCHANGED <<invs, account, member, mail, user, todo, hist>>

AcceptInvitation(r) ==
    /\ About(r, "look")
    /\ \E e \in Email : mail' = [mail EXCEPT ![r] = e]
    /\ UNCHANGED <<invs, account, member, user, todo, hist>>

\* Only a pending invitation passes ...
LookPending(r) ==
    /\ pc[r] \in {"peek", "look"}
    /\ Goto(r, IF status[at[r]] # "pending" THEN "done"
               ELSE IF pc[r] = "peek"      THEN "peekDue" ELSE "due")
    /\ UNCHANGED <<invs, account, member, local, hist>>

\* ... and only within its seven days.
LookDue(r) ==
    /\ pc[r] \in {"peekDue", "due"}
    /\ Goto(r, IF at[r] \in lapsed         THEN "expire"
               ELSE IF pc[r] = "peekDue"  THEN "done" ELSE "find")
    /\ UNCHANGED <<invs, account, member, local, hist>>

Expire(r) ==
    /\ pc[r] = "expire"
    /\ UpdateInvitationStatus(r, "expired", "done")
    /\ Undo(at[r])
    /\ UNCHANGED unchecked

\* An existing account accepts as itself: the one with the address in the
\* body, or the one linked to the Google account in it, whatever its address.
FindUser(r) ==
    /\ pc[r] = "find"
    /\ \/ /\ \E u \in Request : account[u] # None /\ user' = [user EXCEPT ![r] = u]
          /\ Goto(r, "accept")
       \/ /\ ~Registered(mail[r])
          /\ Goto(r, "enrol")
          /\ UNCHANGED user
    /\ UNCHANGED <<invs, account, member, at, mail, todo, hist>>

\* Mutant: goes on without a user when the account could not be created.
EnrolWithoutUser(r) ==
    /\ pc[r] = "enrol"
    /\ CreateUser(r, mail[r], "accept", "accept")
    /\ user' = [user EXCEPT ![r] = IF account'[r] = None THEN None ELSE r]
    /\ UNCHANGED <<invs, member, at, mail, todo, hist>>

\* Mutant: goes on as the user whose account could not be created.
EnrolIgnoringError(r) ==
    /\ pc[r] = "enrol"
    /\ CreateUser(r, mail[r], "accept", "accept")
    /\ user' = [user EXCEPT ![r] = r]
    /\ UNCHANGED <<invs, member, at, mail, todo, hist>>

\* Nobody had the address a moment ago; if somebody has it now, the request
\* fails.
Enrol(r) ==
    /\ pc[r] = "enrol"
    /\ CreateUser(r, mail[r], "accept", "done")
    /\ user' = [user EXCEPT ![r] = IF account'[r] = None THEN None ELSE r]
    /\ UNCHANGED <<invs, member, at, mail, todo, hist>>

Accept(r) ==
    /\ pc[r] = "accept"
    /\ UpdateInvitationStatus(r, "accepted", "join")
    /\ early' = [early EXCEPT ![at[r]] =
                    {q \in Request \ {r} : at[q] = at[r] /\ pc[q] \in Deciding}]
    /\ UNCHANGED <<owed, unchecked>>

\* CreateStaffMembership for the user who accepted.
Join(r) ==
    /\ pc[r] = "join"
    /\ member' = member \cup {[by |-> r, for |-> at[r], user |-> user[r]]}
    /\ Goto(r, "done")
    /\ UNCHANGED <<invs, account, local, hist>>

-----------------------------------------------------------------------------
(* RevokeInvitation and ResendInvitation.                                  *)

RevokeInvitation(r) ==
    About(r, "revokeLook") /\ UNCHANGED <<invs, account, member, mail, user, todo, hist>>

\* Mutant: an accepted invitation can be revoked.
LookRevocableAlways(r) ==
    /\ pc[r] = "revokeLook"
    /\ Goto(r, IF status[at[r]] = "revoked" THEN "done" ELSE "revoke")
    /\ UNCHANGED <<invs, account, member, local, hist>>

LookRevocable(r) ==
    /\ pc[r] = "revokeLook"
    /\ Goto(r, IF status[at[r]] \in {"accepted", "revoked"} THEN "done" ELSE "revoke")
    /\ UNCHANGED <<invs, account, member, local, hist>>

Revoke(r) ==
    /\ pc[r] = "revoke"
    /\ UpdateInvitationStatus(r, "revoked", "done")
    /\ Undo(at[r])
    /\ UNCHANGED unchecked

ResendInvitation(r) ==
    About(r, "resendLook") /\ UNCHANGED <<invs, account, member, mail, user, todo, hist>>

\* An invitation becomes pending again with nobody looking for another one.
Revive(i) == unchecked' = unchecked \cup {i} \cup Overtaken(to[i])

LookResendable(r) ==
    /\ pc[r] = "resendLook"
    /\ Goto(r, IF status[at[r]] = "accepted" THEN "done" ELSE "renew")
    /\ UNCHANGED <<invs, account, member, local, hist>>

\* Reset expiry, restore to pending ...
Renew(r) ==
    /\ pc[r] = "renew"
    /\ SetStatus(at[r], "pending")
    /\ lapsed' = lapsed \ {at[r]}
    /\ Goto(r, "restore")
    /\ Undo(at[r])
    /\ Revive(at[r])
    /\ UNCHANGED <<to, account, member, local>>

\* ... and once more through UpdateInvitationStatus, which saves it.
Restore(r) ==
    /\ pc[r] = "restore"
    /\ UpdateInvitationStatus(r, "pending", "done")
    /\ Undo(at[r])
    /\ Revive(at[r])

-----------------------------------------------------------------------------
(* ListStaff: "Self-healing check for accepted invitations without staff   *)
(* memberships".                                                           *)

\* The user an accepted invitation was meant for has no membership.
Lacks(i) ==
    /\ status[i] = "accepted"
    /\ \E u \in AccountsOf(to[i]) : \A m \in member : m.user # u

ListStaff(r) ==
    /\ pc[r] = "new"
    /\ todo' = [todo EXCEPT ![r] = {i \in Request : Exists(i)}]
    /\ owed' = [owed EXCEPT ![r] = {i \in Request : Lacks(i)}]
    /\ Goto(r, "heal")
    /\ UNCHANGED <<invs, account, member, at, mail, user, early, unchecked>>

\* Takes the next invitation, in no particular order: it matters when it is
\* accepted and its address is registered by now.
Heal(r) ==
    /\ pc[r] = "heal"
    /\ \E i \in todo[r] :
          /\ at' = [at EXCEPT ![r] = i]
          /\ todo' = [todo EXCEPT ![r] = @ \ {i}]
          /\ IF status[i] = "accepted" /\ Registered(to[i])
             THEN /\ \E u \in AccountsOf(to[i]) : user' = [user EXCEPT ![r] = u]
                  /\ Goto(r, "healCheck")
             ELSE UNCHANGED <<user, pc>>
    /\ UNCHANGED <<invs, account, member, mail, hist>>

\* Mutant: any membership will do, not only this user's.
HealCheckAnyone(r) ==
    /\ pc[r] = "healCheck"
    /\ Goto(r, IF member # {} THEN "heal" ELSE "healCreate")
    /\ UNCHANGED <<invs, account, member, local, hist>>

\* A membership of this user under the same sender: nothing to repair.
HealCheck(r) ==
    /\ pc[r] = "healCheck"
    /\ Goto(r, IF \E m \in member : m.user = user[r] THEN "heal" ELSE "healCreate")
    /\ UNCHANGED <<invs, account, member, local, hist>>

HealCreate(r) ==
    /\ pc[r] = "healCreate"
    /\ member' = member \cup {[by |-> r, for |-> at[r], user |-> user[r]]}
    /\ Goto(r, "heal")
    /\ UNCHANGED <<invs, account, local, hist>>

\* All invitations are seen: the list of the staff is sent.
ListDone(r) ==
    /\ pc[r] = "heal"
    /\ todo[r] = {}
    /\ Goto(r, "done")
    /\ UNCHANGED <<invs, account, member, local, hist>>

-----------------------------------------------------------------------------

Arrive(r) ==
    \/ Register(r) \/ InviteStaff(r) \/ CreateInvitation(r) \/ GetInvitationDetails(r)
    \/ AcceptInvitation(r) \/ RevokeInvitation(r) \/ ResendInvitation(r) \/ ListStaff(r)

Continue(r) ==
    \/ Hire(r) \/ CheckInvitee(r) \/ InsertInvitation(r)
    \/ LookPending(r) \/ LookDue(r) \/ Expire(r)
    \/ FindUser(r) \/ Enrol(r) \/ Accept(r) \/ Join(r)
    \/ LookRevocable(r) \/ Revoke(r)
    \/ LookResendable(r) \/ Renew(r) \/ Restore(r)
    \/ Heal(r) \/ HealCheck(r) \/ HealCreate(r) \/ ListDone(r)

Next == \E r \in Request : Arrive(r) \/ Continue(r) \/ WeekPasses(r)

Spec == Init /\ [][Next]_vars

-----------------------------------------------------------------------------
(***************************************************************************)
(* Properties.                                                             *)
(***************************************************************************)

\* Between FindUser and Enrol another request may register the address;
\* still no address ever gets two accounts.
OneAccountPerEmail ==
    \A u, v \in Request : account[u] = account[v] /\ account[u] # None => u = v

\* Whatever fails on the way, an accepted invitation was accepted by, and a
\* membership that came of one belongs to, a user the Store knows.  (Those of
\* InviteStaff need not: it does not look at CreateUser's error.)
Known(u) == u # None /\ account[u] # None
NobodyUnknown ==
    /\ \A i \in Request : status[i] = "accepted" =>
          \E r \in Request : at[r] = i /\ Known(user[r])
    /\ \A m \in member : m.for # None => Known(m.user)

\* An acceptance can be overwritten (revoked, expired, made pending, accepted
\* a second time) only by a request that had already read the status when the
\* invitation was accepted and was still at work; never by one that came later.
OnlyOverlapUndoesAcceptance ==
    [][\A r \in Request :
          /\ pc[r] \in {"accept", "expire", "revoke", "renew", "restore"}
          /\ pc'[r] # pc[r]
          /\ status[at[r]] = "accepted"
          => r \in early[at[r]]]_vars

\* Once ListStaff is through, every accepted invitation it found without a
\* membership has one, whoever created it, unless its acceptance was undone.
HealingComplete ==
    \A r \in Request : pc[r] = "done" =>
        \A i \in owed[r] : ~Lacks(i)

\* Check 2: "reject if a pending invitation already exists for this email".
\* The check and the insertion are two sections and a resend makes none, so two
\* can be pending; but one of them was then resent, or became pending while the
\* other was between its check and its insertion.
SecondPendingExplained ==
    \A i, j \in Request :
        /\ status[i] = "pending" /\ status[j] = "pending"
        /\ to[i] = to[j] /\ i # j
        => i \in unchecked \/ j \in unchecked
=============================================================================
