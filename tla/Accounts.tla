------------------------------- MODULE Accounts -------------------------------
(***************************************************************************)
(* Accounts and their sessions: handlers/auth.go and the session lookup in *)
(* middleware/auth.go.                                                     *)
(*                                                                         *)
(* A handler finds the user in one section of the Store's mutex, compares  *)
(* what the client sent with no lock, changes the user in another section  *)
(* and saves it, with UpdateUser, in a third; one action below is one of   *)
(* these.  The session a request opens is named after the request.  What   *)
(* is compared (a password, a code, a recovery phrase, a passkey) fits or  *)
(* does not: the client sends what it likes.  Fields nothing is decided by *)
(* here are one set, the requests that changed any of them.                *)
(***************************************************************************)
CONSTANTS
    Request,   \* the requests, and the sessions they open
    Account,   \* the users, and their sessions in the old format
    Email,     \* addresses users register with
    None       \* no address, no account, no session

ASSUME NoneAssumption == None \notin Request \cup Account \cup Email
ASSUME TokenAssumption == Request \cap Account = {}

VARIABLES
    user,      \* user[u]: the record of user u in memory
    doc,       \* doc[u]: the record as it was last given to writeDoc
    pc,        \* pc[r]: where request r is
    who,       \* who[r]: the user request r is about
    token,     \* token[r]: the session request r came with
    refused,   \* history: users changed by a refused update since their last save
    moved,     \* history: users whose address was changed in their profile
    gone,      \* history: gone[u]: sessions u had and revoked
    carried,   \* history: carried[u]: of these, sessions of updates then under way
    emptied    \* history: users who lost the last session they had

records == <<user, doc>>
local   == <<who, token>>
hist    == <<refused, moved, gone, carried, emptied>>
vars    == <<records, pc, local, hist>>

Token == Request \cup Account

Record == [status   : {"absent", "pending", "active"},
           email    : Email \cup {None},
           admin    : BOOLEAN,
           code     : BOOLEAN,          \* a one-time code is outstanding
           sessions : SUBSET Token,
           changes  : SUBSET Request]

Label == {"new", "done", "password", "status", "heal", "healSave", "session", "code",
          "activate", "phrase", "reset", "passkey", "profile", "challenge", "save",
          "file", "away"}

TypeOK ==
    /\ user \in [Account -> Record]
    /\ doc \in [Account -> Record]
    /\ pc \in [Request -> Label]
    /\ who \in [Request -> Account \cup {None}]
    /\ token \in [Request -> Token \cup {None}]
    /\ refused \subseteq Account /\ moved \subseteq Account /\ emptied \subseteq Account
    /\ gone \in [Account -> SUBSET Token] /\ carried \in [Account -> SUBSET Token]
    /\ \A r \in Request : pc[r] \notin {"new", "done"} => who[r] \in Account

Absent == [status |-> "absent", email |-> None, admin |-> FALSE, code |-> FALSE,
           sessions |-> {}, changes |-> {}]

\* An administrator of the time when they, too, had to send a code.
Stuck(e) == [Absent EXCEPT !.status = "pending", !.email = e, !.admin = TRUE, !.code = TRUE]

\* The Store is empty or has such an administrator.
Init ==
    /\ user \in {[u \in Account |-> Absent]} \cup
                    {[u \in Account |-> IF u = a THEN Stuck(e) ELSE Absent] :
                        a \in Account, e \in Email}
    /\ doc = user
    /\ pc = [r \in Request |-> "new"]
    /\ who = [r \in Request |-> None]
    /\ token = [r \in Request |-> None]
    /\ refused = {} /\ moved = {} /\ emptied = {}
    /\ gone = [u \in Account |-> {}] /\ carried = [u \in Account |-> {}]

Exists(u) == user[u].status # "absent"
Goto(r, label) == pc' = [pc EXCEPT ![r] = label]

-----------------------------------------------------------------------------
(* Registration.                                                           *)

\* Mutant: the address is looked up by the handler, under its own lock.
CreateUserUnchecked(r, u, record) ==
    /\ ~Exists(u)
    /\ user' = [user EXCEPT ![u] = record]
    /\ doc' = [doc EXCEPT ![u] = record]
    /\ who' = [who EXCEPT ![r] = u]

\* Store.CreateUser with a free address: stored and given to writeDoc in one
\* section.
CreateUser(r, u, record) ==
    /\ ~Exists(u)
    /\ record.email # None => \A v \in Account : user[v].email # record.email
    /\ user' = [user EXCEPT ![u] = record]
    /\ doc' = [doc EXCEPT ![u] = record]
    /\ who' = [who EXCEPT ![r] = u]

\* The address or the phone number is somebody's: the request fails.
Conflict(r) ==
    /\ pc[r] = "new"
    /\ \E u \in Account : Exists(u)
    /\ Goto(r, "done")
    /\ UNCHANGED <<records, local, hist>>

\* Administrators and users without address are active and logged in at once,
\* the others get a code; a landlord gets a verification file, too.
Register(r) ==
    /\ pc[r] = "new"
    /\ \E u \in Account, e \in Email \cup {None}, admin \in BOOLEAN :
          LET active == admin \/ e = None
          IN  /\ CreateUser(r, u, [status   |-> IF active THEN "active" ELSE "pending",
                                   email    |-> e,
                                   admin    |-> admin,
                                   code     |-> ~active,
                                   sessions |-> IF active THEN {r} ELSE {},
                                   changes  |-> {}])
              /\ Goto(r, "done") \/ (~admin /\ Goto(r, "file"))
    /\ UNCHANGED <<token, hist>>

\* GoogleAuth with is_sign_up: no code; the session follows in a section of
\* its own.
GoogleSignUp(r) ==
    /\ pc[r] = "new"
    /\ \E u \in Account, e \in Email :
          CreateUser(r, u, [Absent EXCEPT !.status = "active", !.email = e])
    /\ Goto(r, "session")
    /\ UNCHANGED <<token, hist>>

-----------------------------------------------------------------------------
(* Who it is.                                                              *)

\* Login, VerifyOTP, RecoverPassword and the two of WebAuthn find a user by
\* address or phone, any one if several have it; GoogleAuth by the Google
\* account, and users who have one are active.
Find(r) ==
    /\ pc[r] = "new"
    /\ \E u \in Account :
          /\ Exists(u)
          /\ who' = [who EXCEPT ![r] = u]
          /\ \/ \E label \in {"password", "code", "phrase", "passkey"} : Goto(r, label)
             \/ user[u].status = "active" /\ Goto(r, "session")
    /\ UNCHANGED <<records, token, hist>>

\* GetUserIdFromAuthHeader: a session of the user, or the old format, which is
\* the user's id, as long as the user has no session.
Authenticated(u, t) ==
    /\ Exists(u)
    /\ t \in user[u].sessions \/ (t = u /\ user[u].sessions = {})

\* UpdateProfile, the registration of a passkey, or a handler of another
\* component.
Authenticate(r) ==
    /\ pc[r] = "new"
    /\ \E u \in Account, t \in Token :
          /\ Authenticated(u, t)
          /\ who' = [who EXCEPT ![r] = u]
          /\ token' = [token EXCEPT ![r] = t]
    /\ \E label \in {"profile", "challenge", "away"} : Goto(r, label)
    /\ UNCHANGED <<records, hist>>

\* What is compared with no lock: r goes on to the next label or is refused.
Compare(r, label, fits, next) ==
    /\ pc[r] = label
    /\ (fits /\ Goto(r, next)) \/ Goto(r, "done")
    /\ UNCHANGED <<records, local, hist>>

CheckPassword(r) == Compare(r, "password", TRUE, "status")
CheckPhrase(r)   == Compare(r, "phrase", TRUE, "reset")

\* A code that is not outstanding is empty, and an empty one is not accepted.
CheckCode(r) == Compare(r, "code", user[who[r]].code, "activate")

\* A passkey is among the changes; one that fits logs in, any will do to ask
\* for a challenge.
CheckPasskey(r) ==
    \/ Compare(r, "passkey", user[who[r]].changes # {}, "session")
    \/ Compare(r, "passkey", user[who[r]].changes # {}, "challenge")

\* "unverified" is the answer to a pending user, but not to an administrator.
CheckStatus(r) ==
    /\ pc[r] = "status"
    /\ Goto(r, IF user[who[r]].status = "active" THEN "session"
               ELSE IF user[who[r]].admin        THEN "heal" ELSE "done")
    /\ UNCHANGED <<records, local, hist>>

-----------------------------------------------------------------------------
(* What a request does to its user.                                        *)

\* The record of r's user becomes record, in memory.
Become(r, record) ==
    /\ user' = [user EXCEPT ![who[r]] = record]
    /\ UNCHANGED <<doc, local>>

\* Login activates an administrator through the pointer, with no lock ...
Heal(r) ==
    /\ pc[r] = "heal"
    /\ Become(r, [user[who[r]] EXCEPT !.status = "active", !.code = FALSE])
    /\ Goto(r, "healSave")
    /\ UNCHANGED hist

\* Store.UpdateUser: whatever the record is by now goes to writeDoc.
UpdateUser(r) ==
    /\ doc' = [doc EXCEPT ![who[r]] = user[who[r]]]
    /\ refused' = refused \ {who[r]}
    /\ UNCHANGED <<user, local, moved, gone, carried, emptied>>

\* ... and saves it before it opens the session.
HealSave(r) == pc[r] = "healSave" /\ UpdateUser(r) /\ Goto(r, "session")

\* Mutant: appends to the sessions as they were, after a session was revoked.
AddSessionStale(r) ==
    /\ pc[r] = "session"
    /\ Become(r, [user[who[r]] EXCEPT !.sessions = @ \cup gone[who[r]] \cup {r}])
    /\ Goto(r, "save")
    /\ UNCHANGED hist

\* Login, GoogleAuth and WebAuthnLoginVerify append the new session.
AddSession(r) ==
    /\ pc[r] = "session"
    /\ Become(r, [user[who[r]] EXCEPT !.sessions = @ \cup {r}])
    /\ Goto(r, "save")
    /\ UNCHANGED hist

\* VerifyOTP: active, no code, a session.
Activate(r) ==
    /\ pc[r] = "activate"
    /\ Become(r, [user[who[r]] EXCEPT !.status = "active", !.code = FALSE,
                                      !.sessions = @ \cup {r}])
    /\ Goto(r, "save")
    /\ UNCHANGED hist

\* Sessions the user is going to lose, of these the ones that a request between
\* its lookup and its section has in its hands, and whether any is left.
Revoked(r) ==
    LET lost == user[who[r]].sessions \ user'[who[r]].sessions
        held == {token[q] : q \in {p \in Request : who[p] = who[r] /\ pc[p] = "profile"}}
    IN  /\ gone' = [gone EXCEPT ![who[r]] = @ \cup lost]
        /\ carried' = [carried EXCEPT ![who[r]] = @ \cup (lost \cap held)]
        /\ emptied' = IF lost # {} /\ user'[who[r]].sessions = {} THEN emptied \cup {who[r]}
                                                                  ELSE emptied

\* Mutant: the new password is set, the rest left to the caller.
ResetUnsaved(r) ==
    /\ pc[r] = "reset"
    /\ Become(r, [user[who[r]] EXCEPT !.sessions = {}, !.changes = @ \cup {r}])
    /\ Revoked(r)
    /\ Goto(r, "done")
    /\ UNCHANGED <<refused, moved>>

\* RecoverPassword sets the password and revokes every session.
Reset(r) ==
    /\ pc[r] = "reset"
    /\ Become(r, [user[who[r]] EXCEPT !.sessions = {}, !.changes = @ \cup {r}])
    /\ Revoked(r)
    /\ Goto(r, "save")
    /\ UNCHANGED <<refused, moved>>

\* The WebAuthn handlers store a challenge or a passkey.
Challenge(r) ==
    /\ pc[r] = "challenge"
    /\ Become(r, [user[who[r]] EXCEPT !.changes = @ \cup {r}])
    /\ Goto(r, "save")
    /\ UNCHANGED hist

\* UpdateProfile up to the password: address and other fields as they come,
\* nobody looks whether the address is free.
Edited(r, email) == [user[who[r]] EXCEPT !.email = email, !.changes = @ \cup {r}]

Moves(r) == moved' = IF user'[who[r]].email = user[who[r]].email THEN moved
                                                                 ELSE moved \cup {who[r]}

\* A weak password ends it here: what is changed stays changed in memory.
RefuseProfile(r) ==
    /\ pc[r] = "profile"
    /\ \E e \in Email \cup {user[who[r]].email} : Become(r, Edited(r, e))
    /\ Moves(r)
    /\ refused' = refused \cup {who[r]}
    /\ Goto(r, "done")
    /\ UNCHANGED <<gone, carried, emptied>>

\* "revoke_others" leaves the session the request came with, whether the user
\* still has it or not; "revoke_session" takes one away.
UpdateProfile(r) ==
    /\ pc[r] = "profile"
    /\ \E e \in Email \cup {user[who[r]].email},
          kept \in {user[who[r]].sessions, {token[r]}},
          ended \in {{}} \cup {{t} : t \in Token} :
          Become(r, [Edited(r, e) EXCEPT !.sessions = kept \ ended])
    /\ Moves(r)
    /\ Revoked(r)
    /\ Goto(r, "save")
    /\ UNCHANGED refused

Save(r) == pc[r] = "save" /\ UpdateUser(r) /\ Goto(r, "done")

\* A handler of another component has done what this one handed it: r has its
\* file, or is answered.
Return(r) ==
    /\ pc[r] \in {"file", "away"}
    /\ Goto(r, "done")
    /\ UNCHANGED <<records, local, hist>>

-----------------------------------------------------------------------------

\* With no lock, and in a section of the Store's mutex.
Free(r) ==
    \/ CheckPassword(r) \/ CheckPhrase(r) \/ CheckCode(r) \/ CheckPasskey(r)
    \/ CheckStatus(r) \/ Heal(r)
Locked(r) ==
    \/ Conflict(r) \/ Register(r) \/ GoogleSignUp(r) \/ Find(r) \/ Authenticate(r)
    \/ HealSave(r) \/ AddSession(r) \/ Activate(r) \/ Reset(r) \/ Challenge(r)
    \/ RefuseProfile(r) \/ UpdateProfile(r) \/ Save(r)

Next == \E r \in Request : Free(r) \/ Locked(r) \/ Return(r)

Spec == Init /\ [][Next]_vars

-----------------------------------------------------------------------------
(***************************************************************************)
(* Properties.                                                             *)
(***************************************************************************)

\* A session that was revoked, one by one, with the others or by a recovery, lets
\* nobody in again, with two exceptions: an update that came with it was under way
\* when it was revoked and put it back, or it is in the old format, session_ and
\* the user's id, and the user has been left without any session since.  The
\* second is not what the comment on the recovery says ("Revoke all sessions on
\* password recovery reset for safety!"): revoking all is what makes the middleware
\* accept the old format, and from then on it is good, or may be stored again.
RevocationHolds ==
    \A u \in Account : \A t \in gone[u] :
        Authenticated(u, t) => t \in carried[u] \/ (t = u /\ u \in emptied)

\* The user a session belongs to: whom the request that opened it was about,
\* or, in the old format, whose id it is.
Owner(t) == IF t \in Request THEN who[t] ELSE t

\* Whatever logins, recoveries and profile updates overlap, nobody comes in as
\* somebody else: a user has only sessions opened for it, so a request that a
\* session let in acts for the user who had logged in.
ActsForOwner ==
    /\ \A u \in Account : \A t \in user[u].sessions : Owner(t) = u
    /\ \A r \in Request : token[r] # None => Owner(token[r]) = who[r]

\* A user whom nobody here is about to save is saved as it is, unless an update
\* was refused half-way: its changes stay in memory and go out with the next save.
\* That is said of auth.go: AcceptInvitation links a Google account and does not
\* save it (invitations.go:310), which Persistence has.
QuietAccountSaved ==
    \A u \in Account \ refused :
        (\A r \in Request : who[r] = u => pc[r] \notin {"save", "healSave"})
            => doc[u] = user[u]

\* Registration never gives an address twice; two users share one only if one
\* of them took it in its profile.
SharedAddressExplained ==
    \A u, v \in Account \ moved :
        user[u].email = user[v].email /\ user[u].email # None => u = v
=============================================================================
