-------------------------- MODULE LandlordsProofs --------------------------
(***************************************************************************)
(* Proofs about accounts and tiers, for any requests, accounts, addresses  *)
(* and highest tier.                                                       *)
(*                                                                         *)
(* The two are proved about apart and together: the composition implements *)
(* Accounts and implements Tiers, so what is proved of a step of either holds *)
(* of a step of both.  Fresh, Held and Spent strengthen the claim about revoked *)
(* sessions; Undisturbed says, of an upgrade that is alone at its file, how *)
(* much of the file it has changed.                                        *)
(***************************************************************************)
EXTENDS Landlords, TLAPS

-----------------------------------------------------------------------------
(* Accounts.                                                               *)

\* The session of a request is nobody's before the request opens it.
Fresh ==
    \A r \in Request : pc[r] \notin {"save", "done", "file"} =>
        \A u \in Account : r \notin user[u].sessions /\ r \notin gone[u]

\* An update came with a session of its user, one that was revoked since, or the
\* old format, not revoked yet or good again.
Held ==
    /\ \A u \in Account : carried[u] \subseteq gone[u]
    /\ \A r \in Request : pc[r] = "profile" =>
          \/ token[r] \in user[who[r]].sessions \cup carried[who[r]]
          \/ /\ token[r] = who[r]
             /\ who[r] \in emptied \/ who[r] \notin gone[who[r]]

\* A user who has lost sessions and has none was left without at some time, and
\* of the lost ones it has those that RevocationHolds admits.
Spent ==
    \A u \in Account :
        /\ user[u].sessions = {} /\ gone[u] # {} => u \in emptied
        /\ \A t \in user[u].sessions \cap gone[u] : t \in carried[u] \/ (t = u /\ u \in emptied)

\* Users are not deleted, and one who is not there has lost no session.
Known ==
    /\ \A r \in Request : who[r] # None => Exists(who[r])
    /\ \A u \in Account : ~Exists(u) => gone[u] = {}

AccountsInv == TypeOK /\ Fresh /\ Held /\ Spent /\ Known /\ QuietAccountSaved
                      /\ SharedAddressExplained

\* The records the Store starts with.
LEMMA RecordTypes ==
    /\ Absent \in Record
    /\ \A e \in Email : Stuck(e) \in Record
BY DEF Absent, Stuck, Record

\* The Store starts with one administrator or none.
LEMMA AccountsInit == Init => AccountsInv
<1> SUFFICES ASSUME Init PROVE AccountsInv
  OBVIOUS
<1>1. PICK a \in Account \cup {None}, e \in Email \cup {None} :
          /\ user = [u \in Account |-> IF u = a THEN Stuck(e) ELSE Absent]
          /\ a # None => e # None
  <2>1. CASE user = [u \in Account |-> Absent]
    BY <2>1, NoneAssumption
  <2>2. CASE user # [u \in Account |-> Absent]
    BY <2>2, NoneAssumption DEF Init
  <2> QED BY <2>1, <2>2
<1>2. \A u \in Account : /\ user[u] \in Record
                         /\ user[u].sessions = {}
                         /\ user[u].email # None => u = a
  BY <1>1, NoneAssumption DEF Absent, Stuck, Record
<1>3. TypeOK
  BY <1>1, <1>2 DEF Init, TypeOK, Label
<1>4. Fresh /\ Held /\ Known
  BY <1>2 DEF Init, Fresh, Held, Known
<1>5. Spent /\ QuietAccountSaved
  BY DEF Init, Spent, QuietAccountSaved
<1>6. SharedAddressExplained
  BY <1>2 DEF SharedAddressExplained
<1> QED BY <1>3, <1>4, <1>5, <1>6 DEF AccountsInv

\* A request that only goes on.
LEMMA GoesOn ==
    ASSUME AccountsInv, NEW r \in Request, NEW label \in Label \ {"profile", "save", "healSave"},
           pc[r] \notin {"save", "healSave"},
           label = "done" \/ (pc[r] \notin {"done", "file"} /\ who[r] \in Account),
           Goto(r, label), UNCHANGED <<records, local, hist>>
    PROVE  AccountsInv'
<1> USE DEF AccountsInv, Goto, records, local, hist
<1>1. TypeOK'
  BY DEF TypeOK
<1>2. Fresh' /\ Held'
  BY DEF TypeOK, Fresh, Held
<1>3. Known' /\ Spent' /\ SharedAddressExplained'
  BY DEF Known, Exists, Spent, SharedAddressExplained
<1>4. QuietAccountSaved'
  BY DEF TypeOK, QuietAccountSaved
<1> QED BY <1>1, <1>2, <1>3, <1>4

\* A new user, with the session of the request or none.
LEMMA Creates ==
    ASSUME AccountsInv, NEW r \in Request, NEW u \in Account, NEW record \in Record,
           pc[r] = "new", CreateUser(r, u, record), record.status # "absent",
           NEW label \in {"done", "file", "session"}, Goto(r, label),
           record.sessions \subseteq {r}, label = "session" => record.sessions = {},
           UNCHANGED <<token, hist>>
    PROVE  AccountsInv'
<1> USE NoneAssumption DEF AccountsInv, Goto, hist
<1>1. /\ user[u].status = "absent"
      /\ record.email # None => \A v \in Account : user[v].email # record.email
      /\ user'[u] = record /\ doc'[u] = record /\ who'[r] = u /\ pc'[r] = label
      /\ \A v \in Account : v # u => user'[v] = user[v] /\ doc'[v] = doc[v]
      /\ \A q \in Request : q # r => who'[q] = who[q] /\ pc'[q] = pc[q]
      /\ who' \in [Request -> Account \cup {None}] /\ pc' \in [Request -> Label]
      /\ user' \in [Account -> Record] /\ doc' \in [Account -> Record]
  BY DEF CreateUser, Exists, TypeOK, Label
<1>2. TypeOK'
  BY <1>1 DEF TypeOK
<1>3. Fresh'
  BY <1>1 DEF Fresh
<1>4. Held'
  <2>1. ASSUME NEW q \in Request, pc'[q] = "profile" PROVE q # r /\ who[q] \in Account /\ who[q] # u
    BY <1>1, <2>1 DEF TypeOK, Known, Exists
  <2> QED BY <1>1, <2>1 DEF Held
<1>5. Known'
  BY <1>1 DEF Known, Exists, TypeOK
<1>6. Spent'
  BY <1>1 DEF Spent, Known, Exists
<1>7. QuietAccountSaved'
  <2> SUFFICES ASSUME NEW v \in Account \ refused, v # u,
                      \A q \in Request : who'[q] = v => pc'[q] \notin {"save", "healSave"}
               PROVE  doc[v] = user[v]
    BY <1>1 DEF QuietAccountSaved
  <2>1. \A q \in Request : who[q] = v => pc[q] \notin {"save", "healSave"}
    BY <1>1
  <2> QED BY <2>1 DEF QuietAccountSaved
<1>8. SharedAddressExplained'
  BY <1>1 DEF SharedAddressExplained
<1> QED BY <1>2, <1>3, <1>4, <1>5, <1>6, <1>7, <1>8

\* A user is found.
LEMMA Finds ==
    ASSUME AccountsInv, NEW r \in Request, NEW u \in Account, Exists(u), pc[r] = "new",
           NEW label \in Label \ {"save", "healSave", "new"}, Goto(r, label),
           who' = [who EXCEPT ![r] = u], UNCHANGED <<records, hist>>,
           token' \in [Request -> Token \cup {None}],
           \A q \in Request : q # r => token'[q] = token[q],
           label = "profile" => Authenticated(u, token'[r])
    PROVE  AccountsInv'
<1> USE NoneAssumption DEF AccountsInv, Goto, records, hist
<1>1. /\ who'[r] = u /\ pc'[r] = label
      /\ \A q \in Request : q # r => who'[q] = who[q] /\ pc'[q] = pc[q]
      /\ who' \in [Request -> Account \cup {None}] /\ pc' \in [Request -> Label]
  BY DEF TypeOK
<1>2. TypeOK'
  BY <1>1 DEF TypeOK
<1>3. Fresh' /\ Held'
  BY <1>1 DEF Fresh, Held, Spent, Authenticated
<1>4. Known' /\ Spent' /\ SharedAddressExplained'
  BY <1>1 DEF Known, Exists, Spent, SharedAddressExplained
<1>5. QuietAccountSaved'
  <2> SUFFICES ASSUME NEW v \in Account \ refused,
                      \A q \in Request : who'[q] = v => pc'[q] \notin {"save", "healSave"}
               PROVE  doc[v] = user[v]
    BY DEF QuietAccountSaved
  <2>1. \A q \in Request : who[q] = v => pc[q] \notin {"save", "healSave"}
    BY <1>1
  <2> QED BY <2>1 DEF QuietAccountSaved
<1> QED BY <1>2, <1>3, <1>4, <1>5

\* A user is saved.
LEMMA Saves ==
    ASSUME AccountsInv, NEW r \in Request, pc[r] \in {"save", "healSave"},
           UpdateUser(r), NEW label \in {"done", "session"}, Goto(r, label),
           pc[r] = "save" => label = "done"
    PROVE  AccountsInv'
<1> USE DEF AccountsInv, Goto, UpdateUser, local
<1>1. /\ who[r] \in Account /\ pc'[r] = label
      /\ \A q \in Request : q # r => pc'[q] = pc[q]
      /\ pc' \in [Request -> Label]
      /\ doc' \in [Account -> Record] /\ doc'[who[r]] = user[who[r]]
      /\ \A v \in Account : v # who[r] => doc'[v] = doc[v]
  BY DEF TypeOK, Label
<1>2. TypeOK'
  BY <1>1 DEF TypeOK
<1>3. Fresh' /\ Held'
  BY <1>1 DEF Fresh, Held
<1>4. Known' /\ Spent' /\ SharedAddressExplained'
  BY <1>1 DEF Known, Exists, Spent, SharedAddressExplained
<1>5. QuietAccountSaved'
  <2> SUFFICES ASSUME NEW v \in Account \ refused, v # who[r],
                      \A q \in Request : who[q] = v => pc'[q] \notin {"save", "healSave"}
               PROVE  doc[v] = user[v]
    BY <1>1 DEF QuietAccountSaved
  <2>1. \A q \in Request : who[q] = v => pc[q] \notin {"save", "healSave"}
    BY <1>1
  <2> QED BY <2>1 DEF QuietAccountSaved
<1> QED BY <1>2, <1>3, <1>4, <1>5

\* A user is changed in memory: it is saved next, or the update was refused; a
\* session is added, or some are lost, and who holds one of these is noted.
LEMMA Changes ==
    ASSUME AccountsInv, NEW r \in Request, NEW record \in Record, Become(r, record),
           pc[r] \in {"heal", "session", "activate", "reset", "challenge", "profile"},
           NEW label \in {"save", "healSave", "done"}, Goto(r, label),
           record.status # "absent",
           label = "done" => who[r] \in refused',
           refused \subseteq refused', refused' \subseteq Account,
           moved \subseteq moved', moved' \subseteq Account,
           record.email # user[who[r]].email => who[r] \in moved',
           record.sessions \subseteq user[who[r]].sessions \cup {r} \cup
                                     (IF pc[r] = "profile" THEN {token[r]} ELSE {}),
           label = "healSave" => record.sessions = user[who[r]].sessions,
           \/ Revoked(r)
           \/ /\ UNCHANGED <<gone, carried, emptied>>
              /\ user[who[r]].sessions \subseteq record.sessions
    PROVE  AccountsInv'
<1> USE DEF AccountsInv, Goto, Become, local
<1> DEFINE u == who[r]
<1>1. /\ u \in Account /\ pc'[r] = label /\ user'[u] = record
      /\ \A q \in Request : q # r => pc'[q] = pc[q]
      /\ \A v \in Account : v # u => user'[v] = user[v]
      /\ pc' \in [Request -> Label] /\ user' \in [Account -> Record]
  BY DEF TypeOK, Label
<1> DEFINE lost == user[u].sessions \ record.sessions
           held == {token[q] : q \in {p \in Request : who[p] = u /\ pc[p] = "profile"}}
<1>2. /\ \A v \in Account : v # u => gone'[v] = gone[v] /\ carried'[v] = carried[v]
      /\ gone'[u] = gone[u] \cup lost
      /\ carried'[u] = carried[u] \cup (lost \cap held)
      /\ emptied \subseteq emptied' /\ emptied' \subseteq Account
      /\ lost # {} /\ record.sessions = {} => u \in emptied'
      /\ gone' \in [Account -> SUBSET Token] /\ carried' \in [Account -> SUBSET Token]
  <2>1. CASE Revoked(r)
    BY <1>1, <2>1 DEF Revoked, TypeOK, Record
  <2>2. CASE UNCHANGED <<gone, carried, emptied>> /\ user[u].sessions \subseteq record.sessions
    <3>1. lost = {}
      BY <2>2
    <3> QED BY <2>2, <3>1 DEF TypeOK
  <2> QED BY <2>1, <2>2
<1> HIDE DEF lost, held
<1>3. TypeOK'
  BY <1>1, <1>2 DEF TypeOK
<1>4. pc[r] = "profile" =>
          \/ token[r] \in user[u].sessions \cup carried[u]
          \/ token[r] = u /\ (u \in emptied \/ u \notin gone[u])
  BY DEF Held
<1>5. Fresh'
  <2> SUFFICES ASSUME NEW q \in Request, pc'[q] \notin {"save", "done", "file"}, NEW v \in Account
               PROVE  q \notin user'[v].sessions /\ q \notin gone'[v]
    BY DEF Fresh
  <2>1. q \notin user[v].sessions /\ q \notin gone[v]
    BY <1>1 DEF Fresh
  <2>2. CASE v # u
    BY <1>1, <1>2, <2>1, <2>2
  <2>3. CASE v = u
    <3>1. q \notin gone'[v]
      BY <1>2, <2>1, <2>3 DEF lost
    <3>2. q = r => q \notin record.sessions
      BY <1>1, <2>1, <2>3
    <3>3. q # r => q \notin record.sessions
      BY <1>4, <2>1, <2>3, TokenAssumption DEF Held
    <3> QED BY <1>1, <2>3, <3>1, <3>2, <3>3
  <2> QED BY <2>2, <2>3
<1>6. Held'
  <2>1. \A v \in Account : carried'[v] \subseteq gone'[v]
    BY <1>2 DEF Held
  <2>2. ASSUME NEW q \in Request, pc'[q] = "profile"
        PROVE  \/ token[q] \in user'[who[q]].sessions \cup carried'[who[q]]
               \/ /\ token[q] = who[q]
                  /\ who[q] \in emptied' \/ who[q] \notin gone'[who[q]]
    <3>1. pc[q] = "profile" /\ who[q] \in Account
      BY <1>1, <2>2 DEF TypeOK
    <3>2. \/ token[q] \in user[who[q]].sessions \cup carried[who[q]]
          \/ token[q] = who[q] /\ (who[q] \in emptied \/ who[q] \notin gone[who[q]])
      BY <3>1 DEF Held
    <3>3. CASE who[q] # u
      BY <1>1, <1>2, <3>1, <3>2, <3>3
    <3>4. CASE who[q] = u
      <4>1. token[q] \in held
        BY <3>1, <3>4 DEF held
      <4> QED BY <1>1, <1>2, <3>2, <3>4, <4>1 DEF lost
    <3> QED BY <3>3, <3>4
  <2> QED BY <2>1, <2>2 DEF Held
<1>7. Known'
  <2>1. \A v \in Account : v = u \/ (user'[v] = user[v] /\ gone'[v] = gone[v])
    BY <1>1, <1>2
  <2>2. user'[u].status # "absent"
    BY <1>1
  <2>3. \A q \in Request : who[q] # None => user'[who[q]].status # "absent"
    BY <2>1, <2>2 DEF Known, Exists, TypeOK
  <2>4. \A v \in Account : user'[v].status = "absent" => gone'[v] = {}
    BY <2>1, <2>2 DEF Known, Exists
  <2> QED BY <2>3, <2>4 DEF Known, Exists
<1>8. Spent'
  <2>1. ASSUME NEW v \in Account, v # u
        PROVE  /\ user'[v].sessions = {} /\ gone'[v] # {} => v \in emptied'
               /\ \A t \in user'[v].sessions \cap gone'[v] :
                     t \in carried'[v] \/ (t = v /\ v \in emptied')
    BY <1>1, <1>2, <2>1 DEF Spent
  <2>2. record.sessions = {} /\ gone'[u] # {} => u \in emptied'
    BY <1>1, <1>2 DEF Spent, lost
  <2>3. ASSUME NEW t \in record.sessions \cap gone'[u]
        PROVE  t \in carried'[u] \/ (t = u /\ u \in emptied')
    <3>1. t \in gone[u]
      BY <1>2, <2>3 DEF lost
    <3>2. t # r
      BY <1>1, <3>1 DEF Fresh
    <3>3. \/ t \in user[u].sessions
          \/ t \in carried[u] \/ (t = u /\ u \in emptied)
      BY <1>4, <2>3, <3>1, <3>2
    <3>4. t \in carried[u] \/ (t = u /\ u \in emptied)
      BY <1>1, <3>1, <3>3 DEF Spent
    <3> QED BY <1>2, <3>4
  <2> QED BY <1>1, <2>1, <2>2, <2>3 DEF Spent
<1>9. QuietAccountSaved'
  <2> SUFFICES ASSUME NEW v \in Account \ refused',
                      \A q \in Request : who[q] = v => pc'[q] \notin {"save", "healSave"}
               PROVE  doc[v] = user'[v]
    BY DEF QuietAccountSaved
  <2>1. v # u
    BY <1>1
  <2>2. \A q \in Request : who[q] = v => pc[q] \notin {"save", "healSave"}
    BY <1>1, <2>1
  <2> QED BY <1>1, <2>1, <2>2 DEF QuietAccountSaved
<1>10. SharedAddressExplained'
  BY <1>1 DEF SharedAddressExplained
<1> QED BY <1>3, <1>5, <1>6, <1>7, <1>8, <1>9, <1>10

\* Every step of auth.go is one of these.
LEMMA AccountsNext == AccountsInv /\ [Next]_vars => AccountsInv'
<1> SUFFICES ASSUME AccountsInv, [Next]_vars PROVE AccountsInv'
  OBVIOUS
<1> USE NoneAssumption
<1>t. TypeOK
  BY DEF AccountsInv
<1>1. ASSUME NEW r \in Request, Free(r), ~Heal(r) PROVE AccountsInv'
  <2>1. /\ pc[r] \in {"password", "phrase", "code", "passkey", "status"}
        /\ UNCHANGED <<records, local, hist>>
        /\ \E label \in {"status", "reset", "activate", "session", "challenge", "heal", "done"} :
              Goto(r, label)
    BY <1>1 DEF Free, CheckPassword, CheckPhrase, CheckCode, CheckPasskey, CheckStatus, Compare
  <2>2. who[r] \in Account
    BY <1>t, <2>1 DEF TypeOK
  <2> QED BY <2>1, <2>2, GoesOn DEF Label
<1>2. ASSUME NEW r \in Request, Conflict(r) \/ Return(r) PROVE AccountsInv'
  BY <1>2, GoesOn DEF Conflict, Return, Label
<1>3. ASSUME NEW r \in Request, Register(r) PROVE AccountsInv'
  <2>1. PICK u \in Account, e \in Email \cup {None}, admin \in BOOLEAN :
            LET active == admin \/ e = None
            IN  /\ CreateUser(r, u, [status   |-> IF active THEN "active" ELSE "pending",
                                     email    |-> e,
                                     admin    |-> admin,
                                     code     |-> ~active,
                                     sessions |-> IF active THEN {r} ELSE {},
                                     changes  |-> {}])
                /\ Goto(r, "done") \/ (~admin /\ Goto(r, "file"))
    BY <1>3 DEF Register
  <2> DEFINE active == admin \/ e = None
             record == [status   |-> IF active THEN "active" ELSE "pending",
                        email    |-> e,
                        admin    |-> admin,
                        code     |-> ~active,
                        sessions |-> IF active THEN {r} ELSE {},
                        changes  |-> {}]
  <2>2. /\ record \in Record /\ record.status # "absent" /\ record.sessions \subseteq {r}
        /\ CreateUser(r, u, record)
    BY <2>1 DEF Record, Token
  <2>3. \E label \in {"done", "file"} : Goto(r, label)
    BY <2>1
  <2>4. pc[r] = "new" /\ UNCHANGED <<token, hist>>
    BY <1>3 DEF Register
  <2> HIDE DEF record
  <2> QED BY <2>2, <2>3, <2>4, Creates
<1>4. ASSUME NEW r \in Request, GoogleSignUp(r) PROVE AccountsInv'
  <2>1. PICK u \in Account, e \in Email :
            CreateUser(r, u, [Absent EXCEPT !.status = "active", !.email = e])
    BY <1>4 DEF GoogleSignUp
  <2> DEFINE record == [Absent EXCEPT !.status = "active", !.email = e]
  <2>2. record \in Record /\ record.status # "absent" /\ record.sessions = {}
    BY DEF Record, Absent
  <2>3. pc[r] = "new" /\ Goto(r, "session") /\ UNCHANGED <<token, hist>>
    BY <1>4 DEF GoogleSignUp
  <2> HIDE DEF record
  <2> QED BY <2>1, <2>2, <2>3, Creates DEF record
<1>5. ASSUME NEW r \in Request, Find(r) PROVE AccountsInv'
  <2>1. PICK u \in Account :
            /\ Exists(u) /\ who' = [who EXCEPT ![r] = u]
            /\ \E label \in {"password", "code", "phrase", "passkey", "session"} : Goto(r, label)
    BY <1>5 DEF Find
  <2>2. pc[r] = "new" /\ UNCHANGED <<records, token, hist>>
    BY <1>5 DEF Find
  <2>3. token' \in [Request -> Token \cup {None}] /\ \A q \in Request : token'[q] = token[q]
    BY <1>t, <2>2 DEF TypeOK
  <2> QED BY <2>1, <2>2, <2>3, Finds DEF Label
<1>6. ASSUME NEW r \in Request, Authenticate(r) PROVE AccountsInv'
  <2>1. PICK u \in Account, t \in Token :
            /\ Authenticated(u, t)
            /\ who' = [who EXCEPT ![r] = u]
            /\ token' = [token EXCEPT ![r] = t]
    BY <1>6 DEF Authenticate
  <2>2. PICK label \in {"profile", "challenge", "away"} : Goto(r, label)
    BY <1>6 DEF Authenticate
  <2>3. pc[r] = "new" /\ UNCHANGED <<records, hist>>
    BY <1>6 DEF Authenticate
  <2>4. /\ token' \in [Request -> Token \cup {None}] /\ token'[r] = t
        /\ \A q \in Request : q # r => token'[q] = token[q]
    BY <1>t, <2>1 DEF TypeOK
  <2>5. Exists(u) /\ Authenticated(u, token'[r])
    BY <2>1, <2>4 DEF Authenticated
  <2> QED BY <2>1, <2>2, <2>3, <2>4, <2>5, Finds DEF Label
<1>7. ASSUME NEW r \in Request, HealSave(r) \/ Save(r) PROVE AccountsInv'
  BY <1>7, Saves DEF HealSave, Save
<1>8. ASSUME NEW r \in Request,
             Heal(r) \/ AddSession(r) \/ Activate(r) \/ Reset(r) \/ Challenge(r)
                     \/ RefuseProfile(r) \/ UpdateProfile(r)
      PROVE  AccountsInv'
  <2>1. /\ pc[r] \in {"heal", "session", "activate", "reset", "challenge", "profile"}
        /\ who[r] \in Account /\ user[who[r]] \in Record /\ r \in Token
        /\ user[who[r]].status # "absent"
        /\ moved \subseteq Account /\ refused \subseteq Account
    <3>1. pc[r] \in {"heal", "session", "activate", "reset", "challenge", "profile"}
      BY <1>8 DEF Heal, AddSession, Activate, Reset, Challenge, RefuseProfile, UpdateProfile
    <3>2. who[r] \in Account
      BY <1>t, <3>1 DEF TypeOK
    <3>3. user[who[r]].status # "absent"
      BY <3>2 DEF AccountsInv, Known, Exists
    <3> QED BY <1>t, <3>1, <3>2, <3>3 DEF TypeOK, Token
  <2> DEFINE old == user[who[r]]
  <2>2. CASE Heal(r)
    <3> DEFINE record == [old EXCEPT !.status = "active", !.code = FALSE]
    <3>1. /\ record \in Record /\ record.status # "absent"
          /\ record.email = old.email /\ record.sessions = old.sessions
      BY <2>1 DEF Record
    <3>2. Become(r, record) /\ Goto(r, "healSave") /\ UNCHANGED hist
      BY <2>2 DEF Heal
    <3> HIDE DEF record
    <3> QED BY <2>1, <3>1, <3>2, Changes DEF hist
  <2>3. CASE AddSession(r)
    <3> DEFINE record == [old EXCEPT !.sessions = @ \cup {r}]
    <3>1. /\ record \in Record /\ record.status # "absent"
          /\ record.email = old.email /\ record.sessions = old.sessions \cup {r}
      BY <2>1 DEF Record
    <3>2. Become(r, record) /\ Goto(r, "save") /\ UNCHANGED hist
      BY <2>3 DEF AddSession
    <3> HIDE DEF record
    <3> QED BY <2>1, <3>1, <3>2, Changes DEF hist
  <2>4. CASE Activate(r)
    <3> DEFINE record == [old EXCEPT !.status = "active", !.code = FALSE, !.sessions = @ \cup {r}]
    <3>1. /\ record \in Record /\ record.status # "absent"
          /\ record.email = old.email /\ record.sessions = old.sessions \cup {r}
      BY <2>1 DEF Record
    <3>2. Become(r, record) /\ Goto(r, "save") /\ UNCHANGED hist
      BY <2>4 DEF Activate
    <3> HIDE DEF record
    <3> QED BY <2>1, <3>1, <3>2, Changes DEF hist
  <2>5. CASE Reset(r)
    <3> DEFINE record == [old EXCEPT !.sessions = {}, !.changes = @ \cup {r}]
    <3>1. /\ record \in Record /\ record.status # "absent"
          /\ record.email = old.email /\ record.sessions = {}
      BY <2>1 DEF Record
    <3>2. Become(r, record) /\ Goto(r, "save") /\ Revoked(r) /\ UNCHANGED <<refused, moved>>
      BY <2>5 DEF Reset
    <3> HIDE DEF record
    <3> QED BY <2>1, <3>1, <3>2, Changes
  <2>6. CASE Challenge(r)
    <3> DEFINE record == [old EXCEPT !.changes = @ \cup {r}]
    <3>1. /\ record \in Record /\ record.status # "absent"
          /\ record.email = old.email /\ record.sessions = old.sessions
      BY <2>1 DEF Record
    <3>2. Become(r, record) /\ Goto(r, "save") /\ UNCHANGED hist
      BY <2>6 DEF Challenge
    <3> HIDE DEF record
    <3> QED BY <2>1, <3>1, <3>2, Changes DEF hist
  <2>7. CASE RefuseProfile(r)
    <3>1. PICK e \in Email \cup {old.email} : Become(r, Edited(r, e))
      BY <2>7 DEF RefuseProfile
    <3> DEFINE record == Edited(r, e)
    <3>2. /\ record \in Record /\ record.status # "absent"
          /\ record.sessions = old.sessions
      BY <2>1 DEF Record, Edited
    <3>3. /\ Goto(r, "done") /\ Moves(r) /\ refused' = refused \cup {who[r]}
          /\ UNCHANGED <<gone, carried, emptied>>
      BY <2>7 DEF RefuseProfile
    <3>4. user'[who[r]] = record
      BY <1>t, <2>1, <3>1 DEF Become, TypeOK
    <3>5. /\ moved \subseteq moved' /\ moved' \subseteq Account
          /\ record.email # old.email => who[r] \in moved'
      BY <2>1, <3>3, <3>4 DEF Moves
    <3> HIDE DEF record
    <3>6. Become(r, record)
      BY <3>1 DEF record
    <3> QED BY <2>1, <3>2, <3>3, <3>5, <3>6, Changes
  <2>8. CASE UpdateProfile(r)
    <3>0. pc[r] = "profile"
      BY <2>8 DEF UpdateProfile
    <3>1. PICK e \in Email \cup {old.email}, kept \in {old.sessions, {token[r]}},
               ended \in {{}} \cup {{t} : t \in Token} :
              Become(r, [Edited(r, e) EXCEPT !.sessions = kept \ ended])
      BY <2>8 DEF UpdateProfile
    <3> DEFINE record == [Edited(r, e) EXCEPT !.sessions = kept \ ended]
    <3>2. token[r] \in Token
      BY <3>0, <1>t, <2>1 DEF AccountsInv, Held, TypeOK, Record, Token
    <3>3. /\ record \in Record /\ record.status # "absent"
          /\ record.sessions \subseteq old.sessions \cup {token[r]}
      BY <2>1, <3>2 DEF Record, Edited
    <3>4. /\ Goto(r, "save") /\ Moves(r) /\ Revoked(r) /\ UNCHANGED refused
      BY <2>8 DEF UpdateProfile
    <3>5. user'[who[r]] = record
      BY <1>t, <2>1, <3>1 DEF Become, TypeOK
    <3>6. /\ moved \subseteq moved' /\ moved' \subseteq Account
          /\ record.email # old.email => who[r] \in moved'
      BY <2>1, <3>4, <3>5 DEF Moves
    <3> HIDE DEF record
    <3>7. Become(r, record)
      BY <3>1 DEF record
    <3> QED BY <2>1, <3>0, <3>3, <3>4, <3>6, <3>7, Changes
  <2> QED BY <1>8, <2>2, <2>3, <2>4, <2>5, <2>6, <2>7, <2>8
<1>9. CASE UNCHANGED vars
  BY <1>9 DEF vars, records, local, hist, AccountsInv, TypeOK, Fresh, Held, Known, Exists,
              Spent, QuietAccountSaved, SharedAddressExplained
<1> QED
  BY <1>1, <1>2, <1>3, <1>4, <1>5, <1>6, <1>7, <1>8, <1>9 DEF Next, Free, Locked

\* A request that has not begun is about nobody, and so is one that came with no
\* session.
Untouched ==
    \A r \in Request : /\ pc[r] = "new" => token[r] = None /\ who[r] = None
                       /\ token[r] # None => who[r] # None

Owned == ActsForOwner /\ Untouched

\* Sessions stay with their owners when a step changes nobody's user and gives a
\* user only sessions it has, or of its own requests, or that a request of its
\* own came with.
LEMMA OwnersStay ==
    ASSUME TypeOK, Owned, UNCHANGED <<who, token>>,
           \A q \in Request : pc'[q] = "new" => pc[q] = "new",
           \A u \in Account : \A t \in user'[u].sessions :
               \/ t \in user[u].sessions
               \/ t \in Request /\ who[t] = u
               \/ \E q \in Request : who[q] = u /\ token[q] = t /\ t # None
    PROVE  Owned'
<1> USE DEF Owned, ActsForOwner, Untouched, Owner
<1>1. ASSUME NEW u \in Account, NEW t \in user'[u].sessions PROVE Owner(t) = u
  BY <1>1
<1> QED BY <1>1

\* ... and when a request, whose session nobody has yet, turns to a user, with a
\* session of that user or none.
LEMMA OwnersFound ==
    ASSUME TypeOK, Fresh, Owned, NEW r \in Request, NEW u \in Account, pc[r] = "new",
           who' = [who EXCEPT ![r] = u], pc'[r] # "new",
           \A q \in Request : pc'[q] = "new" => pc[q] = "new",
           \A q \in Request : q # r => token'[q] = token[q],
           token'[r] # None => token'[r] \in user[u].sessions \/ token'[r] = u,
           \A v \in Account : \A t \in user'[v].sessions :
               t \in user[v].sessions \/ (t = r /\ v = u)
    PROVE  Owned'
<1> USE DEF Owned
<1>1. ASSUME NEW v \in Account, NEW t \in user[v].sessions PROVE Owner(t)' = v
  <2>1. t # r /\ Owner(t) = v
    BY <1>1 DEF Fresh, ActsForOwner
  <2> QED BY <2>1 DEF Owner, TypeOK
<1>2. Owner(r)' = u
  BY DEF Owner, TypeOK
<1>3. \A v \in Account : \A t \in user'[v].sessions : Owner(t)' = v
  BY <1>1, <1>2
<1>4. ASSUME NEW q \in Request, token'[q] # None PROVE Owner(token[q])' = who'[q]
  <2>1. CASE q = r
    <3>1. who'[q] = u
      BY <2>1 DEF TypeOK
    <3>2. CASE token'[r] \in user[u].sessions
      BY <1>1, <2>1, <3>1, <3>2 DEF Owner
    <3>3. CASE token'[r] = u
      BY <2>1, <3>1, <3>3, TokenAssumption DEF Owner
    <3> QED BY <1>4, <2>1, <3>2, <3>3
  <2>2. CASE q # r
    <3>1. token'[q] = token[q] /\ who'[q] = who[q] /\ Owner(token[q]) = who[q]
      BY <1>4, <2>2 DEF TypeOK, ActsForOwner
    <3>2. token[q] # r
      BY <1>4, <2>2, <3>1 DEF Owner, Untouched
    <3> QED BY <3>1, <3>2 DEF Owner, TypeOK
  <2> QED BY <2>1, <2>2
<1>5. ActsForOwner'
  BY <1>3, <1>4 DEF ActsForOwner
<1>6. Untouched'
  BY NoneAssumption DEF Untouched, TypeOK
<1> QED BY <1>5, <1>6

\* Every step of auth.go keeps the sessions with their owners.
LEMMA OwnedNext == AccountsInv /\ Owned /\ [Next]_vars => Owned'
<1> SUFFICES ASSUME AccountsInv, Owned, [Next]_vars PROVE Owned'
  OBVIOUS
<1> USE NoneAssumption
<1>t. TypeOK /\ Fresh /\ Held
  BY DEF AccountsInv
<1>1. ASSUME NEW r \in Request, (Free(r) /\ ~Heal(r)) \/ Conflict(r) \/ Return(r) PROVE Owned'
  <2>1. /\ UNCHANGED <<records, local>>
        /\ \E label \in Label \ {"new"} : Goto(r, label)
    BY <1>1 DEF Free, CheckPassword, CheckPhrase, CheckCode, CheckPasskey, CheckStatus, Compare,
       Conflict, Return, Label
  <2>2. \A q \in Request : pc'[q] = "new" => pc[q] = "new"
    BY <1>t, <2>1 DEF Goto, TypeOK
  <2> QED BY <1>t, <2>1, <2>2, OwnersStay DEF records, local
<1>2. ASSUME NEW r \in Request, NEW u \in Account, NEW record, CreateUser(r, u, record),
             pc[r] = "new", \E label \in {"done", "file", "session"} : Goto(r, label),
             record.sessions \subseteq {r}, UNCHANGED token
      PROVE  Owned'
  <2>1. /\ who' = [who EXCEPT ![r] = u] /\ pc'[r] # "new"
        /\ \A q \in Request : pc'[q] = "new" => pc[q] = "new"
        /\ \A q \in Request : q # r => token'[q] = token[q]
    BY <1>t, <1>2 DEF CreateUser, Goto, TypeOK
  <2>2. \A v \in Account : \A t \in user'[v].sessions :
            t \in user[v].sessions \/ (t = r /\ v = u)
    BY <1>t, <1>2 DEF CreateUser, TypeOK
  <2>3. token'[r] = None
    BY <1>2 DEF Owned, Untouched
  <2> QED BY <1>t, <1>2, <2>1, <2>2, <2>3, OwnersFound
<1>3. ASSUME NEW r \in Request, Register(r) PROVE Owned'
  <2>1. PICK u \in Account, e \in Email \cup {None}, admin \in BOOLEAN :
            LET active == admin \/ e = None
            IN  /\ CreateUser(r, u, [status   |-> IF active THEN "active" ELSE "pending",
                                     email    |-> e,
                                     admin    |-> admin,
                                     code     |-> ~active,
                                     sessions |-> IF active THEN {r} ELSE {},
                                     changes  |-> {}])
                /\ Goto(r, "done") \/ (~admin /\ Goto(r, "file"))
    BY <1>3 DEF Register
  <2> QED BY <1>2, <1>3, <2>1 DEF Register
<1>4. ASSUME NEW r \in Request, GoogleSignUp(r) PROVE Owned'
  <2>1. PICK u \in Account, e \in Email :
            CreateUser(r, u, [Absent EXCEPT !.status = "active", !.email = e])
    BY <1>4 DEF GoogleSignUp
  <2> QED BY <1>2, <1>4, <2>1 DEF GoogleSignUp, Absent
<1>5. ASSUME NEW r \in Request, Find(r) \/ Authenticate(r) PROVE Owned'
  <2>1. /\ pc[r] = "new" /\ UNCHANGED records
        /\ \E label \in Label \ {"new"} : Goto(r, label)
    BY <1>5 DEF Find, Authenticate, Label
  <2>2. pc'[r] # "new" /\ \A q \in Request : pc'[q] = "new" => pc[q] = "new"
    BY <1>t, <2>1 DEF Goto, TypeOK
  <2>3. PICK u \in Account :
            /\ who' = [who EXCEPT ![r] = u]
            /\ \A q \in Request : q # r => token'[q] = token[q]
            /\ token'[r] # None => token'[r] \in user[u].sessions \/ token'[r] = u
    <3>1. CASE Find(r)
      <4>1. PICK u \in Account : who' = [who EXCEPT ![r] = u]
        BY <3>1 DEF Find
      <4>2. token' = token /\ token[r] = None
        BY <2>1, <3>1 DEF Find, Owned, Untouched
      <4> QED BY <4>1, <4>2
    <3>2. CASE Authenticate(r)
      <4>1. PICK u \in Account, t \in Token :
                /\ t \in user[u].sessions \/ t = u
                /\ who' = [who EXCEPT ![r] = u]
                /\ token' = [token EXCEPT ![r] = t]
        BY <3>2 DEF Authenticate, Authenticated
      <4>2. token'[r] = t /\ \A q \in Request : q # r => token'[q] = token[q]
        BY <1>t, <4>1 DEF TypeOK
      <4> QED BY <4>1, <4>2
    <3> QED BY <1>5, <3>1, <3>2
  <2> QED BY <1>t, <2>1, <2>2, <2>3, OwnersFound DEF records
<1>6. ASSUME NEW r \in Request, HealSave(r) \/ Save(r) PROVE Owned'
  <2>1. /\ UNCHANGED <<user, who, token>>
        /\ \A q \in Request : pc'[q] = "new" => pc[q] = "new"
    BY <1>t, <1>6 DEF HealSave, Save, UpdateUser, Goto, local, TypeOK
  <2> QED BY <1>t, <2>1, OwnersStay
<1>7. ASSUME NEW r \in Request, NEW record, Become(r, record),
             pc[r] \notin {"new", "done"}, \E label \in Label \ {"new"} : Goto(r, label),
             record.sessions \subseteq user[who[r]].sessions \cup {r} \cup
                                       (IF pc[r] = "profile" THEN {token[r]} ELSE {})
      PROVE  Owned'
  <2>1. who[r] \in Account /\ UNCHANGED <<who, token>>
    BY <1>t, <1>7 DEF Become, local, TypeOK
  <2>2. \A q \in Request : pc'[q] = "new" => pc[q] = "new"
    BY <1>t, <1>7 DEF Goto, TypeOK
  <2>3. pc[r] = "profile" => token[r] # None
    BY <1>t, <2>1 DEF Held, TypeOK, Record, Token
  <2>4. ASSUME NEW v \in Account, NEW t \in user'[v].sessions
        PROVE  \/ t \in user[v].sessions
               \/ t \in Request /\ who[t] = v
               \/ \E q \in Request : who[q] = v /\ token[q] = t /\ t # None
    BY <1>t, <1>7, <2>1, <2>3 DEF Become, TypeOK
  <2> QED BY <1>t, <2>1, <2>2, <2>4, OwnersStay
<1>8. ASSUME NEW r \in Request,
             Heal(r) \/ AddSession(r) \/ Activate(r) \/ Reset(r) \/ Challenge(r)
      PROVE  Owned'
  <2>1. who[r] \in Account /\ user[who[r]] \in Record
    BY <1>t, <1>8 DEF Heal, AddSession, Activate, Reset, Challenge, TypeOK
  <2> QED
    BY <1>7, <1>8, <2>1 DEF Heal, AddSession, Activate, Reset, Challenge, Label, Record
<1>9. ASSUME NEW r \in Request, RefuseProfile(r) \/ UpdateProfile(r) PROVE Owned'
  <2>1. who[r] \in Account /\ user[who[r]] \in Record /\ pc[r] = "profile"
    BY <1>t, <1>9 DEF RefuseProfile, UpdateProfile, TypeOK
  <2>2. CASE RefuseProfile(r)
    <3>1. PICK e \in Email \cup {user[who[r]].email} : Become(r, Edited(r, e))
      BY <2>2 DEF RefuseProfile
    <3>2. Edited(r, e).sessions = user[who[r]].sessions
      BY <2>1 DEF Edited, Record
    <3> QED BY <1>7, <2>1, <2>2, <3>1, <3>2 DEF RefuseProfile, Label
  <2>3. CASE UpdateProfile(r)
    <3>1. PICK e \in Email \cup {user[who[r]].email},
               kept \in {user[who[r]].sessions, {token[r]}},
               ended \in {{}} \cup {{t} : t \in Token} :
              Become(r, [Edited(r, e) EXCEPT !.sessions = kept \ ended])
      BY <2>3 DEF UpdateProfile
    <3>2. [Edited(r, e) EXCEPT !.sessions = kept \ ended].sessions = kept \ ended
      BY <2>1 DEF Edited, Record
    <3> QED BY <1>7, <2>1, <2>3, <3>1, <3>2 DEF UpdateProfile, Label
  <2> QED BY <1>9, <2>2, <2>3
<1>10. CASE UNCHANGED vars
  BY <1>10 DEF vars, records, local, Owned, ActsForOwner, Untouched, Owner
<1> QED
  BY <1>1, <1>3, <1>4, <1>5, <1>6, <1>8, <1>9, <1>10 DEF Next, Free, Locked


-----------------------------------------------------------------------------
(* Tiers.                                                                  *)

Climbs(r, u) == stage[r] \in T!Climbing /\ landlord[r] = u

\* Whoever is past the lookup has a file before it.
Filed ==
    \A r \in Request :
        /\ stage[r] = "find" => landlord[r] \in Account
        /\ stage[r] \in T!Climbing \cup {"check"} =>
              landlord[r] \in Account /\ file[landlord[r]] # T!NoFile

\* The history has the tiers up to n, each once.
Reached(f, n) ==
    /\ \A l \in T!Level : (\E i \in f.history : i[1] = l) <=> l <= n
    /\ \A i, j \in f.history : i[1] = j[1] => i = j

\* How far an upgrade is that nothing disturbs: nobody else is at the file.
Undisturbed(r) ==
    LET f == file[landlord[r]]
    IN  /\ \A q \in Request : Climbs(q, landlord[r]) => q = r
        /\ stage[r] = "level" =>
              f.level = f.granted /\ Reached(f, f.level) /\ goal[r] = f.level + 1
        /\ stage[r] = "grant" => f.level = goal[r] /\ Reached(f, goal[r] - 1)
        /\ stage[r] = "append" =>
              /\ f.level = goal[r] /\ f.granted = goal[r]
              /\ Reached(f, goal[r] - 1) /\ items[r] = f.history
        /\ stage[r] = "save" => f.level = f.granted /\ Reached(f, f.level)

Climb == \A r \in Request : stage[r] \in T!Climbing /\ landlord[r] \notin disturbed => Undisturbed(r)

TiersInv == T!TypeOK /\ Filed /\ Climb /\ TierExplained

\* A file is in order if its history goes up to its tier.
LEMMA InOrderMeans == \A f : T!InOrder(f) <=> f.level = f.granted /\ Reached(f, f.level)
BY DEF T!InOrder, Reached

\* There is no file at first.
LEMMA TiersInit == T!Init => TiersInv
<1> SUFFICES ASSUME T!Init PROVE TiersInv
  OBVIOUS
<1>1. T!TypeOK /\ Filed /\ Climb
  BY DEF T!Init, T!TypeOK, T!Climbing, Filed, Climb
<1>2. T!InOrder(T!NoFile)
  BY MaxLevelAssumption DEF T!InOrder, T!NoFile, T!Level
<1>3. TierExplained
  BY <1>2 DEF T!Init, TierExplained, T!TierExplained
<1> QED BY <1>1, <1>3 DEF TiersInv

\* What the types say of a file, once there is one.
LEMMA FileTypes ==
    ASSUME T!TypeOK
    PROVE  /\ \A u \in Account : T!HasFile(u) => file[u] \in T!File
           /\ \A f \in T!File : f # T!NoFile /\ f.level \in Nat
           /\ \A f \in T!File : [f EXCEPT !.level = 2, !.granted = 2] \in T!File
           /\ DOMAIN file = Account
<1>1. \A f \in T!File : f # T!NoFile /\ f.level \in Nat
  BY MaxLevelAssumption DEF T!File, T!NoFile, T!Level
<1>2. ASSUME NEW f \in T!File PROVE [f EXCEPT !.level = 2, !.granted = 2] \in T!File
  <2>1. 2 \in T!Level
    BY MaxLevelAssumption DEF T!Level
  <2> QED BY <2>1 DEF T!File
<1> QED BY <1>1, <1>2 DEF T!TypeOK, T!HasFile

\* One more step of an upgrade, from the ladder's check to the end.
LEMMA Raises ==
    ASSUME TiersInv, NEW r \in Request, stage[r] \in T!Climbing \cup {"check"},
           NEW new \in T!File, file' = [file EXCEPT ![landlord[r]] = new],
           NEW next \in T!Climbing \cup {"done"}, stage' = [stage EXCEPT ![r] = next],
           UNCHANGED <<landlord, goal, wedged>>,
           items' \in [Request -> SUBSET T!Item], \A q \in Request \ {r} : items'[q] = items[q],
           goal[r] \in T!Level, disturbed \subseteq disturbed', disturbed' \subseteq Account,
           landlord[r] \notin disturbed' =>
              /\ \A q \in Request : Climbs(q, landlord[r]) => q = r
              /\ next \in {"level", "save", "done"} => new.level = new.granted /\ Reached(new, new.level)
              /\ next = "level" => goal[r] = new.level + 1
              /\ next = "grant" => new.level = goal[r] /\ Reached(new, goal[r] - 1)
              /\ next = "append" =>
                    /\ new.level = goal[r] /\ new.granted = goal[r]
                    /\ Reached(new, goal[r] - 1) /\ items'[r] = new.history
    PROVE  TiersInv'
<1>t. T!TypeOK /\ Filed /\ Climb /\ TierExplained
  BY DEF TiersInv
<1> DEFINE u == landlord[r]
<1>1. /\ u \in Account /\ file'[u] = new /\ stage'[r] = next
      /\ \A v \in Account : v # u => file'[v] = file[v]
      /\ \A q \in Request : q # r => stage'[q] = stage[q]
  BY <1>t, FileTypes DEF Filed, T!TypeOK
<1>2. T!TypeOK'
  <2>1. file' = [v \in Account |-> file'[v]]
    BY <1>t, FileTypes DEF T!TypeOK
  <2>2. \A v \in Account : file'[v] \in T!File \/ file'[v] = T!NoFile
    BY <1>t, <1>1 DEF T!TypeOK
  <2>3. /\ stage' \in [Request -> T!Climbing \cup {"idle", "find", "check", "decided", "done"}]
        /\ \A q \in Request : stage'[q] \in T!Climbing => goal[q] \in T!Level /\ landlord[q] \in Account
    BY <1>t, <1>1 DEF T!TypeOK
  <2> QED BY <1>t, <2>1, <2>2, <2>3 DEF T!TypeOK
<1>3. Filed'
  <2>1. new # T!NoFile
    BY <1>t, FileTypes
  <2>2. next # "find" /\ next # "check"
    BY DEF T!Climbing
  <2> QED BY <1>t, <1>1, <2>1, <2>2 DEF Filed, T!HasFile
<1>4. Climb'
  <2> SUFFICES ASSUME NEW q \in Request, stage'[q] \in T!Climbing, landlord[q] \notin disturbed'
               PROVE  Undisturbed(q)'
    BY DEF Climb
  <2>1. CASE q = r
    BY <1>1, <2>1 DEF Undisturbed, Climbs, T!Climbing
  <2>2. CASE q # r
    <3>1. stage[q] \in T!Climbing /\ landlord[q] \in Account /\ landlord[q] # u
      BY <1>t, <1>1, <2>2 DEF Filed, Climbs
    <3>2. Undisturbed(q)
      BY <1>t, <3>1 DEF Climb
    <3> QED BY <1>1, <2>2, <3>1, <3>2 DEF Undisturbed, Climbs, Reached
  <2> QED BY <2>1, <2>2
<1>5. TierExplained'
  <2> SUFFICES ASSUME NEW v \in Account, v \notin disturbed',
                      \A q \in Request : landlord[q] = v => stage'[q] \notin T!Climbing
               PROVE  T!InOrder(file'[v])
    BY DEF TierExplained, T!TierExplained, T!InOrder
  <2>1. CASE v = u
    <3>1. next = "done"
      BY <1>1, <2>1
    <3> QED BY <1>1, <2>1, <3>1, InOrderMeans
  <2>2. CASE v # u
    BY <1>t, <1>1, <2>2 DEF TierExplained, T!TierExplained
  <2> QED BY <2>1, <2>2
<1> QED BY <1>2, <1>3, <1>4, <1>5 DEF TiersInv

\* Every action of Tiers keeps the invariant.
LEMMA TiersNext == TiersInv /\ [T!Next]_(T!tiers) => TiersInv'
<1> SUFFICES ASSUME TiersInv, [T!Next]_(T!tiers) PROVE TiersInv'
  OBVIOUS
<1>t. T!TypeOK /\ Filed /\ Climb /\ TierExplained
  BY DEF TiersInv
<1> USE NoneAssumption, MaxLevelAssumption DEF T!climbs, T!Goto
<1>1. ASSUME NEW r \in Request, NEW u \in Account, T!OpenFile(r, u) PROVE TiersInv'
  <2> DEFINE f == [level |-> 1, granted |-> 1, history |-> {<<1, r>>}]
  <2>1. /\ stage[r] = "idle" /\ ~T!HasFile(u) /\ stage' = [stage EXCEPT ![r] = "done"]
        /\ file' = [file EXCEPT ![u] = f]
        /\ UNCHANGED <<landlord, goal, items, wedged, disturbed>>
    BY <1>1 DEF T!OpenFile
  <2>2. f \in T!File /\ T!InOrder(f)
    BY DEF T!File, T!Item, T!Level, T!InOrder
  <2> HIDE DEF f
  <2>3. file'[u] = f /\ \A v \in Account : v # u => file'[v] = file[v]
    BY <1>t, <2>1, FileTypes
  <2>4. T!TypeOK'
    BY <1>t, <2>1, <2>2, FileTypes DEF T!TypeOK, T!Climbing
  <2>5. /\ stage'[r] = "done"
        /\ \A q \in Request : q # r => stage'[q] = stage[q]
        /\ \A q \in Request : stage[q] \in T!Climbing \cup {"check"} => landlord[q] # u
    BY <1>t, <2>1 DEF T!TypeOK, Filed, T!HasFile
  <2>6. Filed'
    BY <1>t, <2>1, <2>3, <2>5 DEF Filed, T!HasFile, T!Climbing
  <2>7. Climb'
    <3> SUFFICES ASSUME NEW q \in Request, stage'[q] \in T!Climbing, landlord[q] \notin disturbed
                 PROVE  Undisturbed(q)'
      BY <2>1 DEF Climb
    <3>1. q # r /\ stage[q] \in T!Climbing /\ landlord[q] # u /\ landlord[q] \in Account
      BY <1>t, <2>5 DEF T!Climbing, Filed
    <3>2. Undisturbed(q)
      BY <1>t, <3>1 DEF Climb
    <3> QED BY <2>1, <2>3, <2>5, <3>1, <3>2 DEF Undisturbed, Climbs, Reached, T!Climbing
  <2>8. TierExplained'
    BY <1>t, <2>1, <2>2, <2>3, <2>5 DEF TierExplained, T!TierExplained, T!Climbing
  <2> QED BY <2>4, <2>6, <2>7, <2>8 DEF TiersInv
\* A request that is not at a file goes on, with its goal and its landlord.
<1>2. ASSUME NEW r \in Request, NEW u,
             \/ u \in Account /\ (T!UpgradeTier(r, u) \/ T!VerifyKYC(r, u))
             \/ T!FindFile(r) \/ T!Wedge(r)
             \/ T!CheckLadder(r) /\ goal[r] # file[landlord[r]].level + 1
      PROVE  TiersInv'
  <2>1. /\ stage[r] \in {"idle", "find", "check", "decided"}
        /\ \A q \in Request \ {r} : /\ stage'[q] = stage[q] /\ goal'[q] = goal[q]
                                    /\ landlord'[q] = landlord[q]
        /\ stage'[r] \in {"find", "check", "done", "decided"}
        /\ stage'[r] = "check" => stage[r] = "find" /\ T!HasFile(landlord[r])
        /\ items' = items
        /\ disturbed \subseteq disturbed'
    BY <1>2, <1>t DEF T!UpgradeTier, T!VerifyKYC, T!FindFile, T!Wedge, T!CheckLadder, T!TypeOK
  <2>2. T!TypeOK'
    <3>1. CASE u \in Account /\ T!UpgradeTier(r, u)
      BY <1>t, <3>1 DEF T!TypeOK, T!UpgradeTier, T!Climbing
    <3>2. CASE u \in Account /\ T!VerifyKYC(r, u)
      <4>1. [file[u] EXCEPT !.level = 2, !.granted = 2] \in T!File
        BY <1>t, <3>2, FileTypes DEF T!VerifyKYC
      <4>2. file' = [file EXCEPT ![u] = [file[u] EXCEPT !.level = 2, !.granted = 2]] \/ file' = file
        BY <1>t, <3>2, FileTypes DEF T!VerifyKYC
      <4>3. file' = [v \in Account |-> file'[v]] /\ \A v \in Account : file'[v] \in T!File \/ file'[v] = T!NoFile
        BY <1>t, <4>1, <4>2 DEF T!TypeOK
      <4> QED BY <1>t, <3>2, <4>3 DEF T!TypeOK, T!VerifyKYC, T!Climbing
    <3>3. CASE T!FindFile(r) \/ T!Wedge(r) \/ (T!CheckLadder(r) /\ goal[r] # file[landlord[r]].level + 1)
      BY <1>t, <3>3 DEF T!TypeOK, T!FindFile, T!Wedge, T!CheckLadder, T!Climbing
    <3> QED BY <1>2, <3>1, <3>2, <3>3
  <2>3. ASSUME NEW v \in Account
        PROVE  /\ T!HasFile(v) => T!HasFile(v)'
               /\ file'[v] = file[v] \/ v \in disturbed'
    <3>1. CASE u \in Account /\ T!VerifyKYC(r, u)
      <4>1. [file[u] EXCEPT !.level = 2, !.granted = 2] \in T!File
        BY <1>t, <3>1, FileTypes DEF T!VerifyKYC
      <4>2. \/ /\ file' = [file EXCEPT ![u] = [file[u] EXCEPT !.level = 2, !.granted = 2]]
               /\ u \in disturbed'
            \/ file' = file
        BY <1>t, <3>1, FileTypes DEF T!VerifyKYC
      <4> QED BY <1>t, <4>1, <4>2, FileTypes DEF T!HasFile, T!TypeOK
    <3>2. CASE T!UpgradeTier(r, u) \/ T!FindFile(r) \/ T!Wedge(r) \/ T!CheckLadder(r)
      BY <3>2 DEF T!UpgradeTier, T!FindFile, T!Wedge, T!CheckLadder, T!HasFile
    <3> QED BY <1>2, <3>1, <3>2
  <2>4. Filed'
    <3>0. landlord'[r] \in Account \/ stage'[r] # "find"
      BY <1>2, <1>t, <2>1 DEF T!UpgradeTier, T!VerifyKYC, T!FindFile, T!Wedge, T!CheckLadder, T!TypeOK
    <3> SUFFICES ASSUME NEW q \in Request,
                        stage'[q] \in T!Climbing \cup {"check"} \/ (stage'[q] = "find" /\ q # r)
                 PROVE  /\ landlord'[q] \in Account
                        /\ stage'[q] # "find" => file'[landlord'[q]] # T!NoFile
      BY <3>0 DEF Filed, T!Climbing
    <3>1. CASE q # r
      BY <1>t, <2>1, <2>3, <3>1 DEF Filed, T!HasFile
    <3>2. CASE q = r
      <4>1. stage[r] = "find" /\ T!HasFile(landlord[r])
        BY <2>1, <3>2 DEF T!Climbing
      <4>2. T!FindFile(r)
        BY <1>2, <4>1 DEF T!UpgradeTier, T!VerifyKYC, T!Wedge, T!CheckLadder
      <4>3. landlord' = landlord /\ file' = file
        BY <4>2 DEF T!FindFile
      <4>4. landlord[r] \in Account
        BY <1>t, <4>1 DEF Filed
      <4> QED BY <3>2, <4>1, <4>3, <4>4 DEF T!HasFile
    <3> QED BY <3>1, <3>2
  <2>5. stage[r] \notin T!Climbing /\ stage'[r] \notin T!Climbing
    BY <2>1 DEF T!Climbing
  <2>6. Climb'
    <3> SUFFICES ASSUME NEW q \in Request, stage'[q] \in T!Climbing, landlord'[q] \notin disturbed'
                 PROVE  Undisturbed(q)'
      BY DEF Climb
    <3>1. q # r /\ stage[q] \in T!Climbing /\ landlord'[q] = landlord[q] /\ landlord[q] \in Account
      BY <1>t, <2>1, <2>5 DEF Filed
    <3>2. Undisturbed(q) /\ file'[landlord[q]] = file[landlord[q]]
      BY <1>t, <2>1, <2>3, <3>1 DEF Climb
    <3> QED BY <2>1, <2>5, <3>1, <3>2 DEF Undisturbed, Climbs, Reached
  <2>7. TierExplained'
    <3> SUFFICES ASSUME NEW v \in Account, v \notin disturbed',
                        \A q \in Request : landlord'[q] = v => stage'[q] \notin T!Climbing
                 PROVE  T!InOrder(file'[v])
      BY DEF TierExplained, T!TierExplained, T!InOrder
    <3>1. \A q \in Request : landlord[q] = v => stage[q] \notin T!Climbing
      BY <2>1, <2>5
    <3> QED BY <1>t, <2>1, <2>3, <3>1 DEF TierExplained, T!TierExplained
  <2> QED BY <2>2, <2>4, <2>6, <2>7 DEF TiersInv
<1>3. ASSUME NEW r \in Request, T!CheckLadder(r), goal[r] = file[landlord[r]].level + 1
      PROVE  TiersInv'
  <2> DEFINE u == landlord[r]
  <2>1. /\ stage[r] = "check" /\ stage' = [stage EXCEPT ![r] = "level"]
        /\ disturbed' = IF T!Others(r) = {} THEN disturbed ELSE disturbed \cup {u}
        /\ UNCHANGED <<file, landlord, goal, items, wedged>>
    BY <1>3 DEF T!CheckLadder
  <2>2. u \in Account /\ file[u] \in T!File /\ file[u].level \in Nat /\ goal[r] \in T!Level
    <3>1. u \in Account /\ file[u] \in T!File /\ file[u].level \in Nat
      BY <1>t, <2>1, FileTypes DEF Filed, T!HasFile
    <3>2. goal[r] # 0 /\ goal[r] \in T!Level \cup {0}
      BY <1>3, <1>t, <3>1 DEF T!TypeOK
    <3> QED BY <3>1, <3>2
  <2>3. file' = [file EXCEPT ![u] = file[u]]
    BY <1>t, <2>1 DEF T!TypeOK
  <2>4. /\ items' \in [Request -> SUBSET T!Item] /\ items' = items
        /\ disturbed \subseteq disturbed' /\ disturbed' \subseteq Account
    BY <1>t, <2>1, <2>2 DEF T!TypeOK
  <2>5. ASSUME u \notin disturbed'
        PROVE  /\ \A q \in Request : Climbs(q, u) => q = r
               /\ file[u].level = file[u].granted /\ Reached(file[u], file[u].level)
    <3>1. u \notin disturbed /\ T!Others(r) = {}
      BY <2>1, <2>5
    <3>2. \A q \in Request : Climbs(q, u) => q = r
      BY <3>1 DEF T!Others, Climbs
    <3>3. \A q \in Request : landlord[q] = u => stage[q] \notin T!Climbing
      BY <2>1, <3>2 DEF Climbs, T!Climbing
    <3>4. T!InOrder(file[u])
      BY <1>t, <2>2, <3>1, <3>3 DEF TierExplained, T!TierExplained
    <3> QED BY <3>2, <3>4, InOrderMeans
  <2> QED BY <1>3, <2>1, <2>2, <2>3, <2>4, <2>5, Raises DEF T!Climbing
<1>4. ASSUME NEW r \in Request,
             T!SetLevel(r) \/ T!Grant(r) \/ T!Append(r) \/ T!SaveFile(r)
      PROVE  TiersInv'
  <2> DEFINE u == landlord[r]
             f == file[u]
  <2>1. /\ stage[r] \in T!Climbing /\ u \in Account /\ f \in T!File /\ f.level \in Nat
        /\ goal[r] \in T!Level /\ goal[r] \in Nat /\ r \in Request
    <3>1. stage[r] \in T!Climbing
      BY <1>4 DEF T!SetLevel, T!Grant, T!Append, T!SaveFile, T!Climbing
    <3>2. u \in Account /\ f \in T!File /\ f.level \in Nat
      BY <1>t, <3>1, FileTypes DEF Filed, T!HasFile
    <3> QED BY <1>t, <3>1, <3>2 DEF T!TypeOK, T!Level
  <2>2. u \notin disturbed => Undisturbed(r)
    BY <1>t, <2>1 DEF Climb
  <2>3. disturbed \subseteq Account /\ items \in [Request -> SUBSET T!Item] /\ DOMAIN file = Account
    BY <1>t, FileTypes DEF T!TypeOK
  <2>4. CASE T!SetLevel(r)
    <3> DEFINE new == [f EXCEPT !.level = goal[r]]
    <3>1. /\ new \in T!File /\ new.level = goal[r] /\ new.history = f.history
          /\ new.granted = f.granted
      BY <2>1 DEF T!File
    <3>2. /\ stage[r] = "level" /\ stage' = [stage EXCEPT ![r] = "grant"]
          /\ file' = [file EXCEPT ![u] = new]
          /\ UNCHANGED <<landlord, goal, items, wedged, disturbed>>
      BY <2>1, <2>4 DEF T!SetLevel
    <3> HIDE DEF new
    <3>3. u \notin disturbed => /\ \A q \in Request : Climbs(q, u) => q = r
                                /\ Reached(new, goal[r] - 1)
      BY <2>1, <2>2, <3>1, <3>2 DEF Undisturbed, Reached
    <3> QED BY <2>1, <2>3, <3>1, <3>2, <3>3, Raises DEF T!Climbing
  <2>5. CASE T!Grant(r)
    <3> DEFINE new == [f EXCEPT !.granted = goal[r]]
    <3>1. /\ new \in T!File /\ new.level = f.level /\ new.history = f.history
          /\ new.granted = goal[r]
      BY <2>1 DEF T!File
    <3>2. /\ stage[r] = "grant" /\ stage' = [stage EXCEPT ![r] = "append"]
          /\ file' = [file EXCEPT ![u] = new] /\ items' = [items EXCEPT ![r] = f.history]
          /\ UNCHANGED <<landlord, goal, wedged, disturbed>>
      BY <2>1, <2>5 DEF T!Grant
    <3>3. /\ items' \in [Request -> SUBSET T!Item] /\ items'[r] = f.history
          /\ \A q \in Request \ {r} : items'[q] = items[q]
      BY <2>1, <2>3, <3>2 DEF T!File
    <3> HIDE DEF new
    <3>4. u \notin disturbed => /\ \A q \in Request : Climbs(q, u) => q = r
                                /\ f.level = goal[r] /\ Reached(new, goal[r] - 1)
      BY <2>1, <2>2, <3>1, <3>2 DEF Undisturbed, Reached
    <3> QED BY <2>1, <2>3, <3>1, <3>2, <3>3, <3>4, Raises DEF T!Climbing
  <2>6. CASE T!Append(r)
    <3> DEFINE new == [f EXCEPT !.history = items[r] \cup {<<goal[r], r>>}]
    <3>1. /\ new \in T!File /\ new.level = f.level /\ new.granted = f.granted
          /\ new.history = items[r] \cup {<<goal[r], r>>}
      BY <2>1, <2>3 DEF T!File, T!Item
    <3>2. /\ stage[r] = "append" /\ stage' = [stage EXCEPT ![r] = "save"]
          /\ file' = [file EXCEPT ![u] = new]
          /\ UNCHANGED <<landlord, goal, items, wedged, disturbed>>
      BY <2>1, <2>6 DEF T!Append
    <3> HIDE DEF new
    <3>3. ASSUME u \notin disturbed
          PROVE  /\ \A q \in Request : Climbs(q, u) => q = r
                 /\ new.level = new.granted /\ Reached(new, new.level)
      <4>1. /\ \A q \in Request : Climbs(q, u) => q = r
            /\ f.level = goal[r] /\ f.granted = goal[r] /\ items[r] = f.history
            /\ Reached(f, goal[r] - 1)
        BY <2>2, <3>2, <3>3 DEF Undisturbed
      <4>2. \A i \in f.history : i[1] # goal[r]
        BY <2>1, <4>1 DEF Reached
      <4>3. \A l \in T!Level : l \in Nat /\ (l <= goal[r] <=> l <= goal[r] - 1 \/ l = goal[r])
        BY <2>1 DEF T!Level
      <4>4. new.history = f.history \cup {<<goal[r], r>>} /\ <<goal[r], r>>[1] = goal[r]
        BY <3>1, <4>1
      <4>5. Reached(new, goal[r])
        BY <2>1, <4>1, <4>2, <4>3, <4>4 DEF Reached
      <4> QED BY <3>1, <4>1, <4>5
    <3> QED BY <2>1, <2>3, <3>1, <3>2, <3>3, Raises DEF T!Climbing
  <2>7. CASE T!SaveFile(r)
    <3>1. /\ stage[r] = "save" /\ stage' = [stage EXCEPT ![r] = "done"]
          /\ file' = [file EXCEPT ![u] = f]
          /\ UNCHANGED <<landlord, goal, items, wedged, disturbed>>
      BY <1>t, <2>7 DEF T!SaveFile, T!TypeOK
    <3>2. u \notin disturbed => /\ \A q \in Request : Climbs(q, u) => q = r
                                /\ f.level = f.granted /\ Reached(f, f.level)
      BY <2>2, <3>1 DEF Undisturbed
    <3> HIDE DEF f
    <3> QED BY <2>1, <2>3, <3>1, <3>2, Raises DEF T!Climbing
  <2> QED BY <1>4, <2>4, <2>5, <2>6, <2>7
<1>5. CASE UNCHANGED T!tiers
  <2>1. UNCHANGED <<file, stage, landlord, goal, items, wedged, disturbed>>
    BY <1>5 DEF T!tiers
  <2> QED
    BY <2>1 DEF TiersInv, T!TypeOK, Filed, Climb, Undisturbed, Climbs, TierExplained, T!TierExplained
<1> QED
  BY <1>1, <1>2, <1>3, <1>4, <1>5 DEF T!Next, T!Continue

-----------------------------------------------------------------------------
(* Accounts and tiers together.                                            *)

\* A step of both is a step, or none, of each.
LEMMA StepsOfBoth ==
    ASSUME TypeOK, [AllNext]_allvars
    PROVE  [Next]_vars /\ [T!Next]_(T!tiers)
<1>1. ASSUME NEW r \in Request, AccountStep(r) PROVE Next /\ UNCHANGED T!tiers
  BY <1>1 DEF AccountStep, Next, tiers, T!tiers, T!climbs
<1>2. ASSUME NEW r \in Request, OpenFile(r) PROVE Next /\ T!Next
  <2>1. who[r] \in Account
    BY <1>2 DEF OpenFile, TypeOK
  <2> QED BY <1>2, <2>1 DEF OpenFile, Next, T!Next
<1>3. ASSUME NEW r \in Request, Ask(r) \/ TierStep(r) PROVE UNCHANGED vars /\ T!Next
  <2>1. CASE TierStep(r)
    BY <2>1 DEF TierStep, T!Next
  <2>2. CASE Ask(r)
    <3>1. UNCHANGED vars /\ (T!UpgradeTier(r, who[r]) \/ \E u \in Account : T!VerifyKYC(r, u))
      BY <2>2 DEF Ask
    <3>2. T!UpgradeTier(r, who[r]) => who[r] \in Account
      <4> HAVE T!UpgradeTier(r, who[r])
      <4>1. pc[r] = "away"
        BY <2>2 DEF Ask
      <4> QED BY <4>1 DEF TypeOK
    <3> QED BY <3>1, <3>2 DEF T!Next
  <2> QED BY <1>3, <2>1, <2>2
<1>4. ASSUME NEW r \in Request, Answer(r) PROVE Next /\ UNCHANGED T!tiers
  BY <1>4 DEF Answer, Next, tiers, T!tiers, T!climbs
<1>5. CASE UNCHANGED allvars
  BY <1>5 DEF allvars, tiers, T!tiers, T!climbs
<1> QED
  BY <1>1, <1>2, <1>3, <1>4, <1>5 DEF AllNext

\* The invariant of both.
LEMMA Inductive == AllSpec => [](AccountsInv /\ TiersInv)
<1>1. AllInit => AccountsInv /\ TiersInv
  BY AccountsInit, TiersInit DEF AllInit
<1>2. AccountsInv /\ TiersInv /\ [AllNext]_allvars => (AccountsInv /\ TiersInv)'
  BY StepsOfBoth, AccountsNext, TiersNext DEF AccountsInv
<1> QED BY <1>1, <1>2, PTL DEF AllSpec

\* What the requests do to the accounts, with the tiers and the wedged mutex
\* beside them, is what auth.go does alone.
THEOREM AccountsImplemented == AllSpec => Spec
<1>1. AllInit => Init
  BY DEF AllInit
<1>2. AccountsInv /\ [AllNext]_allvars => [Next]_vars
  BY StepsOfBoth DEF AccountsInv
<1> QED BY <1>1, <1>2, Inductive, PTL DEF AllSpec, Spec

\* ... and what they do to the files is what Tiers says.
THEOREM TiersImplemented == AllSpec => T!Spec
<1>1. AllInit => T!Init
  BY DEF AllInit
<1>2. AccountsInv /\ [AllNext]_allvars => [T!Next]_(T!tiers)
  BY StepsOfBoth DEF AccountsInv
<1> QED BY <1>1, <1>2, Inductive, PTL DEF AllSpec, T!Spec

\* The type invariants of both.
THEOREM TypesCorrect == AllSpec => []AllTypesOK
<1>1. AccountsInv /\ TiersInv => AllTypesOK
  BY DEF AccountsInv, TiersInv, AllTypesOK
<1> QED BY <1>1, Inductive, PTL

\* A revoked session lets nobody in, but for the ones an update had in its hands
\* and the old format of a user who was left without sessions (auth.go 545-649,
\* 657-698, middleware/auth.go 38-44).
THEOREM Revocation == AllSpec => []RevocationHolds
<1>1. AccountsInv => RevocationHolds
  BY DEF AccountsInv, Spent, RevocationHolds, Authenticated
<1> QED BY <1>1, Inductive, PTL

\* What is changed in memory is saved, or going to be, or was refused.
THEOREM QuietSaved == AllSpec => []QuietAccountSaved
<1>1. AccountsInv => QuietAccountSaved
  BY DEF AccountsInv
<1> QED BY <1>1, Inductive, PTL

\* An address is shared only through a profile.
THEOREM SharedAddress == AllSpec => []SharedAddressExplained
<1>1. AccountsInv => SharedAddressExplained
  BY DEF AccountsInv
<1> QED BY <1>1, Inductive, PTL

\* Whoever a session lets in acts for the user who opened it, and nobody has a
\* session of somebody else (auth.go 545-698, middleware/auth.go).
THEOREM SessionsHaveOwners == AllSpec => []ActsForOwner
<1>1. Init => Owned
  <2> SUFFICES ASSUME Init PROVE Owned
    OBVIOUS
  <2>1. \A u \in Account : user[u].sessions = {}
    <3>1. CASE user = [u \in Account |-> Absent]
      BY <3>1 DEF Absent
    <3>2. CASE user # [u \in Account |-> Absent]
      <4>1. PICK a \in Account, e \in Email :
                user = [u \in Account |-> IF u = a THEN Stuck(e) ELSE Absent]
        BY <3>2 DEF Init
      <4>2. Absent.sessions = {} /\ Stuck(e).sessions = {}
        BY DEF Absent, Stuck
      <4> QED BY <4>1, <4>2
    <3> QED BY <3>1, <3>2
  <2>2. \A r \in Request : token[r] = None /\ who[r] = None
    BY DEF Init
  <2> QED BY <2>1, <2>2 DEF Owned, ActsForOwner, Untouched
<1>2. Owned => ActsForOwner
  BY DEF Owned
<1> QED BY <1>1, <1>2, OwnedNext, Inductive, AccountsImplemented, PTL DEF Spec

\* For any number of requests and any highest tier, a file's tier, snapshot and
\* history agree when nothing disturbed it (operations.go 525-588).
THEOREM LadderExplained == AllSpec => []TierExplained
<1>1. TiersInv => TierExplained
  BY DEF TiersInv
<1> QED BY <1>1, Inductive, PTL
=============================================================================
