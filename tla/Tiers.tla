-------------------------------- MODULE Tiers --------------------------------
(***************************************************************************)
(* The ladder of the landlords' tiers: a verification file per landlord,   *)
(* opened by Register (handlers/auth.go), climbed by UpgradeTier           *)
(* (handlers/operations.go) and decided about by VerifyKYC                 *)
(* (handlers/support.go).                                                  *)
(*                                                                         *)
(* UpgradeTier holds no lock between the lookup of the file and its save,  *)
(* so each statement is an action; an append to the history is a read and  *)
(* a write of the slice.  Actions that take the lock need it not wedged.   *)
(* Who may ask is not said here.                                           *)
(***************************************************************************)
EXTENDS Naturals

CONSTANTS
    Request,   \* the requests
    Account,   \* the landlords
    MaxLevel,  \* the highest tier
    None       \* no landlord

VARIABLES
    file,      \* file[u]: the verification file of u
    stage,     \* stage[r]: where request r is
    landlord,  \* landlord[r]: whose file r is about
    goal,      \* goal[r]: the tier r asks for
    items,     \* items[r]: the history as r read it
    wedged,    \* a goroutine waits for the Store's mutex that it holds
    disturbed  \* history: landlords with overlapping upgrades or an approval

climbs == <<landlord, goal, items>>
tiers  == <<file, stage, climbs, wedged, disturbed>>

Level == 1..MaxLevel
Item == Level \X Request

\* granted: the tier of the snapshot; history: the tiers reached, and by which
\* request.
File == [level : Level, granted : Level, history : SUBSET Item]
NoFile == [level |-> 0, granted |-> 0, history |-> {}]

\* Stages of an upgrade between its check and its end.
Climbing == {"level", "grant", "append", "save"}

TypeOK ==
    /\ file = [u \in Account |-> file[u]]
    /\ \A u \in Account : file[u] \in File \/ file[u] = NoFile
    /\ stage \in [Request -> Climbing \cup {"idle", "find", "check", "decided", "done"}]
    /\ landlord \in [Request -> Account \cup {None}]
    /\ goal \in [Request -> Level \cup {0}]
    /\ items \in [Request -> SUBSET Item]
    /\ wedged \in BOOLEAN
    /\ disturbed \subseteq Account
    /\ \A r \in Request : stage[r] \in Climbing => goal[r] \in Level /\ landlord[r] \in Account

Init ==
    /\ file = [u \in Account |-> NoFile]
    /\ stage = [r \in Request |-> "idle"]
    /\ landlord = [r \in Request |-> None]
    /\ goal = [r \in Request |-> 0]
    /\ items = [r \in Request |-> {}]
    /\ wedged = FALSE
    /\ disturbed = {}

Goto(r, next) == stage' = [stage EXCEPT ![r] = next]
HasFile(u) == file[u] # NoFile

-----------------------------------------------------------------------------

\* Register: a new landlord's file, on the free tier.
OpenFile(r, u) ==
    /\ stage[r] = "idle"
    /\ ~wedged
    /\ ~HasFile(u)
    /\ file' = [file EXCEPT ![u] = [level |-> 1, granted |-> 1, history |-> {<<1, r>>}]]
    /\ Goto(r, "done")
    /\ UNCHANGED <<climbs, wedged, disturbed>>

-----------------------------------------------------------------------------
(* UpgradeTier.                                                            *)

UpgradeTier(r, u) ==
    /\ stage[r] = "idle"
    /\ landlord' = [landlord EXCEPT ![r] = u]
    /\ \E level \in Level : goal' = [goal EXCEPT ![r] = level]
    /\ Goto(r, "find")
    /\ UNCHANGED <<file, items, wedged, disturbed>>

\* Mutant: the error of the lookup is not looked at.
FindFileUnchecked(r) ==
    /\ stage[r] = "find"
    /\ ~wedged
    /\ Goto(r, "check")
    /\ UNCHANGED <<file, climbs, wedged, disturbed>>

\* "Verification file not found", or on with a pointer to it.
FindFile(r) ==
    /\ stage[r] = "find"
    /\ ~wedged
    /\ Goto(r, IF HasFile(landlord[r]) THEN "check" ELSE "done")
    /\ UNCHANGED <<file, climbs, wedged, disturbed>>

Others(r) == {q \in Request \ {r} : landlord[q] = landlord[r] /\ stage[q] \in Climbing}

\* Mutant: any higher tier will do.
CheckLadderUpwards(r) ==
    /\ stage[r] = "check"
    /\ IF goal[r] > file[landlord[r]].level
       THEN /\ Goto(r, "level")
            /\ disturbed' = IF Others(r) = {} THEN disturbed
                                              ELSE disturbed \cup {landlord[r]}
       ELSE Goto(r, "done") /\ UNCHANGED disturbed
    /\ UNCHANGED <<file, climbs, wedged>>

\* "Upgrade must follow sequential tier ladder (1 -> 2 -> 3)".
CheckLadder(r) ==
    /\ stage[r] = "check"
    /\ IF goal[r] = file[landlord[r]].level + 1
       THEN /\ Goto(r, "level")
            /\ disturbed' = IF Others(r) = {} THEN disturbed
                                              ELSE disturbed \cup {landlord[r]}
       ELSE Goto(r, "done") /\ UNCHANGED disturbed
    /\ UNCHANGED <<file, climbs, wedged>>

SetLevel(r) ==
    /\ stage[r] = "level"
    /\ file' = [file EXCEPT ![landlord[r]].level = goal[r]]
    /\ Goto(r, "grant")
    /\ UNCHANGED <<climbs, wedged, disturbed>>

\* The snapshot is granted, and the history read to append to it.
Grant(r) ==
    /\ stage[r] = "grant"
    /\ file' = [file EXCEPT ![landlord[r]].granted = goal[r]]
    /\ items' = [items EXCEPT ![r] = file[landlord[r]].history]
    /\ Goto(r, "append")
    /\ UNCHANGED <<landlord, goal, wedged, disturbed>>

Append(r) ==
    /\ stage[r] = "append"
    /\ file' = [file EXCEPT ![landlord[r]].history = items[r] \cup {<<goal[r], r>>}]
    /\ Goto(r, "save")
    /\ UNCHANGED <<climbs, wedged, disturbed>>

\* CreateLandlordVerification puts the same record into the map again.
SaveFile(r) ==
    /\ stage[r] = "save"
    /\ ~wedged
    /\ Goto(r, "done")
    /\ UNCHANGED <<file, climbs, wedged, disturbed>>

-----------------------------------------------------------------------------
(* VerifyKYC.                                                              *)

\* Support approves a file, which puts it on the second tier wherever it was,
\* or rejects it.
VerifyKYC(r, u) ==
    /\ stage[r] = "idle"
    /\ ~wedged
    /\ HasFile(u)
    /\ \/ /\ file' = [file EXCEPT ![u].level = 2, ![u].granted = 2]
          /\ disturbed' = disturbed \cup {u}
       \/ UNCHANGED <<file, disturbed>>
    /\ Goto(r, "decided")
    /\ UNCHANGED <<climbs, wedged>>

\* The file is saved; then the handler locks the mutex and calls GetUserByID,
\* which waits for it (StoreLock): no section of it is entered any more.
Wedge(r) ==
    /\ stage[r] = "decided"
    /\ ~wedged
    /\ wedged' = TRUE
    /\ UNCHANGED <<file, stage, climbs, disturbed>>

-----------------------------------------------------------------------------

Continue(r) ==
    \/ FindFile(r) \/ CheckLadder(r) \/ SetLevel(r) \/ Grant(r) \/ Append(r) \/ SaveFile(r)
    \/ Wedge(r)

Next ==
    \E r \in Request :
        \/ \E u \in Account : OpenFile(r, u) \/ UpgradeTier(r, u) \/ VerifyKYC(r, u)
        \/ Continue(r)

Spec == Init /\ [][Next]_tiers

-----------------------------------------------------------------------------
(***************************************************************************)
(* Properties.                                                             *)
(***************************************************************************)

\* A file nobody is raising, whose upgrades never overlapped and which support
\* has not approved, is in order: the snapshot is of its tier, and the history
\* has every tier up to it exactly once.
InOrder(f) ==
    /\ f.granted = f.level
    /\ \A l \in Level : (\E i \in f.history : i[1] = l) <=> l <= f.level
    /\ \A i, j \in f.history : i[1] = j[1] => i = j
TierExplained ==
    \A u \in Account \ disturbed :
        (\A r \in Request : landlord[r] = u => stage[r] \notin Climbing) => InOrder(file[u])
=============================================================================
