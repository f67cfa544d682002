----------------------------- MODULE RateLimiter -----------------------------
(***************************************************************************)
(* The token bucket of middleware/middleware.go: one RateLimiter, whose    *)
(* buckets, one per client address, are kept under one mutex.              *)
(*                                                                         *)
(* The code counts tokens in floats and refills rps of them per second.    *)
(* Here a token is Cost units and time runs in steps of 1/(rps*Cost)       *)
(* seconds, each of which refills one unit: any rate is a choice of the    *)
(* step, a finer step is a larger Cost.  Rounding of floats is left out.   *)
(***************************************************************************)
EXTENDS Integers

CONSTANTS
    Ip,        \* client addresses
    Cost,      \* units in one token
    Burst,     \* capacity of a bucket, in units
    MaxTime    \* bound on the clock, for TLC

ASSUME CostAssumption    == Cost \in Nat \ {0}
ASSUME BurstAssumption   == Burst \in Nat /\ Burst >= Cost
ASSUME MaxTimeAssumption == MaxTime \in Nat

VARIABLES
    now,         \* the clock
    ips,         \* addresses that have a bucket; none is ever dropped
    tokens,      \* tokens[ip]: units in the bucket at lastUpdate[ip]
    lastUpdate,  \* lastUpdate[ip]: time of the last request of ip
    since,       \* history: start of the interval that is being measured
    spent,       \* history: spent[ip]: units admitted to ip since then
    full,        \* history: full[ip]: when a request last found ip's bucket full
    drawn        \* history: drawn[ip]: units admitted to ip since then

buckets == <<ips, tokens, lastUpdate>>
hist    == <<full, drawn>>
vars    == <<now, buckets, since, spent, hist>>

TypeOK ==
    /\ now \in Nat
    /\ ips \subseteq Ip
    /\ tokens \in [Ip -> 0..Burst]
    /\ lastUpdate \in [Ip -> Nat]
    /\ since \in Nat
    /\ spent \in [Ip -> Nat]
    /\ full \in [Ip -> Nat]
    /\ drawn \in [Ip -> Nat]

Init ==
    /\ now = 0
    /\ ips = {}
    /\ tokens = [ip \in Ip |-> 0]
    /\ lastUpdate = [ip \in Ip |-> 0]
    /\ since = 0
    /\ spent = [ip \in Ip |-> 0]
    /\ full = [ip \in Ip |-> 0]
    /\ drawn = [ip \in Ip |-> 0]

Smaller(a, b) == IF a < b THEN a ELSE b

-----------------------------------------------------------------------------

\* Mutant: the refill is not capped.
RefilledUncapped(ip) == tokens[ip] + (now - lastUpdate[ip])

\* What a request of ip finds in its bucket.
Refilled(ip) == Smaller(Burst, tokens[ip] + (now - lastUpdate[ip]))

\* History: of a bucket that is full, as a new one is, nothing was drawn
\* before this request, which draws that many units.
Draw(ip, isFull, units) ==
    /\ full' = IF isFull THEN [full EXCEPT ![ip] = now] ELSE full
    /\ drawn' = [drawn EXCEPT ![ip] = IF isFull THEN units ELSE @ + units]

\* A request of an address not seen before makes a bucket and passes.
FirstRequest(ip) ==
    /\ ip \notin ips
    /\ ips' = ips \cup {ip}
    /\ tokens' = [tokens EXCEPT ![ip] = Burst - Cost]
    /\ lastUpdate' = [lastUpdate EXCEPT ![ip] = now]
    /\ spent' = [spent EXCEPT ![ip] = @ + Cost]
    /\ Draw(ip, TRUE, Cost)
    /\ UNCHANGED <<now, since>>

\* Mutant: any token left over is enough.
AdmitOnFraction(ip) ==
    /\ ip \in ips
    /\ Refilled(ip) > 0
    /\ tokens' = [tokens EXCEPT ![ip] = Refilled(ip) - Cost]
    /\ lastUpdate' = [lastUpdate EXCEPT ![ip] = now]
    /\ spent' = [spent EXCEPT ![ip] = @ + Cost]
    /\ Draw(ip, Refilled(ip) = Burst, Cost)
    /\ UNCHANGED <<now, ips, since>>

\* Limit returns false.
Admit(ip) ==
    /\ ip \in ips
    /\ Refilled(ip) >= Cost
    /\ tokens' = [tokens EXCEPT ![ip] = Refilled(ip) - Cost]
    /\ lastUpdate' = [lastUpdate EXCEPT ![ip] = now]
    /\ spent' = [spent EXCEPT ![ip] = @ + Cost]
    /\ Draw(ip, Refilled(ip) = Burst, Cost)
    /\ UNCHANGED <<now, ips, since>>

\* Mutant: the last token is not given away.
RefuseLastToken(ip) ==
    /\ ip \in ips
    /\ Refilled(ip) <= Cost
    /\ tokens' = [tokens EXCEPT ![ip] = Refilled(ip)]
    /\ lastUpdate' = [lastUpdate EXCEPT ![ip] = now]
    /\ Draw(ip, Refilled(ip) = Burst, 0)
    /\ UNCHANGED <<now, ips, since, spent>>

\* Limit returns true; the refill is kept.
Refuse(ip) ==
    /\ ip \in ips
    /\ Refilled(ip) < Cost
    /\ tokens' = [tokens EXCEPT ![ip] = Refilled(ip)]
    /\ lastUpdate' = [lastUpdate EXCEPT ![ip] = now]
    /\ Draw(ip, Refilled(ip) = Burst, 0)
    /\ UNCHANGED <<now, ips, since, spent>>

Tick ==
    /\ now < MaxTime
    /\ now' = now + 1
    /\ UNCHANGED <<buckets, since, spent, hist>>

\* An observer begins to count, at any moment it likes.
Measure ==
    /\ since' = now
    /\ spent' = [ip \in Ip |-> 0]
    /\ UNCHANGED <<now, buckets, hist>>

Next ==
    \/ Tick \/ Measure
    \/ \E ip \in Ip : FirstRequest(ip) \/ Admit(ip) \/ Refuse(ip)

Spec == Init /\ [][Next]_vars

-----------------------------------------------------------------------------
(***************************************************************************)
(* Properties.                                                             *)
(***************************************************************************)

\* In no interval, wherever it begins, does an address get more than its
\* burst and what the interval's length refills.
WindowBound == \A ip \in Ip : spent[ip] <= Burst + (now - since)

\* And it gets all of that: a request is refused only if, admitted, it would
\* have been more than the burst and the refill of the time since the bucket
\* was last full.
RefusalIsEarned ==
    [][\A ip \in Ip :
          Refuse(ip) => drawn[ip] + Cost > Burst + (now - full[ip])]_vars

\* The bucket of an address, its cap and its refills come to one number, the time
\* when the bucket will be full: the limiter is a meter ...
Meter == INSTANCE LeakyBucket WITH
    clear <- [ip \in Ip |-> IF ip \in ips THEN lastUpdate[ip] + Burst - tokens[ip] ELSE 0]
ImplementsLeakyBucket == Meter!Spec

\* ... of which each request gets the verdict the meter would give; a request
\* that is refused leaves no trace in it.
VerdictsAgree == \A ip \in ips : Refilled(ip) >= Cost <=> Meter!Fits(ip)

\* An address is never refused once it has been silent for the time of one
\* token, however often it was refused before.
SilenceIsRewarded ==
    [][\A ip \in Ip : Refuse(ip) => now - lastUpdate[ip] < Cost]_vars
=============================================================================
