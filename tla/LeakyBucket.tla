----------------------------- MODULE LeakyBucket -----------------------------
(***************************************************************************)
(* What the limiter of internal/middleware/middleware.go decides, without  *)
(* buckets, refills and caps: whatever is admitted to an address drains at *)
(* one unit per step, and a request fits if there is then no more than     *)
(* Burst left to drain.  All that has to be known of an address is when    *)
(* everything admitted to it has drained.  RateLimiter implements this.    *)
(***************************************************************************)
EXTENDS Integers

CONSTANTS
    Ip,        \* client addresses
    Cost,      \* units in one request
    Burst      \* units that may be left to drain

VARIABLES
    now,       \* the clock
    clear      \* clear[ip]: when what was admitted to ip has drained

meter == <<now, clear>>

Init ==
    /\ now = 0
    /\ clear = [ip \in Ip |-> 0]

\* When a request that ip makes now would have drained.
Drained(ip) == (IF clear[ip] > now THEN clear[ip] ELSE now) + Cost
Fits(ip) == Drained(ip) - now <= Burst

Pass(ip) ==
    /\ Fits(ip)
    /\ clear' = [clear EXCEPT ![ip] = Drained(ip)]
    /\ UNCHANGED now

\* A request that does not fit changes nothing: it costs its address no time.
Tick == now' = now + 1 /\ UNCHANGED clear

Next == Tick \/ \E ip \in Ip : Pass(ip)

Spec == Init /\ [][Next]_meter
=============================================================================
