-------------------------- MODULE RateLimiterProofs --------------------------
(***************************************************************************)
(* Proofs about RateLimiter, for every rate, every burst of at least one   *)
(* token and any number of addresses.                                      *)
(***************************************************************************)
EXTENDS RateLimiter, TLAPS

\* Nothing is dated in the future.
Dated ==
    /\ since <= now
    /\ \A ip \in Ip : lastUpdate[ip] <= now

\* What was spent and what could be spent now came from a full bucket and the
\* refill since the measurement began.  An address without a bucket has spent
\* nothing, and its bucket will be full.
Conservation ==
    \A ip \in Ip :
        IF ip \in ips THEN spent[ip] + Refilled(ip) <= Burst + (now - since)
                      ELSE spent[ip] = 0

IInv == TypeOK /\ Dated /\ Conservation

-----------------------------------------------------------------------------

\* A bucket holds between nothing and Burst, and at least what it was left
\* with.
LEMMA RefilledRange ==
    ASSUME TypeOK, Dated, NEW ip \in Ip
    PROVE  /\ Refilled(ip) \in 0..Burst
           /\ Refilled(ip) <= tokens[ip] + (now - lastUpdate[ip])
           /\ tokens[ip] + (now - lastUpdate[ip]) <= Burst
                => Refilled(ip) = tokens[ip] + (now - lastUpdate[ip])
  <1>1. /\ Burst \in Nat /\ now \in Nat
        /\ tokens[ip] \in 0..Burst
        /\ lastUpdate[ip] \in Nat /\ lastUpdate[ip] <= now
    BY BurstAssumption DEF TypeOK, Dated
  <1> QED
    BY <1>1 DEF Refilled, Smaller

\* The initial state satisfies the inductive invariant.
LEMMA InitIInv == Init => IInv
  BY BurstAssumption DEF Init, IInv, TypeOK, Dated, Conservation

\* The history keeps its types.
LEMMA DrawTypes ==
    ASSUME TypeOK, NEW ip \in Ip, NEW isFull, NEW units \in Nat, Draw(ip, isFull, units)
    PROVE  full' \in [Ip -> Nat] /\ drawn' \in [Ip -> Nat]
  <1>1. full' \in [Ip -> Nat]
    BY DEF Draw, TypeOK
  <1>2. \A n \in Nat : n + units \in Nat
    OBVIOUS
  <1>3. (IF isFull THEN units ELSE drawn[ip] + units) \in Nat
    BY <1>2 DEF TypeOK
  <1> QED
    BY <1>1, <1>3 DEF Draw, TypeOK

\* Spending c of what is in the bucket, or nothing, leaves the sum of spent
\* and left as it was.
LEMMA SpendIInv ==
    ASSUME IInv, NEW ip \in Ip, ip \in ips, NEW c \in Nat, c <= Refilled(ip),
           tokens' = [tokens EXCEPT ![ip] = Refilled(ip) - c],
           lastUpdate' = [lastUpdate EXCEPT ![ip] = now],
           spent' = [spent EXCEPT ![ip] = @ + c],
           full' \in [Ip -> Nat], drawn' \in [Ip -> Nat],
           UNCHANGED <<now, ips, since>>
    PROVE  IInv'
  <1>1. /\ Burst \in Nat /\ now \in Nat /\ since \in Nat /\ since <= now
        /\ Refilled(ip) \in 0..Burst /\ spent[ip] \in Nat
    BY RefilledRange, BurstAssumption DEF IInv, TypeOK, Dated
  <1>2. Refilled(ip) - c \in 0..Burst /\ spent[ip] + c \in Nat
    BY <1>1
  <1>3. TypeOK'
    BY <1>1, <1>2 DEF IInv, TypeOK
  <1>4. Dated'
    BY <1>1 DEF IInv, TypeOK, Dated
  <1>5. ASSUME NEW q \in Ip
        PROVE  IF q \in ips THEN spent'[q] + Refilled(q)' <= Burst + (now - since)
                            ELSE spent'[q] = 0
    <2>1. CASE q = ip
      <3>1. tokens'[q] = Refilled(ip) - c /\ lastUpdate'[q] = now /\ spent'[q] = spent[ip] + c
        BY <2>1 DEF IInv, TypeOK
      <3>2. Refilled(q)' = Refilled(ip) - c
        BY <1>1, <1>2, <3>1 DEF Refilled, Smaller
      <3>3. spent[ip] + Refilled(ip) <= Burst + (now - since)
        BY DEF IInv, Conservation
      <3> QED
        BY <1>1, <2>1, <3>1, <3>2, <3>3
    <2>2. CASE q # ip
      <3>1. tokens'[q] = tokens[q] /\ lastUpdate'[q] = lastUpdate[q] /\ spent'[q] = spent[q]
        BY <2>2 DEF IInv, TypeOK
      <3>2. Refilled(q)' = Refilled(q)
        BY <3>1 DEF Refilled
      <3> QED
        BY <3>1, <3>2 DEF IInv, Conservation
    <2> QED
      BY <2>1, <2>2
  <1>6. Conservation'
    BY <1>5 DEF Conservation
  <1> QED
    BY <1>3, <1>4, <1>6 DEF IInv

\* Every action preserves the inductive invariant.
LEMMA NextIInv == IInv /\ [Next]_vars => IInv'
  <1> SUFFICES ASSUME IInv, [Next]_vars PROVE IInv'
    OBVIOUS
  <1>0. Burst \in Nat /\ Cost \in Nat /\ Burst >= Cost /\ now \in Nat /\ since \in Nat /\ since <= now
    BY CostAssumption, BurstAssumption DEF IInv, TypeOK, Dated
  <1>1. ASSUME NEW ip \in Ip, FirstRequest(ip) PROVE IInv'
    <2>1. Burst - Cost \in 0..Burst /\ spent[ip] = 0 /\ spent'[ip] = Cost
      BY <1>0, <1>1 DEF FirstRequest, IInv, TypeOK, Conservation
    <2>0. full' \in [Ip -> Nat] /\ drawn' \in [Ip -> Nat]
      BY <1>0, <1>1, DrawTypes DEF FirstRequest, IInv
    <2>2. TypeOK' /\ Dated'
      <3>1. /\ tokens' \in [Ip -> 0..Burst] /\ lastUpdate' \in [Ip -> Nat]
            /\ spent' \in [Ip -> Nat]
        BY <1>0, <1>1, <2>1 DEF FirstRequest, IInv, TypeOK
      <3>2. TypeOK'
        BY <1>0, <1>1, <2>0, <3>1 DEF FirstRequest, IInv, TypeOK
      <3> QED
        BY <1>0, <1>1, <3>2 DEF FirstRequest, IInv, TypeOK, Dated
    <2>3. ASSUME NEW q \in Ip
          PROVE  IF q \in ips' THEN spent'[q] + Refilled(q)' <= Burst + (now - since)
                               ELSE spent'[q] = 0
      <3>1. CASE q = ip
        <4>1. tokens'[q] = Burst - Cost /\ lastUpdate'[q] = now /\ now' = now
          BY <1>1, <3>1 DEF FirstRequest, IInv, TypeOK
        <4>2. Refilled(q)' = Burst - Cost
          BY <1>0, <4>1 DEF Refilled, Smaller
        <4>3. q \in ips'
          BY <1>1, <3>1 DEF FirstRequest
        <4> QED
          BY <1>0, <2>1, <3>1, <4>2, <4>3
      <3>2. CASE q # ip
        <4>1. /\ tokens'[q] = tokens[q] /\ lastUpdate'[q] = lastUpdate[q] /\ spent'[q] = spent[q]
              /\ now' = now /\ (q \in ips' <=> q \in ips)
          BY <1>1, <3>2 DEF FirstRequest, IInv, TypeOK
        <4>2. Refilled(q)' = Refilled(q)
          BY <4>1 DEF Refilled
        <4> QED
          BY <4>1, <4>2 DEF IInv, Conservation
      <3> QED
        BY <3>1, <3>2
    <2>4. Conservation'
      BY <1>1, <2>3 DEF Conservation, FirstRequest
    <2> QED
      BY <2>2, <2>4 DEF IInv
  <1>2. ASSUME NEW ip \in Ip, Admit(ip) PROVE IInv'
    <2>1. full' \in [Ip -> Nat] /\ drawn' \in [Ip -> Nat]
      BY <1>0, <1>2, DrawTypes DEF Admit, IInv
    <2> QED
      BY <1>0, <1>2, <2>1, SpendIInv DEF Admit
  <1>3. ASSUME NEW ip \in Ip, Refuse(ip) PROVE IInv'
    <2>1. Refilled(ip) \in Nat
      BY <1>0, RefilledRange DEF IInv
    <2>2. Refilled(ip) - 0 = Refilled(ip) /\ 0 <= Refilled(ip) /\ 0 \in Nat
      BY <2>1
    <2>3. spent = [spent EXCEPT ![ip] = @ + 0]
      BY DEF IInv, TypeOK
    <2>4. ip \in ips /\ spent' = spent
      BY <1>3 DEF Refuse
    <2>5. tokens' = [tokens EXCEPT ![ip] = Refilled(ip)]
      BY <1>3 DEF Refuse
    <2>6. tokens' = [tokens EXCEPT ![ip] = Refilled(ip) - 0]
      BY <2>2, <2>5, Zenon
    <2>7. lastUpdate' = [lastUpdate EXCEPT ![ip] = now] /\ UNCHANGED <<now, ips, since>>
      BY <1>3 DEF Refuse
    <2>8. spent' = [spent EXCEPT ![ip] = @ + 0]
      BY <2>3, <2>4, Zenon
    <2>9. full' \in [Ip -> Nat] /\ drawn' \in [Ip -> Nat]
      BY <1>0, <1>3, <2>2, DrawTypes DEF Refuse, IInv
    <2> QED
      BY <2>2, <2>4, <2>6, <2>7, <2>8, <2>9, SpendIInv, Zenon
  <1>4. CASE Tick
    <2>1. TypeOK' /\ Dated'
      BY <1>0, <1>4 DEF Tick, buckets, hist, IInv, TypeOK, Dated
    <2>2. ips' = ips /\ spent' = spent /\ since' = since /\ now' = now + 1
      BY <1>4 DEF Tick, buckets
    <2>3. ASSUME NEW q \in Ip, q \in ips
          PROVE  spent[q] + Refilled(q)' <= Burst + (now' - since)
      <3>1. /\ tokens[q] \in 0..Burst /\ lastUpdate[q] \in Nat /\ lastUpdate[q] <= now
            /\ spent[q] \in Nat
            /\ spent[q] + Refilled(q) <= Burst + (now - since)
        BY <2>3 DEF IInv, TypeOK, Dated, Conservation
      <3>2. tokens'[q] = tokens[q] /\ lastUpdate'[q] = lastUpdate[q]
        BY <1>4 DEF Tick, buckets
      <3>3. Refilled(q)' <= Refilled(q) + 1 /\ Refilled(q) \in Int /\ Refilled(q)' \in Int
        BY <1>0, <2>2, <3>1, <3>2 DEF Refilled, Smaller
      <3> QED
        BY <1>0, <2>2, <3>1, <3>3
    <2>4. ASSUME NEW q \in Ip
          PROVE  IF q \in ips' THEN spent'[q] + Refilled(q)' <= Burst + (now' - since')
                               ELSE spent'[q] = 0
      <3>1. CASE q \in ips
        BY <2>2, <2>3, <3>1, Zenon
      <3>2. CASE q \notin ips
        <4>1. spent[q] = 0
          BY <3>2 DEF IInv, Conservation
        <4> QED
          BY <2>2, <3>2, <4>1, Zenon
      <3> QED
        BY <3>1, <3>2
    <2>5. Conservation'
      BY <2>4 DEF Conservation
    <2> QED
      BY <2>1, <2>5 DEF IInv
  <1>5. CASE Measure
    <2>1. TypeOK' /\ Dated'
      BY <1>0, <1>5 DEF Measure, buckets, hist, IInv, TypeOK, Dated
    <2>2. ASSUME NEW q \in Ip PROVE spent'[q] = 0 /\ Refilled(q)' <= Burst /\ Refilled(q)' \in Int
      BY <1>5, RefilledRange, BurstAssumption DEF Measure, buckets, Refilled, IInv
    <2>3. now' - since' = 0
      BY <1>0, <1>5 DEF Measure, buckets
    <2>4. Conservation'
      BY <1>0, <2>2, <2>3 DEF Conservation
    <2> QED
      BY <2>1, <2>4 DEF IInv
  <1>6. CASE UNCHANGED vars
    BY <1>6 DEF vars, buckets, hist, IInv, TypeOK, Dated, Conservation, Refilled
  <1> QED
    BY <1>1, <1>2, <1>3, <1>4, <1>5, <1>6 DEF Next

\* The inductive invariant holds in every reachable state.
THEOREM Invariance == Spec => []IInv
  BY InitIInv, NextIInv, PTL DEF Spec

-----------------------------------------------------------------------------

\* The buckets keep their types: none is ever overdrawn or overfull.
THEOREM TypeCorrect == Spec => []TypeOK
  <1>1. IInv => TypeOK
    BY DEF IInv
  <1> QED
    BY <1>1, Invariance, PTL

\* Whatever the interval, an address gets no more than the burst and the
\* refill of the interval.
THEOREM Bounded == Spec => []WindowBound
  <1>1. IInv => WindowBound
    <2> SUFFICES ASSUME IInv, NEW ip \in Ip PROVE spent[ip] <= Burst + (now - since)
      BY DEF WindowBound
    <2>1. /\ Burst \in Nat /\ now \in Nat /\ since \in Nat /\ since <= now /\ spent[ip] \in Nat
          /\ Refilled(ip) \in 0..Burst
      BY RefilledRange, BurstAssumption DEF IInv, TypeOK, Dated
    <2> QED
      BY <2>1 DEF IInv, Conservation
  <1> QED
    BY <1>1, Invariance, PTL

\* A bucket has exactly what it had when it was full, less what was drawn since,
\* and the refill since: nothing is lost at the brim.
Exact ==
    \A ip \in ips :
        /\ full[ip] <= lastUpdate[ip]
        /\ tokens[ip] + drawn[ip] = Burst + (lastUpdate[ip] - full[ip])

\* A request that draws c units keeps the bucket exact.
LEMMA DrawExact ==
    ASSUME IInv, Exact, NEW ip \in Ip, ip \in ips, NEW c \in Nat, c <= Refilled(ip),
           tokens' = [tokens EXCEPT ![ip] = Refilled(ip) - c],
           lastUpdate' = [lastUpdate EXCEPT ![ip] = now],
           Draw(ip, Refilled(ip) = Burst, c), ips' = ips
    PROVE  Exact'
  <1> SUFFICES ASSUME NEW q \in ips
               PROVE  /\ full'[q] <= lastUpdate'[q]
                      /\ tokens'[q] + drawn'[q] = Burst + (lastUpdate'[q] - full'[q])
    BY DEF Exact
  <1>1. CASE q = ip
    <2>1. /\ Burst \in Nat /\ now \in Nat /\ tokens[ip] \in 0..Burst
          /\ lastUpdate[ip] \in Nat /\ lastUpdate[ip] <= now
          /\ full[ip] \in Nat /\ drawn[ip] \in Nat
      BY BurstAssumption DEF IInv, TypeOK, Dated
    <2>2. /\ full[ip] <= lastUpdate[ip]
          /\ tokens[ip] + drawn[ip] = Burst + (lastUpdate[ip] - full[ip])
      BY DEF Exact
    <2>3. tokens'[q] = Refilled(ip) - c /\ lastUpdate'[q] = now
      BY <1>1 DEF IInv, TypeOK
    <2>4. CASE Refilled(ip) = Burst
      <3>1. full'[q] = now /\ drawn'[q] = c
        BY <1>1, <2>4 DEF Draw, IInv, TypeOK
      <3> QED
        BY <2>1, <2>3, <2>4, <3>1
    <2>5. CASE Refilled(ip) # Burst
      <3>1. full'[q] = full[ip] /\ drawn'[q] = drawn[ip] + c
        BY <1>1, <2>5 DEF Draw, IInv, TypeOK
      <3>2. Refilled(ip) = tokens[ip] + (now - lastUpdate[ip])
        BY <2>1, <2>5 DEF Refilled, Smaller
      <3>3. tokens'[q] = tokens[ip] + (now - lastUpdate[ip]) - c
        BY <2>1, <2>3, <3>2
      <3>4. full'[q] <= lastUpdate'[q]
        BY <2>1, <2>2, <2>3, <3>1
      <3> QED
        BY <2>1, <2>2, <2>3, <3>1, <3>3, <3>4
    <2> QED
      BY <2>4, <2>5
  <1>2. CASE q # ip
    <2>1. /\ tokens'[q] = tokens[q] /\ lastUpdate'[q] = lastUpdate[q]
          /\ full'[q] = full[q] /\ drawn'[q] = drawn[q]
      BY <1>2 DEF IInv, TypeOK, Draw
    <2> QED
      BY <2>1 DEF Exact
  <1> QED
    BY <1>1, <1>2

\* Every step keeps the buckets exact.
LEMMA NextExact == IInv /\ Exact /\ [Next]_vars => Exact'
  <1> SUFFICES ASSUME IInv, Exact, [Next]_vars PROVE Exact'
    OBVIOUS
  <1>0. Burst \in Nat /\ Cost \in Nat /\ Burst >= Cost /\ now \in Nat
    BY CostAssumption, BurstAssumption DEF IInv, TypeOK
  <1>1. ASSUME NEW ip \in Ip, FirstRequest(ip) PROVE Exact'
    <2> SUFFICES ASSUME NEW q \in ips'
                 PROVE  /\ full'[q] <= lastUpdate'[q]
                        /\ tokens'[q] + drawn'[q] = Burst + (lastUpdate'[q] - full'[q])
      BY DEF Exact
    <2>1. CASE q = ip
      <3>1. tokens'[q] = Burst - Cost /\ lastUpdate'[q] = now /\ full'[q] = now /\ drawn'[q] = Cost
        BY <1>1, <2>1 DEF FirstRequest, Draw, IInv, TypeOK
      <3> QED
        BY <1>0, <3>1
    <2>2. CASE q # ip
      <3>1. /\ q \in ips
            /\ tokens'[q] = tokens[q] /\ lastUpdate'[q] = lastUpdate[q]
            /\ full'[q] = full[q] /\ drawn'[q] = drawn[q]
        BY <1>1, <2>2 DEF FirstRequest, Draw, IInv, TypeOK
      <3> QED
        BY <3>1 DEF Exact
    <2> QED
      BY <2>1, <2>2
  <1>2. ASSUME NEW ip \in Ip, Admit(ip) PROVE Exact'
    BY <1>0, <1>2, DrawExact DEF Admit
  <1>3. ASSUME NEW ip \in Ip, Refuse(ip) PROVE Exact'
    <2>1. 0 <= Refilled(ip) /\ Refilled(ip) - 0 = Refilled(ip) /\ 0 \in Nat
      BY RefilledRange, <1>0 DEF IInv
    <2>2. tokens' = [tokens EXCEPT ![ip] = Refilled(ip) - 0]
      BY <1>3, <2>1 DEF Refuse
    <2>3. /\ ip \in ips /\ ips' = ips /\ Draw(ip, Refilled(ip) = Burst, 0)
          /\ lastUpdate' = [lastUpdate EXCEPT ![ip] = now]
      BY <1>3 DEF Refuse
    <2> QED
      BY <2>1, <2>2, <2>3, DrawExact
  <1>4. CASE Tick \/ Measure
    BY <1>4 DEF Tick, Measure, buckets, hist, Exact
  <1>5. CASE UNCHANGED vars
    BY <1>5 DEF vars, buckets, hist, Exact
  <1> QED
    BY <1>1, <1>2, <1>3, <1>4, <1>5 DEF Next

\* What is refused would have been too much: together with Bounded, the limiter
\* lets through neither more nor less than a full bucket and its refill.
THEOREM RefusedOnlyWhenSpent == Spec => RefusalIsEarned
  <1>1. Init => Exact
    BY DEF Init, Exact
  <1>2. ASSUME IInv, Exact, NEW ip \in Ip, Refuse(ip)
        PROVE  drawn[ip] + Cost > Burst + (now - full[ip])
    <2>1. /\ Burst \in Nat /\ Cost \in Nat /\ Burst >= Cost /\ now \in Nat
          /\ tokens[ip] \in 0..Burst /\ lastUpdate[ip] \in Nat /\ lastUpdate[ip] <= now
          /\ full[ip] \in Nat /\ drawn[ip] \in Nat
      BY <1>2, CostAssumption, BurstAssumption DEF IInv, TypeOK, Dated
    <2>2. tokens[ip] + drawn[ip] = Burst + (lastUpdate[ip] - full[ip])
      BY <1>2 DEF Refuse, Exact
    <2>3. Refilled(ip) < Cost
      BY <1>2 DEF Refuse
    <2>4. tokens[ip] + (now - lastUpdate[ip]) < Cost
      BY <2>1, <2>3 DEF Refilled, Smaller
    <2> QED
      BY <2>1, <2>2, <2>4
  <1>3. IInv /\ Exact /\ [Next]_vars =>
           [\A ip \in Ip : Refuse(ip) => drawn[ip] + Cost > Burst + (now - full[ip])]_vars
    BY <1>2
  <1> QED
    BY <1>1, <1>3, NextExact, Invariance, PTL DEF Spec, RefusalIsEarned

\* A request that comes a token's time after the previous one is admitted.
THEOREM Silence == Spec => SilenceIsRewarded
  <1>1. ASSUME IInv, NEW ip \in Ip, Refuse(ip) PROVE now - lastUpdate[ip] < Cost
    <2>1. /\ Burst \in Nat /\ Cost \in Nat /\ Burst >= Cost /\ now \in Nat
          /\ tokens[ip] \in 0..Burst /\ lastUpdate[ip] \in Nat /\ lastUpdate[ip] <= now
      BY <1>1, CostAssumption, BurstAssumption DEF IInv, TypeOK, Dated
    <2>2. Refilled(ip) < Cost
      BY <1>1 DEF Refuse
    <2> QED
      BY <2>1, <2>2 DEF Refilled, Smaller
  <1>2. IInv /\ [Next]_vars => [\A ip \in Ip : Refuse(ip) => now - lastUpdate[ip] < Cost]_vars
    BY <1>1
  <1> QED
    BY <1>2, Invariance, PTL DEF Spec, SilenceIsRewarded

-----------------------------------------------------------------------------
(* The limiter is a leaky bucket.                                          *)

\* When the bucket of ip, if it has one, will be full.
Clear(ip) == IF ip \in ips THEN lastUpdate[ip] + Burst - tokens[ip] ELSE 0

\* What is missing in the bucket is what is left to drain: the cap on the refill
\* is the meter's disregard of the past.
LEMMA Missing ==
    ASSUME TypeOK, NEW ip \in ips
    PROVE  /\ now + (Burst - Refilled(ip)) = IF Clear(ip) > now THEN Clear(ip) ELSE now
           /\ Refilled(ip) < Burst => now + (Burst - Refilled(ip)) = Clear(ip)
  <1>1. /\ Burst \in Nat /\ now \in Nat
        /\ tokens[ip] \in 0..Burst /\ lastUpdate[ip] \in Nat
    BY BurstAssumption DEF TypeOK
  <1>2. Refilled(ip) = IF Burst < tokens[ip] + (now - lastUpdate[ip]) THEN Burst
                       ELSE tokens[ip] + (now - lastUpdate[ip])
    BY DEF Refilled, Smaller
  <1>3. Clear(ip) = lastUpdate[ip] + Burst - tokens[ip]
    BY DEF Clear
  <1> QED
    BY <1>1, <1>2, <1>3

\* A request finds a token exactly if it fits.
LEMMA SameVerdict == TypeOK => VerdictsAgree
  <1> SUFFICES ASSUME TypeOK, NEW ip \in ips
               PROVE  Refilled(ip) >= Cost <=> Meter!Fits(ip)
    BY DEF VerdictsAgree
  <1>1. /\ Burst \in Nat /\ now \in Nat /\ Cost \in Nat
        /\ tokens[ip] \in 0..Burst /\ lastUpdate[ip] \in Nat /\ ip \in Ip
    BY BurstAssumption, CostAssumption DEF TypeOK
  <1>2. Refilled(ip) \in Int
    BY <1>1 DEF Refilled, Smaller
  <1>3. Meter!Drained(ip) = now + (Burst - Refilled(ip)) + Cost
    BY <1>1, Missing DEF Meter!Drained, Clear
  <1> QED
    BY <1>1, <1>2, <1>3 DEF Meter!Fits

\* The limiter starts with nothing to drain.
LEMMA MeterInit == Init => Meter!Init
  BY DEF Init, Meter!Init

\* Each step is one of the meter, or changes nothing of it.
LEMMA MeterNext == IInv /\ [Next]_vars => [Meter!Next]_(Meter!meter)
  <1> SUFFICES ASSUME IInv, [Next]_vars PROVE [Meter!Next]_(Meter!meter)
    OBVIOUS
  <1> DEFINE clear == [ip \in Ip |-> Clear(ip)]
  <1>0. /\ Burst \in Nat /\ now \in Nat /\ Cost \in Nat /\ Cost > 0 /\ Burst >= Cost
        /\ ips \subseteq Ip
        /\ \A ip \in Ip : tokens[ip] \in 0..Burst /\ lastUpdate[ip] \in Nat
        /\ tokens \in [Ip -> 0..Burst] /\ lastUpdate \in [Ip -> Nat]
    BY BurstAssumption, CostAssumption DEF IInv, TypeOK
  <1>1. ASSUME NEW ip \in Ip, FirstRequest(ip) PROVE Meter!Pass(ip)
    <2>1. /\ now' = now /\ ips' = ips \cup {ip} /\ ip \notin ips
          /\ tokens' = [tokens EXCEPT ![ip] = Burst - Cost]
          /\ lastUpdate' = [lastUpdate EXCEPT ![ip] = now]
      BY <1>1 DEF FirstRequest
    <2>2. Meter!Drained(ip) = now + Cost
      BY <1>0, <2>1 DEF Meter!Drained
    <2>3. Clear(ip)' = now + Cost
      BY <1>0, <2>1 DEF Clear
    <2>4. \A q \in Ip : q # ip => Clear(q)' = Clear(q)
      BY <1>0, <2>1 DEF Clear
    <2>5. clear' = [clear EXCEPT ![ip] = now + Cost]
      BY <2>3, <2>4
    <2> QED
      BY <1>0, <2>1, <2>2, <2>5 DEF Meter!Pass, Meter!Fits, Clear
  <1>2. ASSUME NEW ip \in Ip, Admit(ip) PROVE Meter!Pass(ip)
    <2>1. /\ now' = now /\ ips' = ips /\ ip \in ips /\ Refilled(ip) >= Cost
          /\ tokens' = [tokens EXCEPT ![ip] = Refilled(ip) - Cost]
          /\ lastUpdate' = [lastUpdate EXCEPT ![ip] = now]
      BY <1>2 DEF Admit
    <2>2. Refilled(ip) \in Int
      BY <1>0 DEF Refilled, Smaller
    <2>3. Meter!Drained(ip) = now + (Burst - Refilled(ip)) + Cost
      BY <1>0, <2>1, Missing DEF Meter!Drained, Clear, IInv
    <2>4. Clear(ip)' = Meter!Drained(ip)
      <3>1. Clear(ip)' = now + Burst - (Refilled(ip) - Cost)
        BY <1>0, <2>1 DEF Clear
      <3> QED
        BY <1>0, <2>2, <2>3, <3>1
    <2>5. \A q \in Ip : q # ip => Clear(q)' = Clear(q)
      BY <1>0, <2>1 DEF Clear
    <2>6. clear' = [clear EXCEPT ![ip] = Meter!Drained(ip)]
      BY <2>4, <2>5
    <2>7. Meter!Fits(ip)
      BY <2>1, SameVerdict DEF IInv, VerdictsAgree
    <2> QED
      BY <2>1, <2>6, <2>7 DEF Meter!Pass, Clear
  <1>3. ASSUME NEW ip \in Ip, Refuse(ip) PROVE UNCHANGED Meter!meter
    <2>1. /\ now' = now /\ ips' = ips /\ ip \in ips /\ Refilled(ip) < Cost
          /\ tokens' = [tokens EXCEPT ![ip] = Refilled(ip)]
          /\ lastUpdate' = [lastUpdate EXCEPT ![ip] = now]
      BY <1>3 DEF Refuse
    <2>2. Refilled(ip) \in Int
      BY <1>0 DEF Refilled, Smaller
    <2>3. now + (Burst - Refilled(ip)) = Clear(ip)
      BY <1>0, <2>1, <2>2, Missing DEF IInv
    <2>4. Clear(ip)' = Clear(ip)
      <3>1. Clear(ip)' = now + Burst - Refilled(ip)
        BY <1>0, <2>1 DEF Clear
      <3> QED
        BY <1>0, <2>2, <2>3, <3>1
    <2>5. \A q \in Ip : Clear(q)' = Clear(q)
      BY <1>0, <2>1, <2>4 DEF Clear
    <2>6. clear' = clear
      BY <2>5
    <2> QED
      BY <2>1, <2>6 DEF Meter!meter, Clear
  <1>4. CASE Tick
    BY <1>4 DEF Tick, buckets, Meter!Next, Meter!Tick
  <1>5. CASE Measure \/ UNCHANGED vars
    BY <1>5 DEF Measure, vars, buckets, Meter!meter
  <1> QED
    BY <1>1, <1>2, <1>3, <1>4, <1>5 DEF Next, Meter!Next

\* Whatever the rate, the burst and the requests, the limiter with its buckets is
\* a leaky bucket with one time per address (middleware.go 32-60) ...
THEOREM Refinement == Spec => ImplementsLeakyBucket
  <1> QED
    BY MeterInit, MeterNext, Invariance, PTL DEF Spec, Meter!Spec, ImplementsLeakyBucket

\* ... and admits and refuses what the leaky bucket would.
THEOREM Verdicts == Spec => []VerdictsAgree
  <1>1. IInv => VerdictsAgree
    BY SameVerdict DEF IInv
  <1> QED
    BY <1>1, Invariance, PTL
=============================================================================
