------------------------- MODULE RateLimiterProofs -------------------------
(***************************************************************************)
(* Proofs about RateLimiter: any cost and burst, any users and goroutines, *)
(* any order of the calls.                                                 *)
(***************************************************************************)
EXTENDS RateLimiter, TLAPS

LEMMA FullType == Full \in Nat /\ Cost \in Nat /\ (Burst > 0 => Cost <= Full)
<1>1. Burst \in Nat /\ Cost \in Nat
  BY LimiterAssumption
<1>2. Burst * Cost \in Nat
  BY <1>1
<1>3. Burst > 0 => Cost <= Burst * Cost
  BY <1>1
<1> QED
  BY <1>1, <1>2, <1>3 DEF Full

\* What one call does to a bucket and to its window, in the arithmetic the
\* invariants need: the refill never takes the bucket above Full nor above
\* what has flowed in, and what is granted leaves the bucket.
Decided(p, u, now, left, cost) ==
    /\ u = calls[p].user /\ now = calls[p].now /\ calls[p] \in Call
    /\ buckets'[u] = [tokens |-> left, lastCheck |-> now]
    /\ buckets'[u] \in Bucket
    /\ left + cost <= Full
    /\ buckets[u] = NoBucket => left + cost = Full
    /\ buckets[u] # NoBucket =>
         /\ buckets[u] \in Bucket
         /\ left + cost <= buckets[u].tokens + (now - buckets[u].lastCheck)
         /\ \/ left + cost = buckets[u].tokens + (now - buckets[u].lastCheck)
            \/ left + cost = Full
    /\ cost = Cost => left >= 0
    /\ cost = 0 => left < Cost
    /\ answer'[p] = IF cost = Cost THEN "allowed" ELSE "rejected"
    /\ top'[u] = IF now > top[u] THEN now ELSE top[u]
    /\ watch'[u] = [from |-> IF watch[u].from = -1 THEN now ELSE watch[u].from,
                    spent |-> watch[u].spent + cost]
    /\ \A v \in Users \ {u} : /\ buckets'[v] = buckets[v]
                              /\ top'[v] = top[v]
                              /\ watch'[v] = watch[v]

LEMMA AllowEffect ==
    ASSUME TypeOK, NEW p \in Procs, Allow(p)
    PROVE  \E u \in Users, now \in Times, left \in Int, cost \in {0, Cost} :
              Decided(p, u, now, left, cost)
<1> DEFINE u == calls[p].user
           now == calls[p].now
           tokens == Refilled(buckets[u], now)
           left == Left(tokens)
           cost == IF Enough(tokens) THEN Cost ELSE 0
<1>1. calls[p] \in Call /\ u \in Users /\ now \in Times /\ now \in Int
  BY DEF TypeOK, Allow, Call, Times
<1>2. buckets[u] # NoBucket =>
        /\ buckets[u] \in Bucket /\ buckets[u].tokens \in Int
        /\ buckets[u].lastCheck \in Int
  BY <1>1 DEF TypeOK, Bucket, Times
<1>3. /\ tokens \in Int /\ tokens <= Full
      /\ buckets[u] = NoBucket => tokens = Full
      /\ buckets[u] # NoBucket =>
           LET in == buckets[u].tokens + (now - buckets[u].lastCheck) IN
           tokens <= in /\ (tokens = in \/ tokens = Full)
  BY <1>1, <1>2, FullType DEF Refilled, AtMost
<1>4. /\ buckets' = [buckets EXCEPT ![u] = [tokens |-> left, lastCheck |-> now]]
      /\ answer' = [answer EXCEPT ![p] =
                        IF Enough(tokens) THEN "allowed" ELSE "rejected"]
      /\ top' = [top EXCEPT ![u] = IF now > top[u] THEN now ELSE top[u]]
      /\ watch' = [watch EXCEPT ![u] = Watched(watch[u], now, cost)]
  BY DEF Allow
<1> HIDE DEF tokens
<1>5. /\ left \in Int /\ cost \in {0, Cost} /\ left + cost = tokens /\ left <= Full
      /\ cost = Cost => left >= 0
      /\ cost = 0 => left < Cost
      /\ Enough(tokens) <=> cost = Cost
  BY <1>3, FullType, LimiterAssumption DEF Left, Enough
<1> HIDE DEF left, cost, u, now
<1>6. [tokens |-> left, lastCheck |-> now] \in Bucket
  BY <1>1, <1>5 DEF Bucket
<1>7. /\ buckets'[u] = [tokens |-> left, lastCheck |-> now]
      /\ answer'[p] = IF cost = Cost THEN "allowed" ELSE "rejected"
      /\ top'[u] = IF now > top[u] THEN now ELSE top[u]
      /\ watch'[u] = Watched(watch[u], now, cost)
      /\ \A v \in Users \ {u} : /\ buckets'[v] = buckets[v]
                                /\ top'[v] = top[v]
                                /\ watch'[v] = watch[v]
  BY <1>1, <1>4, <1>5 DEF TypeOK
<1> QED
  BY <1>1, <1>2, <1>3, <1>5, <1>6, <1>7 DEF Decided, Watched, u, now

-----------------------------------------------------------------------------
(***************************************************************************)
(* The inductive invariant.  WindowBound speaks of moments without debt;   *)
(* the fact behind it holds always: what was granted in a window and what  *)
(* is left in the bucket are paid by one full bucket and the time between. *)
(***************************************************************************)
WindowPaid ==
    \A u \in Users :
      /\ watch[u].from = -1 => watch[u].spent = 0
      /\ watch[u].from # -1 =>
            /\ buckets[u] # NoBucket
            /\ watch[u].spent + buckets[u].tokens
                  <= Full + (buckets[u].lastCheck - watch[u].from)

LInv == TypeOK /\ WindowPaid /\ NoLastingDebt

LEMMA LInvInit == Init => LInv
<1>1. 0 \in Times
  BY LimiterAssumption DEF Times
<1> QED
  BY <1>1 DEF Init, LInv, TypeOK, WindowPaid, NoLastingDebt, Unwatched, Window

LEMMA TypeStep == TypeOK /\ [Next]_vars => TypeOK'
<1> SUFFICES ASSUME TypeOK, [Next]_vars PROVE TypeOK'
  OBVIOUS
<1>1. CASE Tick
  BY <1>1, LimiterAssumption DEF Tick, TypeOK, Times
<1>2. ASSUME NEW p \in Procs, NEW u \in Users, ReadClock(p, u) PROVE TypeOK'
  BY <1>2 DEF ReadClock, TypeOK, Call
<1>3. ASSUME NEW p \in Procs, Allow(p) PROVE TypeOK'
  <2>1. PICK u \in Users, now \in Times, left \in Int, cost \in {0, Cost} :
            Decided(p, u, now, left, cost)
    BY <1>3, AllowEffect
  <2>2. watch[u] \in Window /\ top[u] \in Times
    BY DEF TypeOK
  <2>3. watch'[u] \in Window
    BY <2>1, <2>2, FullType DEF Decided, Window
  <2>4. top'[u] \in Times
    BY <2>1, <2>2 DEF Decided
  <2>5. \A v \in Users : /\ buckets'[v] \in Bucket \cup {NoBucket}
                         /\ top'[v] \in Times /\ watch'[v] \in Window
    BY <2>1, <2>3, <2>4 DEF Decided, TypeOK
  <2>6. /\ DOMAIN buckets' = Users /\ buckets' = [v \in Users |-> buckets'[v]]
        /\ top' = [v \in Users |-> top'[v]] /\ watch' = [v \in Users |-> watch'[v]]
        /\ calls' \in [Procs -> Call \cup {NoCall}]
        /\ answer' \in [Procs -> {"none", "allowed", "rejected"}]
        /\ clock' = clock
    BY <1>3 DEF Allow, TypeOK
  <2> QED
    BY <2>5, <2>6 DEF TypeOK
<1>4. CASE Restart
  <2>1. 0 \in Times
    BY LimiterAssumption DEF Times
  <2> QED
    BY <1>4, <2>1 DEF Restart, TypeOK, Unwatched, Window
<1>5. ASSUME NEW u \in Users, Watch(u) PROVE TypeOK'
  BY <1>5 DEF Watch, TypeOK, Unwatched, Window
<1>6. CASE UNCHANGED vars
  BY <1>6 DEF vars, TypeOK
<1> QED
  BY <1>1, <1>2, <1>3, <1>4, <1>5, <1>6 DEF Next

LEMMA LInvStep == LInv /\ [Next]_vars => LInv'
<1> SUFFICES ASSUME LInv, [Next]_vars PROVE LInv'
  OBVIOUS
<1>0. TypeOK /\ TypeOK'
  BY TypeStep DEF LInv
<1>1. CASE Tick \/ UNCHANGED vars \/ \E p \in Procs, u \in Users : ReadClock(p, u)
  <2>1. UNCHANGED <<buckets, top, watch>>
    BY <1>1 DEF Tick, vars, ReadClock
  <2> QED
    BY <1>0, <2>1 DEF LInv, WindowPaid, NoLastingDebt
<1>2. ASSUME NEW p \in Procs, Allow(p) PROVE LInv'
  <2>1. PICK u \in Users, now \in Times, left \in Int, cost \in {0, Cost} :
            Decided(p, u, now, left, cost)
    BY <1>0, <1>2, AllowEffect
  <2>2. /\ now \in Int /\ top[u] \in Int /\ cost \in Int /\ cost >= 0 /\ Full \in Nat
        /\ watch[u].spent \in Int /\ watch[u].from \in Int
        /\ watch[u] \in Window
    BY <1>0, FullType DEF TypeOK, Window, Times
  <2>3. /\ buckets'[u] # NoBucket
        /\ buckets'[u].tokens = left /\ buckets'[u].lastCheck = now
        /\ watch'[u].spent = watch[u].spent + cost
        /\ watch'[u].from = IF watch[u].from = -1 THEN now ELSE watch[u].from
    BY <2>1, ValuesAssumption DEF Decided
  <2>4. buckets[u] # NoBucket => buckets[u].tokens \in Int /\ buckets[u].lastCheck \in Int
    BY <2>1 DEF Decided, Bucket, Times
  <2>5. WindowPaid'
    <3>1. watch'[u].spent + left <= Full + (now - watch'[u].from)
      <4>1. CASE watch[u].from = -1
        <5>1. watch[u].spent = 0
          BY <4>1 DEF LInv, WindowPaid
        <5> QED
          BY <2>1, <2>2, <2>3, <4>1, <5>1 DEF Decided
      <4>2. CASE watch[u].from # -1
        <5>1. /\ buckets[u] # NoBucket
              /\ watch[u].spent + buckets[u].tokens
                    <= Full + (buckets[u].lastCheck - watch[u].from)
          BY <4>2 DEF LInv, WindowPaid
        <5> QED
          BY <2>1, <2>2, <2>3, <2>4, <4>2, <5>1 DEF Decided
      <4> QED
        BY <4>1, <4>2
    <3>2. \A v \in Users \ {u} : watch'[v] = watch[v] /\ buckets'[v] = buckets[v]
      BY <2>1 DEF Decided
    <3>3. watch'[u].from # -1
      BY <2>2, <2>3 DEF Times
    <3> QED
      BY <2>3, <3>1, <3>2, <3>3 DEF LInv, WindowPaid
  <2>6. NoLastingDebt'
    <3>1. left + (top'[u] - now) >= 0
      <4>1. CASE buckets[u] = NoBucket \/ left + cost = Full
        BY <2>1, <2>2, <4>1, FullType DEF Decided
      <4>2. CASE /\ buckets[u] # NoBucket
                 /\ left + cost = buckets[u].tokens + (now - buckets[u].lastCheck)
        <5>1. buckets[u].tokens + (top[u] - buckets[u].lastCheck) >= 0
          BY <4>2 DEF LInv, NoLastingDebt
        <5> QED
          BY <2>1, <2>2, <2>4, <4>2, <5>1, FullType DEF Decided
      <4> QED
        BY <2>1, <4>1, <4>2 DEF Decided
    <3> QED
      BY <2>1, <2>3, <3>1 DEF Decided, LInv, NoLastingDebt
  <2> QED
    BY <1>0, <2>5, <2>6 DEF LInv
<1>3. CASE Restart
  BY <1>0, <1>3 DEF Restart, LInv, WindowPaid, NoLastingDebt, Unwatched
<1>4. ASSUME NEW u \in Users, Watch(u) PROVE LInv'
  <2>1. /\ UNCHANGED <<buckets, top>> /\ watch'[u].from = -1 /\ watch'[u].spent = 0
        /\ \A v \in Users \ {u} : watch'[v] = watch[v]
    BY <1>0, <1>4 DEF Watch, Unwatched, TypeOK
  <2> QED
    BY <1>0, <2>1 DEF LInv, WindowPaid, NoLastingDebt
<1> QED
  BY <1>1, <1>2, <1>3, <1>4 DEF Next

\* Tokens never exceed a full bucket and every bucket has a clock reading.
THEOREM TypeCorrect == Spec => []TypeOK
<1>1. LInv => TypeOK
  BY DEF LInv
<1> QED
  BY LInvInit, LInvStep, <1>1, PTL DEF Spec

\* The rate limit: in any run of a user's calls, at most one full bucket and
\* the refill between their times is granted, whatever the order of the calls.
THEOREM RateLimit == Spec => []WindowBound
<1>1. LInv => WindowBound
  <2> SUFFICES ASSUME LInv, NEW u \in Users, buckets[u] # NoBucket,
                      watch[u].from # -1, buckets[u].tokens >= 0
               PROVE  watch[u].spent <= Full + (buckets[u].lastCheck - watch[u].from)
    BY DEF WindowBound
  <2>1. /\ buckets[u].tokens \in Int /\ buckets[u].lastCheck \in Int
        /\ watch[u].spent \in Int /\ watch[u].from \in Int /\ Full \in Int
    BY FullType DEF LInv, TypeOK, Bucket, Window, Times
  <2>2. watch[u].spent + buckets[u].tokens
            <= Full + (buckets[u].lastCheck - watch[u].from)
    BY DEF LInv, WindowPaid
  <2> QED
    BY <2>1, <2>2
<1> QED
  BY LInvInit, LInvStep, <1>1, PTL DEF Spec

\* A call that was late for the mutex leaves no lasting debt behind.
THEOREM DebtIsRepaid == Spec => []NoLastingDebt
<1>1. LInv => NoLastingDebt
  BY DEF LInv
<1> QED
  BY LInvInit, LInvStep, <1>1, PTL DEF Spec

\* A user who waits one token's refill after the latest call is never refused.
THEOREM PatientUsersServed == Spec => PatientServed
<1>1. LInv /\ [Next]_vars =>
        [\A p \in Procs :
            calls[p] # NoCall /\ Allow(p) /\ Burst > 0
                /\ calls[p].now - top[calls[p].user] >= Cost
            => answer'[p] = "allowed"]_vars
  <2> SUFFICES ASSUME LInv, NEW p \in Procs, Allow(p), Burst > 0,
                      calls[p].now - top[calls[p].user] >= Cost
               PROVE  answer'[p] = "allowed"
    OBVIOUS
  <2>1. PICK u \in Users, now \in Times, left \in Int, cost \in {0, Cost} :
            Decided(p, u, now, left, cost)
    BY AllowEffect DEF LInv
  <2>2. now - top[u] >= Cost
    BY <2>1 DEF Decided
  <2>3. top[u] \in Int /\ now \in Int /\ Cost \in Nat /\ Full \in Nat /\ Cost <= Full
    BY FullType DEF LInv, TypeOK, Times
  <2>4. cost # 0
    <3> SUFFICES ASSUME cost = 0 PROVE FALSE
      OBVIOUS
    <3>1. left < Cost /\ left # Full
      BY <2>1, <2>3 DEF Decided
    <3>2. /\ buckets[u] # NoBucket /\ buckets[u] \in Bucket
          /\ left = buckets[u].tokens + (now - buckets[u].lastCheck)
      BY <2>1, <3>1 DEF Decided
    <3>3. buckets[u].tokens \in Int /\ buckets[u].lastCheck \in Int
      BY <3>2 DEF Bucket, Times
    <3>4. buckets[u].tokens + (top[u] - buckets[u].lastCheck) >= 0
      BY <3>2 DEF LInv, NoLastingDebt
    <3> QED
      BY <2>2, <2>3, <3>1, <3>2, <3>3, <3>4
  <2> QED
    BY <2>1, <2>4 DEF Decided
<1> QED
  BY LInvInit, LInvStep, <1>1, PTL DEF Spec, PatientServed
=============================================================================
