---------------------------- MODULE RateLimiter ----------------------------
(***************************************************************************)
(* internal/ratelimit: one token bucket per user, in the memory of the API *)
(* process, asked by every handler that writes (server.go).                *)
(*                                                                         *)
(* Allow reads the clock before it takes the mutex, so calls are decided   *)
(* in another order than their times: elapsed can be negative, tokens can  *)
(* go below zero and lastCheck can move back.                              *)
(*                                                                         *)
(* Time and tokens share one unit, the time in which one unit of tokens    *)
(* flows in.  A request costs Cost units: with 50 per minute and a unit of *)
(* 0.2 s that is 6, and a full bucket of 50 tokens holds 300.              *)
(***************************************************************************)
EXTENDS Integers

CONSTANTS
    Users,    \* the limiter's keys: user ids
    Procs,    \* handler goroutines
    Cost,     \* units of one token
    Burst,    \* tokens of a full bucket
    MaxTime,  \* bound: the clock
    NoBucket, NoCall

ASSUME LimiterAssumption ==
    Cost \in Nat \ {0} /\ Burst \in Nat /\ MaxTime \in Nat

Full == Burst * Cost
Times == 0 .. MaxTime

VARIABLES
    clock,
    buckets,  \* by user: tokens and lastCheck
    calls,    \* by goroutine: the call between time.Now() and the mutex
    answer,   \* by goroutine: what its last call returned
    top,      \* history, by user: the latest time decided on
    watch     \* history, by user: a window that starts with some call

vars == <<clock, buckets, calls, answer, top, watch>>

Bucket == [tokens : {n \in Int : n <= Full}, lastCheck : Times]
Call == [user : Users, now : Times]
\* A watched window: the time of its first call (-1 before it) and the units
\* granted in it so far.
Window == [from : Times \cup {-1}, spent : Int]

ASSUME ValuesAssumption == NoBucket \notin Bucket /\ NoCall \notin Call

TypeOK ==
    /\ clock \in Times
    /\ buckets \in [Users -> Bucket \cup {NoBucket}]
    /\ calls \in [Procs -> Call \cup {NoCall}]
    /\ answer \in [Procs -> {"none", "allowed", "rejected"}]
    /\ top \in [Users -> Times]
    /\ watch \in [Users -> Window]

Unwatched == [from |-> -1, spent |-> 0]

Init ==
    /\ clock = 0
    /\ buckets = [u \in Users |-> NoBucket]
    /\ calls = [p \in Procs |-> NoCall]
    /\ answer = [p \in Procs |-> "none"]
    /\ top = [u \in Users |-> 0]
    /\ watch = [u \in Users |-> Unwatched]

Tick ==
    /\ clock < MaxTime
    /\ clock' = clock + 1
    /\ UNCHANGED <<buckets, calls, answer, top, watch>>

\* now := time.Now()
ReadClock(p, u) ==
    /\ calls[p] = NoCall
    /\ calls' = [calls EXCEPT ![p] = [user |-> u, now |-> clock]]
    /\ answer' = [answer EXCEPT ![p] = "none"]
    /\ UNCHANGED <<clock, buckets, top, watch>>

AtMost(x, limit) == IF x > limit THEN limit ELSE x

\* The bucket after the refill; a bucket that is not there is made full.
RefilledClampBug(b, now) ==  \* elapsed < 0 is taken for 0
    IF b = NoBucket THEN Full
    ELSE AtMost(b.tokens + (IF now > b.lastCheck THEN now - b.lastCheck ELSE 0), Full)
RefilledNoCapBug(b, now) ==
    IF b = NoBucket THEN Full ELSE b.tokens + (now - b.lastCheck)
RefilledEmptyBug(b, now) ==  \* a new bucket is empty
    IF b = NoBucket THEN 0 ELSE AtMost(b.tokens + (now - b.lastCheck), Full)
Refilled(b, now) ==
    IF b = NoBucket THEN Full ELSE AtMost(b.tokens + (now - b.lastCheck), Full)

Enough(tokens) == tokens >= Cost

\* What is left after the answer.  A rejected call costs nothing.
LeftBug(tokens) == tokens - Cost
Left(tokens) == IF Enough(tokens) THEN tokens - Cost ELSE tokens

\* The window after a call decided at `now'.
Watched(win, now, cost) ==
    [from |-> IF win.from = -1 THEN now ELSE win.from, spent |-> win.spent + cost]

\* The rest of Allow, under the mutex.
Allow(p) ==
    /\ calls[p] # NoCall
    /\ LET u == calls[p].user
           now == calls[p].now
           tokens == Refilled(buckets[u], now)
       IN  /\ buckets' = [buckets EXCEPT ![u] =
                            [tokens |-> Left(tokens), lastCheck |-> now]]
           /\ answer' = [answer EXCEPT ![p] =
                            IF Enough(tokens) THEN "allowed" ELSE "rejected"]
           /\ top' = [top EXCEPT ![u] = IF now > @ THEN now ELSE @]
           /\ watch' = [watch EXCEPT ![u] =
                            Watched(@, now, IF Enough(tokens) THEN Cost ELSE 0)]
    /\ calls' = [calls EXCEPT ![p] = NoCall]
    /\ UNCHANGED clock

\* The API process restarts: every bucket is forgotten.
Restart ==
    /\ buckets' = [u \in Users |-> NoBucket]
    /\ calls' = [p \in Procs |-> NoCall]
    /\ answer' = [p \in Procs |-> "none"]
    /\ top' = [u \in Users |-> 0]
    /\ watch' = [u \in Users |-> Unwatched]
    /\ UNCHANGED clock

\* History only: look at the user's calls from the next one on.
Watch(u) ==
    /\ watch' = [watch EXCEPT ![u] = Unwatched]
    /\ UNCHANGED <<clock, buckets, calls, answer, top>>

Next ==
    \/ Tick
    \/ \E p \in Procs : Allow(p) \/ \E u \in Users : ReadClock(p, u)
    \/ \E u \in Users : Watch(u)
    \/ Restart

Spec == Init /\ [][Next]_vars
-----------------------------------------------------------------------------
\* In any run of calls of one user, from any one of them on, what is granted
\* never exceeds one full bucket and the refill between the times of the
\* first and the last call of the run, although the calls are decided out of
\* the order of their times.  (Tokens below zero are what a call that came
\* late still has to wait for.)
WindowBound ==
    \A u \in Users :
        buckets[u] # NoBucket /\ watch[u].from # -1 /\ buckets[u].tokens >= 0 =>
            watch[u].spent <= Full + (buckets[u].lastCheck - watch[u].from)

\* A late call cannot leave a lasting debt: seen from the latest time decided
\* on, a bucket is never below zero.
NoLastingDebt ==
    \A u \in Users :
        buckets[u] # NoBucket =>
            buckets[u].tokens + (top[u] - buckets[u].lastCheck) >= 0

\* A user who waits for one token's refill after the latest call is served.
PatientServed ==
    [][\A p \in Procs :
        calls[p] # NoCall /\ Allow(p) /\ Burst > 0
            /\ calls[p].now - top[calls[p].user] >= Cost
        => answer'[p] = "allowed"]_vars
=============================================================================
