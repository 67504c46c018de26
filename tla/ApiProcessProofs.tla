-------------------------- MODULE ApiProcessProofs --------------------------
(***************************************************************************)
(* For any number of handlers, connections and calls: every connection     *)
(* that is out has somebody, and the process stops gently.                 *)
(***************************************************************************)
EXTENDS MCStore, TagStoreProofs, FiniteSetTheorems

\* Handlers that the pool has refused, or that ended with the process.
Lost == At("refused") \cup At("cut")

\* Nobody is accepted once the pool is closed, nobody is refused before, and
\* unless Shutdown gave up, everybody was done by then.
ClosedInOrder ==
    /\ process # "serving" => ~listener
    /\ Lost # {} => PoolClosed
    /\ PoolClosed /\ ~late => \A h \in Handlers : handler[h].at = "idle"

PInv == ProcessTypeOK /\ leaked \in Nat /\ ClosedInOrder

USE ProcessAssumption

LEMMA ProcessInitInv == ProcessInit => PInv
<1> SUFFICES ASSUME ProcessInit PROVE PInv
  OBVIOUS
<1>1. handler \in [Handlers -> Handler]
  BY DEF ProcessInit, AtRest, Handler
<1>2. At("holding") = {} /\ At("refused") = {} /\ At("cut") = {}
  <2>1. \A h \in Handlers : handler[h].at = "idle"
    BY DEF ProcessInit, AtRest
  <2> QED
    BY <2>1 DEF At
<1>3. Cardinality(At("holding")) = 0
  BY <1>2, FS_EmptySet
<1>4. busy \in 0 .. MaxConns /\ busy = Cardinality(At("holding")) + leaked
  BY <1>3 DEF ProcessInit
<1>5. ProcessTypeOK /\ leaked \in Nat
  BY <1>1, <1>4 DEF ProcessInit, ProcessTypeOK
<1>6. Lost = {}
  BY <1>2 DEF Lost
<1> QED
  BY <1>5, <1>6 DEF ProcessInit, PInv, ClosedInOrder, PoolClosed

-----------------------------------------------------------------------------
(***************************************************************************)
(* Counting the handlers that have a connection.                           *)
(***************************************************************************)
LEMMA HoldingFinite == \A place : IsFiniteSet(At(place))
<1> SUFFICES ASSUME NEW place PROVE IsFiniteSet(At(place))
  OBVIOUS
<1>1. At(place) \subseteq Handlers
  BY DEF At
<1> QED
  BY <1>1, FS_Subset

\* A handler that goes to a place is there, and nobody else has moved.
Went(h, place) ==
    /\ handler' \in [Handlers -> Handler]
    /\ handler'[h].at = place
    /\ \A k \in Handlers : k # h => handler'[k] = handler[k]

LEMMA GoesWent ==
    ASSUME handler \in [Handlers -> Handler], NEW h \in Handlers,
           NEW place \in {"idle", "running", "acquiring", "holding", "refused", "cut"},
           Goes(h, place)
    PROVE  Went(h, place)
<1>1. handler[h] \in Handler
  OBVIOUS
<1>2. [handler[h] EXCEPT !.at = place] \in Handler
  BY <1>1, Zenon DEF Handler
<1>3. [handler[h] EXCEPT !.at = place].at = place
  BY <1>1, Zenon DEF Handler
<1> DEFINE r == [handler[h] EXCEPT !.at = place]
<1>4. handler' = [handler EXCEPT ![h] = r]
  BY DEF Goes
<1> HIDE DEF r
<1> QED
  BY <1>2, <1>3, <1>4 DEF Went, r

LEMMA NewWent ==
    ASSUME handler \in [Handlers -> Handler], NEW h \in Handlers, NEW r \in Handler,
           handler' = [handler EXCEPT ![h] = r]
    PROVE  Went(h, r.at)
  BY DEF Went

LEMMA HoldingTaken ==
    ASSUME NEW h \in Handlers, Went(h, "holding"), handler[h].at # "holding"
    PROVE  Cardinality(At("holding"))' = Cardinality(At("holding")) + 1
<1>1. At("holding")' = At("holding") \cup {h} /\ h \notin At("holding")
  BY DEF At, Went
<1> QED
  BY <1>1, HoldingFinite, FS_AddElement

LEMMA HoldingGiven ==
    ASSUME NEW h \in Handlers, NEW place, Went(h, place), place # "holding",
           handler[h].at = "holding"
    PROVE  /\ Cardinality(At("holding"))' = Cardinality(At("holding")) - 1
           /\ Cardinality(At("holding")) \in Nat \ {0}
<1>1. At("holding")' = At("holding") \ {h} /\ h \in At("holding")
  BY DEF At, Went
<1>2. Cardinality(At("holding")) \in Nat /\ Cardinality(At("holding")) # 0
  BY <1>1, HoldingFinite, FS_CardinalityType, FS_EmptySet
<1> QED
  BY <1>1, <1>2, HoldingFinite, FS_RemoveElement

LEMMA HoldingKept ==
    ASSUME NEW h \in Handlers, NEW place, Went(h, place), place # "holding",
           handler[h].at # "holding"
    PROVE  Cardinality(At("holding"))' = Cardinality(At("holding"))
<1>1. At("holding")' = At("holding")
  BY DEF At, Went
<1> QED
  BY <1>1

LEMMA HoldingCounted == Cardinality(At("holding")) \in Nat
  BY HoldingFinite, FS_CardinalityType

-----------------------------------------------------------------------------
(***************************************************************************)
(* The steps of a handler that is not idle leave the order of the stop.    *)
(***************************************************************************)
LEMMA HandlerStep ==
    ASSUME PInv, ProcessTypeOK', leaked' \in Nat, Requests, NEW h \in Handlers, NEW place,
           Went(h, place), handler[h].at # "idle" \/ listener,
           place \in {"refused", "cut"} => PoolClosed
    PROVE  PInv'
<1>1. PoolClosed' = PoolClosed /\ late' = late /\ listener' = listener
  BY DEF Requests, PoolClosed
<1>2. process' # "serving" => ~listener'
  BY DEF Requests, PInv, ClosedInOrder
<1>3. ASSUME Lost' # {} PROVE PoolClosed
  <2>1. PICK k \in Handlers : handler'[k].at \in {"refused", "cut"}
    BY <1>3 DEF Lost, At
  <2>2. CASE k = h
    BY <2>1, <2>2 DEF Went
  <2>3. CASE k # h
    BY <2>1, <2>3 DEF Went, PInv, ClosedInOrder, Lost, At
  <2> QED
    BY <2>2, <2>3
<1>4. ASSUME PoolClosed, ~late PROVE FALSE
  BY <1>4 DEF PInv, ClosedInOrder, PoolClosed
<1> QED
  BY <1>1, <1>2, <1>3, <1>4 DEF PInv, ClosedInOrder

LEMMA ProcessStepInv == PInv /\ [ProcessNext]_processVars => PInv'
<1> SUFFICES ASSUME PInv, [ProcessNext]_processVars PROVE PInv'
  OBVIOUS
<1>0. /\ handler \in [Handlers -> Handler] /\ leaked \in Nat /\ busy \in Nat /\ busy <= MaxConns
      /\ busy = Cardinality(At("holding")) + leaked
      /\ Cardinality(At("holding")) \in Nat
  BY HoldingCounted DEF PInv, ProcessTypeOK
<1>1. ASSUME NEW h \in Handlers, Accept(h) PROVE PInv'
  <2>1. PICK n \in 0 .. MaxCalls : handler' = [handler EXCEPT ![h] = [at |-> "running", calls |-> n]]
    BY <1>1 DEF Accept
  <2>2. Went(h, "running")
    <3> DEFINE r == [at |-> "running", calls |-> n]
    <3>1. r \in Handler /\ r.at = "running"
      BY DEF Handler
    <3> HIDE DEF r
    <3>2. handler' = [handler EXCEPT ![h] = r]
      BY <2>1 DEF r
    <3> QED
      BY <1>0, <3>1, <3>2, NewWent
  <2>3. Cardinality(At("holding"))' = Cardinality(At("holding"))
    BY <1>1, <2>2, HoldingKept DEF Accept
  <2>4. ProcessTypeOK' /\ leaked' \in Nat
    BY <1>0, <1>1, <2>2, <2>3 DEF Accept, Requests, Went, PInv, ProcessTypeOK
  <2> QED
    BY <1>1, <2>2, <2>4, HandlerStep DEF Accept
<1>2. ASSUME NEW h \in Handlers, CallStore(h) PROVE PInv'
  <2>1. handler[h] \in Handler
    BY <1>0
  <2>2. [at |-> "acquiring", calls |-> handler[h].calls - 1] \in Handler
    BY <1>2, <2>1 DEF CallStore, Handler
  <2>3. Went(h, "acquiring")
    BY <1>0, <1>2, <2>2, NewWent DEF CallStore
  <2>4. Cardinality(At("holding"))' = Cardinality(At("holding"))
    BY <1>2, <2>3, HoldingKept DEF CallStore
  <2>5. ProcessTypeOK' /\ leaked' \in Nat
    BY <1>0, <1>2, <2>3, <2>4 DEF CallStore, Requests, Went, PInv, ProcessTypeOK
  <2> QED
    BY <1>2, <2>3, <2>5, HandlerStep DEF CallStore
<1>3. ASSUME NEW h \in Handlers, Acquire(h) PROVE PInv'
  <2>1. CASE PoolClosed
    <3>1. Went(h, "refused") /\ busy' = busy
      BY <1>0, <1>3, <2>1, GoesWent DEF Acquire
    <3>2. Cardinality(At("holding"))' = Cardinality(At("holding"))
      BY <1>3, <3>1, HoldingKept DEF Acquire
    <3>3. ProcessTypeOK' /\ leaked' \in Nat
      BY <1>0, <1>3, <3>1, <3>2 DEF Acquire, Requests, Went, PInv, ProcessTypeOK
    <3> QED
      BY <1>3, <2>1, <3>1, <3>3, HandlerStep DEF Acquire
  <2>2. CASE ~PoolClosed
    <3>1. Went(h, "holding") /\ busy' = busy + 1 /\ busy < MaxConns
      BY <1>0, <1>3, <2>2, GoesWent DEF Acquire, Free
    <3>2. Cardinality(At("holding"))' = Cardinality(At("holding")) + 1
      BY <1>3, <3>1, HoldingTaken DEF Acquire
    <3>3. ProcessTypeOK' /\ leaked' \in Nat
      BY <1>0, <1>3, <3>1, <3>2 DEF Acquire, Requests, Went, PInv, ProcessTypeOK
    <3> QED
      BY <1>3, <3>1, <3>3, HandlerStep DEF Acquire
  <2> QED
    BY <2>1, <2>2
<1>4. ASSUME NEW h \in Handlers, GiveUp(h) PROVE PInv'
  <2>1. Went(h, "running")
    <3> DEFINE r == [at |-> "running", calls |-> 0]
    <3>1. r \in Handler /\ r.at = "running"
      BY DEF Handler
    <3>2. handler' = [handler EXCEPT ![h] = r]
      BY <1>4 DEF GiveUp
    <3> HIDE DEF r
    <3> QED
      BY <1>0, <3>1, <3>2, NewWent
  <2>2. Cardinality(At("holding"))' = Cardinality(At("holding"))
    BY <1>4, <2>1, HoldingKept DEF GiveUp
  <2>3. ProcessTypeOK' /\ leaked' \in Nat
    BY <1>0, <1>4, <2>1, <2>2 DEF GiveUp, Requests, Went, PInv, ProcessTypeOK
  <2> QED
    BY <1>4, <2>1, <2>3, HandlerStep DEF GiveUp
<1>5. ASSUME NEW h \in Handlers, Release(h) PROVE PInv'
  <2>1. Went(h, "running") /\ busy' = busy - 1
    BY <1>0, <1>5, GoesWent DEF Release, Released
  <2>2. /\ Cardinality(At("holding"))' = Cardinality(At("holding")) - 1
        /\ Cardinality(At("holding")) \in Nat \ {0}
    BY <1>5, <2>1, HoldingGiven DEF Release
  <2>3. ProcessTypeOK' /\ leaked' \in Nat
    BY <1>0, <1>5, <2>1, <2>2 DEF Release, Requests, Went, PInv, ProcessTypeOK
  <2> QED
    BY <1>5, <2>1, <2>3, HandlerStep DEF Release
<1>6. ASSUME NEW h \in Handlers, Abandon(h) PROVE PInv'
  <2>1. Went(h, "running")
    <3> DEFINE r == [at |-> "running", calls |-> 0]
    <3>1. r \in Handler /\ r.at = "running"
      BY DEF Handler
    <3>2. handler' = [handler EXCEPT ![h] = r]
      BY <1>6 DEF Abandon
    <3> HIDE DEF r
    <3> QED
      BY <1>0, <3>1, <3>2, NewWent
  <2>2. /\ Cardinality(At("holding"))' = Cardinality(At("holding")) - 1
        /\ Cardinality(At("holding")) \in Nat \ {0}
    BY <1>6, <2>1, HoldingGiven DEF Abandon
  <2>3. ProcessTypeOK' /\ leaked' \in Nat
    BY <1>0, <1>6, <2>1, <2>2 DEF Abandon, Requests, Went, PInv, ProcessTypeOK
  <2> QED
    BY <1>6, <2>1, <2>3, HandlerStep DEF Abandon
<1>7. ASSUME NEW h \in Handlers, Answer(h) PROVE PInv'
  <2>1. AtRest \in Handler /\ AtRest.at = "idle"
    BY DEF AtRest, Handler
  <2>2. Went(h, "idle")
    BY <1>0, <1>7, <2>1, NewWent DEF Answer
  <2>3. Cardinality(At("holding"))' = Cardinality(At("holding"))
    BY <1>7, <2>2, HoldingKept DEF Answer
  <2>4. ProcessTypeOK' /\ leaked' \in Nat
    BY <1>0, <1>7, <2>2, <2>3 DEF Answer, Requests, Went, PInv, ProcessTypeOK
  <2> QED
    BY <1>7, <2>2, <2>4, HandlerStep DEF Answer
<1>8. CASE ListenFails \/ Stop \/ ShutdownTimesOut \/ UNCHANGED processVars
  <2>1. handler' = handler /\ busy' = busy /\ leaked' = leaked
    BY <1>8 DEF ListenFails, Stop, ShutdownTimesOut, processVars
  <2>2. At("holding")' = At("holding") /\ Lost' = Lost
    BY <2>1 DEF At, Lost
  <2>3. ProcessTypeOK' /\ leaked' \in Nat
    BY <1>0, <1>8, <2>1, <2>2
    DEF ListenFails, Stop, ShutdownTimesOut, processVars, PInv, ProcessTypeOK
  <2>4. ClosedInOrder'
    BY <1>8, <2>1, <2>2
    DEF ListenFails, Stop, ShutdownTimesOut, processVars, PInv, ClosedInOrder, PoolClosed
  <2> QED
    BY <2>3, <2>4 DEF PInv
<1>9. CASE ShutdownDone
  <2>1. UNCHANGED <<handler, busy, leaked, late, listener>> /\ process = "draining" /\ process' = "closing"
    BY <1>9 DEF ShutdownDone
  <2>2. At("holding")' = At("holding") /\ Lost' = Lost
    BY <2>1 DEF At, Lost
  <2>3. \A h \in Handlers : handler[h].at = "idle"
    BY <1>9 DEF ShutdownDone, Drained
  <2>4. ProcessTypeOK' /\ leaked' \in Nat
    BY <1>0, <2>1, <2>2 DEF PInv, ProcessTypeOK
  <2>5. ClosedInOrder'
    BY <2>1, <2>2, <2>3 DEF PInv, ClosedInOrder, PoolClosed
  <2> QED
    BY <2>4, <2>5 DEF PInv
<1>10. CASE End
  <2>1. Cardinality(At("holding")) = 0 /\ leaked = 0
    BY <1>0, <1>10 DEF End, AllBack
  <2>2. At("holding") = {}
    BY <2>1, HoldingFinite, FS_EmptySet
  <2>3. \A h \in Handlers : handler[h] \in Handler /\ [handler[h] EXCEPT !.at = "cut"] \in Handler
           /\ [handler[h] EXCEPT !.at = "cut"].at = "cut"
    <3> SUFFICES ASSUME NEW h \in Handlers
                 PROVE  handler[h] \in Handler /\ [handler[h] EXCEPT !.at = "cut"] \in Handler
                          /\ [handler[h] EXCEPT !.at = "cut"].at = "cut"
      OBVIOUS
    <3>1. handler[h] \in Handler
      BY <1>0
    <3> QED
      BY <3>1, Zenon DEF Handler
  <2>4. AtRest \in Handler /\ AtRest.at = "idle"
    BY DEF AtRest, Handler
  <2>5. \A h \in Handlers :
          /\ handler'[h] \in Handler
          /\ handler[h].at = "idle" => handler'[h].at = "idle"
          /\ handler[h].at # "idle" => handler'[h].at = "cut"
    <3> DEFINE cut(h) == [handler[h] EXCEPT !.at = "cut"]
    <3>1. handler' = [h \in Handlers |-> IF handler[h].at = "idle" THEN AtRest ELSE cut(h)]
      BY <1>10 DEF End
    <3>2. \A h \in Handlers : cut(h) \in Handler /\ cut(h).at = "cut"
      BY <2>3
    <3> HIDE DEF cut
    <3> QED
      BY <2>4, <3>1, <3>2
  <2>6. handler' \in [Handlers -> Handler]
    BY <1>10, <2>5 DEF End
  <2>7. At("holding")' = {}
    BY <2>5 DEF At
  <2>8. ProcessTypeOK' /\ leaked' \in Nat
    BY <1>0, <1>10, <2>1, <2>2, <2>6, <2>7 DEF End, PInv, ProcessTypeOK
  <2>9. ClosedInOrder'
    BY <1>10, <2>5 DEF End, PInv, ClosedInOrder, PoolClosed, Lost
  <2> QED
    BY <2>8, <2>9 DEF PInv
<1> QED
  BY <1>1, <1>2, <1>3, <1>4, <1>5, <1>6, <1>7, <1>8, <1>9, <1>10 DEF ProcessNext, Progress

\* Each connection that is out has a goroutine that will give it back, or is
\* one of the abandoned ones, and there are never more than the pool has.
THEOREM ConnectionsAccounted == ProcessSpec => []ProcessTypeOK
<1>1. PInv => ProcessTypeOK
  BY DEF PInv
<1> QED
  BY <1>1, ProcessInitInv, ProcessStepInv, PTL DEF ProcessSpec

\* The process does not end in a transaction, and without Shutdown's five
\* seconds being over no request is refused or cut off.
THEOREM StopsGently == ProcessSpec => StopIsGentle
<1> DEFINE Gentle ==
             /\ process # "ended" /\ process' = "ended" => At("holding") = {}
             /\ At("refused")' \cup At("cut")' # {} => late'
<1>1. ASSUME PInv, PInv', ProcessNext PROVE Gentle
  <2>1. ASSUME process # "ended", process' = "ended" PROVE At("holding") = {}
    <3>1. busy = 0
      BY <1>1, <2>1 DEF ProcessNext, Accept, Progress, CallStore, Release, Answer, Acquire, GiveUp,
         Abandon, Requests, ListenFails, Stop, ShutdownDone, ShutdownTimesOut, End, AllBack
    <3>2. Cardinality(At("holding")) = 0
      BY <1>1, <3>1, HoldingCounted DEF PInv, ProcessTypeOK
    <3> QED
      BY <3>2, HoldingFinite, FS_EmptySet
  <2>2. At("refused")' \cup At("cut")' # {} => late'
    BY <1>1 DEF PInv, ProcessTypeOK, ClosedInOrder, Lost, At
  <2> QED
    BY <2>1, <2>2
<1>2. PInv /\ PInv' /\ [ProcessNext]_processVars => [Gentle]_processVars
  BY <1>1
<1> QED
  BY <1>2, ProcessInitInv, ProcessStepInv, PTL DEF ProcessSpec, StopIsGentle

-----------------------------------------------------------------------------
(***************************************************************************)
(* The store and the process in one model                                  *)
(***************************************************************************)

\* One of them moves, and the other stutters.
LEMMA StoreSteps ==
  [StoreNext]_storeVars => [Next]_vars /\ [ProcessNext]_processVars
BY DEF StoreNext, storeVars

\* Whichever moves: the rows, locks and abandoned transactions of the store
\* keep their types, and each connection of the pool that is out has a
\* goroutine that will give it back or is an abandoned one.
THEOREM StoreTypesCorrect == StoreSpec => []StoreTypeOK
<1>1. StoreInit => StoreInv /\ PInv
  BY StoreInitInv, ProcessInitInv DEF StoreInit
<1>2. StoreInv /\ PInv /\ [StoreNext]_storeVars => StoreInv' /\ PInv'
  BY StoreSteps, StoreStepInv, ProcessStepInv
<1>3. StoreInv => TypeOK
  BY DEF StoreInv, StoreTypes, Good, Shape, TypeOK
<1>4. StoreInv /\ PInv => StoreTypeOK
  BY <1>3 DEF PInv, StoreTypeOK
<1> QED
  BY <1>1, <1>2, <1>4, PTL DEF StoreSpec
=============================================================================
