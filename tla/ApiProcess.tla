----------------------------- MODULE ApiProcess -----------------------------
(***************************************************************************)
(* The API process (cmd/api/main.go): its listener, the goroutines of its  *)
(* requests, the pool of connections they share (internal/db), and how it  *)
(* stops: Shutdown waits five seconds for the requests, and the deferred   *)
(* pool.Close waits for the connections that are out.                      *)
(***************************************************************************)
EXTENDS Naturals, FiniteSets

CONSTANTS
    Handlers,  \* goroutines of net/http
    MaxConns,  \* connections of the pool: 10
    MaxCalls   \* bound: calls of the store that one request makes

ASSUME ProcessAssumption ==
    MaxConns \in Nat \ {0} /\ MaxCalls \in Nat /\ IsFiniteSet(Handlers)

VARIABLES
    process,   \* what main does
    listener,  \* ListenAndServe runs
    handler,   \* by goroutine: where it is, and the calls it has to make yet
    busy,      \* connections of the pool that are out
    leaked,    \* those of them that nobody will give back
    late       \* history: Shutdown gave up waiting

processVars == <<process, listener, handler, busy, leaked, late>>

\* `acquiring' waits for a connection, `holding' has one; `refused' got an
\* error from the pool because it is closed; `cut' ended with the process.
Handler == [at : {"idle", "running", "acquiring", "holding", "refused", "cut"},
            calls : 0 .. MaxCalls]
AtRest == [at |-> "idle", calls |-> 0]
At(place) == {h \in Handlers : handler[h].at = place}

\* Each connection that is out has a goroutine that will give it back, or is
\* one of DeleteItem's abandoned transactions (store.go 301-326).
ProcessTypeOK ==
    /\ process \in {"serving", "draining", "closing", "ended"}
    /\ listener \in BOOLEAN
    /\ handler \in [Handlers -> Handler]
    /\ busy \in 0 .. MaxConns
    /\ busy = Cardinality(At("holding")) + leaked
    /\ late \in BOOLEAN

ProcessInit ==
    /\ process = "serving"
    /\ listener = TRUE
    /\ handler = [h \in Handlers |-> AtRest]
    /\ busy = 0
    /\ leaked = 0
    /\ late = FALSE

-----------------------------------------------------------------------------
Goes(h, place) == handler' = [handler EXCEPT ![h].at = place]
PoolClosed == process \in {"closing", "ended"}
Requests == UNCHANGED <<process, listener, late>>

Accept(h) ==
    /\ listener
    /\ handler[h].at = "idle"
    /\ \E n \in 0 .. MaxCalls : handler' = [handler EXCEPT ![h] = [at |-> "running", calls |-> n]]
    /\ Requests
    /\ UNCHANGED <<busy, leaked>>

\* The next call of the store.
CallStore(h) ==
    /\ handler[h].at = "running" /\ handler[h].calls > 0
    /\ handler' = [handler EXCEPT ![h] = [at |-> "acquiring", calls |-> @.calls - 1]]
    /\ Requests
    /\ UNCHANGED <<busy, leaked>>

FreeBug == busy < MaxConns - 1
Free == busy < MaxConns
Acquire(h) ==
    /\ handler[h].at = "acquiring"
    /\ IF PoolClosed THEN Goes(h, "refused") /\ UNCHANGED busy
       ELSE Free /\ Goes(h, "holding") /\ busy' = busy + 1
    /\ Requests
    /\ UNCHANGED leaked

\* The client is gone: the context of the call is cancelled.
GiveUp(h) ==
    /\ handler[h].at = "acquiring"
    /\ handler' = [handler EXCEPT ![h] = [at |-> "running", calls |-> 0]]
    /\ Requests
    /\ UNCHANGED <<busy, leaked>>

\* The call ends by a commit or a rollback, or rows are closed.
ReleasedBug(n) == n
Released(n) == n - 1
Release(h) ==
    /\ handler[h].at = "holding"
    /\ Goes(h, "running")
    /\ busy' = Released(busy)
    /\ Requests
    /\ UNCHANGED leaked

\* DeleteItem of an item that is not there, see TagStore.
Abandon(h) ==
    /\ handler[h].at = "holding"
    /\ handler' = [handler EXCEPT ![h] = [at |-> "running", calls |-> 0]]
    /\ leaked' = leaked + 1
    /\ Requests
    /\ UNCHANGED busy

Answer(h) ==
    /\ \/ handler[h].at = "running" /\ handler[h].calls = 0
       \/ handler[h].at = "refused"
    /\ handler' = [handler EXCEPT ![h] = AtRest]
    /\ Requests
    /\ UNCHANGED <<busy, leaked>>

-----------------------------------------------------------------------------
\* ListenAndServe returns an error: it is logged, and main waits on.
ListenFails ==
    /\ process = "serving" /\ listener
    /\ listener' = FALSE
    /\ UNCHANGED <<process, handler, busy, leaked, late>>

\* SIGTERM: Shutdown closes the listener.
Stop ==
    /\ process = "serving"
    /\ process' = "draining"
    /\ listener' = FALSE
    /\ UNCHANGED <<handler, busy, leaked, late>>

DrainedBug == TRUE
Drained == \A h \in Handlers : handler[h].at = "idle"

\* Shutdown returns: the requests are done, or five seconds are over.  Then
\* pool.Close refuses who waits and whoever comes.
ShutdownDone ==
    /\ process = "draining"
    /\ Drained
    /\ process' = "closing"
    /\ UNCHANGED <<listener, handler, busy, leaked, late>>

ShutdownTimesOut ==
    /\ process = "draining"
    /\ process' = "closing"
    /\ late' = TRUE
    /\ UNCHANGED <<listener, handler, busy, leaked>>

\* pool.Close has all connections back, and main returns.
AllBackBug == TRUE
AllBack == busy = 0
End ==
    /\ process = "closing"
    /\ AllBack
    /\ process' = "ended"
    /\ handler' = [h \in Handlers |->
                     IF handler[h].at = "idle" THEN AtRest ELSE [handler[h] EXCEPT !.at = "cut"]]
    /\ UNCHANGED <<listener, busy, leaked, late>>

Progress(h) == CallStore(h) \/ Release(h) \/ Answer(h)

ProcessNext ==
    \/ \E h \in Handlers : Accept(h) \/ Progress(h) \/ Acquire(h) \/ GiveUp(h) \/ Abandon(h)
    \/ ListenFails \/ Stop \/ ShutdownDone \/ ShutdownTimesOut \/ End

\* Goroutines run on, PostgreSQL answers, the pool hands connections out in
\* the order of asking, and the timer of Shutdown fires.  Nothing makes
\* clients ask or leave, or the operator stop the process.
ProcessFairness ==
    /\ \A h \in Handlers : WF_processVars(Progress(h)) /\ SF_processVars(Acquire(h))
    /\ WF_processVars(ShutdownTimesOut) /\ WF_processVars(End)

ProcessSpec == ProcessInit /\ [][ProcessNext]_processVars /\ ProcessFairness
-----------------------------------------------------------------------------
(***************************************************************************)
(* Properties                                                              *)
(***************************************************************************)

\* The process does not end in the middle of a transaction, although
\* Shutdown stops waiting for handlers that still have one; and a request is
\* refused by the closed pool, or its answer cut off, only after Shutdown has
\* waited its five seconds (main.go 30, 57-59).
StopIsGentle ==
    [][/\ process # "ended" /\ process' = "ended" => At("holding") = {}
       /\ At("refused")' \cup At("cut")' # {} => late']_processVars

\* A request that is accepted ends, while transactions are abandoned by less
\* than the pool has connections (main.go 30, db.go 15, store.go 325).
RequestsEnd ==
    \A h \in Handlers :
        handler[h].at # "idle" ~> handler[h].at \in {"idle", "cut"} \/ leaked = MaxConns

\* A process that is asked to stop does, if no transaction was abandoned:
\* one is enough, and pool.Close waits for it for ever (main.go 30, 55-60).
StopsUnlessLeaked == process = "draining" ~> process = "ended" \/ leaked > 0
=============================================================================
