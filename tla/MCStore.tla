------------------------------- MODULE MCStore -------------------------------
(***************************************************************************)
(* Two parts that share no variable, in one model: the transactions of one *)
(* editor, and the API process with its pool.  A behaviour of both is one  *)
(* of each, so one of them moves and the other stays as it began.          *)
(***************************************************************************)
EXTENDS MCTagStore, ApiProcess

VARIABLE side  \* which one moves

StoreInit == side \in {"store", "process"} /\ Init /\ ProcessInit

StoreNext ==
    /\ UNCHANGED side
    /\ IF side = "store" THEN Next ELSE UNCHANGED vars
    /\ IF side = "process" THEN ProcessNext ELSE UNCHANGED processVars

storeVars == <<side, vars, processVars>>

\* ProcessFairness; the properties of the store need none.
OnProcess(A) == side = "process" /\ A /\ UNCHANGED <<side, vars>>
StoreFairness ==
    /\ \A h \in Handlers :
        WF_storeVars(OnProcess(Progress(h))) /\ SF_storeVars(OnProcess(Acquire(h)))
    /\ WF_storeVars(OnProcess(ShutdownTimesOut)) /\ WF_storeVars(OnProcess(End))

\* The types of both, and that each busy connection has somebody.
StoreTypeOK == TypeOK /\ ProcessTypeOK

StoreSpec == StoreInit /\ [][StoreNext]_storeVars /\ StoreFairness
=============================================================================
