----------------------------- MODULE FetchQueue -----------------------------
(***************************************************************************)
(* The fetch pipeline: the items table used as a work queue.               *)
(*                                                                         *)
(* The API inserts items with fetch_status 'pending' and sets              *)
(* refetch_requested on demand (internal/store/store.go).  Once a minute a *)
(* worker process (cmd/worker/main.go) claims a batch in one transaction,  *)
(* fetches the pages of the batch in at most SemSize goroutines, and       *)
(* writes each outcome back on its own.  Nothing but the status column     *)
(* says that an item is being worked on: there is no lease and no owner.   *)
(*                                                                         *)
(* An item id stands for its place in created_at order; ids are never      *)
(* used twice (gen_random_uuid).  A key is a user together with a          *)
(* canonical URL hash.  A page, and so a copy of it, is its version: 0 is  *)
(* the empty title and the absent item_contents row.                       *)
(***************************************************************************)
EXTENDS Naturals, FiniteSets

CONSTANTS
    Keys,        \* <<user_id, canonical_hash>> pairs
    MaxItems,    \* bound: items ever created
    Workers,     \* worker processes
    ClaimLimit,  \* the LIMIT of the claim: 50 in the code
    SemSize,     \* capacity of the semaphore channel: 10 in the code
    Reasons,     \* what classifyFetchError can answer
    MaxVersion,  \* bound: versions of a page
    Unstorable,  \* versions whose text PostgreSQL rejects (not valid UTF-8)
    MaxFaults,   \* bound: crashes and database errors
    NoRow, NoJob

Items == 1 .. MaxItems
Versions == 1 .. MaxVersion

ASSUME BoundsAssumption ==
    /\ MaxItems \in Nat /\ MaxVersion \in Nat \ {0} /\ MaxFaults \in Nat
    /\ ClaimLimit \in Nat \ {0} /\ SemSize \in Nat \ {0}
    /\ Unstorable \subseteq Versions

VARIABLES
    rows,      \* table items
    contents,  \* table item_contents: the version kept for each item
    made,      \* how many items were ever inserted
    site,      \* the current version of the page behind each key
    up,        \* is the worker process running
    jobs,      \* the goroutines of each worker, by item
    owed,      \* history: refetch accepted and no fetch begun since
    dropped,   \* history: items whose job ended without an outcome written
    faults     \* crashes and database errors so far

vars == <<rows, contents, made, site, up, jobs, owed, dropped, faults>>

Status == {"pending", "fetching", "success", "failed"}
Row == [key : Keys, status : Status, error : Reasons \cup {""},
        refetch : BOOLEAN, title : 0 .. MaxVersion]
Job == [key : Keys, forced : BOOLEAN, version : 0 .. MaxVersion,
        phase : {"claimed", "fetching", "fetched"} \cup Reasons]

ASSUME ValuesAssumption ==
    /\ NoRow \notin Row \cup Keys /\ NoJob \notin Job
    /\ Reasons \cap {"", "claimed", "fetching", "fetched"} = {}

TypeOK ==
    /\ rows \in [Items -> Row \cup {NoRow}]
    /\ contents \in [Items -> 0 .. MaxVersion]
    /\ made \in 0 .. MaxItems
    /\ site \in [Keys -> Versions]
    /\ up \in [Workers -> BOOLEAN]
    /\ jobs \in [Workers -> [Items -> Job \cup {NoJob}]]
    /\ owed \in SUBSET Items /\ dropped \in SUBSET Items
    /\ faults \in 0 .. MaxFaults

Live(i) == rows[i] # NoRow
Busy(w) == {i \in Items : jobs[w][i] # NoJob}

(***************************************************************************)
(* The rows the statements of the store write.                             *)
(***************************************************************************)
\* Mutants: the operators named ...Bug are wrong on purpose.  Each is a slip
\* that the code could have made; put in the place of the operator it follows
\* in name, it breaks the property it was written for.
NewRow(k) == [key |-> k, status |-> "pending", error |-> "",
              refetch |-> FALSE, title |-> 0]
ClaimedRowBug(r) == r  \* the claim forgets to mark the row
ClaimedRow(r) == [r EXCEPT !.status = "fetching"]
RequestedRowBug(r) == [r EXCEPT !.refetch = TRUE, !.status = "pending"]
RequestedRow(r) == [r EXCEPT !.refetch = TRUE]
SuccessRowBug(r, v) == [r EXCEPT !.error = "", !.refetch = FALSE, !.title = v]
SuccessRow(r, v) == [r EXCEPT !.status = "success", !.error = "",
                              !.refetch = FALSE, !.title = v]
FailedRowSwapBug(r, e) == [r EXCEPT !.status = e, !.error = "failed", !.refetch = FALSE]
FailedRowRetryBug(r, e) == [r EXCEPT !.status = "pending", !.error = e, !.refetch = FALSE]
FailedRow(r, e) == [r EXCEPT !.status = "failed", !.error = e,
                             !.refetch = FALSE]
NewJob(r) == [key |-> r.key, forced |-> r.refetch, version |-> 0,
              phase |-> "claimed"]

(***************************************************************************)
(* The claim: WHERE fetch_status='pending' OR refetch_requested ORDER BY   *)
(* created_at FOR UPDATE SKIP LOCKED LIMIT ClaimLimit.                     *)
(***************************************************************************)
ClaimableBug == {i \in Items : Live(i) /\ rows[i].status # "fetching"
                              /\ (rows[i].status = "pending" \/ rows[i].refetch)}
Claimable == {i \in Items : Live(i) /\ (rows[i].status = "pending" \/ rows[i].refetch)}
BatchNewestBug(locked) ==
    {i \in Claimable \ locked :
        Cardinality({j \in Claimable \ locked : j > i}) < ClaimLimit}
Batch(locked) ==
    {i \in Claimable \ locked :
        Cardinality({j \in Claimable \ locked : j < i}) < ClaimLimit}

\* A goroutine holds its place in the semaphore until it returns.
Started(w) == {i \in Busy(w) : jobs[w][i].phase # "claimed"}
SlotFree(w) == Cardinality(Started(w)) < SemSize

Init ==
    /\ rows = [i \in Items |-> NoRow]
    /\ contents = [i \in Items |-> 0]
    /\ made = 0
    /\ site = [k \in Keys |-> 1]
    /\ up = [w \in Workers |-> TRUE]
    /\ jobs = [w \in Workers |-> [i \in Items |-> NoJob]]
    /\ owed = {} /\ dropped = {}
    /\ faults = 0

(***************************************************************************)
(* API requests.  A request for a key that is already saved, or for an     *)
(* item of another user, changes nothing here.                             *)
(***************************************************************************)
CreateItemBug(k) ==  \* no ON CONFLICT (user_id, canonical_hash)
    /\ made < MaxItems
    /\ made' = made + 1
    /\ rows' = [rows EXCEPT ![made + 1] = NewRow(k)]
    /\ UNCHANGED <<contents, site, up, jobs, owed, dropped, faults>>

CreateItem(k) ==
    /\ made < MaxItems
    /\ \A i \in Items : Live(i) => rows[i].key # k
    /\ made' = made + 1
    /\ rows' = [rows EXCEPT ![made + 1] = NewRow(k)]
    /\ UNCHANGED <<contents, site, up, jobs, owed, dropped, faults>>

DeleteItemBug(i) ==  \* item_contents is left behind
    /\ Live(i)
    /\ rows' = [rows EXCEPT ![i] = NoRow]
    /\ owed' = owed \ {i}
    /\ UNCHANGED <<contents, made, site, up, jobs, dropped, faults>>

DeleteItem(i) ==
    /\ Live(i)
    /\ rows' = [rows EXCEPT ![i] = NoRow]
    /\ contents' = [contents EXCEPT ![i] = 0]
    /\ owed' = owed \ {i}
    /\ UNCHANGED <<made, site, up, jobs, dropped, faults>>

RequestRefetch(i) ==
    /\ Live(i)
    /\ rows' = [rows EXCEPT ![i] = RequestedRow(@)]
    /\ owed' = owed \cup {i}
    /\ UNCHANGED <<contents, made, site, up, jobs, dropped, faults>>

(***************************************************************************)
(* The worker.  runOnce ends with wg.Wait, so a worker claims only when    *)
(* every goroutine of its last batch has returned.  `locked' are the rows  *)
(* other transactions hold at that instant.                                *)
(***************************************************************************)
ClaimRows(batch) ==
    rows' = [i \in Items |-> IF i \in batch THEN ClaimedRow(rows[i]) ELSE rows[i]]

Idle(w) == up[w] /\ Busy(w) = {}

Claim(w, locked) ==
    LET batch == Batch(locked) IN
    /\ Idle(w)
    /\ batch # {}
    /\ ClaimRows(batch)
    /\ jobs' = [jobs EXCEPT ![w] =
            [i \in Items |-> IF i \in batch THEN NewJob(rows[i]) ELSE NoJob]]
    /\ dropped' = dropped \ batch
    /\ UNCHANGED <<contents, made, site, up, owed, faults>>

\* The commit is applied but its answer is lost: runOnce only logs the error.
ClaimLost(w, locked) ==
    LET batch == Batch(locked) IN
    /\ Idle(w)
    /\ batch # {}
    /\ faults < MaxFaults
    /\ ClaimRows(batch)
    /\ dropped' = dropped \cup batch
    /\ faults' = faults + 1
    /\ UNCHANGED <<contents, made, site, up, jobs, owed>>

JobAt(w, i, phase) == i \in Busy(w) /\ jobs[w][i].phase = phase

\* `sem <- struct{}{}' in the order of the claim, then the goroutine starts.
StartFetch(w, i) ==
    /\ JobAt(w, i, "claimed")
    /\ \A j \in Busy(w) : j < i => jobs[w][j].phase # "claimed"
    /\ SlotFree(w)
    /\ jobs' = [jobs EXCEPT ![w][i].phase = "fetching"]
    /\ owed' = owed \ {i}
    /\ UNCHANGED <<rows, contents, made, site, up, dropped, faults>>

FetchOk(w, i) ==
    /\ JobAt(w, i, "fetching")
    /\ jobs' = [jobs EXCEPT ![w][i].phase = "fetched",
                            ![w][i].version = site[jobs[w][i].key]]
    /\ UNCHANGED <<rows, contents, made, site, up, owed, dropped, faults>>

FetchFail(w, i, reason) ==
    /\ JobAt(w, i, "fetching")
    /\ jobs' = [jobs EXCEPT ![w][i].phase = reason]
    /\ UNCHANGED <<rows, contents, made, site, up, owed, dropped, faults>>

EndJob(w, i) == jobs' = [jobs EXCEPT ![w][i] = NoJob]

\* UpdateFetchSuccess.  For an item deleted meanwhile the first statement
\* matches no row and the second breaks the foreign key: nothing is kept.
StoreSuccess(w, i) ==
    LET v == jobs[w][i].version IN
    /\ JobAt(w, i, "fetched")
    /\ v \notin Unstorable
    /\ EndJob(w, i)
    /\ IF Live(i)
       THEN /\ rows' = [rows EXCEPT ![i] = SuccessRow(@, v)]
            /\ contents' = [contents EXCEPT ![i] = v]
       ELSE UNCHANGED <<rows, contents>>
    /\ UNCHANGED <<made, site, up, owed, dropped, faults>>

\* UpdateFetchFailure.
StoreFailure(w, i, reason) ==
    /\ JobAt(w, i, reason)
    /\ EndJob(w, i)
    /\ rows' = IF Live(i) THEN [rows EXCEPT ![i] = FailedRow(@, reason)] ELSE rows
    /\ UNCHANGED <<contents, made, site, up, owed, dropped, faults>>

\* PostgreSQL rejects the page's text; the goroutine logs and returns.
StoreRejected(w, i) ==
    /\ JobAt(w, i, "fetched")
    /\ jobs[w][i].version \in Unstorable
    /\ EndJob(w, i)
    /\ dropped' = dropped \cup {i}
    /\ UNCHANGED <<rows, contents, made, site, up, owed, faults>>

\* The store call fails for a reason of its own; the worker ignores the error
\* of UpdateFetchFailure and only logs that of UpdateFetchSuccess.
StoreLost(w, i) ==
    /\ i \in Busy(w)
    /\ jobs[w][i].phase \in {"fetched"} \cup Reasons
    /\ faults < MaxFaults
    /\ EndJob(w, i)
    /\ dropped' = dropped \cup {i}
    /\ faults' = faults + 1
    /\ UNCHANGED <<rows, contents, made, site, up, owed>>

\* The process dies, or SIGKILL ends it: SIGTERM is read between ticks only.
Crash(w) ==
    /\ up[w]
    /\ faults < MaxFaults
    /\ up' = [up EXCEPT ![w] = FALSE]
    /\ jobs' = [jobs EXCEPT ![w] = [i \in Items |-> NoJob]]
    /\ dropped' = dropped \cup Busy(w)
    /\ faults' = faults + 1
    /\ UNCHANGED <<rows, contents, made, site, owed>>

Restart(w) ==
    /\ ~up[w]
    /\ up' = [up EXCEPT ![w] = TRUE]
    /\ UNCHANGED <<rows, contents, made, site, jobs, owed, dropped, faults>>

\* External: the page behind a key gets a new version.
SiteChanges(k) ==
    /\ site[k] < MaxVersion
    /\ site' = [site EXCEPT ![k] = @ + 1]
    /\ UNCHANGED <<rows, contents, made, up, jobs, owed, dropped, faults>>

Fetch(w, i) == FetchOk(w, i) \/ \E e \in Reasons : FetchFail(w, i, e)
StoreOutcome(w, i) ==
    \/ StoreSuccess(w, i)
    \/ \E e \in Reasons : StoreFailure(w, i, e)
    \/ StoreRejected(w, i)

Next ==
    \/ \E k \in Keys : CreateItem(k) \/ SiteChanges(k)
    \/ \E i \in Items : DeleteItem(i) \/ RequestRefetch(i)
    \/ \E w \in Workers :
        \/ \E locked \in SUBSET Items : Claim(w, locked) \/ ClaimLost(w, locked)
        \/ \E i \in Items : \/ StartFetch(w, i) \/ Fetch(w, i)
                            \/ StoreOutcome(w, i) \/ StoreLost(w, i)
        \/ Crash(w) \/ Restart(w)

Spec == Init /\ [][Next]_vars

(***************************************************************************)
(* Fairness.  A goroutine runs on, its fetch ends within the 12 s of its   *)
(* context, and the database answers; the container restarts a dead        *)
(* worker; a worker ticks every minute while row locks last milliseconds,  *)
(* so it is not always some lock that hides an item from the claim (SF).   *)
(* Users, sites and faults are under no obligation.                        *)
(***************************************************************************)
WorkerFairness ==
    \A w \in Workers :
        /\ SF_vars(Claim(w, {}))
        /\ WF_vars(Restart(w))
        /\ \A i \in Items : /\ WF_vars(StartFetch(w, i))
                            /\ WF_vars(Fetch(w, i))
                            /\ WF_vars(StoreOutcome(w, i))

FairSpec == Spec /\ WorkerFairness
-----------------------------------------------------------------------------
(***************************************************************************)
(* Safety.                                                                 *)
(***************************************************************************)

\* An item that says `fetching' has a goroutine working on it, or its job
\* ended without writing an outcome.  Nothing else strands an item: not a
\* delete, a refetch, a second worker, or rows the claim skipped.
FetchingAccounted ==
    \A i \in Items :
        Live(i) /\ rows[i].status = "fetching"
            => i \in dropped \/ \E w \in Workers : i \in Busy(w)

\* The claim keeps two workers off one item (FOR UPDATE SKIP LOCKED and the
\* status): they meet on an item only when one of them was sent there by a
\* refetch request.
OverlapOnlyByRefetch ==
    \A v, w \in Workers : v # w =>
        \A i \in Busy(v) \cap Busy(w) :
            Live(i) => jobs[v][i].forced \/ jobs[w][i].forced

\* The columns that the two statements of UpdateFetchSuccess, and the other
\* writers, leave in the two tables never disagree: title and text come from
\* one fetch, the last that succeeded, and status and error from the last that
\* ended (a later failure leaves the older title and text in place).
RowMatchesContents ==
    \A i \in Items :
        /\ ~Live(i) => contents[i] = 0
        /\ Live(i) =>
            /\ rows[i].title = contents[i]
            /\ rows[i].status = "pending" => contents[i] = 0 /\ rows[i].error = ""
            /\ rows[i].status = "success" => contents[i] > 0 /\ rows[i].error = ""
            /\ rows[i].status = "failed" => rows[i].error # ""

\* With one worker process: as long as a job is out for an item, the item
\* says `fetching', whatever requests and deletes come in between.
OneWorker == \A v, w \in Workers : v = w
JobShowsFetching ==
    OneWorker => \A w \in Workers : \A i \in Busy(w) :
                    Live(i) => rows[i].status = "fetching"

\* A refetch that was answered `queued' (handleRefetchItem) stays requested
\* until a fetch begins after it.
QueuedRefetchKept == \A i \in owed : rows[i].refetch

(***************************************************************************)
(* What a reader is promised.  NoRow serves as the abstract `not saved'.   *)
(***************************************************************************)
SavedKey == [i \in Items |-> IF Live(i) THEN rows[i].key ELSE NoRow]
Reader == INSTANCE Archive
            WITH saved <- SavedKey, copy <- contents, NoKey <- NoRow

\* With one worker process the pipeline implements the archive: a reader
\* never sees an older copy after a newer one, nor a copy of another page,
\* nor one that outlives its item.
ReaderSpec == Reader!Spec

(***************************************************************************)
(* Liveness, under FairSpec.                                               *)
(***************************************************************************)
Settled(i) == Live(i) => rows[i].status \in {"success", "failed"}

\* Every saved item gets its outcome, or is deleted (README.md 3: the worker
\* fetches the contents every minute).  The code breaks it: see findings.
EveryItemFetched == \A i \in Items : ~Settled(i) ~> Settled(i)

\* The claim passes an item over while older rows fill its LIMIT.
Behind(i) == Cardinality({j \in Claimable : j < i}) >= ClaimLimit
ServedInTurn(i) == <>[]~Behind(i)

\* The same, but for an item whose job was dropped, by a fault or because
\* PostgreSQL rejected its page, and for one that is kept behind older rows
\* again and again (store.go 494-501): refetch requests of older items can
\* keep a younger one waiting for ever, and so can an older page that cannot
\* be stored.
SettledOrDropped ==
    \A i \in Items :
        ServedInTurn(i) => (~Settled(i) ~> (Settled(i) \/ i \in dropped))

\* The claim takes the oldest rows first, and refetch requests of older items
\* can keep a younger one waiting for ever; the oldest item never starves,
\* even with a batch of one (store.go 494-501).
Oldest(i) == Live(i) /\ \A j \in Items : j < i => ~Live(j)
OldestItemServed ==
    \A i \in Items : (Oldest(i) /\ ~Settled(i)) ~> (Settled(i) \/ i \in dropped)

\* The way out for a stranded item is a refetch request: whatever faults do,
\* it is served in the end and the item settles, on two conditions.  Older rows
\* do not keep it out of the batch for ever, and the page does not stay one
\* that PostgreSQL rejects: such an item is claimed, fetched and rejected
\* again every minute, and takes its place in each batch.
StorablePage(i) == Live(i) => site[rows[i].key] \notin Unstorable
RefetchServed ==
    \A i \in Items :
        ServedInTurn(i) /\ <>[]StorablePage(i) =>
            (Live(i) /\ rows[i].refetch
                ~> (Live(i) => ~rows[i].refetch /\ rows[i].status \in {"success", "failed"}))
=============================================================================
