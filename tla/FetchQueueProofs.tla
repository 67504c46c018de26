-------------------------- MODULE FetchQueueProofs --------------------------
(***************************************************************************)
(* Proofs about FetchQueue for any number of items, keys and workers, any  *)
(* batch and semaphore size and any number of faults.                      *)
(***************************************************************************)
EXTENDS FetchQueue, TLAPS

-----------------------------------------------------------------------------
(***************************************************************************)
(* Type correctness.                                                       *)
(***************************************************************************)

\* What each statement writes is a row again.
LEMMA RowsWritten ==
    /\ \A k \in Keys : NewRow(k) \in Row
    /\ \A r \in Row : /\ ClaimedRow(r) \in Row
                      /\ RequestedRow(r) \in Row
                      /\ \A v \in 0 .. MaxVersion : SuccessRow(r, v) \in Row
                      /\ \A e \in Reasons : FailedRow(r, e) \in Row
                      /\ NewJob(r) \in Job
<1>1. 0 \in 0 .. MaxVersion
  BY BoundsAssumption
<1> QED
  BY <1>1 DEF NewRow, ClaimedRow, RequestedRow, SuccessRow, FailedRow, NewJob,
              Row, Job, Status

\* The claim takes live rows that ask for a fetch, and none of the locked.
LEMMA BatchClaimable ==
    ASSUME NEW locked \in SUBSET Items, NEW i \in Batch(locked)
    PROVE  /\ i \in Items /\ Live(i)
           /\ rows[i].status = "pending" \/ rows[i].refetch
BY DEF Batch, Claimable

LEMMA TypeInit == Init => TypeOK
BY BoundsAssumption DEF Init, TypeOK, Items, Versions

LEMMA TypeStep == TypeOK /\ [Next]_vars => TypeOK'
<1> SUFFICES ASSUME TypeOK, [Next]_vars PROVE TypeOK'
  OBVIOUS
<1> USE DEF TypeOK, Live, Busy
<1>1. ASSUME NEW k \in Keys, CreateItem(k) PROVE TypeOK'
  <2>1. made + 1 \in Items /\ made' \in 0 .. MaxItems
    BY <1>1, BoundsAssumption DEF CreateItem, Items
  <2> QED
    BY <1>1, <2>1, RowsWritten DEF CreateItem
<1>2. ASSUME NEW k \in Keys, SiteChanges(k) PROVE TypeOK'
  BY <1>2, BoundsAssumption DEF SiteChanges, Versions
<1>3. ASSUME NEW i \in Items, DeleteItem(i) PROVE TypeOK'
  BY <1>3, BoundsAssumption DEF DeleteItem
<1>4. ASSUME NEW i \in Items, RequestRefetch(i) PROVE TypeOK'
  BY <1>4, RowsWritten DEF RequestRefetch
<1>5. ASSUME NEW w \in Workers, NEW locked \in SUBSET Items, Claim(w, locked)
      PROVE TypeOK'
  <2>1. \A i \in Batch(locked) : i \in Items /\ rows[i] \in Row
    BY BatchClaimable
  <2>2. rows' \in [Items -> Row \cup {NoRow}]
    BY <1>5, <2>1, RowsWritten DEF Claim, ClaimRows
  <2>3. [i \in Items |-> IF i \in Batch(locked) THEN NewJob(rows[i]) ELSE NoJob]
            \in [Items -> Job \cup {NoJob}]
    BY <2>1, RowsWritten
  <2>4. jobs' \in [Workers -> [Items -> Job \cup {NoJob}]]
    BY <1>5, <2>3 DEF Claim
  <2> QED
    BY <1>5, <2>2, <2>4 DEF Claim
<1>6. ASSUME NEW w \in Workers, NEW locked \in SUBSET Items, ClaimLost(w, locked)
      PROVE TypeOK'
  <2>1. \A i \in Batch(locked) : i \in Items /\ rows[i] \in Row
    BY BatchClaimable
  <2>2. rows' \in [Items -> Row \cup {NoRow}]
    BY <1>6, <2>1, RowsWritten DEF ClaimLost, ClaimRows
  <2> QED
    BY <1>6, <2>1, <2>2, BoundsAssumption DEF ClaimLost
<1>7. ASSUME NEW w \in Workers, NEW i \in Items, StartFetch(w, i) PROVE TypeOK'
  <2> DEFINE job == [jobs[w][i] EXCEPT !.phase = "fetching"]
  <2>1. job \in Job
    BY <1>7 DEF StartFetch, JobAt, Job
  <2>2. jobs' = [jobs EXCEPT ![w] = [jobs[w] EXCEPT ![i] = job]]
    BY <1>7 DEF StartFetch
  <2> HIDE DEF job
  <2>3. jobs' \in [Workers -> [Items -> Job \cup {NoJob}]]
    BY <2>1, <2>2 DEF TypeOK
  <2>4. UNCHANGED <<rows, contents, made, site, up, dropped, faults>> /\ owed' \subseteq owed
    BY <1>7 DEF StartFetch
  <2> QED
    BY <2>3, <2>4 DEF TypeOK
<1>8. ASSUME NEW w \in Workers, NEW i \in Items, FetchOk(w, i) PROVE TypeOK'
  <2> DEFINE v == site[jobs[w][i].key]
             job == [jobs[w][i] EXCEPT !.phase = "fetched", !.version = v]
  <2>1. v \in 0 .. MaxVersion
    BY <1>8 DEF FetchOk, JobAt, Job, Versions
  <2>2. jobs' = [jobs EXCEPT ![w] = [jobs[w] EXCEPT ![i] = job]]
    BY <1>8 DEF FetchOk
  <2> HIDE DEF v
  <2>3. jobs[w][i] \in Job
    BY <1>8 DEF FetchOk, JobAt
  <2>4. job \in Job
    BY <2>1, <2>3 DEF Job
  <2> HIDE DEF job
  <2>5. jobs' \in [Workers -> [Items -> Job \cup {NoJob}]]
    BY <2>2, <2>4
  <2> QED
    BY <1>8, <2>5 DEF FetchOk
<1>9. ASSUME NEW w \in Workers, NEW i \in Items, NEW e \in Reasons, FetchFail(w, i, e)
      PROVE TypeOK'
  BY <1>9 DEF FetchFail, JobAt, Job
<1>10. ASSUME NEW w \in Workers, NEW i \in Items, StoreSuccess(w, i) PROVE TypeOK'
  <2>1. jobs[w][i].version \in 0 .. MaxVersion
    BY <1>10 DEF StoreSuccess, JobAt, Job
  <2>2. rows' \in [Items -> Row \cup {NoRow}]
    <3>1. Live(i) => SuccessRow(rows[i], jobs[w][i].version) \in Row
      BY <2>1, RowsWritten
    <3> QED
      BY <1>10, <3>1 DEF StoreSuccess
  <2>3. contents' \in [Items -> 0 .. MaxVersion]
    BY <1>10, <2>1 DEF StoreSuccess
  <2> QED
    BY <1>10, <2>2, <2>3 DEF StoreSuccess, EndJob
<1>11. ASSUME NEW w \in Workers, NEW i \in Items, NEW e \in Reasons, StoreFailure(w, i, e)
       PROVE TypeOK'
  BY <1>11, RowsWritten DEF StoreFailure, EndJob
<1>12. ASSUME NEW w \in Workers, NEW i \in Items, StoreRejected(w, i) PROVE TypeOK'
  BY <1>12 DEF StoreRejected, EndJob
<1>13. ASSUME NEW w \in Workers, NEW i \in Items, StoreLost(w, i) PROVE TypeOK'
  BY <1>13, BoundsAssumption DEF StoreLost, EndJob
<1>14. ASSUME NEW w \in Workers, Crash(w) PROVE TypeOK'
  BY <1>14, BoundsAssumption DEF Crash
<1>15. ASSUME NEW w \in Workers, Restart(w) PROVE TypeOK'
  BY <1>15 DEF Restart
<1>16. CASE UNCHANGED vars
  BY <1>16 DEF vars
<1> QED
  BY <1>1, <1>2, <1>3, <1>4, <1>5, <1>6, <1>7, <1>8, <1>9, <1>10, <1>11, <1>12,
     <1>13, <1>14, <1>15, <1>16 DEF Next, Fetch, StoreOutcome

\* The tables and the goroutines keep their shapes: every statement writes a
\* row with one of the four statuses the schema allows.
THEOREM TypeCorrect == Spec => []TypeOK
BY TypeInit, TypeStep, PTL DEF Spec

-----------------------------------------------------------------------------
(***************************************************************************)
(* The inductive invariant.  The safety invariants lean on three facts     *)
(* that they do not say themselves: an id that has not been given out is   *)
(* nowhere, an item that is still pending was never claimed (so an         *)
(* unforced claim finds no other job on it), and a fetched page has a      *)
(* version.                                                                *)
(***************************************************************************)
FreshIds ==
    \A i \in Items : i > made =>
        ~Live(i) /\ contents[i] = 0 /\ \A w \in Workers : i \notin Busy(w)

PendingUnclaimed ==
    \A i \in Items :
        Live(i) /\ rows[i].status = "pending" => \A w \in Workers : i \notin Busy(w)

FetchedHasVersion ==
    \A w \in Workers : \A i \in Busy(w) :
        jobs[w][i].phase = "fetched" => jobs[w][i].version > 0

IInv ==
    /\ TypeOK
    /\ FreshIds
    /\ PendingUnclaimed
    /\ FetchedHasVersion
    /\ FetchingAccounted
    /\ OverlapOnlyByRefetch
    /\ RowMatchesContents

\* What the reader of a row finds in it after each write.
LEMMA RowFields ==
    ASSUME NEW r \in Row
    PROVE  /\ ClaimedRow(r).status = "fetching" /\ ClaimedRow(r).error = r.error
           /\ ClaimedRow(r).key = r.key /\ ClaimedRow(r).refetch = r.refetch
           /\ ClaimedRow(r).title = r.title
           /\ RequestedRow(r).status = r.status /\ RequestedRow(r).error = r.error
           /\ RequestedRow(r).key = r.key /\ RequestedRow(r).refetch = TRUE
           /\ RequestedRow(r).title = r.title
           /\ NewJob(r).key = r.key /\ NewJob(r).forced = r.refetch
           /\ NewJob(r).phase = "claimed" /\ NewJob(r).version = 0
BY DEF Row, ClaimedRow, RequestedRow, NewJob

LEMMA NewRowFields ==
    ASSUME NEW k \in Keys
    PROVE  /\ NewRow(k).status = "pending" /\ NewRow(k).error = ""
           /\ NewRow(k).key = k /\ NewRow(k).refetch = FALSE
           /\ NewRow(k).title = 0
BY DEF NewRow

\* A row is not the absent row, and a job is not the absent job.
LEMMA Presence == NoRow \notin Row /\ NoRow \notin Keys /\ NoJob \notin Job
BY ValuesAssumption

LEMMA IInvInit == Init => IInv
BY TypeInit DEF Init, IInv, TypeOK, FreshIds, PendingUnclaimed, FetchedHasVersion,
    FetchingAccounted, OverlapOnlyByRefetch, RowMatchesContents, Live, Busy

\* What a claim does to the items it takes, and that it leaves the others.
LEMMA ClaimEffect ==
    ASSUME TypeOK, NEW locked \in SUBSET Items, ClaimRows(Batch(locked))
    PROVE  /\ Batch(locked) \subseteq Items
           /\ \A i \in Batch(locked) :
                /\ Live(i) /\ Live(i)'
                /\ rows[i].status = "pending" \/ rows[i].refetch
                /\ rows'[i].status = "fetching"
                /\ rows'[i].error = rows[i].error /\ rows'[i].title = rows[i].title
                /\ rows'[i].refetch = rows[i].refetch /\ rows'[i].key = rows[i].key
                /\ NewJob(rows[i]) # NoJob /\ NewJob(rows[i]).forced = rows[i].refetch
                /\ NewJob(rows[i]).key = rows[i].key
                /\ NewJob(rows[i]).phase = "claimed"
           /\ \A i \in Items \ Batch(locked) : rows'[i] = rows[i]
<1>1. Batch(locked) \subseteq Items
  BY BatchClaimable
<1>2. \A i \in Items \ Batch(locked) : rows'[i] = rows[i]
  BY DEF ClaimRows
<1>3. ASSUME NEW i \in Batch(locked)
      PROVE  /\ Live(i) /\ (rows[i].status = "pending" \/ rows[i].refetch)
             /\ rows[i] \in Row /\ rows'[i] = ClaimedRow(rows[i])
  BY <1>1, BatchClaimable DEF ClaimRows, TypeOK, Live
<1>4. ASSUME NEW i \in Batch(locked)
      PROVE  /\ rows'[i] # NoRow /\ NewJob(rows[i]) # NoJob
             /\ rows'[i].status = "fetching"
             /\ rows'[i].error = rows[i].error /\ rows'[i].title = rows[i].title
             /\ rows'[i].refetch = rows[i].refetch /\ rows'[i].key = rows[i].key
             /\ NewJob(rows[i]).forced = rows[i].refetch
             /\ NewJob(rows[i]).key = rows[i].key
             /\ NewJob(rows[i]).phase = "claimed"
  <2>1. rows[i] \in Row /\ rows'[i] = ClaimedRow(rows[i])
    BY <1>3
  <2>2. rows'[i] # NoRow /\ NewJob(rows[i]) # NoJob
    BY <2>1, RowsWritten, Presence
  <2>3. /\ rows'[i].status = "fetching"
        /\ rows'[i].error = rows[i].error /\ rows'[i].title = rows[i].title
        /\ rows'[i].refetch = rows[i].refetch /\ rows'[i].key = rows[i].key
    BY <2>1, RowFields, ZenonT(30)
  <2>4. /\ NewJob(rows[i]).forced = rows[i].refetch
        /\ NewJob(rows[i]).key = rows[i].key
        /\ NewJob(rows[i]).phase = "claimed"
    BY <2>1, RowFields
  <2> QED
    BY <2>2, <2>3, <2>4
<1> QED
  BY <1>1, <1>2, <1>3, <1>4 DEF Live

LEMMA IInvStep == IInv /\ [Next]_vars => IInv'
<1> SUFFICES ASSUME IInv, [Next]_vars PROVE IInv'
  OBVIOUS
<1> USE DEF Live, Busy
<1>0. TypeOK'
  BY TypeStep DEF IInv
<1>1. ASSUME NEW k \in Keys, CreateItem(k) PROVE IInv'
  <2> DEFINE n == made + 1
  <2>1. /\ n \in Items /\ n > made /\ made' = n /\ made \in Nat
        /\ rows' = [rows EXCEPT ![n] = NewRow(k)]
        /\ UNCHANGED <<contents, jobs, dropped>>
    BY <1>1, BoundsAssumption DEF CreateItem, Items, IInv, TypeOK
  <2>2. /\ contents[n] = 0 /\ \A w \in Workers : n \notin Busy(w)
    BY <2>1 DEF IInv, FreshIds
  <2>3. /\ rows'[n] = NewRow(k)
        /\ rows'[n].status = "pending" /\ rows'[n].error = "" /\ rows'[n].title = 0
        /\ \A i \in Items \ {n} : rows'[i] = rows[i]
    BY <2>1, NewRowFields DEF IInv, TypeOK
  <2> HIDE DEF n
  <2>4. FreshIds'
    <3>1. \A i \in Items : i > n => i # n /\ i > made
      BY <2>1 DEF Items, n
    <3> QED
      BY <2>1, <2>3, <3>1 DEF IInv, FreshIds
  <2>5. PendingUnclaimed'
    BY <2>1, <2>2, <2>3 DEF IInv, PendingUnclaimed
  <2>6. FetchedHasVersion' /\ OverlapOnlyByRefetch'
    BY <2>1, <2>2, <2>3, ZenonT(30) DEF IInv, FetchedHasVersion, OverlapOnlyByRefetch
  <2>7. FetchingAccounted'
    BY <2>1, <2>3 DEF IInv, FetchingAccounted
  <2>8. RowMatchesContents'
    BY <2>1, <2>2, <2>3, ZenonT(30) DEF IInv, RowMatchesContents
  <2> QED
    BY <1>0, <2>4, <2>5, <2>6, <2>7, <2>8 DEF IInv
<1>2. ASSUME NEW k \in Keys, SiteChanges(k) PROVE IInv'
  BY <1>0, <1>2 DEF SiteChanges, IInv, FreshIds, PendingUnclaimed, FetchedHasVersion,
     FetchingAccounted, OverlapOnlyByRefetch, RowMatchesContents
<1>3. ASSUME NEW i \in Items, DeleteItem(i) PROVE IInv'
  <2>1. /\ rows'[i] = NoRow /\ contents'[i] = 0
        /\ \A j \in Items \ {i} : rows'[j] = rows[j] /\ contents'[j] = contents[j]
        /\ UNCHANGED <<made, jobs, dropped>>
    BY <1>3 DEF DeleteItem, IInv, TypeOK
  <2>2. FreshIds' /\ PendingUnclaimed'
    BY <2>1 DEF IInv, FreshIds, PendingUnclaimed
  <2>3. FetchedHasVersion' /\ OverlapOnlyByRefetch'
    BY <2>1 DEF IInv, FetchedHasVersion, OverlapOnlyByRefetch
  <2>4. FetchingAccounted'
    BY <2>1 DEF IInv, FetchingAccounted
  <2>5. RowMatchesContents'
    BY <2>1 DEF IInv, RowMatchesContents
  <2> QED
    BY <1>0, <2>2, <2>3, <2>4, <2>5 DEF IInv
<1>4. ASSUME NEW i \in Items, RequestRefetch(i) PROVE IInv'
  <2>1. /\ rows[i] \in Row /\ Live(i) /\ rows'[i] = RequestedRow(rows[i])
        /\ \A j \in Items \ {i} : rows'[j] = rows[j]
        /\ UNCHANGED <<contents, made, jobs, dropped>>
    BY <1>4 DEF RequestRefetch, IInv, TypeOK
  <2>2. /\ rows'[i] # NoRow /\ rows'[i].status = rows[i].status
        /\ rows'[i].error = rows[i].error /\ rows'[i].title = rows[i].title
    BY <2>1, RowFields, RowsWritten, Presence
  <2>3. FreshIds' /\ PendingUnclaimed'
    BY <2>1, <2>2 DEF IInv, FreshIds, PendingUnclaimed
  <2>4. FetchedHasVersion' /\ OverlapOnlyByRefetch'
    BY <2>1, <2>2 DEF IInv, FetchedHasVersion, OverlapOnlyByRefetch
  <2>5. FetchingAccounted'
    BY <2>1, <2>2 DEF IInv, FetchingAccounted
  <2>6. RowMatchesContents'
    BY <2>1, <2>2 DEF IInv, RowMatchesContents
  <2> QED
    BY <1>0, <2>3, <2>4, <2>5, <2>6 DEF IInv
<1>5. ASSUME NEW w \in Workers, NEW locked \in SUBSET Items, Claim(w, locked)
      PROVE IInv'
  <2> DEFINE batch == Batch(locked)
  <2>1. /\ batch \subseteq Items
        /\ \A i \in batch :
             /\ rows[i] # NoRow /\ rows'[i] # NoRow
             /\ rows[i].status = "pending" \/ rows[i].refetch
             /\ rows'[i].status = "fetching"
             /\ rows'[i].error = rows[i].error /\ rows'[i].title = rows[i].title
             /\ NewJob(rows[i]) # NoJob /\ NewJob(rows[i]).forced = rows[i].refetch
             /\ NewJob(rows[i]).phase = "claimed"
        /\ \A i \in Items \ batch : rows'[i] = rows[i]
    BY <1>5, ClaimEffect DEF Claim, IInv
  <2>2. /\ UNCHANGED <<contents, made>>
        /\ dropped' = dropped \ batch
        /\ \A i \in batch : jobs'[w][i] = NewJob(rows[i])
        /\ \A i \in Items \ batch : jobs'[w][i] = NoJob
        /\ \A v \in Workers \ {w} : jobs'[v] = jobs[v]
        /\ \A i \in Items : jobs[w][i] = NoJob
    BY <1>5, <2>1 DEF Claim, Idle, IInv, TypeOK
  <2> HIDE DEF batch
  <2>3. FreshIds'
    BY <2>1, <2>2 DEF IInv, FreshIds
  <2>4. PendingUnclaimed'
    BY <2>1, <2>2 DEF IInv, PendingUnclaimed
  <2>5. FetchedHasVersion'
    BY <2>1, <2>2 DEF IInv, FetchedHasVersion
  <2>6. FetchingAccounted'
    BY <2>1, <2>2 DEF IInv, FetchingAccounted
  <2>7. OverlapOnlyByRefetch'
    <3> SUFFICES ASSUME NEW u \in Workers, NEW v \in Workers, u # v,
                        NEW i \in Items, Busy(u)' = Busy(u)', jobs'[u][i] # NoJob,
                        jobs'[v][i] # NoJob, rows'[i] # NoRow
                 PROVE  jobs'[u][i].forced \/ jobs'[v][i].forced
      BY DEF OverlapOnlyByRefetch
    <3>1. CASE w \notin {u, v}
      <4>1. jobs'[u] = jobs[u] /\ jobs'[v] = jobs[v] /\ rows[i] # NoRow
        BY <2>1, <2>2, <3>1
      <4> QED
        BY <4>1 DEF IInv, OverlapOnlyByRefetch
    <3>2. ASSUME NEW o \in Workers, o # w, jobs'[o][i] # NoJob, jobs'[w][i] # NoJob
          PROVE  jobs'[w][i].forced
      <4>1. i \in batch /\ jobs[o][i] # NoJob
        BY <2>1, <2>2, <3>2
      <4>2. rows[i].status # "pending"
        BY <2>1, <4>1 DEF IInv, PendingUnclaimed
      <4> QED
        BY <2>1, <2>2, <4>1, <4>2
    <3> QED
      BY <3>1, <3>2
  <2>8. RowMatchesContents'
    <3> SUFFICES ASSUME NEW i \in Items
                 PROVE  /\ rows'[i] = NoRow => contents'[i] = 0
                        /\ rows'[i] # NoRow =>
                            /\ rows'[i].title = contents'[i]
                            /\ rows'[i].status = "pending"
                                => contents'[i] = 0 /\ rows'[i].error = ""
                            /\ rows'[i].status = "success"
                                => contents'[i] > 0 /\ rows'[i].error = ""
                            /\ rows'[i].status = "failed" => rows'[i].error # ""
      BY DEF RowMatchesContents
    <3>1. CASE i \in batch
      BY <2>1, <2>2, <3>1, ZenonT(30) DEF IInv, RowMatchesContents
    <3>2. CASE i \notin batch
      <4>1. rows'[i] = rows[i] /\ contents'[i] = contents[i]
        BY <2>1, <2>2, <3>2
      <4> QED
        BY <4>1 DEF IInv, RowMatchesContents
    <3> QED
      BY <3>1, <3>2
  <2> QED
    BY <1>0, <2>3, <2>4, <2>5, <2>6, <2>7, <2>8 DEF IInv
<1>6. ASSUME NEW w \in Workers, NEW locked \in SUBSET Items, ClaimLost(w, locked)
      PROVE IInv'
  <2> DEFINE batch == Batch(locked)
  <2>1. /\ batch \subseteq Items
        /\ \A i \in batch :
             /\ rows[i] # NoRow /\ rows'[i] # NoRow
             /\ rows'[i].status = "fetching"
             /\ rows'[i].error = rows[i].error /\ rows'[i].title = rows[i].title
        /\ \A i \in Items \ batch : rows'[i] = rows[i]
        /\ UNCHANGED <<contents, made, jobs>>
        /\ dropped' = dropped \cup batch
    BY <1>6, ClaimEffect DEF ClaimLost, IInv
  <2> HIDE DEF batch
  <2>2. FreshIds' /\ PendingUnclaimed'
    BY <2>1 DEF IInv, FreshIds, PendingUnclaimed
  <2>3. FetchedHasVersion' /\ OverlapOnlyByRefetch'
    BY <2>1 DEF IInv, FetchedHasVersion, OverlapOnlyByRefetch
  <2>4. FetchingAccounted'
    BY <2>1 DEF IInv, FetchingAccounted
  <2>5. RowMatchesContents'
    BY <2>1, ZenonT(30) DEF IInv, RowMatchesContents
  <2> QED
    BY <1>0, <2>2, <2>3, <2>4, <2>5 DEF IInv
<1>7. ASSUME NEW w \in Workers, NEW i \in Items, StartFetch(w, i) PROVE IInv'
  <2>1. /\ UNCHANGED <<rows, contents, made, dropped>>
        /\ jobs[w][i] \in Job /\ jobs[w][i] # NoJob
        /\ \A v \in Workers, j \in Items :
             v # w \/ j # i => jobs'[v][j] = jobs[v][j]
    BY <1>7 DEF StartFetch, JobAt, IInv, TypeOK
  <2>2. jobs'[w][i] = [jobs[w][i] EXCEPT !.phase = "fetching"]
    BY <1>7 DEF StartFetch, IInv, TypeOK
  <2>3. /\ jobs'[w][i].forced = jobs[w][i].forced
        /\ jobs'[w][i].phase # "fetched"
    BY <2>1, <2>2, ValuesAssumption DEF Job
  <2>4. jobs'[w][i] # NoJob
    BY <1>0, <1>7, <2>1, Presence, SMTT(20) DEF StartFetch, Job, IInv, TypeOK
  <2>5. FreshIds' /\ PendingUnclaimed'
    BY <2>1 DEF IInv, FreshIds, PendingUnclaimed
  <2>6. FetchedHasVersion'
    BY <2>1, <2>3 DEF IInv, FetchedHasVersion
  <2>7. OverlapOnlyByRefetch'
    BY <2>1, <2>3 DEF IInv, OverlapOnlyByRefetch
  <2>8. FetchingAccounted'
    BY <2>1, <2>4 DEF IInv, FetchingAccounted
  <2>9. RowMatchesContents'
    BY <2>1, <2>4 DEF IInv, RowMatchesContents
  <2> QED
    BY <1>0, <2>5, <2>6, <2>7, <2>8, <2>9 DEF IInv
<1>8. ASSUME NEW w \in Workers, NEW i \in Items, FetchOk(w, i) PROVE IInv'
  <2>1. /\ UNCHANGED <<rows, contents, made, dropped>>
        /\ jobs[w][i] \in Job /\ jobs[w][i] # NoJob
        /\ \A v \in Workers, j \in Items :
             v # w \/ j # i => jobs'[v][j] = jobs[v][j]
    BY <1>8 DEF FetchOk, JobAt, IInv, TypeOK
  <2>2. site[jobs[w][i].key] > 0
    BY <2>1 DEF IInv, TypeOK, Job, Versions
  <2>3. /\ jobs'[w][i].forced = jobs[w][i].forced
        /\ jobs'[w][i].version > 0
    BY <1>8, <2>1, <2>2 DEF FetchOk, Job, IInv, TypeOK
  <2>4. jobs'[w][i] # NoJob
    <3>1. jobs' = [jobs EXCEPT ![w] = [jobs[w] EXCEPT ![i] =
                    [jobs[w][i] EXCEPT !.phase = "fetched",
                                       !.version = site[jobs[w][i].key]]]]
      BY <1>8 DEF FetchOk
    <3>2. jobs'[w][i] = [jobs[w][i] EXCEPT !.phase = "fetched",
                                           !.version = site[jobs[w][i].key]]
      BY <3>1 DEF IInv, TypeOK
    <3>3. site[jobs[w][i].key] \in 0 .. MaxVersion
      BY <2>1 DEF IInv, TypeOK, Job, Versions
    <3>4. jobs'[w][i] \in Job
      BY <2>1, <3>2, <3>3 DEF Job
    <3> QED
      BY <3>4, Presence
  <2>5. FreshIds' /\ PendingUnclaimed'
    BY <2>1 DEF IInv, FreshIds, PendingUnclaimed
  <2>6. FetchedHasVersion'
    BY <2>1, <2>3 DEF IInv, FetchedHasVersion
  <2>7. OverlapOnlyByRefetch'
    BY <2>1, <2>3 DEF IInv, OverlapOnlyByRefetch
  <2>8. FetchingAccounted'
    BY <2>1, <2>4 DEF IInv, FetchingAccounted
  <2>9. RowMatchesContents'
    BY <2>1, <2>4 DEF IInv, RowMatchesContents
  <2> QED
    BY <1>0, <2>5, <2>6, <2>7, <2>8, <2>9 DEF IInv
<1>9. ASSUME NEW w \in Workers, NEW i \in Items, NEW e \in Reasons, FetchFail(w, i, e) PROVE IInv'
  <2>1. /\ UNCHANGED <<rows, contents, made, dropped>>
        /\ jobs[w][i] \in Job /\ jobs[w][i] # NoJob
        /\ \A v \in Workers, j \in Items :
             v # w \/ j # i => jobs'[v][j] = jobs[v][j]
    BY <1>9 DEF FetchFail, JobAt, IInv, TypeOK
  <2>2. jobs'[w][i] = [jobs[w][i] EXCEPT !.phase = e]
    BY <1>9 DEF FetchFail, IInv, TypeOK
  <2>3. /\ jobs'[w][i].forced = jobs[w][i].forced
        /\ jobs'[w][i].phase # "fetched"
    BY <2>1, <2>2, ValuesAssumption DEF Job
  <2>4. jobs'[w][i] # NoJob
    BY <1>0, <1>9, <2>1, Presence, SMTT(20) DEF FetchFail, Job, IInv, TypeOK
  <2>5. FreshIds' /\ PendingUnclaimed'
    BY <2>1 DEF IInv, FreshIds, PendingUnclaimed
  <2>6. FetchedHasVersion'
    BY <2>1, <2>3 DEF IInv, FetchedHasVersion
  <2>7. OverlapOnlyByRefetch'
    BY <2>1, <2>3 DEF IInv, OverlapOnlyByRefetch
  <2>8. FetchingAccounted'
    BY <2>1, <2>4 DEF IInv, FetchingAccounted
  <2>9. RowMatchesContents'
    BY <2>1, <2>4 DEF IInv, RowMatchesContents
  <2> QED
    BY <1>0, <2>5, <2>6, <2>7, <2>8, <2>9 DEF IInv
<1>10. ASSUME NEW w \in Workers, NEW i \in Items, StoreSuccess(w, i) PROVE IInv'
  <2> DEFINE v == jobs[w][i].version
  <2>1. /\ UNCHANGED <<made, dropped>>
        /\ v > 0
        /\ jobs'[w][i] = NoJob /\ jobs[w][i] # NoJob
        /\ \A u \in Workers, j \in Items :
             u # w \/ j # i => jobs'[u][j] = jobs[u][j]
        /\ \A j \in Items \ {i} : rows'[j] = rows[j] /\ contents'[j] = contents[j]
    BY <1>10 DEF StoreSuccess, EndJob, JobAt, IInv, TypeOK, FetchedHasVersion
  <2>2. FetchedHasVersion'
    BY <2>1 DEF IInv, FetchedHasVersion
  <2>3. CASE ~Live(i)
    <3>1. UNCHANGED <<rows, contents>>
      BY <1>10, <2>3 DEF StoreSuccess
    <3>2. FreshIds' /\ PendingUnclaimed'
      BY <2>1, <3>1 DEF IInv, FreshIds, PendingUnclaimed
    <3>3. OverlapOnlyByRefetch' /\ FetchingAccounted'
      BY <2>1, <2>3, <3>1 DEF IInv, OverlapOnlyByRefetch, FetchingAccounted
    <3>4. RowMatchesContents'
      BY <3>1 DEF IInv, RowMatchesContents
    <3> QED
      BY <1>0, <2>2, <3>2, <3>3, <3>4 DEF IInv
  <2>4. CASE Live(i)
    <3>1. /\ rows[i] \in Row /\ contents'[i] = v
          /\ rows'[i] = SuccessRow(rows[i], v)
      BY <1>10, <2>4 DEF StoreSuccess, IInv, TypeOK
    <3>0. v \in 0 .. MaxVersion
      BY <1>10 DEF StoreSuccess, JobAt, IInv, TypeOK, Job
    <3> HIDE DEF v
    <3>2. /\ rows'[i].status = "success" /\ rows'[i].error = ""
          /\ rows'[i].title = v
      BY <3>1, <3>0 DEF SuccessRow, Row
    <3>3. rows'[i] # NoRow /\ i <= made
      <4>2. rows'[i] \in Row
        BY <3>1, <3>0, RowsWritten
      <4>3. i <= made
        BY <2>4 DEF IInv, TypeOK, FreshIds, Items
      <4> QED
        BY <4>2, <4>3, Presence
    <3>4. FreshIds'
      BY <2>1, <3>3 DEF IInv, TypeOK, FreshIds, Items
    <3>5. PendingUnclaimed'
      <4> SUFFICES ASSUME NEW j \in Items, rows'[j] # NoRow, rows'[j].status = "pending",
                          NEW u \in Workers
                   PROVE  jobs'[u][j] = NoJob
        BY DEF PendingUnclaimed
      <4>1. j # i
        BY <3>2
      <4>2. rows[j] = rows'[j] /\ jobs'[u][j] = jobs[u][j]
        BY <2>1, <4>1
      <4> QED
        BY <4>2 DEF IInv, PendingUnclaimed
    <3>6. OverlapOnlyByRefetch'
      BY <2>1, <2>4 DEF IInv, OverlapOnlyByRefetch
    <3>7. FetchingAccounted'
      <4> SUFFICES ASSUME NEW j \in Items, rows'[j] # NoRow, rows'[j].status = "fetching"
                   PROVE  j \in dropped \/ \E u \in Workers : jobs'[u][j] # NoJob
        BY <2>1 DEF FetchingAccounted
      <4>1. j # i
        BY <3>2
      <4>2. rows[j] = rows'[j] /\ \A u \in Workers : jobs'[u][j] = jobs[u][j]
        BY <2>1, <4>1
      <4> QED
        BY <4>2 DEF IInv, FetchingAccounted
    <3>8. RowMatchesContents'
      BY <2>1, <3>1, <3>2, <3>3 DEF IInv, RowMatchesContents
    <3> QED
      BY <1>0, <2>2, <3>4, <3>5, <3>6, <3>7, <3>8 DEF IInv
  <2> QED
    BY <2>3, <2>4
<1>11. ASSUME NEW w \in Workers, NEW i \in Items, NEW e \in Reasons, StoreFailure(w, i, e)
       PROVE IInv'
  <2>1. /\ UNCHANGED <<made, dropped, contents>>
        /\ jobs'[w][i] = NoJob /\ jobs[w][i] # NoJob
        /\ \A u \in Workers, j \in Items :
             u # w \/ j # i => jobs'[u][j] = jobs[u][j]
        /\ \A j \in Items \ {i} : rows'[j] = rows[j]
    BY <1>11 DEF StoreFailure, EndJob, JobAt, IInv, TypeOK
  <2>2. FetchedHasVersion'
    BY <2>1 DEF IInv, FetchedHasVersion
  <2>3. CASE ~Live(i)
    <3>1. UNCHANGED rows
      BY <1>11, <2>3 DEF StoreFailure
    <3>2. FreshIds' /\ PendingUnclaimed'
      BY <2>1, <3>1 DEF IInv, FreshIds, PendingUnclaimed
    <3>3. OverlapOnlyByRefetch' /\ FetchingAccounted'
      BY <2>1, <2>3, <3>1 DEF IInv, OverlapOnlyByRefetch, FetchingAccounted
    <3>4. RowMatchesContents'
      BY <2>1, <3>1 DEF IInv, RowMatchesContents
    <3> QED
      BY <1>0, <2>2, <3>2, <3>3, <3>4 DEF IInv
  <2>4. CASE Live(i)
    <3>1. rows[i] \in Row /\ rows'[i] = FailedRow(rows[i], e)
      BY <1>11, <2>4 DEF StoreFailure, IInv, TypeOK
    <3>2. /\ rows'[i].status = "failed" /\ rows'[i].error = e /\ e # ""
          /\ rows'[i].title = rows[i].title
      BY <3>1, ValuesAssumption DEF FailedRow, Row
    <3>3. rows'[i] # NoRow /\ i <= made
      <4>1. i <= made
        BY <2>4 DEF IInv, TypeOK, FreshIds, Items
      <4> QED
        BY <3>1, <4>1, RowsWritten, Presence
    <3>4. FreshIds'
      BY <2>1, <3>3 DEF IInv, TypeOK, FreshIds, Items
    <3>5. PendingUnclaimed'
      <4> SUFFICES ASSUME NEW j \in Items, rows'[j] # NoRow, rows'[j].status = "pending",
                          NEW u \in Workers
                   PROVE  jobs'[u][j] = NoJob
        BY DEF PendingUnclaimed
      <4>1. j # i
        BY <3>2
      <4>2. rows[j] = rows'[j] /\ jobs'[u][j] = jobs[u][j]
        BY <2>1, <4>1
      <4> QED
        BY <4>2 DEF IInv, PendingUnclaimed
    <3>6. OverlapOnlyByRefetch'
      BY <2>1, <2>4 DEF IInv, OverlapOnlyByRefetch
    <3>7. FetchingAccounted'
      <4> SUFFICES ASSUME NEW j \in Items, rows'[j] # NoRow, rows'[j].status = "fetching"
                   PROVE  j \in dropped \/ \E u \in Workers : jobs'[u][j] # NoJob
        BY <2>1 DEF FetchingAccounted
      <4>1. j # i
        BY <3>2
      <4>2. rows[j] = rows'[j] /\ \A u \in Workers : jobs'[u][j] = jobs[u][j]
        BY <2>1, <4>1
      <4> QED
        BY <4>2 DEF IInv, FetchingAccounted
    <3>8. RowMatchesContents'
      BY <2>1, <2>4, <3>2, <3>3, ZenonT(30) DEF IInv, RowMatchesContents
    <3> QED
      BY <1>0, <2>2, <3>4, <3>5, <3>6, <3>7, <3>8 DEF IInv
  <2> QED
    BY <2>3, <2>4
<1>12. ASSUME NEW w \in Workers, NEW i \in Items, StoreRejected(w, i) PROVE IInv'
  <2>1. /\ UNCHANGED <<made, rows, contents>> /\ dropped' = dropped \cup {i}
        /\ jobs'[w][i] = NoJob /\ jobs[w][i] # NoJob
        /\ \A v \in Workers, j \in Items :
             v # w \/ j # i => jobs'[v][j] = jobs[v][j]
    BY <1>12 DEF StoreRejected, EndJob, JobAt, IInv, TypeOK
  <2>2. FreshIds' /\ PendingUnclaimed'
    BY <2>1 DEF IInv, FreshIds, PendingUnclaimed
  <2>3. FetchedHasVersion' /\ OverlapOnlyByRefetch'
    BY <2>1 DEF IInv, FetchedHasVersion, OverlapOnlyByRefetch
  <2>4. FetchingAccounted'
    BY <2>1 DEF IInv, FetchingAccounted
  <2>5. RowMatchesContents'
    BY <2>1 DEF IInv, RowMatchesContents
  <2> QED
    BY <1>0, <2>2, <2>3, <2>4, <2>5 DEF IInv
<1>13. ASSUME NEW w \in Workers, NEW i \in Items, StoreLost(w, i) PROVE IInv'
  <2>1. /\ UNCHANGED <<made, rows, contents>> /\ dropped' = dropped \cup {i}
        /\ jobs'[w][i] = NoJob /\ jobs[w][i] # NoJob
        /\ \A v \in Workers, j \in Items :
             v # w \/ j # i => jobs'[v][j] = jobs[v][j]
    BY <1>13 DEF StoreLost, EndJob, JobAt, IInv, TypeOK
  <2>2. FreshIds' /\ PendingUnclaimed'
    BY <2>1 DEF IInv, FreshIds, PendingUnclaimed
  <2>3. FetchedHasVersion' /\ OverlapOnlyByRefetch'
    BY <2>1 DEF IInv, FetchedHasVersion, OverlapOnlyByRefetch
  <2>4. FetchingAccounted'
    BY <2>1 DEF IInv, FetchingAccounted
  <2>5. RowMatchesContents'
    BY <2>1 DEF IInv, RowMatchesContents
  <2> QED
    BY <1>0, <2>2, <2>3, <2>4, <2>5 DEF IInv
<1>14. ASSUME NEW w \in Workers, Crash(w) PROVE IInv'
  <2>1. /\ UNCHANGED <<made, rows, contents>>
        /\ dropped' = dropped \cup Busy(w)
        /\ \A i \in Items : jobs'[w][i] = NoJob
        /\ \A v \in Workers \ {w} : jobs'[v] = jobs[v]
    BY <1>14 DEF Crash, IInv, TypeOK
  <2>2. FreshIds' /\ PendingUnclaimed'
    BY <2>1 DEF IInv, FreshIds, PendingUnclaimed
  <2>3. FetchedHasVersion' /\ OverlapOnlyByRefetch'
    BY <2>1 DEF IInv, FetchedHasVersion, OverlapOnlyByRefetch
  <2>4. FetchingAccounted'
    BY <2>1 DEF IInv, FetchingAccounted
  <2>5. RowMatchesContents'
    BY <2>1 DEF IInv, RowMatchesContents
  <2> QED
    BY <1>0, <2>2, <2>3, <2>4, <2>5 DEF IInv
<1>15. ASSUME NEW w \in Workers, Restart(w) PROVE IInv'
  BY <1>0, <1>15, ZenonT(30) DEF Restart, IInv, FreshIds, PendingUnclaimed, FetchedHasVersion,
     FetchingAccounted, OverlapOnlyByRefetch, RowMatchesContents
<1>16. CASE UNCHANGED vars
  BY <1>0, <1>16 DEF vars, IInv, FreshIds, PendingUnclaimed, FetchedHasVersion,
     FetchingAccounted, OverlapOnlyByRefetch, RowMatchesContents
<1> QED
  BY <1>1, <1>2, <1>3, <1>4, <1>5, <1>6, <1>7, <1>8, <1>9, <1>10, <1>11, <1>12,
     <1>13, <1>14, <1>15, <1>16 DEF Next, Fetch, StoreOutcome

LEMMA Invariance == Spec => []IInv
BY IInvInit, IInvStep, PTL DEF Spec

\* An item says `fetching' only while a goroutine works on it, or after its
\* job ended without an outcome: for any number of workers and faults.
THEOREM FetchingIsAccounted == Spec => []FetchingAccounted
BY Invariance, PTL DEF IInv

\* Two workers meet on a live item only through a refetch request.
THEOREM OverlapNeedsRefetch == Spec => []OverlapOnlyByRefetch
BY Invariance, PTL DEF IInv

\* The title, status, error and text a reader sees come from one fetch.
THEOREM RowsMatchContents == Spec => []RowMatchesContents
BY Invariance, PTL DEF IInv

-----------------------------------------------------------------------------
(***************************************************************************)
(* With one worker process the fetch pipeline implements Archive, whatever *)
(* users, faults and sites do.                                             *)
(***************************************************************************)

\* A job fetches the page of the item it was made for.
KeyKept ==
    \A w \in Workers : \A i \in Busy(w) :
        Live(i) => jobs[w][i].key = rows[i].key

\* No copy is ahead of its page ...
CopyNotAhead == \A i \in Items : Live(i) => contents[i] <= site[rows[i].key]

\* ... and a page that was fetched is between the copy it will replace and
\* the page of now.  This is where one worker is needed: a second one could
\* replace the copy while this page waits to be stored.
FetchedBetween ==
    \A w \in Workers : \A i \in Busy(w) :
        Live(i) /\ jobs[w][i].phase = "fetched" =>
            /\ contents[i] <= jobs[w][i].version
            /\ jobs[w][i].version <= site[rows[i].key]

RInv ==
    /\ IInv
    /\ JobShowsFetching
    /\ KeyKept
    /\ CopyNotAhead
    /\ FetchedBetween

LEMMA LiveTyped ==
    ASSUME TypeOK, NEW i \in Items
    PROVE  /\ contents[i] \in Nat
           /\ Live(i) => /\ rows[i] \in Row /\ rows[i].key \in Keys
                         /\ site[rows[i].key] \in Nat /\ site[rows[i].key] > 0
<1>1. contents[i] \in Nat
  BY BoundsAssumption DEF TypeOK
<1>2. Live(i) => rows[i] \in Row
  BY DEF TypeOK, Live
<1>3. Live(i) => rows[i].key \in Keys
  BY <1>2 DEF Row
<1> QED
  BY <1>1, <1>2, <1>3, BoundsAssumption DEF TypeOK, Versions

LEMMA JobTyped ==
    ASSUME TypeOK, NEW w \in Workers, NEW i \in Busy(w)
    PROVE  /\ i \in Items /\ jobs[w][i] \in Job /\ jobs[w][i].key \in Keys
           /\ jobs[w][i].version \in Nat
<1>1. i \in Items /\ jobs[w][i] \in Job
  BY DEF TypeOK, Busy
<1> QED
  BY <1>1, BoundsAssumption DEF Job

LEMMA RInvInit == Init => RInv
<1> SUFFICES ASSUME Init PROVE RInv
  OBVIOUS
<1>1. IInv
  BY IInvInit
<1> QED
  BY <1>1 DEF Init, RInv, JobShowsFetching, KeyKept, CopyNotAhead, FetchedBetween,
              Live, Busy

LEMMA RInvStep ==
    ASSUME OneWorker
    PROVE  RInv /\ [Next]_vars => RInv'
<1> SUFFICES ASSUME RInv, [Next]_vars PROVE RInv'
  OBVIOUS
<1> USE DEF Live, Busy
<1>0. IInv' /\ TypeOK /\ TypeOK'
  BY IInvStep DEF RInv, IInv
<1>a. \A v, w \in Workers : v = w
  BY DEF OneWorker
<1>1. ASSUME NEW k \in Keys, CreateItem(k) PROVE RInv'
  <2> DEFINE n == made + 1
  <2>1. /\ n \in Items /\ n > made
        /\ rows' = [rows EXCEPT ![n] = NewRow(k)]
        /\ UNCHANGED <<contents, jobs, site>>
    BY <1>0, <1>1, BoundsAssumption DEF CreateItem, Items, TypeOK
  <2>2. contents[n] = 0 /\ \A w \in Workers : n \notin Busy(w)
    BY <2>1 DEF RInv, IInv, FreshIds
  <2>3. /\ rows'[n].key = k /\ site[k] \in Nat
        /\ \A i \in Items \ {n} : rows'[i] = rows[i]
    <3>1. rows'[n] = NewRow(k) /\ \A i \in Items \ {n} : rows'[i] = rows[i]
      BY <1>0, <2>1 DEF TypeOK
    <3>2. site[k] \in Nat
      BY <1>0, BoundsAssumption DEF TypeOK, Versions
    <3> QED
      BY <3>1, <3>2, NewRowFields
  <2> HIDE DEF n
  <2>4. JobShowsFetching' /\ KeyKept'
    BY <2>1, <2>2, <2>3 DEF RInv, JobShowsFetching, KeyKept
  <2>5. CopyNotAhead'
    BY <2>1, <2>2, <2>3 DEF RInv, CopyNotAhead
  <2>6. FetchedBetween'
    BY <2>1, <2>2, <2>3 DEF RInv, FetchedBetween
  <2> QED
    BY <1>0, <2>4, <2>5, <2>6 DEF RInv
<1>2. ASSUME NEW k \in Keys, SiteChanges(k) PROVE RInv'
  <2>1. /\ UNCHANGED <<rows, contents, jobs>>
        /\ \A l \in Keys : site'[l] \in Nat /\ site[l] \in Nat /\ site[l] <= site'[l]
    BY <1>0, <1>2, BoundsAssumption DEF SiteChanges, TypeOK, Versions
  <2>2. \A i \in Items : Live(i) => rows[i].key \in Keys
    BY <1>0, LiveTyped
  <2>3. JobShowsFetching' /\ KeyKept'
    BY <2>1 DEF RInv, JobShowsFetching, KeyKept
  <2>4. CopyNotAhead'
    <3> SUFFICES ASSUME NEW i \in Items, Live(i)
                 PROVE  contents[i] <= site'[rows[i].key]
      BY <2>1 DEF CopyNotAhead
    <3>1. contents[i] <= site[rows[i].key] /\ contents[i] \in Nat
      BY <1>0, LiveTyped DEF RInv, CopyNotAhead
    <3> QED
      BY <2>1, <2>2, <3>1
  <2>5. FetchedBetween'
    <3> SUFFICES ASSUME NEW w \in Workers, NEW i \in Busy(w), Live(i),
                        jobs[w][i].phase = "fetched"
                 PROVE  /\ contents[i] <= jobs[w][i].version
                        /\ jobs[w][i].version <= site'[rows[i].key]
      BY <2>1 DEF FetchedBetween
    <3>1. /\ contents[i] <= jobs[w][i].version
          /\ jobs[w][i].version <= site[rows[i].key]
          /\ jobs[w][i].version \in Nat
      BY <1>0, JobTyped DEF RInv, FetchedBetween
    <3> QED
      BY <2>1, <2>2, <3>1
  <2> QED
    BY <1>0, <2>3, <2>4, <2>5 DEF RInv
<1>3. ASSUME NEW i \in Items, DeleteItem(i) PROVE RInv'
  <2>1. /\ rows'[i] = NoRow
        /\ \A j \in Items \ {i} : rows'[j] = rows[j] /\ contents'[j] = contents[j]
        /\ UNCHANGED <<jobs, site>>
    BY <1>0, <1>3 DEF DeleteItem, TypeOK
  <2>2. JobShowsFetching' /\ KeyKept'
    BY <2>1 DEF RInv, JobShowsFetching, KeyKept
  <2>3. CopyNotAhead' /\ FetchedBetween'
    BY <2>1 DEF RInv, CopyNotAhead, FetchedBetween
  <2> QED
    BY <1>0, <2>2, <2>3 DEF RInv
<1>4. ASSUME NEW i \in Items, RequestRefetch(i) PROVE RInv'
  <2>1. /\ rows[i] \in Row /\ Live(i) /\ rows'[i] = RequestedRow(rows[i])
        /\ \A j \in Items \ {i} : rows'[j] = rows[j]
        /\ UNCHANGED <<contents, jobs, site>>
    BY <1>0, <1>4 DEF RequestRefetch, TypeOK
  <2>2. rows'[i].status = rows[i].status /\ rows'[i].key = rows[i].key
    BY <2>1, RowFields
  <2>3. JobShowsFetching' /\ KeyKept'
    BY <2>1, <2>2 DEF RInv, JobShowsFetching, KeyKept
  <2>4. CopyNotAhead' /\ FetchedBetween'
    BY <2>1, <2>2 DEF RInv, CopyNotAhead, FetchedBetween
  <2> QED
    BY <1>0, <2>3, <2>4 DEF RInv
<1>5. ASSUME NEW w \in Workers, NEW locked \in SUBSET Items, Claim(w, locked)
      PROVE RInv'
  <2> DEFINE batch == Batch(locked)
  <2>1. /\ batch \subseteq Items
        /\ \A i \in batch :
             /\ rows[i] # NoRow /\ rows'[i].status = "fetching"
             /\ rows'[i].key = rows[i].key
             /\ NewJob(rows[i]).key = rows[i].key
             /\ NewJob(rows[i]).phase = "claimed"
        /\ \A i \in Items \ batch : rows'[i] = rows[i]
    BY <1>0, <1>5, ClaimEffect DEF Claim
  <2>2. /\ UNCHANGED <<contents, site>>
        /\ \A i \in batch : jobs'[w][i] = NewJob(rows[i])
        /\ \A i \in Items \ batch : jobs'[w][i] = NoJob
    BY <1>0, <1>5, <2>1 DEF Claim, TypeOK
  <2> HIDE DEF batch
  <2>3. JobShowsFetching'
    BY <1>a, <2>1, <2>2 DEF JobShowsFetching
  <2>4. KeyKept'
    BY <1>a, <2>1, <2>2 DEF KeyKept
  <2>5. CopyNotAhead'
    BY <2>1, <2>2 DEF RInv, CopyNotAhead
  <2>6. FetchedBetween'
    BY <1>a, <2>1, <2>2 DEF FetchedBetween
  <2> QED
    BY <1>0, <2>3, <2>4, <2>5, <2>6 DEF RInv
<1>6. ASSUME NEW w \in Workers, NEW locked \in SUBSET Items, ClaimLost(w, locked)
      PROVE RInv'
  <2> DEFINE batch == Batch(locked)
  <2>1. /\ batch \subseteq Items
        /\ \A i \in batch : rows[i] # NoRow /\ rows'[i].key = rows[i].key
        /\ \A i \in Items \ batch : rows'[i] = rows[i]
        /\ UNCHANGED <<contents, jobs, site>>
        /\ \A i \in Items : jobs[w][i] = NoJob
    BY <1>0, <1>6, ClaimEffect DEF ClaimLost, Idle
  <2> HIDE DEF batch
  <2>2. JobShowsFetching' /\ KeyKept' /\ FetchedBetween'
    BY <1>a, <2>1 DEF JobShowsFetching, KeyKept, FetchedBetween
  <2>3. CopyNotAhead'
    BY <2>1 DEF RInv, CopyNotAhead
  <2> QED
    BY <1>0, <2>2, <2>3 DEF RInv
<1>7. ASSUME NEW w \in Workers, NEW i \in Items, StartFetch(w, i) PROVE RInv'
  <2>1. /\ UNCHANGED <<rows, contents, site>> /\ i \in Busy(w)
        /\ jobs[w][i] \in Job
        /\ \A j \in Items \ {i} : jobs'[w][j] = jobs[w][j]
        /\ jobs'[w][i] = [jobs[w][i] EXCEPT !.phase = "fetching"]
    BY <1>0, <1>7 DEF StartFetch, JobAt, TypeOK
  <2>2. jobs'[w][i].key = jobs[w][i].key /\ jobs'[w][i].phase # "fetched"
    BY <2>1, ValuesAssumption DEF Job
  <2>3. JobShowsFetching'
    BY <1>a, <2>1 DEF RInv, JobShowsFetching
  <2>4. KeyKept'
    <3> SUFFICES ASSUME NEW j \in Items, jobs'[w][j] # NoJob, rows[j] # NoRow
                 PROVE  jobs'[w][j].key = rows[j].key
      BY <1>a, <2>1 DEF KeyKept
    <3>1. jobs'[w][j].key = jobs[w][j].key /\ jobs[w][j] # NoJob
      BY <2>1, <2>2
    <3> QED
      BY <3>1 DEF RInv, KeyKept
  <2>5. CopyNotAhead'
    BY <2>1 DEF RInv, CopyNotAhead
  <2>6. FetchedBetween'
    <3> SUFFICES ASSUME NEW j \in Items, jobs'[w][j] # NoJob, rows[j] # NoRow,
                        jobs'[w][j].phase = "fetched"
                 PROVE  /\ contents[j] <= jobs'[w][j].version
                        /\ jobs'[w][j].version <= site[rows[j].key]
      BY <1>a, <2>1 DEF FetchedBetween
    <3>1. j # i
      BY <2>2
    <3>2. jobs'[w][j] = jobs[w][j]
      BY <2>1, <3>1
    <3> QED
      BY <3>2 DEF RInv, FetchedBetween
  <2> QED
    BY <1>0, <2>3, <2>4, <2>5, <2>6 DEF RInv
<1>8. ASSUME NEW w \in Workers, NEW i \in Items, FetchOk(w, i) PROVE RInv'
  <2>1. /\ UNCHANGED <<rows, contents, site>> /\ i \in Busy(w)
        /\ jobs[w][i] \in Job
        /\ \A j \in Items \ {i} : jobs'[w][j] = jobs[w][j]
        /\ jobs'[w][i] = [jobs[w][i] EXCEPT !.phase = "fetched",
                                            !.version = site[jobs[w][i].key]]
    <3>1. jobs' = [jobs EXCEPT ![w] = [jobs[w] EXCEPT ![i] =
                    [jobs[w][i] EXCEPT !.phase = "fetched",
                                       !.version = site[jobs[w][i].key]]]]
      BY <1>8 DEF FetchOk
    <3> QED
      BY <1>0, <1>8, <3>1 DEF FetchOk, JobAt, TypeOK
  <2>2. /\ jobs'[w][i].key = jobs[w][i].key
        /\ jobs'[w][i].version = site[jobs[w][i].key]
    BY <2>1 DEF Job
  <2>3. JobShowsFetching'
    BY <1>a, <2>1 DEF RInv, JobShowsFetching
  <2>4. KeyKept'
    <3> SUFFICES ASSUME NEW j \in Items, jobs'[w][j] # NoJob, rows[j] # NoRow
                 PROVE  jobs'[w][j].key = rows[j].key
      BY <1>a, <2>1 DEF KeyKept
    <3>1. jobs'[w][j].key = jobs[w][j].key /\ jobs[w][j] # NoJob
      BY <2>1, <2>2
    <3> QED
      BY <3>1 DEF RInv, KeyKept
  <2>5. CopyNotAhead'
    BY <2>1 DEF RInv, CopyNotAhead
  <2>6. FetchedBetween'
    <3> SUFFICES ASSUME NEW u \in Workers, NEW j \in Items, jobs'[u][j] # NoJob,
                        rows[j] # NoRow, jobs'[u][j].phase = "fetched"
                 PROVE  /\ contents[j] <= jobs'[u][j].version
                        /\ jobs'[u][j].version <= site[rows[j].key]
      BY <2>1 DEF FetchedBetween
    <3>0. u = w
      BY <1>a
    <3>1. CASE j = i
      <4>1. jobs[w][i].key = rows[i].key /\ contents[i] <= site[rows[i].key]
        BY <2>1, <3>1 DEF RInv, KeyKept, CopyNotAhead
      <4>2. site[rows[i].key] \in Nat
        BY <1>0, <3>1, LiveTyped
      <4> QED
        BY <2>2, <3>0, <3>1, <4>1, <4>2
    <3>2. CASE j # i
      BY <2>1, <3>0, <3>2 DEF RInv, FetchedBetween
    <3> QED
      BY <3>1, <3>2
  <2> QED
    BY <1>0, <2>3, <2>4, <2>5, <2>6 DEF RInv
<1>9. ASSUME NEW w \in Workers, NEW i \in Items, NEW e \in Reasons, FetchFail(w, i, e) PROVE RInv'
  <2>1. /\ UNCHANGED <<rows, contents, site>> /\ i \in Busy(w)
        /\ jobs[w][i] \in Job
        /\ \A j \in Items \ {i} : jobs'[w][j] = jobs[w][j]
        /\ jobs'[w][i] = [jobs[w][i] EXCEPT !.phase = e]
    BY <1>0, <1>9 DEF FetchFail, JobAt, TypeOK
  <2>2. jobs'[w][i].key = jobs[w][i].key /\ jobs'[w][i].phase # "fetched"
    BY <2>1, ValuesAssumption DEF Job
  <2>3. JobShowsFetching'
    BY <1>a, <2>1 DEF RInv, JobShowsFetching
  <2>4. KeyKept'
    <3> SUFFICES ASSUME NEW j \in Items, jobs'[w][j] # NoJob, rows[j] # NoRow
                 PROVE  jobs'[w][j].key = rows[j].key
      BY <1>a, <2>1 DEF KeyKept
    <3>1. jobs'[w][j].key = jobs[w][j].key /\ jobs[w][j] # NoJob
      BY <2>1, <2>2
    <3> QED
      BY <3>1 DEF RInv, KeyKept
  <2>5. CopyNotAhead'
    BY <2>1 DEF RInv, CopyNotAhead
  <2>6. FetchedBetween'
    <3> SUFFICES ASSUME NEW j \in Items, jobs'[w][j] # NoJob, rows[j] # NoRow,
                        jobs'[w][j].phase = "fetched"
                 PROVE  /\ contents[j] <= jobs'[w][j].version
                        /\ jobs'[w][j].version <= site[rows[j].key]
      BY <1>a, <2>1 DEF FetchedBetween
    <3>1. j # i
      BY <2>2
    <3>2. jobs'[w][j] = jobs[w][j]
      BY <2>1, <3>1
    <3> QED
      BY <3>2 DEF RInv, FetchedBetween
  <2> QED
    BY <1>0, <2>3, <2>4, <2>5, <2>6 DEF RInv
<1>10. ASSUME NEW w \in Workers, NEW i \in Items, StoreSuccess(w, i) PROVE RInv'
  <2> DEFINE v == jobs[w][i].version
  <2>1. /\ UNCHANGED site
        /\ jobs'[w][i] = NoJob /\ jobs[w][i] # NoJob
        /\ \A j \in Items \ {i} : jobs'[w][j] = jobs[w][j]
        /\ \A j \in Items \ {i} : rows'[j] = rows[j] /\ contents'[j] = contents[j]
    BY <1>0, <1>10 DEF StoreSuccess, EndJob, JobAt, TypeOK
  <2>2. /\ ~Live(i) => rows'[i] = rows[i]
        /\ Live(i) => /\ rows'[i] = SuccessRow(rows[i], v) /\ rows[i] \in Row
                      /\ contents'[i] = v /\ v <= site[rows[i].key]
    BY <1>0, <1>10 DEF StoreSuccess, JobAt, TypeOK, RInv, FetchedBetween
  <2> HIDE DEF v
  <2>3. Live(i) => rows'[i].key = rows[i].key
    BY <2>2 DEF SuccessRow, Row
  <2>4. JobShowsFetching'
    BY <1>a, <2>1 DEF RInv, JobShowsFetching
  <2>5. KeyKept'
    BY <1>a, <2>1 DEF RInv, KeyKept
  <2>6. CopyNotAhead'
    <3> SUFFICES ASSUME NEW j \in Items, rows'[j] # NoRow
                 PROVE  contents'[j] <= site[rows'[j].key]
      BY <2>1 DEF CopyNotAhead
    <3>1. CASE j = i
      BY <2>2, <2>3, <3>1
    <3>2. CASE j # i
      BY <2>1, <3>2 DEF RInv, CopyNotAhead
    <3> QED
      BY <3>1, <3>2
  <2>7. FetchedBetween'
    BY <1>a, <2>1 DEF RInv, FetchedBetween
  <2> QED
    BY <1>0, <2>4, <2>5, <2>6, <2>7 DEF RInv
<1>11. ASSUME NEW w \in Workers, NEW i \in Items, NEW e \in Reasons, StoreFailure(w, i, e)
       PROVE RInv'
  <2>1. /\ UNCHANGED <<site, contents>>
        /\ jobs'[w][i] = NoJob /\ jobs[w][i] # NoJob
        /\ \A j \in Items \ {i} : jobs'[w][j] = jobs[w][j]
        /\ \A j \in Items \ {i} : rows'[j] = rows[j]
    BY <1>0, <1>11 DEF StoreFailure, EndJob, JobAt, TypeOK
  <2>2. /\ ~Live(i) => rows'[i] = rows[i]
        /\ Live(i) => rows'[i] = FailedRow(rows[i], e) /\ rows[i] \in Row
    BY <1>0, <1>11 DEF StoreFailure, TypeOK
  <2>3. Live(i) => rows'[i].key = rows[i].key
    BY <2>2 DEF FailedRow, Row
  <2>4. JobShowsFetching'
    BY <1>a, <2>1 DEF RInv, JobShowsFetching
  <2>5. KeyKept'
    BY <1>a, <2>1 DEF RInv, KeyKept
  <2>6. CopyNotAhead'
    BY <2>1, <2>2, <2>3 DEF RInv, CopyNotAhead
  <2>7. FetchedBetween'
    BY <1>a, <2>1 DEF RInv, FetchedBetween
  <2> QED
    BY <1>0, <2>4, <2>5, <2>6, <2>7 DEF RInv
<1>12. ASSUME NEW w \in Workers, NEW i \in Items, StoreRejected(w, i) PROVE RInv'
  <2>1. /\ UNCHANGED <<rows, contents, site>>
        /\ jobs'[w][i] = NoJob /\ jobs[w][i] # NoJob
        /\ \A j \in Items \ {i} : jobs'[w][j] = jobs[w][j]
    BY <1>0, <1>12 DEF StoreRejected, EndJob, JobAt, TypeOK
  <2>2. JobShowsFetching' /\ KeyKept'
    BY <1>a, <2>1 DEF RInv, JobShowsFetching, KeyKept
  <2>3. CopyNotAhead' /\ FetchedBetween'
    BY <1>a, <2>1 DEF RInv, CopyNotAhead, FetchedBetween
  <2> QED
    BY <1>0, <2>2, <2>3 DEF RInv
<1>13. ASSUME NEW w \in Workers, NEW i \in Items, StoreLost(w, i) PROVE RInv'
  <2>1. /\ UNCHANGED <<rows, contents, site>>
        /\ jobs'[w][i] = NoJob /\ jobs[w][i] # NoJob
        /\ \A j \in Items \ {i} : jobs'[w][j] = jobs[w][j]
    BY <1>0, <1>13 DEF StoreLost, EndJob, JobAt, TypeOK
  <2>2. JobShowsFetching' /\ KeyKept'
    BY <1>a, <2>1 DEF RInv, JobShowsFetching, KeyKept
  <2>3. CopyNotAhead' /\ FetchedBetween'
    BY <1>a, <2>1 DEF RInv, CopyNotAhead, FetchedBetween
  <2> QED
    BY <1>0, <2>2, <2>3 DEF RInv
<1>14. ASSUME NEW w \in Workers, Crash(w) PROVE RInv'
  <2>1. /\ UNCHANGED <<rows, contents, site>>
        /\ \A i \in Items : jobs'[w][i] = NoJob
    BY <1>0, <1>14 DEF Crash, TypeOK
  <2>2. JobShowsFetching' /\ KeyKept' /\ FetchedBetween'
    BY <1>a, <2>1 DEF JobShowsFetching, KeyKept, FetchedBetween
  <2>3. CopyNotAhead'
    BY <2>1 DEF RInv, CopyNotAhead
  <2> QED
    BY <1>0, <2>2, <2>3 DEF RInv
<1>15. ASSUME NEW w \in Workers, Restart(w) PROVE RInv'
  BY <1>0, <1>15 DEF Restart, RInv, JobShowsFetching, KeyKept, CopyNotAhead, FetchedBetween
<1>16. CASE UNCHANGED vars
  BY <1>0, <1>16 DEF vars, RInv, JobShowsFetching, KeyKept, CopyNotAhead, FetchedBetween
<1> QED
  BY <1>1, <1>2, <1>3, <1>4, <1>5, <1>6, <1>7, <1>8, <1>9, <1>10, <1>11, <1>12,
     <1>13, <1>14, <1>15, <1>16 DEF Next, Fetch, StoreOutcome

\* With one worker, an item with a job out shows `fetching' until the job ends.
THEOREM JobsShowFetching ==
    ASSUME OneWorker
    PROVE  Spec => []JobShowsFetching
<1>1. RInv => JobShowsFetching
  BY DEF RInv
<1> QED
  BY RInvInit, RInvStep, <1>1, PTL DEF Spec

-----------------------------------------------------------------------------
(* The refinement. *)

\* Steps that touch no row's key, no copy and no page are stutters.
LEMMA SameKeys ==
    ASSUME \A i \in Items : (Live(i)' <=> Live(i)) /\ (Live(i) => rows'[i].key = rows[i].key)
    PROVE  UNCHANGED SavedKey
BY DEF SavedKey, Live

LEMMA ReaderInit == Init => Reader!Init
BY DEF Init, Reader!Init, SavedKey, Live

LEMMA ReaderStep ==
    ASSUME OneWorker
    PROVE  RInv /\ [Next]_vars => [Reader!Next]_<<SavedKey, contents, site>>
<1> SUFFICES ASSUME RInv, [Next]_vars
             PROVE  \/ Reader!Next
                    \/ UNCHANGED SavedKey /\ UNCHANGED contents /\ UNCHANGED site
  OBVIOUS
<1>0. TypeOK /\ TypeOK'
  BY TypeStep DEF RInv, IInv
<1>k. \A i \in Items : Live(i) => rows[i] \in Row /\ rows[i].key # NoRow
  BY <1>0, LiveTyped, Presence
<1>1. ASSUME NEW k \in Keys, CreateItem(k) PROVE Reader!Next
  <2> DEFINE n == made + 1
  <2>1. /\ n \in Items /\ n > made
        /\ rows' = [rows EXCEPT ![n] = NewRow(k)]
        /\ \A i \in Items : Live(i) => rows[i].key # k
        /\ UNCHANGED <<contents, site>>
    BY <1>0, <1>1, BoundsAssumption DEF CreateItem, Items, TypeOK
  <2> HIDE DEF n
  <2>2. ~Live(n)
    BY <2>1 DEF RInv, IInv, FreshIds
  <2>3. /\ rows'[n] # NoRow /\ rows'[n].key = k
        /\ \A i \in Items \ {n} : rows'[i] = rows[i]
    <3>1. rows'[n] = NewRow(k) /\ \A i \in Items \ {n} : rows'[i] = rows[i]
      BY <1>0, <2>1 DEF TypeOK
    <3>2. NewRow(k) \in Row
      BY RowsWritten
    <3>3. NewRow(k) # NoRow /\ NewRow(k).key = k
      BY <3>2, NewRowFields, Presence
    <3> QED
      BY <3>1, <3>3
  <2>4. SavedKey' = [SavedKey EXCEPT ![n] = k]
    <3>1. \A i \in Items : SavedKey'[i] = IF i = n THEN k ELSE SavedKey[i]
      BY <2>3 DEF SavedKey, Live
    <3> QED
      BY <2>1, <3>1 DEF SavedKey
  <2>5. SavedKey[n] = NoRow /\ \A j \in Items : SavedKey[j] # k
    BY <2>1, <2>2, Presence DEF SavedKey
  <2>6. Reader!Save(n, k)
    BY <2>1, <2>4, <2>5 DEF Reader!Save
  <2> QED
    BY <2>1, <2>6 DEF Reader!Next
<1>2. ASSUME NEW k \in Keys, SiteChanges(k) PROVE Reader!Next
  <2>1. UNCHANGED SavedKey
    BY <1>2 DEF SiteChanges, SavedKey, Live
  <2>2. Reader!Move(k)
    BY <1>2, <2>1 DEF SiteChanges, Reader!Move
  <2> QED
    BY <2>2 DEF Reader!Next
<1>3. ASSUME NEW i \in Items, DeleteItem(i) PROVE Reader!Next
  <2>1. SavedKey[i] # NoRow
    BY <1>3, <1>k DEF DeleteItem, SavedKey
  <2>2. SavedKey' = [SavedKey EXCEPT ![i] = NoRow]
    BY <1>0, <1>3 DEF DeleteItem, SavedKey, TypeOK, Live
  <2>3. Reader!Remove(i)
    BY <1>3, <2>1, <2>2 DEF DeleteItem, Reader!Remove
  <2> QED
    BY <2>3 DEF Reader!Next
<1>4. ASSUME NEW i \in Items, RequestRefetch(i)
      PROVE UNCHANGED SavedKey /\ UNCHANGED contents /\ UNCHANGED site
  <2>1. /\ rows[i] \in Row /\ Live(i) /\ rows'[i] = RequestedRow(rows[i])
        /\ \A j \in Items \ {i} : rows'[j] = rows[j]
    BY <1>0, <1>4, <1>k DEF RequestRefetch, TypeOK
  <2>2. rows'[i] # NoRow
    BY <2>1, RowsWritten, Presence
  <2>3. rows'[i].key = rows[i].key
    BY <2>1, RowFields
  <2> QED
    BY <1>4, <2>1, <2>2, <2>3, SameKeys DEF RequestRefetch, Live
<1>5. ASSUME NEW locked \in SUBSET Items, ClaimRows(Batch(locked))
      PROVE  UNCHANGED SavedKey
  BY <1>0, <1>5, ClaimEffect, SameKeys DEF Live
<1>6. ASSUME NEW w \in Workers, NEW i \in Items, StoreSuccess(w, i)
      PROVE  \/ Reader!Next
             \/ UNCHANGED SavedKey /\ UNCHANGED contents /\ UNCHANGED site
  <2> DEFINE v == jobs[w][i].version
  <2>1. CASE ~Live(i)
    BY <1>6, <2>1 DEF StoreSuccess, SavedKey, Live
  <2>2. CASE Live(i)
    <3>1. /\ i \in Busy(w) /\ jobs[w][i].phase = "fetched"
          /\ rows' = [rows EXCEPT ![i] = SuccessRow(rows[i], v)]
          /\ contents' = [contents EXCEPT ![i] = v]
          /\ UNCHANGED site
      BY <1>6, <2>2 DEF StoreSuccess, JobAt
    <3>2. /\ contents[i] <= v /\ v <= site[rows[i].key] /\ v > 0 /\ v \in Nat
          /\ contents[i] \in Nat
      BY <1>0, <2>2, <3>1, JobTyped, LiveTyped DEF RInv, IInv, FetchedBetween, FetchedHasVersion
    <3>3. v \in 1 .. MaxVersion
      BY <1>0, <3>1, <3>2, JobTyped, BoundsAssumption DEF Job
    <3> HIDE DEF v
    <3>4. site[rows[i].key] \in Nat /\ rows[i] \in Row
      BY <1>0, <2>2, LiveTyped
    <3>5. SuccessRow(rows[i], v) \in Row
      <4>1. v \in 0 .. MaxVersion
        BY <3>3, BoundsAssumption
      <4> QED
        BY <3>4, <4>1, RowsWritten
    <3>6. SuccessRow(rows[i], v).key = rows[i].key
      BY <3>3, <3>4 DEF SuccessRow, Row
    <3>7. UNCHANGED SavedKey
      <4>1. /\ rows'[i] # NoRow /\ rows'[i].key = rows[i].key
            /\ \A j \in Items \ {i} : rows'[j] = rows[j]
        BY <1>0, <3>1, <3>5, <3>6, Presence DEF TypeOK
      <4> QED
        BY <2>2, <4>1, SameKeys DEF Live
    <3>8. SavedKey[i] = rows[i].key /\ SavedKey[i] # NoRow
      BY <1>k, <2>2 DEF SavedKey
    <3>9. v \in contents[i] .. site[SavedKey[i]]
      BY <3>2, <3>4, <3>8
    <3>10. Reader!Refresh(i, v)
      BY <3>1, <3>2, <3>7, <3>8, <3>9 DEF Reader!Refresh
    <3> QED
      BY <3>3, <3>10 DEF Reader!Next
  <2> QED
    BY <2>1, <2>2
<1>7. ASSUME NEW w \in Workers, NEW i \in Items, NEW e \in Reasons, StoreFailure(w, i, e)
      PROVE  UNCHANGED SavedKey
  <2>1. CASE ~Live(i)
    BY <1>7, <2>1 DEF StoreFailure, SavedKey, Live
  <2>2. CASE Live(i)
    <3>1. /\ rows[i] \in Row /\ rows'[i] = FailedRow(rows[i], e)
          /\ \A j \in Items \ {i} : rows'[j] = rows[j]
      BY <1>0, <1>7, <1>k, <2>2 DEF StoreFailure, TypeOK
    <3>2. rows'[i] # NoRow
      BY <3>1, RowsWritten, Presence
    <3>3. rows'[i].key = rows[i].key
      BY <3>1 DEF FailedRow, Row
    <3> QED
      BY <2>2, <3>1, <3>2, <3>3, SameKeys DEF Live
  <2> QED
    BY <2>1, <2>2
<1>8. UNCHANGED rows => UNCHANGED SavedKey
  BY DEF SavedKey, Live
<1> QED
  <2>1. ASSUME NEW w \in Workers, NEW locked \in SUBSET Items,
               Claim(w, locked) \/ ClaimLost(w, locked)
        PROVE  UNCHANGED SavedKey /\ UNCHANGED contents /\ UNCHANGED site
    BY <1>5, <2>1 DEF Claim, ClaimLost
  <2>2. ASSUME NEW w \in Workers, NEW i \in Items,
               \/ StartFetch(w, i) \/ Fetch(w, i) \/ StoreRejected(w, i)
               \/ StoreLost(w, i) \/ Crash(w) \/ Restart(w)
        PROVE  UNCHANGED SavedKey /\ UNCHANGED contents /\ UNCHANGED site
    BY <1>8, <2>2 DEF StartFetch, Fetch, FetchOk, FetchFail, StoreRejected, StoreLost,
                      Crash, Restart
  <2>3. ASSUME NEW w \in Workers, NEW i \in Items, NEW e \in Reasons, StoreFailure(w, i, e)
        PROVE  UNCHANGED SavedKey /\ UNCHANGED contents /\ UNCHANGED site
    BY <1>7, <2>3 DEF StoreFailure
  <2>4. ASSUME NEW w \in Workers, Crash(w) \/ Restart(w)
        PROVE  UNCHANGED SavedKey /\ UNCHANGED contents /\ UNCHANGED site
    BY <1>8, <2>4 DEF Crash, Restart
  <2>5. CASE UNCHANGED vars
    BY <1>8, <2>5 DEF vars
  <2> QED
    BY <1>1, <1>2, <1>3, <1>4, <1>6, <2>1, <2>2, <2>3, <2>4, <2>5 DEF Next, StoreOutcome

\* The fetch pipeline implements Archive: a reader never sees an older copy
\* after a newer one, a copy of another page, or one of a deleted item.
THEOREM ReaderRefinement ==
    ASSUME OneWorker
    PROVE  Spec => ReaderSpec
<1>1. RInv /\ [Next]_vars => [Reader!Next]_<<SavedKey, contents, site>>
  BY ReaderStep
<1> QED
  BY RInvInit, RInvStep, ReaderInit, <1>1, PTL DEF Spec, ReaderSpec, Reader!Spec
=============================================================================
