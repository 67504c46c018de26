------------------------------ MODULE TagStore ------------------------------
(***************************************************************************)
(* The transactions of internal/store/store.go that touch more than one    *)
(* row (CreateItem, DeleteItem, ReplaceItemTags, UpdateFetchSuccess,       *)
(* ClaimItemsForFetch), as PostgreSQL runs them under READ COMMITTED: every statement sees the     *)
(* database as it was committed when the statement began, plus the         *)
(* transaction's own writes, and then takes its rows one at a time,        *)
(* waiting for the row locks of others.                                    *)
(*                                                                         *)
(* A row is its table and its key.  A tag row stands for its name: names   *)
(* are unique over all users (tags.normalized_name).  An item id is never  *)
(* used again; the items of one KeyOf are one user's one canonical_hash.   *)
(* The other columns do not matter here, so a row is there or not, and an  *)
(* uncommitted insert or delete is an exclusive lock on the row.           *)
(***************************************************************************)
EXTENDS Naturals, Sequences, Functions

CONSTANTS
    Items,
    Tags,
    Keys,
    KeyOf,    \* the (user_id, canonical_hash) of an item
    Procs,    \* database connections: one transaction at a time each
    Workers,  \* the connections of the worker; the others serve requests
    Ops,      \* what can be asked: [kind, item, tags, own]
    MaxOps,   \* bound: requests in a behaviour
    NoTx

Kinds == {"create", "replace", "delete", "fetch", "claim"}

\* `own': the item belongs to the user who asks.  A claim is for no item in
\* particular.
Op == [kind : Kinds, item : Items, tags : Seq(Tags), own : BOOLEAN]

ASSUME OpsAssumption ==
    /\ KeyOf \in [Items -> Keys]
    /\ Workers \subseteq Procs
    /\ Ops \subseteq Op
    /\ MaxOps \in Nat

ItemRow(i) == <<"item", i>>
ContentRow(i) == <<"content", i>>
LinkRow(i, g) == <<"link", i, g>>
TagRow(g) == <<"tag", g>>

ItemRows == {ItemRow(i) : i \in Items}
ContentRows == {ContentRow(i) : i \in Items}
LinkRows == {LinkRow(i, g) : i \in Items, g \in Tags}
TagRows == {TagRow(g) : g \in Tags}
Rows == ItemRows \cup ContentRows \cup LinkRows \cup TagRows

\* Row locks: FOR KEY SHARE (a foreign key check), FOR NO KEY UPDATE (an
\* UPDATE that leaves the key alone) and exclusive (DELETE, INSERT).
Modes == {"keyshare", "update", "exclusive"}
Conflict(m, n) == "exclusive" \in {m, n} \/ "keyshare" \notin {m, n}

\* Statements, and the foreign key checks that follow an INSERT.
Scans == {"contents", "unlink", "item", "sweep", "update", "pick"}
Deletes == Scans \ {"update", "pick"}
Upserts == {"tag", "content"}
KeyChecks == {"linkitem", "linktag", "contentitem"}
\* The stages of each transaction.
StagesOf ==
    [create  |-> {"insert", "select", "tag", "link", "linkitem", "linktag", "commit"},
     replace |-> {"check", "unlink", "tag", "link", "linkitem", "linktag", "sweep", "commit"},
     delete  |-> {"contents", "unlink", "item", "sweep", "commit", "leaked"},
     fetch   |-> {"update", "content", "contentitem", "commit"},
     claim   |-> {"pick", "commit", "leaked"}]
Stages == UNION {StagesOf[kind] : kind \in Kinds}

VARIABLES
    db,     \* the committed rows
    tx,     \* the transaction of each connection
    held,   \* the row locks of each connection
    ins,    \* rows inserted and not yet committed
    del,    \* rows deleted and not yet committed
    known,  \* history: the ids of committed items, deleted ones included
    saved,  \* history: the tags each item was last saved with
    begun   \* history: number of requests so far

vars == <<db, tx, held, ins, del, known, saved, begun>>

\* `rest' are the tags still to write, in the order of the request; `todo'
\* are the rows the current statement has still to take.
Tx == [kind : Kinds, item : Items, tags : Seq(Tags), own : BOOLEAN,
       rest : Seq(Tags), stage : Stages, todo : SUBSET Rows]

ASSUME NoTxAssumption == NoTx \notin Tx

TypeOK ==
    /\ db \in SUBSET Rows
    /\ tx \in [Procs -> Tx \cup {NoTx}]
    /\ \A p \in Procs : tx[p] # NoTx => tx[p].stage \in StagesOf[tx[p].kind]
    /\ held \in [Procs -> SUBSET (Rows \X Modes)]
    /\ ins \in [Procs -> SUBSET Rows]
    /\ del \in [Procs -> SUBSET Rows]
    /\ known \in SUBSET Items
    /\ saved \in [Items -> SUBSET Tags]
    /\ begun \in 0 .. MaxOps

Init ==
    /\ db = {}
    /\ tx = [p \in Procs |-> NoTx]
    /\ held = [p \in Procs |-> {}]
    /\ ins = [p \in Procs |-> {}]
    /\ del = [p \in Procs |-> {}]
    /\ known = {}
    /\ saved = [i \in Items |-> {}]
    /\ begun = 0

Visible(p) == (db \ del[p]) \cup ins[p]
LinksOf(i, view) == {r \in view \cap LinkRows : r[2] = i}
LinksTo(g, view) == {r \in view \cap LinkRows : r[3] = g}
TagsOf(i, view) == {r[3] : r \in LinksOf(i, view)}
SameKey(i) == {ItemRow(j) : j \in {k \in Items : KeyOf[k] = KeyOf[i]}}

-----------------------------------------------------------------------------
(***************************************************************************)
(* The statements of each transaction, in order, and the rows each finds   *)
(* when it begins.                                                         *)
(***************************************************************************)
FirstStage == [create |-> "insert", replace |-> "check", delete |-> "contents",
               fetch |-> "update", claim |-> "pick"]

AfterTagsBug(t) == "commit"
AfterTagsSweepBug(t) == "sweep"
AfterTags(t) == IF t.kind = "replace" THEN "sweep" ELSE "commit"
TagsOrDone(t) == IF t.rest = <<>> THEN AfterTags(t) ELSE "tag"

\* Where a transaction goes after a statement.  An INSERT INTO items that met
\* another row looks the row up and links no tags; a DELETE FROM items that
\* removed nothing returns ErrNoRows with err = nil, so that the deferred
\* function does not roll back and the connection is never given back.
NextStage(p) ==
    LET t == tx[p] IN
    CASE t.stage = "insert"   -> IF ItemRow(t.item) \in ins[p] THEN TagsOrDone(t) ELSE "select"
      [] t.stage = "check"    -> "unlink"
      [] t.stage = "contents" -> "unlink"
      [] t.stage = "unlink"   -> IF t.kind = "delete" THEN "item" ELSE TagsOrDone(t)
      [] t.stage = "tag"      -> "link"
      [] t.stage = "link"     -> IF LinkRow(t.item, Head(t.rest)) \in ins[p] THEN "linkitem"
                                 ELSE TagsOrDone([t EXCEPT !.rest = Tail(t.rest)])
      [] t.stage = "linkitem" -> "linktag"
      [] t.stage = "linktag"  -> TagsOrDone([t EXCEPT !.rest = Tail(t.rest)])
      [] t.stage = "item"     -> IF ItemRow(t.item) \in del[p] THEN "sweep" ELSE "leaked"
      [] t.stage = "update"   -> "content"
      [] t.stage = "content"  -> IF ContentRow(t.item) \in ins[p] THEN "contentitem" ELSE "commit"
      [] OTHER                -> "commit"

RestAfter(t, stage) ==
    IF t.stage \in {"link", "linktag"} /\ stage # "linkitem" THEN Tail(t.rest) ELSE t.rest

\* WHERE ... AND EXISTS (SELECT 1 FROM items WHERE id=$1 AND user_id=$2)
MineBug(t, view) == ItemRow(t.item) \in view
Mine(t, view) == t.own /\ ItemRow(t.item) \in view

LinksToDropBug(t, view) == IF Mine(t, view) /\ t.kind = "delete" THEN LinksOf(t.item, view) ELSE {}
LinksToDrop(t, view) ==
    IF t.kind = "replace" \/ Mine(t, view) THEN LinksOf(t.item, view) ELSE {}

\* DELETE FROM tags WHERE NOT EXISTS (SELECT 1 FROM item_tags ...)
Unlinked(view) == {r \in view \cap TagRows : LinksTo(r[2], view) = {}}

Targets(t, stage, view) ==
    CASE stage = "contents"    -> IF Mine(t, view) THEN {ContentRow(t.item)} \cap view ELSE {}
      [] stage = "unlink"      -> LinksToDrop(t, view)
      [] stage = "item"        -> IF t.own THEN {ItemRow(t.item)} \cap view ELSE {}
      [] stage = "update"      -> {ItemRow(t.item)} \cap view
      [] stage = "pick"        -> ItemRows \cap view
      [] stage = "sweep"       -> Unlinked(view)
      [] stage \in {"insert", "linkitem", "contentitem"} -> {ItemRow(t.item)}
      [] stage \in {"tag", "linktag"} -> {TagRow(Head(t.rest))}
      [] stage = "link"        -> {LinkRow(t.item, Head(t.rest))}
      [] stage = "content"     -> {ContentRow(t.item)}
      [] OTHER                 -> {}

\* ON DELETE CASCADE
ChildrenBug(r, view) == IF r \in ItemRows THEN LinksOf(r[2], view) \cup ({ContentRow(r[2])} \cap view)
                        ELSE {}
Children(r, view) ==
    CASE r \in ItemRows -> LinksOf(r[2], view) \cup ({ContentRow(r[2])} \cap view)
      [] r \in TagRows  -> LinksTo(r[2], view)
      [] OTHER          -> {}

-----------------------------------------------------------------------------
(***************************************************************************)
(* Row locks.  A DELETE takes its own rows before the rows that it         *)
(* cascades to.  An INSERT waits for the uncommitted inserts and deletes   *)
(* of rows with its unique key, and meets the committed ones.              *)
(***************************************************************************)
Ready(p) ==
    LET parents == tx[p].todo \cap (ItemRows \cup TagRows)
    IN  IF parents = {} THEN tx[p].todo ELSE parents

Wanted(p, r) ==
    CASE tx[p].stage \in KeyChecks \cup {"insert"} -> "keyshare"
      [] tx[p].stage = "update" -> "update"
      [] tx[p].stage \in Upserts /\ r \in Visible(p) -> "update"
      [] OTHER -> "exclusive"

Blockers(p, r) ==
    LET clash == IF tx[p].stage = "insert" THEN SameKey(r[2]) ELSE {r}
    IN  {q \in Procs \ {p} :
            \E l \in held[q] : l[1] \in clash /\ Conflict(Wanted(p, r), l[2])}

Running(p) == tx[p] # NoTx /\ tx[p].stage # "leaked"

WaitsFor(p) ==
    IF Running(p) /\ tx[p].stage # "pick" /\ tx[p].todo # {} /\ \A r \in Ready(p) : Blockers(p, r) # {}
    THEN UNION {Blockers(p, r) : r \in Ready(p)}
    ELSE {}

\* p is on a cycle of connections that wait for one another.
Deadlocked(p) ==
    /\ WaitsFor(p) # {}
    /\ \E S \in SUBSET Procs : \E next \in Bijection(S, S) :
        p \in S /\ \A q \in S : next[q] \in WaitsFor(q)

\* p takes row r with a lock of mode m, and has rows `more' to take after it.
Take(p, r, m, more) ==
    /\ held' = [held EXCEPT ![p] = @ \cup {<<r, m>>}]
    /\ tx' = [tx EXCEPT ![p] = [tx[p] EXCEPT !.todo = (@ \ {r}) \cup more]]

\* The current statement takes row r now.
CanTake(p, r) ==
    /\ Running(p)
    /\ r \in Ready(p)
    /\ Blockers(p, r) = {}

-----------------------------------------------------------------------------
Idle(p) ==
    /\ held' = [held EXCEPT ![p] = {}]
    /\ ins' = [ins EXCEPT ![p] = {}]
    /\ del' = [del EXCEPT ![p] = {}]

\* The deferred function, after an error in a statement.
Rollback(p) ==
    /\ Idle(p)
    /\ tx' = [tx EXCEPT ![p] = NoTx]
    /\ UNCHANGED <<db, known, saved, begun>>

\* A request for an item needs its id: ids of other transactions that have
\* not committed are known to nobody.  A new item gets a new id.
Possible(op, p) ==
    /\ op.kind \in {"fetch", "claim"} <=> p \in Workers
    /\ IF op.kind = "create"
       THEN op.item \notin known /\ \A q \in Procs : tx[q] # NoTx => tx[q].item # op.item
       ELSE op.item \in known

Begin(p, op) ==
    /\ tx[p] = NoTx
    /\ begun < MaxOps
    /\ Possible(op, p)
    /\ LET stage == FirstStage[op.kind]
       IN  tx' = [tx EXCEPT ![p] =
                    [kind |-> op.kind, item |-> op.item, tags |-> op.tags, own |-> op.own,
                     rest |-> op.tags, stage |-> stage, todo |-> Targets(op, stage, db)]]
    /\ begun' = begun + 1
    /\ UNCHANGED <<db, held, ins, del, known, saved>>

\* A SELECT of the current statement finds no row.
NotFound(p) ==
    LET t == tx[p] IN
    \/ t.stage = "check" /\ ~Mine(t, Visible(p))
    \/ t.stage = "select" /\ SameKey(t.item) \cap Visible(p) = {}

\* A statement has taken all its rows; the next one begins.
Advance(p) ==
    /\ Running(p)
    /\ tx[p].todo = {}
    /\ tx[p].stage # "commit"
    /\ ~NotFound(p)
    /\ LET stage == NextStage(p)
           t == [tx[p] EXCEPT !.rest = RestAfter(tx[p], stage), !.stage = stage]
       IN  tx' = [tx EXCEPT ![p] = [t EXCEPT !.todo = Targets(t, stage, Visible(p))]]
    /\ UNCHANGED <<db, held, ins, del, known, saved, begun>>

\* ErrNoRows from a SELECT: 404, or 500 from CreateItem's second statement.
Missing(p) ==
    /\ Running(p)
    /\ NotFound(p)
    /\ Rollback(p)

DeleteRow(p, r) ==
    /\ CanTake(p, r)
    /\ tx[p].stage \in Deletes
    /\ Take(p, r, "exclusive", Children(r, Visible(p)))
    /\ del' = [del EXCEPT ![p] = @ \cup ({r} \cap db)]
    /\ ins' = [ins EXCEPT ![p] = @ \ {r}]
    /\ UNCHANGED <<db, known, saved, begun>>

\* UPDATE items ... WHERE id=$3
UpdateItem(p, r) ==
    /\ CanTake(p, r)
    /\ tx[p].stage = "update"
    /\ Take(p, r, Wanted(p, r), {})
    /\ UNCHANGED <<db, ins, del, known, saved, begun>>

\* SELECT ... FOR UPDATE SKIP LOCKED.  The UPDATEs of a claim find the rows
\* locked by itself, so they are not stages of their own.
LockRow(p, r) ==
    /\ CanTake(p, r)
    /\ tx[p].stage = "pick"
    /\ Take(p, r, Wanted(p, r), {})
    /\ UNCHANGED <<db, ins, del, known, saved, begun>>

SkipLocked(p, r) ==
    /\ Running(p)
    /\ tx[p].stage = "pick"
    /\ r \in tx[p].todo
    /\ Blockers(p, r) # {}
    /\ tx' = [tx EXCEPT ![p] = [tx[p] EXCEPT !.todo = @ \ {r}]]
    /\ UNCHANGED <<db, held, ins, del, known, saved, begun>>

\* The SELECT fails, and ClaimItemsForFetch returns the error of rows.Err,
\* which is not the err that the deferred function looks at: PostgreSQL has
\* aborted the transaction and dropped its locks, the connection is lost.
\* (The return after rows.Scan would keep the locks, but the columns of the
\* SELECT always fit what they are scanned into.)
RowsErrBug(p) ==
    /\ Running(p)
    /\ tx[p].stage = "pick"
    /\ tx' = [tx EXCEPT ![p] = [tx[p] EXCEPT !.stage = "leaked", !.todo = {}]]
    /\ UNCHANGED <<db, held, ins, del, known, saved, begun>>
RowsErr(p) ==
    /\ Running(p)
    /\ tx[p].stage = "pick"
    /\ Idle(p)
    /\ tx' = [tx EXCEPT ![p] = [tx[p] EXCEPT !.stage = "leaked", !.todo = {}]]
    /\ UNCHANGED <<db, known, saved, begun>>

\* INSERT ... ON CONFLICT: an existing row is left alone (items, item_tags)
\* or updated in place (tags, item_contents).
InsertRow(p, r) ==
    /\ CanTake(p, r)
    /\ tx[p].stage \in {"insert", "link"} \cup Upserts
    /\ LET there == (IF tx[p].stage = "insert" THEN SameKey(r[2]) ELSE {r})
                       \cap Visible(p) # {}
       IN  IF there /\ tx[p].stage \notin Upserts
           THEN /\ tx' = [tx EXCEPT ![p] = [tx[p] EXCEPT !.todo = @ \ {r}]]
                /\ UNCHANGED <<held, ins>>
           ELSE /\ Take(p, r, IF there THEN "update" ELSE "exclusive", {})
                /\ ins' = [ins EXCEPT ![p] = IF there THEN @ ELSE @ \cup {r}]
    /\ UNCHANGED <<db, del, known, saved, begun>>

\* REFERENCES: the row that a new row points to is locked, or missing.
CheckKey(p, r) ==
    /\ CanTake(p, r)
    /\ tx[p].stage \in KeyChecks
    /\ r \in Visible(p)
    /\ Take(p, r, Wanted(p, r), {})
    /\ UNCHANGED <<db, ins, del, known, saved, begun>>

KeyMissing(p, r) ==
    /\ CanTake(p, r)
    /\ tx[p].stage \in KeyChecks
    /\ r \notin Visible(p)
    /\ Rollback(p)

\* A scan that waited for a row skips it when the row is gone.
Skip(t, gone) ==
    IF t # NoTx /\ t.stage \in Scans THEN [t EXCEPT !.todo = @ \ gone] ELSE t

Commit(p) ==
    /\ Running(p)
    /\ tx[p].stage = "commit"
    /\ Idle(p)
    /\ LET t == tx[p]
           wrote == t.kind = "replace" \/ ItemRow(t.item) \in ins[p]
       IN  saved' = IF wrote THEN [saved EXCEPT ![t.item] = Range(t.tags)] ELSE saved
    /\ db' = Visible(p)
    /\ known' = known \cup {i \in Items : ItemRow(i) \in ins[p]}
    /\ tx' = [q \in Procs |-> IF q = p THEN NoTx ELSE Skip(tx[q], del[p])]
    /\ UNCHANGED begun

\* PostgreSQL ends a cycle of waits by aborting one of its transactions.
DeadlockAbort(p) ==
    /\ Deadlocked(p)
    /\ Rollback(p)

\* The client went away, the worker died, the connection broke.
Cancel(p) ==
    /\ Running(p)
    /\ Rollback(p)

\* What goes on by itself.
Work(p) ==
    \/ Advance(p)
    \/ Missing(p)
    \/ Commit(p)
    \/ DeadlockAbort(p)
    \/ \E r \in Rows :
        \/ DeleteRow(p, r)
        \/ UpdateItem(p, r)
        \/ LockRow(p, r)
        \/ SkipLocked(p, r)
        \/ InsertRow(p, r)
        \/ CheckKey(p, r)
        \/ KeyMissing(p, r)

Next ==
    \E p \in Procs :
        \/ \E op \in Ops : Begin(p, op)
        \/ Work(p)
        \/ Cancel(p)
        \/ RowsErr(p)

\* A goroutine that is not waiting for a lock goes on, and PostgreSQL looks
\* for deadlocks (deadlock_timeout).  No request has to come and no client
\* has to go away.
Spec == Init /\ [][Next]_vars /\ \A p \in Procs : WF_vars(Work(p))

-----------------------------------------------------------------------------
(***************************************************************************)
(* Properties                                                              *)
(***************************************************************************)

\* No link and no content is left of a deleted item, and no link to a swept
\* tag, whatever deletes, saves and stores run at the same time: the joins of
\* ListItems and GetItemDetail, and the counts of ListTagsWithCount, rest on
\* it (store.go 115-160, 301-337, 352-431, 547-560).
RowsResolve ==
    /\ \A i \in Items : ContentRow(i) \in db => ItemRow(i) \in db
    /\ \A r \in db \cap LinkRows : ItemRow(r[2]) \in db /\ TagRow(r[3]) \in db

\* The transaction that DeleteItem abandons when there is nothing to delete
\* holds no row: the EXISTS clauses of its first two statements, and the
\* cascade, see to it that it took no child of a row that it does not find.
\* Nor does the one that ClaimItemsForFetch abandons.  Else the rows would be
\* locked until the server stops (store.go 313-326, 515-517).
LeakedHoldsNothing ==
    \A p \in Procs : tx[p] # NoTx /\ tx[p].stage = "leaked" => held[p] = {}

\* An item has the tags it was last saved with (README.md 3), whatever the
\* worker stores and whichever transactions are rolled back: with one editor
\* at a time.  With two, the sweep of one breaks what the other has saved
\* (store.go 136-157, 371-398).
TagsAsLastSaved ==
    \A i \in Items : ItemRow(i) \in db => TagsOf(i, db) = saved[i]

\* With one editor at a time, a tag that no item has is gone when the request
\* that took it from its last item has committed: ListTagsWithCount counts
\* none at 0 (store.go 327-330, 395-398, 456-480).
NoOrphanTags ==
    \A g \in Tags : TagRow(g) \in db => LinksTo(g, db) # {}

\* Every transaction ends, or is an abandoned one: lock
\* cycles between tag upserts, sweeps, cascades and stores are all broken,
\* and an abandoned transaction stands in nobody's way.
EveryTxEnds ==
    \A p \in Procs : Running(p) ~> ~Running(p)

\* A connection that took a request serves another one in the end: a
\* POST /v1/items is answered (README.md 58).  DeleteItem breaks it.
ConnectionsComeBack ==
    \A p \in Procs : tx[p] # NoTx ~> tx[p] = NoTx
=============================================================================
