# altpocket-server: models, checks and proofs

altpocket-server is a read-it-later service: a Go API and web server
(`src/cmd/api`), a Go worker that fetches saved pages once a minute
(`src/cmd/worker`), the PostgreSQL database they share (`src/migrations`), a
browser extension (`src/extension`) and the scripts of the web pages
(`src/static`). This directory holds TLA+ models of the parts in which order,
failure and concurrency matter, TLC configurations that check them on small
instances, and TLAPS proofs of the main safety properties for every value of the
constants.

    tlc -workers 2 -config FetchQueueTwoWorkers.cfg MCFetchQueue.tla
    tlapm FetchQueueProofs.tla

`PROJECT.json` lists the runs, the source lines behind every definition, the
hazards of the code with the properties that watch them, and a mutant (an
operator named `...Bug`, placed before the one it spoils) for every property.

## 1. The system

| Component | State | Operations | Talks to |
|---|---|---|---|
| Fetch queue and worker (`cmd/worker`, `store.go` claim and outcomes) | `items.fetch_status`, `refetch_requested`, `title`, `item_contents`; goroutines of a batch, the semaphore | claim, fetch, store success or failure; tick, crash, restart | API through the tables only |
| Item, tag and content transactions (`store.go`) | `items`, `item_contents`, `tags`, `item_tags`, row locks, open transactions | CreateItem, DeleteItem, ReplaceItemTags, UpdateFetchSuccess, ClaimItemsForFetch | each other through row locks |
| Web sessions, login, CSRF (`server.go`, `session.go`) | `sessions`, cookies `oauth_state` and `altpocket_session`, tokens in open pages | login, callback, page, write, quick add, cleanup | worker (cleanup), every handler |
| Rate limiter (`ratelimit.go`) | one bucket per user in memory | Allow | the five handlers that write |
| API process and pool (`cmd/api`, `db.go`) | listener, goroutines of requests, connections that are out | accept, acquire, release, abandon, stop | every store call |
| List, search, pagination, tag counts (`store.go`, `server.go`) | what a reader is shown | ListItems (count, select), ListTagsWithCount, links of pages | the tables, while others write them |
| Tag editor of the item page (`app.js`, `handleUpdateItemTags`) | draft, suggestions, the save in flight | open, type, pick, save, cancel, answers | API with cookie and CSRF token |
| Quick Add and the popup (`app.js`, `popup.js`) | chips, text, suggestions | add, click, blur, submit, refused form | CreateItem through both APIs |
| URL and tag normalisation (`urlnorm`, `tag`) | the canonical URL of an item | Canonicalize, Normalize, parseTagInput | CreateItem, ReplaceItemTags |
| Page fetcher (`fetcher.go`) | the parsed page | prune, choose the root, extract, cut | worker |
| Routing, JSON, configuration, logger, templates, deployment | start-up values | - | - |

What makes it hard: the API and the worker share rows and nothing else, so the
status column is the whole protocol between them; every store operation runs
at READ COMMITTED, where each statement has its own snapshot and is then held
up by row locks; the API serves requests concurrently and clients can go away in
the middle; the worker can die between the claim and the outcome; the limiter
reads the clock outside its lock; a browser's tabs share cookies but not pages;
the scripts apply answers in the order they arrive, to forms that have moved on; a
list is counted and selected in two statements and read page by page while it
changes; the process has to stop while requests hold connections.

Correctness, by component:

* queue: no item is lost between claim and outcome, two workers do not do the
  same work, a reader never sees an older copy after a newer one, the status
  shown is true, every item is fetched in the end, a queued refetch happens;
* transactions: no dangling row, an item has the tags it was last saved with, no
  tag without items, no transaction waits for ever, connections come back;
* sessions: a write is done for the account whose page sent it, nobody is
  thrown out early, expired rows go, a login fails only for a reason;
* limiter: never more than a bucket and its refill in any window, no lasting debt,
  a patient user is served;
* list: a reader who follows Next misses and repeats no more than what changed
  meanwhile accounts for, pages hold what their links promise, and the two queries that
  count agree;
* forms: the page shows what the server has, a save takes away only what somebody
  removed, nothing becomes a tag that was not meant;
* normalisation: the spellings of a page are one item (but for three kinds that the code
  takes for another page), two pages are two;
* text: nothing visible is lost, what is stored is whole characters;
* process: requests end, a stop cuts off no transaction, and the process ends.

## 2. Modules

| Module | Models |
|---|---|
| `FetchQueue` | the queue, the worker's goroutines, crashes, database errors, unstorable pages |
| `Archive` | abstract: what the pipeline promises the reader of an item |
| `FetchQueueProofs` | its invariants; with one worker the refinement of `Archive` |
| `TagStore`, `TagStoreProofs` | five transactions, row by row, under PostgreSQL's locking; rows resolve, and tags are kept, proved |
| `RateLimiter`, `RateLimiterProofs` | Allow, split at the mutex; its bounds proved |
| `WebSession`, `WebSessionProofs` | login, cookies, CSRF, expiry, cleanup |
| `ItemList`, `ItemListProofs` | ListItems and ListTagsWithCount under concurrent changes, paging; its bounds proved |
| `TagEditor` | the editor of an item's tags and its PUT |
| `TagEntry` | chips and suggestions of Quick Add and of the popup, and the refused form of Quick Add |
| `FormProofs` | the proofs about `TagEditor` and `TagEntry` |
| `UrlNorm` | Canonicalize and the UNIQUE of canonical_hash |
| `PageText` | from the parsed page to the stored texts |
| `Sorting` | one operator of both: elements of a sequence in an order |
| `ApiProcess`, `ApiProcessProofs` | listener, requests, connections, shutdown |
| `MCFetchQueue`, `MCTagStore` | symmetry and request sets for TLC |
| `MCParts`, `MCStore` | instances of several modules in one run |
| `PartsProofs` | the proofs about `UrlNorm` and `PageText`, and what the parts of `MCParts` have from each |

`MCParts` and `MCStore` put parts side by side that share no variable (six, and
`TagStore` beside `ApiProcess`): a variable says which part moves, the others stay as
they began. A behaviour of the product is one of each part, so nothing is lost by
it, and the state space is the sum instead of the product. `PartsAreOfEach` (in `PartsProofs`)
proves the other half: a behaviour of `MCParts` is a behaviour of each part.

### FetchQueue

A row of `items` is the columns that the code tests or shows (`key`, `status`,
`error`, `refetch`, `title`); an absent row is `NoRow`. Ids are numbered in
`created_at` order. `created_at` is the start of the creating transaction,
so an item can commit after a younger one; to the claim that is a row it cannot
see yet, and a claim may also skip any set of rows (`locked`), which covers it.
A page is its version; `title` and `contents` hold the version that was stored.

`Claim` is one transaction of ClaimItemsForFetch: the oldest `ClaimLimit` rows
that are pending or carry a refetch flag and are not locked. `jobs[w][i]` is a
goroutine with what it took from the claim (`forced` is
`it.RefetchRequested`). `StartFetch` is the semaphore send and the start of
the goroutine, in the order of the claim; `FetchOk` and `FetchFail` end the
download; `StoreSuccess` and `StoreFailure` are the outcomes. Storing is one
step here: its two statements are taken apart in `TagStore`. `Idle` stands for
`wg.Wait` and the select loop. Faults are `ClaimLost` (the claim commits and its
answer is lost), `StoreLost` (an update fails; the worker ignores or logs it) and
`Crash`. `StoreRejected` is a page PostgreSQL refuses to store: the fetcher
does not decode character sets, and PostgreSQL takes valid UTF-8 only.
`owed` and `dropped` are history variables that no guard reads.

`Archive` has no queue: an item is saved, its copy moves forward to versions
the page has had, the copy goes with the item. With one worker `FetchQueue`
implements it (`ReaderSpec`); with two a slow fetch may store the older version
last, which is why the property is stated for one.

### TagStore

A transaction is its current statement (`stage`), the rows that statement has
still to take (`todo`) and the tags still to write (`rest`). `Advance` begins a
statement: it reads the snapshot (`Visible`: what is committed, plus own
changes) and fills `todo`. `DeleteRow`, `UpdateItem`, `InsertRow` and
`CheckKey` take one row with its lock, or wait (`Blockers`). The claim of the worker
takes its rows with `LockRow` or leaves locked ones aside with `SkipLocked`; its UPDATEs
meet only rows it has locked itself. A DELETE adds the
rows it cascades to; an INSERT with a foreign key is followed by key-share checks of
its parents. A scan that waited for a row skips it if it is gone (`Skip`), but
does not look again at the other tables: that is how READ COMMITTED treats
`NOT EXISTS` in the sweeps. `Commit`, `Missing` (ErrNoRows), `KeyMissing`
(foreign key), `DeadlockAbort` and `Cancel` (client gone, connection lost) end a
transaction. The stage `leaked` is the one that DeleteItem's `return pgx.ErrNoRows`
abandons with `err = nil`; `RowsErr` is its sibling in ClaimItemsForFetch, where
the error of `rows.Err` is not the variable that the deferred function reads. There the
server has aborted the transaction, so that no lock is left; the return after `rows.Scan` above
it would leave the locks, but the columns always fit what they are scanned into, and it is not modelled.

### RateLimiter

`ReadClock` is `time.Now()`, `Allow` the rest under the mutex, so that calls are
decided in any order. Time and tokens are integers in a unit that makes the refill
exact; float64 rounding is not modelled. `watch` is a history variable: a
window opened by any call.

### WebSession

Tabs share `jar` and keep the token of the page they show. The callback is three
steps (state check; exchange, upsert and insert; cookies of the answer), an API
write is sent, checked (`checkCSRF`) and authenticated (a second read of the
session), quick add reads the session once. `Leave` abandons anything. The
worker's cleanup runs at any time. The model is of people who use the site, not of
attackers.

### ItemList

Items are numbered in the order of `created_at`. `Count` and `Select` are the two
statements of ListItems; between them, and between pages, items are saved (a
transaction that began earlier may commit later), deleted, tagged and fetched.
`Where`, `Ahead` and `Offset` are the filter, the order and the offset, which wraps in
an int of `IntMax`. A search text is what it matches. `reading` and `changed` are
histories of one reader who starts at page one and follows Next.

### TagEditor

One tab on one item. `draft`, `options`, `active`, `text` are the script's
variables, `display` the list of tags outside the editor and who rendered it: the
template, or the script itself. The distinction matters, because the script reads
the tags back by a class that only its own rendering has. `asking` is a question to
GET /v1/tags: its answer may come at any time and hold any suggestions. `save` is the
PUT in flight: it is applied or refused at the server, and its answer then meets
whatever the editor has become. `past` is history.

### TagEntry

Quick Add and the popup differ in what a chip is (trimmed or normalised), in whether
the button of a suggestion lets the input blur first (`KeepsFocus`), in whether chips
are left out of the suggestions (`Offered`), and in how the
tags travel (a comma-separated field or a list). `Press` and `Click` are the two halves
of a click, with `Blur` and late answers in between. The popup's Save is a blur for the form
and a `CreateItem` of `TagStore` for the server. `Trimmed`, `Normal` and
`Pieces` are constant functions with the laws that `EntryAssumption` names. A
normalised text is not one piece: `parseTagInput` cuts at ASCII separators, and only then
NFKC makes ASCII ones of the full-width separators. A chip with such a separator comes back
from a refused Quick Add as several, which mean the same tags; the parts then stay as they are.

### UrlNorm, PageText

Two pure functions, as state machines over all small inputs.

`SavePage` stores the canonical URL of some spelling, then the page is opened by others: with
tracking keys, with swapped pairs, with a slash behind the path, or by the item's own link. A
path is tokens, some of them encoded; a query is pairs, one of them a pair that `Query()` drops.
No spelling is left out. Three of them lead away from the item: tracking
parameters after a bare `?` (`/a?` keeps its `?`, `/a?utm_x=1` becomes `/a`), a slash where
there was no path (`http://h` stays, `http://h/` stays too), and a slash behind a path
with escapes (`/%61` keeps the escape, `/%61/` becomes `/a`). `split` is a history variable: one of
the three has happened.

A page is html with a head and a body; the body is a
tree of elements with kinds, pruned marks and texts of bytes, numbered as they come in the
document. `doc.Find` searches the whole document, so html and the head (or its title) can match
a content or a prune selector too (`Candidates`); html has the text of the head before that of the
body. The content selectors are tried one after the other, in an order that is not
the document's, and a later one has to score more: of several best elements
`SelectContentRoot` therefore takes any. What filters or sorts a sequence is `InOrder`.

### ApiProcess

A handler makes calls of the store, each of which acquires a connection and gives it
back, or abandons it. `Stop` is SIGTERM: Shutdown returns when the handlers are
done or its five seconds are over, the deferred `pool.Close` refuses new
acquisitions and waits for the connections that are out, and then the process ends.

## 3. Runs

| Run | Instance | Shows |
|---|---|---|
| `FetchQueueTwoWorkers` | 2 workers, keys, items, versions; 1 fault; version 2 unstorable | TypeOK, `FetchingAccounted`, `OverlapOnlyByRefetch`, `RowMatchesContents` |
| `FetchQueueOneWorker` | 1 worker, batches of one, the rest the same | `JobShowsFetching`, `ReaderSpec`, `OldestItemServed` |
| `FetchQueueFaults` | 1 worker, batches of one, 2 faults; version 1 unstorable | `SettledOrDropped`, `RefetchServed` |
| `FetchQueueStranded` | 1 fault | **violated**: `EveryItemFetched` |
| `FetchQueueLostRefetch` | no fault | **violated**: `QueuedRefetchKept` |
| `TagStoreOneEditor` | `TagStore`: 1 request at a time and the worker, 5 requests, 3 items on 2 keys, 2 tags | `TagsAsLastSaved`, `NoOrphanTags`, `LeakedHoldsNothing` |
| (the same) | `ApiProcess`: 3 requests, 2 connections, 2 calls each | `StopIsGentle`, `RequestsEnd`, `StopsUnlessLeaked` |
| `TagStoreRaces` | 2 requests and the worker at once, 4 requests | `RowsResolve`, `EveryTxEnds` |
| `TagStoreSweep` | 2 requests on two items | **violated**: `TagsAsLastSaved` |
| `TagStoreLeak` | 1 connection | **violated**: `ConnectionsComeBack` |
| `Parts` | `RateLimiter`: 1 user, 2 goroutines, bucket of 2 tokens, 8 instants | `WindowBound`, `NoLastingDebt`, `PatientServed` |
| (the same) | `ItemList`: 3 items and a fourth saved, one of another user, pages of 1 and 2, 2 changes, ints to 7 | `MissedBounded`, `RepeatsBounded`, `CountsAgree` |
| (the same) | `TagEditor`: 2 words | `ClosedShowsItem`, `SuggestionsNew`, `OwnTagsKept` |
| (the same) | `TagEntry`: 5 texts | `ChipsAsMeant`, `OfferedAreNew` |
| (the same) | `UrlNorm`: 4 tokens, paths of 3, 3 keys, 2 values, queries of 2 | `SpellingsJoin`, `PagesApart` |
| (the same) | `PageText`: html, a head and 3 elements, 4 texts, limits of 4, 3 and 2 bytes | `NoneBelowBody`, `VisibleTextKept`, `CutIsClean` |
| `EditorLosesTags` | `TagEditor`: 2 words | **violated**: `UntouchedTagsKept` |
| `WebSession` | 2 tabs, 2 accounts, 2 logins, 5 instants | `WritesMatchPage`, `RefusedOnlyForCause`, `LoginRefusedOnlyForCause`, `ExpiredSessionsGo` |

The bounds: two workers, two items and one fault are what it takes for overlap,
overtaking, and a fault between claim and outcome; batches of one make the LIMIT
bite, so that older rows can keep a younger one out; a semaphore of one makes goroutines queue. In `TagStore` two tags in opposite
orders, one URL saved twice and one worker give every lock cycle the
statements allow; two requests and the worker are in flight together. A bucket
of two tokens is filled, drained, overdrawn by a late call and refilled within
eight instants, and users do not share buckets. Two logins with different accounts
in two tabs are what it takes for a page to outlive its cookie; the
clock passes both expiries. Three items on pages of one give a reader
a middle page to lose an item from, and two changes an item that leaves and one that
enters; an int that ends at 7 lets the offset wrap. Two words make a draft that
differs from the page, from the item and from the save. The five texts of an entry form are two
tags, both with a separator between them, the same with a full-width one, and spaces. Paths of three tokens hold a slash
that is encoded before and behind a plain one; queries of two pairs hold two
values of a key in both orders, and a pair that is dropped. Three elements are a
block below a block and a content element beside both, below html and a head that match a
selector or not; the limits cut a
character of two bytes before, in and behind it. Three requests on two connections
make one wait, and a leak of both is reached. Symmetry (keys, workers) is used in
`FetchQueueTwoWorkers` only, which checks no liveness. Deadlock checking is off
everywhere: the bounds on items, requests and time let every system stop.

### Fairness

* `FetchQueue` (`FairSpec`): a goroutine, the database and a restarted
  container go on (weak fairness; the fetch ends by its 12 s context,
  `main.go:88`; compose restarts the worker). The claim is strongly fair: row
  locks last milliseconds and the ticker comes every minute, so no lock is always
  there at the tick. No fairness for users, sites or faults.
* `TagStore`: each connection's next step, and PostgreSQL's deadlock detector.
  None for requests and cancellations.
* `WebSession`: the worker's cleanup only.
* `ApiProcess`: a handler that runs goes on, weakly fair; the pool hands a connection
  to those who wait in the order of asking, so that a waiting handler gets one if
  connections keep coming back (strong fairness of `Acquire`); Shutdown's five seconds
  pass, and main goes on. No fairness for clients, SIGTERM or abandoned transactions.
  A client that stalls while it sends a body is outside the model: `http.Server` is given no
  read or write timeout, so such a handler would wait as long as the client likes.
* All other parts: none; their properties are safety.

### What the violated runs show

1. `EveryItemFetched` (`store.go:522`): the claim commits `fetching` before any work
   is done and nothing claims a `fetching` row again unless a refetch was
   requested. One crash, or one failed update, strands the item for good.
   `SettledOrDropped`, `FetchingAccounted` and `RefetchServed` say how far the damage
   goes: only a dropped job strands an item, and a refetch request frees it, on two
   conditions. Older rows must not keep it out of every batch (`ServedInTurn`): the claim takes
   the oldest rows, so refetch requests of older items, or an older page that cannot
   be stored, can keep a younger item waiting for ever. And the page must not stay
   one that PostgreSQL rejects (`StorablePage`, `fetcher.go:73`): such a page drops its job with no
   fault at all, and after a refetch request it is claimed, fetched and rejected every
   minute. Only the oldest item is served without the first condition
   (`OldestItemServed`). In `FetchQueueFaults` both conditions do fail: batches are of one item, and
   the first version of each page is unstorable.
2. `QueuedRefetchKept` (`store.go:549`, `571`): the end of an older fetch clears
   a request that was answered `queued` after that fetch had begun.
3. `TagsAsLastSaved` with two editors (`store.go:395`, `327`): the sweep's snapshot is
   older than its locks, so it deletes a tag that another request has linked and
   committed meanwhile; the cascade removes the link.
4. `ConnectionsComeBack` (`store.go:325`): each DELETE of an item that is gone
   leaves a transaction open; `db.go:15` allows ten. `LeakedHoldsNothing` shows that
   it at least blocks no row; `RequestsEnd` and `StopsUnlessLeaked` that requests end until the
   pool is leaked away, and that one leaked connection keeps the process from ending.
5. `UntouchedTagsKept` (`app.js:78`): the editor reads its draft from the elements of class
   `chip`, but the template renders class `tag`: on a freshly loaded page it opens empty,
   and Save drops every tag. `OwnTagsKept` shows that from the first rendering by the script
   on nothing is lost that nobody removed.

What the passing runs show that may surprise: a content selector of the fetcher never chooses
anything below the body, which always scores at least as high, but only html itself (whose text has the
title too) or a head (`NoneBelowBody`); one page becomes two items by three kinds of
spelling (`SpellingsJoin` holds with exactly these excepted); two pages become
one item only through slashes at the end, the order of their keys, a dropped pair or an encoded slash at
the end (`PagesApart`: every key that is kept has the same values in the same order); a page number large enough to wrap the offset is refused by PostgreSQL or
shows another page (`CountsAgree` is about the numbers below that); the popup adds the half-typed text beside
the suggestion that was clicked (`ChipsAsMeant` says exactly that and no more).

## 4. Proofs

Proved with TLAPS for all values of the constants that satisfy the named
assumptions:

| Theorem | Statement |
|---|---|
| `FetchQueueProofs!TypeCorrect` | `Spec => []TypeOK` |
| `FetchQueueProofs!FetchingIsAccounted` | `Spec => []FetchingAccounted` |
| `FetchQueueProofs!OverlapNeedsRefetch` | `Spec => []OverlapOnlyByRefetch` |
| `FetchQueueProofs!RowsMatchContents` | `Spec => []RowMatchesContents` |
| `FetchQueueProofs!JobsShowFetching` | `OneWorker` implies `Spec => []JobShowsFetching` |
| `FetchQueueProofs!ReaderRefinement` | `OneWorker` implies `Spec => ReaderSpec` |
| `RateLimiterProofs!RateLimit`, `DebtIsRepaid`, `PatientUsersServed` | the three limiter properties |
| `TagStoreProofs!RowsAlwaysResolve` | `Spec => []RowsResolve` |
| `TagStoreProofs!AbandonedHoldNothing` | `Spec => []LeakedHoldsNothing` |
| `TagStoreProofs!ItemsKeepTheirTags`, `NoTagLeftBehind` | `OneEditor` implies `Spec => []TagsAsLastSaved`, `Spec => []NoOrphanTags` |
| `TagStoreProofs!StoreTypeCorrect`, `WebSessionProofs!TypeCorrect` | `Spec => []TypeOK` |
| `WebSessionProofs!WritesAreForTheirPage` | `Spec => []WritesMatchPage` |
| `WebSessionProofs!RefusalsHaveCause` | `Spec => []RefusedOnlyForCause` |
| `WebSessionProofs!LoginsHaveCause` | `Spec => []LoginRefusedOnlyForCause` |
| `FormProofs!ShowsTheItem`, `SuggestionsAreNew` | `[]ClosedShowsItem`, `[]SuggestionsNew` |
| `FormProofs!NoTagIsLost` | `EditorSpec => OwnTagsKept` (an action property) |
| `FormProofs!NoChipIsOffered`, `ChipsAreMeant` | `[]OfferedAreNew`, `ChipsAsMeant` (an action property) |
| `ItemListProofs!NotManyMissed`, `NotManyRepeated` | `ListSpec => []MissedBounded`, `ListSpec => []RepeatsBounded` |
| `ItemListProofs!ListCountsAgree`, `ListTypeCorrect` | `ListSpec => []CountsAgree`, `ListSpec => []ListTypeOK` |
| `PartsProofs!OnePageOneItem` | `UrlSpec => []SpellingsJoin` |
| `PartsProofs!OneItemOnePage` | `UrlSpec => []PagesApart` |
| `PartsProofs!NothingBelowBody` | `PageSpec => []NoneBelowBody` |
| `PartsProofs!NoTextIsLost` | `PageSpec => []VisibleTextKept` |
| `PartsProofs!CutsAreClean` | `PageSpec => []CutIsClean` |
| `PartsProofs!PartsAreOfEach` | `PartsSpec` implies the specifications of its six parts |
| `PartsProofs!PartsTypesCorrect` | `PartsSpec => []PartsTypeOK` |
| `ApiProcessProofs!ConnectionsAccounted`, `StopsGently` | `[]ProcessTypeOK`, `StopIsGentle` (an action property) |
| `ApiProcessProofs!StoreTypesCorrect` | `StoreSpec => []StoreTypeOK` |

`IInv` (in `FetchQueueProofs`) adds to the invariants that an id not yet handed out
has no row, contents or job (`FreshIds`, so that an insert cannot meet an old
job), that a pending item has no job unless it was forced (`PendingUnclaimed`,
so that a claim of a pending row cannot overlap), and that a fetched job holds a
real version (`FetchedHasVersion`, so that `success` means contents). `RInv` adds
that a job's key is its item's key (`KeyKept`), that the stored copy is not ahead of
the page (`CopyNotAhead`), and that a fetched version lies between the two
(`FetchedBetween`): with one worker nothing else can store in between, which is the
step of the refinement that fails with two. The limiter's invariant bounds what
a window has spent by the bucket at its last time.

`StoreInv` (in `TagStoreProofs`) is about what each connection has locked, inserted and
deleted. `RowsResolve` alone is not inductive: a commit publishes rows that were checked
long before. What carries it is that a written row is locked exclusively (`Locks`), that
an inserted child either still has its foreign key check to come or holds a lock on its
parent (`Points`), that the children of a deleted row are deleted or still to be taken
(`Cascades`), and that locks of two connections never conflict (`Apart`). A parent that
one connection deletes can then not be the parent that another one checked. `Finds` does the
same for `LeakedHoldsNothing`: a child of the item that `DeleteItem` has locked keeps the item
in place, so the transaction that removes no item has locked none of its children.
`Good` is an operator on the values of one connection, so that a step of another
changes nothing of it except by a commit (`OtherCommitGood`).

`EditorInv` goes with it when at most one connection serves requests (`OneEditor`; any number
of workers). Of the editor's transaction it says that it touches the links of its own
item only (`Owns`), that the tags it has linked and those still to link are the tags asked
for (`Linking`), that a new item had no row before (`Creates`, from what is `known`), and
that the tags without a link are the ones the sweep has still to take, or the one that
is about to be linked (`Sweeping`). The workers' transactions insert contents and delete
nothing, so their commits change none of it (`SavingApart`). With two editors `Sweeping`
fails at a commit of the other, which is what the run `TagStoreSweep` shows.

`WebSessionProofs` has two invariants. `SInv` says what each tab knows: the cookie that its
page came with was a session of the account the page shows, and what a write has checked
was true when it read it (`TabTrue`, over `RowsTrue` and `CookieKept`). `LInv` says
what a login under way has reason to expect of the shared state cookie (`LoginTrue`).
`EInv` of the editor says that the page shows the item or an answer to that effect is on
its way (`ShownOrApplied`), and that the draft of a rendered page has the tags that were
not removed (`DraftKeeps`, `DraftSent`). `CInv` of the entry forms says that the chips of
Quick Add are normalised texts (`ChipsNormal`), so that what is left out of the suggestions is what
a chip is, and keeps the
press of a suggestion with the chips it found (`PressKept`). `PInv` of the process says
that the pool is closed after the listener and, unless Shutdown gave up, the handlers
(`ClosedInOrder`).

`ListInv` (in `ItemListProofs`) follows one reader through a list that changes. The bounds
alone are not inductive: they speak of the last page, and a change before it moves items
from one page to another. The invariant keeps the account at every page: of the items that were
listed at the start and not seen yet, those that are gone or at a place the reader has
already passed are at most as many as left the list or moved up in it (`PassedBy`); the
items met twice and those already seen that are still to come are at most as many as entered it or
moved down (`MetAgain`); the result has grown since the count by no more than `torn`, and not at
all if nothing changed (`CountKept`); and after the last page what is
unseen is within the bound (`SeenToTheEnd`). It rests on places: an order of a finite set numbers it from 0
to its size less one, each number once (`PlacesAreNumbers`), and one change of one item
moves every other one by at most one place (`PlaceShifts`).

`UrlInv` is half of `SpellingsJoin`: until the spellings split, each step leaves `Canonicalize(url)`
as it is; and once they have, `Apart` says what keeps them apart for good (the canonical URL has no
`?` and the saved one has; it has a path and the saved one has none; or the escapes are
gone that the saved one has), which is why `split` may be an equivalence. The rest of
the proof is about the operators. The k-th element of an order is the one
with k - 1 elements before it (`NthIs`), and two sequences that are matched by a map which
keeps order and elements have the same result of `InOrder` (`SameKeyOrder` over `Moves`). Inserting
a tracking pair, swapping two pairs of different keys (`DroppedPair`, `SwappedPairs`) and
taking a canonical query again (`CanonTwice`) are such maps; for a path it is
that trimming a trimmed one changes nothing (`CanonPathTwice`, `SlashAdded`). `PagesApart`
follows from `PairsKept`: a canonical query tells the values of every key that is kept, in their order.

`PageInv` says at each stage what the page and its texts are: `root` is the body, html with its head,
or a head that is longer than the body (`NoneBelowBody`), `content.text`
is `Readable` of it, and the three stored texts are its cuts. For every tree, the text of
an element is part of the body's text (`TextInBody`), a part of a text has no more words and
characters than the text (`WordsStay`, `PartScore`), so that no content element scores more
(`BodyIsBest`), and if the body is pruned nothing is left below it (`NothingLeft`); every block's normalised text is one of the blocks (`BlocksAre`), and the joined
blocks contain each of them (`ElementPart`, `PartIsPrefix`). Whether an element is inside another is a
recursive function (`Inside`), and so is the concatenation of the blocks; what they compute is
shown for all lengths by taking the least number for which it fails (`NoLeast`, from
`WFMin` of the library), which needs no induction theorem with an operator parameter.

Each of these invariants was first checked by TLC on the instance of its run.

Assumed are only the named assumptions on the constants; besides the sizes and bounds they
say that the placeholders (`NoTx`, `NoUrl`, `BadPair` and the like) are none of the values they stand
beside, that the set of handlers is finite, and that a list has fewer items than an int
counts (`MaxItems < IntMax`).

Only model-checked: everything under fairness (`OldestItemServed`, `RefetchServed`,
`SettledOrDropped`, `EveryTxEnds`, `ExpiredSessionsGo`, `RequestsEnd`, `StopsUnlessLeaked`:
liveness and ENABLED are out of the prover's reach), and the reachability behind the violated
runs. Every invariant and every action property of the passing runs is proved.

## 5. Not modelled

Not modelled, and why:

* the popup's login, stored base URL and bearer token: one value each, written by the
  answer that comes last;
* routing, JSON, the access log, configuration, the logger, templates, deployment files:
  no state that a step of another component reads;
* two saves of the popup in flight: the second finds the item, changes nothing, and is
  shown as Saved with the tags of the first;
* two editors of one item: what two concurrent replaces of its tags leave;
* which tags a filtered list shows beside an item, and the similarity that orders a
  search: data of one SELECT; `ItemList` has which items are shown and when;
* float rounding in the limiter and the growth of its map; `fetch_attempts` and
  timestamps (written, never read);
* PostgreSQL, pgxpool, the HTML parser, net/url, the browser and the network are
  external: they are modelled as the code uses them.

What could follow: names of tags beside the items of a filtered list, which are three
aggregates zipped by index (`store.go:212`).
