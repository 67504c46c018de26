------------------------------- MODULE ItemList -------------------------------
(***************************************************************************)
(* The list of items (ListItems and ListTagsWithCount in                   *)
(* internal/store/store.go, the list handlers of internal/server), read    *)
(* page by page while other tabs and the worker change the items.          *)
(*                                                                         *)
(* ListItems counts in one statement and selects in a second one, and the  *)
(* page is cut out of the result by its offset.  Items are numbered in     *)
(* the order of created_at, the start of the saving transaction: an item   *)
(* can be committed after a younger one.                                   *)
(*                                                                         *)
(* A search text is what it matches: the text of an item or not, a tag or  *)
(* not.  Similarity is reduced to what was matched.                        *)
(***************************************************************************)
EXTENDS Integers, FiniteSets

CONSTANTS
    MaxItems,    \* bound: items ever saved
    Library,     \* the items that are there at the start
    Mine,        \* the reader's items
    Tags,
    QTags,       \* the tags that the search text matches
    TagSets,     \* bound: the tags that an item may be given
    Rows,        \* bound: what the items of the library may be
    Filters,     \* what readers ask for
    PerPages,    \* the page sizes on offer: 10, 20 .. 50
    TypedPages,  \* pages asked for in the address bar
    IntMax,      \* the largest int
    MaxChanges,  \* bound: changes while one list is read
    NoTag, NoRow

Numbers == 1 .. MaxItems
\* `text': the title, excerpt, content or URL matches the search text;
\* `fetched': there is a row in item_contents.
ItemRow == [tags : SUBSET Tags, text : BOOLEAN, fetched : BOOLEAN]
Filter == [tag : Tags \cup {NoTag}, q : BOOLEAN, relevance : BOOLEAN]

ASSUME ListAssumption ==
    /\ {MaxItems, IntMax, MaxChanges} \subseteq Nat
    /\ MaxItems < IntMax
    /\ \E n \in 0 .. MaxItems : Library = 1 .. n
    /\ Mine \subseteq Numbers
    /\ QTags \subseteq Tags /\ NoTag \notin Tags
    /\ TagSets \subseteq SUBSET Tags
    /\ Rows \subseteq ItemRow
    /\ Filters \subseteq Filter
    /\ PerPages \subseteq Nat \ {0}
    /\ TypedPages \subseteq -IntMax .. IntMax
    /\ NoRow \notin ItemRow

VARIABLES
    items,    \* the items and their tags, by number
    begun,    \* how many numbers have been handed out
    saving,   \* items whose transaction has begun and not committed
    listing,     \* what one reader asks for and is shown
    reading,  \* history: [straight, first, seen, repeats] from page one on
    changed   \* history: [all, left, entered, dirty, torn], see Change

listVars == <<items, begun, saving, listing, reading, changed>>

ListTypeOK ==
    /\ items \in [Numbers -> ItemRow \cup {NoRow}]
    /\ begun \in 0 .. MaxItems
    /\ saving \in SUBSET Numbers
    /\ listing \in [at : {"idle", "counted", "shown", "error"}, filter : Filters,
                 perPage : PerPages, page : 1 .. IntMax, total : 0 .. MaxItems,
                 shown : SUBSET Mine]
    /\ reading \in [straight : BOOLEAN, first : SUBSET Mine, seen : SUBSET Mine,
                    repeats : Nat]
    /\ changed \in [all : 0 .. MaxChanges, left : Nat, entered : Nat, dirty : BOOLEAN, torn : Nat]

NotReading == [straight |-> FALSE, first |-> {}, seen |-> {}, repeats |-> 0]

ListInit ==
    /\ \E library \in [Library -> Rows] :
        items = [i \in Numbers |-> IF i \in Library THEN library[i] ELSE NoRow]
    /\ begun = Cardinality(Library)
    /\ saving = {}
    /\ listing \in [at : {"idle"}, filter : Filters, perPage : PerPages, page : {1},
                 total : {0}, shown : {{}}]
    /\ reading = NotReading
    /\ changed = [all |-> 0, left |-> 0, entered |-> 0, dirty |-> FALSE, torn |-> 0]

-----------------------------------------------------------------------------
(***************************************************************************)
(* The queries.                                                            *)
(***************************************************************************)

\* items LEFT JOIN item_tags LEFT JOIN tags: a row for every tag of an item,
\* or one without a tag.
Joined(view) ==
    UNION {{<<i, g>> : g \in IF view[i].tags = {} THEN {NoTag} ELSE view[i].tags} :
              i \in {j \in Numbers : view[j] # NoRow}}

WhereBug(view, f) ==
    {r \in Joined(view) :
        /\ f.q => view[r[1]].text \/ r[2] \in QTags
        /\ f.tag # NoTag => r[2] = f.tag}
Where(view, f) ==
    {r \in Joined(view) :
        /\ r[1] \in Mine
        /\ f.q => view[r[1]].text \/ r[2] \in QTags
        /\ f.tag # NoTag => r[2] = f.tag}

Found(view, f) == {r[1] : r \in Where(view, f)}

\* COUNT(DISTINCT i.id)
TotalBug(view, f) == Cardinality(Where(view, f))
Total(view, f) == Cardinality(Found(view, f))

\* The score of an item without contents is NULL, hence 0.
Score(view, f, i) ==
    IF ~view[i].fetched THEN 0
    ELSE (IF view[i].text THEN 2 ELSE 0)
         + (IF \E r \in Where(view, f) : r[1] = i /\ r[2] \in QTags THEN 1 ELSE 0)

\* ORDER BY: item j is listed before item i.
Ahead(view, f, j, i) ==
    IF f.relevance /\ f.q /\ Score(view, f, j) # Score(view, f, i)
    THEN Score(view, f, j) > Score(view, f, i)
    ELSE j > i

Place(view, f, i) == Cardinality({j \in Found(view, f) : Ahead(view, f, j, i)})

\* (page - 1) * perPage, in an int.
Wrapped(n) == ((n + IntMax + 1) % (2 * IntMax + 2)) - IntMax - 1
OffsetBug(page, perPage) == Wrapped(page * perPage)
Offset(page, perPage) == Wrapped((page - 1) * perPage)

\* LIMIT perPage OFFSET offset
PageOfBug(view, f, page, perPage) ==
    LET offset == Offset(page, perPage)
    IN  {i \in Found(view, f) : Place(view, f, i) \in offset .. offset + perPage}
PageOf(view, f, page, perPage) ==
    LET offset == Offset(page, perPage)
    IN  {i \in Found(view, f) : Place(view, f, i) \in offset .. offset + perPage - 1}

TotalPages(l) ==
    LET n == (l.total + l.perPage - 1) \div l.perPage IN IF n > 1 THEN n ELSE 1

\* ListTagsWithCount, for one tag: items JOIN item_tags.
TagCount(view, g) ==
    Cardinality({i \in Mine : view[i] # NoRow /\ g \in view[i].tags})

-----------------------------------------------------------------------------
(***************************************************************************)
(* The reader.  The first statement of ListItems counts, the second        *)
(* selects.                                                                *)
(***************************************************************************)
CountBug(page) ==
    listing' = [listing EXCEPT !.at = "counted", !.page = page,
                         !.total = Total(items, listing.filter), !.shown = {}]
Count(page) ==
    listing' = [listing EXCEPT !.at = "counted", !.page = IF page < 1 THEN 1 ELSE page,
                         !.total = Total(items, listing.filter), !.shown = {}]

\* The list from its first page.
Ask ==
    /\ listing.at = "idle"
    /\ Count(1)
    /\ reading' = [straight |-> TRUE, first |-> Found(items, listing.filter), seen |-> {}, repeats |-> 0]
    /\ UNCHANGED <<items, begun, saving, changed>>

AskTyped(page) ==
    /\ listing.at = "idle"
    /\ Count(page)
    /\ UNCHANGED <<items, begun, saving, reading, changed>>

\* The links of templates/items.html, made by pageURL.
NextPage ==
    /\ listing.at = "shown"
    /\ listing.page < TotalPages(listing)
    /\ Count(listing.page + 1)
    /\ changed' = [changed EXCEPT !.dirty = FALSE]
    /\ UNCHANGED <<items, begun, saving, reading>>

PrevPage ==
    /\ listing.at = "shown"
    /\ listing.page > 1
    /\ Count(listing.page - 1)
    /\ reading' = NotReading
    /\ changed' = [changed EXCEPT !.dirty = FALSE]
    /\ UNCHANGED <<items, begun, saving>>

\* The second statement; PostgreSQL refuses a negative OFFSET.
Select ==
    /\ listing.at = "counted"
    /\ IF Offset(listing.page, listing.perPage) < 0
       THEN /\ listing' = [listing EXCEPT !.at = "error"]
            /\ UNCHANGED reading
       ELSE LET shown == PageOf(items, listing.filter, listing.page, listing.perPage)
            IN  /\ listing' = [listing EXCEPT !.at = "shown", !.shown = shown]
                /\ reading' = IF reading.straight
                               THEN [reading EXCEPT !.seen = @ \cup shown,
                                       !.repeats = @ + Cardinality(shown \cap reading.seen)]
                               ELSE reading
    /\ UNCHANGED <<items, begun, saving, changed>>

-----------------------------------------------------------------------------
(***************************************************************************)
(* The others.  Counted are the items that leave the result, those that    *)
(* enter it (one that changes its place does both), all changes since the  *)
(* count, and those of them that enter (`torn').                           *)
(***************************************************************************)
Change(i, row) ==
    /\ listing.at # "idle"
    /\ changed.all < MaxChanges
    /\ row # items[i]
    /\ items' = [items EXCEPT ![i] = row]
    /\ LET enters == IF i \in Found(items', listing.filter) THEN 1 ELSE 0
           leaves == IF i \in Found(items, listing.filter) THEN 1 ELSE 0
           counted == IF listing.at = "counted" THEN 1 ELSE 0
       IN  changed' = [all |-> changed.all + 1, left |-> changed.left + leaves,
                       entered |-> changed.entered + enters,
                       dirty |-> changed.dirty \/ counted = 1,
                       torn |-> changed.torn + enters * counted]
    /\ UNCHANGED <<begun, listing, reading>>

\* CreateItem begins: created_at is set.
BeginSave ==
    /\ begun < MaxItems
    /\ begun' = begun + 1
    /\ saving' = saving \cup {begun + 1}
    /\ UNCHANGED <<items, listing, reading, changed>>

CommitSave(i, tags, text) ==
    /\ i \in saving
    /\ saving' = saving \ {i}
    /\ Change(i, [tags |-> tags, text |-> text, fetched |-> FALSE])

DeleteRow(i) ==
    /\ items[i] # NoRow
    /\ Change(i, NoRow)
    /\ UNCHANGED saving

ReplaceTags(i, tags) ==
    /\ items[i] # NoRow
    /\ Change(i, [items[i] EXCEPT !.tags = tags])
    /\ UNCHANGED saving

\* UpdateFetchSuccess
StoreText(i, text) ==
    /\ items[i] # NoRow
    /\ Change(i, [items[i] EXCEPT !.text = text, !.fetched = TRUE])
    /\ UNCHANGED saving

ListNext ==
    \/ Ask
    \/ \E page \in TypedPages : AskTyped(page)
    \/ NextPage \/ PrevPage \/ Select
    \/ BeginSave
    \/ \E i \in Numbers :
        \/ DeleteRow(i)
        \/ \E tags \in TagSets : ReplaceTags(i, tags)
        \/ \E text \in BOOLEAN :
            StoreText(i, text) \/ \E tags \in TagSets : CommitSave(i, tags, text)

ListSpec == ListInit /\ [][ListNext]_listVars
-----------------------------------------------------------------------------
(***************************************************************************)
(* Properties                                                              *)
(***************************************************************************)

\* A reader who follows Next from page one until there is no Next has seen
\* every item that was there all the time, but for one for each item that
\* left the result meanwhile, and for one for each that entered it between
\* the count and the select of a page (store.go 196-245, server.go 479-484).
MissedBounded ==
    reading.straight /\ listing.at = "shown" /\ listing.page >= TotalPages(listing) =>
        Cardinality((reading.first \cap Found(items, listing.filter)) \ reading.seen)
            <= changed.left + changed.torn

\* Such a reader meets no more items a second time than have entered the
\* result since the reading began (store.go 230).
RepeatsBounded ==
    reading.straight => reading.repeats <= changed.entered

\* If nothing changed between the two statements, the page holds as many
\* items as total, page and page size say; only a page whose offset does not
\* fit an int is refused; and the tag list of the side bar, a query of other
\* joins, counts for a tag what the list that a click on it opens has, without
\* the items of other users (store.go 173, 196-231, 457-465).
CountsAgree ==
    LET before == (listing.page - 1) * listing.perPage
        rest == IF listing.total > before THEN listing.total - before ELSE 0
    IN  /\ listing.at = "shown" /\ ~changed.dirty /\ before <= IntMax =>
               Cardinality(listing.shown) = IF rest > listing.perPage THEN listing.perPage ELSE rest
        /\ listing.at = "error" => before > IntMax
        /\ \A g \in Tags :
            TagCount(items, g) = Total(items, [tag |-> g, q |-> FALSE, relevance |-> FALSE])
=============================================================================
