-------------------------- MODULE TagStoreProofs --------------------------
(***************************************************************************)
(* Proofs about TagStore, for any items, tags, connections and requests:   *)
(* the rows of a committed database resolve, and an abandoned transaction  *)
(* holds no row.                                                           *)
(*                                                                         *)
(* The inductive invariant says of each connection what its transaction    *)
(* has locked, inserted and deleted so far (Good), and of each two that    *)
(* their locks stand together (Apart).  Good is an operator on the values  *)
(* of a connection, so that a step of another one changes nothing of it    *)
(* unless that step commits (OtherCommitGood).                             *)
(***************************************************************************)
EXTENDS TagStore, TLAPS

\* Row c references row P.
IsParent(P, c) ==
    \/ \E i \in Items : P = ItemRow(i) /\ (c = ContentRow(i) \/ \E g \in Tags : c = LinkRow(i, g))
    \/ \E g \in Tags : P = TagRow(g) /\ \E i \in Items : c = LinkRow(i, g)

ParentRows == ItemRows \cup TagRows
ChildRows == ContentRows \cup LinkRows

Resolved(d) == \A c \in d : \A P \in Rows : IsParent(P, c) => P \in d

\* In what follows d is the database, t a transaction, h its locks, i and e the
\* rows that it has inserted and deleted.
View(d, i, e) == (d \ e) \cup i

Writing == {"tag", "link", "linkitem", "linktag"}
Shape(t) ==
    /\ t \in Tx
    /\ t.stage \in StagesOf[t.kind]
    /\ t.stage \in Writing => t.rest # <<>>

\* The rows that a statement has still to take.
Aims(d, t) ==
    /\ t.stage \in {"update", "pick"} => t.todo \subseteq d
    /\ t.kind = "delete" => t.todo \subseteq d
    /\ t.stage = "insert" => t.todo \subseteq {ItemRow(t.item)}
    /\ t.stage = "tag" => t.todo \subseteq TagRows
    /\ t.stage = "link" => t.todo \subseteq {LinkRow(t.item, Head(t.rest))}
    /\ t.stage = "content" => t.todo \subseteq {ContentRow(t.item)}
    /\ t.stage \in {"contents", "unlink"} => t.todo \subseteq ChildRows
    /\ t.stage \in {"commit", "leaked"} => t.todo = {}

\* What is written is locked exclusively, and what is locked is there.
Locks(d, h, i, e) ==
    /\ \A r \in i \cup e : <<r, "exclusive">> \in h
    /\ e \subseteq d
    /\ \A l \in h : l[1] \in d \cup i \/ <<l[1], "exclusive">> \in h

\* DeleteItem inserts nothing, and items and tags are deleted last.
Late == {"item", "sweep", "commit", "leaked"}
Writes(t, i, e) ==
    /\ t.kind = "delete" => i = {}
    /\ t.kind \notin {"replace", "delete"} => e = {}
    /\ t.stage \notin Late => e \cap ParentRows = {}

\* The foreign keys of an inserted row are checked, and the rows they point to
\* locked, or the check is still to come.
Checked(d, h, i, e, P) ==
    /\ P \in View(d, i, e)
    /\ \E m \in Modes : <<P, m>> \in h
Pending(t, P, c) ==
    \/ t.stage = "link" /\ c = LinkRow(t.item, Head(t.rest))
    \/ t.stage = "linkitem" /\ c = LinkRow(t.item, Head(t.rest)) /\ P = TagRow(Head(t.rest))
    \/ t.stage = "content" /\ c = ContentRow(t.item)
    \/ t.stage \in KeyChecks /\ P \in t.todo
Points(d, t, h, i, e) ==
    \A c \in i : \A P \in Rows : IsParent(P, c) => Checked(d, h, i, e, P) \/ Pending(t, P, c)

\* The children of a deleted row are deleted or about to be, and no row that an
\* inserted one points to is about to be deleted.
Cascades(d, t, e) == \A P \in e : \A c \in d : IsParent(P, c) => c \in e \cup t.todo
Spares(t, i) == t.stage \in Deletes => \A P \in t.todo : \A c \in i : ~IsParent(P, c)

\* What DeleteItem has locked before it deletes the item are children of an item
\* that is the user's and cannot go away under it.
Finds(d, t, h, e) ==
    /\ t.kind = "delete" /\ t.stage \in {"contents", "unlink"} =>
        \A r \in t.todo : t.own /\ IsParent(ItemRow(t.item), r)
    /\ t.kind = "delete" /\ t.stage \in {"contents", "unlink", "item"} /\ h # {} =>
        \/ ItemRow(t.item) \in e
        \/ /\ t.own
           /\ ItemRow(t.item) \in d
           /\ \E c \in e : IsParent(ItemRow(t.item), c)
           /\ t.stage = "item" => ItemRow(t.item) \in t.todo
    /\ t.stage = "item" /\ ItemRow(t.item) \notin e => t.todo \subseteq {ItemRow(t.item)}
    /\ t.stage = "leaked" => h = {}

Good(d, t, h, i, e) ==
    IF t = NoTx THEN h = {} /\ i = {} /\ e = {}
    ELSE /\ Shape(t)
         /\ Aims(d, t)
         /\ Locks(d, h, i, e)
         /\ Writes(t, i, e)
         /\ Points(d, t, h, i, e)
         /\ Cascades(d, t, e)
         /\ Spares(t, i)
         /\ Finds(d, t, h, e)

\* No two locks of h and k conflict.
Apart(h, k) == \A l \in h : \A m \in k : l[1] = m[1] => ~Conflict(l[2], m[2])

StoreTypes ==
    /\ db \in SUBSET Rows
    /\ tx \in [Procs -> Tx \cup {NoTx}]
    /\ held \in [Procs -> SUBSET (Rows \X Modes)]
    /\ ins \in [Procs -> SUBSET Rows]
    /\ del \in [Procs -> SUBSET Rows]
    /\ known \in SUBSET Items
    /\ saved \in [Items -> SUBSET Tags]
    /\ begun \in 0 .. MaxOps

StoreInv ==
    /\ StoreTypes
    /\ Resolved(db)
    /\ \A p \in Procs : Good(db, tx[p], held[p], ins[p], del[p])
    /\ \A p \in Procs : \A q \in Procs \ {p} : Apart(held[p], held[q])

\* u is t with other rows to take.
SameBut(u, t) ==
    /\ u \in Tx
    /\ u.kind = t.kind /\ u.item = t.item /\ u.tags = t.tags /\ u.own = t.own
    /\ u.rest = t.rest /\ u.stage = t.stage

-----------------------------------------------------------------------------
\* The kinds of rows have no row in common.
LEMMA RowsDiffer ==
    /\ ItemRows \cap TagRows = {}
    /\ ParentRows \cap ChildRows = {}
    /\ ContentRows \cap LinkRows = {}
  BY DEF ParentRows, ChildRows, ItemRows, ContentRows, LinkRows, TagRows, ItemRow, ContentRow,
         LinkRow, TagRow

\* Each constructor makes rows of its kind.
LEMMA RowsAreRows ==
    /\ \A i \in Items : ItemRow(i) \in ItemRows /\ ContentRow(i) \in ContentRows
    /\ \A g \in Tags : TagRow(g) \in TagRows
    /\ \A i \in Items, g \in Tags : LinkRow(i, g) \in LinkRows
    /\ ParentRows \cup ChildRows = Rows
  BY DEF ParentRows, ChildRows, ItemRows, ContentRows, LinkRows, TagRows, Rows

\* Items and tags are referenced, contents and links reference.
LEMMA ParentIs ==
  ASSUME NEW P, NEW c, IsParent(P, c)
  PROVE  P \in ParentRows /\ c \in ChildRows /\ P \notin ChildRows /\ c \notin ParentRows
  BY RowsDiffer DEF IsParent, ParentRows, ChildRows, ItemRows, ContentRows, LinkRows, TagRows

\* A content references its item (001_init.sql 43).
LEMMA ContentParent ==
  ASSUME NEW i \in Items, NEW P
  PROVE  IsParent(P, ContentRow(i)) <=> P = ItemRow(i)
  BY DEF IsParent, ItemRow, ContentRow, LinkRow, TagRow

\* A link references its item and its tag (001_init.sql 57-58).
LEMMA LinkParent ==
  ASSUME NEW i \in Items, NEW g \in Tags, NEW P
  PROVE  IsParent(P, LinkRow(i, g)) <=> P = ItemRow(i) \/ P = TagRow(g)
  BY DEF IsParent, ItemRow, ContentRow, LinkRow, TagRow

\* The columns of a link.
LEMMA LinkHas ==
  ASSUME NEW i \in Items, NEW g \in Tags
  PROVE  LinkRow(i, g)[2] = i /\ LinkRow(i, g)[3] = g
  BY DEF LinkRow

\* The item of an item's row and of a content's.
LEMMA ItemHas ==
  ASSUME NEW i \in Items
  PROVE  ItemRow(i)[2] = i /\ ContentRow(i)[2] = i
  BY DEF ItemRow, ContentRow

\* The tag of a tag's row.
LEMMA TagHas ==
  ASSUME NEW g \in Tags
  PROVE  TagRow(g)[2] = g
  BY DEF TagRow

\* What a DELETE cascades to is what references the row.
LEMMA ChildrenAre ==
  ASSUME NEW r \in Rows, NEW view \in SUBSET Rows
  PROVE  Children(r, view) = {c \in view : IsParent(r, c)}
<1>1. CASE r \in ItemRows
  <2>1. PICK i \in Items : r = ItemRow(i)
    BY <1>1 DEF ItemRows
  <2>2. Children(r, view) = LinksOf(i, view) \cup ({ContentRow(i)} \cap view)
    BY <1>1, <2>1, ItemHas, RowsDiffer DEF Children
  <2>3. ASSUME NEW c \in view
        PROVE  IsParent(r, c) <=> c \in LinksOf(i, view) \cup {ContentRow(i)}
    <3>1. CASE c \in LinkRows
      <4>1. PICK j \in Items, g \in Tags : c = LinkRow(j, g)
        BY <3>1 DEF LinkRows
      <4>2. IsParent(r, c) <=> i = j
        BY <2>1, <4>1, LinkParent, RowsDiffer, RowsAreRows, ItemHas
      <4>3. c \notin {ContentRow(i)}
        BY <3>1, RowsDiffer, RowsAreRows
      <4> QED
        BY <3>1, <4>1, <4>2, <4>3, LinkHas DEF LinksOf
    <3>2. CASE c \in ContentRows
      <4>1. PICK j \in Items : c = ContentRow(j)
        BY <3>2 DEF ContentRows
      <4>2. c \notin LinksOf(i, view)
        BY <3>2, RowsDiffer DEF LinksOf
      <4>3. IsParent(r, c) <=> r = ItemRow(j)
        BY <4>1, ContentParent
      <4>4. r = ItemRow(j) <=> i = j
        BY <2>1, ItemHas
      <4>5. c \in {ContentRow(i)} <=> i = j
        BY <4>1, ItemHas
      <4> QED
        BY <4>2, <4>3, <4>4, <4>5
    <3>3. CASE c \notin ChildRows
      BY <3>3, ParentIs, RowsAreRows DEF ChildRows, LinksOf
    <3> QED
      BY <3>1, <3>2, <3>3 DEF ChildRows
  <2> QED
    BY <2>2, <2>3 DEF LinksOf
<1>2. CASE r \in TagRows
  <2>1. PICK g \in Tags : r = TagRow(g)
    BY <1>2 DEF TagRows
  <2>2. Children(r, view) = LinksTo(g, view)
    BY <1>2, <2>1, TagHas, RowsDiffer DEF Children
  <2>3. ASSUME NEW c \in view
        PROVE  IsParent(r, c) <=> c \in LinksTo(g, view)
    <3>1. CASE c \in LinkRows
      <4>1. PICK j \in Items, k \in Tags : c = LinkRow(j, k)
        BY <3>1 DEF LinkRows
      <4>2. IsParent(r, c) <=> g = k
        BY <2>1, <4>1, LinkParent, RowsDiffer, RowsAreRows, TagHas
      <4> QED
        BY <3>1, <4>1, <4>2, LinkHas DEF LinksTo
    <3>2. CASE c \notin LinkRows
      <4>1. ~IsParent(r, c)
        BY <2>1, <3>2, RowsDiffer, RowsAreRows DEF IsParent
      <4> QED
        BY <3>2, <4>1 DEF LinksTo
    <3> QED
      BY <3>1, <3>2
  <2> QED
    BY <2>2, <2>3 DEF LinksTo
<1>3. CASE r \in ChildRows
  <2>1. r \notin ItemRows /\ r \notin TagRows
    BY <1>3, RowsDiffer DEF ParentRows
  <2> QED
    BY <1>3, <2>1, ParentIs DEF Children
<1> QED
  BY <1>1, <1>2, <1>3, RowsAreRows DEF ParentRows

\* Every reference resolved is what RowsResolve says by tables.
LEMMA ResolvedRows ==
  ASSUME db \in SUBSET Rows, Resolved(db)
  PROVE  RowsResolve
<1>1. ASSUME NEW i \in Items, ContentRow(i) \in db
      PROVE  ItemRow(i) \in db
  BY <1>1, ContentParent, RowsAreRows DEF Resolved, ParentRows
<1>2. ASSUME NEW r \in db \cap LinkRows
      PROVE  ItemRow(r[2]) \in db /\ TagRow(r[3]) \in db
  <2>1. PICK i \in Items, g \in Tags : r = LinkRow(i, g)
    BY DEF LinkRows
  <2> QED
    BY <2>1, LinkHas, LinkParent, RowsAreRows DEF Resolved, ParentRows
<1> QED
  BY <1>1, <1>2 DEF RowsResolve

-----------------------------------------------------------------------------
\* Which transactions come to which stages.
LEMMA KindOf ==
  ASSUME NEW t, Shape(t)
  PROVE  /\ t.stage \in {"contents", "item"} => t.kind = "delete"
         /\ t.stage = "insert" => t.kind = "create"
         /\ t.stage = "pick" => t.kind = "claim"
         /\ t.stage \in Deletes => t.kind \in {"replace", "delete"}
         /\ t.kind = "delete" =>
                t.stage \in {"contents", "unlink", "item", "sweep", "commit", "leaked"}
<1>1. t.kind \in Kinds /\ t.stage \in StagesOf[t.kind]
  BY DEF Shape, Tx
<1>2. CASE t.kind = "create"
  BY <1>1, <1>2 DEF StagesOf, Deletes, Scans
<1>3. CASE t.kind = "replace"
  BY <1>1, <1>3 DEF StagesOf, Deletes, Scans
<1>4. CASE t.kind = "delete"
  BY <1>1, <1>4 DEF StagesOf, Deletes, Scans
<1>5. CASE t.kind = "fetch"
  BY <1>1, <1>5 DEF StagesOf, Deletes, Scans
<1>6. CASE t.kind = "claim"
  BY <1>1, <1>6 DEF StagesOf, Deletes, Scans
<1> QED
  BY <1>1, <1>2, <1>3, <1>4, <1>5, <1>6 DEF Kinds

\* What `[t EXCEPT !.todo = ...]' leaves and sets.
LEMMA TodoOf ==
  ASSUME NEW t \in Tx, NEW x \in SUBSET Rows
  PROVE  /\ SameBut([t EXCEPT !.todo = x], t)
         /\ [t EXCEPT !.todo = x].todo = x
  BY DEF SameBut, Tx

\* A statement that is no DELETE takes row r with the locks L, and inserts the
\* rows j.
LEMMA TakeGood ==
  ASSUME NEW d \in SUBSET Rows, NEW t, NEW u, NEW h \in SUBSET (Rows \X Modes), NEW i \in SUBSET Rows,
         NEW e \in SUBSET Rows, NEW r \in t.todo, NEW L, NEW j,
         t # NoTx, Good(d, t, h, i, e), SameBut(u, t), u.todo = t.todo \ {r},
         t.stage \notin Deletes \cup {"commit", "leaked"},
         L \in SUBSET ({r} \X Modes),
         j = {} \/ (j = {r} /\ <<r, "exclusive">> \in L),
         L # {} => r \in d \cup i \/ <<r, "exclusive">> \in L,
         t.stage \in KeyChecks => r \in View(d, i, e) /\ L # {},
         j # {} => t.stage \in {"insert", "link"} \cup Upserts
  PROVE  Good(d, u, h \cup L, i \cup j, e)
<1> DEFINE h2 == h \cup L
           i2 == i \cup j
<1>0. /\ Shape(t) /\ Aims(d, t) /\ Locks(d, h, i, e) /\ Writes(t, i, e) /\ Points(d, t, h, i, e)
      /\ Cascades(d, t, e) /\ Spares(t, i) /\ Finds(d, t, h, e)
  BY DEF Good
<1>1. u # NoTx
  BY NoTxAssumption DEF SameBut
<1>2. t.kind # "delete" /\ t.stage \notin Late
  BY <1>0, KindOf DEF Deletes, Scans, Late
<1>3. Shape(u)
  BY <1>0 DEF Shape, SameBut
<1>4. Aims(d, u)
  BY <1>0 DEF Aims, SameBut
<1>5. Locks(d, h2, i2, e)
  BY <1>0 DEF Locks
<1>6. Writes(u, i2, e)
  BY <1>0, <1>2 DEF Writes, SameBut
<1>7. Points(d, u, h2, i2, e)
  <2> SUFFICES ASSUME NEW c \in i2, NEW P \in Rows, IsParent(P, c)
               PROVE  Checked(d, h2, i2, e, P) \/ Pending(u, P, c)
    BY DEF Points
  <2>1. CASE c \in i
    <3>1. CASE Checked(d, h, i, e, P)
      BY <3>1 DEF Checked, View
    <3>2. CASE Pending(t, P, c)
      <4>1. CASE t.stage \in KeyChecks /\ P = r
        <5>1. PICK m \in Modes : <<r, m>> \in L
          BY <4>1
        <5> QED
          BY <4>1, <5>1 DEF Checked, View
      <4>2. CASE ~(t.stage \in KeyChecks /\ P = r)
        BY <3>2, <4>2 DEF Pending, SameBut
      <4> QED
        BY <4>1, <4>2
    <3> QED
      BY <1>0, <2>1, <3>1, <3>2 DEF Points
  <2>2. CASE c \notin i
    <3>1. c = r /\ t.stage \in {"insert", "link"} \cup Upserts
      BY <2>2
    <3>2. c \in ChildRows /\ c \notin ParentRows
      BY ParentIs
    <3>3. t.stage # "insert" /\ t.stage # "tag"
      BY <1>0, <3>1, <3>2, RowsAreRows DEF Aims, ParentRows, Shape, Tx
    <3> QED
      BY <1>0, <3>1, <3>3 DEF Pending, SameBut, Aims, Upserts
  <2> QED
    BY <2>1, <2>2
<1>8. Cascades(d, u, e)
  BY <1>0, <1>2, ParentIs DEF Writes, Cascades
<1>9. Spares(u, i2)
  BY DEF Spares, SameBut
<1>10. Finds(d, u, h2, e)
  BY <1>2 DEF Finds, SameBut, Late
<1> QED
  BY <1>1, <1>3, <1>4, <1>5, <1>6, <1>7, <1>8, <1>9, <1>10 DEF Good

-----------------------------------------------------------------------------
\* A DELETE takes row r.
LEMMA DeleteGood ==
  ASSUME NEW d \in SUBSET Rows, NEW t, NEW u, NEW h \in SUBSET (Rows \X Modes), NEW i \in SUBSET Rows,
         NEW e \in SUBSET Rows, NEW r \in Rows, r \in t.todo,
         t # NoTx, Good(d, t, h, i, e), Resolved(d), SameBut(u, t),
         u.todo = (t.todo \ {r}) \cup Children(r, View(d, i, e)),
         t.stage \in Deletes
  PROVE  Good(d, u, h \cup {<<r, "exclusive">>}, i \ {r}, e \cup ({r} \cap d))
<1> DEFINE h2 == h \cup {<<r, "exclusive">>}
           i2 == i \ {r}
           e2 == e \cup ({r} \cap d)
<1>0. /\ Shape(t) /\ Aims(d, t) /\ Locks(d, h, i, e) /\ Writes(t, i, e) /\ Points(d, t, h, i, e)
      /\ Cascades(d, t, e) /\ Spares(t, i) /\ Finds(d, t, h, e)
  BY DEF Good
<1>1. u # NoTx
  BY NoTxAssumption DEF SameBut
<1>2. Children(r, View(d, i, e)) = {c \in View(d, i, e) : IsParent(r, c)}
  BY ChildrenAre DEF View
<1>3. \A c \in Children(r, View(d, i, e)) : c \in View(d, i, e) /\ c \in ChildRows /\ c \notin ParentRows
  BY <1>2, ParentIs
<1>4. t.stage \in {"contents", "unlink"} =>
        r \in ChildRows /\ r \notin ParentRows /\ Children(r, View(d, i, e)) = {}
  <2> SUFFICES ASSUME t.stage \in {"contents", "unlink"}
               PROVE  r \in ChildRows /\ r \notin ParentRows /\ Children(r, View(d, i, e)) = {}
    OBVIOUS
  <2>1. r \in ChildRows /\ r \notin ParentRows
    BY <1>0, RowsDiffer DEF Aims
  <2> QED
    BY <2>1, <1>2, ParentIs
<1>5. t.kind \in {"replace", "delete"} /\ t.stage \in {"contents", "unlink", "item", "sweep"}
  BY <1>0, KindOf DEF Deletes, Scans
<1>6. Shape(u)
  BY <1>0 DEF Shape, SameBut
<1>7. Aims(d, u)
  <2>1. t.kind = "delete" => u.todo \subseteq d
    BY <1>0, <1>3 DEF Aims, Writes, View
  <2>2. t.stage \in {"contents", "unlink"} => u.todo \subseteq ChildRows
    BY <1>0, <1>4 DEF Aims
  <2> QED
    BY <1>5, <2>1, <2>2 DEF Aims, SameBut
<1>8. Locks(d, h2, i2, e2)
  BY <1>0 DEF Locks
<1>9. Writes(u, i2, e2)
  BY <1>0, <1>4, <1>5 DEF Writes, SameBut, Late
<1>10. Points(d, u, h2, i2, e2)
  <2> SUFFICES ASSUME NEW c \in i2, NEW P \in Rows, IsParent(P, c)
               PROVE  Checked(d, h2, i2, e2, P)
    BY DEF Points
  <2>1. ~Pending(t, P, c)
    BY <1>5 DEF Pending, KeyChecks
  <2>2. Checked(d, h, i, e, P)
    BY <1>0, <2>1 DEF Points
  <2>3. P # r
    BY <1>0 DEF Spares
  <2> QED
    BY <2>2, <2>3 DEF Checked, View
<1>11. Cascades(d, u, e2)
  BY <1>0, <1>2 DEF Cascades, View
<1>12. Spares(u, i2)
  BY <1>0, <1>3, ParentIs DEF Spares, SameBut
<1>13. Finds(d, u, h2, e2)
  <2>1. CASE t.stage \in {"contents", "unlink"} /\ t.kind = "delete"
    <3>1. t.own /\ IsParent(ItemRow(t.item), r) /\ r \in d
      BY <1>0, <2>1 DEF Finds, Aims
    <3>2. ItemRow(t.item) \in d
      BY <1>0, <3>1, RowsAreRows DEF Resolved, Shape, Tx, ParentRows
    <3>3. r \in e2
      BY <3>1
    <3> QED
      BY <1>0, <1>4, <2>1, <3>1, <3>2, <3>3 DEF Finds, SameBut
  <2>2. CASE t.stage = "item"
    <3>1. t.kind = "delete" /\ r \in d
      BY <1>0, <2>2, KindOf DEF Aims
    <3>2. ItemRow(t.item) \in e2
      BY <1>0, <2>2, <3>1 DEF Finds
    <3> QED
      BY <2>2, <3>2 DEF Finds, SameBut
  <2>3. CASE ~(t.stage \in {"contents", "unlink"} /\ t.kind = "delete") /\ t.stage # "item"
    BY <1>5, <2>3 DEF Finds, SameBut
  <2> QED
    BY <2>1, <2>2, <2>3
<1> QED
  BY <1>1, <1>6, <1>7, <1>8, <1>9, <1>10, <1>11, <1>12, <1>13 DEF Good

\* What a transaction has when it may commit.
Settled(d, h, i, e) == \A c \in i : \A P \in Rows : IsParent(P, c) => Checked(d, h, i, e, P)
Cascaded(d, e) == \A P \in e : \A c \in d : IsParent(P, c) => c \in e

\* Another transaction, with locks k, commits the rows j and the deletion of f.
LEMMA OtherCommitGood ==
  ASSUME NEW d \in SUBSET Rows, NEW t, NEW h \in SUBSET (Rows \X Modes), NEW i \in SUBSET Rows,
         NEW e \in SUBSET Rows, NEW k \in SUBSET (Rows \X Modes), NEW j \in SUBSET Rows,
         NEW f \in SUBSET Rows,
         Good(d, t, h, i, e), Locks(d, k, j, f), Settled(d, k, j, f), Cascaded(d, f), Apart(h, k)
  PROVE  Good(View(d, j, f), Skip(t, f), h, i, e)
<1> DEFINE d2 == View(d, j, f)
           u == Skip(t, f)
<1>1. CASE t = NoTx
  BY <1>1 DEF Good, Skip
<1>2. CASE t # NoTx
  <2>0. /\ Shape(t) /\ Aims(d, t) /\ Locks(d, h, i, e) /\ Writes(t, i, e) /\ Points(d, t, h, i, e)
        /\ Cascades(d, t, e) /\ Spares(t, i) /\ Finds(d, t, h, e)
    BY <1>2 DEF Good
  <2>1. /\ SameBut(u, t)
        /\ u.todo = IF t.stage \in Scans THEN t.todo \ f ELSE t.todo
    <3>1. t \in Tx /\ t.todo \ f \in SUBSET Rows
      BY <2>0 DEF Shape, Tx
    <3>2. CASE t.stage \in Scans
      <4>1. u = [t EXCEPT !.todo = t.todo \ f]
        BY <1>2, <3>2 DEF Skip
      <4> QED
        BY <3>1, <3>2, <4>1, TodoOf
    <3>3. CASE t.stage \notin Scans
      <4>1. u = t
        BY <3>3 DEF Skip
      <4> QED
        BY <3>1, <3>3, <4>1 DEF SameBut
    <3> QED
      BY <3>2, <3>3
  <2> HIDE DEF u
  <2>2. u # NoTx
    BY <2>1, NoTxAssumption DEF SameBut
  <2>3. \A r \in j \cup f : \A m \in Modes : <<r, m>> \notin h
    <3> SUFFICES ASSUME NEW r \in j \cup f, NEW m \in Modes, <<r, m>> \in h
                 PROVE  FALSE
      OBVIOUS
    <3>1. <<r, "exclusive">> \in k
      BY DEF Locks
    <3>2. ~Conflict(m, "exclusive")
      BY <3>1 DEF Apart
    <3> QED
      BY <3>2 DEF Conflict
  <2>4. \A r \in i \cup e : r \notin j \cup f
    BY <2>0, <2>3 DEF Locks, Modes
  <2>5. Shape(u)
    BY <2>0, <2>1 DEF Shape, SameBut
  <2>6. Aims(d2, u)
    <3>1. t.kind = "delete" => t.stage \in Scans \cup {"commit", "leaked"}
      BY <2>0, KindOf DEF Scans
    <3>2. u.todo \subseteq t.todo
      BY <2>1
    <3>3. t.stage \in {"update", "pick"} => u.todo \subseteq d2
      BY <2>0, <2>1 DEF Aims, Scans, View
    <3>4. t.kind = "delete" => u.todo \subseteq d2
      BY <2>0, <2>1, <3>1 DEF Aims, View
    <3> QED
      BY <2>0, <2>1, <3>2, <3>3, <3>4 DEF Aims, SameBut
  <2>7. Locks(d2, h, i, e)
    <3>1. e \subseteq d2
      BY <2>0, <2>4 DEF Locks, View
    <3>2. ASSUME NEW l \in h
          PROVE  l[1] \in d2 \cup i \/ <<l[1], "exclusive">> \in h
      <4>1. PICK r \in Rows, m \in Modes : l = <<r, m>>
        OBVIOUS
      <4> QED
        BY <2>0, <2>3, <4>1 DEF Locks, View
    <3> QED
      BY <2>0, <3>1, <3>2 DEF Locks
  <2>8. Writes(u, i, e)
    BY <2>0, <2>1 DEF Writes, SameBut
  <2>9. Points(d2, u, h, i, e)
    <3> SUFFICES ASSUME NEW c \in i, NEW P \in Rows, IsParent(P, c)
                 PROVE  Checked(d2, h, i, e, P) \/ Pending(u, P, c)
      BY DEF Points
    <3>1. CASE Checked(d, h, i, e, P)
      BY <2>3, <3>1 DEF Checked, View
    <3>2. CASE Pending(t, P, c)
      BY <2>1, <3>2 DEF Pending, SameBut, KeyChecks, Scans
    <3> QED
      BY <2>0, <3>1, <3>2 DEF Points
  <2>10. Cascades(d2, u, e)
    <3> SUFFICES ASSUME NEW P \in e, NEW c \in d2, IsParent(P, c)
                 PROVE  c \in e \cup u.todo
      BY DEF Cascades
    <3>1. CASE c \in j
      <4>1. PICK m \in Modes : <<P, m>> \in k
        BY <3>1 DEF Settled, Checked
      <4>2. <<P, "exclusive">> \in h
        BY <2>0 DEF Locks
      <4>3. ~Conflict("exclusive", m)
        BY <4>1, <4>2 DEF Apart
      <4> QED
        BY <4>3 DEF Conflict
    <3>2. CASE c \in d \ f
      BY <2>0, <2>1, <3>2 DEF Cascades
    <3> QED
      BY <3>1, <3>2 DEF View
  <2>11. Spares(u, i)
    BY <2>0, <2>1 DEF Spares, SameBut
  <2>12. Finds(d2, u, h, e)
    <3>1. u.todo \subseteq t.todo
      BY <2>1
    <3>2. ASSUME NEW c \in e, IsParent(ItemRow(t.item), c), ItemRow(t.item) \in d
          PROVE  ItemRow(t.item) \in d2 /\ ItemRow(t.item) \notin f
      <4>1. c \in d /\ c \notin f
        BY <2>0, <2>4 DEF Locks
      <4> QED
        BY <3>2, <4>1 DEF Cascaded, View
    <3>3. t.stage = "item" => u.todo = t.todo \ f
      BY <2>1 DEF Scans
    <3>4. ASSUME t.kind = "delete", t.stage \in {"contents", "unlink", "item"}, h # {},
                 ItemRow(t.item) \notin e
          PROVE  /\ t.own
                 /\ ItemRow(t.item) \in d2
                 /\ \E c \in e : IsParent(ItemRow(t.item), c)
                 /\ t.stage = "item" => ItemRow(t.item) \in u.todo
      <4>1. /\ t.own /\ ItemRow(t.item) \in d
            /\ t.stage = "item" => ItemRow(t.item) \in t.todo
        BY <2>0, <3>4 DEF Finds
      <4>2. PICK c \in e : IsParent(ItemRow(t.item), c)
        BY <2>0, <3>4 DEF Finds
      <4> QED
        BY <3>2, <3>3, <4>1, <4>2
    <3> QED
      BY <2>0, <2>1, <3>1, <3>4 DEF Finds, SameBut
  <2> QED
    BY <2>2, <2>5, <2>6, <2>7, <2>8, <2>9, <2>10, <2>11, <2>12 DEF Good, u
<1> QED
  BY <1>1, <1>2

\* A commit of checked inserts and cascaded deletes leaves the database resolved.
LEMMA CommitResolves ==
  ASSUME NEW d \in SUBSET Rows, NEW k, NEW j \in SUBSET Rows, NEW f \in SUBSET Rows,
         Resolved(d), Settled(d, k, j, f), Cascaded(d, f)
  PROVE  Resolved(View(d, j, f))
<1> SUFFICES ASSUME NEW c \in View(d, j, f), NEW P \in Rows, IsParent(P, c)
             PROVE  P \in View(d, j, f)
  BY DEF Resolved
<1>1. CASE c \in j
  BY <1>1 DEF Settled, Checked
<1>2. CASE c \in d \ f
  BY <1>2 DEF Resolved, Cascaded, View
<1> QED
  BY <1>1, <1>2 DEF View

-----------------------------------------------------------------------------
\* The rows of the next statement, and what it finds of an item to delete.
LEMMA TargetsAre ==
  ASSUME NEW u \in Tx, NEW view \in SUBSET Rows, u.stage \in Writing => u.rest # <<>>
  PROVE  /\ Targets(u, u.stage, view) \in SUBSET Rows
         /\ u.stage = "tag" => Targets(u, u.stage, view) \subseteq TagRows
         /\ u.stage \in {"contents", "unlink", "item", "sweep", "commit", "leaked"} =>
                Targets(u, u.stage, view) \subseteq view
         /\ u.stage = "contents" => Targets(u, u.stage, view) \subseteq ContentRows
         /\ u.stage = "unlink" => Targets(u, u.stage, view) \subseteq LinkRows
         /\ u.stage \in {"commit", "leaked"} => Targets(u, u.stage, view) = {}
<1>1. u.item \in Items /\ u.stage \in Stages /\ (u.stage \in Writing => Head(u.rest) \in Tags)
  BY DEF Tx
<1>2. LinksToDrop(u, view) \subseteq view \cap LinkRows /\ Unlinked(view) \subseteq view
  BY DEF LinksToDrop, LinksOf, Unlinked
<1> QED
  BY <1>1, <1>2, RowsAreRows DEF Targets, Writing, Rows

\* What a DELETE of a statement on an item's children finds is the user's own.
LEMMA DropsAre ==
  ASSUME NEW u \in Tx, NEW view \in SUBSET Rows, u.kind = "delete",
         u.stage \in {"contents", "unlink"}, NEW r \in Targets(u, u.stage, view)
  PROVE  u.own /\ IsParent(ItemRow(u.item), r)
<1>0. u.item \in Items
  BY DEF Tx
<1>1. CASE u.stage = "contents"
  <2>1. Mine(u, view) /\ r = ContentRow(u.item)
    BY <1>1 DEF Targets
  <2> QED
    BY <1>0, <2>1, ContentParent DEF Mine
<1>2. CASE u.stage = "unlink"
  <2>1. Mine(u, view) /\ r \in LinkRows /\ r[2] = u.item
    BY <1>2 DEF Targets, LinksToDrop, LinksOf
  <2>2. PICK i \in Items, g \in Tags : r = LinkRow(i, g)
    BY <2>1 DEF LinkRows
  <2> QED
    BY <1>0, <2>1, <2>2, LinkHas, LinkParent DEF Mine
<1> QED
  BY <1>1, <1>2

\* A statement has taken its rows and the next one, u, begins.
LEMMA EnterGood ==
  ASSUME NEW d \in SUBSET Rows, NEW t, NEW u \in Tx, NEW h \in SUBSET (Rows \X Modes),
         NEW i \in SUBSET Rows, NEW e \in SUBSET Rows,
         t # NoTx, Good(d, t, h, i, e), t.todo = {},
         u.kind = t.kind, u.item = t.item, u.own = t.own, u.stage \in StagesOf[u.kind],
         u.stage \in Writing => u.rest # <<>>,
         u.todo = Targets(u, u.stage, View(d, i, e)),
         t.stage \in Late => u.stage \in Late,
         t.stage = "link" /\ LinkRow(t.item, Head(t.rest)) \in i =>
            u.stage = "linkitem" /\ u.rest = t.rest,
         t.stage = "linkitem" => u.stage = "linktag" /\ u.rest = t.rest,
         t.stage = "content" /\ ContentRow(t.item) \in i => u.stage = "contentitem",
         u.stage \notin {"update", "pick"},
         u.stage = "item" => t.stage = "unlink",
         u.stage = "leaked" => t.stage = "item" /\ ItemRow(t.item) \notin e
  PROVE  Good(d, u, h, i, e)
<1> DEFINE view == View(d, i, e)
<1>0. /\ Shape(t) /\ Aims(d, t) /\ Locks(d, h, i, e) /\ Writes(t, i, e) /\ Points(d, t, h, i, e)
      /\ Cascades(d, t, e) /\ Spares(t, i) /\ Finds(d, t, h, e)
  BY DEF Good
<1>v. view \in SUBSET Rows /\ i \subseteq view /\ (u.kind = "delete" => view \subseteq d)
  BY <1>0 DEF View, Writes
<1>i. u.item \in Items
  BY DEF Tx
<1>1. u # NoTx
  BY NoTxAssumption
<1>2. Shape(u)
  BY DEF Shape
<1>3. /\ u.todo \in SUBSET Rows
      /\ u.stage = "tag" => u.todo \subseteq TagRows
      /\ u.stage \in {"contents", "unlink", "item", "sweep", "commit", "leaked"} => u.todo \subseteq view
      /\ u.stage = "contents" => u.todo \subseteq ContentRows
      /\ u.stage = "unlink" => u.todo \subseteq LinkRows
      /\ u.stage \in {"commit", "leaked"} => u.todo = {}
  <2> DEFINE x == Targets(u, u.stage, view)
  <2>1. /\ x \in SUBSET Rows
        /\ u.stage = "tag" => x \subseteq TagRows
        /\ u.stage \in {"contents", "unlink", "item", "sweep", "commit", "leaked"} => x \subseteq view
        /\ u.stage = "contents" => x \subseteq ContentRows
        /\ u.stage = "unlink" => x \subseteq LinkRows
        /\ u.stage \in {"commit", "leaked"} => x = {}
    <3>1. view \in SUBSET Rows
      BY <1>v
    <3> HIDE DEF view
    <3> QED
      BY <3>1, TargetsAre, Zenon
  <2>2. u.todo = x
    OBVIOUS
  <2> HIDE DEF x, view
  <2> QED
    BY <2>1, <2>2
<1>4. Aims(d, u)
  <2>1. u.kind = "delete" => u.stage \in {"contents", "unlink", "item", "sweep", "commit", "leaked"}
    BY <1>2, KindOf
  <2>2. u.stage = "insert" => u.todo \subseteq {ItemRow(u.item)}
    BY DEF Targets
  <2>3. u.stage = "link" => u.todo \subseteq {LinkRow(u.item, Head(u.rest))}
    BY DEF Targets
  <2>4. u.stage = "content" => u.todo \subseteq {ContentRow(u.item)}
    BY DEF Targets
  <2> QED
    BY <1>3, <1>v, <2>1, <2>2, <2>3, <2>4 DEF Aims, ChildRows
<1>5. Writes(u, i, e)
  BY <1>0 DEF Writes
<1>6. Points(d, u, h, i, e)
  <2> SUFFICES ASSUME NEW c \in i, NEW P \in Rows, IsParent(P, c), ~Checked(d, h, i, e, P)
               PROVE  Pending(u, P, c)
    BY DEF Points
  <2>1. Pending(t, P, c)
    BY <1>0 DEF Points
  <2>2. CASE t.stage = "link" /\ c = LinkRow(t.item, Head(t.rest))
    <3>1. u.stage = "linkitem" /\ u.rest = t.rest
      BY <2>2
    <3>2. Head(u.rest) \in Tags
      BY <3>1 DEF Tx, Writing
    <3>3. P = ItemRow(u.item) \/ P = TagRow(Head(u.rest))
      BY <1>i, <2>2, <3>1, <3>2, LinkParent
    <3>4. u.todo = {ItemRow(u.item)}
      BY <3>1 DEF Targets
    <3> QED
      BY <2>2, <3>1, <3>3, <3>4 DEF Pending, KeyChecks
  <2>3. CASE t.stage = "linkitem" /\ P = TagRow(Head(t.rest))
    <3>1. u.stage = "linktag" /\ u.todo = {P}
      BY <2>3 DEF Targets
    <3> QED
      BY <3>1 DEF Pending, KeyChecks
  <2>4. CASE t.stage = "content" /\ c = ContentRow(t.item)
    <3>1. u.stage = "contentitem" /\ u.todo = {ItemRow(u.item)}
      BY <2>4 DEF Targets
    <3>2. P = ItemRow(u.item)
      BY <1>i, <2>4, ContentParent
    <3> QED
      BY <3>1, <3>2 DEF Pending, KeyChecks
  <2> QED
    BY <2>1, <2>2, <2>3, <2>4 DEF Pending
<1>7. Cascades(d, u, e)
  BY <1>0 DEF Cascades
<1>8. Spares(u, i)
  <2> SUFFICES ASSUME u.stage \in Deletes, NEW P \in u.todo, NEW c \in i, IsParent(P, c)
               PROVE  FALSE
    BY DEF Spares
  <2>0. P \in ParentRows /\ P \notin ChildRows
    BY ParentIs
  <2>1. CASE u.stage \in {"contents", "unlink"}
    BY <1>3, <2>0, <2>1 DEF ChildRows
  <2>2. CASE u.stage = "item"
    <3>1. u.kind = "delete"
      BY <1>2, <2>2, KindOf
    <3> QED
      BY <3>1, <1>0 DEF Writes
  <2>3. CASE u.stage = "sweep"
    <3>1. P \in TagRows /\ LinksTo(P[2], view) = {}
      BY <2>3 DEF Targets, Unlinked
    <3>2. PICK g \in Tags, j \in Items : P = TagRow(g) /\ c = LinkRow(j, g)
      BY <3>1, RowsDiffer, RowsAreRows DEF IsParent
    <3>3. c \in LinksTo(P[2], view)
      BY <1>v, <3>2, TagHas, LinkHas, RowsAreRows DEF LinksTo
    <3> QED
      BY <3>1, <3>3
  <2> QED
    BY <2>1, <2>2, <2>3 DEF Deletes, Scans
<1>9. Finds(d, u, h, e)
  <2>1. ASSUME u.kind = "delete", u.stage \in {"contents", "unlink"}, NEW r \in u.todo
        PROVE  u.own /\ IsParent(ItemRow(u.item), r)
    BY <2>1, <1>v, DropsAre
  <2>2. ASSUME u.kind = "delete", u.stage \in {"contents", "unlink", "item"}, h # {},
               ItemRow(u.item) \notin e
        PROVE  /\ u.own
               /\ ItemRow(u.item) \in d
               /\ \E c \in e : IsParent(ItemRow(u.item), c)
               /\ u.stage = "item" => ItemRow(u.item) \in u.todo
    <3>1. t.stage \in {"contents", "unlink", "item"}
      <4>1. t.stage \in {"contents", "unlink", "item", "sweep", "commit", "leaked"}
        BY <1>0, <2>2, KindOf
      <4> QED
        BY <2>2, <4>1 DEF Late
    <3>2. u.own /\ ItemRow(u.item) \in d /\ \E c \in e : IsParent(ItemRow(u.item), c)
      BY <1>0, <2>2, <3>1 DEF Finds
    <3>3. u.stage = "item" => u.todo = {ItemRow(u.item)} \cap view
      BY <3>2 DEF Targets
    <3> QED
      BY <2>2, <3>2, <3>3 DEF View
  <2>3. u.stage = "item" => u.todo \subseteq {ItemRow(u.item)}
    BY DEF Targets
  <2>4. u.stage = "leaked" => h = {}
    <3> SUFFICES ASSUME u.stage = "leaked" PROVE h = {}
      OBVIOUS
    <3>1. t.stage = "item" /\ t.kind = "delete"
      BY <1>0, KindOf
    <3> QED
      BY <1>0, <3>1 DEF Finds
  <2> QED
    BY <2>1, <2>2, <2>3, <2>4 DEF Finds
<1> QED
  BY <1>1, <1>2, <1>0, <1>4, <1>5, <1>6, <1>7, <1>8, <1>9 DEF Good

-----------------------------------------------------------------------------
\* Which statement follows, and with which tags left.
LEMMA TagsOrDoneIs ==
  ASSUME NEW t \in Tx, t.kind \in {"create", "replace"}
  PROVE  /\ TagsOrDone(t) \in StagesOf[t.kind]
         /\ TagsOrDone(t) \in {"tag", "sweep", "commit"}
         /\ TagsOrDone(t) = "tag" => t.rest # <<>>
  BY DEF TagsOrDone, AfterTags, StagesOf

\* The statement that follows belongs to the transaction, has a tag where it needs
\* one, and follows an insert by the checks of its foreign keys.
LEMMA NextIs ==
  ASSUME NEW p \in Procs, NEW t, t = tx[p], NEW s, s = NextStage(p), NEW r, r = RestAfter(t, s),
         Shape(t), t.stage \notin {"commit", "leaked"}
  PROVE  /\ s \in StagesOf[t.kind]
         /\ r \in Seq(Tags)
         /\ s \in Writing => r # <<>>
         /\ t.stage \in Late => s \in Late
         /\ t.stage = "link" /\ LinkRow(t.item, Head(t.rest)) \in ins[p] =>
                s = "linkitem" /\ r = t.rest
         /\ t.stage = "linkitem" => s = "linktag" /\ r = t.rest
         /\ t.stage = "content" /\ ContentRow(t.item) \in ins[p] => s = "contentitem"
         /\ s \notin {"update", "pick"}
         /\ s = "item" => t.stage = "unlink"
         /\ s = "leaked" => t.stage = "item" /\ ItemRow(t.item) \notin del[p]
<1>0. t \in Tx /\ t.stage \in StagesOf[t.kind] /\ t.kind \in Kinds /\ t.rest \in Seq(Tags)
  BY DEF Shape, Tx
<1>1. CASE t.stage = "insert"
  <2>1. t.kind = "create"
    BY <1>0, <1>1 DEF StagesOf, Kinds
  <2>2. s = TagsOrDone(t) \/ s = "select"
    BY <1>1 DEF NextStage
  <2>3. r = t.rest
    BY <1>1 DEF RestAfter
  <2> QED
    BY <1>0, <1>1, <2>1, <2>2, <2>3, TagsOrDoneIs DEF Writing, Late, StagesOf
<1>2. CASE t.stage \in {"check", "contents"}
  <2>1. t.kind \in {"replace", "delete"}
    BY <1>0, <1>2 DEF StagesOf, Kinds
  <2>2. s = "unlink" /\ r = t.rest
    BY <1>2 DEF NextStage, RestAfter
  <2> QED
    BY <1>0, <1>2, <2>1, <2>2 DEF Writing, Late, StagesOf
<1>3. CASE t.stage = "unlink"
  <2>1. t.kind \in {"replace", "delete"}
    BY <1>0, <1>3 DEF StagesOf, Kinds
  <2>2. s = IF t.kind = "delete" THEN "item" ELSE TagsOrDone(t)
    BY <1>3 DEF NextStage
  <2>3. r = t.rest
    BY <1>3 DEF RestAfter
  <2> QED
    BY <1>0, <1>3, <2>1, <2>2, <2>3, TagsOrDoneIs DEF Writing, Late, StagesOf
<1>4. CASE t.stage = "tag"
  <2>1. t.kind \in {"create", "replace"} /\ t.rest # <<>>
    BY <1>0, <1>4 DEF StagesOf, Kinds, Shape, Writing
  <2>2. s = "link" /\ r = t.rest
    BY <1>4 DEF NextStage, RestAfter
  <2> QED
    BY <1>0, <1>4, <2>1, <2>2 DEF Writing, Late, StagesOf
<1>5. CASE t.stage \in {"link", "linktag"}
  <2> DEFINE w == [t EXCEPT !.rest = Tail(t.rest)]
  <2>1. t.kind \in {"create", "replace"} /\ t.rest # <<>>
    BY <1>0, <1>5 DEF StagesOf, Kinds, Shape, Writing
  <2>2. Tail(t.rest) \in Seq(Tags)
    BY <1>0, <2>1
  <2>3. w \in Tx /\ w.kind = t.kind /\ w.rest = Tail(t.rest)
    BY <1>0, <2>2, Zenon DEF Tx
  <2>4. \/ t.stage = "link" /\ LinkRow(t.item, Head(t.rest)) \in ins[p] /\ s = "linkitem"
        \/ ~(t.stage = "link" /\ LinkRow(t.item, Head(t.rest)) \in ins[p]) /\ s = TagsOrDone(w)
    BY <1>5 DEF NextStage
  <2> HIDE DEF w
  <2>5. CASE s = "linkitem" /\ t.stage = "link"
    <3>1. r = t.rest
      BY <2>5 DEF RestAfter
    <3> QED
      BY <1>0, <2>1, <2>5, <3>1 DEF Writing, Late, StagesOf
  <2>6. CASE ~(t.stage = "link" /\ LinkRow(t.item, Head(t.rest)) \in ins[p]) /\ s = TagsOrDone(w)
    <3>1. /\ s \in StagesOf[t.kind] /\ s \in {"tag", "sweep", "commit"}
          /\ s = "tag" => Tail(t.rest) # <<>>
      BY <2>1, <2>3, <2>6, TagsOrDoneIs
    <3>2. r = Tail(t.rest)
      BY <1>5, <3>1 DEF RestAfter
    <3> QED
      BY <1>5, <2>2, <2>6, <3>1, <3>2 DEF Writing, Late
  <2> QED
    BY <2>4, <2>5, <2>6
<1>6. CASE t.stage = "linkitem"
  <2>1. t.kind \in {"create", "replace"} /\ t.rest # <<>>
    BY <1>0, <1>6 DEF StagesOf, Kinds, Shape, Writing
  <2>2. s = "linktag" /\ r = t.rest
    BY <1>6 DEF NextStage, RestAfter
  <2> QED
    BY <1>0, <1>6, <2>1, <2>2 DEF Writing, Late, StagesOf
<1>7. CASE t.stage = "item"
  <2>1. t.kind = "delete"
    BY <1>0, <1>7 DEF StagesOf, Kinds
  <2>2. s = (IF ItemRow(t.item) \in del[p] THEN "sweep" ELSE "leaked") /\ r = t.rest
    BY <1>7 DEF NextStage, RestAfter
  <2> QED
    BY <1>0, <1>7, <2>1, <2>2 DEF Writing, Late, StagesOf
<1>8. CASE t.stage \in {"update", "content"}
  <2>1. t.kind = "fetch"
    BY <1>0, <1>8 DEF StagesOf, Kinds
  <2>2. /\ s = IF t.stage = "update" THEN "content"
               ELSE IF ContentRow(t.item) \in ins[p] THEN "contentitem" ELSE "commit"
        /\ r = t.rest
    BY <1>8 DEF NextStage, RestAfter
  <2> QED
    BY <1>0, <1>8, <2>1, <2>2 DEF Writing, Late, StagesOf
<1>9. CASE t.stage \in {"select", "sweep", "contentitem", "pick"}
  <2>1. s = "commit" /\ r = t.rest
    BY <1>9 DEF NextStage, RestAfter
  <2>2. "commit" \in StagesOf[t.kind]
    BY <1>0 DEF StagesOf, Kinds
  <2> QED
    BY <1>0, <1>9, <2>1, <2>2 DEF Writing, Late
<1> QED
  <2>1. t.stage \in {"insert", "select", "tag", "link", "linkitem", "linktag", "commit", "check",
                     "unlink", "sweep", "contents", "item", "leaked", "update", "content",
                     "contentitem", "pick"}
    BY <1>0 DEF StagesOf, Kinds
  <2> QED
    BY <2>1, <1>1, <1>2, <1>3, <1>4, <1>5, <1>6, <1>7, <1>8, <1>9

-----------------------------------------------------------------------------
\* A stage of a transaction is a stage.
LEMMA StageIn ==
  ASSUME NEW k \in Kinds, NEW s \in StagesOf[k]
  PROVE  s \in Stages
  BY DEF Stages

\* What `[t EXCEPT ...]' leaves and sets when the next statement begins.
LEMMA EnteredIs ==
  ASSUME NEW t \in Tx, NEW r \in Seq(Tags), NEW s \in Stages
  PROVE  LET v == [t EXCEPT !.rest = r, !.stage = s]
         IN  /\ v \in Tx
             /\ v.kind = t.kind /\ v.item = t.item /\ v.tags = t.tags /\ v.own = t.own
             /\ v.rest = r /\ v.stage = s
  BY Zenon DEF Tx

\* Conflicts are symmetric.
LEMMA ApartBothWays ==
  ASSUME NEW h, NEW k, Apart(h, k)
  PROVE  Apart(k, h)
  BY DEF Apart, Conflict

\* What a transaction sees, as an operator on values.
LEMMA ViewIsVisible ==
  ASSUME NEW p \in Procs
  PROVE  View(db, ins[p], del[p]) = Visible(p)
  BY DEF View, Visible

\* A step of one connection that commits nothing.
LEMMA OneMoves ==
  ASSUME StoreInv, StoreTypes', NEW p \in Procs, db' = db,
         \A q \in Procs \ {p} :
            tx'[q] = tx[q] /\ held'[q] = held[q] /\ ins'[q] = ins[q] /\ del'[q] = del[q],
         Good(db, tx'[p], held'[p], ins'[p], del'[p]),
         \A q \in Procs \ {p} : Apart(held'[p], held[q])
  PROVE  StoreInv'
<1>1. \A q \in Procs : Good(db', tx'[q], held'[q], ins'[q], del'[q])
  <2> TAKE q \in Procs
  <2>1. CASE q = p
    BY <2>1
  <2>2. CASE q # p
    BY <2>2, Zenon DEF StoreInv
  <2> QED
    BY <2>1, <2>2
<1>2. \A q \in Procs : \A o \in Procs \ {q} : Apart(held'[q], held'[o])
  <2> TAKE q \in Procs
  <2> TAKE o \in Procs \ {q}
  <2>1. CASE q = p
    BY <2>1
  <2>2. CASE o = p
    <3>1. Apart(held'[p], held[q]) /\ held'[q] = held[q]
      BY <2>2
    <3> QED
      BY <2>2, <3>1, ApartBothWays
  <2>3. CASE q # p /\ o # p
    BY <2>3 DEF StoreInv
  <2> QED
    BY <2>1, <2>2, <2>3
<1>3. Resolved(db)'
  BY DEF StoreInv, Resolved
<1> QED
  BY <1>1, <1>2, <1>3 DEF StoreInv

\* It holds of the empty database.
LEMMA StoreInitInv ==
  ASSUME Init
  PROVE  StoreInv
<1>1. StoreTypes
  BY OpsAssumption DEF Init, StoreTypes
<1>2. Resolved(db)
  BY DEF Init, Resolved
<1>3. \A p \in Procs : Good(db, tx[p], held[p], ins[p], del[p])
  BY DEF Init, Good
<1>4. \A p \in Procs : \A q \in Procs \ {p} : Apart(held[p], held[q])
  BY DEF Init, Apart
<1> QED
  BY <1>1, <1>2, <1>3, <1>4 DEF StoreInv

\* A rollback drops everything that the transaction did.
LEMMA RollbackStep ==
  ASSUME StoreInv, NEW p \in Procs, Rollback(p)
  PROVE  StoreInv'
<1>1. StoreTypes'
  BY DEF StoreInv, StoreTypes, Rollback, Idle
<1>2. db' = db /\ tx'[p] = NoTx /\ held'[p] = {} /\ ins'[p] = {} /\ del'[p] = {}
  BY DEF StoreInv, StoreTypes, Rollback, Idle
<1>3. \A q \in Procs \ {p} :
        tx'[q] = tx[q] /\ held'[q] = held[q] /\ ins'[q] = ins[q] /\ del'[q] = del[q]
  BY DEF StoreInv, StoreTypes, Rollback, Idle
<1>4. Good(db, tx'[p], held'[p], ins'[p], del'[p])
  BY <1>2 DEF Good
<1>5. \A q \in Procs \ {p} : Apart(held'[p], held[q])
  BY <1>2 DEF Apart
<1> QED
  BY <1>1, <1>2, <1>3, <1>4, <1>5, OneMoves

\* A claim whose SELECT fails is abandoned without a lock.
LEMMA RowsErrStep ==
  ASSUME StoreInv, NEW p \in Procs, RowsErr(p)
  PROVE  StoreInv'
<1> DEFINE t == tx[p]
           u == [t EXCEPT !.stage = "leaked", !.todo = {}]
<1>0. /\ t \in Tx /\ t.stage = "pick" /\ Shape(t)
      /\ tx' = [tx EXCEPT ![p] = u]
  <2>1. t # NoTx /\ t.stage = "pick" /\ tx' = [tx EXCEPT ![p] = u]
    BY DEF RowsErr, Running
  <2>2. Shape(t)
    BY <2>1 DEF StoreInv, Good
  <2> QED
    BY <2>1, <2>2 DEF Shape
<1>1. t.kind = "claim"
  BY <1>0, KindOf
<1>2. u \in Tx
  <2>1. "leaked" \in Stages
    BY <1>0, <1>1, StageIn DEF StagesOf, Kinds
  <2> QED
    BY <1>0, <2>1, Zenon DEF Tx
<1>3. u.stage = "leaked" /\ u.todo = {} /\ u.kind = "claim"
  BY <1>0, <1>1 DEF Tx
<1> HIDE DEF u
<1>4. StoreTypes'
  BY <1>0, <1>2 DEF StoreInv, StoreTypes, RowsErr, Idle
<1>5. db' = db /\ tx'[p] = u /\ held'[p] = {} /\ ins'[p] = {} /\ del'[p] = {}
  BY <1>0 DEF StoreInv, StoreTypes, RowsErr, Idle
<1>6. \A q \in Procs \ {p} :
        tx'[q] = tx[q] /\ held'[q] = held[q] /\ ins'[q] = ins[q] /\ del'[q] = del[q]
  BY <1>0 DEF StoreInv, StoreTypes, RowsErr, Idle
<1>7. Good(db, u, {}, {}, {})
  <2>1. u # NoTx
    BY <1>2, NoTxAssumption
  <2>2. Shape(u)
    BY <1>2, <1>3 DEF Shape, StagesOf, Writing
  <2>3. Aims(db, u) /\ Locks(db, {}, {}, {}) /\ Writes(u, {}, {}) /\ Points(db, u, {}, {}, {})
        /\ Cascades(db, u, {}) /\ Spares(u, {}) /\ Finds(db, u, {}, {})
    BY <1>3 DEF Aims, Locks, Writes, Points, Cascades, Spares, Finds
  <2> QED
    BY <2>1, <2>2, <2>3 DEF Good
<1>8. \A q \in Procs \ {p} : Apart(held'[p], held[q])
  BY <1>5 DEF Apart
<1>9. Good(db, tx'[p], held'[p], ins'[p], del'[p])
  BY <1>5, <1>7, Zenon
<1> QED
  BY <1>4, <1>5, <1>6, <1>8, <1>9, OneMoves

-----------------------------------------------------------------------------
\* The transaction of a request.
LEMMA RequestIn ==
  ASSUME StoreInv, NEW op \in Ops, NEW s, s = FirstStage[op.kind], NEW x, x = Targets(op, s, db)
  PROVE  [kind |-> op.kind, item |-> op.item, tags |-> op.tags, own |-> op.own,
          rest |-> op.tags, stage |-> s, todo |-> x] \in Tx
<1>1. /\ op.kind \in Kinds /\ op.item \in Items /\ op.tags \in Seq(Tags) /\ op.own \in BOOLEAN
  BY OpsAssumption DEF Op
<1>2. s \in StagesOf[op.kind] /\ s \in {"insert", "check", "contents", "update", "pick"}
  BY <1>1 DEF FirstStage, StagesOf, Kinds
<1>3. db \in SUBSET Rows
  BY DEF StoreInv, StoreTypes
<1>4. x \in SUBSET Rows
  BY <1>1, <1>2, <1>3, RowsAreRows DEF Targets, ParentRows
<1> QED
  BY <1>1, <1>2, <1>4, StageIn, Zenon DEF Tx

\* A transaction begins with nothing locked or written.
LEMMA BeginStep ==
  ASSUME StoreInv, NEW p \in Procs, NEW op \in Ops, Begin(p, op)
  PROVE  StoreInv'
<1> DEFINE s == FirstStage[op.kind]
           x == Targets(op, s, db)
           u == [kind |-> op.kind, item |-> op.item, tags |-> op.tags, own |-> op.own,
                 rest |-> op.tags, stage |-> s, todo |-> x]
<1>0. /\ tx[p] = NoTx /\ tx' = [tx EXCEPT ![p] = u] /\ begun < MaxOps /\ begun' = begun + 1
      /\ UNCHANGED <<db, held, ins, del, known, saved>>
  BY DEF Begin
<1>1. /\ op.kind \in Kinds /\ op.item \in Items /\ op.tags \in Seq(Tags) /\ op.own \in BOOLEAN
  BY OpsAssumption DEF Op
<1>2. /\ s \in StagesOf[op.kind] /\ s \in {"insert", "check", "contents", "update", "pick"}
      /\ op.kind = "delete" <=> s = "contents"
  BY <1>1 DEF FirstStage, StagesOf, Kinds
<1>3. /\ s = "insert" => x = {ItemRow(op.item)}
      /\ s # "insert" => x \subseteq db
      /\ s = "contents" => x \subseteq {ContentRow(op.item)} /\ (x # {} => op.own)
  BY <1>2 DEF Targets, Mine
<1>4. u \in Tx
  BY RequestIn
<1>5. /\ u.kind = op.kind /\ u.item = op.item /\ u.own = op.own /\ u.stage = s /\ u.todo = x
  OBVIOUS
<1> HIDE DEF u, x, s
<1>6. StoreTypes'
  <2>1. begun + 1 \in 0 .. MaxOps
    BY <1>0, OpsAssumption DEF StoreInv, StoreTypes
  <2> QED
    BY <1>0, <1>4, <2>1 DEF StoreInv, StoreTypes
<1>7. held[p] = {} /\ ins[p] = {} /\ del[p] = {}
  BY <1>0 DEF StoreInv, Good
<1>8. db' = db /\ tx'[p] = u /\ held'[p] = {} /\ ins'[p] = {} /\ del'[p] = {}
  BY <1>0, <1>7 DEF StoreInv, StoreTypes
<1>9. \A q \in Procs \ {p} :
        tx'[q] = tx[q] /\ held'[q] = held[q] /\ ins'[q] = ins[q] /\ del'[q] = del[q]
  BY <1>0 DEF StoreInv, StoreTypes
<1>10. Good(db, u, {}, {}, {})
  <2>1. u # NoTx
    BY <1>4, NoTxAssumption
  <2>2. Shape(u)
    BY <1>2, <1>4, <1>5 DEF Shape, Writing
  <2>3. Aims(db, u)
    BY <1>1, <1>2, <1>3, <1>5, RowsAreRows DEF Aims, ChildRows
  <2>4. \A r \in u.todo : s = "contents" => u.own /\ IsParent(ItemRow(u.item), r)
    BY <1>1, <1>3, <1>5, ContentParent
  <2>5. Finds(db, u, {}, {})
    BY <1>2, <1>5, <2>4 DEF Finds
  <2>6. Locks(db, {}, {}, {}) /\ Writes(u, {}, {}) /\ Points(db, u, {}, {}, {})
        /\ Cascades(db, u, {}) /\ Spares(u, {})
    BY DEF Locks, Writes, Points, Cascades, Spares
  <2> QED
    BY <2>1, <2>2, <2>3, <2>5, <2>6 DEF Good
<1>11. \A q \in Procs \ {p} : Apart(held'[p], held[q])
  BY <1>8 DEF Apart
<1>12. Good(db, tx'[p], held'[p], ins'[p], del'[p])
  BY <1>8, <1>10, Zenon
<1> QED
  BY <1>6, <1>8, <1>9, <1>11, <1>12, OneMoves

\* The next statement finds its rows.
LEMMA AdvanceStep ==
  ASSUME StoreInv, NEW p \in Procs, Advance(p)
  PROVE  StoreInv'
<1> DEFINE t == tx[p]
           s == NextStage(p)
           rest == RestAfter(t, s)
           v == [t EXCEPT !.rest = rest, !.stage = s]
           x == Targets(v, s, Visible(p))
           u == [v EXCEPT !.todo = x]
<1>0. /\ t # NoTx /\ t.stage \notin {"leaked", "commit"} /\ t.todo = {}
      /\ tx' = [tx EXCEPT ![p] = u]
      /\ UNCHANGED <<db, held, ins, del, known, saved, begun>>
  BY DEF Advance, Running
<1>1. /\ db \in SUBSET Rows /\ held[p] \in SUBSET (Rows \X Modes) /\ ins[p] \in SUBSET Rows
      /\ del[p] \in SUBSET Rows /\ Good(db, t, held[p], ins[p], del[p])
  BY DEF StoreInv, StoreTypes
<1>2. Shape(t) /\ t \in Tx /\ t.kind \in Kinds
  BY <1>0, <1>1 DEF Good, Shape, Tx
<1>3. /\ s \in StagesOf[t.kind]
      /\ rest \in Seq(Tags)
      /\ s \in Writing => rest # <<>>
      /\ t.stage \in Late => s \in Late
      /\ t.stage = "link" /\ LinkRow(t.item, Head(t.rest)) \in ins[p] =>
             s = "linkitem" /\ rest = t.rest
      /\ t.stage = "linkitem" => s = "linktag" /\ rest = t.rest
      /\ t.stage = "content" /\ ContentRow(t.item) \in ins[p] => s = "contentitem"
      /\ s \notin {"update", "pick"}
      /\ s = "item" => t.stage = "unlink"
      /\ s = "leaked" => t.stage = "item" /\ ItemRow(t.item) \notin del[p]
  BY <1>0, <1>2, NextIs
<1>4. s \in Stages
  BY <1>2, <1>3, StageIn
<1> HIDE DEF s, rest
<1>5. /\ v \in Tx
      /\ v.kind = t.kind /\ v.item = t.item /\ v.tags = t.tags /\ v.own = t.own
      /\ v.rest = rest /\ v.stage = s
  <2>1. t \in Tx /\ rest \in Seq(Tags) /\ s \in Stages
    BY <1>2, <1>3, <1>4
  <2> HIDE DEF t
  <2> QED
    BY <2>1, EnteredIs, ZenonT(30)
<1> HIDE DEF v
<1>6. Visible(p) = View(db, ins[p], del[p]) /\ Visible(p) \in SUBSET Rows
  BY <1>1 DEF View, Visible
<1>7. x \in SUBSET Rows
  BY <1>3, <1>5, <1>6, TargetsAre
<1>8. SameBut(u, v) /\ u.todo = x
  BY <1>5, <1>7, TodoOf
<1> HIDE DEF u
<1>9. x = Targets(u, u.stage, View(db, ins[p], del[p]))
  BY <1>5, <1>6, <1>8 DEF SameBut, Targets, Mine, LinksToDrop
<1> HIDE DEF x
<1>10. Good(db, u, held[p], ins[p], del[p])
  BY <1>0, <1>1, <1>3, <1>5, <1>8, <1>9, EnterGood DEF SameBut
<1>11. StoreTypes'
  BY <1>0, <1>8 DEF StoreInv, StoreTypes, SameBut
<1>12. db' = db /\ tx'[p] = u /\ held'[p] = held[p] /\ ins'[p] = ins[p] /\ del'[p] = del[p]
  BY <1>0 DEF StoreInv, StoreTypes
<1>13. \A q \in Procs \ {p} :
        tx'[q] = tx[q] /\ held'[q] = held[q] /\ ins'[q] = ins[q] /\ del'[q] = del[q]
  BY <1>0 DEF StoreInv, StoreTypes
<1>14. \A q \in Procs \ {p} : Apart(held'[p], held[q])
  BY <1>12 DEF StoreInv
<1>15. Good(db, tx'[p], held'[p], ins'[p], del'[p])
  BY <1>10, <1>12, Zenon
<1> QED
  BY <1>11, <1>12, <1>13, <1>14, <1>15, OneMoves

-----------------------------------------------------------------------------
\* No other connection holds a lock that stands against this one.
LEMMA FreeOfClash ==
  ASSUME StoreInv, NEW p \in Procs, NEW r \in Rows, CanTake(p, r), tx[p].stage # "insert",
         NEW m, m = Wanted(p, r), NEW q \in Procs \ {p}
  PROVE  Apart(held[p] \cup {<<r, m>>}, held[q])
<1>1. \A l \in held[q] : l[1] = r => ~Conflict(m, l[2])
  BY DEF CanTake, Blockers
<1>2. Apart(held[p], held[q])
  BY DEF StoreInv
<1> QED
  BY <1>1, <1>2 DEF Apart

\* A statement that deletes nothing takes row r with a lock of mode m, and
\* inserts it or not.
LEMMA TakeStep ==
  ASSUME StoreInv, NEW p \in Procs, NEW r \in Rows, CanTake(p, r), NEW m \in Modes, Take(p, r, m, {}),
         tx[p].stage \notin Deletes \cup {"commit", "leaked"},
         \/ ins' = ins /\ (r \in db \cup ins[p] \/ m = "exclusive")
         \/ /\ ins' = [ins EXCEPT ![p] = @ \cup {r}]
            /\ m = "exclusive" /\ tx[p].stage \in {"insert", "link"} \cup Upserts,
         UNCHANGED <<db, del, known, saved, begun>>,
         tx[p].stage \in KeyChecks => r \in Visible(p),
         \A q \in Procs \ {p} : Apart(held[p] \cup {<<r, m>>}, held[q])
  PROVE  StoreInv'
<1> DEFINE t == tx[p]
           x == t.todo \ {r}
           u == [t EXCEPT !.todo = x]
           L == {<<r, m>>}
           j == IF ins' = ins THEN {} ELSE {r}
<1>0. t # NoTx /\ r \in t.todo
  BY DEF CanTake, Running, Ready
<1>1. /\ db \in SUBSET Rows /\ held[p] \in SUBSET (Rows \X Modes) /\ ins[p] \in SUBSET Rows
      /\ del[p] \in SUBSET Rows /\ Good(db, t, held[p], ins[p], del[p])
  BY DEF StoreInv, StoreTypes
<1>2. t \in Tx /\ x \in SUBSET Rows
  BY <1>0, <1>1 DEF Good, Shape, Tx
<1>3. SameBut(u, t) /\ u.todo = x
  BY <1>2, TodoOf
<1>4. tx' = [tx EXCEPT ![p] = u] /\ held' = [held EXCEPT ![p] = held[p] \cup L]
  <2>1. x = (t.todo \ {r}) \cup {}
    OBVIOUS
  <2> HIDE DEF x
  <2> QED
    BY <2>1, Zenon DEF Take
<1> HIDE DEF u
<1>5. /\ L \in SUBSET ({r} \X Modes) /\ L # {}
      /\ j = {} \/ (j = {r} /\ <<r, "exclusive">> \in L)
      /\ r \in db \cup ins[p] \/ <<r, "exclusive">> \in L
      /\ j # {} => t.stage \in {"insert", "link"} \cup Upserts
      /\ t.stage \in KeyChecks => r \in View(db, ins[p], del[p])
      /\ t.stage \notin Deletes \cup {"commit", "leaked"}
      /\ u.todo = t.todo \ {r}
  BY <1>3, ViewIsVisible
<1>6. ins' \in [Procs -> SUBSET Rows] /\ ins'[p] = ins[p] \cup j /\ \A q \in Procs \ {p} : ins'[q] = ins[q]
  BY DEF StoreInv, StoreTypes
<1>7. Good(db, u, held[p] \cup L, ins[p] \cup j, del[p])
  <2> HIDE DEF t, L, j
  <2> QED
    BY <1>0, <1>1, <1>3, <1>5, TakeGood
<1>8. held[p] \cup L \in SUBSET (Rows \X Modes) /\ u \in Tx
  BY <1>1, <1>3, <1>5 DEF SameBut
<1>9. StoreTypes'
  BY <1>4, <1>6, <1>8 DEF StoreInv, StoreTypes
<1>10. db' = db /\ tx'[p] = u /\ held'[p] = held[p] \cup L /\ del'[p] = del[p]
  BY <1>4 DEF StoreInv, StoreTypes
<1>11. \A q \in Procs \ {p} :
        tx'[q] = tx[q] /\ held'[q] = held[q] /\ ins'[q] = ins[q] /\ del'[q] = del[q]
  BY <1>4, <1>6 DEF StoreInv, StoreTypes
<1>12. \A q \in Procs \ {p} : Apart(held'[p], held[q])
  BY <1>10
<1>13. Good(db, tx'[p], held'[p], ins'[p], del'[p])
  BY <1>6, <1>7, <1>10
<1> QED
  BY <1>9, <1>10, <1>11, <1>12, <1>13, OneMoves

\* The row a scan waits for is committed.
LEMMA ScansFind ==
  ASSUME StoreInv, NEW p \in Procs, tx[p] # NoTx, tx[p].stage \in {"update", "pick"}
  PROVE  tx[p].todo \subseteq db
  BY DEF StoreInv, Good, Aims

\* An UPDATE, a SELECT ... FOR UPDATE or a key check takes a row that is there.
LEMMA ScanStep ==
  ASSUME StoreInv, NEW p \in Procs, NEW r \in Rows, UpdateItem(p, r) \/ LockRow(p, r) \/ CheckKey(p, r)
  PROVE  StoreInv'
<1> DEFINE m == Wanted(p, r)
<1>0. /\ CanTake(p, r) /\ Take(p, r, m, {}) /\ UNCHANGED <<db, ins, del, known, saved, begun>>
      /\ tx[p].stage \in {"update", "pick"} \cup KeyChecks
      /\ tx[p].stage \in KeyChecks => r \in Visible(p)
  BY DEF UpdateItem, LockRow, CheckKey, KeyChecks
<1>1. tx[p] # NoTx /\ r \in tx[p].todo /\ tx[p].stage # "insert"
  BY <1>0 DEF CanTake, Running, Ready, KeyChecks
<1>2. m \in Modes
  BY DEF Wanted, Modes
<1>3. tx[p].stage \notin Deletes \cup {"commit", "leaked"}
  BY <1>0 DEF Deletes, Scans, KeyChecks
<1>4. r \in db \cup ins[p]
  <2>1. CASE tx[p].stage \in KeyChecks
    BY <1>0, <2>1 DEF Visible
  <2>2. CASE tx[p].stage \in {"update", "pick"}
    BY <1>1, <2>2, ScansFind
  <2> QED
    BY <1>0, <2>1, <2>2
<1>5. \A q \in Procs \ {p} : Apart(held[p] \cup {<<r, m>>}, held[q])
  BY <1>0, <1>1, FreeOfClash
<1> HIDE DEF m
<1> QED
  BY <1>0, <1>2, <1>3, <1>4, <1>5, TakeStep

\* Or passes it.
LEMMA PassStep ==
  ASSUME StoreInv, NEW p \in Procs, NEW r \in Rows, tx[p] # NoTx, r \in tx[p].todo,
         tx[p].stage \in {"pick", "insert", "link"},
         tx' = [tx EXCEPT ![p] = [tx[p] EXCEPT !.todo = @ \ {r}]],
         UNCHANGED <<db, held, ins, del, known, saved, begun>>
  PROVE  StoreInv'
<1> DEFINE t == tx[p]
           x == t.todo \ {r}
           u == [t EXCEPT !.todo = x]
<1>0. t # NoTx /\ r \in t.todo
  OBVIOUS
<1>1. /\ db \in SUBSET Rows /\ held[p] \in SUBSET (Rows \X Modes) /\ ins[p] \in SUBSET Rows
      /\ del[p] \in SUBSET Rows /\ Good(db, t, held[p], ins[p], del[p])
  BY DEF StoreInv, StoreTypes
<1>2. t \in Tx /\ x \in SUBSET Rows
  BY <1>0, <1>1 DEF Good, Shape, Tx
<1>3. SameBut(u, t) /\ u.todo = x
  BY <1>2, TodoOf
<1>4. tx' = [tx EXCEPT ![p] = u]
  BY Zenon
<1> HIDE DEF u
<1>5. Good(db, u, held[p], ins[p], del[p])
  <2>1. t.stage \notin Deletes \cup {"commit", "leaked"} /\ t.stage \notin KeyChecks
    BY DEF Deletes, Scans, KeyChecks
  <2>2. u.todo = t.todo \ {r}
    BY <1>3
  <2> DEFINE none == {}
  <2>3. none = {} /\ none \in SUBSET ({r} \X Modes)
    OBVIOUS
  <2> HIDE DEF t, none
  <2>p. /\ r \in t.todo /\ t # NoTx
        /\ none = {} \/ (none = {r} /\ <<r, "exclusive">> \in none)
        /\ none # {} => r \in db \cup ins[p] \/ <<r, "exclusive">> \in none
        /\ t.stage \in KeyChecks => r \in View(db, ins[p], del[p]) /\ none # {}
        /\ none # {} => t.stage \in {"insert", "link"} \cup Upserts
    BY <1>0, <2>1, <2>3
  <2>4. Good(db, u, held[p] \cup none, ins[p] \cup none, del[p])
    BY <1>1, <1>3, <2>1, <2>2, <2>3, <2>p, TakeGood
  <2> QED
    BY <2>3, <2>4
<1>6. StoreTypes'
  BY <1>0, <1>3, <1>4 DEF StoreInv, StoreTypes, SameBut
<1>7. db' = db /\ tx'[p] = u /\ held'[p] = held[p] /\ ins'[p] = ins[p] /\ del'[p] = del[p]
  BY <1>0, <1>4 DEF StoreInv, StoreTypes
<1>8. \A q \in Procs \ {p} :
        tx'[q] = tx[q] /\ held'[q] = held[q] /\ ins'[q] = ins[q] /\ del'[q] = del[q]
  BY <1>0, <1>4 DEF StoreInv, StoreTypes
<1>9. \A q \in Procs \ {p} : Apart(held'[p], held[q])
  BY <1>7 DEF StoreInv
<1> QED
  BY <1>5, <1>6, <1>7, <1>8, <1>9, OneMoves

-----------------------------------------------------------------------------
\* The row that an INSERT INTO items does not meet is locked by nobody.
LEMMA FreshItem ==
  ASSUME StoreInv, NEW p \in Procs, NEW r \in Rows, CanTake(p, r), tx[p].stage = "insert",
         SameKey(r[2]) \cap Visible(p) = {}, NEW q \in Procs \ {p}
  PROVE  Apart(held[p] \cup {<<r, "exclusive">>}, held[q])
<1> DEFINE t == tx[p]
<1>0. t # NoTx /\ r \in t.todo
  BY DEF CanTake, Running, Ready
<1>1. Good(db, t, held[p], ins[p], del[p]) /\ Good(db, tx[q], held[q], ins[q], del[q])
  BY DEF StoreInv
<1>2. Shape(t) /\ Aims(db, t) /\ Writes(t, ins[p], del[p])
  BY <1>0, <1>1 DEF Good
<1>3. t.item \in Items /\ r = ItemRow(t.item) /\ r \in SameKey(r[2])
  <2>1. t.item \in Items /\ r = ItemRow(t.item)
    BY <1>0, <1>2 DEF Shape, Tx, Aims
  <2> QED
    BY <2>1, ItemHas DEF SameKey
<1>4. t.kind = "create"
  BY <1>2, KindOf
<1>5. r \notin db
  <2>1. del[p] = {}
    BY <1>2, <1>4 DEF Writes
  <2> QED
    BY <1>3, <2>1 DEF Visible
<1>6. \A l \in held[q] : l[1] = r => ~Conflict("keyshare", l[2])
  BY <1>3 DEF CanTake, Blockers, Wanted
<1>7. \A l \in held[q] : l[1] = r => l[2] # "exclusive"
  BY <1>6 DEF Conflict
<1>8. \A l \in held[q] : l[1] # r
  <2> SUFFICES ASSUME NEW l \in held[q], l[1] = r
               PROVE  FALSE
    OBVIOUS
  <2>1. tx[q] # NoTx
    BY <1>1 DEF Good
  <2>2. Locks(db, held[q], ins[q], del[q])
    BY <1>1, <2>1 DEF Good
  <2>3. <<r, "exclusive">> \in held[q]
    BY <1>5, <2>2 DEF Locks
  <2> QED
    BY <1>7, <2>3
<1>9. Apart(held[p], held[q])
  BY DEF StoreInv
<1> QED
  BY <1>8, <1>9 DEF Apart

\* An INSERT waits out those who have written its key, and inserts or meets the row.
LEMMA InsertStep ==
  ASSUME StoreInv, NEW p \in Procs, NEW r \in Rows, InsertRow(p, r)
  PROVE  StoreInv'
<1> DEFINE stage == tx[p].stage
           there == (IF stage = "insert" THEN SameKey(r[2]) ELSE {r}) \cap Visible(p) # {}
           m == IF there THEN "update" ELSE "exclusive"
<1>0. /\ CanTake(p, r) /\ stage \in {"insert", "link"} \cup Upserts
      /\ UNCHANGED <<db, del, known, saved, begun>>
  BY DEF InsertRow
<1>1. tx[p] # NoTx /\ r \in tx[p].todo
  BY <1>0 DEF CanTake, Running, Ready
<1>2. CASE there /\ stage \notin Upserts
  <2>1. /\ tx' = [tx EXCEPT ![p] = [tx[p] EXCEPT !.todo = @ \ {r}]]
        /\ UNCHANGED <<db, held, ins, del, known, saved, begun>>
    BY <1>0, <1>2 DEF InsertRow
  <2>2. stage \in {"pick", "insert", "link"}
    BY <1>0, <1>2
  <2> QED
    BY <1>1, <2>1, <2>2, PassStep
<1>3. CASE ~(there /\ stage \notin Upserts)
  <2>1. Take(p, r, m, {}) /\ ins' = [ins EXCEPT ![p] = IF there THEN @ ELSE @ \cup {r}]
    BY <1>3, Zenon DEF InsertRow
  <2>2. /\ m \in Modes
        /\ stage \notin Deletes \cup {"commit", "leaked"} /\ stage \notin KeyChecks
    BY <1>0 DEF Modes, Deletes, Scans, Upserts, KeyChecks
  <2>3. \/ ins' = ins /\ (r \in db \cup ins[p] \/ m = "exclusive")
        \/ /\ ins' = [ins EXCEPT ![p] = @ \cup {r}]
           /\ m = "exclusive" /\ stage \in {"insert", "link"} \cup Upserts
    <3>1. CASE there
      <4>1. r \in db \cup ins[p]
        BY <1>3, <3>1 DEF Visible, Upserts
      <4>2. ins' = ins
        BY <2>1, <3>1 DEF StoreInv, StoreTypes
      <4> QED
        BY <4>1, <4>2
    <3>2. CASE ~there
      BY <1>0, <2>1, <3>2
    <3> QED
      BY <3>1, <3>2
  <2>4. \A q \in Procs \ {p} : Apart(held[p] \cup {<<r, m>>}, held[q])
    <3>1. CASE stage = "insert"
      BY <1>0, <1>3, <3>1, FreshItem DEF Upserts
    <3>2. CASE stage # "insert"
      <4>1. m = Wanted(p, r)
        BY <1>0, <1>3, <3>2 DEF Wanted, Upserts, KeyChecks
      <4> QED
        BY <1>0, <3>2, <4>1, FreeOfClash
    <3> QED
      BY <3>1, <3>2
  <2> HIDE DEF m
  <2> QED
    BY <1>0, <2>1, <2>2, <2>3, <2>4, TakeStep
<1> QED
  BY <1>2, <1>3

\* A DELETE takes a row, and its children after it.
LEMMA DeleteStep ==
  ASSUME StoreInv, NEW p \in Procs, NEW r \in Rows, DeleteRow(p, r)
  PROVE  StoreInv'
<1> DEFINE t == tx[p]
           x == (t.todo \ {r}) \cup Children(r, View(db, ins[p], del[p]))
           u == [t EXCEPT !.todo = x]
           h == held[p] \cup {<<r, "exclusive">>}
           i == ins[p] \ {r}
           e == del[p] \cup ({r} \cap db)
<1>0. /\ CanTake(p, r) /\ t.stage \in Deletes
      /\ del' = [del EXCEPT ![p] = e]
      /\ ins' = [ins EXCEPT ![p] = i]
      /\ UNCHANGED <<db, known, saved, begun>>
  BY DEF DeleteRow
<1>1. t # NoTx /\ r \in t.todo
  BY <1>0 DEF CanTake, Running, Ready
<1>2. /\ db \in SUBSET Rows /\ held[p] \in SUBSET (Rows \X Modes) /\ ins[p] \in SUBSET Rows
      /\ del[p] \in SUBSET Rows /\ Good(db, t, held[p], ins[p], del[p]) /\ Resolved(db)
  BY DEF StoreInv, StoreTypes
<1>3. Children(r, View(db, ins[p], del[p])) \in SUBSET Rows
  BY <1>2, ChildrenAre DEF View
<1>4. t \in Tx /\ x \in SUBSET Rows
  BY <1>1, <1>2, <1>3 DEF Good, Shape, Tx
<1>5. SameBut(u, t) /\ u.todo = x
  BY <1>4, TodoOf
<1>6. tx' = [tx EXCEPT ![p] = u] /\ held' = [held EXCEPT ![p] = h]
  <2>1. Take(p, r, "exclusive", Children(r, View(db, ins[p], del[p])))
    BY ViewIsVisible DEF DeleteRow
  <2> QED
    BY <2>1, Zenon DEF Take
<1> HIDE DEF u
<1>7. Good(db, u, h, i, e)
  BY <1>0, <1>1, <1>2, <1>5, DeleteGood
<1>8. h \in SUBSET (Rows \X Modes) /\ i \in SUBSET Rows /\ e \in SUBSET Rows /\ u \in Tx
  BY <1>2, <1>5 DEF SameBut, Modes
<1>9. \A q \in Procs \ {p} : Apart(h, held[q])
  <2>1. "exclusive" = Wanted(p, r) /\ t.stage # "insert"
    BY <1>0 DEF Wanted, Deletes, Scans, KeyChecks, Upserts
  <2> QED
    BY <1>0, <2>1, FreeOfClash
<1> HIDE DEF h, i, e
<1>10. StoreTypes'
  BY <1>0, <1>6, <1>8 DEF StoreInv, StoreTypes
<1>11. db' = db /\ tx'[p] = u /\ held'[p] = h /\ ins'[p] = i /\ del'[p] = e
  BY <1>0, <1>6 DEF StoreInv, StoreTypes
<1>12. \A q \in Procs \ {p} :
        tx'[q] = tx[q] /\ held'[q] = held[q] /\ ins'[q] = ins[q] /\ del'[q] = del[q]
  BY <1>0, <1>6 DEF StoreInv, StoreTypes
<1>13. Good(db, tx'[p], held'[p], ins'[p], del'[p])
  BY <1>7, <1>11, Zenon
<1>14. \A q \in Procs \ {p} : Apart(held'[p], held[q])
  BY <1>9, <1>11, Zenon
<1> QED
  BY <1>10, <1>11, <1>12, <1>13, <1>14, OneMoves

-----------------------------------------------------------------------------
\* A transaction that has skipped rows is a transaction.
LEMMA SkipIn ==
  ASSUME NEW t \in Tx \cup {NoTx}, NEW f \in SUBSET Rows
  PROVE  Skip(t, f) \in Tx \cup {NoTx}
<1>1. CASE t # NoTx /\ t.stage \in Scans
  <2>1. t \in Tx
    BY <1>1
  <2>2. t.todo \ f \in SUBSET Rows
    BY <2>1 DEF Tx
  <2>3. Skip(t, f) = [t EXCEPT !.todo = t.todo \ f]
    BY <1>1 DEF Skip
  <2> QED
    BY <2>1, <2>2, <2>3, TodoOf DEF SameBut
<1>2. CASE ~(t # NoTx /\ t.stage \in Scans)
  BY <1>2 DEF Skip
<1> QED
  BY <1>1, <1>2

\* A commit changes what the others see, and keeps what each of them has locked.
LEMMA CommitStep ==
  ASSUME StoreInv, NEW p \in Procs, Commit(p)
  PROVE  StoreInv'
<1> DEFINE t == tx[p]
<1>0. /\ t # NoTx /\ t.stage = "commit" /\ db' = Visible(p) /\ Idle(p)
      /\ tx' = [q \in Procs |-> IF q = p THEN NoTx ELSE Skip(tx[q], del[p])]
      /\ known' = known \cup {i \in Items : ItemRow(i) \in ins[p]}
      /\ begun' = begun
  BY DEF Commit, Running
<1>1. /\ db \in SUBSET Rows /\ tx \in [Procs -> Tx \cup {NoTx}]
      /\ held \in [Procs -> SUBSET (Rows \X Modes)]
      /\ ins \in [Procs -> SUBSET Rows] /\ del \in [Procs -> SUBSET Rows]
      /\ saved \in [Items -> SUBSET Tags]
      /\ Resolved(db)
  BY DEF StoreInv, StoreTypes
<1>2. /\ Shape(t) /\ Aims(db, t) /\ Locks(db, held[p], ins[p], del[p])
      /\ Points(db, t, held[p], ins[p], del[p]) /\ Cascades(db, t, del[p])
  <2>1. Good(db, t, held[p], ins[p], del[p])
    BY DEF StoreInv
  <2> QED
    BY <1>0, <2>1 DEF Good
<1>3. db' = View(db, ins[p], del[p]) /\ db' \in SUBSET Rows
  BY <1>0, <1>1 DEF View, Visible
<1>4. Settled(db, held[p], ins[p], del[p])
  BY <1>0, <1>2 DEF Points, Pending, Settled, KeyChecks
<1>5. Cascaded(db, del[p])
  BY <1>0, <1>2 DEF Cascades, Aims, Cascaded
<1>6. Resolved(db)'
  <2>1. Resolved(View(db, ins[p], del[p]))
    BY <1>1, <1>4, <1>5, CommitResolves
  <2> QED
    BY <1>3, <2>1 DEF Resolved
<1>7. /\ tx'[p] = NoTx /\ held'[p] = {} /\ ins'[p] = {} /\ del'[p] = {}
      /\ \A q \in Procs \ {p} : /\ tx'[q] = Skip(tx[q], del[p]) /\ held'[q] = held[q]
                                /\ ins'[q] = ins[q] /\ del'[q] = del[q]
  BY <1>0, <1>1 DEF Idle
<1>8. StoreTypes'
  <2>1. \A q \in Procs : Skip(tx[q], del[p]) \in Tx \cup {NoTx}
    BY <1>1, SkipIn
  <2>2. tx' \in [Procs -> Tx \cup {NoTx}]
    BY <1>0, <2>1
  <2>3. held' \in [Procs -> SUBSET (Rows \X Modes)] /\ ins' \in [Procs -> SUBSET Rows]
        /\ del' \in [Procs -> SUBSET Rows]
    BY <1>0, <1>1 DEF Idle
  <2>4. saved' \in [Items -> SUBSET Tags]
    <3>1. t.tags \in Seq(Tags) /\ t.item \in Items
      BY <1>2 DEF Shape, Tx
    <3>2. Range(t.tags) \in SUBSET Tags
      BY <3>1 DEF Range
    <3>3. saved' = saved \/ saved' = [saved EXCEPT ![t.item] = Range(t.tags)]
      BY DEF Commit
    <3> QED
      BY <1>1, <3>1, <3>2, <3>3
  <2>5. known' \in SUBSET Items /\ begun' \in 0 .. MaxOps
    BY <1>0 DEF StoreInv, StoreTypes
  <2> QED
    BY <1>3, <2>2, <2>3, <2>4, <2>5 DEF StoreTypes
<1>9. \A q \in Procs : Good(db', tx'[q], held'[q], ins'[q], del'[q])
  <2> TAKE q \in Procs
  <2>1. CASE q = p
    BY <1>7, <2>1 DEF Good
  <2>2. CASE q # p
    <3>1. Good(db, tx[q], held[q], ins[q], del[q]) /\ Apart(held[q], held[p])
      BY <2>2 DEF StoreInv
    <3>2. Good(View(db, ins[p], del[p]), Skip(tx[q], del[p]), held[q], ins[q], del[q])
      BY <1>1, <1>2, <1>4, <1>5, <3>1, OtherCommitGood
    <3> QED
      BY <1>3, <1>7, <2>2, <3>2, Zenon
  <2> QED
    BY <2>1, <2>2
<1>10. \A q \in Procs : \A o \in Procs \ {q} : Apart(held'[q], held'[o])
  <2> TAKE q \in Procs
  <2> TAKE o \in Procs \ {q}
  <2>1. CASE q = p \/ o = p
    BY <1>7, <2>1 DEF Apart
  <2>2. CASE q # p /\ o # p
    BY <1>7, <2>2 DEF StoreInv
  <2> QED
    BY <2>1, <2>2
<1> QED
  BY <1>6, <1>8, <1>9, <1>10 DEF StoreInv

\* Every step keeps the invariant.
LEMMA StoreStepInv ==
  ASSUME StoreInv, [Next]_vars
  PROVE  StoreInv'
<1>1. CASE Next
  <2>1. PICK p \in Procs : (\E op \in Ops : Begin(p, op)) \/ Work(p) \/ Cancel(p) \/ RowsErr(p)
    BY <1>1 DEF Next
  <2>2. CASE \E op \in Ops : Begin(p, op)
    BY <2>2, BeginStep
  <2>3. CASE Cancel(p) \/ Missing(p) \/ DeadlockAbort(p)
    BY <2>3, RollbackStep DEF Cancel, Missing, DeadlockAbort
  <2>4. CASE RowsErr(p)
    BY <2>4, RowsErrStep
  <2>5. CASE Advance(p)
    BY <2>5, AdvanceStep
  <2>6. CASE Commit(p)
    BY <2>6, CommitStep
  <2>7. ASSUME NEW r \in Rows, DeleteRow(p, r)
        PROVE  StoreInv'
    BY <2>7, DeleteStep
  <2>8. ASSUME NEW r \in Rows, UpdateItem(p, r) \/ LockRow(p, r) \/ CheckKey(p, r)
        PROVE  StoreInv'
    BY <2>8, ScanStep
  <2>9. ASSUME NEW r \in Rows, SkipLocked(p, r)
        PROVE  StoreInv'
    <3>1. /\ tx[p] # NoTx /\ r \in tx[p].todo /\ tx[p].stage \in {"pick", "insert", "link"}
          /\ tx' = [tx EXCEPT ![p] = [tx[p] EXCEPT !.todo = @ \ {r}]]
          /\ UNCHANGED <<db, held, ins, del, known, saved, begun>>
      BY <2>9, Zenon DEF SkipLocked, Running
    <3> QED
      BY <3>1, PassStep
  <2>10. ASSUME NEW r \in Rows, InsertRow(p, r)
         PROVE  StoreInv'
    BY <2>10, InsertStep
  <2>11. ASSUME NEW r \in Rows, KeyMissing(p, r)
         PROVE  StoreInv'
    BY <2>11, RollbackStep DEF KeyMissing
  <2> QED
    BY <2>1, <2>2, <2>3, <2>4, <2>5, <2>6, <2>7, <2>8, <2>9, <2>10, <2>11 DEF Work
<1>2. CASE UNCHANGED vars
  BY <1>2 DEF vars, StoreInv, StoreTypes, Resolved
<1> QED
  BY <1>1, <1>2

\* So it always holds.
LEMMA StoreInvariant == Spec => []StoreInv
  BY StoreInitInv, StoreStepInv, PTL DEF Spec

\* The tables and the transactions keep their shapes, whatever stage each
\* transaction is at.
THEOREM StoreTypeCorrect == Spec => []TypeOK
<1>1. StoreInv => TypeOK
  BY DEF StoreInv, StoreTypes, Good, Shape, TypeOK
<1> QED
  BY <1>1, StoreInvariant, PTL

\* No link and no content is left without its item or tag, for any number of
\* connections, items, tags and requests, in any order of their statements.
THEOREM RowsAlwaysResolve == Spec => []RowsResolve
<1>1. StoreInv => RowsResolve
  BY ResolvedRows DEF StoreInv, StoreTypes
<1> QED
  BY <1>1, StoreInvariant, PTL

\* A transaction that is abandoned without a rollback holds no row.
THEOREM AbandonedHoldNothing == Spec => []LeakedHoldsNothing
<1>1. StoreInv => LeakedHoldsNothing
  BY DEF StoreInv, Good, Finds, LeakedHoldsNothing
<1> QED
  BY <1>1, StoreInvariant, PTL

-----------------------------------------------------------------------------
(***************************************************************************)
(* With one editor at a time, items keep the tags they were saved with and *)
(* no tag is left without an item.                                         *)
(***************************************************************************)

\* At most one connection serves requests.
OneEditor == \A p \in Procs \ Workers : \A q \in Procs \ Workers : p = q

\* In what follows v is what a transaction sees: the tags of an item, and those
\* that no item has.
Linked(j, v) == {g \in Tags : LinkRow(j, g) \in v}
Bare(v) == {g \in Tags : TagRow(g) \in v /\ \A j \in Items : LinkRow(j, g) \notin v}

\* A save that has its item writes tags.
Tagging(t, i) ==
    \/ t.kind = "create" /\ ItemRow(t.item) \in i
    \/ t.kind = "replace" /\ t.stage \notin {"check", "unlink"}

\* The editor touches its item, the links of its item, and tags.
Owns(t, i, e) ==
    /\ \A j \in Items : \A g \in Tags : LinkRow(j, g) \in i \cup e => j = t.item
    /\ \A j \in Items : ItemRow(j) \in i \cup e => j = t.item
    /\ t.stage \in {"contents", "unlink", "item"} =>
        \A r \in t.todo : r = ItemRow(t.item) \/ IsParent(ItemRow(t.item), r)

\* CreateItem writes tags only for an item that is new.
Creates(d, t, i) ==
    t.kind = "create" =>
        /\ ItemRow(t.item) \notin d
        /\ ItemRow(t.item) \notin i => i = {} /\ t.stage \in {"insert", "select", "commit"}
        /\ t.stage = "select" => ItemRow(t.item) \notin i

\* The tags linked so far and those still to link are the tags asked for.
Linking(t, i, v) ==
    /\ t.stage \in {"insert", "check", "contents", "unlink"} => t.rest = t.tags
    /\ t.kind = "replace" /\ t.stage = "unlink" =>
        \A g \in Linked(t.item, v) : LinkRow(t.item, g) \in t.todo
    /\ t.stage = "tag" => t.todo \subseteq {TagRow(Head(t.rest))}
    /\ Tagging(t, i) => Linked(t.item, v) \cup Range(t.rest) = Range(t.tags)
    /\ Tagging(t, i) /\ t.stage \in {"sweep", "commit"} => t.rest = <<>>
    /\ t.stage \in {"linkitem", "linktag"} => Head(t.rest) \in Linked(t.item, v)
    /\ t.stage = "link" /\ t.todo = {} => Head(t.rest) \in Linked(t.item, v)

\* No tag is left without a link when the transaction commits.
Sweeping(t, e, v) ==
    /\ t.stage = "sweep" => t.todo = {TagRow(g) : g \in Bare(v)}
    /\ t.kind \in {"replace", "delete"} /\ t.stage = "commit" => Bare(v) = {}
    /\ t.kind = "create" => \A g \in Bare(v) : t.stage \in {"tag", "link"} /\ g = Head(t.rest)
    /\ t.kind = "delete" /\ t.stage \in {"sweep", "commit"} => ItemRow(t.item) \in e

Saving(d, t, i, e) ==
    /\ Owns(t, i, e)
    /\ Creates(d, t, i)
    /\ Linking(t, i, View(d, i, e))
    /\ Sweeping(t, e, View(d, i, e))

Kept(d, t, i, e, worker) ==
    t # NoTx =>
        IF worker THEN t.kind \in {"fetch", "claim"} /\ i \subseteq ContentRows /\ e = {}
        ELSE t.kind \in {"create", "replace", "delete"} /\ Saving(d, t, i, e)

EditorInv ==
    /\ \A p \in Procs : Kept(db, tx[p], ins[p], del[p], p \in Workers)
    /\ \A i \in Items : ItemRow(i) \in db => i \in known /\ Linked(i, db) = saved[i]
    /\ Bare(db) = {}

\* The tags of a request, one taken off.
LEMMA HeadAndTail ==
  ASSUME NEW s \in Seq(Tags), s # <<>>
  PROVE  Range(s) = {Head(s)} \cup Range(Tail(s)) /\ Head(s) \in Tags /\ Tail(s) \in Seq(Tags)
<1>1. Len(s) \in Nat /\ Len(s) >= 1 /\ DOMAIN s = 1 .. Len(s)
  BY DEF Range
<1>2. /\ Tail(s) \in Seq(Tags) /\ Len(Tail(s)) = Len(s) - 1 /\ Head(s) = s[1] /\ Head(s) \in Tags
      /\ \A n \in 1 .. Len(s) - 1 : Tail(s)[n] = s[n + 1]
  OBVIOUS
<1>3. DOMAIN Tail(s) = 1 .. Len(s) - 1
  BY <1>1, <1>2
<1>4. ASSUME NEW g \in Range(s)
      PROVE  g \in {Head(s)} \cup Range(Tail(s))
  <2>1. PICK n \in 1 .. Len(s) : g = s[n]
    BY <1>1 DEF Range
  <2>2. CASE n = 1
    BY <1>2, <2>1, <2>2
  <2>3. CASE n # 1
    <3>1. n - 1 \in 1 .. Len(s) - 1 /\ (n - 1) + 1 = n
      BY <1>1, <2>3
    <3>2. Tail(s)[n - 1] = g
      BY <1>2, <2>1, <3>1
    <3> QED
      BY <1>3, <3>1, <3>2 DEF Range
  <2> QED
    BY <2>2, <2>3
<1>5. ASSUME NEW g \in {Head(s)} \cup Range(Tail(s))
      PROVE  g \in Range(s)
  <2>1. CASE g = Head(s)
    BY <1>1, <1>2, <2>1 DEF Range
  <2>2. CASE g \in Range(Tail(s))
    <3>1. PICK n \in 1 .. Len(s) - 1 : g = Tail(s)[n]
      BY <1>3, <2>2 DEF Range
    <3>2. n + 1 \in 1 .. Len(s) /\ g = s[n + 1]
      BY <1>1, <1>2, <3>1
    <3> QED
      BY <1>1, <3>2 DEF Range
  <2> QED
    BY <2>1, <2>2
<1> QED
  BY <1>2, <1>4, <1>5

\* Rows are told apart by their table and their key.
LEMMA KeysTell ==
  /\ \A i, j \in Items : ItemRow(i) = ItemRow(j) <=> i = j
  /\ \A g, k \in Tags : TagRow(g) = TagRow(k) <=> g = k
  /\ \A i, j \in Items : \A g, k \in Tags : LinkRow(i, g) = LinkRow(j, k) <=> i = j /\ g = k
  /\ \A i, j \in Items : \A g \in Tags : LinkRow(i, g) # ItemRow(j)
  /\ \A i \in Items : \A g, k \in Tags : LinkRow(i, g) # TagRow(k)
  /\ \A i \in Items : \A g \in Tags : ItemRow(i) # TagRow(g)
  BY DEF LinkRow, ItemRow, TagRow

\* The links of an item, by their tags.
LEMMA LinksByTag ==
  ASSUME NEW v \in SUBSET Rows, NEW j \in Items
  PROVE  LinksOf(j, v) = {LinkRow(j, g) : g \in Linked(j, v)} /\ TagsOf(j, v) = Linked(j, v)
<1>1. LinksOf(j, v) = {LinkRow(j, g) : g \in Linked(j, v)}
  <2>1. ASSUME NEW r \in LinksOf(j, v)
        PROVE  r \in {LinkRow(j, g) : g \in Linked(j, v)}
    <3>1. r \in v /\ r \in LinkRows /\ r[2] = j
      BY DEF LinksOf
    <3>2. PICK k \in Items, g \in Tags : r = LinkRow(k, g)
      BY <3>1 DEF LinkRows
    <3> QED
      BY <3>1, <3>2, LinkHas DEF Linked
  <2>2. ASSUME NEW g \in Linked(j, v)
        PROVE  LinkRow(j, g) \in LinksOf(j, v)
    <3>1. g \in Tags /\ LinkRow(j, g) \in v
      BY DEF Linked
    <3> QED
      BY <3>1, LinkHas, RowsAreRows DEF LinksOf
  <2> QED
    BY <2>1, <2>2
<1>2. \A g \in Linked(j, v) : LinkRow(j, g)[3] = g
  BY LinkHas DEF Linked
<1>3. TagsOf(j, v) = {r[3] : r \in {LinkRow(j, g) : g \in Linked(j, v)}}
  BY <1>1 DEF TagsOf
<1> QED
  BY <1>1, <1>2, <1>3

\* The links to a tag, by their items.
LEMMA LinksToNone ==
  ASSUME NEW v, NEW g \in Tags
  PROVE  LinksTo(g, v) = {} <=> \A j \in Items : LinkRow(j, g) \notin v
<1>1. ASSUME NEW r \in LinksTo(g, v)
      PROVE  \E j \in Items : LinkRow(j, g) \in v
  <2>1. r \in v /\ r \in LinkRows /\ r[3] = g
    BY DEF LinksTo
  <2>2. PICK k \in Items, h \in Tags : r = LinkRow(k, h)
    BY <2>1 DEF LinkRows
  <2> QED
    BY <2>1, <2>2, LinkHas
<1>2. ASSUME NEW j \in Items, LinkRow(j, g) \in v
      PROVE  LinkRow(j, g) \in LinksTo(g, v)
  BY <1>2, LinkHas, RowsAreRows DEF LinksTo
<1> QED
  BY <1>1, <1>2

\* What the sweep finds.
LEMMA SweepFinds ==
  ASSUME NEW v
  PROVE  Unlinked(v) = {TagRow(g) : g \in Bare(v)}
<1>1. ASSUME NEW r \in Unlinked(v)
      PROVE  r \in {TagRow(g) : g \in Bare(v)}
  <2>1. r \in v /\ r \in TagRows /\ LinksTo(r[2], v) = {}
    BY DEF Unlinked
  <2>2. PICK g \in Tags : r = TagRow(g)
    BY <2>1 DEF TagRows
  <2>3. LinksTo(g, v) = {}
    BY <2>1, <2>2, TagHas
  <2> QED
    BY <2>1, <2>2, <2>3, LinksToNone DEF Bare
<1>2. ASSUME NEW g \in Bare(v)
      PROVE  TagRow(g) \in Unlinked(v)
  <2>1. g \in Tags /\ TagRow(g) \in v /\ LinksTo(g, v) = {}
    BY LinksToNone DEF Bare
  <2> QED
    BY <2>1, TagHas, RowsAreRows DEF Unlinked
<1> QED
  BY <1>1, <1>2

-----------------------------------------------------------------------------
\* A statement of the editor passes a row, or locks the row a link points to.
LEMMA EditorPasses ==
  ASSUME NEW d \in SUBSET Rows, NEW t, NEW u, NEW i \in SUBSET Rows, NEW e \in SUBSET Rows,
         Saving(d, t, i, e), SameBut(u, t), u.todo \subseteq t.todo,
         t.stage \notin {"contents", "unlink", "item", "sweep"},
         t.stage = "link" => Head(t.rest) \in Linked(t.item, View(d, i, e))
  PROVE  Saving(d, u, i, e)
<1>1. Owns(u, i, e)
  BY DEF Saving, Owns, SameBut
<1>2. Creates(d, u, i)
  BY DEF Saving, Creates, SameBut
<1>3. Linking(u, i, View(d, i, e))
  BY DEF Saving, Linking, SameBut, Tagging
<1>4. Sweeping(u, e, View(d, i, e))
  BY DEF Saving, Sweeping, SameBut
<1> QED
  BY <1>1, <1>2, <1>3, <1>4 DEF Saving

\* A new item: what refers to an item that is not there is not there either.
LEMMA EditorInsertsItem ==
  ASSUME NEW d \in SUBSET Rows, NEW t, NEW u, NEW i \in SUBSET Rows, NEW e \in SUBSET Rows, NEW r,
         Saving(d, t, i, e), SameBut(u, t), u.todo \subseteq t.todo, Resolved(d), Shape(t),
         t.stage = "insert", r = ItemRow(t.item)
  PROVE  Saving(d, u, i \cup {r}, e)
<1> DEFINE v == View(d, i, e)
           w == View(d, i \cup {r}, e)
<1>0. /\ t.item \in Items /\ w = v \cup {r} /\ u.kind = t.kind /\ u.item = t.item
      /\ u.stage = t.stage /\ u.rest = t.rest /\ u.tags = t.tags
      /\ t.kind = "create"
  <2>1. t.kind = "create"
    BY KindOf
  <2>2. w = v \cup {r}
    BY DEF View
  <2> QED
    BY <2>1, <2>2 DEF Shape, Tx, SameBut
<1> HIDE DEF w, v
<1>1. Linked(t.item, w) = Linked(t.item, v) /\ Bare(w) = Bare(v)
  BY <1>0, KeysTell DEF Linked, Bare
<1>2. Linked(t.item, v) \cup Range(t.rest) = Range(t.tags)
  <2>1. CASE ItemRow(t.item) \in i
    BY <1>0, <2>1 DEF Saving, Linking, Tagging, v
  <2>2. CASE ItemRow(t.item) \notin i
    <3>1. i = {} /\ ItemRow(t.item) \notin d /\ t.rest = t.tags
      BY <1>0, <2>2 DEF Saving, Creates, Linking
    <3>2. \A g \in Tags : LinkRow(t.item, g) \notin d
      BY <1>0, <3>1, LinkParent, RowsAreRows DEF Resolved, ParentRows
    <3>3. Linked(t.item, v) = {}
      BY <3>1, <3>2 DEF Linked, View, v
    <3> QED
      BY <3>1, <3>3
  <2> QED
    BY <2>1, <2>2
<1>3. Owns(u, i \cup {r}, e)
  BY <1>0, KeysTell DEF Saving, Owns
<1>4. Creates(d, u, i \cup {r})
  BY <1>0 DEF Saving, Creates
<1>5. Linking(u, i \cup {r}, w)
  BY <1>0, <1>2, <1>1 DEF Linking, Saving, v
<1>6. Sweeping(u, e, w)
  BY <1>0, <1>1 DEF Saving, Sweeping, v
<1> QED
  BY <1>3, <1>4, <1>5, <1>6 DEF Saving, w

\* A tag of the request, which the next statement links.
LEMMA EditorInsertsTag ==
  ASSUME NEW d \in SUBSET Rows, NEW t, NEW u, NEW i \in SUBSET Rows, NEW e \in SUBSET Rows, NEW r,
         Saving(d, t, i, e), SameBut(u, t), u.todo \subseteq t.todo, Shape(t),
         t.stage = "tag", r = TagRow(Head(t.rest))
  PROVE  Saving(d, u, i \cup {r}, e)
<1> DEFINE v == View(d, i, e)
           w == View(d, i \cup {r}, e)
           h == Head(t.rest)
<1>0. /\ t.item \in Items /\ w = v \cup {r} /\ u.kind = t.kind /\ u.item = t.item
      /\ u.stage = t.stage /\ u.rest = t.rest /\ u.tags = t.tags /\ h \in Tags
      /\ t.kind \in {"create", "replace"} /\ r = TagRow(h)
  <2>1. t \in Tx /\ t.stage \in StagesOf[t.kind] /\ t.rest \in Seq(Tags) /\ t.rest # <<>>
    BY DEF Shape, Tx, Writing
  <2>2. t.kind \in {"create", "replace"}
    BY <2>1 DEF Tx, Kinds, StagesOf
  <2>3. w = v \cup {r}
    BY DEF View
  <2>4. h \in Tags
    BY <2>1, HeadAndTail
  <2> HIDE DEF h, w, v
  <2> QED
    BY <2>1, <2>2, <2>3, <2>4 DEF Tx, SameBut, h
<1> HIDE DEF h, w, v
<1>1. Linked(t.item, w) = Linked(t.item, v) /\ Bare(w) \subseteq Bare(v) \cup {h}
  BY <1>0, KeysTell DEF Linked, Bare
<1>2. ItemRow(t.item) \in i \cup {r} <=> ItemRow(t.item) \in i
  BY <1>0, KeysTell
<1>3. Owns(u, i \cup {r}, e)
  BY <1>0, KeysTell DEF Saving, Owns
<1>4. Creates(d, u, i \cup {r})
  BY <1>0, <1>2 DEF Saving, Creates
<1>5. Linking(u, i \cup {r}, w)
  BY <1>0, <1>1, <1>2 DEF Linking, Saving, Tagging, h, v
<1>6. Sweeping(u, e, w)
  BY <1>0, <1>1 DEF Saving, Sweeping, h, v
<1> QED
  BY <1>3, <1>4, <1>5, <1>6 DEF Saving, w

\* A link to that tag.
LEMMA EditorInsertsLink ==
  ASSUME NEW d \in SUBSET Rows, NEW t, NEW u, NEW i \in SUBSET Rows, NEW e \in SUBSET Rows, NEW r,
         Saving(d, t, i, e), SameBut(u, t), u.todo \subseteq t.todo, Shape(t),
         t.stage = "link", r = LinkRow(t.item, Head(t.rest))
  PROVE  Saving(d, u, i \cup {r}, e)
<1> DEFINE v == View(d, i, e)
           w == View(d, i \cup {r}, e)
           h == Head(t.rest)
<1>0. /\ t.item \in Items /\ w = v \cup {r} /\ u.kind = t.kind /\ u.item = t.item
      /\ u.stage = t.stage /\ u.rest = t.rest /\ u.tags = t.tags /\ h \in Tags
      /\ t.kind \in {"create", "replace"} /\ r = LinkRow(t.item, h) /\ h \in Range(t.rest)
  <2>1. t \in Tx /\ t.stage \in StagesOf[t.kind] /\ t.rest \in Seq(Tags) /\ t.rest # <<>>
    BY DEF Shape, Tx, Writing
  <2>2. t.kind \in {"create", "replace"}
    BY <2>1 DEF Tx, Kinds, StagesOf
  <2>3. w = v \cup {r}
    BY DEF View
  <2>4. h \in Tags /\ h \in Range(t.rest)
    BY <2>1, HeadAndTail
  <2> HIDE DEF h, w, v
  <2> QED
    BY <2>1, <2>2, <2>3, <2>4 DEF Tx, SameBut, h
<1> HIDE DEF h, w, v
<1>1. Linked(t.item, w) = Linked(t.item, v) \cup {h} /\ Bare(w) \subseteq Bare(v)
  BY <1>0, KeysTell DEF Linked, Bare
<1>2. ItemRow(t.item) \in i \cup {r} <=> ItemRow(t.item) \in i
  BY <1>0, KeysTell
<1>3. Owns(u, i \cup {r}, e)
  BY <1>0, KeysTell DEF Saving, Owns
<1>4. Creates(d, u, i \cup {r})
  BY <1>0, <1>2 DEF Saving, Creates
<1>5. Linking(u, i \cup {r}, w)
  BY <1>0, <1>1, <1>2 DEF Linking, Saving, Tagging, h, v
<1>6. Sweeping(u, e, w)
  BY <1>0, <1>1 DEF Saving, Sweeping, v
<1> QED
  BY <1>3, <1>4, <1>5, <1>6 DEF Saving, w

\* A DELETE of the editor takes a row of its item, or a tag that no item has.
LEMMA EditorDeletes ==
  ASSUME NEW d \in SUBSET Rows, NEW t, NEW u, NEW i \in SUBSET Rows, NEW e \in SUBSET Rows, NEW r \in Rows,
         Saving(d, t, i, e), SameBut(u, t), Shape(t), Aims(d, t),
         t.stage \in Deletes, r \in t.todo,
         u.todo = (t.todo \ {r}) \cup Children(r, View(d, i, e))
  PROVE  Saving(d, u, i \ {r}, e \cup ({r} \cap d))
<1> DEFINE v == View(d, i, e)
           j == i \ {r}
           f == e \cup ({r} \cap d)
           w == View(d, j, f)
<1>0. /\ t.item \in Items /\ u.kind = t.kind /\ u.item = t.item
      /\ u.stage = t.stage /\ u.rest = t.rest /\ u.tags = t.tags
      /\ t.stage \in {"contents", "unlink", "item", "sweep"}
      /\ t.kind \in {"replace", "delete"}
      /\ t.kind = "replace" => t.stage \in {"unlink", "sweep"}
  BY KindOf DEF Shape, Tx, SameBut, Deletes, Scans
<1>1. w = v \ {r} /\ v \in SUBSET Rows
  BY DEF View
<1>2. /\ j \cup f \subseteq i \cup e \cup {r} /\ e \subseteq f
      /\ u.todo = (t.todo \ {r}) \cup {c \in v : IsParent(r, c)}
  BY <1>1, ChildrenAre
<1>3. /\ Owns(t, i, e) /\ Linking(t, i, v) /\ Sweeping(t, e, v)
  BY DEF Saving
<1> HIDE DEF v, w, j, f
<1>4. Creates(d, u, j)
  BY <1>0 DEF Creates
<1>5. CASE t.stage \in {"contents", "unlink", "item"}
  <2>1. r = ItemRow(t.item) \/ IsParent(ItemRow(t.item), r)
    BY <1>3, <1>5 DEF Owns
  <2>2. \A k \in Items : r = ItemRow(k) => k = t.item
    BY <1>0, <2>1, KeysTell, ParentIs, RowsAreRows, RowsDiffer DEF ParentRows
  <2>3. \A k \in Items : \A g \in Tags : r = LinkRow(k, g) => k = t.item
    BY <1>0, <2>1, KeysTell, LinkParent
  <2>4. \A c \in {x \in v : IsParent(r, x)} : IsParent(ItemRow(t.item), c)
    BY <1>0, <2>1, ParentIs, RowsDiffer
  <2>5. Owns(u, j, f)
    BY <1>0, <1>2, <1>3, <1>5, <2>2, <2>3, <2>4 DEF Owns
  <2>6. Linking(u, j, w)
    <3>1. Linked(t.item, w) \subseteq Linked(t.item, v)
      BY <1>1 DEF Linked
    <3>2. ASSUME t.kind = "replace", t.stage = "unlink", NEW g \in Linked(t.item, w)
          PROVE  LinkRow(t.item, g) \in u.todo
      <4>1. LinkRow(t.item, g) \in t.todo
        BY <1>3, <3>1, <3>2 DEF Linking
      <4>2. LinkRow(t.item, g) # r
        BY <1>1, <3>2 DEF Linked
      <4> QED
        BY <1>2, <4>1, <4>2
    <3> QED
      BY <1>0, <1>3, <1>5, <3>2 DEF Linking, Tagging
  <2>7. Sweeping(u, f, w)
    BY <1>0, <1>5 DEF Sweeping
  <2> QED
    BY <1>4, <2>5, <2>6, <2>7 DEF Saving, j, f, w
<1>6. CASE t.stage = "sweep"
  <2>1. PICK g \in Bare(v) : r = TagRow(g)
    BY <1>3, <1>6 DEF Sweeping
  <2>2. g \in Tags /\ \A k \in Items : LinkRow(k, g) \notin v
    BY DEF Bare
  <2>3. {c \in v : IsParent(r, c)} = {}
    <3> SUFFICES ASSUME NEW c \in v, IsParent(r, c)
                 PROVE  FALSE
      OBVIOUS
    <3>1. PICK k \in Tags, l \in Items : r = TagRow(k) /\ c = LinkRow(l, k)
      BY <2>1, <2>2, KeysTell DEF IsParent
    <3>2. k = g
      BY <2>1, <2>2, <3>1, KeysTell
    <3> QED
      BY <2>2, <3>1, <3>2
  <2>4. \A k \in Items : r # ItemRow(k)
    BY <2>1, <2>2, KeysTell
  <2>5. \A k \in Items : \A h \in Tags : r # LinkRow(k, h)
    BY <2>1, <2>2, KeysTell
  <2>6. Owns(u, j, f)
    BY <1>0, <1>2, <1>3, <1>6, <2>4, <2>5 DEF Owns
  <2>7. Linked(t.item, w) = Linked(t.item, v)
    BY <1>0, <1>1, <2>5 DEF Linked
  <2>8. Linking(u, j, w)
    BY <1>0, <1>3, <1>6, <2>7 DEF Linking, Tagging
  <2>9. Bare(w) = Bare(v) \ {g}
    BY <1>1, <2>1, <2>2, <2>5, KeysTell DEF Bare
  <2>10. u.todo = {TagRow(h) : h \in Bare(w)}
    <3>1. t.todo = {TagRow(h) : h \in Bare(v)} /\ u.todo = t.todo \ {r}
      BY <1>2, <1>3, <1>6, <2>3 DEF Sweeping
    <3>2. Bare(v) \subseteq Tags
      BY DEF Bare
    <3> QED
      BY <2>1, <2>2, <2>9, <3>1, <3>2, KeysTell
  <2>11. Sweeping(u, f, w)
    BY <1>0, <1>2, <1>3, <1>6, <2>10 DEF Sweeping
  <2> QED
    BY <1>4, <2>6, <2>8, <2>11 DEF Saving, j, f, w
<1> QED
  BY <1>0, <1>5, <1>6 DEF j, f

\* A request of the editor begins.
LEMMA EditorBegins ==
  ASSUME NEW d \in SUBSET Rows, NEW u \in Tx, u.kind \in {"create", "replace", "delete"},
         u.rest = u.tags, u.stage = FirstStage[u.kind], u.todo = Targets(u, u.stage, d),
         u.kind = "create" => ItemRow(u.item) \notin d, Bare(d) = {}
  PROVE  Saving(d, u, {}, {})
<1>0. /\ u.item \in Items /\ u.stage \in {"insert", "check", "contents"} /\ View(d, {}, {}) = d
      /\ u.kind = "create" <=> u.stage = "insert"
      /\ u.kind = "replace" <=> u.stage = "check"
  BY DEF FirstStage, Tx, View
<1>1. Owns(u, {}, {})
  <2>1. u.stage = "contents" => u.todo \subseteq {ContentRow(u.item)}
    BY DEF Targets
  <2> QED
    BY <1>0, <2>1, ContentParent DEF Owns
<1>2. Creates(d, u, {})
  BY <1>0 DEF Creates
<1>3. Linking(u, {}, d)
  BY <1>0 DEF Linking, Tagging
<1>4. Sweeping(u, {}, d)
  BY <1>0 DEF Sweeping
<1> QED
  BY <1>0, <1>1, <1>2, <1>3, <1>4 DEF Saving

-----------------------------------------------------------------------------
\* The next statement of the editor: u is the transaction that t becomes.
LEMMA EditorEnters ==
  ASSUME NEW d \in SUBSET Rows, NEW p \in Procs, NEW t, t = tx[p], NEW i \in SUBSET Rows, i = ins[p],
         NEW e \in SUBSET Rows, e = del[p], NEW u \in Tx,
         Shape(t), Saving(d, t, i, e), t.kind \in {"create", "replace", "delete"},
         t.stage \notin {"commit", "leaked"}, t.todo = {},
         u.kind = t.kind, u.item = t.item, u.tags = t.tags, u.own = t.own,
         u.stage = NextStage(p), u.rest = RestAfter(t, u.stage), u.todo = Targets(u, u.stage, View(d, i, e))
  PROVE  Saving(d, u, i, e)
<1> DEFINE v == View(d, i, e)
           L == Linked(t.item, v)
<1>0. /\ t \in Tx /\ t.item \in Items /\ t.rest \in Seq(Tags) /\ t.tags \in Seq(Tags)
      /\ t.stage \in StagesOf[t.kind] /\ (t.stage \in Writing => t.rest # <<>>)
      /\ v \in SUBSET Rows
  BY DEF Shape, Tx, View
<1>1. Owns(t, i, e) /\ Creates(d, t, i) /\ Linking(t, i, v) /\ Sweeping(t, e, v)
  BY DEF Saving
<1>2. /\ \A j \in Items : \A g \in Tags : LinkRow(j, g) \in i \cup e => j = u.item
      /\ \A j \in Items : ItemRow(j) \in i \cup e => j = u.item
  BY <1>1 DEF Owns
<1>3. Range(<<>>) = {}
  BY DEF Range
<1>4. u.stage = "tag" => u.todo = {TagRow(Head(u.rest))}
  BY DEF Targets
<1>5. u.stage = "sweep" => u.todo = {TagRow(g) : g \in Bare(v)}
  BY SweepFinds DEF Targets
<1>6. u.stage = "link" => u.todo # {}
  BY DEF Targets
<1> HIDE DEF v, L
\* The tags are linked: those of t, or those of t without the first.
<1>7. ASSUME t.kind \in {"create", "replace"}, NEW r \in Seq(Tags), u.rest = r,
             L \cup Range(r) = Range(t.tags),
             u.stage = (IF r = <<>> THEN AfterTags(t) ELSE "tag"),
             t.kind = "create" => ItemRow(t.item) \in i /\ Bare(v) = {}
      PROVE  Saving(d, u, i, e)
  <2>1. /\ u.stage \in {"tag", "sweep", "commit"}
        /\ u.stage \in {"sweep", "commit"} => r = <<>>
        /\ u.stage = "commit" => t.kind = "create"
    BY <1>7 DEF AfterTags
  <2>2. Owns(u, i, e)
    BY <1>2, <2>1 DEF Owns
  <2>3. Creates(d, u, i)
    BY <1>1, <1>7, <2>1 DEF Creates
  <2>4. Linking(u, i, v)
    BY <1>4, <1>7, <2>1 DEF Linking, L
  <2>5. Sweeping(u, e, v)
    BY <1>5, <1>7, <2>1 DEF Sweeping
  <2> QED
    BY <2>2, <2>3, <2>4, <2>5 DEF Saving, v
<1>8. CASE t.stage = "insert"
  <2>1. t.kind = "create" /\ t.rest = t.tags /\ u.rest = t.rest
    BY <1>1, <1>8, KindOf DEF Linking, RestAfter
  <2>2. Bare(v) = {}
    BY <1>1, <1>8, <2>1 DEF Sweeping
  <2>3. CASE ItemRow(t.item) \in i
    <3>1. u.stage = TagsOrDone(t) /\ L \cup Range(t.rest) = Range(t.tags)
      BY <1>1, <1>8, <2>1, <2>3 DEF NextStage, Linking, Tagging, L
    <3> QED
      BY <1>0, <1>7, <2>1, <2>2, <2>3, <3>1 DEF TagsOrDone
  <2>4. CASE ItemRow(t.item) \notin i
    <3>1. u.stage = "select"
      BY <1>8, <2>4 DEF NextStage
    <3>2. Owns(u, i, e) /\ Creates(d, u, i)
      BY <1>1, <1>2, <2>1, <2>4, <3>1 DEF Owns, Creates
    <3>3. Linking(u, i, v) /\ Sweeping(u, e, v)
      BY <2>1, <2>2, <2>4, <3>1 DEF Linking, Sweeping, Tagging
    <3> QED
      BY <3>2, <3>3 DEF Saving, v
  <2> QED
    BY <2>3, <2>4
<1>9. CASE t.stage = "select"
  <2>1. t.kind = "create" /\ u.stage = "commit" /\ u.rest = t.rest
    BY <1>0, <1>9 DEF StagesOf, NextStage, RestAfter
  <2>2. ItemRow(t.item) \notin i /\ Bare(v) = {}
    BY <1>1, <1>9, <2>1 DEF Creates, Sweeping
  <2>3. Owns(u, i, e) /\ Creates(d, u, i)
    BY <1>1, <1>2, <2>1, <2>2 DEF Owns, Creates
  <2>4. Linking(u, i, v)
    BY <2>1, <2>2 DEF Linking, Tagging
  <2>5. Sweeping(u, e, v)
    BY <2>1, <2>2 DEF Sweeping
  <2> QED
    BY <2>3, <2>4, <2>5 DEF Saving, v
<1>10. CASE t.stage = "check"
  <2>1. t.kind = "replace" /\ u.stage = "unlink" /\ u.rest = t.rest
    BY <1>0, <1>10 DEF StagesOf, NextStage, RestAfter
  <2>2. u.todo = {LinkRow(t.item, g) : g \in L}
    <3>1. u.todo = LinksToDrop(u, v)
      BY <2>1 DEF Targets, v
    <3>2. LinksToDrop(u, v) = LinksOf(t.item, v)
      BY <2>1 DEF LinksToDrop
    <3> QED
      BY <1>0, <3>1, <3>2, LinksByTag DEF L
  <2>3. \A r \in u.todo : IsParent(ItemRow(t.item), r)
    BY <1>0, <2>2, LinkParent DEF L, Linked
  <2>4. Owns(u, i, e) /\ Creates(d, u, i)
    BY <1>2, <2>1, <2>3 DEF Owns, Creates
  <2>5. Linking(u, i, v) /\ Sweeping(u, e, v)
    BY <1>1, <1>10, <2>1, <2>2 DEF Linking, Sweeping, Tagging, L
  <2> QED
    BY <2>4, <2>5 DEF Saving, v
<1>11. CASE t.stage = "unlink" /\ t.kind = "replace"
  <2>1. u.stage = TagsOrDone(t) /\ u.rest = t.rest /\ t.rest = t.tags /\ L = {}
    BY <1>1, <1>11 DEF NextStage, RestAfter, Linking, L
  <2> QED
    BY <1>0, <1>7, <1>11, <2>1 DEF TagsOrDone
<1>12. CASE t.stage = "tag"
  <2>1. t.kind \in {"create", "replace"} /\ u.stage = "link" /\ u.rest = t.rest
    BY <1>0, <1>12 DEF StagesOf, NextStage, RestAfter
  <2>2. Owns(u, i, e) /\ Creates(d, u, i)
    BY <1>1, <1>2, <1>12, <2>1 DEF Owns, Creates
  <2>3. Linking(u, i, v) /\ Sweeping(u, e, v)
    BY <1>1, <1>6, <1>12, <2>1 DEF Linking, Sweeping, Tagging
  <2> QED
    BY <2>2, <2>3 DEF Saving, v
<1>13. CASE t.stage \in {"link", "linkitem", "linktag"}
  <2> DEFINE h == Head(t.rest)
  <2>1. t.kind \in {"create", "replace"} /\ t.rest # <<>>
    BY <1>0, <1>13 DEF StagesOf, Writing
  <2>2. Range(t.rest) = {h} \cup Range(Tail(t.rest)) /\ h \in Tags /\ Tail(t.rest) \in Seq(Tags)
    BY <1>0, <2>1, HeadAndTail
  <2>3. h \in L
    BY <1>1, <1>13 DEF Linking, L
  <2>4. t.kind = "create" => Bare(v) = {}
    <3>1. h \notin Bare(v)
      BY <1>0, <2>3 DEF Bare, Linked, L
    <3> QED
      BY <1>1, <3>1 DEF Sweeping
  <2>5. t.kind = "create" => ItemRow(t.item) \in i
    BY <1>1, <1>13 DEF Creates
  <2>6. L \cup Range(t.rest) = Range(t.tags)
    BY <1>1, <1>13, <2>1, <2>5 DEF Linking, Tagging, L
  <2> HIDE DEF h
  <2>7. CASE u.stage \in {"linkitem", "linktag"} /\ u.rest = t.rest
    <3>1. Owns(u, i, e) /\ Creates(d, u, i)
      BY <1>1, <1>2, <2>5, <2>7 DEF Owns, Creates
    <3>2. Linking(u, i, v)
      BY <2>1, <2>3, <2>6, <2>7 DEF Linking, h, L
    <3>3. Sweeping(u, e, v)
      BY <2>1, <2>4, <2>7 DEF Sweeping
    <3> QED
      BY <3>1, <3>2, <3>3 DEF Saving, v
  <2>8. CASE u.stage = (IF Tail(t.rest) = <<>> THEN AfterTags(t) ELSE "tag") /\ u.rest = Tail(t.rest)
    BY <1>7, <2>1, <2>2, <2>3, <2>4, <2>5, <2>6, <2>8
  <2>9. \/ u.stage \in {"linkitem", "linktag"} /\ u.rest = t.rest
        \/ u.stage = (IF Tail(t.rest) = <<>> THEN AfterTags(t) ELSE "tag") /\ u.rest = Tail(t.rest)
    <3> DEFINE w == [t EXCEPT !.rest = Tail(t.rest)]
    <3>1. w.rest = Tail(t.rest) /\ w.kind = t.kind
      BY <1>0, <2>2, Zenon DEF Tx
    <3>2. TagsOrDone(w) = IF Tail(t.rest) = <<>> THEN AfterTags(t) ELSE "tag"
      BY <3>1 DEF TagsOrDone, AfterTags
    <3>3. \/ t.stage = "link" /\ u.stage = "linkitem"
          \/ t.stage = "linkitem" /\ u.stage = "linktag"
          \/ t.stage \in {"link", "linktag"} /\ u.stage = TagsOrDone(w)
      BY <1>13 DEF NextStage
    <3> HIDE DEF w
    <3>4. TagsOrDone(w) \in {"tag", "sweep", "commit"}
      BY <3>2 DEF AfterTags
    <3> QED
      BY <3>2, <3>3, <3>4 DEF RestAfter
  <2> QED
    BY <2>7, <2>8, <2>9
<1>14. CASE t.stage = "sweep"
  <2>1. t.kind \in {"replace", "delete"} /\ u.stage = "commit" /\ u.rest = t.rest
    BY <1>0, <1>14 DEF StagesOf, NextStage, RestAfter
  <2>2. Bare(v) = {}
    BY <1>1, <1>14 DEF Sweeping
  <2>3. Owns(u, i, e) /\ Creates(d, u, i)
    BY <1>2, <2>1 DEF Owns, Creates
  <2>4. Linking(u, i, v) /\ Sweeping(u, e, v)
    BY <1>1, <1>14, <2>1, <2>2 DEF Linking, Sweeping, Tagging
  <2> QED
    BY <2>3, <2>4 DEF Saving, v
<1>15. CASE t.kind = "delete" /\ t.stage \in {"contents", "unlink"}
  <2>1. /\ u.rest = t.rest /\ t.rest = t.tags
        /\ \/ t.stage = "contents" /\ u.stage = "unlink"
           \/ t.stage = "unlink" /\ u.stage = "item"
    BY <1>1, <1>15 DEF NextStage, RestAfter, Linking
  <2>2. u.stage = "item" => u.todo \subseteq {ItemRow(u.item)}
    BY DEF Targets
  <2>3. u.stage = "unlink" => \A r \in u.todo : IsParent(ItemRow(u.item), r)
    BY <1>0, <1>15, DropsAre DEF v
  <2>4. Owns(u, i, e)
    BY <1>2, <2>1, <2>2, <2>3 DEF Owns
  <2>5. Creates(d, u, i) /\ Linking(u, i, v) /\ Sweeping(u, e, v)
    BY <1>15, <2>1 DEF Creates, Linking, Sweeping, Tagging
  <2> QED
    BY <2>4, <2>5 DEF Saving, v
<1>16. CASE t.stage = "item"
  <2>1. /\ t.kind = "delete" /\ u.rest = t.rest
        /\ u.stage = IF ItemRow(t.item) \in e THEN "sweep" ELSE "leaked"
    BY <1>0, <1>16 DEF StagesOf, NextStage, RestAfter
  <2>2. Owns(u, i, e) /\ Creates(d, u, i) /\ Linking(u, i, v)
    BY <1>2, <2>1 DEF Owns, Creates, Linking, Tagging
  <2>3. Sweeping(u, e, v)
    BY <1>5, <2>1 DEF Sweeping
  <2> QED
    BY <2>2, <2>3 DEF Saving, v
<1> QED
  <2>1. t.stage \in {"insert", "select", "tag", "link", "linkitem", "linktag", "check", "unlink",
                     "sweep", "contents", "item"}
    BY <1>0 DEF StagesOf
  <2>2. t.stage \in {"contents", "unlink"} => t.kind \in {"replace", "delete"}
    BY <1>0 DEF StagesOf
  <2>3. t.stage = "contents" => t.kind = "delete"
    BY KindOf
  <2> QED
    BY <2>1, <2>2, <2>3, <1>8, <1>9, <1>10, <1>11, <1>12, <1>13, <1>14, <1>15, <1>16

-----------------------------------------------------------------------------
\* A step of one connection that commits nothing.
LEMMA EditorMoves ==
  ASSUME EditorInv, StoreTypes, NEW p \in Procs, UNCHANGED <<db, known, saved>>,
         \A q \in Procs \ {p} : tx'[q] = tx[q] /\ ins'[q] = ins[q] /\ del'[q] = del[q],
         Kept(db, tx'[p], ins'[p], del'[p], p \in Workers)
  PROVE  EditorInv'
<1>1. \A q \in Procs : Kept(db', tx'[q], ins'[q], del'[q], q \in Workers)
  <2> TAKE q \in Procs
  <2>1. CASE q = p
    BY <2>1
  <2>2. CASE q # p
    BY <2>2, Zenon DEF EditorInv
  <2> QED
    BY <2>1, <2>2
<1>2. /\ \A i \in Items : ItemRow(i) \in db' => i \in known' /\ Linked(i, db') = saved'[i]
      /\ Bare(db') = {}
  BY DEF EditorInv
<1> QED
  BY <1>1, <1>2 DEF EditorInv

\* What a connection in a transaction keeps.
LEMMA KeptOf ==
  ASSUME StoreInv, EditorInv, NEW p \in Procs, NEW t, t = tx[p], t # NoTx
  PROVE  /\ t \in Tx /\ Shape(t) /\ Aims(db, t) /\ Writes(t, ins[p], del[p])
         /\ db \in SUBSET Rows /\ ins[p] \in SUBSET Rows /\ del[p] \in SUBSET Rows
         /\ p \in Workers =>
                t.kind \in {"fetch", "claim"} /\ ins[p] \subseteq ContentRows /\ del[p] = {}
         /\ p \notin Workers =>
                t.kind \in {"create", "replace", "delete"} /\ Saving(db, t, ins[p], del[p])
<1>1. Good(db, t, held[p], ins[p], del[p]) /\ Kept(db, t, ins[p], del[p], p \in Workers)
  BY DEF StoreInv, EditorInv
<1> QED
  BY <1>1 DEF StoreInv, StoreTypes, Good, Shape, Kept

\* With no row there is nothing to lose.
LEMMA EditorInitInv ==
  ASSUME Init
  PROVE  EditorInv
<1>1. \A p \in Procs : Kept(db, tx[p], ins[p], del[p], p \in Workers)
  BY DEF Init, Kept
<1> QED
  BY <1>1 DEF Init, EditorInv, Bare

\* What was not committed is dropped.
LEMMA RollbackKeeps ==
  ASSUME StoreInv, EditorInv, NEW p \in Procs, Rollback(p)
  PROVE  EditorInv'
<1>1. StoreTypes /\ UNCHANGED <<db, known, saved>> /\ tx'[p] = NoTx
  BY DEF StoreInv, StoreTypes, Rollback
<1>2. \A q \in Procs \ {p} : tx'[q] = tx[q] /\ ins'[q] = ins[q] /\ del'[q] = del[q]
  BY DEF StoreInv, StoreTypes, Rollback, Idle
<1>3. Kept(db, tx'[p], ins'[p], del'[p], p \in Workers)
  BY <1>1 DEF Kept
<1> QED
  BY <1>1, <1>2, <1>3, EditorMoves

\* Only the worker claims.
LEMMA RowsErrKeeps ==
  ASSUME StoreInv, EditorInv, NEW p \in Procs, RowsErr(p)
  PROVE  EditorInv'
<1> DEFINE t == tx[p]
           u == [t EXCEPT !.stage = "leaked", !.todo = {}]
<1>0. t # NoTx /\ t.stage = "pick" /\ tx' = [tx EXCEPT ![p] = u]
  BY DEF RowsErr, Running
<1>1. t \in Tx /\ Shape(t) /\ (p \notin Workers => t.kind \in {"create", "replace", "delete"})
  BY <1>0, KeptOf
<1>2. t.kind = "claim"
  BY <1>0, <1>1, KindOf
<1>3. u.kind = "claim"
  BY <1>1, <1>2 DEF Tx
<1> HIDE DEF u
<1>4. StoreTypes /\ UNCHANGED <<db, known, saved>> /\ tx'[p] = u /\ ins'[p] = {} /\ del'[p] = {}
  BY <1>0 DEF StoreInv, StoreTypes, RowsErr, Idle
<1>5. \A q \in Procs \ {p} : tx'[q] = tx[q] /\ ins'[q] = ins[q] /\ del'[q] = del[q]
  BY <1>0 DEF StoreInv, StoreTypes, RowsErr, Idle
<1>6. Kept(db, tx'[p], ins'[p], del'[p], p \in Workers)
  BY <1>1, <1>2, <1>3, <1>4 DEF Kept
<1> QED
  BY <1>4, <1>5, <1>6, EditorMoves

\* The id of a new item is known to nobody, so that no row of it is there.
LEMMA BeginKeeps ==
  ASSUME StoreInv, EditorInv, NEW p \in Procs, NEW op \in Ops, Begin(p, op)
  PROVE  EditorInv'
<1> DEFINE s == FirstStage[op.kind]
           x == Targets(op, s, db)
           u == [kind |-> op.kind, item |-> op.item, tags |-> op.tags, own |-> op.own,
                 rest |-> op.tags, stage |-> s, todo |-> x]
<1>0. /\ tx[p] = NoTx /\ tx' = [tx EXCEPT ![p] = u] /\ Possible(op, p)
      /\ UNCHANGED <<db, held, ins, del, known, saved>>
  BY DEF Begin
<1>1. u.kind = op.kind /\ u.item = op.item /\ u.tags = op.tags /\ u.own = op.own
      /\ u.rest = op.tags /\ u.stage = s /\ u.todo = x
  OBVIOUS
<1>4. u \in Tx
  BY RequestIn
<1> HIDE DEF u
<1>2. /\ StoreTypes /\ db \in SUBSET Rows /\ tx'[p] = u
      /\ \A q \in Procs \ {p} : tx'[q] = tx[q] /\ ins'[q] = ins[q] /\ del'[q] = del[q]
  BY <1>0 DEF StoreInv, StoreTypes
<1>3. ins'[p] = {} /\ del'[p] = {}
  BY <1>0 DEF StoreInv, Good
<1>5. op.kind \in Kinds /\ op.item \in Items
  BY OpsAssumption DEF Op
<1>6. CASE p \in Workers
  <2>1. u.kind \in {"fetch", "claim"}
    BY <1>0, <1>1, <1>6 DEF Possible
  <2> QED
    BY <1>0, <1>2, <1>3, <1>6, <2>1, EditorMoves DEF Kept
<1>7. CASE p \notin Workers
  <2>1. u.kind \in {"create", "replace", "delete"}
    BY <1>0, <1>1, <1>5, <1>7 DEF Possible, Kinds
  <2>2. u.kind = "create" => ItemRow(u.item) \notin db
    BY <1>0, <1>1, <1>5 DEF Possible, EditorInv
  <2>3. u.todo = Targets(u, u.stage, db)
    BY <1>1, <2>1 DEF Targets, Mine, FirstStage
  <2>4. u.rest = u.tags /\ u.stage = FirstStage[u.kind] /\ Bare(db) = {}
    BY <1>1 DEF EditorInv
  <2>5. Saving(db, u, {}, {})
    BY <1>2, <1>4, <2>1, <2>2, <2>3, <2>4, EditorBegins
  <2>6. Kept(db, tx'[p], ins'[p], del'[p], p \in Workers)
    BY <1>2, <1>3, <1>7, <2>1, <2>5 DEF Kept
  <2> QED
    BY <1>0, <1>2, <2>6, EditorMoves
<1> QED
  BY <1>6, <1>7

\* The next statement of a transaction.
LEMMA AdvanceKeeps ==
  ASSUME StoreInv, EditorInv, NEW p \in Procs, Advance(p)
  PROVE  EditorInv'
<1> DEFINE t == tx[p]
           s == NextStage(p)
           rest == RestAfter(t, s)
           v == [t EXCEPT !.rest = rest, !.stage = s]
           x == Targets(v, s, Visible(p))
           u == [v EXCEPT !.todo = x]
<1>0. /\ t # NoTx /\ t.stage \notin {"leaked", "commit"} /\ t.todo = {}
      /\ tx' = [tx EXCEPT ![p] = u]
      /\ UNCHANGED <<db, held, ins, del, known, saved>>
  BY DEF Advance, Running
<1>1. /\ t \in Tx /\ Shape(t) /\ t.kind \in Kinds
      /\ db \in SUBSET Rows /\ ins[p] \in SUBSET Rows /\ del[p] \in SUBSET Rows
      /\ p \in Workers =>
             t.kind \in {"fetch", "claim"} /\ ins[p] \subseteq ContentRows /\ del[p] = {}
      /\ p \notin Workers =>
             t.kind \in {"create", "replace", "delete"} /\ Saving(db, t, ins[p], del[p])
  BY <1>0, KeptOf DEF Tx
<1>2. s \in StagesOf[t.kind] /\ rest \in Seq(Tags) /\ (s \in Writing => rest # <<>>)
  BY <1>0, <1>1, NextIs
<1>3. s \in Stages
  BY <1>1, <1>2, StageIn
<1> HIDE DEF s, rest
<1>4. /\ v \in Tx
      /\ v.kind = t.kind /\ v.item = t.item /\ v.tags = t.tags /\ v.own = t.own
      /\ v.rest = rest /\ v.stage = s
  <2>1. t \in Tx /\ rest \in Seq(Tags) /\ s \in Stages
    BY <1>1, <1>2, <1>3
  <2> HIDE DEF t
  <2> QED
    BY <2>1, EnteredIs, ZenonT(30)
<1> HIDE DEF v
<1>5. Visible(p) = View(db, ins[p], del[p]) /\ Visible(p) \in SUBSET Rows
  BY <1>1 DEF View, Visible
<1>6. x \in SUBSET Rows
  BY <1>2, <1>4, <1>5, TargetsAre
<1>7. SameBut(u, v) /\ u.todo = x
  BY <1>4, <1>6, TodoOf
<1> HIDE DEF u
<1>8. x = Targets(u, u.stage, View(db, ins[p], del[p]))
  BY <1>4, <1>5, <1>7 DEF SameBut, Targets, Mine, LinksToDrop
<1> HIDE DEF x
<1>9. /\ u \in Tx /\ u.kind = t.kind /\ u.item = t.item /\ u.tags = t.tags /\ u.own = t.own
      /\ u.stage = NextStage(p) /\ u.rest = RestAfter(t, u.stage)
      /\ u.todo = Targets(u, u.stage, View(db, ins[p], del[p]))
  BY <1>4, <1>7, <1>8 DEF SameBut, s, rest
<1>10. /\ StoreTypes /\ tx'[p] = u /\ ins'[p] = ins[p] /\ del'[p] = del[p]
       /\ \A q \in Procs \ {p} : tx'[q] = tx[q] /\ ins'[q] = ins[q] /\ del'[q] = del[q]
  BY <1>0 DEF StoreInv, StoreTypes
<1>11. Kept(db, u, ins[p], del[p], p \in Workers)
  <2>1. CASE p \in Workers
    BY <1>1, <1>9, <2>1 DEF Kept
  <2>2. CASE p \notin Workers
    <3>1. Saving(db, u, ins[p], del[p])
      <4> HIDE DEF t
      <4> QED
        BY <1>0, <1>1, <1>9, <2>2, EditorEnters DEF t
    <3> QED
      BY <1>1, <1>9, <2>2, <3>1 DEF Kept
  <2> QED
    BY <2>1, <2>2
<1>12. Kept(db, tx'[p], ins'[p], del'[p], p \in Workers)
  BY <1>10, <1>11
<1> QED
  BY <1>0, <1>10, <1>12, EditorMoves

\* A statement that deletes and inserts nothing takes some of its rows.
LEMMA TakeKeeps ==
  ASSUME StoreInv, EditorInv, NEW p \in Procs, tx[p] # NoTx, NEW x, x \subseteq tx[p].todo,
         tx' = [tx EXCEPT ![p] = [tx[p] EXCEPT !.todo = x]],
         UNCHANGED <<db, ins, del, known, saved>>,
         tx[p].stage \in {"update", "pick", "insert", "tag", "content", "link"} \cup KeyChecks,
         tx[p].stage = "link" =>
            Head(tx[p].rest) \in Linked(tx[p].item, View(db, ins[p], del[p]))
  PROVE  EditorInv'
<1> DEFINE t == tx[p]
           u == [t EXCEPT !.todo = x]
<1>1. /\ t \in Tx /\ db \in SUBSET Rows /\ ins[p] \in SUBSET Rows /\ del[p] \in SUBSET Rows
      /\ p \in Workers =>
             t.kind \in {"fetch", "claim"} /\ ins[p] \subseteq ContentRows /\ del[p] = {}
      /\ p \notin Workers =>
             t.kind \in {"create", "replace", "delete"} /\ Saving(db, t, ins[p], del[p])
  BY KeptOf
<1>2. x \in SUBSET Rows
  BY <1>1 DEF Tx
<1>3. SameBut(u, t) /\ u.todo = x
  BY <1>1, <1>2, TodoOf
<1> HIDE DEF u
<1>4. /\ StoreTypes /\ tx'[p] = u /\ ins'[p] = ins[p] /\ del'[p] = del[p]
      /\ \A q \in Procs \ {p} : tx'[q] = tx[q] /\ ins'[q] = ins[q] /\ del'[q] = del[q]
  BY DEF StoreInv, StoreTypes, u
<1>5. Kept(db, u, ins[p], del[p], p \in Workers)
  <2>1. CASE p \in Workers
    BY <1>1, <1>3, <2>1 DEF Kept, SameBut
  <2>2. CASE p \notin Workers
    <3>1. t.stage \notin {"contents", "unlink", "item", "sweep"} /\ u.todo \subseteq t.todo
      BY <1>3 DEF KeyChecks
    <3>2. Saving(db, u, ins[p], del[p])
      BY <1>1, <1>3, <2>2, <3>1, EditorPasses
    <3> QED
      BY <1>1, <1>3, <2>2, <3>2 DEF Kept, SameBut
  <2> QED
    BY <2>1, <2>2
<1>6. Kept(db, tx'[p], ins'[p], del'[p], p \in Workers)
  BY <1>4, <1>5
<1> QED
  BY <1>4, <1>6, EditorMoves

\* An UPDATE, a SELECT ... FOR UPDATE or a key check.
LEMMA ScanKeeps ==
  ASSUME StoreInv, EditorInv, NEW p \in Procs, NEW r \in Rows,
         UpdateItem(p, r) \/ LockRow(p, r) \/ CheckKey(p, r)
  PROVE  EditorInv'
<1>1. /\ tx[p] # NoTx /\ tx[p].stage \in {"update", "pick"} \cup KeyChecks
      /\ UNCHANGED <<db, ins, del, known, saved>>
  BY DEF UpdateItem, LockRow, CheckKey, CanTake, Running
<1>2. tx' = [tx EXCEPT ![p] = [tx[p] EXCEPT !.todo = (@ \ {r}) \cup {}]]
  BY DEF UpdateItem, LockRow, CheckKey, Take
<1>3. tx' = [tx EXCEPT ![p] = [tx[p] EXCEPT !.todo = (tx[p].todo \ {r}) \cup {}]]
  BY <1>2, Zenon
<1>4. (tx[p].todo \ {r}) \cup {} \subseteq tx[p].todo /\ tx[p].stage # "link"
  BY <1>1 DEF KeyChecks
<1> DEFINE x == (tx[p].todo \ {r}) \cup {}
<1>5. x \subseteq tx[p].todo /\ tx' = [tx EXCEPT ![p] = [tx[p] EXCEPT !.todo = x]]
  BY <1>3, <1>4
<1> HIDE DEF x
<1> QED
  BY <1>1, <1>4, <1>5, TakeKeeps

\* A claim passes a row that is locked.
LEMMA SkipKeeps ==
  ASSUME StoreInv, EditorInv, NEW p \in Procs, NEW r \in Rows, SkipLocked(p, r)
  PROVE  EditorInv'
<1> DEFINE x == tx[p].todo \ {r}
<1>1. tx[p] # NoTx /\ tx[p].stage = "pick" /\ UNCHANGED <<db, ins, del, known, saved>>
  BY DEF SkipLocked, Running
<1>2. tx' = [tx EXCEPT ![p] = [tx[p] EXCEPT !.todo = x]] /\ x \subseteq tx[p].todo
  BY Zenon DEF SkipLocked
<1> HIDE DEF x
<1> QED
  BY <1>1, <1>2, TakeKeeps

\* An INSERT meets a row, or adds one.
LEMMA InsertKeeps ==
  ASSUME StoreInv, EditorInv, NEW p \in Procs, NEW r \in Rows, InsertRow(p, r)
  PROVE  EditorInv'
<1> DEFINE t == tx[p]
           x == t.todo \ {r}
           u == [t EXCEPT !.todo = x]
           there == (IF t.stage = "insert" THEN SameKey(r[2]) ELSE {r}) \cap Visible(p) # {}
           m == IF there THEN "update" ELSE "exclusive"
           v == View(db, ins[p], del[p])
<1>0. /\ t # NoTx /\ r \in t.todo /\ t.stage \in {"insert", "link", "tag", "content"}
      /\ UNCHANGED <<db, del, known, saved>>
  BY DEF InsertRow, CanTake, Running, Ready, Upserts
<1>1. /\ t \in Tx /\ Shape(t) /\ Aims(db, t)
      /\ db \in SUBSET Rows /\ ins[p] \in SUBSET Rows /\ del[p] \in SUBSET Rows
      /\ p \in Workers =>
             t.kind \in {"fetch", "claim"} /\ ins[p] \subseteq ContentRows /\ del[p] = {}
      /\ p \notin Workers =>
             t.kind \in {"create", "replace", "delete"} /\ Saving(db, t, ins[p], del[p])
  BY <1>0, KeptOf
<1>2. x \in SUBSET Rows /\ x \subseteq t.todo
  BY <1>1 DEF Tx
<1>3. SameBut(u, t) /\ u.todo \subseteq t.todo
  BY <1>1, <1>2, TodoOf
<1>4. tx' = [tx EXCEPT ![p] = u]
  <2>1. CASE there /\ t.stage \notin Upserts
    BY <2>1, Zenon DEF InsertRow
  <2>2. CASE ~(there /\ t.stage \notin Upserts)
    <3>1. Take(p, r, m, {})
      BY <2>2, Zenon DEF InsertRow
    <3>2. x = (t.todo \ {r}) \cup {}
      OBVIOUS
    <3> HIDE DEF x
    <3> QED
      BY <3>1, <3>2, Zenon DEF Take
  <2> QED
    BY <2>1, <2>2
<1>5. /\ t.stage = "insert" => r = ItemRow(t.item)
      /\ t.stage = "link" => r = LinkRow(t.item, Head(t.rest))
      /\ t.stage = "content" => r = ContentRow(t.item)
      /\ t.stage = "tag" /\ p \notin Workers => r = TagRow(Head(t.rest))
  BY <1>0, <1>1 DEF Aims, Saving, Linking
<1>6. CASE there /\ (t.stage \notin Upserts \/ ins' = ins)
  <2>1. ins' = ins
    BY <1>6, Zenon DEF InsertRow
  <2>2. t.stage = "link" => Head(t.rest) \in Linked(t.item, v)
    <3>1. t.stage = "link" => r \in v /\ t.rest # <<>>
      BY <1>1, <1>6, ViewIsVisible DEF Shape, Writing
    <3>2. t.stage = "link" => Head(t.rest) \in Tags
      BY <1>1, <3>1 DEF Tx
    <3> QED
      BY <1>5, <3>1, <3>2 DEF Linked
  <2> HIDE DEF x, v
  <2> QED
    BY <1>0, <1>2, <1>4, <2>1, <2>2, TakeKeeps DEF u, v
<1>7. CASE ~there
  <2>1. ins' = [ins EXCEPT ![p] = ins[p] \cup {r}]
    BY <1>7, Zenon DEF InsertRow
  <2> HIDE DEF u, there, m, v
  <2>2. /\ StoreTypes /\ tx'[p] = u /\ ins'[p] = ins[p] \cup {r} /\ del'[p] = del[p]
        /\ \A q \in Procs \ {p} : tx'[q] = tx[q] /\ ins'[q] = ins[q] /\ del'[q] = del[q]
    BY <1>0, <1>4, <2>1 DEF StoreInv, StoreTypes
  <2>3. CASE p \in Workers
    <3>1. t.stage = "content"
      BY <1>0, <1>1, <2>3 DEF Shape, StagesOf
    <3>2. r \in ContentRows
      BY <1>1, <1>5, <3>1, RowsAreRows DEF Tx
    <3>3. Kept(db, u, ins[p] \cup {r}, del[p], p \in Workers)
      BY <1>1, <1>3, <2>3, <3>2 DEF Kept, SameBut
    <3>4. Kept(db, tx'[p], ins'[p], del'[p], p \in Workers)
      BY <2>2, <3>3
    <3> QED
      BY <1>0, <2>2, <3>4, EditorMoves
  <2>4. CASE p \notin Workers
    <3>1. t.stage # "content"
      BY <1>1, <2>4 DEF Shape, StagesOf
    <3>2. Resolved(db)
      BY DEF StoreInv
    <3>3. Saving(db, u, ins[p] \cup {r}, del[p])
      <4> HIDE DEF t
      <4>1. CASE t.stage = "insert"
        BY <1>1, <1>3, <1>5, <2>4, <3>2, <4>1, EditorInsertsItem
      <4>2. CASE t.stage = "tag"
        BY <1>1, <1>3, <1>5, <2>4, <4>2, EditorInsertsTag
      <4>3. CASE t.stage = "link"
        BY <1>1, <1>3, <1>5, <2>4, <4>3, EditorInsertsLink
      <4> QED
        BY <1>0, <3>1, <4>1, <4>2, <4>3
    <3>4. Kept(db, u, ins[p] \cup {r}, del[p], p \in Workers)
      BY <1>1, <1>3, <2>4, <3>3 DEF Kept, SameBut
    <3>5. Kept(db, tx'[p], ins'[p], del'[p], p \in Workers)
      BY <2>2, <3>4
    <3> QED
      BY <1>0, <2>2, <3>5, EditorMoves
  <2> QED
    BY <2>3, <2>4
<1> QED
  <2>1. CASE there /\ t.stage \in Upserts
    <3>1. ins' = [ins EXCEPT ![p] = ins[p]]
      BY <2>1, Zenon DEF InsertRow
    <3>2. ins' = ins
      BY <3>1 DEF StoreInv, StoreTypes
    <3> QED
      BY <1>6, <2>1, <3>2
  <2> QED
    BY <1>6, <1>7, <2>1

\* A DELETE takes a row.
LEMMA DeleteKeeps ==
  ASSUME StoreInv, EditorInv, NEW p \in Procs, NEW r \in Rows, DeleteRow(p, r)
  PROVE  EditorInv'
<1> DEFINE t == tx[p]
           x == (t.todo \ {r}) \cup Children(r, View(db, ins[p], del[p]))
           u == [t EXCEPT !.todo = x]
           i == ins[p] \ {r}
           e == del[p] \cup ({r} \cap db)
<1>0. /\ t # NoTx /\ t.stage \in Deletes /\ r \in t.todo
      /\ del' = [del EXCEPT ![p] = e]
      /\ ins' = [ins EXCEPT ![p] = i]
      /\ UNCHANGED <<db, known, saved>>
  BY DEF DeleteRow, CanTake, Running, Ready
<1>1. /\ t \in Tx /\ Shape(t) /\ Aims(db, t)
      /\ db \in SUBSET Rows /\ ins[p] \in SUBSET Rows /\ del[p] \in SUBSET Rows
      /\ p \in Workers => t.kind \in {"fetch", "claim"}
      /\ p \notin Workers =>
             t.kind \in {"create", "replace", "delete"} /\ Saving(db, t, ins[p], del[p])
  BY <1>0, KeptOf
<1>2. p \notin Workers
  BY <1>0, <1>1, KindOf
<1>3. x \in SUBSET Rows
  <2>1. Children(r, View(db, ins[p], del[p])) \in SUBSET Rows
    BY <1>1, ChildrenAre DEF View
  <2> QED
    BY <1>1, <2>1 DEF Tx
<1>4. SameBut(u, t) /\ u.todo = x
  BY <1>1, <1>3, TodoOf
<1>5. tx' = [tx EXCEPT ![p] = u]
  <2>1. Take(p, r, "exclusive", Children(r, View(db, ins[p], del[p])))
    BY ViewIsVisible DEF DeleteRow
  <2> QED
    BY <2>1, Zenon DEF Take
<1> HIDE DEF u
<1>6. Saving(db, u, i, e)
  <2> HIDE DEF t
  <2> QED
    BY <1>0, <1>1, <1>2, <1>4, EditorDeletes
<1> HIDE DEF i, e
<1>7. /\ StoreTypes /\ tx'[p] = u /\ ins'[p] = i /\ del'[p] = e
      /\ \A q \in Procs \ {p} : tx'[q] = tx[q] /\ ins'[q] = ins[q] /\ del'[q] = del[q]
  BY <1>0, <1>5 DEF StoreInv, StoreTypes
<1>8. Kept(db, u, i, e, p \in Workers)
  BY <1>1, <1>2, <1>4, <1>6 DEF Kept, SameBut
<1>9. Kept(db, tx'[p], ins'[p], del'[p], p \in Workers)
  BY <1>7, <1>8
<1> QED
  BY <1>0, <1>7, <1>9, EditorMoves

-----------------------------------------------------------------------------
\* A content that is stored changes nothing for the editor.
LEMMA ContentsApart ==
  ASSUME NEW d \in SUBSET Rows, NEW c \in SUBSET ContentRows, NEW i, NEW e
  PROVE  /\ \A j \in Items : Linked(j, View(d \cup c, i, e)) = Linked(j, View(d, i, e))
         /\ Bare(View(d \cup c, i, e)) = Bare(View(d, i, e))
         /\ \A j \in Items : ItemRow(j) \in d \cup c <=> ItemRow(j) \in d
<1>1. /\ \A j \in Items : ItemRow(j) \notin c
      /\ \A g \in Tags : TagRow(g) \notin c
      /\ \A j \in Items : \A g \in Tags : LinkRow(j, g) \notin c
  BY RowsDiffer, RowsAreRows DEF ParentRows, ChildRows
<1> QED
  BY <1>1 DEF Linked, Bare, View

\* So what the editor keeps stays true.
LEMMA SavingApart ==
  ASSUME NEW d \in SUBSET Rows, NEW c \in SUBSET ContentRows, NEW t \in Tx, NEW i, NEW e,
         Saving(d, t, i, e)
  PROVE  Saving(d \cup c, t, i, e)
<1>0. t.item \in Items
  BY DEF Tx
<1>1. /\ Linked(t.item, View(d \cup c, i, e)) = Linked(t.item, View(d, i, e))
      /\ Bare(View(d \cup c, i, e)) = Bare(View(d, i, e))
      /\ ItemRow(t.item) \in d \cup c <=> ItemRow(t.item) \in d
  BY <1>0, ContentsApart
<1>2. Creates(d \cup c, t, i)
  BY <1>1 DEF Saving, Creates
<1>3. Linking(t, i, View(d \cup c, i, e))
  BY <1>1 DEF Saving, Linking
<1>4. Sweeping(t, e, View(d \cup c, i, e))
  BY <1>1 DEF Saving, Sweeping
<1> QED
  BY <1>2, <1>3, <1>4 DEF Saving

\* What a save or a delete commits: its item has the tags it asked for, the others
\* have theirs, and there is no tag without an item.
LEMMA EditorCommits ==
  ASSUME NEW d \in SUBSET Rows, NEW t, Shape(t), NEW i \in SUBSET Rows, NEW e \in SUBSET Rows,
         Saving(d, t, i, e), Writes(t, i, e),
         t.kind \in {"create", "replace", "delete"}, t.stage = "commit",
         NEW j \in Items, ItemRow(j) \in View(d, i, e)
  PROVE  /\ j # t.item =>
                /\ ItemRow(j) \in d
                /\ Linked(j, View(d, i, e)) = Linked(j, d)
         /\ j = t.item =>
                /\ t.kind = "replace" \/ ItemRow(j) \in i
                /\ Linked(j, View(d, i, e)) = Range(t.tags)
<1> DEFINE v == View(d, i, e)
<1>1. Owns(t, i, e) /\ Creates(d, t, i) /\ Linking(t, i, v) /\ Sweeping(t, e, v)
  BY DEF Saving
<1>2. CASE j # t.item
  <2>1. ItemRow(j) \notin i /\ \A g \in Tags : LinkRow(j, g) \notin i \cup e
    BY <1>1, <1>2 DEF Owns
  <2> QED
    BY <1>2, <2>1 DEF Linked, View
<1>3. CASE j = t.item
  <2>1. t.kind # "delete"
    BY <1>1, <1>3 DEF Sweeping, Writes, View
  <2>2. t.kind = "create" => ItemRow(j) \in i
    BY <1>1, <1>3 DEF Creates, View
  <2>3. Tagging(t, i)
    BY <1>3, <2>1, <2>2 DEF Tagging
  <2>4. Linked(j, v) \cup Range(<<>>) = Range(t.tags)
    BY <1>1, <1>3, <2>3 DEF Linking
  <2>5. Range(<<>>) = {}
    BY DEF Range
  <2> QED
    BY <1>3, <2>1, <2>2, <2>4, <2>5
<1> QED
  BY <1>2, <1>3

\* A commit.
LEMMA CommitKeeps ==
  ASSUME StoreInv, OneEditor, EditorInv, NEW p \in Procs, Commit(p)
  PROVE  EditorInv'
<1> DEFINE t == tx[p]
           v == View(db, ins[p], del[p])
           wrote == t.kind = "replace" \/ ItemRow(t.item) \in ins[p]
<1>0. /\ t # NoTx /\ t.stage = "commit" /\ db' = v
      /\ tx' = [q \in Procs |-> IF q = p THEN NoTx ELSE Skip(tx[q], del[p])]
      /\ known' = known \cup {i \in Items : ItemRow(i) \in ins[p]}
      /\ saved' = IF wrote THEN [saved EXCEPT ![t.item] = Range(t.tags)] ELSE saved
  BY ViewIsVisible DEF Commit, Running
<1>1. /\ t \in Tx /\ Shape(t) /\ Writes(t, ins[p], del[p])
      /\ db \in SUBSET Rows /\ ins[p] \in SUBSET Rows /\ del[p] \in SUBSET Rows
      /\ p \in Workers =>
             t.kind \in {"fetch", "claim"} /\ ins[p] \subseteq ContentRows /\ del[p] = {}
      /\ p \notin Workers =>
             t.kind \in {"create", "replace", "delete"} /\ Saving(db, t, ins[p], del[p])
  BY <1>0, KeptOf
<1>2. /\ tx'[p] = NoTx /\ t.item \in Items /\ saved \in [Items -> SUBSET Tags]
      /\ \A q \in Procs \ {p} : /\ tx[q] \in Tx \cup {NoTx} /\ tx'[q] = Skip(tx[q], del[p])
                                /\ ins'[q] = ins[q] /\ del'[q] = del[q]
  BY <1>0, <1>1 DEF Commit, Idle, StoreInv, StoreTypes, Tx
<1>3. /\ \A i \in Items : ItemRow(i) \in db => i \in known /\ Linked(i, db) = saved[i]
      /\ Bare(db) = {}
  BY DEF EditorInv
<1>4. \A i \in Items : ItemRow(i) \in db' => i \in known'
  BY <1>0, <1>3 DEF View
<1> HIDE DEF t
<1>5. CASE p \in Workers
  <2>1. v = db \cup ins[p]
    BY <1>1, <1>5 DEF View
  <2>2. /\ \A i \in Items : Linked(i, v) = Linked(i, db)
        /\ Bare(v) = Bare(db)
        /\ \A i \in Items : ItemRow(i) \in v <=> ItemRow(i) \in db
    <3>1. /\ \A i \in Items : ItemRow(i) \notin ins[p]
          /\ \A g \in Tags : TagRow(g) \notin ins[p]
          /\ \A i \in Items : \A g \in Tags : LinkRow(i, g) \notin ins[p]
      BY <1>1, <1>5, RowsDiffer, RowsAreRows DEF ParentRows, ChildRows
    <3> HIDE DEF v
    <3> QED
      BY <2>1, <3>1 DEF Linked, Bare
  <2>3. saved' = saved
    <3>1. ItemRow(t.item) \notin ins[p]
      BY <1>1, <1>2, <1>5, RowsDiffer, RowsAreRows DEF ParentRows, ChildRows
    <3> QED
      BY <1>0, <1>1, <1>5, <3>1
  <2> HIDE DEF v
  <2>4. /\ \A i \in Items : ItemRow(i) \in db' => Linked(i, db') = saved'[i]
        /\ Bare(db') = {}
    BY <1>0, <1>3, <2>2, <2>3
  <2>5. ASSUME NEW q \in Procs
        PROVE  Kept(db', tx'[q], ins'[q], del'[q], q \in Workers)
    <3>1. CASE q = p
      BY <1>2, <3>1 DEF Kept
    <3>2. CASE q # p
      <4>1. tx'[q] = tx[q]
        <5>1. Skip(tx[q], {}) = tx[q]
          BY <1>2, <3>2 DEF Skip, Tx
        <5> QED
          BY <1>1, <1>2, <1>5, <3>2, <5>1
      <4>2. Kept(db, tx[q], ins[q], del[q], q \in Workers)
        BY DEF EditorInv
      <4>3. tx[q] # NoTx /\ q \notin Workers => Saving(db \cup ins[p], tx[q], ins[q], del[q])
        BY <1>1, <1>2, <1>5, <3>2, <4>2, SavingApart DEF Kept
      <4>4. Kept(db \cup ins[p], tx[q], ins[q], del[q], q \in Workers)
        BY <4>2, <4>3 DEF Kept
      <4> QED
        BY <1>0, <1>2, <2>1, <3>2, <4>1, <4>4
    <3> QED
      BY <3>1, <3>2
  <2> QED
    BY <1>4, <2>4, <2>5 DEF EditorInv
<1>6. CASE p \notin Workers
  <2>1. \A i \in Items : ItemRow(i) \in db' => Linked(i, db') = saved'[i]
    <3> SUFFICES ASSUME NEW i \in Items, ItemRow(i) \in v
                 PROVE  Linked(i, v) = saved'[i]
      BY <1>0
    <3>1. /\ i # t.item => ItemRow(i) \in db /\ Linked(i, v) = Linked(i, db)
          /\ i = t.item =>
                /\ t.kind = "replace" \/ ItemRow(i) \in ins[p]
                /\ Linked(i, v) = Range(t.tags)
      BY <1>0, <1>1, <1>6, EditorCommits
    <3> HIDE DEF v
    <3> QED
      BY <1>0, <1>2, <1>3, <3>1
  <2>2. Bare(db') = {}
    BY <1>0, <1>1, <1>6 DEF Saving, Sweeping
  <2>3. ASSUME NEW q \in Procs
        PROVE  Kept(db', tx'[q], ins'[q], del'[q], q \in Workers)
    <3>1. CASE q = p
      BY <1>2, <3>1 DEF Kept
    <3>2. CASE q # p
      <4>1. q \in Workers
        BY <1>6, <3>2 DEF OneEditor
      <4>2. Kept(db, tx[q], ins[q], del[q], q \in Workers)
        BY DEF EditorInv
      <4>3. tx'[q] # NoTx => tx[q] # NoTx /\ tx'[q].kind = tx[q].kind
        <5>1. tx[q] # NoTx => Skip(tx[q], del[p]).kind = tx[q].kind
          BY <1>2, <3>2 DEF Skip, Tx
        <5>2. tx[q] = NoTx => Skip(tx[q], del[p]) = NoTx
          BY DEF Skip
        <5> QED
          BY <1>2, <3>2, <5>1, <5>2
      <4> QED
        BY <1>2, <3>2, <4>1, <4>2, <4>3 DEF Kept
    <3> QED
      BY <3>1, <3>2
  <2> QED
    BY <1>4, <2>1, <2>2, <2>3 DEF EditorInv
<1> QED
  BY <1>5, <1>6

\* Every step keeps the invariant.
LEMMA EditorStepInv ==
  ASSUME StoreInv, OneEditor, EditorInv, [Next]_vars
  PROVE  EditorInv'
<1>1. CASE Next
  <2>1. PICK p \in Procs : (\E op \in Ops : Begin(p, op)) \/ Work(p) \/ Cancel(p) \/ RowsErr(p)
    BY <1>1 DEF Next
  <2>2. CASE \E op \in Ops : Begin(p, op)
    BY <2>2, BeginKeeps
  <2>3. CASE Cancel(p) \/ Missing(p) \/ DeadlockAbort(p)
    BY <2>3, RollbackKeeps DEF Cancel, Missing, DeadlockAbort
  <2>4. CASE RowsErr(p)
    BY <2>4, RowsErrKeeps
  <2>5. CASE Advance(p)
    BY <2>5, AdvanceKeeps
  <2>6. CASE Commit(p)
    BY <2>6, CommitKeeps
  <2>7. ASSUME NEW r \in Rows, DeleteRow(p, r)
        PROVE  EditorInv'
    BY <2>7, DeleteKeeps
  <2>8. ASSUME NEW r \in Rows, UpdateItem(p, r) \/ LockRow(p, r) \/ CheckKey(p, r)
        PROVE  EditorInv'
    BY <2>8, ScanKeeps
  <2>9. ASSUME NEW r \in Rows, SkipLocked(p, r)
        PROVE  EditorInv'
    BY <2>9, SkipKeeps
  <2>10. ASSUME NEW r \in Rows, InsertRow(p, r)
         PROVE  EditorInv'
    BY <2>10, InsertKeeps
  <2>11. ASSUME NEW r \in Rows, KeyMissing(p, r)
         PROVE  EditorInv'
    BY <2>11, RollbackKeeps DEF KeyMissing
  <2> QED
    BY <2>1, <2>2, <2>3, <2>4, <2>5, <2>6, <2>7, <2>8, <2>9, <2>10, <2>11 DEF Work
<1>2. CASE UNCHANGED vars
  BY <1>2 DEF vars, EditorInv
<1> QED
  BY <1>1, <1>2

\* So it always holds, with one editor.
LEMMA EditorInvariant == OneEditor => (Spec => []EditorInv)
<1> SUFFICES ASSUME OneEditor
             PROVE  Spec => []EditorInv
  OBVIOUS
<1>1. Init => StoreInv /\ EditorInv
  BY StoreInitInv, EditorInitInv
<1>2. StoreInv /\ EditorInv /\ [Next]_vars => (StoreInv /\ EditorInv)'
  BY StoreStepInv, EditorStepInv
<1> QED
  BY <1>1, <1>2, PTL DEF Spec

\* With one editor, an item has the tags it was last saved with, whatever the
\* workers store, whichever transactions are rolled back, for any number of items,
\* tags and requests.
THEOREM ItemsKeepTheirTags == OneEditor => (Spec => []TagsAsLastSaved)
<1> SUFFICES ASSUME OneEditor
             PROVE  Spec => []TagsAsLastSaved
  OBVIOUS
<1>1. StoreInv /\ EditorInv => TagsAsLastSaved
  BY LinksByTag DEF StoreInv, StoreTypes, EditorInv, TagsAsLastSaved
<1>2. Spec => []StoreInv /\ []EditorInv
  BY StoreInvariant, EditorInvariant
<1> QED
  BY <1>1, <1>2, PTL

\* With one editor, no tag is left that no item has.
THEOREM NoTagLeftBehind == OneEditor => (Spec => []NoOrphanTags)
<1> SUFFICES ASSUME OneEditor
             PROVE  Spec => []NoOrphanTags
  OBVIOUS
<1>1. EditorInv => NoOrphanTags
  BY LinksToNone DEF EditorInv, NoOrphanTags, Bare
<1>2. Spec => []EditorInv
  BY EditorInvariant
<1> QED
  BY <1>1, <1>2, PTL
=============================================================================
