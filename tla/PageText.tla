------------------------------ MODULE PageText ------------------------------
(***************************************************************************)
(* From a page to what is stored of it: the second half of Fetch           *)
(* (internal/fetcher) with extractReadableContent and truncateUTF8.        *)
(*                                                                         *)
(* A page is html with a head, which holds the title and no block, and a   *)
(* body, which is a tree of elements numbered in the order of the document *)
(* from 1, the body itself.  An element matters for whether it is a block  *)
(* (h1 .. h6, p, li, blockquote, pre), whether it matches a content        *)
(* selector or a prune selector, and for its own text, which comes before  *)
(* its children.                                                           *)
(*                                                                         *)
(* Text is bytes: "a" a letter, "s" a space, "L" and "C" the two bytes of  *)
(* a longer character.  A page in another encoding, or cut by MaxBytes, can*)
(* have an "L" or a "C" alone.                                             *)
(***************************************************************************)
EXTENDS Integers, SequencesExt, Sorting

CONSTANTS
    MaxNodes,   \* bound: elements of a page
    NodeTexts,  \* bound: the own texts of elements
    Titles,     \* bound: the texts of heads
    ContentFullLimit, ContentSearchLimit,
    ExcerptLimit,  \* 200
    NoNode

Bytes == {"a", "s", "L", "C"}
Nodes == 1 .. MaxNodes
Body == 1
DocHtml == 0
DocHead == -1

ASSUME PageAssumption ==
    /\ {ContentFullLimit, ContentSearchLimit, ExcerptLimit} \subseteq Nat
    /\ MaxNodes \in Nat \ {0}
    /\ \A t \in NodeTexts \cup Titles : t \in Seq(Bytes)
    /\ NoNode \notin Nodes \cup {DocHtml, DocHead}

VARIABLES
    stage,    \* how far Fetch is
    nodes,    \* the body: [up, kinds, pruned, text] of its elements
    html,     \* [content, pruned]: does it match a selector
    head,     \* [content, pruned, text]: the head or its title
    root,     \* the element the text is taken from; NoNode is the document
    content   \* text, and what Result has of it

pageVars == <<stage, nodes, html, head, root, content>>

Node == [up : 0 .. MaxNodes, kinds : SUBSET {"block", "content"}, pruned : BOOLEAN,
         text : NodeTexts]
Tops == [content : BOOLEAN, pruned : BOOLEAN]
Heads == [content : BOOLEAN, pruned : BOOLEAN, text : Titles]
Content == [text : Seq(Bytes), full : Seq(Bytes), search : Seq(Bytes), excerpt : Seq(Bytes)]

\* The types, and what Result has of the text keeps within its limits
\* (fetcher.go 80-92).
PageTypeOK ==
    /\ stage \in {"parsed", "pruned", "rooted", "text", "done"}
    /\ nodes \in [Nodes -> Node]
    /\ html \in Tops /\ head \in Heads
    /\ root \in Nodes \cup {DocHtml, DocHead, NoNode}
    /\ content \in Content
    /\ Len(content.full) <= ContentFullLimit
    /\ Len(content.search) <= ContentSearchLimit
    /\ Len(content.excerpt) <= ExcerptLimit

-----------------------------------------------------------------------------
\* n contains i, or is i.
Inside(i, n) == LET inside[j \in 0 .. MaxNodes] == j # 0 /\ (j = n \/ inside[nodes[j].up])
                IN  inside[i]

Live(n) ==
    \/ stage = "parsed"
    \/ ~html.pruned /\ \A a \in Nodes : Inside(n, a) => ~nodes[a].pruned
HeadLive == stage = "parsed" \/ (~html.pruned /\ ~head.pruned)

\* Selection.Text, of an element of the body and of any.
Text(n) ==
    LET own(i) == IF Live(i) /\ Inside(i, n) THEN nodes[i].text ELSE <<>>
    IN  FlattenSeq([i \in Nodes |-> own(i)])
HeadText == IF HeadLive THEN head.text ELSE <<>>
TextOf(r) ==
    IF r = DocHead THEN HeadText
    ELSE IF r \in {NoNode, DocHtml} THEN HeadText \o Text(Body) ELSE Text(r)

\* The words of a text, joined by one space.
NormalizeText(t) ==
    LET kept(i) == \/ t[i] # "s"
                   \/ i > 1 /\ t[i - 1] # "s" /\ \E j \in i .. Len(t) : t[j] # "s"
    IN  InOrder(t, {i \in DOMAIN t : kept(i)}, <)

Whole(t, i) == t[i] = "C" /\ i > 1 /\ t[i - 1] = "L"

\* utf8.RuneCountInString of the normalized text.
TextScore(t) ==
    LET n == NormalizeText(t) IN Quantify(DOMAIN n, LAMBDA i : ~Whole(n, i))

\* utf8.Valid
Valid(t) ==
    \A i \in DOMAIN t :
        /\ t[i] = "L" => i < Len(t) /\ t[i + 1] = "C"
        /\ t[i] = "C" => Whole(t, i)

TruncateUTF8LongBug(t, limit) == IF Len(t) <= limit + 1 THEN t ELSE SubSeq(t, 1, limit)
TruncateUTF8Bug(t, limit) == IF Len(t) <= limit THEN t ELSE SubSeq(t, 1, limit)
TruncateUTF8(t, limit) ==
    IF Len(t) <= limit THEN t
    ELSE SubSeq(t, 1, Max({n \in 0 .. limit : Valid(SubSeq(t, 1, n))}))

-----------------------------------------------------------------------------
NoContent == [text |-> <<>>, full |-> <<>>, search |-> <<>>, excerpt |-> <<>>]

\* The page as goquery.NewDocumentFromReader returns it.
PageInit ==
    /\ stage = "parsed"
    /\ nodes \in [Nodes -> Node]
    /\ nodes[Body].up = DocHtml /\ "block" \notin nodes[Body].kinds
    /\ \A n \in Nodes \ {Body} : nodes[n].up \in 1 .. n - 1 /\ Inside(n - 1, nodes[n].up)
    /\ html \in Tops /\ head \in Heads
    /\ root = NoNode
    /\ content = NoContent

PruneNonContent ==
    /\ stage = "parsed"
    /\ stage' = "pruned"
    /\ UNCHANGED <<nodes, html, head, root, content>>

\* What doc.Find of the content selectors reaches.
Candidates ==
    {n \in Nodes : Live(n) /\ "content" \in nodes[n].kinds}
    \cup {r \in {DocHtml} : html.content /\ ~html.pruned}
    \cup {r \in {DocHead} : head.content /\ HeadLive}

\* The body, unless a candidate has more text; of the best the one that the
\* selectors, which have an order of their own, find first.
BetterBug(score, best) == score >= best
Better(score, best) == score > best
SelectContentRoot ==
    /\ stage = "pruned"
    /\ stage' = "rooted"
    /\ LET body == IF Live(Body) THEN Body ELSE NoNode
           bodyScore == IF body = NoNode THEN 0 ELSE TextScore(Text(Body))
           score(r) == TextScore(TextOf(r))
           better == {r \in Candidates : Better(score(r), bodyScore)}
       IN  root' \in IF better = {} THEN {body}
                     ELSE {r \in better : \A q \in better : score(q) <= score(r)}
    /\ UNCHANGED <<nodes, html, head, content>>

\* The texts of the blocks below the root, each once.
ExtractBlocksBug(r) ==  \* only the children of the root
    LET block(n) == Live(n) /\ "block" \in nodes[n].kinds /\ nodes[n].up = r
    IN  InOrder([n \in Nodes |-> NormalizeText(Text(n))], {n \in Nodes : block(n)}, <)
ExtractBlocks(r) ==
    LET below(n) == r \in {NoNode, DocHtml} \/ (n # r /\ Inside(n, r))
        words(n) == IF Live(n) /\ "block" \in nodes[n].kinds /\ below(n)
                    THEN NormalizeText(Text(n)) ELSE <<>>
        first(n) == words(n) # <<>> /\ \A m \in 1 .. n - 1 : words(m) # words(n)
    IN  InOrder([n \in Nodes |-> words(n)], {n \in Nodes : first(n)}, <)

\* extractReadableContent, from its root on.
Readable(r) ==
    LET blocks == ExtractBlocks(r)
        line(k) == IF k = 1 THEN blocks[k] ELSE <<"s", "s">> \o blocks[k]
    IN  IF blocks = <<>> THEN NormalizeText(TextOf(r))
        ELSE FlattenSeq([k \in DOMAIN blocks |-> line(k)])

ExtractReadableContent ==
    /\ stage = "rooted"
    /\ stage' = "text"
    /\ content' = [content EXCEPT !.text = Readable(root)]
    /\ UNCHANGED <<nodes, html, head, root>>

Truncate ==
    /\ stage = "text"
    /\ stage' = "done"
    /\ LET full == TruncateUTF8(content.text, ContentFullLimit)
           searchText == NormalizeText(full)
       IN  content' = [content EXCEPT !.full = full,
                         !.search = TruncateUTF8(searchText, ContentSearchLimit),
                         !.excerpt = TruncateUTF8(searchText, ExcerptLimit)]
    /\ UNCHANGED <<nodes, html, head, root>>

PageNext == PruneNonContent \/ SelectContentRoot \/ ExtractReadableContent \/ Truncate

PageSpec == PageInit /\ [][PageNext]_pageVars
-----------------------------------------------------------------------------
(***************************************************************************)
(* Properties                                                              *)
(***************************************************************************)

\* The content selectors choose nothing below the body: no element in it scores
\* more than the body, whatever its text.  Only html or a head that matches
\* one can take the place of the body: html with the title before its text,
\* a head only if it is longer than the body (fetcher.go 181-196).
NoneBelowBody ==
    stage \notin {"parsed", "pruned"} =>
        \/ root = IF Live(Body) THEN Body ELSE NoNode
        \/ root = DocHtml /\ html.content /\ HeadLive
        \/ root = DocHead /\ head.content /\ TextScore(HeadText) > TextScore(Text(Body))

\* Text of the body that is left after pruning is not lost altogether, and
\* that of a block not at all, also when it is below a block or equal to
\* another, unless a head that matches a content selector is taken for the
\* page (fetcher.go 156-215).
VisibleTextKept ==
    stage \in {"text", "done"} =>
        \A n \in Nodes : Live(n) /\ NormalizeText(nodes[n].text) # <<>> =>
            /\ content.text # <<>>
            /\ "block" \in nodes[n].kinds /\ root # DocHead =>
                \E i \in DOMAIN content.text :
                    IsPrefix(NormalizeText(Text(n)), SubSeq(content.text, i, Len(content.text)))

\* What is stored of a text of whole characters is whole characters, short
\* of its limit by less than a character; and a text with other bytes is cut
\* before them if it is longer than the limit, but stored with them, for
\* PostgreSQL to refuse, if it is not (fetcher.go 81-84, 225-238).
CutIsClean ==
    stage = "done" =>
        /\ \A part \in {content.full, content.search, content.excerpt} :
            Valid(content.text) => Valid(part)
        /\ ~Valid(content.full) => content.full = content.text
        /\ Valid(content.text) /\ content.full # content.text =>
            Len(content.full) >= ContentFullLimit - 1
=============================================================================
