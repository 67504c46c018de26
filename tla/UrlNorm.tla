------------------------------- MODULE UrlNorm -------------------------------
(***************************************************************************)
(* Which pages are one item: Canonicalize (internal/urlnorm) over the URLs *)
(* a page is saved under, createItem and the UNIQUE (user_id,              *)
(* canonical_hash) of CreateItem.                                          *)
(*                                                                         *)
(* A URL is its path and its query; scheme, host and fragment are kept as  *)
(* they come, and the hash stands for the text it is made of.  A path is a *)
(* sequence of tokens, a query one of pairs.  Keys are numbers in the      *)
(* order of sort.Strings, and a pair is told by its decoded key and value. *)
(***************************************************************************)
EXTENDS SequencesExt, Sorting

CONSTANTS
    NumKeys,   \* bound: the keys of queries
    Tracking,  \* those that begin with utm_, and fbclid and gclid
    Values,
    BadPair,   \* a pair with a `;' or a broken escape: Query() drops it
    Tokens,    \* bound: the tokens of paths
    MaxPath, MaxQuery, \* bounds: tokens and pairs of a URL
    NoUrl

Keys == 1 .. NumKeys
Pairs == (Keys \X Values) \cup {BadPair}

ASSUME UrlAssumption ==
    /\ {NumKeys, MaxPath, MaxQuery} \subseteq Nat
    /\ Tracking \subseteq 1 .. NumKeys
    /\ BadPair \notin (1 .. NumKeys) \X Values
    /\ NoUrl \notin [path : Seq(Tokens), query : Seq(Pairs), bare : BOOLEAN]
    /\ Tokens \subseteq {"/", "a", "%61", "%2F"}

VARIABLES
    url,   \* under which the page is open
    saved, \* canonical_url of its item, once it is saved
    split  \* history: a spelling was opened that the code takes for another page

urlVars == <<url, saved, split>>

Paths == {<<>>} \cup {<<"/">> \o p : p \in BoundedSeq(Tokens, MaxPath - 1)}
Queries == BoundedSeq(Pairs, MaxQuery)
\* `bare': a question mark and nothing after it.
Urls == {u \in [path : Paths, query : Queries, bare : BOOLEAN] : u.bare => u.query = <<>>}

-----------------------------------------------------------------------------
\* What url.Parse makes of a token.
Decoded(token) == CASE token = "%61" -> "a" [] token = "%2F" -> "/" [] OTHER -> token

EndsInSlash(path) == path # <<>> /\ Decoded(Last(path)) = "/"

\* strings.TrimRight(u.Path, "/"), or "/" if nothing is left.
TrimSlashes(path) ==
    LET other(token) == token # "/"
        kept == SubSeq(path, 1, SelectLastInSeq(path, other))
    IN  IF kept = <<>> THEN <<"/">> ELSE kept

\* A path that is trimmed is written anew from the decoded one; any other is
\* written as it was spelled, because RawPath still fits.
CanonPath(path) ==
    LET decoded == [i \in DOMAIN path |-> Decoded(path[i])]
    IN  IF decoded # <<"/">> /\ EndsInSlash(decoded) THEN TrimSlashes(decoded) ELSE path

KeptBug(pair) == pair # BadPair
Kept(pair) == pair # BadPair /\ pair[1] \notin Tracking

\* values.Encode(): by key, the values of one key in their order.
InKeyOrder(query, S) ==
    LET before(i, j) ==
            query[i][1] < query[j][1] \/ (query[i][1] = query[j][1] /\ i < j)
    IN  InOrder(query, S, before)

CanonQueryBug(query) ==  \* q.Get
    LET kept == {i \in DOMAIN query : Kept(query[i])}
        first(i) == \A j \in kept : j < i => query[j][1] # query[i][1]
    IN  InKeyOrder(query, {i \in kept : first(i)})
CanonQuery(query) == InKeyOrder(query, {i \in DOMAIN query : Kept(query[i])})

Canonicalize(u) ==
    [path |-> CanonPath(u.path), query |-> CanonQuery(u.query), bare |-> u.bare]

-----------------------------------------------------------------------------
UrlInit == url \in Urls /\ saved = NoUrl /\ split = FALSE

\* createItem, the first time.
SavePage == saved = NoUrl /\ saved' = Canonicalize(url) /\ UNCHANGED <<url, split>>

\* The saved page is opened by another spelling, that a link from elsewhere
\* may have.
Open(u) == saved # NoUrl /\ u \in Urls /\ url' = u /\ UNCHANGED saved

\* A question mark with nothing after it is kept (ForceQuery), but goes with
\* the parameters after it.
AddTracking(i, pair) ==
    /\ pair # BadPair /\ pair[1] \in Tracking
    /\ Open([url EXCEPT !.query = InsertAt(@, i, pair), !.bare = FALSE])
    /\ split' = (split \/ url.bare)

SwapPairs(i) ==
    /\ BadPair \notin {url.query[i], url.query[i + 1]} => url.query[i][1] # url.query[i + 1][1]
    /\ Open([url EXCEPT !.query = ReplaceAt(ReplaceAt(@, i, url.query[i + 1]), i + 1, url.query[i])])
    /\ UNCHANGED split

\* No path is not `/', and the escapes of a path are kept unless it ends in a
\* slash.
Escaped(path) == \E i \in DOMAIN path : path[i] \in {"%61", "%2F"}
AddSlash ==
    /\ Open([url EXCEPT !.path = Append(@, "/")])
    /\ split' = (split \/ url.path = <<>> \/ (Escaped(url.path) /\ ~EndsInSlash(url.path)))

\* The item's own link.
OpenCanonical == Open(Canonicalize(url)) /\ UNCHANGED split

UrlNext ==
    \/ SavePage
    \/ \E i \in 1 .. Len(url.query) + 1, pair \in Pairs : AddTracking(i, pair)
    \/ \E i \in 1 .. Len(url.query) - 1 : SwapPairs(i)
    \/ AddSlash
    \/ OpenCanonical

UrlSpec == UrlInit /\ [][UrlNext]_urlVars
-----------------------------------------------------------------------------
(***************************************************************************)
(* Properties                                                              *)
(***************************************************************************)

\* The item's own link, tracking parameters wherever they stand, another
\* order of keys and slashes at the end all lead to the item, and come back to
\* it from each other, but for three spellings, which the code takes for
\* another page for good: tracking parameters after a bare question mark, a
\* slash where there was no path, and a slash after a path with escapes that
\* had none (urlnorm.go 16-56).
SpellingsJoin == saved # NoUrl => (Canonicalize(url) = saved <=> ~split)

\* What the site is asked for: only the escape of a letter is another
\* spelling of the same.
SitePath(path) == [i \in DOMAIN path |-> IF path[i] = "%61" THEN "a" ELSE path[i]]

PairsOf(query, k) == InOrder(query, {i \in DOMAIN query : query[i] \in {k} \X Values}, <)

\* Two pages are one item only by the slashes at the end of their paths, by
\* the order of their keys, by pairs that Query() drops or that are tracking,
\* or by an encoded slash that becomes a plain one when the path is trimmed;
\* then the second page is not saved, and its answer says created: false
\* (urlnorm.go 21-51, store.go 122-136).
PagesApart == saved # NoUrl =>
    /\ \A path \in Paths :
        /\ CanonPath(path) = CanonPath(url.path)
        /\ TrimSlashes(SitePath(path)) # TrimSlashes(SitePath(url.path))
        => \E p \in {path, url.path} : EndsInSlash(p) /\ \E i \in DOMAIN p : p[i] = "%2F"
    /\ \A query \in Queries :
        CanonQuery(query) = CanonQuery(url.query) =>
            \A k \in Keys \ Tracking : PairsOf(query, k) = PairsOf(url.query, k)
=============================================================================
