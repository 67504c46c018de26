------------------------------- MODULE MCParts -------------------------------
(***************************************************************************)
(* The parts of the system that share no variable, in one model: the       *)
(* limiter of the API process, a list that is being read, the forms of the *)
(* browser, the spellings of a URL, and the text of a page.  A behaviour   *)
(* of all of them is one of each, so one part moves and the others stay as *)
(* they began.                                                             *)
(***************************************************************************)
EXTENDS RateLimiter, ItemList, TagEditor, TagEntry, UrlNorm, PageText

CONSTANTS a, b, go, on, both, wide, blank, v, w

VARIABLE part  \* the part that moves

-----------------------------------------------------------------------------
\* ItemList
Wants(tag, q) == [tag |-> tag, q |-> q, relevance |-> q]
MCFilters == {Wants(NoTag, FALSE), Wants(a, FALSE), Wants(NoTag, TRUE)}
MCTagSets == {{}, {a, b}}
MCRows == {[tags |-> {}, text |-> TRUE, fetched |-> FALSE],
           [tags |-> {a, b}, text |-> FALSE, fetched |-> TRUE]}
MCTypedPages == {-1, 5}

\* TagEntry: `both' is the tags go and on with a separator between them, and
\* `wide' the same with a full-width separator; `blank' is spaces.
MCTexts == {go, on, both, wide, blank}
MCTrimmed == [t \in MCTexts |-> IF t = blank THEN NoText ELSE t]
MCNormal == [t \in MCTexts |-> IF t = wide THEN both ELSE MCTrimmed[t]]
MCPieces == [t \in MCTexts |-> IF t = both THEN {go, on} ELSE {t}]

\* PageText: nothing, a letter and a space, a space and a character of two
\* bytes, half a character.
MCNodeTexts == {<<>>, <<"a", "s">>, <<"s", "L", "C">>, <<"L">>}
MCTitles == {<<"a", "a", "s">>}
\* What is pruned is pruned whatever else it matches.
MCPage == PageInit /\ \A t \in {html, head} : t.pruned => t.content

-----------------------------------------------------------------------------
\* The parts that do not move keep some initial state.
ListAtRest ==
    /\ items = [i \in Numbers |-> IF i \in Library THEN CHOOSE r \in Rows : TRUE ELSE NoRow]
    /\ ListInit
    /\ listing.filter = CHOOSE f \in Filters : TRUE
    /\ listing.perPage = CHOOSE n \in PerPages : TRUE
EntryAtRest == EntryInit /\ form = "quick"
UrlAtRest == url = [path |-> <<>>, query |-> <<>>, bare |-> FALSE] /\ UrlInit
PageAtRest ==
    /\ nodes = [n \in Nodes |-> [up |-> IF n = Body THEN DocHtml ELSE Body, kinds |-> {},
                                 pruned |-> FALSE, text |-> <<>>]]
    /\ html = [content |-> FALSE, pruned |-> FALSE]
    /\ head = [content |-> FALSE, pruned |-> FALSE, text |-> CHOOSE t \in Titles : TRUE]
    /\ PageInit

PartsInit ==
    /\ part \in {"limiter", "list", "editor", "entry", "url", "page"}
    /\ Init
    /\ IF part = "list" THEN ListInit ELSE ListAtRest
    /\ IF part = "editor" THEN EditorInit ELSE Loaded({})
    /\ IF part = "entry" THEN EntryInit ELSE EntryAtRest
    /\ IF part = "url" THEN UrlInit ELSE UrlAtRest
    /\ IF part = "page" THEN MCPage ELSE PageAtRest

partsVars == <<part, vars, listVars, editorVars, entryVars, urlVars, pageVars>>

PartsNext ==
    /\ UNCHANGED part
    /\ IF part = "limiter" THEN Next ELSE UNCHANGED vars
    /\ IF part = "list" THEN ListNext ELSE UNCHANGED listVars
    /\ IF part = "editor" THEN EditorNext ELSE UNCHANGED editorVars
    /\ IF part = "entry" THEN EntryNext ELSE UNCHANGED entryVars
    /\ IF part = "url" THEN UrlNext ELSE UNCHANGED urlVars
    /\ IF part = "page" THEN PageNext ELSE UNCHANGED pageVars

\* The types of all parts.
PartsTypeOK == TypeOK /\ ListTypeOK /\ EditorTypeOK /\ EntryTypeOK /\ PageTypeOK

PartsSpec == PartsInit /\ [][PartsNext]_partsVars
=============================================================================
