------------------------------- MODULE TagEntry -------------------------------
(***************************************************************************)
(* The two forms that save a page with tags: the popup of the extension    *)
(* (extension/popup.js) and Quick Add (static/app.js 330-434 and           *)
(* handleUIQuickAddSubmit).  Both turn the text of an input into chips,    *)
(* and suggest tags; they differ in what a chip is, in what a click on a   *)
(* suggestion does first, and in what becomes of the chips that are sent.  *)
(*                                                                         *)
(* The order of chips does not matter: they are a set.                     *)
(***************************************************************************)
EXTENDS Naturals, FiniteSets

CONSTANTS
    Texts,    \* what can be typed, suggested, shown in a chip and saved
    Trimmed,  \* String.trim
    Normal,   \* tag.Normalize: trim, NFKC, lower case
    Pieces,   \* what parseTagInput cuts a text into at , ; and line ends
    Known,    \* the texts that the server suggests
    NoText, NoPress

\* The scripts and the server lower-case alike, and lower-casing keeps the
\* NFKC form (a capital I with a dot, say, is not in Texts): part of a
\* normalised text only loses its spaces when it is normalised again, and it
\* has no separator left to be cut at.  A normalised text can have one: the
\* cut is at ASCII separators, and NFKC makes these of the full-width ones.
ASSUME EntryAssumption ==
    /\ Known \subseteq Texts
    /\ NoText \notin Texts
    /\ {Trimmed, Normal} \subseteq [Texts -> Texts \cup {NoText}]
    /\ Pieces \in [Texts -> SUBSET Texts]
    /\ \A t \in Texts : Normal[t] # NoText =>
        \A p \in Pieces[Normal[t]] : Normal[p] # NoText =>
            Normal[Normal[p]] = Normal[p] /\ Pieces[Normal[p]] = {Normal[p]}

VARIABLES
    form,     \* which form it is
    chips,    \* its tags
    input,    \* the text in the input
    list,     \* suggestions shown
    asked,    \* some question to GET /v1/tags is not answered yet
    press     \* the mouse button is down on a suggestion

entryVars == <<form, chips, input, list, asked, press>>

\* What a press began with: history, but for the suggestion.
Press == [on : Texts, chips : SUBSET Texts, input : Texts \cup {NoText}]

EntryTypeOK ==
    /\ form \in {"popup", "quick", "done"}
    /\ chips \in SUBSET Texts
    /\ input \in Texts \cup {NoText}
    /\ list \in SUBSET Texts
    /\ asked \in BOOLEAN
    /\ press \in Press \cup {NoPress}

EntryInit ==
    /\ form \in {"popup", "quick"}
    /\ chips = {}
    /\ input = NoText
    /\ list = {}
    /\ asked = FALSE
    /\ press = NoPress

-----------------------------------------------------------------------------
\* addTag: the popup trims, Quick Add normalises.
Chip(t) == IF form = "popup" THEN Trimmed[t] ELSE Normal[t]
WithChipBug(t) == chips \cup {IF t = NoText THEN NoText ELSE Chip(t)}
WithChip(t) == IF t = NoText THEN chips ELSE chips \cup ({Chip(t)} \ {NoText})

\* The tags that parseTagInput makes of the chips of Quick Add, which arrive
\* joined with commas.
TagsOf(cs) == {Normal[p] : p \in UNION {Pieces[c] : c \in cs}} \ {NoText}

\* A suggestion is offered as it comes in the popup; Quick Add normalises it
\* and leaves out its chips.
OfferedBug(tags) == IF form = "popup" THEN tags ELSE {Normal[t] : t \in tags} \ {NoText}
Offered(tags) == IF form = "popup" THEN tags ELSE {Normal[t] : t \in tags} \ (chips \cup {NoText})

TypeText(t) ==
    /\ form # "done" /\ press = NoPress
    /\ input' = t
    /\ IF t = NoText THEN list' = {} /\ UNCHANGED asked ELSE asked' = TRUE /\ UNCHANGED list
    /\ UNCHANGED <<form, chips, press>>

\* An answer, to whichever question.  New buttons take the place of the one
\* under the mouse: no click comes of the press.
RenderSuggestions(tags) ==
    /\ form # "done"
    /\ asked
    /\ asked' \in BOOLEAN
    /\ list' = Offered(tags)
    /\ press' = NoPress
    /\ UNCHANGED <<form, chips, input>>

\* Enter or a comma.  Quick Add clears the suggestions, the popup does not.
AddTyped ==
    /\ form # "done" /\ press = NoPress
    /\ chips' = WithChip(input)
    /\ input' = NoText
    /\ list' = IF form = "popup" THEN list ELSE {}
    /\ UNCHANGED <<form, asked, press>>

DropChip(c) ==
    /\ form # "done" /\ press = NoPress
    /\ c \in chips
    /\ chips' = chips \ {c}
    /\ UNCHANGED <<form, input, list, asked, press>>

\* The focus goes elsewhere, to the Save button too: the text becomes a chip.
\* The popup then sends its chips and stays as it is.
Blur ==
    /\ form # "done" /\ press = NoPress
    /\ chips' = WithChip(input)
    /\ input' = NoText
    /\ list' = IF form = "popup" THEN list ELSE {}
    /\ UNCHANGED <<form, asked, press>>

\* The button goes down on a suggestion.  Quick Add prevents the default, so
\* that the input keeps the focus; in the popup the input is blurred first.
KeepsFocusBug == FALSE
KeepsFocus == form = "quick"
PressOn(t) ==
    /\ form # "done" /\ press = NoPress
    /\ t \in list
    /\ press' = [on |-> t, chips |-> chips, input |-> input]
    /\ IF KeepsFocus THEN UNCHANGED <<chips, input, list>>
       ELSE /\ chips' = WithChip(input)
            /\ input' = NoText
            /\ list' = IF form = "popup" THEN list ELSE {}
    /\ UNCHANGED <<form, asked>>

\* It comes up again: a click.
Click ==
    /\ press # NoPress
    /\ chips' = WithChip(press.on)
    /\ input' = NoText
    /\ list' = {}
    /\ press' = NoPress
    /\ UNCHANGED <<form, asked>>

-----------------------------------------------------------------------------
\* Quick Add is submitted and accepted: the page is left.
SubmitAccepted ==
    /\ form = "quick" /\ press = NoPress
    /\ form' = "done"
    /\ chips' = {} /\ input' = NoText /\ list' = {} /\ asked' = FALSE
    /\ UNCHANGED press

\* It is refused (CSRF, limit, URL, database): the form comes back with the
\* tags it was sent, and parseInitialTags cuts and normalises them once more.
RenderedBug(cs) == {}
Rendered(cs) == TagsOf(cs)
SubmitRefused ==
    /\ form = "quick" /\ press = NoPress
    /\ chips' = Rendered(WithChip(input))
    /\ input' = NoText /\ list' = {} /\ asked' = FALSE
    /\ UNCHANGED <<form, press>>

EntryNext ==
    \/ TypeText(NoText) \/ AddTyped \/ Blur \/ Click
    \/ SubmitAccepted \/ SubmitRefused
    \/ \E t \in Texts : TypeText(t) \/ DropChip(t) \/ PressOn(t)
    \/ \E tags \in SUBSET Known : RenderSuggestions(tags)

EntrySpec == EntryInit /\ [][EntryNext]_entryVars
-----------------------------------------------------------------------------
(***************************************************************************)
(* Properties                                                              *)
(***************************************************************************)

\* Nothing becomes a chip that was not meant.  A click on a suggestion adds
\* this tag to the chips there were before the button went down, and nothing
\* else; only the popup also adds the text that was being typed, because its
\* input is blurred first.  And a refused Quick Add comes back with chips that
\* mean the tags that were entered, although a chip with a separator comes
\* back as several (popup.js 85-98, 276-281, app.js 374-397, 427-433,
\* server.go 529-563, 767-772).
ChipsAsMeant ==
    [][/\ press # NoPress /\ press' = NoPress /\ input' = NoText /\ list' = {} =>
            chips' \ press.chips \subseteq
                {Chip(press.on)} \cup
                (IF form = "popup" /\ press.input # NoText THEN {Chip(press.input)} ELSE {})
       /\ SubmitRefused => TagsOf(chips') = TagsOf(WithChip(input))]_entryVars

\* Quick Add never offers what is a chip already, whichever question the
\* suggestions answer and whatever became a chip since it was asked (app.js
\* 367-386, 397-433).  The popup offers such tags.
OfferedAreNew == form = "quick" => list \cap chips = {}
=============================================================================
