------------------------------ MODULE TagEditor ------------------------------
(***************************************************************************)
(* The tag editor of the page of one item (static/app.js 52-328) and the   *)
(* PUT /v1/items/{id}/tags it sends, with one tab on the item.             *)
(*                                                                         *)
(* Tags are normalised names.  The order of tags does not matter, so a     *)
(* list of them is a set.                                                  *)
(***************************************************************************)
CONSTANTS
    Words,    \* what can be typed, suggested and saved
    NoWord, NoSave

VARIABLES
    item,     \* the tags of the item in the database
    display,  \* #detail-tags: the tags, and who rendered them
    open,     \* the editor is shown
    draft,    \* draftTags
    text,     \* the text in the input
    options,  \* suggestions
    active,   \* the highlighted suggestion
    asking,   \* some question to GET /v1/tags is not answered yet
    save,     \* the PUT in flight; meanwhile the Save button is disabled
    past      \* history, see Past

editorVars == <<item, display, open, draft, text, options, active, asking, save, past>>

\* `sent' is what the body said; `at' is how far the request has come.
\* History: the chips removed before the click.
Save == [sent : SUBSET Words, at : {"sent", "applied", "refused"},
         removed : SUBSET Words]

ASSUME EditorAssumption == NoWord \notin Words /\ NoSave \notin Save

\* removed: the chips removed since the editor was opened; touched: the draft
\* was changed since the save in flight began; unsure: the last save ended
\* without an answer, or with an answer without tags for a touched draft.
Past == [removed : SUBSET Words, touched : BOOLEAN, unsure : BOOLEAN]

EditorTypeOK ==
    /\ item \in SUBSET Words
    /\ display \in [tags : SUBSET Words, by : {"server", "script"}]
    /\ open \in BOOLEAN
    /\ draft \in SUBSET Words
    /\ text \in Words \cup {NoWord}
    /\ options \in SUBSET Words
    /\ active \in Words \cup {NoWord}
    /\ asking \in BOOLEAN
    /\ save \in Save \cup {NoSave}
    /\ past \in Past

\* templates/item_detail.html with the tags of GetItemDetail.
Loaded(tags) ==
    /\ item = tags
    /\ display = [tags |-> tags, by |-> "server"]
    /\ open = FALSE
    /\ draft = {}
    /\ text = NoWord
    /\ options = {}
    /\ active = NoWord
    /\ asking = FALSE
    /\ save = NoSave
    /\ past = [removed |-> {}, touched |-> FALSE, unsure |-> FALSE]

EditorInit == \E tags \in SUBSET Words : Loaded(tags)

\* querySelectorAll('.chip'): the template writes class "tag", renderDisplayTags
\* writes class "chip".
ReadDisplayTags(d) == IF d.by = "script" THEN d.tags ELSE {}

Touch == [past EXCEPT !.touched = @ \/ save # NoSave]

ClearInput == text' = NoWord /\ options' = {} /\ active' = NoWord

-----------------------------------------------------------------------------
(***************************************************************************)
(* The person.                                                             *)
(***************************************************************************)
OpenEditor ==
    /\ ~open
    /\ open' = TRUE
    /\ draft' = ReadDisplayTags(display)
    /\ ClearInput
    /\ past' = [Touch EXCEPT !.removed = {}]
    /\ UNCHANGED <<item, display, asking, save>>

Cancel ==
    /\ open
    /\ open' = FALSE
    /\ ClearInput
    /\ past' = [past EXCEPT !.removed = {}]
    /\ UNCHANGED <<item, display, draft, asking, save>>

\* An input event asks for suggestions; an empty input clears them.
Type(t) ==
    /\ open
    /\ text' = t
    /\ IF t = NoWord
       THEN options' = {} /\ active' = NoWord /\ UNCHANGED asking
       ELSE asking' = TRUE /\ UNCHANGED <<options, active>>
    /\ UNCHANGED <<item, display, open, draft, save, past>>

AddDraftTagBug(t) == draft' = draft \cup {t}
AddDraftTag(t) == draft' = draft \cup ({t} \ {NoWord})

\* Enter or a comma: a highlighted suggestion wins over the text.
Enter ==
    /\ open
    /\ AddDraftTag(IF active # NoWord THEN active ELSE text)
    /\ ClearInput
    /\ past' = Touch
    /\ UNCHANGED <<item, display, open, asking, save>>

\* The arrow keys, or Tab with several suggestions.
Highlight(t) ==
    /\ open
    /\ t \in options
    /\ active' = t
    /\ text' = t
    /\ UNCHANGED <<item, display, open, draft, options, asking, save, past>>

\* A click on a suggestion, or Tab with just one.
Pick(t) ==
    /\ open
    /\ t \in options
    /\ AddDraftTag(t)
    /\ ClearInput
    /\ past' = Touch
    /\ UNCHANGED <<item, display, open, asking, save>>

RemoveChip(t) ==
    /\ open
    /\ t \in draft
    /\ draft' = draft \ {t}
    /\ past' = [Touch EXCEPT !.removed = @ \cup {t}]
    /\ UNCHANGED <<item, display, open, text, options, active, asking, save>>

\* Escape, or 100 ms after a blur.
ClearSuggestions ==
    /\ options # {}
    /\ options' = {}
    /\ active' = NoWord
    /\ UNCHANGED <<item, display, open, draft, text, asking, save, past>>

\* The Save button: the text becomes a tag, and the draft is sent.
SaveEnabledBug == TRUE
SaveEnabled == save = NoSave
ClickSave ==
    /\ open
    /\ SaveEnabled
    /\ AddDraftTag(text)
    /\ ClearInput
    /\ save' = [sent |-> draft', at |-> "sent", removed |-> past.removed]
    /\ past' = [past EXCEPT !.touched = FALSE]
    /\ UNCHANGED <<item, display, open, asking>>

-----------------------------------------------------------------------------
(***************************************************************************)
(* The server and the answers.                                             *)
(***************************************************************************)

\* An answer to a question, whichever, with tags that match it by then.
\* Tags of the draft are left out; an error answer has none.
NewTagsBug(tags) == tags
NewTags(tags) == tags \ draft
SuggestionsCome(tags) ==
    /\ asking
    /\ asking' \in BOOLEAN
    /\ options' = NewTags(tags)
    /\ active' = NoWord
    /\ UNCHANGED <<item, display, open, draft, text, save, past>>

\* ReplaceItemTags commits.
Apply ==
    /\ save # NoSave /\ save.at = "sent"
    /\ item' = save.sent
    /\ save' = [save EXCEPT !.at = "applied"]
    /\ UNCHANGED <<display, open, draft, text, options, active, asking, past>>

\* 403, 404, 429 or 500.
Refuse ==
    /\ save # NoSave /\ save.at = "sent"
    /\ save' = [save EXCEPT !.at = "refused"]
    /\ UNCHANGED <<item, display, open, draft, text, options, active, asking, past>>

\* The tags of the answer, or the draft of now if the answer has none.
UpdatedBug(tags) == draft
Updated(tags) == IF tags = {} THEN draft ELSE tags

\* A 200: the tags are shown and the editor is closed, whoever opened it.
ShowSaved(tags) ==
    /\ save # NoSave /\ save.at = "applied"
    /\ display' = [tags |-> Updated(tags), by |-> "script"]
    /\ open' = FALSE
    /\ ClearInput
    /\ save' = NoSave
    /\ past' = [removed |-> {}, touched |-> FALSE, unsure |-> past.touched /\ tags = {}]
    /\ UNCHANGED <<item, draft, asking>>

\* Not ok: an alert.
ShowRefused ==
    /\ save # NoSave /\ save.at = "refused"
    /\ save' = NoSave
    /\ past' = [past EXCEPT !.touched = FALSE]
    /\ UNCHANGED <<item, display, open, draft, text, options, active, asking>>

\* No answer comes: fetch throws, and the button is enabled again.
AnswerLost ==
    /\ save # NoSave /\ save.at # "refused"
    /\ item' \in {item, save.sent}
    /\ save' = NoSave
    /\ past' = [past EXCEPT !.touched = FALSE, !.unsure = TRUE]
    /\ UNCHANGED <<display, open, draft, text, options, active, asking>>

SaveStep ==
    \/ Apply \/ Refuse
    \/ save # NoSave /\ ShowSaved(save.sent)
    \/ ShowSaved({})  \* res.json() failed
    \/ ShowRefused \/ AnswerLost

EditorNext ==
    \/ OpenEditor \/ Cancel \/ Enter \/ ClearSuggestions \/ ClickSave \/ Type(NoWord)
    \/ \E t \in Words :
        Type(t) \/ Highlight(t) \/ Pick(t) \/ RemoveChip(t)
    \/ \E tags \in SUBSET Words : SuggestionsCome(tags)
    \/ SaveStep

EditorSpec == EditorInit /\ [][EditorNext]_editorVars
-----------------------------------------------------------------------------
(***************************************************************************)
(* Properties                                                              *)
(***************************************************************************)

\* When the editor is closed and nothing is in flight, the page shows the
\* tags that the item has, also when the answer met an editor that was closed
\* and opened again.  `unsure' are the exceptions: an answer without tags, or
\* one that cannot be read, that comes when the draft has been changed since
\* the click makes the page show the draft (app.js 224-269).
ClosedShowsItem ==
    ~open /\ save = NoSave /\ ~past.unsure =>
        display.tags = item

\* What is suggested is not in the draft already, in whichever order the
\* answers and the changes of the draft come (app.js 164-195).
SuggestionsNew == open => options \cap draft = {}

\* A save takes only tags from the item whose chips somebody removed, once
\* the page has rendered the tags itself: even if the editor was opened while
\* an earlier save was in flight, whose answer it had not seen (app.js 77-80,
\* 197-231).
OwnTagsKept ==
    [][save # NoSave /\ display.by = "script" /\ ~past.unsure =>
        item \ item' \subseteq save.removed]_editorVars

\* What Edit tags sends (templates/item_detail.html 34) is the tags that the
\* page shows, without the chips that were removed, and what was added.  A
\* freshly loaded page breaks it: its editor opens empty (app.js 77-80).
UntouchedTagsKept ==
    save # NoSave => display.tags \ save.removed \subseteq save.sent
=============================================================================
