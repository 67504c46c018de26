----------------------------- MODULE FormProofs -----------------------------
(***************************************************************************)
(* The forms of the browser, for any set of tags and texts.                *)
(*                                                                         *)
(* TagEntry, for any way of trimming, normalising and cutting texts that   *)
(* keeps the laws of EntryAssumption: nothing becomes a chip that was not  *)
(* meant, and Quick Add never offers what is a chip already.               *)
(*                                                                         *)
(* TagEditor: the closed editor shows what the item has, nothing is        *)
(* suggested twice, and a save takes away only what somebody removed.      *)
(***************************************************************************)
EXTENDS TagEditor, TagEntry, TLAPS

-----------------------------------------------------------------------------
(***************************************************************************)
(* TagEntry                                                                *)
(***************************************************************************)

\* While the button is down, the chips are those of before, and in the popup
\* the text that was being typed.
PressKept ==
    press # NoPress =>
        chips \subseteq press.chips \cup
            (IF form = "popup" /\ press.input # NoText THEN {Chip(press.input)} ELSE {})

\* The chips of Quick Add are normalised texts.
NormalTexts == {Normal[t] : t \in Texts} \ {NoText}
ChipsNormal == form = "quick" => chips \subseteq NormalTexts

CInv == EntryTypeOK /\ OfferedAreNew /\ ChipsNormal /\ PressKept

-----------------------------------------------------------------------------
(***************************************************************************)
(* What the operators on chips return.                                     *)
(***************************************************************************)
LEMMA ChipTyped ==
    ASSUME NEW t \in Texts
    PROVE  Chip(t) \in Texts \cup {NoText}
  BY EntryAssumption DEF Chip

LEMMA WithChipTyped ==
    ASSUME chips \in SUBSET Texts, ChipsNormal, NEW t \in Texts \cup {NoText}
    PROVE  /\ WithChip(t) \in SUBSET Texts
           /\ form = "quick" => WithChip(t) \subseteq NormalTexts
  BY ChipTyped DEF WithChip, Chip, ChipsNormal, NormalTexts

\* The server makes normalised texts of chips.
LEMMA TagsOfTyped ==
    ASSUME NEW cs \in SUBSET Texts
    PROVE  TagsOf(cs) \in SUBSET Texts /\ TagsOf(cs) \subseteq NormalTexts
<1> DEFINE pieces == UNION {Pieces[c] : c \in cs}
<1>1. pieces \subseteq Texts
  BY EntryAssumption
<1>2. TagsOf(cs) = {Normal[p] : p \in pieces} \ {NoText}
  BY DEF TagsOf
<1> HIDE DEF pieces
<1>3. {Normal[p] : p \in pieces} \subseteq Texts \cup {NoText}
  BY <1>1, EntryAssumption
<1> QED
  BY <1>1, <1>2, <1>3 DEF NormalTexts

\* A refused Quick Add that is sent again means the same tags.
LEMMA TagsOfTwice ==
    ASSUME NEW cs \in SUBSET Texts, cs \subseteq NormalTexts
    PROVE  TagsOf(TagsOf(cs)) = TagsOf(cs)
<1> DEFINE pieces == UNION {Pieces[c] : c \in cs}
           tags == {Normal[p] : p \in pieces} \ {NoText}
           again == UNION {Pieces[c] : c \in tags}
<1>1. TagsOf(cs) = tags
  BY DEF TagsOf
<1>2. ASSUME NEW c \in tags PROVE Pieces[c] = {c} /\ Normal[c] = c
  <2>1. PICK d \in cs : \E p \in Pieces[d] : c = Normal[p]
    OBVIOUS
  <2>2. PICK p \in Pieces[d] : c = Normal[p] /\ Normal[p] # NoText
    BY <2>1
  <2>3. PICK t \in Texts : d = Normal[t] /\ Normal[t] # NoText
    BY DEF NormalTexts
  <2>4. Normal[Normal[p]] = Normal[p] /\ Pieces[Normal[p]] = {Normal[p]}
    BY <2>2, <2>3, EntryAssumption
  <2> QED
    BY <2>2, <2>4
<1> HIDE DEF tags
<1>3. again = tags
  BY <1>2
<1>4. TagsOf(tags) = {Normal[p] : p \in again} \ {NoText}
  BY DEF TagsOf
<1>5. {Normal[p] : p \in tags} = tags
  BY <1>2
<1>6. NoText \notin tags
  BY DEF tags
<1> QED
  BY <1>1, <1>3, <1>4, <1>5, <1>6

LEMMA OfferedTyped ==
    ASSUME NEW tags \in SUBSET Known
    PROVE  /\ Offered(tags) \in SUBSET Texts
           /\ form = "quick" => Offered(tags) \cap chips = {}
  BY EntryAssumption DEF Offered

-----------------------------------------------------------------------------
LEMMA EntryInitInv == EntryInit => CInv
  BY DEF EntryInit, CInv, EntryTypeOK, OfferedAreNew, ChipsNormal, PressKept

\* What the steps have in common after which no button is down.
LEMMA NoPressStep ==
    ASSUME EntryTypeOK', press' = NoPress, OfferedAreNew', ChipsNormal'
    PROVE  CInv'
  BY DEF CInv, PressKept

LEMMA EntryStepInv == CInv /\ [EntryNext]_entryVars => CInv'
<1> SUFFICES ASSUME CInv, [EntryNext]_entryVars PROVE CInv'
  OBVIOUS
<1>0. EntryTypeOK /\ OfferedAreNew /\ ChipsNormal
  BY DEF CInv
<1>1. WithChip(input) \in SUBSET Texts /\ (form = "quick" => WithChip(input) \subseteq NormalTexts)
  BY <1>0, WithChipTyped DEF EntryTypeOK
<1> USE DEF OfferedAreNew, ChipsNormal
<1>2. NormalTexts' = NormalTexts
  BY DEF NormalTexts
<1>3. ASSUME NEW t \in Texts \cup {NoText}, TypeText(t) PROVE CInv'
  BY <1>0, <1>2, <1>3, NoPressStep DEF TypeText, EntryTypeOK
<1>4. CASE AddTyped \/ Blur
  <2>1. /\ chips' = WithChip(input) /\ input' = NoText /\ UNCHANGED <<form, asked, press>>
        /\ press = NoPress /\ list' = IF form = "popup" THEN list ELSE {}
    BY <1>4 DEF AddTyped, Blur
  <2> QED
    BY <1>0, <1>1, <1>2, <2>1, NoPressStep DEF EntryTypeOK
<1>5. CASE Click
  <2>1. press.on \in Texts
    BY <1>0, <1>5 DEF Click, EntryTypeOK, Press
  <2>2. /\ WithChip(press.on) \in SUBSET Texts
        /\ form = "quick" => WithChip(press.on) \subseteq NormalTexts
    BY <1>0, <2>1, WithChipTyped DEF EntryTypeOK
  <2> QED
    BY <1>0, <1>2, <1>5, <2>2, NoPressStep DEF Click, EntryTypeOK
<1>6. CASE SubmitAccepted
  BY <1>0, <1>2, <1>6, NoPressStep DEF SubmitAccepted, EntryTypeOK
<1>7. CASE SubmitRefused
  <2>1. TagsOf(WithChip(input)) \in SUBSET Texts /\ TagsOf(WithChip(input)) \subseteq NormalTexts
    BY <1>1, TagsOfTyped
  <2> QED
    BY <1>0, <1>2, <1>7, <2>1, NoPressStep DEF SubmitRefused, Rendered, EntryTypeOK
<1>8. ASSUME NEW c \in Texts, DropChip(c) PROVE CInv'
  BY <1>0, <1>2, <1>8, NoPressStep DEF DropChip, EntryTypeOK
<1>9. ASSUME NEW t \in Texts, PressOn(t) PROVE CInv'
  <2>1. press' \in Press /\ press'.chips = chips /\ press'.input = input
    BY <1>0, <1>9 DEF PressOn, Press, EntryTypeOK
  <2>2. \/ chips' = chips /\ input' = input /\ list' = list
        \/ /\ ~KeepsFocus /\ chips' = WithChip(input) /\ input' = NoText
           /\ list' = IF form = "popup" THEN list ELSE {}
    BY <1>9 DEF PressOn
  <2>3. EntryTypeOK'
    BY <1>0, <1>1, <1>9, <2>1, <2>2 DEF PressOn, EntryTypeOK
  <2>4. PressKept'
    BY <1>0, <1>9, <2>1, <2>2 DEF PressOn, PressKept, WithChip, KeepsFocus, Chip, EntryTypeOK
  <2>5. OfferedAreNew' /\ ChipsNormal'
    BY <1>0, <1>1, <1>2, <1>9, <2>2 DEF PressOn
  <2> QED
    BY <2>3, <2>4, <2>5 DEF CInv
<1>10. ASSUME NEW tags \in SUBSET Known, RenderSuggestions(tags) PROVE CInv'
  BY <1>0, <1>2, <1>10, OfferedTyped, NoPressStep DEF RenderSuggestions, EntryTypeOK
<1>11. CASE UNCHANGED entryVars
  BY <1>2, <1>11 DEF entryVars, CInv, EntryTypeOK, PressKept, Chip
<1> QED
  BY <1>3, <1>4, <1>5, <1>6, <1>7, <1>8, <1>9, <1>10, <1>11 DEF EntryNext

\* Whatever was asked and answered in between, Quick Add never offers a tag
\* that is a chip already.
THEOREM NoChipIsOffered == EntrySpec => []OfferedAreNew
<1>1. CInv => OfferedAreNew
  BY DEF CInv
<1> QED
  BY <1>1, EntryInitInv, EntryStepInv, PTL DEF EntrySpec

\* What ends a press adds the suggestion and nothing else that was not meant.
LEMMA PressEnds ==
    ASSUME CInv, EntryNext, press # NoPress, press' = NoPress
    PROVE  chips' \ press.chips \subseteq
               {Chip(press.on)} \cup
               (IF form = "popup" /\ press.input # NoText THEN {Chip(press.input)} ELSE {})
<1>1. CASE Click
  <2>1. chips' \subseteq chips \cup {Chip(press.on)}
    BY <1>1 DEF Click, WithChip
  <2> QED
    BY <2>1 DEF CInv, PressKept
<1>2. CASE chips' = chips
  BY <1>2 DEF CInv, PressKept
<1> QED
  BY <1>1, <1>2 DEF EntryNext, TypeText, AddTyped, Blur, SubmitAccepted, SubmitRefused,
     DropChip, PressOn, RenderSuggestions

\* A click adds its suggestion and, in the popup only, the text that was being
\* typed; a refused Quick Add means the tags that were entered.
THEOREM ChipsAreMeant == EntrySpec => ChipsAsMeant
<1> DEFINE Clicked ==
               press # NoPress /\ press' = NoPress /\ input' = NoText /\ list' = {} =>
                   chips' \ press.chips \subseteq
                       {Chip(press.on)} \cup
                       (IF form = "popup" /\ press.input # NoText THEN {Chip(press.input)} ELSE {})
           Refused == SubmitRefused => TagsOf(chips') = TagsOf(WithChip(input))
<1>1. ASSUME CInv, EntryNext PROVE Clicked /\ Refused
  <2>1. Clicked
    BY <1>1, PressEnds
  <2>2. Refused
    <3>1. /\ WithChip(input) \in SUBSET Texts
          /\ form = "quick" => WithChip(input) \subseteq NormalTexts
      BY <1>1, WithChipTyped DEF CInv, EntryTypeOK
    <3> QED
      BY <3>1, TagsOfTwice DEF SubmitRefused, Rendered
  <2> QED
    BY <2>1, <2>2
<1>2. CInv /\ [EntryNext]_entryVars => [Clicked /\ Refused]_entryVars
  BY <1>1
<1> QED
  BY <1>2, EntryInitInv, EntryStepInv, PTL DEF EntrySpec, ChipsAsMeant

-----------------------------------------------------------------------------
(***************************************************************************)
(* TagEditor                                                               *)
(***************************************************************************)

\* A save was applied, or the page still shows what the item has.
ShownOrApplied ==
    /\ save # NoSave /\ save.at = "applied" => item = save.sent
    /\ ~past.unsure /\ (save = NoSave \/ save.at # "applied") => display.tags = item

\* The draft is what was sent, unless somebody has touched it since.
DraftSent == save # NoSave /\ ~past.touched => draft = save.sent

\* Once the page has rendered the tags itself, the draft has them, and so
\* has what was sent, but for the chips that were removed.
DraftKeeps ==
    display.by = "script" =>
        /\ open => display.tags \ past.removed \subseteq draft
        /\ save # NoSave => display.tags \ save.removed \subseteq save.sent

EInv == EditorTypeOK /\ SuggestionsNew /\ ShownOrApplied /\ DraftSent /\ DraftKeeps

USE EditorAssumption

LEMMA EditorInitInv == EditorInit => EInv
<1> SUFFICES ASSUME NEW tags \in SUBSET Words, Loaded(tags) PROVE EInv
  BY DEF EditorInit
<1>1. past \in Past
  BY DEF Loaded, Past
<1>2. EditorTypeOK
  BY <1>1 DEF Loaded, EditorTypeOK
<1> QED
  BY <1>2 DEF Loaded, EInv, SuggestionsNew, ShownOrApplied, DraftSent, DraftKeeps

\* What the history says after the draft was changed.
LEMMA Touched ==
    ASSUME past \in Past
    PROVE  /\ Touch \in Past
           /\ Touch.removed = past.removed /\ Touch.unsure = past.unsure
           /\ save # NoSave => Touch.touched
  BY Zenon DEF Touch, Past

\* The same after chips were removed, and after an editor was opened.
LEMMA TouchedRemoved ==
    ASSUME past \in Past, NEW R \in SUBSET Words
    PROVE  LET p == [Touch EXCEPT !.removed = R]
           IN  /\ p \in Past
               /\ p.removed = R /\ p.unsure = past.unsure
               /\ save # NoSave => p.touched
<1> DEFINE q == Touch
<1>1. q \in Past /\ q.unsure = past.unsure /\ (save # NoSave => q.touched)
  BY Touched
<1> HIDE DEF q
<1>2. [q EXCEPT !.removed = R] \in Past
  BY <1>1, Zenon DEF Past
<1>3. [q EXCEPT !.removed = R].removed = R
         /\ [q EXCEPT !.removed = R].unsure = q.unsure
         /\ [q EXCEPT !.removed = R].touched = q.touched
  BY <1>1, Zenon DEF Past
<1> QED
  BY <1>1, <1>2, <1>3 DEF q

\* Steps that leave the item, the page and the save alone, and with them
\* what was sent.
Drafting == UNCHANGED <<item, display, save>>

LEMMA DraftingStep ==
    ASSUME EInv, EditorTypeOK', SuggestionsNew', Drafting, past'.unsure = past.unsure,
           save # NoSave /\ ~past'.touched => ~past.touched /\ draft' = draft,
           display.by = "script" /\ open' => display.tags \ past'.removed \subseteq draft'
    PROVE  EInv'
  BY DEF EInv, ShownOrApplied, DraftSent, DraftKeeps, Drafting

LEMMA EditorStepInv == EInv /\ [EditorNext]_editorVars => EInv'
<1> SUFFICES ASSUME EInv, [EditorNext]_editorVars PROVE EInv'
  OBVIOUS
<1>0. EditorTypeOK /\ past \in Past /\ past.removed \in SUBSET Words /\ SuggestionsNew
  BY DEF EInv, EditorTypeOK, Past
<1>1. CASE OpenEditor
  <2>1. past' \in Past /\ past'.removed = {} /\ past'.unsure = past.unsure
           /\ (save # NoSave => past'.touched)
    BY <1>0, <1>1, TouchedRemoved DEF OpenEditor
  <2>2. EditorTypeOK' /\ SuggestionsNew'
    BY <1>0, <1>1, <2>1 DEF OpenEditor, ClearInput, ReadDisplayTags, EditorTypeOK, SuggestionsNew
  <2>3. display.by = "script" => display.tags \ past'.removed \subseteq draft'
    BY <1>1, <2>1 DEF OpenEditor, ReadDisplayTags
  <2> QED
    BY <1>1, <2>1, <2>2, <2>3, DraftingStep DEF OpenEditor, Drafting
<1>2. CASE Cancel
  <2>1. past' \in Past /\ past'.unsure = past.unsure /\ past'.touched = past.touched
    BY <1>0, <1>2, Zenon DEF Cancel, Past
  <2>2. EditorTypeOK' /\ SuggestionsNew'
    BY <1>0, <1>2, <2>1 DEF Cancel, ClearInput, EditorTypeOK, SuggestionsNew
  <2> QED
    BY <1>2, <2>1, <2>2, DraftingStep DEF Cancel, Drafting
<1>3. ASSUME NEW t \in Words \cup {NoWord}, Type(t) PROVE EInv'
  <2>1. EditorTypeOK' /\ SuggestionsNew'
    BY <1>0, <1>3 DEF Type, EditorTypeOK, SuggestionsNew
  <2> QED
    BY <1>3, <2>1, DraftingStep DEF Type, Drafting, EInv, DraftKeeps
<1>4. ASSUME NEW t \in Words \cup {NoWord}, AddDraftTag(t), ClearInput, past' = Touch,
             UNCHANGED <<item, display, open, asking, save>>
      PROVE  EInv'
  <2>1. past' \in Past /\ past'.removed = past.removed /\ past'.unsure = past.unsure
           /\ (save # NoSave => past'.touched)
    BY <1>0, <1>4, Touched
  <2>2. EditorTypeOK' /\ SuggestionsNew'
    BY <1>0, <1>4, <2>1 DEF ClearInput, AddDraftTag, EditorTypeOK, SuggestionsNew
  <2>3. display.by = "script" /\ open' => display.tags \ past'.removed \subseteq draft'
    BY <1>4, <2>1 DEF EInv, DraftKeeps, AddDraftTag
  <2> QED
    BY <1>4, <2>1, <2>2, <2>3, DraftingStep DEF Drafting
<1>5. CASE Enter
  <2>1. (IF active # NoWord THEN active ELSE text) \in Words \cup {NoWord}
    BY <1>0 DEF EditorTypeOK
  <2> QED
    BY <1>4, <1>5, <2>1 DEF Enter
<1>6. ASSUME NEW t \in Words, Pick(t) PROVE EInv'
  BY <1>4, <1>6 DEF Pick
<1>7. ASSUME NEW t \in Words, Highlight(t) PROVE EInv'
  <2>1. EditorTypeOK' /\ SuggestionsNew'
    BY <1>0, <1>7 DEF Highlight, EditorTypeOK, SuggestionsNew
  <2> QED
    BY <1>7, <2>1, DraftingStep DEF Highlight, Drafting, EInv, DraftKeeps
<1>8. ASSUME NEW t \in Words, RemoveChip(t) PROVE EInv'
  <2>1. Touch.removed = past.removed
    BY <1>0, Touched
  <2>2. past' \in Past /\ past'.removed = past.removed \cup {t} /\ past'.unsure = past.unsure
           /\ (save # NoSave => past'.touched)
    BY <1>0, <1>8, <2>1, TouchedRemoved DEF RemoveChip
  <2>3. EditorTypeOK' /\ SuggestionsNew'
    BY <1>0, <1>8, <2>2 DEF RemoveChip, EditorTypeOK, SuggestionsNew
  <2>4. display.by = "script" /\ open' => display.tags \ past'.removed \subseteq draft'
    BY <1>8, <2>2 DEF EInv, DraftKeeps, RemoveChip
  <2> QED
    BY <1>8, <2>2, <2>3, <2>4, DraftingStep DEF RemoveChip, Drafting
<1>9. CASE ClearSuggestions
  <2>1. EditorTypeOK' /\ SuggestionsNew'
    BY <1>0, <1>9 DEF ClearSuggestions, EditorTypeOK, SuggestionsNew
  <2> QED
    BY <1>9, <2>1, DraftingStep DEF ClearSuggestions, Drafting, EInv, DraftKeeps
<1>10. ASSUME NEW tags \in SUBSET Words, SuggestionsCome(tags) PROVE EInv'
  <2>1. EditorTypeOK' /\ SuggestionsNew'
    BY <1>0, <1>10 DEF SuggestionsCome, NewTags, EditorTypeOK, SuggestionsNew
  <2> QED
    BY <1>10, <2>1, DraftingStep DEF SuggestionsCome, Drafting, EInv, DraftKeeps
<1>11. CASE ClickSave
  <2>1. past' \in Past /\ past'.removed = past.removed /\ past'.unsure = past.unsure
    BY <1>0, <1>11, Zenon DEF ClickSave, Past
  <2>2. draft' \in SUBSET Words /\ draft \subseteq draft'
    BY <1>0, <1>11 DEF ClickSave, AddDraftTag, EditorTypeOK
  <2>3. save' \in Save /\ save' # NoSave /\ save = NoSave
           /\ save'.sent = draft' /\ save'.at = "sent" /\ save'.removed = past.removed
    BY <1>0, <1>11, <2>2 DEF ClickSave, SaveEnabled, Save
  <2>4. EditorTypeOK' /\ SuggestionsNew'
    BY <1>0, <1>11, <2>1, <2>2, <2>3 DEF ClickSave, ClearInput, EditorTypeOK, SuggestionsNew
  <2> QED
    BY <1>11, <2>1, <2>2, <2>3, <2>4
    DEF ClickSave, EInv, ShownOrApplied, DraftSent, DraftKeeps
<1>12. CASE Apply
  <2>1. save \in Save
    BY <1>0, <1>12 DEF Apply, EditorTypeOK
  <2>2. save' \in Save
    BY <1>12, <2>1, Zenon DEF Apply, Save
  <2>3. save'.at = "applied" /\ save'.sent = save.sent /\ save'.removed = save.removed
    BY <1>12, <2>1, Zenon DEF Apply, Save
  <2>4. EditorTypeOK' /\ SuggestionsNew'
    BY <1>0, <1>12, <2>1, <2>2 DEF Apply, Save, EditorTypeOK, SuggestionsNew
  <2> QED
    BY <1>12, <2>2, <2>3, <2>4 DEF Apply, EInv, ShownOrApplied, DraftSent, DraftKeeps
<1>13. CASE Refuse
  <2>1. save \in Save
    BY <1>0, <1>13 DEF Refuse, EditorTypeOK
  <2>2. save' \in Save
    BY <1>13, <2>1, Zenon DEF Refuse, Save
  <2>3. save'.at = "refused" /\ save'.sent = save.sent /\ save'.removed = save.removed
    BY <1>13, <2>1, Zenon DEF Refuse, Save
  <2>4. EditorTypeOK' /\ SuggestionsNew'
    BY <1>0, <1>13, <2>2 DEF Refuse, EditorTypeOK, SuggestionsNew
  <2> QED
    BY <1>13, <2>2, <2>3, <2>4 DEF Refuse, EInv, ShownOrApplied, DraftSent, DraftKeeps
<1>14. ASSUME NEW tags, tags = {} \/ tags = save.sent, ShowSaved(tags) PROVE EInv'
  <2>1. save \in Save /\ item = save.sent
    BY <1>0, <1>14 DEF ShowSaved, EditorTypeOK, EInv, ShownOrApplied
  <2>2. tags \in SUBSET Words
    BY <1>14, <2>1 DEF Save
  <2>3. past'.unsure = (past.touched /\ tags = {}) /\ past'.touched = FALSE /\ past'.removed = {}
    BY <1>14, Zenon DEF ShowSaved
  <2>4. past' \in Past
    BY <1>0, <1>14, Zenon DEF ShowSaved, Past
  <2>5. display' \in [tags : SUBSET Words, by : {"server", "script"}] /\ display'.tags = Updated(tags)
    BY <1>0, <1>14, <2>2 DEF ShowSaved, Updated, EditorTypeOK
  <2>6. EditorTypeOK' /\ SuggestionsNew'
    BY <1>0, <1>14, <2>4, <2>5 DEF ShowSaved, ClearInput, EditorTypeOK, SuggestionsNew
  <2>7. ~past'.unsure => Updated(tags) = item
    BY <1>14, <2>1, <2>3 DEF ShowSaved, Updated, EInv, DraftSent
  <2> QED
    BY <1>14, <2>5, <2>6, <2>7 DEF ShowSaved, EInv, ShownOrApplied, DraftSent, DraftKeeps
<1>15. CASE ShowRefused
  <2>1. past' \in Past /\ past'.removed = past.removed /\ past'.unsure = past.unsure
    BY <1>0, <1>15, Zenon DEF ShowRefused, Past
  <2>2. EditorTypeOK' /\ SuggestionsNew'
    BY <1>0, <1>15, <2>1 DEF ShowRefused, EditorTypeOK, SuggestionsNew
  <2> QED
    BY <1>15, <2>1, <2>2 DEF ShowRefused, EInv, ShownOrApplied, DraftSent, DraftKeeps
<1>16. CASE AnswerLost
  <2>1. past' \in Past /\ past'.removed = past.removed /\ past'.unsure
    BY <1>0, <1>16, Zenon DEF AnswerLost, Past
  <2>2. item' \in SUBSET Words
    BY <1>0, <1>16 DEF AnswerLost, EditorTypeOK, Save
  <2>3. EditorTypeOK' /\ SuggestionsNew'
    BY <1>0, <1>16, <2>1, <2>2 DEF AnswerLost, EditorTypeOK, SuggestionsNew
  <2> QED
    BY <1>16, <2>1, <2>3 DEF AnswerLost, EInv, ShownOrApplied, DraftSent, DraftKeeps
<1>17. CASE UNCHANGED editorVars
  BY <1>17 DEF editorVars, EInv, EditorTypeOK, SuggestionsNew, ShownOrApplied, DraftSent, DraftKeeps
<1> QED
  BY <1>1, <1>2, <1>3, <1>5, <1>6, <1>7, <1>8, <1>9, <1>10, <1>11, <1>12, <1>13, <1>14,
     <1>15, <1>16, <1>17 DEF EditorNext, SaveStep

\* When the editor is closed and nothing is in flight, the page shows the
\* item's tags, unless an answer was missing.
THEOREM ShowsTheItem == EditorSpec => []ClosedShowsItem
<1>1. EInv => ClosedShowsItem
  BY DEF EInv, ShownOrApplied, ClosedShowsItem
<1> QED
  BY <1>1, EditorInitInv, EditorStepInv, PTL DEF EditorSpec

\* What is suggested is not in the draft.
THEOREM SuggestionsAreNew == EditorSpec => []SuggestionsNew
<1>1. EInv => SuggestionsNew
  BY DEF EInv
<1> QED
  BY <1>1, EditorInitInv, EditorStepInv, PTL DEF EditorSpec

\* One step takes from the item only tags that were removed before the save.
LEMMA StepKeeps ==
    ASSUME EInv, EditorNext, save # NoSave, display.by = "script", ~past.unsure
    PROVE  item \ item' \subseteq save.removed
<1>1. CASE Apply \/ AnswerLost
  BY <1>1 DEF Apply, AnswerLost, EInv, ShownOrApplied, DraftKeeps
<1>2. CASE item' = item
  BY <1>2
<1> QED
  BY <1>1, <1>2 DEF EditorNext, OpenEditor, Cancel, Type, Enter, Highlight, Pick, RemoveChip,
     ClearSuggestions, ClickSave, SuggestionsCome, SaveStep, Refuse, ShowSaved, ShowRefused

\* A save from a page that rendered its tags itself loses no tag that nobody
\* removed.
THEOREM NoTagIsLost == EditorSpec => OwnTagsKept
<1>1. EInv /\ [EditorNext]_editorVars
        => [save # NoSave /\ display.by = "script" /\ ~past.unsure =>
               item \ item' \subseteq save.removed]_editorVars
  BY StepKeeps
<1> QED
  BY <1>1, EditorInitInv, EditorStepInv, PTL DEF EditorSpec, OwnTagsKept
=============================================================================
