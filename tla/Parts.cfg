CONSTANTS
    Users = {u1}
    Procs = {p1, p2}
    Cost = 2
    Burst = 2
    MaxTime = 7
    NoBucket = NoBucket
    NoCall = NoCall
    a = a
    b = b
    MaxItems = 4
    Library = {1, 2, 3}
    Mine = {1, 3, 4}
    Tags = {a, b}
    QTags = {b}
    TagSets <- MCTagSets
    Rows <- MCRows
    Filters <- MCFilters
    PerPages = {1, 2}
    TypedPages <- MCTypedPages
    IntMax = 7
    MaxChanges = 2
    NoTag = NoTag
    NoRow = NoRow
    Words = {a, b}
    NoWord = NoWord
    NoSave = NoSave
    go = go
    on = on
    both = both
    wide = wide
    blank = blank
    Texts <- MCTexts
    Trimmed <- MCTrimmed
    Normal <- MCNormal
    Pieces <- MCPieces
    Known = {go, both}
    NoText = NoText
    NoPress = NoPress
    v = v
    w = w
    NumKeys = 3
    Tracking = {2}
    Values = {v, w}
    BadPair = BadPair
    Tokens = {"/", "a", "%61", "%2F"}
    MaxPath = 3
    MaxQuery = 2
    NoUrl = NoUrl
    MaxNodes = 3
    Titles <- MCTitles
    NodeTexts <- MCNodeTexts
    ContentFullLimit = 4
    ContentSearchLimit = 3
    ExcerptLimit = 2
    NoNode = NoNode
SPECIFICATION PartsSpec
INVARIANTS PartsTypeOK WindowBound NoLastingDebt
           MissedBounded RepeatsBounded CountsAgree
           ClosedShowsItem SuggestionsNew
           OfferedAreNew
            PagesApart
             CutIsClean
PROPERTIES PatientServed OwnTagsKept ChipsAsMeant
CHECK_DEADLOCK FALSE
