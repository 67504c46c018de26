CONSTANTS
    Words = {a, b}
    NoWord = NoWord
    NoSave = NoSave
SPECIFICATION EditorSpec
INVARIANTS UntouchedTagsKept
CHECK_DEADLOCK FALSE
