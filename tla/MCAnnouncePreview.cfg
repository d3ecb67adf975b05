CONSTANTS
    t1 = t1
    t2 = t2
    Texts <- MCTexts
    MaxEdits <- MCMaxEdits
    None = None
SPECIFICATION Spec
INVARIANTS
    TypeOK
    DebounceSendsLatest
CHECK_DEADLOCK FALSE
