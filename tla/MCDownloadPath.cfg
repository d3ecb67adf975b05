CONSTANTS
    Chars <- MCChars
    MaxLen <- MCMaxLen
    MaxEdits <- MCMaxEdits
SPECIFICATION Spec
INVARIANTS
    TypeOK
    HelpMatchesReference
CHECK_DEADLOCK FALSE
