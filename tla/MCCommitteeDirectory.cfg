CONSTANTS
    c1 = c1
    c2 = c2
    Cards <- MCCards
    Filters <- MCFilters

SPECIFICATION Spec
INVARIANTS
    TypeOK
    CountMatchesVisible
    ModeMatchesView
CHECK_DEADLOCK FALSE
