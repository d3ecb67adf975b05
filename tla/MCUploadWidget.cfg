CONSTANTS
    Total <- MCTotal
    Loads <- MCLoads
    MaxAttempts <- MCMaxAttempts
SPECIFICATION Spec
INVARIANTS
    CardShowsAttempt
CHECK_DEADLOCK FALSE
