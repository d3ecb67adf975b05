CONSTANTS
    Categories <- MCCategories
    Messages <- MCMessages
    MaxSubmits <- MCMaxSubmits
SPECIFICATION Spec
INVARIANTS
    TypeOK
    BusyWhileRequesting
    OneMessagePerSubmission
CHECK_DEADLOCK FALSE
