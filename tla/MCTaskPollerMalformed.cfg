CONSTANTS
    MaxTasks <- MCMaxTasks
    NaN = NaN
    None = None
    OngoingForms <- MCOngoingForms
SPECIFICATION Spec
PROPERTY CompletionOnlyWhenDone
CHECK_DEADLOCK FALSE
