CONSTANTS
    MaxTasks <- MCMaxTasks
    NaN = NaN
    None = None
    OngoingForms <- MCOngoingForms
SPECIFICATION Spec
INVARIANT
    ToggleButtonsBound
CHECK_DEADLOCK FALSE
