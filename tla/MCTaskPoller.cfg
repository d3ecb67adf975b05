CONSTANTS
    MaxTasks <- MCMaxTasks
    NaN = NaN
    None = None
    OngoingForms <- MCOngoingForms
SPECIFICATION Spec
INVARIANTS
    TypeOK
    SingleFlight
    NoPollAfterZero
    StopsOnlyOnZero
    BannerShowsLastResponse
    ProgressReflectsSchedule
    AtMostOneListener
PROPERTIES
    CompletionOnlyWhenDone
    PollingTerminates
CHECK_DEADLOCK FALSE
