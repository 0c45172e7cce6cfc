SPECIFICATION Spec
CONSTANTS
    StaleAfter = 2
    CameraGrace = 2
    Conditions = {"ready", "cover-open", "unknown"}
    PrinterGrace = 1
    Silent = 3
    MaxPages = 2
    MaxChanges = 2
    MaxTroubles = 1
INVARIANTS AlertsAreRight
PROPERTIES SilenceIsReal SilenceShows
CHECK_DEADLOCK FALSE
