SPECIFICATION Spec
CONSTANTS
    None = None
    CountdownStart = 2
    Visits = {v1, v2}
    Refs = {t1}
    MaxAttempts = 2
    WaitTicks = 2
INVARIANTS TypeOK EveryVisitEnds
PROPERTIES BackToIdle CommandsRun MaintenanceShows
CHECK_DEADLOCK FALSE
