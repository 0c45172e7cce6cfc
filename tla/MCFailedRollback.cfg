SPECIFICATION Spec
CONSTANTS
    Releases = {1, 2, 3}
    Schema <- MCSchema
    First = 1
    Down = Down
    KeptBackups = 1
    Killed = {}
    MaxJobs = 2
    MaxVisits = 2
    MaxFaults = 0
PROPERTIES FailedChangedNothing
CHECK_DEADLOCK FALSE
