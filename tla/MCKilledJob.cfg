SPECIFICATION Spec
CONSTANTS
    Releases = {1, 2, 3}
    Schema <- MCSchema
    First = 1
    Down = Down
    KeptBackups = 1
    Killed = {"ssh", "rollback"}
    MaxJobs = 2
    MaxVisits = 1
    MaxFaults = 1
PROPERTIES NoneLeftRunning
CHECK_DEADLOCK FALSE
