SPECIFICATION Spec
CONSTANTS
    Releases = {1, 2, 3}
    Schema <- MCSchema
    First = 1
    Down = Down
    KeptBackups = 1
    Killed = {"unit", "ssh", "rollback"}
    MaxJobs = 2
    MaxVisits = 2
    MaxFaults = 2
INVARIANTS ReadsItsDatabase StatusIsTrue
PROPERTIES  BoothReturns
CHECK_DEADLOCK FALSE
