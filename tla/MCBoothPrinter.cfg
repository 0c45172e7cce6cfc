SPECIFICATION Spec
CONSTANTS
    MaxQueue = 2
    MaxPackets = 2
    AsbRetries = 1
INVARIANTS TypeOK FaultsAbort StopReleases
PROPERTIES AbortedJobsAreCleared StatusSpec JobsSettle
