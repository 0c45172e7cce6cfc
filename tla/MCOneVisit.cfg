SPECIFICATION Spec
CONSTANTS
    None = None
    CountdownStart = 1
    Guests <- MCGuests
    MaxGuests = 1
    Lotteries = {TRUE, FALSE}
    PrintRetries = 2
    MaxLate = 0
    MaxFaults = 3
INVARIANTS PhotoPrintsOnce
CHECK_DEADLOCK FALSE
