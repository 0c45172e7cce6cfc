SPECIFICATION Spec
CONSTANTS
    None = None
    CountdownStart = 1
    Guests <- MCGuests
    MaxGuests = 2
    Lotteries = {FALSE}
    PrintRetries = 0
    MaxLate = 2
    MaxFaults = 0
INVARIANTS DrawJoinsItsGuestsVisit
CHECK_DEADLOCK FALSE
