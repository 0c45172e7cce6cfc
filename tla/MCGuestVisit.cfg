SPECIFICATION Spec
CONSTANTS
    None = None
    CountdownStart = 1
    Guests <- MCGuests
    MaxGuests = 2
    Lotteries = {FALSE}
    PrintRetries = 0
    MaxLate = 1
    MaxFaults = 1
INVARIANTS TypeOK OneOpenVisit DrawInOneVisit CompletedMeansPrinted TicketIsTheGuests
PROPERTIES EndsStand
CHECK_DEADLOCK FALSE
