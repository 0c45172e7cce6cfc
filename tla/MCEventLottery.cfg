SPECIFICATION Spec
CONSTANTS
    Events = {e1, e2}
    Prizes = {p1, p2}
    Adjustments = {a1, a2}
    Refs = {r1, r2}
    None = None
    MaxDelta = 1
    Settings <- MCSettings
    TicksPerSecond = 2
    MaxTime = 2
SYMMETRY Symmetry
INVARIANTS TypeOK OneActiveEvent StockNonNegative DrawsKeepTheirRecord AcknowledgedChangesStand
PROPERTIES RestockAppliesOnce ArchivedEventsStay WinsAreSpaced StockSpec
CHECK_DEADLOCK FALSE
