\* Requests one after the other: two leaves, two periods, one date.
CONSTANTS
    t1 = t1
    t2 = t2
    t3 = t3
    w1 = w1
    w2 = w2
    Teachers = {t1, t2, t3}
    Workers = {w1}
    MaxLeaves = 2
    MaxRows = 2
    MaxNet = 2
    LastDay = 1
    MaxOrder = 1
    Periods <- TwoPeriods
    Batches <- AllBatches
    Timetable <- T1Busy
SPECIFICATION Spec
SYMMETRY IdleTeachers
INVARIANTS
    LedgerMatchesCoverage
    CancelledReversed
    NoDoubleBooking
    NoDuplicateLeave
PROPERTIES
    ActsAsBook
CHECK_DEADLOCK FALSE
