\* Fair workers: row-lock waits and the autonomous pass on one leave.
CONSTANTS
    t1 = t1
    t2 = t2
    t3 = t3
    w1 = w1
    w2 = w2
    Teachers = {t1, t2}
    Workers = {w1, w2}
    MaxLeaves = 1
    MaxRows = 1
    MaxNet = 1
    LastDay = 1
    MaxOrder = 1
    Periods <- OnePeriod
    Batches <- SingleBatches
    Timetable <- NobodyBusy
SPECIFICATION FairSpec
PROPERTIES
    EveryRequestEnds
CHECK_DEADLOCK FALSE
