SPECIFICATION Spec
CONSTANTS
    None = None
    Leaves = {1, 2}
    Filed = {1}
    Today = {1, 2}
    Subs = {s1, s2}
    Home = {s1}
    AtLimit = {s1}
    BoardSubs = {s1, s2, s3}
    BoardHome = {s1, s2}
    BoardAtLimit = {s3}
    LastDate = 3
    Periods = {1, 2}
    Scheduled = {1}
    MaxLeaves = 2
    Employed = 2
    MaxTeachers = 3
    MaxClicks = 3
    MaxJobs = 2
INVARIANTS
    WaitingHasJob
    LimitAcknowledged
    RefusedUncovered
    RunAddsUp
    SuccessRecorded
    DeletedAsTold
PROPERTIES
    CoverKept
    LimitAsked
CHECK_DEADLOCK FALSE
