INIT Init
NEXT Next
CHECK_DEADLOCK FALSE
CONSTANTS
    None = None
    Leaves = {1, 2}
    Subs = {s1, s2}
    Home = {s1}
    AtLimit = {s1}
    MaxClicks = 3
    MaxJobs = 2
PROPERTY PastCoverStands
