SPECIFICATION Spec
CONSTANTS
    None = None
    Teachers = {t1, t2}
    Classes = {c1, c2}
    Rooms = {r1}
    Cells = {1}
    Dept = {t1}
    DeptClasses = {c1}
    Home = t1
    Me = t1
    Other = t2
    Depts = {d1}
    Own = d1
    Admins = {a1, a2}
    MaxSecondary = 1
    LastDay = 3
    PerMonth = 2
    Weekends = {2}
    Terms = {y1}
    Intervals = {1}
    MaxBackups = 4
    MaxSnapshots = 3
    Staff = {e1}
    Leaves = {1}
    Quotas = {0, 13}
    Cap = 1
    MaxClicks = 3
    MaxJobs = 2
INVARIANTS
    WaitingHasJob
    HistoryBounded
    ClashIsCombined
    SlotsApproved
    AdminsCapped
    FillAddsUp
    RestoreShown
    PurgeAsShown
    StaffLedgerAddsUp
PROPERTIES
    ResetAuthorised
    DecisionsFinal
    OverrideKeepsModes
    BackupOutlivesPurge
CHECK_DEADLOCK FALSE
