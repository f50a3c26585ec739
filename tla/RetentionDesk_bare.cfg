INIT Init
NEXT Next
CHECK_DEADLOCK FALSE
CONSTANTS
    None = None
    MaxBackups = 3
    MaxClicks = 4
    MaxJobs = 2
PROPERTY NeverBare
