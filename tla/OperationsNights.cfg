SPECIFICATION HostSpec
CONSTANTS
    Day = 3
    BackupAt = 1
    DrillAt = 2
    Quiet = 2
    BackupOverdue = 4
    Slow = 1
    SlowRun = 0
    Nothing = Nothing
    MaxTime = 7
    MaxTrouble = 2
INVARIANTS
    NothingSkipped
    OverdueNoticed
    DrillFailsForAReason
CHECK_DEADLOCK FALSE
