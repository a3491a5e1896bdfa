\* Four commands for a machine with two disks.
CONSTANTS
    DiskCount = 2
    Settle = 2
    Timeout = 4
    Probe = 1
    MaxCommands = 4
SPECIFICATION Spec
INVARIANT FinishedMeansWhole
INVARIANT WaitIsRight
PROPERTY DisksAreKept
PROPERTY EveryProvisionEnds
CHECK_DEADLOCK FALSE
