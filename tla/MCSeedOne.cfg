CONSTANTS
    p1 = p1
    p2 = p2
    Absent = Absent
    Procs = {p1}
    MaxCommands = 6
    Commands <- EveryCommand
    Faults = {"host", "run", "start", "stop", "rename", "write"}
    CrashAt <- Elsewhere
    Exits = {"building"}
SPECIFICATION Spec
INVARIANT DoneMeansKept
INVARIANT GoldenLeftAlone
INVARIANT RunsOnWholeCopy
PROPERTY CopiesOnlyClean
CHECK_DEADLOCK FALSE
