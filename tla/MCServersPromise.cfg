CONSTANTS
    p1 = p1
    p2 = p2
    alice = alice
    bob = bob
    s1 = s1
    s2 = s2
    s3 = s3
    m1 = m1
    NoOwner = NoOwner
    Absent = Absent
    NotSeen = NotSeen
    Procs = {p1, p2}
    Owners = {alice, bob}
    Session = alice
    OwnerOf <- OneOwner
    Targets = {s1, s2, m1}
    Machines = {m1}
    Probed = {m1}
    MaxRunning = 1
    Invocations <- ManyTargets
    Starts <- LeftBehind
    Faults = {"ps", "build", "stop", "start", "rm", "run"}
    Exits = FALSE
SPECIFICATION Spec
PROPERTY KeepsThePromise
PROPERTY EveryCommandEnds
CHECK_DEADLOCK FALSE
