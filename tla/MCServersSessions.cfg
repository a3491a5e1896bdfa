CONSTANTS
    p1 = p1
    p2 = p2
    alice = alice
    bob = bob
    s1 = s1
    s2 = s2
    s3 = s3
    m1 = m1
    NoOwner = NoOwner
    Absent = Absent
    NotSeen = NotSeen
    Procs = {p1, p2}
    Owners = {alice, bob}
    Session = alice
    OwnerOf <- TwoOwners
    Targets = {s1, s2, s3, m1}
    Machines = {m1}
    Probed = {s1, m1}
    MaxRunning = 1
    Invocations <- EitherLine
    Starts <- EitherStart
    Faults = {"start", "rm", "run"}
    Exits = TRUE
SPECIFICATION SessionsSpec
INVARIANT CacheSound
PROPERTY WithinLimit
PROPERTY EvictsTheOldest
PROPERTY ForeignOnlyByRace
CHECK_DEADLOCK FALSE
