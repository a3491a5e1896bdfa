CONSTANTS
    p1 = p1
    p2 = p2
    alice = alice
    bob = bob
    r1 = r1
    r2 = r2
    a1 = a1
    b1 = b1
    ab2 = ab2
    Procs = {p1, p2}
    Owners = {alice, bob}
    OwnerOf <- TwoOwners
    Releases = {r1, r2}
    Names = {a1, b1, ab2}
    NameFor <- MCNameFor
    ReleaseOf <- MCReleaseOf
    clusterLimit = 1
    Invocations <- Lines
    Starts <- WithinOne
    Faults = {"runner", "kind", "disk"}
    Interrupts = TRUE
SPECIFICATION Spec
INVARIANT TypeOK
INVARIANT Explained
INVARIANT WithinClusterLimit
PROPERTY TakesDownItsOwn
PROPERTY EveryClusterCommandEnds
CHECK_DEADLOCK FALSE
