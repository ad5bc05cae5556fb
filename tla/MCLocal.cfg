SPECIFICATION MCSpec
CONSTANTS
    nap = nap
    server = server
    Installer = {i1, i2, i3}
    Path = {nap, server}
    LinkOrder <- TwoPaths
    Assets = 2
    Releases = 2
    TooNew = {}
    MaxCrashes = 1
    MaxDamage = 1
    p1 = p1
    Command = {c1, c2, c3}
    Port = {p1, p2}
    b1 = b1
    Batch = {b1}
    Size = 3
    Plan <- AllPlans
    MaxThreads = 2
INVARIANTS
    NeverMixed
    RunningIsOnRecord
    RefusesExactlyCycles
PROPERTIES
    NeverDowngrades
    ImplementsSerialBatch
SYMMETRY Symmetry
CHECK_DEADLOCK FALSE
