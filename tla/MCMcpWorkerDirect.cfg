SPECIFICATION FairSpec
CONSTANTS
    a = a
    b = b
    c = c
    n = n
    k1 = k1
    k2 = k2
    Req = {a, b, c, n}
    Key = {k1, k2, k3}
    KeyOf <- OwnKeys
    Notification = {n}
    Initialize = {}
    None = None
    MaxInFlight = 2
    PipeSize = 1
    Mutation = {a, b}
    MaxWorkers = 2
    Supervised = FALSE
    k3 = k3
INVARIANTS
    QueueIsBounded
PROPERTIES
    MutationsAreOrdered
    EndOfInputEnds
