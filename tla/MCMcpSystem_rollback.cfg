SPECIFICATION Spec
CONSTANTS
    a = a
    b = b
    c = c
    n = n
    k1 = k1
    k2 = k2
    k3 = k3
    Req = {a, b, n}
    Key = {k1, k2, k3}
    KeyOf <- OwnKeys
    Notification = {b, n}
    Initialize = {}
    None = None
    MaxInFlight = 2
    PipeSize = 1
    Version = {1, 2}
    Missing = {}
    Disciplined = TRUE
    Rollback = TRUE
    MaxGen = 2
    Mutation = {}
    MaxWorkers = 2
    Supervised = TRUE
    MaxFaults = 0
PROPERTIES
    ReloadWaitsForWork
