SPECIFICATION Spec
CONSTANTS
    a = a
    b = b
    c = c
    n = n
    k1 = k1
    k2 = k2
    k3 = k3
    Req = {a, b}
    Key = {k1, k2}
    KeyOf <- OwnKeys
    Notification = {}
    Initialize = {}
    None = None
    MaxInFlight = 2
    PipeSize = 1
    Version = {1, 2, 3}
    Missing = {2}
    Disciplined = TRUE
    Rollback = FALSE
    MaxGen = 2
    Mutation = {}
    MaxWorkers = 2
    Supervised = TRUE
    MaxFaults = 0
INVARIANTS
    CurrentIdentityCurrentCode
PROPERTIES
    ReloadWaitsForWork
SYMMETRY Swap
