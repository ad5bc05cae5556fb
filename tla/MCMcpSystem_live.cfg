SPECIFICATION FairSpec
CHECK_DEADLOCK FALSE
CONSTANTS
    a = a
    b = b
    c = c
    n = n
    k1 = k1
    k2 = k2
    k3 = k3
    Req = {a, c}
    Key = {k1, k3}
    KeyOf <- OwnKeys
    Notification = {}
    Initialize = {c}
    None = None
    MaxInFlight = 1
    PipeSize = 1
    Version = {1}
    Missing = {}
    Disciplined = TRUE
    Rollback = FALSE
    MaxGen = 2
    Mutation = {}
    MaxWorkers = 2
    Supervised = TRUE
    MaxFaults = 1
INVARIANTS
  WorkIsAccounted
PROPERTIES
  EveryRequestSettles
  ShutdownEnds
