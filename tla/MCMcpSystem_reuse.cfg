SPECIFICATION Spec
CONSTANTS
    a = a
    b = b
    c = c
    n = n
    k1 = k1
    k2 = k2
    k3 = k3
    Req = {a, c, n}
    Key = {k1}
    KeyOf <- OneKey
    Notification = {n}
    Initialize = {}
    None = None
    MaxInFlight = 2
    PipeSize = 1
    Version = {1}
    Missing = {}
    Disciplined = FALSE
    Rollback = FALSE
    MaxGen = 2
    Mutation = {c}
    MaxWorkers = 2
    Supervised = TRUE
    MaxFaults = 0
INVARIANTS
  AtMostOneAnswer
  AnswersCorrelated
PROPERTIES
  ImplementsService
