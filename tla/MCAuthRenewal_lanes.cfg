SPECIFICATION Spec
CONSTANTS
    worker = worker
    command = command
    t1 = t1
    t2 = t2
    t3 = t3
    Process = {worker}
    Thread = {t1, t2}
    ProcessOf <- Worker
    Does <- Lanes
    MaxTokens = 3
    MaxOps = 1
    MaxCrashes = 0
INVARIANTS
    RotatesOnlyRejected
