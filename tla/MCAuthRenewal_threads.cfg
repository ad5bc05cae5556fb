SPECIFICATION Spec
CONSTANTS
    worker = worker
    command = command
    t1 = t1
    t2 = t2
    t3 = t3
    Process = {worker, command}
    Thread = {t1, t2, t3}
    ProcessOf <- WorkerAndCommand
    Does <- Mixed
    MaxTokens = 3
    MaxOps = 1
    MaxCrashes = 1
PROPERTIES
    RefreshTokensAreUsedOnce
    LogoutCannotBeUndone
