SPECIFICATION GatewaySpec
CONSTANTS
  Scenes = {"output", "input", "vault", "access", "schedules", "relay"}
  Terminal = {a, b}
  Session = {s1, s2}
  Watcher = s1
  Ring = 1
  MaxOutput = 3
  MaxInput = 2
  MaxFrames = 2
  FlushTimer = TRUE
  Process = {a, b}
  MaxSalts = 2
  MaxUpdates = 3
  MaxKills = 1
  Editor = {a, b}
  Schedules = 2
  Crons <- Crons3
  Year = 4
  MaxTime = 3
  MaxEdits = 3
  MaxRestarts = 1
  Lanes = 2
  MinLanes = 1
  Sid = {sid}
  MaxRequests = 3
SYMMETRY Alike
INVARIANTS
  NothingElseIsLost
  InputIsWrittenOnce
  OnlyStaleWritesLockOut
  DisabledStaysDisabled
  RunsOncePerMinute
  DeletedStaysDeleted
  ListedWhileRunning
CHECK_DEADLOCK FALSE
