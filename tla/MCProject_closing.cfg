SPECIFICATION ProjectSpec
CONSTANTS
  Scenes = {"nodes"}
  a = a
  b = b
  d = d
  x = x
  y = y
  p = p
  q = q
  ownSlug = ownSlug
  otherSlug = otherSlug
  Call = {a, b}
  Node = {x, y}
  Outcome = {p, q}
  None = None
  Works <- MCClosings
  MaxLost = 0
  IndexCall = {a, b, d}
  NodeNo = {1, 2}
  NoRebuild = NoRebuild
  IndexJobs <- MCIndexJobs
  Lookback = 1
  MaxTime = 4
  LoginCall = {a, b, d}
  Nobody = Nobody
  LoginJobs <- MCLoginJobs
  BootCall = {a, b, d}
  Unset = Unset
  Slugs = {ownSlug, otherSlug}
  Slug = ownSlug
  Declared = declared
  BootJobs <- MCBootJobs
  MaxFaults = 2
  SecretCall = {a, b, d}
  Host = {"here", "there"}
  Settings <- MCSettings
  RegCall = {a, b, d}
  RegJobs <- MCRegJobs
  MaxUses = 2
  MaxTrouble = 1
INVARIANTS
  PlanIsClosedAsAsked
CHECK_DEADLOCK FALSE
