SPECIFICATION StoresSpec
CONSTANTS
  j1 = j1  m1 = m1  m2 = m2  w1 = w1  w2 = w2  mate = mate  v1 = v1  v2 = v2
  c1 = c1  c2 = c2  c3 = c3  c4 = c4
  r1 = r1  s1 = s1  s2 = s2  f1 = f1  a1 = a1  x1 = x1  z1 = z1
  Jobs = {j1}  Managers = {m1, m2}  MaxJobs = 2  MaxAge = 2  MaxTime = 2  MaxTrouble = 1
  Supervisors = {w1, w2}  Teammates = {mate}  Ttl = 3  Heartbeat = 1  MaxNow = 7  MaxLeases = 3  MaxBadBeats = 1
  Servers = {v1, v2}  MaxLinks = 3  MaxChanges = 2
  Charges = {c1, c2, c3, c4}  ChildCharges = {c2, c3}
  Reserve = 1  Ceiling = 3  MaxRequests = 6  MaxRestarts = 1
  Replies <- SomeReplies  MaxTurns = 2  MaxContinuations = 1  MaxShrinks = 1  MaxPrompts = 2  MaxIncidents = 2
  Feeds <- Written  ActionOf <- Meant  TargetOf <- Named  Lively = {r1}  Hooked = {f1}
  MaxHostStops = 1  MaxHandwork = 1
  Rows <- SomeRows  ThreadOf <- SomeThreads  Asking = {1}  MaxStops = 2  MaxRetries = 1
INVARIANTS OneHolder BooksCover PoolSafety LoopSafety IntakeSafety NoticeSafety
PROPERTIES ScheduleSafety ControlsHitWhatTheySaw StoresMoveOn
CHECK_DEADLOCK FALSE
