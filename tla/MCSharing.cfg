SPECIFICATION SharingFairSpec
CONSTANTS
  q1 = q1  q2 = q2  q3 = q3
  s1 = s1  s2 = s2  s3 = s3  p1 = p1  p2 = p2
  Requests = {q1, q2, q3}
  MaxConcurrent = 2  MaxPending = 1  MaxCost = 3  Costs = {0, 2}  MaxEvents = 2  MaxRetained = 2
  Slots = {s1, s2, s3}  Pids = {p1, p2}
  DomainOf <- MCDomainOf  ProjectOf <- MCProjectOf  PidOf <- MCPidOf
  Total = 1  PerDomain = 1  QueueLimit = 2  MaxDeaths = 2
INVARIANTS GateSafety SlotsSafety
PROPERTIES NothingStartsAfterStop SharingMovesOn
CHECK_DEADLOCK FALSE
