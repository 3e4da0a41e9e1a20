SPECIFICATION WorkFairSpec
CONSTANTS
  a1 = a1  a2 = a2  fa = fa  k1 = k1  k2 = k2
  b1 = b1  b2 = b2  l1 = l1  l2 = l2  p1 = p1  r1 = r1
  Agents = {a1, a2}  TaskFiles = {fa}  MaxAttempts = 2  MaxTaskTrouble = 1
  FollowUps = {k1, k2}  MaxDeliveries = 3  MaxStops = 2
  Members = {b1, b2}  Letters = {l1, l2}  MaxTeamTrouble = 1
  Steps = {1, 2, 3}  Needs <- Fork  MaxConcurrency = 2  Lookers = {}  Pausers = {p1}  Resumers = {r1}  MaxBatches = 2
INVARIANTS TasksSafety TranscriptSafety MailboxSafety
PROPERTIES StoppedStaysStopped LogSpec WorkflowSafety WorkMovesOn
CHECK_DEADLOCK FALSE
