\* Progress of one task under fairness.
SPECIFICATION FairSpec
CONSTANTS
  t1 = t1
  t2 = t2
  Tasks = {t1}
  DependsOn <- NoDependencies
  MaxActive = 1
  MaxRetries = 1
  MaxInputs = 0
  MaxCrashes = 0
  Errors = {"transient", "fault"}
  MayAct = TRUE
  MayAsk = TRUE
  MayExpire = TRUE
  MayFailCleanup = FALSE
INVARIANT NoneStranded
PROPERTY RunsMoveOn
CHECK_DEADLOCK FALSE
