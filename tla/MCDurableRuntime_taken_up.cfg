\* Follow-ups around the admission of one task.
SPECIFICATION FairSpec
CONSTANTS
  t1 = t1
  t2 = t2
  Tasks = {t1}
  DependsOn <- NoDependencies
  MaxActive = 1
  MaxRetries = 0
  MaxInputs = 1
  MaxCrashes = 0
  Errors = {}
  MayAct = FALSE
  MayAsk = FALSE
  MayExpire = FALSE
  MayFailCleanup = FALSE
PROPERTY InputIsTakenUp
CHECK_DEADLOCK FALSE
