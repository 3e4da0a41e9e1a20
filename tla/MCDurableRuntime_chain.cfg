\* Two tasks in sequence, one place, a crash.
SPECIFICATION Spec
CONSTANTS
  t1 = t1
  t2 = t2
  Tasks = {t1, t2}
  DependsOn <- Chain
  MaxActive = 1
  MaxRetries = 0
  MaxInputs = 0
  MaxCrashes = 1
  Errors = {"fault"}
  MayAct = TRUE
  MayAsk = TRUE
  MayExpire = FALSE
  MayFailCleanup = FALSE
INVARIANTS UnknownEffectsHold RuntimeSafety
CHECK_DEADLOCK FALSE
