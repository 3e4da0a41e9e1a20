\* One task with a follow-up, a deadline, retries and a crash.
SPECIFICATION Spec
CONSTANTS
  t1 = t1
  t2 = t2
  Tasks = {t1}
  DependsOn <- NoDependencies
  MaxActive = 1
  MaxRetries = 1
  MaxInputs = 1
  MaxCrashes = 1
  Errors = {"busy", "transient", "fault"}
  MayAct = TRUE
  MayAsk = FALSE
  MayExpire = TRUE
  MayFailCleanup = TRUE
INVARIANT AcceptedIsCurrent
CHECK_DEADLOCK FALSE
