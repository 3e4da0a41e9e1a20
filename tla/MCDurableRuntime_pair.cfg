\* Two independent tasks in two places, a crash.
SPECIFICATION Spec
CONSTANTS
  t1 = t1
  t2 = t2
  Tasks = {t1, t2}
  DependsOn <- NoDependencies
  MaxActive = 2
  MaxRetries = 0
  MaxInputs = 0
  MaxCrashes = 1
  Errors = {"fault"}
  MayAct = TRUE
  MayAsk = FALSE
  MayExpire = FALSE
  MayFailCleanup = FALSE
INVARIANT AttemptsAreDriven
PROPERTY ControlHolds
SYMMETRY Symmetry
CHECK_DEADLOCK FALSE
