\* Two rows and one place, with a process that may lose the lock and run on
\* beside its successor.
SPECIFICATION Spec
CONSTANTS
  r1 = r1  a = a  b = b  ctl = ctl  o1 = o1  o2 = o2
  t1 = t1  t2 = t2  t3 = t3  t4 = t4
  NoOwner = NoOwner
  NoToken = NoToken
  Owners = {o1, o2}
  Runs = {r1}
  Keys = {a, b}
  RunOf <- OneRun
  ControlKeys = {}
  Tokens = {t1, t2, t3}
  MaxEffects = 1
  MaxEffectsPerRun = 1
  ClaimLimit = 1
  MaxPosts = 2
  MaxCrashes = 2
  MayFreeze = TRUE
SYMMETRY Interchangeable
INVARIANTS NoWorkLost OneSettlingClaim
PROPERTY SlotsSpec
CHECK_DEADLOCK FALSE
