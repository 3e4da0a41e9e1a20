\* Delivery under fairness, one process at a time, with a control row.
SPECIFICATION FairSpec
CONSTANTS
  r1 = r1  a = a  b = b  ctl = ctl  o1 = o1  o2 = o2
  t1 = t1  t2 = t2  t3 = t3  t4 = t4
  NoOwner = NoOwner
  NoToken = NoToken
  Owners = {o1, o2}
  Runs = {r1}
  Keys = {a, ctl}
  RunOf <- OneRun
  ControlKeys = {ctl}
  Tokens = {t1, t2, t3, t4}
  MaxEffects = 1
  MaxEffectsPerRun = 1
  ClaimLimit = 2
  MaxPosts = 2
  MaxCrashes = 1
  MayFreeze = FALSE
PROPERTY EventuallyDelivered
CHECK_DEADLOCK FALSE
