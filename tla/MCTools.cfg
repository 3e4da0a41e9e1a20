SPECIFICATION ToolsFairSpec
CONSTANTS
  f1 = f1  b1 = b1  y1 = y1  y2 = y2  k1 = k1  l1 = l1  u1 = u1
  Commands = {f1, b1, y1, y2}  ShellPids = {1, 2}  MaxPtys = 1  KindOf <- MCKindOf
  ToolCalls = {k1}  Listings = {l1}  Subscribes = {u1}  MaxSessions = 3  MaxChannelErrors = 1
INVARIANTS ShellSafety CallsRunOnce
PROPERTIES CallsRunWhereApproved 
CHECK_DEADLOCK FALSE
