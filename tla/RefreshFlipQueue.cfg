SPECIFICATION FairSpec
CONSTANTS
  Ports = {p1}
  Guests = {t1}
  Frames = {f1, f2}
  Indices = {1}
  Capacity = 4
  None = None
  Limits <- MCLimits
CHECK_DEADLOCK FALSE
PROPERTY RefreshReturns
