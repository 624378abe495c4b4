SPECIFICATION FairSpec
CHECK_DEADLOCK FALSE
CONSTANTS
  Runner = Runner
  None = None
  Threads = {gpu, guest}
  Owner = gpu
  Deferrers = {gpu}
  Waiters = {}
  Closers = {guest}
  MaxTick = 1
  MaxOps = 0
PROPERTY ShutdownFinishes
