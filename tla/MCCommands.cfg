SPECIFICATION CommandsSpec
CONSTANTS
  Render = rt
  Recorder = rw
  rt = rt
  rw = rw
  Runner = Runner
  None = None
  Threads = {gpu, guest, main}
  Owner = gpu
  Deferrers = {gpu}
  OperationWaiters = {guest}
  Closers = {guest, main}
  MaxTick = 2
  MaxOps = 3
  Waiters <- MCWaiters
  Areas = {a1}
  Capacity = 1
  MaxJobs = 2
  ChunkCount = 2
  Limit = 2
  Modes = {TRUE, FALSE}
  MaxPackets = 3
INVARIANTS SubmitInv DeferredInv
PROPERTIES InOrder WorkCompletes
