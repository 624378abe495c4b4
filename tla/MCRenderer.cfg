SPECIFICATION RendererSpec
CONSTANTS
  Gpu = Gpu
  Worker = Worker
  viewer = viewer
  t1 = t1
  t2 = t2
  f1 = f1
  f2 = f2
  v1 = v1
  v2 = v2
  Others <- MCOthers
  Guests <- MCGuests
  Raisers <- MCRaisers
  Queues <- MCQueues
  Ids = {1}
  Pages <- MCPages
  Backed <- MCBacked
  Capacity = 2
  Joined = FALSE
  Modes <- MCModes
  Ports <- MCPorts
  Frames <- MCFrames
  Indices = {1}
  FlipCapacity = 2
  Limits <- MCLimits
  None = None
  GrowStep = 2
  MaxEntries = 3
  MaxTick = 3
  MaxRecorded = 1
SYMMETRY Symmetry
INVARIANTS OpenIsFree FenceIsSubmission RecorderIsFree
           FlipsAreSound InterruptsInv PagesAreSound
PROPERTY KnownNeverFalls
