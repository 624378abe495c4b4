SPECIFICATION ObjectsSpec
CONSTANTS
  t1 = t1
  t2 = t2
  t3 = t3
  NoOne = NoOne
  Threads <- MCThreads
  Inits <- MCInits
  Maxes <- MCMaxes
  Needs <- MCNeeds
  SignalCounts <- MCSignalCounts
  CancelCounts <- MCCancelCounts
  Priorities <- MCPriorities
  FlagBits = {1, 2}
  FlagWaits <- MCFlagWaits
  FlagChanges <- MCFlagChanges
  FlagPatterns <- MCFlagPatterns
  MutexTypes = {"recursive", "other"}
  CountMax = 2
  MaxReads = 2
  Entries = {1, 2, 3, 4}
  Platforms = {"futex", "portable"}
  Values = {0, 1}
  WakeCounts = {1, 3}
  Records = {1, 2}
  MaxLives = 2
  MaxTriggers = 2
  ValueMax = 2
SYMMETRY Symmetry
PROPERTY FutexKeepsWakes
