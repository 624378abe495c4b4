SPECIFICATION FairSpec
CONSTANTS
  l = l
  Submitters = {t1, t2}
  Callers = {t2}
  ComputeQueues = 1
  Labels <- MCLabels
  Programs <- MCPrograms
  None = None
  MaxSerial = 2
  MaxFrames = 2
  MaxCommands = 1
CHECK_DEADLOCK FALSE
INVARIANTS TypeOK NothingOvertakes
PROPERTIES DoneMeansIdle GuestCallsReturn
