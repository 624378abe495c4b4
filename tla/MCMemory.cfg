SPECIFICATION AllSpec
CONSTANTS
  t1 = t1
  t2 = t2
  t3 = t3
  p1 = p1
  p2 = p2
  f1 = f1
  f2 = f2
  n1 = n1
  n2 = n2
  NoOne = NoOne
  Thread <- MCThread
  Addr = {a1}
  Page = {p1, p2}
  LastEpoch = 2
  Guests <- MCGuests
  Aperture = {p1, p2}
  Buffers <- MCBuffers
  Slots = {1, 2}
  Requests = {1, 2, 3, 4}
  Modes <- MCModes
  MaxWrites = 3
SYMMETRY Symmetry
INVARIANTS CopiesAreWhole TranslationsAreCurrent
           UpdatesArePagewise QueriesArePagewise
           MemoryInStep RollbackIsTotal ReadsSucceed ReadsAreSound
