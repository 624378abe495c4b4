SPECIFICATION Spec
CONSTANTS
  t1 = t1
  t2 = t2
  t3 = t3
  f1 = f1
  f2 = f2
  v1 = v1
  p1 = p1
  p2 = p2
  NoOne = NoOne
  None = None
PROPERTIES DeleteCompletes FlagCallsComplete RwlockServes FlipCallsReturn
           MemoryCallsReturn
