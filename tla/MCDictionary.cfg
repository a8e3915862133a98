SPECIFICATION FairSpec
CONSTANTS
  o1 = o1
  o2 = o2
  f1 = f1
  f2 = f2
  f3 = f3
  None = None
  Original = {o1, o2}
  Fake = {f1, f2, f3}
  Pair <- DistinctPairs
  Batch <- DistinctBatches
  Caller = {c1, c2}
  Resetter = {c2}
  MaxClock = 1
  MaxResets = 1
INVARIANTS
  TypeOK
  CompletedIsDurable
  CompletedIsExact
  ResetHoldsTheDisk
  MemoryBeforeDisk
  CanonicalRoundTrips
PROPERTIES
  StoresAreWriteOnce
  CallsReturn
