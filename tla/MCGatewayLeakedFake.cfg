SPECIFICATION GatewaySpec
CONSTANTS
  o1 = o1
  o2 = o2
  f1 = f1
  f2 = f2
  f3 = f3
  None = None
  Original = {o1, f1}
  Fake = {f1, f2}
  MaxSecrets = 2
  Pair <- DrawnPairs
  Batch <- AllBatches
  Request = {r1}
  Resetter = {admin}
  Caller = {r1, admin}
  Gen <- LeakedGen
  Body <- LeakedBodies
  MaxClock = 0
  MaxResets = 0
INVARIANTS
  NoKnownFakeShown
