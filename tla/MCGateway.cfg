SPECIFICATION GatewaySpec
CONSTANTS
  o1 = o1
  o2 = o2
  f1 = f1
  f2 = f2
  f3 = f3
  None = None
  Original = {o1, o2}
  Fake = {f1, f2, f3}
  MaxSecrets = 2
  Pair <- DrawnPairs
  Batch <- AllBatches
  Request = {r1, r2}
  Resetter = {admin}
  Caller = {r1, r2, admin}
  Gen <- CleanGen
  Body <- CleanBodies
  MaxClock = 0
  MaxResets = 1
INVARIANTS
  GatewayTypeOK
  OneFakePerBody
  ForwardedIsKnown
  

  
SYMMETRY Interchangeable
