SPECIFICATION GatewaySpec
CONSTANTS
  o1 = o1
  o2 = o2
  f1 = f1
  f2 = f2
  f3 = f3
  None = None
  Original = {o1}
  Fake = {f1, f2}
  MaxSecrets = 1
  Pair <- DrawnPairs
  Batch <- AllBatches
  Request = {r1, r2}
  Resetter = {admin}
  Caller = {r1, r2, admin}
  Gen <- OneSecretGen
  Body <- OneSecretBodies
  MaxClock = 0
  MaxResets = 0
INVARIANTS
  OneFakePerSecret
