SPECIFICATION FairSpec
CONSTANTS
  a = a
  b = b
  c = c
  x = x
  open = open
  close = close
  Byte = {a, b, c, x, open, close}
  Letter = {a, b, c}
  Opening <- Bare
  Closing <- Bare
  Setup <- CleanSetups
  MaxText = 5
  MaxPiece = 2
  MaxQueued = 1
CHECK_DEADLOCK FALSE
INVARIANTS
  TypeOK
  WaitsWithLittle
PROPERTIES
  StreamsAsBuffered
  StreamEnds
