SPECIFICATION Spec
CONSTANTS
  a = a
  b = b
  c = c
  x = x
  open = open
  close = close
  Byte = {a, b, c, x, open, close}
  Letter = {a, b, c}
  Opening <- Opened
  Closing <- Closed
  Setup <- OneFake
  MaxText = 2
  MaxPiece = 2
  MaxQueued = 1
CHECK_DEADLOCK FALSE
INVARIANTS
  TextRestored
