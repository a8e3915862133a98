SPECIFICATION Spec
CONSTANTS
  Size = 5
  Rules = 3
  Replacing <- AllButSecond
  FakeSize <- ShortAndLong
  MaxMatches = 3
INVARIANTS
  NoRedactionsOverlap
CHECK_DEADLOCK FALSE
