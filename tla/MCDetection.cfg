SPECIFICATION Spec
CONSTANTS
  Size = 5
  Rules = 3
  Replacing <- AllButSecond
  FakeSize <- ShortAndLong
  MaxMatches = 4
INVARIANTS
  TypeOK
  KeepsTheMaximal
  NoFoundByteSurvives
  DisjointIsExact
  OnlyOverlapsPanic
CHECK_DEADLOCK FALSE
