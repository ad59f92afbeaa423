SPECIFICATION Spec
CONSTANTS
  Taken = {"bob"}
  Seconds = {0, 8, 9, 10, 59}
  Nanos = {0, 499, 999999499, 999999500, 999999999}
INVARIANT ShownAsSaid
INVARIANT RefusalIsShown
INVARIANT LostByRoundingOnly
PROPERTY FailureIsExplained
