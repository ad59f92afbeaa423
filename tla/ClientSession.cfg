SPECIFICATION FairSpec
CONSTANTS
  MaxLogins = 1
  MaxTyped = 2
  MaxResponses = 2
INVARIANT ResponsesAccounted
INVARIANT MessagesInOrder
INVARIANT ScreenMatchesLogin
PROPERTY StallsEnd
CHECK_DEADLOCK FALSE
