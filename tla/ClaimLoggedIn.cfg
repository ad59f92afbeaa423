SPECIFICATION Spec
CONSTANTS
  MaxLogins = 1
  MaxTyped = 1
  MaxResponses = 2
INVARIANT LoggedInMeansConnected
CHECK_DEADLOCK FALSE
