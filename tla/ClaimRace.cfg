SPECIFICATION Spec
CONSTANTS
  MaxLogins = 1
  MaxTyped = 1
  MaxResponses = 2
INVARIANT RaceCovered
CHECK_DEADLOCK FALSE
