SPECIFICATION FairSpec
CONSTANTS
  MaxLogins = 2
  MaxTyped = 0
  MaxResponses = 0
INVARIANT ConnectFindsConnection
PROPERTY UiComesBack
PROPERTY LossIsHandled
CHECK_DEADLOCK FALSE
