SPECIFICATION Spec
CONSTANTS
  c1 = c1
  c2 = c2
  ann = ann
  bob = bob
  NoName = NoName
  NoConn = NoConn
  Conn <- TwoConns
  Name <- OneName
  Requests <- OneLogin
  Faults = {"fin"}
  ListenBacklog = 2
  SendBuffer = 2
  MaxFds = 2
  MaxUnread = 1
  MaxSends = 2
  StdinInputs = {}
INVARIANT CloseIsHandled
