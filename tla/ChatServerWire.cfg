SPECIFICATION Spec
CONSTANTS
  c1 = c1
  c2 = c2
  ann = ann
  bob = bob
  NoName = NoName
  NoConn = NoConn
  Conn <- TwoConns
  Name <- OneName
  Requests <- OddRequests
  Faults = {"split"}
  ListenBacklog = 1
  SendBuffer = 1
  MaxFds = 1
  MaxUnread = 3
  MaxSends = 3
  StdinInputs = {"line", "eof"}
SYMMETRY Symmetry
INVARIANT TypeOK
INVARIANT RequestsAccounted
INVARIANT CrashHasCause
