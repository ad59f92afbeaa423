SPECIFICATION Spec
CONSTANTS
  c1 = c1
  c2 = c2
  ann = ann
  bob = bob
  NoName = NoName
  NoConn = NoConn
  Conn <- TwoConns
  Name <- TwoNames
  Requests <- ChatRequests
  Faults = {"fin", "rst"}
  ListenBacklog = 1
  SendBuffer = 1
  MaxFds = 2
  MaxUnread = 1
  MaxSends = 3
  StdinInputs = {"exit"}
SYMMETRY Symmetry
INVARIANT UsernamesUnique
INVARIANT NoWaitCycle
INVARIANT BroadcastComplete
INVARIANT CrashHasCause
PROPERTY IterationsStable
PROPERTY ImplementsRoom
