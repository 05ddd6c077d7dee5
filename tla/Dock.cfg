CONSTANTS
  Clusters <- OneCluster
  Sources <- FourSources
  MaxSessions = 2
  MaxCalls = 2
  MaxActs = 3
SPECIFICATION Spec
INVARIANTS OneTabEach ClosedStaysClosed NoHiddenSession
CHECK_DEADLOCK FALSE
