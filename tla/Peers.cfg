SPECIFICATION FairSpec
CONSTANTS
  Node = {1, 2}
  Conn <- OneEach
  NoConn = NoConn
  Stops = {2}
  MaxTrouble = 1
  MaxStreams = 1
INVARIANTS TypeOK NoOrphan NoStaleEntry NothingSurvivesClose NoHalfOpen
PROPERTIES ReplacementSurvives Agreement
CHECK_DEADLOCK FALSE
