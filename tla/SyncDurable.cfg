SPECIFICATION Spec
CONSTANTS
  n1 = n1
  n2 = n2
  n3 = n3
  Node = {n1, n2}
  Path = {"a", "b"}
  Content = {1}
  SizeOf <- EqualSizes
  Mode = {7}
  DefaultMode = 6
  Peers <- OneWay
  Skew <- SkewTwo
  Gran <- FineTimes
  Second = 1
  TTL = 1
  SaveEvery = 2
  EditInWindow = FALSE
  NoEntry = NoEntry
  NoFile = NoFile
  MaxNow = 3
  MaxHalts = 1
  MaxFaults = 1
INVARIANTS GracefulStopDurable UnsavedIsCounted
