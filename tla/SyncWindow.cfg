SPECIFICATION Spec
CONSTANTS
  n1 = n1
  n2 = n2
  n3 = n3
  Node = {n1, n2}
  Path = {"a"}
  Content = {1, 2}
  SizeOf <- EqualSizes
  Mode = {}
  DefaultMode = 6
  Peers <- AllPeers
  Skew <- NoSkew
  Gran <- FineTimes
  Second = 1
  TTL = 0
  SaveEvery = 2
  EditInWindow = TRUE
  NoEntry = NoEntry
  NoFile = NoFile
  MaxNow = 3
  MaxHalts = 0
  MaxFaults = 0
PROPERTIES NoUnscannedLoss
