SPECIFICATION Spec
CONSTANTS
  n1 = n1
  n2 = n2
  n3 = n3
  Node = {n1, n2, n3}
  Path = {"a"}
  Content = {1, 2}
  SizeOf <- EqualSizes
  Mode = {}
  DefaultMode = 6
  Peers <- Hub
  Skew <- NoSkew
  Gran <- FineTimes
  Second = 1
  TTL = 0
  SaveEvery = 2
  EditInWindow = FALSE
  NoEntry = NoEntry
  NoFile = NoFile
  MaxNow = 3
  MaxHalts = 0
  MaxFaults = 1
INVARIANTS CommitBasis
PROPERTIES NoUnscannedLoss VersionNeverRegresses
SYMMETRY Symmetric
