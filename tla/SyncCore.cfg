SPECIFICATION Spec
CONSTANTS
  n1 = n1
  n2 = n2
  n3 = n3
  Node = {n1, n2}
  Path = {"a"}
  Content = {1, 2}
  SizeOf <- EqualSizes
  Mode = {}
  DefaultMode = 6
  Peers <- AllPeers
  Skew <- SkewOne
  Gran <- CoarseTimes
  Second = 4
  TTL = 0
  SaveEvery = 2
  EditInWindow = FALSE
  NoEntry = NoEntry
  NoFile = NoFile
  MaxNow = 4
  MaxHalts = 0
  MaxFaults = 0
INVARIANTS TypeOK FastPathSound NewestSurvives RestIsAgreement
PROPERTIES NoUnscannedLoss NoPromotion RestLasts
