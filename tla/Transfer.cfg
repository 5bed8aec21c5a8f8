SPECIFICATION FairSpec
CONSTANTS
  n1 = n1
  n2 = n2
  n3 = n3
  Node = {n1, n2, n3}
  Workload <- MCWorkload
  NoFile = NoFile
  Failed = Failed
  Modulus = 2
  MaxOps = 3
  MaxOutput = 8
  Slots = 1
  MaxFile = 8
  MaxMessage = 13
  MinBlock = 2
  MaxBlock = 3
  FrameHeader = 6
  DeltaHeader = 1
  OpHeader = 1
  BlockRecord = 1
INVARIANTS TypeOK PulledAsServed DeltaIsGreedy SlotsAccounted AbortedForCause
PROPERTY PullsEnd
CHECK_DEADLOCK FALSE
