SPECIFICATION FairSpec
CONSTANTS
  Session = {s1}
  Modes = {"plain", "tsnet", "host"}
  Addr = {a1}
  Worker = {w1, w2}
  MaxEdits = 1
INVARIANTS TypeOK  NothingLeft SingleFlight
PROPERTIES HeardUntilScanned  StopTerminates PullsAreServed
CHECK_DEADLOCK FALSE
