SPECIFICATION Spec
CONSTANTS
  Session = {s1}
  Modes = {"plain"}
  Addr = {a1}
  Worker = {w1}
  MaxEdits = 0
INVARIANT NeverNilMesh
CHECK_DEADLOCK FALSE
