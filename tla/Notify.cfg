SPECIFICATION Spec
CONSTANTS
  Path = {p, q}
  MaxVersion = 2
  Session = {s1, s2}
  Batch = {b1, b2}
SYMMETRY Symmetry
INVARIANTS TypeOK ClaimsOwned  
