SPECIFICATION Spec
CONSTANTS
  c1 = c1
  c2 = c2
  i1 = i1
  Conns = {c1, c2}
  Ids = {i1}
  Id <- OneId
  MaxConnections = 0
  UseFuse = TRUE
  Wrap = 4
SYMMETRY ConnSymmetry
CHECK_DEADLOCK FALSE
INVARIANTS
  ConnSetExact
