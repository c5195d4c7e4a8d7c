SPECIFICATION Spec
CONSTANTS
  i1 = i1
  i2 = i2
  d1 = d1
  d2 = d2
  Instances = {i1}
  Dialers = {d1, d2}
  Target <- OneTarget
  Lifetimes = {0, 2}
  Throttle = 1
  Buffer = 1
  LateMargin = 0
  MaxTime = 1
  MaxRefreshes = 2
SYMMETRY DialerSymmetry
INVARIANTS
  UsableResult
