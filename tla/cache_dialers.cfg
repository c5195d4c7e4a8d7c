SPECIFICATION Spec
CONSTANTS
  i1 = i1
  i2 = i2
  d1 = d1
  d2 = d2
  Instances = {i1}
  Dialers = {d1, d2}
  Target <- OneTarget
  Lifetimes = {1}
  Throttle = 2
  Buffer = 0
  LateMargin = 0
  MaxTime = 2
  MaxRefreshes = 2
SYMMETRY DialerSymmetry
INVARIANTS
  IInv
  SingleFlight
  NeverResurrected
  ResultsNotLost
  RefreshQuota
PROPERTIES
  CfgOnlyAdvances
  RefinesRegister
