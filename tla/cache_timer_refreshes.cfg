SPECIFICATION Spec
CONSTANTS
  i1 = i1
  i2 = i2
  d1 = d1
  d2 = d2
  Instances = {i1}
  Dialers = {d1}
  Target <- OneTarget
  Lifetimes = {1}
  Throttle = 2
  Buffer = 1
  LateMargin = 0
  MaxTime = 1
  MaxRefreshes = 1
INVARIANTS
  TimerRefreshes
