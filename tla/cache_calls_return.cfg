SPECIFICATION FairSpec
CONSTANTS
  i1 = i1
  i2 = i2
  d1 = d1
  d2 = d2
  Instances = {i1, i2}
  Dialers = {d1, d2}
  Target <- TwoTargets
  Lifetimes = {2}
  Throttle = 1
  Buffer = 1
  LateMargin = 1
  MaxTime = 0
  MaxRefreshes = 2
PROPERTY CallsReturn
