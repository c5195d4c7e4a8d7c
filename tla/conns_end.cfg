SPECIFICATION FairSpec
CONSTANTS
  c1 = c1
  c2 = c2
  i1 = i1
  Conns = {c1, c2}
  Ids = {i1}
  Id <- OneId
  MaxConnections = 1
  UseFuse = FALSE
  Wrap = 4
CHECK_DEADLOCK FALSE
INVARIANTS
  ConnInv
  LimitRespected
  CountedAwaited
PROPERTIES
  NothingLeaks
  SignalEnds
