SPECIFICATION FairSpec
CONSTANTS
  i1 = i1
  k1 = k1
  k2 = k2
  Instances = {i1}
  Postgres = {i1}
  Lookups = {k1, k2}
  MaxListeners = 2
CHECK_DEADLOCK FALSE
INVARIANTS
  FuseInv
  FirstSocketStays
PROPERTIES
  ChanIsClosed
  LookupsAnswered
  ClosedListenersEnd
