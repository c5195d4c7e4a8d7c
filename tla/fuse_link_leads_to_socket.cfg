SPECIFICATION Spec
CONSTANTS
  i1 = i1
  k1 = k1
  k2 = k2
  Instances = {i1}
  Postgres = {}
  Lookups = {k1}
  MaxListeners = 2
CHECK_DEADLOCK FALSE
INVARIANT LinkLeadsToSocket
