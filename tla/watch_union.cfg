SPECIFICATION Spec
CONSTANTS
  MaxChunks = 2
  AddrTypes <- SomeAddrTypes
  UserTypes <- SomeUserTypes
  InstanceTypes <- SomeInstanceTypes
  Retries = 3
  TokenLife = 2
  CertLife = 2
  ExpiryDelta = 1
  MaxTime = 2
  MaxCalls = 2
  s = s
  a = a
  b = b
  path = path
  path2 = path2
  port = port
  Insts = {s, a, b}
  Addrs = {path, path2, port}
  UnixAddrs = {path, path2}
  Static <- NoStatic
  Updates <- MovingAddr
  MaxUpdates = 3
  MaxListeners = 7
  Projects <- SomeProjects
  ConnectionNames <- SomeNames
  Pages <- SomePages
  Dialers <- SomeDialers
  Initers <- SomeIniters
  MaxDials = 3
  MaxLimit = 5
  NrOpen = 4
CHECK_DEADLOCK FALSE
INVARIANT
  SocketsAreUnion
