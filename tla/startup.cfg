SPECIFICATION FairSpec
CONSTANTS
  Words <- SomeWords
  Dotted <- DottedNames
  HostPort <- HostPorts
  Absolute <- AbsolutePaths
  Windows = FALSE
  Setups <- SomeSetups
  Listed <- OneListed
  Throttles = {0}
  MinThrottle = 1
  IAMThrottle = 2
  MaxProbes = 1
CHECK_DEADLOCK FALSE
INVARIANTS
  TypeOK
  ModeIsSound
  DefaultIsChecked
  ConfigsUsable
  AsksAreServed
  ReadyMeansServing
PROPERTY StartupDecides
