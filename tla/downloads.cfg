SPECIFICATION Spec
CONSTANTS
  Server = {1, 2, 3}
  Tunnel = {1, 2, 3, 4}
  Caller = {"c1", "c2"}
  MaxTime = 1
  IdleTimeout = 1
  KeyMoveSettle = 1
  BenchBase = 1
  BenchMax = 2
  FailureMemory = 2
  Rotation = 1
  WaitLimit = 1
  MaxFaults = 1
  Hops <- MCHops
  MaxSkipped = 1
  MaxResumes = 1
  SkipTrackers = FALSE
  Info <- MCInfo
  Upstream <- MCUpstream
  Size <- MCSize
  Asked <- MCAsked
  Addresses <- MCAddresses
  DefaultExit = "any"
  DisableDirect = TRUE
  AllowPrivate = FALSE
  Named = {"c1"}
  Vpns <- MCVpns
  ProviderName = "vpn"
INVARIANTS TypeOK KeysSound UsesCounted OnlyPermittedServers WholeFile
PROPERTIES KeptWhileUsed BestLocation
CHECK_DEADLOCK FALSE
