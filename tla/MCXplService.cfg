\* One service, as the daemon has it, with the search given up after two
\* heartbeats and requests in between.
CONSTANTS
  s1 = s1
  other = other
  Services <- MCServices
  Others <- MCOthers
  Traffic <- MCTraffic
  Modes <- MCAllModes
  Interval = 8
  Discovery = 1
  NoEcho = 2
  MaxTries = 2
  NetCap = 2
  MaxRequests = 1
SPECIFICATION Spec
INVARIANTS
  TypeOK
  SilenceBound
PROPERTIES
  
  DiscoverySound
  HubFound
