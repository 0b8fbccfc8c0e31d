\* Any uplink: what a verdict may and may not be, and what becomes of it.
CONSTANTS
  SuccessThreshold = 2
  FailureThreshold = 2
  DnsThreshold = 3
  CanaryThreshold = 2
  ThroughputThreshold = 2
  CanaryEvery = 2
  ThroughputEvery = 3
  MinSpacing = 2
  CanaryTargets <- ShippedCanary
  CanaryQuorum = "majority"
  ProbeTargets <- AddressAndName
  Resolvers = 2
  Floor = 128
  Weathers <- AnyWeather
SPECIFICATION FairSpec
INVARIANTS
  TypeOK
PROPERTIES
  VerdictSpec
  NeverUpOnTamperedContent
  NoFalseAlarm
  Recovers
  ThrottlingIsNamed
  InterceptionIsCaught
