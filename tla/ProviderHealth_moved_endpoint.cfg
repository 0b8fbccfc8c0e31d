\* A good uplink, and a throughput endpoint that has moved.
CONSTANTS
  SuccessThreshold = 2
  FailureThreshold = 2
  DnsThreshold = 2
  CanaryThreshold = 2
  ThroughputThreshold = 2
  CanaryEvery = 2
  ThroughputEvery = 3
  MinSpacing = 2
  CanaryTargets <- ShippedCanary
  CanaryQuorum = "majority"
  ProbeTargets <- AddressAndName
  Resolvers = 2
  Floor = 128
  Weathers = {"moved"}
SPECIFICATION Spec
INVARIANTS
  BrokenEndpointIsNotThrottling
