CONSTANTS
  c1 = c1  c2 = c2  s1 = s1  s2 = s2  p1 = p1  w1 = w1  w2 = w2
  Components = {c1}
  Workers = {w1, w2}
  Handles <- Everything
  Services = {s1}
  Ports = {p1}
  Selects <- SelectsAll
  PublicServiceName <- NamedByEndpoint
  ExportKeys = {"external"}
  NoComponent = NoComponent
  MaxIncarnations = 1
  MaxFaults = 0
SPECIFICATION TwoManagers
CHECK_DEADLOCK FALSE
INVARIANTS FinalizerBeforeResources NoUnusedWhenSettled AddressesFollowModes
PROPERTIES RemovesOnlyUnwanted EventuallyAdvertised DeletionFinishes
