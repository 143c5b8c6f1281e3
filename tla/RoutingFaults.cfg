CONSTANTS
  c1 = c1  s1 = s1  p1 = p1  w1 = w1  k1 = k1
  NameOf <- OneOfAKind
  KindOf <- OneOfAKind
  Components = {c1}
  Workers = {w1}
  Handles <- OneWorker
  Services = {s1}
  Ports = {p1}
  Selects <- SelectsAll
  PublicServiceName <- NamedByEndpoint
  ExportKeys = {"public", "external"}
  NoComponent = NoComponent
  MaxIncarnations = 2
  MaxFaults = 1
SPECIFICATION LabelsSpec
CHECK_DEADLOCK FALSE
INVARIANTS TypeOK FinalizerBeforeResources CleanupComplete NoUnusedWhenSettled DeletionNotAbandoned AdvertisedIsServed AddressesFollowModes LabelsTell
PROPERTIES FollowsProtocol RemovesOnlyUnwanted
