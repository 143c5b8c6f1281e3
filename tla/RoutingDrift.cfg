CONSTANTS
  c1 = c1  c2 = c2  s1 = s1  p1 = p1  w1 = w1
  Components = {c1, c2}
  Workers = {w1}
  Handles <- OneWorker
  Services = {s1}
  Ports = {p1}
  Selects <- OnlyOneExports
  PublicServiceName <- NamedByEndpoint
  ExportKeys = {"external"}
  NoComponent = NoComponent
  MaxIncarnations = 1
  MaxFaults = 1
SPECIFICATION StableDriftSpec
CHECK_DEADLOCK FALSE
INVARIANTS DriftTypeOK OnlyDroppedIsMissed AdvertisesOneService RepairedByReconcile
