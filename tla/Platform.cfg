CONSTANTS
  c1 = c1  k1 = k1  s1 = s1  p1 = p1  n1 = n1
  path1 = path1  own = own  routed = routed
  Components = {c1}
  KindOf <- OneKind
  RoutingTargets = {k1}
  ProtectedResources = {k1}
  Services = {s1}
  Ports = {p1}
  Selects <- SelectsAll
  PublicServiceName <- NamedByEndpoint
  ExportKeys = {"external"}
  HostPaths = {path1}
  Texts = {own, routed}
  Hosts = {own, routed}
  HostOf <- PlainHosts
  WorkloadSelector = {}
  Fields <- Nameless
  Labellings <- Nameless
  AuthorinoLabel <- DefaultLabel
  Version = "v1"
  AddressesOf <- RoutedHost
  ChildName <- OneName
  Specs <- OwnHostComesLate
  Edited = Edited
  NoSpec = NoSpec
  NoOwner = NoOwner
  NoComponent = NoComponent
  MaxIncarnations = 1
SPECIFICATION SmallFairSpec
CHECK_DEADLOCK FALSE
INVARIANTS RoutesGuarded AddressesGuarded
PROPERTIES AuthzAmongUsers EventuallyGuarded EventuallyGone
