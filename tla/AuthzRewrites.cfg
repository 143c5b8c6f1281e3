CONSTANTS
  c1 = c1  c2 = c2   w1 = w1  w2 = w2  n1 = n1  p1 = p1  h1 = h1  h2 = h2
  urlOfH1 = urlOfH1
  HostPaths = {p1}
  Texts = {h1, h2, urlOfH1}
  Hosts = {h1, h2}
  HostOf <- HostOfText
  Components = {c1}
  Workers = {w1}
  Handles <- EveryWorker
  ChildName <- OneName
  WorkloadSelector <- ComponentName
  Fields <- CRFields
  Labellings <- CRLabels
  AuthorinoLabel <- DefaultLabel
  Version = "v1"
  Contents <- TwoHosts
  Edits = {}
  Edited = Edited
  NoSpec = NoSpec
  NoOwner = NoOwner
  NoComponent = NoComponent
  MaxIncarnations = 1
  MaxFaults = 0
SPECIFICATION Spec
CHECK_DEADLOCK FALSE
PROPERTIES FittingLeftAlone
