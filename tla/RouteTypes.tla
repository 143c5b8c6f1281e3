------------------------------ MODULE RouteTypes ------------------------------
(***************************************************************************)
(* The catalogue of the routing capability: which export modes exist, how  *)
(* they are read from the annotations of a watched resource, which kinds   *)
(* the template of each mode renders (pkg/routing) and which kinds the     *)
(* controller looks at when it deletes (controllers/routingctrl/gvk.go).   *)
(* The last two are written down separately in the code, and so here.      *)
(***************************************************************************)
EXTENDS Sequences

PublicRoute   == "public"
ExternalRoute == "external"

AllRouteTypes == {PublicRoute, ExternalRoute}

(* An annotation key "routing.opendatahub.io/export-mode-<k>" is k here.   *)
IsValidRouteType(key) == key \in AllRouteTypes

(* exports is the set of export-mode keys whose value is "true"; any other *)
(* value counts as absent, an unknown key is logged and ignored.           *)
extractExportModes(exports) == {key \in exports : IsValidRouteType(key)}

UnusedRouteTypes(exportModes) == AllRouteTypes \ exportModes

Kinds == {"Route", "VirtualService", "Service", "Gateway", "DestinationRule"}

(* template/routing_<mode>.yaml: the kinds it renders, in file order.      *)
externalRouteTemplate == <<"Route", "VirtualService">>
publicRouteTemplate   == <<"Service", "Gateway", "VirtualService", "DestinationRule">>

Load(routeType) ==
  IF routeType = ExternalRoute THEN externalRouteTemplate ELSE publicRouteTemplate

externalGVKs == {"Route", "VirtualService"}
publicGVKs   == {"Service", "Gateway", "VirtualService", "DestinationRule"}

OnlyRoutes(exportMode) == {"Route"}                                 \* mutant
GVKs(exportMode) ==
  IF exportMode = ExternalRoute THEN externalGVKs ELSE publicGVKs

routingResourceGVKs(exportModes) == UNION {GVKs(m) : m \in exportModes}
===============================================================================
