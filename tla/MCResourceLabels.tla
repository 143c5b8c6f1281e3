--------------------------- MODULE MCResourceLabels ---------------------------
(***************************************************************************)
(* Small instances of ResourceLabels.                                      *)
(***************************************************************************)
EXTENDS ResourceLabels

CONSTANTS c1, s1, p1, w1, k1

OneWorker       == [w \in Workers |-> Components]
NamedByEndpoint == [e \in Endpoint |-> e]
SelectsAll      == [c \in Components |-> Services]
OneOfAKind      == [c \in Components |-> k1]
===============================================================================
