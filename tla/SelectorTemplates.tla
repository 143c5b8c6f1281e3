--------------------------- MODULE SelectorTemplates ---------------------------
(***************************************************************************)
(* The label selectors of the configuration are templates over the watched *)
(* CR (pkg/config/selectors.go).  A source is a function from the fields   *)
(* that a CR has to their values.  A part of an expression, its key or its *)
(* value, is a text, or a template: of that the field it reads is kept.    *)
(***************************************************************************)

Text(t)     == [template |-> FALSE, text |-> t]
Template(f) == [template |-> TRUE, text |-> f]

(* missingkey=error                                                        *)
Resolvable(part, source) == part.template => part.text \in DOMAIN source

resolve(part, source) == IF part.template THEN source[part.text] ELSE part.text

(* What may come out for a set of expressions; nothing if one has no value.*)
(* Their order is that of a map: where two keys resolve to one, either     *)
(* value may stay.                                                         *)
ResolveSelectors(selectorExpressions, source) ==
  LET Key(x)   == resolve(x.key, source)
      Value(x) == resolve(x.value, source)
      resolved == [{Key(x) : x \in selectorExpressions} ->
                     {Value(x) : x \in selectorExpressions}]
  IN IF \A x \in selectorExpressions :
          Resolvable(x.key, source) /\ Resolvable(x.value, source)
     THEN {s \in resolved : \A k \in DOMAIN s :
             \E x \in selectorExpressions : Key(x) = k /\ Value(x) = s[k]}
     ELSE {}
===============================================================================
