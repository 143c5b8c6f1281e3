---------------------------- MODULE HostExtraction ----------------------------
(***************************************************************************)
(* How the hosts of a protected resource are found (pkg/spi).  A target is *)
(* what the extractors read of a CR: path, a function from those of the    *)
(* configured paths where a string or a list of strings is found to the    *)
(* texts found there, and addr, the texts in its two address annotations.  *)
(* An extractor gives texts and whether it reports an error.               *)
(***************************************************************************)
CONSTANTS
  HostPaths,   \* paths configured for the protected kind
  Texts,       \* host texts, with or without a scheme
  Hosts,
  HostOf       \* HostOf[text]: the host in a URL, a text without scheme as it is

ASSUME HostExtractionAssumption == HostOf \in [Texts -> Hosts]

Target == [path : UNION {[P -> SUBSET Texts] : P \in SUBSET HostPaths},
           addr : SUBSET Texts]

(* All paths are tried; one without a value is an error of the whole.      *)
NewPathExpressionExtractor(target) ==
  [texts |-> UNION {target.path[p] : p \in DOMAIN target.path},
   err   |-> DOMAIN target.path # HostPaths]

NewAnnotationHostExtractor(target) == [texts |-> target.addr, err |-> FALSE]

KeepsURLs(target) ==                                                \* mutant
  [hosts |-> target.addr \cup UNION {target.path[p] : p \in DOMAIN target.path},
   err   |-> DOMAIN target.path # HostPaths]

(* Texts of an extractor that failed are dropped, the others reduced to    *)
(* hosts; each host once, in the order of a map, which is any.             *)
UnifiedHostExtractor(target) ==
  LET results == {NewPathExpressionExtractor(target), NewAnnotationHostExtractor(target)}
      texts   == UNION {x.texts : x \in {y \in results : ~y.err}}
  IN [hosts |-> {HostOf[s] : s \in texts}, err |-> \E x \in results : x.err]
===============================================================================
