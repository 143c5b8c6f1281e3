--------------------------- MODULE MCAuthzController ---------------------------
(***************************************************************************)
(* Small instances of AuthzController.                                     *)
(***************************************************************************)
EXTENDS AuthzController

CONSTANTS c1, c2, w1, w2, n1, p1, h1, h2, urlOfH1

EveryWorker == [w \in Workers |-> Components]
OneName     == [c \in Components |-> n1]

(* One kind each: the workers of one manager.                              *)
OneEach == w1 :> {c1} @@ w2 :> {c2}

(* h1 is found as it is and within a URL, h2 as it is.                     *)
HostOfText == [s \in Texts |-> IF s = h2 THEN h2 ELSE h1]

(* Like the selector of the tests, with a key that is a template, too.     *)
ComponentName == {[key |-> Text("component"), value |-> Template("name")],
                  [key |-> Template("kind"), value |-> Text("kind")]}

(* For a CR of the second sort both keys are the same.                     *)
Named     == [f \in {"name", "kind"} |-> IF f = "kind" THEN "Model" ELSE "cr1"]
Ambiguous == [f \in {"name", "kind"} |-> IF f = "kind" THEN "component" ELSE "cr1"]

Labelled == [k \in {"name"} |-> "app"]

(* As config/env.go has it.                                                *)
DefaultLabel == [key |-> "authorization-group", value |-> "default"]

Found(texts) == [p \in HostPaths |-> texts]
NotYet       == <<>>

CR(auth, path, addr, fields, labels) ==
  [auth |-> auth, target |-> [path |-> path, addr |-> addr],
   fields |-> fields, labels |-> labels]

(* Authentication on and off.                                              *)
AuthOnOff == {CR(a, Found({urlOfH1}), {}, Named, Labelled) : a \in BOOLEAN}

(* The host of a CR, or the field that its selector reads, comes late.     *)
(* When all is there, routing has added the host again, without scheme, a  *)
(* label has come, and the selector has two outcomes.                      *)
AllComeLate ==
  {CR(TRUE, NotYet, {}, Named, <<>>),
   CR(TRUE, Found({urlOfH1}), {}, <<>>, <<>>),
   CR(TRUE, Found({urlOfH1}), {h1}, Ambiguous, Labelled)}

TwoHosts == {CR(TRUE, Found({urlOfH1}), a, Named, <<>>) : a \in {{h1}, {h1, h2}}}

CRFields == {<<>>, Named, Ambiguous}
CRLabels == {<<>>, Labelled}

(* Others disown AuthConfigs only: the two kinds are handled alike.        *)
PoliciesOwned ==
  \A n \in Names : child'["AuthorizationPolicy"][n].present =>
                    child'["AuthorizationPolicy"][n].owner # NoOwner

(* Two CRs that ask for different children come, and may go.               *)
ComeAndGo ==
  \/ \A c \in Components : ~User(c)
  \/ \E c \in Components :
       \/ CreateCR(c, CHOOSE x \in Contents : x.auth <=> c = c1)
       \/ RemoveCR(c)

(* Changes of policies, which are the same for all, are delivered at once. *)
PolicySynced ==
  \/ \A w \in Workers, n \in Names : Synced(w, "AuthorizationPolicy", n)
  \/ \E w \in Workers, n \in Names : Sync(w, "AuthorizationPolicy", n)
===============================================================================
