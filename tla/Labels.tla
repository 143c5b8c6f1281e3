-------------------------------- MODULE Labels --------------------------------
(***************************************************************************)
(* Labels as options (pkg/metadata): a label is a key with a value, the    *)
(* labels of an object are a function from keys to values.                 *)
(***************************************************************************)
EXTENDS Naturals, Sequences

AppPartOf(app)          == [key |-> "part-of", value |-> app]
AppComponent(component) == [key |-> "component", value |-> component]
AppName(name)           == [key |-> "name", value |-> name]
AppVersion(version)     == [key |-> "version", value |-> version]
AppManagedBy(operator)  == [key |-> "managed-by", value |-> operator]

OwnerName(name)        == [key |-> "owner-name", value |-> name]
OwnerKind(kind)        == [key |-> "owner-kind", value |-> kind]
OwnerUID(uid)          == [key |-> "owner-uid", value |-> uid]
ExportType(mode)       == [key |-> "type", value |-> mode]

NoLabels == [k \in {} |-> k]

(* g laid over f.                                                          *)
Override(f, g) == [k \in DOMAIN f \cup DOMAIN g |-> IF k \in DOMAIN g THEN g[k] ELSE f[k]]

addLabel(label, labels) == Override(labels, [k \in {label.key} |-> label.value])

(* What the options, applied one after the other, make of labels: of those *)
(* with one key the last one counts.                                       *)
ApplyMetaOptions(labels, options) ==
  LET Of(k) == {i \in DOMAIN options : options[i].key = k}
  IN Override(labels, [k \in {options[i].key : i \in DOMAIN options} |->
                         options[CHOOSE i \in Of(k) : \A j \in Of(k) : j <= i].value])

AsOwner(name, kind, uid) == <<OwnerName(name), OwnerKind(kind), OwnerUID(uid)>>

(* A CR without one of the two labels hands on an empty value.             *)
standardLabelsFrom(source, version) ==
  LET Value(key) == IF key \in DOMAIN source THEN source[key] ELSE ""
  IN <<AppPartOf(Value(AppName("").key)), AppComponent(Value(AppComponent("").key)),
       AppVersion(version), AppManagedBy("odh-platform")>>

(* Labels that are there already stay as they are.                         *)
AppendLabels(labels, options) ==
  Override(ApplyMetaOptions(NoLabels, options), labels)

(* The selector for exactly these labels.                                  *)
MatchingLabels(options) == ApplyMetaOptions(NoLabels, options)

Matches(selector, labels) ==
  \A k \in DOMAIN selector : k \in DOMAIN labels /\ labels[k] = selector[k]
===============================================================================
