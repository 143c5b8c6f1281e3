----------------------------- MODULE AuthTemplates -----------------------------
(***************************************************************************)
(* What the children of a protected CR are made from: the templates and    *)
(* the type detection of pkg/authorization, the standard labels of         *)
(* pkg/metadata/labels, and the workload selector of the configuration.    *)
(***************************************************************************)
EXTENDS SelectorTemplates

CONSTANTS
  WorkloadSelector, \* selector expressions configured for the protected kind
  Fields,           \* what the fields of CRs may be, for selector expressions
  Labellings,       \* what the labels of CRs may be
  AuthorinoLabel,   \* configured label of AuthConfigs, a key and a value
  Version           \* of the manager

(* There are CRs without labels, and without any field that is asked for.  *)
ASSUME AuthTemplatesAssumption == <<>> \in Fields /\ <<>> \in Labellings

L == INSTANCE Labels

AuthTypes == {"userdefined", "anonymous"}

Detect(enabled) == IF enabled THEN "userdefined" ELSE "anonymous"

TemplateLabels == [k \in {"authorization-group"} |-> "default"]

(* The template of a type, named by it; its host is to be replaced.        *)
Load(authType) == [auth |-> authType, hosts |-> <<>>, labels |-> TemplateLabels]

(* Labels of the children, and the outcomes of the selector, by what the   *)
(* CR says.                                                                *)
ConfigLabels ==
  [ls \in Labellings |-> L!AppendLabels(L!addLabel(AuthorinoLabel, TemplateLabels),
                                        L!standardLabelsFrom(ls, Version))]

PolicyLabels ==
  [ls \in Labellings |-> L!ApplyMetaOptions(L!NoLabels, L!standardLabelsFrom(ls, Version))]

ResolvedSelectors == [f \in Fields |-> ResolveSelectors(WorkloadSelector, f)]
===============================================================================
