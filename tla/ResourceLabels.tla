---------------------------- MODULE ResourceLabels ----------------------------
(***************************************************************************)
(* RoutingController says of a routing resource who owns it and for which  *)
(* mode it was made, and deletes by that.  The program has labels instead: *)
(* a slice of options that grows while a service is exported, labels that  *)
(* are laid over those stored, and label selectors, which alone decide     *)
(* here what is deleted.                                                   *)
(***************************************************************************)
EXTENDS RoutingController

CONSTANTS
  NameOf,  \* NameOf[c], KindOf[c]: name and kind of the CR; its namespace
  KindOf   \* is in neither, so that two CRs may agree in both

ASSUME LabelsAssumption == DOMAIN NameOf = Components /\ DOMAIN KindOf = Components

VARIABLES
  ownershipLabels,  \* the slice of the same name in exportService of each worker
  labels            \* labels[i]: labels of the stored resource of identity i

labelVars == <<vars, ownershipLabels, labels>>

L == INSTANCE Labels

Owner(uid) == L!AsOwner(NameOf[uid.comp], KindOf[uid.comp], uid)

LabelsInit ==
  /\ Init
  /\ ownershipLabels = [w \in Workers |-> <<>>]
  /\ labels = L!NoLabels

(* The slice is gone when exportService returns.                           *)
InExportService(t) == t.pc \in {"batches", "applyGet", "applyWrite"}

Slice(w, options) ==
  ownershipLabels' =
    [ownershipLabels EXCEPT ![w] = IF InExportService(rc'[w]) THEN options ELSE <<>>]

StartSlice(w) ==
  /\ ExportNext(w)
  /\ Slice(w, Append(Owner(UidOf(rc[w])), L!AppManagedBy("odh-routing-controller")))
  /\ UNCHANGED labels

(* append(ownershipLabels, ...): the types of all modes so far stay in it. *)
TypeFirst(options, m) == <<L!ExportType(m)>> \o options             \* mutant
WithType(options, m)  == Append(options, L!ExportType(m))

GrowSlice(w, b) ==
  /\ LoadBatch(w, b)
  /\ Slice(w, WithType(ownershipLabels[w], b.mode))
  /\ UNCHANGED labels

(* The rendered resource gets its labels; a server-side apply leaves those *)
(* that it does not name.                                                  *)
Stored(i) == IF i \in DOMAIN labels THEN labels[i] ELSE L!NoLabels

WriteLabels(w) ==
  LET t == rc[w]
      i == Identity(Rendered(t))
      applied == L!ApplyMetaOptions(L!NoLabels, ownershipLabels[w])
  IN /\ ApplyWrite(w)
     /\ Slice(w, ownershipLabels[w])
     /\ labels' = IF Writes(t)
                  THEN L!Override(labels, [j \in {i} |-> L!Override(Stored(i), applied)])
                  ELSE labels

(* DeleteAllOf for one kind finds what has one of the requested types on   *)
(* its label: the owner's labels are replaced (see SelectedTypes).         *)
MatchesTypes(t, ls) == "type" \in DOMAIN ls /\ ls["type"] \in SelectedTypes(t)

DeleteByLabels(w, kind) ==
  LET found == {i \in DOMAIN labels : i.kind = kind /\ MatchesTypes(rc[w], labels[i])}
  IN /\ DeleteAllOf(w, kind, {r \in res : Identity(r) \in found})
     /\ labels' = [i \in DOMAIN labels \ found |-> labels[i]]
     /\ Slice(w, <<>>)

Elsewhere(w) ==
  /\ \/ \E c \in Components : Fetch(w, c)
     \/ PatchGet(w) \/ PatchSend(w) \/ removeFinalizer(w) \/ ListServices(w)
     \/ ApplyGet(w) \/ propagateHostsToWatchedCR(w)
     \/ ApiError(w) \/ Crash(w)
  /\ Slice(w, ownershipLabels[w])
  /\ UNCHANGED labels

LabelsNext ==
  \/ \E w \in Workers : StartSlice(w) \/ WriteLabels(w) \/ Elsewhere(w)
  \/ \E w \in Workers : \E b \in rc[w].batches : GrowSlice(w, b)
  \/ \E w \in Workers, k \in Kinds : DeleteByLabels(w, k)
  \/ /\ \/ \E c \in Components : User(c)
        \/ \E s \in Services : ServiceOwner(s)
     /\ UNCHANGED <<ownershipLabels, labels>>

LabelsSpec == LabelsInit /\ [][LabelsNext]_labelVars

-------------------------------------------------------------------------------
(* The labels tell what the records of RoutingController say, whatever was *)
(* exported before and under whatever name: the slice still holds the      *)
(* types of earlier modes, of which the last has to win                    *)
(* (reconcile_resources.go:86), and objects of one name and kind differ in *)
(* the UID only.  So a deletion by labels finds what it would find by the  *)
(* records.                                                                *)
LabelsTell ==
  /\ DOMAIN labels = {Identity(r) : r \in res}
  /\ \A r \in res :
       LET ls == labels[Identity(r)]
       IN L!Matches(L!MatchingLabels(Append(Owner(r.owner), L!ExportType(r.type))), ls)
===============================================================================
