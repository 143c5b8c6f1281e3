----------------------------- MODULE RoutingDrift -----------------------------
(***************************************************************************)
(* RoutingController among things it does not hear of.  A controller can   *)
(* be deactivated (Activable, controllers/types.go; it is for the program  *)
(* that embeds the controllers to do so) and then takes requests from its  *)
(* queue without acting on them.  Other clients change routing resources,  *)
(* and so do the reconciles of other components, which delete by type      *)
(* alone: Owns() watches the resources, but looks for an owner reference   *)
(* to tell whom to reconcile, and they have none.                          *)
(***************************************************************************)
EXTENDS RoutingController

VARIABLES
  active,  \* active[w]: the controller of worker w acts on requests
  missed,  \* history: components with a request dropped, not reconciled since
  drifted  \* history: components that lost a resource to others, not reconciled since

driftVars == <<vars, active, missed, drifted>>

DriftInit ==
  /\ Init
  /\ active = [w \in Workers |-> TRUE]
  /\ missed = {}
  /\ drifted = {}

(* Who loses resources in a step of w, besides the component it works for. *)
Robbed(w) == {r.owner.comp : r \in res \ res'} \ {rc[w].comp}

(* Reconcile looks at active when it starts.  One that is running goes on. *)
Reconciling(w) ==
  LET started == IF rc[w].pc = "idle" THEN queue[w] \ queue'[w] ELSE {}
  IN /\ rc[w].pc = "idle" => active[w]
     /\ Step(w)
     /\ missed' = missed \ started
     /\ drifted' = (drifted \ started) \cup Robbed(w)
     /\ UNCHANGED active

Dropped(w, c) ==
  /\ ~active[w]
  /\ rc[w].pc = "idle"
  /\ c \in queue[w]
  /\ queue' = [queue EXCEPT ![w] = @ \ {c}]
  /\ missed' = missed \cup {c}
  /\ UNCHANGED <<cr, svcPorts, res, rc, faults, active, drifted>>

Activate(w) ==
  /\ ~active[w]
  /\ active' = [active EXCEPT ![w] = TRUE]
  /\ UNCHANGED <<vars, missed, drifted>>

(* Deactivate sets the flag and no more.                                   *)
Interrupts(w)    == Advance(w, Idle)                                \* mutant
LeavesRunning(w) == UNCHANGED rc

Deactivate(w) ==
  /\ active[w]
  /\ active' = [active EXCEPT ![w] = FALSE]
  /\ LeavesRunning(w)
  /\ UNCHANGED <<cr, svcPorts, res, queue, faults, missed, drifted>>

(* New makes an active controller.                                         *)
Restart(w) ==
  /\ Crash(w)
  /\ active' = [active EXCEPT ![w] = TRUE]
  /\ UNCHANGED <<missed, drifted>>

(* A routing resource is removed, or loses the labels of its owner.        *)
Unlabelled(r) == [r EXCEPT !.owner.inc = 0]

Tamper(r) ==
  /\ r.owner.inc # 0
  /\ \/ res' = res \ {r}
     \/ res' = (res \ {r}) \cup {Unlabelled(r)}
  /\ drifted' = drifted \cup {r.owner.comp}
  /\ UNCHANGED <<cr, svcPorts, queue, rc, faults, active, missed>>

DriftNext ==
  \/ \E w \in Workers : Reconciling(w) \/ Activate(w) \/ Deactivate(w) \/ Restart(w)
  \/ \E w \in Workers, c \in Components : Dropped(w, c)
  \/ \E r \in res : Tamper(r)
  \/ /\ \/ \E w \in Workers : ApiError(w)
        \/ \E c \in Components : User(c)
        \/ \E s \in Services : ServiceOwner(s)
     /\ UNCHANGED <<active, missed, drifted>>

DriftSpec == DriftInit /\ [][DriftNext]_driftVars

-------------------------------------------------------------------------------
DriftTypeOK ==
  /\ TypeOK
  /\ active \in [Workers -> BOOLEAN]
  /\ missed \in SUBSET Components
  /\ drifted \in SUBSET Components

(* Deactivation loses the requests it drops and nothing else: a reconcile  *)
(* that was running and the requests still queued make their components    *)
(* right, and one later reconcile makes up for all that was missed         *)
(* (controller.go:61-65).                                                  *)
OnlyDroppedIsMissed ==
  \A c \in Components \ missed : Settled(c) =>
    /\ cr[c].phase = "live" => UnusedGone(c) /\ AddressesFit(c)
    /\ cr[c].phase = "terminating" => EnabledModes(c) = {}

(* While services stay as they are, the hosts advertised for each enabled  *)
(* mode are those of all ports of one of them: no failure in the loops     *)
(* over services, ports and modes (reconcile_resources.go:59-100) leaves   *)
(* less, and a restart, a lost reply or a dropped request with one after   *)
(* it do not make the controller forget what was left to do.               *)
AdvertisesOneService ==
  \A c \in Components \ missed :
    cr[c].phase = "live" /\ Settled(c) => AdvertisesService(c)

(* Whatever was done to its resources, the next reconcile of a component   *)
(* serves its addresses again: Apply takes back resources that lost their  *)
(* labels and creates those that are gone (unstruct/funcs.go:15-60).       *)
RepairedByReconcile ==
  \A c \in Components \ (missed \cup drifted) :
    cr[c].phase = "live" /\ Settled(c) => Served(c)
===============================================================================
