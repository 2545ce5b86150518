-------------------------------- MODULE Drain --------------------------------
(***************************************************************************)
(* Draining a node as a job of one step: cordon, list the pods, and evict  *)
(* them one by one, each by the Eviction API, which a disruption budget    *)
(* may refuse.  Meanwhile pods end, finish terminating and are bound, the  *)
(* operator may lift the cordon, and the daemon may stop; after a restart  *)
(* the engine asks the step whether it has already happened.               *)
(***************************************************************************)
EXTENDS Naturals, FiniteSets

CONSTANTS
  DrainPods,      \* pods by name; a controller reuses the name
  MaxDrainStops   \* bound: stops of the daemon, and lifted cordons

ASSUME DrainAssumption == MaxDrainStops \in Nat

VARIABLES
  pod,        \* [DrainPods -> what each pod is and where it stands]
  budgets,    \* pods whose disruption budget refuses right now
  cordoned,   \* spec.unschedulable of the node
  drain,      \* the job: where it stands, its options and what it found
  drainStops  \* stops and lifted cordons so far

drainVars == <<pod, budgets, cordoned, drain, drainStops>>

PodSorts == {"owned", "daemonset", "mirror", "bare", "localdata"}
OnNode == {p \in DrainPods : pod[p].at \in {"running", "terminating", "ended"}}

(* What a drain with these options makes of a pod. *)
classifyPod(p, opts) ==
  IF pod[p].at = "ended" THEN "finished" ELSE
  CASE pod[p].sort = "mirror" -> "mirror"
    [] pod[p].sort = "bare" /\ ~opts.force -> "bare"
    [] pod[p].sort = "daemonset" -> "daemonset"
    [] pod[p].sort = "localdata" /\ ~opts.deleteLocalData -> "localdata"
    [] OTHER -> "evictable"

wouldMove(p) == classifyPod(p, drain.opts) = "evictable"

DrainInit ==
  /\ pod \in [DrainPods -> [sort : PodSorts, at : {"running", "ended", "elsewhere"}]]
  /\ budgets \in SUBSET DrainPods
  /\ cordoned = FALSE
  /\ drain \in [at : {"do"}, opts : [force : BOOLEAN, deleteLocalData : BOOLEAN],
                listed : {{}}, left : {{}}, blocked : {{}}, bound : {{}}]
  /\ drainStops = 0

Cordon ==
  /\ drain.at = "do"
  /\ cordoned' = TRUE
  /\ drain' = [drain EXCEPT !.at = "list", !.blocked = {}]
  /\ UNCHANGED <<pod, budgets, drainStops>>

PodsOnNode ==
  /\ drain.at = "list"
  /\ drain' = [drain EXCEPT
                 !.at = "evict", !.listed = OnNode, !.bound = {},
                 !.left = {[pod |-> p, as |-> classifyPod(p, drain.opts)] : p \in OnNode}]
  /\ UNCHANGED <<pod, budgets, cordoned, drainStops>>

(***************************************************************************)
(* The next pod of the listing, judged as it was listed: skipped, named as *)
(* blocked, or evicted.                                                    *)
(***************************************************************************)
BudgetRefuses(p) == p \in budgets /\ pod[p].at = "running"
evictPod(p) ==
  pod' = [pod EXCEPT ![p].at = IF @ = "running" /\ ~BudgetRefuses(p) THEN "terminating" ELSE @]

\* Mutant: a refusal of the budget is taken for an eviction.
evictTakesRefusals(p) == p \in {}

(* Does the pod stay?  A refusal says so; a pod not found is as good as evicted. *)
evict(p) == BudgetRefuses(p)

DrainsPod(l) ==
  /\ drain.at = "evict" /\ l \in drain.left
  /\ IF l.as = "evictable" THEN evictPod(l.pod) ELSE UNCHANGED pod
  /\ drain' = [drain EXCEPT
                 !.left = @ \ {l},
                 !.blocked = IF \/ l.as \in {"bare", "localdata"}
                                \/ l.as = "evictable" /\ evict(l.pod)
                             THEN @ \union {l.pod} ELSE @]
  /\ UNCHANGED <<budgets, cordoned, drainStops>>

DrainReturns ==
  /\ drain.at = "evict" /\ drain.left = {}
  /\ drain' = [drain EXCEPT !.at = IF drain.blocked = {} THEN "succeeded" ELSE "failed"]
  /\ UNCHANGED <<pod, budgets, cordoned, drainStops>>

(* A call fails, or the drain's ten minutes are over. *)
DrainFails ==
  /\ drain.at \in {"do", "list", "evict"}
  /\ drain' = [drain EXCEPT !.at = "failed"]
  /\ UNCHANGED <<pod, budgets, cordoned, drainStops>>

(***************************************************************************)
(* The daemon stops inside the step and comes back: the engine asks the    *)
(* step's own Happened, and does the step again when it has not.           *)
(***************************************************************************)
DaemonStops ==
  /\ drain.at \in {"do", "list", "evict"} /\ drainStops < MaxDrainStops
  /\ drain' = [drain EXCEPT !.at = "resumed", !.listed = {}, !.left = {}, !.blocked = {}]
  /\ drainStops' = drainStops + 1
  /\ UNCHANGED <<pod, budgets, cordoned>>

DrainHappened ==
  /\ drain.at = "resumed"
  /\ drain' = [drain EXCEPT
                 !.at = IF \E p \in OnNode : wouldMove(p) THEN "do" ELSE "succeeded",
                 !.listed = OnNode, !.bound = {}]
  /\ UNCHANGED <<pod, budgets, cordoned, drainStops>>

(***************************************************************************)
(* The cluster beside it, external.                                        *)
(***************************************************************************)
PodMoves(p) ==
  /\ \/ pod[p].at = "terminating" /\ pod' = [pod EXCEPT ![p].at = "elsewhere"]
     \/ pod[p].at = "running" /\ pod[p].sort # "daemonset" /\ pod' = [pod EXCEPT ![p].at = "ended"]
  /\ UNCHANGED <<budgets, cordoned, drain, drainStops>>

PodBinds(p) ==
  /\ pod[p].at = "elsewhere" /\ (~cordoned \/ pod[p].sort = "daemonset")
  /\ pod' = [pod EXCEPT ![p].at = "running"]
  /\ drain' = [drain EXCEPT !.bound = @ \union {p}]
  /\ UNCHANGED <<budgets, cordoned, drainStops>>

BudgetChanges(p) ==
  /\ budgets' = IF p \in budgets THEN budgets \ {p} ELSE budgets \union {p}
  /\ UNCHANGED <<pod, cordoned, drain, drainStops>>

OperatorUncordons ==
  /\ cordoned /\ drainStops < MaxDrainStops
  /\ cordoned' = FALSE
  /\ drainStops' = drainStops + 1
  /\ UNCHANGED <<pod, budgets, drain>>

DrainNext ==
  \/ Cordon \/ PodsOnNode \/ DrainReturns \/ DrainFails \/ DaemonStops \/ DrainHappened
  \/ OperatorUncordons
  \/ \E l \in drain.left : DrainsPod(l)
  \/ \E p \in DrainPods : PodMoves(p) \/ PodBinds(p) \/ BudgetChanges(p)

DrainSpec == DrainInit /\ [][DrainNext]_drainVars

(***************************************************************************)
(* Properties.                                                             *)
(***************************************************************************)
(* A drain that reports success has moved what it set out to move: at that *)
(* moment no pod it listed, and that was not bound since, still runs as    *)
(* one this drain would move, whatever budgets refused, whatever ended by  *)
(* itself and however often the daemon stopped in between.                 *)
SuccessMovedThem ==
  [][(drain.at # "succeeded" /\ drain'.at = "succeeded") =>
       \A p \in drain'.listed \ drain'.bound :
         pod'[p].at = "running" => ~wouldMove(p)']_drainVars

=============================================================================
