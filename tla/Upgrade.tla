------------------------------ MODULE Upgrade ------------------------------
(***************************************************************************)
(* Rolling upgrades of Talos and Kubernetes and the removal of a node      *)
(* (internal/upgrade, its routes), over one cluster's etcd.                *)
(*                                                                         *)
(* A job walks its steps in order.  A step first decides (the health gate, *)
(* the quorum rule), then acts on the node, then waits until the node says *)
(* so.  Between those the daemon may stop, an operator may lock a machine, *)
(* forget one, or remove an etcd member by hand: that request takes no     *)
(* cluster lease.  After a restart the step is asked whether it happened.  *)
(*                                                                         *)
(* Nodes are numbers in the order of walkOrder: control planes first, then *)
(* by name.  A version is its minor.  A read of several nodes is one step. *)
(* Every error, timeout and cancellation of a step is StepFails.           *)
(***************************************************************************)
EXTENDS Naturals, Sequences, FiniteSets, SequencesExt, FiniteSetsExt

CONSTANTS
    NumCP,       \* control-plane nodes
    NumNodes,    \* nodes
    Components,  \* talos.ControlPlaneComponents, in order
    MaxMinor,    \* newest Talos release
    MaxUpgradeJobs,     \* jobs submitted
    MaxEvents    \* outside events: locks, faults, crashes, calls

ASSUME UpgradeAssumption ==
    /\ NumCP \in Nat \ {0} /\ NumNodes \in Nat /\ NumCP <= NumNodes
    /\ Components \in Seq(ToSet(Components))
    /\ MaxMinor \in Nat \ {0}
    /\ MaxUpgradeJobs \in Nat /\ MaxEvents \in Nat

ClusterNodes == 1 .. NumNodes
CPs == 1 .. NumCP
Minors == 0 .. MaxMinor

VARIABLES
    inv,      \* machines in the inventory
    locked,   \* machines an operator locked
    up,       \* [Nodes -> {"up", "away", "wiped"}]
    os,       \* [Nodes -> the Talos it runs]
    image,    \* [CPs -> [component -> the Kubernetes it runs]]
    ready,    \* [CPs -> components whose static pod is back]
    proxy,    \* the kube-proxy image
    kubelet,  \* [Nodes -> the kubelet it runs]
    member,   \* [CPs -> {"voter", "learner", "out"}]
    behind,   \* members that are still replaying the log
    settling, \* etcd lost a member less than EvictionWait ago
    conf,     \* the intent the last confirmation token carries
    ujob,      \* the job that holds the cluster's lease, or the last one
    call,     \* the DELETE etcd/members request in flight: its member, or 0
    raced,    \* a member removal overlapped a job that was past its check
    used      \* [jobs, events]: how many jobs were submitted and things happened outside

upgradeVars == <<inv, locked, up, os, image, ready, proxy, kubelet, member, behind,
                 settling, conf, ujob, call, raced, used>>

nodeVars == <<up, os, image, ready, proxy, kubelet>>
etcdVars == <<member, behind, settling>>

UpgradeStarts == used.jobs < MaxUpgradeJobs /\ used' = [used EXCEPT !.jobs = @ + 1]
SomethingHappens == used.events < MaxEvents /\ used' = [used EXCEPT !.events = @ + 1]

NoUpgrade == [kind |-> "none", steps |-> <<>>, i |-> 1, to |-> 0, rest |-> <<>>, pc |-> "begin", st |-> "ended"]
NoIntent == [kind |-> "none", to |-> 0, walk |-> <<>>]

UpgradeInit ==
    /\ inv = ClusterNodes
    /\ locked = {}
    /\ up = [n \in ClusterNodes |-> "up"]
    /\ os = [n \in ClusterNodes |-> 0]
    /\ image = [n \in CPs |-> [c \in ToSet(Components) |-> 0]]
    /\ ready = [n \in CPs |-> ToSet(Components)]
    /\ proxy = 0
    /\ kubelet = [n \in ClusterNodes |-> 0]
    /\ member \in {[n \in CPs |-> "voter"], [n \in CPs |-> IF n = NumCP THEN "learner" ELSE "voter"]}
    /\ behind = {} /\ settling = FALSE
    /\ conf = NoIntent
    /\ ujob = NoUpgrade
    /\ call = 0
    /\ raced = FALSE
    /\ used = [jobs |-> 0, events |-> 0]
----------------------------------------------------------------------------
(***************************************************************************)
(* What etcd says, and the two rules that decide about it.                 *)
(***************************************************************************)
Voters == {n \in CPs : member[n] = "voter"}
MembersOf == {n \in CPs : member[n] # "out"}
Answers(n) == up[n] = "up"
Standing == {n \in Voters : Answers(n)}
EtcdMajority(k) == k \div 2 + 1
Quorum == Cardinality(Standing) >= EtcdMajority(Cardinality(Voters))

MinVotingMembers == 3
inventoryCPs == inv \cap CPs

\* Gate.Evaluate asks the control planes of the inventory; the membership is theirs.
Voting == IF \E n \in inventoryCPs : Answers(n) THEN Cardinality(Voters) ELSE 0

\* Mutant: a silent control plane is not counted.
EvaluateForgiving(taking) ==
    /\ inventoryCPs # {}
    /\ Voting >= MinVotingMembers
    /\ behind = {}

\* decide: raft lag over the limit, no leader, and an alarm all refuse.
Evaluate(taking) ==
    /\ inventoryCPs # {}
    /\ \/ Cardinality(inventoryCPs) = 1 /\ Voting <= 1
       \/ /\ \A n \in inventoryCPs : Answers(n)
          /\ Voting >= MinVotingMembers
          /\ \/ taking \in CPs /\ member[taking] = "learner"
             \/ behind \cap inventoryCPs = {} /\ Quorum

\* Members: how many voters may be lost.
Tolerates == IF Voters = {} THEN 0 ELSE Cardinality(Voters) - EtcdMajority(Cardinality(Voters))

\* ProbeVoters: a voter whose machine is not in the inventory is silent.
ProbeVoters == Standing \cap inv

standingAfterRemoving(n) == Cardinality(ProbeVoters \ {n})

\* RefuseIfCannotSpareAVoter, negated.
CanSpareAVoter(n) ==
    /\ Cardinality(Voters) > 1
    /\ Tolerates > 0
    /\ standingAfterRemoving(n) >= EtcdMajority(Cardinality(Voters) - 1)
----------------------------------------------------------------------------
(***************************************************************************)
(* Plans and the steps of a job.                                           *)
(***************************************************************************)
upgradeOrder(S) == [k \in 1 .. Cardinality(S) |-> CHOOSE n \in S : Cardinality({m \in S : m <= n}) = k]
Lowest(f, S) == CHOOSE v \in {f[n] : n \in S} : \A n \in S : v <= f[n]

\* Chain has no path down.  A target further up is listed minor by minor, for information.
Chain(from, to) == to >= from

\* CheckSchematic, securityStateOf and ResolveInstaller need the node's answer.
CheckSchematic(n) == Answers(n)

\* PlanTalos: no downgrade, every unlocked node answers, the gate's preview passes.
PlanTalos(to) ==
    /\ inv # {}
    /\ Chain(Lowest(os, inv), to)
    /\ \A n \in inv \ locked : CheckSchematic(n)
    /\ Evaluate(0)

kubernetesChainPrecheck(from, to) == to >= from

\* PlanKubernetes: the version of a node is its kubelet's.
PlanKubernetes(to) ==
    /\ inv # {}
    /\ kubernetesChainPrecheck(Lowest(kubelet, inv), to)
    /\ Evaluate(0)

Plan(kind, to) == IF kind = "talos" THEN PlanTalos(to) ELSE PlanKubernetes(to)

\* RequestFor leaves the locked nodes out.
RequestFor(kind, to) == [kind |-> kind, to |-> to, walk |-> upgradeOrder(inv \ locked)]

\* upgradeParams: an unblocked plan that walks at least one node.
upgradeParams(kind, to) == Plan(kind, to) /\ inv \ locked # {}

PlanStep(op, x) == [op |-> op, x |-> x]

talosSteps(walk) == [k \in DOMAIN walk |-> PlanStep("upgrade", walk[k])]

kubernetesSteps(walk) ==
    <<PlanStep("prepull", 0)>>
        \o [k \in DOMAIN Components |-> PlanStep("component", Components[k])]
        \o <<PlanStep("proxy", 0)>>
        \o [k \in DOMAIN walk |-> PlanStep("kubelet", walk[k])]

removeNodeSteps(n) ==
    IF n \in CPs
    THEN <<PlanStep("reach", n), PlanStep("leave", n), PlanStep("settle", n),
           PlanStep("wipe", n), PlanStep("forget", n)>>
    ELSE <<PlanStep("reach", n), PlanStep("wipe", n), PlanStep("forget", n)>>

JobRuns == ujob.st = "running"
Cur == ujob.steps[ujob.i]
At(op, pc) == JobRuns /\ ujob.pc = pc /\ Cur.op = op
Goto(pc) == ujob' = [ujob EXCEPT !.pc = pc]
Fail == ujob' = [ujob EXCEPT !.st = "failed"]

\* The engine saves the step and takes the next one, or ends the job.
NextStep(j) == IF j.i = Len(j.steps) THEN [j EXCEPT !.st = "done"]
              ELSE [j EXCEPT !.i = @ + 1, !.pc = "begin", !.rest = <<>>]
----------------------------------------------------------------------------
(***************************************************************************)
(* The routes.                                                             *)
(***************************************************************************)
confirmUpgrade(kind, to) ==
    /\ used.jobs < MaxUpgradeJobs
    /\ conf = NoIntent
    /\ upgradeParams(kind, to)
    /\ conf' = RequestFor(kind, to)
    /\ UNCHANGED <<inv, locked, ujob, call, raced, used>>
    /\ UNCHANGED nodeVars /\ UNCHANGED etcdVars

\* submitUpgrade plans again: the token must carry what would run now.
submitUpgrade ==
    /\ conf # NoIntent
    /\ ~JobRuns /\ ujob.st # "interrupted"
    /\ upgradeParams(conf.kind, conf.to)
    /\ conf = RequestFor(conf.kind, conf.to)
    /\ UpgradeStarts
    /\ ujob' = [NoUpgrade EXCEPT !.kind = conf.kind, !.to = conf.to, !.st = "running",
                            !.steps = IF conf.kind = "talos" THEN talosSteps(conf.walk)
                                      ELSE kubernetesSteps(conf.walk)]
    /\ conf' = NoIntent
    /\ UNCHANGED <<inv, locked, call, raced>>
    /\ UNCHANGED nodeVars /\ UNCHANGED etcdVars

\* PreflightRemoval: checkRemovable, for a control plane.
checkRemovable(n) ==
    /\ \E m \in inventoryCPs : Answers(m)
    /\ n \in MembersOf => CanSpareAVoter(n)

removeNodeFromCluster(n) ==
    /\ ~JobRuns /\ ujob.st # "interrupted"
    /\ n \in inv
    /\ n \in CPs => checkRemovable(n)
    /\ UpgradeStarts
    /\ ujob' = [NoUpgrade EXCEPT !.kind = "remove", !.steps = removeNodeSteps(n), !.st = "running"]
    /\ UNCHANGED <<inv, locked, conf, call, raced>>
    /\ UNCHANGED nodeVars /\ UNCHANGED etcdVars

\* RemoveEtcdMember reads the live membership and decides.
removeEtcdMember(n) ==
    /\ call = 0
    /\ n \in MembersOf
    /\ \E m \in inventoryCPs : Answers(m)
    /\ n \in Voters => CanSpareAVoter(n)
    /\ SomethingHappens
    /\ call' = n
    /\ UNCHANGED <<inv, locked, conf, ujob, raced>>
    /\ UNCHANGED nodeVars /\ UNCHANGED etcdVars

PastCheck == JobRuns /\ ujob.pc # "begin" /\ Cur.op \in {"upgrade", "kubelet", "component", "leave"}

\* The call itself, through a control plane other than the member.
RemoveMember ==
    /\ call # 0
    /\ \/ /\ \E m \in inventoryCPs \ {call} : Answers(m)
          /\ member' = [member EXCEPT ![call] = "out"]
          /\ raced' = (raced \/ PastCheck \/ member[call] = "out" \/ ~CanSpareAVoter(call))
       \/ UNCHANGED <<member, raced>>
    /\ call' = 0
    /\ UNCHANGED <<inv, locked, conf, ujob, behind, settling, used>>
    /\ UNCHANGED nodeVars

lockMachine(n) ==
    /\ SomethingHappens
    /\ locked' = IF n \in locked THEN locked \ {n} ELSE locked \cup {n}
    /\ UNCHANGED <<inv, conf, ujob, call, raced>>
    /\ UNCHANGED nodeVars /\ UNCHANGED etcdVars

\* The inventory forgets a machine and etcd does not.
ForgetMachine(n) ==
    /\ n \in inv
    /\ SomethingHappens
    /\ inv' = inv \ {n}
    /\ UNCHANGED <<locked, conf, ujob, call, raced>>
    /\ UNCHANGED nodeVars /\ UNCHANGED etcdVars
----------------------------------------------------------------------------
(***************************************************************************)
(* Steps of the Talos upgrade.                                             *)
(***************************************************************************)
\* The machine, its lock and the gate are read immediately before the node is touched.
BeginNode(op) ==
    /\ At(op, "begin")
    /\ IF Cur.x \notin inv THEN Fail
       ELSE IF Cur.x \in locked THEN ujob' = NextStep(ujob)
       ELSE IF Cur.x \in CPs /\ ~Evaluate(Cur.x) THEN Fail
       ELSE Goto("do")
    /\ UNCHANGED <<inv, locked, conf, call, raced, used>>
    /\ UNCHANGED nodeVars /\ UNCHANGED etcdVars

TalosBegin == BeginNode("upgrade")

\* ImagePull, EtcdForfeitLeadership, Upgrade: the node installs and reboots.  It comes
\* up as the new version or rolls back.
TalosTake ==
    /\ At("upgrade", "do")
    /\ Answers(Cur.x)
    /\ up' = [up EXCEPT ![Cur.x] = "away"]
    /\ \E v \in {os[Cur.x], ujob.to} : os' = [os EXCEPT ![Cur.x] = v]
    /\ Goto("wait")
    /\ UNCHANGED <<inv, locked, image, ready, proxy, kubelet, conf, call, raced, used>>
    /\ UNCHANGED etcdVars

VerifyUpgraded(n) == Answers(n) /\ os[n] = ujob.to

waitForUpgrade ==
    /\ At("upgrade", "wait")
    /\ VerifyUpgraded(Cur.x)
    /\ ujob' = NextStep(ujob)
    /\ UNCHANGED <<inv, locked, conf, call, raced, used>>
    /\ UNCHANGED nodeVars /\ UNCHANGED etcdVars
----------------------------------------------------------------------------
(***************************************************************************)
(* Steps of the Kubernetes upgrade.                                        *)
(***************************************************************************)
\* prepullStep: every unlocked node still in the inventory pulls the images.
Prepull ==
    /\ At("prepull", "begin")
    /\ Goto("do")
    /\ UNCHANGED <<inv, locked, conf, call, raced, used>>
    /\ UNCHANGED nodeVars /\ UNCHANGED etcdVars

PrepullDone ==
    /\ At("prepull", "do")
    /\ \A n \in inv \ locked : Answers(n)
    /\ ujob' = NextStep(ujob)
    /\ UNCHANGED <<inv, locked, conf, call, raced, used>>
    /\ UNCHANGED nodeVars /\ UNCHANGED etcdVars

\* The run's nodes: the kubelet steps name them.
Walk == {ujob.steps[k].x : k \in {k \in DOMAIN ujob.steps : ujob.steps[k].op = "kubelet"}}
controlPlaneOf == (Walk \cap CPs \cap inv) \ locked
staticPodAt(n, c) == Answers(n) /\ image[n][c] = ujob.to /\ c \in ready[n]

\* The list of control planes is read once, when the step starts.
ComponentBegin ==
    /\ At("component", "begin")
    /\ ujob' = [ujob EXCEPT !.pc = "each", !.rest = upgradeOrder(controlPlaneOf)]
    /\ UNCHANGED <<inv, locked, conf, call, raced, used>>
    /\ UNCHANGED nodeVars /\ UNCHANGED etcdVars

\* A node that is there already is passed over; the others go behind the gate.
ComponentEach ==
    /\ At("component", "each")
    /\ IF ujob.rest = <<>> THEN ujob' = NextStep(ujob)
       ELSE IF staticPodAt(Head(ujob.rest), Cur.x) THEN ujob' = [ujob EXCEPT !.rest = Tail(@)]
       ELSE IF ~Evaluate(Head(ujob.rest)) THEN Fail
       ELSE Goto("do")
    /\ UNCHANGED <<inv, locked, conf, call, raced, used>>
    /\ UNCHANGED nodeVars /\ UNCHANGED etcdVars

\* applyImage: the kubelet restarts the static pod on the new image.
ComponentApply ==
    /\ At("component", "do")
    /\ LET n == Head(ujob.rest) IN
         /\ Answers(n)
         /\ image' = [image EXCEPT ![n][Cur.x] = ujob.to]
         /\ ready' = [ready EXCEPT ![n] = @ \ {Cur.x}]
    /\ Goto("wait")
    /\ UNCHANGED <<inv, locked, up, os, proxy, kubelet, conf, call, raced, used>>
    /\ UNCHANGED etcdVars

waitForStaticPod ==
    /\ At("component", "wait")
    /\ staticPodAt(Head(ujob.rest), Cur.x)
    /\ ujob' = [ujob EXCEPT !.pc = "each", !.rest = Tail(@)]
    /\ UNCHANGED <<inv, locked, conf, call, raced, used>>
    /\ UNCHANGED nodeVars /\ UNCHANGED etcdVars

\* kubeProxyStep: the configuration of the control planes, then the DaemonSet.
ProxyBegin ==
    /\ At("proxy", "begin")
    /\ Goto("do")
    /\ UNCHANGED <<inv, locked, conf, call, raced, used>>
    /\ UNCHANGED nodeVars /\ UNCHANGED etcdVars

ProxyApply ==
    /\ At("proxy", "do")
    /\ \A n \in controlPlaneOf : Answers(n)
    /\ proxy' = ujob.to
    /\ ujob' = NextStep(ujob)
    /\ UNCHANGED <<inv, locked, up, os, image, ready, kubelet, conf, call, raced, used>>
    /\ UNCHANGED etcdVars

KubeletBegin == BeginNode("kubelet")

KubeletApply ==
    /\ At("kubelet", "do")
    /\ Answers(Cur.x)
    /\ kubelet' = [kubelet EXCEPT ![Cur.x] = ujob.to]
    /\ Goto("wait")
    /\ UNCHANGED <<inv, locked, up, os, image, ready, proxy, conf, call, raced, used>>
    /\ UNCHANGED etcdVars

waitForKubernetes ==
    /\ At("kubelet", "wait")
    /\ Answers(Cur.x) /\ kubelet[Cur.x] = ujob.to
    /\ ujob' = NextStep(ujob)
    /\ UNCHANGED <<inv, locked, conf, call, raced, used>>
    /\ UNCHANGED nodeVars /\ UNCHANGED etcdVars
----------------------------------------------------------------------------
(***************************************************************************)
(* Steps of a removal.                                                     *)
(***************************************************************************)
\* jobs.ReachableStep.
Reachable ==
    /\ At("reach", "begin")
    /\ IF Answers(Cur.x) THEN ujob' = NextStep(ujob) ELSE Fail
    /\ UNCHANGED <<inv, locked, conf, call, raced, used>>
    /\ UNCHANGED nodeVars /\ UNCHANGED etcdVars

\* The quorum rule once more, immediately before the leave.
LeaveBegin ==
    /\ At("leave", "begin")
    /\ IF Cur.x \notin inv \/ ~checkRemovable(Cur.x) THEN Fail
       ELSE IF Cur.x \notin MembersOf THEN ujob' = NextStep(ujob)
       ELSE Goto("do")
    /\ UNCHANGED <<inv, locked, conf, call, raced, used>>
    /\ UNCHANGED nodeVars /\ UNCHANGED etcdVars

\* EtcdLeaveCluster, on the node itself.
LeaveEtcd ==
    /\ At("leave", "do")
    /\ Answers(Cur.x)
    /\ Cur.x \in MembersOf
    /\ member' = [member EXCEPT ![Cur.x] = "out"]
    /\ settling' = TRUE
    /\ Goto("wait")
    /\ UNCHANGED <<inv, locked, behind, conf, call, raced, used>>
    /\ UNCHANGED nodeVars

LeaveDone ==
    /\ At("leave", "wait")
    /\ ujob' = NextStep(ujob)
    /\ UNCHANGED <<inv, locked, conf, call, raced, used>>
    /\ UNCHANGED nodeVars /\ UNCHANGED etcdVars

SettleBegin ==
    /\ At("settle", "begin")
    /\ Goto("wait")
    /\ UNCHANGED <<inv, locked, conf, call, raced, used>>
    /\ UNCHANGED nodeVars /\ UNCHANGED etcdVars

\* settleStep: EvictionWait has passed.
SettleDone ==
    /\ At("settle", "wait")
    /\ ~settling
    /\ ujob' = NextStep(ujob)
    /\ UNCHANGED <<inv, locked, conf, call, raced, used>>
    /\ UNCHANGED nodeVars /\ UNCHANGED etcdVars

WipeBegin ==
    /\ At("wipe", "begin")
    /\ Goto("do")
    /\ UNCHANGED <<inv, locked, conf, call, raced, used>>
    /\ UNCHANGED nodeVars /\ UNCHANGED etcdVars

WipeNode ==
    /\ At("wipe", "do")
    /\ Answers(Cur.x)
    /\ up' = [up EXCEPT ![Cur.x] = "wiped"]
    /\ Goto("wait")
    /\ UNCHANGED <<inv, locked, os, image, ready, proxy, kubelet, conf, call, raced, used>>
    /\ UNCHANGED etcdVars

WipeDone ==
    /\ At("wipe", "wait")
    /\ ujob' = NextStep(ujob)
    /\ UNCHANGED <<inv, locked, conf, call, raced, used>>
    /\ UNCHANGED nodeVars /\ UNCHANGED etcdVars

ForgetBegin ==
    /\ At("forget", "begin")
    /\ Goto("do")
    /\ UNCHANGED <<inv, locked, conf, call, raced, used>>
    /\ UNCHANGED nodeVars /\ UNCHANGED etcdVars

ForgetNode ==
    /\ At("forget", "do")
    /\ inv' = inv \ {Cur.x}
    /\ ujob' = [ujob EXCEPT !.pc = "wait"]
    /\ UNCHANGED <<locked, conf, call, raced, used>>
    /\ UNCHANGED nodeVars /\ UNCHANGED etcdVars

ForgetDone ==
    /\ At("forget", "wait")
    /\ ujob' = NextStep(ujob)
    /\ UNCHANGED <<inv, locked, conf, call, raced, used>>
    /\ UNCHANGED nodeVars /\ UNCHANGED etcdVars
----------------------------------------------------------------------------
(***************************************************************************)
(* Failure, restart, and the nodes.                                        *)
(***************************************************************************)
\* A call fails, a budget runs out, or the operator stops the job.
UpgradeStepFails ==
    /\ JobRuns
    /\ Fail
    /\ UNCHANGED <<inv, locked, conf, call, raced, used>>
    /\ UNCHANGED nodeVars /\ UNCHANGED etcdVars

\* The daemon dies: the job stays in the store, a request is gone, tokens too.
UpgradeCrash ==
    /\ SomethingHappens
    /\ ujob' = IF JobRuns THEN [ujob EXCEPT !.st = "interrupted"] ELSE ujob
    /\ call' = 0 /\ conf' = NoIntent
    /\ UNCHANGED <<inv, locked, raced>>
    /\ UNCHANGED nodeVars /\ UNCHANGED etcdVars

\* Step.Happened of the step that was interrupted; "unknown" parks the job.
UpgradeHappened ==
    CASE Cur.op = "upgrade" -> IF VerifyUpgraded(Cur.x) THEN "yes" ELSE "no"
      [] Cur.op = "component" ->
           IF \A n \in controlPlaneOf : staticPodAt(n, Cur.x) THEN "yes" ELSE "no"
      [] Cur.op = "kubelet" ->
           IF Answers(Cur.x) /\ kubelet[Cur.x] = ujob.to THEN "yes" ELSE "no"
      [] Cur.op = "leave" ->
           IF Cur.x \notin inv \/ ~\E n \in inventoryCPs : Answers(n) THEN "unknown"
           ELSE IF Cur.x \in MembersOf THEN "no" ELSE "yes"
      [] Cur.op = "settle" -> IF settling THEN "no" ELSE "yes"
      [] Cur.op = "forget" -> IF Cur.x \in inv THEN "no" ELSE "yes"
      [] Cur.op = "reach" -> "no"
      [] OTHER -> "unknown"

ResumeJob ==
    /\ ujob.st = "interrupted"
    /\ LET j == [ujob EXCEPT !.st = "running"]
           h == IF ujob.pc = "begin" THEN "no" ELSE UpgradeHappened
       IN ujob' = CASE h = "yes" -> NextStep(j)
                   [] h = "no" -> [j EXCEPT !.pc = "begin", !.rest = <<>>]
                   [] OTHER -> [ujob EXCEPT !.st = "parked"]
    /\ UNCHANGED <<inv, locked, conf, call, raced, used>>
    /\ UNCHANGED nodeVars /\ UNCHANGED etcdVars

\* One node fails while the others stand and nothing is past its check.
NodeFails(n) ==
    /\ up[n] = "up"
    /\ n \in Voters => Cardinality(Voters) >= 3
    /\ \A m \in CPs : member[m] # "out" => Answers(m)
    /\ ~PastCheck /\ call = 0
    /\ SomethingHappens
    /\ up' = [up EXCEPT ![n] = "away"]
    /\ UNCHANGED <<inv, locked, os, image, ready, proxy, kubelet, conf, ujob, call, raced>>
    /\ UNCHANGED etcdVars

\* A node that was away answers again; its etcd has a log to replay.
NodeReturns(n) ==
    /\ up[n] = "away"
    /\ up' = [up EXCEPT ![n] = "up"]
    /\ behind' = IF n \in MembersOf THEN behind \cup {n} ELSE behind
    /\ UNCHANGED <<inv, locked, os, image, ready, proxy, kubelet, member, settling, conf, ujob, call, raced, used>>

CatchesUp(n) ==
    /\ n \in behind /\ Answers(n)
    /\ behind' = behind \ {n}
    /\ UNCHANGED <<inv, locked, member, settling, conf, ujob, call, raced, used>>
    /\ UNCHANGED nodeVars

PodReady(n, c) ==
    /\ Answers(n) /\ c \notin ready[n]
    /\ ready' = [ready EXCEPT ![n] = @ \cup {c}]
    /\ UNCHANGED <<inv, locked, up, os, image, proxy, kubelet, conf, ujob, call, raced, used>>
    /\ UNCHANGED etcdVars

Settles ==
    /\ settling
    /\ settling' = FALSE
    /\ UNCHANGED <<inv, locked, member, behind, conf, ujob, call, raced, used>>
    /\ UNCHANGED nodeVars

JobStep ==
    \/ TalosBegin \/ TalosTake \/ waitForUpgrade
    \/ Prepull \/ PrepullDone
    \/ ComponentBegin \/ ComponentEach \/ ComponentApply \/ waitForStaticPod
    \/ ProxyBegin \/ ProxyApply
    \/ KubeletBegin \/ KubeletApply \/ waitForKubernetes
    \/ Reachable \/ LeaveBegin \/ LeaveEtcd \/ LeaveDone \/ SettleBegin \/ SettleDone
    \/ WipeBegin \/ WipeNode \/ WipeDone \/ ForgetBegin \/ ForgetNode \/ ForgetDone

UpgradeNext ==
    \/ \E to \in Minors : confirmUpgrade("talos", to)
    \/ \E to \in {0, 1} : confirmUpgrade("kubernetes", to)
    \/ submitUpgrade
    \/ \E n \in ClusterNodes : removeNodeFromCluster(n) \/ lockMachine(n) \/ ForgetMachine(n)
    \/ \E n \in CPs : removeEtcdMember(n)
    \/ RemoveMember
    \/ JobStep \/ UpgradeStepFails \/ UpgradeCrash \/ ResumeJob
    \/ \E n \in ClusterNodes : NodeFails(n) \/ NodeReturns(n)
    \/ \E n \in CPs : CatchesUp(n)
    \/ \E n \in CPs, c \in ToSet(Components) : PodReady(n, c)
    \/ Settles

UpgradeSpec == UpgradeInit /\ [][UpgradeNext]_upgradeVars
----------------------------------------------------------------------------
(***************************************************************************)
(* Properties.                                                             *)
(***************************************************************************)
\* The walk, the removals and one node failing on its own never cost etcd its
\* majority, as long as the inventory knows every voter and no member was removed by
\* hand behind a check (gate.go: "would rather refuse than strand it").
WalkKeepsQuorum == (~raced /\ Voters \subseteq inv) => Quorum

=============================================================================
