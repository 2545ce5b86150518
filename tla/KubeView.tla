------------------------------ MODULE KubeView ------------------------------
(***************************************************************************)
(* Two things the manager makes out of several reads of a cluster that     *)
(* goes on changing under it: the list of apps with what each is using     *)
(* (internal/kube/apps.go), and the clearing out of what has finished      *)
(* (internal/kube/tidy.go), planned in one request and done in a later     *)
(* one.  Every list is one call; rollouts, cron runs, restarts and pods    *)
(* that end happen between any two.                                        *)
(*                                                                         *)
(* What the API server answers is modelled from internal/kubesim; what the *)
(* cluster's controllers do is external.                                   *)
(***************************************************************************)
EXTENDS Naturals, FiniteSets

CONSTANTS
  SetNames,      \* names of replica sets, all of one deployment
  JobNames,      \* names of jobs
  PodNames,      \* names of pods
  Kubelets,      \* the nodes
  Slots,         \* kubelets asked at once (summaryConcurrency)
  SweepOlderThan,\* age below which what has finished is left alone
  MaxAge,        \* bound: the clock
  MaxHappenings  \* bound: things the cluster does

ASSUME KubeViewAssumption ==
  /\ Slots \in Nat \ {0}
  /\ SweepOlderThan \in Nat /\ MaxAge \in Nat /\ MaxHappenings \in Nat
  /\ "none" \notin Kubelets

VARIABLES
  rs,         \* replica sets: of a deployment or of none, replicas, born
  kjob,       \* jobs: of a cron job or of none, whether and when it ended
  kpod,       \* pods: owner, phase, node, born
  clock,
  happened,   \* things the cluster did
  reader,     \* the apps request: the call it makes next and what it has read
  asked,      \* per node, the reading of its kubelet's summary
  budget,     \* the summaries' shared deadline has not passed
  sweepPlan,  \* what the plan listed
  sweeper     \* the sweep: where it is and what it has left to delete

kubeVars == <<rs, kjob, kpod, clock, happened, reader, asked, budget, sweepPlan, sweeper>>
clusterVars == <<rs, kjob, kpod, clock, happened>>
readVars == <<reader, asked, budget>>
sweepVars == <<sweepPlan, sweeper>>

Nothing == [there |-> FALSE]
There(f) == {x \in DOMAIN f : f[x].there}

(***************************************************************************)
(* What the API server lists.                                              *)
(***************************************************************************)
writeReplicaSets == There(rs)
writeJobs == There(kjob)
writePods == There(kpod)

(* A pod as the server renders it: the controller it names, and the phase.   *)
renderPod(p) ==
  [owner |-> kpod[p].owner, phase |-> kpod[p].phase, node |-> kpod[p].node]
finished(pod) == pod.phase \in {"Succeeded", "Failed"}

(***************************************************************************)
(* The apps request.                                                       *)
(***************************************************************************)
NoRead == [at |-> "idle"]

\* Kinds an app can have, with what a pod's controller resolves to.
appOf(pod, p, deploymentOf, cronJobOf) ==
  LET name == pod.owner.name
  IN CASE pod.owner.kind = "ReplicaSet" /\ name \in deploymentOf -> <<"Deployment", "d">>
       [] pod.owner.kind = "StatefulSet" -> <<"StatefulSet", "s">>
       [] pod.owner.kind = "Job" ->
            IF name \in cronJobOf THEN <<"CronJob", "c">> ELSE <<"Job", name>>
       [] OTHER -> <<"Pod", p>>

(* collectApps: the controllers first, one list after another, ... *)
ReadSets ==
  /\ reader.at = "idle"
  /\ reader' = [at |-> "jobs", deploymentOf |-> {s \in writeReplicaSets : rs[s].of = "d"}]
  /\ UNCHANGED <<asked, budget, clusterVars, sweepVars>>

ReadJobs ==
  /\ reader.at = "jobs"
  /\ reader' = [at |-> "pods", deploymentOf |-> reader.deploymentOf,
                cronJobOf |-> {j \in writeJobs : kjob[j].of = "c"}]
  /\ UNCHANGED <<asked, budget, clusterVars, sweepVars>>

(* ... then the pods, each resolved to its app; the nodes of those that run *)
(* are asked what they use.                                                 *)
collectApps ==
  /\ reader.at = "pods"
  /\ LET rows == {[pod |-> p, node |-> renderPod(p).node,
                   key |-> appOf(renderPod(p), p, reader.deploymentOf, reader.cronJobOf)] :
                  p \in {q \in writePods : ~finished(renderPod(q))}}
     IN reader' = [at |-> "usage", rows |-> rows, into |-> {}, stray |->
                     {r.pod : r \in {x \in rows : x.key[1] = "Pod"
                                        /\ kpod[x.pod].owner.kind = "ReplicaSet"}}]
  /\ UNCHANGED <<asked, budget, clusterVars, sweepVars>>

nodesOf == {r.node : r \in reader.rows} \ {"none"}

(* summaries: a goroutine per node takes a slot, or its answer is the       *)
(* deadline; a kubelet answers, fails, or is cut off by the deadline.       *)
StartSummaries ==
  /\ reader.at = "usage"
  /\ reader' = [reader EXCEPT !.at = "asking"]
  /\ asked' = [n \in Kubelets |-> IF n \in nodesOf THEN "waiting" ELSE "notAsked"]
  /\ budget' = TRUE
  /\ UNCHANGED <<clusterVars, sweepVars>>

TakeSlot(n) ==
  /\ reader.at = "asking" /\ asked[n] = "waiting"
  /\ Cardinality({k \in Kubelets : asked[k] = "inFlight"}) < Slots
  /\ asked' = [asked EXCEPT ![n] = "inFlight"]
  /\ UNCHANGED <<reader, budget, clusterVars, sweepVars>>

\* Mutant: a node still waiting for a slot at the deadline reports nothing.
summariesCutForgets(n) ==
  /\ reader.at = "asking" /\ ~budget /\ asked[n] \in {"waiting", "inFlight"}
  /\ asked' = [asked EXCEPT ![n] = IF asked[n] = "waiting" THEN "dropped" ELSE "failed"]
  /\ UNCHANGED <<reader, budget, clusterVars, sweepVars>>

summariesCut(n) ==
  /\ reader.at = "asking" /\ ~budget /\ asked[n] \in {"waiting", "inFlight"}
  /\ asked' = [asked EXCEPT ![n] = "failed"]
  /\ UNCHANGED <<reader, budget, clusterVars, sweepVars>>

(* The kubelet's own answer: figures for some of the pods it runs, because   *)
(* one that just started has not been measured, and perhaps for one that ran *)
(* there a moment ago.  Or it fails.                                         *)
writeSummary(n) ==
  {p \in writePods : renderPod(p).node = n} \union {r.pod : r \in {x \in reader.rows : x.node = n}}

nodeSummary(n) ==
  /\ reader.at = "asking" /\ asked[n] = "inFlight"
  /\ \/ /\ asked' = [asked EXCEPT ![n] = "answered"]
        /\ \E measured \in SUBSET writeSummary(n) :
             reader' = [reader EXCEPT !.into = @ \union ({n} \X measured)]
     \/ asked' = [asked EXCEPT ![n] = "failed"] /\ UNCHANGED reader
  /\ UNCHANGED <<budget, clusterVars, sweepVars>>

BudgetEnds ==
  /\ reader.at = "asking" /\ budget
  /\ budget' = FALSE
  /\ UNCHANGED <<reader, asked, clusterVars, sweepVars>>

(* The pods of the answer whose use is known: a pod is read from the answer  *)
(* of the kubelet that ran it when the pods were listed, and of no other.    *)
podTotal == {r.pod : r \in {x \in reader.rows : <<x.node, x.pod>> \in reader.into}}

(* readUsage: every kubelet heard; some silent, and named; none, and then    *)
(* metrics-server is asked, or nobody is measuring.                          *)
readUsage ==
  /\ reader.at = "asking"
  /\ \A n \in Kubelets : asked[n] \notin {"waiting", "inFlight"}
  /\ LET failed == {n \in Kubelets : asked[n] = "failed"}
         Answer(known) ==
           [at |-> "done", rows |-> reader.rows, stray |-> reader.stray, known |-> known,
            named |-> failed, heard |-> {n \in Kubelets : asked[n] = "answered"}]
     IN IF failed = nodesOf /\ nodesOf # {}
        THEN \E metrics \in SUBSET {r.pod : r \in reader.rows} : reader' = Answer(metrics)
        ELSE reader' = Answer(podTotal)
  /\ UNCHANGED <<asked, budget, clusterVars, sweepVars>>

(* A list call fails and the request with it; or the answer is written. *)
RequestEnds ==
  /\ reader.at # "idle"
  /\ reader' = NoRead
  /\ asked' = [n \in Kubelets |-> "notAsked"]
  /\ UNCHANGED <<budget, clusterVars, sweepVars>>

(***************************************************************************)
(* The sweep: three lists make the plan, in one request; another deletes   *)
(* what it listed, by kind and name.                                       *)
(***************************************************************************)
finishedAt(j) == kjob[j].ended

PlanPods ==
  /\ sweeper.at = "idle"
  /\ sweepPlan' = {<<"Pod", p>> : p \in {q \in writePods :
                     finished(renderPod(q)) /\ clock - kpod[q].born >= SweepOlderThan}}
  /\ sweeper' = [at |-> "planJobs", left |-> {}]
  /\ UNCHANGED <<clusterVars, readVars>>

PlanJobs ==
  /\ sweeper.at = "planJobs"
  /\ sweepPlan' = sweepPlan \union
       {<<"Job", j>> : j \in {k \in writeJobs :
          kjob[k].done /\ clock - finishedAt(k) >= SweepOlderThan /\ kjob[k].of # "c"}}
  /\ sweeper' = [sweeper EXCEPT !.at = "planSets"]
  /\ UNCHANGED <<clusterVars, readVars>>

(* The newest set of a deployment stays, and every set as old as it. *)
PlanSweep ==
  /\ sweeper.at = "planSets"
  /\ sweepPlan' = sweepPlan \union
       {<<"ReplicaSet", s>> : s \in {r \in writeReplicaSets :
          /\ rs[r].of = "d" /\ rs[r].replicas = 0
          /\ \E newer \in writeReplicaSets : rs[newer].of = "d" /\ rs[newer].born > rs[r].born
          /\ clock - rs[r].born >= SweepOlderThan}}
  /\ sweeper' = [sweeper EXCEPT !.at = "planned"]
  /\ UNCHANGED <<clusterVars, readVars>>

(* The operator sends back the plan, whole or in part. *)
kubernetesSweep ==
  /\ sweeper.at = "planned"
  /\ \E items \in SUBSET sweepPlan :
       /\ items # {}
       /\ sweeper' = [at |-> "sweeping", left |-> items]
  /\ UNCHANGED <<sweepPlan, clusterVars, readVars>>

(* One delete per item; one that is gone counts as removed, one that is      *)
(* refused is reported and the rest goes on.                                 *)
Sweep(kind, name) ==
  /\ sweeper.at = "sweeping" /\ <<kind, name>> \in sweeper.left
  /\ sweeper' = [sweeper EXCEPT !.left = @ \ {<<kind, name>>}]
  /\ \/ UNCHANGED <<rs, kjob, kpod>>
     \/ /\ rs' = IF kind = "ReplicaSet" THEN [rs EXCEPT ![name] = Nothing] ELSE rs
        /\ kjob' = IF kind = "Job" THEN [kjob EXCEPT ![name] = Nothing] ELSE kjob
        /\ kpod' = IF kind = "Pod" THEN [kpod EXCEPT ![name] = Nothing] ELSE kpod
  /\ UNCHANGED <<clock, happened, sweepPlan, readVars>>

SweepEnds ==
  /\ sweeper.at # "idle" /\ (sweeper.at = "sweeping" => sweeper.left = {})
  /\ sweeper' = [at |-> "idle", left |-> {}]
  /\ sweepPlan' = {}
  /\ UNCHANGED <<clusterVars, readVars>>

(***************************************************************************)
(* The cluster's own doings, external.                                     *)
(***************************************************************************)
ClusterHappens(next) == happened < MaxHappenings /\ happened' = happened + 1 /\ next
Live(s) == rs[s].there /\ rs[s].replicas > 0

(* A new template makes a new set, and the ones before it go to zero. *)
RollsOut(s) ==
  /\ ~rs[s].there
  /\ rs' = [x \in SetNames |->
       IF x = s THEN [there |-> TRUE, of |-> "d", replicas |-> 1, born |-> clock]
       ELSE IF rs[x].there THEN [rs[x] EXCEPT !.replicas = 0] ELSE Nothing]
  /\ UNCHANGED <<kjob, kpod, clock>>

(* A rollback to a template that was rolled out before uses its set again. *)
RollsBack(s) ==
  /\ rs[s].there /\ rs[s].replicas = 0
  /\ rs' = [x \in SetNames |->
       IF rs[x].there THEN [rs[x] EXCEPT !.replicas = IF x = s THEN 1 ELSE 0] ELSE Nothing]
  /\ UNCHANGED <<kjob, kpod, clock>>

JobStarts(j, of) ==
  /\ ~kjob[j].there
  /\ kjob' = [kjob EXCEPT ![j] = [there |-> TRUE, of |-> of, done |-> FALSE, ended |-> 0]]
  /\ UNCHANGED <<rs, kpod, clock>>

KubeJobEnds(j) ==
  /\ kjob[j].there /\ ~kjob[j].done
  /\ kjob' = [kjob EXCEPT ![j].done = TRUE, ![j].ended = clock]
  /\ UNCHANGED <<rs, kpod, clock>>

PodOwners ==
  {[kind |-> "ReplicaSet", name |-> s] : s \in {x \in SetNames : Live(x)}}
  \union {[kind |-> "Job", name |-> j] : j \in {x \in JobNames : kjob[x].there /\ ~kjob[x].done}}
  \union {[kind |-> "StatefulSet", name |-> "s"], [kind |-> "none", name |-> "none"]}

\* A name is free when its pod is gone; a stateful set's pod takes it again.
PodStarts(p, o, n) ==
  /\ ~kpod[p].there
  /\ kpod' = [kpod EXCEPT ![p] = [there |-> TRUE, owner |-> o, phase |-> "Running",
                                  node |-> n, born |-> clock]]
  /\ UNCHANGED <<rs, kjob, clock>>

PodEnds(p) ==
  /\ kpod[p].there /\ kpod[p].phase = "Running"
  /\ \E ph \in {"Succeeded", "Unknown"} : kpod' = [kpod EXCEPT ![p].phase = ph]
  /\ UNCHANGED <<rs, kjob, clock>>

(* A failed pod of a stateful set is replaced under its own name, anywhere. *)
PodReplaced(p, n) ==
  /\ kpod[p].there /\ kpod[p].owner.kind = "StatefulSet" /\ kpod[p].phase # "Running"
  /\ kpod' = [kpod EXCEPT ![p].phase = "Running", ![p].born = clock, ![p].node = n]
  /\ UNCHANGED <<rs, kjob, clock>>

TimePasses ==
  /\ clock < MaxAge
  /\ clock' = clock + 1
  /\ UNCHANGED <<rs, kjob, kpod, happened, readVars, sweepVars>>

ClusterDoes ==
  /\ ClusterHappens(\/ \E s \in SetNames : RollsOut(s) \/ RollsBack(s)
             \/ \E j \in JobNames : (\E of \in {"c", "none"} : JobStarts(j, of)) \/ KubeJobEnds(j)
             \/ \E p \in PodNames :
                  \/ \E n \in Kubelets : PodReplaced(p, n) \/ \E o \in PodOwners : PodStarts(p, o, n)
                  \/ PodEnds(p))
  /\ UNCHANGED <<readVars, sweepVars>>

KubeInit ==
  /\ rs = [s \in SetNames |-> Nothing]
  /\ kjob = [j \in JobNames |-> Nothing]
  /\ kpod = [p \in PodNames |-> Nothing]
  /\ clock = 0 /\ happened = 0
  /\ reader = NoRead
  /\ asked = [n \in Kubelets |-> "notAsked"]
  /\ budget = TRUE
  /\ sweepPlan = {}
  /\ sweeper = [at |-> "idle", left |-> {}]

Apps ==
  \/ ReadSets \/ ReadJobs \/ collectApps \/ StartSummaries
  \/ \E n \in Kubelets : TakeSlot(n) \/ summariesCut(n) \/ nodeSummary(n)
  \/ BudgetEnds \/ readUsage \/ RequestEnds

Sweeping ==
  \/ PlanPods \/ PlanJobs \/ PlanSweep \/ kubernetesSweep \/ SweepEnds
  \/ \E name \in PodNames \union JobNames \union SetNames, kind \in {"Pod", "Job", "ReplicaSet"} :
       Sweep(kind, name)

KubeNext == Apps \/ Sweeping \/ ClusterDoes \/ TimePasses

KubeSpec == KubeInit /\ [][KubeNext]_kubeVars

(***************************************************************************)
(* Properties.                                                             *)
(***************************************************************************)
(* "A node that does not answer costs its pods their numbers, which then    *)
(* read as unknown and never as zero, and the notice names it": whatever    *)
(* the slots and the shared deadline did, and however pods moved meanwhile, *)
(* every node with a pod in the answer was heard or is named, and no pod of *)
(* a node that was not heard has a figure of a kubelet's.                   *)
SilenceIsSaid ==
  (reader.at = "done") =>
    \A r \in reader.rows :
      /\ r.node \in reader.heard \union reader.named
      /\ (r.pod \in reader.known) => (r.node \in reader.heard \/ reader.heard = {})

=============================================================================
