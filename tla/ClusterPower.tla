---------------------------- MODULE ClusterPower ----------------------------
(***************************************************************************)
(* Switching the nodes of one cluster off and on (internal/power): the     *)
(* seven verbs on a node and on the cluster, each a job of steps that the  *)
(* engine runs under the cluster's lease and resumes after a restart; the  *)
(* keeper that cordons a disabled node somebody powered on; and, around    *)
(* them, nodes that take their time going down and coming up, an operator  *)
(* who cordons by hand, and failures.                                      *)
(*                                                                         *)
(* Every control-plane node is a voter of etcd, and Kubernetes answers     *)
(* while a majority of them does.  Every node has a Kubernetes node and a  *)
(* network card address.  The engine's own records are JobEngine's         *)
(* subject: here a job is its remaining steps.                             *)
(***************************************************************************)
EXTENDS Naturals, FiniteSets, SequencesExt

CONSTANTS
    ByName,     \* every node once, in the order of their names
    Planes,     \* the control-plane nodes
    Endpoint,   \* the node this daemon reaches the cluster through
    NodeVerbs, ClusterVerbs,   \* verbs an operator may press
    MaxJobs,    \* verbs pressed
    MaxUpsets   \* failures, crashes of the daemon, power buttons and cordons by hand

Nodes == Range(ByName)
Workers == Nodes \ Planes
Verbs == {"stop", "force-stop", "start", "disable", "enable", "restart", "force-restart"}

ASSUME PowerAssumption ==
    /\ ByName \in Seq(Range(ByName)) /\ IsInjective(ByName)
    /\ Planes \subseteq Nodes
    /\ NodeVerbs \subseteq Verbs /\ ClusterVerbs \subseteq Verbs
    /\ MaxJobs \in Nat /\ MaxUpsets \in Nat

VARIABLES
    power,      \* [Nodes -> what the machine is doing]
    disabled,   \* nodes whose record says Disabled
    marked,     \* nodes whose record says PowerCordoned
    off,        \* the cluster's record says Disabled
    by,         \* [Nodes -> who made the node unschedulable, "no" for nobody]
    job,        \* the job that holds the cluster's lease, NoJob for none
    todo,       \* its steps from the current one on
    phase,      \* how far the current step has come
    left,       \* nodes an uncordon has still to do
    req,        \* a verb checked against the report and not yet submitted
    serving,    \* the daemon runs
    keeper,     \* nodes the keeper's sweep has listed and not yet looked at
    \* History and bounds.
    owed,       \* nodes the job has asked to reboot and that are not back
    booted,     \* nodes booted since the job's last reboot step began
    jobs, upsets   \* how many of each there have been

world == <<power>>
records == <<disabled, marked, off>>
running == <<job, todo, phase, left>>
history == <<owed, booted>>
counts == <<jobs, upsets>>
vars == <<power, disabled, marked, off, by, job, todo, phase, left, req, serving, keeper,
          owed, booted, jobs, upsets>>

PowerStates == {"up", "stopping", "rebooting", "booting", "off"}
Owners == {"no", "operator", "late", "job", "drain", "keeper"}
Phases == {"idle", "ready", "free", "marked", "each", "clear", "did"}

First(S) == SelectSeq(ByName, LAMBDA n : n \in S)[1]

Upset == upsets < MaxUpsets /\ upsets' = upsets + 1 /\ UNCHANGED jobs
----------------------------------------------------------------------------
(* The cluster *)

\* A node goes on answering between accepting a shutdown or a reboot and
\* going down.
Reach(n) == power[n] \in {"up", "stopping", "rebooting"}
Majority(S) == 2 * Cardinality(S) > Cardinality(Planes)
KubeUp == Majority({p \in Planes : Reach(p)})
Cordoned(n) == by[n] # "no"

\* Gate.Evaluate and decide, when no alarm, lag or missing leader refuses too.
GateOK(n) ==
    \/ Cardinality(Planes) = 1
    \/ (\A p \in Planes : Reach(p)) /\ Cardinality(Planes) >= 3
----------------------------------------------------------------------------
(* The steps of a verb *)

Step(op, on, opt) == [op |-> op, on |-> on, opt |-> opt]
Drained(n) == <<Step("cordon", {n}, TRUE), Step("drain", {n}, FALSE)>>
Rebooted(n) == <<Step("reboot", {n}, FALSE), Step("waitBack", {n}, TRUE),
                 Step("uncordon", {n}, TRUE)>>
Woken(n) == <<Step("refuseDisabled", {n}, FALSE), Step("wake", {n}, TRUE),
              Step("waitAnswer", {n}, FALSE), Step("uncordon", {n}, FALSE)>>

Checked(n) == <<Step("reachable", {n}, FALSE), Step("gate", {n}, FALSE)>>
Down(n) == Drained(n) \o <<Step("shutdown", {n}, FALSE)>>

nodeSteps(a, n, answered) ==
    CASE a = "stop" -> Checked(n) \o Down(n)
      [] a = "force-stop" -> <<Step("reachable", {n}, FALSE), Step("shutdown", {n}, FALSE)>>
      [] a = "start" -> Woken(n)
      [] a = "disable" ->
           IF answered THEN Checked(n) \o <<Step("mark", {n}, TRUE)>> \o Down(n)
                       ELSE <<Step("mark", {n}, TRUE)>>
      [] a = "enable" -> <<Step("mark", {n}, FALSE)>> \o Woken(n)
      [] a = "restart" -> <<Step("reachable", {n}, FALSE)>> \o Drained(n) \o Rebooted(n)
      [] a = "force-restart" ->
           <<Step("reachable", {n}, FALSE), Step("remember", {n}, FALSE), Step("reboot", {n}, TRUE),
             Step("waitBack", {n}, FALSE), Step("uncordon", {n}, TRUE)>>

stopMember(n) ==
    IF n \in Planes THEN <<Step("cordon", {n}, FALSE), Step("shutdown", {n}, TRUE)>>
                    ELSE Drained(n) \o <<Step("shutdown", {n}, TRUE)>>
stopWalk(members) == FlattenSeq([i \in DOMAIN members |-> stopMember(members[i])])

startWalk ==
    <<Step("refuseOff", {}, FALSE), Step("wake", Planes, FALSE), Step("waitKube", {}, FALSE),
      Step("wake", Workers, FALSE), Step("waitAnswer", Workers, FALSE), Step("uncordon", Nodes, TRUE)>>

restartMember(n) == Drained(n) \o Rebooted(n)
restartWalk(members) == FlattenSeq([i \in DOMAIN members |-> restartMember(members[i])])

clusterSteps(a, members) ==
    LET on == Range(members)
    IN CASE a = "stop" -> stopWalk(members)
         [] a = "force-stop" -> <<Step("forceOffAll", on, FALSE)>>
         [] a = "start" -> startWalk
         [] a = "disable" -> <<Step("markCluster", {}, TRUE)>> \o stopWalk(members)
         [] a = "enable" -> <<Step("markCluster", {}, FALSE)>> \o startWalk
         [] a = "restart" -> restartWalk(members)
         [] a = "force-restart" ->
              <<Step("remember", on, FALSE), Step("rebootAll", on, TRUE),
                Step("waitBack", on, FALSE), Step("uncordon", on, TRUE)>>

\* Workers, then control-plane nodes, the endpoint last; among equals by name.
Rank(n) == IF n \notin Planes THEN 1 ELSE IF n # Endpoint THEN 2 ELSE 3
NameOf(n) == CHOOSE k \in DOMAIN ByName : ByName[k] = n
Precedes(m, n) == Rank(m) < Rank(n) \/ (Rank(m) = Rank(n) /\ NameOf(m) < NameOf(n))
walkOrder(S) ==
    [i \in 1 .. Cardinality(S) |-> CHOOSE n \in S : Cardinality({m \in S : Precedes(m, n)}) = i - 1]
----------------------------------------------------------------------------
(* Pressing a verb: the report's rules, then Submit *)

nodeReport(a, n) ==
    CASE a = "stop" -> Reach(n) /\ (n \in Planes => GateOK(n))
      [] a = "force-stop" -> Reach(n)
      [] a = "start" -> n \notin disabled /\ ~off /\ (Reach(n) => n \in marked)
      [] a = "disable" -> n \notin disabled /\ (Reach(n) /\ n \in Planes => GateOK(n))
      [] a = "enable" -> n \in disabled /\ ~off
      [] a \in {"restart", "force-restart"} -> n \notin disabled /\ Reach(n)

Active == Nodes \ disabled
Running == Active # {} /\ \A n \in Active : Reach(n)

clusterReport(a) ==
    CASE a \in {"stop", "force-stop"} -> \E n \in Nodes : Reach(n)
      [] a = "start" -> ~off /\ (Running => Active \cap marked # {})
      [] a = "disable" -> ~off
      [] a = "enable" -> off
      [] a \in {"restart", "force-restart"} -> ~off /\ Running

NoJob == [verb |-> "none", cluster |-> FALSE, steps |-> <<>>]

\* SubmitMachine and SubmitCluster up to the call of Submit.
PressNode(a, n) ==
    /\ serving
    /\ req = NoJob
    /\ jobs < MaxJobs /\ jobs' = jobs + 1
    /\ nodeReport(a, n)
    /\ req' = [verb |-> a, cluster |-> FALSE, steps |-> nodeSteps(a, n, Reach(n))]
    /\ UNCHANGED <<world, records, by, running, serving, keeper, history, upsets>>

PressCluster(a) ==
    LET members == IF a \in {"restart", "force-restart"}
                   THEN {n \in Active : Reach(n)} ELSE Nodes
    IN /\ serving
       /\ req = NoJob
       /\ jobs < MaxJobs /\ jobs' = jobs + 1
       /\ clusterReport(a)
       /\ req' = [verb |-> a, cluster |-> TRUE, steps |-> clusterSteps(a, walkOrder(members))]
       /\ UNCHANGED <<world, records, by, running, serving, keeper, history, upsets>>

\* The lease goes to the request, or the request is refused.
Submit ==
    /\ req # NoJob
    /\ req' = NoJob
    /\ IF job = NoJob
       THEN /\ job' = [req EXCEPT !.steps = <<>>]
            /\ todo' = req.steps
            /\ phase' = "ready"
       ELSE UNCHANGED <<job, todo, phase>>
    /\ UNCHANGED <<world, records, by, left, serving, keeper, history, counts>>
----------------------------------------------------------------------------
(* The engine around the steps *)

Ended ==
    /\ job' = NoJob /\ todo' = <<>> /\ phase' = "idle" /\ left' = {}
    /\ owed' = {} /\ booted' = {}

Onward ==
    IF Len(todo) = 1 THEN Ended
    ELSE /\ todo' = Tail(todo) /\ phase' = "ready" /\ left' = {}
         /\ booted' = IF todo[2].op \in {"reboot", "rebootAll"} THEN {} ELSE booted
         /\ UNCHANGED <<job, owed>>

\* A step is done, and its record saved; after the last one the lease is free.
Advance ==
    /\ serving
    /\ phase = "did"
    /\ Onward
    /\ UNCHANGED <<world, records, by, req, serving, keeper, counts>>

\* A step returns an error, a wait runs out of its budget, or the job is
\* cancelled: the job ends where it stands.
StepFails ==
    /\ serving
    /\ phase # "idle"
    /\ Ended
    /\ UNCHANGED <<world, records, by, req, serving, keeper, counts>>

Crash ==
    /\ serving
    /\ Upset
    /\ serving' = FALSE
    /\ req' = NoJob
    /\ keeper' = {}
    /\ UNCHANGED <<world, records, by, running, history>>

On == Head(todo).on
The == CHOOSE n \in On : TRUE
Opt == Head(todo).opt

\* What the Happened of a step may answer about the cluster as it is.  A
\* Kubernetes that does not answer counts as "no": the step is safe to repeat.
cordonHappened(n, answer) == answer = "no" \/ (answer = "yes" /\ KubeUp /\ Cordoned(n))
drainHappened(n, answer) ==
    IF Reach(n) THEN answer = "no" \/ (answer = "yes" /\ KubeUp) ELSE answer = "yes"
wakeHappened(on, answer) == answer = IF \A n \in on \cap Active : Reach(n) THEN "yes" ELSE "no"
offHappened(on, answer) == answer = IF \E n \in on : Reach(n) THEN "no" ELSE "yes"
rebootHappened(on, answer) ==
    \/ answer = "unknown" /\ \E n \in on : ~Reach(n)
    \/ answer = "no" /\ \E n \in on : Reach(n) /\ n \notin booted
    \/ answer = "yes" /\ \A n \in on : Reach(n) /\ n \in booted

Happened(s, answer) ==
    CASE s.op = "cordon" -> cordonHappened(The, answer)
      [] s.op = "drain" -> drainHappened(The, answer)
      [] s.op = "wake" -> wakeHappened(s.on, answer)
      [] s.op \in {"shutdown", "forceOffAll"} -> offHappened(s.on, answer)
      [] s.op \in {"reboot", "rebootAll"} -> rebootHappened(s.on, answer)
      [] s.op = "mark" -> answer = IF (The \in disabled) = s.opt THEN "yes" ELSE "no"
      [] s.op = "markCluster" -> answer = IF off = s.opt THEN "yes" ELSE "no"
      [] OTHER -> answer = "no"

\* Resume at the start of the daemon.  A step found not yet begun, or not
\* happened, runs from its start; one that happened is passed over; one that
\* cannot tell parks the job, which holds no lease.
Resume ==
    /\ ~serving
    /\ serving' = TRUE
    /\ \/ phase = "idle" /\ UNCHANGED <<running, history>>
       \/ /\ \/ phase = "ready"
             \/ phase # "idle" /\ Happened(Head(todo), "no")
          /\ phase' = "ready" /\ left' = {}
          /\ UNCHANGED <<job, todo, history>>
       \/ phase # "idle" /\ Happened(Head(todo), "yes") /\ Onward
       \/ phase # "idle" /\ Happened(Head(todo), "unknown") /\ Ended
    /\ UNCHANGED <<world, records, by, req, keeper, counts>>
----------------------------------------------------------------------------
(* The steps *)

Now(ops) == serving /\ phase = "ready" /\ Head(todo).op \in ops
Did == phase' = "did" /\ UNCHANGED <<job, todo, left>>

\* What the steps that only look must see to go on.
reachable == Reach(The)
askGate == The \in Planes => GateOK(The)
refuseDisabled == The \notin disabled /\ ~off
refuseClusterDisabled == ~off
waitAnswer == \A n \in On \cap Active : Reach(n)
waitKube == KubeUp
waitAllBack == \A n \in On : Reach(n) /\ n \in booted
\* Mutant: a node that answers is taken to be back from its reboot.
waitBackAnswering == (\A n \in On : Reach(n)) /\ (Opt => KubeUp)
waitBack == waitAllBack /\ (Opt => KubeUp)

Sees ==
    CASE Head(todo).op = "reachable" -> reachable
      [] Head(todo).op = "gate" -> askGate
      [] Head(todo).op = "refuseDisabled" -> refuseDisabled
      [] Head(todo).op = "refuseOff" -> refuseClusterDisabled
      [] Head(todo).op = "waitAnswer" -> waitAnswer
      [] Head(todo).op = "waitKube" -> waitKube
      [] Head(todo).op = "waitBack" -> waitBack

\* A step that only looks is over at once, and so is one that writes a mark:
\* repeating the one, or asking after the other, comes to the same.
Look ==
    /\ Now({"reachable", "gate", "refuseDisabled", "refuseOff", "waitAnswer", "waitKube", "waitBack"})
    /\ Sees
    /\ Onward
    /\ UNCHANGED <<world, records, by, req, serving, keeper, counts>>

\* Mutant: the cordon is made before the mark.
CordonLookCordons ==
    /\ Now({"cordon"})
    /\ \/ KubeUp /\ Cordoned(The) /\ phase' = "did" /\ UNCHANGED by
       \/ KubeUp /\ ~Cordoned(The) /\ phase' = "free" /\ by' = [by EXCEPT ![The] = "job"]
       \/ ~Opt /\ phase' = "did" /\ UNCHANGED by
    /\ UNCHANGED <<world, records, job, todo, left, req, serving, keeper, history, counts>>

\* cordon, first call: is the node schedulable.  Without strict, a Kubernetes
\* that does not answer leaves the node as it is.
CordonLook ==
    /\ Now({"cordon"})
    /\ \/ KubeUp /\ Cordoned(The) /\ phase' = "did"
       \/ KubeUp /\ ~Cordoned(The) /\ phase' = "free"
       \/ ~Opt /\ phase' = "did"
    /\ UNCHANGED <<world, records, by, job, todo, left, req, serving, keeper, history, counts>>

CordonMark ==
    /\ serving
    /\ phase = "free"
    /\ marked' = marked \cup On
    /\ phase' = "marked"
    /\ UNCHANGED <<world, disabled, off, by, job, todo, left, req, serving, keeper, history, counts>>

CordonNode ==
    /\ serving
    /\ phase = "marked"
    /\ KubeUp
    /\ by' = [n \in Nodes |-> IF n \in On /\ ~Cordoned(n) THEN "job" ELSE by[n]]
    /\ Did
    /\ UNCHANGED <<world, records, req, serving, keeper, history, counts>>

\* Drain cordons first, whatever the step before it found.
Drain ==
    /\ Now({"drain"})
    /\ \/ ~Reach(The) /\ by' = by
       \/ Reach(The) /\ KubeUp
          /\ by' = [by EXCEPT ![The] = IF @ = "no" THEN "drain" ELSE @]
    /\ Did
    /\ UNCHANGED <<world, records, req, serving, keeper, history, counts>>

Sent(S, as) == power' = [n \in Nodes |-> IF n \in S THEN as ELSE power[n]]

\* The node accepts the shutdown and goes down later.  A cluster's walk passes
\* over a node that is already off.
Shutdown ==
    /\ Now({"shutdown"})
    /\ \/ Reach(The) /\ Sent(On, "stopping")
       \/ Opt /\ ~Reach(The) /\ UNCHANGED power
    /\ Did
    /\ UNCHANGED <<records, by, req, serving, keeper, history, counts>>

\* Every node that answers is told at once; one that fails to take it fails
\* the step, after the others have.
ForceOffAll ==
    LET asked == {n \in On : Reach(n)}
    IN /\ Now({"forceOffAll"})
       /\ \E S \in SUBSET asked :
             /\ Sent(S, "stopping")
             /\ IF S = asked THEN Did /\ UNCHANGED history ELSE Ended
       /\ UNCHANGED <<records, by, req, serving, keeper, counts>>

Reboot ==
    /\ Now({"reboot", "rebootAll"})
    /\ \E S \in SUBSET {n \in On : Reach(n)} :
          /\ Sent(S, "rebooting")
          /\ IF S = On
             THEN /\ owed' = owed \cup On
                  /\ booted' = booted \ On
                  /\ Did
             ELSE Ended
    /\ UNCHANGED <<records, by, req, serving, keeper, counts>>

\* remember: best effort, so any of the schedulable nodes may be noted.
Remember ==
    /\ Now({"remember"})
    /\ \E S \in SUBSET {n \in On : ~Cordoned(n)} :
          /\ S # {} => KubeUp
          /\ marked' = marked \cup S
    /\ Did
    /\ UNCHANGED <<world, disabled, off, by, req, serving, keeper, history, counts>>

\* A packet wakes a node that is off, or is lost.
Wake ==
    /\ Now({"wake"})
    /\ \E S \in SUBSET {n \in On \cap Active : power[n] = "off"} : Sent(S, "booting")
    /\ Did
    /\ UNCHANGED <<records, by, req, serving, keeper, history, counts>>

Mark ==
    /\ Now({"mark"})
    /\ disabled' = IF Opt THEN disabled \cup On ELSE disabled \ On
    /\ Onward
    /\ UNCHANGED <<world, marked, off, by, req, serving, keeper, counts>>

MarkCluster ==
    /\ Now({"markCluster"})
    /\ off' = Opt
    /\ Onward
    /\ UNCHANGED <<world, disabled, marked, by, req, serving, keeper, counts>>

\* uncordon: whom, then each of them in turn, the cordon before the mark.
UncordonWhom ==
    LET targets == {n \in On \cap Active : Opt => n \in marked}
    IN /\ Now({"uncordon"})
       /\ left' = targets
       /\ phase' = IF targets = {} THEN "did" ELSE "each"
       /\ UNCHANGED <<world, records, by, job, todo, req, serving, keeper, history, counts>>

Turn == First(left)

UncordonNode ==
    /\ serving
    /\ phase = "each"
    /\ KubeUp
    /\ by' = [by EXCEPT ![Turn] = "no"]
    /\ phase' = "clear"
    /\ UNCHANGED <<world, records, job, todo, left, req, serving, keeper, history, counts>>

UncordonClear ==
    /\ serving
    /\ phase = "clear"
    /\ marked' = marked \ {Turn}
    /\ left' = left \ {Turn}
    /\ phase' = IF left' = {} THEN "did" ELSE "each"
    /\ UNCHANGED <<world, disabled, off, by, job, todo, req, serving, keeper, history, counts>>

StepActions ==
    \/ Look \/ CordonLook \/ CordonMark \/ CordonNode \/ Drain \/ Shutdown \/ ForceOffAll
    \/ Reboot \/ Remember \/ Wake \/ Mark \/ MarkCluster \/ UncordonWhom \/ UncordonNode \/ UncordonClear
----------------------------------------------------------------------------
(* The keeper *)

\* A sweep begins by listing who is disabled, a node of a disabled cluster
\* counting as disabled.
SweepList ==
    /\ serving
    /\ keeper = {}
    /\ keeper' = IF off THEN Nodes ELSE disabled
    /\ keeper' # {}
    /\ UNCHANGED <<world, records, by, running, req, serving, history, counts>>

\* Then it looks at each, and cordons the one that answers.
keepCordoned ==
    /\ keeper # {}
    /\ LET n == First(keeper)
       IN /\ keeper' = keeper \ {n}
          /\ by' = IF Reach(n) /\ KubeUp /\ ~Cordoned(n) THEN [by EXCEPT ![n] = "keeper"] ELSE by
    /\ UNCHANGED <<world, records, running, req, serving, history, counts>>
----------------------------------------------------------------------------
(* Machines, people and failures *)

GoesDown(n) ==
    /\ power[n] \in {"stopping", "rebooting"}
    /\ power' = [power EXCEPT ![n] = IF @ = "stopping" THEN "off" ELSE "booting"]
    /\ UNCHANGED <<records, by, running, req, serving, keeper, history, counts>>

ComesUp(n) ==
    /\ power[n] = "booting"
    /\ power' = [power EXCEPT ![n] = "up"]
    /\ owed' = owed \ {n}
    /\ booted' = IF job.verb \in {"restart", "force-restart"} THEN booted \cup {n} ELSE booted
    /\ UNCHANGED <<records, by, running, req, serving, keeper, counts>>

Fails(n) ==
    /\ Reach(n)
    /\ Upset
    /\ power' = [power EXCEPT ![n] = "off"]
    /\ UNCHANGED <<records, by, running, req, serving, keeper, history>>

PowerButton(n) ==
    /\ power[n] = "off"
    /\ Upset
    /\ power' = [power EXCEPT ![n] = "booting"]
    /\ UNCHANGED <<records, by, running, req, serving, keeper, history>>

\* By hand, through the Kubernetes screen or kubectl.  A cordon is "late" when
\* a power action had already decided to take responsibility for the node.
HandCordon(n) ==
    /\ KubeUp
    /\ ~Cordoned(n)
    /\ Upset
    /\ by' = [by EXCEPT ![n] = IF n \in marked \/ (phase = "free" /\ n \in On) THEN "late" ELSE "operator"]
    /\ UNCHANGED <<world, records, running, req, serving, keeper, history>>

HandUncordon(n) ==
    /\ KubeUp
    /\ Cordoned(n)
    /\ Upset
    /\ by' = [by EXCEPT ![n] = "no"]
    /\ UNCHANGED <<world, records, running, req, serving, keeper, history>>

Init ==
    /\ power = [n \in Nodes |-> "up"]
    /\ disabled = {} /\ marked = {} /\ off = FALSE
    /\ by = [n \in Nodes |-> "no"]
    /\ job = NoJob /\ todo = <<>> /\ phase = "idle" /\ left = {}
    /\ req = NoJob
    /\ serving = TRUE
    /\ keeper = {}
    /\ owed = {} /\ booted = {}
    /\ jobs = 0 /\ upsets = 0

Next ==
    \/ \E a \in NodeVerbs, n \in Nodes : PressNode(a, n)
    \/ \E a \in ClusterVerbs : PressCluster(a)
    \/ Submit \/ Advance \/ StepFails \/ Crash \/ Resume
    \/ StepActions
    \/ SweepList \/ keepCordoned
    \/ \E n \in Nodes :
          \/ GoesDown(n) \/ ComesUp(n) \/ Fails(n) \/ PowerButton(n)
          \/ HandCordon(n) \/ HandUncordon(n)

Spec == Init /\ [][Next]_vars

\* The keeper runs for as long as the daemon does, and the daemon is restarted.
Fairness == WF_vars(SweepList) /\ WF_vars(Resume) /\ WF_vars(keepCordoned)
FairSpec == Spec /\ Fairness
----------------------------------------------------------------------------
(* Properties *)

\* Types, and that the lease, the steps and the phase of a job come and go
\* together (Engine.Submit, run).
TypeOK ==
    /\ power \in [Nodes -> PowerStates]
    /\ disabled \subseteq Nodes /\ marked \subseteq Nodes /\ off \in BOOLEAN
    /\ by \in [Nodes -> Owners]
    /\ phase \in Phases /\ (phase = "idle" <=> job = NoJob) /\ (phase = "idle" <=> todo = <<>>)
    /\ left \subseteq Nodes /\ keeper \subseteq Nodes
    /\ serving \in BOOLEAN
    /\ owed \subseteq Nodes /\ booted \subseteq Nodes

\* model.Machine.PowerCordoned and steps.go's order of writes: a cordon that a
\* cordon step made is owed an uncordon, whatever is interrupted in between.
JobCordonIsOwed == \A n \in Nodes : by[n] = "job" => n \in marked

\* A rolling restart has at most one node away at a time (waitBack).
OneAwayAtATime == job.verb = "restart" => Cardinality(owed) <= 1

=============================================================================
