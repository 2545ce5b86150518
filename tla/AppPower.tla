------------------------------ MODULE AppPower ------------------------------
(***************************************************************************)
(* One application of a cluster under the power verbs: what a stop         *)
(* remembers so that a start can bring back what ran, and what the mark    *)
(* "disabled" is worth.  There is no lock: each request reads the facts    *)
(* once, decides on them, and then makes its API calls one after another,  *)
(* while other requests, the older workload routes and the scale button    *)
(* make theirs.  Any call may fail, and a request whose daemon stops is a  *)
(* request whose remaining calls fail.                                     *)
(*                                                                         *)
(* The replica count, the annotations, the node selector and the suspend   *)
(* flag live on the object, in the API server; its answers are modelled    *)
(* from the repository's own API server, internal/kubesim.  What the       *)
(* controllers do with the object is external.                             *)
(***************************************************************************)
EXTENDS Naturals, Sequences

CONSTANTS
  AppKinds,      \* the kinds of app in play
  Users,         \* requests that may be in flight together
  MaxReplicas,   \* bound: largest replica count anybody asks for
  MaxVerbs       \* bound: requests begun

ASSUME AppPowerAssumption ==
  /\ AppKinds \subseteq {"Deployment", "StatefulSet", "DaemonSet", "Job", "CronJob", "Pod"}
  /\ MaxReplicas \in Nat \ {0}
  /\ MaxVerbs \in Nat

VARIABLES
  app,        \* the object as the API server holds it
  appLocked,  \* the cluster is locked in the store
  appRunning,    \* pods of the app that run (external: its controller's doing)
  verb,       \* each request: the calls it still has to make, and what it read
  verbs,      \* requests begun
  ran,        \* ghost: the last count above zero the app was given
  overtaken   \* ghost: a scale landed inside another request's calls, or a
              \* start was asked for what was running

appVars == <<app, appLocked, appRunning, verb, verbs, ran, overtaken>>

Scaled == {"Deployment", "StatefulSet"}
AppVerbs == {"stop", "force-stop", "start", "disable", "enable", "restart", "force-restart"}

(* The verbs' calls, in the order the client makes them. *)
NoVerb == [calls |-> <<>>, read |-> 0]
InFlight == {u \in Users : verb[u].calls # <<>>}

(***************************************************************************)
(* The server: one handler is one atomic step on the object.               *)
(***************************************************************************)
serveScale(a, n) == [a EXCEPT !.replicas = n]
storeAnnotations(a, count) == [a EXCEPT !.remembered = count]
storeDisabled(a, mark) == [a EXCEPT !.disabled = mark]
patchDaemonSet(a, add, drop) == [a EXCEPT !.selector = (@ \ drop) \union add]
patchSuspend(a, off) == [a EXCEPT !.suspended = off]
servePodDelete(a) == [a EXCEPT !.exists = FALSE]

(***************************************************************************)
(* What a request reads of the app before it decides.                      *)
(***************************************************************************)
daemonSetStopped(a) == "stopped" \in a.selector
jobFinished(a) == a.kind = "Job" /\ a.finished

AppPowerOf(a) ==
  [disabled |-> a.disabled,
   finished |-> jobFinished(a),
   stopped  |-> \/ a.kind \in Scaled /\ a.replicas = 0
                \/ a.kind = "DaemonSet" /\ daemonSetStopped(a)
                \/ a.kind \in {"Job", "CronJob"} /\ a.suspended]

(* A bare pod may be stopped and nothing else; the model's pod has no owner. *)
barePodWhyNot(v) == v \in {"stop", "force-stop"}

(* The report's verdict: may this verb be done to an app with these facts? *)
appReport(a, v) ==
  LET p == AppPowerOf(a)
  IN /\ ~appLocked
     /\ a.exists
     /\ IF a.kind = "Pod"
        THEN barePodWhyNot(v)
        ELSE CASE v \in {"stop", "force-stop"} -> ~p.finished /\ ~p.stopped
               [] v = "start"         -> ~p.disabled /\ ~p.finished /\ p.stopped
               [] v = "disable"       -> ~p.disabled
               [] v = "enable"        -> p.disabled
               [] v = "restart"       -> /\ a.kind \notin {"Job", "CronJob"}
                                         /\ ~p.disabled /\ ~p.stopped
               [] v = "force-restart" -> ~p.disabled /\ ~p.finished /\ ~p.stopped

(***************************************************************************)
(* The client's verbs, as the calls they make.  Stop and Start begin with  *)
(* a read that may end them early; "skip" marks where the rest goes on.    *)
(***************************************************************************)
Stop(kind) ==
  CASE kind \in Scaled -> <<"replicasOf", "remember", "scaleToZero">>
    [] kind = "DaemonSet" -> <<"readSelector", "pin">>
    [] OTHER -> <<"suspend">>

Start(kind) ==
  CASE kind \in Scaled -> <<"remembered", "scaleUp">>
    [] kind = "DaemonSet" -> <<"readPinned", "unpin">>
    [] OTHER -> <<"resume">>

RunAppCalls(a, v) ==
  LET p == AppPowerOf(a)
  IN IF a.kind = "Pod" THEN <<"deletePod">> ELSE
     CASE v = "stop" -> Stop(a.kind)
       [] v = "force-stop" -> Stop(a.kind) \o <<"killPods">>
       [] v = "start" -> Start(a.kind)
       [] v = "disable" ->
            <<"mark">> \o (IF p.stopped \/ p.finished THEN <<>> ELSE Stop(a.kind))
       [] v = "enable" -> <<"unmark">> \o (IF p.stopped THEN Start(a.kind) ELSE <<>>)
       [] v = "restart" -> <<"rollout">>
       [] v = "force-restart" -> <<"killPods">>

AppInit ==
  /\ \E k \in AppKinds, n \in 1..MaxReplicas :
       /\ (k \notin Scaled) => (n = 1)
       /\ app = [kind |-> k, replicas |-> n, remembered |-> 0, disabled |-> FALSE,
                 suspended |-> FALSE, selector |-> {"own"}, finished |-> FALSE,
                 exists |-> TRUE]
       /\ ran = n
  /\ appLocked \in BOOLEAN
  /\ appRunning = 0
  /\ verb = [u \in Users |-> NoVerb]
  /\ verbs = 0
  /\ overtaken = FALSE

(***************************************************************************)
(* Requests.  A verb reads the facts and is refused or begins its calls;   *)
(* the older routes begin a stop or a start without reading anything.      *)
(***************************************************************************)
Begins(u, calls) ==
  /\ verb[u].calls = <<>> /\ verbs < MaxVerbs
  /\ verb' = [verb EXCEPT ![u] = [calls |-> calls, read |-> 0]]
  /\ verbs' = verbs + 1
  /\ UNCHANGED <<app, appLocked, appRunning, ran>>

RunApp(u, v) ==
  /\ appReport(app, v)
  /\ Begins(u, RunAppCalls(app, v))
  /\ UNCHANGED overtaken

kubernetesStartStop(u, start) ==
  /\ app.kind # "Pod"
  /\ Begins(u, IF start THEN Start(app.kind) ELSE Stop(app.kind))
  /\ overtaken' = (overtaken \/ (start /\ ~AppPowerOf(app).stopped))

(* The scale button, and kubectl: one write, whatever else is going on. *)
kubernetesScaleWorkload(n) ==
  /\ app.kind \in Scaled /\ verbs < MaxVerbs
  /\ app' = serveScale(app, n)
  /\ verbs' = verbs + 1
  /\ ran' = n
  /\ overtaken' = (overtaken \/ InFlight # {})
  /\ UNCHANGED <<appLocked, appRunning, verb>>

LockCluster == appLocked' = ~appLocked /\ UNCHANGED <<app, appRunning, verb, verbs, ran, overtaken>>

(***************************************************************************)
(* The calls.                                                              *)
(***************************************************************************)
At1(u, c) == verb[u].calls # <<>> /\ Head(verb[u].calls) = c
After(u, skip, value) ==
  verb' = [verb EXCEPT ![u] = [calls |-> SubSeq(verb[u].calls, 2 + skip, Len(verb[u].calls)),
                               read |-> value]]

\* Mutant: a stop of what is stopped already goes on.
replicasOfAlways(u) ==
  /\ At1(u, "replicasOf")
  /\ After(u, 0, app.replicas)
  /\ UNCHANGED <<app, appLocked, appRunning, verbs, ran, overtaken>>

(* A read that ends the stop: what is already at zero has nothing to remember. *)
replicasOf(u) ==
  /\ At1(u, "replicasOf")
  /\ After(u, IF app.replicas = 0 THEN 2 ELSE 0, app.replicas)
  /\ UNCHANGED <<app, appLocked, appRunning, verbs, ran, overtaken>>

remembered(u) ==
  /\ At1(u, "remembered")
  /\ After(u, 0, IF app.remembered = 0 THEN 1 ELSE app.remembered)
  /\ UNCHANGED <<app, appLocked, appRunning, verbs, ran, overtaken>>

readDaemonSet(u) ==
  /\ \/ At1(u, "readSelector") /\ After(u, IF daemonSetStopped(app) THEN 1 ELSE 0, 0)
     \/ At1(u, "readPinned") /\ After(u, IF daemonSetStopped(app) THEN 0 ELSE 1, 0)
  /\ UNCHANGED <<app, appLocked, appRunning, verbs, ran, overtaken>>

(* The writes; each is one patch the server applies whole. *)
remember(u) == At1(u, "remember") /\ app' = storeAnnotations(app, verb[u].read)
ScaleWorkload(u) ==
  \/ At1(u, "scaleToZero") /\ app' = serveScale(app, 0)
  \/ At1(u, "scaleUp") /\ app' = serveScale(app, verb[u].read)
stopDaemonSet(u) == At1(u, "pin") /\ app' = patchDaemonSet(app, {"stopped"}, {})
startDaemonSet(u) == At1(u, "unpin") /\ app' = patchDaemonSet(app, {}, {"stopped"})
suspend(u) ==
  \/ At1(u, "suspend") /\ app' = patchSuspend(app, TRUE)
  \/ At1(u, "resume") /\ app' = patchSuspend(app, FALSE)
SetAppDisabled(u) ==
  \/ At1(u, "mark") /\ app' = storeDisabled(app, TRUE)
  \/ At1(u, "unmark") /\ app' = storeDisabled(app, FALSE)
RolloutRestartWorkload(u) == At1(u, "rollout") /\ app' = app

patchWorkload(u) ==
  /\ \/ remember(u) \/ ScaleWorkload(u) \/ stopDaemonSet(u) \/ startDaemonSet(u)
     \/ suspend(u) \/ SetAppDisabled(u) \/ RolloutRestartWorkload(u)
  /\ After(u, 0, verb[u].read)
  /\ UNCHANGED <<appLocked, appRunning, verbs, ran, overtaken>>

(* Pods are listed by the app's own selector and deleted with no grace. *)
ForceDeleteAppPods(u) ==
  /\ At1(u, "killPods")
  /\ appRunning' \in 0..appRunning
  /\ After(u, 0, 0)
  /\ UNCHANGED <<app, appLocked, verbs, ran, overtaken>>

DeleteBarePod(u) ==
  /\ At1(u, "deletePod")
  /\ app' = servePodDelete(app)
  /\ appRunning' = 0
  /\ After(u, 0, 0)
  /\ UNCHANGED <<appLocked, verbs, ran, overtaken>>

(* A call fails, the request's budget runs out, or the daemon dies under it. *)
VerbFails(u) ==
  /\ verb[u].calls # <<>>
  /\ verb' = [verb EXCEPT ![u] = NoVerb]
  /\ UNCHANGED <<app, appLocked, appRunning, verbs, ran, overtaken>>

(***************************************************************************)
(* The controllers, external: pods follow the object, and a job ends.      *)
(***************************************************************************)
Wanted(a) == IF ~a.exists \/ AppPowerOf(a).stopped \/ jobFinished(a) THEN 0 ELSE a.replicas

ControllerSyncs ==
  /\ appRunning # Wanted(app)
  /\ appRunning' = Wanted(app)
  /\ UNCHANGED <<app, appLocked, verb, verbs, ran, overtaken>>

JobEnds ==
  /\ app.kind = "Job" /\ ~app.finished /\ appRunning > 0
  /\ app' = [app EXCEPT !.finished = TRUE]
  /\ UNCHANGED <<appLocked, appRunning, verb, verbs, ran, overtaken>>

VerbCall(u) ==
  \/ replicasOf(u) \/ remembered(u) \/ readDaemonSet(u)
  \/ patchWorkload(u) \/ ForceDeleteAppPods(u) \/ DeleteBarePod(u)

AppNext ==
  \/ \E u \in Users :
       \/ \E v \in AppVerbs : RunApp(u, v)
       \/ \E s \in BOOLEAN : kubernetesStartStop(u, s)
       \/ VerbCall(u)
       \/ VerbFails(u)
  \/ \E n \in 1..MaxReplicas : kubernetesScaleWorkload(n)
  \/ LockCluster
  \/ ControllerSyncs
  \/ JobEnds

AppSpec == AppInit /\ [][AppNext]_appVars

(***************************************************************************)
(* Properties.                                                             *)
(***************************************************************************)
(* "A start brings back the count it ran": however stops, starts, disables *)
(* and enables of any number of operators interleave, fail halfway or are  *)
(* repeated, an app at zero remembers the count it last ran with, and the  *)
(* selector a DaemonSet was made with is still on it.  Two things can lose *)
(* the count, and both are excluded: a scale that lands inside another     *)
(* request's calls, and a start asked for what already runs (the older     *)
(* route has no check, and scales it to the last count a stop wrote, or 1).*)
ComesBackAsItWas ==
  ~overtaken =>
    /\ (app.kind \in Scaled /\ app.replicas = 0) => app.remembered = ran
    /\ "own" \in app.selector

=============================================================================
