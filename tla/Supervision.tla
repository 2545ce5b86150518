---------------------------- MODULE Supervision ----------------------------
(***************************************************************************)
(* The observers of one machine (internal/inventory observe.go, watch.go,  *)
(* live.go) and the resource watch they hold (internal/talos watch.go).    *)
(*                                                                         *)
(* A machine that is recorded gets a heartbeat loop and a watch loop;      *)
(* forgetting it cancels both; Close cancels all of them and waits.  The   *)
(* record, the map of supervisors and the wait group are touched in        *)
(* separate steps.  A watch is one goroutine per topic writing to a        *)
(* channel with room for one event; an event that finds it full is         *)
(* dropped.                                                                *)
(*                                                                         *)
(* The levels above the node (etcd, Kubernetes) are left out; failures     *)
(* count up to downgradeAfter.                                             *)
(***************************************************************************)
EXTENDS Naturals, FiniteSets

CONSTANTS
    Topics,    \* WatchTopics
    Requests,  \* callers: handlers, the membership loop, start and shutdown
    MaxSup,    \* supervisors started
    MaxTurns,  \* times the node changes between answering and not
    MaxSupCalls   \* calls begun

ASSUME SupervisionAssumption ==
    /\ Topics # {} /\ MaxSup \in Nat \ {0} /\ MaxTurns \in Nat /\ MaxSupCalls \in Nat

Sups == 1 .. MaxSup
downgradeAfter == 2

VARIABLES
    rec,      \* the record: "none", "free" (of no cluster) or "held"
    node,     \* the node answers
    svc,      \* [started, closed, stopped, returned]
    wg,       \* Service.wg
    mloop,    \* the membership loop is running
    sup,      \* Service.supervised of this machine, 0 if none
    loops,    \* [Sups -> the two loops of a supervisor]
    wt,       \* [Sups -> the watch its watch loop holds]
    obs,      \* the observation in Service.observed
    reading,  \* Service.reads has an entry for this machine
    req,      \* [Requests -> the call in flight]
    turns,    \* how often the node turned
    supCalls     \* calls begun

supVars == <<rec, node, svc, wg, mloop, sup, loops, wt, obs, reading, req, turns, supCalls>>

newObservation(inc) == [inc |-> inc, stage |-> "unknown", fails |-> 0, live |-> FALSE]
NoWatch == [open |-> FALSE, boot |-> {}, last |-> {}, ann |-> FALSE, pend |-> FALSE,
            buf |-> "empty", deliv |-> FALSE, dirty |-> FALSE]
NoLoops == [used |-> FALSE, can |-> FALSE, o |-> "off", w |-> "off", oi |-> 0, wi |-> 0]
Idle == [op |-> "none", pc |-> "done", i |-> 0]

\* Before Start, or right after a Start that found the machine on record.
SupInit ==
    \E up \in BOOLEAN :
        /\ rec \in IF up THEN {"held"} ELSE {"none", "held"}
        /\ svc = [started |-> up, closed |-> FALSE, stopped |-> FALSE, returned |-> FALSE]
        /\ wg = IF up THEN 3 ELSE 0
        /\ mloop = up
        /\ sup = IF up THEN 1 ELSE 0
        /\ loops = [g \in Sups |->
              IF up /\ g = 1 THEN [NoLoops EXCEPT !.used = TRUE, !.o = "read", !.w = "dial"] ELSE NoLoops]
        /\ node = TRUE
        /\ wt = [g \in Sups |-> NoWatch]
        /\ obs = newObservation(0)
        /\ reading = FALSE
        /\ req = [r \in Requests |-> Idle]
        /\ turns = 0 /\ supCalls = 0

Cancelled(g) == loops[g].can \/ svc.stopped
Free == {g \in Sups : ~loops[g].used}

\* A cancelled context ends the goroutines of a watch.
Ended(S) == [g \in Sups |-> IF g \in S THEN [wt[g] EXCEPT !.open = FALSE] ELSE wt[g]]
----------------------------------------------------------------------------
(***************************************************************************)
(* The observation.                                                        *)
(***************************************************************************)
Live(stage) == stage \in {"watching", "degraded"}

enter(o) == IF Live(o.stage) THEN o ELSE [o EXCEPT !.stage = "connecting"]
unassigned(o) == [o EXCEPT !.stage = "unknown", !.fails = 0]
confirm(o) == [o EXCEPT !.stage = "watching", !.fails = 0]

fail(o) ==
    LET f == IF o.fails < downgradeAfter THEN o.fails + 1 ELSE o.fails
    IN [o EXCEPT !.fails = f, !.stage = IF f >= downgradeAfter THEN "down" ELSE "degraded"]

setWatch(live) == obs' = [obs EXCEPT !.live = live]

\* Refresh, first half: the record, then the observation the pass will write to.
RefreshReads == rec = "held"
RefreshRead ==
    obs' = CASE rec = "held" -> enter(obs) [] rec = "free" -> unassigned(obs) [] OTHER -> obs

\* Refresh, second half: a cancelled call fails like a silent node.  A pass that holds
\* the observation of a machine forgotten since writes to nothing anybody reads.
RefreshAsks(inc, cancelled) ==
    /\ IF inc # obs.inc THEN UNCHANGED obs
       ELSE IF node /\ ~cancelled THEN obs' = confirm(obs)
       ELSE obs' = fail(obs)
    /\ wt' = IF node /\ ~cancelled THEN [g \in Sups |-> [wt[g] EXCEPT !.dirty = FALSE]] ELSE wt
----------------------------------------------------------------------------
(***************************************************************************)
(* Callers.                                                                *)
(***************************************************************************)
Goto(r, pc) == req' = [req EXCEPT ![r].pc = pc]
Done(r) == req' = [req EXCEPT ![r] = Idle]
At(r, op, pc) == req[r].op = op /\ req[r].pc = pc

\* The daemon starts the service before it serves.
Begin(r, op, pc) ==
    /\ req[r] = Idle /\ ~svc.returned
    /\ supCalls < MaxSupCalls /\ supCalls' = supCalls + 1
    /\ svc.started = (op # "start")
    /\ \A q \in Requests : req[q].op # "start" /\ (op = "close" => req[q].op # op)
    /\ req' = [req EXCEPT ![r] = [op |-> op, pc |-> pc, i |-> 0]]
    /\ UNCHANGED <<rec, node, svc, wg, mloop, sup, loops, wt, obs, reading, turns>>

\* recordMachine: Put, then supervise.
recordMachine(r) ==
    /\ At(r, "record", "put")
    /\ rec' = "held"
    /\ Goto(r, "sup")
    /\ UNCHANGED <<node, svc, wg, mloop, sup, loops, wt, obs, reading, turns, supCalls>>

\* supervise, under mu: registers the supervisor.
supervise(r) ==
    /\ req[r].pc = "sup"
    /\ IF svc.closed \/ sup # 0 \/ ~svc.started
       THEN Done(r) /\ UNCHANGED <<sup, loops>>
       ELSE \E g \in Free :
              /\ \A h \in Free : g <= h
              /\ sup' = g
              /\ loops' = [loops EXCEPT ![g] = [NoLoops EXCEPT !.used = TRUE, !.o = "new", !.w = "new"]]
              /\ Goto(r, "add")
    /\ UNCHANGED <<rec, node, svc, wg, mloop, wt, obs, reading, turns, supCalls>>

\* supervise, after the unlock: counts the loops and starts them.
superviseAdd(r) ==
    /\ req[r].pc = "add"
    /\ wg' = wg + 2
    /\ loops' = [g \in Sups |-> IF loops[g].o = "new" THEN [loops[g] EXCEPT !.o = "read", !.w = "dial"]
                                ELSE loops[g]]
    /\ Done(r)
    /\ UNCHANGED <<rec, node, svc, mloop, sup, wt, obs, reading, turns, supCalls>>

\* Start lists the machines, then sets the lifetime and supervises what it listed.
Start(r) ==
    /\ \/ /\ At(r, "start", "list")
          /\ req' = [req EXCEPT ![r].pc = "go", ![r].i = IF rec = "none" THEN 0 ELSE 1]
          /\ UNCHANGED <<svc, wg, mloop>>
       \/ /\ At(r, "start", "go")
          /\ IF svc.closed THEN Done(r) /\ UNCHANGED <<svc, wg, mloop>>
             ELSE /\ svc' = [svc EXCEPT !.started = TRUE]
                  /\ wg' = wg + 1 /\ mloop' = TRUE
                  /\ IF req[r].i = 1 THEN Goto(r, "sup") ELSE Done(r)
    /\ UNCHANGED <<rec, node, sup, loops, wt, obs, reading, turns, supCalls>>

\* Mutant: the loops are left running.
ForgetQuietly(r) ==
    /\ At(r, "forget", "drop")
    /\ sup' = 0 /\ obs' = newObservation(obs.inc + 1)
    /\ Done(r)
    /\ UNCHANGED <<rec, node, svc, wg, mloop, loops, wt, reading, turns, supCalls>>

\* ForgetMachine: the record, then under mu the observation and the supervisor.
ForgetRecord(r) ==
    /\ At(r, "forget", "del")
    /\ rec' = "none"
    /\ IF rec = "none" THEN Done(r) ELSE Goto(r, "drop")
    /\ UNCHANGED <<node, svc, wg, mloop, sup, loops, wt, obs, reading, turns, supCalls>>

ForgetMachine(r) ==
    /\ At(r, "forget", "drop")
    /\ sup' = 0 /\ obs' = newObservation(obs.inc + 1)
    /\ loops' = IF sup = 0 THEN loops ELSE [loops EXCEPT ![sup].can = TRUE]
    /\ wt' = Ended({sup})
    /\ Done(r)
    /\ UNCHANGED <<rec, node, svc, wg, mloop, reading, turns, supCalls>>

\* ForgetCluster takes the machine out of its cluster.
unassign ==
    /\ rec = "held" /\ ~svc.returned
    /\ supCalls < MaxSupCalls /\ supCalls' = supCalls + 1
    /\ rec' = "free"
    /\ UNCHANGED <<node, svc, wg, mloop, sup, loops, wt, obs, reading, req, turns>>

\* ReadLive, inFlight: one read per machine, counted under mu.
inFlight(r) ==
    /\ At(r, "live", "join")
    /\ IF reading \/ svc.closed \/ ~svc.started
       THEN Done(r) /\ UNCHANGED <<reading, wg>>
       ELSE Goto(r, "read") /\ reading' = TRUE /\ wg' = wg + 1
    /\ UNCHANGED <<rec, node, svc, mloop, sup, loops, wt, obs, turns, supCalls>>

ReadLive(r) ==
    /\ At(r, "live", "read")
    /\ \/ rec # "held" /\ RefreshRead /\ UNCHANGED wt
       \/ rec = "held" /\ RefreshAsks(obs.inc, svc.stopped)
    /\ reading' = FALSE /\ wg' = wg - 1
    /\ Done(r)
    /\ UNCHANGED <<rec, node, svc, mloop, sup, loops, turns, supCalls>>

\* Close: closed under mu, cancel, wait for the wait group.
Close(r) ==
    /\ \/ /\ At(r, "close", "mark")
          /\ svc' = [svc EXCEPT !.closed = TRUE]
          /\ Goto(r, "stop") /\ UNCHANGED wt
       \/ /\ At(r, "close", "stop")
          /\ svc' = [svc EXCEPT !.stopped = svc.started]
          /\ wt' = Ended(Sups)
          /\ Goto(r, "wait")
       \/ /\ At(r, "close", "wait") /\ wg = 0
          /\ svc' = [svc EXCEPT !.returned = TRUE]
          /\ Done(r) /\ UNCHANGED wt
    /\ UNCHANGED <<rec, node, wg, mloop, sup, loops, obs, reading, turns, supCalls>>

\* membershipLoop ends with the service; what it records is a caller of its own.
membershipLoop ==
    /\ mloop /\ svc.stopped
    /\ mloop' = FALSE /\ wg' = wg - 1
    /\ UNCHANGED <<rec, node, svc, sup, loops, wt, obs, reading, req, turns, supCalls>>
----------------------------------------------------------------------------
(***************************************************************************)
(* The heartbeat.                                                          *)
(***************************************************************************)
observeLoop(g) ==
    /\ \/ /\ loops[g].o = "read"
          /\ RefreshRead
          /\ loops' = [loops EXCEPT ![g].o = IF RefreshReads THEN "ask" ELSE "sleep", ![g].oi = obs.inc]
          /\ UNCHANGED <<wg, wt>>
       \/ /\ loops[g].o = "ask"
          /\ RefreshAsks(loops[g].oi, Cancelled(g))
          /\ loops' = [loops EXCEPT ![g].o = "sleep"]
          /\ UNCHANGED wg
       \/ /\ loops[g].o = "sleep"
          /\ IF Cancelled(g) THEN loops' = [loops EXCEPT ![g].o = "end"] /\ wg' = wg - 1
             ELSE loops' = [loops EXCEPT ![g].o = "read"] /\ UNCHANGED wg
          /\ UNCHANGED <<obs, wt>>
    /\ UNCHANGED <<rec, node, svc, mloop, sup, reading, req, turns, supCalls>>
----------------------------------------------------------------------------
(***************************************************************************)
(* The watch.                                                              *)
(***************************************************************************)
\* startWatch: a topic has delivered what it holds; the last one announces the snapshot.
Bootstrapped(g, k) ==
    /\ wt[g].open /\ node /\ k \notin wt[g].boot
    /\ LET all == wt[g].boot \cup {k} = Topics IN
       wt' = [wt EXCEPT ![g].boot = @ \cup {k}, ![g].ann = all, ![g].pend = all,
                        ![g].last = IF all THEN {k} ELSE @]
    /\ UNCHANGED <<rec, node, svc, wg, mloop, sup, loops, obs, reading, req, turns, supCalls>>

\* emit: an event that finds the channel full is dropped.
emit(w, ev) == IF w.buf = "empty" THEN [w EXCEPT !.buf = ev] ELSE w

emitSnapshot(g) ==
    /\ wt[g].pend
    /\ wt' = [wt EXCEPT ![g] = [emit(@, "snapshot") EXCEPT !.pend = FALSE]]
    /\ UNCHANGED <<rec, node, svc, wg, mloop, sup, loops, obs, reading, req, turns, supCalls>>

\* A topic other than the one that is about to announce reports a change.
emitChange(g, k) ==
    /\ wt[g].open /\ node /\ wt[g].ann
    /\ wt[g].pend => k \notin wt[g].last
    /\ wt' = [wt EXCEPT ![g] = [emit(@, "change") EXCEPT !.dirty = wt[g].deliv]]
    /\ UNCHANGED <<rec, node, svc, wg, mloop, sup, loops, obs, reading, req, turns, supCalls>>

\* The node ends it, or a topic errors: finish.
finish(g) ==
    /\ wt[g].open
    /\ wt' = [wt EXCEPT ![g].open = FALSE]
    /\ UNCHANGED <<rec, node, svc, wg, mloop, sup, loops, obs, reading, req, turns, supCalls>>

\* watchOnce up to the subscription.
watchOnce(g) ==
    /\ loops[g].w = "dial"
    /\ IF rec = "held" /\ node /\ ~Cancelled(g)
       THEN /\ wt' = [wt EXCEPT ![g] = [NoWatch EXCEPT !.open = TRUE]]
            /\ loops' = [loops EXCEPT ![g].w = "recv"]
            /\ UNCHANGED obs
       ELSE /\ loops' = [loops EXCEPT ![g].w = "backoff"]
            /\ IF rec = "none" THEN UNCHANGED obs ELSE setWatch(FALSE)
            /\ UNCHANGED wt
    /\ UNCHANGED <<rec, node, svc, wg, mloop, sup, reading, req, turns, supCalls>>

\* The events: the snapshot, a change before it (passed over), a change after it.
watchEvent(g) ==
    /\ loops[g].w = "recv" /\ wt[g].buf # "empty"
    /\ IF wt[g].buf = "snapshot"
       THEN /\ setWatch(TRUE)
            /\ wt' = [wt EXCEPT ![g].buf = "empty", ![g].deliv = TRUE]
            /\ UNCHANGED loops
       ELSE /\ wt' = [wt EXCEPT ![g].buf = "empty"]
            /\ loops' = IF wt[g].deliv THEN [loops EXCEPT ![g].w = "settle"] ELSE loops
            /\ UNCHANGED obs
    /\ UNCHANGED <<rec, node, svc, wg, mloop, sup, reading, req, turns, supCalls>>

\* Mutant: the pass is read first and the events that came meanwhile are drained after.
SettleAfter(g) ==
    /\ loops[g].w = "settle"
    /\ RefreshRead
    /\ wt' = [wt EXCEPT ![g].buf = "empty"]
    /\ loops' = [loops EXCEPT ![g].w = "recv"]
    /\ UNCHANGED <<rec, node, svc, wg, mloop, sup, reading, req, turns, supCalls>>

\* settle drains what gathers, then Refresh.
settle(g) ==
    /\ loops[g].w = "settle"
    /\ RefreshRead
    /\ wt' = [wt EXCEPT ![g].buf = "empty", ![g].dirty = @ /\ RefreshReads]
    /\ loops' = [loops EXCEPT ![g].w = IF RefreshReads THEN "ask" ELSE "recv", ![g].wi = obs.inc]
    /\ UNCHANGED <<rec, node, svc, wg, mloop, sup, reading, req, turns, supCalls>>

watchRefresh(g) ==
    /\ loops[g].w = "ask"
    /\ RefreshAsks(loops[g].wi, Cancelled(g))
    /\ loops' = [loops EXCEPT ![g].w = "recv"]
    /\ UNCHANGED <<rec, node, svc, wg, mloop, sup, reading, req, turns, supCalls>>

\* The channel is closed: the state is cleared, except on the way out.
watchEnds(g) ==
    /\ loops[g].w = "recv" /\ ~wt[g].open /\ ~wt[g].pend /\ wt[g].buf = "empty"
    /\ loops' = [loops EXCEPT ![g].w = "backoff"]
    /\ wt' = [wt EXCEPT ![g] = NoWatch]
    /\ IF Cancelled(g) THEN UNCHANGED obs ELSE setWatch(FALSE)
    /\ UNCHANGED <<rec, node, svc, wg, mloop, sup, reading, req, turns, supCalls>>

\* watchLoop: backoff and again, or the end.
watchLoop(g) ==
    /\ loops[g].w = "backoff"
    /\ IF Cancelled(g) THEN loops' = [loops EXCEPT ![g].w = "end"] /\ wg' = wg - 1
       ELSE loops' = [loops EXCEPT ![g].w = "dial"] /\ UNCHANGED wg
    /\ UNCHANGED <<rec, node, svc, mloop, sup, wt, obs, reading, req, turns, supCalls>>

\* The heartbeat's verdict closes a watch that does not notice.
watchdog(g) ==
    /\ wt[g].open /\ obs.stage = "down"
    /\ wt' = [wt EXCEPT ![g].open = FALSE]
    /\ UNCHANGED <<rec, node, svc, wg, mloop, sup, loops, obs, reading, req, turns, supCalls>>

\* A node stops answering or comes back; its watch does not notice.
NodeTurns ==
    /\ turns < MaxTurns /\ turns' = turns + 1
    /\ node' = ~node
    /\ UNCHANGED <<rec, svc, wg, mloop, sup, loops, wt, obs, reading, req, supCalls>>
----------------------------------------------------------------------------
Caller(r) ==
    recordMachine(r) \/ supervise(r) \/ superviseAdd(r) \/ Start(r) \/ ForgetRecord(r)
        \/ ForgetMachine(r) \/ inFlight(r) \/ ReadLive(r) \/ Close(r)

WatchStep(g) ==
    watchOnce(g) \/ watchEvent(g) \/ settle(g) \/ watchRefresh(g) \/ watchEnds(g) \/ watchLoop(g)

SupNext ==
    \/ \E r \in Requests :
         \/ Begin(r, "start", "list") \/ Begin(r, "record", "put") \/ Begin(r, "forget", "del")
         \/ Begin(r, "live", "join") \/ Begin(r, "close", "mark")
         \/ Caller(r)
    \/ unassign \/ membershipLoop \/ NodeTurns
    \/ \E g \in Sups : observeLoop(g) \/ WatchStep(g) \/ emitSnapshot(g) \/ finish(g) \/ watchdog(g)
    \/ \E g \in Sups, k \in Topics : Bootstrapped(g, k) \/ emitChange(g, k)

\* Goroutines run, timers fire.  Nothing says that a node reports or that anyone calls.
\* The watchdog's ticker does not keep step with the heartbeat's jitter, so it does not
\* always look while a pass has the stage at connecting.
SupFair ==
    /\ \A r \in Requests : WF_supVars(Caller(r))
    /\ \A g \in Sups : WF_supVars(observeLoop(g)) /\ WF_supVars(WatchStep(g))
                       /\ WF_supVars(emitSnapshot(g)) /\ SF_supVars(watchdog(g))

SupSpec == SupInit /\ [][SupNext]_supVars /\ SupFair
----------------------------------------------------------------------------
(***************************************************************************)
(* Properties.                                                             *)
(***************************************************************************)
\* A machine never has two supervisors that nobody cancelled, however adding and
\* forgetting it overlap (supervise, ForgetMachine).
OneObserver == \A g \in Sups : loops[g].used /\ ~loops[g].can => g = sup

\* A change a live watch heard of is read, or is about to be: the one place in the
\* channel never swallows the last notice (settle before Refresh).
NoLostNotice ==
    \A g \in Sups :
        (loops[g].w = "recv" /\ wt[g].open /\ wt[g].deliv /\ wt[g].buf = "empty"
           /\ rec = "held" /\ turns = 0 /\ g = sup /\ ~svc.stopped) => ~wt[g].dirty

=============================================================================
