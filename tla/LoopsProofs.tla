---------------------------- MODULE LoopsProofs -----------------------------
(***************************************************************************)
(* Theorems about the loops the daemon keeps running and the processes     *)
(* that share its data directory, for any number of supervisors, callers,  *)
(* topics, servers and subcommands.                                        *)
(***************************************************************************)
EXTENDS Supervision, Daemon, SequenceTheorems, TLAPS

----------------------------------------------------------------------------
(***************************************************************************)
(* The observers of a machine.                                             *)
(***************************************************************************)
SupervisorLoops ==
    [used : BOOLEAN, can : BOOLEAN,
     o : {"off", "new", "read", "ask", "sleep", "end"},
     w : {"off", "new", "dial", "recv", "settle", "ask", "backoff", "end"}, oi : Nat, wi : Nat]

\* What a watch holds of its buffered notices.
Watch ==
    [open : BOOLEAN, boot : SUBSET Topics, last : SUBSET Topics, ann : BOOLEAN,
     pend : BOOLEAN, buf : {"empty", "snapshot", "change"}, deliv : BOOLEAN, dirty : BOOLEAN]

\* What the inventory holds of the machine.
Observation ==
    [inc : Nat, stage : {"unknown", "connecting", "watching", "degraded", "down"},
     fails : Nat, live : BOOLEAN]

\* How far the service has come.
Lifetime == [started : BOOLEAN, closed : BOOLEAN, stopped : BOOLEAN, returned : BOOLEAN]

\* A supervisor with loops L and watch W.  The map names it exactly while it runs and was
\* not cancelled; one that was never started has nothing; its two loops start together.
Named(L, W, named) ==
    /\ L.used /\ ~L.can <=> named
    /\ ~L.used => ~L.can /\ L.o = "off" /\ L.w = "off" /\ ~W.open /\ ~W.pend /\ ~W.deliv
    /\ L.o = "new" => L.w = "new"

\* Nothing is reported before every topic has its snapshot, the snapshot is announced
\* and delivered once, and only after it are there changes to read.
Announced(L, W) ==
    /\ W.boot # Topics => ~W.ann /\ ~W.pend /\ W.buf = "empty" /\ ~W.deliv
    /\ W.pend \/ W.buf = "snapshot" => ~W.deliv
    /\ ~(W.pend /\ W.buf = "snapshot")
    /\ W.dirty => W.deliv
    /\ W.deliv => L.w \in {"recv", "settle", "ask"}

\* A change that was heard of is in the channel, or a pass is on its way to read it.
Heard(L, W) == W.dirty => W.buf = "change" \/ L.w \in {"settle", "ask"}

\* The node answered all along and nobody stopped the service.
Undisturbed == ~svc.stopped /\ turns = 0

\* What holds of each supervisor.
GoodSupervisor(L, W, named, undisturbed) ==
    /\ L \in SupervisorLoops /\ W \in Watch
    /\ Named(L, W, named)
    /\ Announced(L, W)
    /\ named /\ undisturbed => Heard(L, W)

\* The shape of the state.
SupTypeOK ==
    /\ DOMAIN loops = Sups /\ loops = [g \in Sups |-> loops[g]]
    /\ DOMAIN wt = Sups /\ wt = [g \in Sups |-> wt[g]]
    /\ sup \in 0 .. MaxSup
    /\ obs \in Observation
    /\ svc \in Lifetime /\ (svc.stopped => svc.started)
    /\ turns \in Nat /\ (turns = 0 => node = TRUE)

\* The inductive invariant: each supervisor is good, and the one that is named is the one
\* the service knows.
SupInv ==
    /\ SupTypeOK
    /\ \A g \in Sups : GoodSupervisor(loops[g], wt[g], g = sup, Undisturbed)

\* No supervisor runs at first.
LEMMA SupInitInv == SupInit => SupInv
<1> SUFFICES ASSUME SupInit PROVE SupInv
  OBVIOUS
<1>1. 1 \in Sups /\ MaxSup \in Nat \ {0}
  BY SupervisionAssumption DEF Sups
<1>2. PICK up \in BOOLEAN :
        /\ svc = [started |-> up, closed |-> FALSE, stopped |-> FALSE, returned |-> FALSE]
        /\ sup = IF up THEN 1 ELSE 0
        /\ loops = [g \in Sups |->
              IF up /\ g = 1 THEN [NoLoops EXCEPT !.used = TRUE, !.o = "read", !.w = "dial"]
              ELSE NoLoops]
  BY DEF SupInit
<1>3. node = TRUE /\ wt = [g \in Sups |-> NoWatch] /\ obs = newObservation(0) /\ turns = 0
  BY DEF SupInit
<1>4. SupTypeOK
  BY <1>1, <1>2, <1>3 DEF SupTypeOK, newObservation, Observation, Lifetime
<1>5. ASSUME NEW g \in Sups PROVE GoodSupervisor(loops[g], wt[g], g = sup, Undisturbed)
  <2>1. wt[g] = NoWatch /\ NoWatch \in Watch
    BY <1>3 DEF NoWatch, Watch
  <2>2. CASE up /\ g = 1
    <3>1. loops[g] = [used |-> TRUE, can |-> FALSE, o |-> "read", w |-> "dial", oi |-> 0, wi |-> 0]
      BY <1>2, <2>2 DEF NoLoops
    <3>2. g = sup
      BY <1>2, <2>2
    <3> QED
      BY <2>1, <3>1, <3>2 DEF GoodSupervisor, SupervisorLoops, Named, Announced, Heard, NoWatch
  <2>3. CASE ~(up /\ g = 1)
    <3>1. loops[g] = NoLoops /\ g # sup
      BY <1>2, <2>3 DEF Sups
    <3> QED
      BY <2>1, <3>1 DEF GoodSupervisor, SupervisorLoops, Named, Announced, Heard, NoWatch, NoLoops
  <2> QED
    BY <2>2, <2>3
<1> QED
  BY <1>4, <1>5 DEF SupInv

\* A step that touches neither a supervisor nor what its watch is judged by.
LEMMA SupQuiet ==
  ASSUME SupInv, UNCHANGED <<loops, wt, sup, svc, turns, node>>, obs' \in Observation
  PROVE  SupInv'
  BY DEF SupInv, SupTypeOK, Undisturbed

\* A pass that read the node has read what a watch had heard of.
LEMMA CleanedIsGood ==
  ASSUME NEW L, NEW W, NEW named, NEW undisturbed, GoodSupervisor(L, W, named, undisturbed)
  PROVE  GoodSupervisor(L, [W EXCEPT !.dirty = FALSE], named, undisturbed)
<1> DEFINE V == [W EXCEPT !.dirty = FALSE]
<1>1. /\ V \in Watch /\ V.boot = W.boot /\ V.ann = W.ann /\ V.pend = W.pend /\ V.buf = W.buf
      /\ V.deliv = W.deliv /\ V.open = W.open /\ V.dirty = FALSE
  BY DEF GoodSupervisor, Watch
<1> HIDE DEF V
<1>2. GoodSupervisor(L, V, named, undisturbed)
  BY <1>1 DEF GoodSupervisor, Named, Announced, Heard
<1> QED
  BY <1>2 DEF V

\* The functions of the supervisors keep their shape.
SupShape(f) == DOMAIN f = Sups /\ f = [g \in Sups |-> f[g]]

\* A step of supervisor g; the others may have been read.
LEMMA SupOne ==
  ASSUME SupInv, NEW g \in Sups, SupShape(loops'), SupShape(wt'),
         \A h \in Sups \ {g} : /\ loops'[h] = loops[h]
                               /\ wt'[h] \in {wt[h], [wt[h] EXCEPT !.dirty = FALSE]},
         UNCHANGED <<sup, svc, turns, node>>, obs' \in Observation,
         GoodSupervisor(loops'[g], wt'[g], g = sup, Undisturbed)
  PROVE  SupInv'
<1>1. ASSUME NEW h \in Sups PROVE GoodSupervisor(loops'[h], wt'[h], h = sup, Undisturbed)
  <2>1. GoodSupervisor(loops[h], wt[h], h = sup, Undisturbed)
    BY DEF SupInv
  <2>2. GoodSupervisor(loops[h], [wt[h] EXCEPT !.dirty = FALSE], h = sup, Undisturbed)
    BY <2>1, CleanedIsGood
  <2>3. CASE h # g
    <3>1. loops'[h] = loops[h] /\ wt'[h] \in {wt[h], [wt[h] EXCEPT !.dirty = FALSE]}
      BY <2>3
    <3> QED
      BY <2>1, <2>2, <3>1
  <2> QED
    BY <2>3
<1>2. SupTypeOK'
  BY DEF SupInv, SupTypeOK, SupShape
<1> QED
  BY <1>1, <1>2 DEF SupInv, Undisturbed

\* What a refresh stores has the shape of an observation.
LEMMA ObservationKept ==
  ASSUME SupInv
  PROVE  /\ RefreshRead => obs' \in Observation
         /\ \A live \in BOOLEAN : setWatch(live) => obs' \in Observation
         /\ \A inc, can : RefreshAsks(inc, can) => obs' \in Observation
<1>1. obs \in Observation
  BY DEF SupInv, SupTypeOK
<1>2. enter(obs) \in Observation /\ unassigned(obs) \in Observation /\ confirm(obs) \in Observation
  BY <1>1 DEF enter, unassigned, confirm, Observation
<1>3. fail(obs) \in Observation
  <2> DEFINE f == IF obs.fails < downgradeAfter THEN obs.fails + 1 ELSE obs.fails
             st == IF f >= downgradeAfter THEN "down" ELSE "degraded"
  <2>1. f \in Nat /\ st \in {"down", "degraded"}
    BY <1>1 DEF Observation
  <2>2. fail(obs) = [obs EXCEPT !.fails = f, !.stage = st]
    BY DEF fail
  <2> HIDE DEF f, st
  <2> QED
    BY <1>1, <2>1, <2>2 DEF Observation
<1> QED
  BY <1>1, <1>2, <1>3 DEF RefreshRead, setWatch, RefreshAsks, Observation

\* The callers: a machine is added, refreshed or forgotten, and the service stops.
LEMMA CallerKeeps == ASSUME SupInv, NEW r \in Requests, Caller(r) PROVE SupInv'
<1>0. obs \in Observation
  BY DEF SupInv, SupTypeOK
<1>2. CASE recordMachine(r) \/ ForgetRecord(r) \/ inFlight(r)
  BY <1>0, <1>2, SupQuiet DEF recordMachine, ForgetRecord, inFlight
<1>3. CASE supervise(r)
  <2>1. CASE svc.closed \/ sup # 0 \/ ~svc.started
    BY <1>0, <1>3, <2>1, SupQuiet DEF supervise
  <2>2. CASE ~(svc.closed \/ sup # 0 \/ ~svc.started)
    <3> DEFINE L == [NoLoops EXCEPT !.used = TRUE, !.o = "new", !.w = "new"]
    <3>0. L \in SupervisorLoops /\ L.used = TRUE /\ L.can = FALSE /\ L.o = "new" /\ L.w = "new"
      BY DEF NoLoops, SupervisorLoops
    <3>1. PICK g \in Free : sup' = g /\ loops' = [loops EXCEPT ![g] = L]
      BY <1>3, <2>2 DEF supervise
    <3> HIDE DEF L
    <3>2. /\ g \in Sups /\ g # 0 /\ ~loops[g].used /\ ~wt[g].deliv
          /\ GoodSupervisor(loops[g], wt[g], FALSE, Undisturbed)
      BY <3>1 DEF Free, SupInv, GoodSupervisor, Named, Sups
    <3>5. GoodSupervisor(L, wt[g], TRUE, Undisturbed)
      BY <3>0, <3>2 DEF GoodSupervisor, Named, Announced, Heard
    <3>3. UNCHANGED <<wt, obs, svc, turns, node>>
      BY <1>3 DEF supervise
    <3>4. SupTypeOK'
      <4>1. sup' \in 0 .. MaxSup
        BY <3>1, <3>2, SupervisionAssumption DEF Sups
      <4> QED
        BY <3>1, <3>2, <3>3, <4>1 DEF SupInv, SupTypeOK
    <3>6. ASSUME NEW h \in Sups, h # g PROVE GoodSupervisor(loops'[h], wt'[h], h = g, Undisturbed)
      <4>1. loops'[h] = loops[h] /\ h # sup
        BY <2>2, <3>1, <3>2, <3>6 DEF SupInv, SupTypeOK, Sups
      <4> QED
        BY <3>3, <3>6, <4>1 DEF SupInv
    <3> QED
      BY <3>1, <3>2, <3>3, <3>4, <3>5, <3>6 DEF SupInv, SupTypeOK, Undisturbed
  <2> QED
    BY <2>1, <2>2
<1>4. CASE superviseAdd(r)
  <2>1. UNCHANGED <<wt, obs, svc, turns, node, sup>>
    BY <1>4 DEF superviseAdd
  <2>2. loops' = [g \in Sups |-> IF loops[g].o = "new" THEN [loops[g] EXCEPT !.o = "read", !.w = "dial"]
                                 ELSE loops[g]]
    BY <1>4 DEF superviseAdd
  <2>3. ASSUME NEW g \in Sups PROVE GoodSupervisor(loops'[g], wt[g], g = sup, Undisturbed)
    <3>1. GoodSupervisor(loops[g], wt[g], g = sup, Undisturbed)
      BY DEF SupInv
    <3>2. CASE loops[g].o = "new"
      <4>1. loops'[g] = [loops[g] EXCEPT !.o = "read", !.w = "dial"]
        BY <2>2, <3>2
      <4>2. loops'[g] \in SupervisorLoops
        BY <3>1, <4>1 DEF GoodSupervisor, SupervisorLoops
      <4>3. ~wt[g].deliv /\ ~wt[g].dirty
        BY <3>1, <3>2 DEF GoodSupervisor, Named, Announced
      <4> QED
        BY <3>1, <3>2, <4>1, <4>2, <4>3 DEF GoodSupervisor, SupervisorLoops, Named, Announced,
           Heard, NoLoops
    <3> QED
      BY <2>2, <3>1, <3>2
  <2> QED
    BY <2>1, <2>2, <2>3 DEF SupInv, SupTypeOK, Undisturbed
<1>5. CASE Start(r)
  <2>1. PICK started \in BOOLEAN : svc' = [svc EXCEPT !.started = started]
    BY ZenonT(60), <1>5 DEF Start, SupInv, SupTypeOK, Lifetime
  <2>2. svc' \in Lifetime /\ svc'.stopped = svc.stopped
    BY <2>1 DEF SupInv, SupTypeOK, Lifetime
  <2>3. UNCHANGED <<loops, wt, sup, obs, turns, node>>
    BY <1>5 DEF Start
  <2>4. svc'.stopped => svc'.started
    BY <1>5, <2>2 DEF Start, SupInv, SupTypeOK, Lifetime
  <2> QED
    BY <2>2, <2>3, <2>4 DEF SupInv, SupTypeOK, Undisturbed
<1>6. CASE ForgetMachine(r)
  <2>1. UNCHANGED <<svc, turns, node>> /\ sup' = 0 /\ obs' = newObservation(obs.inc + 1)
    BY <1>6 DEF ForgetMachine
  <2>2. /\ loops' = IF sup = 0 THEN loops ELSE [loops EXCEPT ![sup].can = TRUE]
        /\ wt' = [g \in Sups |-> IF g = sup THEN [wt[g] EXCEPT !.open = FALSE] ELSE wt[g]]
    BY <1>6 DEF ForgetMachine, Ended
  <2>3. SupTypeOK'
    <3>1. obs' \in Observation
      BY <1>0, <2>1 DEF newObservation, Observation
    <3>2. sup' \in 0 .. MaxSup
      BY <2>1, SupervisionAssumption
    <3> QED
      BY <2>1, <2>2, <3>1, <3>2 DEF SupInv, SupTypeOK
  <2>4. ASSUME NEW g \in Sups PROVE GoodSupervisor(loops'[g], wt'[g], FALSE, Undisturbed)
    <3>1. GoodSupervisor(loops[g], wt[g], g = sup, Undisturbed) /\ g # 0
      BY DEF SupInv, Sups
    <3>2. CASE g = sup
      <4>1. loops'[g] = [loops[g] EXCEPT !.can = TRUE] /\ wt'[g] = [wt[g] EXCEPT !.open = FALSE]
        BY <2>2, <3>1, <3>2 DEF SupInv, SupTypeOK
      <4>2. loops'[g] \in SupervisorLoops /\ wt'[g] \in Watch
        BY <3>1, <4>1 DEF GoodSupervisor, SupervisorLoops, Watch
      <4>3. Named(loops'[g], wt'[g], FALSE)
        BY <3>1, <3>2, <4>1 DEF GoodSupervisor, Named, SupervisorLoops
      <4>4. Announced(loops'[g], wt'[g])
        BY <3>1, <4>1 DEF GoodSupervisor, Announced, SupervisorLoops, Watch
      <4> QED
        BY <4>2, <4>3, <4>4 DEF GoodSupervisor
    <3>3. CASE g # sup
      <4>1. loops'[g] = loops[g] /\ wt'[g] = wt[g]
        BY <2>2, <3>3 DEF SupInv, SupTypeOK, Sups
      <4> QED
        BY <3>1, <3>3, <4>1
    <3> QED
      BY <3>2, <3>3
  <2>5. \A g \in Sups : g # sup'
    BY <2>1 DEF Sups
  <2> QED
    BY <2>1, <2>3, <2>4, <2>5 DEF SupInv, Undisturbed
<1>7. CASE ReadLive(r)
  <2>1. obs' \in Observation /\ UNCHANGED <<loops, sup, svc, turns, node>>
    BY <1>7, ObservationKept DEF ReadLive
  <2>2. wt' = wt \/ wt' = [g \in Sups |-> [wt[g] EXCEPT !.dirty = FALSE]]
    BY <1>7 DEF ReadLive, RefreshAsks
  <2>3. ASSUME wt' = [g \in Sups |-> [wt[g] EXCEPT !.dirty = FALSE]],
               NEW g \in Sups
        PROVE  GoodSupervisor(loops[g], wt'[g], g = sup, Undisturbed)
    BY <2>3, CleanedIsGood DEF SupInv
  <2> QED
    BY <2>1, <2>2, <2>3, SupQuiet DEF SupInv, SupTypeOK, Undisturbed
<1>8. CASE Close(r)
  <2>1. UNCHANGED <<loops, sup, turns, node, obs>>
    BY <1>8 DEF Close
  <2>2. svc' \in Lifetime /\ (svc'.stopped => svc'.started)
    BY <1>8 DEF Close, Lifetime, SupInv, SupTypeOK
  <2>3. CASE ~At(r, "close", "stop")
    <3>1. wt' = wt /\ svc'.stopped = svc.stopped
      BY <1>8, <2>3 DEF Close, SupInv, SupTypeOK, Lifetime
    <3> QED
      BY <2>1, <2>2, <3>1 DEF SupInv, SupTypeOK, Undisturbed
  <2>4. CASE At(r, "close", "stop")
    <3>1. wt' = [g \in Sups |-> [wt[g] EXCEPT !.open = FALSE]] /\ svc'.stopped = svc.started
      BY <1>8, <2>4 DEF Close, At, Ended, SupInv, SupTypeOK, Lifetime
    <3>2. ASSUME NEW g \in Sups PROVE GoodSupervisor(loops[g], wt'[g], g = sup, Undisturbed')
      <4>1. GoodSupervisor(loops[g], wt[g], g = sup, Undisturbed)
        BY DEF SupInv
      <4>2. wt'[g] = [wt[g] EXCEPT !.open = FALSE] /\ wt'[g] \in Watch
        BY <3>1, <4>1 DEF GoodSupervisor, Watch
      <4>4. Named(loops[g], wt'[g], g = sup)
        BY <4>1, <4>2 DEF GoodSupervisor, Named, Watch
      <4>5. Undisturbed' => Undisturbed
        BY <2>1, <3>1 DEF Undisturbed, SupInv, SupTypeOK, Lifetime
      <4> QED
        BY <4>1, <4>2, <4>4, <4>5 DEF GoodSupervisor, Announced, Heard, Watch
    <3> QED
      BY <2>1, <2>2, <3>1, <3>2 DEF SupInv, SupTypeOK
  <2> QED
    BY <2>3, <2>4
<1> QED
  BY <1>2, <1>3, <1>4, <1>5, <1>6, <1>7, <1>8 DEF Caller

\* The heartbeat of a supervisor.
LEMMA ObserveKeeps == ASSUME SupInv, NEW g \in Sups, observeLoop(g) PROVE SupInv'
<1>1. UNCHANGED <<sup, svc, turns, node>> /\ obs' \in Observation
  BY ObservationKept DEF observeLoop, SupInv, SupTypeOK
<1>2. GoodSupervisor(loops[g], wt[g], g = sup, Undisturbed)
  BY DEF SupInv
<1>3. loops[g].used /\ loops[g].o \in {"read", "ask", "sleep"}
  BY <1>2 DEF GoodSupervisor, Named, observeLoop
<1>4. /\ loops'[g] \in SupervisorLoops /\ loops'[g].used = loops[g].used
      /\ loops'[g].can = loops[g].can /\ loops'[g].w = loops[g].w /\ loops'[g].o # "new"
  <2> DEFINE L == loops[g]
  <2>1. L \in SupervisorLoops /\ obs.inc \in Nat
    BY <1>2 DEF GoodSupervisor, SupInv, SupTypeOK, Observation
  <2>2. CASE \E o \in {"ask", "sleep"} : loops' = [loops EXCEPT ![g].o = o, ![g].oi = obs.inc]
    BY <2>1, <2>2 DEF SupInv, SupTypeOK, SupervisorLoops
  <2>3. CASE \E o \in {"read", "sleep", "end"} : loops' = [loops EXCEPT ![g].o = o]
    BY <2>1, <2>3 DEF SupInv, SupTypeOK, SupervisorLoops
  <2> QED
    BY <2>2, <2>3 DEF observeLoop
<1>5. GoodSupervisor(loops'[g], wt[g], g = sup, Undisturbed)
  BY <1>2, <1>3, <1>4 DEF GoodSupervisor, Named, Announced, Heard
<1>6. SupShape(loops') /\ \A h \in Sups \ {g} : loops'[h] = loops[h]
  BY DEF observeLoop, SupShape, SupInv, SupTypeOK
<1>7. SupShape(wt') /\ \A h \in Sups : wt'[h] \in {wt[h], [wt[h] EXCEPT !.dirty = FALSE]}
  BY DEF observeLoop, RefreshAsks, SupShape, SupInv, SupTypeOK
<1>8. GoodSupervisor(loops'[g], wt'[g], g = sup, Undisturbed)
  BY <1>5, <1>7, CleanedIsGood
<1> QED
  BY <1>1, <1>6, <1>7, <1>8, SupOne

\* The goroutines of a watch: a snapshot, a change, the end.
LEMMA WatchKeeps ==
  ASSUME SupInv, NEW g \in Sups,
         \/ \E k \in Topics : Bootstrapped(g, k) \/ emitChange(g, k)
         \/ emitSnapshot(g) \/ finish(g) \/ watchdog(g)
  PROVE  SupInv'
<1> DEFINE L == loops[g]
           W == wt[g]
           V == wt'[g]
<1>1. UNCHANGED <<loops, sup, svc, turns, node, obs>>
  BY DEF Bootstrapped, emitChange, emitSnapshot, finish, watchdog
<1>2. GoodSupervisor(L, W, g = sup, Undisturbed) /\ L \in SupervisorLoops /\ W \in Watch
  BY DEF SupInv, GoodSupervisor
<1>3. SupShape(loops') /\ SupShape(wt') /\ \A h \in Sups \ {g} : wt'[h] = wt[h]
  BY <1>1 DEF Bootstrapped, emitChange, emitSnapshot, finish, watchdog, SupShape, SupInv, SupTypeOK
<1>4. ASSUME finish(g) \/ watchdog(g)
      PROVE  GoodSupervisor(L, V, g = sup, Undisturbed)
  <2>1. V = [W EXCEPT !.open = FALSE]
    BY <1>4 DEF finish, watchdog, SupInv, SupTypeOK
  <2>2. /\ V \in Watch /\ V.boot = W.boot /\ V.ann = W.ann /\ V.pend = W.pend /\ V.buf = W.buf
        /\ V.deliv = W.deliv /\ V.dirty = W.dirty /\ V.open = FALSE
    BY <1>2, <2>1 DEF Watch
  <2> QED
    BY <1>2, <2>2 DEF GoodSupervisor, Named, Announced, Heard
<1>5. ASSUME emitSnapshot(g)
      PROVE  GoodSupervisor(L, V, g = sup, Undisturbed)
  <2>1. V = [emit(W, "snapshot") EXCEPT !.pend = FALSE] /\ W.pend
    BY <1>5 DEF emitSnapshot, SupInv, SupTypeOK
  <2>2. /\ V \in Watch /\ V.boot = W.boot /\ V.ann = W.ann /\ V.pend = FALSE
        /\ V.deliv = W.deliv /\ V.dirty = W.dirty /\ V.open = W.open
        /\ V.buf = IF W.buf = "empty" THEN "snapshot" ELSE W.buf
    BY <1>2, <2>1 DEF Watch, emit
  <2> QED
    BY <1>2, <2>1, <2>2 DEF GoodSupervisor, Named, Announced, Heard
<1>6. ASSUME \E k \in Topics : emitChange(g, k)
      PROVE  GoodSupervisor(L, V, g = sup, Undisturbed)
  <2>1. V = [emit(W, "change") EXCEPT !.dirty = W.deliv] /\ W.open /\ W.ann
    BY <1>6 DEF emitChange, SupInv, SupTypeOK
  <2>2. /\ V \in Watch /\ V.boot = W.boot /\ V.ann = W.ann /\ V.pend = W.pend
        /\ V.deliv = W.deliv /\ V.dirty = W.deliv /\ V.open = W.open
        /\ V.buf = IF W.buf = "empty" THEN "change" ELSE W.buf
    BY <1>2, <2>1 DEF Watch, emit
  <2>3. W.boot = Topics /\ W.buf \in {"empty", "snapshot", "change"}
    BY <1>2, <2>1 DEF GoodSupervisor, Announced, Watch
  <2> QED
    BY <1>2, <2>1, <2>2, <2>3 DEF GoodSupervisor, Named, Announced, Heard
<1>7. ASSUME \E k \in Topics : Bootstrapped(g, k)
      PROVE  GoodSupervisor(L, V, g = sup, Undisturbed)
  <2>1. PICK k \in Topics : Bootstrapped(g, k)
    BY <1>7
  <2> DEFINE all == W.boot \cup {k} = Topics
  <2>2. /\ V = [W EXCEPT !.boot = W.boot \cup {k}, !.ann = all, !.pend = all,
                         !.last = IF all THEN {k} ELSE W.last]
        /\ W.open /\ k \notin W.boot
    BY <2>1 DEF Bootstrapped, SupInv, SupTypeOK
  <2>3. PICK b \in BOOLEAN : b = all
    OBVIOUS
  <2>4. PICK last \in SUBSET Topics : last = IF all THEN {k} ELSE W.last
    BY <1>2 DEF Watch
  <2>5. PICK boot \in SUBSET Topics : boot = W.boot \cup {k}
    BY <1>2 DEF Watch
  <2>6. V = [W EXCEPT !.boot = boot, !.ann = b, !.pend = b, !.last = last]
    BY <2>2, <2>3, <2>4, <2>5
  <2>7. /\ V \in Watch /\ V.boot = boot /\ V.ann = b /\ V.pend = b
        /\ V.deliv = W.deliv /\ V.dirty = W.dirty /\ V.open = W.open /\ V.buf = W.buf
    BY <1>2, <2>6 DEF Watch
  <2>8. W.boot # Topics /\ (b <=> boot = Topics)
    BY <2>2, <2>3, <2>5
  <2> QED
    BY <1>2, <2>2, <2>7, <2>8 DEF GoodSupervisor, Named, Announced, Heard
<1> QED
  <2>1. GoodSupervisor(loops'[g], wt'[g], g = sup, Undisturbed)
    BY <1>1, <1>4, <1>5, <1>6, <1>7
  <2>2. obs' \in Observation
    BY <1>1 DEF SupInv, SupTypeOK
  <2> QED
    BY <1>1, <1>3, <2>1, <2>2, SupOne

\* A watch begins anew: nothing of the last one is left.
LEMMA FreshWatch ==
  ASSUME NEW W, NEW open \in BOOLEAN, W = [NoWatch EXCEPT !.open = open]
  PROVE  /\ W \in Watch /\ W.boot = {} /\ ~W.ann /\ ~W.pend /\ W.buf = "empty"
         /\ ~W.deliv /\ ~W.dirty
  BY DEF NoWatch, Watch

\* The loop that holds the watch.
LEMMA WatchLoopKeeps == ASSUME SupInv, NEW g \in Sups, WatchStep(g) PROVE SupInv'
<1> DEFINE L == loops[g]
           W == wt[g]
           K == loops'[g]
           V == wt'[g]
<1>1. UNCHANGED <<sup, svc, turns, node>> /\ obs' \in Observation
  BY ObservationKept DEF WatchStep, watchOnce, watchEvent, settle, watchRefresh, watchEnds,
     watchLoop,
     SupInv, SupTypeOK
<1>2. GoodSupervisor(L, W, g = sup, Undisturbed) /\ L \in SupervisorLoops /\ W \in Watch
  BY DEF SupInv, GoodSupervisor
<1>3. L.used
  BY <1>2 DEF GoodSupervisor, Named, WatchStep, watchOnce, watchEvent, settle, watchRefresh,
     watchEnds,
     watchLoop
<1>4. SupShape(loops') /\ \A h \in Sups \ {g} : loops'[h] = loops[h]
  BY DEF WatchStep, watchOnce, watchEvent, settle, watchRefresh, watchEnds, watchLoop,
     SupShape, SupInv,
     SupTypeOK
<1>5. SupShape(wt') /\ \A h \in Sups \ {g} : wt'[h] \in {wt[h], [wt[h] EXCEPT !.dirty = FALSE]}
  BY ZenonT(60) DEF WatchStep, watchOnce, watchEvent, settle, watchRefresh, RefreshAsks, watchEnds, watchLoop,
     SupShape, SupInv, SupTypeOK
<1>6. ASSUME NEW w \in {"dial", "recv", "settle", "backoff", "end"}, K = [L EXCEPT !.w = w]
      PROVE  K \in SupervisorLoops /\ K.used = L.used /\ K.can = L.can /\ K.o = L.o /\ K.w = w
  BY <1>2, <1>6 DEF SupervisorLoops
<1>7. ASSUME watchOnce(g) PROVE GoodSupervisor(K, V, g = sup, Undisturbed)
  <2>0. L.w = "dial"
    BY <1>7 DEF watchOnce
  <2>1. CASE V = [NoWatch EXCEPT !.open = TRUE] /\ K = [L EXCEPT !.w = "recv"]
    BY <1>2, <1>3, <1>6, <2>0, <2>1, FreshWatch DEF GoodSupervisor, Named, Announced, Heard
  <2>2. CASE V = W /\ K = [L EXCEPT !.w = "backoff"]
    BY <1>2, <1>3, <1>6, <2>0, <2>2 DEF GoodSupervisor, Named, Announced, Heard
  <2> QED
    BY <1>7, <2>1, <2>2 DEF watchOnce, SupInv, SupTypeOK
<1>8. ASSUME watchEvent(g) PROVE GoodSupervisor(K, V, g = sup, Undisturbed)
  <2>1. L.w = "recv" /\ W.buf # "empty"
    BY <1>8 DEF watchEvent
  <2>2. CASE W.buf = "snapshot"
    <3>1. V = [W EXCEPT !.buf = "empty", !.deliv = TRUE] /\ K = L
      BY <1>8, <2>2 DEF watchEvent, SupInv, SupTypeOK
    <3>2. /\ V \in Watch /\ V.boot = W.boot /\ V.ann = W.ann /\ V.pend = W.pend
          /\ V.buf = "empty" /\ V.deliv = TRUE /\ V.dirty = W.dirty
      BY <1>2, <3>1 DEF Watch
    <3> QED
      BY <1>2, <1>3, <2>1, <2>2, <3>1, <3>2 DEF GoodSupervisor, Named, Announced, Heard
  <2>3. CASE W.buf # "snapshot"
    <3>1. V = [W EXCEPT !.buf = "empty"] /\ IF W.deliv THEN K = [L EXCEPT !.w = "settle"] ELSE K = L
      BY <1>8, <2>3 DEF watchEvent, SupInv, SupTypeOK
    <3>2. /\ V \in Watch /\ V.boot = W.boot /\ V.ann = W.ann /\ V.pend = W.pend
          /\ V.buf = "empty" /\ V.deliv = W.deliv /\ V.dirty = W.dirty
      BY <1>2, <3>1 DEF Watch
    <3>3. /\ K \in SupervisorLoops /\ K.used = L.used /\ K.can = L.can /\ K.o = L.o
          /\ K.w = IF W.deliv THEN "settle" ELSE "recv"
      BY <1>2, <1>6, <2>1, <3>1
    <3> QED
      BY <1>2, <1>3, <2>1, <3>2, <3>3 DEF GoodSupervisor, Named, Announced, Heard
  <2> QED
    BY <2>2, <2>3
<1>9. ASSUME settle(g) PROVE GoodSupervisor(K, V, g = sup, Undisturbed)
  <2>1. L.w = "settle" /\ obs.inc \in Nat
    BY <1>9 DEF settle, SupInv, SupTypeOK, Observation
  <2>2. PICK w \in {"ask", "recv"}, d \in BOOLEAN :
           /\ w = (IF RefreshReads THEN "ask" ELSE "recv") /\ d = (W.dirty /\ RefreshReads)
           /\ V = [W EXCEPT !.buf = "empty", !.dirty = d]
           /\ K = [L EXCEPT !.w = w, !.wi = obs.inc]
    BY <1>9 DEF settle, SupInv, SupTypeOK
  <2>3. /\ V \in Watch /\ V.boot = W.boot /\ V.ann = W.ann /\ V.pend = W.pend
        /\ V.buf = "empty" /\ V.deliv = W.deliv /\ V.dirty = d
    BY <1>2, <2>2 DEF Watch
  <2>4. K \in SupervisorLoops /\ K.used = L.used /\ K.can = L.can /\ K.o = L.o /\ K.w = w
    BY <1>2, <2>1, <2>2 DEF SupervisorLoops
  <2>5. d => W.dirty /\ w = "ask"
    BY <2>2
  <2> QED
    BY <1>2, <1>3, <2>1, <2>3, <2>4, <2>5 DEF GoodSupervisor, Named, Announced, Heard
<1>10. ASSUME watchRefresh(g) PROVE GoodSupervisor(K, V, g = sup, Undisturbed)
  <2>1. L.w = "ask" /\ K = [L EXCEPT !.w = "recv"]
    BY <1>10 DEF watchRefresh, SupInv, SupTypeOK
  <2>2. CASE node /\ ~Cancelled(g)
    <3>1. V = [W EXCEPT !.dirty = FALSE]
      BY <1>10, <2>2 DEF watchRefresh, RefreshAsks
    <3>2. GoodSupervisor(L, V, g = sup, Undisturbed) /\ V.dirty = FALSE
      BY <1>2, <3>1, CleanedIsGood DEF Watch
    <3> QED
      BY <1>3, <1>6, <2>1, <3>2 DEF GoodSupervisor, Named, Announced, Heard
  <2>3. CASE ~(node /\ ~Cancelled(g))
    <3>1. V = W
      BY <1>10, <2>3 DEF watchRefresh, RefreshAsks
    <3>2. ~(g = sup /\ Undisturbed)
      BY <1>2, <2>3 DEF GoodSupervisor, Named, Undisturbed, Cancelled, SupInv, SupTypeOK
    <3> QED
      BY <1>2, <1>3, <1>6, <2>1, <3>1, <3>2 DEF GoodSupervisor, Named, Announced
  <2> QED
    BY <2>2, <2>3
<1>11. ASSUME watchEnds(g) PROVE GoodSupervisor(K, V, g = sup, Undisturbed)
  <2>1. L.w = "recv" /\ V = NoWatch /\ K = [L EXCEPT !.w = "backoff"]
    BY <1>11 DEF watchEnds, SupInv, SupTypeOK
  <2>2. /\ V \in Watch /\ V.boot = {} /\ ~V.ann /\ ~V.pend /\ V.buf = "empty"
        /\ ~V.deliv /\ ~V.dirty
    BY <2>1 DEF NoWatch, Watch
  <2> QED
    BY <1>2, <1>3, <1>6, <2>1, <2>2 DEF GoodSupervisor, Named, Announced, Heard
<1>12. ASSUME watchLoop(g) PROVE GoodSupervisor(K, V, g = sup, Undisturbed)
  <2>1. V = W /\ L.w = "backoff" /\ (K = [L EXCEPT !.w = "end"] \/ K = [L EXCEPT !.w = "dial"])
    BY <1>12 DEF watchLoop, SupInv, SupTypeOK
  <2> QED
    BY <1>2, <1>3, <1>6, <2>1 DEF GoodSupervisor, Named, Announced, Heard
<1>13. GoodSupervisor(K, V, g = sup, Undisturbed)
  BY <1>7, <1>8, <1>9, <1>10, <1>11, <1>12 DEF WatchStep
<1> QED
  BY <1>1, <1>4, <1>5, <1>13, SupOne

\* Every step keeps the invariant.
LEMMA SupStep == SupInv /\ [SupNext]_supVars => SupInv'
<1> SUFFICES ASSUME SupInv, [SupNext]_supVars PROVE SupInv'
  OBVIOUS
<1>0. obs \in Observation
  BY DEF SupInv, SupTypeOK
<1>1. ASSUME NEW r \in Requests, NEW op, NEW pc, Begin(r, op, pc) PROVE SupInv'
  BY <1>0, <1>1, SupQuiet DEF Begin
<1>2. CASE unassign \/ membershipLoop \/ UNCHANGED supVars
  BY <1>0, <1>2, SupQuiet DEF unassign, membershipLoop, supVars
<1>3. CASE NodeTurns
  <2>1. UNCHANGED <<loops, wt, sup, svc, obs>> /\ turns' = turns + 1 /\ turns \in Nat
    BY <1>3 DEF NodeTurns, SupInv, SupTypeOK
  <2>2. ASSUME NEW g \in Sups PROVE GoodSupervisor(loops[g], wt[g], g = sup, Undisturbed')
    <3>1. ~Undisturbed'
      BY <2>1 DEF Undisturbed
    <3> QED
      BY <3>1 DEF SupInv, GoodSupervisor
  <2> QED
    BY <2>1, <2>2 DEF SupInv, SupTypeOK
<1> QED
  BY <1>1, <1>2, <1>3, CallerKeeps, ObserveKeeps, WatchKeeps, WatchLoopKeeps DEF SupNext

\* A machine never has two supervisors that nobody cancelled, however the calls that add
\* and forget it overlap (supervise, ForgetMachine).
THEOREM ObserversAreOne == SupSpec => []OneObserver
<1>1. SupInv => OneObserver
  BY DEF SupInv, OneObserver, GoodSupervisor, Named
<1> QED
  BY <1>1, SupInitInv, SupStep, PTL DEF SupSpec

\* A change a live watch heard of is read, or is about to be, with any number of topics,
\* supervisors and callers (emit, settle, Refresh).
THEOREM NoticesAreRead == SupSpec => []NoLostNotice
<1>1. SupInv => NoLostNotice
  BY DEF SupInv, NoLostNotice, GoodSupervisor, Heard, Undisturbed
<1> QED
  BY <1>1, SupInitInv, SupStep, PTL DEF SupSpec

----------------------------------------------------------------------------
(***************************************************************************)
(* The data directory and its lock.                                        *)
(***************************************************************************)

\* What run() opens, in its order, without the checks between.
PartList ==
    <<"store", "audit", "inventory", "hub", "streams", "engine", "actions", "sampler", "certs",
      "drift", "keeper", "backups", "server">>

\* The parts as a set.
Parts == {PartList[i] : i \in 1 .. 13}

\* What is open in a process: the first parts of the list, in its order.
Stacked(s) == s \in Seq(Parts) /\ Len(s) <= 13 /\ \A i \in 1 .. Len(s) : s[i] = PartList[i]

\* How many parts are open when step k of the start begins.
OpenBefore == <<0, 1, 2, 2, 3, 4, 5, 6, 6, 7, 7, 8, 9, 10, 11, 11, 12>>

\* How many parts are open while the part that ends a worker is.
OwnerAt(w) == CASE w = "job" -> 6 [] w = "reader" -> 5 [] w = "observer" -> 3 [] OTHER -> 8

\* The shape of the state.
DaemonTypeOK ==
    /\ opened \in [Procs -> Seq(Parts)]
    /\ DOMAIN mode = Procs /\ mode = [p \in Procs |-> mode[p]]
    /\ startAt \in [Procs -> Nat]
    /\ shutting \in [Procs -> BOOLEAN]
    /\ DOMAIN dbusy = Procs /\ dbusy = [p \in Procs |-> dbusy[p]]

\* What holds of one process: it has the lock while anything is open, a start and a
\* shutdown have open what their position says, and a worker has its owner.
GoodProcess(p) ==
    /\ Stacked(opened[p])
    /\ opened[p] # <<>> => flock = p
    /\ mode[p] \in {"off", "reading", "restoring"} => opened[p] = <<>> /\ startAt[p] = 1
    /\ mode[p] = "starting" => startAt[p] \in 1 .. 17 /\ Len(opened[p]) = OpenBefore[startAt[p]]
    /\ mode[p] \in {"serving", "draining"} => Len(opened[p]) = 13
    /\ shutting[p] => mode[p] = "closing" /\ opened[p] # <<>>
    /\ \A w \in dbusy[p] \cap Waited : Len(opened[p]) >= OwnerAt(w)

\* The inductive invariant.
DaemonInv == DaemonTypeOK /\ \A p \in Procs : GoodProcess(p)

\* A step of the start is a check, or opens the next part of the list.
LEMMA StepOpensNext ==
  /\ Len(StartList) = 17
  /\ \A k \in 1 .. 17 :
        /\ OpenBefore[k] \in 0 .. 12
        /\ StartList[k] \in Checks => OpenBefore[k] > 0 /\ StartList[k] # "store"
        /\ StartList[k] \notin Checks => StartList[k] = PartList[OpenBefore[k] + 1]
        /\ StartList[k] = "store" <=> OpenBefore[k] = 0
        /\ k < 17 => OpenBefore[k + 1] = OpenBefore[k] + (IF StartList[k] \in Checks THEN 0 ELSE 1)
        /\ k = 17 => OpenBefore[k] = 12 /\ StartList[k] \notin Checks
  BY DEF StartList, StartOrder, PartList, OpenBefore, Checks

\* A part is open exactly when as many parts as its place in the list says are.
LEMMA OpenByPlace ==
  ASSUME NEW s, Stacked(s), NEW k \in 1 .. 13
  PROVE  PartList[k] \in Range(s) <=> Len(s) >= k
<1>1. Len(s) \in Nat /\ DOMAIN s = 1 .. Len(s) /\ Len(s) <= 13
  BY DEF Stacked
<1>2. \A i, j \in 1 .. 13 : PartList[i] = PartList[j] => i = j
  BY DEF PartList
<1>3. ASSUME PartList[k] \in Range(s) PROVE Len(s) >= k
  <2>1. PICK i \in 1 .. Len(s) : s[i] = PartList[k]
    BY <1>1, <1>3 DEF Range
  <2>2. i \in 1 .. 13 /\ s[i] = PartList[i]
    BY <1>1, <2>1 DEF Stacked
  <2>3. i = k
    BY <1>2, <2>1, <2>2
  <2> QED
    BY <1>1, <2>1, <2>3
<1>4. ASSUME Len(s) >= k PROVE PartList[k] \in Range(s)
  BY <1>1, <1>4 DEF Stacked, Range
<1> QED
  BY <1>3, <1>4

\* Closing the newest part leaves the first ones.
LEMMA FrontIsStacked ==
  ASSUME NEW s, Stacked(s), s # <<>>
  PROVE  /\ Stacked(Front(s)) /\ Front(s) \in Seq(Parts) /\ Len(Front(s)) = Len(s) - 1
         /\ Last(s) = PartList[Len(s)]
         /\ Last(s) = "store" => Front(s) = <<>>
<1>1. s \in Seq(Parts) /\ Len(s) \in 1 .. 13
  <2>1. s \in Seq(Parts) /\ Len(s) <= 13
    BY DEF Stacked
  <2>2. PICK n \in Nat : n = Len(s) /\ n # 0 /\ n <= 13
    BY <2>1
  <2>3. n # 0 /\ n <= 13
    BY <2>2
  <2>4. n \in 1 .. 13
    BY <2>3
  <2> QED
    BY <2>1, <2>2, <2>4
<1> DEFINE n == Len(s) - 1
<1>2. n \in Nat /\ \A i \in 1 .. n : s[i] \in Parts
  BY <1>1
<1>3. Len(s) = n + 1
  BY <1>1
<1>4. Front(s) = SubSeq(s, 1, n)
  BY DEF Front
<1> HIDE DEF n
<1>5. /\ SubSeq(s, 1, n) \in Seq(Parts) /\ Len(SubSeq(s, 1, n)) = n
      /\ \A i \in 1 .. n : SubSeq(s, 1, n)[i] = s[i]
  BY <1>2, SubSeqProperties
<1>6. Last(s) = PartList[Len(s)]
  BY <1>1 DEF Last, Stacked
<1>7. Last(s) = "store" => Len(s) = 1
  <2>1. \A i \in 1 .. 13 : PartList[i] = "store" => i = 1
    BY DEF PartList
  <2> QED
    BY <1>1, <1>6, <2>1
<1> QED
  BY <1>1, <1>2, <1>3, <1>4, <1>5, <1>6, <1>7 DEF Stacked

\* Opening the next part.
LEMMA AppendIsStacked ==
  ASSUME NEW s, Stacked(s), Len(s) <= 12
  PROVE  /\ Stacked(Append(s, PartList[Len(s) + 1]))
         /\ Append(s, PartList[Len(s) + 1]) \in Seq(Parts)
         /\ Len(Append(s, PartList[Len(s) + 1])) = Len(s) + 1
<1>1. s \in Seq(Parts) /\ Len(s) \in 0 .. 12
  <2>1. s \in Seq(Parts)
    BY DEF Stacked
  <2>2. PICK n \in Nat : n = Len(s) /\ n <= 12
    BY <2>1
  <2>3. n <= 12
    BY <2>2
  <2>4. n \in 0 .. 12
    BY <2>3
  <2> QED
    BY <2>1, <2>2, <2>4
<1>2. PICK x \in Parts : x = PartList[Len(s) + 1]
  BY <1>1 DEF Parts
<1>3. Append(s, x) \in Seq(Parts) /\ Len(Append(s, x)) = Len(s) + 1
  BY <1>1
<1>4. \A i \in 1 .. Len(s) + 1 : Append(s, x)[i] = IF i <= Len(s) THEN s[i] ELSE x
  BY <1>1
<1> QED
  BY <1>1, <1>2, <1>3, <1>4 DEF Stacked

\* The owner of a worker is the part at its place, and its other parts come before it.
LEMMA OwnersCoverNeeds ==
  \A w \in Waited :
     /\ OwnerAt(w) \in 1 .. 13 /\ OwnerOf(w) = PartList[OwnerAt(w)]
     /\ \A x \in WorkerNeeds(w) : \E k \in 1 .. OwnerAt(w) : x = PartList[k]
<1> DEFINE Place(x, k) == k \in 1 .. 13 /\ x = PartList[k]
<1>1. /\ PartList[1] = "store" /\ PartList[3] = "inventory" /\ PartList[4] = "hub"
      /\ PartList[5] = "streams" /\ PartList[6] = "engine" /\ PartList[7] = "actions"
      /\ PartList[8] = "sampler"
  BY DEF PartList
<1>2. ASSUME NEW w \in Waited PROVE OwnerAt(w) \in 1 .. 13 /\ OwnerOf(w) = PartList[OwnerAt(w)]
  BY <1>1, <1>2 DEF Waited, OwnerAt, OwnerOf
<1>3. ASSUME NEW w \in Waited, NEW x \in WorkerNeeds(w)
      PROVE  \E k \in 1 .. OwnerAt(w) : x = PartList[k]
  <2>1. CASE w = "job"
    BY <1>1, <1>3, <2>1 DEF OwnerAt, WorkerNeeds, JobNeeds
  <2>2. CASE w = "sampler"
    BY <1>1, <1>3, <2>2 DEF OwnerAt, WorkerNeeds
  <2>3. CASE w = "observer"
    BY <1>1, <1>3, <2>3 DEF OwnerAt, WorkerNeeds
  <2>4. CASE w = "reader"
    BY <1>1, <1>3, <2>4 DEF OwnerAt, WorkerNeeds
  <2> QED
    BY <2>1, <2>2, <2>3, <2>4 DEF Waited
<1> QED
  BY <1>2, <1>3

\* Nothing runs and nothing is open.
LEMMA DaemonInitInv == DaemonInit => DaemonInv
<1>1. Stacked(<<>>) /\ <<>> \in Seq(Parts)
  BY DEF Stacked
<1> QED
  BY <1>1 DEF DaemonInit, DaemonInv, DaemonTypeOK, GoodProcess

\* A step of p that leaves the lock alone, or takes it or gives it back.
LEMMA ProcessStep ==
  ASSUME DaemonInv, NEW p \in Procs, DaemonTypeOK',
         \A q \in Procs \ {p} : /\ opened'[q] = opened[q] /\ mode'[q] = mode[q]
                                /\ startAt'[q] = startAt[q] /\ shutting'[q] = shutting[q]
                                /\ dbusy'[q] = dbusy[q],
         flock' = flock \/ flock = Unlocked \/ flock = p,
         GoodProcess(p)'
  PROVE  DaemonInv'
<1> SUFFICES ASSUME NEW q \in Procs, q # p PROVE GoodProcess(q)'
  BY DEF DaemonInv
<1>1. GoodProcess(q)
  BY DEF DaemonInv
<1>2. opened[q] # <<>> => flock' = q
  BY <1>1, DaemonAssumption DEF GoodProcess
<1> QED
  BY <1>1, <1>2 DEF GoodProcess

\* A worker that is added while its owner is open.
LEMMA WorkerAdded ==
  ASSUME DaemonInv, NEW p \in Procs, NEW S, dbusy' = [dbusy EXCEPT ![p] = S],
         \A w \in S \cap Waited : w \in dbusy[p] \/ Len(opened[p]) >= OwnerAt(w),
         UNCHANGED <<flock, opened, mode, startAt, shutting>>
  PROVE  DaemonInv'
<1>1. DaemonTypeOK'
  BY DEF DaemonInv, DaemonTypeOK
<1>2. dbusy'[p] = S /\ \A q \in Procs \ {p} : dbusy'[q] = dbusy[q]
  BY DEF DaemonInv, DaemonTypeOK
<1>3. GoodProcess(p)'
  BY <1>2 DEF DaemonInv, GoodProcess
<1> QED
  BY <1>1, <1>2, <1>3, ProcessStep

\* Work that comes while the process serves, and its end.
LEMMA WorkKeeps ==
  ASSUME DaemonInv, NEW p \in Procs,
         \/ RequestArrives(p) \/ JobSubmitted(p) \/ ReaderOpened(p) \/ ObserverStarted(p)
         \/ \E w \in Workers : WorkerEnds(p, w)
  PROVE  DaemonInv'
<1>1. /\ PartList[3] = "inventory" /\ PartList[5] = "streams" /\ PartList[6] = "engine"
      /\ OwnerAt("job") = 6 /\ OwnerAt("reader") = 5 /\ OwnerAt("observer") = 3
      /\ "handler" \notin Waited
  BY DEF PartList, OwnerAt, Waited
<1>2. Stacked(opened[p])
  BY DEF DaemonInv, GoodProcess
<1>3. UNCHANGED <<flock, opened, mode, startAt, shutting>>
  BY DEF RequestArrives, JobSubmitted, ReaderOpened, ObserverStarted, WorkerEnds
<1>4. ASSUME NEW w, dbusy' = [dbusy EXCEPT ![p] = dbusy[p] \cup {w}],
             w \notin Waited \/ Len(opened[p]) >= OwnerAt(w)
      PROVE  DaemonInv'
  <2> DEFINE S == dbusy[p] \cup {w}
  <2>1. \A v \in S \cap Waited : v \in dbusy[p] \/ Len(opened[p]) >= OwnerAt(v)
    BY <1>4
  <2>2. dbusy' = [dbusy EXCEPT ![p] = S]
    BY <1>4
  <2> HIDE DEF S
  <2> QED
    BY <1>3, <2>1, <2>2, WorkerAdded
<1>5. CASE RequestArrives(p)
  BY <1>1, <1>4, <1>5 DEF RequestArrives
<1>6. CASE JobSubmitted(p)
  <2>1. Len(opened[p]) >= 6
    BY <1>1, <1>2, <1>6, OpenByPlace DEF JobSubmitted, AcceptsWork, IsOpen
  <2> QED
    BY <1>1, <1>4, <1>6, <2>1 DEF JobSubmitted
<1>7. CASE ReaderOpened(p)
  <2>1. Len(opened[p]) >= 5
    BY <1>1, <1>2, <1>7, OpenByPlace DEF ReaderOpened, AcceptsWork, IsOpen
  <2> QED
    BY <1>1, <1>4, <1>7, <2>1 DEF ReaderOpened
<1>8. CASE ObserverStarted(p)
  <2>1. Len(opened[p]) >= 3
    BY <1>1, <1>2, <1>8, OpenByPlace DEF ObserverStarted, AcceptsWork, IsOpen
  <2> QED
    BY <1>1, <1>4, <1>8, <2>1 DEF ObserverStarted
<1>9. CASE \E w \in Workers : WorkerEnds(p, w)
  <2>1. PICK w \in Workers : dbusy' = [dbusy EXCEPT ![p] = dbusy[p] \ {w}]
    BY <1>9 DEF WorkerEnds
  <2> DEFINE S == dbusy[p] \ {w}
  <2>2. \A v \in S \cap Waited : v \in dbusy[p]
    OBVIOUS
  <2> HIDE DEF S
  <2>3. dbusy' = [dbusy EXCEPT ![p] = S]
    BY <2>1 DEF S
  <2> QED
    BY <1>3, <2>2, <2>3, WorkerAdded
<1> QED
  BY <1>5, <1>6, <1>7, <1>8, <1>9

\* The steps that open and close nothing.
LEMMA ModeKeeps ==
  ASSUME DaemonInv, NEW p \in Procs,
         \/ ServerStarts(p) \/ StartFails(p) \/ SignalServer(p) \/ PartTold(p) \/ CommandReads(p)
         \/ ensureNotInUse(p) \/ RestoreWritten(p) \/ CommandReported(p)
  PROVE  DaemonInv'
<1>1. UNCHANGED <<flock, opened, startAt, dbusy>>
  BY DEF ServerStarts, StartFails, SignalServer, PartTold, CommandReads, ensureNotInUse,
     RestoreWritten, CommandReported
<1>2. DaemonTypeOK'
  BY <1>1 DEF DaemonInv, DaemonTypeOK, ServerStarts, StartFails, SignalServer, PartTold,
     CommandReads, ensureNotInUse, RestoreWritten, CommandReported
<1>3. \A q \in Procs \ {p} : mode'[q] = mode[q] /\ shutting'[q] = shutting[q]
  BY DEF DaemonInv, DaemonTypeOK, ServerStarts, StartFails, SignalServer, PartTold,
     CommandReads, ensureNotInUse, RestoreWritten, CommandReported
<1>4. GoodProcess(p) /\ OpenBefore[1] = 0
  BY DEF DaemonInv, OpenBefore
<1>5. CASE PartTold(p)
  <2>1. mode' = mode /\ mode[p] = "closing" /\ opened[p] # <<>>
    BY <1>5 DEF PartTold
  <2>2. GoodProcess(p)'
    BY <1>1, <1>4, <2>1 DEF GoodProcess
  <2> QED
    BY <1>1, <1>2, <1>3, <2>2, ProcessStep
<1>6. CASE ~PartTold(p)
  <2>1. shutting' = shutting
    BY <1>6 DEF ServerStarts, StartFails, SignalServer, CommandReads, ensureNotInUse,
       RestoreWritten, CommandReported
  <2>2. \/ mode[p] = "off" /\ mode'[p] \in {"starting", "reading", "restoring"}
        \/ mode[p] \in {"starting"} /\ mode'[p] = "closing"
        \/ mode[p] = "serving" /\ mode'[p] = "draining"
        \/ mode[p] = "restoring" /\ mode'[p] = "reading"
        \/ mode[p] = "reading" /\ mode'[p] = "off"
    BY <1>6 DEF ServerStarts, StartFails, SignalServer, CommandReads, ensureNotInUse,
       RestoreWritten, CommandReported, DaemonInv, DaemonTypeOK
  <2>3. GoodProcess(p)'
    BY <1>1, <1>4, <2>1, <2>2 DEF GoodProcess
  <2> QED
    BY <1>1, <1>2, <1>3, <2>3, ProcessStep
<1> QED
  BY <1>5, <1>6

\* A step of the start opens the next part, or checks something.
LEMMA StartKeeps == ASSUME DaemonInv, NEW p \in Procs, StartStep(p) PROVE DaemonInv'
<1> DEFINE k == startAt[p]
           step == StartList[k]
           s == opened[p]
           t == opened'[p]
<1>1. /\ mode[p] = "starting" /\ k \in 1 .. 17 /\ Stacked(s) /\ Len(s) = OpenBefore[k]
      /\ s # <<>> => flock = p
      /\ ~shutting[p]
      /\ \A w \in dbusy[p] \cap Waited : Len(s) >= OwnerAt(w)
  BY DEF StartStep, DaemonInv, GoodProcess
<1>2. Len(s) \in 0 .. 12 /\ s \in Seq(Parts)
  BY <1>1, StepOpensNext DEF Stacked
<1>3. /\ flock' = IF step = "store" THEN p ELSE flock
      /\ step = "store" => flock = Unlocked
      /\ opened' = [opened EXCEPT ![p] = IF step \in Checks THEN s ELSE Append(s, step)]
      /\ startAt' = [startAt EXCEPT ![p] = k + 1]
      /\ mode' = [mode EXCEPT ![p] = IF k = 17 THEN "serving" ELSE "starting"]
      /\ shutting' = shutting
  BY StepOpensNext DEF StartStep
<1>4. t = IF step \in Checks THEN s ELSE Append(s, step)
  BY <1>3 DEF DaemonInv, DaemonTypeOK
<1>5. /\ t \in Seq(Parts) /\ Stacked(t) /\ t # <<>>
      /\ Len(t) = Len(s) + (IF step \in Checks THEN 0 ELSE 1)
  <2>1. CASE step \in Checks
    <3>1. Len(s) > 0
      BY <1>1, <2>1, StepOpensNext
    <3> QED
      BY <1>1, <1>2, <1>4, <2>1, <3>1
  <2>2. CASE step \notin Checks
    <3>1. step = PartList[Len(s) + 1]
      BY <1>1, <2>2, StepOpensNext
    <3>2. t = Append(s, PartList[Len(s) + 1])
      BY <1>4, <2>2, <3>1
    <3>3. t \in Seq(Parts) /\ Stacked(t) /\ Len(t) = Len(s) + 1
      BY <1>1, <1>2, <3>2, AppendIsStacked
    <3> QED
      BY <1>2, <2>2, <3>3
  <2> QED
    BY <2>1, <2>2
<1>6. /\ k < 17 => Len(t) = OpenBefore[k + 1]
      /\ k = 17 => Len(t) = 13
  <2>1. Len(t) = OpenBefore[k] + (IF step \in Checks THEN 0 ELSE 1)
    BY <1>1, <1>5
  <2>2. k < 17 => OpenBefore[k + 1] = OpenBefore[k] + (IF step \in Checks THEN 0 ELSE 1)
    BY <1>1, StepOpensNext
  <2>3. k = 17 => OpenBefore[k] = 12 /\ step \notin Checks
    BY <1>1, StepOpensNext
  <2> QED
    BY <2>1, <2>2, <2>3
<1>7. DOMAIN dbusy' = Procs /\ dbusy' = [q \in Procs |-> dbusy'[q]]
  BY DEF StartStep, DaemonInv, DaemonTypeOK
<1>8. \A q \in Procs \ {p} : dbusy'[q] = dbusy[q]
  BY DEF StartStep, DaemonInv, DaemonTypeOK
<1>9. ASSUME NEW w \in dbusy'[p] \cap Waited PROVE Len(t) >= OwnerAt(w)
  <2>1. CASE w \in dbusy[p]
    <3>1. PICK n \in Nat : n = Len(s)
      BY <1>2
    <3>2. PICK o \in Nat : o = OwnerAt(w)
      BY <1>9, OwnersCoverNeeds
    <3>3. n >= o
      BY <1>1, <1>9, <2>1, <3>1, <3>2
    <3>4. Len(t) = n + (IF step \in Checks THEN 0 ELSE 1)
      BY <1>5, <3>1
    <3> QED
      BY <3>2, <3>3, <3>4
  <2>2. CASE w \notin dbusy[p]
    <3>1. w \in BeginsWith(p, step) \/ (step = "resumed" /\ w = "job")
      BY <1>9, <2>2 DEF StartStep, DaemonInv, DaemonTypeOK
    <3>2. (step = "observing" /\ w = "observer") \/ (step = "sampler" /\ w = "sampler")
          \/ (step = "resumed" /\ w = "job")
      BY <3>1, <1>9 DEF BeginsWith, Waited
    <3>3. \A i \in 1 .. 17 : /\ StartList[i] = "observing" => OpenBefore[i] = 7
                             /\ StartList[i] = "sampler" => OpenBefore[i] = 7
                             /\ StartList[i] = "resumed" => OpenBefore[i] = 11
      BY DEF StartList, StartOrder, OpenBefore
    <3>4. "sampler" \notin Checks
      BY DEF Checks
    <3>5. /\ step = "observing" => Len(t) >= 7
          /\ step = "sampler" => Len(t) >= 8
          /\ step = "resumed" => Len(t) >= 11
      <4>1. PICK n \in Nat : n = Len(s) /\ n = OpenBefore[k]
        BY <1>1, <1>2
      <4>2. Len(t) = n + (IF step \in Checks THEN 0 ELSE 1)
        BY <1>5, <4>1
      <4>3. /\ step = "observing" => n = 7
            /\ step = "sampler" => n = 7
            /\ step = "resumed" => n = 11
        BY <1>1, <3>3, <4>1
      <4> QED
        BY <3>4, <4>2, <4>3
    <3>6. Len(t) \in Nat
      <4>1. PICK n \in Nat : n = Len(s)
        BY <1>2
      <4>2. Len(t) = n + (IF step \in Checks THEN 0 ELSE 1)
        BY <1>5, <4>1
      <4>3. n + 0 \in Nat /\ n + 1 \in Nat
        OBVIOUS
      <4> QED
        BY <4>2, <4>3
    <3>7. OwnerAt("observer") = 3 /\ OwnerAt("sampler") = 8 /\ OwnerAt("job") = 6
      BY DEF OwnerAt
    <3> QED
      BY <3>2, <3>5, <3>6, <3>7
  <2> QED
    BY <2>1, <2>2
<1>10. DaemonTypeOK'
  <2>1. opened' \in [Procs -> Seq(Parts)]
    BY <1>3, <1>5 DEF DaemonInv, DaemonTypeOK
  <2>2. startAt' \in [Procs -> Nat]
    BY <1>1, <1>3 DEF DaemonInv, DaemonTypeOK
  <2> QED
    BY <1>3, <1>7, <2>1, <2>2 DEF DaemonInv, DaemonTypeOK
<1>11. startAt'[p] = k + 1 /\ mode'[p] = IF k = 17 THEN "serving" ELSE "starting"
  BY <1>3 DEF DaemonInv, DaemonTypeOK
<1>12. flock' = p
  <2>1. step = "store" <=> Len(s) = 0
    BY <1>1, StepOpensNext
  <2> QED
    BY <1>1, <1>2, <1>3, <2>1
<1>13. GoodProcess(p)'
  <2>1. mode'[p] = "starting" => k < 17
    BY <1>1, <1>11
  <2>2. mode'[p] = "starting" => startAt'[p] \in 1 .. 17 /\ Len(t) = OpenBefore[startAt'[p]]
    <3>1. k \in 1 .. 17
      BY <1>1
    <3> HIDE DEF k
    <3>2. k < 17 => k + 1 \in 1 .. 17
      BY <3>1
    <3> QED
      BY <1>6, <1>11, <2>1, <3>2
  <2>3. mode'[p] \in {"serving", "draining"} => Len(t) = 13
    BY <1>6, <1>11
  <2>4. mode'[p] \in {"starting", "serving"} /\ ~shutting'[p]
    BY <1>1, <1>3, <1>11
  <2> QED
    BY <1>5, <1>9, <1>12, <2>2, <2>3, <2>4 DEF GoodProcess
<1>14. \A q \in Procs \ {p} : /\ opened'[q] = opened[q] /\ mode'[q] = mode[q]
                              /\ startAt'[q] = startAt[q] /\ shutting'[q] = shutting[q]
  BY <1>3 DEF DaemonInv, DaemonTypeOK
<1> QED
  BY <1>3, <1>8, <1>10, <1>13, <1>14, ProcessStep

\* What closes the newest part: the listener's end, and a deferred call that returns.
LEMMA CloseKeeps ==
  ASSUME DaemonInv, NEW p \in Procs, ListenerFails(p) \/ ShutdownReturns(p) \/ PartCloses(p)
  PROVE  DaemonInv'
<1> DEFINE s == opened[p]
           t == opened'[p]
<1>1. /\ GoodProcess(p) /\ Stacked(s)
      /\ mode[p] \in {"serving", "draining"} => Len(s) = 13
  BY DEF DaemonInv, GoodProcess
<1>2. s # <<>>
  BY <1>1 DEF ListenerFails, ShutdownReturns, PartCloses, GoodProcess
<1>3. /\ opened' = [opened EXCEPT ![p] = Front(s)]
      /\ UNCHANGED <<startAt, dbusy>>
      /\ mode' = [mode EXCEPT ![p] = "closing"] \/ (mode' = mode /\ mode[p] = "closing")
      /\ shutting' = shutting \/ shutting' = [shutting EXCEPT ![p] = FALSE]
  BY DEF ListenerFails, ShutdownReturns, PartCloses
<1>4. t = Front(s) /\ mode'[p] = "closing" /\ ~shutting'[p]
  <2>1. t = Front(s) /\ mode'[p] = "closing"
    BY <1>3 DEF DaemonInv, DaemonTypeOK
  <2>2. CASE PartCloses(p)
    BY <2>1, <2>2 DEF DaemonInv, DaemonTypeOK, PartCloses
  <2>3. CASE ListenerFails(p) \/ ShutdownReturns(p)
    BY <1>1, <2>1, <2>3 DEF ListenerFails, ShutdownReturns, GoodProcess
  <2> QED
    BY <2>1, <2>2, <2>3
<1>5. /\ Stacked(t) /\ t \in Seq(Parts) /\ Len(t) = Len(s) - 1
      /\ Last(s) = PartList[Len(s)] /\ (Last(s) = "store" => t = <<>>)
  BY <1>1, <1>2, <1>4, FrontIsStacked
<1>6. DaemonTypeOK'
  BY <1>3, <1>4, <1>5 DEF DaemonInv, DaemonTypeOK
<1>7. \A q \in Procs \ {p} : /\ opened'[q] = opened[q] /\ mode'[q] = mode[q]
                             /\ shutting'[q] = shutting[q]
  BY <1>3 DEF DaemonInv, DaemonTypeOK
<1>8. /\ flock = p
      /\ flock' = flock \/ t = <<>>
  BY <1>1, <1>2, <1>5 DEF GoodProcess, ListenerFails, ShutdownReturns, PartCloses, Newest
<1>9. PICK n \in Nat : n = Len(s) /\ Len(t) = n - 1
  BY <1>1, <1>5 DEF Stacked
<1>10. ASSUME NEW w \in dbusy[p] \cap Waited PROVE Len(t) >= OwnerAt(w)
  <2>1. OwnerAt(w) \in 1 .. 13 /\ OwnerOf(w) = PartList[OwnerAt(w)] /\ OwnerAt(w) <= 8
    BY OwnersCoverNeeds DEF OwnerAt
  <2>2. n >= OwnerAt(w)
    BY <1>1, <1>9 DEF GoodProcess
  <2>3. CASE PartCloses(p)
    <3>1. OwnerOf(w) # Last(s)
      BY <2>3 DEF PartCloses, WaitsFor, Newest
    <3>2. n # OwnerAt(w)
      BY <1>5, <1>9, <2>1, <3>1
    <3> QED
      BY SMTT(30), <1>9, <2>1, <2>2, <3>2
  <2>4. CASE ListenerFails(p) \/ ShutdownReturns(p)
    <3>1. n = 13
      BY <1>1, <1>9, <2>4 DEF ListenerFails, ShutdownReturns
    <3> QED
      BY <1>9, <2>1, <3>1
  <2> QED
    BY <2>3, <2>4
<1>11. GoodProcess(p)'
  BY <1>1, <1>3, <1>4, <1>5, <1>8, <1>10 DEF GoodProcess
<1> QED
  BY <1>3, <1>6, <1>7, <1>8, <1>11, ProcessStep

\* A process that is gone has nothing open and nothing running.
LEMMA GoneKeeps == ASSUME DaemonInv, NEW p \in Procs, ProcessGoes(p) PROVE DaemonInv'
<1>1. Stacked(<<>>) /\ <<>> \in Seq(Parts)
  BY DEF Stacked
<1>2. /\ opened' = [opened EXCEPT ![p] = <<>>] /\ mode' = [mode EXCEPT ![p] = "off"]
      /\ shutting' = [shutting EXCEPT ![p] = FALSE] /\ dbusy' = [dbusy EXCEPT ![p] = {}]
      /\ startAt' = [startAt EXCEPT ![p] = 1]
      /\ flock' = flock \/ flock = p
  BY DEF ProcessGoes
<1>3. DaemonTypeOK'
  BY <1>1, <1>2 DEF DaemonInv, DaemonTypeOK
<1>4. /\ opened'[p] = <<>> /\ mode'[p] = "off" /\ ~shutting'[p] /\ dbusy'[p] = {}
      /\ startAt'[p] = 1
  BY <1>2 DEF DaemonInv, DaemonTypeOK
<1>5. GoodProcess(p)'
  BY <1>1, <1>4 DEF GoodProcess
<1>6. \A q \in Procs \ {p} : /\ opened'[q] = opened[q] /\ mode'[q] = mode[q]
                             /\ startAt'[q] = startAt[q] /\ shutting'[q] = shutting[q]
                             /\ dbusy'[q] = dbusy[q]
  BY <1>2 DEF DaemonInv, DaemonTypeOK
<1> QED
  BY <1>2, <1>3, <1>5, <1>6, ProcessStep

\* The subcommands that take the lock.
LEMMA CommandKeeps ==
  ASSUME DaemonInv, NEW p \in Procs, cmdSupport(p) \/ cmdBreakGlass(p)
  PROVE  DaemonInv'
<1>1. /\ PartList[1] = "store" /\ PartList[2] = "audit" /\ "store" \in Parts /\ "audit" \in Parts
  BY DEF PartList, Parts
<1> DEFINE short == <<"store">>
           long == <<"store", "audit">>
<1>2. short \in Seq(Parts) /\ Stacked(short) /\ short # <<>>
  BY <1>1 DEF Stacked
<1>3. long \in Seq(Parts) /\ Stacked(long) /\ long # <<>>
  <2>1. long \in Seq(Parts) /\ Len(long) = 2 /\ long[1] = "store" /\ long[2] = "audit"
    BY <1>1
  <2> HIDE DEF long
  <2>2. \A i \in 1 .. 2 : long[i] = PartList[i]
    BY <1>1, <2>1
  <2> QED
    BY SMTT(30), <2>1, <2>2 DEF Stacked
<1> HIDE DEF short, long
<1>4. PICK s \in {short, long} : opened' = [opened EXCEPT ![p] = s]
  BY DEF cmdSupport, cmdBreakGlass, short, long
<1>5. s \in Seq(Parts) /\ Stacked(s) /\ s # <<>>
  BY <1>2, <1>3, <1>4
<1>6. /\ mode[p] = "off" /\ mode' = [mode EXCEPT ![p] = "closing"]
      /\ flock = Unlocked /\ flock' = p /\ UNCHANGED <<startAt, shutting, dbusy>>
  BY DEF cmdSupport, cmdBreakGlass
<1>7. opened[p] = <<>> /\ ~shutting[p] /\ dbusy[p] \cap Waited = {}
  <2>1. GoodProcess(p)
    BY DEF DaemonInv
  <2>2. opened[p] = <<>> /\ ~shutting[p]
    BY <1>6, <2>1 DEF GoodProcess
  <2>3. ASSUME NEW w \in dbusy[p] \cap Waited PROVE FALSE
    <3>1. OwnerAt(w) \in 1 .. 13
      BY OwnersCoverNeeds
    <3>2. 0 >= OwnerAt(w)
      BY <2>1, <2>2 DEF GoodProcess
    <3> QED
      BY <3>1, <3>2
  <2> QED
    BY <2>2, <2>3
<1>8. opened'[p] = s /\ mode'[p] = "closing"
  BY <1>4, <1>6 DEF DaemonInv, DaemonTypeOK
<1>9. DaemonTypeOK'
  BY <1>4, <1>5, <1>6 DEF DaemonInv, DaemonTypeOK
<1>10. GoodProcess(p)'
  BY <1>5, <1>6, <1>7, <1>8 DEF GoodProcess
<1>11. \A q \in Procs \ {p} : opened'[q] = opened[q] /\ mode'[q] = mode[q]
  BY <1>4, <1>6 DEF DaemonInv, DaemonTypeOK
<1> QED
  BY <1>6, <1>9, <1>10, <1>11, ProcessStep

\* Every step keeps the invariant.
LEMMA DaemonStep == DaemonInv /\ [DaemonNext]_daemonVars => DaemonInv'
<1> SUFFICES ASSUME DaemonInv, [DaemonNext]_daemonVars PROVE DaemonInv'
  OBVIOUS
<1>1. CASE UNCHANGED daemonVars
  BY <1>1 DEF daemonVars, DaemonInv, DaemonTypeOK, GoodProcess
<1>2. ASSUME NEW p \in Procs, Exits(p) \/ Killed(p) PROVE DaemonInv'
  BY <1>2, GoneKeeps DEF Exits, Killed
<1> QED
  BY <1>1, <1>2, StartKeeps, WorkKeeps, ModeKeeps, CloseKeeps, CommandKeeps
  DEF DaemonNext, ServerStep

\* The invariant of the daemon's processes.
LEMMA DaemonInvariant == DaemonSpec => []DaemonInv
  BY DaemonInitInv, DaemonStep, PTL DEF DaemonSpec

\* Two processes never append to the audit log at the same time, whatever number of
\* servers and subcommands come to the directory and wherever one is killed (run,
\* cmdBreakGlass): what is open is a prefix of the list, so who has the log has the lock.
THEOREM AppenderIsAlone == DaemonSpec => []OneAppender
<1>1. DaemonInv => OneAppender
  <2> SUFFICES ASSUME DaemonInv, NEW p \in Procs, NEW q \in Procs,
                      IsOpen(p, "audit"), IsOpen(q, "audit")
               PROVE  p = q
    BY DEF OneAppender
  <2>1. ASSUME NEW r \in Procs, IsOpen(r, "audit") PROVE flock = r
    BY <2>1 DEF DaemonInv, GoodProcess, IsOpen, Range
  <2> QED
    BY <2>1
<1> QED
  BY <1>1, DaemonInvariant, PTL

\* A job, the sampler, an observer and a stream reader find the parts they work with open
\* for as long as they run, on a failed start as on a shutdown (the deferred calls of run).
THEOREM WorkersKeepTheirTools == DaemonSpec => []WorkersHaveTheirTools
<1>1. DaemonInv => WorkersHaveTheirTools
  <2> SUFFICES ASSUME DaemonInv, NEW p \in Procs, NEW w \in dbusy[p] \cap Waited,
                      NEW x \in WorkerNeeds(w)
               PROVE  x \in Range(opened[p])
    BY DEF WorkersHaveTheirTools
  <2>1. OwnerAt(w) \in 1 .. 13 /\ \E k \in 1 .. OwnerAt(w) : x = PartList[k]
    BY OwnersCoverNeeds
  <2>2. PICK k \in 1 .. 13 : x = PartList[k] /\ k <= OwnerAt(w)
    BY <2>1
  <2>3. Stacked(opened[p]) /\ Len(opened[p]) >= OwnerAt(w)
    BY DEF DaemonInv, GoodProcess
  <2>4. PICK n \in Nat : n = Len(opened[p])
    BY <2>3 DEF Stacked
  <2>5. n >= OwnerAt(w)
    BY <2>3, <2>4
  <2>6. n >= k
    BY <2>1, <2>2, <2>5
  <2> QED
    BY <2>2, <2>3, <2>4, <2>6, OpenByPlace
<1> QED
  BY <1>1, DaemonInvariant, PTL

=============================================================================
