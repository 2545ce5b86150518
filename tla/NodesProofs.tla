---------------------------- MODULE NodesProofs -----------------------------
(***************************************************************************)
(* Theorems about how the daemon talks to its nodes and what it keeps of   *)
(* them, for any number of nodes, calls, faults, operators and days.       *)
(***************************************************************************)
EXTENDS NodeConfig, TalosClient, SimNode, Inventory, CertWatch, FiniteSetTheorems,
        SequenceTheorems, TLAPS

----------------------------------------------------------------------------
(***************************************************************************)
(* Calls.                                                                  *)
(***************************************************************************)
TalosCall ==
    [pc : {"none", "dial", "policy", "answered"}, to : Peers \cup {"none"},
     method : TalosMethods \cup {"none"}, attempt : Nat,
     kind : {"none", "ok", "rejected", "unreachable", "timeout"}, did : Nat]

\* A call that changes a node and may still be sent has not been sent before:
\* what is sent again is a read.
CallInv ==
    /\ callOf \in [TalosCallers -> TalosCall]
    /\ \A c \in TalosCallers :
          /\ callOf[c].did <= 1
          /\ callOf[c].pc \in {"dial", "policy"} /\ Changes(callOf[c].method) => callOf[c].did = 0

\* What the client sends a second time changes nothing on the machine.
LEMMA RetriesAreReads == \A m : Retryable(m) => ~Changes(m)
  BY DEF Retryable, Changes, ReadMethods, MutatingCalls, UploadMethods, UpgradeMethods

\* Every step of a call keeps its invariant.
LEMMA CallStep == CallInv /\ [TalosNext]_talosVars => CallInv'
<1> SUFFICES ASSUME CallInv, [TalosNext]_talosVars PROVE CallInv'
  OBVIOUS
<1>1. CASE UNCHANGED callOf
  BY <1>1 DEF CallInv
<1>2. ASSUME NEW c \in TalosCallers, NEW p \in Peers, NEW m \in TalosMethods, FanOut(c, p, m)
      PROVE  CallInv'
  BY <1>2 DEF CallInv, TalosCall, FanOut
<1>3. ASSUME NEW c \in TalosCallers, CallEnds(c, callOf[c].kind) \/ \E k : CallEnds(c, k)
      PROVE  CallInv'
  BY <1>3 DEF CallInv, TalosCall, CallEnds, NoTalosCall
<1>4. ASSUME NEW c \in TalosCallers, proveAnswering(c) PROVE CallInv'
  <2>1. CASE callOf[c].pc = "dial" /\ CallAt(c, "policy")
    BY <2>1 DEF CallInv, TalosCall, CallAt
  <2> QED
    BY <1>3, <1>4, <2>1 DEF proveAnswering
<1>5. ASSUME NEW c \in TalosCallers, doAgain(c) PROVE CallInv'
  <2>1. CASE Retryable(callOf[c].method) /\ CallAt(c, "policy")
    BY <2>1, RetriesAreReads DEF CallInv, TalosCall, CallAt
  <2> QED
    BY <1>3, <1>5, <2>1 DEF doAgain
<1>6. ASSUME NEW c \in TalosCallers, invoke(c) PROVE CallInv'
  <2>1. CASE refuseIfMutating(callOf[c].method)
    BY <1>3, <1>6, <2>1 DEF invoke
  <2>2. CASE ~refuseIfMutating(callOf[c].method)
    <3>1. PICK kind \in {"ok", "rejected", "unreachable", "timeout"}, does \in BOOLEAN :
             callOf' = [callOf EXCEPT ![c].pc = "answered", ![c].kind = kind, ![c].attempt = @ + 1,
                            ![c].did = IF does /\ Changes(callOf[c].method) THEN @ + 1 ELSE @]
      BY <1>6, <2>2 DEF invoke
    <3>2. callOf[c] \in TalosCall
      BY DEF CallInv
    <3>3. callOf' \in [TalosCallers -> TalosCall]
      BY <3>1, <3>2 DEF CallInv, TalosCall
    <3>4. callOf'[c].did <= 1 /\ callOf'[c].pc = "answered"
      BY <1>6, <3>1, <3>2 DEF CallInv, TalosCall, invoke
    <3>5. \A b \in TalosCallers : b # c => callOf'[b] = callOf[b]
      BY <3>1 DEF CallInv
    <3> QED
      BY <3>3, <3>4, <3>5 DEF CallInv
  <2> QED
    BY <2>1, <2>2
<1> QED
  BY <1>1, <1>2, <1>4, <1>5, <1>6 DEF TalosNext, CallNext, StreamNext, talosVars, TalosTick,
     PeerChanges, streamPolicy, RecvMsg, MessageArrives, TimerFires, StreamBreaks, RecvReturns

\* One call changes a node at most once, whatever answers are lost and however
\* often doAgain sends a read again.
THEOREM CallsChangeOnce == TalosSpec => []ChangedAtMostOnce
<1>1. TalosInit => CallInv
  BY DEF TalosInit, CallInv, TalosCall, NoTalosCall
<1>2. CallInv => ChangedAtMostOnce
  BY DEF CallInv, ChangedAtMostOnce
<1> QED
  BY <1>1, <1>2, CallStep, PTL DEF TalosSpec

----------------------------------------------------------------------------
(***************************************************************************)
(* The simulator's etcd ring.                                              *)
(***************************************************************************)
SimState ==
    [boot : BOOLEAN, off : BOOLEAN, version : Nat, images : SUBSET Nat,
     snap : {"none", "whole", "broken"}, recovered : {"none", "whole", "broken"},
     applied : {0, 1}, removed : SUBSET SimHosts, stayDown : BOOLEAN]

\* The inductive invariant of the ring.
RingInv ==
    /\ sim \in [SimHosts -> SimState]
    /\ simCall \in [SimCallers -> {NoSimCall} \cup [op : {"up", "act"}, host : SimHosts, req : Ops]]
    /\ ring \subseteq {h \in SimHosts : sim[h].boot}

\* A step that changes one machine keeps the invariant when the machine it
\* leaves in the ring runs etcd.
LEMMA RingUpdate ==
    ASSUME RingInv, NEW h \in SimHosts, NEW s \in SimState, sim' = [sim EXCEPT ![h] = s],
           ring' \subseteq ring \cup {h}, h \in ring' => s.boot,
           simCall' \in [SimCallers ->
               {NoSimCall} \cup [op : {"up", "act"}, host : SimHosts, req : Ops]]
    PROVE  RingInv'
<1>1. sim' \in [SimHosts -> SimState] /\ sim'[h] = s
  BY DEF RingInv
<1>2. \A g \in SimHosts : g # h => sim'[g] = sim[g]
  BY DEF RingInv
<1> QED
  BY <1>1, <1>2 DEF RingInv

\* An answer of a simulated machine keeps the ring's invariant.
LEMMA RingHandles ==
    ASSUME RingInv, NEW c \in SimCallers, Handles(c) PROVE RingInv'
<1> DEFINE h == simCall[c].host
           r == simCall[c].req
<1>1. h \in SimHosts /\ r \in Ops
  BY DEF RingInv, Handles, NoSimCall
<1>2. simCall' \in [SimCallers -> {NoSimCall} \cup [op : {"up", "act"}, host : SimHosts, req : Ops]]
  BY DEF RingInv, Handles
<1>3. sim[h] \in SimState /\ (h \in ring => sim[h].boot)
  BY <1>1 DEF RingInv
<1>4. CASE UNCHANGED <<sim, ring>>
  BY <1>2, <1>4 DEF RingInv
<1>5. CASE BootstrapRPC(h, r)
  <2>1. CASE sim' = [sim EXCEPT ![h].boot = TRUE] /\ ring' = ring \cup {h}
    <3>1. [sim[h] EXCEPT !.boot = TRUE] \in SimState
      BY <1>3 DEF SimState
    <3> QED
      BY <1>1, <1>2, <1>3, <2>1, <3>1, RingUpdate DEF SimState
  <2>2. CASE sim' = [sim EXCEPT ![h].boot = TRUE, ![h].recovered = sim[h].snap] /\ ring' = ring
    <3>1. [sim[h] EXCEPT !.boot = TRUE, !.recovered = sim[h].snap] \in SimState
      BY <1>3 DEF SimState
    <3>2. sim' = [sim EXCEPT ![h] = [sim[h] EXCEPT !.boot = TRUE, !.recovered = sim[h].snap]]
      BY <2>2
    <3>3. [sim[h] EXCEPT !.boot = TRUE, !.recovered = sim[h].snap].boot
      BY <1>3 DEF SimState
    <3> QED
      BY <1>1, <1>2, <2>2, <3>1, <3>2, <3>3, RingUpdate
  <2> QED
    BY <1>4, <1>5, <2>1, <2>2 DEF BootstrapRPC, bootstrap, recoverBootstrap, join
<1>6. CASE Reset(h, r)
  <2>1. PICK b \in BOOLEAN : b = (sim[h].off \/ ~r.reboot)
    OBVIOUS
  <2>2. [sim[h] EXCEPT !.boot = FALSE, !.applied = 0, !.off = b] \in SimState
    BY <1>3 DEF SimState
  <2>3. sim' = [sim EXCEPT ![h] = [sim[h] EXCEPT !.boot = FALSE, !.applied = 0, !.off = b]]
    BY <1>6, <2>1 DEF Reset, reset
  <2> QED
    BY <1>1, <1>2, <1>6, <2>2, <2>3, RingUpdate DEF Reset, reset, leave
<1>7. CASE EtcdLeaveCluster(h, r)
  <2>1. [sim[h] EXCEPT !.boot = FALSE] \in SimState
    BY <1>3 DEF SimState
  <2> QED
    BY <1>1, <1>2, <1>7, <2>1, RingUpdate DEF EtcdLeaveCluster, leaveEtcd, leave
<1>8. ASSUME NEW f \in {"off", "applied", "snap", "removed", "images", "version"}, NEW v,
             [sim[h] EXCEPT ![f] = v] \in SimState,
             sim' = [sim EXCEPT ![h] = [sim[h] EXCEPT ![f] = v]], ring' = ring
      PROVE  RingInv'
  BY <1>1, <1>2, <1>3, <1>8, RingUpdate DEF SimState
<1>9. CASE SimApplyConfiguration(h, r)
  <2>1. [sim[h] EXCEPT !.applied = 1] \in SimState
    BY <1>3 DEF SimState
  <2> QED
    BY <1>8, <1>9, <2>1 DEF SimApplyConfiguration, applyConfig
<1>10. CASE SimReboot(h, r) \/ Shutdown(h, r)
  <2>1. PICK b \in BOOLEAN : sim' = [sim EXCEPT ![h].off = b]
    BY <1>3, <1>10 DEF SimReboot, reboot, Shutdown, shutdown, SimState
  <2>2. [sim[h] EXCEPT !.off = b] \in SimState
    BY <1>3 DEF SimState
  <2> QED
    BY <1>8, <1>10, <2>1, <2>2 DEF SimReboot, reboot, Shutdown, shutdown
<1>11. CASE EtcdRecover(h, r)
  <2>1. r.snap \in {"whole", "broken"}
    BY <1>1, <1>11 DEF EtcdRecover, Ops
  <2>2. [sim[h] EXCEPT !.snap = r.snap] \in SimState
    BY <1>3, <2>1 DEF SimState
  <2> QED
    BY <1>8, <1>11, <2>2 DEF EtcdRecover, acceptSnapshot
<1>12. CASE EtcdRemoveMemberByID(h, r)
  <2>1. r.member \in SimHosts
    BY <1>1, <1>12 DEF EtcdRemoveMemberByID, Ops
  <2>2. [sim[h] EXCEPT !.removed = @ \cup {r.member}] \in SimState
    BY <1>3, <2>1 DEF SimState
  <2> QED
    BY <1>8, <1>12, <2>2 DEF EtcdRemoveMemberByID, removeMember
<1>13. CASE ImagePull(h, r) \/ UpgradeRPC(h, r)
  <2>1. r.image \in Nat
    BY <1>1, <1>13, SimNodeAssumption DEF ImagePull, UpgradeRPC, Ops
  <2>2. /\ [sim[h] EXCEPT !.images = @ \cup {r.image}] \in SimState
        /\ [sim[h] EXCEPT !.version = r.image] \in SimState
    BY <1>3, <2>1 DEF SimState
  <2> QED
    BY <1>4, <1>8, <1>13, <2>2 DEF ImagePull, pullImage, UpgradeRPC, upgradeTo
<1> QED
  BY <1>5, <1>6, <1>7, <1>9, <1>10, <1>11, <1>12, <1>13 DEF Handles

\* So does every step of the simulated cluster.
LEMMA RingStep == RingInv /\ [SimNext]_simVars => RingInv'
<1> SUFFICES ASSUME RingInv, [SimNext]_simVars PROVE RingInv'
  OBVIOUS
<1>1. CASE UNCHANGED simVars
  BY <1>1 DEF RingInv, simVars
<1>2. ASSUME NEW c \in SimCallers, NEW h \in SimHosts, NEW r \in Ops, Arrive(c, h, r)
      PROVE  RingInv'
  BY <1>2 DEF RingInv, Arrive
<1>3. ASSUME NEW c \in SimCallers, SimChecks(c) PROVE RingInv'
  <2>1. simCall[c] \in [op : {"up", "act"}, host : SimHosts, req : Ops]
    BY <1>3 DEF RingInv, SimChecks, NoSimCall
  <2>2. [simCall[c] EXCEPT !.op = "act"] \in [op : {"up", "act"}, host : SimHosts, req : Ops]
    BY <2>1
  <2> QED
    BY <1>3, <2>2 DEF RingInv, SimChecks
<1>4. ASSUME NEW h \in SimHosts, powerOn(h) \/ setStayDown(h) PROVE RingInv'
  <2>1. sim[h] \in SimState /\ (h \in ring => sim[h].boot)
    BY DEF RingInv
  <2>2. PICK b \in BOOLEAN, f \in {"off", "stayDown"} :
           sim' = [sim EXCEPT ![h] = [sim[h] EXCEPT ![f] = b]]
    BY <1>4, <2>1 DEF powerOn, setStayDown, SimState
  <2>3. [sim[h] EXCEPT ![f] = b] \in SimState
    BY <2>1 DEF SimState
  <2>4. [sim[h] EXCEPT ![f] = b].boot = sim[h].boot
    BY <2>1 DEF SimState
  <2> QED
    BY <1>4, <2>1, <2>2, <2>3, <2>4, RingUpdate DEF RingInv, powerOn, setStayDown
<1>5. ASSUME NEW h \in SimHosts, NEW v \in BOOLEAN, setBootstrapped(h, v), UNCHANGED simCall
      PROVE  RingInv'
  <2>1. sim[h] \in SimState
    BY DEF RingInv
  <2>2. [sim[h] EXCEPT !.boot = v] \in SimState /\ [sim[h] EXCEPT !.boot = v].boot = v
    BY <2>1 DEF SimState
  <2> QED
    BY <1>5, <2>2, RingUpdate DEF RingInv, setBootstrapped, join, leave
<1>6. ASSUME NEW h \in SimHosts,
             startSecondBootstrapAlreadyExists(h) \/ ClearSecondBootstrap(h)
      PROVE  RingInv'
  BY <1>5, <1>6 DEF startSecondBootstrapAlreadyExists, ClearSecondBootstrap
<1> QED
  BY <1>1, <1>2, <1>3, <1>4, <1>6, RingHandles DEF SimNext

\* Whatever bootstraps, wipes, leaves and injected faults overlap in the simulator,
\* EtcdMemberList names only machines that run etcd.
THEOREM RingNamesRunningMembers == SimSpec => []MembersRunEtcd
<1>1. SimInit => RingInv
  BY DEF SimInit, RingInv, SimState, newNodeState
<1>2. RingInv => MembersRunEtcd
  BY DEF RingInv, MembersRunEtcd, EtcdMemberList, ServiceList
<1> QED
  BY <1>1, <1>2, RingStep, PTL DEF SimSpec

----------------------------------------------------------------------------
(***************************************************************************)
(* The certificate watch.                                                  *)
(***************************************************************************)
CertItem == [node : ControlPlanes, kind : Kinds, notAfter : Int]

\* What a pass over the certificates holds.
CertPass ==
    [on : BOOLEAN, todo : SUBSET ControlPlanes, got : SUBSET ControlPlanes,
     nodes : SUBSET ControlPlanes, at : Int, previous : SUBSET CertItem,
     items : SUBSET CertItem]

\* The shape of the watcher's state.
CertTypeOK ==
    /\ today \in Int
    /\ certs \in [ControlPlanes -> [authority : Int, issued : Int]]
    /\ cpList \subseteq ControlPlanes
    /\ lastPass \in [there : BOOLEAN, nodes : SUBSET ControlPlanes, at : Int,
                     items : SUBSET CertItem]
    /\ cpass \in CertPass
    /\ seen \in [ControlPlanes -> SUBSET CertItem]

\* What was seen of a node is in the last pass, under its name; and a pass under
\* way has either heard a node it is done with, or has taken over what the last
\* pass, which has not changed since, held of it.
CertInv ==
    /\ CertTypeOK
    /\ \A n \in ControlPlanes : seen[n] \subseteq OfNode(lastPass.items, n)
    /\ cpass.on => /\ cpass.previous = lastPass.items
                   /\ \A n \in cpass.nodes \ (cpass.todo \cup cpass.got) :
                         OfNode(cpass.previous, n) \subseteq cpass.items

\* Every step of the watcher keeps its invariant.
LEMMA CertStep == CertInv /\ [CertNext]_certVars => CertInv'
<1> SUFFICES ASSUME CertInv, [CertNext]_certVars PROVE CertInv'
  OBVIOUS
<1>1. CASE UNCHANGED certVars
  BY <1>1 DEF CertInv, CertTypeOK, certVars
<1>2. CASE Tick
  BY <1>2 DEF CertInv, CertTypeOK, CertPass, Tick, NoPass
<1>3. CASE Stored
  <2>1. CertTypeOK'
    BY <1>3 DEF CertInv, CertTypeOK, CertPass, Stored, NoPass, OfNode
  <2>2. ASSUME NEW n \in ControlPlanes PROVE seen'[n] \subseteq OfNode(cpass.items, n)
    BY <1>3 DEF CertInv, CertTypeOK, CertPass, Stored, OfNode
  <2> QED
    BY <1>3, <2>1, <2>2 DEF CertInv, Stored, NoPass
<1>4. ASSUME NEW n \in ControlPlanes, RefreshNode(n) PROVE CertInv'
  <2>1. cpass \in CertPass /\ UNCHANGED <<lastPass, seen>>
    BY <1>4 DEF CertInv, CertTypeOK, RefreshNode
  <2>2. CASE n \in upNodes
    <3>1. Certificates(n) \subseteq CertItem
      BY DEF CertInv, CertTypeOK, Certificates, CertItem, Kinds
    <3>2. cpass' = [cpass EXCEPT !.todo = @ \ {n}, !.got = @ \cup {n},
                                 !.items = @ \cup Certificates(n)]
      BY <1>4, <2>2 DEF RefreshNode, readCertificates
    <3>3. cpass' \in CertPass
      BY <2>1, <3>1, <3>2 DEF CertPass
    <3>4. /\ cpass'.on = cpass.on /\ cpass'.previous = cpass.previous
          /\ cpass'.nodes = cpass.nodes /\ cpass'.todo = cpass.todo \ {n}
          /\ cpass'.got = cpass.got \cup {n} /\ cpass.items \subseteq cpass'.items
      BY <2>1, <3>2 DEF CertPass
    <3> QED
      BY <1>4, <2>1, <3>3, <3>4 DEF CertInv, CertTypeOK, RefreshNode
  <2>3. CASE n \notin upNodes
    <3>1. cpass' = [cpass EXCEPT !.todo = @ \ {n}, !.items = @ \cup OfNode(cpass.previous, n)]
      BY <1>4, <2>3 DEF RefreshNode, silentNode, missNode
    <3>2. cpass' \in CertPass
      BY <2>1, <3>1 DEF CertPass, OfNode
    <3>3. /\ cpass'.on = cpass.on /\ cpass'.previous = cpass.previous
          /\ cpass'.nodes = cpass.nodes /\ cpass'.todo = cpass.todo \ {n}
          /\ cpass'.got = cpass.got
          /\ cpass'.items = cpass.items \cup OfNode(cpass.previous, n)
      BY <2>1, <3>1 DEF CertPass
    <3> QED
      BY <1>4, <2>1, <3>2, <3>3 DEF CertInv, CertTypeOK, RefreshNode
  <2> QED
    BY <2>2, <2>3
<1>5. CASE DaysPass
  BY <1>5, CertWatchAssumption DEF CertInv, CertTypeOK, DaysPass
<1>6. ASSUME NEW n \in ControlPlanes, NEW k \in Kinds, Renewed(n, k) PROVE CertInv'
  BY <1>6, CertWatchAssumption DEF CertInv, CertTypeOK, Renewed, Kinds
<1>7. ASSUME NEW n \in ControlPlanes, AnswersOrNot(n) \/ JoinsOrLeaves(n) PROVE CertInv'
  BY <1>7 DEF CertInv, CertTypeOK, AnswersOrNot, JoinsOrLeaves
<1>8. CASE WatchRestarts
  BY <1>8 DEF CertInv, CertTypeOK, CertPass, WatchRestarts, NoReading, NoPass
<1> QED
  BY <1>1, <1>2, <1>3, <1>4, <1>5, <1>6, <1>7, <1>8 DEF CertNext

\* The standing of the cluster is that of its most urgent certificate: among four
\* ranks there is a highest.
LEMMA HealthIsTheWorst == \A it \in lastPass.items : rank(HealthFor) >= rank(Urgency(it))
<1> DEFINE U == {"none"} \cup {Urgency(it) : it \in lastPass.items}
           Worst(u) == \A it \in lastPass.items : rank(u) >= rank(Urgency(it))
<1>1. \A it : Urgency(it) \in {"critical", "banner", "badge", "none"}
  BY DEF Urgency, Ladder
<1>2. rank("critical") = 3 /\ rank("banner") = 2 /\ rank("badge") = 1 /\ rank("none") = 0
  BY DEF rank
<1>3. \E u \in U : Worst(u)
  <2>1. CASE \E it \in lastPass.items : Urgency(it) = "critical"
    BY <1>1, <1>2, <2>1
  <2>2. CASE /\ ~\E it \in lastPass.items : Urgency(it) = "critical"
             /\ \E it \in lastPass.items : Urgency(it) = "banner"
    BY <1>1, <1>2, <2>2
  <2>3. CASE /\ ~\E it \in lastPass.items : Urgency(it) \in {"critical", "banner"}
             /\ \E it \in lastPass.items : Urgency(it) = "badge"
    BY <1>1, <1>2, <2>3
  <2>4. CASE ~\E it \in lastPass.items : Urgency(it) \in {"critical", "banner", "badge"}
    BY <1>1, <1>2, <2>4
  <2> QED
    BY <2>1, <2>2, <2>3, <2>4
<1>4. HealthFor = CHOOSE u \in U : Worst(u)
  BY DEF HealthFor
<1> HIDE DEF U, Worst
<1>5. Worst(HealthFor)
  BY <1>3, <1>4
<1> QED
  BY <1>5 DEF Worst

\* A certificate a pass was told of stays on the overview with the urgency of the
\* day, although its node has been silent in every pass since.
THEOREM ExpiryIsShown == CertSpec => []NoQuietExpiry
<1>1. CertInit => CertInv
  BY CertWatchAssumption
     DEF CertInit, CertInv, CertTypeOK, CertPass, NoReading, NoPass, OfNode
<1>2. CertInv => NoQuietExpiry
  BY HealthIsTheWorst DEF CertInv, NoQuietExpiry, OfNode
<1> QED
  BY <1>1, <1>2, CertStep, PTL DEF CertSpec

----------------------------------------------------------------------------
(***************************************************************************)
(* Drift.                                                                  *)
(***************************************************************************)
BaseFields == {"ex", "snap", "exp", "drift", "onDrift"}

\* A difference is open only against a baseline.
DriftInv ==
    /\ base = [f \in BaseFields |-> base[f]]
    /\ base.drift => base.ex

\* Every step of the drift watch and of a caller keeps the invariant of the drift.
LEMMA DriftStep == DriftInv /\ [ConfigNext]_cfgVars => DriftInv'
<1> SUFFICES ASSUME DriftInv, [ConfigNext]_cfgVars PROVE DriftInv'
  OBVIOUS
<1>1. CASE UNCHANGED base
  BY <1>1 DEF DriftInv
<1>2. ASSUME NEW v, base' = [base EXCEPT !.exp = v] PROVE DriftInv'
  BY <1>2 DEF DriftInv, BaseFields
<1>3. ASSUME NEW v, base' = [NoBase EXCEPT !.ex = TRUE, !.snap = v] PROVE DriftInv'
  BY <1>3 DEF DriftInv, BaseFields, NoBase
<1>4. CASE decide
  <2>1. ASSUME NEW v, base' = [base EXCEPT !.drift = FALSE, !.onDrift = FALSE, !.exp = v]
        PROVE  DriftInv'
    BY <2>1 DEF DriftInv, BaseFields
  <2>2. ASSUME NEW v, base' = [base EXCEPT !.onDrift = TRUE, !.exp = v] PROVE DriftInv'
    BY <2>2 DEF DriftInv, BaseFields
  <2>3. ASSUME NEW v, base.ex, base' = [base EXCEPT !.drift = TRUE, !.exp = v] PROVE DriftInv'
    BY <2>3 DEF DriftInv, BaseFields
  <2> QED
    BY <1>1, <1>3, <1>4, <2>1, <2>2, <2>3 DEF decide
<1>5. CASE reconcile
  BY <1>5 DEF DriftInv, BaseFields, reconcile, NoBase
<1>6. CASE Confirm
  BY <1>3, <1>6 DEF Confirm
<1>7. CASE Ages
  BY <1>2, <1>7 DEF Ages
<1>8. ASSUME NEW o \in Operators, ApplyStep(o) PROVE DriftInv'
  <2>1. CASE expect(o)
    BY <1>1, <1>2, <2>1 DEF expect
  <2>2. CASE Apply(o)
    BY <1>1, <1>2, <2>2 DEF Apply, unexpect
  <2>3. CASE ApplyBusy(o) \/ reserveStaged(o) \/ checkBase(o) \/ ApplyConfiguration(o)
    BY <1>1, <2>3 DEF ApplyBusy, reserveStaged, checkBase, ApplyConfiguration, driftVars
  <2> QED
    BY <1>8, <2>1, <2>2, <2>3 DEF ApplyStep
<1> QED
  BY <1>1, <1>4, <1>5, <1>6, <1>7, <1>8 DEF ConfigNext, cfgVars, driftVars, Plan, readNode,
     unreadable, TryTimeout, Reboot, ForgetsMachine, Restart, Talosctl

\* While a difference is open, the baseline moves only to what Confirm was shown
\* as the difference: an own apply that arrives meanwhile is noted and not adopted.
THEOREM OpenDriftNeedsAConfirmation == ConfigSpec => OpenDriftIsConfirmed
<1> DEFINE Moves == base.drift /\ base'.ex /\ base'.snap # base.snap =>
                       rdg.state = "drift" /\ base'.snap = rdg.snap
<1>1. ConfigInit => DriftInv
  <2>1. NoBase = [f \in BaseFields |-> NoBase[f]] /\ ~NoBase.drift
    BY DEF NoBase, BaseFields
  <2> QED
    BY <2>1 DEF ConfigInit, DriftInv
<1>2. DriftInv /\ [ConfigNext]_cfgVars => [Moves]_cfgVars
  <2> SUFFICES ASSUME DriftInv, ConfigNext, base.drift, base'.ex, base'.snap # base.snap
               PROVE  rdg.state = "drift" /\ base'.snap = rdg.snap
    BY DEF cfgVars
  <2>1. ASSUME NEW v, base' = [base EXCEPT !.exp = v] PROVE FALSE
    BY <2>1 DEF DriftInv, BaseFields
  <2>2. CASE decide
    <3>1. ASSUME NEW v, \/ base' = [base EXCEPT !.drift = FALSE, !.onDrift = FALSE, !.exp = v]
                        \/ base' = [base EXCEPT !.onDrift = TRUE, !.exp = v]
                        \/ base' = [base EXCEPT !.drift = TRUE, !.exp = v]
          PROVE  FALSE
      BY <3>1 DEF DriftInv, BaseFields
    <3> QED
      BY <2>2, <3>1 DEF decide, adoptable, DriftInv
  <2>3. CASE reconcile
    BY <2>3 DEF reconcile, NoBase
  <2>4. CASE Confirm
    BY <2>4 DEF Confirm, NoBase
  <2>5. CASE Ages
    BY <2>1, <2>5 DEF Ages
  <2>6. ASSUME NEW o \in Operators, ApplyStep(o) PROVE FALSE
    BY <2>1, <2>6 DEF ApplyStep, ApplyBusy, reserveStaged, checkBase, expect,
       ApplyConfiguration, Apply, unexpect, driftVars
  <2> QED
    BY <2>2, <2>3, <2>4, <2>5, <2>6 DEF ConfigNext, driftVars, Plan, readNode, unreadable,
       TryTimeout, Reboot, ForgetsMachine, Restart, Talosctl
<1> QED
  BY <1>1, <1>2, DriftStep, PTL DEF ConfigSpec, OpenDriftIsConfirmed

----------------------------------------------------------------------------
(***************************************************************************)
(* Records of machines.                                                    *)
(***************************************************************************)
InvRec ==
    [rev : Nat, cluster : Clusters \cup {None}, addr : Addrs \cup {None}, lost : BOOLEAN,
     left : BOOLEAN, ops : Nat, snap : {0, 1}]
InvItem ==
    [k : Writes \cup {"file", "adopt"}, m : Machines, c : Clusters \cup {None},
     a : Addrs \cup {None}, got : InvRec, att : Nat]

\* A record that was read is the stored one, or an older one.
Behind(g, r) == g.rev <= r.rev /\ (g.rev = r.rev => g = r)

\* The writes that cannot undo anything: what they hold they have still to read, or it is
\* behind the record, unless that was deleted in between.
GoodItems(mc, fg) == {i \in InvItem : i.got = Unread \/ i.m \in fg \/ Behind(i.got, mc[i.m])}

InvCall(G) ==
    [op : {"none", "sync", "refresh", "labels", "lock", "add", "import", "create", "forgetCluster"},
     c : Clusters \cup {None}, pc : {"items", "put", "cluster", "secrets", "gone"}, todo : Seq(G)]

RecordsInv ==
    /\ mach \in [Machines -> InvRec]
    /\ clusters \subseteq Clusters \cup {None}
    /\ at \in [Addrs -> Machines \cup {None}]
    /\ listed \subseteq Machines
    /\ thr \in [Threads -> InvCall(GoodItems(mach, forgot))]

\* Sequences and sets.
LEMMA SeqGrows ==
  ASSUME NEW S, NEW T, S \subseteq T, NEW s \in Seq(S)
  PROVE  s \in Seq(T)
<1>1. Len(s) \in Nat /\ s \in [1 .. Len(s) -> S]
  OBVIOUS
<1>2. s \in [1 .. Len(s) -> T]
  BY <1>1
<1> QED
  BY <1>1, <1>2

LEMMA SetToSeqIsOf ==
  ASSUME NEW S, IsFiniteSet(S)
  PROVE  SetToSeq(S) \in Seq(S)
<1>1. Cardinality(S) \in Nat /\ ExistsBijection(1 .. Cardinality(S), S)
  BY FS_CardinalityType
<1>2. PICK f : f \in Bijection(1 .. Cardinality(S), S)
  BY <1>1 DEF ExistsBijection
<1>3. f \in [1 .. Cardinality(S) -> S] /\ IsInjective(f)
  BY <1>2 DEF Bijection, Injection, IsInjective
<1>4. SetToSeq(S) \in [1 .. Cardinality(S) -> S]
  BY <1>3 DEF SetToSeq
<1> QED
  BY <1>1, <1>4

LEMMA ImageIsFinite ==
  ASSUME NEW P, IsFiniteSet(P), NEW f, DOMAIN f = P, f = [x \in P |-> f[x]]
  PROVE  IsFiniteSet({f[x] : x \in P})
<1> DEFINE T == {f[x] : x \in P}
<1>1. f \in Surjection(P, T)
  BY DEF Surjection
<1> HIDE DEF T
<1>2. IsFiniteSet(T)
  BY <1>1, FS_Surjection
<1> QED
  BY <1>2 DEF T

\* A new write is good if it reads for itself, and if it holds the record as it is now.
LEMMA NewItemIsGood ==
  ASSUME RecordsInv, NEW k \in Writes \cup {"file", "adopt"}, NEW m \in Machines,
         NEW c \in Clusters \cup {None}, NEW a \in Addrs \cup {None}
  PROVE  /\ Item(k, m, c, a, Unread) \in GoodItems(mach, forgot)
         /\ Item(k, m, c, a, mach[m]) \in GoodItems(mach, forgot)
<1>1. Unread \in InvRec /\ mach[m] \in InvRec
  BY DEF Unread, NoRec, InvRec, RecordsInv
<1>2. mach[m].rev \in Nat /\ Behind(mach[m], mach[m])
  BY <1>1 DEF Behind, InvRec
<1>3. Item(k, m, c, a, Unread) \in InvItem /\ Item(k, m, c, a, mach[m]) \in InvItem
  BY <1>1 DEF Item, InvItem
<1>4. /\ Item(k, m, c, a, Unread).got = Unread
      /\ Item(k, m, c, a, mach[m]).got = mach[m] /\ Item(k, m, c, a, mach[m]).m = m
  BY DEF Item
<1> QED
  BY <1>2, <1>3, <1>4 DEF GoodItems

\* One thread goes on; the records stay.
LEMMA ThreadMoves ==
  ASSUME RecordsInv, NEW t \in Threads, NEW call \in InvCall(GoodItems(mach, forgot)),
         thr' = [thr EXCEPT ![t] = call], mach' = mach, forgot' = forgot,
         clusters' \subseteq Clusters \cup {None}, UNCHANGED <<at, listed>>
  PROVE  RecordsInv'
<1>1. thr' \in [Threads -> InvCall(GoodItems(mach, forgot))]
  BY DEF RecordsInv
<1>2. GoodItems(mach, forgot)' = GoodItems(mach, forgot)
  BY DEF GoodItems
<1>3. thr' \in [Threads -> InvCall(GoodItems(mach', forgot'))]
  BY <1>1
<1> QED
  BY <1>3 DEF RecordsInv

\* What is good stays good while records only get newer.
LEMMA RecordsMove ==
  ASSUME RecordsInv, mach' \in [Machines -> InvRec], forgot \subseteq forgot',
         \A m \in Machines \ forgot' : mach'[m] = mach[m] \/ mach'[m].rev > mach[m].rev
  PROVE  GoodItems(mach, forgot) \subseteq GoodItems(mach', forgot')
<1> SUFFICES ASSUME NEW i \in GoodItems(mach, forgot), i.got # Unread, i.m \notin forgot'
             PROVE  Behind(i.got, mach'[i.m])
  BY DEF GoodItems
<1>1. i \in InvItem /\ Behind(i.got, mach[i.m])
  BY DEF GoodItems
<1>2. i.m \in Machines /\ i.got.rev \in Nat /\ mach[i.m].rev \in Nat /\ mach'[i.m].rev \in Nat
  BY <1>1 DEF InvItem, InvRec, RecordsInv
<1>3. CASE mach'[i.m] = mach[i.m]
  BY <1>1, <1>3
<1>4. CASE mach'[i.m].rev > mach[i.m].rev
  BY <1>1, <1>2, <1>4 DEF Behind
<1> QED
  BY <1>2, <1>3, <1>4

LEMMA CallGrows ==
  ASSUME NEW G, NEW H, G \subseteq H, NEW call \in InvCall(G)
  PROVE  call \in InvCall(H)
<1>1. call.todo \in Seq(H)
  BY SeqGrows DEF InvCall
<1> QED
  BY <1>1 DEF InvCall

----------------------------------------------------------------------------
\* What is left of a list, and a list with another first write.
LEMMA ListsKeep ==
  ASSUME NEW G, NEW call \in InvCall(G), call.todo # <<>>
  PROVE  /\ Head(call.todo) \in G /\ Head(call.todo) = call.todo[1]
         /\ [call EXCEPT !.todo = Tail(@)] \in InvCall(G)
         /\ \A x \in G : [call EXCEPT !.todo = [@ EXCEPT ![1] = x]] \in InvCall(G)
<1> DEFINE s == call.todo
<1>1. s \in Seq(G) /\ s # <<>>
  BY DEF InvCall
<1> HIDE DEF s
<1>2. Head(s) \in G /\ Head(s) = s[1] /\ Tail(s) \in Seq(G)
  BY <1>1
<1>3. ASSUME NEW x \in G PROVE [s EXCEPT ![1] = x] \in Seq(G)
  <2>1. Len(s) \in Nat /\ s \in [1 .. Len(s) -> G] /\ 1 \in 1 .. Len(s)
    BY <1>1
  <2>2. [s EXCEPT ![1] = x] \in [1 .. Len(s) -> G]
    BY <2>1
  <2> QED
    BY <2>1, <2>2
<1>4. \A u \in Seq(G) : [call EXCEPT !.todo = u] \in InvCall(G)
  BY DEF InvCall
<1> QED
  BY <1>2, <1>3, <1>4 DEF s

\* A call of a thread, and that it may go on without its first write, or end.
LEMMA ThreadGoesOn ==
  ASSUME RecordsInv, NEW t \in Threads, Next1(t) \/ Abort(t), thr[t].todo # <<>> \/ Abort(t),
         mach' = mach, forgot' = forgot,
         clusters' \subseteq Clusters \cup {None}, UNCHANGED <<at, listed>>
  PROVE  RecordsInv'
<1> DEFINE G == GoodItems(mach, forgot)
<1>1. thr[t] \in InvCall(G)
  BY DEF RecordsInv
<1>2. NoCall \in InvCall(G)
  BY DEF NoCall, InvCall
<1>3. CASE Abort(t)
  <2>1. thr' = [thr EXCEPT ![t] = NoCall]
    BY <1>3 DEF Abort
  <2> QED
    BY <1>2, <2>1, ThreadMoves
<1>4. CASE Next1(t) /\ thr[t].todo # <<>>
  <2> DEFINE call == [thr[t] EXCEPT !.todo = Tail(@)]
  <2>1. call \in InvCall(G)
    BY <1>1, <1>4, ListsKeep
  <2>2. thr' = [thr EXCEPT ![t] = call]
    BY <1>4 DEF Next1
  <2> HIDE DEF call
  <2> QED
    BY <2>1, <2>2, ThreadMoves
<1> QED
  BY <1>3, <1>4

LEMMA GetKeeps ==
  ASSUME RecordsInv, NEW t \in Threads, Get(t)
  PROVE  RecordsInv'
<1> DEFINE G == GoodItems(mach, forgot)
           i == Held(t)
<1>1. /\ mach' = mach /\ forgot' = forgot /\ clusters' = clusters
      /\ clusters' \subseteq Clusters \cup {None} /\ UNCHANGED <<at, listed>>
  BY DEF Get, recVars, envVars, RecordsInv
<1>2. thr[t] \in InvCall(G) /\ thr[t].todo # <<>>
  BY DEF Get, AtItem, RecordsInv
<1>3. i \in G /\ i = thr[t].todo[1]
  BY <1>2, ListsKeep DEF Held
<1>4. CASE thr' = [thr EXCEPT ![t].todo[1].got = mach[Held(t).m]]
  <2> DEFINE x == [i EXCEPT !.got = mach[i.m]]
             call == [thr[t] EXCEPT !.todo = [@ EXCEPT ![1] = x]]
  <2> HIDE DEF i
  <2>1. i \in InvItem /\ mach[i.m] \in InvRec /\ i.m \in Machines
    BY <1>3 DEF GoodItems, InvItem, RecordsInv
  <2>2. x \in InvItem /\ x.got = mach[i.m] /\ x.m = i.m
    BY <2>1 DEF InvItem
  <2>3. Behind(mach[i.m], mach[i.m])
    BY <2>1 DEF Behind, InvRec
  <2>4. x \in G
    BY <2>2, <2>3 DEF GoodItems
  <2>5. thr' = [thr EXCEPT ![t] = call]
    BY <1>3, <1>4 DEF i
  <2>6. call \in InvCall(G)
    BY <1>2, <2>4, ListsKeep
  <2> HIDE DEF call
  <2> QED
    BY <1>1, <2>5, <2>6, ThreadMoves
<1>5. CASE Next1(t) \/ Abort(t)
  BY <1>1, <1>2, <1>5, ThreadGoesOn
<1> QED
  BY <1>4, <1>5 DEF Get

\* What a write makes of a record: it is newer, and differs in what its writer owns.
LEMMA ApplyType ==
  ASSUME NEW i \in InvItem, i.k \in Writes, NEW g \in InvRec
  PROVE  /\ apply(i, g) \in InvRec /\ [apply(i, g) EXCEPT !.rev = g.rev + 1] \in InvRec
         /\ [apply(i, g) EXCEPT !.rev = g.rev + 1].rev = g.rev + 1
         /\ apply(i, g).ops >= g.ops /\ apply(i, g).snap >= g.snap
         /\ \E f : \A e \in {"cluster", "ops", "snap", "left"} : e # f => apply(i, g)[e] = g[e]
<1> DEFINE r == apply(i, g)
<1>0. i.c \in Clusters \cup {None} /\ i.a \in Addrs \cup {None}
  BY DEF InvItem
<1>1. CASE i.k = "snapshot"
  <2>1. r = [g EXCEPT !.snap = 1]
    BY <1>1 DEF apply
  <2> HIDE DEF r
  <2>2. r \in InvRec /\ r.ops >= g.ops /\ r.snap >= g.snap
        /\ \A e \in {"cluster", "ops", "snap", "left"} : e # "snap" => r[e] = g[e]
    BY <2>1 DEF InvRec
  <2> QED
    BY <2>2 DEF r, InvRec
<1>2. CASE i.k \in {"labels", "lock"}
  <2>1. r = [g EXCEPT !.ops = @ + 1]
    BY <1>2 DEF apply
  <2> HIDE DEF r
  <2>2. r \in InvRec /\ r.ops >= g.ops /\ r.snap >= g.snap
        /\ \A e \in {"cluster", "ops", "snap", "left"} : e # "ops" => r[e] = g[e]
    BY <2>1 DEF InvRec
  <2> QED
    BY <2>2 DEF r, InvRec
<1>3. CASE i.k = "unassign"
  <2>1. r = [g EXCEPT !.cluster = None]
    BY <1>3 DEF apply
  <2> HIDE DEF r
  <2>2. r \in InvRec /\ r.ops >= g.ops /\ r.snap >= g.snap
        /\ \A e \in {"cluster", "ops", "snap", "left"} : e # "cluster" => r[e] = g[e]
    BY <2>1 DEF InvRec
  <2> QED
    BY <2>2 DEF r, InvRec
<1>4. CASE i.k = "evict"
  <2>1. r = [g EXCEPT !.lost = TRUE]
    BY <1>4 DEF apply
  <2> HIDE DEF r
  <2>2. r \in InvRec /\ r.cluster = g.cluster /\ r.ops = g.ops /\ r.snap = g.snap /\ r.left = g.left
    BY <2>1, ZenonT(60) DEF InvRec
  <2>3. r.ops >= g.ops /\ r.snap >= g.snap
        /\ \A e \in {"cluster", "ops", "snap", "left"} : e # "lost" => r[e] = g[e]
    BY <2>2 DEF InvRec
  <2> QED
    BY <2>2, <2>3 DEF r, InvRec
<1>5. CASE i.k \in {"listed", "left"}
  <2>1. PICK b \in BOOLEAN : r = [g EXCEPT !.left = b]
    BY <1>5 DEF apply
  <2> HIDE DEF r
  <2>2. r \in InvRec /\ r.ops >= g.ops /\ r.snap >= g.snap
        /\ \A e \in {"cluster", "ops", "snap", "left"} : e # "left" => r[e] = g[e]
    BY <2>1 DEF InvRec
  <2> QED
    BY <2>2 DEF r, InvRec
<1>6. CASE i.k = "record"
  <2>1. r = [g EXCEPT !.cluster = i.c, !.addr = i.a, !.lost = FALSE]
    BY <1>6 DEF apply
  <2> HIDE DEF r
  <2>2. r \in InvRec /\ r.ops >= g.ops /\ r.snap >= g.snap
        /\ \A e \in {"cluster", "ops", "snap", "left"} : e # "cluster" => r[e] = g[e]
    <3>1. r \in InvRec /\ r.ops = g.ops /\ r.snap = g.snap /\ r.left = g.left
      BY <1>0, <2>1, ZenonT(60) DEF InvRec
    <3> QED
      BY <3>1 DEF InvRec
  <2> QED
    BY <2>2 DEF r, InvRec
<1> QED
  BY <1>1, <1>2, <1>3, <1>4, <1>5, <1>6 DEF Writes

\* A write in the store: of a record nobody deleted it is made of the record as it is.
LEMMA PutWrites ==
  ASSUME RecordsInv, NEW t \in Threads, Put(t), Held(t).got.rev = mach[Held(t).m].rev
  PROVE  /\ mach' \in [Machines -> InvRec]
         /\ \A m \in Machines : mach'[m] = mach[m] \/ mach'[m].rev > mach[m].rev
         /\ \A m \in Machines \ forgot : ~Undoes(m)
<1> DEFINE i == Held(t)
           w == [apply(i, i.got) EXCEPT !.rev = i.got.rev + 1]
<1>1. thr[t] \in InvCall(GoodItems(mach, forgot)) /\ thr[t].todo # <<>> /\ i.k \in Writes
      /\ i.got # Unread
  BY DEF Put, AtItem, RecordsInv
<1>2. i \in GoodItems(mach, forgot)
  BY <1>1, ListsKeep DEF Held
<1>3. mach' = [mach EXCEPT ![i.m] = w] /\ i.got.rev = mach[i.m].rev
  BY DEF Put
<1> HIDE DEF i
<1>4. /\ i \in InvItem /\ i.m \in Machines /\ i.got \in InvRec
      /\ i.m \notin forgot => Behind(i.got, mach[i.m])
  BY <1>1, <1>2 DEF GoodItems, InvItem
<1>5. /\ w \in InvRec /\ w.rev = i.got.rev + 1 /\ apply(i, i.got) \in InvRec
      /\ apply(i, i.got).ops >= i.got.ops /\ apply(i, i.got).snap >= i.got.snap
  BY <1>1, <1>4, ApplyType
<1>6. PICK f : \A e \in {"cluster", "ops", "snap", "left"} : e # f => apply(i, i.got)[e] = i.got[e]
  BY <1>1, <1>4, ApplyType
<1>7. \A e \in {"cluster", "ops", "snap", "left"} : w[e] = apply(i, i.got)[e]
  <2> DEFINE r == apply(i, i.got)
             n == i.got.rev + 1
  <2>1. r \in InvRec
    BY <1>5
  <2> HIDE DEF r, n
  <2>2. \A e \in {"cluster", "ops", "snap", "left"} : [r EXCEPT !.rev = n][e] = r[e]
    BY <2>1 DEF InvRec
  <2> QED
    BY <2>2 DEF r, n
<1> HIDE DEF w
<1>8. mach \in [Machines -> InvRec] /\ i.got.rev \in Nat
  BY <1>4 DEF RecordsInv, InvRec
<1>9. mach' \in [Machines -> InvRec] /\ \A m \in Machines : mach'[m] = IF m = i.m THEN w ELSE mach[m]
  BY <1>3, <1>4, <1>5, <1>8
<1>10. mach'[i.m].rev > mach[i.m].rev
  BY <1>3, <1>4, <1>5, <1>8, <1>9
<1>11. ASSUME NEW m \in Machines \ forgot, Undoes(m) PROVE FALSE
  <2>1. m = i.m /\ mach'[m] = w
    BY <1>9, <1>11 DEF Undoes
  <2>2. i.got = mach[m]
    BY <1>3, <1>4, <2>1 DEF Behind
  <2>3. mach[m].ops \in Nat /\ mach[m].snap \in Nat /\ mach'[m].ops \in Nat /\ mach'[m].snap \in Nat
    BY <1>8, <1>9 DEF InvRec
  <2>4. mach'[m].ops >= mach[m].ops /\ mach'[m].snap >= mach[m].snap
    BY <1>5, <1>7, <2>1, <2>2
  <2> DEFINE D == {e \in {"cluster", "ops", "snap", "left"} : mach'[m][e] # mach[m][e]}
  <2>5. D \in SUBSET {f}
    BY <1>6, <1>7, <2>1, <2>2
  <2> HIDE DEF D
  <2>6. IsFiniteSet({f}) /\ Cardinality({f}) = 1
    BY FS_Singleton
  <2>7. IsFiniteSet(D) /\ Cardinality(D) <= 1
    BY <2>5, <2>6, FS_Subset
  <2>8. Cardinality(D) \in Nat
    BY <2>7, FS_CardinalityType
  <2>9. ~(Cardinality(D) > 1)
    BY <2>7, <2>8
  <2> QED
    BY <1>11, <2>3, <2>4, <2>9 DEF Undoes, D
<1> QED
  BY <1>9, <1>10, <1>11

LEMMA PutKeeps ==
  ASSUME RecordsInv, NEW t \in Threads, Put(t)
  PROVE  RecordsInv'
<1> DEFINE G == GoodItems(mach, forgot)
           i == Held(t)
<1>1. forgot' = forgot /\ clusters' = clusters /\ UNCHANGED <<at, listed>>
  BY DEF Put, envVars
<1>2. thr[t] \in InvCall(G) /\ thr[t].todo # <<>> /\ clusters' \subseteq Clusters \cup {None}
  BY <1>1 DEF Put, AtItem, RecordsInv
<1>3. i \in G /\ i = thr[t].todo[1]
  BY <1>2, ListsKeep DEF Held
<1>4. CASE i.got.rev = mach[i.m].rev
  <2>1. /\ mach' \in [Machines -> InvRec]
        /\ \A m \in Machines : mach'[m] = mach[m] \/ mach'[m].rev > mach[m].rev
    BY <1>4, PutWrites
  <2>2. G \subseteq GoodItems(mach', forgot')
    BY <1>1, <2>1, RecordsMove
  <2> DEFINE call == [thr[t] EXCEPT !.todo = Tail(@)]
  <2>3. call \in InvCall(G)
    BY <1>2, ListsKeep
  <2>4. thr' = [thr EXCEPT ![t] = call]
    BY <1>4 DEF Put, Next1
  <2> HIDE DEF call, G
  <2>5. thr' \in [Threads -> InvCall(G)]
    BY <2>3, <2>4 DEF RecordsInv, G
  <2>6. \A s \in Threads : thr'[s] \in InvCall(GoodItems(mach', forgot'))
    BY <2>2, <2>5, CallGrows
  <2>7. thr' \in [Threads -> InvCall(GoodItems(mach', forgot'))]
    BY <2>5, <2>6
  <2> QED
    BY <1>1, <2>1, <2>7 DEF RecordsInv
<1>5. CASE i.got.rev # mach[i.m].rev
  <2>1. mach' = mach
    BY <1>5 DEF Put
  <2>2. CASE thr' = [thr EXCEPT ![t].todo[1] = [i EXCEPT !.got = Unread, !.att = i.att + 1]]
    <3> DEFINE n == i.att + 1
               x == [i EXCEPT !.got = Unread, !.att = n]
               call == [thr[t] EXCEPT !.todo = [@ EXCEPT ![1] = x]]
    <3>0. thr' = [thr EXCEPT ![t] = call]
      BY <1>3, <2>2
    <3> HIDE DEF i
    <3>1. i \in InvItem /\ Unread \in InvRec
      BY <1>3 DEF GoodItems, Unread, NoRec, InvRec
    <3>4. n \in Nat
      BY <3>1 DEF InvItem
    <3> HIDE DEF n
    <3>2. x \in InvItem /\ x.got = Unread
      BY <3>1, <3>4 DEF InvItem
    <3>3. x \in G
      BY <3>2 DEF GoodItems
    <3>5. call \in InvCall(G)
      BY <1>2, <3>3, ListsKeep
    <3> HIDE DEF call
    <3> QED
      BY <1>1, <1>2, <2>1, <3>0, <3>5, ThreadMoves
  <2>3. CASE Next1(t) \/ Abort(t)
    BY <1>1, <1>2, <2>1, <2>3, ThreadGoesOn
  <2> QED
    BY <1>5, <2>2, <2>3 DEF Put
<1> QED
  BY <1>4, <1>5

\* Filing a machine.
LEMMA FilingKeeps ==
  ASSUME RecordsInv, NEW t \in Threads, fileMachine(t) \/ adoptJoined(t)
  PROVE  RecordsInv'
<1> DEFINE G == GoodItems(mach, forgot)
           i == Held(t)
<1>1. /\ mach' = mach /\ forgot' = forgot /\ clusters' \subseteq Clusters \cup {None}
      /\ UNCHANGED <<at, listed>>
  BY DEF fileMachine, adoptJoined, recVars, envVars, RecordsInv
<1>2. thr[t] \in InvCall(G) /\ thr[t].todo # <<>>
  BY DEF fileMachine, adoptJoined, AtItem, RecordsInv
<1>3. i \in G /\ i = thr[t].todo[1] /\ thr[t].todo \in Seq(G)
  BY <1>2, ListsKeep DEF Held, InvCall
<1>4. i \in InvItem /\ i.m \in Machines /\ i.c \in Clusters \cup {None} /\ i.a \in Addrs \cup {None}
  BY <1>3 DEF GoodItems, InvItem
<1>5. CASE fileMachine(t)
  <2> DEFINE E == {Item("evict", n, i.c, i.a, mach[n]) : n \in evictAddressHolders(i.m, i.a)}
             todo == SetToSeq(E) \o <<Item("record", i.m, i.c, i.a, Unread)>> \o Tail(thr[t].todo)
             call == [thr[t] EXCEPT !.todo = todo]
  <2>1. thr' = [thr EXCEPT ![t] = call]
    BY <1>5 DEF fileMachine
  <2> HIDE DEF i
  <2>2. evictAddressHolders(i.m, i.a) \in SUBSET Machines
    BY DEF evictAddressHolders
  <2>3. IsFiniteSet(evictAddressHolders(i.m, i.a))
    BY <2>2, InventoryAssumption, FS_Subset
  <2>4. E \subseteq G
    <3>1. \A n \in Machines : Item("evict", n, i.c, i.a, mach[n]) \in G
      BY <1>4, NewItemIsGood DEF Writes
    <3> QED
      BY <2>2, <3>1
  <2>5. IsFiniteSet(E)
    <3> DEFINE P == evictAddressHolders(i.m, i.a)
               f == [n \in P |-> Item("evict", n, i.c, i.a, mach[n])]
    <3>1. DOMAIN f = P /\ f = [x \in P |-> f[x]] /\ {f[x] : x \in P} = E
      OBVIOUS
    <3> HIDE DEF f, P, E
    <3>2. IsFiniteSet(P)
      BY <2>3 DEF P
    <3> QED
      BY <3>1, <3>2, ImageIsFinite
  <2> HIDE DEF E
  <2>6. SetToSeq(E) \in Seq(G)
    BY <2>4, <2>5, SetToSeqIsOf, SeqGrows
  <2>7. Item("record", i.m, i.c, i.a, Unread) \in G
    BY <1>4, NewItemIsGood DEF Writes
  <2>8. Tail(thr[t].todo) \in Seq(G)
    BY <1>2, <1>3
  <2>9. todo \in Seq(G)
    <3> HIDE DEF G
    <3> QED
      BY <2>6, <2>7, <2>8
  <2> HIDE DEF todo
  <2>10. call \in InvCall(G)
    BY <1>2, <2>9 DEF InvCall
  <2> HIDE DEF call
  <2> QED
    BY <1>1, <2>1, <2>10, ThreadMoves
<1>6. CASE adoptJoined(t)
  <2>1. CASE Next1(t)
    BY <1>1, <1>2, <2>1, ThreadGoesOn
  <2>2. CASE thr' = [thr EXCEPT ![t].todo[1].k = "file"]
    <3> DEFINE x == [i EXCEPT !.k = "file"]
               call == [thr[t] EXCEPT !.todo = [@ EXCEPT ![1] = x]]
    <3>1. thr' = [thr EXCEPT ![t] = call]
      BY <1>3, <2>2
    <3> HIDE DEF i
    <3>2. x \in InvItem /\ x.got = i.got /\ x.m = i.m
      BY <1>4 DEF InvItem
    <3>3. x \in G
      BY <1>3, <3>2 DEF GoodItems
    <3>4. call \in InvCall(G)
      BY <1>2, <3>3, ListsKeep
    <3> HIDE DEF call
    <3> QED
      BY <1>1, <3>1, <3>4, ThreadMoves
  <2> QED
    BY <1>6, <2>1, <2>2 DEF adoptJoined
<1> QED
  BY <1>5, <1>6

\* The other steps of a call.
LEMMA CallKeeps ==
  ASSUME RecordsInv, NEW t \in Threads,
         Returns(t) \/ PutSecrets(t) \/ PutCluster(t) \/ DeleteSecrets(t) \/ DeleteCluster(t)
  PROVE  RecordsInv' /\ mach' = mach
<1> DEFINE G == GoodItems(mach, forgot)
<1>1. thr[t] \in InvCall(G) /\ thr[t].todo \in Seq(G) /\ thr[t].c \in Clusters \cup {None}
  BY DEF RecordsInv, InvCall
<1>2. /\ mach' = mach /\ forgot' = forgot /\ UNCHANGED <<at, listed>>
      /\ clusters' \subseteq Clusters \cup {None}
  BY <1>1 DEF Returns, PutSecrets, PutCluster, DeleteSecrets, DeleteCluster, recVars, envVars, RecordsInv
<1>3. NoCall \in InvCall(G)
  BY DEF NoCall, InvCall
<1>4. \A p \in {"items", "put", "cluster", "secrets", "gone"} :
         /\ [thr[t] EXCEPT !.pc = p] \in InvCall(G)
         /\ \A s \in Seq(G) : [thr[t] EXCEPT !.pc = p, !.todo = s] \in InvCall(G)
  BY <1>1 DEF InvCall
<1>5. CASE Returns(t)
  <2>1. CASE Abort(t)
    BY <1>2, <2>1, ThreadGoesOn
  <2>2. CASE thr' = [thr EXCEPT ![t].pc = "secrets"]
    <3> DEFINE call == [thr[t] EXCEPT !.pc = "secrets"]
    <3>1. thr' = [thr EXCEPT ![t] = call] /\ call \in InvCall(G)
      BY <1>4, <2>2
    <3> HIDE DEF call
    <3> QED
      BY <1>2, <3>1, ThreadMoves
  <2> QED
    BY <1>2, <1>5, <2>1, <2>2 DEF Returns
<1>6. CASE PutSecrets(t)
  <2> DEFINE call == [thr[t] EXCEPT !.pc = "cluster"]
  <2>1. thr' = [thr EXCEPT ![t] = call] /\ call \in InvCall(G)
    BY <1>4, <1>6 DEF PutSecrets
  <2> HIDE DEF call
  <2> QED
    BY <1>2, <2>1, ThreadMoves
<1>7. CASE DeleteSecrets(t)
  <2> DEFINE call == [thr[t] EXCEPT !.pc = "gone"]
  <2>1. thr' = [thr EXCEPT ![t] = call] /\ call \in InvCall(G)
    BY <1>4, <1>7 DEF DeleteSecrets
  <2> HIDE DEF call
  <2> QED
    BY <1>2, <2>1, ThreadMoves
<1>8. CASE DeleteCluster(t)
  <2>1. Abort(t)
    BY <1>8 DEF DeleteCluster
  <2> QED
    BY <1>2, <2>1, ThreadGoesOn
<1>9. CASE PutCluster(t)
  <2> DEFINE E == otherMembers(thr[t].c, Held(t).m)
             s == thr[t].todo \o (IF thr[t].todo = <<>> THEN <<>> ELSE SetToSeq(E))
             call == [thr[t] EXCEPT !.pc = "items", !.todo = s]
  <2>1. thr' = [thr EXCEPT ![t] = call]
    BY <1>9 DEF PutCluster
  <2>2. E \subseteq G /\ IsFiniteSet(E)
    <3> DEFINE P == {b \in Addrs : at[b] \in listed \ {Held(t).m}}
               f == [a \in P |-> Item("file", at[a], thr[t].c, a, Unread)]
    <3>1. DOMAIN f = P /\ f = [x \in P |-> f[x]] /\ {f[x] : x \in P} = E
      BY DEF otherMembers
    <3>2. \A a \in P : f[a] \in G
      <4> SUFFICES ASSUME NEW a \in P PROVE f[a] \in G
        OBVIOUS
      <4>1. at[a] \in Machines /\ a \in Addrs
        BY DEF RecordsInv
      <4> QED
        BY <1>1, <4>1, NewItemIsGood
    <3>3. P \in SUBSET Addrs
      OBVIOUS
    <3> HIDE DEF f, P, E
    <3>4. IsFiniteSet(P)
      BY <3>3, InventoryAssumption, FS_Subset
    <3> QED
      BY <3>1, <3>2, <3>4, ImageIsFinite
  <2> HIDE DEF E
  <2>3. SetToSeq(E) \in Seq(G)
    BY <2>2, SetToSeqIsOf, SeqGrows
  <2>4. s \in Seq(G)
    <3> HIDE DEF G
    <3> QED
      BY <1>1, <2>3
  <2> HIDE DEF s
  <2>5. call \in InvCall(G)
    BY <1>4, <2>4
  <2> HIDE DEF call
  <2> QED
    BY <1>2, <2>1, <2>5, ThreadMoves
<1> QED
  BY <1>2, <1>5, <1>6, <1>7, <1>8, <1>9

\* A pass over the membership.
LEMMA SyncKeeps ==
  ASSUME RecordsInv, NEW t \in Threads, NEW c \in Clusters \cup {None}, syncCluster(t, c),
         mach' = mach, clusters' = clusters, UNCHANGED <<at, listed>>
  PROVE  RecordsInv'
<1> DEFINE G == GoodItems(mach, forgot)
           mine == {m \in Machines : Exists(m) /\ mach[m].cluster = c}
           call == [op |-> "sync", c |-> c, pc |-> "items",
                    todo |-> SetToSeq(Moved(c, mine)) \o SetToSeq(SyncItems(c, mine))]
<1>0. forgot' = forgot /\ clusters' \subseteq Clusters \cup {None}
  BY DEF syncCluster, RecordsInv
<1>1. CASE UNCHANGED thr
  <2>1. thr' = [thr EXCEPT ![t] = thr[t]] /\ thr[t] \in InvCall(G)
    BY <1>1 DEF RecordsInv
  <2> QED
    BY <1>0, <2>1, ThreadMoves
<1>2. CASE thr' = [thr EXCEPT ![t] = call]
  <2>1. mine \in SUBSET Machines
    OBVIOUS
  <2>2. Moved(c, mine) \subseteq G /\ IsFiniteSet(Moved(c, mine))
    <3> DEFINE P == {b \in Addrs : at[b] \in mine \cap listed /\ mach[at[b]].addr \notin AddrOf(at[b])}
               Q == {b \in Addrs : at[b] \in listed \ mine}
               f == [a \in P |-> Item("file", at[a], c, a, Unread)]
               g == [a \in Q |-> Item("adopt", at[a], c, a, Unread)]
    <3>1. /\ DOMAIN f = P /\ f = [x \in P |-> f[x]]
          /\ DOMAIN g = Q /\ g = [x \in Q |-> g[x]]
          /\ Moved(c, mine) = {f[x] : x \in P} \cup {g[x] : x \in Q}
      BY DEF Moved
    <3>2. \A a \in P : f[a] \in G
      <4> SUFFICES ASSUME NEW a \in P PROVE Item("file", at[a], c, a, Unread) \in G
        OBVIOUS
      <4>1. at[a] \in Machines /\ a \in Addrs
        BY <2>1
      <4> QED
        BY <4>1, NewItemIsGood
    <3>3. \A a \in Q : g[a] \in G
      <4> SUFFICES ASSUME NEW a \in Q PROVE Item("adopt", at[a], c, a, Unread) \in G
        OBVIOUS
      <4>1. at[a] \in Machines /\ a \in Addrs
        BY DEF RecordsInv
      <4> QED
        BY <4>1, NewItemIsGood
    <3>4. P \in SUBSET Addrs /\ Q \in SUBSET Addrs
      OBVIOUS
    <3> HIDE DEF f, g, P, Q, mine, G
    <3>5. IsFiniteSet(P) /\ IsFiniteSet(Q)
      BY <3>4, InventoryAssumption, FS_Subset
    <3>6. IsFiniteSet({f[x] : x \in P})
      BY <3>1, <3>5, ImageIsFinite
    <3>7. IsFiniteSet({g[x] : x \in Q})
      BY <3>1, <3>5, ImageIsFinite
    <3>8. IsFiniteSet({f[x] : x \in P} \cup {g[x] : x \in Q})
      BY <3>6, <3>7, FS_Union
    <3> QED
      BY <3>1, <3>2, <3>3, <3>8
  <2>3. SyncItems(c, mine) \subseteq G /\ IsFiniteSet(SyncItems(c, mine))
    <3> DEFINE P == {n \in mine \cap listed : mach[n].left}
               Q == {n \in mine \ listed : ~mach[n].left}
               f == [m \in P |-> Item("listed", m, c, None, mach[m])]
               g == [m \in Q |-> Item("left", m, c, None, mach[m])]
    <3>1. /\ DOMAIN f = P /\ f = [x \in P |-> f[x]]
          /\ DOMAIN g = Q /\ g = [x \in Q |-> g[x]]
          /\ SyncItems(c, mine) = {f[x] : x \in P} \cup {g[x] : x \in Q}
      BY DEF SyncItems
    <3>2. P \in SUBSET Machines /\ Q \in SUBSET Machines
      BY <2>1
    <3>3. \A m \in Machines : Item("listed", m, c, None, mach[m]) \in G
                              /\ Item("left", m, c, None, mach[m]) \in G
      BY NewItemIsGood DEF Writes
    <3>4. (\A m \in P : f[m] \in G) /\ (\A m \in Q : g[m] \in G)
      BY <3>2, <3>3
    <3> HIDE DEF f, g, P, Q, mine, G
    <3>5. IsFiniteSet(P) /\ IsFiniteSet(Q)
      BY <3>2, InventoryAssumption, FS_Subset
    <3>6. IsFiniteSet({f[x] : x \in P})
      BY <3>1, <3>5, ImageIsFinite
    <3>7. IsFiniteSet({g[x] : x \in Q})
      BY <3>1, <3>5, ImageIsFinite
    <3>8. IsFiniteSet({f[x] : x \in P} \cup {g[x] : x \in Q})
      BY <3>6, <3>7, FS_Union
    <3> QED
      BY <3>1, <3>4, <3>8
  <2> HIDE DEF mine
  <2>4. SetToSeq(Moved(c, mine)) \in Seq(G)
    BY <2>2, SetToSeqIsOf, SeqGrows
  <2>5. SetToSeq(SyncItems(c, mine)) \in Seq(G)
    BY <2>3, SetToSeqIsOf, SeqGrows
  <2>6. SetToSeq(Moved(c, mine)) \o SetToSeq(SyncItems(c, mine)) \in Seq(G)
    <3> HIDE DEF G
    <3> QED
      BY <2>4, <2>5
  <2>7. call \in InvCall(G)
    BY <2>6 DEF InvCall
  <2> HIDE DEF call
  <2> QED
    BY <1>0, <1>2, <2>7, ThreadMoves
<1> QED
  BY <1>1, <1>2 DEF syncCluster

\* A call begins.
LEMMA StartKeeps ==
  ASSUME RecordsInv, NEW t \in Callers,
         \/ \E m \in Machines : Refresh(t, m) \/ SetLabels(t, m) \/ SetMachineLock(t, m)
         \/ \E c \in Clusters :
              \/ Create(t, c) \/ ForgetCluster(t, c)
              \/ \E a \in Addrs : AddManual(t, c, a) \/ Import(t, c, a)
  PROVE  RecordsInv' /\ mach' = mach
<1> DEFINE G == GoodItems(mach, forgot)
<1>0. /\ mach' = mach /\ forgot' = forgot /\ UNCHANGED <<at, listed>>
      /\ clusters' \subseteq Clusters \cup {None} /\ t \in Threads
  BY DEF Refresh, SetLabels, SetMachineLock, Create, ForgetCluster, AddManual, Import,
     recVars, envVars, RecordsInv, Threads
<1>1. SUFFICES ASSUME NEW op \in {"refresh", "labels", "lock", "add", "import", "create", "forgetCluster"},
                      NEW c \in Clusters \cup {None}, NEW pc \in {"items", "put"}, NEW todo \in Seq(G),
                      StartCall(t, op, c, pc, todo)
               PROVE  RecordsInv'
  <2> HIDE DEF G
  <2> DEFINE Began == \E op \in {"refresh", "labels", "lock", "add", "import", "create", "forgetCluster"},
                          c \in Clusters \cup {None}, pc \in {"items", "put"}, todo \in Seq(G) :
                          StartCall(t, op, c, pc, todo)
  <2>0. \A x \in G : <<x>> \in Seq(G)
    OBVIOUS
  <2>1. ASSUME NEW m \in Machines, Refresh(t, m) \/ SetLabels(t, m) \/ SetMachineLock(t, m)
        PROVE  Began
    <3>1. /\ Item("snapshot", m, None, None, mach[m]) \in G /\ Item("labels", m, None, None, Unread) \in G
          /\ Item("lock", m, None, None, mach[m]) \in G
      BY NewItemIsGood DEF Writes, G
    <3>2. CASE Refresh(t, m)
      BY <2>0, <3>1, <3>2 DEF Refresh
    <3>3. CASE SetLabels(t, m)
      BY <2>0, <3>1, <3>3 DEF SetLabels
    <3>4. CASE SetMachineLock(t, m)
      BY <2>0, <3>1, <3>4 DEF SetMachineLock
    <3> QED
      BY <2>1, <3>2, <3>3, <3>4
  <2>2. ASSUME NEW c \in Clusters, NEW a \in Addrs, AddManual(t, c, a) \/ Import(t, c, a)
        PROVE  Began
    <3>1. at[a] \in Machines
      BY <2>2 DEF AddManual, Import, RecordsInv
    <3>2. Item("file", at[a], c, a, Unread) \in G
      BY <3>1, NewItemIsGood DEF G
    <3>3. CASE AddManual(t, c, a)
      BY <2>0, <3>2, <3>3 DEF AddManual
    <3>4. CASE Import(t, c, a)
      BY <2>0, <3>2, <3>4 DEF Import
    <3> QED
      BY <2>2, <3>3, <3>4
  <2>3. ASSUME NEW c \in Clusters, Create(t, c) PROVE Began
    <3>1. StartCall(t, "create", c, "put", <<>>) /\ <<>> \in Seq(G)
      BY <2>3 DEF Create
    <3> QED
      BY <3>1
  <2>4. ASSUME NEW c \in Clusters, ForgetCluster(t, c) PROVE Began
    <3> DEFINE P == {n \in Machines : Exists(n) /\ mach[n].cluster = c}
               f == [m \in P |-> Item("unassign", m, c, None, Unread)]
               E == {Item("unassign", m, c, None, Unread) : m \in P}
    <3>1. DOMAIN f = P /\ f = [x \in P |-> f[x]] /\ {f[x] : x \in P} = E
      OBVIOUS
    <3>2. P \in SUBSET Machines
      OBVIOUS
    <3>3. E \subseteq G
      <4>1. \A m \in Machines : Item("unassign", m, c, None, Unread) \in G
        BY NewItemIsGood DEF Writes, G
      <4> QED
        BY <3>2, <4>1
    <3>4. StartCall(t, "forgetCluster", c, "items", SetToSeq(E))
      BY <2>4 DEF ForgetCluster
    <3> HIDE DEF f, P, E
    <3>5. IsFiniteSet(P)
      BY <3>2, InventoryAssumption, FS_Subset
    <3>6. IsFiniteSet(E)
      BY <3>1, <3>5, ImageIsFinite
    <3>7. SetToSeq(E) \in Seq(G)
      BY <3>3, <3>6, SetToSeqIsOf, SeqGrows
    <3> QED
      BY <3>4, <3>7
  <2>5. Began
    BY <2>1, <2>2, <2>3, <2>4
  <2> QED
    BY <1>0, <2>5
<1> DEFINE call == [op |-> op, c |-> c, pc |-> pc, todo |-> todo]
<1>2. thr' = [thr EXCEPT ![t] = call]
  BY <1>1 DEF StartCall
<1>3. call \in InvCall(G)
  BY DEF InvCall
<1> HIDE DEF call
<1> QED
  BY <1>0, <1>2, <1>3, ThreadMoves

\* A record is deleted: what was read of it before says nothing any more.
LEMMA DeleteKeeps ==
  ASSUME RecordsInv, NEW t \in Callers, NEW m \in Machines, DeleteMachine(t, m)
  PROVE  RecordsInv' /\ \A n \in Machines \ forgot : ~Undoes(n)
<1> DEFINE G == GoodItems(mach, forgot)
<1>1. /\ mach' = [mach EXCEPT ![m] = NoRec] /\ forgot' = forgot \cup {m} /\ thr' = thr
      /\ clusters' = clusters /\ UNCHANGED <<at, listed>>
  BY DEF DeleteMachine, envVars
<1>2. NoRec \in InvRec /\ NoRec.rev = 0
  BY DEF NoRec, InvRec
<1>3. mach' \in [Machines -> InvRec] /\ \A n \in Machines : mach'[n] = IF n = m THEN NoRec ELSE mach[n]
  BY <1>1, <1>2 DEF RecordsInv
<1>4. G \subseteq GoodItems(mach', forgot')
  BY <1>1, <1>3, RecordsMove
<1> HIDE DEF G
<1>5. thr' \in [Threads -> InvCall(G)]
  BY <1>1 DEF RecordsInv, G
<1>6. \A s \in Threads : thr'[s] \in InvCall(GoodItems(mach', forgot'))
  BY <1>4, <1>5, CallGrows
<1>7. thr' \in [Threads -> InvCall(GoodItems(mach', forgot'))]
  BY <1>5, <1>6
<1>8. RecordsInv'
  BY <1>1, <1>3, <1>7 DEF RecordsInv
<1>9. \A n \in Machines : ~Undoes(n)
  BY <1>2, <1>3 DEF Undoes
<1> QED
  BY <1>8, <1>9

LEMMA WorldKeepsRecords ==
  ASSUME RecordsInv, InventoryCrash \/ NodeMoves \/ MemberListChanges
  PROVE  RecordsInv' /\ mach' = mach
<1> DEFINE G == GoodItems(mach, forgot)
<1>1. mach' = mach /\ forgot' = forgot /\ clusters' = clusters
  BY DEF InventoryCrash, NodeMoves, MemberListChanges, recVars
<1>2. at' \in [Addrs -> Machines \cup {None}]
  <2>1. CASE UNCHANGED at
    BY <2>1 DEF RecordsInv
  <2>2. CASE NodeMoves
    <3>1. PICK m \in Machines, a \in Addrs :
            at' = [b \in Addrs |-> IF b = a THEN (IF at[a] = m THEN None ELSE m)
                                   ELSE IF at[b] = m THEN None ELSE at[b]]
      BY <2>2 DEF NodeMoves
    <3> QED
      BY <3>1 DEF RecordsInv
  <2> QED
    BY <2>1, <2>2 DEF InventoryCrash, MemberListChanges
<1>3. listed' \subseteq Machines
  <2>1. CASE UNCHANGED listed
    BY <2>1 DEF RecordsInv
  <2>2. CASE MemberListChanges
    <3>1. PICK m \in Machines : listed' = IF m \in listed THEN listed \ {m} ELSE listed \cup {m}
      BY <2>2 DEF MemberListChanges
    <3> QED
      BY <3>1 DEF RecordsInv
  <2> QED
    BY <2>1, <2>2 DEF InventoryCrash, NodeMoves
<1>4. thr' \in [Threads -> InvCall(G)]
  <2>1. CASE UNCHANGED thr
    BY <2>1 DEF RecordsInv
  <2>2. CASE InventoryCrash
    <3>1. thr' = [t \in Threads |-> NoCall]
      BY <2>2 DEF InventoryCrash
    <3>2. NoCall \in InvCall(G)
      BY DEF NoCall, InvCall
    <3> QED
      BY <3>1, <3>2
  <2> QED
    BY <2>1, <2>2 DEF NodeMoves, MemberListChanges
<1>5. thr' \in [Threads -> InvCall(GoodItems(mach', forgot'))]
  BY <1>1, <1>4
<1> QED
  BY <1>1, <1>2, <1>3, <1>5 DEF RecordsInv

LEMMA RecordsStart == InventoryInit => RecordsInv
<1> SUFFICES ASSUME InventoryInit PROVE RecordsInv
  OBVIOUS
<1> DEFINE home == CHOOSE f \in [Machines -> Addrs] : \A m, n \in Machines : m # n => f[m] # f[n]
<1>1. home \in [Machines -> Addrs]
  BY InventoryAssumption
<1>2. PICK recorded \in SUBSET Machines :
        /\ at = [a \in Addrs |-> IF \E m \in Machines : home[m] = a
                                 THEN CHOOSE m \in Machines : home[m] = a ELSE None]
        /\ mach = [m \in Machines |->
              IF m \in recorded THEN [NoRec EXCEPT !.rev = 1, !.cluster = First, !.addr = home[m]] ELSE NoRec]
  BY DEF InventoryInit
<1> HIDE DEF home
<1>3. at \in [Addrs -> Machines \cup {None}]
  BY <1>2
<1>4. First \in Clusters
  BY InventoryAssumption
<1>5. mach \in [Machines -> InvRec]
  <2>1. NoRec \in InvRec
    BY DEF NoRec, InvRec
  <2>2. \A m \in Machines : [NoRec EXCEPT !.rev = 1, !.cluster = First, !.addr = home[m]] \in InvRec
    BY <1>1, <1>4 DEF NoRec, InvRec
  <2> QED
    BY <1>2, <2>1, <2>2
<1>6. NoCall \in InvCall(GoodItems(mach, forgot))
  BY DEF NoCall, InvCall
<1>7. thr = [t \in Threads |-> NoCall] /\ clusters = {First} /\ listed = Machines
  BY DEF InventoryInit
<1>8. thr \in [Threads -> InvCall(GoodItems(mach, forgot))]
  BY <1>6, <1>7
<1> QED
  BY <1>3, <1>4, <1>5, <1>7, <1>8 DEF RecordsInv

\* Every step: the invariant, and that nothing is taken back.
LEMMA RecordsStep ==
  ASSUME RecordsInv, [InventoryNext]_invVars
  PROVE  RecordsInv' /\ \A m \in Machines \ forgot : ~Undoes(m)
<1>0. ASSUME mach' = mach PROVE \A m \in Machines \ forgot : ~Undoes(m)
  BY <1>0 DEF Undoes
<1>1. ASSUME NEW t \in Threads, ThreadStep(t)
      PROVE  RecordsInv' /\ \A m \in Machines \ forgot : ~Undoes(m)
  <2>1. CASE Put(t)
    <3>1. CASE Held(t).got.rev = mach[Held(t).m].rev
      BY <2>1, <3>1, PutWrites, PutKeeps
    <3>2. CASE Held(t).got.rev # mach[Held(t).m].rev
      <4>1. mach' = mach
        BY <2>1, <3>2 DEF Put
      <4> QED
        BY <1>0, <2>1, <4>1, PutKeeps
    <3> QED
      BY <3>1, <3>2
  <2>2. CASE Get(t)
    BY <1>0, <2>2, GetKeeps DEF Get, recVars
  <2>3. CASE fileMachine(t) \/ adoptJoined(t)
    <3>1. mach' = mach
      BY <2>3 DEF fileMachine, adoptJoined, recVars
    <3> QED
      BY <1>0, <2>3, <3>1, FilingKeeps
  <2>4. CASE Returns(t) \/ PutSecrets(t) \/ PutCluster(t) \/ DeleteSecrets(t) \/ DeleteCluster(t)
    BY <1>0, <2>4, CallKeeps
  <2> QED
    BY <1>1, <2>1, <2>2, <2>3, <2>4 DEF ThreadStep
<1>2. CASE SyncMembership
  <2>1. PICK c \in clusters : syncCluster("loop", c)
    BY <1>2 DEF SyncMembership
  <2>2. mach' = mach /\ clusters' = clusters /\ UNCHANGED <<at, listed>>
    BY <1>2 DEF SyncMembership, recVars, envVars
  <2>3. c \in Clusters \cup {None} /\ "loop" \in Threads
    BY DEF RecordsInv, Threads
  <2> QED
    BY <1>0, <2>1, <2>2, <2>3, SyncKeeps
<1>3. ASSUME NEW t \in Callers, NEW c \in Clusters, ReadMembersLive(t, c)
      PROVE  RecordsInv' /\ \A m \in Machines \ forgot : ~Undoes(m)
  <2>1. syncCluster(t, c) /\ mach' = mach /\ clusters' = clusters /\ UNCHANGED <<at, listed>>
    BY <1>3 DEF ReadMembersLive, recVars, envVars
  <2>2. t \in Threads /\ c \in Clusters \cup {None}
    BY DEF Threads
  <2> QED
    BY <1>0, <2>1, <2>2, SyncKeeps
<1>4. ASSUME NEW t \in Callers, NEW m \in Machines,
             Refresh(t, m) \/ SetLabels(t, m) \/ SetMachineLock(t, m)
      PROVE  RecordsInv' /\ \A n \in Machines \ forgot : ~Undoes(n)
  BY <1>0, <1>4, StartKeeps
<1>5. ASSUME NEW t \in Callers, NEW c \in Clusters,
             \/ Create(t, c) \/ ForgetCluster(t, c)
             \/ \E a \in Addrs : AddManual(t, c, a) \/ Import(t, c, a)
      PROVE  RecordsInv' /\ \A n \in Machines \ forgot : ~Undoes(n)
  BY <1>0, <1>5, StartKeeps
<1>6. CASE InventoryCrash \/ NodeMoves \/ MemberListChanges
  BY <1>0, <1>6, WorldKeepsRecords
<1>7. CASE UNCHANGED invVars
  <2>1. /\ mach' = mach /\ clusters' = clusters /\ at' = at /\ listed' = listed /\ thr' = thr
        /\ forgot' = forgot
    BY <1>7 DEF invVars
  <2> QED
    BY <1>0, <2>1 DEF RecordsInv
<1> QED
  BY <1>1, <1>2, <1>3, <1>4, <1>5, <1>6, <1>7, DeleteKeeps DEF InventoryNext

\* For any number of machines, clusters, addresses and calls, and whatever dies in between:
\* a write of a record changes what its writer owns, and takes back nothing that another one
\* has put there since it read the record, as long as nobody deletes it.
THEOREM NobodyIsUndone == InventorySpec => NoSilentUndo
<1>1. RecordsInv /\ [InventoryNext]_invVars
        => RecordsInv' /\ [\A m \in Machines \ forgot : ~Undoes(m)]_invVars
  BY RecordsStep
<1> QED
  BY <1>1, RecordsStart, PTL DEF InventorySpec, NoSilentUndo
=============================================================================
