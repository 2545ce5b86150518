------------------------------- MODULE SimNode -------------------------------
(***************************************************************************)
(* The simulated Talos machines of a test cluster (internal/talossim) and  *)
(* the etcd ring they share.  Every handler asks whether the machine is    *)
(* up, under the node's lock, gives the lock back, and takes it again for  *)
(* what it does: a machine may be switched off, wiped or bootstrapped in   *)
(* between.  The ring has a lock of its own, held inside the node's.  Boot  *)
(* times and call counters are left out.                                   *)
(***************************************************************************)
EXTENDS Naturals, FiniteSets

CONSTANTS
  SimHosts,     \* the machines; a machine is its hostname
  SimCallers,   \* calls that may be in flight together
  SimVersions,  \* versions an installer image can carry; 0 is a digest, none
  MaxSimCalls   \* bound: calls begun

ASSUME SimNodeAssumption ==
  SimVersions \subseteq Nat /\ MaxSimCalls \in Nat

VARIABLES
  sim,       \* each machine's nodeState
  ring,      \* hosts of the EtcdRing
  simCall,   \* each caller: the call past its up check, or none
  simCalls,  \* calls begun
  simUndo    \* per machine: what second_bootstrap_already_exists puts back

simVars == <<sim, ring, simCall, simCalls, simUndo>>

NoSimCall == [op |-> "none"]

newNodeState ==
  [boot |-> FALSE, off |-> FALSE, version |-> 1, images |-> {}, snap |-> "none",
   recovered |-> "none", applied |-> 0, removed |-> {}, stayDown |-> FALSE]

SimInit ==
  /\ sim = [h \in SimHosts |-> newNodeState]
  /\ ring = {}
  /\ simCall = [c \in SimCallers |-> NoSimCall]
  /\ simCalls = 0
  /\ simUndo = [h \in SimHosts |-> "none"]

join(h) == ring' = ring \union {h}
leave(h) == ring' = ring \ {h}

(***************************************************************************)
(* The gate every handler opens with, and the requests that reach it.      *)
(***************************************************************************)
up(h) == ~sim[h].off

Ops ==
  [op : {"Bootstrap"}, recover : BOOLEAN, skipHash : BOOLEAN]
  \union [op : {"Reset"}, reboot : BOOLEAN]
  \union [op : {"Reboot", "Shutdown", "EtcdLeaveCluster", "ApplyConfiguration"}]
  \union [op : {"EtcdRecover"}, snap : {"whole", "broken"}]
  \union [op : {"ImagePull", "Upgrade"}, image : SimVersions]
  \union [op : {"EtcdRemoveMemberByID"}, member : SimHosts]

(* A call arrives; one that finds the machine off is refused there.  Etcd's  *)
(* own calls also read, in a second step under the lock, whether etcd runs.  *)
Arrive(c, h, r) ==
  /\ simCall[c] = NoSimCall /\ simCalls < MaxSimCalls
  /\ up(h)
  /\ simCall' = [simCall EXCEPT ![c] = [op |-> "up", host |-> h, req |-> r]]
  /\ simCalls' = simCalls + 1
  /\ UNCHANGED <<sim, ring, simUndo>>

(* The handler's own reading of the machine; FALSE ends the call. *)
versionFromInstaller(image) == image # 0
Admits(h, r) ==
  CASE r.op \in {"EtcdLeaveCluster"} -> sim[h].boot
    [] r.op = "EtcdRemoveMemberByID" -> sim[h].boot /\ r.member # h
    [] r.op = "ImagePull" -> versionFromInstaller(r.image)
    [] r.op = "Upgrade" -> r.image \in sim[h].images /\ versionFromInstaller(r.image)
    [] OTHER -> TRUE

SimChecks(c) ==
  /\ simCall[c].op = "up"
  /\ simCall' = [simCall EXCEPT ![c] =
       IF Admits(@.host, @.req) THEN [@ EXCEPT !.op = "act"] ELSE NoSimCall]
  /\ UNCHANGED <<sim, ring, simCalls, simUndo>>

(***************************************************************************)
(* What the handlers do, each under the node's lock.                       *)
(***************************************************************************)
bootstrap(h) ==
  IF sim[h].boot THEN UNCHANGED <<sim, ring>>
  ELSE sim' = [sim EXCEPT ![h].boot = TRUE] /\ join(h)

\* Recovery starts etcd on this machine; it does not enter it in the ring.
recoverBootstrap(h, skipHash) ==
  /\ ring' = ring
  /\ sim' = IF sim[h].snap = "whole" \/ (skipHash /\ sim[h].snap = "broken")
            THEN [sim EXCEPT ![h].boot = TRUE, ![h].recovered = sim[h].snap] ELSE sim

acceptSnapshot(h, s) == sim' = [sim EXCEPT ![h].snap = s] /\ ring' = ring

(* A reboot is over at once, unless the test told the machine to stay down. *)
reboot(h) == sim' = [sim EXCEPT ![h].off = @ \/ sim[h].stayDown] /\ ring' = ring

shutdown(h) == sim' = [sim EXCEPT ![h].off = TRUE] /\ ring' = ring

\* Mutant: the machine is wiped and stays in the ring.
resetStaysMember(h, again) ==
  /\ sim' = [sim EXCEPT ![h].boot = FALSE, ![h].applied = 0, ![h].off = @ \/ ~again]
  /\ ring' = ring

reset(h, again) ==
  /\ sim' = [sim EXCEPT ![h].boot = FALSE, ![h].applied = 0, ![h].off = @ \/ ~again]
  /\ leave(h)

leaveEtcd(h) == sim' = [sim EXCEPT ![h].boot = FALSE] /\ leave(h)
applyConfig(h) == sim' = [sim EXCEPT ![h].applied = 1] /\ ring' = ring
pullImage(h, image) == sim' = [sim EXCEPT ![h].images = @ \union {image}] /\ ring' = ring
upgradeTo(h, image) == sim' = [sim EXCEPT ![h].version = image] /\ ring' = ring
removeMember(h, m) == sim' = [sim EXCEPT ![h].removed = @ \union {m}] /\ ring' = ring

(* The handlers: one call's effect, after its checks. *)
BootstrapRPC(h, r) ==
  r.op = "Bootstrap" /\ IF r.recover THEN recoverBootstrap(h, r.skipHash) ELSE bootstrap(h)
SimApplyConfiguration(h, r) == r.op = "ApplyConfiguration" /\ applyConfig(h)
SimReboot(h, r) == r.op = "Reboot" /\ reboot(h)
Shutdown(h, r) == r.op = "Shutdown" /\ shutdown(h)
Reset(h, r) == r.op = "Reset" /\ reset(h, r.reboot)
EtcdLeaveCluster(h, r) == r.op = "EtcdLeaveCluster" /\ leaveEtcd(h)
EtcdRecover(h, r) == r.op = "EtcdRecover" /\ acceptSnapshot(h, r.snap)
EtcdRemoveMemberByID(h, r) == r.op = "EtcdRemoveMemberByID" /\ removeMember(h, r.member)
ImagePull(h, r) == r.op = "ImagePull" /\ pullImage(h, r.image)
\* A refused upgrade answers a nonzero exit code and changes nothing.
UpgradeRPC(h, r) == r.op = "Upgrade" /\ (upgradeTo(h, r.image) \/ UNCHANGED <<sim, ring>>)

Handles(c) ==
  LET h == simCall[c].host
      r == simCall[c].req
  IN /\ simCall[c].op = "act"
     /\ \/ BootstrapRPC(h, r) \/ SimApplyConfiguration(h, r) \/ SimReboot(h, r) \/ Shutdown(h, r)
        \/ Reset(h, r) \/ EtcdLeaveCluster(h, r) \/ EtcdRecover(h, r)
        \/ EtcdRemoveMemberByID(h, r) \/ ImagePull(h, r) \/ UpgradeRPC(h, r)
     /\ simCall' = [simCall EXCEPT ![c] = NoSimCall]
     /\ UNCHANGED <<simCalls, simUndo>>

(***************************************************************************)
(* What a test does to a machine from outside.                             *)
(***************************************************************************)
powerOn(h) ==
  /\ sim[h].off
  /\ sim' = [sim EXCEPT ![h].off = FALSE]
  /\ UNCHANGED <<ring, simCall, simCalls, simUndo>>

setStayDown(h) ==
  /\ sim' = [sim EXCEPT ![h].stayDown = ~@]
  /\ UNCHANGED <<ring, simCall, simCalls, simUndo>>

setBootstrapped(h, v) ==
  sim' = [sim EXCEPT ![h].boot = v] /\ IF v THEN join(h) ELSE leave(h)

startSecondBootstrapAlreadyExists(h) ==
  /\ simUndo[h] = "none"
  /\ simUndo' = [simUndo EXCEPT ![h] = IF sim[h].boot THEN "was" ELSE "wasNot"]
  /\ setBootstrapped(h, TRUE)
  /\ UNCHANGED <<simCall, simCalls>>

ClearSecondBootstrap(h) ==
  /\ simUndo[h] # "none"
  /\ simUndo' = [simUndo EXCEPT ![h] = "none"]
  /\ setBootstrapped(h, simUndo[h] = "was")
  /\ UNCHANGED <<simCall, simCalls>>

SimNext ==
  \/ \E c \in SimCallers :
       (\E h \in SimHosts, r \in Ops : Arrive(c, h, r)) \/ SimChecks(c) \/ Handles(c)
  \/ \E h \in SimHosts :
       \/ powerOn(h) \/ setStayDown(h)
       \/ startSecondBootstrapAlreadyExists(h) \/ ClearSecondBootstrap(h)

SimSpec == SimInit /\ [][SimNext]_simVars

(***************************************************************************)
(* What the reading handlers answer.                                       *)
(***************************************************************************)
EtcdMemberList(h) == IF sim[h].boot THEN ring ELSE {}
ServiceList(h, k8sDown) ==
  {"machined", "apid"} \union (IF sim[h].boot THEN {"etcd"} ELSE {})
    \union (IF sim[h].boot /\ ~k8sDown THEN {"kubelet"} ELSE {})
EtcdSnapshot(h, quorum) == up(h) /\ sim[h].boot /\ quorum

(* Every host the shared ring names is a machine that runs etcd and would  *)
(* say so: whatever wipes, leaves, bootstraps and injected faults overlap, *)
(* no machine that lost its etcd data is still answered as a member by     *)
(* another one's EtcdMemberList, and its service list shows etcd.          *)
MembersRunEtcd ==
  \A h \in SimHosts, p \in SimHosts :
    p \in EtcdMemberList(h) => "etcd" \in ServiceList(p, FALSE)

=============================================================================
