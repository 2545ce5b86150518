------------------------------ MODULE MCCluster -----------------------------
(***************************************************************************)
(* Small instances of everything the daemon does to a running cluster: its *)
(* power (ClusterPower), the power of one application (AppPower), a drain  *)
(* (Drain), a pasted manifest (Manifests), the reading and the sweeping of *)
(* its Kubernetes objects (KubeView), upgrades and the removal of a node   *)
(* (Upgrade), etcd snapshots (Backups), provisioning (Provision) and a new *)
(* authority (RotateCA).                                                   *)
(*                                                                         *)
(* The job engine lets one job of a cluster run at a time                  *)
(* (OneJobPerCluster of JobEngine), and what is not a job writes objects   *)
(* of its own, so the state graph holds the behaviours of each beside the  *)
(* others idle: turn says which one moves.                                 *)
(***************************************************************************)
EXTENDS ClusterPower, AppPower, Drain, Manifests, KubeView, Upgrade, Backups, Provision, RotateCA

CONSTANTS plane, worker

OnePlaneOneWorker == <<plane, worker>>
TwoComponents == <<"apiserver", "scheduler">>
MCProvRequests ==
    {[addr |-> m, uuid |-> m, cp |-> TRUE, pinned |-> b] : m \in {"a", "b"}, b \in BOOLEAN}
    \cup {[addr |-> "w", uuid |-> "w", cp |-> FALSE, pinned |-> TRUE]}

\* What runs in the cluster, and what makes and changes the machines under it.
Workloads == {"power", "app", "drain", "manifest", "view", "sweep"}
Machinery == {"upgrade", "backup", "provision", "rotate"}

VARIABLE turn
mcVars == <<vars, appVars, drainVars, manifestVars, kubeVars, upgradeVars, backupVars,
            provVars, rotVars, turn>>

NoApp ==
    /\ app = [kind |-> "none", disabled |-> FALSE] /\ appLocked = FALSE /\ appRunning = 0
    /\ verb = <<>> /\ verbs = 0 /\ ran = 0 /\ overtaken = TRUE

NoDrain ==
    /\ pod = <<>> /\ budgets = {} /\ cordoned = FALSE /\ drain = [at |-> "failed"]
    /\ drainStops = 0

MCInit ==
    /\ turn \in Workloads \cup Machinery
    /\ Init /\ ManifestInit /\ KubeInit /\ BackupInit /\ ProvInit /\ RotInit
    /\ IF turn = "app" THEN AppInit ELSE NoApp
    /\ IF turn = "drain" THEN DrainInit ELSE NoDrain
    /\ UpgradeInit /\ (turn # "upgrade" => Voters = CPs)

MCNext ==
    \/ /\ turn = "power" /\ Next
       /\ UNCHANGED <<appVars, drainVars, manifestVars, kubeVars, upgradeVars,
                      backupVars, provVars, rotVars, turn>>
    \/ /\ turn = "app" /\ AppNext
       /\ UNCHANGED <<vars, drainVars, manifestVars, kubeVars, upgradeVars, backupVars,
                      provVars, rotVars, turn>>
    \/ /\ turn = "drain" /\ DrainNext
       /\ UNCHANGED <<vars, appVars, manifestVars, kubeVars, upgradeVars, backupVars,
                      provVars, rotVars, turn>>
    \/ /\ turn = "manifest" /\ ManifestNext
       /\ UNCHANGED <<vars, appVars, drainVars, kubeVars, upgradeVars, backupVars,
                      provVars, rotVars, turn>>
    \/ /\ turn = "view" /\ (Apps \/ ClusterDoes \/ TimePasses)
       /\ UNCHANGED <<vars, appVars, drainVars, manifestVars, upgradeVars, backupVars,
                      provVars, rotVars, turn>>
    \/ /\ turn = "sweep" /\ (Sweeping \/ ClusterDoes \/ TimePasses)
       /\ UNCHANGED <<vars, appVars, drainVars, manifestVars, upgradeVars, backupVars,
                      provVars, rotVars, turn>>
    \/ /\ turn = "upgrade" /\ UpgradeNext
       /\ UNCHANGED <<vars, appVars, drainVars, manifestVars, kubeVars, backupVars,
                      provVars, rotVars, turn>>
    \/ /\ turn = "backup" /\ BackupNext
       /\ UNCHANGED <<vars, appVars, drainVars, manifestVars, kubeVars, upgradeVars,
                      provVars, rotVars, turn>>
    \/ /\ turn = "provision" /\ ProvNext
       /\ UNCHANGED <<vars, appVars, drainVars, manifestVars, kubeVars, upgradeVars,
                      backupVars, rotVars, turn>>
    \/ /\ turn = "rotate" /\ RotNext
       /\ UNCHANGED <<vars, appVars, drainVars, manifestVars, kubeVars, upgradeVars,
                      backupVars, provVars, turn>>

WorkloadInit == turn \in Workloads /\ MCInit
MachineInit == turn \in Machinery /\ MCInit
ProvisionInit == turn = "provision" /\ MCInit

WorkloadSpec == WorkloadInit /\ [][MCNext]_mcVars
MachineSpec == MachineInit /\ [][MCNext]_mcVars
ProvisionSpec == ProvisionInit /\ [][MCNext]_mcVars
=============================================================================
