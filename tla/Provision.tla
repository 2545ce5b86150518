----------------------------- MODULE Provision -----------------------------
(***************************************************************************)
(* Turning a machine in maintenance mode into a node of one cluster: the   *)
(* job of internal/provision/job.go, the checks of plan.go, the record and *)
(* the four mechanisms of bootstrap.go, and the recovery of an attempt     *)
(* nobody knows the end of.                                                *)
(*                                                                         *)
(* A machine is reached by its address, and an address may move from one   *)
(* machine to another between two calls.  The configuration written is     *)
(* reduced to the role.  A node asked to bootstrap forms an etcd of its    *)
(* own; a control-plane node that is not asked joins a running one, and    *)
(* answers for its members only then.  The record of an attempt is a file: *)
(* created exclusively, truncated and rewritten with its outcome, and torn *)
(* when the process dies in between.                                       *)
(***************************************************************************)
EXTENDS Naturals, FiniteSets

CONSTANTS
    PMachines,     \* machines
    ProvRequests,  \* what an operator may ask: addr, uuid, control_plane, fingerprint given
    MaxProvJobs,   \* jobs submitted
    MaxProvFaults  \* lost answers, restarts, addresses that move

ASSUME ProvAssumption ==
    /\ ProvRequests \subseteq [addr : PMachines, uuid : PMachines,
                               cp : BOOLEAN, pinned : BOOLEAN]
    /\ MaxProvJobs \in Nat /\ MaxProvFaults \in Nat

VARIABLES
    dhcp,      \* [address -> the machine that answers there]
    pmode,     \* [PMachines -> "maintenance", "installing" or "node"]
    prole,     \* [PMachines -> configured as a control plane]
    petcd,     \* [PMachines -> "none", "starting" or "up"]
    formed,    \* machines that formed an etcd of their own
    intent,    \* the bootstrap record of the cluster
    pjob,      \* the provisioning job: its request, its step, where in the step
    recorded,  \* machines of the cluster in the inventory
    open,      \* the machine of a Bootstrap call whose outcome nobody has written down
    provJobs, provFaults

provVars == <<dhcp, pmode, prole, petcd, formed, intent, pjob, recorded, open,
              provJobs, provFaults>>
machineVars == <<dhcp, pmode, prole, petcd, formed>>

NoAddress == "nobody"
NoBootIntent == [st |-> "absent", m |-> NoAddress]
NoProvJob == [st |-> "none", req |-> [addr |-> NoAddress, uuid |-> NoAddress, cp |-> FALSE, pinned |-> FALSE],
              at |-> 1, pc |-> "pending", got |-> "none"]

\* An address carries the name of the machine that had it when the plan was made.
ProvInit ==
    /\ dhcp = [m \in PMachines |-> m]
    /\ pmode = [m \in PMachines |-> "maintenance"]
    /\ prole = [m \in PMachines |-> FALSE]
    /\ petcd = [m \in PMachines |-> "none"]
    /\ formed = {}
    /\ intent = NoBootIntent /\ pjob = NoProvJob
    /\ recorded = {} /\ open = NoAddress
    /\ provJobs = 0 /\ provFaults = 0

ProvFault == provFaults < MaxProvFaults /\ provFaults' = provFaults + 1
Req == pjob.req
MachineThere == dhcp[Req.addr]
InProv(at, pc) == pjob.st = "running" /\ pjob.at = at /\ pjob.pc = pc
ProvTo(pc) == pjob' = [pjob EXCEPT !.pc = pc]
ProvFailed == pjob' = [pjob EXCEPT !.st = "failed"]
ProvStepDone ==
    pjob' = IF pjob.at = 4 THEN [pjob EXCEPT !.st = "succeeded"]
            ELSE [pjob EXCEPT !.at = @ + 1, !.pc = "pending"]
----------------------------------------------------------------------------
(***************************************************************************)
(* Plan, and the first three steps.                                        *)
(***************************************************************************)
ControlPlaneCount == Cardinality({m \in recorded : prole[m]})
PendingIntent == intent.st = "open"

\* Plan refuses a first control plane while an attempt is open.
ProvisionPlan(r) == ~(r.cp /\ ControlPlaneCount = 0 /\ PendingIntent)

\* provisionApply: the job takes the cluster's lease.
provisionApply(r) ==
    /\ pjob.st # "running" /\ provJobs < MaxProvJobs
    /\ ProvisionPlan(r)
    /\ pjob' = [NoProvJob EXCEPT !.st = "running", !.req = r]
    /\ provJobs' = provJobs + 1
    /\ UNCHANGED <<machineVars, intent, recorded, open, provFaults>>

BeginProvStep ==
    /\ pjob.st = "running" /\ pjob.pc = "pending" /\ ProvTo("begun")
    /\ UNCHANGED <<machineVars, intent, recorded, open, provJobs, provFaults>>

Maintenance(m) == pmode[m] = "maintenance" /\ (Req.pinned => m = Req.uuid)
VerifyMachine == Maintenance(MachineThere) /\ MachineThere = Req.uuid

ConfirmMachine ==
    /\ InProv(1, "begun")
    /\ IF VerifyMachine THEN ProvStepDone ELSE ProvFailed
    /\ UNCHANGED <<machineVars, intent, recorded, open, provJobs, provFaults>>

VerifyAgain ==
    /\ InProv(2, "begun")
    /\ IF VerifyMachine THEN ProvTo("verified") ELSE ProvFailed
    /\ UNCHANGED <<machineVars, intent, recorded, open, provJobs, provFaults>>

\* What is written, reduced to what the later steps tell apart.
buildConfig(r) == r.cp

\* A connection of its own: the address is looked up again.
ApplyConfiguration ==
    /\ InProv(2, "verified")
    /\ IF Maintenance(MachineThere)
       THEN /\ pmode' = [pmode EXCEPT ![MachineThere] = "installing"]
            /\ prole' = [prole EXCEPT ![MachineThere] = buildConfig(Req)]
            /\ ProvStepDone \/ ProvFailed
       ELSE ProvFailed /\ UNCHANGED <<pmode, prole>>
    /\ UNCHANGED <<dhcp, petcd, formed, intent, recorded, open, provJobs, provFaults>>

Probe ==
    CASE pmode[MachineThere] = "node" -> "back"
      [] Maintenance(MachineThere) -> "still-in-maintenance"
      [] OTHER -> "installing"

\* What answers as a node is recorded; still in maintenance is a failure;
\* anything else is waited out.
WaitForReturn ==
    /\ InProv(3, "begun")
    /\ \/ Probe = "back" /\ recorded' = recorded \cup {MachineThere} /\ ProvStepDone
       \/ Probe = "still-in-maintenance" /\ ProvFailed /\ UNCHANGED recorded
    /\ UNCHANGED <<machineVars, intent, open, provJobs, provFaults>>
----------------------------------------------------------------------------
(***************************************************************************)
(* Bootstrap: the record of an earlier attempt, the members, the           *)
(* exclusive record, the call, the outcome.                                *)
(***************************************************************************)
NothingToBootstrap ==
    /\ InProv(4, "begun") /\ ~Req.cp /\ ProvStepDone
    /\ UNCHANGED <<machineVars, intent, recorded, open, provJobs, provFaults>>

readIntentTrusting ==
    /\ InProv(4, "begun") /\ Req.cp
    /\ \/ /\ intent.st \in {"succeeded", "already-exists"} /\ ProvStepDone
          /\ UNCHANGED intent
       \/ /\ intent.st \notin {"succeeded", "already-exists"}
          /\ intent' = NoBootIntent /\ ProvTo("members")
    /\ UNCHANGED <<machineVars, recorded, open, provJobs, provFaults>>

\* An attempt without an outcome, or one that cannot be read, ends here.
readIntent ==
    /\ InProv(4, "begun") /\ Req.cp
    /\ \/ intent.st \in {"open", "torn"} /\ ProvFailed /\ UNCHANGED intent
       \/ intent.st \in {"succeeded", "already-exists"} /\ ProvStepDone /\ UNCHANGED intent
       \/ intent.st \in {"absent", "failed"} /\ intent' = NoBootIntent /\ ProvTo("members")
    /\ UNCHANGED <<machineVars, recorded, open, provJobs, provFaults>>

EtcdMemberList ==
    /\ InProv(4, "members")
    /\ IF petcd[MachineThere] = "up" THEN ProvStepDone ELSE ProvTo("create")
    /\ UNCHANGED <<machineVars, intent, recorded, open, provJobs, provFaults>>

\* O_CREAT|O_EXCL, then the content and its fsync.
CreateIntent ==
    /\ InProv(4, "create")
    /\ IF intent.st = "absent"
       THEN intent' = [st |-> "torn", m |-> MachineThere] /\ ProvTo("write")
       ELSE ProvFailed /\ UNCHANGED intent
    /\ UNCHANGED <<machineVars, recorded, open, provJobs, provFaults>>
writeIntentExclusive ==
    /\ InProv(4, "write")
    /\ intent' = [intent EXCEPT !.st = "open"] /\ ProvTo("call")
    /\ UNCHANGED <<machineVars, recorded, open, provJobs, provFaults>>

\* The call.  A node with an etcd refuses; any other error, a lost answer too,
\* is recorded as a failure.
BootstrapCall ==
    /\ InProv(4, "call") /\ pmode[MachineThere] = "node"
    /\ open' = MachineThere
    /\ IF petcd[MachineThere] = "none"
       THEN /\ petcd' = [petcd EXCEPT ![MachineThere] = "starting"]
            /\ formed' = formed \cup {MachineThere}
            /\ \/ pjob' = [pjob EXCEPT !.pc = "truncate", !.got = "succeeded"] /\ UNCHANGED provFaults
               \/ ProvFault /\ pjob' = [pjob EXCEPT !.pc = "truncate", !.got = "failed"]
       ELSE /\ pjob' = [pjob EXCEPT !.pc = "truncate", !.got = "already-exists"]
            /\ UNCHANGED <<petcd, formed, provFaults>>
    /\ UNCHANGED <<dhcp, pmode, prole, intent, recorded, provJobs>>

BootstrapUnreachable ==
    /\ InProv(4, "call") /\ pmode[MachineThere] # "node"
    /\ pjob' = [pjob EXCEPT !.pc = "truncate", !.got = "failed"]
    /\ UNCHANGED <<machineVars, intent, recorded, open, provJobs, provFaults>>

TruncateIntent ==
    /\ InProv(4, "truncate")
    /\ intent' = [intent EXCEPT !.st = "torn"] /\ ProvTo("outcome")
    /\ UNCHANGED <<machineVars, recorded, open, provJobs, provFaults>>
overwriteIntent ==
    /\ InProv(4, "outcome")
    /\ intent' = [intent EXCEPT !.st = pjob.got] /\ open' = NoAddress
    /\ IF pjob.got = "failed" THEN ProvFailed ELSE ProvStepDone
    /\ UNCHANGED <<machineVars, recorded, provJobs, provFaults>>

Resolve == IF intent.m \in formed THEN "succeeded" ELSE "failed"

\* A person has looked at the machine of the record,
\* and no job is running ("this is that attempt in flight and there is nothing
\* to resolve yet").
resolveBootstrapRecovery ==
    /\ intent.st = "open" /\ pjob.st # "running"
    /\ intent' = [intent EXCEPT !.st = Resolve]
    /\ open' = NoAddress
    /\ UNCHANGED <<machineVars, pjob, recorded, provJobs, provFaults>>
----------------------------------------------------------------------------
(***************************************************************************)
(* A restart, and the machines.                                            *)
(***************************************************************************)
\* Happened of the steps: the checks and the wait are taken again, the apply
\* counts as done when nothing answers in maintenance mode, and the bootstrap
\* cannot be asked about.
ProvResume ==
    IF pjob.pc = "pending" THEN pjob
    ELSE CASE pjob.at \in {1, 3} -> [pjob EXCEPT !.pc = "pending"]
           [] pjob.at = 2 -> [pjob EXCEPT !.at = IF Maintenance(MachineThere) THEN 2 ELSE 3,
                                          !.pc = "pending"]
           [] pjob.at = 4 -> [pjob EXCEPT !.st = "parked"]
RestartServer ==
    /\ pjob.st = "running" /\ ProvFault
    /\ pjob' = ProvResume
    /\ UNCHANGED <<machineVars, intent, recorded, open, provJobs>>

Installed(m) ==
    /\ pmode[m] = "installing" /\ pmode' = [pmode EXCEPT ![m] = "node"]
    /\ UNCHANGED <<dhcp, prole, petcd, formed, intent, pjob, recorded, open, provJobs, provFaults>>
EtcdUp(m) ==
    /\ pmode[m] = "node" /\ prole[m]
    /\ \/ petcd[m] = "starting"
       \/ petcd[m] = "none" /\ \E n \in PMachines : petcd[n] = "up"
    /\ petcd' = [petcd EXCEPT ![m] = "up"]
    /\ UNCHANGED <<dhcp, pmode, prole, formed, intent, pjob, recorded, open, provJobs, provFaults>>
AddressesMove(a, b) ==
    /\ a # b /\ ProvFault
    /\ dhcp' = [dhcp EXCEPT ![a] = dhcp[b], ![b] = dhcp[a]]
    /\ UNCHANGED <<pmode, prole, petcd, formed, intent, pjob, recorded, open, provJobs>>

ProvNext ==
    \/ \E r \in ProvRequests : provisionApply(r)
    \/ BeginProvStep \/ ConfirmMachine \/ VerifyAgain \/ ApplyConfiguration \/ WaitForReturn
    \/ NothingToBootstrap \/ readIntent \/ EtcdMemberList \/ CreateIntent \/ writeIntentExclusive
    \/ BootstrapCall \/ BootstrapUnreachable \/ TruncateIntent \/ overwriteIntent
    \/ resolveBootstrapRecovery
    \/ RestartServer
    \/ \E m \in PMachines : Installed(m) \/ EtcdUp(m)
    \/ \E a, b \in PMachines : AddressesMove(a, b)

ProvSpec == ProvInit /\ [][ProvNext]_provVars
----------------------------------------------------------------------------
(***************************************************************************)
(* Properties.                                                             *)
(***************************************************************************)
\* bootstrap.go: "The unclear case -- an intent record with no outcome -- goes
\* to a recovery flow and never to a retry."  No Bootstrap call leaves while an
\* earlier one has no outcome, whatever restarts and torn records lie between.
UnclearIsNotRetried ==
    [][pjob.pc = "call" /\ pjob'.pc = "truncate" => open = NoAddress]_provVars

\* bootstrap.go: "Bootstrapping etcd twice destroys a cluster, and this file is
\* four independent mechanisms stacked so that it cannot happen".
NeverBootstrappedTwice == Cardinality(formed) <= 1
============================================================================
