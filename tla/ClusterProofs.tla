--------------------------- MODULE ClusterProofs ----------------------------
(***************************************************************************)
(* Theorems about what the daemon does to a running cluster, for any       *)
(* number of machines, pods, objects, jobs, restarts and faults.           *)
(***************************************************************************)
EXTENDS Provision, RotateCA, Backups, Drain, Manifests, ClusterPower, KubeView,
  AppPower, Upgrade, FiniteSetTheorems, WellFoundedInduction, TLAPS

----------------------------------------------------------------------------
(***************************************************************************)
(* Provisioning: the record of a bootstrap.                                *)
(***************************************************************************)

\* What a job can be.
ProvJob ==
    [st : {"none", "running", "failed", "succeeded", "parked"},
     req : ProvRequests \cup {NoProvJob.req}, at : 1 .. 4,
     pc : {"pending", "begun", "verified", "members", "create", "write", "call", "truncate",
           "outcome"},
     got : {"none", "succeeded", "failed", "already-exists"}]

\* Where the bootstrap step stands and what the record then says: a call whose outcome
\* nobody wrote down has left a record that is open or torn, and a job that is about to
\* call found no such record.
ProvInv ==
    /\ pjob \in ProvJob /\ DOMAIN intent = {"st", "m"}
    /\ pjob.st = "running" /\ pjob.at = 4 /\ pjob.pc \in {"members", "create"} =>
          open = NoAddress
    /\ pjob.st = "running" /\ pjob.at = 4 /\ pjob.pc = "write" =>
          open = NoAddress /\ intent.st = "torn"
    /\ pjob.st = "running" /\ pjob.at = 4 /\ pjob.pc = "call" =>
          open = NoAddress /\ intent.st = "open"
    /\ pjob.st = "running" /\ pjob.at = 4 /\ pjob.pc = "truncate" => intent.st = "open"
    /\ open # NoAddress => intent.st \in {"open", "torn"}

\* A step of the job that is done, and one that failed.
LEMMA ProvMoves ==
  ASSUME ProvInv
  PROVE  /\ ProvStepDone => pjob' \in ProvJob /\ (pjob'.st = "running" => pjob'.pc = "pending")
         /\ ProvFailed => pjob' \in ProvJob /\ pjob'.st = "failed"
<1>1. pjob \in ProvJob /\ pjob.at \in 1 .. 4
  BY DEF ProvInv, ProvJob
<1>2. ASSUME ProvStepDone, pjob.at # 4
      PROVE  pjob' \in ProvJob /\ (pjob'.st = "running" => pjob'.pc = "pending")
  <2>1. PICK k \in 1 .. 4 : k = pjob.at + 1
    BY <1>1, <1>2
  <2>2. pjob' = [pjob EXCEPT !.at = k, !.pc = "pending"]
    BY <1>2, <2>1 DEF ProvStepDone
  <2> QED
    BY <1>1, <2>2 DEF ProvJob
<1>3. ASSUME ProvStepDone, pjob.at = 4
      PROVE  pjob' \in ProvJob /\ (pjob'.st = "running" => pjob'.pc = "pending")
  BY <1>1, <1>3 DEF ProvStepDone, ProvJob
<1>4. ASSUME ProvFailed PROVE pjob' \in ProvJob /\ pjob'.st = "failed"
  BY <1>1, <1>4 DEF ProvFailed, ProvJob
<1> QED
  BY <1>2, <1>3, <1>4

\* A step that touches neither the record nor the call, and leaves the job outside the
\* inner part of the bootstrap.
LEMMA ProvOutside ==
  ASSUME ProvInv, UNCHANGED <<intent, open>>, pjob' \in ProvJob,
         pjob'.st = "running" => pjob'.pc \in {"pending", "begun", "verified"}
  PROVE  ProvInv'
  BY DEF ProvInv

\* Every step of the job, a restart and the machines keep it.
LEMMA ProvStep == ProvInv /\ [ProvNext]_provVars => ProvInv'
<1> SUFFICES ASSUME ProvInv, [ProvNext]_provVars PROVE ProvInv'
  OBVIOUS
<1> USE DEF ProvInv, ProvJob, machineVars, NoBootIntent
<1>1. ASSUME NEW r \in ProvRequests, provisionApply(r) PROVE ProvInv'
  <2>1. NoProvJob \in ProvJob /\ NoProvJob.pc = "pending"
    BY DEF NoProvJob
  <2>2. pjob' \in ProvJob /\ pjob'.pc = "pending"
    BY <1>1, <2>1 DEF provisionApply
  <2> QED
    BY <1>1, <2>2, ProvOutside DEF provisionApply
<1>2. CASE BeginProvStep \/ ConfirmMachine \/ VerifyAgain \/ ApplyConfiguration \/ WaitForReturn
           \/ NothingToBootstrap
  <2>1. \/ ProvTo("begun") \/ ProvTo("verified") \/ ProvFailed \/ ProvStepDone
    BY <1>2 DEF BeginProvStep, ConfirmMachine, VerifyAgain, ApplyConfiguration, WaitForReturn,
       NothingToBootstrap
  <2>2. pjob' \in ProvJob /\ (pjob'.st = "running" => pjob'.pc \in {"pending", "begun", "verified"})
    BY <2>1, ProvMoves DEF ProvTo
  <2>3. UNCHANGED <<intent, open>>
    BY <1>2 DEF BeginProvStep, ConfirmMachine, VerifyAgain, ApplyConfiguration, WaitForReturn,
       NothingToBootstrap
  <2> QED
    BY <2>2, <2>3, ProvOutside
<1>3. CASE readIntent
  BY <1>3 DEF readIntent, InProv, ProvTo, ProvFailed, ProvStepDone
<1>4. CASE EtcdMemberList \/ CreateIntent \/ writeIntentExclusive
  BY <1>4 DEF EtcdMemberList, CreateIntent, writeIntentExclusive, InProv, ProvTo, ProvFailed,
     ProvStepDone
<1>5. CASE BootstrapCall \/ BootstrapUnreachable \/ TruncateIntent
  BY ZenonT(60), <1>5 DEF BootstrapCall, BootstrapUnreachable, TruncateIntent, InProv, ProvTo
<1>6. CASE overwriteIntent \/ resolveBootstrapRecovery
  BY <1>6 DEF overwriteIntent, resolveBootstrapRecovery, InProv, ProvFailed, ProvStepDone
<1>7. CASE RestartServer
  <2>1. /\ pjob' \in ProvJob
        /\ pjob'.st = "running" => pjob'.pc \in {"pending", "begun", "verified"}
    <3>1. CASE pjob.pc = "pending"
      BY <1>7, <3>1 DEF RestartServer, ProvResume
    <3>2. CASE pjob.pc # "pending" /\ pjob.at \in {1, 3}
      <4>1. pjob' = [pjob EXCEPT !.pc = "pending"]
        BY <1>7, <3>2 DEF RestartServer, ProvResume
      <4> QED
        BY <4>1
    <3>3. CASE pjob.pc # "pending" /\ pjob.at = 2
      <4> DEFINE k == IF Maintenance(MachineThere) THEN 2 ELSE 3
      <4>1. k \in 1 .. 4
        OBVIOUS
      <4>2. pjob' = [pjob EXCEPT !.at = k, !.pc = "pending"]
        BY <1>7, <3>3 DEF RestartServer, ProvResume
      <4> HIDE DEF k
      <4> QED
        BY <4>1, <4>2
    <3>4. CASE pjob.pc # "pending" /\ pjob.at = 4
      <4>1. pjob' = [pjob EXCEPT !.st = "parked"]
        BY <1>7, <3>4 DEF RestartServer, ProvResume
      <4> QED
        BY <4>1
    <3> QED
      BY <3>1, <3>2, <3>3, <3>4
  <2> QED
    BY <1>7, <2>1, ProvOutside DEF RestartServer
<1>8. CASE \/ \E m \in PMachines : Installed(m) \/ EtcdUp(m)
           \/ \E a, b \in PMachines : AddressesMove(a, b)
           \/ UNCHANGED provVars
  BY <1>8 DEF Installed, EtcdUp, AddressesMove, provVars
<1> QED
  BY <1>1, <1>2, <1>3, <1>4, <1>5, <1>6, <1>7, <1>8 DEF ProvNext

\* No Bootstrap call leaves while an earlier one has no outcome, whatever restarts and
\* torn records lie between (readIntent, writeIntentExclusive, Bootstrap).
THEOREM UnclearStaysUnclear == ProvSpec => UnclearIsNotRetried
<1>1. ProvInit => ProvInv
  BY DEF ProvInit, ProvInv, ProvJob, NoProvJob, NoBootIntent
<1> DEFINE Clear == pjob.pc = "call" /\ pjob'.pc = "truncate" => open = NoAddress
<1>2. ProvInv /\ [ProvNext]_provVars => [Clear]_provVars
  <2> SUFFICES ASSUME ProvInv, ProvNext, pjob.pc = "call", pjob'.pc = "truncate"
               PROVE  open = NoAddress
    OBVIOUS
  <2> USE DEF ProvInv, ProvJob
  <2>1. BootstrapCall \/ BootstrapUnreachable
    <3>1. ASSUME NEW r \in ProvRequests, provisionApply(r) PROVE FALSE
      BY <3>1 DEF provisionApply, NoProvJob
    <3>2. CASE BeginProvStep \/ ConfirmMachine \/ VerifyAgain \/ ApplyConfiguration
               \/ WaitForReturn \/ NothingToBootstrap \/ readIntent
      BY <3>2 DEF BeginProvStep, ConfirmMachine, VerifyAgain, ApplyConfiguration, WaitForReturn,
         NothingToBootstrap, readIntent, InProv, ProvTo
    <3>3. CASE EtcdMemberList \/ CreateIntent \/ writeIntentExclusive \/ TruncateIntent
               \/ overwriteIntent
      BY <3>3 DEF EtcdMemberList, CreateIntent, writeIntentExclusive, TruncateIntent,
         overwriteIntent, InProv
    <3>4. CASE RestartServer
      BY <3>4 DEF RestartServer, ProvResume
    <3>5. CASE \/ resolveBootstrapRecovery
               \/ \E m \in PMachines : Installed(m) \/ EtcdUp(m)
               \/ \E a, b \in PMachines : AddressesMove(a, b)
      BY <3>5 DEF resolveBootstrapRecovery, Installed, EtcdUp, AddressesMove
    <3> QED
      BY <3>1, <3>2, <3>3, <3>4, <3>5 DEF ProvNext
  <2>2. pjob.st = "running" /\ pjob.at = 4
    BY <2>1 DEF BootstrapCall, BootstrapUnreachable, InProv
  <2> QED
    BY <2>2
<1> QED
  BY <1>1, <1>2, ProvStep, PTL DEF ProvSpec, UnclearIsNotRetried
----------------------------------------------------------------------------
(***************************************************************************)
(* A new authority.                                                        *)
(***************************************************************************)

\* The record in the store, a copy of it or the mark of no copy, and a node's configuration.
Secrets == [ca : Nat, next : Nat, client : Nat, rev : Nat \ {0}]
Copy == Secrets \cup {[rev |-> 0]}
NodeAuthorities == [issuing : Nat, accepted : SUBSET Nat]

\* The shape of the state.
RotTypeOK ==
    /\ sec \in Secrets
    /\ mcfg \in [RotNode -> NodeAuthorities]
    /\ members \subseteq RotNode /\ onair \subseteq RotNode
    /\ DOMAIN rot = {"st", "ms", "at", "on", "begun", "copy"}
    /\ rot.at \in 1 .. 7
    /\ rot.copy \in Copy
    /\ renew \in [on : BOOLEAN, copy : Copy]
    /\ minted \in Nat

\* Our certificate comes from the authority in the store, and a copy that is still good
\* differs from the record by what its owner means to write.
CopiesInv ==
    /\ sec.client = sec.ca
    /\ rot.copy.rev # 0 =>
          /\ rot.copy \in Secrets /\ rot.copy.rev <= sec.rev
          /\ rot.copy.rev = sec.rev =>
                rot.copy.ca = sec.next /\ rot.copy.client = sec.next /\ rot.copy.next = sec.next
    /\ renew.on =>
          /\ renew.copy \in Secrets /\ renew.copy.rev <= sec.rev
          /\ renew.copy.rev = sec.rev =>
                renew.copy.ca = sec.ca /\ renew.copy.client = sec.ca /\ renew.copy.next = sec.next

\* A node that accepts anything besides accepts what it issues from.
ConfigInv ==
    \A n \in RotNode : mcfg[n].accepted = {} \/ mcfg[n].issuing \in mcfg[n].accepted

PastPreflight == rot.at > 3
PastAdopt == rot.at > 5

\* A running rotation lists every member; past its check of the nodes they all accept the
\* new authority, and past the adoption it is ours.
RunInv ==
    RotRunning =>
      /\ \A n \in members : \E i \in DOMAIN rot.ms : rot.ms[i] = n
      /\ PastPreflight => \A n \in members : Accepts(mcfg[n], sec.next)
      /\ PastAdopt => sec.ca = sec.next

\* The inductive invariant.
RotInv == RotTypeOK /\ CopiesInv /\ ConfigInv /\ RunInv /\ NeverLockedOut

\* The kinds of step, by their place.
LEMMA RotPlaces ==
  ASSUME RotTypeOK
  PROVE  /\ rot.at \in 1 .. 7 /\ Len(steps) = 7
         /\ RotStep = "prepare" => rot.at = 1
         /\ RotStep = "accept" => rot.at = 2
         /\ RotStep = "preflight" => rot.at = 3
         /\ RotStep = "issue" => rot.at = 4
         /\ RotStep = "adopt" => rot.at = 5
         /\ RotStep = "prune" => rot.at = 6
         /\ RotStep = "finish" => rot.at = 7
  BY DEF RotTypeOK, RotStep, steps

\* Where a step that is done, or that failed, leaves the job.
LEMMA RotMoves ==
  ASSUME RotTypeOK
  PROVE  /\ RotStepDone =>
              /\ DOMAIN rot' = {"st", "ms", "at", "on", "begun", "copy"}
              /\ rot'.copy = [rev |-> 0] /\ rot'.ms = rot.ms
              /\ rot'.st = rot.st \/ rot'.st = "succeeded"
              /\ rot'.at = rot.at \/ (rot'.at = rot.at + 1 /\ rot.at < 7)
              /\ rot.at = 7 => rot'.st = "succeeded"
         /\ RotFailed =>
              /\ DOMAIN rot' = {"st", "ms", "at", "on", "begun", "copy"}
              /\ rot'.copy = [rev |-> 0] /\ rot'.ms = rot.ms
              /\ rot'.st = "failed" /\ rot'.at = rot.at
<1>1. DOMAIN rot = {"st", "ms", "at", "on", "begun", "copy"} /\ rot.at \in 1 .. 7
  BY DEF RotTypeOK
<1>2. Len(steps) = 7 /\ steps[7] \notin PerMachine
  BY DEF steps, PerMachine
<1>3. ASSUME RotStepDone
      PROVE  /\ DOMAIN rot' = {"st", "ms", "at", "on", "begun", "copy"}
             /\ rot'.copy = [rev |-> 0] /\ rot'.ms = rot.ms
             /\ rot'.st = rot.st \/ rot'.st = "succeeded"
             /\ rot'.at = rot.at \/ (rot'.at = rot.at + 1 /\ rot.at < 7)
             /\ rot.at = 7 => rot'.st = "succeeded"
  <2>1. \/ rot' = [rot EXCEPT !.on = @ + 1, !.begun = FALSE, !.copy = [rev |-> 0]] /\ rot.at # 7
        \/ /\ rot' = [rot EXCEPT !.at = @ + 1, !.on = 1, !.begun = FALSE, !.copy = [rev |-> 0]]
           /\ rot.at < 7
        \/ rot' = [rot EXCEPT !.st = "succeeded", !.begun = FALSE, !.copy = [rev |-> 0]]
    BY <1>1, <1>2, <1>3 DEF RotStepDone, AfterStep, RotStep
  <2>2. CASE rot' = [rot EXCEPT !.on = @ + 1, !.begun = FALSE, !.copy = [rev |-> 0]] /\ rot.at # 7
    BY <1>1, <2>2
  <2>3. CASE /\ rot' = [rot EXCEPT !.at = @ + 1, !.on = 1, !.begun = FALSE, !.copy = [rev |-> 0]]
             /\ rot.at < 7
    BY <1>1, <2>3
  <2>4. CASE rot' = [rot EXCEPT !.st = "succeeded", !.begun = FALSE, !.copy = [rev |-> 0]]
    <3>1. rot'.st = "succeeded" /\ rot'.at = rot.at /\ rot'.ms = rot.ms
      BY <1>1, <2>4
    <3>2. DOMAIN rot' = {"st", "ms", "at", "on", "begun", "copy"} /\ rot'.copy = [rev |-> 0]
      BY <1>1, <2>4
    <3> QED
      BY <1>1, <3>1, <3>2
  <2> QED
    BY <2>1, <2>2, <2>3, <2>4
<1>4. ASSUME RotFailed
      PROVE  /\ DOMAIN rot' = {"st", "ms", "at", "on", "begun", "copy"}
             /\ rot'.copy = [rev |-> 0] /\ rot'.ms = rot.ms
             /\ rot'.st = "failed" /\ rot'.at = rot.at
  BY <1>1, <1>4 DEF RotFailed
<1> QED
  BY <1>3, <1>4

\* A step that leaves the record and the nodes alone, and does not take a running job past
\* its check or past the adoption.
LEMMA RotQuiet ==
  ASSUME RotInv, UNCHANGED <<sec, mcfg, members>>, onair' \subseteq RotNode, minted' \in Nat,
         DOMAIN rot' = {"st", "ms", "at", "on", "begun", "copy"}, rot'.at \in 1 .. 7,
         rot'.copy \in {rot.copy, [rev |-> 0]}, renew' \in {renew, NoRenewal},
         rot'.st = "running" =>
            /\ rot.st = "running" /\ rot'.ms = rot.ms
            /\ rot'.at > 3 => rot.at > 3
            /\ rot'.at > 5 => rot.at > 5
  PROVE  RotInv'
<1>1. RotTypeOK'
  <2>1. NoRenewal \in [on : BOOLEAN, copy : Copy]
    BY DEF NoRenewal, Copy
  <2> QED
    BY <2>1 DEF RotInv, RotTypeOK, Copy
<1>2. CopiesInv'
  BY DEF RotInv, RotTypeOK, CopiesInv, NoRenewal, Copy, Secrets
<1>3. ConfigInv' /\ NeverLockedOut'
  BY DEF RotInv, ConfigInv, NeverLockedOut, Accepts
<1>4. RunInv'
  BY DEF RotInv, RunInv, RotRunning, PastPreflight, PastAdopt, Accepts
<1> QED
  BY <1>1, <1>2, <1>3, <1>4 DEF RotInv

\* The same for a step that is done: it may leave the check only when every member accepts
\* the new authority, and the adoption only when it is ours.
LEMMA RotDone ==
  ASSUME RotInv, UNCHANGED <<sec, mcfg, members, onair, minted>>, rot' = AfterStep, RotRunning,
         renew' \in {renew, NoRenewal},
         rot.at = 3 => \A n \in members : Accepts(mcfg[n], sec.next),
         rot.at = 5 => sec.ca = sec.next
  PROVE  RotInv'
<1>1. /\ DOMAIN rot' = {"st", "ms", "at", "on", "begun", "copy"}
      /\ rot'.copy = [rev |-> 0] /\ rot'.ms = rot.ms
      /\ rot'.at = rot.at \/ (rot'.at = rot.at + 1 /\ rot.at < 7)
  BY RotMoves DEF RotInv, RotStepDone
<1>2. rot.at \in 1 .. 7
  BY DEF RotInv, RotTypeOK
<1>3. RotTypeOK'
  <2>1. NoRenewal \in [on : BOOLEAN, copy : Copy]
    BY DEF NoRenewal, Copy
  <2> QED
    BY <1>1, <1>2, <2>1 DEF RotInv, RotTypeOK, Copy
<1>4. CopiesInv'
  BY <1>1 DEF RotInv, RotTypeOK, CopiesInv, NoRenewal, Copy, Secrets
<1>5. ConfigInv' /\ NeverLockedOut'
  BY DEF RotInv, ConfigInv, NeverLockedOut, Accepts
<1>6. RunInv'
  <2>1. PastPreflight' => rot.at = 3 \/ PastPreflight
    BY <1>1, <1>2 DEF PastPreflight
  <2>2. PastAdopt' => rot.at = 5 \/ PastAdopt
    BY <1>1, <1>2 DEF PastAdopt
  <2> QED
    BY <1>1, <2>1, <2>2 DEF RotInv, RunInv, Accepts
<1> QED
  BY <1>3, <1>4, <1>5, <1>6 DEF RotInv

\* A node's configuration handed back: the new one accepts our certificate, and the new
\* authority if it has to.
LEMMA RotRewrite ==
  ASSUME RotInv, NEW n \in RotNode, NEW c \in NodeAuthorities, rewrite(n, c), RotRunning,
         rot.at \in {2, 4, 6},
         c.accepted = {} \/ c.issuing \in c.accepted,
         n \in members => Accepts(c, sec.client),
         n \in members /\ rot.at > 3 => Accepts(c, sec.next)
  PROVE  RotInv'
<1>1. /\ DOMAIN rot' = {"st", "ms", "at", "on", "begun", "copy"}
      /\ rot'.copy = [rev |-> 0] /\ rot'.ms = rot.ms
      /\ rot'.st = "failed" \/ rot'.at = rot.at \/ (rot'.at = rot.at + 1 /\ rot.at < 7)
      /\ rot'.at = rot.at \/ rot'.at = rot.at + 1
  BY RotMoves DEF RotInv, rewrite
<1>2. /\ UNCHANGED <<sec, members, onair, renew, minted>>
      /\ mcfg' = [mcfg EXCEPT ![n] = c]
  BY DEF rewrite
<1>3. RotTypeOK'
  BY <1>1, <1>2 DEF RotInv, RotTypeOK, Copy
<1>4. CopiesInv'
  BY <1>1, <1>2 DEF RotInv, RotTypeOK, CopiesInv, Copy, Secrets
<1>5. \A x \in RotNode : mcfg'[x] = IF x = n THEN c ELSE mcfg[x]
  BY <1>2 DEF RotInv, RotTypeOK
<1>6. ConfigInv'
  BY <1>5 DEF RotInv, ConfigInv
<1>7. members \subseteq RotNode
  BY DEF RotInv, RotTypeOK
<1>8. NeverLockedOut'
  BY <1>2, <1>5, <1>7 DEF RotInv, NeverLockedOut, Accepts
<1>9. RunInv'
  <2>1. (PastPreflight' <=> PastPreflight) /\ (PastAdopt' <=> PastAdopt)
    BY <1>1 DEF PastPreflight, PastAdopt
  <2>2. PastPreflight => \A x \in members : Accepts(mcfg'[x], sec.next)
    BY <1>5, <1>7 DEF RotInv, RunInv, PastPreflight, Accepts
  <2> QED
    BY <1>1, <1>2, <2>1, <2>2 DEF RotInv, RunInv, Accepts
<1> QED
  BY <1>3, <1>4, <1>6, <1>8, <1>9 DEF RotInv

\* A job that is made.
LEMMA RotStart == RotInv /\ startAuthorityRotation => RotInv'
<1> SUFFICES ASSUME RotInv, startAuthorityRotation PROVE RotInv'
  OBVIOUS
<1> USE DEF startAuthorityRotation, nodeState
<1>1. PICK ms \in MachinesOf : rot' = [NoRotation EXCEPT !.st = "running", !.ms = ms]
  OBVIOUS
<1>2. /\ rot' = [st |-> "running", ms |-> ms, at |-> 1, on |-> 1, begun |-> FALSE,
                 copy |-> [rev |-> 0]]
      /\ \A n \in members : \E i \in DOMAIN ms : ms[i] = n
  BY <1>1 DEF NoRotation, MachinesOf
<1>2a. /\ DOMAIN rot' = {"st", "ms", "at", "on", "begun", "copy"}
       /\ rot'.at = 1 /\ rot'.copy = [rev |-> 0] /\ rot'.ms = ms
  BY <1>2
<1>3. RotTypeOK'
  BY <1>2a DEF RotInv, RotTypeOK, Copy
<1>4. CopiesInv'
  BY <1>2a DEF RotInv, CopiesInv
<1>5. ConfigInv' /\ NeverLockedOut'
  BY DEF RotInv, ConfigInv, NeverLockedOut, Accepts
<1>6. RunInv'
  <2>1. ~PastPreflight' /\ ~PastAdopt' /\ members' = members
    BY <1>2a DEF PastPreflight, PastAdopt
  <2>2. \A n \in members' : \E i \in DOMAIN rot'.ms : rot'.ms[i] = n
    BY <1>2, <1>2a, <2>1
  <2> QED
    BY <2>1, <2>2 DEF RunInv
<1> QED
  BY <1>3, <1>4, <1>5, <1>6 DEF RotInv

\* The passes over the machines.
LEMMA RotPasses == RotInv /\ (acceptStep \/ issueStep \/ pruneStep) => RotInv'
<1> SUFFICES ASSUME RotInv, acceptStep \/ issueStep \/ pruneStep PROVE RotInv'
  OBVIOUS
<1> DEFINE n == RotOn
<1>1. n \in RotNode /\ RotRunning
  BY DEF RotInv, RotTypeOK, acceptStep, issueStep, pruneStep, Connect, Dial, Doing
<1>2. /\ mcfg[n] \in NodeAuthorities /\ sec.next \in Nat
      /\ mcfg[n].accepted = {} \/ mcfg[n].issuing \in mcfg[n].accepted
      /\ n \in members => Accepts(mcfg[n], sec.client)
      /\ n \in members /\ rot.at > 3 => Accepts(mcfg[n], sec.next)
      /\ rot.at > 5 => sec.client = sec.next
  BY <1>1 DEF RotInv, RotTypeOK, ConfigInv, NeverLockedOut, RunInv, PastPreflight, PastAdopt,
     CopiesInv, Secrets
<1> HIDE DEF n
<1>3. CASE acceptStep
  <2> DEFINE c == AcceptPatch(mcfg[n], sec.next)
  <2>1. c \in NodeAuthorities /\ c.issuing = mcfg[n].issuing
        /\ c.accepted = mcfg[n].accepted \cup {mcfg[n].issuing, sec.next}
    BY <1>2 DEF AcceptPatch, NodeAuthorities
  <2>2. rewrite(n, c) /\ rot.at = 2
    BY <1>3, RotPlaces DEF acceptStep, Doing, n, RotInv
  <2> HIDE DEF c
  <2>3. (n \in members => Accepts(c, sec.client)) /\ Accepts(c, sec.next)
    BY <1>2, <2>1 DEF Accepts
  <2> QED
    BY <1>1, <2>1, <2>2, <2>3, RotRewrite
<1>4. CASE issueStep
  <2> DEFINE c == IssuePatch(mcfg[n], sec.next)
  <2>1. c \in NodeAuthorities /\ c.issuing = sec.next /\ c.accepted = mcfg[n].accepted
    BY <1>2 DEF IssuePatch, NodeAuthorities
  <2>2. rewrite(n, c) /\ rot.at = 4 /\ Accepts(mcfg[n], sec.next)
    BY <1>4, RotPlaces DEF issueStep, Doing, n, RotInv
  <2> HIDE DEF c
  <2>3. /\ n \in members => Accepts(c, sec.client)
        /\ Accepts(c, sec.next) /\ (c.accepted = {} \/ c.issuing \in c.accepted)
    BY <1>2, <2>1, <2>2 DEF Accepts
  <2> QED
    BY <1>1, <2>1, <2>2, <2>3, RotRewrite
<1>5. CASE pruneStep
  <2> DEFINE c == PruneConfig(mcfg[n], sec.next)
  <2>1. /\ rewrite(n, c) /\ rot.at = 6 /\ mcfg[n].issuing = sec.next
    BY <1>5, RotPlaces DEF pruneStep, Doing, n, RotInv, IssuesFrom
  <2>2. c \in NodeAuthorities /\ c.issuing = sec.next /\ (c.accepted = {} \/ c.accepted = {sec.next})
    BY <1>2, <2>1 DEF PruneConfig, Pruned, NodeAuthorities
  <2> HIDE DEF c
  <2>3. /\ Accepts(c, sec.client) /\ Accepts(c, sec.next)
        /\ (c.accepted = {} \/ c.issuing \in c.accepted)
    BY <1>2, <2>1, <2>2 DEF Accepts
  <2> QED
    BY <1>1, <2>1, <2>2, <2>3, RotRewrite
<1> QED
  BY <1>3, <1>4, <1>5

\* The steps of the job that look at the nodes and change none, and a restart.
LEMMA RotJobSteps ==
  RotInv /\ (BeginStep \/ preflightIssue \/ RotationFails \/ RestartDaemon) => RotInv'
<1> SUFFICES ASSUME RotInv, BeginStep \/ preflightIssue \/ RotationFails \/ RestartDaemon
             PROVE  RotInv'
  OBVIOUS
<1> USE DEF nodeState
<1>1. /\ DOMAIN rot = {"st", "ms", "at", "on", "begun", "copy"} /\ rot.at \in 1 .. 7
      /\ onair \subseteq RotNode /\ minted \in Nat /\ RotTypeOK
  BY DEF RotInv, RotTypeOK
<1>2. CASE BeginStep
  <2>1. /\ DOMAIN rot' = {"st", "ms", "at", "on", "begun", "copy"} /\ rot'.at = rot.at
        /\ rot'.copy = rot.copy /\ rot'.st = rot.st /\ rot'.ms = rot.ms
    BY <1>1, <1>2 DEF BeginStep
  <2> QED
    BY <1>1, <1>2, <2>1, RotQuiet DEF BeginStep
<1>3. CASE preflightIssue
  <2>1. rot.at = 3 /\ RotRunning
    BY <1>1, <1>3, RotPlaces DEF preflightIssue, Doing
  <2>2. \A n \in members : Accepts(mcfg[n], sec.next)
    BY <1>3, <2>1 DEF preflightIssue, EveryNodeAnswered, RotInv, RunInv
  <2> QED
    BY <1>3, <2>1, <2>2, RotDone DEF preflightIssue, RotStepDone
<1>4. CASE RotationFails
  <2>1. /\ DOMAIN rot' = {"st", "ms", "at", "on", "begun", "copy"}
        /\ rot'.copy = [rev |-> 0] /\ rot'.st = "failed" /\ rot'.at = rot.at
    BY <1>1, <1>4, RotMoves DEF RotationFails
  <2> QED
    BY <1>1, <1>4, <2>1, RotQuiet DEF RotationFails
<1>5. CASE RestartDaemon
  <2>1. UNCHANGED <<sec, mcfg, members, onair, minted>> /\ renew' = NoRenewal
    BY <1>5 DEF RestartDaemon
  <2>2. CASE RotRunning /\ rot.begun /\ Answerable /\ RotHappened
    <3>1. rot' = AfterStep
      BY <1>5, <2>2 DEF RestartDaemon
    <3>2. rot.at # 3
      BY <2>2 DEF Answerable, RotStep, steps
    <3>3. rot.at = 5 => sec.ca = sec.next
      BY <2>2 DEF RotHappened, RotStep, steps
    <3> QED
      BY <2>1, <2>2, <3>1, <3>2, <3>3, RotDone
  <2>3. CASE ~(RotRunning /\ rot.begun /\ Answerable /\ RotHappened)
    <3>1. \/ rot' = rot
          \/ rot' = [rot EXCEPT !.st = "parked", !.begun = FALSE, !.copy = [rev |-> 0]]
          \/ rot' = [rot EXCEPT !.begun = FALSE, !.copy = [rev |-> 0]]
      BY <1>5, <2>3 DEF RestartDaemon
    <3>2. /\ DOMAIN rot' = {"st", "ms", "at", "on", "begun", "copy"} /\ rot'.at = rot.at
          /\ rot'.copy \in {rot.copy, [rev |-> 0]} /\ rot'.ms = rot.ms
          /\ rot'.st = rot.st \/ rot'.st = "parked"
      BY <1>1, <3>1
    <3> QED
      BY <1>1, <2>1, <3>2, RotQuiet
  <2> QED
    BY <2>2, <2>3
<1> QED
  BY <1>2, <1>3, <1>4, <1>5

\* A record that is written: its revision moves, so every copy of it goes stale.
LEMMA RotStored ==
  ASSUME RotInv, sec' \in Secrets, sec'.rev = sec.rev + 1, sec'.client = sec'.ca,
         UNCHANGED <<mcfg, members, onair>>, minted' \in Nat,
         DOMAIN rot' = {"st", "ms", "at", "on", "begun", "copy"}, rot'.at \in 1 .. 7,
         rot'.copy \in {rot.copy, [rev |-> 0]}, renew' \in {renew, NoRenewal},
         \A n \in members : Accepts(mcfg[n], sec'.client),
         RunInv'
  PROVE  RotInv'
<1>1. RotTypeOK'
  <2>1. NoRenewal \in [on : BOOLEAN, copy : Copy]
    BY DEF NoRenewal, Copy
  <2> QED
    BY <2>1 DEF RotInv, RotTypeOK, Copy
<1>2. CopiesInv'
  <2>1. sec.rev \in Nat /\ sec'.rev > sec.rev
    BY DEF RotInv, RotTypeOK, Secrets
  <2>2. rot'.copy.rev # 0 => rot'.copy = rot.copy /\ rot.copy.rev # 0
    OBVIOUS
  <2>3. rot'.copy.rev # 0 =>
          rot'.copy \in Secrets /\ rot'.copy.rev <= sec'.rev /\ rot'.copy.rev # sec'.rev
    BY <2>1, <2>2 DEF RotInv, CopiesInv, Secrets
  <2>4. renew'.on =>
          renew'.copy \in Secrets /\ renew'.copy.rev <= sec'.rev /\ renew'.copy.rev # sec'.rev
    BY <2>1 DEF RotInv, CopiesInv, Secrets, NoRenewal
  <2> QED
    BY <2>3, <2>4 DEF CopiesInv
<1>3. ConfigInv' /\ NeverLockedOut'
  BY DEF RotInv, ConfigInv, NeverLockedOut, Accepts
<1> QED
  BY <1>1, <1>2, <1>3 DEF RotInv

\* The steps of the job that write the record.
LEMMA RotWrites == RotInv /\ (prepareStep \/ AdoptAuthority \/ finishStep) => RotInv'
<1> SUFFICES ASSUME RotInv, prepareStep \/ AdoptAuthority \/ finishStep PROVE RotInv'
  OBVIOUS
<1> USE DEF nodeState
<1>1. /\ DOMAIN rot = {"st", "ms", "at", "on", "begun", "copy"} /\ rot.at \in 1 .. 7
      /\ onair \subseteq RotNode /\ minted \in Nat /\ RotTypeOK
      /\ sec \in Secrets /\ sec.client = sec.ca
      /\ \A n \in members : Accepts(mcfg[n], sec.client)
  BY DEF RotInv, RotTypeOK, CopiesInv, NeverLockedOut
<1>2. RotRunning
  BY DEF prepareStep, AdoptAuthority, finishStep, Doing
<1>3. ASSUME prepareStep PROVE RotInv'
  <2>1. rot.at = 1 /\ rot' = AfterStep
    BY <1>1, <1>3, RotPlaces DEF prepareStep, Doing, RotStepDone
  <2>2. CASE Pending
    BY <1>2, <1>3, <2>1, <2>2, RotDone DEF prepareStep
  <2>3. CASE ~Pending
    <3>1. /\ sec' = [sec EXCEPT !.next = minted + 1, !.rev = sec.rev + 1] /\ minted' = minted + 1
          /\ UNCHANGED <<mcfg, members, onair, renew>>
      BY <1>1, <1>3, <2>3 DEF prepareStep, StoredBundle, Secrets
    <3>2. /\ sec' \in Secrets /\ sec'.rev = sec.rev + 1 /\ sec'.client = sec.client
          /\ sec'.ca = sec.ca
      <4>1. sec.rev + 1 \in Nat \ {0} /\ minted + 1 \in Nat
        BY <1>1 DEF Secrets
      <4>2. PICK r \in Nat \ {0}, a \in Nat : r = sec.rev + 1 /\ a = minted + 1
        BY <4>1
      <4>3. sec' = [sec EXCEPT !.next = a, !.rev = r]
        BY <3>1, <4>2
      <4> QED
        BY <1>1, <4>2, <4>3 DEF Secrets
    <3>3. /\ DOMAIN rot' = {"st", "ms", "at", "on", "begun", "copy"} /\ rot'.at \in 1 .. 2
          /\ rot'.copy = [rev |-> 0] /\ rot'.ms = rot.ms
      BY <1>1, <2>1, RotMoves DEF RotStepDone
    <3>4. RunInv'
      <4>1. ~PastPreflight' /\ ~PastAdopt'
        BY <3>3 DEF PastPreflight, PastAdopt
      <4> QED
        BY <1>2, <3>1, <3>3, <4>1 DEF RotInv, RunInv
    <3> QED
      BY <1>1, <3>1, <3>2, <3>3, <3>4, RotStored
  <2> QED
    BY <2>2, <2>3
<1>4. ASSUME AdoptAuthority PROVE RotInv'
  <2>1. rot.at = 5 /\ rot.copy.rev # 0
    BY <1>1, <1>4, RotPlaces DEF AdoptAuthority, Doing
  <2>2. CASE rot.copy.rev = sec.rev
    <3>1. /\ rot.copy \in Secrets /\ rot.copy.ca = sec.next /\ rot.copy.client = sec.next
          /\ rot.copy.next = sec.next
      BY <2>1, <2>2 DEF RotInv, CopiesInv
    <3>2. /\ sec' = [rot.copy EXCEPT !.rev = rot.copy.rev + 1] /\ RotStepDone
          /\ UNCHANGED <<mcfg, members, onair, renew, minted>>
      BY <1>4, <2>2, <3>1 DEF AdoptAuthority, StoredBundle, Secrets
    <3>3. /\ sec' \in Secrets /\ sec'.rev = sec.rev + 1 /\ sec'.client = sec.next
          /\ sec'.ca = sec.next /\ sec'.next = sec.next
      BY <2>2, <3>1, <3>2 DEF Secrets
    <3>4. /\ DOMAIN rot' = {"st", "ms", "at", "on", "begun", "copy"} /\ rot'.at \in 1 .. 7
          /\ rot'.copy = [rev |-> 0] /\ rot'.ms = rot.ms
      BY <1>1, <2>1, <3>2, RotMoves
    <3>5. \A n \in members : Accepts(mcfg[n], sec.next)
      BY <1>2, <2>1 DEF RotInv, RunInv, PastPreflight
    <3>6. RunInv'
      BY <1>2, <3>2, <3>3, <3>4, <3>5 DEF RotInv, RunInv, Accepts
    <3> QED
      BY <1>1, <3>2, <3>3, <3>4, <3>5, <3>6, RotStored
  <2>3. CASE rot.copy.rev # sec.rev
    <3>1. /\ RotFailed /\ UNCHANGED <<sec, mcfg, members, onair, renew, minted>>
      BY <1>4, <2>3 DEF AdoptAuthority
    <3>2. /\ DOMAIN rot' = {"st", "ms", "at", "on", "begun", "copy"}
          /\ rot'.copy = [rev |-> 0] /\ rot'.st = "failed" /\ rot'.at = rot.at
      BY <1>1, <3>1, RotMoves
    <3> QED
      BY <1>1, <3>1, <3>2, RotQuiet
  <2> QED
    BY <2>2, <2>3
<1>5. ASSUME finishStep PROVE RotInv'
  <2>1. rot.at = 7
    BY <1>1, <1>5, RotPlaces DEF finishStep, Doing
  <2>2. sec.ca = sec.next
    BY <1>2, <2>1 DEF RotInv, RunInv, PastAdopt
  <2>3. RotStepDone /\ UNCHANGED <<mcfg, members, onair, renew, minted>>
    BY <1>5, <2>2 DEF finishStep
  <2>4. CASE Pending
    <3>1. sec' = [sec EXCEPT !.next = NoAuthority, !.rev = sec.rev + 1]
      BY <1>1, <1>5, <2>2, <2>4 DEF finishStep, StoredBundle, Secrets
    <3>2. NoAuthority \in Nat
      BY RotAssumption DEF NoAuthority
    <3>3. /\ sec' \in Secrets /\ sec'.rev = sec.rev + 1 /\ sec'.client = sec.client
          /\ sec'.ca = sec.ca
      <4>1. PICK r \in Nat \ {0}, a \in Nat : r = sec.rev + 1 /\ a = NoAuthority
        BY <1>1, <3>2 DEF Secrets
      <4>2. sec' = [sec EXCEPT !.next = a, !.rev = r]
        BY <3>1, <4>1
      <4> QED
        BY <1>1, <4>1, <4>2 DEF Secrets
    <3>4. /\ DOMAIN rot' = {"st", "ms", "at", "on", "begun", "copy"} /\ rot'.at \in 1 .. 7
          /\ rot'.copy = [rev |-> 0] /\ rot'.st = "succeeded"
      BY <1>1, <2>1, <2>3, RotMoves
    <3>5. RunInv'
      BY <3>4 DEF RunInv, RotRunning
    <3> QED
      BY <1>1, <2>3, <3>3, <3>4, <3>5, RotStored
  <2>5. CASE ~Pending
    <3>1. UNCHANGED sec
      BY <1>5, <2>2, <2>5 DEF finishStep
    <3> QED
      BY <1>2, <2>1, <2>3, <3>1, RotDone DEF RotStepDone
  <2> QED
    BY <2>4, <2>5
<1> QED
  BY <1>3, <1>4, <1>5

\* The two copies of the record that are taken, and the renewal written back.
LEMMA RotCopies == RotInv /\ (adoptStep \/ RenewBegin \/ RenewClientCertificate) => RotInv'
<1> SUFFICES ASSUME RotInv, adoptStep \/ RenewBegin \/ RenewClientCertificate PROVE RotInv'
  OBVIOUS
<1> USE DEF nodeState
<1>1. /\ DOMAIN rot = {"st", "ms", "at", "on", "begun", "copy"} /\ rot.at \in 1 .. 7
      /\ onair \subseteq RotNode /\ minted \in Nat /\ RotTypeOK
      /\ sec \in Secrets /\ sec.client = sec.ca
      /\ \A n \in members : Accepts(mcfg[n], sec.client)
  BY DEF RotInv, RotTypeOK, CopiesInv, NeverLockedOut
<1>2. ASSUME adoptStep PROVE RotInv'
  <2>1. UNCHANGED <<sec, mcfg, members, onair, renew, minted>>
    BY <1>2 DEF adoptStep
  <2> DEFINE c == [sec EXCEPT !.ca = sec.next, !.client = sec.next]
  <2>2. c \in Secrets /\ c.ca = sec.next /\ c.client = sec.next /\ c.next = sec.next /\ c.rev = sec.rev
    BY <1>1 DEF Secrets
  <2>3. rot' = [rot EXCEPT !.copy = c]
    BY <1>2 DEF adoptStep
  <2> HIDE DEF c
  <2>4. /\ DOMAIN rot' = {"st", "ms", "at", "on", "begun", "copy"} /\ rot'.at = rot.at
        /\ rot'.copy = c /\ rot'.st = rot.st /\ rot'.ms = rot.ms
    BY <1>1, <2>3
  <2>5. RotTypeOK'
    BY <2>1, <2>2, <2>4 DEF RotInv, RotTypeOK, Copy
  <2>6. CopiesInv'
    BY <1>1, <2>1, <2>2, <2>4 DEF RotInv, CopiesInv, Secrets
  <2>7. ConfigInv' /\ NeverLockedOut' /\ RunInv'
    BY <2>1, <2>4 DEF RotInv, ConfigInv, NeverLockedOut, RunInv, RotRunning, PastPreflight, PastAdopt,
       Accepts
  <2> QED
    BY <2>5, <2>6, <2>7 DEF RotInv
<1>3. ASSUME RenewBegin PROVE RotInv'
  <2>1. UNCHANGED <<sec, mcfg, members, onair, rot, minted>>
    BY <1>3 DEF RenewBegin
  <2> DEFINE c == [sec EXCEPT !.client = sec.ca]
  <2>2. c \in Secrets /\ c.ca = sec.ca /\ c.client = sec.ca /\ c.next = sec.next /\ c.rev = sec.rev
    BY <1>1 DEF Secrets
  <2>3. renew' = [on |-> TRUE, copy |-> c]
    BY <1>3 DEF RenewBegin
  <2> HIDE DEF c
  <2>4. renew'.on /\ renew'.copy = c /\ renew' \in [on : BOOLEAN, copy : Copy]
    BY <2>2, <2>3 DEF Copy
  <2>5. RotTypeOK'
    BY <2>1, <2>4 DEF RotInv, RotTypeOK
  <2>6. CopiesInv'
    BY <1>1, <2>1, <2>2, <2>4 DEF RotInv, CopiesInv, Secrets
  <2>7. ConfigInv' /\ NeverLockedOut' /\ RunInv'
    BY <2>1 DEF RotInv, ConfigInv, NeverLockedOut, RunInv, RotRunning, PastPreflight, PastAdopt,
       Accepts
  <2> QED
    BY <2>5, <2>6, <2>7 DEF RotInv
<1>4. ASSUME RenewClientCertificate PROVE RotInv'
  <2>1. /\ renew.on /\ renew' = NoRenewal /\ UNCHANGED <<mcfg, members, onair, rot, minted>>
    BY <1>4 DEF RenewClientCertificate
  <2>2. CASE renew.copy.rev = sec.rev
    <3>1. /\ renew.copy \in Secrets /\ renew.copy.ca = sec.ca /\ renew.copy.client = sec.ca
          /\ renew.copy.next = sec.next
      BY <2>1, <2>2 DEF RotInv, CopiesInv
    <3>2. sec' = [renew.copy EXCEPT !.rev = renew.copy.rev + 1]
      BY <1>4, <2>2, <3>1 DEF RenewClientCertificate, StoredBundle, Secrets
    <3>3. /\ sec' \in Secrets /\ sec'.rev = sec.rev + 1 /\ sec'.client = sec.client
          /\ sec'.ca = sec.ca /\ sec'.next = sec.next
      BY <1>1, <2>2, <3>1, <3>2 DEF Secrets
    <3>4. RunInv'
      BY <2>1, <3>3 DEF RotInv, RunInv, RotRunning, PastPreflight, PastAdopt, Accepts
    <3> QED
      BY <1>1, <2>1, <3>3, <3>4, RotStored
  <2>3. CASE renew.copy.rev # sec.rev
    <3>1. UNCHANGED sec
      BY <1>4, <2>3 DEF RenewClientCertificate
    <3> QED
      BY <1>1, <2>1, <3>1, RotQuiet
  <2> QED
    BY <2>2, <2>3
<1> QED
  BY <1>2, <1>3, <1>4

\* A machine that joins, and what the machines do by themselves.
LEMMA RotMachines ==
  ASSUME RotInv, NEW n \in RotNode, Join(n) \/ TrustdReissues(n) \/ GoesAway(n) \/ ComesBack(n)
  PROVE  RotInv'
<1> USE DEF nodeState
<1>1. /\ DOMAIN rot = {"st", "ms", "at", "on", "begun", "copy"} /\ rot.at \in 1 .. 7
      /\ onair \subseteq RotNode /\ minted \in Nat /\ RotTypeOK
      /\ sec \in Secrets /\ sec.client = sec.ca
  BY DEF RotInv, RotTypeOK, CopiesInv
<1>2. CASE TrustdReissues(n) \/ GoesAway(n) \/ ComesBack(n)
  <2>1. UNCHANGED <<sec, mcfg, members, rot, renew, minted>> /\ onair' \subseteq RotNode
    BY <1>1, <1>2 DEF TrustdReissues, GoesAway, ComesBack
  <2> QED
    BY <1>1, <2>1, RotQuiet
<1>3. CASE Join(n)
  <2>1. /\ UNCHANGED <<sec, onair, rot, renew, minted>> /\ ~RotRunning
        /\ mcfg' = [mcfg EXCEPT ![n] = Fresh(sec.ca)] /\ members' = members \cup {n}
    BY <1>3 DEF Join
  <2>2. Fresh(sec.ca) \in NodeAuthorities /\ Fresh(sec.ca).accepted = {} /\ Fresh(sec.ca).issuing = sec.ca
    BY <1>1 DEF Fresh, NodeAuthorities, Secrets
  <2>3. \A x \in RotNode : mcfg'[x] = IF x = n THEN Fresh(sec.ca) ELSE mcfg[x]
    BY <2>1 DEF RotInv, RotTypeOK
  <2>4. RotTypeOK'
    BY <2>1, <2>2 DEF RotInv, RotTypeOK
  <2>5. CopiesInv' /\ RunInv'
    BY <2>1 DEF RotInv, CopiesInv, RunInv, RotRunning
  <2>6. ConfigInv' /\ NeverLockedOut'
    <3>1. members \subseteq RotNode
      BY DEF RotInv, RotTypeOK
    <3> QED
      BY <1>1, <2>1, <2>2, <2>3, <3>1 DEF RotInv, ConfigInv, NeverLockedOut, Accepts
  <2> QED
    BY <2>4, <2>5, <2>6 DEF RotInv
<1> QED
  BY <1>2, <1>3

\* Whatever nodes go away, answers get lost, renewals run beside the job and restarts
\* come between, no member ever stops accepting the certificate this installation holds
\* (rotateca.steps, preflightIssue, Service.AdoptAuthority).
THEOREM InstallationIsNeverLockedOut == RotSpec => []NeverLockedOut
<1>1. RotInit => RotInv
  <2> SUFFICES ASSUME RotInit PROVE RotInv
    OBVIOUS
  <2> USE DEF RotInit
  <2>1. NoAuthority \in Nat
    BY RotAssumption DEF NoAuthority
  <2>2. sec \in Secrets /\ sec.client = sec.ca /\ sec.ca = 0
    BY <2>1 DEF Secrets
  <2>3. Fresh(0) \in NodeAuthorities /\ Fresh(0).accepted = {} /\ Fresh(0).issuing = 0
    BY DEF Fresh, NodeAuthorities
  <2>4. /\ DOMAIN rot = {"st", "ms", "at", "on", "begun", "copy"} /\ rot.at = 1
        /\ rot.copy = [rev |-> 0] /\ rot.st = "none"
    BY DEF NoRotation
  <2>5. renew \in [on : BOOLEAN, copy : Copy] /\ ~renew.on
    BY DEF NoRenewal, Copy
  <2>6. RotTypeOK
    BY <2>2, <2>3, <2>4, <2>5 DEF RotTypeOK, Copy
  <2>7. CopiesInv /\ ConfigInv /\ RunInv /\ NeverLockedOut
    BY <2>2, <2>3, <2>4, <2>5 DEF CopiesInv, ConfigInv, RunInv, RotRunning, NeverLockedOut, Accepts
  <2> QED
    BY <2>6, <2>7 DEF RotInv
<1>2. RotInv /\ [RotNext]_rotVars => RotInv'
  <2> SUFFICES ASSUME RotInv, [RotNext]_rotVars PROVE RotInv'
    OBVIOUS
  <2>1. CASE UNCHANGED rotVars
    <3>1. /\ UNCHANGED <<sec, mcfg, members, onair, rot, renew, minted>>
          /\ DOMAIN rot = {"st", "ms", "at", "on", "begun", "copy"} /\ rot.at \in 1 .. 7
          /\ onair \subseteq RotNode /\ minted \in Nat
      BY <2>1 DEF rotVars, RotInv, RotTypeOK
    <3> QED
      BY <3>1, RotQuiet
  <2>2. CASE RotNext
    BY <2>2, RotStart, RotPasses, RotJobSteps, RotWrites, RotCopies, RotMachines DEF RotNext
  <2> QED
    BY <2>1, <2>2
<1>3. RotInv => NeverLockedOut
  BY DEF RotInv
<1> QED
  BY <1>1, <1>2, <1>3, PTL DEF RotSpec
----------------------------------------------------------------------------
(***************************************************************************)
(* Stored snapshots.                                                       *)
(***************************************************************************)

\* Every set of numbers that is not empty has a least one.
LEMMA LeastNatural ==
  ASSUME NEW T, T \subseteq Nat, T # {}
  PROVE  \E x \in T : \A y \in T : x <= y
<1> DEFINE R == OpToRel(<, Nat)
<1>1. IsWellFoundedOn(R, Nat)
  BY NatLessThanWellFounded
<1>2. \A x, y \in Nat : y < x => <<y, x>> \in R
  BY DEF OpToRel
<1> HIDE DEF R
<1>3. \E x \in T : \A y \in T : ~(<<y, x>> \in R)
  BY <1>1, WFMin
<1>4. PICK x \in T : \A y \in T : ~(<<y, x>> \in R)
  BY <1>3
<1>5. ASSUME NEW y \in T PROVE x <= y
  <2>1. x \in Nat /\ y \in Nat /\ ~(y < x)
    BY <1>2, <1>4
  <2> QED
    BY <2>1
<1> QED
  BY <1>4, <1>5

\* A set of numbers up to m has a greatest one, which Max finds.
LEMMA MaxIsGreatest ==
  ASSUME NEW m \in Nat, NEW T, T \subseteq 0 .. m, T # {}
  PROVE  Max(T) \in T /\ \A y \in T : y <= Max(T)
<1> DEFINE D == {m - x : x \in T}
<1>1. D \subseteq Nat /\ D # {}
  <2>1. \A x \in T : x \in 0 .. m
    OBVIOUS
  <2>2. \A x \in 0 .. m : m - x \in Nat
    OBVIOUS
  <2> QED
    BY <2>1, <2>2
<1>2. PICK d \in D : \A e \in D : d <= e
  BY <1>1, LeastNatural
<1>3. PICK g \in T : d = m - g
  OBVIOUS
<1>4. ASSUME NEW y \in T PROVE g >= y
  <2>1. m - y \in D
    OBVIOUS
  <2>2. m - g <= m - y
    BY <1>2, <1>3, <2>1
  <2> QED
    BY <2>2
<1>5. Max(T) \in T /\ \A y \in T : Max(T) >= y
  BY <1>4 DEF Max
<1>6. ASSUME NEW y \in T PROVE y <= Max(T)
  BY <1>5
<1> QED
  BY <1>5, <1>6

\* Files up to moment m: the newest, and what one set of them being covered by another
\* says of it.
Covers(T, S) == \A s \in S : \E t \in T : t.at >= s.at

LEMMA NewestOf ==
  ASSUME NEW m \in Nat, NEW S, \A s \in S : s.at \in 0 .. m
  PROVE  /\ Newest(S) \in 0 .. m
         /\ \A s \in S : s.at <= Newest(S)
         /\ S # {} => \E s \in S : s.at = Newest(S)
<1> DEFINE A == {s.at : s \in S}
<1>1. CASE S = {}
  BY <1>1 DEF Newest
<1>2. CASE S # {}
  <2>1. A \subseteq 0 .. m /\ A # {} /\ Newest(S) = Max(A)
    BY <1>2 DEF Newest
  <2>2. Newest(S) \in A /\ \A y \in A : y <= Newest(S)
    BY <2>1, MaxIsGreatest
  <2> QED
    BY <2>1, <2>2
<1> QED
  BY <1>1, <1>2

LEMMA NewestCovered ==
  ASSUME NEW m \in Nat, NEW S, NEW T, \A s \in S : s.at \in 0 .. m, \A t \in T : t.at \in 0 .. m,
         Covers(T, S)
  PROVE  Newest(S) <= Newest(T)
<1>1. /\ Newest(S) \in 0 .. m /\ Newest(T) \in 0 .. m /\ \A t \in T : t.at <= Newest(T)
      /\ S # {} => \E s \in S : s.at = Newest(S)
  BY NewestOf
<1>2. CASE S = {}
  BY <1>1, <1>2 DEF Newest
<1>3. CASE S # {}
  <2>1. PICK s \in S : s.at = Newest(S)
    BY <1>1, <1>3
  <2>2. PICK t \in T : t.at >= s.at
    BY DEF Covers
  <2>3. t.at \in 0 .. m /\ s.at \in 0 .. m /\ t.at <= Newest(T)
    BY <1>1
  <2> QED
    BY <1>1, <2>1, <2>2, <2>3
<1> QED
  BY <1>2, <1>3

\* The inductive invariant: no file, and no write under way, is from the future.
BackupsInv ==
    /\ now \in Nat
    /\ snaps \subseteq [at : 0 .. now, kind : Kinds]
    /\ writer \in [who : {"none", "request", "job"}, kind : Kinds, at : 0 .. now,
                   pc : {"idle", "stream", "prune"}]

LEMMA BackupsStep == BackupsInv /\ [BackupNext]_backupVars => BackupsInv'
<1> SUFFICES ASSUME BackupsInv, [BackupNext]_backupVars PROVE BackupsInv'
  OBVIOUS
<1> USE DEF BackupsInv
<1>1. NoWrite \in [who : {"none", "request", "job"}, kind : Kinds, at : 0 .. now,
                   pc : {"idle", "stream", "prune"}]
  BY DEF NoWrite, Kinds
<1>2. CASE TakeSafetySnapshot \/ takeScheduled
  BY <1>2 DEF TakeSafetySnapshot, takeScheduled, WriteBegins, Kinds
<1>3. CASE WriteStream
  <2>1. [at |-> writer.at, kind |-> writer.kind] \in [at : 0 .. now, kind : Kinds]
    OBVIOUS
  <2>2. [writer EXCEPT !.pc = "prune"] \in [who : {"none", "request", "job"}, kind : Kinds,
                                            at : 0 .. now, pc : {"idle", "stream", "prune"}]
    OBVIOUS
  <2> QED
    BY <1>1, <1>3, <2>1, <2>2 DEF WriteStream
<1>4. CASE prune
  BY <1>1, <1>4 DEF prune, Kept
<1>5. CASE CancelBackup \/ CrashBackup
  BY <1>1, <1>5 DEF CancelBackup, CrashBackup
<1>6. CASE Tick
  <2>1. now' = now + 1 /\ snaps' = snaps /\ writer' = writer
    BY <1>6 DEF Tick
  <2>2. 0 .. now \subseteq 0 .. now'
    BY <2>1
  <2>3. snaps \subseteq [at : 0 .. now', kind : Kinds]
    BY <2>2
  <2>4. writer \in [who : {"none", "request", "job"}, kind : Kinds, at : 0 .. now',
                    pc : {"idle", "stream", "prune"}]
    BY <2>2
  <2> QED
    BY <2>1, <2>3, <2>4
<1>7. CASE \/ consider \/ backupRunNow \/ finishAttempt \/ ResumeBackup \/ UNCHANGED backupVars
           \/ \E c \in Callers : SubmitBackup(c) \/ SubmitAnswered(c)
           \/ \E on \in BOOLEAN : backupSetSchedule(on)
  BY <1>7 DEF consider, backupRunNow, finishAttempt, ResumeBackup, SubmitBackup, SubmitAnswered,
     backupSetSchedule, backupVars
<1> QED
  BY <1>2, <1>3, <1>4, <1>5, <1>6, <1>7 DEF BackupNext

\* Pruning leaves, of every kind, a file at least as new as any it takes.
LEMMA KeptCovers ==
  ASSUME BackupsInv, NEW kind \in Kinds, NEW keep \in Nat \ {0}, NEW k \in Kinds
  PROVE  Covers({s \in Kept(kind, keep) : s.kind = k}, OfKind(k))
<1> DEFINE S == OfKind(kind)
<1>1. \A s \in snaps : s.at \in 0 .. now
  BY DEF BackupsInv
<1>2. CASE k # kind
  <2>1. ASSUME NEW s \in OfKind(k) PROVE s \in Kept(kind, keep) /\ s.kind = k /\ s.at >= s.at
    BY <1>1, <1>2 DEF Kept, OfKind
  <2> QED
    BY <2>1 DEF Covers
<1>3. ASSUME k = kind, NEW s \in S PROVE \E t \in Kept(kind, keep) : t.kind = k /\ t.at >= s.at
  <2>1. \A t \in S : t.at \in 0 .. now /\ t \in snaps /\ t.kind = kind
    BY <1>1 DEF OfKind
  <2>2. PICK g \in S : g.at = Newest(S)
    BY <1>3, <2>1, NewestOf DEF BackupsInv
  <2>3. \A t \in S : t.at <= g.at
    BY <2>1, <2>2, NewestOf DEF BackupsInv
  <2>4. {t \in S : t.at > g.at} = {}
    BY <2>1, <2>3
  <2>5. Cardinality({t \in S : t.at > g.at}) = 0
    BY <2>4, FS_EmptySet
  <2>6. g \in Kept(kind, keep)
    BY <2>1, <2>5 DEF Kept
  <2>7. g.at >= s.at
    BY <1>3, <2>1, <2>3
  <2> QED
    BY <1>3, <2>1, <2>6, <2>7
<1> QED
  BY <1>2, <1>3 DEF Covers

\* No step loses the newest file of a kind or all of another kind's, and a snapshot that
\* is fresh stays so (SafetySnapshots.prune, Latest).
THEOREM NewestSurvives == BackupSpec => NewestIsKept
<1>1. BackupInit => BackupsInv
  BY DEF BackupInit, BackupsInv, NoWrite, Kinds
<1> DEFINE Stays == /\ \A k \in Kinds :
                         /\ Newest(OfKind(k)') >= Newest(OfKind(k))
                         /\ writer.kind # k => OfKind(k) \subseteq OfKind(k)'
                    /\ FreshEnough /\ now' = now => FreshEnough'
<1>2. BackupsInv /\ BackupsInv' /\ [BackupNext]_backupVars => [Stays]_backupVars
  <2> SUFFICES ASSUME BackupsInv, BackupsInv', BackupNext PROVE Stays
    OBVIOUS
  <2>1. /\ now \in Nat /\ now' \in Nat /\ writer.kind \in Kinds
        /\ \A s \in snaps : s.at \in 0 .. now /\ s.kind \in Kinds
        /\ \A s \in snaps' : s.at \in 0 .. now' /\ s.kind \in Kinds
    BY DEF BackupsInv
  <2>2. snaps \subseteq snaps' \/ prune
    BY DEF BackupNext, TakeSafetySnapshot, takeScheduled, WriteStream, CancelBackup, CrashBackup,
       Tick, consider, backupRunNow, finishAttempt, ResumeBackup, SubmitBackup, SubmitAnswered,
       backupSetSchedule
  <2>3. ASSUME NEW k \in Kinds
        PROVE  /\ Covers(OfKind(k)', OfKind(k))
               /\ writer.kind # k => OfKind(k) \subseteq OfKind(k)'
    <3>1. CASE snaps \subseteq snaps'
      BY <2>1, <3>1 DEF OfKind, Covers
    <3>2. CASE prune
      <4> DEFINE keep == IF writer.kind = "upgrade" THEN KeepSafety ELSE Keep
      <4>1. keep \in Nat \ {0}
        BY BackupsAssumption
      <4>2. snaps' = Kept(writer.kind, keep)
        BY <3>2 DEF prune
      <4> HIDE DEF keep
      <4>3. Covers(OfKind(k)', OfKind(k))
        BY <2>1, <4>1, <4>2, KeptCovers DEF OfKind
      <4>4. writer.kind # k => OfKind(k) \subseteq OfKind(k)'
        BY <4>2 DEF OfKind, Kept
      <4> QED
        BY <4>3, <4>4
    <3> QED
      BY <2>2, <3>1, <3>2
  <2>4. PICK m \in Nat : now <= m /\ now' <= m
    BY <2>1
  <2>5. /\ \A s \in snaps : s.at \in 0 .. m /\ s.kind \in Kinds
        /\ \A s \in snaps' : s.at \in 0 .. m /\ s.kind \in Kinds
    BY <2>1, <2>4
  <2>6. ASSUME NEW k \in Kinds PROVE Newest(OfKind(k)') >= Newest(OfKind(k))
    <3>1. /\ \A s \in OfKind(k) : s.at \in 0 .. m
          /\ \A s \in OfKind(k)' : s.at \in 0 .. m
      BY <2>5 DEF OfKind
    <3>2. Newest(OfKind(k)) <= Newest(OfKind(k)')
      BY <2>3, <3>1, NewestCovered
    <3>3. Newest(OfKind(k)) \in 0 .. m /\ Newest(OfKind(k)') \in 0 .. m
      BY <3>1, NewestOf
    <3> QED
      BY <3>2, <3>3
  <2>7. Newest(snaps) <= Newest(snaps')
    <3>1. Covers(snaps', snaps)
      <4> SUFFICES ASSUME NEW s \in snaps PROVE \E t \in snaps' : t.at >= s.at
        BY DEF Covers
      <4>1. s \in OfKind(s.kind) /\ s.kind \in Kinds
        BY <2>5 DEF OfKind
      <4>2. PICK t \in OfKind(s.kind)' : t.at >= s.at
        BY <2>3, <4>1 DEF Covers
      <4> QED
        BY <4>2 DEF OfKind
    <3> QED
      BY <2>5, <3>1, NewestCovered
  <2>8. FreshEnough /\ now' = now => FreshEnough'
    <3> SUFFICES ASSUME FreshEnough, now' = now PROVE FreshEnough'
      OBVIOUS
    <3>1. Newest(snaps) \in 0 .. now /\ Newest(snaps') \in 0 .. now
      BY <2>1, NewestOf
    <3>2. MaxSnapshotAge \in Nat
      BY BackupsAssumption
    <3> QED
      BY <2>1, <2>7, <3>1, <3>2 DEF FreshEnough, Latest
  <2> QED
    BY <2>3, <2>6, <2>8
<1> QED
  BY <1>1, <1>2, BackupsStep, PTL DEF BackupSpec, NewestIsKept
----------------------------------------------------------------------------
(***************************************************************************)
(* Draining a node.                                                        *)
(***************************************************************************)

\* What the options and the sort of a running pod make of it; only a pod that ended is
\* judged otherwise.
Movable(p) ==
    /\ pod[p].sort # "mirror" /\ pod[p].sort # "daemonset"
    /\ pod[p].sort = "bare" => drain.opts.force
    /\ pod[p].sort = "localdata" => drain.opts.deleteLocalData

\* The shape of the state.
DrainTypeOK ==
    /\ pod \in [DrainPods -> [sort : PodSorts, at : {"running", "terminating", "ended", "elsewhere"}]]
    /\ DOMAIN drain = {"at", "opts", "listed", "left", "blocked", "bound"}
    /\ drain.listed \subseteq DrainPods

\* While the drain evicts, a listed pod that still runs and should move is one a budget
\* refused, or one whose turn is still to come.
DrainInv ==
    /\ DrainTypeOK
    /\ drain.at = "evict" =>
         \A p \in drain.listed \ drain.bound :
           pod[p].at = "running" /\ Movable(p) =>
             p \in drain.blocked \/ \E l \in drain.left : l.pod = p /\ l.as = "evictable"

\* The classification of a running pod.
LEMMA MovesIfMovable ==
  ASSUME DrainTypeOK, NEW p \in DrainPods, pod[p].at = "running"
  PROVE  wouldMove(p) <=> Movable(p)
<1>1. pod[p].sort \in PodSorts
  BY DEF DrainTypeOK
<1>2. CASE pod[p].sort = "owned"
  BY <1>2 DEF wouldMove, Movable, classifyPod
<1>3. CASE pod[p].sort = "mirror"
  BY <1>3 DEF wouldMove, Movable, classifyPod
<1>4. CASE pod[p].sort = "daemonset"
  BY <1>4 DEF wouldMove, Movable, classifyPod
<1>5. CASE pod[p].sort = "bare"
  BY <1>5 DEF wouldMove, Movable, classifyPod
<1>6. CASE pod[p].sort = "localdata"
  BY <1>6 DEF wouldMove, Movable, classifyPod
<1> QED
  BY <1>1, <1>2, <1>3, <1>4, <1>5, <1>6 DEF PodSorts

\* A pod that does not run, or that is bound while the drain evicts, is nothing the drain
\* still owes.
LEMMA PodsChange ==
  ASSUME DrainInv, DrainTypeOK', drain'.at = "evict" => drain.at = "evict",
         drain'.opts = drain.opts, drain'.left = drain.left, drain'.blocked = drain.blocked,
         drain'.listed = drain.listed, drain.bound \subseteq drain'.bound,
         \A p \in DrainPods : \/ pod'[p] = pod[p]
                              \/ pod'[p].at # "running"
                              \/ p \in drain'.bound
  PROVE  DrainInv'
  BY DEF DrainInv, DrainTypeOK, Movable

\* Every step of the drain and of the cluster beside it.
LEMMA DrainStep == DrainInv /\ [DrainNext]_drainVars => DrainInv'
<1> SUFFICES ASSUME DrainInv, [DrainNext]_drainVars PROVE DrainInv'
  OBVIOUS
<1>1. /\ DrainTypeOK /\ OnNode \subseteq DrainPods
      /\ DOMAIN drain = {"at", "opts", "listed", "left", "blocked", "bound"}
  BY DEF DrainInv, DrainTypeOK, OnNode
<1>2. CASE Cordon \/ DrainReturns \/ DrainFails \/ DaemonStops \/ DrainHappened
  <2>1. /\ DOMAIN drain' = {"at", "opts", "listed", "left", "blocked", "bound"}
        /\ drain'.at # "evict" /\ pod' = pod
        /\ drain'.listed \in {drain.listed, {}, OnNode}
    BY <1>1, <1>2 DEF Cordon, DrainReturns, DrainFails, DaemonStops, DrainHappened
  <2> QED
    BY <1>1, <2>1 DEF DrainInv, DrainTypeOK
<1>3. CASE PodsOnNode
  <2>1. /\ DOMAIN drain' = {"at", "opts", "listed", "left", "blocked", "bound"}
        /\ drain'.listed = OnNode /\ pod' = pod /\ drain'.opts = drain.opts
        /\ drain'.left = {[pod |-> p, as |-> classifyPod(p, drain.opts)] : p \in OnNode}
    BY <1>1, <1>3 DEF PodsOnNode
  <2>2. ASSUME NEW p \in OnNode, pod[p].at = "running", Movable(p)
        PROVE  \E l \in drain'.left : l.pod = p /\ l.as = "evictable"
    <3>1. classifyPod(p, drain.opts) = "evictable" /\ p \in DrainPods
      BY <1>1, <2>2, MovesIfMovable DEF wouldMove
    <3>2. [pod |-> p, as |-> classifyPod(p, drain.opts)] \in drain'.left
      BY <2>1
    <3> QED
      BY <3>1, <3>2
  <2>3. DrainTypeOK'
    BY <1>1, <2>1 DEF DrainTypeOK
  <2> QED
    BY <2>1, <2>2, <2>3 DEF DrainInv, Movable
<1>4. ASSUME NEW l \in drain.left, DrainsPod(l) PROVE DrainInv'
  <2>1. /\ DOMAIN drain' = {"at", "opts", "listed", "left", "blocked", "bound"}
        /\ drain'.listed = drain.listed /\ drain'.opts = drain.opts /\ drain'.bound = drain.bound
        /\ drain.at = "evict" /\ drain'.left = drain.left \ {l}
        /\ drain.blocked \subseteq drain'.blocked
        /\ l.as = "evictable" /\ BudgetRefuses(l.pod) => l.pod \in drain'.blocked
    BY <1>1, <1>4 DEF DrainsPod, evict
  <2>2. CASE l.as = "evictable"
    <3>1. pod' = [pod EXCEPT ![l.pod].at = IF @ = "running" /\ ~BudgetRefuses(l.pod)
                                           THEN "terminating" ELSE @]
      BY <1>4, <2>2 DEF DrainsPod, evictPod
    <3>2. DrainTypeOK'
      <4> DEFINE P == [sort : PodSorts, at : {"running", "terminating", "ended", "elsewhere"}]
      <4>1. pod' \in [DrainPods -> P]
        <5>1. CASE pod' = pod
          BY <1>1, <5>1 DEF DrainTypeOK
        <5>2. CASE pod' # pod /\ l.pod \in DrainPods
          <6>1. pod' = [pod EXCEPT ![l.pod].at = "terminating"] \/ pod' = [pod EXCEPT ![l.pod].at = @]
            BY <3>1
          <6>2. [pod[l.pod] EXCEPT !.at = "terminating"] \in P /\ [pod[l.pod] EXCEPT !.at = @] \in P
            BY <1>1, <5>2 DEF DrainTypeOK
          <6> QED
            BY <1>1, <5>2, <6>1, <6>2 DEF DrainTypeOK
        <5>3. CASE l.pod \notin DrainPods
          BY <1>1, <3>1, <5>3 DEF DrainTypeOK
        <5> QED
          BY <5>1, <5>2, <5>3
      <4> QED
        BY <1>1, <2>1, <4>1 DEF DrainTypeOK
    <3>3. \A p \in DrainPods : /\ pod'[p] = pod[p] \/ pod'[p].at # "running"
                               /\ p = l.pod /\ pod'[p].at = "running" => BudgetRefuses(p)
      BY <1>1, <3>1 DEF DrainTypeOK
    <3> QED
      BY <1>1, <2>1, <2>2, <3>2, <3>3 DEF DrainInv, DrainTypeOK, Movable
  <2>3. CASE l.as # "evictable"
    <3>1. pod' = pod
      BY <1>4, <2>3 DEF DrainsPod
    <3>2. DrainTypeOK'
      BY <1>1, <2>1, <3>1 DEF DrainTypeOK
    <3> QED
      BY <2>1, <2>3, <3>1, <3>2 DEF DrainInv, Movable
  <2> QED
    BY <2>2, <2>3
<1>5. ASSUME NEW p \in DrainPods, PodMoves(p) PROVE DrainInv'
  <2>1. \A q \in DrainPods : pod'[q] = pod[q] \/ pod'[q].at # "running"
    BY <1>1, <1>5 DEF PodMoves, DrainTypeOK
  <2>2. DrainTypeOK' /\ drain' = drain
    BY <1>1, <1>5 DEF PodMoves, DrainTypeOK
  <2> QED
    BY <2>1, <2>2, PodsChange
<1>6. ASSUME NEW p \in DrainPods, PodBinds(p) PROVE DrainInv'
  <2>1. \A q \in DrainPods : pod'[q] = pod[q] \/ q = p
    BY <1>1, <1>6 DEF PodBinds, DrainTypeOK
  <2>2. /\ DOMAIN drain' = {"at", "opts", "listed", "left", "blocked", "bound"}
        /\ drain'.listed = drain.listed /\ drain'.opts = drain.opts
        /\ drain'.bound = drain.bound \union {p} /\ drain'.at = drain.at
        /\ drain'.left = drain.left /\ drain'.blocked = drain.blocked
    BY <1>1, <1>6 DEF PodBinds
  <2>3. DrainTypeOK'
    BY <1>1, <1>6, <2>2 DEF PodBinds, DrainTypeOK
  <2> QED
    BY <2>1, <2>2, <2>3, PodsChange
<1>7. CASE \/ OperatorUncordons \/ UNCHANGED drainVars
           \/ \E p \in DrainPods : BudgetChanges(p)
  <2>1. UNCHANGED <<pod, drain>>
    BY <1>7 DEF OperatorUncordons, BudgetChanges, drainVars
  <2> QED
    BY <2>1 DEF DrainInv, DrainTypeOK, Movable
<1> QED
  BY <1>2, <1>3, <1>4, <1>5, <1>6, <1>7 DEF DrainNext

\* A drain that reports success has moved every pod it listed and would move, whatever
\* budgets refused and however often the daemon stopped (Drain, drainStep's Happened).
THEOREM DrainedMeansMoved == DrainSpec => SuccessMovedThem
<1>1. DrainInit => DrainInv
  <2> SUFFICES ASSUME DrainInit PROVE DrainInv
    OBVIOUS
  <2>1. drain.at = "do" /\ drain.listed = {}
    BY DEF DrainInit
  <2>2. DrainTypeOK
    BY DEF DrainInit, DrainTypeOK
  <2> QED
    BY <2>1, <2>2 DEF DrainInv
<1> DEFINE Moved == (drain.at # "succeeded" /\ drain'.at = "succeeded") =>
                      \A p \in drain'.listed \ drain'.bound :
                        pod'[p].at = "running" => ~wouldMove(p)'
<1>2. DrainInv /\ [DrainNext]_drainVars => [Moved]_drainVars
  <2> SUFFICES ASSUME DrainInv, DrainNext, drain.at # "succeeded", drain'.at = "succeeded",
                      NEW p \in drain'.listed \ drain'.bound, pod'[p].at = "running"
               PROVE  ~wouldMove(p)'
    OBVIOUS
  <2>1. /\ DrainTypeOK /\ OnNode \subseteq DrainPods
        /\ DOMAIN drain = {"at", "opts", "listed", "left", "blocked", "bound"}
    BY DEF DrainInv, DrainTypeOK, OnNode
  <2>2. CASE DrainReturns
    <3>1. /\ drain.at = "evict" /\ drain.left = {} /\ drain.blocked = {} /\ pod' = pod
          /\ drain'.opts = drain.opts /\ drain'.listed = drain.listed /\ drain'.bound = drain.bound
      BY <2>1, <2>2 DEF DrainReturns
    <3>2. ~Movable(p) /\ p \in DrainPods
      BY <3>1 DEF DrainInv, DrainTypeOK
    <3>3. ~wouldMove(p)
      BY <2>1, <3>1, <3>2, MovesIfMovable
    <3> QED
      BY <3>1, <3>3 DEF wouldMove, classifyPod
  <2>3. CASE DrainHappened
    <3>1. /\ drain'.listed = OnNode /\ pod' = pod /\ drain'.opts = drain.opts
          /\ \A q \in OnNode : ~wouldMove(q)
      BY <2>1, <2>3 DEF DrainHappened
    <3> QED
      BY <3>1 DEF wouldMove, classifyPod
  <2>4. CASE ~DrainReturns /\ ~DrainHappened
    <3>1. CASE Cordon \/ PodsOnNode \/ DrainFails \/ DaemonStops
      BY <2>1, <3>1 DEF Cordon, PodsOnNode, DrainFails, DaemonStops
    <3>2. ASSUME NEW l \in drain.left, DrainsPod(l) PROVE FALSE
      BY <2>1, <3>2 DEF DrainsPod
    <3>3. ASSUME NEW q \in DrainPods, PodMoves(q) \/ PodBinds(q) \/ BudgetChanges(q) PROVE FALSE
      BY <2>1, <3>3 DEF PodMoves, PodBinds, BudgetChanges
    <3>4. CASE OperatorUncordons
      BY <3>4 DEF OperatorUncordons
    <3> QED
      BY <2>4, <3>1, <3>2, <3>3, <3>4 DEF DrainNext
  <2> QED
    BY <2>2, <2>3, <2>4
<1> QED
  BY <1>1, <1>2, DrainStep, PTL DEF DrainSpec, SuccessMovedThem
----------------------------------------------------------------------------
(***************************************************************************)
(* A pasted manifest.                                                      *)
(***************************************************************************)

\* One call of an apply: it takes no field from another manager.
LEMMA ApplyTakesNothing ==
  ASSUME DOMAIN held = Keys, NEW x, NEW v, serveObject(x, v), NEW k \in Keys,
         held[k].there, held[k].by # "us"
  PROVE  held'[k].there /\ held'[k].val = held[k].val
<1>1. CASE held' = held
  BY <1>1
<1>2. CASE k # x
  BY <1>2 DEF serveObject, serveApply
<1>3. CASE held' # held /\ k = x
  <2>1. ~conflicts(x, v) /\ held' = [held EXCEPT ![x] = Object(v, "both")]
    BY <1>3 DEF serveObject, serveApply
  <2>2. held'[k] = Object(v, "both") /\ held[k].val = v
    BY <1>3, <2>1 DEF conflicts
  <2> QED
    BY <2>2 DEF Object
<1> QED
  BY <1>1, <1>2, <1>3

\* An apply changes no field that somebody else manages, also one that was written after
\* the plan was read, and also when the answer of the call is lost (Client.Apply without
\* force).
THEOREM ApplyLeavesOthersFields == ManifestSpec => FieldsAreNotTaken
<1> DEFINE HeldOK == DOMAIN held = Keys
<1> DEFINE Kept1 == \A k \in Keys :
                      ask.op = "apply" /\ ask'.op = "apply" /\ ask.next # ask'.next
                        /\ held[k].there /\ held[k].by # "us"
                        => held'[k].there /\ held'[k].val = held[k].val
<1>1. ManifestInit => HeldOK
  BY DEF ManifestInit
<1>2. HeldOK /\ [ManifestNext]_manifestVars => HeldOK'
  <2> SUFFICES ASSUME HeldOK, [ManifestNext]_manifestVars PROVE HeldOK'
    OBVIOUS
  <2>1. CASE ApplyManifest \/ AnswerLost
    BY <2>1 DEF ApplyManifest, AnswerLost, serveObject, serveApply
  <2>2. CASE OtherWrites \/ OtherDeletes
    BY <2>2 DEF OtherWrites, OtherDeletes
  <2>3. CASE manifestFrom \/ PlanManifest \/ ManifestBudgetEnds \/ kubernetesManifestApply
             \/ KindAppears \/ UNCHANGED manifestVars
    BY <2>3 DEF manifestFrom, PlanManifest, ManifestBudgetEnds, kubernetesManifestApply,
       KindAppears, manifestVars
  <2> QED
    BY <2>1, <2>2, <2>3 DEF ManifestNext
<1>3. HeldOK /\ [ManifestNext]_manifestVars => [Kept1]_manifestVars
  <2> SUFFICES ASSUME HeldOK, ManifestNext, NEW k \in Keys,
                      ask.op = "apply", ask'.op = "apply", ask.next # ask'.next,
                      held[k].there, held[k].by # "us"
               PROVE  held'[k].there /\ held'[k].val = held[k].val
    OBVIOUS
  <2>1. CASE ApplyManifest
    <3>1. CASE resolves(Current) /\ ~ask.over
      <4>1. serveObject(resolve(Current), Current.val)
        BY <2>1, <3>1 DEF ApplyManifest
      <4> QED
        BY <4>1, ApplyTakesNothing
    <3>2. CASE ~(resolves(Current) /\ ~ask.over)
      BY <2>1, <3>2 DEF ApplyManifest
    <3> QED
      BY <3>1, <3>2
  <2>2. CASE AnswerLost
    <3>1. serveObject(resolve(Current), Current.val)
      BY <2>2 DEF AnswerLost
    <3> QED
      BY <3>1, ApplyTakesNothing
  <2>3. CASE manifestFrom \/ PlanManifest \/ kubernetesManifestApply \/ KindAppears
    BY <2>3 DEF manifestFrom, PlanManifest, Serving, kubernetesManifestApply, KindAppears
  <2>4. CASE ManifestBudgetEnds \/ OtherWrites \/ OtherDeletes
    BY <2>4 DEF ManifestBudgetEnds, OtherWrites, OtherDeletes
  <2> QED
    BY <2>1, <2>2, <2>3, <2>4 DEF ManifestNext
<1> QED
  BY <1>1, <1>2, <1>3, PTL DEF ManifestSpec, FieldsAreNotTaken

----------------------------------------------------------------------------
(***************************************************************************)
(* Switching nodes off and on.                                             *)
(***************************************************************************)

\* The inductive invariant: between its two writes a cordon has made the mark, and between
\* its two writes an uncordon has taken the cordon away and nobody's cordon since is a
\* cordon step's.
CordonInv ==
    /\ DOMAIN by = Nodes
    /\ phase = "marked" => \A n \in Nodes : n \in On => n \in marked
    /\ phase = "clear" => \A n \in Nodes : n = Turn => by[n] # "job"
    /\ JobCordonIsOwed

\* A step that changes neither marks nor cordons, and is in neither of those places
\* afterwards, or has not moved.
LEMMA CordonsLeft ==
  ASSUME CordonInv, UNCHANGED <<by, marked>>,
         phase' \notin {"marked", "clear"} \/ UNCHANGED <<phase, todo, left>>
  PROVE  CordonInv'
  BY DEF CordonInv, JobCordonIsOwed, On, Turn

\* Cordons by others, the job's place and the marks left alone.
LEMMA OthersCordon ==
  ASSUME CordonInv, UNCHANGED <<marked, phase, todo, left>>, DOMAIN by' = Nodes,
         \A n \in Nodes : by'[n] = by[n] \/ by'[n] # "job"
  PROVE  CordonInv'
  BY DEF CordonInv, JobCordonIsOwed, On, Turn

LEMMA CordonStep == CordonInv /\ [Next]_vars => CordonInv'
<1> SUFFICES ASSUME CordonInv, [Next]_vars PROVE CordonInv'
  OBVIOUS
<1> USE DEF world, records, running, history, counts
<1>1. CASE \/ \E a \in NodeVerbs, n \in Nodes : PressNode(a, n)
           \/ \E a \in ClusterVerbs : PressCluster(a)
           \/ Crash \/ SweepList \/ UNCHANGED vars
           \/ \E n \in Nodes : GoesDown(n) \/ ComesUp(n) \/ Fails(n) \/ PowerButton(n)
  <2>1. UNCHANGED <<by, marked, phase, todo, left>>
    BY <1>1 DEF PressNode, PressCluster, Crash, SweepList, vars, GoesDown, ComesUp, Fails,
       PowerButton
  <2> QED
    BY <2>1, CordonsLeft
<1>2. CASE Submit \/ Advance \/ StepFails \/ Resume
  <2>1. UNCHANGED <<by, marked>>
    BY <1>2 DEF Submit, Advance, StepFails, Resume
  <2>2. phase' \in {"ready", "idle"} \/ UNCHANGED <<phase, todo, left>>
    BY <1>2 DEF Submit, Advance, StepFails, Resume, Onward, Ended
  <2> QED
    BY <2>1, <2>2, CordonsLeft
<1>3. CASE Look \/ CordonLook \/ Shutdown \/ ForceOffAll \/ Reboot \/ Wake \/ Mark \/ MarkCluster
           \/ UncordonWhom
  <2>1. UNCHANGED <<by, marked>>
    BY <1>3 DEF Look, CordonLook, Shutdown, ForceOffAll, Reboot, Wake, Mark, MarkCluster,
       UncordonWhom
  <2>2. phase' \in {"ready", "idle", "did", "free", "each"}
    BY <1>3 DEF Look, CordonLook, Shutdown, ForceOffAll, Reboot, Wake, Mark, MarkCluster,
       UncordonWhom, Did, Onward, Ended
  <2> QED
    BY <2>1, <2>2, CordonsLeft
<1>4. CASE CordonMark
  BY <1>4 DEF CordonMark, CordonInv, JobCordonIsOwed, On
<1>5. CASE CordonNode
  BY <1>5 DEF CordonNode, CordonInv, JobCordonIsOwed, On, Did
<1>6. CASE Drain
  BY <1>6 DEF Drain, CordonInv, JobCordonIsOwed, Did
<1>7. CASE Remember
  BY <1>7 DEF Remember, CordonInv, JobCordonIsOwed, Did
<1>8. CASE UncordonNode
  BY <1>8 DEF UncordonNode, CordonInv, JobCordonIsOwed, Turn
<1>9. CASE UncordonClear
  BY <1>9 DEF UncordonClear, CordonInv, JobCordonIsOwed
<1>10. CASE keepCordoned
  <2>1. DOMAIN by' = Nodes /\ \A n \in Nodes : by'[n] = by[n] \/ by'[n] # "job"
    BY <1>10 DEF keepCordoned, CordonInv
  <2> QED
    BY <1>10, <2>1, OthersCordon DEF keepCordoned
<1>11. ASSUME NEW n \in Nodes, HandCordon(n) \/ HandUncordon(n) PROVE CordonInv'
  <2>1. DOMAIN by' = Nodes /\ \A k \in Nodes : by'[k] = by[k] \/ by'[k] # "job"
    BY <1>11 DEF HandCordon, HandUncordon, CordonInv
  <2>2. UNCHANGED <<marked, phase, todo, left>>
    BY <1>11 DEF HandCordon, HandUncordon
  <2> QED
    BY <2>1, <2>2, OthersCordon
<1> QED
  BY <1>1, <1>2, <1>3, <1>4, <1>5, <1>6, <1>7, <1>8, <1>9, <1>10, <1>11 DEF Next, StepActions

\* A cordon a job made is marked as one it has to take back, whatever fails, is cancelled
\* or restarts, and whoever cordons beside it (internal/power steps.go, cordon and
\* uncordon).
THEOREM CordonsAreOwed == Spec => []JobCordonIsOwed
<1>1. Init => CordonInv
  BY DEF Init, CordonInv, JobCordonIsOwed
<1>2. CordonInv => JobCordonIsOwed
  BY DEF CordonInv
<1> QED
  BY <1>1, <1>2, CordonStep, PTL DEF Spec

----------------------------------------------------------------------------
(***************************************************************************)
(* The list of apps: whose figures are missing.                            *)
(***************************************************************************)

\* A kubelet's turn, while the summaries are read.
Turns == {"notAsked", "waiting", "inFlight", "answered", "failed"}

\* A pod is on a node of the cluster, and so is every row that was read; a pod
\* has one row.
PodsInv == \A p \in DOMAIN kpod : kpod[p].there => kpod[p].node \in Kubelets
RowsInv ==
    reader.at \in {"usage", "asking", "done"} =>
      \A r \in reader.rows : /\ r.node \in Kubelets
                             /\ \A s \in reader.rows : s.pod = r.pod => s.node = r.node

\* A figure is only read from a kubelet's answer.
IntoInv ==
    /\ reader.at = "usage" => reader.into = {}
    /\ reader.at = "asking" =>
         \A r \in reader.rows : <<r.node, r.pod>> \in reader.into => asked[r.node] = "answered"

\* While they are asked, exactly the nodes with a row have a turn.
TurnsInv ==
    /\ DOMAIN asked = Kubelets
    /\ reader.at = "asking" =>
         \A n \in Kubelets : /\ asked[n] \in Turns
                             /\ asked[n] # "notAsked" <=> n \in nodesOf

KubeInv == PodsInv /\ RowsInv /\ IntoInv /\ TurnsInv /\ SilenceIsSaid

\* A step that reads nothing leaves what was read alone.
LEMMA ReadingUnchanged ==
    ASSUME KubeInv, UNCHANGED readVars, PodsInv'
    PROVE  KubeInv'
BY DEF KubeInv, RowsInv, IntoInv, TurnsInv, SilenceIsSaid, readVars, nodesOf

\* What the cluster does to its pods keeps them on its nodes.
LEMMA PodsStayOnNodes ==
    ASSUME PodsInv, KubeNext
    PROVE  PodsInv'
<1>1. CASE kpod' = kpod
    BY <1>1 DEF PodsInv
<1>2. CASE ClusterDoes
    <2>1. ASSUME NEW p \in PodNames, NEW n \in Kubelets, PodReplaced(p, n) PROVE PodsInv'
        BY <2>1 DEF PodReplaced, PodsInv
    <2>2. ASSUME NEW p \in PodNames, NEW n \in Kubelets, NEW o \in PodOwners, PodStarts(p, o, n)
          PROVE  PodsInv'
        BY <2>2 DEF PodStarts, PodsInv
    <2>3. ASSUME NEW p \in PodNames, PodEnds(p) PROVE PodsInv'
        BY <2>3 DEF PodEnds, PodsInv
    <2> QED
        BY <1>1, <1>2, <2>1, <2>2, <2>3
        DEF ClusterDoes, ClusterHappens, RollsOut, RollsBack, JobStarts, KubeJobEnds
<1>3. ASSUME NEW kind, NEW name, Sweep(kind, name) PROVE PodsInv'
    BY <1>3 DEF Sweep, PodsInv, Nothing
<1> QED
    BY <1>1, <1>2, <1>3
    DEF KubeNext, Apps, Sweeping, ReadSets, ReadJobs, collectApps, StartSummaries, TakeSlot,
        summariesCut, nodeSummary, BudgetEnds, readUsage, RequestEnds, PlanPods, PlanJobs,
        PlanSweep, kubernetesSweep, SweepEnds, TimePasses, clusterVars

\* A node that does not answer is named, and its pods have no figure of a
\* kubelet's, whatever moved between the reads.
THEOREM SilentNodesAreNamed == KubeSpec => []SilenceIsSaid
<1>1. KubeInit => KubeInv
    BY DEF KubeInit, KubeInv, PodsInv, RowsInv, IntoInv, TurnsInv, SilenceIsSaid, NoRead, Nothing
<1>2. KubeInv /\ [KubeNext]_kubeVars => KubeInv'
    <2> SUFFICES ASSUME KubeInv, [KubeNext]_kubeVars PROVE KubeInv'
        OBVIOUS
    <2>0. CASE UNCHANGED kubeVars
        BY <2>0, ReadingUnchanged DEF KubeInv, PodsInv, kubeVars, readVars
    <2> SUFFICES ASSUME KubeNext PROVE KubeInv'
        BY <2>0
    <2>p. PodsInv'
        BY PodsStayOnNodes DEF KubeInv
    <2>1. CASE ReadSets \/ ReadJobs \/ RequestEnds
        BY <2>1, <2>p
        DEF KubeInv, RowsInv, IntoInv, TurnsInv, SilenceIsSaid, ReadSets, ReadJobs, RequestEnds,
            NoRead
    <2>2. CASE collectApps
        <3>1. \A r \in reader'.rows : /\ r.node \in Kubelets
                                     /\ \A s \in reader'.rows : s.pod = r.pod => s.node = r.node
            <4>1. \A p \in There(kpod) : renderPod(p).node \in Kubelets
                BY DEF KubeInv, PodsInv, There, renderPod
            <4> HIDE DEF renderPod, appOf
            <4>2. reader'.rows =
                    {[pod |-> p, node |-> renderPod(p).node,
                      key |-> appOf(renderPod(p), p, reader.deploymentOf, reader.cronJobOf)] :
                     p \in {q \in There(kpod) : ~finished(renderPod(q))}}
                BY <2>2 DEF collectApps, writePods
            <4> QED
                BY <4>1, <4>2
        <3> QED
            BY <2>2, <2>p, <3>1
            DEF collectApps, KubeInv, RowsInv, IntoInv, TurnsInv, SilenceIsSaid
    <2>3. CASE StartSummaries
        <3>1. /\ reader'.at = "asking" /\ reader'.rows = reader.rows /\ reader'.into = reader.into
              /\ nodesOf' = nodesOf
            BY <2>3 DEF StartSummaries, nodesOf
        <3> QED
            BY <2>3, <2>p, <3>1
            DEF StartSummaries, KubeInv, RowsInv, IntoInv, TurnsInv, SilenceIsSaid, Turns
    <2>4. ASSUME NEW n \in Kubelets, TakeSlot(n) \/ summariesCut(n) PROVE KubeInv'
        <3>1. nodesOf' = nodesOf
            BY <2>4 DEF TakeSlot, summariesCut, nodesOf
        <3> QED
            BY <2>4, <2>p, <3>1
            DEF TakeSlot, summariesCut, KubeInv, RowsInv, IntoInv, TurnsInv, SilenceIsSaid, Turns
    <2>5. ASSUME NEW n \in Kubelets, nodeSummary(n) PROVE KubeInv'
        <3>1. CASE UNCHANGED reader
            BY <2>5, <2>p, <3>1
            DEF nodeSummary, KubeInv, RowsInv, IntoInv, TurnsInv, SilenceIsSaid, Turns, nodesOf
        <3>2. ASSUME NEW measured, asked' = [asked EXCEPT ![n] = "answered"],
                     reader' = [reader EXCEPT !.into = @ \union ({n} \X measured)]
              PROVE  KubeInv'
            <4>1. /\ reader'.at = reader.at /\ reader'.rows = reader.rows
                  /\ reader'.into = reader.into \union ({n} \X measured)
                  /\ nodesOf' = nodesOf
                BY <3>2 DEF nodesOf
            <4> QED
                BY <2>5, <2>p, <3>2, <4>1
                DEF nodeSummary, KubeInv, RowsInv, IntoInv, TurnsInv, SilenceIsSaid, Turns
        <3> QED
            BY <2>5, <3>1, <3>2 DEF nodeSummary
    <2>6. CASE BudgetEnds
        BY <2>6, <2>p DEF BudgetEnds, KubeInv, RowsInv, IntoInv, TurnsInv, SilenceIsSaid, nodesOf
    <2>7. CASE readUsage
        <3> DEFINE failed == {n \in Kubelets : asked[n] = "failed"}
                   heard == {n \in Kubelets : asked[n] = "answered"}
        <3>1. /\ reader'.at = "done" /\ reader'.rows = reader.rows
              /\ reader'.named = failed /\ reader'.heard = heard
              /\ (failed = nodesOf /\ nodesOf # {}) \/ reader'.known = podTotal
            BY <2>7 DEF readUsage
        <3>2. \A r \in reader.rows : r.node \in failed \/ r.node \in heard
            BY <2>7, KubeViewAssumption DEF readUsage, KubeInv, RowsInv, TurnsInv, Turns, nodesOf
        <3>3. failed = nodesOf => heard = {}
            BY <2>7 DEF readUsage, KubeInv, TurnsInv
        <3>4. \A r \in reader.rows : r.pod \in podTotal => r.node \in heard
            BY <2>7 DEF readUsage, KubeInv, RowsInv, IntoInv, podTotal
        <3> QED
            BY <2>7, <2>p, <3>1, <3>2, <3>3, <3>4
            DEF readUsage, KubeInv, RowsInv, IntoInv, TurnsInv, SilenceIsSaid
    <2>8. CASE Sweeping \/ ClusterDoes \/ TimePasses
        <3>1. UNCHANGED readVars
            BY <2>8 DEF Sweeping, ClusterDoes, TimePasses, PlanPods, PlanJobs, PlanSweep,
                        kubernetesSweep, SweepEnds, Sweep
        <3> QED
            BY <2>p, <3>1, ReadingUnchanged
    <2> QED
        BY <2>1, <2>2, <2>3, <2>4, <2>5, <2>6, <2>7, <2>8 DEF KubeNext, Apps
<1>3. KubeInv => SilenceIsSaid
    BY DEF KubeInv
<1> QED
    BY <1>1, <1>2, <1>3, PTL DEF KubeSpec

----------------------------------------------------------------------------
(***************************************************************************)
(* The power of an application: the count a start brings back.             *)
(***************************************************************************)

CallNames ==
    {"replicasOf", "remember", "scaleToZero", "remembered", "scaleUp", "readSelector", "pin",
     "readPinned", "unpin", "suspend", "resume", "killPods", "deletePod", "mark", "unmark",
     "rollout"}

\* A list of calls that are still to be made: what a stop begins with its read goes on to
\* write, and nothing is written that the same request has not read.
WellMade(c) ==
    /\ c \in Seq(CallNames)
    /\ \A k \in 1 .. Len(c) :
          /\ c[k] = "replicasOf" =>
                k + 2 <= Len(c) /\ c[k + 1] = "remember" /\ c[k + 2] = "scaleToZero"
          /\ c[k] = "remember" => k = 1 \/ c[k - 1] = "replicasOf"
          /\ c[k] = "scaleToZero" => k = 1 \/ c[k - 1] = "remember"
          /\ c[k] = "scaleUp" => k = 1 \/ c[k - 1] = "remembered"
          /\ c[k] = "readSelector" => k + 1 <= Len(c) /\ c[k + 1] = "pin"
          /\ c[k] = "readPinned" => k + 1 <= Len(c) /\ c[k + 1] = "unpin"

\* It begins with no write of the count; it is about to read the count to bring back.
Opens(c) == 1 <= Len(c) => c[1] \notin {"remember", "scaleToZero", "scaleUp"}
Recalls(c) == \E k \in 1 .. Len(c) : c[k] = "remembered"

AppTypeOK ==
    /\ app \in [kind : AppKinds, replicas : Nat, remembered : Nat, disabled : BOOLEAN,
                suspended : BOOLEAN, selector : SUBSET {"own", "stopped"},
                finished : BOOLEAN, exists : BOOLEAN]
    /\ verb \in [Users -> [calls : Seq(CallNames), read : Nat]]
    /\ ran \in Nat \ {0} /\ overtaken \in BOOLEAN

\* The count is up or at zero, and what is at zero is remembered.
CountInv ==
    app.kind \in Scaled =>
        /\ app.replicas \in {0, ran}
        /\ app.replicas = 0 => app.remembered = ran

\* What a request read is still so when it writes: it was let in on the count that is
\* still the one to bring back.
ReadCount(c, read) ==
    app.kind \in Scaled =>
        /\ 1 <= Len(c) /\ c[1] \in {"remember", "scaleUp"} => read = ran
        /\ 1 <= Len(c) /\ c[1] = "scaleToZero" => app.remembered = ran
        /\ Recalls(c) => app.remembered = ran

ReadCountInv == \A u \in Users : ReadCount(verb[u].calls, verb[u].read)

AppInv ==
    /\ AppTypeOK
    /\ \A u \in Users : WellMade(verb[u].calls)
    /\ "own" \in app.selector
    /\ ~overtaken => CountInv /\ ReadCountInv

\* A call that neither reads the count nor writes it may come first or last.
LEMMA ListGrows ==
  ASSUME NEW c, WellMade(c),
         NEW x \in {"mark", "unmark", "killPods"}
  PROVE  /\ WellMade(c \o <<x>>) /\ (Opens(c) => Opens(c \o <<x>>))
         /\ Recalls(c \o <<x>>) => Recalls(c)
         /\ Opens(<<x>> \o c) /\ (Recalls(<<x>> \o c) => Recalls(c))
         /\ Opens(c) => WellMade(<<x>> \o c)
<1> DEFINE d == c \o <<x>>
           e == <<x>> \o c
<1>1. c \in Seq(CallNames) /\ <<x>> \in Seq(CallNames) /\ Len(c) \in Nat
  BY DEF WellMade, CallNames
<1>2. d \in Seq(CallNames) /\ Len(d) = Len(c) + 1 /\ d[Len(c) + 1] = x
      /\ \A k \in 1 .. Len(c) : d[k] = c[k]
  BY <1>1
<1>3. e \in Seq(CallNames) /\ Len(e) = Len(c) + 1 /\ e[1] = x
      /\ \A k \in 2 .. Len(c) + 1 : e[k] = c[k - 1]
  BY <1>1
<1> HIDE DEF d, e
<1>4. WellMade(d)
  BY <1>1, <1>2 DEF WellMade
<1>6. (Opens(c) => Opens(d)) /\ Opens(e)
  BY <1>1, <1>2, <1>3 DEF Opens
<1>7. Recalls(d) => Recalls(c)
  BY <1>1, <1>2 DEF Recalls
<1>8. Recalls(e) => Recalls(c)
  <2> SUFFICES ASSUME NEW k \in 1 .. Len(e), e[k] = "remembered" PROVE Recalls(c)
    BY DEF Recalls
  <2>1. k # 1 /\ k - 1 \in 1 .. Len(c) /\ c[k - 1] = "remembered"
    BY <1>1, <1>3
  <2> QED
    BY <2>1 DEF Recalls
<1>5. ASSUME Opens(c)
      PROVE  WellMade(e)
  <2> SUFFICES ASSUME NEW k \in 1 .. Len(e)
               PROVE  /\ e[k] = "replicasOf" =>
                            k + 2 <= Len(e) /\ e[k + 1] = "remember" /\ e[k + 2] = "scaleToZero"
                      /\ e[k] = "remember" => k = 1 \/ e[k - 1] = "replicasOf"
                      /\ e[k] = "scaleToZero" => k = 1 \/ e[k - 1] = "remember"
                      /\ e[k] = "scaleUp" => k = 1 \/ e[k - 1] = "remembered"
                      /\ e[k] = "readSelector" => k + 1 <= Len(e) /\ e[k + 1] = "pin"
                      /\ e[k] = "readPinned" => k + 1 <= Len(e) /\ e[k + 1] = "unpin"
    BY <1>3 DEF WellMade
  <2>1. CASE k = 1
    BY <2>1, <1>3
  <2>2. CASE k = 2
    BY <2>2, <1>1, <1>3, <1>5 DEF WellMade, Opens
  <2>3. CASE k > 2
    <3>1. k - 1 \in 2 .. Len(c) /\ e[k] = c[k - 1] /\ e[k - 1] = c[(k - 1) - 1]
          /\ (k <= Len(c) => e[k + 1] = c[(k - 1) + 1]) /\ (k + 1 <= Len(c) => e[k + 2] = c[(k - 1) + 2])
      BY <2>3, <1>1, <1>3
    <3> HIDE DEF e
    <3> QED
      BY <3>1, <1>1, <1>3, <2>3 DEF WellMade
  <2> QED
    BY <2>1, <2>2, <2>3, <1>1, <1>3
<1> QED
  BY <1>4, <1>5, <1>6, <1>7, <1>8 DEF d, e

\* What is left of a list.
LEMMA RestIsWellMade ==
  ASSUME NEW c, WellMade(c), NEW m \in {2, 3, 4}, m <= Len(c) + 1
  PROVE  LET r == SubSeq(c, m, Len(c))
         IN  /\ WellMade(r) /\ Len(r) = Len(c) - m + 1
             /\ \A k \in 1 .. Len(r) : r[k] = c[k + m - 1]
<1> DEFINE r == SubSeq(c, m, Len(c))
<1>1. c \in Seq(CallNames) /\ Len(c) \in Nat
  BY DEF WellMade
<1>2. r \in Seq(CallNames) /\ Len(r) = Len(c) - m + 1 /\ \A k \in 1 .. Len(r) : r[k] = c[k + m - 1]
  <2>1. m \in Nat /\ m >= 2
    OBVIOUS
  <2>2. \A k \in m .. Len(c) : c[k] \in CallNames
    BY <1>1, <2>1
  <2>3. r \in Seq(CallNames)
    BY <1>1, <2>1, <2>2
  <2>4. Len(r) = Len(c) - m + 1
    BY <1>1, <2>1
  <2>5. \A k \in 1 .. Len(r) : r[k] = c[k + m - 1]
    BY <1>1, <2>1, <2>4
  <2>6. QED
    BY <2>3, <2>4, <2>5
<1> HIDE DEF r
<1>3. WellMade(r)
  <2> SUFFICES ASSUME NEW k \in 1 .. Len(r)
               PROVE  /\ r[k] = "replicasOf" =>
                            k + 2 <= Len(r) /\ r[k + 1] = "remember" /\ r[k + 2] = "scaleToZero"
                      /\ r[k] = "remember" => k = 1 \/ r[k - 1] = "replicasOf"
                      /\ r[k] = "scaleToZero" => k = 1 \/ r[k - 1] = "remember"
                      /\ r[k] = "scaleUp" => k = 1 \/ r[k - 1] = "remembered"
                      /\ r[k] = "readSelector" => k + 1 <= Len(r) /\ r[k + 1] = "pin"
                      /\ r[k] = "readPinned" => k + 1 <= Len(r) /\ r[k + 1] = "unpin"
    BY <1>2 DEF WellMade
  <2> DEFINE j == k + m - 1
  <2>1. j \in 1 .. Len(c) /\ r[k] = c[j] /\ j # 1
    BY <1>1, <1>2
  <2>2. k # 1 => r[k - 1] = c[j - 1]
    <3>1. k # 1 => k - 1 \in 1 .. Len(r) /\ (k - 1) + m - 1 = j - 1
      BY <1>1, <1>2
    <3> QED
      BY <3>1, <1>2
  <2>3. j + 1 <= Len(c) => r[k + 1] = c[j + 1] /\ k + 1 <= Len(r)
    <3>1. j + 1 <= Len(c) => k + 1 \in 1 .. Len(r) /\ (k + 1) + m - 1 = j + 1
      BY <1>1, <1>2
    <3> QED
      BY <3>1, <1>2
  <2>4. j + 2 <= Len(c) => r[k + 2] = c[j + 2] /\ k + 2 <= Len(r)
    <3>1. j + 2 <= Len(c) => k + 2 \in 1 .. Len(r) /\ (k + 2) + m - 1 = j + 2
      BY <1>1, <1>2
    <3> QED
      BY <3>1, <1>2
  <2> HIDE DEF j
  <2> QED
    BY <2>1, <2>2, <2>3, <2>4, <1>1 DEF WellMade
<1> QED
  BY <1>2, <1>3 DEF r

\* The lists a request begins with.
Begun(c) == WellMade(c) /\ Opens(c)

LEMMA VerbsAreWellMade ==
  ASSUME NEW a, NEW v \in AppVerbs
  PROVE  /\ Begun(Stop(a.kind)) /\ Begun(Start(a.kind)) /\ Begun(RunAppCalls(a, v))
         /\ ~Recalls(Stop(a.kind))
         /\ Recalls(RunAppCalls(a, v)) =>
               a.kind # "Pod" /\ (v = "start" \/ (v = "enable" /\ AppPowerOf(a).stopped))
<1> DEFINE offCalls == Stop(a.kind)
           onCalls == Start(a.kind)
<1>1. /\ WellMade(<<"replicasOf", "remember", "scaleToZero">>)
      /\ WellMade(<<"readSelector", "pin">>) /\ WellMade(<<"suspend">>)
  BY DEF WellMade, CallNames
<1>2. /\ WellMade(<<"remembered", "scaleUp">>) /\ WellMade(<<"readPinned", "unpin">>)
      /\ WellMade(<<"resume">>)
  BY DEF WellMade, CallNames
<1>3. /\ Begun(<<"rollout">>) /\ Begun(<<"killPods">>) /\ Begun(<<"deletePod">>) /\ Begun(<< >>)
      /\ ~Recalls(<<"rollout">>) /\ ~Recalls(<<"killPods">>) /\ ~Recalls(<<"deletePod">>) /\ ~Recalls(<< >>)
  BY DEF WellMade, CallNames, Begun, Opens, Recalls
<1>4. /\ offCalls \in {<<"replicasOf", "remember", "scaleToZero">>, <<"readSelector", "pin">>, <<"suspend">>}
      /\ onCalls \in {<<"remembered", "scaleUp">>, <<"readPinned", "unpin">>, <<"resume">>}
  BY DEF Stop, Start
<1> HIDE DEF offCalls, onCalls
<1>5. Begun(offCalls) /\ Begun(onCalls)
  BY <1>1, <1>2, <1>4 DEF Begun, Opens
<1>6. ~Recalls(offCalls)
  BY <1>4 DEF Recalls
<1>7. Begun(offCalls \o <<"killPods">>) /\ ~Recalls(offCalls \o <<"killPods">>)
  BY <1>5, <1>6, ListGrows DEF Begun
<1>8. /\ Begun(<<"mark">> \o offCalls) /\ Begun(<<"mark">> \o << >>)
      /\ Begun(<<"unmark">> \o onCalls) /\ Begun(<<"unmark">> \o << >>)
      /\ ~Recalls(<<"mark">> \o offCalls) /\ ~Recalls(<<"mark">> \o << >>) /\ ~Recalls(<<"unmark">> \o << >>)
  BY <1>3, <1>5, <1>6, ListGrows DEF Begun
<1>9. Begun(RunAppCalls(a, v))
  BY <1>3, <1>5, <1>7, <1>8 DEF RunAppCalls, AppVerbs, offCalls, onCalls
<1>10. ASSUME Recalls(RunAppCalls(a, v))
       PROVE  a.kind # "Pod" /\ (v = "start" \/ (v = "enable" /\ AppPowerOf(a).stopped))
  <2>1. a.kind # "Pod"
    BY <1>10, <1>3 DEF RunAppCalls
  <2>2. v \notin {"stop", "force-stop"}
    BY <1>10, <2>1, <1>6, <1>7 DEF RunAppCalls, offCalls
  <2>3. v # "disable"
    BY <1>10, <2>1, <1>8 DEF RunAppCalls, offCalls
  <2>4. v \notin {"restart", "force-restart"}
    BY <1>10, <2>1, <1>3 DEF RunAppCalls
  <2>5. v = "enable" => AppPowerOf(a).stopped
    BY <1>10, <2>1, <1>8 DEF RunAppCalls, onCalls
  <2> QED
    BY <2>1, <2>2, <2>3, <2>4, <2>5 DEF AppVerbs
<1> QED
  BY <1>5, <1>6, <1>9, <1>10 DEF offCalls, onCalls

\* A request begins: it may recall the count only when that is the one to bring back.
LEMMA KeepsBegins ==
  ASSUME AppInv, NEW u \in Users, NEW c, Begun(c), Begins(u, c), overtaken' \in BOOLEAN,
         ~overtaken' => ~overtaken /\ (Recalls(c) /\ app.kind \in Scaled => app.remembered = ran)
  PROVE  AppInv'
<1>1. verb' = [verb EXCEPT ![u] = [calls |-> c, read |-> 0]] /\ UNCHANGED <<app, ran>>
  BY DEF Begins
<1>2. AppTypeOK'
  BY <1>1 DEF AppInv, AppTypeOK, Begun, WellMade
<1>3. \A w \in Users : WellMade(verb'[w].calls)
  BY <1>1 DEF AppInv, AppTypeOK, Begun
<1>4. ~overtaken' => CountInv' /\ ReadCountInv'
  <2> HAVE ~overtaken'
  <2>1. CountInv'
    BY <1>1 DEF AppInv, CountInv
  <2>2. ReadCount(c, 0)
    BY DEF ReadCount, Begun, Opens
  <2>3. ASSUME NEW w \in Users PROVE ReadCount(verb'[w].calls, verb'[w].read)
    BY <1>1, <2>2 DEF AppInv, AppTypeOK, ReadCountInv
  <2>4. ReadCountInv'
    BY <1>1, <2>3 DEF ReadCountInv, ReadCount
  <2> QED
    BY <2>1, <2>4
<1> QED
  BY <1>1, <1>2, <1>3, <1>4 DEF AppInv

\* What a call leaves of the request that made it.
Left(u, skip, value) ==
    LET c == verb[u].calls
        d == verb'[u].calls
    IN  /\ verb' \in [Users -> [calls : Seq(CallNames), read : Nat]]
        /\ \A w \in Users : WellMade(verb'[w].calls)
        /\ \A w \in Users \ {u} : verb'[w] = verb[w]
        /\ verb'[u].read = value /\ Len(d) = Len(c) - skip - 1
        /\ \A k \in 1 .. Len(d) : d[k] = c[k + skip + 1]

LEMMA AfterLeaves ==
  ASSUME AppInv, NEW u \in Users, NEW skip \in {0, 1, 2}, NEW value \in Nat,
         skip + 1 <= Len(verb[u].calls), After(u, skip, value)
  PROVE  Left(u, skip, value)
<1> DEFINE c == verb[u].calls
           d == SubSeq(c, 2 + skip, Len(c))
<1>1. verb \in [Users -> [calls : Seq(CallNames), read : Nat]] /\ WellMade(c)
  BY DEF AppInv, AppTypeOK
<1>2. 2 + skip \in {2, 3, 4} /\ 2 + skip <= Len(c) + 1 /\ Len(c) \in Nat
  BY <1>1 DEF WellMade
<1>3. WellMade(d) /\ Len(d) = Len(c) - (2 + skip) + 1 /\ \A k \in 1 .. Len(d) : d[k] = c[k + (2 + skip) - 1]
  BY <1>1, <1>2, RestIsWellMade
<1>4. Len(d) = Len(c) - skip - 1 /\ \A k \in 1 .. Len(d) : d[k] = c[k + skip + 1]
  <2>1. Len(d) = Len(c) - skip - 1 /\ \A k \in 1 .. Len(d) : k + (2 + skip) - 1 = k + skip + 1
    BY <1>2, <1>3
  <2> QED
    BY <2>1, <1>3
<1>5. verb' = [verb EXCEPT ![u] = [calls |-> d, read |-> value]]
  BY DEF After
<1> HIDE DEF d
<1>6. d \in Seq(CallNames)
  BY <1>3 DEF WellMade
<1>7. verb'[u] = [calls |-> d, read |-> value] /\ \A w \in Users \ {u} : verb'[w] = verb[w]
  BY <1>1, <1>5
<1>8. verb' \in [Users -> [calls : Seq(CallNames), read : Nat]]
  BY <1>1, <1>5, <1>6
<1>9. \A w \in Users : WellMade(verb'[w].calls)
  BY <1>3, <1>7 DEF AppInv
<1> QED
  BY <1>4, <1>7, <1>8, <1>9 DEF Left

\* The step of a call, when what is left of the request and of the app is in order.
LEMMA KeepsCall ==
  ASSUME AppInv, NEW u \in Users, NEW skip \in {0, 1, 2}, NEW value \in Nat,
         skip + 1 <= Len(verb[u].calls), After(u, skip, value), UNCHANGED <<ran, overtaken>>,
         app' \in [kind : AppKinds, replicas : Nat, remembered : Nat, disabled : BOOLEAN,
                   suspended : BOOLEAN, selector : SUBSET {"own", "stopped"},
                   finished : BOOLEAN, exists : BOOLEAN],
         app'.kind = app.kind, "own" \in app'.selector,
         ~overtaken => CountInv',
         ~overtaken /\ app.kind \in Scaled =>
            /\ app'.remembered \in {app.remembered, ran}
            /\ LET c == verb[u].calls
                   h == c[skip + 2]
               IN skip + 2 <= Len(c) =>
                     /\ h \in {"remember", "scaleUp"} => value = ran
                     /\ h = "scaleToZero" => app'.remembered = ran
  PROVE  AppInv'
<1> DEFINE c == verb[u].calls
           d == verb'[u].calls
<1>1. /\ verb' \in [Users -> [calls : Seq(CallNames), read : Nat]]
      /\ \A w \in Users : WellMade(verb'[w].calls)
      /\ \A w \in Users \ {u} : verb'[w] = verb[w]
      /\ verb'[u].read = value /\ Len(d) = Len(c) - skip - 1
      /\ \A k \in 1 .. Len(d) : d[k] = c[k + skip + 1]
  <2>1. Left(u, skip, value)
    BY AfterLeaves
  <2> QED
    BY <2>1 DEF Left
<1>2. AppTypeOK'
  BY <1>1 DEF AppInv, AppTypeOK
<1>3. ~overtaken' => CountInv' /\ ReadCountInv'
  <2> SUFFICES ASSUME ~overtaken PROVE CountInv' /\ ReadCountInv'
    OBVIOUS
  <2> SUFFICES ASSUME NEW w \in Users PROVE ReadCount(verb[w].calls, verb[w].read)'
    BY DEF ReadCountInv
  <2> SUFFICES ASSUME app.kind \in Scaled PROVE ReadCount(verb[w].calls, verb[w].read)'
    BY DEF ReadCount
  <2>1. CASE w # u
    <3>1. verb'[w] = verb[w]
      BY <1>1, <2>1
    <3>2. ReadCount(verb[w].calls, verb[w].read)
      BY DEF AppInv, ReadCountInv
    <3> QED
      BY <3>1, <3>2 DEF ReadCount, Recalls
  <2>2. CASE w = u
    <3>1. Len(c) \in Nat /\ Len(d) \in Nat
      BY <1>1 DEF AppInv, AppTypeOK
    <3>2. 1 <= Len(d) => skip + 2 <= Len(c) /\ d[1] = c[skip + 2]
      BY <1>1, <3>1
    <3>3. Recalls(d) => app'.remembered = ran
      <4> SUFFICES ASSUME NEW k \in 1 .. Len(d), d[k] = "remembered" PROVE app.remembered = ran
        BY DEF Recalls
      <4>1. k + skip + 1 \in 1 .. Len(c)
        <5>1. skip \in Nat /\ Len(d) = Len(c) - skip - 1
          BY <1>1
        <5> HIDE DEF c, d
        <5> QED
          BY <5>1, <3>1
      <4>3. c[k + skip + 1] = "remembered"
        BY <1>1
      <4>2. Recalls(c)
        BY <4>1, <4>3 DEF Recalls
      <4> QED
        BY <4>2 DEF AppInv, ReadCountInv, ReadCount
    <3>4. /\ 1 <= Len(d) /\ d[1] \in {"remember", "scaleUp"} => verb'[u].read = ran
          /\ 1 <= Len(d) /\ d[1] = "scaleToZero" => app'.remembered = ran
      BY <3>2, <1>1
    <3> QED
      BY <2>2, <3>3, <3>4 DEF ReadCount, Recalls
  <2> QED
    BY <2>1, <2>2
<1> QED
  BY <1>1, <1>2, <1>3 DEF AppInv

\* The step of a request that ends.
LEMMA KeepsVerbFails ==
  ASSUME AppInv, NEW u \in Users, VerbFails(u) PROVE AppInv'
<1>1. verb' = [verb EXCEPT ![u] = NoVerb] /\ UNCHANGED <<app, ran, overtaken>>
  BY DEF VerbFails
<1>2. NoVerb \in [calls : Seq(CallNames), read : Nat] /\ WellMade(NoVerb.calls) /\ NoVerb.calls = << >>
  BY DEF NoVerb, WellMade
<1>3. AppTypeOK'
  BY <1>1, <1>2 DEF AppInv, AppTypeOK
<1>4. \A w \in Users : WellMade(verb'[w].calls)
  BY <1>1, <1>2 DEF AppInv, AppTypeOK
<1>5. ~overtaken => CountInv' /\ ReadCountInv'
  <2> HAVE ~overtaken
  <2>1. CountInv'
    BY <1>1 DEF AppInv, CountInv
  <2>2. ASSUME NEW w \in Users PROVE ReadCount(verb[w].calls, verb[w].read)'
    <3>1. CASE w = u
      <4>1. verb'[w].calls = << >>
        BY <3>1, <1>1, <1>2 DEF AppInv, AppTypeOK
      <4> QED
        BY <4>1 DEF ReadCount, Recalls
    <3>2. CASE w # u
      <4>1. verb'[w] = verb[w]
        BY <3>2, <1>1 DEF AppInv, AppTypeOK
      <4>2. ReadCount(verb[w].calls, verb[w].read)
        BY DEF AppInv, ReadCountInv
      <4> QED
        BY <4>1, <4>2, <1>1 DEF ReadCount, Recalls
    <3> QED
      BY <3>1, <3>2
  <2> QED
    BY <2>1, <2>2 DEF ReadCountInv
<1> QED
  BY <1>1, <1>3, <1>4, <1>5 DEF AppInv

\* The two ways a request begins.
LEMMA KeepsRunApp ==
  ASSUME AppInv, NEW u \in Users, NEW v \in AppVerbs, RunApp(u, v) PROVE AppInv'
<1> DEFINE c == RunAppCalls(app, v)
<1>1. Begun(c) /\ (Recalls(c) => app.kind # "Pod" /\ (v = "start" \/ (v = "enable" /\ AppPowerOf(app).stopped)))
  BY VerbsAreWellMade
<1>2. Begins(u, c) /\ overtaken' = overtaken /\ appReport(app, v)
  BY DEF RunApp
<1> HIDE DEF c
<1>3. ASSUME ~overtaken, Recalls(c), app.kind \in Scaled PROVE app.remembered = ran
  <2>1. AppPowerOf(app).stopped
    BY <1>1, <1>2, <1>3 DEF appReport
  <2>2. app.replicas = 0
    BY <2>1, <1>3 DEF AppPowerOf, Scaled
  <2> QED
    BY <2>2, <1>3 DEF AppInv, CountInv
<1>4. overtaken' \in BOOLEAN
  BY <1>2 DEF AppInv, AppTypeOK
<1> QED
  BY <1>1, <1>2, <1>3, <1>4, KeepsBegins

LEMMA KeepsStartStop ==
  ASSUME AppInv, NEW u \in Users, NEW start \in BOOLEAN, kubernetesStartStop(u, start) PROVE AppInv'
<1> DEFINE c == IF start THEN Start(app.kind) ELSE Stop(app.kind)
<1>1. Begun(c) /\ (Recalls(c) => start)
  BY VerbsAreWellMade DEF AppVerbs
<1>2. Begins(u, c) /\ overtaken' = (overtaken \/ (start /\ ~AppPowerOf(app).stopped))
  BY DEF kubernetesStartStop
<1> HIDE DEF c
<1>3. ASSUME ~overtaken', Recalls(c), app.kind \in Scaled PROVE app.remembered = ran
  <2>1. AppPowerOf(app).stopped /\ ~overtaken
    BY <1>1, <1>2, <1>3
  <2>2. app.replicas = 0
    BY <2>1, <1>3 DEF AppPowerOf, Scaled
  <2> QED
    BY <2>1, <2>2, <1>3 DEF AppInv, CountInv
<1>4. overtaken' \in BOOLEAN /\ (~overtaken' => ~overtaken)
  BY <1>2 DEF AppInv, AppTypeOK
<1> QED
  BY <1>1, <1>2, <1>3, <1>4, KeepsBegins

\* The button: nobody is in flight, or the request is no longer promised anything.
LEMMA KeepsScale ==
  ASSUME AppInv, NEW n \in 1 .. MaxReplicas, kubernetesScaleWorkload(n) PROVE AppInv'
<1>1. app' = [app EXCEPT !.replicas = n] /\ ran' = n /\ verb' = verb /\ n \in Nat \ {0}
      /\ overtaken' = (overtaken \/ InFlight # {})
  BY AppPowerAssumption DEF kubernetesScaleWorkload, serveScale
<1>2. AppTypeOK' /\ "own" \in app'.selector
  <2>1. overtaken' \in BOOLEAN
    BY <1>1
  <2>2. app' \in [kind : AppKinds, replicas : Nat, remembered : Nat, disabled : BOOLEAN,
                  suspended : BOOLEAN, selector : SUBSET {"own", "stopped"},
                  finished : BOOLEAN, exists : BOOLEAN] /\ app'.selector = app.selector
    BY <1>1, ZenonT(60) DEF AppInv, AppTypeOK
  <2> QED
    BY <1>1, <2>1, <2>2 DEF AppInv, AppTypeOK
<1>3. ASSUME ~overtaken' PROVE CountInv' /\ ReadCountInv'
  <2>1. app'.replicas = n /\ n # 0
    BY <1>1 DEF AppInv, AppTypeOK
  <2>2. \A w \in Users : verb'[w].calls = << >>
    BY <1>1, <1>3 DEF InFlight
  <2>3. CountInv'
    BY <1>1, <2>1 DEF CountInv
  <2>4. ReadCountInv'
    BY <2>2 DEF ReadCountInv, ReadCount, Recalls
  <2> QED
    BY <2>3, <2>4
<1> QED
  BY <1>1, <1>2, <1>3 DEF AppInv

\* The call a request is at.
LEMMA AtCall ==
  ASSUME AppInv, NEW u \in Users, NEW x, At1(u, x)
  PROVE  LET c == verb[u].calls IN
         /\ WellMade(c) /\ Len(c) \in Nat /\ 1 <= Len(c) /\ c[1] = x /\ verb[u].read \in Nat
         /\ x \notin {"replicasOf", "remember", "remembered"} /\ 2 <= Len(c) =>
               c[2] \notin {"remember", "scaleToZero", "scaleUp"}
<1> DEFINE c == verb[u].calls
<1>1. c \in Seq(CallNames) /\ WellMade(c) /\ c # << >> /\ Head(c) = x /\ verb[u].read \in Nat
  BY DEF AppInv, AppTypeOK, At1
<1> HIDE DEF c
<1>2. Len(c) \in Nat /\ 1 <= Len(c) /\ c[1] = x
  BY <1>1
<1>3. x \notin {"replicasOf", "remember", "remembered"} /\ 2 <= Len(c) =>
         c[2] \notin {"remember", "scaleToZero", "scaleUp"}
  BY <1>1, <1>2 DEF WellMade
<1> QED
  BY <1>1, <1>2, <1>3 DEF c

AppRecord ==
    [kind : AppKinds, replicas : Nat, remembered : Nat, disabled : BOOLEAN,
     suspended : BOOLEAN, selector : SUBSET {"own", "stopped"},
     finished : BOOLEAN, exists : BOOLEAN]

LEMMA KeepsReplicasOf ==
  ASSUME AppInv, NEW u \in Users, replicasOf(u) PROVE AppInv'
<1> DEFINE c == verb[u].calls
           skip == IF app.replicas = 0 THEN 2 ELSE 0
<1>1. At1(u, "replicasOf") /\ After(u, skip, app.replicas) /\ UNCHANGED <<app, ran, overtaken>>
  BY DEF replicasOf
<1>2. WellMade(c) /\ Len(c) \in Nat /\ 1 <= Len(c) /\ c[1] = "replicasOf"
  BY <1>1, AtCall
<1>3. 3 <= Len(c) /\ c[2] = "remember" /\ c[3] = "scaleToZero"
  BY <1>2 DEF WellMade
<1>4. 4 <= Len(c) => c[4] \notin {"remember", "scaleToZero", "scaleUp"}
  BY <1>2, <1>3 DEF WellMade
<1>5. skip \in {0, 1, 2} /\ skip + 1 <= Len(c) /\ app.replicas \in Nat /\ app \in AppRecord
  BY <1>2, <1>3 DEF AppInv, AppTypeOK, AppRecord
<1>6. ASSUME ~overtaken, app.kind \in Scaled, skip + 2 <= Len(c)
      PROVE  /\ c[skip + 2] \in {"remember", "scaleUp"} => app.replicas = ran
             /\ c[skip + 2] = "scaleToZero" => app.remembered = ran
  <2>1. CASE app.replicas = 0
    BY <2>1, <1>4, <1>6
  <2>2. CASE app.replicas # 0
    BY <2>2, <1>3, <1>6 DEF AppInv, CountInv
  <2> QED
    BY <2>1, <2>2
<1>7. ~overtaken => CountInv'
  BY <1>1 DEF AppInv, CountInv
<1> HIDE DEF skip
<1> QED
  BY <1>1, <1>5, <1>6, <1>7, KeepsCall DEF AppInv, AppRecord

LEMMA KeepsRemembered ==
  ASSUME AppInv, NEW u \in Users, remembered(u) PROVE AppInv'
<1> DEFINE c == verb[u].calls
           value == IF app.remembered = 0 THEN 1 ELSE app.remembered
<1>1. At1(u, "remembered") /\ After(u, 0, value) /\ UNCHANGED <<app, ran, overtaken>>
  BY DEF remembered
<1>2. WellMade(c) /\ Len(c) \in Nat /\ 1 <= Len(c) /\ c[1] = "remembered"
  BY <1>1, AtCall
<1>3. value \in Nat /\ app \in AppRecord
  BY DEF AppInv, AppTypeOK, AppRecord
<1>4. ASSUME ~overtaken, app.kind \in Scaled
      PROVE  value = ran /\ app.remembered = ran
  <2>1. Recalls(c)
    BY <1>2 DEF Recalls
  <2> QED
    BY <2>1, <1>4 DEF AppInv, ReadCountInv, ReadCount, AppTypeOK
<1>5. ~overtaken => CountInv'
  BY <1>1 DEF AppInv, CountInv
<1> HIDE DEF value
<1> QED
  BY <1>1, <1>2, <1>3, <1>4, <1>5, KeepsCall DEF AppInv, AppRecord

LEMMA KeepsReadDaemonSet ==
  ASSUME AppInv, NEW u \in Users, readDaemonSet(u) PROVE AppInv'
<1> DEFINE c == verb[u].calls
<1>1. PICK skip \in {0, 1} : After(u, skip, 0) /\ (At1(u, "readSelector") \/ At1(u, "readPinned"))
  BY DEF readDaemonSet
<1>2. UNCHANGED <<app, ran, overtaken>>
  BY DEF readDaemonSet
<1>3. WellMade(c) /\ Len(c) \in Nat /\ 1 <= Len(c) /\ c[1] \in {"readSelector", "readPinned"}
  BY <1>1, AtCall
<1>4. 2 <= Len(c) /\ c[2] \in {"pin", "unpin"}
  BY <1>3 DEF WellMade
<1>5. 3 <= Len(c) => c[3] \notin {"remember", "scaleToZero", "scaleUp"}
  BY <1>3, <1>4 DEF WellMade
<1>6. skip \in {0, 1, 2} /\ skip + 1 <= Len(c) /\ app \in AppRecord
      /\ (skip + 2 <= Len(c) => c[skip + 2] \notin {"remember", "scaleToZero", "scaleUp"})
  BY <1>1, <1>3, <1>4, <1>5 DEF AppInv, AppTypeOK, AppRecord
<1>7. ~overtaken => CountInv'
  BY <1>2 DEF AppInv, CountInv
<1> QED
  BY <1>1, <1>2, <1>6, <1>7, KeepsCall DEF AppInv, AppRecord

\* A write that leaves the count and what is remembered of it alone.
LEMMA KeepsOtherCall ==
  ASSUME AppInv, NEW u \in Users, NEW x \in CallNames \ {"replicasOf", "remember", "remembered"},
         At1(u, x), NEW value \in Nat, After(u, 0, value), UNCHANGED <<ran, overtaken>>,
         app' \in AppRecord, app'.kind = app.kind, app'.replicas = app.replicas,
         app'.remembered = app.remembered, "own" \in app'.selector
  PROVE  AppInv'
<1> DEFINE c == verb[u].calls
<1>1. 1 <= Len(c) /\ (2 <= Len(c) => c[2] \notin {"remember", "scaleToZero", "scaleUp"})
  BY AtCall
<1>2. ~overtaken => CountInv'
  BY DEF AppInv, CountInv
<1> QED
  BY <1>1, <1>2, KeepsCall DEF AppRecord

LEMMA KeepsRemember ==
  ASSUME AppInv, NEW u \in Users, remember(u), After(u, 0, verb[u].read), UNCHANGED <<ran, overtaken>>
  PROVE  AppInv'
<1> DEFINE c == verb[u].calls
           read == verb[u].read
<1>1. At1(u, "remember") /\ app' = [app EXCEPT !.remembered = read]
  BY DEF remember, storeAnnotations
<1>2. WellMade(c) /\ Len(c) \in Nat /\ 1 <= Len(c) /\ c[1] = "remember" /\ read \in Nat
  BY <1>1, AtCall
<1>3. 2 <= Len(c) => c[2] \notin {"remember", "scaleUp"}
  BY <1>2 DEF WellMade
<1>4. app' \in AppRecord /\ app'.kind = app.kind /\ app'.selector = app.selector
      /\ app'.replicas = app.replicas /\ app'.remembered = read
  BY <1>1, <1>2, ZenonT(60) DEF AppInv, AppTypeOK, AppRecord
<1>5. ~overtaken /\ app.kind \in Scaled => read = ran
  BY <1>2 DEF AppInv, ReadCountInv, ReadCount
<1>6. ~overtaken => CountInv'
  BY <1>4, <1>5 DEF AppInv, CountInv
<1> QED
  BY <1>2, <1>3, <1>4, <1>5, <1>6, KeepsCall DEF AppInv, AppRecord

LEMMA KeepsScaleCall ==
  ASSUME AppInv, NEW u \in Users, ScaleWorkload(u), After(u, 0, verb[u].read), UNCHANGED <<ran, overtaken>>
  PROVE  AppInv'
<1> DEFINE c == verb[u].calls
           read == verb[u].read
<1>1. PICK n \in {0, read} :
         /\ app' = [app EXCEPT !.replicas = n]
         /\ (At1(u, "scaleToZero") /\ n = 0) \/ (At1(u, "scaleUp") /\ n = read)
  <2>1. CASE At1(u, "scaleToZero") /\ app' = [app EXCEPT !.replicas = 0]
    BY <2>1
  <2>2. CASE At1(u, "scaleUp") /\ app' = [app EXCEPT !.replicas = read]
    BY <2>2
  <2> QED
    BY <2>1, <2>2 DEF ScaleWorkload, serveScale
<1>2. /\ 1 <= Len(c) /\ (2 <= Len(c) => c[2] \notin {"remember", "scaleToZero", "scaleUp"})
      /\ n \in Nat /\ read \in Nat
      /\ (c[1] = "scaleToZero" /\ n = 0) \/ (c[1] = "scaleUp" /\ n = read)
  BY <1>1, AtCall
<1>3. app' \in AppRecord /\ app'.kind = app.kind /\ app'.selector = app.selector
      /\ app'.replicas = n /\ app'.remembered = app.remembered
  <2>1. app' = [app EXCEPT !.replicas = n] /\ n \in Nat /\ app \in AppRecord
    BY <1>1, <1>2 DEF AppInv, AppTypeOK, AppRecord
  <2> QED
    BY ONLY <2>1, ZenonT(60) DEF AppRecord
<1>4. ~overtaken /\ app.kind \in Scaled => (n = 0 /\ app.remembered = ran) \/ n = ran
  BY <1>2 DEF AppInv, ReadCountInv, ReadCount
<1>5. ~overtaken => CountInv'
  BY <1>3, <1>4 DEF AppInv, AppTypeOK, CountInv
<1> QED
  BY <1>2, <1>3, <1>5, KeepsCall DEF AppInv, AppRecord

LEMMA KeepsPatch ==
  ASSUME AppInv, NEW u \in Users, patchWorkload(u) PROVE AppInv'
<1>1. After(u, 0, verb[u].read) /\ UNCHANGED <<ran, overtaken>> /\ verb[u].read \in Nat /\ app \in AppRecord
  BY DEF patchWorkload, AppInv, AppTypeOK, AppRecord
<1>2. CASE remember(u)
  BY <1>1, <1>2, KeepsRemember
<1>3. CASE ScaleWorkload(u)
  BY <1>1, <1>3, KeepsScaleCall
<1>4. CASE stopDaemonSet(u)
  <2>1. app' \in AppRecord /\ app'.kind = app.kind /\ app'.replicas = app.replicas
        /\ app'.remembered = app.remembered /\ "own" \in app'.selector /\ At1(u, "pin")
    BY <1>1, <1>4, ZenonT(60) DEF stopDaemonSet, patchDaemonSet, AppRecord, AppInv
  <2> QED
    BY <1>1, <2>1, KeepsOtherCall DEF CallNames
<1>5. CASE startDaemonSet(u)
  <2>1. app' \in AppRecord /\ app'.kind = app.kind /\ app'.replicas = app.replicas
        /\ app'.remembered = app.remembered /\ "own" \in app'.selector /\ At1(u, "unpin")
    BY <1>1, <1>5, ZenonT(60) DEF startDaemonSet, patchDaemonSet, AppRecord, AppInv
  <2> QED
    BY <1>1, <2>1, KeepsOtherCall DEF CallNames
<1>6. CASE suspend(u)
  <2>1. app' \in AppRecord /\ app'.kind = app.kind /\ app'.replicas = app.replicas
        /\ app'.remembered = app.remembered /\ app'.selector = app.selector
    BY <1>1, <1>6, ZenonT(60) DEF suspend, patchSuspend, AppRecord
  <2>2. At1(u, "suspend") \/ At1(u, "resume")
    BY <1>6 DEF suspend
  <2> QED
    BY <1>1, <2>1, <2>2, KeepsOtherCall DEF CallNames, AppInv
<1>7. CASE SetAppDisabled(u)
  <2>1. app' \in AppRecord /\ app'.kind = app.kind /\ app'.replicas = app.replicas
        /\ app'.remembered = app.remembered /\ app'.selector = app.selector
    BY <1>1, <1>7, ZenonT(60) DEF SetAppDisabled, storeDisabled, AppRecord
  <2>2. At1(u, "mark") \/ At1(u, "unmark")
    BY <1>7 DEF SetAppDisabled
  <2> QED
    BY <1>1, <2>1, <2>2, KeepsOtherCall DEF CallNames, AppInv
<1>8. CASE RolloutRestartWorkload(u)
  BY <1>1, <1>8, KeepsOtherCall DEF RolloutRestartWorkload, CallNames, AppInv
<1> QED
  BY <1>2, <1>3, <1>4, <1>5, <1>6, <1>7, <1>8 DEF patchWorkload

LEMMA KeepsPodCall ==
  ASSUME AppInv, NEW u \in Users, ForceDeleteAppPods(u) \/ DeleteBarePod(u) PROVE AppInv'
<1>1. After(u, 0, 0) /\ UNCHANGED <<ran, overtaken>> /\ app \in AppRecord /\ 0 \in Nat
  BY DEF ForceDeleteAppPods, DeleteBarePod, AppInv, AppTypeOK, AppRecord
<1>2. app' = app \/ app' = [app EXCEPT !.exists = FALSE]
  BY DEF ForceDeleteAppPods, DeleteBarePod, servePodDelete
<1>3. app' \in AppRecord /\ app'.kind = app.kind /\ app'.replicas = app.replicas
      /\ app'.remembered = app.remembered /\ app'.selector = app.selector
  BY <1>1, <1>2, ZenonT(60) DEF AppRecord
<1>4. At1(u, "killPods") \/ At1(u, "deletePod")
  BY DEF ForceDeleteAppPods, DeleteBarePod
<1> QED
  BY <1>1, <1>3, <1>4, KeepsOtherCall DEF CallNames, AppInv

LEMMA KeepsAppRest ==
  ASSUME AppInv, LockCluster \/ ControllerSyncs \/ JobEnds \/ UNCHANGED appVars PROVE AppInv'
<1>1. UNCHANGED <<verb, ran, overtaken>> /\ app \in AppRecord
  BY DEF LockCluster, ControllerSyncs, JobEnds, appVars, AppInv, AppTypeOK, AppRecord
<1>2. app' = app \/ app' = [app EXCEPT !.finished = TRUE]
  BY DEF LockCluster, ControllerSyncs, JobEnds, appVars
<1>3. app' \in AppRecord /\ app'.kind = app.kind /\ app'.replicas = app.replicas
      /\ app'.remembered = app.remembered /\ app'.selector = app.selector
  BY <1>1, <1>2, ZenonT(60) DEF AppRecord
<1>4. AppTypeOK' /\ (CountInv => CountInv') /\ (ReadCountInv => ReadCountInv')
  BY <1>1, <1>3 DEF AppInv, AppTypeOK, AppRecord, CountInv, ReadCountInv, ReadCount, Recalls
<1> QED
  BY <1>1, <1>3, <1>4 DEF AppInv

LEMMA AppInvInit == AppInit => AppInv
<1> SUFFICES ASSUME AppInit PROVE AppInv
  OBVIOUS
<1>1. NoVerb \in [calls : Seq(CallNames), read : Nat] /\ WellMade(NoVerb.calls) /\ NoVerb.calls = << >>
  BY DEF NoVerb, WellMade
<1>2. PICK k \in AppKinds, n \in 1 .. MaxReplicas :
        app = [kind |-> k, replicas |-> n, remembered |-> 0, disabled |-> FALSE,
               suspended |-> FALSE, selector |-> {"own"}, finished |-> FALSE, exists |-> TRUE] /\ ran = n
  BY DEF AppInit
<1>3. n \in Nat \ {0} /\ verb = [u \in Users |-> NoVerb] /\ overtaken = FALSE
  BY AppPowerAssumption DEF AppInit
<1>4. AppTypeOK
  BY <1>1, <1>2, <1>3 DEF AppTypeOK
<1>5. CountInv /\ ReadCountInv
  BY <1>1, <1>2, <1>3 DEF CountInv, ReadCountInv, ReadCount, Recalls
<1> QED
  BY <1>1, <1>2, <1>3, <1>4, <1>5 DEF AppInv

\* The count a start brings back, for any number of requests of any length in flight
\* together: however stops, starts, disables and enables interleave, fail halfway or are
\* repeated, an app at zero remembers the count it last ran with (kube.Stop, kube.Start).
THEOREM CountComesBack == AppSpec => []ComesBackAsItWas
<1>1. AppInit => AppInv
  BY AppInvInit
<1>2. AppInv /\ [AppNext]_appVars => AppInv'
  <2> SUFFICES ASSUME AppInv, [AppNext]_appVars PROVE AppInv'
    OBVIOUS
  <2>1. CASE LockCluster \/ ControllerSyncs \/ JobEnds \/ UNCHANGED appVars
    BY <2>1, KeepsAppRest
  <2>2. CASE \E n \in 1 .. MaxReplicas : kubernetesScaleWorkload(n)
    BY <2>2, KeepsScale
  <2>3. ASSUME NEW u \in Users, \/ \E v \in AppVerbs : RunApp(u, v)
                                \/ \E s \in BOOLEAN : kubernetesStartStop(u, s)
                                \/ VerbCall(u) \/ VerbFails(u)
        PROVE  AppInv'
    <3>1. CASE \E v \in AppVerbs : RunApp(u, v)
      BY <3>1, KeepsRunApp
    <3>2. CASE \E s \in BOOLEAN : kubernetesStartStop(u, s)
      BY <3>2, KeepsStartStop
    <3>3. CASE VerbCall(u)
      BY <3>3, KeepsReplicasOf, KeepsRemembered, KeepsReadDaemonSet, KeepsPatch, KeepsPodCall DEF VerbCall
    <3>4. CASE VerbFails(u)
      BY <3>4, KeepsVerbFails
    <3> QED
      BY <2>3, <3>1, <3>2, <3>3, <3>4
  <2> QED
    BY <2>1, <2>2, <2>3 DEF AppNext
<1>3. AppInv => ComesBackAsItWas
  BY DEF AppInv, CountInv, ComesBackAsItWas
<1> QED
  BY <1>1, <1>2, <1>3, PTL DEF AppSpec

----------------------------------------------------------------------------
(***************************************************************************)
(* Upgrades and removals: the majority of etcd.                            *)
(***************************************************************************)

\* The shape of a job: a control plane is wiped only after a step that takes it out of etcd.
StepsOK(s) ==
    /\ Len(s) \in Nat
    /\ \A k \in 1 .. Len(s) :
          s[k].op = "wipe" /\ s[k].x \in CPs =>
                \E l \in 1 .. (k - 1) : s[l].op = "leave" /\ s[l].x = s[k].x

JobLives == ujob.st \in {"running", "interrupted"}

JobShape ==
    /\ DOMAIN ujob = {"kind", "steps", "i", "to", "rest", "pc", "st"}
    /\ StepsOK(ujob.steps)
    /\ JobLives => ujob.i \in 1 .. Len(ujob.steps)

EtcdShape ==
    /\ member \in [CPs -> {"voter", "learner", "out"}]
    /\ up \in [ClusterNodes -> {"up", "away", "wiped"}]
    /\ inv \subseteq ClusterNodes
    /\ raced \in BOOLEAN

\* What a removal has passed has happened.
LeftInv ==
    /\ JobLives => \A l \in 1 .. (ujob.i - 1) :
          ujob.steps[l].op = "leave" => ujob.steps[l].x \notin MembersOf
    /\ At("leave", "wait") => Cur.x \notin MembersOf

\* Past its check a step may take its node: the voters stood, and nothing that may have
\* happened since has taken one of them.
CheckedInv ==
    /\ At("upgrade", "do") /\ Cur.x \in Voters /\ Voters \subseteq inv =>
          Cardinality(Voters) >= 3 /\ Voters \subseteq Standing
    /\ At("leave", "do") =>
          /\ Cardinality(Voters) >= 3
          /\ Cardinality(Standing \ {Cur.x}) >= EtcdMajority(Cardinality(Voters) - 1)

\* Etcd has voters to lose, and a majority of them stands.
EtcdStands ==
    /\ Cardinality(Voters) >= 2
    /\ Voters \subseteq inv => Quorum

QuorumInv ==
    /\ JobShape /\ EtcdShape /\ LeftInv
    /\ ~raced => EtcdStands /\ CheckedInv

\* Etcd is a finite set of members.
LEMMA EtcdIsFinite ==
  /\ IsFiniteSet(Voters) /\ IsFiniteSet(Standing) /\ Standing \subseteq Voters
  /\ Cardinality(Voters) \in Nat /\ Cardinality(Standing) \in Nat
<1>1. IsFiniteSet(CPs)
  BY UpgradeAssumption, FS_Interval DEF CPs
<1>2. Voters \subseteq CPs /\ Standing \subseteq Voters
  BY DEF Voters, Standing
<1>3. IsFiniteSet(Voters) /\ IsFiniteSet(Standing)
  BY <1>1, <1>2, FS_Subset
<1>4. QED
  BY <1>2, <1>3, FS_CardinalityType

\* Of three voters or more, one may go.
LEMMA OneMayGo ==
  ASSUME NEW V, IsFiniteSet(V), Cardinality(V) >= 3, NEW x
  PROVE  Cardinality(V \ {x}) >= EtcdMajority(Cardinality(V))
<1>1. Cardinality(V) \in Nat
  BY FS_CardinalityType
<1>2. CASE x \in V
  <2>1. Cardinality(V \ {x}) = Cardinality(V) - 1
    BY <1>2, FS_RemoveElement
  <2>2. QED
    BY <2>1, <1>1 DEF EtcdMajority
<1>3. CASE x \notin V
  <2>1. Cardinality(V \ {x}) = Cardinality(V)
    <3>1. V \ {x} = V
      BY <1>3
    <3>2. QED
      BY <3>1
  <2>2. QED
    BY <2>1, <1>1 DEF EtcdMajority
<1>4. QED
  BY <1>2, <1>3

\* Nothing is about to take a node.
NotPast == ~At("upgrade", "do") /\ ~At("leave", "do")

\* The engine goes on to the next step of a job.
LEMMA JobPasses ==
  ASSUME JobShape, JobLives, LeftInv, MembersOf' \subseteq MembersOf,
         Cur.op = "leave" => Cur.x \notin MembersOf,
         NEW j, j = ujob \/ j = [ujob EXCEPT !.st = "running"],
         ujob' = NextStep(j)
  PROVE  JobShape' /\ LeftInv' /\ NotPast'
<1>1. /\ j.steps = ujob.steps /\ j.i = ujob.i
      /\ DOMAIN j = {"kind", "steps", "i", "to", "rest", "pc", "st"}
  BY DEF JobShape
<1>2. /\ ujob'.steps = ujob.steps
      /\ DOMAIN ujob' = {"kind", "steps", "i", "to", "rest", "pc", "st"}
  BY <1>1 DEF NextStep
<1>3. StepsOK(ujob.steps)' /\ ujob.i \in 1 .. Len(ujob.steps)
  BY <1>2 DEF JobShape, StepsOK
<1>4. CASE ujob.i = Len(ujob.steps)
  <2>1. ujob'.st = "done"
    BY <1>1, <1>4 DEF NextStep
  <2>2. QED
    BY <2>1, <1>2, <1>3 DEF JobShape, LeftInv, NotPast, JobLives, At, JobRuns
<1>5. CASE ujob.i # Len(ujob.steps)
  <2>1. ujob'.i = ujob.i + 1 /\ ujob'.pc = "begin"
    BY <1>1, <1>5 DEF NextStep
  <2>2. ujob'.i \in 1 .. Len(ujob'.steps)
    BY <2>1, <1>2, <1>3, <1>5 DEF StepsOK
  <2>3. ASSUME NEW l \in 1 .. (ujob'.i - 1), ujob'.steps[l].op = "leave"
        PROVE  ujob'.steps[l].x \notin MembersOf'
    <3>1. CASE l = ujob.i
      BY <3>1, <2>3, <1>2 DEF Cur
    <3>2. CASE l # ujob.i
      <4>1. l \in 1 .. (ujob.i - 1)
        BY <3>2, <2>1, <1>3 DEF StepsOK
      <4>2. QED
        BY <4>1, <2>3, <1>2 DEF LeftInv
    <3>3. QED
      BY <3>1, <3>2
  <2>4. QED
    BY <2>1, <2>2, <2>3, <1>2, <1>3 DEF JobShape, LeftInv, NotPast, At
<1>6. QED
  BY <1>4, <1>5

\* A job stays at its step.
LEMMA JobStays ==
  ASSUME JobShape, LeftInv, MembersOf' \subseteq MembersOf,
         DOMAIN ujob' = DOMAIN ujob, ujob'.steps = ujob.steps, ujob'.i = ujob.i,
         JobLives' => JobLives,
         At("leave", "wait")' => (Cur.x)' \notin MembersOf'
  PROVE  JobShape' /\ LeftInv'
<1>1. StepsOK(ujob.steps)'
  BY DEF JobShape, StepsOK
<1>2. JobShape'
  BY <1>1 DEF JobShape
<1>3. LeftInv'
  BY DEF LeftInv
<1>4. QED
  BY <1>2, <1>3

\* A new job is at its first step.
LEMMA JobBegins ==
  ASSUME DOMAIN ujob' = {"kind", "steps", "i", "to", "rest", "pc", "st"},
         StepsOK(ujob.steps)', ujob'.i = 1, ujob'.pc = "begin",
         Len(ujob'.steps) >= 1
  PROVE  JobShape' /\ LeftInv' /\ NotPast'
<1>1. JobShape'
  BY DEF JobShape, StepsOK
<1>2. LeftInv'
  BY DEF LeftInv, At
<1>3. NotPast'
  BY DEF NotPast, At
<1>4. QED
  BY <1>1, <1>2, <1>3

\* What touches no node and no member.
EtcdQuiet ==
    member' = member /\ up' = up /\ raced' = raced /\ inv' \subseteq inv

LEMMA EtcdKept ==
  ASSUME EtcdShape, EtcdQuiet
  PROVE  /\ EtcdShape' /\ Voters' = Voters /\ Standing' = Standing /\ MembersOf' = MembersOf
         /\ EtcdStands => EtcdStands'
<1>1. Voters' = Voters /\ MembersOf' = MembersOf
  BY DEF EtcdQuiet, Voters, MembersOf
<1>2. Standing' = Standing
  BY <1>1 DEF EtcdQuiet, Standing, Answers
<1>3. EtcdShape'
  BY DEF EtcdQuiet, EtcdShape
<1>4. EtcdStands => EtcdStands'
  BY <1>1, <1>2 DEF EtcdStands, EtcdQuiet, Quorum
<1>5. QED
  BY <1>1, <1>2, <1>3, <1>4

\* What touches neither, and leaves nothing past its check.
LEMMA QuietStep ==
  ASSUME QuorumInv, EtcdQuiet, JobShape', LeftInv', NotPast'
  PROVE  QuorumInv'
<1>1. EtcdShape' /\ (EtcdStands => EtcdStands')
  BY EtcdKept DEF QuorumInv
<1>2. CheckedInv'
  BY DEF CheckedInv, NotPast
<1>3. QED
  BY <1>1, <1>2 DEF QuorumInv, EtcdQuiet

\* What leaves the job alone.
LEMMA JobUntouched ==
  ASSUME QuorumInv, EtcdQuiet, ujob' = ujob
  PROVE  QuorumInv'
<1>1. /\ EtcdShape' /\ (EtcdStands => EtcdStands')
      /\ Voters' = Voters /\ Standing' = Standing /\ MembersOf' = MembersOf
  BY EtcdKept DEF QuorumInv
<1>2. JobShape' /\ LeftInv'
  BY <1>1 DEF QuorumInv, JobShape, LeftInv, JobLives, At, JobRuns, Cur, StepsOK
<1>3. CheckedInv => CheckedInv'
  BY <1>1 DEF CheckedInv, At, JobRuns, Cur, EtcdQuiet
<1>4. QED
  BY <1>1, <1>2, <1>3 DEF QuorumInv, EtcdQuiet

\* The steps a submission makes.
LEMMA PlainSteps ==
  ASSUME NEW s, NEW T, s \in Seq(T), \A t \in T : t.op # "wipe"
  PROVE  StepsOK(s)
<1>1. Len(s) \in Nat /\ \A k \in 1 .. Len(s) : s[k] \in T
  OBVIOUS
<1>2. QED
  BY <1>1 DEF StepsOK

LEMMA OrderIsSequence ==
  ASSUME NEW S \in SUBSET ClusterNodes
  PROVE  /\ Cardinality(S) \in Nat /\ (S # {} => Cardinality(S) >= 1)
         /\ upgradeOrder(S) \in Seq({upgradeOrder(S)[k] : k \in 1 .. Cardinality(S)})
         /\ DOMAIN upgradeOrder(S) = 1 .. Cardinality(S)
<1>1. IsFiniteSet(S)
  <2>1. IsFiniteSet(ClusterNodes)
    BY UpgradeAssumption, FS_Interval DEF ClusterNodes
  <2>2. QED
    BY <2>1, FS_Subset
<1>2. Cardinality(S) \in Nat /\ (S # {} => Cardinality(S) >= 1)
  BY <1>1, FS_CardinalityType, FS_EmptySet
<1>3. DOMAIN upgradeOrder(S) = 1 .. Cardinality(S)
  BY DEF upgradeOrder
<1>4. upgradeOrder(S) = [k \in 1 .. Cardinality(S) |-> upgradeOrder(S)[k]]
  BY DEF upgradeOrder
<1>5. QED
  BY <1>2, <1>3, <1>4

LEMMA TalosStepsOK ==
  ASSUME NEW S \in SUBSET ClusterNodes, S # {}
  PROVE  StepsOK(talosSteps(upgradeOrder(S))) /\ Len(talosSteps(upgradeOrder(S))) >= 1
<1> DEFINE w == upgradeOrder(S)
           n == Cardinality(S)
           xs == {w[k] : k \in 1 .. n}
           T == {PlanStep(op, x) : op \in {"upgrade"}, x \in xs}
<1>1. n \in Nat /\ n >= 1 /\ DOMAIN w = 1 .. n
  BY OrderIsSequence
<1>2. talosSteps(w) = [k \in 1 .. n |-> PlanStep("upgrade", w[k])]
  BY <1>1 DEF talosSteps
<1>3. ASSUME NEW k \in 1 .. n
      PROVE  PlanStep("upgrade", w[k]) \in T
  OBVIOUS
<1>4. talosSteps(w) \in [1 .. n -> T]
  BY <1>2, <1>3
<1>5. talosSteps(w) \in Seq(T) /\ Len(talosSteps(w)) = n
  BY <1>4, <1>1
<1>6. StepsOK(talosSteps(w))
  <2>1. \A t \in T : t.op # "wipe"
    BY DEF PlanStep
  <2> HIDE DEF T, w
  <2>2. QED
    BY <2>1, <1>5, PlainSteps
<1>7. QED
  BY <1>1, <1>5, <1>6

LEMMA KubernetesStepsOK ==
  ASSUME NEW S \in SUBSET ClusterNodes
  PROVE  /\ StepsOK(kubernetesSteps(upgradeOrder(S)))
         /\ Len(kubernetesSteps(upgradeOrder(S))) >= 1
<1> DEFINE w == upgradeOrder(S)
           n == Cardinality(S)
           xs == {0} \cup {w[k] : k \in 1 .. n} \cup ToSet(Components)
           ops == {"prepull", "component", "proxy", "kubelet"}
           T == {PlanStep(op, x) : op \in ops, x \in xs}
           cs == [k \in DOMAIN Components |-> PlanStep("component", Components[k])]
           ks == [k \in DOMAIN w |-> PlanStep("kubelet", w[k])]
<1>1. n \in Nat /\ DOMAIN w = 1 .. n
  BY OrderIsSequence
<1>2. PlanStep("prepull", 0) \in T /\ PlanStep("proxy", 0) \in T
  OBVIOUS
<1>3. ASSUME NEW k \in 1 .. n
      PROVE  PlanStep("kubelet", w[k]) \in T
  OBVIOUS
<1>4. ks \in Seq(T)
  <2>1. ks \in [1 .. n -> T]
    BY <1>1, <1>3
  <2>2. QED
    BY <2>1, <1>1
<1>5. ASSUME NEW k \in DOMAIN Components
      PROVE  PlanStep("component", Components[k]) \in T
  <2>1. Components[k] \in xs
    BY DEF ToSet
  <2>2. QED
    BY <2>1
<1>6. Len(Components) \in Nat /\ DOMAIN Components = 1 .. Len(Components)
  BY UpgradeAssumption
<1>7. cs \in Seq(T)
  <2>1. cs \in [1 .. Len(Components) -> T]
    BY <1>5, <1>6
  <2>2. QED
    BY <2>1, <1>6
<1> HIDE DEF T, cs, ks, w
<1>8. /\ <<PlanStep("prepull", 0)>> \in Seq(T) /\ Len(<<PlanStep("prepull", 0)>>) = 1
      /\ <<PlanStep("proxy", 0)>> \in Seq(T)
  BY <1>2
<1>9. /\ <<PlanStep("prepull", 0)>> \o cs \in Seq(T)
      /\ Len(<<PlanStep("prepull", 0)>> \o cs) = 1 + Len(cs)
  BY <1>8, <1>7
<1>10. /\ <<PlanStep("prepull", 0)>> \o cs \o <<PlanStep("proxy", 0)>> \in Seq(T)
       /\ Len(<<PlanStep("prepull", 0)>> \o cs \o <<PlanStep("proxy", 0)>>) = 1 + Len(cs) + 1
  BY <1>8, <1>9
<1>11. /\ <<PlanStep("prepull", 0)>> \o cs \o <<PlanStep("proxy", 0)>> \o ks \in Seq(T)
       /\ Len(<<PlanStep("prepull", 0)>> \o cs \o <<PlanStep("proxy", 0)>> \o ks)
            = 1 + Len(cs) + 1 + Len(ks)
  BY <1>4, <1>10
<1>12. Len(cs) \in Nat /\ Len(ks) \in Nat
  BY <1>4, <1>7
<1>13. kubernetesSteps(w) = <<PlanStep("prepull", 0)>> \o cs \o <<PlanStep("proxy", 0)>> \o ks
  BY DEF kubernetesSteps, cs, ks
<1>14. StepsOK(kubernetesSteps(w))
  <2>1. \A t \in T : t.op # "wipe"
    BY DEF T, PlanStep
  <2>2. QED
    BY <2>1, <1>11, <1>13, PlainSteps
<1>15. QED
  BY <1>11, <1>12, <1>13, <1>14 DEF w

LEMMA RemoveStepsOK ==
  ASSUME NEW n
  PROVE  StepsOK(removeNodeSteps(n)) /\ Len(removeNodeSteps(n)) >= 1
<1> DEFINE s == removeNodeSteps(n)
<1>1. CASE n \in CPs
  <2>1. /\ Len(s) = 5 /\ s[1].op = "reach" /\ s[2].op = "leave" /\ s[2].x = n
        /\ s[3].op = "settle" /\ s[4].op = "wipe" /\ s[4].x = n /\ s[5].op = "forget"
    BY <1>1 DEF removeNodeSteps, PlanStep
  <2>2. ASSUME NEW k \in 1 .. 5, s[k].op = "wipe"
        PROVE  \E l \in 1 .. (k - 1) : s[l].op = "leave" /\ s[l].x = s[k].x
    <3>1. k = 4
      BY <2>1, <2>2
    <3>2. 2 \in 1 .. (k - 1)
      BY <3>1
    <3>3. QED
      BY <3>1, <3>2, <2>1
  <2>3. QED
    BY <2>1, <2>2 DEF StepsOK
<1>2. CASE n \notin CPs
  <2>1. /\ Len(s) = 3 /\ s[1].op = "reach" /\ s[2].x = n /\ s[3].op = "forget"
    BY <1>2 DEF removeNodeSteps, PlanStep
  <2>2. ASSUME NEW k \in 1 .. 3, s[k].op = "wipe"
        PROVE  s[k].x \notin CPs
    <3>1. k = 2
      BY <2>1, <2>2
    <3>2. QED
      BY <3>1, <2>1, <1>2
  <2>3. QED
    BY <2>1, <2>2 DEF StepsOK
<1>3. QED
  BY <1>1, <1>2

\* The routes.
LEMMA RoutesKeepQuorum ==
  ASSUME QuorumInv,
         \/ submitUpgrade
         \/ \E n \in ClusterNodes : removeNodeFromCluster(n) \/ lockMachine(n) \/ ForgetMachine(n)
         \/ \E n \in CPs : removeEtcdMember(n)
         \/ \E n \in CPs : CatchesUp(n)
         \/ \E n \in CPs, c \in ToSet(Components) : PodReady(n, c)
         \/ Settles
  PROVE  QuorumInv'
<1>1. CASE submitUpgrade
  <2>1. EtcdQuiet
    BY <1>1 DEF submitUpgrade, EtcdQuiet, nodeVars, etcdVars
  <2>2. inv \ locked \in SUBSET ClusterNodes /\ inv \ locked # {}
    BY <1>1 DEF submitUpgrade, upgradeParams, QuorumInv, EtcdShape
  <2>3. conf.walk = upgradeOrder(inv \ locked)
    BY <1>1 DEF submitUpgrade, RequestFor
  <2> DEFINE s == IF conf.kind = "talos" THEN talosSteps(conf.walk) ELSE kubernetesSteps(conf.walk)
  <2>4. StepsOK(s) /\ Len(s) >= 1
    BY <2>2, <2>3, TalosStepsOK, KubernetesStepsOK
  <2>5. /\ DOMAIN ujob' = {"kind", "steps", "i", "to", "rest", "pc", "st"}
        /\ ujob'.steps = s /\ ujob'.i = 1 /\ ujob'.pc = "begin"
    BY <1>1 DEF submitUpgrade, NoUpgrade
  <2>6. JobShape' /\ LeftInv' /\ NotPast'
    <3>1. StepsOK(ujob.steps)'
      BY <2>4, <2>5 DEF StepsOK
    <3>2. QED
      BY <3>1, <2>4, <2>5, JobBegins
  <2>7. QED
    BY <2>1, <2>6, QuietStep
<1>2. ASSUME NEW n \in ClusterNodes, removeNodeFromCluster(n)
      PROVE  QuorumInv'
  <2>1. EtcdQuiet
    BY <1>2 DEF removeNodeFromCluster, EtcdQuiet, nodeVars, etcdVars
  <2>2. StepsOK(removeNodeSteps(n)) /\ Len(removeNodeSteps(n)) >= 1
    BY RemoveStepsOK
  <2>3. /\ DOMAIN ujob' = {"kind", "steps", "i", "to", "rest", "pc", "st"}
        /\ ujob'.steps = removeNodeSteps(n) /\ ujob'.i = 1 /\ ujob'.pc = "begin"
    BY <1>2 DEF removeNodeFromCluster, NoUpgrade
  <2>4. JobShape' /\ LeftInv' /\ NotPast'
    <3>1. StepsOK(ujob.steps)'
      BY <2>2, <2>3 DEF StepsOK
    <3>2. QED
      BY <3>1, <2>2, <2>3, JobBegins
  <2>5. QED
    BY <2>1, <2>4, QuietStep
<1>3. ASSUME NEW n \in ClusterNodes, lockMachine(n) \/ ForgetMachine(n)
      PROVE  QuorumInv'
  <2>1. EtcdQuiet /\ ujob' = ujob
    BY <1>3 DEF lockMachine, ForgetMachine, EtcdQuiet, nodeVars, etcdVars
  <2>2. QED
    BY <2>1, JobUntouched
<1>4. CASE \/ \E n \in CPs : removeEtcdMember(n) \/ CatchesUp(n)
           \/ \E n \in CPs, c \in ToSet(Components) : PodReady(n, c)
           \/ Settles
  <2>1. EtcdQuiet /\ ujob' = ujob
    BY <1>4 DEF removeEtcdMember, CatchesUp, PodReady, Settles, EtcdQuiet, nodeVars, etcdVars
  <2>2. QED
    BY <2>1, JobUntouched
<1>5. QED
  BY <1>1, <1>2, <1>3, <1>4

\* A step that touches nothing and leaves its place.
LEMMA QuietJobStays ==
  ASSUME QuorumInv, EtcdQuiet,
         DOMAIN ujob' = DOMAIN ujob, ujob'.steps = ujob.steps, ujob'.i = ujob.i,
         JobLives' => JobLives, ~At("leave", "wait")', NotPast'
  PROVE  QuorumInv'
<1>1. MembersOf' = MembersOf
  BY EtcdKept DEF QuorumInv
<1>2. JobShape' /\ LeftInv'
  BY <1>1, JobStays DEF QuorumInv
<1>3. QED
  BY <1>2, QuietStep

LEMMA QuietJobPasses ==
  ASSUME QuorumInv, EtcdQuiet, JobRuns, ujob' = NextStep(ujob),
         Cur.op = "leave" => Cur.x \notin MembersOf
  PROVE  QuorumInv'
<1>1. MembersOf' = MembersOf
  BY EtcdKept DEF QuorumInv
<1>2. JobLives
  BY DEF JobLives, JobRuns
<1>3. JobShape' /\ LeftInv' /\ NotPast'
  BY <1>1, <1>2, JobPasses DEF QuorumInv
<1>4. QED
  BY <1>3, QuietStep

\* Steps that end.
LEMMA EndsKeepQuorum ==
  ASSUME QuorumInv,
         \/ waitForUpgrade \/ PrepullDone \/ ProxyApply \/ waitForKubernetes
         \/ LeaveDone \/ SettleDone \/ WipeDone \/ ForgetDone
  PROVE  QuorumInv'
<1>1. EtcdQuiet /\ JobRuns /\ ujob' = NextStep(ujob)
  BY DEF waitForUpgrade, PrepullDone, ProxyApply, waitForKubernetes, LeaveDone, SettleDone,
         WipeDone, ForgetDone, EtcdQuiet, nodeVars, etcdVars, At
<1>2. Cur.op = "leave" => Cur.x \notin MembersOf
  BY DEF waitForUpgrade, PrepullDone, ProxyApply, waitForKubernetes, LeaveDone, SettleDone,
         WipeDone, ForgetDone, At, QuorumInv, LeftInv
<1>3. QED
  BY <1>1, <1>2, QuietJobPasses

\* Steps that move on within themselves.
LEMMA MovesKeepQuorum ==
  ASSUME QuorumInv,
         \/ Prepull \/ ComponentBegin \/ ComponentApply \/ waitForStaticPod \/ ProxyBegin
         \/ KubeletApply \/ SettleBegin \/ WipeBegin \/ ForgetBegin \/ ForgetNode
  PROVE  QuorumInv'
<1>1. EtcdQuiet /\ JobRuns /\ Cur.op \notin {"leave", "upgrade"}
  BY DEF Prepull, ComponentBegin, ComponentApply, waitForStaticPod, ProxyBegin, KubeletApply,
         SettleBegin, WipeBegin, ForgetBegin, ForgetNode, At, EtcdQuiet, nodeVars, etcdVars
<1>2. /\ DOMAIN ujob' = DOMAIN ujob /\ ujob'.steps = ujob.steps /\ ujob'.i = ujob.i
      /\ ujob'.st = ujob.st
  BY DEF Prepull, ComponentBegin, ComponentApply, waitForStaticPod, ProxyBegin, KubeletApply,
         SettleBegin, WipeBegin, ForgetBegin, ForgetNode, Goto, QuorumInv, JobShape
<1>3. ~At("leave", "wait")' /\ NotPast' /\ (JobLives' => JobLives)
  BY <1>1, <1>2 DEF At, NotPast, JobLives, Cur
<1>4. QED
  BY <1>1, <1>2, <1>3, QuietJobStays

\* Jobs that fail, are cut off or stopped.
LEMMA StopsKeepQuorum ==
  ASSUME QuorumInv, EtcdQuiet, JobRuns,
         \E st \in {"failed", "interrupted"} : ujob' = [ujob EXCEPT !.st = st]
  PROVE  QuorumInv'
<1>1. /\ DOMAIN ujob' = DOMAIN ujob /\ ujob'.steps = ujob.steps /\ ujob'.i = ujob.i
      /\ ujob'.st \in {"failed", "interrupted"}
  BY DEF QuorumInv, JobShape
<1>2. ~At("leave", "wait")' /\ NotPast' /\ (JobLives' => JobLives)
  BY <1>1 DEF At, NotPast, JobLives, JobRuns
<1>3. QED
  BY <1>1, <1>2, QuietJobStays

\* The gate lets a voter go when three or more stand, all of them.
LEMMA GateMeans ==
  ASSUME EtcdStands, Voters \subseteq inv, NEW n \in Voters, Evaluate(n)
  PROVE  Cardinality(Voters) >= 3 /\ Voters \subseteq Standing
<1>1. Voters \subseteq inventoryCPs
  BY DEF inventoryCPs, Voters
<1>2. Cardinality(inventoryCPs) # 1
  <2>1. SUFFICES ASSUME Cardinality(inventoryCPs) = 1 PROVE FALSE
    OBVIOUS
  <2>2. IsFiniteSet(inventoryCPs)
    <3>1. IsFiniteSet(CPs)
      BY UpgradeAssumption, FS_Interval DEF CPs
    <3>2. QED
      BY <3>1, FS_Subset DEF inventoryCPs
  <2>3. Cardinality(Voters) <= Cardinality(inventoryCPs)
    BY <1>1, <2>2, FS_Subset
  <2>4. QED
    BY <2>1, <2>3, EtcdIsFinite DEF EtcdStands
<1>3. (\A m \in inventoryCPs : Answers(m)) /\ Voting >= 3
  BY <1>2 DEF Evaluate, MinVotingMembers
<1>4. Voters \subseteq Standing
  BY <1>1, <1>3 DEF Standing
<1>5. Voting = Cardinality(Voters)
  BY <1>1, <1>3 DEF Voting
<1>6. QED
  BY <1>3, <1>4, <1>5

\* The quorum rule: what stands is a majority of those that are left.
LEMMA SpareMeans ==
  ASSUME NEW n, CanSpareAVoter(n)
  PROVE  /\ Cardinality(Voters) >= 3
         /\ Cardinality(Standing \ {n}) >= EtcdMajority(Cardinality(Voters) - 1)
<1>1. Cardinality(Voters) \in Nat /\ IsFiniteSet(Standing \ {n})
  BY EtcdIsFinite, FS_Subset
<1>2. Voters # {}
  BY FS_EmptySet DEF CanSpareAVoter
<1>3. Cardinality(Voters) - EtcdMajority(Cardinality(Voters)) > 0
  BY <1>2 DEF CanSpareAVoter, Tolerates
<1>4. Cardinality(Voters) >= 3
  BY <1>1, <1>3 DEF EtcdMajority
<1>5. ProbeVoters \ {n} \subseteq Standing \ {n}
  BY DEF ProbeVoters
<1>6. /\ Cardinality(ProbeVoters \ {n}) <= Cardinality(Standing \ {n})
      /\ Cardinality(ProbeVoters \ {n}) \in Nat /\ Cardinality(Standing \ {n}) \in Nat
  BY <1>1, <1>5, FS_Subset, FS_CardinalityType
<1>7. Cardinality(ProbeVoters \ {n}) >= EtcdMajority(Cardinality(Voters) - 1)
  BY DEF CanSpareAVoter, standingAfterRemoving
<1>8. EtcdMajority(Cardinality(Voters) - 1) \in Int
  BY <1>1, <1>4 DEF EtcdMajority
<1>9. QED
  BY <1>4, <1>6, <1>7, <1>8

\* A step that decides to go on.
LEMMA Decides ==
  ASSUME QuorumInv, EtcdQuiet, JobRuns, ujob' = [ujob EXCEPT !.pc = "do"],
         ~raced => CheckedInv'
  PROVE  QuorumInv'
<1>1. /\ DOMAIN ujob' = DOMAIN ujob /\ ujob'.steps = ujob.steps /\ ujob'.i = ujob.i
      /\ ujob'.st = ujob.st /\ ujob'.pc = "do"
  BY DEF QuorumInv, JobShape
<1>2. MembersOf' = MembersOf /\ EtcdShape' /\ (EtcdStands => EtcdStands')
  BY EtcdKept DEF QuorumInv
<1>3. ~At("leave", "wait")' /\ (JobLives' => JobLives)
  BY <1>1 DEF At, JobLives
<1>4. JobShape' /\ LeftInv'
  BY <1>1, <1>2, <1>3, JobStays DEF QuorumInv
<1>5. QED
  BY <1>2, <1>4 DEF QuorumInv, EtcdQuiet

LEMMA BeginKeepsQuorum ==
  ASSUME QuorumInv, NEW op \in {"upgrade", "kubelet"}, BeginNode(op)
  PROVE  QuorumInv'
<1>1. /\ EtcdQuiet /\ JobRuns /\ Cur.op = op /\ inv' = inv
      /\ DOMAIN ujob = {"kind", "steps", "i", "to", "rest", "pc", "st"}
  BY DEF BeginNode, At, EtcdQuiet, nodeVars, etcdVars, QuorumInv, JobShape
<1>2. CASE Fail
  BY <1>1, <1>2, StopsKeepQuorum DEF Fail
<1>3. CASE ujob' = NextStep(ujob)
  BY <1>1, <1>3, QuietJobPasses
<1>4. CASE /\ ujob' = [ujob EXCEPT !.pc = "do"]
           /\ Cur.x \in CPs => Evaluate(Cur.x)
  <2>1. Voters' = Voters /\ Standing' = Standing
    BY <1>1, EtcdKept DEF QuorumInv
  <2>2. (Cur.x)' = Cur.x /\ (Cur.op)' = op
    BY <1>1, <1>4 DEF Cur
  <2>3. ~raced => CheckedInv'
    <3>1. SUFFICES ASSUME ~raced PROVE CheckedInv'
      OBVIOUS
    <3>2. ~At("leave", "do")'
      BY <2>2 DEF At
    <3>3. ASSUME Cur.x \in Voters, Voters \subseteq inv
          PROVE  Cardinality(Voters) >= 3 /\ Voters \subseteq Standing
      <4>1. Evaluate(Cur.x)
        BY <3>3, <1>4 DEF Voters
      <4>2. EtcdStands
        BY <3>1 DEF QuorumInv
      <4>3. QED
        BY <3>3, <4>1, <4>2, GateMeans
    <3>4. QED
      BY <1>1, <2>1, <2>2, <3>2, <3>3 DEF CheckedInv
  <2>4. QED
    BY <1>1, <1>4, <2>3, Decides
<1>5. QED
  BY <1>2, <1>3, <1>4 DEF BeginNode, Goto

LEMMA LeaveBeginKeepsQuorum ==
  ASSUME QuorumInv, LeaveBegin
  PROVE  QuorumInv'
<1>1. /\ EtcdQuiet /\ JobRuns /\ Cur.op = "leave"
      /\ DOMAIN ujob = {"kind", "steps", "i", "to", "rest", "pc", "st"}
  BY DEF LeaveBegin, At, EtcdQuiet, nodeVars, etcdVars, QuorumInv, JobShape
<1>2. CASE Fail
  BY <1>1, <1>2, StopsKeepQuorum DEF Fail
<1>3. CASE ujob' = NextStep(ujob) /\ Cur.x \notin MembersOf
  BY <1>1, <1>3, QuietJobPasses
<1>4. CASE ujob' = [ujob EXCEPT !.pc = "do"] /\ checkRemovable(Cur.x) /\ Cur.x \in MembersOf
  <2>1. Voters' = Voters /\ Standing' = Standing
    BY <1>1, EtcdKept DEF QuorumInv
  <2>2. (Cur.x)' = Cur.x /\ (Cur.op)' = "leave"
    BY <1>1, <1>4 DEF Cur
  <2>3. CanSpareAVoter(Cur.x)
    BY <1>4 DEF checkRemovable
  <2>4. /\ Cardinality(Voters) >= 3
        /\ Cardinality(Standing \ {Cur.x}) >= EtcdMajority(Cardinality(Voters) - 1)
    BY <2>3, SpareMeans
  <2>5. CheckedInv'
    <3>1. ~At("upgrade", "do")'
      BY <2>2 DEF At
    <3>2. QED
      BY <2>1, <2>2, <2>4, <3>1 DEF CheckedInv, EtcdMajority
  <2>6. QED
    BY <1>1, <1>4, <2>5, Decides
<1>5. QED
  BY <1>2, <1>3, <1>4 DEF LeaveBegin, Goto

LEMMA OtherDecisionsKeepQuorum ==
  ASSUME QuorumInv, ComponentEach \/ Reachable
  PROVE  QuorumInv'
<1>1. /\ EtcdQuiet /\ JobRuns /\ Cur.op \notin {"leave", "upgrade"}
      /\ DOMAIN ujob = {"kind", "steps", "i", "to", "rest", "pc", "st"}
  BY DEF ComponentEach, Reachable, At, EtcdQuiet, nodeVars, etcdVars, QuorumInv, JobShape
<1>2. CASE Fail
  BY <1>1, <1>2, StopsKeepQuorum DEF Fail
<1>3. CASE ujob' = NextStep(ujob)
  BY <1>1, <1>3, QuietJobPasses
<1>4. CASE ujob' = [ujob EXCEPT !.rest = Tail(ujob.rest)] \/ ujob' = [ujob EXCEPT !.pc = "do"]
  <2>1. /\ DOMAIN ujob' = DOMAIN ujob /\ ujob'.steps = ujob.steps /\ ujob'.i = ujob.i
        /\ ujob'.st = ujob.st
    BY <1>1, <1>4
  <2>2. ~At("leave", "wait")' /\ NotPast' /\ (JobLives' => JobLives)
    BY <1>1, <2>1 DEF At, NotPast, JobLives, Cur
  <2>3. QED
    BY <1>1, <2>1, <2>2, QuietJobStays
<1>5. QED
  BY <1>2, <1>3, <1>4 DEF ComponentEach, Reachable, Goto

\* Failure, restart and the next life of the daemon.
LEMMA RestartKeepsQuorum ==
  ASSUME QuorumInv, UpgradeStepFails \/ UpgradeCrash \/ ResumeJob
  PROVE  QuorumInv'
<1>1. EtcdQuiet
  BY DEF UpgradeStepFails, UpgradeCrash, ResumeJob, EtcdQuiet, nodeVars, etcdVars
<1>2. CASE UpgradeStepFails
  BY <1>1, <1>2, StopsKeepQuorum DEF UpgradeStepFails, Fail
<1>3. CASE UpgradeCrash
  <2>1. CASE JobRuns
    BY <1>1, <1>3, <2>1, StopsKeepQuorum DEF UpgradeCrash
  <2>2. CASE ~JobRuns
    BY <1>1, <1>3, <2>2, JobUntouched DEF UpgradeCrash
  <2>3. QED
    BY <2>1, <2>2
<1>4. CASE ResumeJob
  <2> DEFINE j == [ujob EXCEPT !.st = "running"]
             h == IF ujob.pc = "begin" THEN "no" ELSE UpgradeHappened
  <2>1. ujob.st = "interrupted" /\ JobLives
    BY <1>4 DEF ResumeJob, JobLives
  <2>2. ujob' = CASE h = "yes" -> NextStep(j)
                  [] h = "no" -> [j EXCEPT !.pc = "begin", !.rest = <<>>]
                  [] OTHER -> [ujob EXCEPT !.st = "parked"]
    BY <1>4 DEF ResumeJob
  <2>3. MembersOf' = MembersOf
    BY <1>1, EtcdKept DEF QuorumInv
  <2>4. CASE h = "yes"
    <3>1. ujob' = NextStep(j)
      BY <2>2, <2>4
    <3>2. Cur.op = "leave" => Cur.x \notin MembersOf
      BY <2>4 DEF UpgradeHappened
    <3>3. JobShape' /\ LeftInv' /\ NotPast'
      BY <2>1, <2>3, <3>1, <3>2, JobPasses DEF QuorumInv
    <3>4. QED
      BY <1>1, <3>3, QuietStep
  <2>5. CASE h # "yes"
    <3>1. ujob' = [j EXCEPT !.pc = "begin", !.rest = <<>>] \/ ujob' = [ujob EXCEPT !.st = "parked"]
      BY <2>2, <2>5
    <3>2. /\ DOMAIN ujob' = DOMAIN ujob /\ ujob'.steps = ujob.steps /\ ujob'.i = ujob.i
          /\ ujob'.pc = "begin" \/ ujob'.st = "parked"
      BY <3>1 DEF QuorumInv, JobShape
    <3>3. ~At("leave", "wait")' /\ NotPast'
      BY <3>2 DEF At, NotPast, JobRuns
    <3>4. QED
      BY <1>1, <2>1, <3>2, <3>3, QuietJobStays
  <2>6. QED
    BY <2>4, <2>5
<1>5. QED
  BY <1>2, <1>3, <1>4

\* A node is taken or fails while the members of etcd stay: the voters that are left stand.
LEMMA NodeGoes ==
  ASSUME EtcdShape, EtcdStands, NEW n, member' = member, inv' = inv,
         NEW s, up' = [up EXCEPT ![n] = s],
         n \in Voters /\ Voters \subseteq inv =>
            Cardinality(Voters) >= 3 /\ Voters \subseteq Standing
  PROVE  EtcdStands'
<1>1. Voters' = Voters
  BY DEF Voters
<1>2. ASSUME Voters \subseteq inv
      PROVE  Quorum'
  <2>1. CASE n \in Voters
    <3>1. Voters \ {n} \subseteq Standing'
      BY <1>1, <1>2, <2>1 DEF Standing, Answers, EtcdShape, Voters, CPs, ClusterNodes
    <3>2. /\ IsFiniteSet(Standing') /\ IsFiniteSet(Voters)
          /\ Cardinality(Standing') \in Nat /\ Cardinality(Voters) \in Nat
      <4>1. IsFiniteSet(Voters)
        BY EtcdIsFinite
      <4>2. Standing' \subseteq Voters
        BY <1>1 DEF Standing
      <4>3. IsFiniteSet(Standing')
        BY <4>1, <4>2, FS_Subset
      <4>4. QED
        BY <4>1, <4>3, FS_CardinalityType
    <3>3. Cardinality(Voters \ {n}) <= Cardinality(Standing')
      BY <3>1, <3>2, FS_Subset
    <3>4. Cardinality(Voters \ {n}) >= EtcdMajority(Cardinality(Voters))
      BY <1>2, <2>1, <3>2, OneMayGo
    <3>5. Cardinality(Voters \ {n}) \in Nat /\ EtcdMajority(Cardinality(Voters)) \in Int
      <4>1. IsFiniteSet(Voters \ {n})
        BY <3>2, FS_Subset
      <4>2. QED
        BY <4>1, <3>2, FS_CardinalityType DEF EtcdMajority
    <3>6. Cardinality(Standing') >= EtcdMajority(Cardinality(Voters))
      BY <3>2, <3>3, <3>4, <3>5
    <3>7. QED
      BY <1>1, <3>6 DEF Quorum, EtcdMajority
  <2>2. CASE n \notin Voters
    <3>1. Standing' = Standing
      BY <1>1, <2>2 DEF Standing, Answers
    <3>2. QED
      BY <1>1, <1>2, <3>1 DEF EtcdStands, Quorum
  <2>3. QED
    BY <2>1, <2>2
<1>3. QED
  BY <1>1, <1>2 DEF EtcdStands

\* The upgrade takes its node.
LEMMA TakeKeepsQuorum ==
  ASSUME QuorumInv, TalosTake
  PROVE  QuorumInv'
<1>1. /\ At("upgrade", "do") /\ up' = [up EXCEPT ![Cur.x] = "away"]
      /\ ujob' = [ujob EXCEPT !.pc = "wait"] /\ member' = member /\ inv' = inv /\ raced' = raced
  BY DEF TalosTake, Goto, etcdVars
<1>2. /\ DOMAIN ujob' = DOMAIN ujob /\ ujob'.steps = ujob.steps /\ ujob'.i = ujob.i
      /\ ujob'.st = ujob.st /\ ujob'.pc = "wait" /\ (Cur.op)' = "upgrade"
  BY <1>1 DEF QuorumInv, JobShape, Cur, At
<1>3. MembersOf' = MembersOf
  BY <1>1 DEF MembersOf
<1>4. ~At("leave", "wait")' /\ NotPast' /\ (JobLives' => JobLives)
  BY <1>2 DEF At, NotPast, JobLives
<1>5. JobShape' /\ LeftInv'
  BY <1>2, <1>3, <1>4, JobStays DEF QuorumInv
<1>6. EtcdShape'
  BY <1>1 DEF QuorumInv, EtcdShape
<1>7. ~raced => EtcdStands'
  BY <1>1, NodeGoes DEF QuorumInv, CheckedInv
<1>8. CheckedInv'
  BY <1>4 DEF CheckedInv, NotPast
<1>9. QED
  BY <1>1, <1>5, <1>6, <1>7, <1>8 DEF QuorumInv

\* One node fails on its own.
LEMMA FailureKeepsQuorum ==
  ASSUME QuorumInv, NEW n \in ClusterNodes, NodeFails(n)
  PROVE  QuorumInv'
<1>1. /\ up' = [up EXCEPT ![n] = "away"] /\ ujob' = ujob /\ member' = member
      /\ inv' = inv /\ raced' = raced
  BY DEF NodeFails, etcdVars
<1>2. NotPast
  BY DEF NodeFails, PastCheck, NotPast, At
<1>3. NotPast'
  BY <1>1, <1>2 DEF NotPast, At, JobRuns, Cur
<1>4. MembersOf' = MembersOf
  BY <1>1 DEF MembersOf
<1>5. JobShape' /\ LeftInv'
  BY <1>1, <1>4 DEF QuorumInv, JobShape, LeftInv, JobLives, At, JobRuns, Cur, StepsOK
<1>6. EtcdShape'
  BY <1>1 DEF QuorumInv, EtcdShape
<1>7. n \in Voters => Cardinality(Voters) >= 3 /\ Voters \subseteq Standing
  BY DEF NodeFails, Voters, Standing
<1>8. ~raced => EtcdStands'
  BY <1>1, <1>7, NodeGoes DEF QuorumInv
<1>9. CheckedInv'
  BY <1>3 DEF CheckedInv, NotPast
<1>10. QED
  BY <1>1, <1>5, <1>6, <1>8, <1>9 DEF QuorumInv

\* A removed control plane is wiped after it has left etcd.
LEMMA WipeKeepsQuorum ==
  ASSUME QuorumInv, WipeNode
  PROVE  QuorumInv'
<1>1. /\ At("wipe", "do") /\ up' = [up EXCEPT ![Cur.x] = "wiped"]
      /\ ujob' = [ujob EXCEPT !.pc = "wait"] /\ member' = member /\ inv' = inv /\ raced' = raced
  BY DEF WipeNode, Goto, etcdVars
<1>2. /\ DOMAIN ujob' = DOMAIN ujob /\ ujob'.steps = ujob.steps /\ ujob'.i = ujob.i
      /\ ujob'.st = ujob.st /\ ujob'.pc = "wait" /\ (Cur.op)' = "wipe"
  BY <1>1 DEF QuorumInv, JobShape, Cur, At
<1>3. MembersOf' = MembersOf
  BY <1>1 DEF MembersOf
<1>4. ~At("leave", "wait")' /\ NotPast' /\ (JobLives' => JobLives)
  BY <1>2 DEF At, NotPast, JobLives
<1>5. JobShape' /\ LeftInv'
  BY <1>2, <1>3, <1>4, JobStays DEF QuorumInv
<1>6. EtcdShape'
  BY <1>1 DEF QuorumInv, EtcdShape
<1>7. Cur.x \notin Voters
  <2>1. SUFFICES ASSUME Cur.x \in CPs PROVE Cur.x \notin MembersOf
    BY DEF Voters, MembersOf
  <2>2. JobLives /\ ujob.i \in 1 .. Len(ujob.steps)
    BY <1>1 DEF At, JobRuns, JobLives, QuorumInv, JobShape
  <2>3. PICK l \in 1 .. (ujob.i - 1) : ujob.steps[l].op = "leave" /\ ujob.steps[l].x = Cur.x
    BY <1>1, <2>1, <2>2 DEF At, Cur, QuorumInv, JobShape, StepsOK
  <2>4. QED
    BY <2>2, <2>3 DEF QuorumInv, LeftInv
<1>8. ~raced => EtcdStands'
  BY <1>1, <1>7, NodeGoes DEF QuorumInv
<1>9. CheckedInv'
  BY <1>4 DEF CheckedInv, NotPast
<1>10. QED
  BY <1>1, <1>5, <1>6, <1>8, <1>9 DEF QuorumInv

\* A node that answers again only adds to what stands.
LEMMA ReturnKeepsQuorum ==
  ASSUME QuorumInv, NEW n \in ClusterNodes, NodeReturns(n)
  PROVE  QuorumInv'
<1>1. /\ up' = [up EXCEPT ![n] = "up"] /\ ujob' = ujob /\ member' = member
      /\ inv' = inv /\ raced' = raced
  BY DEF NodeReturns
<1>2. Voters' = Voters /\ MembersOf' = MembersOf
  BY <1>1 DEF Voters, MembersOf
<1>3. EtcdShape'
  BY <1>1 DEF QuorumInv, EtcdShape
<1>4. Standing \subseteq Standing'
  BY <1>1, <1>2 DEF Standing, Answers, QuorumInv, EtcdShape, Voters, CPs, ClusterNodes
<1>5. /\ IsFiniteSet(Standing') /\ Cardinality(Standing') \in Nat
      /\ Cardinality(Standing) \in Nat /\ Cardinality(Voters) \in Nat
  <2>1. IsFiniteSet(Standing')
    <3>1. Standing' \subseteq Voters
      BY <1>2 DEF Standing
    <3>2. QED
      BY <3>1, EtcdIsFinite, FS_Subset
  <2>2. QED
    BY <2>1, EtcdIsFinite, FS_CardinalityType
<1>6. Cardinality(Standing) <= Cardinality(Standing')
  BY <1>4, <1>5, FS_Subset
<1>7. EtcdStands => EtcdStands'
  BY <1>1, <1>2, <1>5, <1>6 DEF EtcdStands, Quorum, EtcdMajority
<1>8. JobShape' /\ LeftInv'
  BY <1>1, <1>2 DEF QuorumInv, JobShape, LeftInv, JobLives, At, JobRuns, Cur, StepsOK
<1>9. CheckedInv => CheckedInv'
  <2>1. /\ At("upgrade", "do")' = At("upgrade", "do") /\ At("leave", "do")' = At("leave", "do")
        /\ (Cur.x)' = Cur.x
    BY <1>1 DEF At, JobRuns, Cur
  <2> DEFINE A == Standing \ {Cur.x}
             B == Standing' \ {Cur.x}
  <2>2. A \subseteq B /\ IsFiniteSet(B)
    BY <1>4, <1>5, FS_Subset
  <2>3. Cardinality(A) <= Cardinality(B) /\ Cardinality(A) \in Nat /\ Cardinality(B) \in Nat
    BY <2>2, FS_Subset, FS_CardinalityType
  <2>4. Cardinality(A) >= EtcdMajority(Cardinality(Voters) - 1) =>
          Cardinality(B) >= EtcdMajority(Cardinality(Voters) - 1)
    <3>1. EtcdMajority(Cardinality(Voters) - 1) \in Int
      BY <1>5 DEF EtcdMajority
    <3>2. QED
      BY <2>3, <3>1
  <2>5. (EtcdMajority(Cardinality(Voters) - 1))' = EtcdMajority(Cardinality(Voters) - 1)
    BY <1>2 DEF EtcdMajority
  <2>6. (Standing \ {Cur.x})' = B
    BY <2>1
  <2>7. QED
    BY <1>1, <1>2, <1>4, <2>1, <2>4, <2>5, <2>6 DEF CheckedInv
<1>10. QED
  BY <1>1, <1>3, <1>7, <1>8, <1>9 DEF QuorumInv

\* A member leaves etcd, and the rest of the voters are a majority of what is left.
LEMMA MemberGoes ==
  ASSUME EtcdShape, EtcdStands, NEW n \in CPs, member' = [member EXCEPT ![n] = "out"],
         up' = up, inv' = inv,
         n \in Voters =>
            /\ Cardinality(Voters) >= 3
            /\ Cardinality(Standing \ {n}) >= EtcdMajority(Cardinality(Voters) - 1)
  PROVE  EtcdStands'
<1>1. Voters' = Voters \ {n} /\ Standing' = Standing \ {n}
  BY DEF Voters, Standing, Answers, EtcdShape
<1>2. CASE n \in Voters
  <2>1. Cardinality(Voters \ {n}) = Cardinality(Voters) - 1 /\ Cardinality(Voters) \in Nat
    BY <1>2, EtcdIsFinite, FS_RemoveElement
  <2>2. Cardinality(Voters') >= 2
    BY <1>1, <1>2, <2>1
  <2>3. EtcdMajority(Cardinality(Voters')) = EtcdMajority(Cardinality(Voters) - 1)
    BY <1>1, <2>1
  <2>4. QED
    BY <1>1, <1>2, <2>2, <2>3 DEF EtcdStands, Quorum, EtcdMajority
<1>3. CASE n \notin Voters
  <2>1. Voters' = Voters /\ Standing' = Standing
    BY <1>1, <1>3 DEF Standing
  <2>2. QED
    BY <2>1 DEF EtcdStands, Quorum
<1>4. QED
  BY <1>2, <1>3

LEMMA LeaveKeepsQuorum ==
  ASSUME QuorumInv, LeaveEtcd
  PROVE  QuorumInv'
<1>1. /\ At("leave", "do") /\ Cur.x \in CPs /\ member' = [member EXCEPT ![Cur.x] = "out"]
      /\ ujob' = [ujob EXCEPT !.pc = "wait"] /\ up' = up /\ inv' = inv /\ raced' = raced
  BY DEF LeaveEtcd, Goto, nodeVars, MembersOf
<1>2. /\ DOMAIN ujob' = DOMAIN ujob /\ ujob'.steps = ujob.steps /\ ujob'.i = ujob.i
      /\ ujob'.st = ujob.st /\ ujob'.pc = "wait" /\ (Cur.x)' = Cur.x
  BY <1>1 DEF QuorumInv, JobShape, Cur
<1>3. EtcdShape'
  BY <1>1 DEF QuorumInv, EtcdShape
<1>4. MembersOf' = MembersOf \ {Cur.x}
  BY <1>1 DEF MembersOf, QuorumInv, EtcdShape
<1>5. NotPast' /\ (JobLives' => JobLives) /\ (Cur.x)' \notin MembersOf'
  BY <1>2, <1>4 DEF At, NotPast, JobLives
<1>6. JobShape' /\ LeftInv'
  BY <1>2, <1>4, <1>5, JobStays DEF QuorumInv
<1>7. ~raced => EtcdStands'
  BY <1>1, MemberGoes DEF QuorumInv, CheckedInv
<1>8. CheckedInv'
  BY <1>5 DEF CheckedInv, NotPast
<1>9. QED
  BY <1>1, <1>3, <1>6, <1>7, <1>8 DEF QuorumInv

\* The request that removes a member by hand: behind a check it counts as a race.
LEMMA RemovalKeepsQuorum ==
  ASSUME QuorumInv, RemoveMember
  PROVE  QuorumInv'
<1>1. CASE UNCHANGED <<member, raced>>
  <2>1. EtcdQuiet /\ ujob' = ujob
    BY <1>1 DEF RemoveMember, EtcdQuiet, nodeVars
  <2>2. QED
    BY <2>1, JobUntouched
<1>2. CASE /\ member' = [member EXCEPT ![call] = "out"]
           /\ raced' = (raced \/ PastCheck \/ member[call] = "out" \/ ~CanSpareAVoter(call))
  <2>1. up' = up /\ inv' = inv /\ ujob' = ujob
    BY DEF RemoveMember, nodeVars
  <2>2. raced' \in BOOLEAN /\ EtcdShape'
    BY <1>2, <2>1 DEF QuorumInv, EtcdShape
  <2>3. MembersOf' \subseteq MembersOf
    BY <1>2 DEF MembersOf, QuorumInv, EtcdShape
  <2>4. JobShape' /\ LeftInv'
    BY <2>1, <2>3 DEF QuorumInv, JobShape, LeftInv, JobLives, At, JobRuns, Cur, StepsOK
  <2>5. ASSUME ~raced'
        PROVE  EtcdStands' /\ CheckedInv'
    <3>1. ~raced /\ ~PastCheck /\ CanSpareAVoter(call)
      BY <1>2, <2>5
    <3>2. /\ Cardinality(Voters) >= 3
          /\ Cardinality(Standing \ {call}) >= EtcdMajority(Cardinality(Voters) - 1)
      BY <3>1, SpareMeans
    <3>3. CASE call \in CPs
      <4>1. EtcdStands'
        BY <1>2, <2>1, <3>1, <3>2, <3>3, MemberGoes DEF QuorumInv
      <4>2. CheckedInv'
        BY <2>1, <3>1 DEF CheckedInv, PastCheck, At, JobRuns, Cur
      <4>3. QED
        BY <4>1, <4>2
    <3>4. CASE call \notin CPs
      <4>1. member' = member
        BY <1>2, <3>4 DEF QuorumInv, EtcdShape
      <4>2. Voters' = Voters /\ Standing' = Standing
        BY <2>1, <4>1 DEF Voters, Standing, Answers
      <4>3. EtcdStands'
        BY <2>1, <3>1, <4>2 DEF QuorumInv, EtcdStands, Quorum
      <4>4. CheckedInv'
        BY <2>1, <3>1 DEF CheckedInv, PastCheck, At, JobRuns, Cur
      <4>5. QED
        BY <4>3, <4>4
    <3>5. QED
      BY <3>3, <3>4
  <2>6. QED
    BY <2>2, <2>4, <2>5 DEF QuorumInv
<1>3. QED
  BY <1>1, <1>2 DEF RemoveMember

LEMMA QuorumStep == QuorumInv /\ [UpgradeNext]_upgradeVars => QuorumInv'
<1> SUFFICES ASSUME QuorumInv, [UpgradeNext]_upgradeVars
             PROVE  QuorumInv'
  OBVIOUS
<1>1. CASE UNCHANGED upgradeVars
  <2>1. EtcdQuiet /\ ujob' = ujob
    BY <1>1 DEF upgradeVars, EtcdQuiet
  <2>2. QED
    BY <2>1, JobUntouched
<1>2. CASE \/ \E to \in Minors : confirmUpgrade("talos", to)
           \/ \E to \in {0, 1} : confirmUpgrade("kubernetes", to)
  <2>1. EtcdQuiet /\ ujob' = ujob
    BY <1>2 DEF confirmUpgrade, EtcdQuiet, nodeVars, etcdVars
  <2>2. QED
    BY <2>1, JobUntouched
<1>3. CASE \/ submitUpgrade
           \/ \E n \in ClusterNodes : removeNodeFromCluster(n) \/ lockMachine(n) \/ ForgetMachine(n)
           \/ \E n \in CPs : removeEtcdMember(n) \/ CatchesUp(n)
           \/ \E n \in CPs, c \in ToSet(Components) : PodReady(n, c)
           \/ Settles
  BY <1>3, RoutesKeepQuorum
<1>4. CASE \/ waitForUpgrade \/ PrepullDone \/ ProxyApply \/ waitForKubernetes
           \/ LeaveDone \/ SettleDone \/ WipeDone \/ ForgetDone
  BY <1>4, EndsKeepQuorum
<1>5. CASE \/ Prepull \/ ComponentBegin \/ ComponentApply \/ waitForStaticPod \/ ProxyBegin
           \/ KubeletApply \/ SettleBegin \/ WipeBegin \/ ForgetBegin \/ ForgetNode
  BY <1>5, MovesKeepQuorum
<1>6. CASE TalosBegin \/ KubeletBegin
  BY <1>6, BeginKeepsQuorum DEF TalosBegin, KubeletBegin
<1>7. CASE LeaveBegin
  BY <1>7, LeaveBeginKeepsQuorum
<1>8. CASE ComponentEach \/ Reachable
  BY <1>8, OtherDecisionsKeepQuorum
<1>9. CASE UpgradeStepFails \/ UpgradeCrash \/ ResumeJob
  BY <1>9, RestartKeepsQuorum
<1>10. CASE TalosTake
  BY <1>10, TakeKeepsQuorum
<1>11. CASE LeaveEtcd
  BY <1>11, LeaveKeepsQuorum
<1>12. CASE WipeNode
  BY <1>12, WipeKeepsQuorum
<1>13. CASE RemoveMember
  BY <1>13, RemovalKeepsQuorum
<1>14. CASE \E n \in ClusterNodes : NodeFails(n) \/ NodeReturns(n)
  BY <1>14, FailureKeepsQuorum, ReturnKeepsQuorum
<1>15. QED
  BY <1>1, <1>2, <1>3, <1>4, <1>5, <1>6, <1>7, <1>8, <1>9, <1>10, <1>11, <1>12, <1>13, <1>14
     DEF UpgradeNext, JobStep

\* A cluster of three control planes or more, one of which may still be joining, starts with
\* all of them standing.
LEMMA QuorumAtFirst == NumCP >= 3 /\ UpgradeInit => QuorumInv
<1> SUFFICES ASSUME NumCP >= 3, UpgradeInit
             PROVE  QuorumInv
  OBVIOUS
<1>1. /\ NumCP \in Nat /\ NumNodes \in Nat /\ NumCP <= NumNodes
  BY UpgradeAssumption
<1>2. JobShape /\ LeftInv /\ CheckedInv
  BY DEF UpgradeInit, NoUpgrade, JobShape, LeftInv, CheckedInv, StepsOK, JobLives, At, JobRuns
<1>3. EtcdShape
  BY DEF UpgradeInit, EtcdShape
<1>4. Standing = Voters
  BY <1>1 DEF UpgradeInit, Standing, Voters, Answers, CPs, ClusterNodes
<1>5. 1 .. (NumCP - 1) \subseteq Voters
  BY <1>1 DEF UpgradeInit, Voters, CPs
<1>6. Cardinality(1 .. (NumCP - 1)) = NumCP - 1
  BY <1>1, FS_Interval
<1>7. Cardinality(Voters) >= 2
  <2>1. Cardinality(1 .. (NumCP - 1)) <= Cardinality(Voters)
    BY <1>5, EtcdIsFinite, FS_Subset
  <2>2. QED
    BY <1>1, <1>6, <2>1, EtcdIsFinite
<1>8. Quorum
  <2>1. Cardinality(Voters) \in Nat
    BY EtcdIsFinite
  <2>2. QED
    BY <1>4, <1>7, <2>1 DEF Quorum, EtcdMajority
<1>9. QED
  BY <1>2, <1>3, <1>7, <1>8 DEF QuorumInv, EtcdStands

\* In a cluster of three control planes or more the walk of an upgrade, the removals and the
\* failure of one node never cost etcd its majority, as long as the inventory knows every
\* voter and no member was removed by hand behind a check (internal/upgrade, gate.go).
THEOREM UpgradesKeepQuorum ==
  ASSUME NumCP >= 3
  PROVE  UpgradeSpec => []WalkKeepsQuorum
<1>1. UpgradeInit => QuorumInv
  BY QuorumAtFirst
<1>2. QuorumInv /\ [UpgradeNext]_upgradeVars => QuorumInv'
  BY QuorumStep
<1>3. QuorumInv => WalkKeepsQuorum
  BY DEF QuorumInv, EtcdStands, WalkKeepsQuorum
<1>4. QED
  BY <1>1, <1>2, <1>3, PTL DEF UpgradeSpec

----------------------------------------------------------------------------
(***************************************************************************)
(* The power verbs: a rolling restart has one node away at a time.  The    *)
(* order of the steps is a FlattenSeq of the walk, so the first lemmas say *)
(* what FlattenSeq makes of a list of lists.                               *)
(***************************************************************************)

\* Induction up to N over a set of numbers.
LEMMA CountUp ==
  ASSUME NEW N \in Nat, NEW T, 0 \in T, \A n \in 1 .. N : n - 1 \in T => n \in T
  PROVE  \A n \in 0 .. N : n \in T
<1> SUFFICES ASSUME NEW n \in 0 .. N, n \notin T PROVE FALSE
  OBVIOUS
<1> DEFINE Bad == {m \in 0 .. N : m \notin T}
<1>1. PICK m \in Bad : \A y \in Bad : m <= y
  <2>1. Bad \subseteq Nat /\ Bad # {}
    OBVIOUS
  <2> HIDE DEF Bad
  <2> QED
    BY <2>1, LeastNatural
<1>2. m \in 1 .. N /\ m - 1 \in 0 .. N
  OBVIOUS
<1>3. m - 1 \notin Bad
  BY <1>1, <1>2
<1> QED
  BY <1>2, <1>3

\* What FlattenSeq makes of a list of lists, one list after another.
Joins(g, ss, X) ==
    /\ g \in [1 .. Len(ss) -> Seq(X)] /\ g[1] = ss[1]
    /\ \A i \in 2 .. Len(ss) : g[i] = g[i - 1] \o ss[i]

LEMMA JoinsExists ==
  ASSUME NEW X, NEW ss \in Seq(Seq(X)), Len(ss) >= 1
  PROVE  \E g : Joins(g, ss, X)
<1> DEFINE N == Len(ss)
           Good(m, g) == g[1] = ss[1] /\ \A i \in 2 .. m : g[i] = g[i - 1] \o ss[i]
           T == {m \in 0 .. N - 1 : \E g \in [1 .. m + 1 -> Seq(X)] : Good(m + 1, g)}
<1>1. N \in Nat /\ N - 1 \in Nat /\ \A i \in 1 .. N : ss[i] \in Seq(X)
  OBVIOUS
<1>2. 0 \in T
  <2>1. [i \in 1 .. 0 + 1 |-> ss[1]] \in [1 .. 0 + 1 -> Seq(X)]
    BY <1>1
  <2>2. Good(0 + 1, [i \in 1 .. 0 + 1 |-> ss[1]])
    OBVIOUS
  <2> HIDE DEF Good
  <2>3. \E g \in [1 .. 0 + 1 -> Seq(X)] : Good(0 + 1, g)
    BY <2>1, <2>2
  <2> QED
    BY <1>1, <2>3
<1>3. ASSUME NEW m \in 1 .. N - 1, m - 1 \in T PROVE m \in T
  <2>1. PICK g \in [1 .. m -> Seq(X)] : Good(m, g)
    <3>1. (m - 1) + 1 = m
      BY <1>1
    <3> QED
      BY <1>3, <3>1
  <2> DEFINE h == [i \in 1 .. m + 1 |-> IF i = m + 1 THEN g[m] \o ss[m + 1] ELSE g[i]]
  <2>2. g[m] \in Seq(X) /\ ss[m + 1] \in Seq(X) /\ m \in Nat /\ m >= 1
    BY <1>1
  <2>3. g[m] \o ss[m + 1] \in Seq(X)
    BY <2>2
  <2>4. h \in [1 .. m + 1 -> Seq(X)]
    BY <2>2, <2>3
  <2>5. h[1] = ss[1]
    BY <2>1, <2>2
  <2>6. ASSUME NEW i \in 2 .. m + 1 PROVE h[i] = h[i - 1] \o ss[i]
    <3>1. i - 1 \in 1 .. m /\ h[i - 1] = g[i - 1]
      BY <2>2
    <3>2. CASE i = m + 1
      <4>1. i - 1 = m /\ h[m + 1] = g[m] \o ss[m + 1]
        BY <2>2, <3>2
      <4> HIDE DEF h
      <4> QED
        BY <3>1, <3>2, <4>1
    <3>3. CASE i # m + 1
      <4>1. i \in 2 .. m /\ h[i] = g[i]
        BY <2>2, <3>3
      <4> QED
        BY <2>1, <3>1, <4>1
    <3> QED
      BY <3>2, <3>3
  <2> HIDE DEF h
  <2>7. Good(m + 1, h)
    BY <2>5, <2>6
  <2> HIDE DEF Good
  <2> QED
    BY <2>4, <2>7
<1> HIDE DEF T
<1>4. \A n \in 1 .. N - 1 : n - 1 \in T => n \in T
  BY <1>3
<1>5. N - 1 \in T
  <2> HIDE DEF N
  <2>1. \A n \in 0 .. N - 1 : n \in T
    BY <1>1, <1>2, <1>4, CountUp
  <2> QED
    BY <1>1, <2>1
<1>6. (N - 1) + 1 = N
  BY <1>1
<1> QED
  BY <1>5, <1>6 DEF T, Joins

LEMMA Flattened ==
  ASSUME NEW X, NEW ss \in Seq(Seq(X)), Len(ss) >= 1
  PROVE  \E g : Joins(g, ss, X) /\ FlattenSeq(ss) = g[Len(ss)]
<1> DEFINE N == Len(ss)
           Rule(f) == [i \in 1 .. N |-> IF i = 1 THEN ss[i] ELSE f[i - 1] \o ss[i]]
           G == CHOOSE f : f = Rule(f)
<1>1. N \in Nat /\ N >= 1 /\ N - 1 \in Nat /\ \A i \in 1 .. N : ss[i] \in Seq(X)
  OBVIOUS
<1>2. FlattenSeq(ss) = G[N]
  BY <1>1 DEF FlattenSeq
<1>3. PICK g : Joins(g, ss, X)
  BY JoinsExists
<1>4. g = Rule(g)
  <2>1. g \in [1 .. N -> Seq(X)]
    BY <1>3 DEF Joins
  <2>2. ASSUME NEW i \in 1 .. N PROVE g[i] = IF i = 1 THEN ss[i] ELSE g[i - 1] \o ss[i]
    <3>1. CASE i = 1
      BY <1>3, <3>1 DEF Joins
    <3>2. CASE i # 1
      <4>1. i \in 2 .. Len(ss)
        BY <3>2
      <4> QED
        BY <1>3, <3>2, <4>1 DEF Joins
    <3> QED
      BY <3>1, <3>2
  <2> QED
    BY <2>1, <2>2
<1>5. G = Rule(G)
  BY <1>4
<1> HIDE DEF G
<1>6. DOMAIN G = 1 .. N /\ G[1] = ss[1]
  BY <1>1, <1>5
<1>7. ASSUME NEW i \in 2 .. N PROVE G[i] = G[i - 1] \o ss[i]
  <2>1. i \in 1 .. N /\ i # 1
    BY <1>1
  <2>2. G[i] = Rule(G)[i]
    BY <1>5
  <2> QED
    BY <2>1, <2>2
<1>8. \A i \in 1 .. N : G[i] = g[i]
  <2> DEFINE T == {m \in 0 .. N - 1 : G[m + 1] = g[m + 1]}
  <2>1. 0 \in T
    BY <1>1, <1>3, <1>6 DEF Joins
  <2>2. ASSUME NEW m \in 1 .. N - 1, m - 1 \in T PROVE m \in T
    <3>1. m + 1 \in 2 .. N /\ (m - 1) + 1 = m /\ (m + 1) - 1 = m
      BY <1>1
    <3>2. G[m] = g[m]
      BY <2>2, <3>1
    <3>3. G[m + 1] = G[m] \o ss[m + 1] /\ g[m + 1] = g[m] \o ss[m + 1]
      BY <1>3, <1>7, <3>1 DEF Joins
    <3>4. G[m + 1] = g[m + 1] /\ m \in 0 .. N - 1
      BY <1>1, <3>2, <3>3
    <3> QED
      BY <3>4
  <2> HIDE DEF T
  <2>3. \A n \in 1 .. N - 1 : n - 1 \in T => n \in T
    BY <2>2
  <2>4. \A n \in 0 .. N - 1 : n \in T
    <3> HIDE DEF N
    <3> QED
      BY <1>1, <2>1, <2>3, CountUp
  <2>5. ASSUME NEW i \in 1 .. N PROVE G[i] = g[i]
    <3>1. i - 1 \in 0 .. N - 1 /\ (i - 1) + 1 = i
      BY <1>1
    <3>2. i - 1 \in T
      BY <2>4, <3>1
    <3> QED
      BY <3>1, <3>2 DEF T
  <2> QED
    BY <2>5
<1>9. N \in 1 .. N
  BY <1>1
<1> QED
  BY <1>2, <1>3, <1>8, <1>9

\* What a rolling restart has left to do: one node is asked to reboot at a time, and the
\* next step waits for that node.
RollOK(s) ==
    /\ \E X : s \in Seq(X)
    /\ \A k \in 1 .. Len(s) :
          /\ s[k].op # "rebootAll"
          /\ s[k].op \in {"reboot", "waitBack"} => \E n : s[k].on = {n}
          /\ s[k].op = "reboot" =>
                k + 1 <= Len(s) /\ s[k + 1].op = "waitBack" /\ s[k + 1].on = s[k].on

\* Whoever was asked to reboot and is not back is the node the restart waits for.
Rolls ==
    /\ RollOK(todo) /\ Len(todo) >= 1
    /\ phase # "ready" => Head(todo).op # "waitBack"
    /\ owed # {} => /\ Head(todo).op \in {"reboot", "waitBack"}
                    /\ owed \subseteq Head(todo).on /\ owed \cap booted = {}

RollInv ==
    /\ phase = "idle" <=> job = NoJob
    /\ job = NoJob => owed = {}
    /\ req # NoJob => DOMAIN req = {"verb", "cluster", "steps"} /\ req.verb # "none"
    /\ req.verb = "restart" => RollOK(req.steps) /\ Len(req.steps) >= 1
    /\ job.verb = "restart" => Rolls

LEMMA RollConcat ==
  ASSUME NEW a, NEW b, RollOK(a), RollOK(b)
  PROVE  RollOK(a \o b) /\ Len(a \o b) = Len(a) + Len(b)
<1>1. PICK X : a \in Seq(X)
  BY DEF RollOK
<1>2. PICK Y : b \in Seq(Y)
  BY DEF RollOK
<1> DEFINE c == a \o b
<1>3. a \in Seq(X \cup Y) /\ b \in Seq(X \cup Y)
  BY <1>1, <1>2
<1>4. c \in Seq(X \cup Y) /\ Len(c) = Len(a) + Len(b) /\ Len(a) \in Nat /\ Len(b) \in Nat
  BY <1>3
<1>5. /\ \A k \in 1 .. Len(a) : c[k] = a[k]
      /\ \A k \in 1 .. Len(b) : c[Len(a) + k] = b[k]
  BY <1>3, <1>4
<1> HIDE DEF c
<1>6. ASSUME NEW k \in 1 .. Len(c)
      PROVE  /\ c[k].op # "rebootAll"
             /\ c[k].op \in {"reboot", "waitBack"} => \E n : c[k].on = {n}
             /\ c[k].op = "reboot" =>
                  k + 1 <= Len(c) /\ c[k + 1].op = "waitBack" /\ c[k + 1].on = c[k].on
  <2>1. CASE k <= Len(a)
    <3>1. k \in 1 .. Len(a) /\ c[k] = a[k]
      BY <1>4, <1>5, <2>1
    <3>2. a[k].op = "reboot" => k + 1 <= Len(a) /\ a[k + 1].op = "waitBack" /\ a[k + 1].on = a[k].on
      BY <3>1 DEF RollOK
    <3>3. k + 1 <= Len(a) => c[k + 1] = a[k + 1] /\ k + 1 <= Len(c)
      BY <1>4, <1>5, <3>1
    <3> QED
      BY <3>1, <3>2, <3>3 DEF RollOK
  <2>2. CASE ~(k <= Len(a))
    <3> DEFINE l == k - Len(a)
    <3>1. l \in 1 .. Len(b) /\ k = Len(a) + l
      BY <1>4, <2>2
    <3>2. c[k] = b[l]
      BY <1>5, <3>1
    <3>3. b[l].op = "reboot" => l + 1 <= Len(b) /\ b[l + 1].op = "waitBack" /\ b[l + 1].on = b[l].on
      BY <3>1 DEF RollOK
    <3>4. l + 1 <= Len(b) => c[k + 1] = b[l + 1] /\ k + 1 <= Len(c)
      <4>1. SUFFICES ASSUME l + 1 <= Len(b) PROVE c[k + 1] = b[l + 1] /\ k + 1 <= Len(c)
        OBVIOUS
      <4>2. l + 1 \in 1 .. Len(b) /\ k + 1 = Len(a) + (l + 1)
        BY <1>4, <3>1, <4>1
      <4> QED
        BY <1>4, <1>5, <4>2
    <3>5. b[l].op # "rebootAll" /\ (b[l].op \in {"reboot", "waitBack"} => \E n : b[l].on = {n})
      BY <3>1 DEF RollOK
    <3> QED
      BY <3>2, <3>3, <3>4, <3>5
  <2> QED
    BY <2>1, <2>2
<1> QED
  BY <1>4, <1>6 DEF RollOK, c

LEMMA RollPieces ==
  ASSUME NEW n
  PROVE  /\ RollOK(<<Step("reachable", {n}, FALSE)>>) /\ Len(<<Step("reachable", {n}, FALSE)>>) = 1
         /\ RollOK(Drained(n)) /\ Len(Drained(n)) = 2
         /\ RollOK(Rebooted(n)) /\ Len(Rebooted(n)) = 3
<1> DEFINE s1 == Step("reachable", {n}, FALSE)
           s2 == Step("cordon", {n}, TRUE)
           s3 == Step("drain", {n}, FALSE)
           s4 == Step("reboot", {n}, FALSE)
           s5 == Step("waitBack", {n}, TRUE)
           s6 == Step("uncordon", {n}, TRUE)
           X == {s1, s2, s3, s4, s5, s6}
           q == <<s1>>
<1>1. q \in Seq(X) /\ Drained(n) \in Seq(X) /\ Rebooted(n) \in Seq(X)
  <2>1. Drained(n) = <<s2, s3>> /\ Rebooted(n) = <<s4, s5, s6>>
    BY DEF Drained, Rebooted
  <2> HIDE DEF s1, s2, s3, s4, s5, s6
  <2>2. q \in Seq(X) /\ <<s2, s3>> \in Seq(X) /\ <<s4, s5, s6>> \in Seq(X)
    OBVIOUS
  <2> QED
    BY <2>1, <2>2
<1>2. RollOK(q) /\ Len(q) = 1
  <2>1. Len(q) = 1 /\ q[1].op = "reachable"
    BY DEF Step
  <2>2. q \in Seq(X)
    BY <1>1
  <2> HIDE DEF q, X
  <2>3. \A k \in 1 .. Len(q) : q[k].op = "reachable"
    BY <2>1
  <2>4. RollOK(q)
    BY <2>2, <2>3 DEF RollOK
  <2> QED
    BY <2>1, <2>4
<1>3. RollOK(Drained(n)) /\ Len(Drained(n)) = 2
  <2> DEFINE s == Drained(n)
  <2>1. Len(s) = 2 /\ s[1].op = "cordon" /\ s[2].op = "drain"
    BY DEF Step, Drained
  <2>2. \A k \in 1 .. Len(s) : s[k].op \in {"cordon", "drain"}
    BY <2>1
  <2> HIDE DEF s
  <2>3. RollOK(s)
    BY <1>1, <2>1, <2>2 DEF RollOK, s
  <2> QED
    BY <2>1, <2>3 DEF s
<1>4. RollOK(Rebooted(n)) /\ Len(Rebooted(n)) = 3
  <2> DEFINE s == Rebooted(n)
  <2>1. /\ Len(s) = 3 /\ s[1].op = "reboot" /\ s[1].on = {n} /\ s[2].op = "waitBack" /\ s[2].on = {n}
        /\ s[3].op = "uncordon"
    BY DEF Step, Rebooted
  <2>2. s \in Seq(X)
    BY <1>1
  <2> HIDE DEF s, X
  <2>3. \A k \in 1 .. Len(s) : k = 1 \/ k = 2 \/ k = 3
    BY <2>1
  <2>4. ASSUME NEW k \in 1 .. Len(s)
        PROVE  /\ s[k].op # "rebootAll"
               /\ s[k].op \in {"reboot", "waitBack"} => \E m : s[k].on = {m}
               /\ s[k].op = "reboot" =>
                     k + 1 <= Len(s) /\ s[k + 1].op = "waitBack" /\ s[k + 1].on = s[k].on
    <3>1. CASE k = 1
      <4>1. k + 1 = 2 /\ 2 <= Len(s)
        BY <2>1, <3>1
      <4> QED
        BY <2>1, <3>1, <4>1
    <3>2. CASE k = 2
      BY <2>1, <3>2
    <3>3. CASE k = 3
      BY <2>1, <3>3
    <3> QED
      BY <2>3, <3>1, <3>2, <3>3
  <2>5. RollOK(s)
    BY <2>2, <2>4 DEF RollOK
  <2> QED
    BY <2>1, <2>5 DEF s
<1> QED
  BY <1>2, <1>3, <1>4

\* The steps of both restarts.
LEMMA RestartNodeOK ==
  ASSUME NEW n, NEW answered
  PROVE  RollOK(nodeSteps("restart", n, answered)) /\ Len(nodeSteps("restart", n, answered)) >= 1
<1> DEFINE r == <<Step("reachable", {n}, FALSE)>>
           d == Drained(n)
           b == Rebooted(n)
<1>1. RollOK(r) /\ RollOK(d) /\ RollOK(b) /\ Len(r) = 1 /\ Len(d) = 2 /\ Len(b) = 3
  BY RollPieces
<1>2. nodeSteps("restart", n, answered) = (r \o d) \o b
  BY DEF nodeSteps
<1> HIDE DEF r, d, b
<1>3. RollOK(r \o d) /\ Len(r \o d) = Len(r) + Len(d)
  BY <1>1, RollConcat
<1>4. RollOK((r \o d) \o b) /\ Len((r \o d) \o b) = Len(r \o d) + Len(b)
  BY <1>1, <1>3, RollConcat
<1>5. Len((r \o d) \o b) >= 1
  BY <1>1, <1>3, <1>4
<1> QED
  BY <1>2, <1>4, <1>5

LEMMA RestartMemberOK ==
  ASSUME NEW n
  PROVE  RollOK(restartMember(n)) /\ Len(restartMember(n)) = 5
<1> DEFINE d == Drained(n)
           b == Rebooted(n)
<1>1. RollOK(d \o b) /\ Len(d \o b) = 5
  <2>1. RollOK(d) /\ RollOK(b) /\ Len(d) = 2 /\ Len(b) = 3
    BY RollPieces
  <2> HIDE DEF d, b
  <2>2. RollOK(d \o b) /\ Len(d \o b) = Len(d) + Len(b)
    BY <2>1, RollConcat
  <2> QED
    BY <2>1, <2>2
<1> QED
  BY <1>1 DEF restartMember

LEMMA RestartWalkOK ==
  ASSUME NEW N \in Nat, N >= 1, NEW ms, DOMAIN ms = 1 .. N
  PROVE  RollOK(restartWalk(ms)) /\ Len(restartWalk(ms)) >= 1
<1> DEFINE ss == [i \in DOMAIN ms |-> restartMember(ms[i])]
           X == {restartMember(ms[i])[k] : i \in 1 .. N, k \in 1 .. 5}
<1>1. ASSUME NEW i \in 1 .. N PROVE restartMember(ms[i]) \in Seq(X)
  <2> DEFINE r == restartMember(ms[i])
  <2>1. RollOK(r) /\ Len(r) = 5
    BY RestartMemberOK
  <2>2. PICK Y : r \in Seq(Y)
    BY <2>1 DEF RollOK
  <2>3. ASSUME NEW k \in 1 .. Len(r) PROVE r[k] \in X
    BY <2>1
  <2>4. r = [k \in 1 .. Len(r) |-> r[k]]
    BY <2>2
  <2> HIDE DEF r, X
  <2>5. r \in [1 .. Len(r) -> X] /\ Len(r) \in Nat
    BY <2>1, <2>3, <2>4
  <2>6. r \in Seq(X)
    BY <2>5
  <2> QED
    BY <2>6 DEF r
<1>2. ss \in Seq(Seq(X)) /\ Len(ss) = N
  <2> HIDE DEF X
  <2>1. ss \in [1 .. N -> Seq(X)]
    BY <1>1
  <2> QED
    BY <2>1
<1>3. PICK g : Joins(g, ss, X) /\ FlattenSeq(ss) = g[N]
  <2> HIDE DEF ss, X
  <2> QED
    BY <1>2, Flattened
<1>4. /\ DOMAIN g = 1 .. N /\ g[1] = restartMember(ms[1])
      /\ \A i \in 2 .. N : g[i] = g[i - 1] \o restartMember(ms[i])
  <2>1. \A i \in 1 .. N : ss[i] = restartMember(ms[i])
    OBVIOUS
  <2>2. 1 \in 1 .. N /\ \A i \in 2 .. N : i \in 1 .. N
    OBVIOUS
  <2> HIDE DEF ss, X
  <2> QED
    BY <1>2, <1>3, <2>1, <2>2 DEF Joins
<1> DEFINE T == {m \in 0 .. N - 1 : RollOK(g[m + 1]) /\ Len(g[m + 1]) \in Nat /\ Len(g[m + 1]) >= 1}
<1>5. 0 \in T
  BY <1>4, RestartMemberOK
<1>6. ASSUME NEW m \in 1 .. N - 1, m - 1 \in T PROVE m \in T
  <2>1. m + 1 \in 2 .. N /\ (m - 1) + 1 = m /\ (m + 1) - 1 = m
    OBVIOUS
  <2>2. RollOK(g[m]) /\ Len(g[m]) \in Nat /\ Len(g[m]) >= 1
    BY <1>6, <2>1
  <2>3. RollOK(restartMember(ms[m + 1])) /\ Len(restartMember(ms[m + 1])) = 5
    BY RestartMemberOK
  <2>4. g[m + 1] = g[m] \o restartMember(ms[m + 1])
    BY <1>4, <2>1
  <2>5. RollOK(g[m + 1]) /\ Len(g[m + 1]) = Len(g[m]) + 5
    BY <2>2, <2>3, <2>4, RollConcat
  <2> QED
    BY <2>2, <2>5
<1> HIDE DEF T
<1>7. N - 1 \in T
  <2>1. N - 1 \in Nat /\ \A m \in 1 .. N - 1 : m - 1 \in T => m \in T
    BY <1>6
  <2>2. \A m \in 0 .. N - 1 : m \in T
    BY <1>5, <2>1, CountUp
  <2> QED
    BY <2>1, <2>2
<1>8. (N - 1) + 1 = N
  OBVIOUS
<1>9. RollOK(g[N]) /\ Len(g[N]) >= 1
  BY <1>7, <1>8 DEF T
<1> QED
  BY <1>3, <1>9 DEF restartWalk

LEMMA RestartClusterOK ==
  ASSUME NEW S \in SUBSET Nodes, S # {}
  PROVE  /\ RollOK(clusterSteps("restart", walkOrder(S)))
         /\ Len(clusterSteps("restart", walkOrder(S))) >= 1
<1>1. IsFiniteSet(Nodes)
  <2>1. Nodes = {ByName[i] : i \in DOMAIN ByName} /\ DOMAIN ByName = 1 .. Len(ByName) /\ Len(ByName) \in Nat
    BY PowerAssumption DEF Nodes, Range
  <2>2. IsFiniteSet(1 .. Len(ByName))
    BY <2>1, FS_Interval
  <2>3. IsFiniteSet({ByName[i] : i \in 1 .. Len(ByName)})
    <3> DEFINE R == {ByName[i] : i \in 1 .. Len(ByName)}
               f == [i \in 1 .. Len(ByName) |-> ByName[i]]
    <3>1. f \in Surjection(1 .. Len(ByName), R)
      BY DEF Surjection
    <3> HIDE DEF R
    <3>2. IsFiniteSet(R)
      BY <2>2, <3>1, FS_Surjection
    <3> QED
      BY <3>2 DEF R
  <2> QED
    BY <2>1, <2>3
<1>2. IsFiniteSet(S)
  BY <1>1, FS_Subset
<1>3. Cardinality(S) \in Nat /\ Cardinality(S) >= 1
  BY <1>2, FS_CardinalityType, FS_EmptySet
<1>4. DOMAIN walkOrder(S) = 1 .. Cardinality(S)
  BY DEF walkOrder
<1>5. RollOK(restartWalk(walkOrder(S))) /\ Len(restartWalk(walkOrder(S))) >= 1
  BY <1>3, <1>4, RestartWalkOK
<1> QED
  BY <1>5 DEF clusterSteps

LEMMA RollTail ==
  ASSUME NEW s, RollOK(s), Len(s) >= 1
  PROVE  /\ Head(s) = s[1]
         /\ Len(s) # 1 => /\ RollOK(Tail(s)) /\ Len(Tail(s)) >= 1 /\ Head(Tail(s)) = s[2]
                          /\ s[1].op = "reboot" => s[2].op = "waitBack" /\ s[2].on = s[1].on
<1>1. PICK X : s \in Seq(X)
  BY DEF RollOK
<1>2. Head(s) = s[1] /\ Len(s) \in Nat
  BY <1>1
<1>3. SUFFICES ASSUME Len(s) # 1
               PROVE  /\ RollOK(Tail(s)) /\ Len(Tail(s)) >= 1 /\ Head(Tail(s)) = s[2]
                      /\ s[1].op = "reboot" => s[2].op = "waitBack" /\ s[2].on = s[1].on
  BY <1>2
<1> DEFINE t == Tail(s)
<1>4. /\ t \in Seq(X) /\ Len(t) = Len(s) - 1 /\ \A k \in 1 .. Len(t) : t[k] = s[k + 1]
  BY <1>1, <1>3
<1> HIDE DEF t
<1>5. Len(t) >= 1 /\ Head(t) = s[2]
  BY <1>2, <1>3, <1>4
<1>6. ASSUME NEW k \in 1 .. Len(t)
      PROVE  /\ t[k].op # "rebootAll"
             /\ t[k].op \in {"reboot", "waitBack"} => \E n : t[k].on = {n}
             /\ t[k].op = "reboot" =>
                  k + 1 <= Len(t) /\ t[k + 1].op = "waitBack" /\ t[k + 1].on = t[k].on
  <2>1. k + 1 \in 1 .. Len(s) /\ t[k] = s[k + 1]
    BY <1>2, <1>4
  <2>2. s[k + 1].op = "reboot" =>
          (k + 1) + 1 <= Len(s) /\ s[(k + 1) + 1].op = "waitBack" /\ s[(k + 1) + 1].on = s[k + 1].on
    BY <2>1 DEF RollOK
  <2>3. (k + 1) + 1 <= Len(s) => k + 1 \in 1 .. Len(t) /\ t[k + 1] = s[(k + 1) + 1]
    BY <1>2, <1>4
  <2>4. /\ s[k + 1].op # "rebootAll"
        /\ s[k + 1].op \in {"reboot", "waitBack"} => \E n : s[k + 1].on = {n}
    BY <2>1 DEF RollOK
  <2>5. t[k].op = "reboot" =>
          k + 1 <= Len(t) /\ t[k + 1].op = "waitBack" /\ t[k + 1].on = t[k].on
    <3> SUFFICES ASSUME t[k].op = "reboot"
                 PROVE  k + 1 <= Len(t) /\ t[k + 1].op = "waitBack" /\ t[k + 1].on = t[k].on
      OBVIOUS
    <3>1. s[k + 1].op = "reboot"
      BY <2>1
    <3>2. /\ (k + 1) + 1 <= Len(s) /\ s[(k + 1) + 1].op = "waitBack"
          /\ s[(k + 1) + 1].on = s[k + 1].on
      BY <2>2, <3>1
    <3>3. k + 1 \in 1 .. Len(t) /\ t[k + 1] = s[(k + 1) + 1]
      BY <2>3, <3>2
    <3>4. k + 1 <= Len(t)
      BY <3>3, <1>2, <1>4
    <3>5. t[k + 1].op = "waitBack" /\ t[k + 1].on = t[k].on
      BY <2>1, <3>2, <3>3, Zenon
    <3> QED
      BY <3>4, <3>5
  <2>6. /\ t[k].op # "rebootAll"
        /\ t[k].op \in {"reboot", "waitBack"} => \E n : t[k].on = {n}
    BY <2>1, <2>4, Zenon
  <2> QED
    BY <2>5, <2>6
<1>7. RollOK(t)
  BY <1>4, <1>6 DEF RollOK
<1>8. s[1].op = "reboot" => s[2].op = "waitBack" /\ s[2].on = s[1].on
  <2>1. 1 \in 1 .. Len(s) /\ 1 + 1 = 2
    BY <1>2
  <2> QED
    BY <2>1 DEF RollOK
<1> QED
  BY <1>5, <1>7, <1>8 DEF t

\* What the head of a restart may be, and whom it is about.
LEMMA RollHead ==
  ASSUME Rolls
  PROVE  /\ Head(todo).op # "rebootAll"
         /\ Head(todo).op \in {"reboot", "waitBack"} => \E n : Head(todo).on = {n}
<1>1. Head(todo) = todo[1] /\ 1 \in 1 .. Len(todo)
  <2>1. Head(todo) = todo[1]
    BY RollTail DEF Rolls
  <2>2. PICK X : todo \in Seq(X)
    BY DEF Rolls, RollOK
  <2> QED
    BY <2>1, <2>2 DEF Rolls
<1>2. /\ todo[1].op # "rebootAll"
      /\ todo[1].op \in {"reboot", "waitBack"} => \E n : todo[1].on = {n}
  BY <1>1 DEF Rolls, RollOK
<1> QED
  BY <1>1, <1>2

LEMMA EndedRolls ==
  ASSUME RollInv, Ended, req' = req
  PROVE  RollInv'
  BY DEF RollInv, Ended, NoJob

\* A step that is over: nobody is away any more, or the next step waits for who is.
LEMMA OnwardRolls ==
  ASSUME RollInv, Onward, req' = req, phase # "idle",
         job.verb = "restart" => owed = {} \/ Head(todo).op = "reboot"
  PROVE  RollInv'
<1>1. CASE Len(todo) = 1
  BY <1>1, EndedRolls DEF Onward
<1>2. CASE Len(todo) # 1
  <2>1. /\ todo' = Tail(todo) /\ phase' = "ready" /\ job' = job /\ owed' = owed
        /\ booted' = IF todo[2].op \in {"reboot", "rebootAll"} THEN {} ELSE booted
    BY <1>2 DEF Onward
  <2>2. ASSUME job.verb = "restart" PROVE Rolls'
    <3>1. Rolls
      BY <2>2 DEF RollInv
    <3>2. /\ Head(todo) = todo[1] /\ RollOK(Tail(todo)) /\ Len(Tail(todo)) >= 1
          /\ Head(Tail(todo)) = todo[2]
          /\ todo[1].op = "reboot" => todo[2].op = "waitBack" /\ todo[2].on = todo[1].on
      BY <1>2, <3>1, RollTail DEF Rolls
    <3>3. RollOK(todo') /\ Len(todo') >= 1 /\ Head(todo') = todo[2]
      BY <2>1, <3>2
    <3>4. ASSUME owed # {}
          PROVE  /\ Head(todo').op \in {"reboot", "waitBack"}
                 /\ owed' \subseteq Head(todo').on /\ owed' \cap booted' = {}
      <4>1. todo[1].op = "reboot"
        BY <2>2, <3>2, <3>4
      <4>2. todo[2].op = "waitBack" /\ todo[2].on = Head(todo).on
        BY <3>2, <4>1
      <4>3. booted' = booted
        BY <2>1, <4>2
      <4> QED
        BY <2>1, <3>1, <3>3, <3>4, <4>2, <4>3 DEF Rolls
    <3>5. RollOK(todo)'
      BY <3>3 DEF RollOK
    <3> QED
      BY <2>1, <3>3, <3>4, <3>5 DEF Rolls
  <2> QED
    BY <2>1, <2>2 DEF RollInv
<1> QED
  BY <1>1, <1>2

\* A step that moves on within itself.
LEMMA WithinRolls ==
  ASSUME RollInv, phase # "idle", phase' # "idle",
         job' = job, todo' = todo, owed' = owed, booted' = booted, req' = req,
         phase' = "ready" \/ phase # "ready" \/ Head(todo).op # "waitBack"
  PROVE  RollInv'
<1>1. ASSUME Rolls PROVE Rolls'
  <2>1. RollOK(todo)'
    BY <1>1 DEF Rolls, RollOK
  <2> QED
    BY <1>1, <2>1 DEF Rolls
<1>2. RollOK(req.steps) => RollOK(req.steps)'
  BY DEF RollOK
<1> QED
  BY <1>1, <1>2 DEF RollInv

\* What leaves the job and the nodes it waits for alone.
LEMMA RollsLeft ==
  ASSUME RollInv, UNCHANGED <<job, todo, phase, owed, booted>>,
         req' = req \/ req' = NoJob
  PROVE  RollInv'
<1>1. ASSUME Rolls PROVE Rolls'
  <2>1. RollOK(todo)'
    BY <1>1 DEF Rolls, RollOK
  <2> QED
    BY <1>1, <2>1 DEF Rolls
<1>2. CASE req' = req
  <2>1. RollOK(req.steps) => RollOK(req.steps)'
    BY <1>2 DEF RollOK
  <2> QED
    BY <1>1, <1>2, <2>1 DEF RollInv
<1>3. CASE req' = NoJob
  BY <1>1, <1>3 DEF RollInv, NoJob
<1> QED
  BY <1>2, <1>3

LEMMA PressesRoll ==
  ASSUME RollInv,
         \/ \E a \in NodeVerbs, n \in Nodes : PressNode(a, n)
         \/ \E a \in ClusterVerbs : PressCluster(a)
  PROVE  RollInv'
<1>1. UNCHANGED <<job, todo, phase, owed, booted>>
  BY DEF PressNode, PressCluster, running, history
<1>2. /\ DOMAIN req' = {"verb", "cluster", "steps"} /\ req'.verb # "none"
      /\ req'.verb = "restart" => RollOK(req'.steps) /\ Len(req'.steps) >= 1
  <2>1. ASSUME NEW a \in NodeVerbs, NEW n \in Nodes, PressNode(a, n)
        PROVE  /\ DOMAIN req' = {"verb", "cluster", "steps"} /\ req'.verb # "none"
               /\ req'.verb = "restart" => RollOK(req'.steps) /\ Len(req'.steps) >= 1
    <3>1. req' = [verb |-> a, cluster |-> FALSE, steps |-> nodeSteps(a, n, Reach(n))]
      BY <2>1 DEF PressNode
    <3>2. a # "none"
      BY PowerAssumption DEF Verbs
    <3>3. a = "restart" => RollOK(nodeSteps(a, n, Reach(n))) /\ Len(nodeSteps(a, n, Reach(n))) >= 1
      BY RestartNodeOK
    <3> QED
      BY <3>1, <3>2, <3>3
  <2>2. ASSUME NEW a \in ClusterVerbs, PressCluster(a)
        PROVE  /\ DOMAIN req' = {"verb", "cluster", "steps"} /\ req'.verb # "none"
               /\ req'.verb = "restart" => RollOK(req'.steps) /\ Len(req'.steps) >= 1
    <3> DEFINE ms == IF a \in {"restart", "force-restart"} THEN {n \in Active : Reach(n)} ELSE Nodes
    <3>1. req' = [verb |-> a, cluster |-> TRUE, steps |-> clusterSteps(a, walkOrder(ms))]
      BY <2>2 DEF PressCluster
    <3>2. a # "none"
      BY PowerAssumption DEF Verbs
    <3>3. ASSUME a = "restart"
          PROVE  RollOK(clusterSteps(a, walkOrder(ms))) /\ Len(clusterSteps(a, walkOrder(ms))) >= 1
      <4>1. clusterReport(a)
        BY <2>2 DEF PressCluster
      <4>2. Running
        BY <3>3, <4>1 DEF clusterReport
      <4>3. ms \in SUBSET Nodes /\ ms # {}
        BY <3>3, <4>2 DEF Running, Active
      <4> QED
        BY <3>3, <4>3, RestartClusterOK
    <3> QED
      BY <3>1, <3>2, <3>3
  <2> QED
    BY <2>1, <2>2
<1>3. ASSUME Rolls PROVE Rolls'
  <2>1. RollOK(todo)'
    BY <1>1, <1>3 DEF Rolls, RollOK
  <2> QED
    BY <1>1, <1>3, <2>1 DEF Rolls
<1>4. req'.verb = "restart" => RollOK(req.steps)'
  BY <1>2 DEF RollOK
<1> QED
  BY <1>1, <1>2, <1>3, <1>4 DEF RollInv

LEMMA SubmitRolls ==
  ASSUME RollInv, Submit
  PROVE  RollInv'
<1>1. CASE job # NoJob
  <2>1. UNCHANGED <<job, todo, phase, owed, booted>> /\ req' = NoJob
    BY <1>1 DEF Submit, history
  <2> QED
    BY <2>1, RollsLeft
<1>2. CASE job = NoJob
  <2>1. /\ req # NoJob /\ req' = NoJob /\ job' = [req EXCEPT !.steps = <<>>]
        /\ todo' = req.steps /\ phase' = "ready" /\ owed' = {}
    BY <1>2 DEF Submit, history, RollInv
  <2>2. job'.verb = req.verb /\ req.verb # "none"
    BY <2>1 DEF RollInv
  <2>3. job' # NoJob
    BY <2>2 DEF NoJob
  <2>4. ASSUME job'.verb = "restart" PROVE Rolls'
    <3>1. RollOK(todo)' /\ Len(todo') >= 1
      BY <2>1, <2>2, <2>4 DEF RollInv, RollOK
    <3> QED
      BY <2>1, <3>1 DEF Rolls
  <2> QED
    BY <2>1, <2>3, <2>4 DEF RollInv, NoJob
<1> QED
  BY <1>1, <1>2

LEMMA LookRolls ==
  ASSUME RollInv, Look \/ Mark \/ MarkCluster \/ Advance
  PROVE  RollInv'
<1>1. Onward /\ req' = req
  BY DEF Look, Mark, MarkCluster, Advance
<1>2. phase # "idle"
  BY DEF Look, Mark, MarkCluster, Advance, Now
<1>3. ASSUME job.verb = "restart", owed # {} PROVE Head(todo).op = "reboot"
  <2>1. Rolls
    BY <1>3 DEF RollInv
  <2>2. Head(todo).op \in {"reboot", "waitBack"} /\ owed \subseteq On /\ owed \cap booted = {}
    BY <1>3, <2>1 DEF Rolls, On
  <2>3. CASE Look
    <3>1. Head(todo).op = "waitBack"
      BY <2>2, <2>3 DEF Look, Now
    <3>2. waitBack
      BY <2>3, <3>1 DEF Look, Sees
    <3>3. On \subseteq booted
      BY <3>2 DEF waitBack, waitAllBack
    <3> QED
      BY <1>3, <2>2, <3>3
  <2>4. CASE Mark \/ MarkCluster
    BY <2>2, <2>4 DEF Mark, MarkCluster, Now
  <2>5. CASE Advance
    BY <2>1, <2>2, <2>5 DEF Advance, Rolls
  <2> QED
    BY <2>3, <2>4, <2>5
<1> QED
  BY <1>1, <1>2, <1>3, OnwardRolls

LEMMA ResumeRolls ==
  ASSUME RollInv, Resume
  PROVE  RollInv'
<1>1. req' = req
  BY DEF Resume
<1>2. CASE UNCHANGED <<running, history>>
  <2>1. UNCHANGED <<job, todo, phase, owed, booted>>
    BY <1>2 DEF running, history
  <2> QED
    BY <1>1, <2>1, RollsLeft
<1>3. CASE phase # "idle" /\ phase' = "ready" /\ UNCHANGED <<job, todo, history>>
  <2>1. owed' = owed /\ booted' = booted /\ job' = job /\ todo' = todo
    BY <1>3 DEF history
  <2> QED
    BY <1>1, <1>3, <2>1, WithinRolls
<1>4. CASE phase # "idle" /\ Happened(Head(todo), "yes") /\ Onward
  <2>1. ASSUME job.verb = "restart", owed # {} PROVE FALSE
    <3>1. Rolls
      BY <2>1 DEF RollInv
    <3>2. Head(todo).op \in {"reboot", "waitBack"} /\ owed \subseteq Head(todo).on /\ owed \cap booted = {}
      BY <2>1, <3>1 DEF Rolls
    <3>3. CASE Head(todo).op = "waitBack"
      BY <1>4, <3>3 DEF Happened
    <3>4. CASE Head(todo).op = "reboot"
      <4>1. rebootHappened(Head(todo).on, "yes")
        BY <1>4, <3>4 DEF Happened
      <4>2. Head(todo).on \subseteq booted
        BY <4>1 DEF rebootHappened
      <4> QED
        BY <2>1, <3>2, <4>2
    <3> QED
      BY <3>2, <3>3, <3>4
  <2> QED
    BY <1>1, <1>4, <2>1, OnwardRolls
<1>5. CASE Ended
  BY <1>1, <1>5, EndedRolls
<1> QED
  BY <1>2, <1>3, <1>4, <1>5 DEF Resume

LEMMA RebootRolls ==
  ASSUME RollInv, Reboot
  PROVE  RollInv'
<1>1. phase = "ready" /\ req' = req /\ Head(todo).op \in {"reboot", "rebootAll"}
  BY DEF Reboot, Now
<1>2. CASE Ended
  BY <1>1, <1>2, EndedRolls
<1>3. CASE owed' = owed \cup On /\ booted' = booted \ On /\ Did
  <2>1. phase' = "did" /\ job' = job /\ todo' = todo
    BY <1>3 DEF Did
  <2>2. ASSUME job.verb = "restart" PROVE Rolls'
    <3>1. Rolls
      BY <2>2 DEF RollInv
    <3>2. Head(todo).op = "reboot"
      BY <1>1, <3>1, RollHead
    <3>3. owed' \subseteq On /\ owed' \cap booted' = {}
      BY <1>3, <3>1 DEF Rolls, On
    <3>4. RollOK(todo)' /\ Len(todo') >= 1
      BY <2>1, <3>1 DEF Rolls, RollOK
    <3> QED
      BY <2>1, <3>2, <3>3, <3>4 DEF Rolls, On
  <2>3. RollOK(req.steps) => RollOK(req.steps)'
    BY <1>1 DEF RollOK
  <2> QED
    BY <1>1, <2>1, <2>2, <2>3 DEF RollInv
<1> QED
  BY <1>2, <1>3 DEF Reboot

LEMMA WithinSteps ==
  ASSUME RollInv,
         \/ CordonLook \/ CordonMark \/ CordonNode \/ Drain \/ Shutdown \/ Remember \/ Wake
         \/ UncordonWhom \/ UncordonNode \/ UncordonClear
  PROVE  RollInv'
<1>1. job' = job /\ todo' = todo /\ req' = req /\ owed' = owed /\ booted' = booted
  BY DEF CordonLook, CordonMark, CordonNode, Drain, Shutdown, Remember, Wake, UncordonWhom,
     UncordonNode, UncordonClear, Did, history
<1>2. phase # "idle" /\ phase' # "idle"
  BY DEF CordonLook, CordonMark, CordonNode, Drain, Shutdown, Remember, Wake, UncordonWhom,
     UncordonNode, UncordonClear, Did, Now
<1>3. phase # "ready" \/ Head(todo).op # "waitBack"
  BY DEF CordonLook, CordonMark, CordonNode, Drain, Shutdown, Remember, Wake, UncordonWhom,
     UncordonNode, UncordonClear, Now
<1> QED
  BY <1>1, <1>2, <1>3, WithinRolls

LEMMA ForceOffRolls ==
  ASSUME RollInv, ForceOffAll
  PROVE  RollInv'
<1>1. req' = req /\ phase = "ready" /\ Head(todo).op = "forceOffAll"
  BY DEF ForceOffAll, Now
<1>2. CASE Ended
  BY <1>1, <1>2, EndedRolls
<1>3. CASE Did /\ UNCHANGED history
  BY <1>1, <1>3, WithinRolls DEF Did, history
<1> QED
  BY <1>2, <1>3 DEF ForceOffAll

LEMMA ReturnRolls ==
  ASSUME RollInv, NEW n \in Nodes, ComesUp(n)
  PROVE  RollInv'
<1>1. /\ job' = job /\ todo' = todo /\ phase' = phase /\ req' = req /\ owed' = owed \ {n}
      /\ job.verb = "restart" => booted' = booted \cup {n}
  BY DEF ComesUp, running
<1>2. ASSUME job.verb = "restart" PROVE Rolls'
  <2>1. Rolls
    BY <1>2 DEF RollInv
  <2>2. RollOK(todo)' /\ Len(todo') >= 1
    BY <1>1, <2>1 DEF Rolls, RollOK
  <2>3. owed' # {} => owed # {} /\ owed' \subseteq owed /\ owed' \cap booted' = {}
    BY <1>1, <1>2, <2>1 DEF Rolls
  <2> QED
    BY <1>1, <2>1, <2>2, <2>3 DEF Rolls
<1>3. RollOK(req.steps) => RollOK(req.steps)'
  BY <1>1 DEF RollOK
<1> QED
  BY <1>1, <1>2, <1>3 DEF RollInv

LEMMA RollStep == RollInv /\ [Next]_vars => RollInv'
<1> SUFFICES ASSUME RollInv, [Next]_vars PROVE RollInv'
  OBVIOUS
<1>1. CASE \/ Crash \/ SweepList \/ keepCordoned \/ UNCHANGED vars
           \/ \E n \in Nodes : GoesDown(n) \/ Fails(n) \/ PowerButton(n) \/ HandCordon(n) \/ HandUncordon(n)
  <2>1. UNCHANGED <<job, todo, phase, owed, booted>> /\ (req' = req \/ req' = NoJob)
    BY <1>1 DEF Crash, SweepList, keepCordoned, vars, GoesDown, Fails, PowerButton, HandCordon,
       HandUncordon, running, history
  <2> QED
    BY <2>1, RollsLeft
<1>2. CASE \/ \E a \in NodeVerbs, n \in Nodes : PressNode(a, n)
           \/ \E a \in ClusterVerbs : PressCluster(a)
  BY <1>2, PressesRoll
<1>3. CASE Submit
  BY <1>3, SubmitRolls
<1>4. CASE StepFails
  BY <1>4, EndedRolls DEF StepFails
<1>5. CASE Look \/ Mark \/ MarkCluster \/ Advance
  BY <1>5, LookRolls
<1>6. CASE Resume
  BY <1>6, ResumeRolls
<1>7. CASE Reboot
  BY <1>7, RebootRolls
<1>8. CASE \/ CordonLook \/ CordonMark \/ CordonNode \/ Drain \/ Shutdown \/ Remember \/ Wake
           \/ UncordonWhom \/ UncordonNode \/ UncordonClear
  BY <1>8, WithinSteps
<1>9. CASE ForceOffAll
  BY <1>9, ForceOffRolls
<1>10. ASSUME NEW n \in Nodes, ComesUp(n) PROVE RollInv'
  BY <1>10, ReturnRolls
<1> QED
  BY <1>1, <1>2, <1>3, <1>4, <1>5, <1>6, <1>7, <1>8, <1>9, <1>10 DEF Next, StepActions

\* A rolling restart never has two nodes away at once, for any number of nodes, restarts of
\* the daemon, failures and power buttons: the next node is asked only once the one before
\* it has booted since it was asked (internal/power steps.go, waitBack).
THEOREM RestartsRoll == Spec => []OneAwayAtATime
<1>1. Init => RollInv
  BY DEF Init, RollInv, NoJob
<1>2. RollInv => OneAwayAtATime
  <2> SUFFICES ASSUME RollInv, job.verb = "restart" PROVE Cardinality(owed) <= 1
    BY DEF OneAwayAtATime
  <2>1. Rolls
    BY DEF RollInv
  <2>2. CASE owed = {}
    BY <2>2, FS_EmptySet
  <2>3. CASE owed # {}
    <3>1. PICK n : Head(todo).on = {n}
      BY <2>1, <2>3, RollHead DEF Rolls
    <3>2. owed = {n}
      BY <2>1, <2>3, <3>1 DEF Rolls
    <3>3. Cardinality({n}) = 1
      BY FS_Singleton
    <3> QED
      BY <3>2, <3>3
  <2> QED
    BY <2>2, <2>3
<1> QED
  BY <1>1, <1>2, RollStep, PTL DEF Spec

=============================================================================
