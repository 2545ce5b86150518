----------------------------- MODULE RotateCA -----------------------------
(***************************************************************************)
(* Rotating the Talos certificate authority of one cluster: the job of     *)
(* internal/rotateca, the store record it works on, and the two            *)
(* certificate operations of internal/inventory/rotate.go.                 *)
(*                                                                         *)
(* An authority is a number; 0 is the one the cluster was made with.  A    *)
(* node's configuration is the authority it issues from and the set it     *)
(* accepts besides; the certificate it serves is re-issued when a control  *)
(* plane changes its authority, and later, by trustd, on a worker.  The    *)
(* engine is reduced to what a job of it goes through: one at a time,      *)
(* steps in order, a crash, Happened on restart, parked when that cannot   *)
(* be answered.  Nodes are taken in whatever order the store lists them.   *)
(***************************************************************************)
EXTENDS Naturals, Sequences, FiniteSets

CONSTANTS
    RotNode,        \* the machines of the cluster
    RotWorkers,     \* those of them that hold no authority key
    Joiners,        \* those that are provisioned later
    MaxAuthority,   \* authorities generated
    MaxFaults,      \* nodes that go away, lost answers, restarts
    MaxRotations    \* rotations and renewals asked for

ASSUME RotAssumption ==
    /\ IsFiniteSet(RotNode) /\ RotWorkers \subseteq RotNode /\ Joiners \subseteq RotNode
    /\ MaxAuthority \in Nat /\ MaxFaults \in Nat /\ MaxRotations \in Nat

VARIABLES
    sec,       \* the ClusterSecrets record: authority, the one moved to, our certificate
    mcfg,      \* [RotNode -> machine.ca and machine.acceptedCAs]
    serves,    \* [RotNode -> the authority its server certificate comes from]
    members,   \* machines of the cluster in the inventory
    onair,     \* machines that answer
    rot,       \* the rotation job
    renew,     \* RenewClientCertificate between its reading and its writing
    minted,    \* authorities generated so far
    faults, rotations

rotVars == <<sec, mcfg, serves, members, onair, rot, renew, minted, faults, rotations>>
nodeState == <<mcfg, serves, members>>

NoAuthority == MaxAuthority + 1
NoRotation == [st |-> "none", ms |-> <<>>, at |-> 1, on |-> 1, begun |-> FALSE, copy |-> [rev |-> 0]]
NoRenewal == [on |-> FALSE, copy |-> [rev |-> 0]]
Fresh(a) == [issuing |-> a, accepted |-> {}]

RotInit ==
    /\ sec = [ca |-> 0, next |-> NoAuthority, client |-> 0, rev |-> 1]
    /\ mcfg = [n \in RotNode |-> Fresh(0)]
    /\ serves = [n \in RotNode |-> 0]
    /\ members = RotNode \ Joiners
    /\ onair = RotNode
    /\ rot = NoRotation /\ renew = NoRenewal
    /\ minted = 0 /\ faults = 0 /\ rotations = 0
----------------------------------------------------------------------------
(***************************************************************************)
(* What a configuration says, and what the passes write.                   *)
(***************************************************************************)
Accepts(c, a) == a = c.issuing \/ a \in c.accepted
IssuesFrom(c, a) == c.issuing = a
Pruned(c, a) == c.accepted = {} \/ c.accepted = {a}

AcceptPatch(c, a) == [c EXCEPT !.accepted = @ \cup {c.issuing, a}]
IssuePatch(c, a) == [c EXCEPT !.issuing = a]
PruneConfig(c, a) == IF Pruned(c, a) THEN c ELSE [c EXCEPT !.accepted = {a}]

\* clusterCreds: a dial trusts one authority and shows one certificate.
Dial(n, ca, client) ==
    n \in onair /\ serves[n] = ca /\ Accepts(mcfg[n], client)
Connect(n) == Dial(n, sec.ca, sec.client)

StoredBundle(s) == [s EXCEPT !.rev = @ + 1]
----------------------------------------------------------------------------
(***************************************************************************)
(* The steps.  Those of a pass over the machines are taken machine by      *)
(* machine, and every machine completes a pass before any starts the next. *)
(***************************************************************************)
steps == <<"prepare", "accept", "preflight", "issue", "adopt", "prune", "finish">>
PerMachine == {"accept", "issue", "prune"}

RotRunning == rot.st = "running"
RotStep == steps[rot.at]
RotOn == rot.ms[rot.on]
Doing(kind) == RotRunning /\ rot.begun /\ RotStep = kind
RotFailed == rot' = [rot EXCEPT !.st = "failed", !.begun = FALSE, !.copy = [rev |-> 0]]

AfterStep ==
    IF RotStep \in PerMachine /\ rot.on < Len(rot.ms)
    THEN [rot EXCEPT !.on = @ + 1, !.begun = FALSE, !.copy = [rev |-> 0]]
    ELSE IF rot.at < Len(steps)
         THEN [rot EXCEPT !.at = @ + 1, !.on = 1, !.begun = FALSE, !.copy = [rev |-> 0]]
         ELSE [rot EXCEPT !.st = "succeeded", !.begun = FALSE, !.copy = [rev |-> 0]]
RotStepDone == rot' = AfterStep

\* pending: the authority this rotation is moving to.
Pending == sec.next # NoAuthority

\* MachinesOf: every machine of the cluster, each once.
MachinesOf == {ms \in [1 .. Cardinality(members) -> members] :
                 \A n \in members : \E i \in 1 .. Cardinality(members) : ms[i] = n}

\* startAuthorityRotation: the machines are listed once, when the job is made.
startAuthorityRotation ==
    /\ ~RotRunning /\ rotations < MaxRotations /\ members # {}
    /\ \E ms \in MachinesOf : rot' = [NoRotation EXCEPT !.st = "running", !.ms = ms]
    /\ rotations' = rotations + 1
    /\ UNCHANGED <<sec, nodeState, onair, renew, minted, faults>>

BeginStep ==
    /\ RotRunning /\ ~rot.begun
    /\ rot' = [rot EXCEPT !.begun = TRUE]
    /\ UNCHANGED <<sec, nodeState, onair, renew, minted, faults, rotations>>

\* prepareStep: an authority already stored is the one to go on with.
prepareStep ==
    /\ Doing("prepare")
    /\ IF Pending
       THEN UNCHANGED <<sec, minted>>
       ELSE /\ minted < MaxAuthority
            /\ minted' = minted + 1 /\ sec' = StoredBundle([sec EXCEPT !.next = minted + 1])
    /\ RotStepDone
    /\ UNCHANGED <<nodeState, onair, renew, faults, rotations>>

\* rewrite: read the node, edit, hand it back.  The answer may be lost.
Served(n, c) == [serves EXCEPT ![n] = IF n \in RotWorkers THEN @ ELSE c.issuing]
rewrite(n, c) ==
    /\ mcfg' = [mcfg EXCEPT ![n] = c] /\ serves' = Served(n, c)
    /\ \/ RotStepDone /\ UNCHANGED faults
       \/ faults < MaxFaults /\ faults' = faults + 1 /\ c # mcfg[n] /\ RotFailed
    /\ UNCHANGED <<sec, members, onair, renew, minted, rotations>>

acceptStep ==
    /\ Doing("accept") /\ Pending /\ Connect(RotOn)
    /\ rewrite(RotOn, AcceptPatch(mcfg[RotOn], sec.next))

\* RefuseUnlessEveryNodeAnswered, asked between the first pass and the second.
EveryNodeAnswered(ms) ==
    \A i \in DOMAIN ms : Connect(ms[i]) /\ Accepts(mcfg[ms[i]], sec.next)

preflightIssue ==
    /\ Doing("preflight") /\ Pending /\ EveryNodeAnswered(rot.ms)
    /\ RotStepDone
    /\ UNCHANGED <<sec, nodeState, onair, renew, minted, faults, rotations>>

issueStep ==
    /\ Doing("issue") /\ Pending /\ Connect(RotOn)
    /\ Accepts(mcfg[RotOn], sec.next)
    /\ rewrite(RotOn, IssuePatch(mcfg[RotOn], sec.next))

pruneStep ==
    /\ Doing("prune") /\ Pending /\ Connect(RotOn)
    /\ IssuesFrom(mcfg[RotOn], sec.next)
    /\ rewrite(RotOn, PruneConfig(mcfg[RotOn], sec.next))

\* provesItself: some machine answers a dial with the new certificate.
provesItself(a) == \E n \in members : Dial(n, a, a)

adoptKeepsCertificate ==
    /\ Doing("adopt") /\ Pending /\ rot.copy.rev = 0
    /\ provesItself(sec.next)
    /\ rot' = [rot EXCEPT !.copy = [sec EXCEPT !.ca = sec.next]]
    /\ UNCHANGED <<sec, nodeState, onair, renew, minted, faults, rotations>>

\* AdoptAuthority: read, mint, prove ...
adoptStep ==
    /\ Doing("adopt") /\ Pending /\ rot.copy.rev = 0
    /\ provesItself(sec.next)
    /\ rot' = [rot EXCEPT !.copy = [sec EXCEPT !.ca = sec.next, !.client = sec.next]]
    /\ UNCHANGED <<sec, nodeState, onair, renew, minted, faults, rotations>>

\* ... and only then keep it; a record somebody else wrote is not overwritten.
AdoptAuthority ==
    /\ Doing("adopt") /\ rot.copy.rev # 0
    /\ IF rot.copy.rev = sec.rev
       THEN /\ sec' = StoredBundle(rot.copy)
            /\ RotStepDone
       ELSE RotFailed /\ UNCHANGED sec
    /\ UNCHANGED <<nodeState, onair, renew, minted, faults, rotations>>

finishStep ==
    /\ Doing("finish")
    /\ IF Pending /\ sec.ca # sec.next
       THEN RotFailed /\ UNCHANGED sec
       ELSE /\ sec' = IF Pending THEN StoredBundle([sec EXCEPT !.next = NoAuthority]) ELSE sec
            /\ RotStepDone
    /\ UNCHANGED <<nodeState, onair, renew, minted, faults, rotations>>

\* A step that cannot be done ends the job.
Refused ==
    CASE RotStep = "accept" -> ~(Pending /\ Connect(RotOn))
      [] RotStep = "preflight" -> ~(Pending /\ EveryNodeAnswered(rot.ms))
      [] RotStep = "issue" -> ~(Pending /\ Connect(RotOn) /\ Accepts(mcfg[RotOn], sec.next))
      [] RotStep = "prune" -> ~(Pending /\ Connect(RotOn) /\ IssuesFrom(mcfg[RotOn], sec.next))
      [] RotStep = "adopt" -> rot.copy.rev = 0 /\ ~(Pending /\ provesItself(sec.next))
      [] OTHER -> FALSE
RotationFails ==
    /\ RotRunning /\ rot.begun /\ Refused
    /\ RotFailed
    /\ UNCHANGED <<sec, nodeState, onair, renew, minted, faults, rotations>>
----------------------------------------------------------------------------
(***************************************************************************)
(* A restart: what Happened answers decides whether the step is taken      *)
(* again, skipped, or left to a person.                                    *)
(***************************************************************************)
Answerable ==
    CASE RotStep \in {"prepare", "adopt", "finish"} -> TRUE
      [] RotStep = "preflight" -> FALSE
      [] OTHER -> Pending /\ Connect(RotOn)
RotHappened ==
    CASE RotStep = "prepare" -> Pending
      [] RotStep = "accept" -> Accepts(mcfg[RotOn], sec.next)
      [] RotStep = "issue" -> IssuesFrom(mcfg[RotOn], sec.next)
      [] RotStep = "adopt" -> sec.ca = sec.next
      [] RotStep = "prune" -> IF mcfg[RotOn].accepted = {}
                              THEN IssuesFrom(mcfg[RotOn], sec.next)
                              ELSE mcfg[RotOn].accepted = {sec.next}
      [] RotStep = "finish" -> ~Pending

RestartDaemon ==
    /\ faults < MaxFaults /\ faults' = faults + 1
    /\ renew' = NoRenewal
    /\ rot' = IF ~RotRunning \/ ~rot.begun THEN rot
              ELSE IF ~Answerable THEN [rot EXCEPT !.st = "parked", !.begun = FALSE, !.copy = [rev |-> 0]]
              ELSE IF RotHappened THEN AfterStep
              ELSE [rot EXCEPT !.begun = FALSE, !.copy = [rev |-> 0]]
    /\ UNCHANGED <<sec, nodeState, onair, minted, rotations>>
----------------------------------------------------------------------------
(***************************************************************************)
(* Beside the job: a renewal of our own certificate, which takes no lease, *)
(* a machine provisioned while no job runs, and the machines themselves.   *)
(***************************************************************************)
RenewBegin ==
    /\ ~renew.on /\ rotations < MaxRotations
    /\ \E n \in members : Dial(n, sec.ca, sec.ca)
    /\ renew' = [on |-> TRUE, copy |-> [sec EXCEPT !.client = sec.ca]]
    /\ rotations' = rotations + 1
    /\ UNCHANGED <<sec, nodeState, onair, rot, minted, faults>>

RenewClientCertificate ==
    /\ renew.on
    /\ sec' = IF renew.copy.rev = sec.rev THEN StoredBundle(renew.copy) ELSE sec
    /\ renew' = NoRenewal
    /\ UNCHANGED <<nodeState, onair, rot, minted, faults, rotations>>

\* A new machine is configured with the authority in the store.
Join(n) ==
    /\ ~RotRunning /\ n \in RotNode \ members
    /\ members' = members \cup {n}
    /\ mcfg' = [mcfg EXCEPT ![n] = Fresh(sec.ca)]
    /\ serves' = [serves EXCEPT ![n] = sec.ca]
    /\ UNCHANGED <<sec, onair, rot, renew, minted, faults, rotations>>

TrustdReissues(n) ==
    /\ n \in members \cap onair \cap RotWorkers /\ serves[n] # mcfg[n].issuing
    /\ serves' = [serves EXCEPT ![n] = mcfg[n].issuing]
    /\ UNCHANGED <<sec, mcfg, members, onair, rot, renew, minted, faults, rotations>>

GoesAway(n) ==
    /\ n \in onair /\ faults < MaxFaults
    /\ onair' = onair \ {n} /\ faults' = faults + 1
    /\ UNCHANGED <<sec, nodeState, rot, renew, minted, rotations>>

ComesBack(n) ==
    /\ n \notin onair /\ onair' = onair \cup {n}
    /\ UNCHANGED <<sec, nodeState, rot, renew, minted, faults, rotations>>

RotNext ==
    \/ startAuthorityRotation \/ BeginStep
    \/ prepareStep \/ acceptStep \/ preflightIssue \/ issueStep
    \/ adoptStep \/ AdoptAuthority \/ pruneStep \/ finishStep \/ RotationFails
    \/ RestartDaemon
    \/ RenewBegin \/ RenewClientCertificate
    \/ \E n \in RotNode : Join(n) \/ TrustdReissues(n) \/ GoesAway(n) \/ ComesBack(n)

RotSpec == RotInit /\ [][RotNext]_rotVars
----------------------------------------------------------------------------
(***************************************************************************)
(* Properties.                                                             *)
(***************************************************************************)

\* adoptStep between issueStep and pruneStep: no node of the cluster ever stops
\* accepting the certificate this installation holds.
NeverLockedOut == \A n \in members : Accepts(mcfg[n], sec.client)

============================================================================
