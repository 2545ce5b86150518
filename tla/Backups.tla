------------------------------ MODULE Backups ------------------------------
(***************************************************************************)
(* Stored etcd snapshots of one cluster: the snapshot an upgrade requires, *)
(* the scheduled backups, the record of the last attempt, the scheduler    *)
(* (internal/upgrade: safetysnapshot.go, backups.go, restore.go).          *)
(*                                                                         *)
(* Requests, the scheduler and the backup job interleave between their     *)
(* writes; the daemon may stop between any two.  Time is a counter.  What  *)
(* the disk or a node refuses is an alternative of the step that asks.     *)
(***************************************************************************)
EXTENDS Naturals, FiniteSets, FiniteSetsExt

CONSTANTS
    MaxTime,     \* the clock stops here
    Interval,    \* of the schedule
    RetryGap,    \* retryGap(Interval)
    MaxSnapshotAge,      \* SafetySnapshotMaxAge
    KeepSafety,  \* keepSafetySnapshots
    Keep,        \* BackupSchedule.Keep
    MaxRuns,     \* backup jobs submitted
    MaxStops     \* crashes and cancellations

ASSUME BackupsAssumption ==
    /\ {MaxTime, Interval, RetryGap, MaxSnapshotAge, KeepSafety, Keep} \subseteq Nat \ {0}
    /\ MaxRuns \in Nat /\ MaxStops \in Nat

Kinds == {"upgrade", "scheduled"}
Callers == {"schedule", "manual"}

VARIABLES
    now,      \* the clock
    schedule, \* the cluster's BackupSchedule: [on, since]
    snaps,    \* committed snapshot files: [at, kind]
    writer,   \* the write in flight: [who, kind, at, pc]
    status,   \* backup-status.json: [at, result]
    caller,   \* [Callers -> where its SubmitBackup is]
    bjob,     \* the backup job
    runs, stops

backupVars == <<now, schedule, snaps, writer, status, caller, bjob, runs, stops>>

NoWrite == [who |-> "none", kind |-> "upgrade", at |-> 0, pc |-> "idle"]
NoBackup == [st |-> "none", at |-> 0, pc |-> "start"]

BackupInit ==
    /\ now = 1
    /\ schedule = [on |-> TRUE, since |-> 1]
    /\ snaps = {}
    /\ writer = NoWrite
    /\ status = [at |-> 0, result |-> "none"]
    /\ caller = [c \in Callers |-> "idle"]
    /\ bjob = NoBackup
    /\ runs = 0 /\ stops = 0

OfKind(k) == {s \in snaps : s.kind = k}
Newest(S) == IF S = {} THEN 0 ELSE Max({s.at : s \in S})

\* Latest counts a snapshot of either kind.
Latest == Newest(snaps)
FreshEnough == Latest # 0 /\ Latest <= now /\ now < Latest + MaxSnapshotAge

nextDue ==
    LET last == Newest(OfKind("scheduled"))
        due  == IF last = 0 THEN schedule.since ELSE last + Interval
    IN IF status.at > last /\ status.at + RetryGap > due THEN status.at + RetryGap ELSE due
----------------------------------------------------------------------------
(***************************************************************************)
(* writeKind: one snapshot at a time, then the older ones of its kind go.  *)
(***************************************************************************)
\* inflight is taken, the disk has room, the file is named for this moment.
WriteBegins(who, kind) ==
    /\ writer = NoWrite
    /\ writer' = [who |-> who, kind |-> kind, at |-> now, pc |-> "stream"]

\* TakeSafetySnapshot.
TakeSafetySnapshot ==
    /\ WriteBegins("request", "upgrade")
    /\ UNCHANGED <<now, schedule, snaps, status, caller, bjob, runs, stops>>

\* The stream ends: the checksum is beside the file and the file has its name, or
\* there is no file and inflight is given back.
WriteStream ==
    /\ writer.pc = "stream"
    /\ \/ /\ snaps' = snaps \cup {[at |-> writer.at, kind |-> writer.kind]}
          /\ writer' = [writer EXCEPT !.pc = "prune"]
          /\ UNCHANGED bjob
       \/ /\ writer' = NoWrite
          /\ bjob' = IF writer.who = "job" THEN [bjob EXCEPT !.pc = "failed"] ELSE bjob
          /\ UNCHANGED snaps
    /\ UNCHANGED <<now, schedule, status, caller, runs, stops>>

\* Mutant: prune counts the files of both kinds.
KeptOfAll(kind, keep) ==
    {s \in snaps : Cardinality({t \in snaps : t.at > s.at}) < keep}

\* prune leaves the newest of this kind, and every file of the other.
Kept(kind, keep) ==
    {s \in snaps : s.kind = kind => Cardinality({t \in OfKind(kind) : t.at > s.at}) < keep}

prune ==
    /\ writer.pc = "prune"
    /\ snaps' = Kept(writer.kind, IF writer.kind = "upgrade" THEN KeepSafety ELSE Keep)
    /\ writer' = NoWrite
    /\ bjob' = IF writer.who = "job" THEN [bjob EXCEPT !.pc = "written"] ELSE bjob
    /\ UNCHANGED <<now, schedule, status, caller, runs, stops>>
----------------------------------------------------------------------------
(***************************************************************************)
(* SubmitBackup, from the scheduler and from the run-now route.            *)
(***************************************************************************)

\* The attempt is on disk before the job is submitted.
RecordAttempt(c) ==
    /\ caller' = [caller EXCEPT ![c] = "submit"]
    /\ status' = [at |-> now, result |-> "running"]

\* Tick and consider: the cluster is due; a disabled one is skipped on the record.
consider ==
    /\ schedule.on
    /\ caller["schedule"] = "idle"
    /\ now >= nextDue
    /\ \/ runs < MaxRuns /\ RecordAttempt("schedule")
       \/ /\ status' = [status EXCEPT !.at = now, !.result = "skipped"]
          /\ UNCHANGED caller
    /\ UNCHANGED <<now, schedule, snaps, writer, bjob, runs, stops>>

backupRunNow ==
    /\ caller["manual"] = "idle"
    /\ runs < MaxRuns
    /\ RecordAttempt("manual")
    /\ UNCHANGED <<now, schedule, snaps, writer, bjob, runs, stops>>

BackupLives == bjob.st \in {"running", "interrupted"}

\* Engine.Submit: the cluster's lease, unless this or another job has it.
SubmitBackup(c) ==
    /\ caller[c] = "submit"
    /\ \/ /\ caller' = [caller EXCEPT ![c] = "refused"]
          /\ UNCHANGED <<bjob, runs>>
       \/ /\ ~BackupLives /\ runs < MaxRuns
          /\ runs' = runs + 1
          /\ bjob' = [st |-> "running", at |-> now, pc |-> "start"]
          /\ caller' = [caller EXCEPT ![c] = "accepted"]
    /\ UNCHANGED <<now, schedule, snaps, writer, status, stops>>

\* What SubmitBackup writes after the engine's answer.
SubmitAnswered(c) ==
    /\ caller[c] \in {"refused", "accepted"}
    /\ status' = IF caller[c] = "refused" THEN [status EXCEPT !.result = "skipped"]
                 ELSE status
    /\ caller' = [caller EXCEPT ![c] = "idle"]
    /\ UNCHANGED <<now, schedule, snaps, writer, bjob, runs, stops>>
----------------------------------------------------------------------------
(***************************************************************************)
(* The job's one step.                                                     *)
(***************************************************************************)
\* takeScheduled: no control plane answers, a write is in flight, or the disk is low.
takeScheduled ==
    /\ bjob.st = "running" /\ bjob.pc = "start"
    /\ \/ WriteBegins("job", "scheduled") /\ bjob' = [bjob EXCEPT !.pc = "writing"]
       \/ bjob' = [bjob EXCEPT !.pc = "skipped"] /\ UNCHANGED writer
    /\ UNCHANGED <<now, schedule, snaps, status, caller, runs, stops>>

finishAttempt ==
    /\ bjob.st = "running" /\ bjob.pc \in {"written", "skipped", "failed"}
    /\ status' = [status EXCEPT !.result = CASE bjob.pc = "written" -> "ok"
                                             [] bjob.pc = "skipped" -> "skipped"
                                             [] OTHER -> "failed"]
    /\ bjob' = NoBackup
    /\ UNCHANGED <<now, schedule, snaps, writer, caller, runs, stops>>

\* The operator cancels: the step returns the error and records nothing.
CancelBackup ==
    /\ stops < MaxStops
    /\ bjob.st = "running" /\ bjob.pc \in {"start", "writing"}
    /\ writer.pc # "prune"
    /\ writer' = IF writer.who = "job" THEN NoWrite ELSE writer
    /\ bjob' = NoBackup
    /\ stops' = stops + 1
    /\ UNCHANGED <<now, schedule, snaps, status, caller, runs>>

CrashBackup ==
    /\ stops < MaxStops
    /\ stops' = stops + 1
    /\ writer' = NoWrite
    /\ caller' = [c \in Callers |-> "idle"]
    /\ bjob' = IF bjob.st = "running" THEN [bjob EXCEPT !.st = "interrupted"] ELSE bjob
    /\ UNCHANGED <<now, schedule, snaps, status, runs>>

\* Happened of the step.
TakenSince == \E s \in snaps : s.kind = "scheduled" /\ s.at >= bjob.at

ResumeBackup ==
    /\ bjob.st = "interrupted"
    /\ IF bjob.pc # "start" /\ TakenSince
       THEN bjob' = NoBackup
       ELSE bjob' = [bjob EXCEPT !.st = "running", !.pc = "start"]
    /\ UNCHANGED <<now, schedule, snaps, writer, status, caller, runs, stops>>
----------------------------------------------------------------------------
\* SetBackupSchedule: since is now; off removes the record.
backupSetSchedule(on) ==
    /\ schedule.on # on
    /\ schedule' = [on |-> on, since |-> IF on THEN now ELSE 0]
    /\ UNCHANGED <<now, snaps, writer, status, caller, bjob, runs, stops>>

Tick ==
    /\ now < MaxTime
    /\ now' = now + 1
    /\ UNCHANGED <<schedule, snaps, writer, status, caller, bjob, runs, stops>>

BackupNext ==
    \/ TakeSafetySnapshot \/ WriteStream \/ prune
    \/ consider \/ backupRunNow
    \/ \E c \in Callers : SubmitBackup(c) \/ SubmitAnswered(c)
    \/ takeScheduled \/ finishAttempt \/ CancelBackup \/ CrashBackup \/ ResumeBackup
    \/ \E on \in BOOLEAN : backupSetSchedule(on)
    \/ Tick

BackupSpec == BackupInit /\ [][BackupNext]_backupVars
----------------------------------------------------------------------------
\* Pruning one kind never costs the other, and the newest snapshot stays: an upgrade
\* that was allowed by a fresh snapshot does not lose it to a backup (prune, Latest).
NewestIsKept ==
    [][/\ \A k \in Kinds :
             /\ Newest(OfKind(k)') >= Newest(OfKind(k))
             /\ writer.kind # k => OfKind(k) \subseteq OfKind(k)'
       /\ FreshEnough /\ now' = now => FreshEnough']_backupVars

=============================================================================
