----------------------------- MODULE JobEngine -----------------------------
(***************************************************************************)
(* The job engine (internal/jobs/jobs.go): long-running operations kept as *)
(* persisted records, run by one goroutine each, resumed or parked after a *)
(* restart, cancelled from HTTP handlers, serialised per cluster by an     *)
(* in-memory lease.                                                        *)
(*                                                                         *)
(* What survives the process is db, the job records of the store.  A Put   *)
(* is a compare-and-swap on the record's revision and a Get reads the last *)
(* Put; both are atomic for one record.  Everything else the engine keeps  *)
(* is lost in a crash.  effects is the world outside: how often the side   *)
(* effect of a step has really happened.                                   *)
(***************************************************************************)
EXTENDS Naturals, FiniteSets

CONSTANTS
    Jobs,         \* job identifiers; newJobID never draws one twice
    Clusters,     \* clusters a job can hold the lease of
    NoCluster,    \* Job.Cluster = "": a machine that belongs to no cluster
    NoJob,        \* a lease nobody holds
    ClusterOf,    \* [Jobs -> Clusters \cup {NoCluster}]
    NSteps,       \* [Jobs -> Nat \ {0}], how many steps the builder returns
    StepKind,     \* StepKind[j][i], what step i of job j can say about itself
    Cancellers,   \* HTTP handlers that call Cancel, each of them once
    MaxBoots,     \* how often the process is started
    MaxFaults,    \* how many reads and writes of the store the disk refuses
    LateEffects   \* may a request outlive the process or the call that sent it?

Steps(j) == 1 .. NSteps[j]

(***************************************************************************)
(* Kinds of step, by the answer Step.Happened can give.                    *)
(*   read   changes nothing; Happened is constantly false (ReachableStep)  *)
(*   check  Happened reads the effect, or cannot tell (RebootStep)         *)
(*   off    Happened is "the node does not answer" (ShutdownStep)          *)
(*   blind  Happened is nil (reset)                                        *)
(***************************************************************************)
Kinds == {"read", "check", "off", "blind"}

ASSUME JobsAssumption ==
    /\ NoJob \notin Jobs
    /\ NoCluster \notin Clusters
    /\ ClusterOf \in [Jobs -> Clusters \cup {NoCluster}]
    /\ NSteps \in [Jobs -> Nat \ {0}]
    /\ \A j \in Jobs : StepKind[j] \in [Steps(j) -> Kinds]

ASSUME BoundsAssumption ==
    /\ MaxBoots \in Nat
    /\ MaxFaults \in Nat
    /\ LateEffects \in BOOLEAN

Terminal == {"succeeded", "failed", "cancelled"}
JobState == {"absent", "pending", "running", "parked"} \cup Terminal
StepState == {"pending", "running", "done", "failed", "skipped"}

\* Where a job's goroutine stands.  "starting" is registered in e.running and
\* not yet counted by the wait group.
PC == {"none", "starting", "begin", "boundary", "saveRead", "saveWrite",
       "do", "did", "exit"}

VARIABLES
    db,         \* the store's job records
    leases,     \* Engine.leases, NoJob for a cluster without an entry
    ctxDone,    \* jobs whose context an operator's Cancel has cancelled
    phase,      \* "down", "resuming" (Resume runs, no listener), "serving"
    closed,     \* Engine.closed, and with it Engine.shutdown
    returned,   \* Close has returned
    todo,       \* what Resume's loop has not looked at yet
    submit,     \* [Jobs -> where the Submit call of this job stands]
    handler,    \* [Cancellers -> the local state of one Cancel call]
    pc,         \* [Jobs -> where the job's goroutine stands]
    cont,       \* [Jobs -> where it goes on after the save it is in]
    idx,        \* [Jobs -> the loop variable of run]
    tries,      \* [Jobs -> attempts the current save has made]
    snap,       \* [Jobs -> revision and cancel flag save has read]
    mem         \* [Jobs -> the fields of the record the goroutine owns]

VARIABLES
    effects,    \* [Jobs -> [Steps -> Nat]] side effects that really happened
    late,       \* requests still under way although nobody waits for them
    boots, faults,                     \* bounded counters
    afterCancel,  \* [Jobs -> Nat] effects since the cancel was stored
    shown,      \* [Jobs -> the last state published on the job's topic]
    lost,       \* jobs with a save given up after two conflicts
    faulted     \* jobs with a read or write the disk refused

engine == <<leases, ctxDone, closed, returned>>
run == <<pc, cont, idx, tries, snap, mem>>
world == <<effects, late, afterCancel>>
history == <<shown, lost, faulted, faults>>
vars == <<db, leases, ctxDone, phase, closed, returned, todo, submit, handler,
          pc, cont, idx, tries, snap, mem, effects, late, boots, faults,
          afterCancel, shown, lost, faulted>>

Blank(j) == [state |-> "absent", steps |-> [i \in Steps(j) |-> "pending"],
             cur |-> 1, cancel |-> FALSE, rev |-> 0]
NoMem(j) == [state |-> "absent", steps |-> [i \in Steps(j) |-> "pending"], cur |-> 1]
Idle == [pc |-> "idle", job |-> NoJob, rev |-> 0, state |-> "absent"]

Init ==
    /\ db = [j \in Jobs |-> Blank(j)]
    /\ leases = [c \in Clusters |-> NoJob]
    /\ ctxDone = {}
    /\ phase = "down"
    /\ closed = FALSE
    /\ returned = FALSE
    /\ todo = {}
    /\ submit = [j \in Jobs |-> "idle"]
    /\ handler = [h \in Cancellers |-> Idle]
    /\ pc = [j \in Jobs |-> "none"]
    /\ cont = [j \in Jobs |-> "none"]
    /\ idx = [j \in Jobs |-> 1]
    /\ tries = [j \in Jobs |-> 0]
    /\ snap = [j \in Jobs |-> [rev |-> 0, cancel |-> FALSE]]
    /\ mem = [j \in Jobs |-> NoMem(j)]
    /\ effects = [j \in Jobs |-> [i \in Steps(j) |-> 0]]
    /\ late = {}
    /\ boots = 0
    /\ faults = 0
    /\ afterCancel = [j \in Jobs |-> 0]
    /\ shown = [j \in Jobs |-> "absent"]
    /\ lost = {}
    /\ faulted = {}
----------------------------------------------------------------------------
(***************************************************************************)
(* The lease.  A job without a cluster neither takes nor gives one.        *)
(***************************************************************************)
\* Mutant: the holder of the lease is not looked at.
CanAcquireBlindly(j) == TRUE

CanAcquire(j) ==
    \/ ClusterOf[j] = NoCluster
    \/ leases[ClusterOf[j]] \in {NoJob, j}

Acquired(j) ==
    IF ClusterOf[j] = NoCluster
      THEN leases
      ELSE [leases EXCEPT ![ClusterOf[j]] = j]

Released(j) ==
    IF ClusterOf[j] # NoCluster /\ leases[ClusterOf[j]] = j
      THEN [leases EXCEPT ![ClusterOf[j]] = NoJob]
      ELSE leases

\* The engine's fields of m onto the stored record r, as save merges them.
Merge(r, m) == [state |-> m.state, steps |-> m.steps, cur |-> m.cur,
                cancel |-> r.cancel, rev |-> r.rev + 1]

\* A read or write of the store that fails for a reason of the disk; the engine
\* logs it and goes on.  A refused write of r may have landed all the same:
\* writeAtomic also fails when the directory cannot be synced after the rename.
DiskFault(j, r) ==
    /\ faults < MaxFaults
    /\ faults' = faults + 1
    /\ faulted' = faulted \cup {j}
    /\ db' \in {db, [db EXCEPT ![j] = r]}
    /\ UNCHANGED lost

\* save while nobody else can write the record (Resume, before the listener).
SaveAlone(j, m) ==
    \/ /\ db' = [db EXCEPT ![j] = Merge(db[j], m)]
       /\ UNCHANGED <<lost, faulted, faults>>
    \/ DiskFault(j, Merge(db[j], m))
----------------------------------------------------------------------------
(***************************************************************************)
(* Submit.  Three steps other goroutines can come between: the lease, the  *)
(* record, the start.                                                      *)
(***************************************************************************)
Serving == phase = "serving"

SubmitAcquire(j) ==
    /\ Serving
    /\ submit[j] = "idle"
    /\ ~closed
    /\ CanAcquire(j)
    /\ leases' = Acquired(j)
    /\ submit' = [submit EXCEPT ![j] = "leased"]
    /\ UNCHANGED <<db, ctxDone, phase, closed, returned, todo, handler, run,
                   world, boots, history>>

FirstRecord(j) == [Blank(j) EXCEPT !.state = "pending", !.rev = 1]

SubmitPut(j) ==
    /\ submit[j] = "leased"
    /\ \/ /\ db' = [db EXCEPT ![j] = FirstRecord(j)]
          /\ submit' = [submit EXCEPT ![j] = "stored"]
          /\ UNCHANGED <<leases, history>>
       \/ /\ DiskFault(j, FirstRecord(j))
          /\ leases' = Released(j)
          /\ submit' = [submit EXCEPT ![j] = "over"]
          /\ UNCHANGED shown
    /\ UNCHANGED <<ctxDone, phase, closed, returned, todo, handler, run, world, boots>>

\* start: the job is put into e.running under the lock.
Register(j, m, i, at) ==
    /\ pc' = [pc EXCEPT ![j] = at]
    /\ mem' = [mem EXCEPT ![j] = m]
    /\ idx' = [idx EXCEPT ![j] = i]
    /\ UNCHANGED <<cont, tries, snap>>

SubmitStart(j) ==
    /\ submit[j] = "stored"
    /\ ~closed
    /\ submit' = [submit EXCEPT ![j] = "over"]
    /\ Register(j, [state |-> "pending", steps |-> Blank(j).steps, cur |-> 1], 1,
                "starting")
    /\ UNCHANGED <<db, engine, phase, todo, handler, world, boots, history>>

\* Close came first: the record is withdrawn and the lease given back.
SubmitWithdraw(j) ==
    /\ submit[j] = "stored"
    /\ closed
    /\ submit' = [submit EXCEPT ![j] = "over"]
    /\ \/ /\ db' = [db EXCEPT ![j] = Blank(j)]
          /\ UNCHANGED history
       \/ DiskFault(j, Blank(j)) /\ UNCHANGED shown
    /\ leases' = Released(j)
    /\ UNCHANGED <<ctxDone, phase, closed, returned, todo, handler, run, world, boots>>

\* wg.Add(1) and the go statement, after the unlock.
Spawn(j) ==
    /\ pc[j] = "starting"
    /\ pc' = [pc EXCEPT ![j] = "begin"]
    /\ UNCHANGED <<db, engine, phase, todo, submit, handler, cont, idx, tries,
                   snap, mem, world, boots, history>>

----------------------------------------------------------------------------
(***************************************************************************)
(* save: Get, merge, Put, and once more when the Put meets a conflict.  A  *)
(* cancel can land between the Get and the Put.  The caller publishes what *)
(* it holds in memory whether or not the record was written.               *)
(***************************************************************************)
SaveThen(j, m, next) ==
    /\ mem' = [mem EXCEPT ![j] = m]
    /\ pc' = [pc EXCEPT ![j] = "saveRead"]
    /\ cont' = [cont EXCEPT ![j] = next]
    /\ tries' = [tries EXCEPT ![j] = 0]
    /\ UNCHANGED snap

SaveOver(j) ==
    /\ pc' = [pc EXCEPT ![j] = cont[j]]
    /\ shown' = [shown EXCEPT ![j] = mem[j].state]

SaveRead(j) ==
    /\ pc[j] = "saveRead"
    /\ snap' = [snap EXCEPT ![j] = [rev |-> db[j].rev, cancel |-> db[j].cancel]]
    /\ pc' = [pc EXCEPT ![j] = "saveWrite"]
    /\ UNCHANGED <<db, engine, phase, todo, submit, handler, cont, idx, tries,
                   mem, world, boots, history>>

\* The Put finds the revision it was read at.
SaveWrite(j) ==
    /\ pc[j] = "saveWrite"
    /\ db[j].rev = snap[j].rev
    /\ db' = [db EXCEPT ![j] = Merge(snap[j], mem[j])]
    /\ SaveOver(j)
    /\ UNCHANGED <<engine, phase, todo, submit, handler, cont, idx, tries, snap,
                   mem, world, boots, lost, faulted, faults>>

SaveConflict(j) ==
    /\ pc[j] = "saveWrite"
    /\ db[j].rev # snap[j].rev
    /\ \/ /\ tries[j] = 0
          /\ tries' = [tries EXCEPT ![j] = 1]
          /\ pc' = [pc EXCEPT ![j] = "saveRead"]
          /\ UNCHANGED <<shown, lost>>
       \/ /\ tries[j] = 1
          /\ lost' = lost \cup {j}
          /\ SaveOver(j)
          /\ UNCHANGED tries
    /\ UNCHANGED <<db, engine, phase, todo, submit, handler, cont, idx, snap,
                   mem, world, boots, faulted, faults>>

SaveFault(j) ==
    /\ \/ pc[j] = "saveRead" /\ DiskFault(j, db[j])
       \/ pc[j] = "saveWrite" /\ DiskFault(j, IF db[j].rev = snap[j].rev
                                                THEN Merge(snap[j], mem[j])
                                                ELSE db[j])
    /\ SaveOver(j)
    /\ UNCHANGED <<engine, phase, todo, submit, handler, cont, idx, tries, snap,
                   mem, world, boots>>
----------------------------------------------------------------------------
(***************************************************************************)
(* run: the loop over the steps.                                           *)
(***************************************************************************)
RunBegin(j) ==
    /\ pc[j] = "begin"
    /\ SaveThen(j, [mem[j] EXCEPT !.state = "running"], "boundary")
    /\ UNCHANGED <<db, engine, phase, todo, submit, handler, idx, world, boots,
                   history>>

\* cancelRequested: the context, unless a shutdown explains it, or the flag in
\* the store.
Signalled(j) == j \in ctxDone /\ ~closed
\* Mutant: only the context is asked, which a restart forgets.
CancelRequestedInMemory(j) == Signalled(j)

CancelRequested(j) == Signalled(j) \/ db[j].cancel

\* The last act of a job: the lease is given back before the end is written.
Finish(j, m) ==
    /\ leases' = Released(j)
    /\ SaveThen(j, m, "exit")

RunSucceed(j) ==
    /\ pc[j] = "boundary"
    /\ idx[j] > NSteps[j]
    /\ Finish(j, [mem[j] EXCEPT !.state = "succeeded", !.cur = NSteps[j]])
    /\ UNCHANGED <<db, ctxDone, phase, closed, returned, todo, submit, handler,
                   idx, world, boots, history>>

\* The process is going away and nobody asked for a cancel: the record stays
\* as it is, for Resume.
RunStop(j) ==
    /\ pc[j] = "boundary"
    /\ idx[j] <= NSteps[j]
    /\ closed
    /\ ~CancelRequested(j)
    /\ pc' = [pc EXCEPT ![j] = "exit"]
    /\ UNCHANGED <<db, engine, phase, todo, submit, handler, cont, idx, tries,
                   snap, mem, world, boots, history>>

RunCancelled(j) ==
    /\ pc[j] = "boundary"
    /\ idx[j] <= NSteps[j]
    /\ CancelRequested(j)
    /\ Finish(j, [mem[j] EXCEPT !.state = "cancelled"])
    /\ UNCHANGED <<db, ctxDone, phase, closed, returned, todo, submit, handler,
                   idx, world, boots, history>>

\* Mutant: a step is written down after it ran, not before.
RunStepUnrecorded(j) ==
    /\ pc[j] = "boundary"
    /\ idx[j] <= NSteps[j]
    /\ ~closed
    /\ ~CancelRequested(j)
    /\ mem' = [mem EXCEPT ![j].cur = idx[j], ![j].steps[idx[j]] = "running"]
    /\ pc' = [pc EXCEPT ![j] = "do"]
    /\ UNCHANGED <<db, engine, phase, todo, submit, handler, cont, idx, tries, snap,
                   world, boots, history>>

\* A flag that cannot be read counts as not set.
RunStep(j) ==
    /\ pc[j] = "boundary"
    /\ idx[j] <= NSteps[j]
    /\ ~closed
    /\ \/ /\ ~CancelRequested(j)
          /\ UNCHANGED <<db, history>>
       \/ /\ ~Signalled(j)
          /\ DiskFault(j, db[j])
          /\ UNCHANGED shown
    /\ SaveThen(j, [mem[j] EXCEPT !.cur = idx[j], !.steps[idx[j]] = "running"], "do")
    /\ UNCHANGED <<engine, phase, todo, submit, handler, idx, world, boots>>
----------------------------------------------------------------------------
(***************************************************************************)
(* steps[i].Do.  "do" is the call before its request has had an effect,    *)
(* "did" after it.  Do can return an error at either point, and a call     *)
(* that gives up may leave its request on the way (late).                  *)
(***************************************************************************)
Reads(j) == StepKind[j][idx[j]] = "read"

DoEffect(j) ==
    /\ pc[j] = "do"
    /\ ~Reads(j)
    /\ effects' = [effects EXCEPT ![j][idx[j]] = @ + 1]
    /\ afterCancel' = [afterCancel EXCEPT ![j] = @ + (IF db[j].cancel THEN 1 ELSE 0)]
    /\ pc' = [pc EXCEPT ![j] = "did"]
    /\ UNCHANGED <<db, engine, phase, todo, submit, handler, cont, idx, tries,
                   snap, mem, late, boots, history>>

\* Requests of the jobs in J that are sent and not carried out.
InFlight(J) ==
    IF LateEffects
      THEN {<<j, idx[j]>> : j \in {k \in J : pc[k] = "do" /\ ~Reads(k)}}
      ELSE {}

GiveUp(j) == \E R \in SUBSET InFlight({j}) : late' = late \cup R

DoReturnOk(j) ==
    /\ pc[j] = "did" \/ (pc[j] = "do" /\ Reads(j))
    /\ idx' = [idx EXCEPT ![j] = @ + 1]
    /\ SaveThen(j, [mem[j] EXCEPT !.steps[idx[j]] = "done"], "boundary")
    /\ UNCHANGED <<db, engine, phase, todo, submit, handler, world, boots, history>>

DoReturnError(j) ==
    /\ pc[j] \in {"do", "did"}
    /\ GiveUp(j)
    /\ Finish(j, [mem[j] EXCEPT !.state = "failed", !.steps[idx[j]] = "failed"])
    /\ UNCHANGED <<db, ctxDone, phase, closed, returned, todo, submit, handler,
                   idx, effects, afterCancel, boots, history>>

\* Mutant: an operator's cancel is treated like a shutdown.
DoCancelledUnrecorded(j) ==
    /\ pc[j] \in {"do", "did"}
    /\ Signalled(j)
    /\ GiveUp(j)
    /\ pc' = [pc EXCEPT ![j] = "exit"]
    /\ UNCHANGED <<db, engine, phase, todo, submit, handler, cont, idx, tries, snap,
                   mem, effects, afterCancel, boots, history>>

\* The operator's cancel interrupts the call: what it did is unknown.
DoCancelled(j) ==
    /\ pc[j] \in {"do", "did"}
    /\ Signalled(j)
    /\ GiveUp(j)
    /\ Finish(j, [mem[j] EXCEPT !.state = "cancelled", !.steps[idx[j]] = "failed"])
    /\ UNCHANGED <<db, ctxDone, phase, closed, returned, todo, submit, handler,
                   idx, effects, afterCancel, boots, history>>

\* The shutdown interrupts it: step and job stay "running", for Resume.
DoInterrupted(j) ==
    /\ pc[j] \in {"do", "did"}
    /\ closed
    /\ GiveUp(j)
    /\ pc' = [pc EXCEPT ![j] = "exit"]
    /\ UNCHANGED <<db, engine, phase, todo, submit, handler, cont, idx, tries,
                   snap, mem, effects, afterCancel, boots, history>>

LateEffect(j, i) ==
    /\ <<j, i>> \in late
    /\ late' = late \ {<<j, i>>}
    /\ effects' = [effects EXCEPT ![j][i] = @ + 1]
    /\ UNCHANGED <<db, engine, phase, todo, submit, handler, run, afterCancel,
                   boots, history>>

\* Mutant: only the ends that are written give the lease back.
ExitKeepsLease(j) ==
    /\ pc[j] = "exit"
    /\ pc' = [pc EXCEPT ![j] = "none"]
    /\ ctxDone' = ctxDone \ {j}
    /\ UNCHANGED <<db, leases, phase, closed, returned, todo, submit, handler, cont,
                   idx, tries, snap, mem, world, boots, history>>

\* The deferred clean-up of start's goroutine.
Exit(j) ==
    /\ pc[j] = "exit"
    /\ pc' = [pc EXCEPT ![j] = "none"]
    /\ ctxDone' = ctxDone \ {j}
    /\ leases' = Released(j)
    /\ UNCHANGED <<db, phase, closed, returned, todo, submit, handler, cont, idx,
                   tries, snap, mem, world, boots, history>>
----------------------------------------------------------------------------
(***************************************************************************)
(* Cancel, from an HTTP handler: read the record, write the flag, signal   *)
(* the context.  A conflict or a disk fault ends it with an error.         *)
(***************************************************************************)
CancelRead(h, j) ==
    /\ Serving
    /\ handler[h].pc = "idle"
    /\ db[j].state \notin Terminal \cup {"absent"}
    /\ handler' = [handler EXCEPT ![h] = [pc |-> "read", job |-> j,
                                          rev |-> db[j].rev, state |-> db[j].state]]
    /\ UNCHANGED <<db, engine, phase, todo, submit, run, world, boots, history>>

\* The copy that was read goes back with the flag, under the revision it had.
\* For a parked job the cancel is the end.
Flagged(r, parked) ==
    [r EXCEPT !.cancel = TRUE, !.rev = @ + 1, !.state = IF parked THEN "cancelled" ELSE @]

CancelWrite(h) ==
    LET j == handler[h].job
        parked == handler[h].state = "parked"
    IN
    /\ handler[h].pc = "read"
    /\ db[j].rev = handler[h].rev
    /\ db' = [db EXCEPT ![j] = Flagged(db[j], parked)]
    /\ shown' = IF parked THEN [shown EXCEPT ![j] = "cancelled"] ELSE shown
    /\ handler' = [handler EXCEPT ![h].pc = "stored"]
    /\ UNCHANGED <<engine, phase, todo, submit, run, world, boots, lost, faulted, faults>>

CancelRefused(h) ==
    LET j == handler[h].job IN
    /\ handler[h].pc = "read"
    /\ \/ /\ db[j].rev # handler[h].rev
          /\ UNCHANGED <<db, history>>
       \/ /\ db[j].rev = handler[h].rev
          /\ DiskFault(j, Flagged(db[j], handler[h].state = "parked"))
          /\ UNCHANGED shown
    /\ handler' = [handler EXCEPT ![h].pc = "over"]
    /\ UNCHANGED <<engine, phase, todo, submit, run, world, boots>>

CancelSignal(h) ==
    LET j == handler[h].job IN
    /\ handler[h].pc = "stored"
    /\ ctxDone' = IF pc[j] # "none" THEN ctxDone \cup {j} ELSE ctxDone
    /\ handler' = [handler EXCEPT ![h].pc = "over"]
    /\ UNCHANGED <<db, leases, phase, closed, returned, todo, submit, run, world,
                   boots, history>>
----------------------------------------------------------------------------
(***************************************************************************)
(* Resume, at every start, before the listener: one pass over the records  *)
(* that are neither terminal nor parked.                                   *)
(***************************************************************************)

Boot ==
    /\ phase = "down"
    /\ boots < MaxBoots
    /\ boots' = boots + 1
    /\ phase' = "resuming"
    /\ todo' = {j \in Jobs : db[j].state \in {"pending", "running"}}
    /\ UNCHANGED <<db, engine, submit, handler, run, world, history>>

Interrupted(j) == db[j].steps[db[j].cur] = "running"

\* What the step's Happened can answer.  "unknown" is an error.
Answers(j, i) ==
    CASE StepKind[j][i] = "read"  -> {"no"}
      [] StepKind[j][i] = "check" -> {"unknown", IF effects[j][i] > 0 THEN "yes" ELSE "no"}
      [] StepKind[j][i] = "off"   -> IF effects[j][i] > 0 THEN {"yes"} ELSE {"yes", "no"}
      [] StepKind[j][i] = "blind" -> {}

\* Where a job goes on, and what its steps then say.
ResumePoints(j) ==
    LET i == db[j].cur
        s == db[j].steps
    IN  IF ~Interrupted(j)
          THEN {[steps |-> s, next |-> IF s[i] \in {"done", "skipped"} THEN i + 1 ELSE i]}
          ELSE {[steps |-> [s EXCEPT ![i] = IF a = "yes" THEN "skipped" ELSE "pending"],
                 next  |-> IF a = "yes" THEN i + 1 ELSE i] : a \in Answers(j, i) \ {"unknown"}}

Park(j, m) ==
    /\ SaveAlone(j, [m EXCEPT !.state = "parked"])
    /\ shown' = [shown EXCEPT ![j] = "parked"]
    /\ UNCHANGED <<leases, run>>

InRecord(j) == [state |-> db[j].state, steps |-> db[j].steps, cur |-> db[j].cur]

\* The kind is unknown to this build, or its builder fails or returns another
\* number of steps: any start can be the start of another build.
ResumeUnbuildable(j) ==
    /\ j \in todo
    /\ todo' = todo \ {j}
    /\ Park(j, InRecord(j))
    /\ UNCHANGED <<ctxDone, phase, closed, returned, submit, handler, world, boots>>

\* Interrupted inside a step that cannot be asked, or that cannot answer.
ResumePark(j) ==
    /\ j \in todo
    /\ Interrupted(j)
    /\ \/ StepKind[j][db[j].cur] = "blind"
       \/ "unknown" \in Answers(j, db[j].cur)
    /\ todo' = todo \ {j}
    /\ Park(j, InRecord(j))
    /\ UNCHANGED <<ctxDone, phase, closed, returned, submit, handler, world, boots>>

ResumeSucceed(j, p) ==
    /\ j \in todo
    /\ p \in ResumePoints(j)
    /\ p.next > NSteps[j]
    /\ todo' = todo \ {j}
    /\ SaveAlone(j, [state |-> "succeeded", steps |-> p.steps, cur |-> db[j].cur])
    /\ UNCHANGED <<engine, phase, submit, handler, run, world, boots, shown>>

\* resumeJob: the lease first, or the job is parked behind its holder.
ResumeJob(j, p) ==
    LET m == [state |-> db[j].state, steps |-> p.steps, cur |-> p.next] IN
    /\ j \in todo
    /\ p \in ResumePoints(j)
    /\ p.next <= NSteps[j]
    /\ todo' = todo \ {j}
    /\ \/ /\ CanAcquire(j)
          /\ leases' = Acquired(j)
          /\ SaveAlone(j, m)
          /\ Register(j, m, p.next, "begin")
          /\ UNCHANGED shown
       \/ /\ ~CanAcquire(j)
          /\ Park(j, m)
    /\ UNCHANGED <<ctxDone, phase, closed, returned, submit, handler, world, boots>>

ResumeReturn ==
    /\ phase = "resuming"
    /\ todo = {}
    /\ phase' = "serving"
    /\ UNCHANGED <<db, engine, todo, submit, handler, run, world, boots, history>>
----------------------------------------------------------------------------
(***************************************************************************)
(* Close, and the end of the process by whatever cause.                    *)
(***************************************************************************)
Close ==
    /\ Serving
    /\ ~closed
    /\ closed' = TRUE
    /\ UNCHANGED <<db, leases, ctxDone, phase, returned, todo, submit, handler,
                   run, world, boots, history>>

\* wg.Wait: only what has been added is waited for.
CloseReturn ==
    /\ closed
    /\ ~returned
    /\ \A j \in Jobs : pc[j] \in {"none", "starting"}
    /\ returned' = TRUE
    /\ UNCHANGED <<db, leases, ctxDone, phase, closed, todo, submit, handler, run,
                   world, boots, history>>

\* kill -9, a power cut, or the return of main.  The hub's topics, the leases
\* and every goroutine go with it.
Crash ==
    /\ phase # "down"
    /\ phase' = "down"
    /\ leases' = [c \in Clusters |-> NoJob]
    /\ ctxDone' = {}
    /\ closed' = FALSE
    /\ returned' = FALSE
    /\ todo' = {}
    /\ submit' = [j \in Jobs |-> IF submit[j] = "idle" THEN "idle" ELSE "over"]
    /\ handler' = [h \in Cancellers |->
                     IF handler[h].pc = "idle" THEN Idle ELSE [Idle EXCEPT !.pc = "over"]]
    /\ pc' = [j \in Jobs |-> "none"]
    /\ cont' = [j \in Jobs |-> "none"]
    /\ idx' = [j \in Jobs |-> 1]
    /\ tries' = [j \in Jobs |-> 0]
    /\ snap' = [j \in Jobs |-> [rev |-> 0, cancel |-> FALSE]]
    /\ mem' = [j \in Jobs |-> NoMem(j)]
    /\ shown' = [j \in Jobs |-> "absent"]
    /\ \E R \in SUBSET InFlight(Jobs) : late' = late \cup R
    /\ UNCHANGED <<db, effects, boots, faults, afterCancel, lost, faulted>>
----------------------------------------------------------------------------
SubmitSteps(j) == SubmitPut(j) \/ SubmitStart(j) \/ SubmitWithdraw(j) \/ Spawn(j)

RunSteps(j) ==
    \/ SaveRead(j) \/ SaveWrite(j) \/ SaveConflict(j) \/ SaveFault(j)
    \/ RunBegin(j) \/ RunSucceed(j) \/ RunStop(j) \/ RunCancelled(j) \/ RunStep(j)
    \/ DoEffect(j) \/ DoReturnOk(j) \/ DoReturnError(j) \/ DoCancelled(j)
    \/ DoInterrupted(j) \/ Exit(j)

CancelSteps(h) ==
    \/ \E j \in Jobs : CancelRead(h, j)
    \/ CancelWrite(h) \/ CancelRefused(h) \/ CancelSignal(h)

ResumeSteps ==
    \/ \E j \in Jobs : ResumeUnbuildable(j) \/ ResumePark(j)
    \/ \E j \in todo : \E p \in ResumePoints(j) : ResumeSucceed(j, p) \/ ResumeJob(j, p)
    \/ ResumeReturn

Next ==
    \/ \E j \in Jobs : SubmitAcquire(j) \/ SubmitSteps(j) \/ RunSteps(j)
    \/ \E j \in Jobs : \E i \in Steps(j) : LateEffect(j, i)
    \/ \E h \in Cancellers : CancelSteps(h)
    \/ Boot \/ ResumeSteps \/ Close \/ CloseReturn \/ Crash

Spec == Init /\ [][Next]_vars

(***************************************************************************)
(* Fairness: a goroutine that can go on is scheduled, and a call of Do     *)
(* returns, because every RPC runs under its method class's deadline.      *)
(* Nothing makes an operator submit or cancel, or the process stop.        *)
(***************************************************************************)
FairSpec ==
    /\ Spec
    /\ \A j \in Jobs : WF_vars(SubmitSteps(j)) /\ WF_vars(RunSteps(j))
    /\ WF_vars(ResumeSteps)
----------------------------------------------------------------------------
\* Where the goroutine is in its loop.
Targets == {"none", "boundary", "do", "exit"}
Saving(j) == pc[j] \in {"saveRead", "saveWrite"}
InStep(j) == pc[j] \in {"do", "did"}
AtStep(j) == InStep(j) \/ (Saving(j) /\ cont[j] = "do")

MemType(j) == [state : JobState, steps : [Steps(j) -> StepState], cur : Steps(j)]
RecordType(j) == [state : JobState, steps : [Steps(j) -> StepState], cur : Steps(j),
                  cancel : BOOLEAN, rev : Nat]
HandlerType == [pc : {"idle", "read", "stored", "over"}, job : Jobs \cup {NoJob},
                rev : Nat, state : JobState]

StoreType == DOMAIN db = Jobs /\ \A j \in Jobs : db[j] \in RecordType(j)

EngineType ==
    /\ leases \in [Clusters -> Jobs \cup {NoJob}]
    /\ ctxDone \subseteq Jobs
    /\ phase \in {"down", "resuming", "serving"}
    /\ closed \in BOOLEAN
    /\ returned \in BOOLEAN
    /\ todo \subseteq Jobs

CallType ==
    /\ submit \in [Jobs -> {"idle", "leased", "stored", "over"}]
    /\ handler \in [Cancellers -> HandlerType]
    /\ \A h \in Cancellers : handler[h].pc \in {"read", "stored"} => handler[h].job \in Jobs

RunType ==
    /\ pc \in [Jobs -> PC]
    /\ cont \in [Jobs -> Targets]
    /\ tries \in [Jobs -> {0, 1}]
    /\ snap \in [Jobs -> [rev : Nat, cancel : BOOLEAN]]
    /\ DOMAIN idx = Jobs /\ \A j \in Jobs : idx[j] \in 1 .. NSteps[j] + 1
    /\ DOMAIN mem = Jobs /\ \A j \in Jobs : mem[j] \in MemType(j)
    \* Inside a step the position is a step of the list.
    /\ \A j \in Jobs : AtStep(j) => idx[j] <= NSteps[j]

WorldType ==
    /\ DOMAIN effects = Jobs /\ \A j \in Jobs : effects[j] \in [Steps(j) -> Nat]
    /\ \A x \in late : \E j \in Jobs : \E i \in Steps(j) : x = <<j, i>>
    /\ afterCancel \in [Jobs -> Nat]

HistoryType ==
    /\ shown \in [Jobs -> JobState]
    /\ lost \subseteq Jobs
    /\ faulted \subseteq Jobs
    /\ faults \in Nat
    /\ boots \in Nat

\* Every variable keeps its type; in particular no position leaves the step
\* list, so Resume never meets a record "outside its own step list" and run
\* never indexes past the end.
TypeOK ==
    StoreType /\ EngineType /\ CallType /\ RunType /\ WorldType /\ HistoryType

\* Two jobs of one cluster are never inside a step at the same time (JOB-03),
\* although a job gives its lease back before its end is written.
OneJobPerCluster ==
    \A j, k \in Jobs :
        (j # k /\ ClusterOf[j] = ClusterOf[k] /\ ClusterOf[j] # NoCluster)
            => ~(InStep(j) /\ InStep(k))

\* A lease is held only by a job somebody is still working on: a Submit call in
\* progress or a live goroutine.  A leaked lease refuses every later job of the
\* cluster with ErrClusterBusy until a restart.
LeaseHeldByLiveJob ==
    \A c \in Clusters : leases[c] # NoJob =>
        (pc[leases[c]] # "none" \/ submit[leases[c]] \in {"leased", "stored"})

\* The promise the engine exists for: a step's side effect happens at most once
\* however often the process dies (jobs.go:3), as long as the disk accepts the
\* progress records and a request does not outlive the call that sent it.
NoDoubledEffect ==
    \A j \in Jobs \ faulted : \A i \in Steps(j) : effects[j][i] <= 1

Reliable == {"check", "blind"}

\* Once a cancel is stored, at most the step already begun takes effect: the
\* flag survives the restart and the boundary reads it before the next step.
CancelIsPrompt == \A j \in Jobs \ faulted : afterCancel[j] <= 1

\* No step, of any actor, takes a job out of a terminal state.
TerminalIsFinal ==
    [][\A j \in Jobs : db[j].state \in Terminal => db'[j].state = db[j].state]_vars

\* A stored cancel is never overwritten by a concurrent progress record.
CancelSticks ==
    [][\A j \in Jobs : (db[j].cancel /\ db'[j].state # "absent") => db'[j].cancel]_vars

\* A job that was accepted comes to an end or waits for a person, unless the
\* process stops or its end could not be recorded.
JobsEnd ==
    \A j \in Jobs :
        (db[j].state \in {"pending", "running"})
            ~> (\/ db[j].state \notin {"pending", "running"}
                \/ phase = "down" \/ closed
                \/ j \in lost \cup faulted)

\* The engine implements the contract of a job.
Contract == INSTANCE JobContract WITH
    Certain   <- [j \in Jobs |-> {i \in Steps(j) : StepKind[j][i] \in Reliable}],
    status    <- [j \in Jobs |-> db[j].state],
    cancelled <- {j \in Jobs : db[j].cancel},
    overrun   <- afterCancel

\* Through every interleaving, crash and restart a job's record and its effects
\* move only as JobContract allows.
ImplementsContract == Contract!Spec
============================================================================
