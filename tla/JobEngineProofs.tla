--------------------------- MODULE JobEngineProofs ---------------------------
(***************************************************************************)
(* Proofs about the job engine, for any number of jobs, clusters, steps,   *)
(* cancellers, restarts and disk faults.                                   *)
(*                                                                         *)
(* TypeOK is inductive as it stands.  OneJobPerCluster and                 *)
(* LeaseHeldByLiveJob follow from LeaseInv, which needs LifecycleInv.      *)
(* NoDoubledEffect follows from RecordAheadOfWorld, which needs the other  *)
(* three.  TerminalIsFinal and CancelSticks follow from StoreInv, and      *)
(* CancelIsPrompt from PromptInv on top of it.  That the engine implements *)
(* JobContract needs ContractInv and all of the above: one lemma for each  *)
(* kind of step of the contract, one for the stutters.                     *)
(***************************************************************************)
EXTENDS JobEngine, TLAPS

Submitting(j) == submit[j] \in {"leased", "stored"}

\* Who may touch a job when: Resume only what nobody runs, a goroutine only
\* after Submit or Resume has handed the job over, handlers only while serving.
LifecycleInv ==
    /\ todo # {} => phase = "resuming"
    /\ phase = "down" => \A j \in Jobs : pc[j] = "none"
    /\ \A j \in todo : /\ pc[j] = "none" /\ submit[j] = "over"
                       /\ db[j].state \in {"pending", "running"}
    /\ \A j \in Jobs : Submitting(j) => phase = "serving"
    /\ \A j \in Jobs : submit[j] # "over" => pc[j] = "none"
    /\ \A j \in Jobs : submit[j] \in {"idle", "leased"} => db[j].state = "absent"
    /\ \A h \in Cancellers : handler[h].pc \in {"read", "stored"} =>
           phase = "serving" /\ submit[handler[h].job] \in {"stored", "over"}

\* The goroutine has not yet given its lease back.
Holding(j) ==
    \/ pc[j] \in {"starting", "begin", "boundary", "do", "did"}
    \/ Saving(j) /\ cont[j] \in {"boundary", "do"}

\* Whoever may run a step, or will once its Submit goes on, holds its
\* cluster's lease, and a lease names a live job of its own cluster.
LeaseInv ==
    /\ \A j \in Jobs : (Holding(j) \/ Submitting(j)) =>
           (ClusterOf[j] = NoCluster \/ leases[ClusterOf[j]] = j)
    /\ \A c \in Clusters : leases[c] # NoJob =>
           /\ ClusterOf[leases[c]] = c
           /\ pc[leases[c]] # "none" \/ Submitting(leases[c])
    /\ \A j \in Jobs : Saving(j) => cont[j] \in {"boundary", "do", "exit"}

\* No step from i on has taken effect.
Clean(j, i) == \A k \in Steps(j) : k >= i => effects[j][k] = 0

\* A record, stored or in memory, from which a restart goes on safely.
SafeRecord(j, r) ==
    r.state \in {"pending", "running"} =>
        /\ r.steps[r.cur] # "failed"
        /\ \A k \in Steps(j) : k > r.cur => r.steps[k] = "pending"
        /\ db[j].cancel \/ (/\ Clean(j, r.cur + 1)
                            /\ r.steps[r.cur] = "pending" => Clean(j, r.cur))

\* Where the goroutine is in its loop, and what its copy of the record says.
AtBoundary(j) ==
    \/ pc[j] \in {"starting", "begin", "boundary"}
    \/ Saving(j) /\ cont[j] = "boundary"

BoundaryInv(j) ==
    AtBoundary(j) =>
        /\ mem[j].state \in {"pending", "running"}
        /\ pc[j] \notin {"starting", "begin"} => mem[j].state = "running"
        /\ db[j].cancel \/ Clean(j, idx[j])
        /\ \/ mem[j].cur = idx[j] /\ mem[j].steps[idx[j]] = "pending"
           \/ mem[j].cur + 1 = idx[j] /\ mem[j].steps[mem[j].cur] = "done"

StepInv(j) ==
    AtStep(j) =>
        /\ mem[j].state = "running"
        /\ mem[j].cur = idx[j]
        /\ mem[j].steps[idx[j]] = "running"
        /\ Clean(j, IF pc[j] = "did" THEN idx[j] + 1 ELSE idx[j])
        /\ InStep(j) => \/ db[j].cancel
                        \/ db[j].cur = idx[j] /\ db[j].steps[idx[j]] = "running"

\* Between the Get and the Put only a cancel comes, and it bumps the revision.
SaveInv(j) ==
    pc[j] = "saveWrite" =>
        /\ snap[j].rev <= db[j].rev
        /\ IF snap[j].rev = db[j].rev THEN snap[j].cancel = db[j].cancel
                                      ELSE db[j].cancel

\* Before its goroutine starts nothing of a job has happened.
FreshInv(j) == submit[j] # "over" => Clean(j, 1)

\* A step has happened at most once, and a step that only reads never.
OnceInv(j) ==
    \A i \in Steps(j) : effects[j][i] <= 1 /\ (StepKind[j][i] = "read" => effects[j][i] = 0)

StoredInv(j) == SafeRecord(j, db[j])
HeldInv(j) == pc[j] # "none" => SafeRecord(j, mem[j])

EffectInv(j) ==
    j \notin faulted =>
        /\ OnceInv(j) /\ StoredInv(j) /\ HeldInv(j)
        /\ BoundaryInv(j) /\ StepInv(j) /\ SaveInv(j) /\ FreshInv(j)

\* What keeps a side effect from happening twice: the record on disk is never
\* behind the world by more than the step it says is running, unless a stored
\* cancel already forbids every further step.
RecordAheadOfWorld == late = {} /\ \A j \in Jobs : EffectInv(j)

----------------------------------------------------------------------------
(***************************************************************************)
(* What a record on disk says of the goroutine that works on it.  None of  *)
(* this depends on the disk or on requests that outlive their call.        *)
(***************************************************************************)
Open == {"pending", "running"}

\* Somebody still works on the record: it is open, and the copy a save will
\* write is open too unless the save is the last one.
RecordInv(j) ==
    /\ db[j].state = "absent" <=> db[j].rev = 0
    /\ submit[j] \in {"idle", "leased"} => ~db[j].cancel
    /\ submit[j] = "stored" => db[j].state = "pending"
    /\ pc[j] \notin {"none", "exit"} => db[j].state \in Open
    /\ pc[j] = "exit" => db[j].state # "absent"
    /\ AtBoundary(j) /\ ~Saving(j) => mem[j].state \in Open
    /\ AtStep(j) \/ pc[j] = "boundary" => mem[j].state = "running"
    /\ Saving(j) => IF cont[j] = "exit" THEN mem[j].state \in Terminal
                                        ELSE mem[j].state = "running"
    /\ SaveInv(j)
    /\ j \in ctxDone => pc[j] # "none" /\ db[j].cancel

\* A handler that read a record either still holds what is stored or has an
\* older revision; one that stored its flag finds it there.  The exception is
\* a submission that was withdrawn meanwhile.
HandlerInv(h) ==
    LET r == db[handler[h].job] IN
    /\ handler[h].pc = "read" =>
           /\ handler[h].rev >= 1
           /\ handler[h].state \in Open \cup {"parked"}
           /\ \/ r.state = "absent"
              \/ handler[h].rev <= r.rev /\ (handler[h].rev = r.rev => handler[h].state = r.state)
    /\ handler[h].pc = "stored" => r.cancel \/ r.state = "absent"

StoreInv == (\A j \in Jobs : RecordInv(j)) /\ (\A h \in Cancellers : HandlerInv(h))

\* After a stored cancel one effect at most, and none is left to come.
PromptInv(j) ==
    j \notin faulted =>
        /\ afterCancel[j] <= 1
        /\ afterCancel[j] = 1 => db[j].cancel /\ ~(AtStep(j) /\ pc[j] # "did")
        /\ submit[j] # "over" => afterCancel[j] = 0

\* The steps whose effect is known to have happened once they are passed.
Sure(j) == {i \in Steps(j) : StepKind[j][i] \in Reliable}
Passed(j, r) == {i \in Steps(j) : i < r.cur \/ (i = r.cur /\ r.steps[i] \in {"done", "skipped"})}

\* What a record calls passed has happened, a step runs under a record that says
\* so, and the end that is being saved is the true one.
ProgressInv(j) ==
    /\ \A i \in Sure(j) \cap Passed(j, db[j]) : effects[j][i] = 1
    /\ pc[j] # "none" => \A i \in Sure(j) \cap Passed(j, mem[j]) : effects[j][i] = 1
    /\ pc[j] = "did" => effects[j][idx[j]] = 1
    /\ AtStep(j) => db[j].state = "running"
    /\ pc[j] = "boundary" => db[j].state = "running" \/ db[j].cancel
    /\ Saving(j) /\ cont[j] = "exit" =>
           /\ mem[j].state = "succeeded" => \A i \in Sure(j) : effects[j][i] = 1
           /\ mem[j].state = "cancelled" => db[j].cancel

\* The inductive invariant behind the refinement of JobContract.
ContractInv == faulted = {} /\ \A j \in Jobs : ProgressInv(j)
-----------------------------------------------------------------------------

\* The literal states are states, and a step list is never empty.
LEMMA StateNames ==
  /\ {"absent", "pending", "running", "parked", "succeeded", "failed", "cancelled"} \subseteq JobState
  /\ {"pending", "running", "done", "failed", "skipped"} \subseteq StepState
  /\ \A j \in Jobs : 
         /\ 1 \in Steps(j) /\ NSteps[j] \in Steps(j) /\ NSteps[j] \in Nat
         /\ 1 \in 1 .. NSteps[j] + 1
  BY JobsAssumption DEF JobState, StepState, Terminal, Steps

\* acquire and release leave a lease table: every cluster names a job or nobody.
LEMMA LeaseTypes ==
  ASSUME NEW j \in Jobs, EngineType
  PROVE  /\ Acquired(j) \in [Clusters -> Jobs \cup {NoJob}]
         /\ Released(j) \in [Clusters -> Jobs \cup {NoJob}]
  BY JobsAssumption DEF EngineType, Acquired, Released

\* The records Submit, start and a restart begin with are well-typed.
LEMMA BlankTypes ==
  ASSUME NEW j \in Jobs
  PROVE  /\ Blank(j) \in RecordType(j)
         /\ FirstRecord(j) \in RecordType(j)
         /\ NoMem(j) \in MemType(j)
         /\ [state |-> "pending", steps |-> Blank(j).steps, cur |-> 1] \in MemType(j)
  <1>1. [i \in Steps(j) |-> "pending"] \in [Steps(j) -> StepState]
    BY DEF StepState
  <1>2. 1 \in Steps(j) /\ "absent" \in JobState /\ "pending" \in JobState
    BY StateNames
  <1>3. QED BY <1>1, <1>2 DEF Blank, FirstRecord, NoMem, RecordType, MemType

\* What save writes is a record of the job.
LEMMA MergeTypes ==
  ASSUME NEW j \in Jobs, NEW m \in MemType(j), NEW r, r.cancel \in BOOLEAN, r.rev \in Nat
  PROVE  Merge(r, m) \in RecordType(j)
  BY DEF Merge, MemType, RecordType

\* The fields of a record, and the record Cancel writes back.
LEMMA RecordTypes ==
  ASSUME NEW j \in Jobs, NEW r \in RecordType(j)
  PROVE  /\ r.rev \in Nat /\ r.cancel \in BOOLEAN
         /\ r.state \in JobState /\ r.cur \in Steps(j)
         /\ r.steps \in [Steps(j) -> StepState]
         /\ \A parked \in BOOLEAN : Flagged(r, parked) \in RecordType(j)
  <1>1. r.rev + 1 \in Nat
    BY DEF RecordType
  <1>2. QED BY <1>1, StateNames DEF RecordType, Flagged

\* The changes run makes to its copy of the record keep its type.
LEMMA MemTypes ==
  ASSUME NEW j \in Jobs, NEW m \in MemType(j), NEW s \in JobState,
         NEW i \in Steps(j), NEW t \in StepState
  PROVE  /\ m.state \in JobState /\ m.cur \in Steps(j)
         /\ m.steps \in [Steps(j) -> StepState]
         /\ [m EXCEPT !.state = s] \in MemType(j)
         /\ [m EXCEPT !.state = s, !.cur = i] \in MemType(j)
         /\ [m EXCEPT !.cur = i, !.steps[i] = t] \in MemType(j)
         /\ [m EXCEPT !.steps[i] = t] \in MemType(j)
         /\ [m EXCEPT !.state = s, !.steps[i] = t] \in MemType(j)
  BY DEF MemType

\* A refused write leaves well-typed records, whether or not it landed.
LEMMA DiskFaultTypes ==
  ASSUME NEW j \in Jobs, StoreType, HistoryType, NEW r \in RecordType(j), DiskFault(j, r),
         shown' \in [Jobs -> JobState], boots' = boots
  PROVE  StoreType' /\ HistoryType'
  BY DEF StoreType, HistoryType, DiskFault

\* Entering a save keeps the goroutine's state well-typed.
LEMMA SaveThenTypes ==
  ASSUME NEW j \in Jobs, RunType, NEW m \in MemType(j), NEW next \in Targets,
         SaveThen(j, m, next),
         DOMAIN idx' = Jobs, idx'[j] \in 1 .. NSteps[j] + 1,
         \A k \in Jobs \ {j} : idx'[k] = idx[k],
         next = "do" => idx'[j] <= NSteps[j]
  PROVE  RunType'
  BY DEF RunType, SaveThen, PC, Targets, AtStep, InStep, Saving

\* The goroutine moves on and leaves everything else it owns alone.
LEMMA MoveTypes ==
  ASSUME NEW j \in Jobs, RunType, NEW p \in PC, pc' = [pc EXCEPT ![j] = p],
         p \in {"saveRead", "saveWrite"} => Saving(j),
         p \in {"do", "did"} => AtStep(j),
         UNCHANGED <<cont, idx, mem>>,
         tries' \in [Jobs -> {0, 1}], snap' \in [Jobs -> [rev : Nat, cancel : BOOLEAN]]
  PROVE  RunType'
  BY DEF RunType, PC, Targets, AtStep, InStep, Saving

\* A call that gives up leaves behind only requests of real steps.
LEMMA GiveUpTypes ==
  ASSUME NEW j \in Jobs, RunType, WorldType, GiveUp(j), UNCHANGED <<effects, afterCancel>>
  PROVE  WorldType'
  <1>1. \A k \in Jobs : pc[k] = "do" => idx[k] \in Steps(k)
    BY JobsAssumption DEF RunType, AtStep, InStep, Steps
  <1>2. \A x \in InFlight({j}) : \E k \in Jobs : \E i \in Steps(k) : x = <<k, i>>
    BY <1>1 DEF InFlight
  <1>3. QED BY <1>2 DEF WorldType, GiveUp

\* start registers a well-typed goroutine.
LEMMA RegisterTypes ==
  ASSUME NEW j \in Jobs, RunType, NEW m \in MemType(j), NEW i \in 1 .. NSteps[j] + 1,
         NEW p \in {"starting", "begin"}, Register(j, m, i, p)
  PROVE  RunType'
  BY DEF RunType, Register, PC, AtStep, InStep, Saving

\* Inside a step the loop variable is a step of the list.
LEMMA StepPosition ==
  ASSUME NEW j \in Jobs, RunType, AtStep(j)
  PROVE  idx[j] \in Steps(j)
  BY JobsAssumption DEF RunType, Steps

\* The save of Resume keeps the store well-typed.
LEMMA SaveAloneTypes ==
  ASSUME NEW j \in Jobs, StoreType, HistoryType, NEW m \in MemType(j), SaveAlone(j, m),
         shown' \in [Jobs -> JobState], boots' = boots
  PROVE  StoreType' /\ HistoryType'
  <1> db[j].cancel \in BOOLEAN /\ db[j].rev \in Nat
    BY RecordTypes, StateNames DEF StoreType
  <1>1. Merge(db[j], m) \in RecordType(j)
    BY MergeTypes
  <1>2. CASE DiskFault(j, Merge(db[j], m))
    BY <1>1, <1>2, DiskFaultTypes
  <1>3. CASE ~DiskFault(j, Merge(db[j], m))
    BY <1>1, <1>3 DEF SaveAlone, StoreType, HistoryType
  <1>4. QED BY <1>2, <1>3

\* park keeps the store well-typed and touches neither leases nor goroutines.
LEMMA ParkTypes ==
  ASSUME NEW j \in Jobs, StoreType, EngineType, RunType, HistoryType,
         NEW m \in MemType(j), Park(j, m), boots' = boots
  PROVE  StoreType' /\ HistoryType' /\ RunType' /\ leases' = leases
  <1>1. [m EXCEPT !.state = "parked"] \in MemType(j)
    BY MemTypes, StateNames
  <1>2. shown' \in [Jobs -> JobState]
    BY StateNames DEF Park, HistoryType
  <1>3. StoreType' /\ HistoryType'
    BY <1>1, <1>2, SaveAloneTypes DEF Park
  <1>4. RunType' /\ leases' = leases
    BY DEF Park, run, RunType, AtStep, InStep, Saving
  <1>5. QED BY <1>3, <1>4

\* Where Resume goes on is a step of the list or just past its end.
LEMMA ResumePointTypes ==
  ASSUME NEW j \in Jobs, StoreType, NEW p \in ResumePoints(j), NEW s \in JobState
  PROVE  /\ p.next \in 1 .. NSteps[j] + 1
         /\ [state |-> s, steps |-> p.steps, cur |-> db[j].cur] \in MemType(j)
         /\ p.next <= NSteps[j] =>
              [state |-> s, steps |-> p.steps, cur |-> p.next] \in MemType(j)
  <1>1. /\ db[j].cur \in 1 .. NSteps[j]
        /\ db[j].steps \in [1 .. NSteps[j] -> StepState]
        /\ NSteps[j] \in Nat
    BY RecordTypes, StateNames DEF StoreType, Steps
  <1>2. p.steps \in [1 .. NSteps[j] -> StepState] /\ p.next \in {db[j].cur, db[j].cur + 1}
    BY SMTT(30), <1>1, StateNames DEF ResumePoints
  <1>3. QED BY <1>1, <1>2 DEF MemType, Steps

\* The engine's part of a stored record is well-typed.
LEMMA InRecordTypes ==
  ASSUME NEW j \in Jobs, StoreType
  PROVE  InRecord(j) \in MemType(j)
  BY RecordTypes, StateNames DEF StoreType, InRecord, MemType

\* Every step of every actor keeps the types.
LEMMA TypeNext == TypeOK /\ [Next]_vars => TypeOK'
  <1> SUFFICES ASSUME TypeOK, [Next]_vars PROVE TypeOK'
    OBVIOUS
  <1> USE StateNames
  <1>1. ASSUME NEW j \in Jobs, SubmitAcquire(j) PROVE TypeOK'
    <2> USE <1>1 DEF TypeOK, SubmitAcquire, engine, run, world, history
    <2>1. StoreType'
      BY DEF StoreType
    <2>2. EngineType'
      BY LeaseTypes DEF EngineType
    <2>3. CallType'
      BY DEF CallType
    <2>4. RunType'
      BY DEF RunType, AtStep, InStep, Saving
    <2>5. WorldType'
      BY DEF WorldType
    <2>6. HistoryType'
      BY DEF HistoryType
    <2>7. QED BY <2>1, <2>2, <2>3, <2>4, <2>5, <2>6
  <1>2. ASSUME NEW j \in Jobs, SubmitPut(j) PROVE TypeOK'
    <2> USE <1>2 DEF TypeOK, SubmitPut, engine, run, world, history
    <2>1. StoreType'
      BY BlankTypes DEF StoreType, DiskFault
    <2>2. EngineType'
      BY LeaseTypes DEF EngineType
    <2>3. CallType'
      BY DEF CallType
    <2>4. RunType'
      BY DEF RunType, AtStep, InStep, Saving
    <2>5. WorldType'
      BY DEF WorldType
    <2>6. HistoryType'
      BY DEF HistoryType, DiskFault
    <2>7. QED BY <2>1, <2>2, <2>3, <2>4, <2>5, <2>6
  <1>3. ASSUME NEW j \in Jobs, SubmitStart(j) PROVE TypeOK'
    <2> USE <1>3 DEF TypeOK, SubmitStart, engine, run, world, history
    <2>1. StoreType'
      BY DEF StoreType
    <2>2. EngineType'
      BY DEF EngineType
    <2>3. CallType'
      BY DEF CallType
    <2>4. RunType'
      <3>1. [state |-> "pending", steps |-> Blank(j).steps, cur |-> 1] \in MemType(j)
        BY BlankTypes
      <3>2. 1 \in 1 .. NSteps[j] + 1
        BY DEF Steps
      <3>3. QED BY <3>1, <3>2, RegisterTypes
    <2>5. WorldType'
      BY DEF WorldType
    <2>6. HistoryType'
      BY DEF HistoryType
    <2>7. QED BY <2>1, <2>2, <2>3, <2>4, <2>5, <2>6
  <1>4. ASSUME NEW j \in Jobs, SubmitWithdraw(j) PROVE TypeOK'
    <2> USE <1>4 DEF TypeOK, SubmitWithdraw, engine, run, world, history
    <2>1. StoreType'
      BY BlankTypes DEF StoreType, DiskFault
    <2>2. EngineType'
      BY LeaseTypes DEF EngineType
    <2>3. CallType'
      BY DEF CallType
    <2>4. RunType'
      BY DEF RunType, AtStep, InStep, Saving
    <2>5. WorldType'
      BY DEF WorldType
    <2>6. HistoryType'
      BY DEF HistoryType, DiskFault
    <2>7. QED BY <2>1, <2>2, <2>3, <2>4, <2>5, <2>6
  <1>5. ASSUME NEW j \in Jobs, Spawn(j) PROVE TypeOK'
    <2> USE <1>5 DEF TypeOK, Spawn, engine, run, world, history
    <2>1. StoreType'
      BY DEF StoreType
    <2>2. EngineType'
      BY DEF EngineType
    <2>3. CallType'
      BY DEF CallType
    <2>4. RunType'
      BY MoveTypes DEF RunType, PC
    <2>5. WorldType'
      BY DEF WorldType
    <2>6. HistoryType'
      BY DEF HistoryType
    <2>7. QED BY <2>1, <2>2, <2>3, <2>4, <2>5, <2>6
  <1>6. ASSUME NEW j \in Jobs, SaveRead(j) PROVE TypeOK'
    <2> USE <1>6 DEF TypeOK, SaveRead, engine, run, world, history
    <2>1. StoreType'
      BY DEF StoreType
    <2>2. EngineType'
      BY DEF EngineType
    <2>3. CallType'
      BY DEF CallType
    <2>4. RunType'
      BY MoveTypes, RecordTypes DEF RunType, PC, StoreType, Saving
    <2>5. WorldType'
      BY DEF WorldType
    <2>6. HistoryType'
      BY DEF HistoryType
    <2>7. QED BY <2>1, <2>2, <2>3, <2>4, <2>5, <2>6
  <1>7. ASSUME NEW j \in Jobs, SaveWrite(j) PROVE TypeOK'
    <2> USE <1>7 DEF TypeOK, SaveWrite, SaveOver, engine, run, world, history
    <2>1. StoreType'
      BY MergeTypes DEF StoreType, RunType
    <2>2. EngineType'
      BY DEF EngineType
    <2>3. CallType'
      BY DEF CallType
    <2>4. RunType'
      BY MoveTypes DEF RunType, PC, Targets, AtStep, Saving
    <2>5. WorldType'
      BY DEF WorldType
    <2>6. HistoryType'
      BY MemTypes DEF HistoryType, RunType
    <2>7. QED BY <2>1, <2>2, <2>3, <2>4, <2>5, <2>6
  <1>8. ASSUME NEW j \in Jobs, SaveConflict(j) PROVE TypeOK'
    <2> USE <1>8 DEF TypeOK, SaveConflict, engine, run, world, history
    <2>1. StoreType'
      BY DEF StoreType
    <2>2. EngineType'
      BY DEF EngineType
    <2>3. CallType'
      BY DEF CallType
    <2>4. RunType'
      <3>1. CASE tries[j] = 0
        BY <3>1, MoveTypes DEF RunType, PC, Saving
      <3>2. CASE tries[j] = 1
        <4>1. cont[j] \in PC /\ pc' = [pc EXCEPT ![j] = cont[j]] /\ UNCHANGED <<tries, snap>>
          BY <3>2 DEF RunType, PC, Targets, SaveOver
        <4>2. cont[j] \in {"do", "did", "saveRead", "saveWrite"} => AtStep(j) /\ cont[j] = "do"
          BY DEF RunType, Targets, AtStep, Saving
        <4>3. QED BY <4>1, <4>2, MoveTypes DEF RunType
      <3>3. QED BY <3>1, <3>2 DEF RunType
    <2>5. WorldType'
      BY DEF WorldType
    <2>6. HistoryType'
      <3>1. mem[j].state \in JobState
        BY DEF RunType, MemType
      <3>2. QED BY <3>1 DEF HistoryType, SaveOver
    <2>7. QED BY <2>1, <2>2, <2>3, <2>4, <2>5, <2>6
  <1>9. ASSUME NEW j \in Jobs, SaveFault(j) PROVE TypeOK'
    <2> USE <1>9 DEF TypeOK, SaveFault, SaveOver, engine, run, world, history
    <2>1. StoreType'
      <3>1. Merge(snap[j], mem[j]) \in RecordType(j)
        BY MergeTypes DEF RunType
      <3>2. PICK r \in RecordType(j) : DiskFault(j, r)
        BY <3>1 DEF StoreType
      <3>3. QED BY <3>2 DEF DiskFault, StoreType
    <2>2. EngineType'
      BY DEF EngineType
    <2>3. CallType'
      BY DEF CallType
    <2>4. RunType'
      BY MoveTypes DEF RunType, PC, Targets, AtStep, Saving
    <2>5. WorldType'
      BY DEF WorldType
    <2>6. HistoryType'
      <3>1. mem[j].state \in JobState
        BY DEF RunType, MemType
      <3>2. QED BY <3>1 DEF HistoryType, DiskFault
    <2>7. QED BY <2>1, <2>2, <2>3, <2>4, <2>5, <2>6
  <1>10. ASSUME NEW j \in Jobs, RunBegin(j) PROVE TypeOK'
    <2> USE <1>10 DEF TypeOK, RunBegin, engine, run, world, history
    <2>1. StoreType'
      BY DEF StoreType
    <2>2. EngineType'
      BY DEF EngineType
    <2>3. CallType'
      BY DEF CallType
    <2>4. RunType'
      BY SaveThenTypes, MemTypes DEF RunType, Targets
    <2>5. WorldType'
      BY DEF WorldType
    <2>6. HistoryType'
      BY DEF HistoryType
    <2>7. QED BY <2>1, <2>2, <2>3, <2>4, <2>5, <2>6
  <1>11. ASSUME NEW j \in Jobs, RunSucceed(j) PROVE TypeOK'
    <2> USE <1>11 DEF TypeOK, RunSucceed, Finish, engine, run, world, history
    <2>1. StoreType'
      BY DEF StoreType
    <2>2. EngineType'
      BY LeaseTypes DEF EngineType
    <2>3. CallType'
      BY DEF CallType
    <2>4. RunType'
      BY SaveThenTypes, MemTypes DEF RunType, Targets
    <2>5. WorldType'
      BY DEF WorldType
    <2>6. HistoryType'
      BY DEF HistoryType
    <2>7. QED BY <2>1, <2>2, <2>3, <2>4, <2>5, <2>6
  <1>12. ASSUME NEW j \in Jobs, RunStop(j) PROVE TypeOK'
    <2> USE <1>12 DEF TypeOK, RunStop, engine, run, world, history
    <2>1. StoreType'
      BY DEF StoreType
    <2>2. EngineType'
      BY DEF EngineType
    <2>3. CallType'
      BY DEF CallType
    <2>4. RunType'
      BY MoveTypes DEF RunType, PC
    <2>5. WorldType'
      BY DEF WorldType
    <2>6. HistoryType'
      BY DEF HistoryType
    <2>7. QED BY <2>1, <2>2, <2>3, <2>4, <2>5, <2>6
  <1>13. ASSUME NEW j \in Jobs, RunCancelled(j) PROVE TypeOK'
    <2> USE <1>13 DEF TypeOK, RunCancelled, Finish, engine, run, world, history
    <2>1. StoreType'
      BY DEF StoreType
    <2>2. EngineType'
      BY LeaseTypes DEF EngineType
    <2>3. CallType'
      BY DEF CallType
    <2>4. RunType'
      BY SaveThenTypes, MemTypes DEF RunType, Targets
    <2>5. WorldType'
      BY DEF WorldType
    <2>6. HistoryType'
      BY DEF HistoryType
    <2>7. QED BY <2>1, <2>2, <2>3, <2>4, <2>5, <2>6
  <1>14. ASSUME NEW j \in Jobs, RunStep(j) PROVE TypeOK'
    <2> USE <1>14 DEF TypeOK, RunStep, engine, run, world, history
    <2>1. StoreType'
      BY DEF StoreType, DiskFault
    <2>2. EngineType'
      BY DEF EngineType
    <2>3. CallType'
      BY DEF CallType
    <2>4. RunType'
      <3>1. idx[j] \in Steps(j)
        BY DEF RunType, Steps
      <3>2. [mem[j] EXCEPT !.cur = idx[j], !.steps[idx[j]] = "running"] \in MemType(j)
        BY <3>1, MemTypes DEF RunType
      <3>3. QED BY <3>2, SaveThenTypes DEF RunType, Targets
    <2>5. WorldType'
      BY DEF WorldType
    <2>6. HistoryType'
      BY DEF HistoryType, DiskFault
    <2>7. QED BY <2>1, <2>2, <2>3, <2>4, <2>5, <2>6
  <1>15. ASSUME NEW j \in Jobs, DoEffect(j) PROVE TypeOK'
    <2> USE <1>15 DEF TypeOK, DoEffect, engine, run, world, history
    <2>1. StoreType'
      BY DEF StoreType
    <2>2. EngineType'
      BY DEF EngineType
    <2>3. CallType'
      BY DEF CallType
    <2>4. RunType'
      BY MoveTypes DEF RunType, PC, AtStep, InStep
    <2>5. WorldType'
      BY SMTT(30) DEF WorldType, RunType, AtStep, InStep, Steps
    <2>6. HistoryType'
      BY DEF HistoryType
    <2>7. QED BY <2>1, <2>2, <2>3, <2>4, <2>5, <2>6
  <1>16. ASSUME NEW j \in Jobs, DoReturnOk(j) PROVE TypeOK'
    <2> USE <1>16 DEF TypeOK, DoReturnOk, engine, run, world, history
    <2>1. StoreType'
      BY DEF StoreType
    <2>2. EngineType'
      BY DEF EngineType
    <2>3. CallType'
      BY DEF CallType
    <2>4. RunType'
      <3>1. idx[j] \in Steps(j)
        BY StepPosition DEF AtStep, InStep
      <3>2. [mem[j] EXCEPT !.steps[idx[j]] = "done"] \in MemType(j)
        BY <3>1, MemTypes DEF RunType
      <3>3. DOMAIN idx' = Jobs /\ idx'[j] = idx[j] + 1 /\ \A k \in Jobs \ {j} : idx'[k] = idx[k]
        BY DEF RunType
      <3>4. idx'[j] \in 1 .. NSteps[j] + 1
        BY <3>1, <3>3 DEF Steps
      <3>5. QED BY <3>2, <3>3, <3>4, SaveThenTypes DEF Targets
    <2>5. WorldType'
      BY DEF WorldType
    <2>6. HistoryType'
      BY DEF HistoryType
    <2>7. QED BY <2>1, <2>2, <2>3, <2>4, <2>5, <2>6
  <1>17. ASSUME NEW j \in Jobs, DoReturnError(j) PROVE TypeOK'
    <2> USE <1>17 DEF TypeOK, DoReturnError, Finish, engine, run, world, history
    <2>1. StoreType'
      BY DEF StoreType
    <2>2. EngineType'
      BY LeaseTypes DEF EngineType
    <2>3. CallType'
      BY DEF CallType
    <2>4. RunType'
      <3>1. idx[j] \in Steps(j)
        BY StepPosition DEF AtStep, InStep
      <3>2. [mem[j] EXCEPT !.state = "failed", !.steps[idx[j]] = "failed"] \in MemType(j)
        BY <3>1, MemTypes DEF RunType
      <3>3. QED BY <3>2, SaveThenTypes DEF RunType, Targets
    <2>5. WorldType'
      BY GiveUpTypes DEF WorldType
    <2>6. HistoryType'
      BY DEF HistoryType
    <2>7. QED BY <2>1, <2>2, <2>3, <2>4, <2>5, <2>6
  <1>18. ASSUME NEW j \in Jobs, DoCancelled(j) PROVE TypeOK'
    <2> USE <1>18 DEF TypeOK, DoCancelled, Finish, engine, run, world, history
    <2>1. StoreType'
      BY DEF StoreType
    <2>2. EngineType'
      BY LeaseTypes DEF EngineType
    <2>3. CallType'
      BY DEF CallType
    <2>4. RunType'
      <3>1. idx[j] \in Steps(j)
        BY StepPosition DEF AtStep, InStep
      <3>2. [mem[j] EXCEPT !.state = "cancelled", !.steps[idx[j]] = "failed"] \in MemType(j)
        BY <3>1, MemTypes DEF RunType
      <3>3. QED BY <3>2, SaveThenTypes DEF RunType, Targets
    <2>5. WorldType'
      BY GiveUpTypes DEF WorldType
    <2>6. HistoryType'
      BY DEF HistoryType
    <2>7. QED BY <2>1, <2>2, <2>3, <2>4, <2>5, <2>6
  <1>19. ASSUME NEW j \in Jobs, DoInterrupted(j) PROVE TypeOK'
    <2> USE <1>19 DEF TypeOK, DoInterrupted, engine, run, world, history
    <2>1. StoreType'
      BY DEF StoreType
    <2>2. EngineType'
      BY DEF EngineType
    <2>3. CallType'
      BY DEF CallType
    <2>4. RunType'
      BY MoveTypes DEF RunType, PC
    <2>5. WorldType'
      BY GiveUpTypes DEF WorldType
    <2>6. HistoryType'
      BY DEF HistoryType
    <2>7. QED BY <2>1, <2>2, <2>3, <2>4, <2>5, <2>6
  <1>20. ASSUME NEW j \in Jobs, Exit(j) PROVE TypeOK'
    <2> USE <1>20 DEF TypeOK, Exit, engine, run, world, history
    <2>1. StoreType'
      BY DEF StoreType
    <2>2. EngineType'
      BY LeaseTypes DEF EngineType
    <2>3. CallType'
      BY DEF CallType
    <2>4. RunType'
      BY MoveTypes DEF RunType, PC
    <2>5. WorldType'
      BY DEF WorldType
    <2>6. HistoryType'
      BY DEF HistoryType
    <2>7. QED BY <2>1, <2>2, <2>3, <2>4, <2>5, <2>6
  <1>21. ASSUME NEW j \in Jobs, NEW i \in Steps(j), LateEffect(j, i) PROVE TypeOK'
    <2> USE <1>21 DEF TypeOK, LateEffect, engine, run, world, history
    <2>1. StoreType' /\ EngineType' /\ CallType' /\ HistoryType'
      BY DEF StoreType, EngineType, CallType, HistoryType
    <2>2. RunType'
      BY DEF RunType, AtStep, InStep, Saving
    <2>3. WorldType'
      BY DEF WorldType
    <2>4. QED BY <2>1, <2>2, <2>3
  <1>22. ASSUME NEW h \in Cancellers, CancelSteps(h) PROVE TypeOK'
    <2> USE DEF TypeOK, engine, run, world, history
    <2>1. UNCHANGED <<leases, phase, closed, returned, todo, submit, run, world, boots>>
      BY <1>22 DEF CancelSteps, CancelRead, CancelWrite, CancelRefused, CancelSignal
    <2>2. RunType' /\ WorldType'
      BY <2>1 DEF RunType, WorldType, AtStep, InStep, Saving
    <2>3. ASSUME NEW j \in Jobs, CancelRead(h, j) PROVE TypeOK'
      <3>1. db[j].rev \in Nat /\ db[j].state \in JobState
        BY RecordTypes DEF StoreType
      <3>2. CallType'
        BY <2>3, <3>1 DEF CallType, CancelRead, HandlerType
      <3>3. StoreType' /\ EngineType' /\ HistoryType'
        BY <2>3 DEF CancelRead, StoreType, EngineType, HistoryType
      <3>4. QED BY <2>2, <3>2, <3>3
    <2>4. CASE CancelWrite(h)
      <3>1. handler[h].job \in Jobs
        BY <2>4 DEF CancelWrite, CallType
      <3>2. StoreType' /\ HistoryType'
        BY <2>4, <3>1, RecordTypes DEF CancelWrite, StoreType, HistoryType
      <3>3. CallType' /\ EngineType'
        BY <2>4 DEF CancelWrite, CallType, EngineType, HandlerType
      <3>4. QED BY <2>2, <3>2, <3>3
    <2>5. CASE CancelRefused(h)
      <3>1. handler[h].job \in Jobs
        BY <2>5 DEF CancelRefused, CallType
      <3>2. StoreType' /\ HistoryType'
        <4>1. CASE UNCHANGED <<db, history>>
          BY <2>1, <4>1 DEF StoreType, HistoryType
        <4>2. CASE ~UNCHANGED <<db, history>>
          <5>1. PICK parked \in BOOLEAN : DiskFault(handler[h].job, Flagged(db[handler[h].job], parked))
            BY <2>5, <4>2 DEF CancelRefused
          <5>2. Flagged(db[handler[h].job], parked) \in RecordType(handler[h].job)
            BY <3>1, RecordTypes DEF StoreType
          <5>3. shown' = shown /\ boots' = boots
            BY <2>5 DEF CancelRefused
          <5>4. QED BY <3>1, <5>1, <5>2, <5>3, DiskFaultTypes DEF HistoryType
        <4>3. QED BY <4>1, <4>2
      <3>3. CallType' /\ EngineType'
        BY <2>5 DEF CancelRefused, CallType, EngineType, HandlerType
      <3>4. QED BY <2>2, <3>2, <3>3
    <2>6. CASE CancelSignal(h)
      <3>1. handler[h].job \in Jobs
        BY <2>6 DEF CancelSignal, CallType
      <3>2. StoreType' /\ HistoryType' /\ EngineType'
        BY <2>6, <3>1 DEF CancelSignal, StoreType, HistoryType, EngineType
      <3>3. CallType'
        BY <2>6 DEF CancelSignal, CallType, HandlerType
      <3>4. QED BY <2>2, <3>2, <3>3
    <2>7. QED BY <1>22, <2>3, <2>4, <2>5, <2>6 DEF CancelSteps
  <1>23. CASE Boot \/ ResumeReturn \/ Close \/ CloseReturn
    <2> USE DEF TypeOK, Boot, ResumeReturn, Close, CloseReturn, engine, run, world, history
    <2>1. StoreType' /\ CallType' /\ WorldType'
      BY <1>23 DEF StoreType, CallType, WorldType
    <2>2. EngineType'
      BY <1>23 DEF EngineType
    <2>3. HistoryType'
      BY <1>23 DEF HistoryType
    <2>4. RunType'
      BY <1>23 DEF RunType, AtStep, InStep, Saving
    <2>5. QED BY <2>1, <2>2, <2>3, <2>4
  <1>24. ASSUME NEW j \in Jobs, ResumeUnbuildable(j) \/ ResumePark(j) PROVE TypeOK'
    <2>1. /\ Park(j, InRecord(j)) /\ todo' \subseteq todo
          /\ UNCHANGED <<ctxDone, phase, closed, returned, submit, handler, world, boots>>
      BY <1>24 DEF ResumeUnbuildable, ResumePark
    <2>2. StoreType' /\ HistoryType' /\ RunType' /\ leases' = leases
      BY <2>1, ParkTypes, InRecordTypes DEF TypeOK
    <2>3. EngineType' /\ CallType' /\ WorldType'
      BY <2>1, <2>2 DEF TypeOK, EngineType, CallType, WorldType, world
    <2>4. QED BY <2>2, <2>3 DEF TypeOK
  <1>25. ASSUME NEW j \in todo, NEW p \in ResumePoints(j), ResumeSucceed(j, p) PROVE TypeOK'
    <2> USE DEF TypeOK
    <2>1. j \in Jobs
      BY DEF EngineType
    <2>2. StoreType' /\ HistoryType'
      BY <1>25, <2>1, ResumePointTypes, SaveAloneTypes DEF ResumeSucceed, HistoryType
    <2>3. EngineType' /\ CallType' /\ WorldType'
      BY <1>25 DEF ResumeSucceed, EngineType, CallType, WorldType, engine, world
    <2>4. RunType'
      BY <1>25 DEF ResumeSucceed, run, RunType, AtStep, InStep, Saving
    <2>5. QED BY <2>2, <2>3, <2>4
  <1>26. ASSUME NEW j \in todo, NEW p \in ResumePoints(j), ResumeJob(j, p) PROVE TypeOK'
    <2> USE DEF TypeOK
    <2> DEFINE m == [state |-> db[j].state, steps |-> p.steps, cur |-> p.next]
    <2>1. j \in Jobs
      BY DEF EngineType
    <2>2. m \in MemType(j) /\ p.next \in 1 .. NSteps[j] + 1
      BY <1>26, <2>1, ResumePointTypes, RecordTypes DEF ResumeJob, StoreType
    <2>3. StoreType' /\ HistoryType' /\ RunType' /\ leases' \in {leases, Acquired(j)}
      <3> HIDE DEF m
      <3>1. CASE Park(j, m)
        BY <1>26, <2>1, <2>2, <3>1, ParkTypes DEF ResumeJob
      <3>2. CASE SaveAlone(j, m) /\ Register(j, m, p.next, "begin") /\ shown' = shown
                 /\ leases' = Acquired(j)
        <4>1. RunType'
          BY <2>1, <2>2, <3>2, RegisterTypes
        <4>2. QED BY <1>26, <2>1, <2>2, <3>2, <4>1, SaveAloneTypes DEF ResumeJob, HistoryType
      <3>3. QED BY <1>26, <3>1, <3>2 DEF ResumeJob, m
    <2>4. EngineType'
      BY <1>26, <2>1, <2>3, LeaseTypes DEF ResumeJob, EngineType
    <2>5. CallType' /\ WorldType'
      BY <1>26 DEF ResumeJob, CallType, WorldType, world
    <2>6. QED BY <2>3, <2>4, <2>5
  <1>27. CASE Crash
    <2> USE <1>27 DEF TypeOK, Crash
    <2>1. StoreType' /\ EngineType' /\ HistoryType'
      BY DEF StoreType, EngineType, HistoryType
    <2>2. CallType'
      BY DEF CallType, HandlerType, Idle
    <2>3. RunType'
      <3>1. \A k \in Jobs : idx'[k] = 1 /\ mem'[k] = NoMem(k) /\ pc'[k] = "none"
        OBVIOUS
      <3>2. \A k \in Jobs : 1 \in 1 .. NSteps[k] + 1 /\ NoMem(k) \in MemType(k)
        BY BlankTypes
      <3>3. QED BY <3>1, <3>2 DEF RunType, AtStep, InStep, Saving, PC, Targets
    <2>4. WorldType'
      <3>1. \A k \in Jobs : pc[k] = "do" => idx[k] \in Steps(k)
        BY StepPosition DEF AtStep, InStep
      <3>2. \A x \in InFlight(Jobs) : \E k \in Jobs : \E i \in Steps(k) : x = <<k, i>>
        BY <3>1 DEF InFlight
      <3>3. QED BY <3>2 DEF WorldType
    <2>5. QED BY <2>1, <2>2, <2>3, <2>4
  <1>28. CASE UNCHANGED vars
    <2> USE <1>28 DEF vars, TypeOK
    <2>1. StoreType' /\ EngineType' /\ CallType' /\ WorldType' /\ HistoryType'
      BY DEF StoreType, EngineType, CallType, WorldType, HistoryType
    <2>2. RunType'
      BY DEF RunType, AtStep, InStep, Saving
    <2>3. QED BY <2>1, <2>2
  <1>29. QED
    BY <1>1, <1>2, <1>3, <1>4, <1>5, <1>6, <1>7, <1>8, <1>9, <1>10, <1>11, <1>12, <1>13,
       <1>14, <1>15, <1>16, <1>17, <1>18, <1>19, <1>20, <1>21, <1>22, <1>23, <1>24, <1>25,
       <1>26, <1>27, <1>28
       DEF Next, SubmitSteps, RunSteps, ResumeSteps

\* The first state is well-typed.
LEMMA TypeInit == Init => TypeOK
  <1> SUFFICES ASSUME Init PROVE TypeOK
    OBVIOUS
  <1> USE StateNames, BlankTypes DEF Init
  <1>1. StoreType
    BY DEF StoreType
  <1>2. EngineType /\ HistoryType
    BY DEF EngineType, HistoryType
  <1>3. CallType
    BY DEF CallType, HandlerType, Idle
  <1>4. RunType
    <2>1. \A k \in Jobs : idx[k] = 1 /\ mem[k] = NoMem(k) /\ pc[k] = "none"
      OBVIOUS
    <2>2. \A k \in Jobs : 1 \in 1 .. NSteps[k] + 1 /\ NoMem(k) \in MemType(k)
      OBVIOUS
    <2>3. QED BY <2>1, <2>2 DEF RunType, AtStep, InStep, Saving, PC, Targets
  <1>5. WorldType
    BY DEF WorldType
  <1>6. QED BY <1>1, <1>2, <1>3, <1>4, <1>5 DEF TypeOK

\* The engine never indexes outside a step list, and Resume never meets a
\* position outside the list of its own record, whatever the interleaving.
THEOREM TypeCorrect == Spec => []TypeOK
  BY TypeInit, TypeNext, PTL DEF Spec

-----------------------------------------------------------------------------
\* A goroutine writes its own record and its own control state, nothing else.
LEMMA RunOwns ==
  ASSUME TypeOK, NEW j \in Jobs, RunSteps(j) \/ Spawn(j)
  PROVE  /\ pc[j] # "none"
         /\ \A k \in Jobs \ {j} : /\ pc'[k] = pc[k] /\ cont'[k] = cont[k] /\ db'[k] = db[k]
                                  /\ idx'[k] = idx[k] /\ mem'[k] = mem[k]
                                  /\ snap'[k] = snap[k] /\ effects'[k] = effects[k]
                                  /\ k \in faulted' <=> k \in faulted
         /\ faulted \subseteq faulted'
         /\ UNCHANGED <<phase, todo, submit, handler>>
  <1> USE DEF TypeOK, RunType, StoreType, WorldType, engine, run, world, history
  <1>1. CASE SaveRead(j) \/ SaveWrite(j) \/ SaveConflict(j) \/ SaveFault(j)
    BY <1>1 DEF SaveRead, SaveWrite, SaveConflict, SaveFault, SaveOver, DiskFault
  <1>2. CASE RunBegin(j) \/ RunStop(j) \/ Spawn(j) \/ Exit(j)
    BY <1>2 DEF RunBegin, RunStop, Spawn, Exit, SaveThen
  <1>3. CASE RunSucceed(j) \/ RunCancelled(j) \/ RunStep(j)
    BY <1>3 DEF RunSucceed, RunCancelled, RunStep, Finish, SaveThen, DiskFault
  <1>4. CASE DoEffect(j) \/ DoReturnOk(j)
    BY <1>4 DEF DoEffect, DoReturnOk, SaveThen
  <1>5. CASE DoReturnError(j) \/ DoCancelled(j) \/ DoInterrupted(j)
    BY <1>5 DEF DoReturnError, DoCancelled, DoInterrupted, Finish, SaveThen
  <1>6. QED BY <1>1, <1>2, <1>3, <1>4, <1>5 DEF RunSteps

\* The ownership of a job is handed over, never shared.
LEMMA LifecycleNext == TypeOK /\ LifecycleInv /\ [Next]_vars => LifecycleInv'
  <1> SUFFICES ASSUME TypeOK, LifecycleInv, [Next]_vars PROVE LifecycleInv'
    OBVIOUS
  <1> USE DEF LifecycleInv, Submitting
  <1>1. ASSUME NEW j \in Jobs, RunSteps(j) \/ Spawn(j) PROVE LifecycleInv'
    BY <1>1, RunOwns DEF TypeOK, EngineType
  <1>2. ASSUME NEW j \in Jobs, SubmitAcquire(j) PROVE LifecycleInv'
    BY <1>2 DEF SubmitAcquire, Serving, TypeOK, CallType, run, history
  <1>3. ASSUME NEW j \in Jobs, SubmitPut(j) PROVE LifecycleInv'
    BY <1>3 DEF SubmitPut, DiskFault, TypeOK, CallType, StoreType, EngineType, run
  <1>4. ASSUME NEW j \in Jobs, SubmitStart(j) PROVE LifecycleInv'
    BY <1>4 DEF SubmitStart, Register, TypeOK, CallType, RunType, EngineType, engine
  <1>5. ASSUME NEW j \in Jobs, SubmitWithdraw(j) PROVE LifecycleInv'
    BY <1>5 DEF SubmitWithdraw, DiskFault, TypeOK, CallType, StoreType, EngineType, run
  <1>6. ASSUME NEW j \in Jobs, NEW i \in Steps(j), LateEffect(j, i) PROVE LifecycleInv'
    BY <1>6 DEF LateEffect, run
  <1>7. ASSUME NEW h \in Cancellers, CancelSteps(h) PROVE LifecycleInv'
    <2>1. ASSUME NEW j \in Jobs, CancelRead(h, j) PROVE LifecycleInv'
      BY <2>1 DEF CancelRead, Serving, TypeOK, CallType, HandlerType, run
    <2>2. CASE CancelWrite(h)
      <3>1. phase = "serving" /\ todo = {} /\ submit[handler[h].job] \in {"stored", "over"}
        BY <2>2 DEF CancelWrite
      <3>2. \A k \in Jobs \ {handler[h].job} : db'[k] = db[k]
        BY <2>2 DEF CancelWrite, TypeOK, StoreType
      <3>3. QED BY <2>2, <3>1, <3>2 DEF CancelWrite, TypeOK, CallType, HandlerType, run
    <2>3. CASE CancelRefused(h)
      <3>1. phase = "serving" /\ todo = {} /\ submit[handler[h].job] \in {"stored", "over"}
        BY <2>3 DEF CancelRefused
      <3>2. \A k \in Jobs \ {handler[h].job} : db'[k] = db[k]
        BY <2>3 DEF CancelRefused, DiskFault, TypeOK, StoreType
      <3>3. QED BY <2>3, <3>1, <3>2 DEF CancelRefused, TypeOK, CallType, HandlerType, run
    <2>4. CASE CancelSignal(h)
      BY <2>4 DEF CancelSignal, TypeOK, CallType, HandlerType, run
    <2>5. QED BY <1>7, <2>1, <2>2, <2>3, <2>4 DEF CancelSteps
  <1>8. CASE Boot
    BY <1>8 DEF Boot, TypeOK, CallType, EngineType, run
  <1>9. CASE ResumeReturn \/ Close \/ CloseReturn
    BY <1>9 DEF ResumeReturn, Close, CloseReturn, Serving, run
  <1>10. ASSUME NEW j \in todo,
                \/ ResumeUnbuildable(j) \/ ResumePark(j)
                \/ \E p \in ResumePoints(j) : ResumeSucceed(j, p) \/ ResumeJob(j, p)
         PROVE  LifecycleInv'
    <2>1. /\ todo' = todo \ {j} /\ UNCHANGED <<phase, submit, handler>>
          /\ \A k \in Jobs \ {j} : pc'[k] = pc[k] /\ db'[k] = db[k]
      BY ZenonT(60), <1>10 DEF ResumeUnbuildable, ResumePark, ResumeSucceed, ResumeJob, Park, SaveAlone,
                   DiskFault, Register, run, engine, TypeOK, StoreType, RunType
    <2>2. j \in Jobs /\ submit[j] = "over" /\ phase = "resuming"
      BY DEF TypeOK, EngineType
    <2>3. QED BY <2>1, <2>2 DEF TypeOK, EngineType
  <1>11. CASE Crash
    BY <1>11 DEF Crash, Idle, TypeOK, CallType
  <1>12. CASE UNCHANGED vars
    BY <1>12 DEF vars
  <1>13. \A j \in Jobs : ResumeUnbuildable(j) \/ ResumePark(j) => j \in todo
    BY DEF ResumeUnbuildable, ResumePark
  <1>14. QED
    BY <1>1, <1>2, <1>3, <1>4, <1>5, <1>6, <1>7, <1>8, <1>9, <1>10, <1>11, <1>12, <1>13
       DEF Next, SubmitSteps, ResumeSteps

\* Nobody owns a job before the first start.
LEMMA LifecycleInit == Init => LifecycleInv
  BY DEF Init, LifecycleInv, Submitting, Idle, Blank

\* Somebody is still working on the job.
Alive(j) == pc[j] # "none" \/ Submitting(j)

\* A job keeps its lease for as long as it may run a step.
LEMMA LeaseNext == TypeOK /\ LifecycleInv /\ LeaseInv /\ [Next]_vars => LeaseInv'
  <1> SUFFICES ASSUME TypeOK, LifecycleInv, LeaseInv, [Next]_vars PROVE LeaseInv'
    OBVIOUS
  <1> DEFINE Others(j) == \A k \in Jobs \ {j} : /\ pc'[k] = pc[k] /\ cont'[k] = cont[k]
                                                /\ submit'[k] = submit[k]
             Sound(j) == Saving(j) => cont[j] \in {"boundary", "do", "exit"}
  \* The lease stays where it is.
  <1>1. ASSUME NEW j \in Jobs, Others(j), leases' = leases, Sound(j)',
               (Holding(j) \/ Submitting(j))' => Holding(j) \/ Submitting(j),
               Alive(j) => Alive(j)'
        PROVE  LeaseInv'
    BY <1>1 DEF LeaseInv, Holding, Saving, Submitting, Alive, TypeOK, EngineType
  \* The lease is given back, and nothing of the job needs it any more.
  <1>2. ASSUME NEW j \in Jobs, Others(j), leases' = Released(j), Sound(j)',
               ~Holding(j)', ~Submitting(j)'
        PROVE  LeaseInv'
    BY <1>2, JobsAssumption
       DEF LeaseInv, Holding, Saving, Submitting, Released, TypeOK, EngineType
  \* The lease is taken, by a job somebody works on.
  <1>3. ASSUME NEW j \in Jobs, Others(j), CanAcquire(j), leases' = Acquired(j), Sound(j)',
               Alive(j)'
        PROVE  LeaseInv'
    BY <1>3, JobsAssumption
       DEF LeaseInv, Holding, Saving, Submitting, CanAcquire, Acquired, Alive, TypeOK, EngineType
  <1> USE DEF TypeOK, RunType, CallType, engine, run, world, history
  <1>4. ASSUME NEW j \in Jobs, SubmitAcquire(j) PROVE LeaseInv'
    <2>1. pc[j] = "none"
      BY <1>4 DEF SubmitAcquire, LifecycleInv
    <2>2. Others(j) /\ CanAcquire(j) /\ leases' = Acquired(j) /\ Alive(j)' /\ Sound(j)'
      BY <1>4, <2>1 DEF SubmitAcquire, Alive, Submitting, Saving
    <2>3. QED BY <1>3, <2>2
  <1>5. ASSUME NEW j \in Jobs, SubmitPut(j) PROVE LeaseInv'
    <2>1. pc[j] = "none" /\ pc' = pc /\ cont' = cont /\ Others(j)
      BY <1>5 DEF SubmitPut, LifecycleInv
    <2>2. CASE submit'[j] = "stored"
      BY <1>1, <1>5, <2>1, <2>2 DEF SubmitPut, Alive, Submitting, Holding, Saving
    <2>3. CASE submit'[j] = "over" /\ leases' = Released(j)
      BY <1>2, <2>1, <2>3 DEF Submitting, Holding, Saving
    <2>4. QED BY <1>5, <2>2, <2>3 DEF SubmitPut
  <1>6. ASSUME NEW j \in Jobs, SubmitStart(j) PROVE LeaseInv'
    BY <1>1, <1>6 DEF SubmitStart, Register, Alive, Submitting, Holding, Saving
  <1>7. ASSUME NEW j \in Jobs, SubmitWithdraw(j) PROVE LeaseInv'
    <2>1. pc[j] = "none" /\ pc' = pc /\ cont' = cont /\ Others(j)
      BY <1>7 DEF SubmitWithdraw, LifecycleInv
    <2>2. QED BY <1>2, <1>7, <2>1 DEF SubmitWithdraw, Submitting, Holding, Saving
  \* The goroutine moves without ending.
  <1>8. ASSUME NEW j \in Jobs,
               \/ Spawn(j) \/ SaveRead(j) \/ SaveWrite(j) \/ SaveConflict(j) \/ SaveFault(j)
               \/ RunBegin(j) \/ RunStop(j) \/ RunStep(j)
               \/ DoEffect(j) \/ DoReturnOk(j) \/ DoInterrupted(j)
        PROVE  LeaseInv'
    <2>1. Others(j) /\ leases' = leases
      BY <1>8, RunOwns DEF RunSteps, Spawn, SaveRead, SaveWrite, SaveConflict, SaveFault, SaveOver,
         RunBegin, RunStop, RunStep, DoEffect, DoReturnOk, DoInterrupted
    <2>2. /\ Sound(j)'
          /\ (Holding(j) \/ Submitting(j))' => Holding(j) \/ Submitting(j)
          /\ Alive(j)'
      BY <1>8 DEF Spawn, SaveRead, SaveWrite, SaveConflict, SaveFault, SaveOver, SaveThen,
         RunBegin, RunStop, RunStep, DoEffect, DoReturnOk, DoInterrupted,
         Alive, Holding, Submitting, Saving, LeaseInv
    <2>3. QED BY <1>1, <2>1, <2>2
  \* The goroutine gives the lease back.
  <1>9. ASSUME NEW j \in Jobs,
               \/ RunSucceed(j) \/ RunCancelled(j) \/ DoReturnError(j) \/ DoCancelled(j) \/ Exit(j)
        PROVE  LeaseInv'
    <2>1. Others(j) /\ ~Submitting(j)'
      BY <1>9, RunOwns DEF RunSteps, LifecycleInv, Submitting
    <2>2. leases' = Released(j) /\ Sound(j)' /\ ~Holding(j)'
      BY <1>9 DEF RunSucceed, RunCancelled, DoReturnError, DoCancelled, Exit, Finish, SaveThen,
         Holding, Saving
    <2>3. QED BY <1>2, <2>1, <2>2
  <1>10. ASSUME NEW j \in todo, NEW p \in ResumePoints(j), ResumeJob(j, p) PROVE LeaseInv'
    <2>1. j \in Jobs /\ pc[j] = "none" /\ Others(j)
      BY <1>10 DEF ResumeJob, Register, Park, LifecycleInv, EngineType
    <2>2. CASE CanAcquire(j)
      BY <1>3, <1>10, <2>1, <2>2 DEF ResumeJob, Register, Alive, Saving
    <2>3. CASE ~CanAcquire(j)
      BY <1>1, <1>10, <2>1, <2>3 DEF ResumeJob, Park, Alive, Holding, Submitting, Saving
    <2>4. QED BY <2>2, <2>3
  <1>11. CASE Crash
    BY <1>11 DEF Crash, LeaseInv, Holding, Submitting, Saving
  <1>12. ASSUME UNCHANGED <<leases, pc, cont, submit>> PROVE LeaseInv'
    BY <1>12 DEF LeaseInv, Holding, Submitting, Saving
  <1>13. ASSUME \/ Boot \/ Close \/ CloseReturn \/ ResumeReturn \/ UNCHANGED vars
                \/ \E h \in Cancellers : CancelSteps(h)
                \/ \E j \in Jobs : \E i \in Steps(j) : LateEffect(j, i)
                \/ \E j \in Jobs : ResumeUnbuildable(j) \/ ResumePark(j)
                \/ \E j \in todo : \E p \in ResumePoints(j) : ResumeSucceed(j, p)
         PROVE  UNCHANGED <<leases, pc, cont, submit>>
    BY <1>13 DEF Boot, Close, CloseReturn, ResumeReturn, vars, CancelSteps, CancelRead,
       CancelWrite, CancelRefused, CancelSignal, LateEffect, ResumeUnbuildable, ResumePark,
       ResumeSucceed, Park
  <1>14. QED
    BY <1>4, <1>5, <1>6, <1>7, <1>8, <1>9, <1>10, <1>11, <1>12, <1>13
       DEF Next, SubmitSteps, RunSteps, ResumeSteps

\* No lease is held before the first start.
LEMMA LeaseInit == Init => LeaseInv
  BY DEF Init, LeaseInv, Holding, Submitting, Saving

\* Two jobs of one cluster are never inside a step at the same time: whoever is
\* in a step holds the lease of its cluster, and a lease has one holder.
THEOREM LeaseExcludes == Spec => []OneJobPerCluster
  <1>1. TypeOK /\ LeaseInv => OneJobPerCluster
    BY JobsAssumption DEF LeaseInv, Holding, OneJobPerCluster, InStep
  <1>2. QED
    BY <1>1, TypeInit, TypeNext, LifecycleInit, LifecycleNext, LeaseInit, LeaseNext, PTL DEF Spec

\* No lease outlives the work it was taken for: its holder is a goroutine or a
\* Submit call that has still to give it back.
THEOREM LeaseNotLeaked == Spec => []LeaseHeldByLiveJob
  <1>1. LeaseInv => LeaseHeldByLiveJob
    BY DEF LeaseInv, Submitting, LeaseHeldByLiveJob
  <1>2. QED
    BY <1>1, TypeInit, TypeNext, LifecycleInit, LifecycleNext, LeaseInit, LeaseNext, PTL DEF Spec

-----------------------------------------------------------------------------
\* The parts of EffectInv depend on the job's own state alone.
LEMMA EffectFrame ==
  ASSUME NEW j \in Jobs, EffectInv(j), j \in faulted => j \in faulted',
         pc'[j] = pc[j], cont'[j] = cont[j], db'[j] = db[j], idx'[j] = idx[j],
         mem'[j] = mem[j], snap'[j] = snap[j], effects'[j] = effects[j],
         submit'[j] = submit[j]
  PROVE  EffectInv(j)'
  BY DEF EffectInv, OnceInv, StoredInv, HeldInv, SafeRecord, BoundaryInv, StepInv, SaveInv,
         FreshInv, Clean, AtBoundary, AtStep, InStep, Saving

\* A step of the goroutine that touches neither its record nor the world.
LEMMA EffectMove ==
  ASSUME TypeOK, NEW j \in Jobs, EffectInv(j), j \notin faulted,
         db'[j] = db[j], effects'[j] = effects[j], submit'[j] = submit[j],
         HeldInv(j)', BoundaryInv(j)', StepInv(j)', SaveInv(j)'
  PROVE  EffectInv(j)'
  BY DEF EffectInv, OnceInv, StoredInv, SafeRecord, FreshInv, Clean

\* Every step of a job's goroutine keeps the record ahead of the world.
LEMMA EffectRun ==
  ASSUME TypeOK, LifecycleInv, LeaseInv, NEW j \in Jobs, EffectInv(j),
         RunSteps(j) \/ Spawn(j), j \notin faulted'
  PROVE  EffectInv(j)'
  <1>1. j \notin faulted /\ submit' = submit /\ pc[j] # "none" /\ submit[j] = "over"
    BY RunOwns DEF LifecycleInv
  <1>2. /\ NSteps[j] \in Nat \ {0} /\ Steps(j) = 1 .. NSteps[j]
        /\ idx[j] \in 1 .. NSteps[j] + 1
        /\ mem[j].cur \in Steps(j) /\ mem[j].steps \in [Steps(j) -> StepState]
        /\ db[j].cur \in Steps(j) /\ db[j].steps \in [Steps(j) -> StepState]
        /\ effects[j] \in [Steps(j) -> Nat]
    BY JobsAssumption DEF TypeOK, RunType, MemType, StoreType, RecordType, WorldType, Steps
  <1> USE DEF engine, run, world, history
  <1>3. CASE Spawn(j)
    <2>1. /\ pc[j] = "starting" /\ pc'[j] = "begin"
          /\ UNCHANGED <<db, effects, cont, idx, mem, snap>>
      BY <1>3 DEF Spawn, TypeOK, RunType
    <2>2. HeldInv(j)'
      BY <1>1, <2>1 DEF EffectInv, HeldInv, SafeRecord, Clean
    <2>3. BoundaryInv(j)'
      BY <1>1, <2>1 DEF EffectInv, BoundaryInv, Clean, AtBoundary, Saving
    <2>4. StepInv(j)' /\ SaveInv(j)'
      BY <2>1 DEF StepInv, SaveInv, AtStep, InStep, Saving
    <2>5. QED BY <1>1, <2>1, <2>2, <2>3, <2>4, EffectMove
  <1>4. CASE SaveRead(j)
    <2>1. /\ pc[j] = "saveRead" /\ pc'[j] = "saveWrite"
          /\ snap'[j].rev = db[j].rev /\ snap'[j].cancel = db[j].cancel
          /\ UNCHANGED <<db, effects, cont, idx, mem>>
      BY <1>4 DEF SaveRead, TypeOK, RunType
    <2>2. HeldInv(j)' /\ BoundaryInv(j)' /\ StepInv(j)'
      BY <1>1, <2>1 DEF EffectInv, HeldInv, BoundaryInv, StepInv, SafeRecord, Clean,
         AtBoundary, AtStep, InStep, Saving
    <2>3. SaveInv(j)'
      BY <2>1 DEF SaveInv, TypeOK, StoreType, RecordType
    <2>4. QED BY <1>1, <2>1, <2>2, <2>3, EffectMove
  <1>5. CASE SaveWrite(j)
    <2>1. /\ pc[j] = "saveWrite" /\ pc'[j] = cont[j] /\ cont[j] \in {"boundary", "do", "exit"}
          /\ db'[j].state = mem[j].state /\ db'[j].steps = mem[j].steps
          /\ db'[j].cur = mem[j].cur /\ db'[j].cancel = db[j].cancel
          /\ UNCHANGED <<effects, cont, idx, mem>>
      BY <1>1, <1>5 DEF SaveWrite, SaveOver, Merge, TypeOK, RunType, StoreType, EffectInv, SaveInv,
         LeaseInv, Saving
    <2>2. OnceInv(j)' /\ FreshInv(j)' /\ SaveInv(j)'
      BY <1>1, <2>1 DEF EffectInv, OnceInv, FreshInv, SaveInv, Clean
    <2>3. StoredInv(j)' /\ HeldInv(j)'
      BY <1>1, <2>1 DEF EffectInv, StoredInv, HeldInv, SafeRecord, Clean
    <2>4. BoundaryInv(j)'
      BY <1>1, <2>1 DEF EffectInv, BoundaryInv, Clean, AtBoundary, Saving
    <2>5. StepInv(j)'
      BY <1>1, <2>1 DEF EffectInv, StepInv, Clean, AtStep, InStep, Saving
    <2>6. QED BY <2>2, <2>3, <2>4, <2>5 DEF EffectInv
  <1>6. CASE SaveConflict(j)
    BY SMTT(30), <1>1, <1>6, EffectMove DEF SaveConflict, SaveOver, TypeOK, RunType, EffectInv, HeldInv,
       BoundaryInv, StepInv, SaveInv, SafeRecord, Clean, AtBoundary, AtStep, InStep, Saving, LeaseInv
  <1>7. CASE SaveFault(j)
    BY <1>7 DEF SaveFault, DiskFault
  <1>8. CASE RunBegin(j)
    <2>1. /\ pc[j] = "begin" /\ pc'[j] = "saveRead" /\ cont'[j] = "boundary"
          /\ mem'[j].state = "running" /\ mem'[j].steps = mem[j].steps /\ mem'[j].cur = mem[j].cur
          /\ UNCHANGED <<db, effects, idx>>
      BY <1>8 DEF RunBegin, SaveThen, TypeOK, RunType, MemType
    <2>2. HeldInv(j)'
      BY <1>1, <2>1 DEF EffectInv, HeldInv, BoundaryInv, SafeRecord, Clean, AtBoundary
    <2>3. BoundaryInv(j)'
      BY <1>1, <2>1 DEF EffectInv, BoundaryInv, Clean, AtBoundary, Saving
    <2>4. StepInv(j)' /\ SaveInv(j)'
      BY <2>1 DEF StepInv, SaveInv, AtStep, InStep, Saving
    <2>5. QED BY <1>1, <2>1, <2>2, <2>3, <2>4, EffectMove
  \* The four ends: the copy in memory is terminal and only the save is left.
  <1>9. CASE RunSucceed(j) \/ RunCancelled(j) \/ DoReturnError(j) \/ DoCancelled(j)
    <2>1. /\ pc'[j] = "saveRead" /\ cont'[j] = "exit"
          /\ mem'[j].state \in {"succeeded", "cancelled", "failed"}
          /\ UNCHANGED <<db, effects>>
      <3>1. CASE RunSucceed(j) \/ RunCancelled(j)
        <4>1. /\ pc'[j] = "saveRead" /\ cont'[j] = "exit" /\ UNCHANGED <<db, effects>>
              /\ \/ mem'[j] = [mem[j] EXCEPT !.state = "succeeded", !.cur = NSteps[j]]
                 \/ mem'[j] = [mem[j] EXCEPT !.state = "cancelled"]
          BY <3>1 DEF RunSucceed, RunCancelled, Finish, SaveThen, TypeOK, RunType
        <4>2. QED BY <4>1 DEF TypeOK, RunType, MemType
      <3>2. CASE DoReturnError(j) \/ DoCancelled(j)
        <4>1. /\ pc'[j] = "saveRead" /\ cont'[j] = "exit" /\ UNCHANGED <<db, effects>>
              /\ \/ mem'[j] = [mem[j] EXCEPT !.state = "failed", !.steps[idx[j]] = "failed"]
                 \/ mem'[j] = [mem[j] EXCEPT !.state = "cancelled", !.steps[idx[j]] = "failed"]
          BY <3>2 DEF DoReturnError, DoCancelled, Finish, SaveThen, TypeOK, RunType
        <4>2. QED BY <4>1 DEF TypeOK, RunType, MemType
      <3>3. QED BY <1>9, <3>1, <3>2
    <2>2. HeldInv(j)' /\ BoundaryInv(j)' /\ StepInv(j)' /\ SaveInv(j)'
      BY <2>1 DEF HeldInv, BoundaryInv, StepInv, SaveInv, SafeRecord, AtBoundary, AtStep,
         InStep, Saving
    <2>3. QED BY <1>1, <2>1, <2>2, EffectMove
  <1>10. CASE RunStop(j) \/ DoInterrupted(j) \/ Exit(j)
    <2>1. /\ pc'[j] \in {"exit", "none"} /\ UNCHANGED <<db, effects, mem>>
      BY <1>10 DEF RunStop, DoInterrupted, Exit, TypeOK, RunType
    <2>2. HeldInv(j)' /\ BoundaryInv(j)' /\ StepInv(j)' /\ SaveInv(j)'
      BY <1>1, <2>1 DEF EffectInv, HeldInv, BoundaryInv, StepInv, SaveInv, SafeRecord, Clean,
         AtBoundary, AtStep, InStep, Saving
    <2>3. QED BY <1>1, <2>1, <2>2, EffectMove
  <1>11. CASE RunStep(j)
    <2>1. /\ pc[j] = "boundary" /\ pc'[j] = "saveRead" /\ cont'[j] = "do"
          /\ idx[j] \in Steps(j)
          /\ UNCHANGED <<db, effects, idx>> /\ ~db[j].cancel
          /\ mem'[j] = [mem[j] EXCEPT !.cur = idx[j], !.steps[idx[j]] = "running"]
      BY <1>2, <1>11 DEF RunStep, SaveThen, DiskFault, CancelRequested, TypeOK, RunType
    <2>2. /\ mem'[j].state = mem[j].state /\ mem'[j].cur = idx[j]
          /\ mem'[j].steps = [mem[j].steps EXCEPT ![idx[j]] = "running"]
      BY <2>1 DEF TypeOK, RunType, MemType
    <2>3. /\ Clean(j, idx[j])
          /\ \/ mem[j].cur = idx[j]
             \/ mem[j].cur + 1 = idx[j]
          /\ \A k \in Steps(j) : k > mem[j].cur => mem[j].steps[k] = "pending"
          /\ mem[j].state = "running"
      BY <1>1, <2>1 DEF EffectInv, BoundaryInv, HeldInv, SafeRecord, AtBoundary
    <2>4. HeldInv(j)'
      BY <1>2, <2>1, <2>2, <2>3 DEF HeldInv, SafeRecord, Clean
    <2>5. StepInv(j)'
      BY <1>2, <2>1, <2>2, <2>3 DEF StepInv, Clean, AtStep, InStep, Saving
    <2>6. BoundaryInv(j)' /\ SaveInv(j)'
      BY <2>1 DEF BoundaryInv, SaveInv, AtBoundary, Saving
    <2>7. QED BY <1>1, <2>1, <2>4, <2>5, <2>6, EffectMove
  <1>12. CASE DoEffect(j)
    <2>1. /\ pc[j] = "do" /\ pc'[j] = "did" /\ idx[j] \in Steps(j)
          /\ StepKind[j][idx[j]] # "read"
          /\ effects'[j] = [effects[j] EXCEPT ![idx[j]] = @ + 1]
          /\ UNCHANGED <<db, cont, idx, mem>>
      BY <1>12, StepPosition DEF DoEffect, Reads, TypeOK, RunType, WorldType, AtStep, InStep
    <2>2. /\ Clean(j, idx[j]) /\ mem[j].cur = idx[j] /\ mem[j].steps[idx[j]] = "running"
          /\ mem[j].state = "running"
          /\ db[j].cancel \/ (db[j].cur = idx[j] /\ db[j].steps[idx[j]] = "running")
      BY <1>1, <2>1 DEF EffectInv, StepInv, AtStep, InStep
    <2>3. Clean(j, idx[j] + 1)'
      BY <1>2, <2>1, <2>2 DEF Clean
    <2>4. OnceInv(j)'
      BY <1>1, <1>2, <2>1, <2>2 DEF EffectInv, OnceInv, Clean
    <2>5. StoredInv(j)'
      BY <1>1, <1>2, <2>1, <2>2, <2>3 DEF EffectInv, StoredInv, SafeRecord
    <2>6. HeldInv(j)'
      BY <1>1, <1>2, <2>1, <2>2, <2>3 DEF EffectInv, HeldInv, SafeRecord
    <2>7. StepInv(j)'
      BY <2>1, <2>2, <2>3 DEF StepInv, InStep
    <2>8. BoundaryInv(j)' /\ SaveInv(j)' /\ FreshInv(j)'
      BY <1>1, <2>1 DEF BoundaryInv, SaveInv, FreshInv, AtBoundary, Saving
    <2>9. QED BY <2>4, <2>5, <2>6, <2>7, <2>8 DEF EffectInv
  <1>13. CASE DoReturnOk(j)
    <2>1. /\ InStep(j) /\ idx[j] \in Steps(j)
          /\ pc[j] = "did" \/ StepKind[j][idx[j]] = "read"
          /\ pc'[j] = "saveRead" /\ cont'[j] = "boundary" /\ idx'[j] = idx[j] + 1
          /\ UNCHANGED <<db, effects>>
          /\ mem'[j] = [mem[j] EXCEPT !.steps[idx[j]] = "done"]
      BY <1>13, StepPosition DEF DoReturnOk, SaveThen, Reads, TypeOK, RunType, AtStep, InStep
    <2>2. /\ mem'[j].state = mem[j].state /\ mem'[j].cur = mem[j].cur
          /\ mem'[j].steps = [mem[j].steps EXCEPT ![idx[j]] = "done"]
      BY <2>1 DEF TypeOK, RunType, MemType
    <2>3. mem[j].cur = idx[j] /\ mem[j].state = "running" /\ Clean(j, idx[j] + 1)
      BY <1>1, <1>2, <2>1 DEF EffectInv, StepInv, Clean, AtStep
    <2>4. HeldInv(j)'
      BY <1>1, <1>2, <2>1, <2>2, <2>3 DEF EffectInv, HeldInv, SafeRecord, Clean
    <2>5. BoundaryInv(j)'
      BY <1>2, <2>1, <2>2, <2>3 DEF BoundaryInv, Clean
    <2>6. StepInv(j)' /\ SaveInv(j)'
      BY <2>1 DEF StepInv, SaveInv, AtStep, InStep, Saving
    <2>7. QED BY <1>1, <2>1, <2>4, <2>5, <2>6, EffectMove
  <1>14. QED
    BY <1>3, <1>4, <1>5, <1>6, <1>7, <1>8, <1>9, <1>10, <1>11, <1>12, <1>13 DEF RunSteps

\* Resume goes on at a step that has not taken effect: the one it found pending,
\* the one after a finished one, or an interrupted one its check denies.
LEMMA ResumePointSafe ==
  ASSUME TypeOK, NEW j \in Jobs, OnceInv(j), StoredInv(j), db[j].state \in {"pending", "running"},
         NEW p \in ResumePoints(j), p.next <= NSteps[j]
  PROVE  /\ p.next \in Steps(j) /\ p.steps[p.next] = "pending"
         /\ \A i \in Steps(j) : i > p.next => p.steps[i] = "pending"
         /\ db[j].cancel \/ Clean(j, p.next)
  <1> DEFINE c == db[j].cur
             s == db[j].steps
  <1>1. /\ c \in Steps(j) /\ s \in [Steps(j) -> StepState] /\ s[c] # "failed"
        /\ \A i \in Steps(j) : i > c => s[i] = "pending"
        /\ db[j].cancel \/ (Clean(j, c + 1) /\ (s[c] = "pending" => Clean(j, c)))
        /\ NSteps[j] \in Nat
    BY StateNames DEF TypeOK, StoreType, RecordType, StoredInv, SafeRecord
  <1>2. \A i \in Steps(j) : effects[j][i] \in Nat
    BY DEF TypeOK, WorldType
  <1>3. CASE ~Interrupted(j)
    <2>1. p.steps = s /\ p.next = IF s[c] \in {"done", "skipped"} THEN c + 1 ELSE c
      BY <1>3 DEF ResumePoints
    <2>2. s[c] \in {"pending", "done", "skipped"}
      BY <1>1, <1>3 DEF Interrupted, StepState
    <2>3. QED BY <1>1, <2>1, <2>2 DEF Steps, Clean
  <1>4. CASE Interrupted(j)
    <2>1. PICK a \in Answers(j, c) \ {"unknown"} :
             /\ p.steps = [s EXCEPT ![c] = IF a = "yes" THEN "skipped" ELSE "pending"]
             /\ p.next = IF a = "yes" THEN c + 1 ELSE c
      BY <1>4 DEF ResumePoints
    <2>2. a # "yes" => effects[j][c] = 0
      <3>1. StepKind[j][c] \in Kinds
        BY <1>1, JobsAssumption
      <3>2. QED BY <1>1, <1>2, <2>1, <3>1 DEF Answers, Kinds, OnceInv
    <2>3. a # "yes" => db[j].cancel \/ Clean(j, c)
      BY <1>1, <2>2 DEF Clean, Steps
    <2>4. QED BY <1>1, <2>1, <2>3 DEF Steps
  <1>5. QED BY <1>3, <1>4

\* Every step of every actor keeps the record ahead of the world.
LEMMA EffectNext ==
  ASSUME LateEffects = FALSE
  PROVE  TypeOK /\ LifecycleInv /\ LeaseInv /\ RecordAheadOfWorld /\ [Next]_vars
           => RecordAheadOfWorld'
  <1> SUFFICES ASSUME TypeOK, LifecycleInv, LeaseInv, RecordAheadOfWorld, [Next]_vars
               PROVE  late' = {} /\ \A k \in Jobs : EffectInv(k)'
    BY DEF RecordAheadOfWorld
  <1> USE DEF RecordAheadOfWorld, engine, run, world, history
  <1>1. late' = {}
    <2>1. \A J : InFlight(J) = {}
      BY DEF InFlight
    <2>2. ASSUME NEW j \in Jobs, RunSteps(j) PROVE late' = {}
      BY <2>1, <2>2 DEF RunSteps, SaveRead, SaveWrite, SaveConflict, SaveFault, RunBegin, RunSucceed,
         RunStop, RunCancelled, RunStep, DoEffect, DoReturnOk, DoReturnError, DoCancelled,
         DoInterrupted, Exit, GiveUp
    <2>3. CASE Crash
      BY <2>1, <2>3 DEF Crash
    <2>4. ASSUME NEW j \in Jobs, SubmitAcquire(j) \/ SubmitSteps(j) PROVE late' = {}
      BY <2>4 DEF SubmitSteps, SubmitAcquire, SubmitPut, SubmitStart, SubmitWithdraw, Spawn
    <2>5. ASSUME NEW h \in Cancellers, CancelSteps(h) PROVE late' = {}
      BY <2>5 DEF CancelSteps, CancelRead, CancelWrite, CancelRefused, CancelSignal
    <2>6. CASE ResumeSteps
      BY <2>6 DEF ResumeSteps, ResumeUnbuildable, ResumePark, ResumeSucceed, ResumeJob, ResumeReturn
    <2>7. CASE Boot \/ Close \/ CloseReturn \/ UNCHANGED vars
      BY <2>7 DEF Boot, Close, CloseReturn, vars
    <2>8. ASSUME NEW j \in Jobs, NEW i \in Steps(j), LateEffect(j, i) PROVE late' = {}
      BY <2>8 DEF LateEffect
    <2>9. QED BY <2>2, <2>3, <2>4, <2>5, <2>6, <2>7, <2>8 DEF Next
  <1> SUFFICES ASSUME NEW k \in Jobs PROVE EffectInv(k)'
    BY <1>1
  <1>2. EffectInv(k)
    OBVIOUS
  \* What a step of another job, or of no job, leaves of job k.
  <1> DEFINE Same == /\ k \in faulted => k \in faulted'
                     /\ pc'[k] = pc[k] /\ cont'[k] = cont[k] /\ db'[k] = db[k]
                     /\ idx'[k] = idx[k] /\ mem'[k] = mem[k] /\ snap'[k] = snap[k]
                     /\ effects'[k] = effects[k] /\ submit'[k] = submit[k]
  <1>3. CASE Same
    BY <1>2, <1>3, EffectFrame
  <1>4. ASSUME NEW j \in Jobs, RunSteps(j) \/ Spawn(j) PROVE EffectInv(k)'
    <2>1. CASE j = k
      BY <1>2, <1>4, <2>1, EffectRun DEF EffectInv
    <2>2. CASE j # k
      BY <1>3, <1>4, <2>2, RunOwns
    <2>3. QED BY <2>1, <2>2
  <1> DEFINE Idles == pc'[k] = "none"
  \* A job without a goroutine has only its record to keep safe.
  <1>n. ASSUME Idles, k \notin faulted', OnceInv(k)', StoredInv(k)', FreshInv(k)' PROVE EffectInv(k)'
    BY <1>n DEF EffectInv, HeldInv, BoundaryInv, StepInv, SaveInv, AtBoundary, AtStep, InStep, Saving
  <1>5. ASSUME NEW j \in Jobs, SubmitAcquire(j) \/ SubmitPut(j) \/ SubmitStart(j) \/ SubmitWithdraw(j)
        PROVE  EffectInv(k)'
    <2>1. CASE j # k
      BY <1>3, <1>5, <2>1 DEF SubmitAcquire, SubmitPut, SubmitStart, SubmitWithdraw, Register, DiskFault,
         TypeOK, CallType, RunType, StoreType
    <2>2. CASE j = k
      <3> SUFFICES ASSUME k \notin faulted' PROVE EffectInv(k)'
        BY DEF EffectInv
      <3>1. effects' = effects /\ k \notin faulted /\ pc[k] = "none" /\ Clean(k, 1)
        BY <1>2, <1>5, <2>2 DEF SubmitAcquire, SubmitPut, SubmitStart, SubmitWithdraw, DiskFault,
           LifecycleInv, EffectInv, FreshInv
      <3>2. OnceInv(k)' /\ Clean(k, 1)' /\ FreshInv(k)'
        BY <1>2, <3>1 DEF EffectInv, OnceInv, FreshInv, Clean
      <3>3. CASE SubmitAcquire(k)
        <4>1. pc' = pc /\ db' = db
          BY <3>3 DEF SubmitAcquire
        <4>2. StoredInv(k)'
          BY <1>2, <3>1, <4>1 DEF EffectInv, StoredInv, SafeRecord, Clean
        <4>3. QED BY <1>n, <3>1, <3>2, <4>1, <4>2
      <3>4. CASE SubmitPut(k)
        <4>1. /\ pc' = pc /\ db'[k].state = "pending" /\ db'[k].cur = 1
              /\ \A i \in Steps(k) : db'[k].steps[i] = "pending"
          <5>1. pc' = pc /\ db'[k] = FirstRecord(k)
            BY <3>4 DEF SubmitPut, DiskFault, TypeOK, StoreType
          <5>2. QED BY <5>1 DEF FirstRecord, Blank
        <4>2. StoredInv(k)'
          BY <3>2, <4>1, StateNames DEF StoredInv, SafeRecord, Clean, Steps
        <4>3. QED BY <1>n, <3>1, <3>2, <4>1, <4>2
      <3>5. CASE SubmitWithdraw(k)
        <4>1. pc' = pc /\ db'[k].state = "absent"
          BY <3>5 DEF SubmitWithdraw, DiskFault, Blank, TypeOK, StoreType
        <4>2. StoredInv(k)'
          BY <4>1 DEF StoredInv, SafeRecord
        <4>3. QED BY <1>n, <3>1, <3>2, <4>1, <4>2
      <3>6. CASE SubmitStart(k)
        <4>1. /\ pc'[k] = "starting" /\ idx'[k] = 1 /\ db' = db
              /\ mem'[k].state = "pending" /\ mem'[k].cur = 1
              /\ \A i \in Steps(k) : mem'[k].steps[i] = "pending"
          BY <3>6 DEF SubmitStart, Register, Blank, TypeOK, RunType
        <4>2. StoredInv(k)'
          BY <1>2, <3>1, <4>1 DEF EffectInv, StoredInv, SafeRecord, Clean
        <4>3. HeldInv(k)' /\ BoundaryInv(k)'
          BY <3>2, <4>1, StateNames DEF HeldInv, BoundaryInv, SafeRecord, Clean, Steps
        <4>4. StepInv(k)' /\ SaveInv(k)'
          BY <4>1 DEF StepInv, SaveInv, AtStep, InStep, Saving
        <4>5. QED BY <3>2, <4>2, <4>3, <4>4 DEF EffectInv
      <3>7. QED BY <1>5, <2>2, <3>3, <3>4, <3>5, <3>6
    <2>3. QED BY <2>1, <2>2
  <1>6. ASSUME NEW h \in Cancellers, CancelSteps(h) PROVE EffectInv(k)'
    <2>1. CASE CancelWrite(h) /\ handler[h].job = k /\ k \notin faulted
      <3>1. /\ db'[k].cancel = TRUE /\ db'[k].rev = db[k].rev + 1 /\ db'[k].cur = db[k].cur
            /\ db'[k].steps = db[k].steps
            /\ db'[k].state \in {db[k].state, "cancelled"}
            /\ UNCHANGED <<pc, cont, idx, mem, snap, effects, submit>>
        <4>1. /\ \E parked \in BOOLEAN : db'[k] = Flagged(db[k], parked)
              /\ UNCHANGED <<pc, cont, idx, mem, snap, effects, submit>>
          BY <2>1 DEF CancelWrite, TypeOK, StoreType
        <4>2. db[k] \in RecordType(k)
          BY DEF TypeOK, StoreType
        <4>3. QED BY <4>1, <4>2 DEF Flagged, RecordType
      <3>2. OnceInv(k)' /\ FreshInv(k)'
        BY <1>2, <2>1, <3>1 DEF EffectInv, OnceInv, FreshInv, Clean
      <3>3. StoredInv(k)' /\ HeldInv(k)'
        BY <1>2, <2>1, <3>1 DEF EffectInv, StoredInv, HeldInv, SafeRecord
      <3>4. BoundaryInv(k)' /\ StepInv(k)'
        BY <1>2, <2>1, <3>1 DEF EffectInv, BoundaryInv, StepInv, Clean, AtBoundary, AtStep, InStep, Saving
      <3>5. snap[k].rev \in Nat /\ db[k].rev \in Nat
        BY DEF TypeOK, RunType, StoreType, RecordType
      <3>6. SaveInv(k)'
        BY <1>2, <2>1, <3>1, <3>5 DEF EffectInv, SaveInv
      <3>7. QED BY <3>2, <3>3, <3>4, <3>6 DEF EffectInv
    <2>2. CASE ~(CancelWrite(h) /\ handler[h].job = k)
      <3>1. CASE CancelRefused(h)
        <4>1. db'[k] = db[k] \/ k \in faulted'
          BY <3>1 DEF CancelRefused, DiskFault, TypeOK, StoreType
        <4>2. CASE k \in faulted'
          BY <4>2 DEF EffectInv
        <4>3. CASE db'[k] = db[k]
          BY <1>3, <3>1, <4>3 DEF CancelRefused, DiskFault
        <4>4. QED BY <4>1, <4>2, <4>3
      <3>2. CASE ~CancelRefused(h)
        BY <1>3, <1>6, <2>2, <3>2 DEF CancelSteps, CancelRead, CancelWrite, CancelSignal,
           TypeOK, StoreType
      <3>3. QED BY <3>1, <3>2
    <2>3. CASE CancelWrite(h) /\ k \in faulted
      BY <2>3 DEF CancelWrite, EffectInv
    <2>4. QED BY <2>1, <2>2, <2>3
  <1>7. ASSUME NEW j \in todo,
               \/ ResumeUnbuildable(j) \/ ResumePark(j)
               \/ \E p \in ResumePoints(j) : ResumeSucceed(j, p) \/ ResumeJob(j, p)
        PROVE  EffectInv(k)'
    <2> j \in Jobs /\ pc[j] = "none" /\ submit[j] = "over" /\ db[j].state \in {"pending", "running"}
      BY DEF LifecycleInv, TypeOK, EngineType
    <2>1. CASE j # k
      <3>1. CASE ResumeUnbuildable(j) \/ ResumePark(j)
        BY <1>3, <2>1, <3>1 DEF ResumeUnbuildable, ResumePark, Park, SaveAlone, DiskFault, TypeOK, StoreType
      <3>2. ASSUME NEW p \in ResumePoints(j), ResumeSucceed(j, p) PROVE EffectInv(k)'
        BY <1>3, <2>1, <3>2 DEF ResumeSucceed, SaveAlone, DiskFault, TypeOK, StoreType
      <3>3. ASSUME NEW p \in ResumePoints(j), ResumeJob(j, p) PROVE EffectInv(k)'
        BY <1>3, <2>1, <3>3 DEF ResumeJob, Park, SaveAlone, Register, DiskFault, TypeOK, StoreType, RunType
      <3>4. QED BY <1>7, <3>1, <3>2, <3>3
    <2>2. CASE j = k
      <3> SUFFICES ASSUME k \notin faulted' PROVE EffectInv(k)'
        BY DEF EffectInv
      <3>1. /\ effects' = effects /\ submit' = submit /\ k \notin faulted
            /\ db'[k].cancel = db[k].cancel
        <4>1. effects' = effects /\ submit' = submit
          BY <1>7 DEF ResumeUnbuildable, ResumePark, ResumeSucceed, ResumeJob
        <4>2. \E m : SaveAlone(k, m)
          BY <1>7, <2>2 DEF ResumeUnbuildable, ResumePark, ResumeSucceed, ResumeJob, Park
        <4>3. QED BY <4>1, <4>2 DEF SaveAlone, DiskFault, Merge, TypeOK, StoreType
      <3>2. OnceInv(k)' /\ FreshInv(k)'
        BY <1>2, <2>2, <3>1 DEF EffectInv, OnceInv, FreshInv
      <3>3. CASE pc' = pc
        <4>1. db'[k].state \in {"parked", "succeeded"}
          BY <1>7, <2>2, <3>3 DEF ResumeUnbuildable, ResumePark, ResumeSucceed, ResumeJob, Park, SaveAlone,
             DiskFault, Merge, Register, InRecord, TypeOK, StoreType, RunType
        <4>2. StoredInv(k)'
          BY <4>1 DEF StoredInv, SafeRecord
        <4>3. QED BY <1>n, <2>2, <3>2, <3>3, <4>2
      <3>4. ASSUME NEW p \in ResumePoints(k), ResumeJob(k, p), CanAcquire(k) PROVE EffectInv(k)'
        <4>1. /\ pc'[k] = "begin" /\ idx'[k] = p.next /\ p.next <= NSteps[k]
              /\ mem'[k] = [state |-> db[k].state, steps |-> p.steps, cur |-> p.next]
              /\ db'[k] = Merge(db[k], mem'[k])
          BY <3>4 DEF ResumeJob, Register, SaveAlone, DiskFault, TypeOK, StoreType, RunType
        <4>2. /\ p.next \in Steps(k) /\ p.steps[p.next] = "pending"
              /\ \A i \in Steps(k) : i > p.next => p.steps[i] = "pending"
              /\ db[k].cancel \/ Clean(k, p.next)
          BY <1>2, <2>2, <3>1, <4>1, ResumePointSafe DEF EffectInv
        <4>3. Clean(k, p.next)' <=> Clean(k, p.next)
          BY <3>1 DEF Clean
        <4>4. StoredInv(k)' /\ HeldInv(k)'
          BY <3>1, <4>1, <4>2, <4>3 DEF StoredInv, HeldInv, SafeRecord, Merge, Clean, Steps
        <4>5. BoundaryInv(k)'
          BY <2>2, <3>1, <4>1, <4>2, <4>3 DEF BoundaryInv
        <4>6. StepInv(k)' /\ SaveInv(k)'
          BY <4>1 DEF StepInv, SaveInv, AtStep, InStep, Saving
        <4>7. QED BY <3>2, <4>4, <4>5, <4>6 DEF EffectInv
      <3>5. QED
        BY <1>7, <2>2, <3>3, <3>4 DEF ResumeUnbuildable, ResumePark, ResumeSucceed, ResumeJob, Park
    <2>3. QED BY <2>1, <2>2
  <1>8. CASE Crash
    <2>1. pc'[k] = "none" /\ db' = db /\ effects' = effects /\ faulted' = faulted
          /\ (submit[k] = "over" => submit'[k] = "over")
      BY <1>8 DEF Crash, TypeOK, CallType
    <2>2. QED BY <1>2, <2>1 DEF EffectInv, OnceInv, StoredInv, HeldInv, SafeRecord, BoundaryInv, StepInv,
       SaveInv, FreshInv, Clean, AtBoundary, AtStep, InStep, Saving
  <1>9. CASE Boot \/ Close \/ CloseReturn \/ ResumeReturn \/ UNCHANGED vars
    BY <1>3, <1>9 DEF Boot, Close, CloseReturn, ResumeReturn, vars
  <1>10. ASSUME NEW j \in Jobs, NEW i \in Steps(j), LateEffect(j, i) PROVE EffectInv(k)'
    BY <1>10 DEF LateEffect
  <1>11. \A j \in Jobs : ResumeUnbuildable(j) \/ ResumePark(j) => j \in todo
    BY DEF ResumeUnbuildable, ResumePark
  <1>12. QED
    BY <1>4, <1>5, <1>6, <1>7, <1>8, <1>9, <1>10, <1>11 DEF Next, SubmitSteps, ResumeSteps

\* Nothing has happened before the first start.
LEMMA EffectInit == Init => RecordAheadOfWorld
  BY StateNames DEF Init, RecordAheadOfWorld, EffectInv, OnceInv, StoredInv, HeldInv, SafeRecord, Blank,
     BoundaryInv, StepInv, SaveInv, FreshInv, Clean, AtBoundary, AtStep, InStep, Saving

\* The engine's reason to exist, for any number of jobs, steps, cancels, crashes
\* and restarts: when a request does not outlive its call, no step of a job
\* whose progress records the disk accepted takes effect twice.
THEOREM EffectsAtMostOnce ==
  ASSUME LateEffects = FALSE
  PROVE  Spec => []NoDoubledEffect
  <1>1. RecordAheadOfWorld => NoDoubledEffect
    BY DEF RecordAheadOfWorld, EffectInv, OnceInv, NoDoubledEffect
  <1>2. QED
    BY <1>1, TypeInit, TypeNext, LifecycleInit, LifecycleNext, LeaseInit, LeaseNext,
       EffectInit, EffectNext, PTL DEF Spec

-----------------------------------------------------------------------------
\* What may become of a record while calls to Cancel are on their way: nothing, a
\* withdrawal, or a new revision that keeps the flag.
Rewritten(j) ==
    \/ db'[j] = db[j]
    \/ db'[j].state = "absent"
    \/ /\ db[j].state # "absent"
       /\ db'[j].rev = db[j].rev + 1
       /\ db[j].cancel => db'[j].cancel

\* A job that nobody touched keeps its part of StoreInv.
LEMMA RecordFrame ==
  ASSUME NEW j \in Jobs, RecordInv(j), j \in ctxDone' => j \in ctxDone,
         pc'[j] = pc[j], cont'[j] = cont[j], db'[j] = db[j],
         mem'[j] = mem[j], snap'[j] = snap[j], submit'[j] = submit[j]
  PROVE  RecordInv(j)'
  BY DEF RecordInv, SaveInv, AtBoundary, AtStep, InStep, Saving

\* A call to Cancel under way is not misled by what others write.
LEMMA HandlerFrame ==
  ASSUME TypeOK, NEW h \in Cancellers, HandlerInv(h), handler'[h] = handler[h],
         handler[h].pc \in {"read", "stored"} => Rewritten(handler[h].job)
  PROVE  HandlerInv(h)'
  <1>1. CASE handler[h].pc \notin {"read", "stored"}
    BY <1>1 DEF HandlerInv
  <1>2. CASE handler[h].pc \in {"read", "stored"}
    <2> DEFINE j == handler[h].job
    <2>1. j \in Jobs /\ db[j].rev \in Nat /\ handler[h].rev \in Nat
      BY <1>2, RecordTypes, StateNames DEF TypeOK, CallType, HandlerType, StoreType
    <2>2. QED BY <1>2, <2>1 DEF HandlerInv, Rewritten
  <1>3. QED BY <1>1, <1>2

\* Every step of a job's goroutine keeps what its record says of it.
LEMMA RecordRun ==
  ASSUME TypeOK, LifecycleInv, LeaseInv, NEW j \in Jobs, RecordInv(j), RunSteps(j) \/ Spawn(j)
  PROVE  /\ RecordInv(j)' /\ Rewritten(j)
         /\ ctxDone' \subseteq ctxDone
  <1> USE DEF engine, run, world, history
  <1>1. submit' = submit /\ pc[j] # "none" /\ submit[j] = "over"
    BY RunOwns DEF LifecycleInv
  <1>2. /\ db[j] \in RecordType(j) /\ db[j].rev \in Nat /\ db[j].cancel \in BOOLEAN
        /\ snap[j].rev \in Nat /\ snap[j].cancel \in BOOLEAN
        /\ mem[j] \in MemType(j) /\ mem[j].state \in JobState
        /\ j \in DOMAIN pc /\ j \in DOMAIN cont /\ j \in DOMAIN mem /\ j \in DOMAIN db /\ j \in DOMAIN snap
    BY RecordTypes, MemTypes, StateNames DEF TypeOK, StoreType, RunType
  <1>3. ASSUME db' = db, pc'[j] = "exit", ctxDone' = ctxDone PROVE RecordInv(j)' /\ Rewritten(j)
    BY <1>1, <1>3 DEF RecordInv, Rewritten, SaveInv, AtBoundary, AtStep, InStep, Saving, Open
  \* The goroutine enters a save.
  <1>4. ASSUME NEW m, NEW next \in {"boundary", "do", "exit"}, SaveThen(j, m, next),
               pc[j] # "exit", db' = db \/ db'[j] = db[j], ctxDone' = ctxDone,
               IF next = "exit" THEN m.state \in Terminal ELSE m.state = "running"
        PROVE  RecordInv(j)' /\ Rewritten(j)
    <2>1. pc'[j] = "saveRead" /\ cont'[j] = next /\ mem'[j] = m /\ db'[j] = db[j]
      BY <1>2, <1>4 DEF SaveThen
    <2>2. QED BY <1>1, <1>4, <2>1 DEF RecordInv, Rewritten, SaveInv, AtBoundary, AtStep, InStep, Saving
  \* A save ends.
  <1>5. ASSUME pc'[j] = cont[j], Saving(j), UNCHANGED <<mem, cont, ctxDone>>,
               \/ db'[j] = db[j]
               \/ pc[j] = "saveWrite" /\ db[j].rev = snap[j].rev /\ db'[j] = Merge(snap[j], mem[j])
        PROVE  RecordInv(j)' /\ Rewritten(j)
    <2>1. cont[j] \in {"boundary", "do", "exit"}
      BY <1>5 DEF LeaseInv
    <2>2. db'[j] = db[j] \/ (/\ db'[j].state = mem[j].state /\ db'[j].rev = db[j].rev + 1
                             /\ db'[j].cancel = db[j].cancel)
      BY <1>5 DEF Merge, RecordInv, SaveInv
    <2>3. Rewritten(j)
      BY <1>1, <1>2, <1>5, <2>2 DEF Rewritten, RecordInv, Saving, Open
    <2>4. IF cont[j] = "exit" THEN mem[j].state \in Terminal ELSE mem[j].state = "running"
      BY <1>5 DEF RecordInv
    <2>5. db'[j].state # "absent" /\ db'[j].rev # 0
      BY <1>2, <1>5, <2>2, <2>4 DEF RecordInv, Saving, Open, Terminal
    <2>6. (cont[j] # "exit" => db'[j].state \in Open) /\ (db[j].cancel => db'[j].cancel)
      BY <1>5, <2>2, <2>4 DEF RecordInv, Saving, Open
    <2>7. pc[j] # "none" /\ (j \in ctxDone => db[j].cancel)
      BY <1>5 DEF RecordInv, Saving
    <2>8. QED BY <1>1, <1>5, <2>1, <2>3, <2>4, <2>5, <2>6, <2>7
                 DEF RecordInv, SaveInv, AtBoundary, AtStep, InStep, Saving, Open
  <1>6. CASE Spawn(j)
    BY <1>1, <1>2, <1>6 DEF Spawn, RecordInv, Rewritten, SaveInv, AtBoundary, AtStep, InStep, Saving
  <1>7. CASE SaveRead(j)
    BY <1>1, <1>2, <1>7 DEF SaveRead, RecordInv, Rewritten, SaveInv, AtBoundary, AtStep, InStep, Saving
  <1>8. CASE SaveWrite(j)
    BY <1>2, <1>5, <1>8 DEF SaveWrite, SaveOver, Saving
  <1>9. CASE SaveConflict(j)
    <2>1. CASE tries[j] = 0 /\ pc' = [pc EXCEPT ![j] = "saveRead"]
      BY <1>1, <1>2, <1>9, <2>1 DEF SaveConflict, RecordInv, Rewritten, SaveInv, AtBoundary, AtStep,
         InStep, Saving
    <2>2. CASE SaveOver(j)
      BY <1>2, <1>5, <1>9, <2>2 DEF SaveConflict, SaveOver, Saving
    <2>3. QED BY <1>9, <2>1, <2>2 DEF SaveConflict
  <1>10. CASE SaveFault(j)
    <2>1. \/ db'[j] = db[j]
          \/ pc[j] = "saveWrite" /\ db[j].rev = snap[j].rev /\ db'[j] = Merge(snap[j], mem[j])
      BY <1>2, <1>10 DEF SaveFault, DiskFault
    <2>2. QED BY <1>2, <1>5, <1>10, <2>1 DEF SaveFault, SaveOver, Saving
  <1>11. CASE RunBegin(j)
    BY <1>2, <1>4, <1>11 DEF RunBegin, MemType
  <1>12. CASE RunSucceed(j)
    BY <1>2, <1>4, <1>12 DEF RunSucceed, Finish, Terminal, MemType
  <1>13. CASE RunCancelled(j)
    BY <1>2, <1>4, <1>13 DEF RunCancelled, Finish, Terminal, MemType
  <1>14. CASE RunStop(j)
    BY <1>2, <1>3, <1>14 DEF RunStop
  <1>15. CASE RunStep(j)
    <2>1. mem[j].state = "running" /\ db'[j] = db[j]
      BY <1>2, <1>15 DEF RunStep, RecordInv, DiskFault
    <2>2. QED BY <1>2, <1>4, <1>15, <2>1 DEF RunStep, MemType
  <1>16. CASE DoEffect(j)
    BY <1>1, <1>2, <1>16 DEF DoEffect, RecordInv, Rewritten, SaveInv, AtBoundary, AtStep, InStep, Saving
  <1>17. CASE DoReturnOk(j)
    <2>1. mem[j].state = "running"
      BY <1>17 DEF DoReturnOk, RecordInv, AtStep, InStep
    <2>2. QED BY <1>2, <1>4, <1>17, <2>1 DEF DoReturnOk, MemType
  <1>18. CASE DoReturnError(j)
    BY <1>2, <1>4, <1>18 DEF DoReturnError, Finish, Terminal, MemType
  <1>19. CASE DoCancelled(j)
    BY <1>2, <1>4, <1>19 DEF DoCancelled, Finish, Terminal, MemType
  <1>20. CASE DoInterrupted(j)
    BY <1>2, <1>3, <1>20 DEF DoInterrupted
  <1>21. CASE Exit(j)
    BY <1>1, <1>2, <1>21 DEF Exit, RecordInv, Rewritten, SaveInv, AtBoundary, AtStep, InStep, Saving
  <1>22. ctxDone' \subseteq ctxDone
    BY DEF RunSteps, SaveRead, SaveWrite, SaveConflict, SaveFault, RunBegin, RunSucceed, RunStop,
       RunCancelled, RunStep, DoEffect, DoReturnOk, DoReturnError, DoCancelled, DoInterrupted,
       Exit, Spawn
  <1>23. QED
    BY <1>6, <1>7, <1>8, <1>9, <1>10, <1>11, <1>12, <1>13, <1>14, <1>15, <1>16, <1>17, <1>18,
       <1>19, <1>20, <1>21, <1>22 DEF RunSteps

\* Every step of every actor keeps StoreInv.
LEMMA StoreNext == TypeOK /\ LifecycleInv /\ LeaseInv /\ StoreInv /\ [Next]_vars => StoreInv'
  <1> SUFFICES ASSUME TypeOK, LifecycleInv, LeaseInv, StoreInv, [Next]_vars PROVE StoreInv'
    OBVIOUS
  <1> USE DEF engine, run, world, history
  <1> DEFINE Others(j) == \A k \in Jobs \ {j} :
                /\ k \in ctxDone' => k \in ctxDone
                /\ pc'[k] = pc[k] /\ cont'[k] = cont[k] /\ db'[k] = db[k]
                /\ mem'[k] = mem[k] /\ snap'[k] = snap[k] /\ submit'[k] = submit[k]
  <1>0. \A j \in Jobs : /\ RecordInv(j) /\ db[j] \in RecordType(j)
                        /\ db[j].rev \in Nat /\ db[j].cancel \in BOOLEAN
    BY RecordTypes, StateNames DEF StoreInv, TypeOK, StoreType
  \* One job moves, and no call to Cancel does.
  <1>1. ASSUME NEW j \in Jobs, Others(j), handler' = handler, RecordInv(j)',
               (\E h \in Cancellers : handler[h].pc \in {"read", "stored"} /\ handler[h].job = j)
                  => Rewritten(j)
        PROVE  StoreInv'
    <2>1. ASSUME NEW k \in Jobs PROVE RecordInv(k)'
      BY <1>0, <1>1, RecordFrame
    <2>2. ASSUME NEW h \in Cancellers PROVE HandlerInv(h)'
      <3>1. ASSUME handler[h].pc \in {"read", "stored"} PROVE Rewritten(handler[h].job)
        BY <1>1, <3>1 DEF TypeOK, CallType, Rewritten
      <3>2. QED BY <1>1, <3>1, HandlerFrame DEF StoreInv
    <2>3. QED BY <2>1, <2>2 DEF StoreInv
  <1>2. ASSUME NEW j \in Jobs, RunSteps(j) \/ Spawn(j) PROVE StoreInv'
    <2>1. Others(j) /\ handler' = handler
      BY <1>0, <1>2, RunOwns, RecordRun
    <2>2. QED BY <1>0, <1>1, <1>2, <2>1, RecordRun
  <1>3. ASSUME NEW j \in Jobs, SubmitAcquire(j) PROVE StoreInv'
    <2>1. RecordInv(j)' /\ Others(j) /\ handler' = handler /\ db' = db
      BY <1>0, <1>3 DEF SubmitAcquire, RecordInv, SaveInv, AtBoundary, AtStep, InStep, Saving,
         TypeOK, CallType
    <2>2. QED BY <1>1, <2>1 DEF Rewritten
  <1>4. ASSUME NEW j \in Jobs, SubmitPut(j) PROVE StoreInv'
    <2>1. pc[j] = "none" /\ submit[j] = "leased" /\ db[j].state = "absent" /\ ~db[j].cancel
      BY <1>0, <1>4 DEF SubmitPut, LifecycleInv, RecordInv
    <2>2. /\ Others(j) /\ handler' = handler /\ pc' = pc /\ ctxDone' = ctxDone
          /\ db'[j] = FirstRecord(j) \/ (db'[j] = db[j] /\ submit'[j] = "over")
          /\ submit'[j] \in {"stored", "over"}
      BY <1>4 DEF SubmitPut, DiskFault, TypeOK, CallType, StoreType
    <2>3. FirstRecord(j).state = "pending" /\ FirstRecord(j).rev = 1
      BY DEF FirstRecord, Blank
    <2>4. RecordInv(j)'
      BY <1>0, <2>1, <2>2, <2>3 DEF RecordInv, SaveInv, AtBoundary, AtStep, InStep, Saving
    <2>5. \A h \in Cancellers : handler[h].pc \in {"read", "stored"} => handler[h].job # j
      BY <2>1 DEF LifecycleInv
    <2>6. QED BY <1>1, <2>2, <2>4, <2>5
  <1>5. ASSUME NEW j \in Jobs, SubmitStart(j) PROVE StoreInv'
    <2>1. pc[j] = "none" /\ db[j].state = "pending" /\ j \notin ctxDone
      BY <1>0, <1>5 DEF SubmitStart, LifecycleInv, RecordInv
    <2>2. /\ Others(j) /\ handler' = handler /\ db' = db /\ ctxDone' = ctxDone
          /\ submit'[j] = "over" /\ pc'[j] = "starting" /\ mem'[j].state = "pending"
      BY <1>5 DEF SubmitStart, Register, TypeOK, CallType, RunType
    <2>3. RecordInv(j)'
      BY <1>0, <2>1, <2>2 DEF RecordInv, SaveInv, AtBoundary, AtStep, InStep, Saving, Open
    <2>4. QED BY <1>1, <2>2, <2>3 DEF Rewritten
  <1>6. ASSUME NEW j \in Jobs, SubmitWithdraw(j) PROVE StoreInv'
    <2>1. pc[j] = "none" /\ j \notin ctxDone
      BY <1>0, <1>6 DEF SubmitWithdraw, LifecycleInv, RecordInv
    <2>2. /\ Others(j) /\ handler' = handler /\ pc' = pc /\ ctxDone' = ctxDone
          /\ db'[j] = Blank(j) \/ db'[j] = db[j]
          /\ submit'[j] = "over"
      BY <1>6 DEF SubmitWithdraw, DiskFault, TypeOK, CallType, StoreType
    <2>3. Blank(j).state = "absent" /\ Blank(j).rev = 0
      BY DEF Blank
    <2>4. RecordInv(j)' /\ Rewritten(j)
      BY <1>0, <2>1, <2>2, <2>3 DEF RecordInv, Rewritten, SaveInv, AtBoundary, AtStep, InStep, Saving
    <2>5. QED BY <1>1, <2>2, <2>4
  \* Resume writes the record of a job nobody runs.
  <1>7. ASSUME NEW j \in todo,
               \/ ResumeUnbuildable(j) \/ ResumePark(j)
               \/ \E p \in ResumePoints(j) : ResumeSucceed(j, p) \/ ResumeJob(j, p)
        PROVE  StoreInv'
    <2>1. /\ j \in Jobs /\ pc[j] = "none" /\ submit[j] = "over" /\ db[j].state \in Open
          /\ j \notin ctxDone
      BY <1>0 DEF LifecycleInv, TypeOK, EngineType, RecordInv, Open
    <2>2. PICK m : /\ SaveAlone(j, m)
                   /\ m.state \in {"parked", "succeeded", db[j].state}
                   /\ \/ pc' = pc
                      \/ pc'[j] = "begin" /\ mem'[j] = m /\ m.state = db[j].state
      <3>1. CASE ResumeUnbuildable(j) \/ ResumePark(j)
        <4>1. InRecord(j) \in MemType(j)
          BY <2>1, InRecordTypes DEF TypeOK
        <4>2. [InRecord(j) EXCEPT !.state = "parked"].state = "parked"
          BY <4>1 DEF MemType
        <4>3. QED BY <3>1, <4>2 DEF ResumeUnbuildable, ResumePark, Park
      <3>2. ASSUME NEW p \in ResumePoints(j), ResumeSucceed(j, p)
            PROVE  SaveAlone(j, [state |-> "succeeded", steps |-> p.steps, cur |-> db[j].cur]) /\ pc' = pc
        BY <3>2 DEF ResumeSucceed
      <3>3. ASSUME NEW p \in ResumePoints(j), ResumeJob(j, p)
            PROVE  LET m == [state |-> db[j].state, steps |-> p.steps, cur |-> p.next]
                   IN  \/ SaveAlone(j, m) /\ pc'[j] = "begin" /\ mem'[j] = m
                       \/ SaveAlone(j, [m EXCEPT !.state = "parked"]) /\ pc' = pc
        BY <2>1, <3>3 DEF ResumeJob, Park, Register, TypeOK, RunType
      <3>4. ASSUME NEW p \in ResumePoints(j)
            PROVE  LET m == [state |-> db[j].state, steps |-> p.steps, cur |-> p.next]
                   IN  /\ m.state = db[j].state
                       /\ [m EXCEPT !.state = "parked"].state = "parked"
        OBVIOUS
      <3>5. ASSUME NEW p \in ResumePoints(j)
            PROVE  [state |-> "succeeded", steps |-> p.steps, cur |-> db[j].cur].state = "succeeded"
        OBVIOUS
      <3>6. ASSUME NEW p \in ResumePoints(j), ResumeJob(j, p)
            PROVE  \E m : /\ SaveAlone(j, m)
                          /\ m.state \in {"parked", "succeeded", db[j].state}
                          /\ \/ pc' = pc
                             \/ pc'[j] = "begin" /\ mem'[j] = m /\ m.state = db[j].state
        BY <3>3, <3>4, <3>6
      <3>7. QED BY <1>7, <3>1, <3>2, <3>5, <3>6
    <2>3. \/ db'[j] = db[j]
          \/ /\ db'[j].state = m.state /\ db'[j].rev = db[j].rev + 1
             /\ db'[j].cancel = db[j].cancel
      BY <2>1, <2>2 DEF SaveAlone, DiskFault, Merge, TypeOK, StoreType
    <2>4. /\ Others(j) /\ handler' = handler /\ submit' = submit /\ ctxDone' = ctxDone
      BY ZenonT(60), <1>7, <2>1 DEF ResumeUnbuildable, ResumePark, ResumeSucceed, ResumeJob, Park, SaveAlone,
         DiskFault, Register, TypeOK, StoreType, RunType
    <2>5. Rewritten(j)
      BY <2>1, <2>3 DEF Rewritten, Open
    <2>6. RecordInv(j)'
      <3>1. CASE pc' = pc
        BY <1>0, <2>1, <2>2, <2>3, <2>4, <3>1
           DEF RecordInv, SaveInv, AtBoundary, AtStep, InStep, Saving, Open
      <3>2. CASE pc'[j] = "begin" /\ mem'[j] = m /\ m.state = db[j].state
        BY <1>0, <2>1, <2>3, <2>4, <3>2
           DEF RecordInv, SaveInv, AtBoundary, AtStep, InStep, Saving, Open
      <3>3. QED BY <2>2, <3>1, <3>2
    <2>7. QED BY <1>1, <2>1, <2>4, <2>5, <2>6
  <1>8. ASSUME NEW h \in Cancellers, CancelSteps(h) PROVE StoreInv'
    <2>1. \A g \in Cancellers \ {h} : handler'[g] = handler[g]
      BY <1>8 DEF CancelSteps, CancelRead, CancelWrite, CancelRefused, CancelSignal, TypeOK, CallType
    <2>2. ASSUME NEW j \in Jobs, CancelRead(h, j) PROVE StoreInv'
      <3>1. /\ db' = db /\ UNCHANGED <<pc, cont, mem, snap, submit, ctxDone>>
            /\ handler'[h].pc = "read" /\ handler'[h].job = j /\ handler'[h].rev = db[j].rev
            /\ handler'[h].state = db[j].state
        BY <2>2 DEF CancelRead, TypeOK, CallType
      <3>2. \A k \in Jobs : RecordInv(k)'
        BY <1>0, <3>1, RecordFrame
      <3>3. db[j].state \in Open \cup {"parked"} /\ db[j].rev >= 1
        <4>1. db[j].state \in JobState /\ db[j].state \notin Terminal \cup {"absent"}
          BY <1>0, <2>2, RecordTypes, StateNames DEF CancelRead
        <4>2. QED BY <1>0, <4>1 DEF JobState, Open, RecordInv
      <3>4. HandlerInv(h)'
        BY <1>0, <3>1, <3>3 DEF HandlerInv
      <3>5. \A g \in Cancellers \ {h} : HandlerInv(g)'
        BY <2>1, <3>1, HandlerFrame DEF StoreInv, Rewritten
      <3>6. QED BY <3>2, <3>4, <3>5 DEF StoreInv
    \* The flag is written, by a call that succeeds or by one that is told it failed.
    <2>3. ASSUME NEW j \in Jobs, j = handler[h].job, handler[h].pc = "read",
                 db[j].rev = handler[h].rev,
                 db'[j] = Flagged(db[j], handler[h].state = "parked"),
                 \A k \in Jobs \ {j} : db'[k] = db[k],
                 handler'[h].pc \in {"stored", "over"}, handler'[h].job = j,
                 UNCHANGED <<pc, cont, mem, snap, submit, ctxDone>>
          PROVE  StoreInv'
      <3>1. /\ db'[j].cancel = TRUE /\ db'[j].rev = db[j].rev + 1
            /\ db'[j].state = IF handler[h].state = "parked" THEN "cancelled" ELSE db[j].state
        BY <1>0, <2>3 DEF Flagged, RecordType
      <3>2. db[j].state = handler[h].state /\ db[j].state \in Open \cup {"parked"}
        <4>1. handler[h].rev >= 1 /\ handler[h].rev \in Nat /\ HandlerInv(h)
          BY <2>3 DEF StoreInv, HandlerInv, TypeOK, CallType, HandlerType
        <4>2. db[j].state # "absent"
          BY <1>0, <2>3, <4>1 DEF RecordInv
        <4>3. QED BY <2>3, <4>1, <4>2 DEF HandlerInv
      <3>3. RecordInv(j)'
        <4>1. SaveInv(j)'
          <5>1. snap[j].rev \in Nat
            BY DEF TypeOK, RunType
          <5>2. QED BY <1>0, <2>3, <3>1, <5>1 DEF RecordInv, SaveInv
        <4>2. submit[j] \in {"stored", "over"}
          BY <2>3 DEF LifecycleInv
        <4>3. QED BY <1>0, <2>3, <3>1, <3>2, <4>1, <4>2
                     DEF RecordInv, AtBoundary, AtStep, InStep, Saving, Open
      <3>4. \A k \in Jobs \ {j} : RecordInv(k)'
        BY <1>0, <2>3, RecordFrame
      <3>5. Rewritten(j) /\ \A k \in Jobs : Rewritten(k)
        BY <2>3, <3>1, <3>2 DEF Rewritten, Open
      <3>6. \A g \in Cancellers \ {h} : HandlerInv(g)'
        BY <2>1, <3>5, HandlerFrame DEF StoreInv, TypeOK, CallType
      <3>7. HandlerInv(h)'
        BY <2>3, <3>1 DEF HandlerInv
      <3>8. QED BY <3>3, <3>4, <3>6, <3>7 DEF StoreInv
    <2>4. ASSUME db' = db, handler'[h].pc = "over",
                 UNCHANGED <<pc, cont, mem, snap, submit, ctxDone>>
          PROVE  StoreInv'
      <3>1. \A k \in Jobs : RecordInv(k)'
        BY <1>0, <2>4, RecordFrame
      <3>2. \A g \in Cancellers \ {h} : HandlerInv(g)'
        BY <2>1, <2>4, HandlerFrame DEF StoreInv, Rewritten
      <3>3. QED BY <2>4, <3>1, <3>2 DEF StoreInv, HandlerInv
    <2>5. CASE CancelWrite(h)
      <3>1. handler[h].job \in Jobs /\ handler[h].pc = "read"
        BY <2>5 DEF CancelWrite, TypeOK, CallType
      <3>2. /\ db'[handler[h].job] = Flagged(db[handler[h].job], handler[h].state = "parked")
            /\ \A k \in Jobs \ {handler[h].job} : db'[k] = db[k]
            /\ db[handler[h].job].rev = handler[h].rev
        BY <2>5, <3>1 DEF CancelWrite, TypeOK, StoreType
      <3>3. handler'[h].pc = "stored" /\ handler'[h].job = handler[h].job
        BY <2>5 DEF CancelWrite, TypeOK, CallType, HandlerType
      <3>4. QED BY <2>3, <2>5, <3>1, <3>2, <3>3 DEF CancelWrite
    <2>6. CASE CancelRefused(h)
      <3>1. handler[h].job \in Jobs /\ handler[h].pc = "read"
        BY <2>6 DEF CancelRefused, TypeOK, CallType
      <3>2. handler'[h].pc = "over" /\ handler'[h].job = handler[h].job
        BY <2>6 DEF CancelRefused, TypeOK, CallType, HandlerType
      <3>3. \/ db' = db
            \/ /\ db'[handler[h].job] = Flagged(db[handler[h].job], handler[h].state = "parked")
               /\ \A k \in Jobs \ {handler[h].job} : db'[k] = db[k]
               /\ db[handler[h].job].rev = handler[h].rev
        BY <2>6, <3>1 DEF CancelRefused, DiskFault, TypeOK, StoreType
      <3>4. QED BY <2>3, <2>4, <2>6, <3>1, <3>2, <3>3 DEF CancelRefused
    <2>7. CASE CancelSignal(h)
      <3>0. PICK j \in Jobs : j = handler[h].job
        BY <2>7 DEF CancelSignal, TypeOK, CallType
      <3>1. /\ handler[h].pc = "stored" /\ db' = db
            /\ handler'[h].pc = "over" /\ UNCHANGED <<pc, cont, mem, snap, submit>>
            /\ ctxDone' = IF pc[j] # "none" THEN ctxDone \cup {j} ELSE ctxDone
        BY <2>7, <3>0 DEF CancelSignal, TypeOK, CallType
      <3>2. CASE pc[j] = "none"
        BY <2>4, <3>1, <3>2
      <3>3. CASE pc[j] # "none"
        <4>1. db[j].cancel
          BY <1>0, <3>0, <3>1, <3>3 DEF StoreInv, HandlerInv, RecordInv, Open
        <4>2. RecordInv(j)'
          BY <1>0, <3>1, <3>3, <4>1 DEF RecordInv, SaveInv, AtBoundary, AtStep, InStep, Saving
        <4>3. \A k \in Jobs \ {j} : RecordInv(k)'
          BY <1>0, <3>1, RecordFrame
        <4>4. \A g \in Cancellers \ {h} : HandlerInv(g)'
          BY <2>1, <3>1, HandlerFrame DEF StoreInv, Rewritten
        <4>5. HandlerInv(h)'
          BY <3>1 DEF HandlerInv
        <4>6. QED BY <4>2, <4>3, <4>4, <4>5 DEF StoreInv
      <3>4. QED BY <3>2, <3>3
    <2>8. QED BY <1>8, <2>2, <2>5, <2>6, <2>7 DEF CancelSteps
  <1>9. CASE Crash
    <2>1. /\ db' = db /\ ctxDone' = {} /\ \A k \in Jobs : pc'[k] = "none"
          /\ \A k \in Jobs : submit'[k] = IF submit[k] = "idle" THEN "idle" ELSE "over"
          /\ \A g \in Cancellers : handler'[g].pc \in {"idle", "over"}
      BY <1>9 DEF Crash, Idle
    <2>2. \A k \in Jobs : RecordInv(k)'
      BY <1>0, <2>1 DEF RecordInv, SaveInv, AtBoundary, AtStep, InStep, Saving
    <2>3. QED BY <2>1, <2>2 DEF StoreInv, HandlerInv
  <1>10. ASSUME UNCHANGED <<db, ctxDone, pc, cont, mem, snap, submit, handler>> PROVE StoreInv'
    BY <1>10 DEF StoreInv, RecordInv, HandlerInv, SaveInv, AtBoundary, AtStep, InStep, Saving
  <1>11. ASSUME \/ Boot \/ Close \/ CloseReturn \/ ResumeReturn \/ UNCHANGED vars
                \/ \E j \in Jobs : \E i \in Steps(j) : LateEffect(j, i)
         PROVE  StoreInv'
    BY <1>10, <1>11 DEF Boot, Close, CloseReturn, ResumeReturn, vars, LateEffect
  <1>12. \A j \in Jobs : ResumeUnbuildable(j) \/ ResumePark(j) => j \in todo
    BY DEF ResumeUnbuildable, ResumePark
  <1>13. QED
    BY <1>2, <1>3, <1>4, <1>5, <1>6, <1>7, <1>8, <1>9, <1>11, <1>12
       DEF Next, SubmitSteps, ResumeSteps

\* No record exists before the first start.
LEMMA StoreInit == Init => StoreInv
  BY DEF Init, StoreInv, RecordInv, HandlerInv, SaveInv, AtBoundary, AtStep, InStep, Saving, Blank, Idle

\* The ways a stored record changes, whoever writes it.
Moves(j) ==
    \/ db'[j] = db[j]
    \/ submit[j] = "leased" /\ db[j].state = "absent" /\ ~db[j].cancel /\ db'[j] = FirstRecord(j)
    \/ submit[j] = "stored" /\ db[j].state = "pending" /\ db'[j] = Blank(j)
    \/ db[j].state \in Open /\ db'[j].cancel = db[j].cancel
    \/ db[j].state \in Open /\ db'[j].state = db[j].state /\ db'[j].cancel
    \/ db[j].state = "parked" /\ db'[j].state = "cancelled" /\ db'[j].cancel

\* Every step of every actor changes a record in one of these ways.
LEMMA RecordMoves ==
  ASSUME TypeOK, LifecycleInv, LeaseInv, StoreInv, [Next]_vars, NEW j \in Jobs
  PROVE  Moves(j)
  <1> USE DEF engine, run, world, history
  <1>0. RecordInv(j) /\ db[j] \in RecordType(j) /\ j \in DOMAIN db
    BY DEF StoreInv, TypeOK, StoreType
  <1>1. ASSUME NEW k \in Jobs, RunSteps(k) \/ Spawn(k) PROVE Moves(j)
    <2>1. CASE k # j
      BY <1>1, <2>1, RunOwns DEF Moves
    <2>2. CASE k = j
      <3>1. CASE SaveWrite(j) \/ SaveFault(j)
        BY <1>0, <3>1 DEF SaveWrite, SaveFault, DiskFault, Merge, Moves, RecordInv, SaveInv, Open
      <3>2. CASE RunStep(j)
        BY <1>0, <3>2 DEF RunStep, DiskFault, Moves
      <3>3. CASE ~(SaveWrite(j) \/ SaveFault(j) \/ RunStep(j))
        BY <1>1, <2>2, <3>3 DEF RunSteps, SaveRead, SaveConflict, RunBegin, RunSucceed, RunStop,
           RunCancelled, DoEffect, DoReturnOk, DoReturnError, DoCancelled, DoInterrupted, Exit,
           Spawn, Moves
      <3>4. QED BY <3>1, <3>2, <3>3
    <2>3. QED BY <2>1, <2>2
  <1>2. ASSUME NEW k \in Jobs, SubmitPut(k) PROVE Moves(j)
    <2>1. CASE k # j
      BY <1>0, <1>2, <2>1 DEF SubmitPut, DiskFault, Moves
    <2>2. CASE k = j
      BY <1>0, <1>2, <2>2 DEF SubmitPut, DiskFault, Moves, LifecycleInv, RecordInv
    <2>3. QED BY <2>1, <2>2
  <1>3. ASSUME NEW k \in Jobs, SubmitWithdraw(k) PROVE Moves(j)
    <2>1. CASE k # j
      BY <1>0, <1>3, <2>1 DEF SubmitWithdraw, DiskFault, Moves
    <2>2. CASE k = j
      BY <1>0, <1>3, <2>2 DEF SubmitWithdraw, DiskFault, Moves, RecordInv
    <2>3. QED BY <2>1, <2>2
  <1>4. ASSUME NEW h \in Cancellers, CancelSteps(h) PROVE Moves(j)
    <2>1. \/ db'[j] = db[j]
          \/ /\ handler[h].pc = "read" /\ handler[h].job = j /\ db[j].rev = handler[h].rev
             /\ db'[j] = Flagged(db[j], handler[h].state = "parked")
      BY <1>0, <1>4 DEF CancelSteps, CancelRead, CancelWrite, CancelRefused, CancelSignal, DiskFault
    <2>2. ASSUME handler[h].pc = "read", handler[h].job = j, db[j].rev = handler[h].rev,
                 db'[j] = Flagged(db[j], handler[h].state = "parked")
          PROVE  Moves(j)
      <3>1. HandlerInv(h) /\ handler[h].rev \in Nat
        BY DEF StoreInv, TypeOK, CallType, HandlerType
      <3>2. db[j].state = handler[h].state /\ db[j].state \in Open \cup {"parked"}
        BY <1>0, <2>2, <3>1 DEF HandlerInv, RecordInv
      <3>3. /\ db'[j].cancel = TRUE
            /\ db'[j].state = IF handler[h].state = "parked" THEN "cancelled" ELSE db[j].state
        BY <1>0, <2>2 DEF Flagged, RecordType
      <3>4. QED BY <3>2, <3>3 DEF Moves, Open
    <2>3. QED BY <2>1, <2>2 DEF Moves
  <1>5. ASSUME NEW k \in todo,
               \/ ResumeUnbuildable(k) \/ ResumePark(k)
               \/ \E p \in ResumePoints(k) : ResumeSucceed(k, p) \/ ResumeJob(k, p)
        PROVE  Moves(j)
    <2>1. db[k].state \in Open /\ k \in Jobs
      BY DEF LifecycleInv, TypeOK, EngineType, Open
    <2>2. \E m : SaveAlone(k, m)
      BY <1>5 DEF ResumeUnbuildable, ResumePark, ResumeSucceed, ResumeJob, Park
    <2>3. QED BY <1>0, <2>1, <2>2 DEF SaveAlone, DiskFault, Merge, Moves
  <1>6. CASE db' = db
    BY <1>6 DEF Moves
  <1>7. ASSUME \/ Boot \/ Close \/ CloseReturn \/ ResumeReturn \/ Crash \/ UNCHANGED vars
               \/ \E k \in Jobs : SubmitAcquire(k) \/ SubmitStart(k)
               \/ \E k \in Jobs : \E i \in Steps(k) : LateEffect(k, i)
        PROVE  db' = db
    BY <1>7 DEF Boot, Close, CloseReturn, ResumeReturn, Crash, vars, SubmitAcquire, SubmitStart,
       LateEffect
  <1>8. \A k \in Jobs : ResumeUnbuildable(k) \/ ResumePark(k) => k \in todo
    BY DEF ResumeUnbuildable, ResumePark
  <1>9. QED
    BY <1>1, <1>2, <1>3, <1>4, <1>5, <1>6, <1>7, <1>8 DEF Next, SubmitSteps, ResumeSteps

\* No step of any actor, a handler with an old copy or a save that was refused
\* included, takes a job out of a terminal state.
THEOREM EndIsFinal == Spec => TerminalIsFinal
  <1>1. TypeOK /\ LifecycleInv /\ LeaseInv /\ StoreInv /\ [Next]_vars
          => [\A j \in Jobs : db[j].state \in Terminal => db'[j].state = db[j].state]_vars
    <2> SUFFICES ASSUME TypeOK, LifecycleInv, LeaseInv, StoreInv, [Next]_vars,
                        NEW j \in Jobs, db[j].state \in Terminal
                 PROVE  db'[j].state = db[j].state
      OBVIOUS
    <2>1. Moves(j)
      BY RecordMoves
    <2>2. QED BY <2>1 DEF Moves, Terminal, Open
  <1>2. QED
    BY <1>1, TypeInit, TypeNext, LifecycleInit, LifecycleNext, LeaseInit, LeaseNext,
       StoreInit, StoreNext, PTL DEF Spec, TerminalIsFinal

\* The flag an operator was told is stored stays in the record through every
\* save that read the record before it, until the record itself is withdrawn.
THEOREM CancelIsKept == Spec => CancelSticks
  <1>1. TypeOK /\ LifecycleInv /\ LeaseInv /\ StoreInv /\ [Next]_vars
          => [\A j \in Jobs : (db[j].cancel /\ db'[j].state # "absent") => db'[j].cancel]_vars
    <2> SUFFICES ASSUME TypeOK, LifecycleInv, LeaseInv, StoreInv, [Next]_vars,
                        NEW j \in Jobs, db[j].cancel, db'[j].state # "absent"
                 PROVE  db'[j].cancel
      OBVIOUS
    <2>1. Moves(j) /\ Blank(j).state = "absent"
      BY RecordMoves DEF Blank
    <2>2. QED BY <2>1 DEF Moves
  <1>2. QED
    BY <1>1, TypeInit, TypeNext, LifecycleInit, LifecycleNext, LeaseInit, LeaseNext,
       StoreInit, StoreNext, PTL DEF Spec, CancelSticks

-----------------------------------------------------------------------------
\* Whoever is about to run a step has not yet run one after a cancel.
Ahead(j) == AtStep(j) /\ pc[j] # "did"

\* Every step of every actor keeps a stored cancel prompt.
LEMMA PromptNext ==
  ASSUME TypeOK, LifecycleInv, LeaseInv, StoreInv, [Next]_vars, NEW k \in Jobs, PromptInv(k)
  PROVE  PromptInv(k)'
  <1> SUFFICES ASSUME k \notin faulted' PROVE PromptInv(k)'
    BY DEF PromptInv
  <1> USE DEF engine, run, world, history
  <1>0. RecordInv(k) /\ afterCancel[k] \in Nat /\ Moves(k)
    BY RecordMoves DEF StoreInv, TypeOK, WorldType
  <1>1. ASSUME k \notin faulted, afterCancel'[k] = afterCancel[k],
               Ahead(k)' => Ahead(k) \/ ~db[k].cancel,
               submit[k] = "over" => submit'[k] = "over"
        PROVE  PromptInv(k)'
    <2>1. CASE submit[k] # "over"
      BY <1>0, <1>1, <2>1 DEF PromptInv
    <2>2. CASE submit[k] = "over"
      <3>1. db[k].cancel => db'[k].cancel
        BY <1>0, <2>2 DEF Moves
      <3>2. QED BY <1>0, <1>1, <2>2, <3>1 DEF PromptInv, Ahead
    <2>3. QED BY <2>1, <2>2
  <1>2. ASSUME NEW j \in Jobs, RunSteps(j) \/ Spawn(j) PROVE PromptInv(k)'
    <2>1. k \notin faulted /\ submit' = submit
      BY <1>2, RunOwns
    <2>2. CASE j # k
      <3>1. pc'[k] = pc[k] /\ cont'[k] = cont[k]
        BY <1>2, <2>2, RunOwns
      <3>2. afterCancel'[k] = afterCancel[k]
        BY <1>2, <2>2 DEF RunSteps, SaveRead, SaveWrite, SaveConflict, SaveFault, RunBegin,
           RunSucceed, RunStop, RunCancelled, RunStep, DoEffect, DoReturnOk, DoReturnError,
           DoCancelled, DoInterrupted, Exit, Spawn, TypeOK, WorldType
      <3>3. QED BY <1>1, <2>1, <3>1, <3>2 DEF Ahead, AtStep, InStep, Saving
    <2>3. CASE j = k /\ DoEffect(k)
      <3>1. /\ pc[k] = "do" /\ pc'[k] = "did" /\ db' = db
            /\ afterCancel'[k] = afterCancel[k] + (IF db[k].cancel THEN 1 ELSE 0)
        BY <2>3 DEF DoEffect, TypeOK, WorldType, RunType
      <3>2. afterCancel[k] = 0
        BY <1>0, <2>1, <3>1 DEF PromptInv, AtStep, InStep
      <3>3. submit[k] = "over"
        BY <3>1 DEF LifecycleInv
      <3>4. QED BY <2>1, <3>1, <3>2, <3>3 DEF PromptInv
    <2>4. CASE j = k /\ RunStep(k)
      <3>1. ~db[k].cancel /\ afterCancel' = afterCancel
        BY <1>0, <2>4 DEF RunStep, CancelRequested, DiskFault
      <3>2. QED BY <1>1, <2>1, <3>1
    <2>5. CASE j = k /\ ~DoEffect(k) /\ ~RunStep(k)
      <3>1. afterCancel' = afterCancel
        BY <1>2, <2>5 DEF RunSteps, SaveRead, SaveWrite, SaveConflict, SaveFault, RunBegin,
           RunSucceed, RunStop, RunCancelled, DoReturnOk, DoReturnError, DoCancelled,
           DoInterrupted, Exit, Spawn
      <3>2. Ahead(k)' => Ahead(k)
        <4>1. cont[k] \in Targets /\ (Saving(k) => cont[k] \in {"boundary", "do", "exit"})
          BY DEF TypeOK, RunType, LeaseInv
        <4>2. CASE SaveRead(k) \/ SaveWrite(k) \/ SaveConflict(k) \/ SaveFault(k)
          BY <4>1, <4>2 DEF SaveRead, SaveWrite, SaveConflict, SaveFault, SaveOver, Ahead, AtStep,
             InStep, Saving, TypeOK, RunType
        <4>3. CASE ~(SaveRead(k) \/ SaveWrite(k) \/ SaveConflict(k) \/ SaveFault(k))
          <5>1. \/ pc'[k] \in {"none", "exit", "begin"}
                \/ pc'[k] = "saveRead" /\ cont'[k] \in {"boundary", "exit"}
            BY <1>2, <2>5, <4>3 DEF RunSteps, RunBegin, RunSucceed, RunStop, RunCancelled,
               DoReturnOk, DoReturnError, DoCancelled, DoInterrupted, Exit, Spawn, Finish, SaveThen,
               TypeOK, RunType
          <5>2. QED BY <5>1 DEF Ahead, AtStep, InStep, Saving
        <4>4. QED BY <4>2, <4>3
      <3>3. QED BY <1>1, <2>1, <3>1, <3>2
    <2>6. QED BY <2>2, <2>3, <2>4, <2>5
  <1>3. CASE /\ pc'[k] \in {pc[k], "none", "starting", "begin"} /\ cont'[k] \in {cont[k], "none"}
             /\ afterCancel' = afterCancel /\ faulted \subseteq faulted'
             /\ submit[k] = "over" => submit'[k] = "over"
    BY <1>1, <1>3 DEF Ahead, AtStep, InStep, Saving
  <1>4. ASSUME NEW j \in Jobs, SubmitAcquire(j) \/ SubmitPut(j) \/ SubmitStart(j) \/ SubmitWithdraw(j)
        PROVE  PromptInv(k)'
    BY <1>3, <1>4 DEF SubmitAcquire, SubmitPut, SubmitStart, SubmitWithdraw, Register, DiskFault,
       TypeOK, CallType, RunType
  <1>5. ASSUME NEW h \in Cancellers, CancelSteps(h) PROVE PromptInv(k)'
    BY <1>3, <1>5 DEF CancelSteps, CancelRead, CancelWrite, CancelRefused, CancelSignal, DiskFault
  <1>6. ASSUME NEW j \in todo,
               \/ ResumeUnbuildable(j) \/ ResumePark(j)
               \/ \E p \in ResumePoints(j) : ResumeSucceed(j, p) \/ ResumeJob(j, p)
        PROVE  PromptInv(k)'
    <2>1. faulted \subseteq faulted'
      <3>1. \E m : SaveAlone(j, m)
        BY <1>6 DEF ResumeUnbuildable, ResumePark, ResumeSucceed, ResumeJob, Park
      <3>2. QED BY <3>1 DEF SaveAlone, DiskFault
    <2>2. /\ pc'[k] \in {pc[k], "begin"} /\ cont' = cont /\ afterCancel' = afterCancel
          /\ submit' = submit
      BY ZenonT(60), <1>6 DEF ResumeUnbuildable, ResumePark, ResumeSucceed, ResumeJob, Park, Register,
         TypeOK, RunType
    <2>3. QED BY <1>3, <2>1, <2>2
  <1>7. CASE Boot \/ Close \/ CloseReturn \/ ResumeReturn \/ UNCHANGED vars
    BY <1>3, <1>7 DEF Boot, Close, CloseReturn, ResumeReturn, vars
  <1>8. CASE Crash
    BY <1>3, <1>8 DEF Crash, TypeOK, CallType
  <1>9. ASSUME NEW j \in Jobs, NEW i \in Steps(j), LateEffect(j, i) PROVE PromptInv(k)'
    BY <1>3, <1>9 DEF LateEffect
  <1>10. \A j \in Jobs : ResumeUnbuildable(j) \/ ResumePark(j) => j \in todo
    BY DEF ResumeUnbuildable, ResumePark
  <1>11. QED
    BY <1>2, <1>4, <1>5, <1>6, <1>7, <1>8, <1>9, <1>10 DEF Next, SubmitSteps, ResumeSteps

\* Nothing was cancelled before the first start.
LEMMA PromptInit == Init => \A j \in Jobs : PromptInv(j)
  BY DEF Init, PromptInv

\* Once a cancel is stored at most the step already begun takes effect, through
\* any number of cancels, crashes and restarts and whatever requests do that
\* outlive their call, for every job whose records the disk accepted.
THEOREM CancelStopsTheJob == Spec => []CancelIsPrompt
  <1>1. (\A j \in Jobs : PromptInv(j)) => CancelIsPrompt
    BY DEF PromptInv, CancelIsPrompt
  <1>2. TypeOK /\ LifecycleInv /\ LeaseInv /\ StoreInv /\ (\A j \in Jobs : PromptInv(j)) /\ [Next]_vars
          => (\A j \in Jobs : PromptInv(j))'
    BY PromptNext
  <1>3. QED
    BY <1>1, <1>2, TypeInit, TypeNext, LifecycleInit, LifecycleNext, LeaseInit, LeaseNext,
       StoreInit, StoreNext, PromptInit, PTL DEF Spec

-----------------------------------------------------------------------------
\* The disk refuses nothing when no fault is allowed.
LEMMA DiskAccepts ==
  ASSUME MaxFaults = 0, TypeOK, NEW j, NEW r
  PROVE  ~DiskFault(j, r)
  BY DEF DiskFault, TypeOK, HistoryType

\* What a record calls passed has happened.
Kept(j, r) == \A i \in Sure(j) \cap Passed(j, r) : effects[j][i] = 1

\* A job whose record, goroutine and effects nobody touched keeps its progress.
LEMMA ProgressFrame ==
  ASSUME NEW j \in Jobs, ProgressInv(j),
         pc'[j] = pc[j], cont'[j] = cont[j], db'[j] = db[j], idx'[j] = idx[j],
         mem'[j] = mem[j], effects'[j] = effects[j]
  PROVE  ProgressInv(j)'
  BY DEF ProgressInv, Sure, Passed, AtStep, InStep, Saving

\* Every step of a job's goroutine keeps its record true to the world.
LEMMA ProgressRun ==
  ASSUME MaxFaults = 0, TypeOK, LifecycleInv, LeaseInv, StoreInv, NEW j \in Jobs,
         EffectInv(j), j \notin faulted, ProgressInv(j), RunSteps(j) \/ Spawn(j)
  PROVE  ProgressInv(j)'
  <1> USE DEF engine, run, world, history
  <1>0. \A r : ~DiskFault(j, r)
    BY DiskAccepts
  <1>1. /\ NSteps[j] \in Nat \ {0} /\ Steps(j) = 1 .. NSteps[j]
        /\ idx[j] \in 1 .. NSteps[j] + 1
        /\ mem[j] \in MemType(j) /\ mem[j].cur \in Steps(j) /\ mem[j].steps \in [Steps(j) -> StepState]
        /\ db[j].cur \in Steps(j) /\ db[j] \in RecordType(j)
        /\ effects[j] \in [Steps(j) -> Nat] /\ RecordInv(j)
        /\ j \in DOMAIN pc /\ j \in DOMAIN cont /\ j \in DOMAIN mem /\ j \in DOMAIN db
        /\ j \in DOMAIN idx /\ j \in DOMAIN effects
    BY JobsAssumption, RecordTypes, MemTypes, StateNames
       DEF TypeOK, StoreType, RunType, WorldType, StoreInv, Steps
  <1>2. Kept(j, db[j]) /\ pc[j] # "none" /\ Kept(j, mem[j])
    BY RunOwns DEF ProgressInv, Kept
  \* The goroutine enters a save, with a copy that is true to the world.
  <1>3. ASSUME NEW m, NEW next \in {"boundary", "exit"}, SaveThen(j, m, next),
               db' = db, effects' = effects, Kept(j, m),
               next = "exit" => /\ m.state = "succeeded" => \A i \in Sure(j) : effects[j][i] = 1
                                /\ m.state = "cancelled" => db[j].cancel
        PROVE  ProgressInv(j)'
    <2>1. pc'[j] = "saveRead" /\ cont'[j] = next /\ mem'[j] = m
      BY <1>1, <1>3 DEF SaveThen
    <2>2. QED BY <1>2, <1>3, <2>1 DEF ProgressInv, Kept, Sure, Passed, AtStep, InStep, Saving
  \* The goroutine leaves its loop.
  <1>4. ASSUME pc'[j] \in {"exit", "none", "begin"}, UNCHANGED <<db, mem, effects>> PROVE ProgressInv(j)'
    BY <1>2, <1>4 DEF ProgressInv, Kept, Sure, Passed, AtStep, InStep, Saving
  <1>5. CASE SaveRead(j)
    BY <1>1, <1>5 DEF SaveRead, ProgressInv, Sure, Passed, AtStep, InStep, Saving
  <1>6. CASE SaveWrite(j)
    <2>1. /\ pc[j] = "saveWrite" /\ pc'[j] = cont[j] /\ cont' = cont /\ mem' = mem
          /\ effects' = effects /\ idx' = idx
          /\ db'[j].cur = mem[j].cur /\ db'[j].steps = mem[j].steps /\ db'[j].state = mem[j].state
      BY <1>1, <1>6 DEF SaveWrite, SaveOver, Merge
    <2>2. cont[j] \in {"boundary", "do", "exit"} /\ (cont[j] # "exit" => mem[j].state = "running")
      BY <1>1, <2>1 DEF LeaseInv, RecordInv, Saving
    <2>3. Kept(j, db[j])' /\ Kept(j, mem[j])'
      BY <1>2, <2>1 DEF Kept, Sure, Passed
    <2>4. QED BY <2>1, <2>2, <2>3 DEF ProgressInv, Kept, AtStep, InStep, Saving
  <1>7. CASE SaveConflict(j)
    <2>1. /\ pc[j] = "saveWrite" /\ db[j].rev # snap[j].rev
          /\ UNCHANGED <<cont, mem, db, effects, idx>>
          /\ pc'[j] \in {"saveRead", cont[j]}
      BY <1>1, <1>7 DEF SaveConflict, SaveOver
    <2>2. cont[j] \in {"boundary", "do", "exit"} /\ db[j].cancel
      BY <1>1, <2>1 DEF LeaseInv, RecordInv, Saving, SaveInv
    <2>3. cont[j] = "do" => db[j].state = "running"
      BY <2>1 DEF ProgressInv, AtStep, Saving
    <2>4. Kept(j, db[j])' /\ Kept(j, mem[j])'
      BY <1>2, <2>1 DEF Kept, Sure, Passed
    <2>5. Saving(j)' /\ cont'[j] = "exit" =>
             /\ mem'[j].state = "succeeded" => \A i \in Sure(j) : effects'[j][i] = 1
             /\ mem'[j].state = "cancelled" => db'[j].cancel
      BY <2>1 DEF ProgressInv, Saving
    <2>6. QED BY <2>1, <2>2, <2>3, <2>4, <2>5 DEF ProgressInv, Kept, Sure, AtStep, InStep, Saving
  <1>8. CASE SaveFault(j)
    BY <1>0, <1>8 DEF SaveFault
  <1>9. CASE RunBegin(j)
    <2>1. Kept(j, [mem[j] EXCEPT !.state = "running"])
      BY <1>1, <1>2 DEF Kept, Passed, MemType
    <2>2. QED BY <1>3, <1>9, <2>1 DEF RunBegin
  <1>10. CASE RunSucceed(j)
    <2> DEFINE m == [mem[j] EXCEPT !.state = "succeeded", !.cur = NSteps[j]]
    <2>1. mem[j].cur = NSteps[j] /\ mem[j].steps[mem[j].cur] = "done"
      BY <1>1, <1>10 DEF RunSucceed, EffectInv, BoundaryInv, AtBoundary
    <2>2. Passed(j, mem[j]) = Steps(j)
      BY <1>1, <2>1 DEF Passed
    <2>3. \A i \in Sure(j) : effects[j][i] = 1
      BY <1>2, <2>2 DEF Kept, Sure
    <2>4. Kept(j, m) /\ m.state = "succeeded"
      BY <1>1, <2>3 DEF Kept, MemType
    <2>5. QED BY <1>3, <1>10, <2>3, <2>4 DEF RunSucceed, Finish
  <1>11. CASE RunCancelled(j)
    <2> DEFINE m == [mem[j] EXCEPT !.state = "cancelled"]
    <2>1. db[j].cancel
      BY <1>1, <1>11 DEF RunCancelled, CancelRequested, Signalled, RecordInv
    <2>2. Kept(j, m) /\ m.state = "cancelled"
      BY <1>1, <1>2 DEF Kept, Passed, MemType
    <2>3. QED BY <1>3, <1>11, <2>1, <2>2 DEF RunCancelled, Finish
  <1>12. CASE RunStop(j) \/ DoInterrupted(j) \/ Exit(j) \/ Spawn(j)
    BY <1>1, <1>4, <1>12 DEF RunStop, DoInterrupted, Exit, Spawn
  <1>13. CASE RunStep(j)
    <2>1. /\ pc[j] = "boundary" /\ idx[j] \in Steps(j) /\ ~db[j].cancel /\ db' = db /\ idx' = idx
          /\ effects' = effects /\ pc'[j] = "saveRead" /\ cont'[j] = "do"
          /\ mem'[j] = [mem[j] EXCEPT !.cur = idx[j], !.steps[idx[j]] = "running"]
      BY <1>0, <1>1, <1>13 DEF RunStep, SaveThen, CancelRequested
    <2>2. db[j].state = "running"
      BY <2>1 DEF ProgressInv
    <2>3. mem'[j].cur = idx[j] /\ mem'[j].steps[idx[j]] = "running"
      BY <1>1, <2>1 DEF MemType
    <2>4. \A i \in Steps(j) : i < idx[j] => i \in Passed(j, mem[j])
      BY <1>1, <2>1 DEF EffectInv, BoundaryInv, AtBoundary, Passed
    <2>5. Passed(j, mem'[j]) \subseteq Passed(j, mem[j])
      BY <1>1, <2>1, <2>3, <2>4 DEF Passed
    <2>6. QED BY <1>2, <2>1, <2>2, <2>5 DEF ProgressInv, Kept, Sure, Passed, AtStep, InStep, Saving
  <1>14. CASE DoEffect(j)
    <2>1. /\ pc[j] = "do" /\ pc'[j] = "did" /\ UNCHANGED <<db, mem, cont, idx>>
          /\ idx[j] \in Steps(j)
          /\ effects'[j] = [effects[j] EXCEPT ![idx[j]] = @ + 1]
      BY <1>1, <1>14, StepPosition DEF DoEffect, TypeOK, AtStep, InStep
    <2>2. effects[j][idx[j]] = 0
      BY <1>1, <2>1 DEF EffectInv, StepInv, AtStep, InStep, Clean
    <2>3. effects'[j][idx[j]] = 1 /\ \A i \in Steps(j) : effects[j][i] = 1 => effects'[j][i] = 1
      BY <1>1, <2>1, <2>2
    <2>4. Kept(j, db[j])' /\ Kept(j, mem[j])'
      BY <1>2, <2>1, <2>3 DEF Kept, Sure, Passed
    <2>5. db[j].state = "running"
      BY <2>1 DEF ProgressInv, AtStep, InStep
    <2>6. QED BY <2>1, <2>3, <2>4, <2>5 DEF ProgressInv, Kept, AtStep, InStep, Saving
  <1>15. CASE DoReturnOk(j)
    <2> DEFINE m == [mem[j] EXCEPT !.steps[idx[j]] = "done"]
    <2>1. idx[j] \in Steps(j) /\ mem[j].cur = idx[j] /\ (pc[j] = "did" \/ (pc[j] = "do" /\ Reads(j)))
      BY <1>15, StepPosition DEF DoReturnOk, EffectInv, StepInv, TypeOK, AtStep, InStep
    <2>2. idx[j] \in Sure(j) => effects[j][idx[j]] = 1
      BY <2>1 DEF Sure, Reliable, Reads, ProgressInv
    <2>3. m.cur = idx[j] /\ \A i \in Steps(j) : i < idx[j] => i \in Passed(j, mem[j])
      BY <1>1, <2>1 DEF MemType, Passed
    <2>4. Kept(j, m)
      BY <1>1, <1>2, <2>1, <2>2, <2>3 DEF Kept, Passed
    <2>5. QED BY <1>3, <1>15, <2>4 DEF DoReturnOk
  <1>16. CASE DoReturnError(j)
    <2> DEFINE m == [mem[j] EXCEPT !.state = "failed", !.steps[idx[j]] = "failed"]
    <2>1. /\ m.cur = mem[j].cur /\ m.state = "failed"
          /\ \A i \in Steps(j) : m.steps[i] \in {mem[j].steps[i], "failed"}
      BY <1>1 DEF MemType
    <2>2. Kept(j, m)
      BY <1>2, <2>1 DEF Kept, Passed
    <2>3. QED BY <1>3, <1>16, <2>1, <2>2 DEF DoReturnError, Finish
  <1>17. CASE DoCancelled(j)
    <2> DEFINE m == [mem[j] EXCEPT !.state = "cancelled", !.steps[idx[j]] = "failed"]
    <2>1. /\ m.cur = mem[j].cur /\ m.state = "cancelled"
          /\ \A i \in Steps(j) : m.steps[i] \in {mem[j].steps[i], "failed"}
      BY <1>1 DEF MemType
    <2>2. Kept(j, m) /\ db[j].cancel
      BY <1>1, <1>2, <1>17, <2>1 DEF Kept, Passed, DoCancelled, Signalled, RecordInv
    <2>3. QED BY <1>3, <1>17, <2>1, <2>2 DEF DoCancelled, Finish
  <1>18. QED
    BY <1>5, <1>6, <1>7, <1>8, <1>9, <1>10, <1>11, <1>12, <1>13, <1>14, <1>15, <1>16, <1>17
       DEF RunSteps

\* Resume passes a step whose effect matters only when it has happened.
LEMMA ResumePointKept ==
  ASSUME TypeOK, NEW j \in Jobs, OnceInv(j), Kept(j, db[j]), NEW p \in ResumePoints(j)
  PROVE  /\ \A i \in Sure(j) : i < p.next => effects[j][i] = 1
         /\ p.next > NSteps[j] => \A i \in Sure(j) : effects[j][i] = 1
         /\ p.next \in {db[j].cur, db[j].cur + 1}
         /\ \A i \in Steps(j) : i = db[j].cur /\ p.steps[i] \in {"done", "skipped"} => i < p.next
  <1> DEFINE c == db[j].cur
             s == db[j].steps
  <1>1. /\ c \in Steps(j) /\ s \in [Steps(j) -> StepState] /\ NSteps[j] \in Nat
        /\ effects[j] \in [Steps(j) -> Nat] /\ Steps(j) = 1 .. NSteps[j]
    BY StateNames DEF TypeOK, StoreType, RecordType, WorldType, Steps
  <1>2. \A i \in Sure(j) : i < c => effects[j][i] = 1
    BY DEF Kept, Passed, Sure
  <1>3. CASE ~Interrupted(j)
    <2>1. p.steps = s /\ p.next = IF s[c] \in {"done", "skipped"} THEN c + 1 ELSE c
      BY <1>3 DEF ResumePoints
    <2>2. s[c] \in {"done", "skipped"} /\ c \in Sure(j) => effects[j][c] = 1
      BY <1>1 DEF Kept, Passed
    <2>3. QED BY SMTT(30), <1>1, <1>2, <2>1, <2>2 DEF Sure
  <1>4. CASE Interrupted(j)
    <2>1. PICK a \in Answers(j, c) \ {"unknown"} :
             /\ p.steps = [s EXCEPT ![c] = IF a = "yes" THEN "skipped" ELSE "pending"]
             /\ p.next = IF a = "yes" THEN c + 1 ELSE c
      BY <1>4 DEF ResumePoints
    <2>2. a = "yes" /\ c \in Sure(j) => effects[j][c] = 1
      <3>1. c \in Sure(j) => StepKind[j][c] \in {"check", "blind"}
        BY DEF Sure, Reliable
      <3>2. effects[j][c] \in Nat /\ effects[j][c] <= 1
        BY <1>1 DEF OnceInv
      <3>3. a = "yes" /\ c \in Sure(j) => effects[j][c] > 0
        BY <2>1, <3>1, <3>2 DEF Answers
      <3>4. QED BY <3>2, <3>3
    <2>3. p.steps[c] = IF a = "yes" THEN "skipped" ELSE "pending"
      BY <1>1, <2>1
    <2>4. QED BY SMTT(30), <1>1, <1>2, <2>1, <2>2, <2>3 DEF Sure
  <1>5. QED BY <1>3, <1>4

\* What Resume makes of an interrupted job: a record that is true to the world,
\* parked, succeeded, or handed to a new goroutine with the same copy.
LEMMA ResumeKeeps ==
  ASSUME MaxFaults = 0, TypeOK, LifecycleInv, NEW j \in todo, EffectInv(j), j \notin faulted,
         ProgressInv(j),
         \/ ResumeUnbuildable(j) \/ ResumePark(j)
         \/ \E p \in ResumePoints(j) : ResumeSucceed(j, p) \/ ResumeJob(j, p)
  PROVE  \E m : /\ db' = [db EXCEPT ![j] = Merge(db[j], m)]
                /\ Kept(j, m)
                /\ m.state \in {"parked", "succeeded", db[j].state}
                /\ m.state = "succeeded" => \A i \in Sure(j) : effects[j][i] = 1
                /\ \/ pc' = pc
                   \/ pc'[j] = "begin" /\ mem'[j] = m /\ m.state = db[j].state
  <1> DEFINE Good(m) == /\ db' = [db EXCEPT ![j] = Merge(db[j], m)]
                        /\ Kept(j, m)
                        /\ m.state \in {"parked", "succeeded", db[j].state}
                        /\ m.state = "succeeded" => \A i \in Sure(j) : effects[j][i] = 1
                        /\ \/ pc' = pc
                           \/ pc'[j] = "begin" /\ mem'[j] = m /\ m.state = db[j].state
  <1>1. /\ j \in Jobs /\ db[j].state \in {"pending", "running"} /\ Kept(j, db[j])
        /\ OnceInv(j) /\ StoredInv(j) /\ NSteps[j] \in Nat /\ Steps(j) = 1 .. NSteps[j]
        /\ db[j].cur \in Steps(j)
    BY RecordTypes, StateNames
       DEF TypeOK, EngineType, StoreType, LifecycleInv, ProgressInv, Kept, EffectInv, Steps
  <1>2. \A m : SaveAlone(j, m) => db' = [db EXCEPT ![j] = Merge(db[j], m)]
    BY DiskAccepts DEF SaveAlone
  <1>3. CASE ResumeUnbuildable(j) \/ ResumePark(j)
    <2> DEFINE m == [InRecord(j) EXCEPT !.state = "parked"]
    <2>1. SaveAlone(j, m) /\ pc' = pc
      BY <1>3 DEF ResumeUnbuildable, ResumePark, Park, run
    <2>2. m.state = "parked" /\ m.cur = db[j].cur /\ m.steps = db[j].steps
      BY DEF InRecord
    <2>3. Kept(j, m)
      BY <1>1, <2>2 DEF Kept, Passed
    <2> HIDE DEF m
    <2>4. Good(m)
      BY <1>2, <2>1, <2>2, <2>3
    <2>5. QED BY <2>4
  <1>4. ASSUME NEW p \in ResumePoints(j), ResumeSucceed(j, p) PROVE \E m : Good(m)
    <2> DEFINE m == [state |-> "succeeded", steps |-> p.steps, cur |-> db[j].cur]
    <2>1. SaveAlone(j, m) /\ pc' = pc /\ p.next > NSteps[j]
      BY <1>4 DEF ResumeSucceed, run
    <2>2. \A i \in Sure(j) : effects[j][i] = 1
      BY <1>1, <2>1, ResumePointKept
    <2>3. m.state = "succeeded" /\ Kept(j, m)
      BY <2>2 DEF Kept
    <2> HIDE DEF m
    <2>4. Good(m)
      BY <1>2, <2>1, <2>2, <2>3
    <2>5. QED BY <2>4
  <1>5. ASSUME NEW p \in ResumePoints(j), ResumeJob(j, p) PROVE \E m : Good(m)
    <2> DEFINE m == [state |-> db[j].state, steps |-> p.steps, cur |-> p.next]
               n == [m EXCEPT !.state = "parked"]
    <2>1. \/ SaveAlone(j, m) /\ pc'[j] = "begin" /\ mem'[j] = m
          \/ SaveAlone(j, n) /\ pc' = pc
      BY <1>1, <1>5 DEF ResumeJob, Park, Register, TypeOK, RunType, run
    <2>2. /\ m.state = db[j].state /\ m.cur = p.next /\ m.steps = p.steps
          /\ n.state = "parked" /\ n.cur = p.next /\ n.steps = p.steps
      OBVIOUS
    <2>3. p.next \in Steps(j) /\ p.steps[p.next] = "pending"
      BY <1>1, <1>5, ResumePointSafe DEF ResumeJob
    <2>4. \A i \in Sure(j) : i < p.next => effects[j][i] = 1
      BY <1>1, ResumePointKept
    <2>5. Kept(j, m) /\ Kept(j, n)
      BY <2>2, <2>3, <2>4 DEF Kept, Passed
    <2> HIDE DEF m, n
    <2>6. CASE SaveAlone(j, m) /\ pc'[j] = "begin" /\ mem'[j] = m
      <3>1. Good(m)
        BY <1>1, <1>2, <2>2, <2>5, <2>6
      <3>2. QED BY <3>1
    <2>7. CASE SaveAlone(j, n) /\ pc' = pc
      <3>1. Good(n)
        BY <1>2, <2>2, <2>5, <2>7
      <3>2. QED BY <3>1
    <2>8. QED BY <2>1, <2>6, <2>7
  <1>6. QED BY <1>3, <1>4, <1>5

\* Every step of every actor keeps the records true to the world.
LEMMA ContractInvNext ==
  ASSUME LateEffects = FALSE, MaxFaults = 0
  PROVE  TypeOK /\ LifecycleInv /\ LeaseInv /\ StoreInv /\ RecordAheadOfWorld /\ ContractInv
           /\ [Next]_vars => ContractInv'
  <1> SUFFICES ASSUME TypeOK, LifecycleInv, LeaseInv, StoreInv, RecordAheadOfWorld, ContractInv,
                      [Next]_vars
               PROVE  faulted' = {} /\ \A k \in Jobs : ProgressInv(k)'
    BY DEF ContractInv
  <1> USE DEF engine, run, world, history
  <1>0. \A j, r : ~DiskFault(j, r)
    BY DiskAccepts
  <1>1. faulted' = {}
    <2>1. faulted = {} /\ \A j, m : SaveAlone(j, m) => faulted' = faulted
      BY <1>0 DEF ContractInv, SaveAlone
    <2>2. ASSUME NEW j \in Jobs, RunSteps(j) PROVE faulted' = faulted
      BY <1>0, <2>2 DEF RunSteps, SaveRead, SaveWrite, SaveConflict, SaveFault, RunBegin, RunSucceed,
         RunStop, RunCancelled, RunStep, DoEffect, DoReturnOk, DoReturnError, DoCancelled,
         DoInterrupted, Exit
    <2>3. ASSUME NEW j \in Jobs, SubmitAcquire(j) \/ SubmitSteps(j) PROVE faulted' = faulted
      BY <1>0, <2>3 DEF SubmitSteps, SubmitAcquire, SubmitPut, SubmitStart, SubmitWithdraw, Spawn
    <2>4. ASSUME NEW h \in Cancellers, CancelSteps(h) PROVE faulted' = faulted
      BY <1>0, <2>4 DEF CancelSteps, CancelRead, CancelWrite, CancelRefused, CancelSignal
    <2>5. CASE ResumeSteps
      BY <2>1, <2>5 DEF ResumeSteps, ResumeUnbuildable, ResumePark, ResumeSucceed, ResumeJob,
         ResumeReturn, Park
    <2>6. CASE Boot \/ Close \/ CloseReturn \/ Crash \/ UNCHANGED vars
      BY <2>1, <2>6 DEF Boot, Close, CloseReturn, Crash, vars
    <2>7. ASSUME NEW j \in Jobs, NEW i \in Steps(j), LateEffect(j, i) PROVE faulted' = faulted
      BY <2>7 DEF LateEffect
    <2>8. QED BY <2>1, <2>2, <2>3, <2>4, <2>5, <2>6, <2>7 DEF Next
  <1> SUFFICES ASSUME NEW k \in Jobs PROVE ProgressInv(k)'
    BY <1>1
  <1>2. ProgressInv(k) /\ EffectInv(k) /\ k \notin faulted /\ RecordInv(k)
    BY DEF ContractInv, RecordAheadOfWorld, StoreInv
  <1> DEFINE Same == /\ pc'[k] = pc[k] /\ cont'[k] = cont[k] /\ db'[k] = db[k] /\ idx'[k] = idx[k]
                     /\ mem'[k] = mem[k] /\ effects'[k] = effects[k]
  <1>3. CASE Same
    BY <1>2, <1>3, ProgressFrame
  <1>4. ASSUME NEW j \in Jobs, RunSteps(j) \/ Spawn(j) PROVE ProgressInv(k)'
    <2>1. CASE j = k
      BY <1>2, <1>4, <2>1, ProgressRun
    <2>2. CASE j # k
      BY <1>3, <1>4, <2>2, RunOwns
    <2>3. QED BY <2>1, <2>2
  \* A job without a goroutine has only its record to keep true.
  <1>5. ASSUME pc'[k] = "none", effects' = effects, Kept(k, db'[k]) PROVE ProgressInv(k)'
    BY <1>5 DEF ProgressInv, Kept, Sure, Passed, AtStep, InStep, Saving
  <1>6. \A r : r.cur = 1 /\ (\A i \in Steps(k) : r.steps[i] = "pending") => Kept(k, r)
    BY DEF Kept, Passed, Steps
  <1>7. ASSUME NEW j \in Jobs, SubmitAcquire(j) \/ SubmitPut(j) \/ SubmitStart(j) \/ SubmitWithdraw(j)
        PROVE  ProgressInv(k)'
    <2>1. CASE j # k
      BY <1>0, <1>3, <1>7, <2>1 DEF SubmitAcquire, SubmitPut, SubmitStart, SubmitWithdraw, Register,
         TypeOK, CallType, RunType, StoreType
    <2>2. CASE j = k /\ SubmitAcquire(k)
      BY <1>3, <2>2 DEF SubmitAcquire
    <2>3. CASE j = k /\ (SubmitPut(k) \/ SubmitWithdraw(k))
      <3>1. pc' = pc /\ effects' = effects /\ db'[k] \in {FirstRecord(k), Blank(k)}
        BY <1>0, <2>3 DEF SubmitPut, SubmitWithdraw, TypeOK, StoreType
      <3>2. pc[k] = "none"
        BY <2>3 DEF SubmitPut, SubmitWithdraw, LifecycleInv
      <3>3. db'[k].cur = 1 /\ \A i \in Steps(k) : db'[k].steps[i] = "pending"
        <4>1. Blank(k).cur = 1 /\ \A i \in Steps(k) : Blank(k).steps[i] = "pending"
          BY DEF Blank
        <4>2. FirstRecord(k).cur = 1 /\ FirstRecord(k).steps = Blank(k).steps
          BY DEF FirstRecord, Blank
        <4>3. QED BY <3>1, <4>1, <4>2
      <3>4. QED BY <1>5, <1>6, <3>1, <3>2, <3>3
    <2>4. CASE j = k /\ SubmitStart(k)
      <3>1. /\ pc'[k] = "starting" /\ db' = db /\ effects' = effects
            /\ mem'[k].cur = 1 /\ \A i \in Steps(k) : mem'[k].steps[i] = "pending"
        BY <2>4 DEF SubmitStart, Register, Blank, TypeOK, RunType
      <3>2. Kept(k, mem'[k]) /\ Kept(k, db[k])
        BY <1>2, <1>6, <3>1 DEF ProgressInv, Kept
      <3>3. QED BY <3>1, <3>2 DEF ProgressInv, Kept, Sure, Passed, AtStep, InStep, Saving
    <2>5. QED BY <1>7, <2>1, <2>2, <2>3, <2>4
  <1>8. ASSUME NEW h \in Cancellers, CancelSteps(h) PROVE ProgressInv(k)'
    <2>1. UNCHANGED <<pc, cont, idx, mem, effects>>
      BY <1>8 DEF CancelSteps, CancelRead, CancelWrite, CancelRefused, CancelSignal
    <2>2. CASE db'[k] = db[k]
      BY <1>3, <2>1, <2>2
    <2>3. CASE db'[k] # db[k]
      <3>1. /\ handler[h].pc = "read" /\ handler[h].job = k /\ db[k].rev = handler[h].rev
            /\ db'[k] = Flagged(db[k], handler[h].state = "parked") /\ db[k] \in RecordType(k)
        BY <1>0, <1>8, <2>3 DEF CancelSteps, CancelRead, CancelWrite, CancelRefused, CancelSignal,
           TypeOK, StoreType
      <3>2. /\ db'[k].cancel = TRUE /\ db'[k].cur = db[k].cur /\ db'[k].steps = db[k].steps
            /\ db'[k].state = IF handler[h].state = "parked" THEN "cancelled" ELSE db[k].state
        BY <3>1 DEF Flagged, RecordType
      <3>3. db[k].state = handler[h].state
        <4>1. HandlerInv(h) /\ handler[h].rev \in Nat
          BY DEF StoreInv, TypeOK, CallType, HandlerType
        <4>2. QED BY <1>2, <3>1, <4>1 DEF HandlerInv, RecordInv
      <3>4. Kept(k, db'[k])
        BY <1>2, <3>2 DEF ProgressInv, Kept, Passed
      <3>5. QED BY <1>2, <2>1, <3>2, <3>3, <3>4
                   DEF ProgressInv, Kept, Sure, Passed, AtStep, InStep, Saving
    <2>4. QED BY <2>2, <2>3
  <1>9. ASSUME NEW j \in todo,
               \/ ResumeUnbuildable(j) \/ ResumePark(j)
               \/ \E p \in ResumePoints(j) : ResumeSucceed(j, p) \/ ResumeJob(j, p)
        PROVE  ProgressInv(k)'
    <2>0. j \in Jobs /\ pc[j] = "none"
      BY DEF LifecycleInv, TypeOK, EngineType
    <2>1. PICK m : /\ db' = [db EXCEPT ![j] = Merge(db[j], m)]
                   /\ Kept(j, m)
                   /\ \/ pc' = pc
                      \/ pc'[j] = "begin" /\ mem'[j] = m
      BY <1>9, <2>0, ResumeKeeps DEF RecordAheadOfWorld, ContractInv
    <2>2. /\ effects' = effects
          /\ \A i \in Jobs \ {j} : /\ pc'[i] = pc[i] /\ cont'[i] = cont[i] /\ idx'[i] = idx[i]
                                   /\ mem'[i] = mem[i]
      BY <1>9 DEF ResumeUnbuildable, ResumePark, ResumeSucceed, ResumeJob, Park, Register,
         TypeOK, RunType
    <2>3. CASE j # k
      BY <1>3, <2>1, <2>2, <2>3 DEF TypeOK, StoreType
    <2>4. CASE j = k
      <3>1. db'[k].cur = m.cur /\ db'[k].steps = m.steps
        BY <2>1, <2>4 DEF Merge, TypeOK, StoreType
      <3>2. Kept(k, db'[k])
        BY <2>1, <2>4, <3>1 DEF Kept, Passed
      <3>3. CASE pc' = pc
        BY <1>5, <2>0, <2>2, <2>4, <3>2, <3>3
      <3>4. CASE pc'[j] = "begin" /\ mem'[j] = m
        BY <2>1, <2>2, <2>4, <3>2, <3>4 DEF ProgressInv, Kept, Sure, Passed, AtStep, InStep, Saving
      <3>5. QED BY <2>1, <3>3, <3>4
    <2>5. QED BY <2>3, <2>4
  <1>10. CASE Crash
    <2>1. pc'[k] = "none" /\ db' = db /\ effects' = effects
      BY <1>10 DEF Crash
    <2>2. QED BY <1>2, <1>5, <2>1 DEF ProgressInv, Kept
  <1>11. CASE Boot \/ Close \/ CloseReturn \/ ResumeReturn \/ UNCHANGED vars
    BY <1>3, <1>11 DEF Boot, Close, CloseReturn, ResumeReturn, vars
  <1>12. ASSUME NEW j \in Jobs, NEW i \in Steps(j), LateEffect(j, i) PROVE ProgressInv(k)'
    BY <1>12 DEF LateEffect, RecordAheadOfWorld
  <1>13. \A j \in Jobs : ResumeUnbuildable(j) \/ ResumePark(j) => j \in todo
    BY DEF ResumeUnbuildable, ResumePark
  <1>14. QED
    BY <1>4, <1>7, <1>8, <1>9, <1>10, <1>11, <1>12, <1>13 DEF Next, SubmitSteps, ResumeSteps

\* Nothing is passed before the first start.
LEMMA ContractInvInit == Init => ContractInv
  <1> SUFFICES ASSUME Init, NEW j \in Jobs PROVE faulted = {} /\ ProgressInv(j)
    BY DEF Init, ContractInv
  <1>1. db[j].cur = 1 /\ \A i \in Steps(j) : db[j].steps[i] = "pending"
    BY DEF Init, Blank
  <1>2. Passed(j, db[j]) = {}
    BY <1>1 DEF Passed, Steps
  <1>3. QED BY <1>2 DEF Init, ProgressInv, AtStep, InStep, Saving

-----------------------------------------------------------------------------
(***************************************************************************)
(* The refinement of JobContract, one lemma for each kind of step.         *)
(***************************************************************************)
\* A step that leaves the records' states and flags and the world alone.
LEMMA ContractStutter ==
  ASSUME \A k \in Jobs : db'[k].state = db[k].state /\ db'[k].cancel = db[k].cancel,
         UNCHANGED <<effects, afterCancel>>
  PROVE  UNCHANGED Contract!vars
  <1>1. [k \in Jobs |-> db[k].state]' = [k \in Jobs |-> db[k].state]
    OBVIOUS
  <1>2. {k \in Jobs : db[k].cancel}' = {k \in Jobs : db[k].cancel}
    OBVIOUS
  <1>3. QED BY <1>1, <1>2 DEF Contract!vars

\* A step that changes the state of one record, and neither a flag nor the world.
LEMMA ContractState ==
  ASSUME NEW j \in Jobs, \A k \in Jobs \ {j} : db'[k] = db[k],
         db'[j].cancel = db[j].cancel, UNCHANGED <<effects, afterCancel>>,
         \/ db[j].state = "absent" /\ db'[j].state = "pending"
         \/ db[j].state = "pending" /\ db'[j].state = "running"
         \/ db[j].state \in Open /\ db'[j].state = "parked"
         \/ /\ db[j].state \in Open /\ db'[j].state \in Terminal
            /\ db'[j].state = "succeeded" => \A i \in Sure(j) : effects[j][i] = 1
            /\ db'[j].state = "cancelled" => db[j].cancel
  PROVE  Contract!Next
  <1> DEFINE S == [k \in Jobs |-> db[k].state]
             C == {k \in Jobs : db[k].cancel}
  <1>1. S' = [S EXCEPT ![j] = db'[j].state] /\ S[j] = db[j].state
    OBVIOUS
  <1>2. C' = C /\ (j \in C <=> db[j].cancel)
    OBVIOUS
  <1>3. CASE db[j].state = "absent" /\ db'[j].state = "pending"
    <2>1. Contract!Accept(j)
      BY <1>1, <1>2, <1>3 DEF Contract!Accept
    <2>2. QED BY <2>1 DEF Contract!Next
  <1>4. CASE db[j].state = "pending" /\ db'[j].state = "running"
    <2>1. Contract!Begin(j)
      BY <1>1, <1>2, <1>4 DEF Contract!Begin
    <2>2. QED BY <2>1 DEF Contract!Next
  <1>5. CASE db[j].state \in Open /\ db'[j].state = "parked"
    <2>1. Contract!Park(j)
      BY <1>1, <1>2, <1>5 DEF Contract!Park, Open
    <2>2. QED BY <2>1 DEF Contract!Next
  <1>6. CASE /\ db[j].state \in Open /\ db'[j].state \in Terminal
             /\ db'[j].state = "succeeded" => \A i \in Sure(j) : effects[j][i] = 1
             /\ db'[j].state = "cancelled" => db[j].cancel
    <2>1. db'[j].state = "succeeded" => Contract!Complete(j)
      BY <1>6 DEF Contract!Complete, Sure
    <2>2. PICK s \in {"succeeded", "failed", "cancelled"} : s = db'[j].state
      BY <1>6 DEF Terminal
    <2>3. Contract!End(j, s)
      BY <1>1, <1>2, <1>6, <2>1, <2>2 DEF Contract!End, Open
    <2>4. QED BY <2>3 DEF Contract!Next
  <1>7. QED BY <1>3, <1>4, <1>5, <1>6

\* A step that stores a cancel, or withdraws a submission.
LEMMA ContractFlag ==
  ASSUME NEW j \in Jobs, \A k \in Jobs \ {j} : db'[k] = db[k], UNCHANGED <<effects, afterCancel>>,
         \/ db[j].state \in Open /\ db'[j].state = db[j].state /\ db'[j].cancel
         \/ db[j].state = "parked" /\ db'[j].state = "cancelled" /\ db'[j].cancel
         \/ /\ db[j].state = "pending" /\ db'[j].state = "absent" /\ ~db'[j].cancel
            /\ \A i \in Steps(j) : effects[j][i] = 0
  PROVE  Contract!Next
  <1> DEFINE S == [k \in Jobs |-> db[k].state]
             C == {k \in Jobs : db[k].cancel}
  <1>1. S' = [S EXCEPT ![j] = db'[j].state] /\ S[j] = db[j].state
    OBVIOUS
  <1>2. CASE db[j].state \in Open /\ db'[j].state = db[j].state /\ db'[j].cancel
    <2>1. S' = S /\ C' = C \cup {j}
      BY <1>2
    <2>2. Contract!Cancel(j)
      BY <1>1, <1>2, <2>1 DEF Contract!Cancel, Open
    <2>3. QED BY <2>2 DEF Contract!Next
  <1>3. CASE db[j].state = "parked" /\ db'[j].state = "cancelled" /\ db'[j].cancel
    <2>1. C' = C \cup {j}
      BY <1>3
    <2>2. Contract!CancelParked(j)
      BY <1>1, <1>3, <2>1 DEF Contract!CancelParked
    <2>3. QED BY <2>2 DEF Contract!Next
  <1>4. CASE /\ db[j].state = "pending" /\ db'[j].state = "absent" /\ ~db'[j].cancel
             /\ \A i \in Steps(j) : effects[j][i] = 0
    <2>1. C' = C \ {j} /\ Contract!Untouched(j)
      BY <1>4 DEF Contract!Untouched, Steps
    <2>2. Contract!Withdraw(j)
      BY <1>1, <1>4, <2>1 DEF Contract!Withdraw
    <2>3. QED BY <2>2 DEF Contract!Next
  <1>5. QED BY <1>2, <1>3, <1>4

\* The one step that changes the world.
LEMMA ContractPerform ==
  ASSUME TypeOK, NEW j \in Jobs, RecordInv(j), EffectInv(j), j \notin faulted, PromptInv(j),
         ProgressInv(j), DoEffect(j)
  PROVE  Contract!Next
  <1> DEFINE S == [k \in Jobs |-> db[k].state]
             C == {k \in Jobs : db[k].cancel}
             i == idx[j]
  <1>1. /\ pc[j] = "do" /\ db' = db /\ AtStep(j) /\ i \in Steps(j)
        /\ effects' = [effects EXCEPT ![j][i] = effects[j][i] + 1]
        /\ afterCancel' = [afterCancel EXCEPT ![j] = afterCancel[j] + (IF db[j].cancel THEN 1 ELSE 0)]
    BY StepPosition DEF DoEffect, AtStep, InStep, TypeOK
  <1>2. mem[j].cur = i /\ mem[j].steps[i] = "running" /\ Clean(j, i)
    BY <1>1 DEF EffectInv, StepInv
  <1>3. effects[j][i] = 0 /\ \A k \in Steps(j) : k > i => effects[j][k] = 0
    BY <1>1, <1>2, StateNames DEF Clean, Steps
  <1>4. \A k \in Sure(j) : k < i => effects[j][k] = 1
    BY <1>1, <1>2 DEF ProgressInv, Passed, Sure
  <1>5. afterCancel[j] = 0
    <2>1. afterCancel[j] \in Nat
      BY DEF TypeOK, WorldType
    <2>2. afterCancel[j] <= 1 /\ afterCancel[j] # 1
      BY <1>1 DEF PromptInv
    <2>3. QED BY <2>1, <2>2
  <1>6. S[j] = "running" /\ S' = S /\ C' = C /\ (j \in C <=> db[j].cancel)
    BY <1>1 DEF ProgressInv
  <1>7. /\ effects' = [effects EXCEPT ![j][i] = 1]
        /\ afterCancel' = [afterCancel EXCEPT ![j] = IF j \in C THEN 1 ELSE 0]
    BY <1>1, <1>3, <1>5
  <1>8. Contract!Perform(j, i)
    BY <1>3, <1>4, <1>5, <1>6, <1>7 DEF Contract!Perform, Sure, Steps
  <1>9. QED BY <1>1, <1>8 DEF Contract!Next, Steps

\* Every step of every actor is a step of the contract or changes nothing of it.
LEMMA ContractNext ==
  ASSUME LateEffects = FALSE, MaxFaults = 0, TypeOK, LifecycleInv, LeaseInv, StoreInv,
         RecordAheadOfWorld, ContractInv, \A j \in Jobs : PromptInv(j), [Next]_vars
  PROVE  [Contract!Next]_(Contract!vars)
  <1> USE DEF engine, run, world, history
  <1>0. \A j, r : ~DiskFault(j, r)
    BY DiskAccepts
  <1>1. \A j \in Jobs : /\ RecordInv(j) /\ EffectInv(j) /\ ProgressInv(j) /\ PromptInv(j)
                        /\ j \notin faulted /\ db[j] \in RecordType(j) /\ j \in DOMAIN db
    BY DEF StoreInv, RecordAheadOfWorld, ContractInv, TypeOK, StoreType
  <1>2. CASE UNCHANGED <<db, effects, afterCancel>>
    BY <1>2, ContractStutter
  <1>3. ASSUME NEW j \in Jobs, RunSteps(j) \/ Spawn(j) PROVE [Contract!Next]_(Contract!vars)
    <2>1. CASE DoEffect(j)
      BY <1>1, <2>1, ContractPerform
    <2>2. CASE SaveWrite(j)
      <3>1. /\ \A k \in Jobs \ {j} : db'[k] = db[k]
            /\ UNCHANGED <<effects, afterCancel>> /\ Saving(j)
            /\ db'[j].state = mem[j].state /\ db'[j].cancel = db[j].cancel
        BY <1>1, <2>2 DEF SaveWrite, Merge, RecordInv, SaveInv, Saving
      <3>2. db[j].state \in Open
        BY <1>1, <3>1 DEF RecordInv, Saving
      <3>3. CASE cont[j] = "exit"
        <4>1. /\ mem[j].state \in Terminal
              /\ mem[j].state = "succeeded" => \A i \in Sure(j) : effects[j][i] = 1
              /\ mem[j].state = "cancelled" => db[j].cancel
          BY <1>1, <3>1, <3>3 DEF RecordInv, ProgressInv
        <4>2. QED BY <3>1, <3>2, <4>1, ContractState
      <3>4. CASE cont[j] # "exit"
        <4>1. mem[j].state = "running"
          BY <1>1, <3>1, <3>4 DEF RecordInv
        <4>2. CASE db[j].state = "pending"
          BY <3>1, <4>1, <4>2, ContractState
        <4>3. CASE db[j].state = "running"
          BY <3>1, <4>1, <4>3, ContractStutter
        <4>4. QED BY <3>2, <4>2, <4>3 DEF Open
      <3>5. QED BY <3>3, <3>4
    <2>3. CASE ~DoEffect(j) /\ ~SaveWrite(j)
      <3>1. UNCHANGED <<db, effects, afterCancel>>
        BY <1>0, <1>3, <2>3 DEF RunSteps, SaveRead, SaveConflict, SaveFault, RunBegin, RunSucceed,
           RunStop, RunCancelled, RunStep, DoReturnOk, DoReturnError, DoCancelled, DoInterrupted,
           Exit, Spawn
      <3>2. QED BY <1>2, <3>1
    <2>4. QED BY <2>1, <2>2, <2>3
  <1>4. ASSUME NEW j \in Jobs, SubmitPut(j) PROVE Contract!Next
    <2>1. /\ \A k \in Jobs \ {j} : db'[k] = db[k]
          /\ UNCHANGED <<effects, afterCancel>> /\ submit[j] = "leased" /\ db'[j] = FirstRecord(j)
      BY <1>0, <1>1, <1>4 DEF SubmitPut
    <2>2. db[j].state = "absent" /\ ~db[j].cancel /\ db[j].cancel \in BOOLEAN
      BY <1>1, <2>1 DEF LifecycleInv, RecordInv, RecordType
    <2>3. db'[j].state = "pending" /\ db'[j].cancel = FALSE
      BY <2>1 DEF FirstRecord, Blank
    <2>4. QED BY <2>1, <2>2, <2>3, ContractState
  <1>5. ASSUME NEW j \in Jobs, SubmitWithdraw(j) PROVE Contract!Next
    <2>1. /\ \A k \in Jobs \ {j} : db'[k] = db[k]
          /\ UNCHANGED <<effects, afterCancel>> /\ submit[j] = "stored" /\ db'[j] = Blank(j)
      BY <1>0, <1>1, <1>5 DEF SubmitWithdraw
    <2>2. db[j].state = "pending" /\ \A i \in Steps(j) : effects[j][i] = 0
      BY <1>1, <2>1 DEF RecordInv, EffectInv, FreshInv, Clean, Steps
    <2>3. db'[j].state = "absent" /\ ~db'[j].cancel
      BY <2>1 DEF Blank
    <2>4. QED BY <2>1, <2>2, <2>3, ContractFlag
  <1>6. ASSUME NEW h \in Cancellers, CancelSteps(h) PROVE [Contract!Next]_(Contract!vars)
    <2>1. CASE ~CancelWrite(h)
      <3>1. UNCHANGED <<db, effects, afterCancel>>
        BY <1>0, <1>6, <2>1 DEF CancelSteps, CancelRead, CancelRefused, CancelSignal
      <3>2. QED BY <1>2, <3>1
    <2>2. CASE CancelWrite(h)
      <3>1. PICK j \in Jobs : j = handler[h].job
        BY <2>2 DEF CancelWrite, TypeOK, CallType
      <3>2. /\ handler[h].pc = "read" /\ db[j].rev = handler[h].rev
            /\ db'[j] = Flagged(db[j], handler[h].state = "parked")
            /\ \A k \in Jobs \ {j} : db'[k] = db[k]
            /\ UNCHANGED <<effects, afterCancel>>
        BY <1>1, <2>2, <3>1 DEF CancelWrite
      <3>3. db[j].state = handler[h].state /\ db[j].state \in Open \cup {"parked"}
        <4>1. HandlerInv(h) /\ handler[h].rev \in Nat
          BY DEF StoreInv, TypeOK, CallType, HandlerType
        <4>2. QED BY <1>1, <3>1, <3>2, <4>1 DEF HandlerInv, RecordInv
      <3>4. /\ db'[j].cancel = TRUE
            /\ db'[j].state = IF handler[h].state = "parked" THEN "cancelled" ELSE db[j].state
        BY <1>1, <3>2 DEF Flagged, RecordType
      <3>5. Contract!Next
        BY <3>2, <3>3, <3>4, ContractFlag DEF Open
      <3>6. QED BY <3>5
    <2>3. QED BY <2>1, <2>2
  <1>7. ASSUME NEW j \in todo,
               \/ ResumeUnbuildable(j) \/ ResumePark(j)
               \/ \E p \in ResumePoints(j) : ResumeSucceed(j, p) \/ ResumeJob(j, p)
        PROVE  [Contract!Next]_(Contract!vars)
    <2>1. j \in Jobs /\ db[j].state \in Open
      BY DEF LifecycleInv, TypeOK, EngineType, Open
    <2>2. PICK m : /\ db' = [db EXCEPT ![j] = Merge(db[j], m)]
                   /\ m.state \in {"parked", "succeeded", db[j].state}
                   /\ m.state = "succeeded" => \A i \in Sure(j) : effects[j][i] = 1
      BY <1>1, <1>7, <2>1, ResumeKeeps
    <2>3. /\ \A k \in Jobs \ {j} : db'[k] = db[k]
          /\ db'[j].state = m.state /\ db'[j].cancel = db[j].cancel
      BY <1>1, <2>1, <2>2 DEF Merge
    <2>4. UNCHANGED <<effects, afterCancel>>
      BY <1>7 DEF ResumeUnbuildable, ResumePark, ResumeSucceed, ResumeJob
    <2>5. CASE m.state = db[j].state
      BY <2>3, <2>4, <2>5, ContractStutter
    <2>6. CASE m.state = "parked" \/ m.state = "succeeded"
      BY <2>1, <2>2, <2>3, <2>4, <2>6, ContractState DEF Terminal
    <2>7. QED BY <2>2, <2>5, <2>6
  <1>8. ASSUME \/ Boot \/ Close \/ CloseReturn \/ ResumeReturn \/ Crash \/ UNCHANGED vars
               \/ \E j \in Jobs : SubmitAcquire(j) \/ SubmitStart(j)
        PROVE  UNCHANGED <<db, effects, afterCancel>>
    BY <1>8 DEF Boot, Close, CloseReturn, ResumeReturn, Crash, vars, SubmitAcquire, SubmitStart
  <1>9. \A j \in Jobs : \A i \in Steps(j) : ~LateEffect(j, i)
    BY DEF LateEffect, RecordAheadOfWorld
  <1>10. \A j \in Jobs : ResumeUnbuildable(j) \/ ResumePark(j) => j \in todo
    BY DEF ResumeUnbuildable, ResumePark
  <1>11. QED
    BY <1>2, <1>3, <1>4, <1>5, <1>6, <1>7, <1>8, <1>9, <1>10 DEF Next, SubmitSteps, ResumeSteps

\* The first state of the engine is the first state of the contract.
LEMMA ContractInit == Init => Contract!Init
  <1> SUFFICES ASSUME Init PROVE Contract!Init
    OBVIOUS
  <1>1. \A j \in Jobs : db[j].state = "absent" /\ ~db[j].cancel
    BY DEF Init, Blank
  <1>2. QED BY <1>1 DEF Init, Contract!Init, Steps

\* While the disk accepts the records and no request outlives its call, every
\* behaviour of the engine is one the contract of a job allows: for any number of
\* jobs, steps and cancels, through every interleaving, crash and restart.
THEOREM EngineKeepsTheContract ==
  ASSUME LateEffects = FALSE, MaxFaults = 0
  PROVE  Spec => ImplementsContract
  <1>1. TypeOK /\ LifecycleInv /\ LeaseInv /\ StoreInv /\ (\A j \in Jobs : PromptInv(j)) /\ [Next]_vars
          => (\A j \in Jobs : PromptInv(j))'
    BY PromptNext
  <1>2. TypeOK /\ LifecycleInv /\ LeaseInv /\ StoreInv /\ RecordAheadOfWorld /\ ContractInv
          /\ (\A j \in Jobs : PromptInv(j)) /\ [Next]_vars => [Contract!Next]_(Contract!vars)
    BY ContractNext
  <1>3. QED
    BY <1>1, <1>2, TypeInit, TypeNext, LifecycleInit, LifecycleNext, LeaseInit, LeaseNext,
       EffectInit, EffectNext, StoreInit, StoreNext, PromptInit, ContractInvInit, ContractInvNext,
       ContractInit, PTL DEF Spec, ImplementsContract, Contract!Spec
====
