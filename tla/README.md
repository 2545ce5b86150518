# Verification of holzkube-manager

TLA+ models of the parts of holzkube-manager that keep state and race, fail or
restart; TLC runs that check them on small instances; and TLAPS proofs of the
properties that matter most, for every value of the constants.

holzkube-manager is one Go process (`cmd/holzkube-managerd`) that operates
Talos Kubernetes clusters. It keeps JSON records in a data directory, talks
gRPC to nodes and HTTPS to Kubernetes, serves an HTTP API with server-sent event
streams to a web interface, and runs everything destructive as a job.

## 1. Inventory

### Parts, their state, their operations

| Part (`internal/` unless said) | State | Operations | Hard because |
|---|---|---|---|
| job engine (`jobs/jobs.go`, `jobs/nodeactions.go`) | job records (store), leases, live goroutines, contexts | Submit, run, save, Cancel, Resume, park, Close | goroutines, handlers and restarts meet in one record; a repeated reboot or reset is damage |
| confirmation tokens (`jobs/confirm.go`) | used nonces | Issue, Check | single use, expiry |
| stream hub (`streamhub`), event-stream handler (`httpapi/handlers/stream.go`) | topics, rings, subscriptions, channels | Publish, Subscribe, cancel, Drop, Close | a lock per topic, readers that take no lock, reconnects with an old cursor |
| node streams (`nodestream`) | readers by topic, reference counts, timers | Acquire, release, linger, run, Close | timers of earlier releases, two readers of one topic |
| file store (`store`, `store/fsstore`, `store/migrate`, `backup`) | files, the flock, VERSION, archives | Get, Put, Delete, Open, migrate, backup, restore | crashes between write, rename and fsync; two processes |
| power model (`power`) | the Disabled and PowerCordoned marks, the Kubernetes cordon | stop, start, disable, enable, restart and the forced verbs, for a node and a cluster; the keeper | nodes that go down late, a mark and a cordon that are two writes, an operator who cordons too |
| upgrades, snapshots, node removal (`upgrade`) | job plans, snapshots, schedules | rolling upgrade, etcd gate, backup scheduler, member removal | quorum across several jobs |
| machine configuration (`machineconfig`), drift (`configdrift`) | staged changes, baselines | plan, apply, compare | a change planned on a base that has moved |
| provisioning and scaling (`provision`, `scale`) | cluster records, bootstrap progress | create, bootstrap once, add nodes | bootstrap must happen exactly once |
| CA rotation (`rotateca`) | accepted and issuing CAs per node | the phases of a rotation | a crash between phases locks the operator out |
| inventory (`inventory`) | machines, clusters, health | adopt, observe, forget, heartbeat | an observer and services write one record |
| audit log (`audit`) | hash chain, segments | append, rotate, verify | order of entries under concurrency |
| authentication and sessions (`auth`) | users, sessions, lockouts | login, logout, first user, role change | the last administrator |
| host helper and self-update (`host`, `deploy`) | request and status files | update, roll back | two processes that share a directory |
| history (`history`) | samples | record, thin out | retention |
| Kubernetes access (`kube`), Talos access (`talos`), image factory (`imagefactory`) | caches, circuit breaker | calls | time-outs, cached clients |
| HTTP API (`httpapi`) | none of its own | decode, call a service, encode | - |
| daemon (`cmd/holzkube-managerd`), client (`cmd/holzkubectl`) | wiring | start, shut down, backup and restore commands | the order of start and stop |
| certificates (`tlsx`, `certwatch`), health, metrics, support bundle, static tables, simulators, web interface | files, views | - | - |

### How they interact

- A handler checks a request against a service's *report*, then the service
  calls `Engine.Submit`; the job's steps call `kube` and `talos` and write the
  machine and cluster records of the store. Between the check and the submit,
  and between any two steps, other requests run.
- The engine's records are store records: `Get`, then `Put` compared by
  revision. Progress (`save`), cancels from handlers and `Resume` write the same
  record.
- The engine publishes each saved state to the hub; node streams publish log
  lines and their connection states; the event-stream handler subscribes, and a
  browser comes back with the identifier of the last event it saw.
- The keeper and the inventory's observer run on timers of their own beside the
  jobs; they take no lease.
- On shutdown the listener stops, then `Engine.Close` waits for goroutines. On
  start `Resume` runs before the listener.

### What makes each modelled part correct

- Job engine: two jobs never work on one cluster at a time; a step's side effect
  happens at most once and in order through any number of crashes; a stored
  cancel sticks and is prompt; an end is final and stored; every job ends or is
  parked, and every lease comes back.
- Hub: no event is lost without being counted, none is reordered, a publisher
  never waits for a reader, and nothing is sent on a closed channel.
- Node streams: a watched topic is read; an unwatched one stops being read.
- Store: what a caller was told of survives; no update is lost; an interrupted
  migration is neither unbacked nor misreported.
- Power: a cordon the product makes is owed an uncordon and one an operator made
  is left; a rolling restart has one node away; an application comes back as it
  was before it was stopped.
- Kubernetes access: a drain that says it succeeded moved the pods; a manifest
  takes no field from another manager without being told to; a list says which
  node it could not ask.
- Upgrades, snapshots, provisioning, rotation: a walk never costs etcd its
  quorum; pruning never takes the newest snapshot; a bootstrap whose end nobody
  knows is not made again; no node refuses the certificate the manager holds.
- Accounts: what was revoked, deleted or spent stays so, whatever a request that
  read it before writes afterwards.
- Audit log and history: the chain is unbroken over days and crashes; a chart
  shows only readings of its own time.
- Talos access and node configuration: a change is sent at most once; an open
  difference is closed only by somebody who confirmed it.
- Observers and the daemon: a machine has one observer and a notice is not lost;
  one process at a time appends to the audit log; whoever shares a
  resolution is answered.
- Host actions and hardware: an order has one owner; a sensor's value is shown
  under its own chip.

`PROJECT.json` lists every part with its files, and the hazards of the code,
each at its line with the properties that cover it.

## 2. Modules

One module per component. A module's state is the component's memory and the
part of the world it acts on, its actions are the places at which another
goroutine, request, process or crash can come between.

| Module | Models | Run |
|---|---|---|
| `JobEngine` | `jobs/jobs.go`, the steps of `jobs/nodeactions.go` | `jobs`, `jobs_live` |
| `JobContract` | what a job promises: the abstract specification `JobEngine` implements | `jobs` |
| `StreamHub` | `streamhub`, `handlers/stream.go` | `streams` |
| `NodeStream` | `nodestream` | `streams` |
| `ClusterPower` | `power`, the part of `upgrade/gate.go` it asks | `cluster` |
| `AppPower` | `kube/apppower.go`, `startstop.go`, `workloads.go` and their routes | `cluster` |
| `Drain` | `kube/drain.go`, `kube/job.go` | `cluster` |
| `Manifests` | `kube/manifests.go` | `cluster` |
| `KubeView` | `kube/apps.go`, `kube/tidy.go` | `cluster` |
| `Upgrade` | `upgrade`: gate, plan, rolling walk, removal | `machines` |
| `Backups` | `upgrade`: snapshots, schedule, status, pruning | `machines` |
| `Provision` | `provision` | `machines`, `bootstrap_twice` |
| `RotateCA` | `rotateca`, `inventory/rotate.go` | `machines` |
| `FsStore` | `store`, `store/fsstore`, `store/migrate`, `backup` | `disk` |
| `AuditLog` | `audit`, the audit middleware | `disk` |
| `History` | `history` | `disk` |
| `Access` | `auth`, its routes | `access` |
| `HttpChain` | the gates of `httpapi` | `access` |
| `NodeConfig` | `machineconfig`, `configdrift` | `nodes` |
| `TalosClient` | `talos`: calls, retries, dry run, breaker, streams | `nodes`, `dry_run` |
| `SimNode` | `talossim`: the machine and the etcd ring | `nodes` |
| `Inventory` | `inventory`: adoption, filing, membership | `nodes` |
| `CertWatch` | `certwatch`, what overview and wall make of it | `nodes` |
| `Supervision` | `inventory`: observers; `talos/watch.go` | `loops` |
| `SimFaults` | `talossim`: injected faults | `loops` |
| `ImageFactory` | `imagefactory`, `handlers/schematics.go` | `loops` |
| `Daemon` | `cmd/holzkube-managerd` | `loops` |
| `HostOrders` | `jobs/confirm.go`, `handlers/host.go`, `host/hostaction`, the root helper | `host` |
| `HostCollector` | `host`: what the machine reports of itself | `host` |
| `HardwareRead` | `talos` and `inventory`: the hardware view of a node | `host` |
| `...Proofs` | theorems | - |
| `MC...` | instances for TLC | - |

An `MC` module puts the components of one area side by side: a variable `turn`
says which of them moves, and each moves by its own next-state relation. They
share no variable, so a property of one component holds in the composition exactly
when it holds of the component alone; what the composition saves is a run and
an instance per component. Components that do interact are in one module
(the applier and the drift watch in `NodeConfig`, daemon and root helper in
`HostOrders`, the job, the record and the nodes in `RotateCA`).

### Jobs and streams

`JobEngine`: `db` is the store's job records with their revision and cancel
flag, `leases` is `Engine.leases`, `pc`/`cont`/`idx`/`mem` are a goroutine's
position, where its current save returns to, the loop variable of `run` and its
copy of the record, `submit` and `handler` are the calls in progress, `phase`,
`closed` and `returned` the life of the process. `effects` counts what really
happened in the world. `Submit` is `SubmitAcquire`, `SubmitPut`, `SubmitStart`
or `SubmitWithdraw`; `save` is `SaveRead` and `SaveWrite`, with `SaveConflict`
for the retry and `SaveFault` for the disk; `run` is `RunBegin`, the boundary
(`RunStop`, `RunCancelled`, `RunStep`, `RunSucceed`) and the step itself
(`DoEffect` and the four ways it returns); `Cancel` is `CancelRead`,
`CancelWrite`, `CancelSignal`; `Resume` is `Boot` and one action per outcome of
its loop's body. `Crash` keeps `db` and the world. A step is known by what its
`Happened` can say: nothing to undo (`read`), the truth or "cannot tell"
(`check`), silence taken for the effect (`off`), or nil (`blind`). `LateEffects`
lets a request take effect after its call has returned with an error or died
with the process.

`StreamHub`: one topic name and the topic objects it stands for one after the
other, because `Drop` and a restart begin a new one with identifiers from 1.
`ring`, `next` and `count` are the circular buffer. A publisher holds the
topic's lock from `PublishAppend` to `PublishReturn`; `PushSend`, `PushFull` and
`PushEvict` are the selects of `push`, and a reader's `Receive` can come between
any two.

`NodeStream`: one topic; readers are numbered in the order made. `timers` counts
the `AfterFunc` timers of `release` per tick, so that a timer set by an earlier
release is still there when the panel has come back, and `LingerOver` is its
function, with all of its early returns.

### The cluster's workloads

`ClusterPower`: a verb is checked against the report (`PressNode`,
`PressCluster`), then takes the lease or is refused (`Submit`), then runs as the
list of steps that `nodeSteps` and `clusterSteps` return. The cordon step is
three actions (look, mark, cordon) and the uncordon step two per node (uncordon,
clear the mark), because a crash can fall between them; `Resume` asks the step's
`Happened`. A node that accepted a shutdown or a reboot answers until
`GoesDown`. `by` records who made a node unschedulable. The keeper lists
(`SweepList`) and then looks at one node after the other (`keepCordoned`). The
engine's own records are left to `JobEngine`: here a job is its remaining steps,
and a step that fails, or a cancel, ends the job where it stands.

`AppPower`: the object's replicas, annotations, selector and suspend flag live
in the API server. A request reads the facts, decides, and makes its calls one
after the other; another operator's, a workload route's or the scale button's
calls come between, and any call may fail.

`Drain` is the one step of the drain job: cordon, list, evict one by one, wait,
with the disruption budget's refusals and what `Happened` answers after a
restart. `Manifests` is the plan and the apply of a pasted manifest, one call a
document, while others write, delete and install kinds. `KubeView` is the list
of applications, made of seven reads of a cluster that goes on changing, and the
sweep of what has finished, planned in one request and made in another.

### Machines

`Upgrade`: a job's steps decide (the health gate, the quorum rule), act and
wait, as three positions; between them the daemon may stop, an operator may lock
or forget a machine or remove an etcd member by hand, which takes no lease.
`Backups`: the write of a snapshot, its commit and the pruning are apart, and so
are the scheduler's decision and the status record. `Provision`: the job's
steps, the record of a bootstrap attempt as a file that can be torn, machines
that answer at an address that moves. `RotateCA`: the store record with the
authority in force and the one moved to, each node's issuing and accepted
authorities, the rounds over the nodes, and the renewal of the client
certificate between its read and its write.

### Disk

`FsStore`: `vol[k]` is what the kernel shows of a record, `may[k]` what a power
cut may leave: a rename adds to it, an `fsync` of the directory leaves one
element. A `Put` is `PutCheck` (revision compared under the entity's lock),
`PutRename` and `Sync`. `Open` is the flock, the sweep of temporaries,
`ReadVersion` (which stamps an empty directory and takes one without VERSION for
version 1), and the migration from the version that was read: archive, apply,
stamp. `Restore` truncates and writes one file after the other. `Kill` ends one
process, `PowerCut` all and picks from `may`.

`AuditLog`: the append's critical section is several steps because the process
or the power may go between them; `plain` and `gz` are the day's files, `reqs`
the requests that write an intent and an outcome. `History`: two rings per
subject over absolute slots, the sampler's pass, the file.

### Access

`Access`: every operation is a read, a decision and a write with the revision
that was read, as separate steps of a request; a session is loaded at the start
and stored at the end if it changed. `HttpChain`: the gates of a route in their
order, each a step, while roles, locks, the clock and the audit log change.

### Nodes

`NodeConfig`: an apply reads, compares the digest of its plan, tells the drift
watch what it is about to send, sends, and tells it the outcome; the drift watch
reads first and decides later; somebody with `talosctl` writes in between.
`TalosClient`: a call is admitted, sent, answered or not, and sent again when
its method may be; the node may have done what it was sent although the answer
is lost. `SimNode`: a handler of the simulator checks under the lock, releases
it and takes it again. `Inventory`: a call is a sequence of compare-and-swap
writes; filing a machine first evicts whoever claims its address. `CertWatch`: a
pass reads node after node and is stored as a whole.

### Loops

`Supervision`: the record, the map of supervisors and the wait group are touched
in separate steps; a watch writes to a channel with room for one event.
`SimFaults`: injections, their goroutines, calls in flight and `Close`.
`ImageFactory`: one resolution shared by whoever asks meanwhile, and the verdict
kept on a schematic. `Daemon`: parts opened one after another and closed in
reverse, workers that are waited for or only told to stop, subcommands with and
without the flock.

### Host

`HostOrders`: daemon and root helper take the one order file by renaming it;
a confirmation is spent before the order is placed; `Pickup` withdraws an
order nobody took. `HostCollector`: pages and the sampler share two baselines
and one walk of the data directory. `HardwareRead`: the memo of a node's layout
and counters, which a reboot makes stale.

## 3. Runs

| Run | Checks |
|---|---|
| `jobs` | `OneJobPerCluster`, `LeaseHeldByLiveJob`, `NoDoubledEffect`, `CancelIsPrompt`, `ImplementsContract` |
| `jobs_live` | `JobsEnd` |
| `streams` | `Conservation`, `WatchedIsRead`, `PublishNeverBlocks`, `UnwatchedStops` |
| `cluster` | `JobCordonIsOwed`, `OneAwayAtATime`, `ComesBackAsItWas`, `SilenceIsSaid`, `SuccessMovedThem`, `FieldsAreNotTaken` |
| `machines` | `WalkKeepsQuorum`, `NeverLockedOut`, `UnclearIsNotRetried`, `NewestIsKept` |
| `disk` | `AckedSurvives`, `BackupFirst`, `NoLostUpdate`, `ChainHolds`, `ChartsAreTrue` |
| `access` | `RevokedStaysRevoked`, `SeriesIsAskedOnce` |
| `nodes` | `ChangedAtMostOnce`, `MembersRunEtcd`, `NoQuietExpiry`, `OpenDriftIsConfirmed`, `NoSilentUndo` |
| `loops` | `OneObserver`, `NoLostNotice`, `OneAppender`, `NothingHangs`, `AskersAreAnswered` |
| `host` | `OneOwner`, `WaitersGetTheSize`, `SensorsAreTheirOwn` |
| `bootstrap_twice` | `NeverBootstrappedTwice` is violated |
| `dry_run` | `DryRunChangesNothing` is violated |

What each property says stands above its definition. `PROJECT.json` names for
each a plausible fault of the code that breaks it.

Why the bounds are enough:

- Jobs interfere in pairs, through one lease and one record: two jobs and two
  starts show each as the first and as the second. `jobs_live` has two steps, the
  fewest for which a boundary, a repeated step and a left-out step differ, three
  starts, so that a resumed job is interrupted again, one refused read or write,
  and requests that outlive their call.
- Three events in a ring of one wrap it twice; a channel of two (ring and buffer)
  is filled by a client that does not read; a second connection is a reconnect
  and a second topic object a restart or a `Drop`. A linger of 1 in 3 ticks has a
  timer outlive its reader's return; two readers are an old and a new one.
- One control-plane node makes Kubernetes come and go with it, and with a worker
  it is a rolling restart; two verbs are one whose check is stale when the other
  has run; two upsets are a crash in a step and a failure or a hand on the
  cluster meanwhile. Two operators and four requests are a stop, a start and
  another operator's pair around them. Two pods are one evicted and one refused.
- Three etcd members are the fewest that lose one and not two; the fourth node is
  a worker. Four ticks with an interval of 3 and a keep of 1 make a snapshot the
  newest, the oldest and the pruned one. Three machines, two addresses that move
  and two faults give every order of two bootstrap attempts. Three authorities
  are a rotation, its abandoned successor and the one after.
- Records share nothing but the process, so one record is enough; two writers
  race in one process or from two. Version 3 is two migration steps, so that a
  crash can fall between them. Three days are the open file, the one kept plain
  and the one compressed. Rings of two slots wrap within the five slots of the
  run, on both resolutions.
- Three account ids and two requests are one that writes what the other has just
  removed; the operator's series is three requests over a window of two ticks.
- One node with two callers, two faults and five calls opens and closes the
  breaker; two machines, three clusters (one of them minted here) and two
  addresses are an eviction and an adoption of the same real cluster twice.
- Two supervisors are an old and a new one of a machine; two injections overlap;
  two askers share one flight, a third resolution follows an expiry; one server
  and one subcommand meet in the data directory twice.
- Two confirmations, two requests and one stop are an order that is replaced,
  withdrawn or orphaned; two pages share a walk; one reboot moves three chips.

Symmetry is used where the members of a set are interchangeable and the run
checks no liveness property (`disk`, `access`, `host`).

Fairness: only what the scheduler or a deadline gives. A goroutine of the engine
that can go on is scheduled, and a call of `Do` returns because every RPC runs
under its method class's deadline; nothing makes an operator submit, cancel or
restart, but a process that has died is started again by its service manager
(`JobsEnd`). A publisher that can go on does, and no browser has to read
(`PublishNeverBlocks`). A due timer fires and a call whose context is cancelled
returns (`UnwatchedStops`). A request to the registry is answered or times out
(`AskersAreAnswered`); a fault's goroutine runs and a call in flight ends
(`NothingHangs`).

Deadlock is not checked: each of these systems may rest when nobody asks
anything of it, or when a bound is used up.

## 4. Where code and text disagree

With a run:

- `bootstrap_twice`: any error of the Bootstrap call, a lost answer included, is
  written down as "failed" (`provision/bootstrap.go:187`), and a failed attempt
  may be made again; the next control-plane node's job then bootstraps a second
  etcd. The file's comment calls its four mechanisms "stacked so that it cannot
  happen".
- `dry_run`: the gate refuses calls of the mutation class
  (`talos/dryrun.go:122`); `EtcdRecover` and the streaming upgrade are of an
  upload and a stream class and pass it.

Seen while modelling, without a run of its own:

- jobs: `save` gives up after its second conflict, so two cancels that land in
  its two attempts leave a job stored as running whose end was published; a
  reboot request that outlives its call can take effect after the node was asked
  whether it had, and is then repeated; the `off` step takes an unreachable node
  for one that is off; `wg.Add` can follow the `Wait` of a concurrent `Close`
  (`jobs.go:295`, `nodestream.go:241`);
- streams: identifiers start at 1 in each process and a cursor of the last
  process is compared with them, so a client that comes back after a restart can
  be handed a continuation that skips events without a gap; a `Subscribe` that
  found its topic before `Close` registers on it afterwards and is not ended
  (`streamhub.go:288`); a reader's "disconnected" can be published after its
  successor's "live" (`nodestream.go:284`);
- store: an archive a killed backup left is found broken only after its first
  files have replaced those in the directory; the flock is released before a
  restore writes (`commands.go:159`, admitted at the call); a record deleted and
  made again starts at revision 1 (`fsstore/inventory.go:93-106`), so a write
  that read the deleted one can pass the comparison;
- power: a stop is over when the node has accepted it, so the next careful stop
  still counts that node for the quorum; the keeper cordons without the mark, so
  a node it cordoned stays unschedulable after the enable; a restart of a node
  of a disabled cluster uncordons it until the next sweep; `Drain` cordons again
  after an operator has uncordoned, without the mark; the gate is asked before
  the drain and not again, and a restart does not ask it at all;
- applications: `apppower.go:37-38` says a start refuses a disabled
  application; the workload route (`handlers/kubernetes.go:679`) starts it;
- drain: `Happened` (`kube/job.go:126-141`) asks for pods left and not for the
  cordon, so a drain interrupted with nothing left to move ends as succeeded on
  a node somebody has uncordoned;
- lists: controllers are read first so that every pod's owner is known
  (`apps.go:424-428`); a replica set made between the two reads breaks that;
  `tidy.go:33` promises that the newest replica set stays, and the sweep deletes
  what the plan listed without looking again (`tidy.go:199-216`);
- upgrades: the gate "would rather refuse than strand" the cluster
  (`gate.go:1-11`); the removal of a member by hand takes no lease and asks
  nobody whether a walk has a node away (`service.go:570`);
- accounts: `refuseIfLastAdmin` (`auth/users.go:172`) lists and the caller writes
  later, so two administrators can demote each other;
- audit: an append whose write or fsync fails leaves what it wrote in the file,
  and the next one is chained to the record before it (`audit.go:212-222`);
- inventory: `Supervise` after a concurrent `ForgetMachine` leaves an observer of
  a machine that is no longer recorded (`observe.go:184`, `mutate.go:179-198`);
  dialling uses the authority of the record only (`import.go:431-441`), not the
  one a rotation is moving to;
- watches: the snapshot event can be dropped by a full channel although it
  "arrives exactly once per watch" (`talos/watch.go:130`, `:292`);
- certificates: the wall shows the first certificate to end among those at
  banner or worse, its comment says the worst (`wall_certificates.go:27`, `:48`);
- image factory: a promoted entry counts as proven without a fresh answer for
  its own name (`installer.go:538-549`); of two authoring requests the older
  probe can overwrite the newer verdict, which the comment calls strictly better
  informed (`schematics.go:473-476`, `:608-628`);
- simulator: a clear restores what its injection found, so two overlapping
  injections cleared in the order they were made leave the first in force
  (`scenario.go:200-203`, `:232-240`);
- history: "a crash loses at most the last minute" (`persist.go:30`), while the
  file is written at most every thirty (`persist.go:68`).

## 5. Proofs

`JobEngineProofs` holds for any number of jobs, clusters, steps, cancellers,
starts and refused writes. It assumes of the constants what `JobsAssumption`
and `BoundsAssumption` say: the two null values are no job and no cluster, every
job has at least one step, and every step a kind.

| Theorem | Says |
|---|---|
| `TypeCorrect` | `TypeOK` always holds; no position leaves a step list |
| `LeaseExcludes` | `OneJobPerCluster` always holds |
| `LeaseNotLeaked` | `LeaseHeldByLiveJob` always holds |
| `EffectsAtMostOnce` | `NoDoubledEffect` always holds if `LateEffects` is false |
| `EndIsFinal` | a record that has ended is never opened again |
| `CancelIsKept` | a cancel that is stored is never lost |
| `CancelStopsTheJob` | `CancelIsPrompt` always holds |
| `EngineKeepsTheContract` | `JobEngine` implements `JobContract` if `LateEffects` is false and `MaxFaults` is 0 |

`TypeOK` is inductive by itself, because it includes that inside a step the
loop variable is a step of the list.

`OneJobPerCluster` is not: nothing in it says that a job inside a step has the
lease. `LeaseInv` does, for every position from which the goroutine can still
reach a step, and for a `Submit` in progress; and it says that a lease names a
live job of its own cluster. That in turn needs `LifecycleInv`: `Resume` only
touches jobs nobody runs, a goroutine exists only after Submit or Resume has
handed its job over, and handlers act only while the process serves.

`NoDoubledEffect` needs to know what a record on disk says about the world.
`RecordAheadOfWorld` is that: a stored record is behind the world by at most the
step it says is running, unless a stored cancel already forbids every further
step. It is kept by the goroutine's copy (`BoundaryInv`, `StepInv`), survives
the window of `save` because only a cancel can come between its read and write
(`SaveInv`), and is what makes each answer of `Happened` safe to act on in
`Resume`. Without the condition on `LateEffects` it is false: see section 4.

`EndIsFinal` and `CancelIsKept` rest on `StoreInv`: as long as somebody works on a
record it is open, and so is the copy a save is about to write unless it is the
last one; a done context means a stored cancel; a handler that cancels holds the
stored revision or an older one. `PromptInv` adds that after a stored cancel at
most one effect happens. The refinement rests on `ContractInv`: what a record
calls passed has happened, and the end being saved is the true one. Its two
conditions are those of the `jobs` run: a write that is refused or an effect
that comes after its step was given up are exactly what the contract excludes.

`FsStoreProofs` holds for any number of records, writers, processes, migrations,
archives, changes and crashes. `StoreAssumption` says that there is a record,
that the null value is no process and that this binary's version is at least 1.

| Theorem | Says |
|---|---|
| `StoreTypeCorrect` | `TypeOK` always holds |
| `AcknowledgedSurvives` | `AckedSurvives` always holds |
| `TemporariesAreLive` | `TempsAreLive` always holds |
| `MigrationBackedUp` | `BackupFirst` always holds |
| `VersionIsHonest` | `VersionHonest` always holds |
| `UpdatesAreNotLost` | the action property `NoLostUpdate` |
| `AuditChain` | `ChainHolds` always holds (`AuditInv`) |
| `HistoryTrue` | `ChartsAreTrue` always holds (`HistoryInv`) |

The argument for the store rests on `CoreInv`, which also holds of a directory a restore has
written into. Its `LockInv` says that a process past the flock holds it, that a
writer in the middle of a change belongs to the process that serves, and that no
two of them change one record. `ArchiveInv` says that an archive being written
has one writer and is not being restored. The other parts speak of directories
no restore has touched:

- `NumberInv`: everything a power cut may leave of a record lies between the
  last acknowledged change and the last one made. `Sync` may acknowledge because
  nobody else can have renamed a file over the record since.
- `TempInv`: from the sweep on, temporaries are those of writers.
- `WriteInv`: a revision only grows between two deletions, so a record whose
  revision is the one read is the one read. A record deleted and created again
  starts over, which is why `NoLostUpdate` excepts a deletion in between.
- `MigrateInv`: a process that migrates has applied everything up to `at`, a
  directory without VERSION has no migration applied, and a serving process has
  a current one; an interrupted migration leaves all of this true.
- `BackupInv`: the archive a migration writes first is of the version and the
  layout that are still on the disk when it is closed.

The audit log and the history write their own files and are proved in the same
module. `AuditAssumption` says that a missing file is not a list of lines;
`HistoryAssumption` that a minute divides the fine ring and that the clock starts
later than the rings reach back.

`AuditInv` says what the files are (`FilesInv`): the newest is the plain file of the
logger's day, a compressed file is older than some plain one, so that no line is
added to a day that has been compressed, and the two copies of a day agree. As long
as no write has failed it adds that the logger knows the end of the chain, but for
the line it is about to sync (`TipInv`); an append then extends the chain, and a
restart or a power cut between write and sync takes back at most that line. The
archive is one file after the other. `FlattenGrows` says that adding to or taking
from its last file that is not empty does the same at the end of the archive.

`HistoryInv` says that the clock stands still within a pass and that the memory and
the file each hold all that their windows have room for (`MemoryInv`, `DiskInv`). A
reading put into a ring overwrites nothing that is still shown, because slots less
than a lap apart have different places (`ModApart`, `PutShows`); what is written and
read again is the same window (`AppendShows`, `ReadShows`). The mean of a minute is
over the readings still in the fine ring, which has room for all of them
(`MinuteIsMean`). Both sides are the same mean of the same set, so nothing has to be
said about sums of more than one reading.

`HostProofs` holds for any number of requests, confirmations and runs of the
helper (`HostAssumption`: what an intent and an installation consist of), of pages
and walks, and of readers, chips and drives (`HardwareAssumption`: finitely many
chips, and the null value is no drive).

| Theorem | Says |
|---|---|
| `OrderHasOneOwner` | `OneOwner` always holds |
| `ConfirmationMakesOneOrder` | the action property `OneOrderPerConfirmation`: no confirmation becomes two orders |
| `SizeIsForEveryWaiter` | `WaitersGetTheSize` always holds (`SizeInv`) |
| `TemperaturesAreTheirOwn` | `SensorsAreTheirOwn` always holds (`HwInv`) |

`HostInv` numbers the confirmations as they are issued and follows each one: what
became an order is gone as a confirmation, a request past the check has spent
its confirmation and is the only one that did, and what has left the slot went
one way only, to the helper or back to the daemon. `SizeInv` adds to the property
that a walk which was tried and left no size has failed. `HwInv` says of the
remembered layout that it is no newer than the boot of the node and that one of
this boot names the chips' places, and of a request that it lives within one boot,
so that what it read with a layout of this boot is right and a chip has one place.
What `flattenSensors` then makes of the readings is computed for every number of
chips, again by the least number at which the claim fails.

`NodesProofs` has one invariant per component, and the assumptions of
`TalosClient`, `SimNode`, `CertWatch`, `NodeConfig` and `Inventory` on their constants.

| Theorem | Says |
|---|---|
| `CallsChangeOnce` | `ChangedAtMostOnce` always holds: what is sent again is a read (`CallInv`) |
| `RingNamesRunningMembers` | `MembersRunEtcd` always holds (`RingInv`) |
| `ExpiryIsShown` | `NoQuietExpiry` always holds: a pass has heard a node or took over what the last one held (`CertInv`) |
| `OpenDriftNeedsAConfirmation` | the action property `OpenDriftIsConfirmed` (`DriftInv`) |
| `NobodyIsUndone` | the action property `NoSilentUndo` (`RecordsInv`) |

`RecordsInv` looks at every write a call still has to do: it has yet to read its
record, or holds a copy that is the stored record or has an older revision, unless
the record was deleted in between. `Put` refuses the older one, so what it writes
differs from the stored record by what this call means to change.

`LoopsProofs` covers the observers and the daemon.

| Theorem | Says |
|---|---|
| `ObserversAreOne` | `OneObserver` always holds |
| `NoticesAreRead` | `NoLostNotice` always holds |
| `AppenderIsAlone` | `OneAppender` always holds |
| `WorkersKeepTheirTools` | what a worker needs is open as long as it works |

`SupInv` says of every supervisor that the map names it exactly while it runs and
was not cancelled, that nothing is reported before the snapshot is complete and
the snapshot is delivered once, and that a change that was heard of is in the
channel or a pass is on its way to read it. `DaemonInv` says that what a process has open is a prefix of
the list it opens in order, that whoever has anything open has the lock, and that
a worker has its owner. `Supervise` racing `ForgetMachine` (section 4) is within
these theorems: they say what still holds of the observer that is left behind.

`ClusterProofs` covers the components of the `cluster` and `machines` runs.

| Theorem | Says |
|---|---|
| `UnclearStaysUnclear` | the action property `UnclearIsNotRetried` (`ProvInv`) |
| `InstallationIsNeverLockedOut` | `NeverLockedOut` always holds (`RotInv`) |
| `NewestSurvives` | the action property `NewestIsKept` (`BackupsInv`) |
| `DrainedMeansMoved` | the action property `SuccessMovedThem` (`DrainInv`) |
| `ApplyLeavesOthersFields` | the action property `FieldsAreNotTaken` |
| `CordonsAreOwed` | `JobCordonIsOwed` always holds (`CordonInv`) |
| `SilentNodesAreNamed` | `SilenceIsSaid` always holds (`KubeInv`) |
| `CountComesBack` | `ComesBackAsItWas` always holds (`AppInv`) |
| `UpgradesKeepQuorum` | `WalkKeepsQuorum` always holds in a cluster of three control planes or more (`QuorumInv`) |
| `RestartsRoll` | `OneAwayAtATime` always holds (`RollInv`) |

`RotInv` is the largest of them. A copy of the secrets that can still be written
differs from the record by what its owner means to write (`CopiesInv`); a node
that accepts other authorities accepts the one it issues from (`ConfigInv`); a
running rotation lists every member, past its check of the nodes they all accept
the new authority, and past the adoption it is ours (`RunInv`). The nodes have to
be a finite set. `NewestSurvives` needs,
beside "no snapshot comes from the future", lemmas on the newest of a set of files.
`KubeInv` follows one request from the list of pods through the rows each kubelet
answers for to the sentence that names the silent ones.

`AppInv` follows every list of calls a request still has to make. A list writes zero
only after it has remembered the count, and what a request read is still the count to
bring back when it writes, unless a scale landed inside its calls or a start was asked
for what already runs; the model records both and the property excepts them.

`QuorumInv` says that etcd has at least two voters and, where the inventory knows all
of them, that a majority stands; that past its check a step may still take its node,
because all that can have happened since is excepted (`CheckedInv`); and that a
control plane is wiped only after a step that took it out of etcd, which has happened
by then (`LeftInv`). Three control planes are needed: of one, the gate lets the only
voter be upgraded, and of two, one of which is still a learner, the same.

`RollInv` says that what a restart has left to do is reboots, each followed by the
wait for the same node, and that whoever was asked to reboot and is not back is the
node of the step under way. The steps are made by joining one list per node, of any
number of nodes in the order of their names.

`AccessProofs` holds for any number of requests, accounts and sessions.

| Theorem | Says |
|---|---|
| `WithdrawnForGood` | the action property `RevokedStaysRevoked` |
| `PasswordIsAskedOnce` | the action property `SeriesIsAskedOnce` |

A revocation survives because a record a request has read is the stored one or an
older one, in which case its write is refused (`ReadInv`); identifiers are new
when they are issued (`NewIdInv`). The second theorem rests on `StampInv`: a
session's stamp is never in the future nor older than the last request that was
let through, and a request at the gates was stamped after that one.

`StreamProofs` holds for any number of topics, connections and events, and any
sizes of ring and channel that are at least 1.

| Theorem | Says |
|---|---|
| `NothingIsLostUncounted` | `Conservation` always holds: what a client has seen and what it was told it missed is everything |
| `ClosedChannelsAreLeftAlone` | nothing is sent to a channel that was closed |
| `WatchedPanelsAreRead` | `WatchedIsRead` always holds |
| `CountIsOfPanels` | the reader's count is the number of panels that watch it |

`HubInv` says that the ring holds the newest events, that the subscribers of a
topic in use are its open connections, that one publisher at a time delivers to a
topic and only to its subscribers, and that no item is of an event to come. Its
`BalanceInv` is `Conservation` with what the publisher has in its hand. The two
recursive functions it speaks of, the number of events a channel's items stand
for and the replay of a ring, are computed for every length by taking the least
length at which the claim fails.

### Only model-checked

- Everything under fairness: `JobsEnd`, `PublishNeverBlocks`, `UnwatchedStops`,
  `NothingHangs`, `AskersAreAnswered`. They need ENABLED, which the provers here do
  not have.
- The runs of section 4, which show that something does not hold.

Every safety property of a passing run has a theorem.

## 6. Not modelled

Not worth a model: the web interface, static tables, the read-only views
(health, metrics, support bundle), key-pair generation, the command-line client,
and the decoding and encoding in `httpapi`. Talos, Kubernetes, the registry and
the kernel are the environment, modelled by how the code uses them; the
repository's simulators, where it has them, say what they answer.

Left out of the modelled parts: the session reaper; locked clusters, nodes
without a network card address or without a Kubernetes node in the power model;
topics of different names, which share only a map; the restore of an etcd
snapshot into a cluster; templates and the generated machine configuration;
password hashing and the OpenID exchange; address discovery; the parsing of what
kernel and kubelet print; the list of extensions of the image factory.
