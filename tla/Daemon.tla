------------------------------- MODULE Daemon -------------------------------
(***************************************************************************)
(* One data directory and the processes that come to work in it: the       *)
(* server, which opens its parts one after another and closes them in the  *)
(* reverse order, and the subcommands, some of which take the directory's   *)
(* lock and some of which do not.                                          *)
(*                                                                         *)
(* A part stands for what a step of run() opens and a deferred call closes. *)
(* What runs inside the process is a set of workers: some are waited for    *)
(* when their part closes (jobs, the sampler, observers, stream readers),   *)
(* some are only told to stop (the backup schedule; the certificate and     *)
(* drift watches and the keeper start no other worker and are seen here     *)
(* only as parts), and the HTTP handlers get a grace period after which the *)
(* server goes on without them.                                            *)
(***************************************************************************)
EXTENDS Integers, Sequences, FiniteSets, SequencesExt

CONSTANTS
  Servers,          \* processes started as the server
  Commands,         \* processes started as a subcommand
  MaxStarts,        \* bound: how often one server is started
  Unlocked          \* the lock when nobody holds it

Procs == Servers \cup Commands

ASSUME DaemonAssumption == Unlocked \notin Procs

VARIABLES
  flock,            \* the process that holds the lock of the data directory
  startAt,          \* startAt[p]: the step of the start p takes next
  mode,             \* "off" | "starting" | "serving" | "draining" | "closing" | ...
  opened,           \* opened[p]: the parts open in p, oldest first
  shutting,         \* shutting[p]: the newest part has been told to stop
  dbusy,            \* dbusy[p]: the workers that run in p
  dry,              \* dry[p]: started with --dry-run
  signalled,        \* signalled[p]: somebody asked p to stop
  starts            \* starts[p]: how often p has been started

daemonVars == <<flock, startAt, mode, opened, shutting, dbusy, dry, signalled, starts>>

Waited == {"job", "sampler", "observer", "reader"}
Workers == Waited \cup {"backups", "handler"}

(* The steps of run(), in the order of the source: a part that a deferred   *)
(* call closes again, or a check that may only fail. "verified" is the      *)
(* audit chain, the accounts and the factory client; "wired" registers the  *)
(* kinds of job and makes the confirmer, the bootstrap intents, the release *)
(* lookup and the identity provider.                                        *)
StartOrder ==
  <<"store", "audit", "verified", "inventory", "hub", "streams", "engine", "wired",
    "actions", "observing", "sampler", "certs", "drift", "keeper", "resumed",
    "backups", "server">>

(* The same with the audit log opened before the directory is locked.       *)
StartOrderLockLate ==
  <<"audit", "store", "verified", "inventory", "hub", "streams", "engine", "wired",
    "actions", "observing", "sampler", "certs", "drift", "keeper", "resumed",
    "backups", "server">>

StartList == StartOrder

Checks == {"verified", "wired", "observing", "resumed"}

(* What a job of the registered kinds reaches through the functions it was  *)
(* given: node actions, provisioning, upgrades, drains, power and rotation. *)
JobNeeds == {"store", "inventory", "hub"}

WorkerNeeds(w) ==
  CASE w = "job" -> JobNeeds
    [] w = "sampler" -> {"store", "inventory", "actions"}
    [] w = "observer" -> {"store"}
    [] w = "reader" -> {"hub", "inventory", "store"}
    [] OTHER -> {}

(* The part whose closing cancels a worker and, for the first four, waits.  *)
OwnerOf(w) ==
  CASE w = "job" -> "engine"
    [] w = "reader" -> "streams"
    [] w = "observer" -> "inventory"
    [] w = "handler" -> "server"
    [] OTHER -> w

IsOpen(p, part) == part \in Range(opened[p])
Newest(p) == Last(opened[p])
AcceptsWork(p, part) ==
  IsOpen(p, part) /\ ~(shutting[p] /\ Newest(p) = part)

-----------------------------------------------------------------------------

DaemonInit ==
  /\ flock = Unlocked
  /\ startAt = [p \in Procs |-> 1]
  /\ mode = [p \in Procs |-> "off"]
  /\ opened = [p \in Procs |-> <<>>]
  /\ shutting = [p \in Procs |-> FALSE]
  /\ dbusy = [p \in Procs |-> {}]
  /\ dry = [p \in Procs |-> FALSE]
  /\ signalled = [p \in Procs |-> FALSE]
  /\ starts = [p \in Procs |-> 0]

(* The process starts: flags, logger, the loopback guard and the data       *)
(* directory come first, and a refusal there leaves nothing to close.       *)
ServerStarts(p) ==
  /\ p \in Servers /\ mode[p] = "off" /\ starts[p] < MaxStarts
  /\ \E d \in BOOLEAN : dry' = [dry EXCEPT ![p] = d]
  /\ mode' = [mode EXCEPT ![p] = "starting"]
  /\ starts' = [starts EXCEPT ![p] = @ + 1]
  /\ UNCHANGED <<flock, startAt, opened, shutting, dbusy, signalled>>

(* What runs on its own from this step on. In --dry-run the backup schedule *)
(* is not started; the sampler is.                                          *)
BeginsWith(p, step) ==
  CASE step = "observing" -> {"observer"}
    [] step = "sampler" -> {step}
    [] step = "backups" /\ ~dry[p] -> {step}
    [] OTHER -> {}

(* One step of the start. The lock is the first of them.                    *)
StartStep(p) ==
  LET step == StartList[startAt[p]] IN
  /\ mode[p] = "starting"
  /\ (step = "store") => (flock = Unlocked)
  /\ flock' = IF step = "store" THEN p ELSE flock
  /\ opened' = [opened EXCEPT ![p] =
                  IF step \in Checks THEN @ ELSE Append(@, step)]
  /\ \/ dbusy' = [dbusy EXCEPT ![p] = @ \cup BeginsWith(p, step)]
     \/ step = "resumed" /\ dbusy' = [dbusy EXCEPT ![p] = @ \cup {"job"}]
  /\ startAt' = [startAt EXCEPT ![p] = @ + 1]
  /\ mode' = [mode EXCEPT ![p] =
                IF startAt[p] = Len(StartList) THEN "serving" ELSE "starting"]
  /\ UNCHANGED <<shutting, dry, signalled, starts>>

(* A step fails -- another process has the lock, the chain cannot be read,  *)
(* the address is taken -- and run() returns through its deferred calls.    *)
StartFails(p) ==
  /\ mode[p] = "starting"
  /\ (StartList[startAt[p]] = "store" /\ flock # Unlocked)
     \/ StartList[startAt[p]] \in Checks \cup {"audit", "server"}
  /\ mode' = [mode EXCEPT ![p] = "closing"]
  /\ UNCHANGED <<flock, startAt, opened, shutting, dbusy, dry, signalled, starts>>

-----------------------------------------------------------------------------

(* Work that comes while the process serves.                                *)
RequestArrives(p) ==
  /\ mode[p] = "serving"
  /\ dbusy' = [dbusy EXCEPT ![p] = @ \cup {"handler"}]
  /\ UNCHANGED <<flock, startAt, mode, opened, shutting, dry, signalled, starts>>

(* A handler, or the backup schedule, submits a job; a closing engine       *)
(* refuses it.                                                              *)
JobSubmitted(p) ==
  /\ dbusy[p] \cap {"handler", "backups"} # {}
  /\ AcceptsWork(p, "engine")
  /\ dbusy' = [dbusy EXCEPT ![p] = @ \cup {"job"}]
  /\ UNCHANGED <<flock, startAt, mode, opened, shutting, dry, signalled, starts>>

(* A handler opens a panel on a node's stream, or adopts a machine.         *)
ReaderOpened(p) ==
  /\ "handler" \in dbusy[p]
  /\ AcceptsWork(p, "streams")
  /\ dbusy' = [dbusy EXCEPT ![p] = @ \cup {"reader"}]
  /\ UNCHANGED <<flock, startAt, mode, opened, shutting, dry, signalled, starts>>

ObserverStarted(p) ==
  /\ dbusy[p] \cap {"handler", "job"} # {}
  /\ AcceptsWork(p, "inventory")
  /\ dbusy' = [dbusy EXCEPT ![p] = @ \cup {"observer"}]
  /\ UNCHANGED <<flock, startAt, mode, opened, shutting, dry, signalled, starts>>

(* A worker comes to its end. Jobs and handlers end on their own too; the   *)
(* loops end only once they have been told to.                              *)
WorkerEnds(p, w) ==
  /\ w \in dbusy[p]
  /\ \/ w \in {"job", "reader", "handler"}
     \/ ~IsOpen(p, OwnerOf(w))
     \/ shutting[p] /\ Newest(p) = OwnerOf(w)
  /\ dbusy' = [dbusy EXCEPT ![p] = @ \ {w}]
  /\ UNCHANGED <<flock, startAt, mode, opened, shutting, dry, signalled, starts>>

-----------------------------------------------------------------------------

(* SIGTERM. Before the listener the signal's default disposition ends the   *)
(* process at once; NotifyContext is installed last.                        *)
SignalServer(p) ==
  /\ mode[p] = "serving"
  /\ signalled' = [signalled EXCEPT ![p] = TRUE]
  /\ mode' = [mode EXCEPT ![p] = "draining"]
  /\ UNCHANGED <<flock, startAt, opened, shutting, dbusy, dry, starts>>

(* The listener fails while serving: run() returns its error.               *)
ListenerFails(p) ==
  /\ mode[p] = "serving"
  /\ mode' = [mode EXCEPT ![p] = "closing"]
  /\ opened' = [opened EXCEPT ![p] = Front(@)]
  /\ UNCHANGED <<flock, startAt, shutting, dbusy, dry, signalled, starts>>

ShutdownReturns(p) ==
  /\ mode[p] = "draining"
  /\ mode' = [mode EXCEPT ![p] = "closing"]
  /\ opened' = [opened EXCEPT ![p] = Front(@)]
  /\ UNCHANGED <<flock, startAt, shutting, dbusy, dry, signalled, starts>>

(* A deferred call begins: the part takes nothing more and its workers are  *)
(* told to stop.                                                            *)
PartTold(p) ==
  /\ mode[p] = "closing" /\ opened[p] # <<>> /\ ~shutting[p]
  /\ shutting' = [shutting EXCEPT ![p] = TRUE]
  /\ UNCHANGED <<flock, startAt, mode, opened, dbusy, dry, signalled, starts>>

WaitsFor(p) == {w \in Waited : OwnerOf(w) = Newest(p)}

(* It returns once the workers it waits for are gone. The store's is the    *)
(* last, and gives the lock back.                                           *)
PartCloses(p) ==
  /\ mode[p] = "closing" /\ shutting[p]
  /\ WaitsFor(p) \cap dbusy[p] = {}
  /\ opened' = [opened EXCEPT ![p] = Front(@)]
  /\ shutting' = [shutting EXCEPT ![p] = FALSE]
  /\ flock' = IF Newest(p) = "store" THEN Unlocked ELSE flock
  /\ UNCHANGED <<startAt, mode, dbusy, dry, signalled, starts>>

(* The process is gone: after its last deferred call, or killed. Whatever   *)
(* still ran goes with it, and the kernel gives back the lock.              *)
ProcessGoes(p) ==
  /\ mode' = [mode EXCEPT ![p] = "off"]
  /\ opened' = [opened EXCEPT ![p] = <<>>]
  /\ shutting' = [shutting EXCEPT ![p] = FALSE]
  /\ dbusy' = [dbusy EXCEPT ![p] = {}]
  /\ flock' = IF flock = p THEN Unlocked ELSE flock
  /\ startAt' = [startAt EXCEPT ![p] = 1]
  /\ dry' = [dry EXCEPT ![p] = FALSE]
  /\ signalled' = [signalled EXCEPT ![p] = FALSE]
  /\ UNCHANGED starts

Exits(p) == mode[p] = "closing" /\ opened[p] = <<>> /\ ProcessGoes(p)
Killed(p) == p \in Servers /\ mode[p] # "off" /\ ProcessGoes(p)

-----------------------------------------------------------------------------
(* Subcommands. One process runs one of them once.                          *)

(* backup, backups and verify-audit read the directory without the lock.    *)
CommandReads(p) ==
  /\ p \in Commands /\ mode[p] = "off" /\ starts[p] = 0
  /\ mode' = [mode EXCEPT ![p] = "reading"]
  /\ starts' = [starts EXCEPT ![p] = 1]
  /\ UNCHANGED <<flock, startAt, opened, shutting, dbusy, dry, signalled>>

(* support opens the store, reads it and writes a bundle of its own.        *)
cmdSupport(p) ==
  /\ p \in Commands /\ mode[p] = "off" /\ starts[p] = 0 /\ flock = Unlocked
  /\ flock' = p
  /\ opened' = [opened EXCEPT ![p] = <<"store">>]
  /\ mode' = [mode EXCEPT ![p] = "closing"]
  /\ starts' = [starts EXCEPT ![p] = 1]
  /\ UNCHANGED <<startAt, shutting, dbusy, dry, signalled>>

(* break-glass opens the store and then the audit log it appends to.        *)
cmdBreakGlass(p) ==
  /\ p \in Commands /\ mode[p] = "off" /\ starts[p] = 0 /\ flock = Unlocked
  /\ flock' = p
  /\ opened' = [opened EXCEPT ![p] = <<"store", "audit">>]
  /\ mode' = [mode EXCEPT ![p] = "closing"]
  /\ starts' = [starts EXCEPT ![p] = 1]
  /\ UNCHANGED <<startAt, shutting, dbusy, dry, signalled>>

(* restore takes the lock and gives it back before it writes.               *)
ensureNotInUse(p) ==
  /\ p \in Commands /\ mode[p] = "off" /\ starts[p] = 0 /\ flock = Unlocked
  /\ mode' = [mode EXCEPT ![p] = "restoring"]
  /\ starts' = [starts EXCEPT ![p] = 1]
  /\ UNCHANGED <<flock, startAt, opened, shutting, dbusy, dry, signalled>>

(* ... and afterwards verifies the chain, again without the lock.           *)
RestoreWritten(p) ==
  /\ mode[p] = "restoring"
  /\ mode' = [mode EXCEPT ![p] = "reading"]
  /\ UNCHANGED <<flock, startAt, opened, shutting, dbusy, dry, signalled, starts>>

CommandReported(p) ==
  /\ mode[p] = "reading"
  /\ mode' = [mode EXCEPT ![p] = "off"]
  /\ UNCHANGED <<flock, startAt, opened, shutting, dbusy, dry, signalled, starts>>

-----------------------------------------------------------------------------

ServerStep(p) ==
  \/ StartStep(p) \/ StartFails(p)
  \/ ShutdownReturns(p) \/ PartTold(p) \/ PartCloses(p) \/ Exits(p)

DaemonNext ==
  \E p \in Procs :
    \/ ServerStarts(p) \/ ServerStep(p)
    \/ RequestArrives(p) \/ JobSubmitted(p) \/ ReaderOpened(p) \/ ObserverStarted(p)
    \/ \E w \in Workers : WorkerEnds(p, w)
    \/ SignalServer(p) \/ ListenerFails(p) \/ Killed(p)
    \/ CommandReads(p) \/ cmdSupport(p) \/ cmdBreakGlass(p)
    \/ ensureNotInUse(p) \/ RestoreWritten(p) \/ CommandReported(p)

(* A closing process is scheduled, and what it waits for heeds its          *)
(* cancelled context. Nothing is assumed of handlers: an event stream       *)
(* stays open as long as its browser does.                                  *)
DaemonFairness ==
  /\ \A p \in Procs : WF_daemonVars(ShutdownReturns(p) \/ PartTold(p)
                                    \/ PartCloses(p) \/ Exits(p))
  /\ \A p \in Servers, w \in Waited : WF_daemonVars(WorkerEnds(p, w))

DaemonSpec == DaemonInit /\ [][DaemonNext]_daemonVars /\ DaemonFairness

-----------------------------------------------------------------------------

(* Everything the process waits for on its way out -- a job, the sampler's  *)
(* last write, an observer, a stream reader -- finds the parts it works     *)
(* with open for as long as it runs, on a failed start as on a shutdown.    *)
WorkersHaveTheirTools ==
  \A p \in Procs : \A w \in dbusy[p] \cap Waited :
    WorkerNeeds(w) \subseteq Range(opened[p])

(* Two processes never append to the audit log at the same time: each       *)
(* continues the chain from the tail it read when it opened it, and two     *)
(* would fork it. break-glass counts; verify-audit only reads.              *)
OneAppender ==
  \A p, q \in Procs : IsOpen(p, "audit") /\ IsOpen(q, "audit") => p = q

=============================================================================
