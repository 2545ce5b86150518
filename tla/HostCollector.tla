---------------------------- MODULE HostCollector ----------------------------
(***************************************************************************)
(* What the machine the manager runs on reports about itself. Pages poll    *)
(* it; the history's sampler reads it every step and leaves a snapshot for  *)
(* the wall. Readers share two memories of earlier counters (the page's and *)
(* the sampler's), one walk of the data directory and one snapshot, and any *)
(* read of a filesystem may hang for as long as it likes.                   *)
(*                                                                         *)
(* Time is a clock of ticks. What the kernel answers is chosen when it is   *)
(* read; of the values only what decides a verdict is kept.                 *)
(***************************************************************************)
EXTENDS Integers, FiniteSets

CONSTANTS
  Pages,            \* open requests for /host
  Samples,          \* goroutines the sampler starts, one per step
  Chips,            \* hwmon chips with a temperature; the first kind is a CPU's
  CpuChips,         \* those of Chips that measure the CPU
  minRateWindow,    \* when a baseline may be replaced, in ticks
  dirSizeTTL, dirSizeDeadline,    \* how long a size is fresh, how long a walk may take
  MaxTicks,         \* bound: ticks of a run
  MaxReads          \* bound: reads of pages, and samples, of a run

VARIABLES
  ticks,
  page,             \* page[p]: where the request is, its time, and whether its browser left
  sample,           \* sample[s]: where the goroutine is and when it took its counters
  prev, samplePrev, \* the two baselines: when their counters were taken, or -1
  sampling,         \* a Sample runs
  latest,           \* the snapshot for the wall
  sizer,            \* the newest walk: tried, attempted, whether a size is known
  walk,             \* the walk under way and the pages that wait for it
  reads,            \* how often pages and samples have begun
  faulty            \* a walk has met an unreadable directory or its deadline

collectorVars == <<ticks, page, sample, prev, samplePrev, sampling, latest, sizer,
                   walk, reads, faulty>>

NoWalk == [on |-> FALSE, by |-> {}, now |-> 0, since |-> 0, waits |-> {}]

-----------------------------------------------------------------------------
(* What is read, and the verdict on it.                                     *)

Degrees == {"cool", "hot", "critical", "unread", "absent"}
Usage == {"low", "full", "unread", "nocapacity"}

(* The chips' temperatures and the inputs that could not be read. Without a *)
(* CPU chip among them the thermal zone stands in, and an unreadable zone   *)
(* list then hides every temperature.                                       *)
readChip(temps, c) ==
  [read |-> temps[c] \in {"cool", "hot", "critical"}, unread |-> temps[c] = "unread"]

readSensors(temps, zone, zoneErr) ==
  LET listed == {c \in Chips : readChip(temps, c).read}
      stands == listed \cap CpuChips = {}
  IN [readable |-> ~(stands /\ zoneErr),
      unread |-> \/ \E c \in Chips : readChip(temps, c).unread
                 \/ stands /\ zone = "unread",
      values |-> {temps[c] : c \in listed}
                 \cup (IF stands THEN {zone} \ {"unread", "absent"} ELSE {})]

(* One row for "/" and, when the data directory has a filesystem of its     *)
(* own, one for that.                                                       *)
filesystems(root, data, own) == IF own THEN {root, data} ELSE {root}

temperatureFindings(sensors) == sensors.values \cap {"hot", "critical"}
filesystemFinding(u) == u = "full"

(* A threshold crossed is a warning whatever else could not be read; a      *)
(* reading missing is unknown; only what was read in full is ok.            *)
Assess(sensors, rows) ==
  LET found == \/ sensors.readable /\ temperatureFindings(sensors) # {}
               \/ \E u \in rows : filesystemFinding(u)
      unreadable == \/ ~sensors.readable \/ sensors.unread
                    \/ rows = {} \/ rows \cap {"unread", "nocapacity"} # {}
  IN CASE found -> "warn" [] ~found /\ unreadable -> "unknown" [] OTHER -> "ok"

(* Every verdict the kernel's answers can lead to, with whether all that    *)
(* was there to be read had been read and lay below its threshold.          *)
Verdicts ==
  {[state |-> Assess(readSensors(t, z, e), filesystems(r, d, own)),
    sound |-> /\ \A c \in Chips : t[c] \in {"cool", "absent"}
              /\ filesystems(r, d, own) = {"low"}] :
     t \in [Chips -> Degrees], z \in Degrees, e \in BOOLEAN, r \in Usage,
     d \in Usage, own \in BOOLEAN}

-----------------------------------------------------------------------------
(* Rates: the difference between two readings of the counters. base is the  *)
(* memory the reader uses; the answer is its new content.                   *)

Window(base, now) == now - base
ratesBase(base, now) ==
  IF base < 0 \/ Window(base, now) < 0 \/ Window(base, now) >= minRateWindow
  THEN now ELSE base

CollectorInit ==
  /\ ticks = 0
  /\ page = [p \in Pages |-> [pc |-> "idle", now |-> 0, left |-> FALSE, size |-> "none"]]
  /\ sample = [s \in Samples |-> [pc |-> "idle", at |-> 0]]
  /\ prev = -1 /\ samplePrev = -1
  /\ sampling = FALSE
  /\ latest = [there |-> FALSE, at |-> 0, state |-> "ok", sound |-> TRUE]
  /\ sizer = [tried |-> FALSE, attempted |-> 0, known |-> FALSE]
  /\ walk = NoWalk
  /\ reads = [page |-> 0, sample |-> 0]
  /\ faulty = FALSE

ClockTicks ==
  /\ ticks < MaxTicks
  /\ ticks' = ticks + 1
  /\ UNCHANGED <<page, sample, prev, samplePrev, sampling, latest, sizer, walk,
                 reads, faulty>>

-----------------------------------------------------------------------------
(* A page. Read takes its time first and uses it for the size as well.      *)

ReadBegins(p) ==
  /\ page[p].pc = "idle"
  /\ page' = [page EXCEPT ![p] = [pc |-> "size", now |-> ticks, left |-> FALSE,
                                  size |-> "none"]]
  /\ UNCHANGED <<ticks, sample, prev, samplePrev, sampling, latest, sizer, walk,
                 faulty>>
  /\ reads.page < MaxReads /\ reads' = [reads EXCEPT !.page = @ + 1]

BrowserLeaves(p) ==
  /\ page[p].pc \in {"size", "waits"} /\ ~page[p].left
  /\ page' = [page EXCEPT ![p].left = TRUE]
  /\ UNCHANGED <<ticks, sample, prev, samplePrev, sampling, latest, sizer, walk,
                 reads, faulty>>

Fresh(now) ==
  /\ sizer.tried /\ now - sizer.attempted < dirSizeTTL
  /\ now >= sizer.attempted

SizeOf(sz) == IF sz.known THEN "size" ELSE "hidden"

(* A fresh size is answered at once.                                        *)
SizeIsFresh(p) ==
  /\ page[p].pc = "size" /\ Fresh(page[p].now)
  /\ page' = [page EXCEPT ![p].pc = "live", ![p].size = SizeOf(sizer)]
  /\ UNCHANGED <<ticks, sample, prev, samplePrev, sampling, latest, sizer, walk,
                 reads, faulty>>

(* Otherwise the page starts a walk, or waits for the one under way.        *)
SizeNeedsAWalk(p) ==
  /\ page[p].pc = "size" /\ ~Fresh(page[p].now)
  /\ page' = [page EXCEPT ![p].pc = "waits"]
  /\ walk' = IF walk.on THEN [walk EXCEPT !.waits = @ \cup {p}]
             ELSE [on |-> TRUE, by |-> {p}, now |-> page[p].now, since |-> ticks,
                   waits |-> {p}]
  /\ UNCHANGED <<ticks, sample, prev, samplePrev, sampling, latest, sizer, reads, faulty>>

(* The walk's context is not its request's: it ends by its deadline alone.  *)
WalkIsCut == ticks - walk.since >= dirSizeDeadline
WalkIsCutByItsRequest ==
  \/ ticks - walk.since >= dirSizeDeadline
  \/ \E p \in walk.by : page[p].left
WalkCut == WalkIsCut

(* record: a failure keeps the last good size.                              *)
WalkReturns(good) ==
  LET sz == [tried |-> TRUE, attempted |-> walk.now, known |-> sizer.known \/ good]
  IN /\ sizer' = sz
     /\ walk' = NoWalk
     /\ page' = [p \in Pages |-> IF p \in walk.waits
                                 THEN [page[p] EXCEPT !.pc = "live", !.size = SizeOf(sz)]
                                 ELSE page[p]]
     /\ UNCHANGED <<ticks, sample, prev, samplePrev, sampling, latest, reads>>

WalkDone == walk.on /\ ~WalkCut /\ WalkReturns(TRUE) /\ UNCHANGED faulty
WalkFails == walk.on /\ WalkReturns(FALSE) /\ faulty' = TRUE
WalkTooSlow ==
  /\ walk.on /\ WalkCut /\ WalkReturns(FALSE)
  /\ faulty' = (faulty \/ ticks - walk.since >= dirSizeDeadline)

(* The counters are stamped, read without the lock ...                      *)
PageStamps(p) ==
  /\ page[p].pc = "live"
  /\ page' = [page EXCEPT ![p].pc = "rates", ![p].now = ticks]
  /\ UNCHANGED <<ticks, sample, prev, samplePrev, sampling, latest, sizer, walk,
                 reads, faulty>>

(* ... and compared with the page's baseline under it.                      *)
PageRates(p) ==
  /\ page[p].pc = "rates"
  /\ prev' = ratesBase(prev, page[p].now)
  /\ page' = [page EXCEPT ![p].pc = "idle", ![p].now = 0, ![p].left = FALSE]
  /\ UNCHANGED <<ticks, sample, samplePrev, sampling, latest, sizer, walk, reads, faulty>>

-----------------------------------------------------------------------------
(* The sampler's goroutines. The sampler stops waiting for one that hangs   *)
(* and starts the next at its step; the stuck one goes on whenever it can.  *)

SampleBegins(s) ==
  /\ sample[s].pc = "idle"
  /\ IF sampling THEN UNCHANGED <<sample, sampling>>       \* ErrSampleBusy
     ELSE /\ sampling' = TRUE
          /\ sample' = [sample EXCEPT ![s].pc = "reads"]
  /\ reads.sample < MaxReads /\ reads' = [reads EXCEPT !.sample = @ + 1]
  /\ UNCHANGED <<ticks, page, prev, samplePrev, latest, sizer, walk, faulty>>

(* statfs and sysfs have answered; the counters come last.                  *)
SampleStamps(s) ==
  /\ sample[s].pc = "reads"
  /\ sample' = [sample EXCEPT ![s] = [pc |-> "rates", at |-> ticks]]
  /\ UNCHANGED <<ticks, page, prev, samplePrev, sampling, latest, sizer, walk, reads, faulty>>

(* The rates are against the sampler's own baseline.                        *)
sampleLive(s) ==
  /\ samplePrev' = ratesBase(samplePrev, sample[s].at)
  /\ UNCHANGED prev

SampleRates(s) ==
  /\ sample[s].pc = "rates"
  /\ sampleLive(s)
  /\ sample' = [sample EXCEPT ![s] = [pc |-> "snap", at |-> 0]]
  /\ UNCHANGED <<ticks, page, sampling, latest, sizer, walk, reads, faulty>>

(* The snapshot: the verdict on what was read ahead of the counters,        *)
(* stamped when it is stored.                                               *)
SampleStores(s) ==
  /\ sample[s].pc = "snap"
  /\ \E v \in Verdicts :
       latest' = [there |-> TRUE, at |-> ticks, state |-> v.state, sound |-> v.sound]
  /\ sample' = [sample EXCEPT ![s] = [pc |-> "idle", at |-> 0]]
  /\ sampling' = FALSE
  /\ UNCHANGED <<ticks, page, prev, samplePrev, sizer, walk, reads, faulty>>

-----------------------------------------------------------------------------

CollectorNext ==
  \/ ClockTicks
  \/ \E p \in Pages : \/ ReadBegins(p) \/ BrowserLeaves(p) \/ SizeIsFresh(p)
                      \/ SizeNeedsAWalk(p) \/ PageStamps(p) \/ PageRates(p)
  \/ WalkDone \/ WalkFails \/ WalkTooSlow
  \/ \E s \in Samples : \/ SampleBegins(s) \/ SampleStamps(s) \/ SampleRates(s)
                        \/ SampleStores(s)

CollectorSpec == CollectorInit /\ [][CollectorNext]_collectorVars

-----------------------------------------------------------------------------

(* A page is refused the data directory's size only after a walk really     *)
(* failed -- never because the browser whose request started the walk went  *)
(* away while others waited for it.                                         *)
WaitersGetTheSize ==
  \A p \in Pages : page[p].size = "hidden" => faulty

=============================================================================
