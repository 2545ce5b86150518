------------------------------ MODULE History ------------------------------
(***************************************************************************)
(* The last day of what the gauges showed (internal/history): two rings    *)
(* per subject over absolute time slots, filled by one sampler, written to *)
(* one file at most every FlushEvery and once more on a clean stop, read   *)
(* back when the process comes up.                                         *)
(*                                                                         *)
(* Time is counted in fine slots.  A reading is identified by the slot it  *)
(* was taken in, so a value left over from an earlier lap of a ring cannot *)
(* pass for the one that belongs there.                                    *)
(***************************************************************************)
EXTENDS Integers, FiniteSets, FiniteSetsExt

CONSTANTS
  HMachines,      \* machines the sampler may find in the inventory
  HApps,          \* apps of the one cluster
  FineSlots,      \* slots of the fine ring
  CoarseSlots,    \* slots of the coarse ring
  finePerCoarse,  \* fine slots in a coarse one
  FlushEvery,     \* least time between two writes of the file
  FirstSlot,      \* the time the first process comes up
  LastSlot,       \* bound: the clock
  MaxReadings,    \* bound: readings recorded
  MaxUpsets       \* bound: crashes, stops, failed writes, clock corrections,
                  \* and machines forgotten or found

ASSUME HistoryAssumption ==
  /\ FineSlots \in Nat \ {0} /\ CoarseSlots \in Nat \ {0}
  /\ finePerCoarse \in Nat \ {0} /\ FineSlots % finePerCoarse = 0
  /\ FirstSlot \in Nat /\ FirstSlot > FineSlots + CoarseSlots * finePerCoarse

VARIABLES
  hnow,       \* the clock
  inventory,  \* machines, and "cluster" while the cluster is there
  subjects,   \* per key, its two rings and when it was last seen; or NoSubject
  listedApps, \* what the last listing of the cluster named, and whether there was one
  dirty, lastFlush,
  file,       \* what is on the disk: subjects, or none, or unreadable
  sampler,    \* where the sampler's loop is, and the pass it is making
  taken,      \* ghost: per key, the slots a reading of which is owed
  takenOnDisk,\* ghost: the same for the file
  readings, upsets

historyVars == <<hnow, inventory, subjects, listedApps, dirty, lastFlush, file,
                 sampler, taken, takenOnDisk, readings, upsets>>
storeVars == <<subjects, listedApps, dirty, lastFlush, file>>

HostSubject == "host"
SeriesKeys == {HostSubject} \union HMachines \union HApps
NoSubject == [seen |-> 0]
Unlisted == [ever |-> FALSE, apps |-> {}]
Retention == CoarseSlots * finePerCoarse
Max2(a, b) == IF a > b THEN a ELSE b
Min2(a, b) == IF a < b THEN a ELSE b

(***************************************************************************)
(* Rings.  A value is the mean of the readings it stands for, as their sum *)
(* and their count; a slot nobody wrote holds the mean of none.            *)
(***************************************************************************)
Mean(S) == [sum |-> FoldSet(LAMBDA x, y : x + y, 0, S), n |-> Cardinality(S)]
NaN == Mean({})

newRing(n) == [vals |-> [i \in 0..n-1 |-> NaN], head |-> 0]
RingSlots(r) == Cardinality(DOMAIN r.vals)
index(r, slot) == slot % RingSlots(r)

\* Mutant: the slots skipped over keep what the last lap left in them.
putKeepsSkipped(r, slot, v) ==
  LET n == RingSlots(r)
      moved == [r EXCEPT !.head = Max2(@, slot)]
  IN IF slot <= moved.head - n THEN moved
     ELSE [moved EXCEPT !.vals[index(r, slot)] = v]

(* A newer slot moves the ring on and clears every slot it moves over; one    *)
(* older than the ring holds is dropped.                                      *)
put(r, slot, v) ==
  LET n == RingSlots(r)
      skipped == {index(r, s) : s \in Max2(r.head + 1, slot - n + 1)..slot}
      moved == IF slot > r.head
               THEN [vals |-> [i \in DOMAIN r.vals |-> IF i \in skipped THEN NaN ELSE r.vals[i]],
                     head |-> slot]
               ELSE r
  IN IF slot <= moved.head - n THEN moved
     ELSE [moved EXCEPT !.vals[index(r, slot)] = v]

valueAt(r, slot) ==
  IF slot > r.head \/ slot <= r.head - RingSlots(r) THEN NaN ELSE r.vals[index(r, slot)]

MinuteOf(slot) == slot \div finePerCoarse
FineOf(minute) == minute * finePerCoarse .. (minute + 1) * finePerCoarse - 1

minuteAverage(fine, minute) ==
  Mean({valueAt(fine, s).sum : s \in {x \in FineOf(minute) : valueAt(fine, x) # NaN}})

(***************************************************************************)
(* The store.                                                              *)
(***************************************************************************)
newSeries == [fine |-> newRing(FineSlots), coarse |-> newRing(CoarseSlots), seen |-> 0]

RecordSample(key, slot) ==
  LET old == IF subjects[key] = NoSubject THEN newSeries ELSE subjects[key]
      fine == put(old.fine, slot, Mean({slot}))
      avg == minuteAverage(fine, MinuteOf(slot))
  IN /\ subjects' = [subjects EXCEPT ![key] =
            [fine |-> fine, seen |-> Max2(old.seen, slot),
             coarse |-> IF avg = NaN THEN old.coarse ELSE put(old.coarse, MinuteOf(slot), avg)]]
     /\ dirty' = TRUE
     /\ taken' = [taken EXCEPT ![key] = @ \union {slot}]

retained(key, listing) ==
  \/ key = HostSubject
  \/ key \in HMachines /\ key \in listing
  \/ key \in HApps /\ "cluster" \in listing

(* Retain and Prune, which the pass calls one after the other. *)
Outdated(key, slot) == subjects[key] # NoSubject /\ slot - subjects[key].seen > Retention
Prunable(listing, slot) ==
  {k \in SeriesKeys : subjects[k] # NoSubject /\ (~retained(k, listing) \/ Outdated(k, slot))}

AppKnown(a) ==
  IF subjects[a] # NoSubject THEN [known |-> TRUE, certain |-> TRUE]
  ELSE IF ~listedApps.ever THEN [known |-> FALSE, certain |-> FALSE]
  ELSE [known |-> a \in listedApps.apps, certain |-> TRUE]

(* The points of a chart: what a ring holds of the slots up to now. *)
Query(key, tier) ==
  IF subjects[key] = NoSubject THEN {}
  ELSE LET r == IF tier = "fine" THEN subjects[key].fine ELSE subjects[key].coarse
           last == IF tier = "fine" THEN hnow ELSE MinuteOf(hnow)
       IN {<<s, valueAt(r, s)>> : s \in {x \in last - RingSlots(r) + 1 .. last : valueAt(r, x) # NaN}}

(***************************************************************************)
(* The file.                                                               *)
(***************************************************************************)
(* A ring is written from its first value to its last, nothing outside the   *)
(* window that ends now; reading it back puts each value in its slot again.  *)
appendRing(r, nowSlot) ==
  LET n == RingSlots(r)
  IN {<<s, valueAt(r, s)>> :
        s \in {x \in Max2(r.head, nowSlot) - n + 1 .. Min2(r.head, nowSlot) : valueAt(r, x) # NaN}}

readRing(n, entries, nowSlot) ==
  LET kept == {e \in entries : e[1] >= nowSlot - n + 1 /\ e[1] <= nowSlot}
      head == IF kept = {} THEN 0 ELSE CHOOSE h \in {e[1] : e \in kept} : \A e \in kept : e[1] <= h
  IN [head |-> head,
      vals |-> [i \in 0..n-1 |->
                 IF \E e \in kept : e[1] % n = i THEN (CHOOSE e \in kept : e[1] % n = i)[2] ELSE NaN]]

encodeLocked(now) ==
  [k \in SeriesKeys |-> IF subjects[k] = NoSubject THEN NoSubject
                  ELSE [fine |-> appendRing(subjects[k].fine, now),
                        coarse |-> appendRing(subjects[k].coarse, MinuteOf(now)),
                        seen |-> subjects[k].seen]]

(* A subject nothing of which reaches into the window is left out. *)
decode(raw, now) ==
  [k \in SeriesKeys |->
     IF raw[k] = NoSubject THEN NoSubject
     ELSE LET fine == readRing(FineSlots, raw[k].fine, now)
              coarse == readRing(CoarseSlots, raw[k].coarse, MinuteOf(now))
          IN IF fine.head = 0 /\ coarse.head = 0 THEN NoSubject
             ELSE [fine |-> fine, coarse |-> coarse, seen |-> raw[k].seen]]

(* What is left of the readings that the file held, in the same terms. *)
Upto(T, now) == [k \in SeriesKeys |-> {s \in T[k] : s <= now}]

Readable == file.is = "written"
Empty == [k \in SeriesKeys |-> NoSubject]
Nobody == [k \in SeriesKeys |-> {}]

(* Open: a missing or unreadable file is an empty history. *)
OpenHistory ==
  /\ sampler.at = "down"
  /\ subjects' = IF Readable THEN decode(file.subjects, hnow) ELSE Empty
  /\ taken' = IF Readable
              THEN [k \in SeriesKeys |-> IF decode(file.subjects, hnow)[k] = NoSubject THEN {}
                                   ELSE takenOnDisk[k]]
              ELSE Nobody
  /\ listedApps' = Unlisted /\ dirty' = FALSE /\ lastFlush' = hnow
  /\ sampler' = [at |-> "host", stop |-> FALSE]
  /\ UNCHANGED <<hnow, inventory, file, takenOnDisk, readings, upsets>>

(* Flush: encoded and marked clean under the lock, then written; a write     *)
(* that fails marks it dirty again, and the next is FlushEvery away.         *)
Flush ==
  \/ /\ dirty
     /\ lastFlush' = hnow
     /\ \/ file' = [is |-> "written", subjects |-> encodeLocked(hnow)] /\ takenOnDisk' = Upto(taken, hnow) /\ dirty' = FALSE
           /\ UNCHANGED upsets
        \/ /\ upsets < MaxUpsets /\ upsets' = upsets + 1
           /\ dirty' = TRUE /\ UNCHANGED <<file, takenOnDisk>>
  \/ ~dirty /\ UNCHANGED <<dirty, lastFlush, file, takenOnDisk, upsets>>

FlushIfDue ==
  /\ sampler.at = "flush"
  /\ IF dirty /\ hnow - lastFlush >= FlushEvery THEN Flush
     ELSE UNCHANGED <<dirty, lastFlush, file, takenOnDisk, upsets>>
  /\ sampler' = [sampler EXCEPT !.at = "wait"]
  /\ UNCHANGED <<hnow, inventory, subjects, listedApps, taken, readings>>

(***************************************************************************)
(* The sampler.                                                            *)
(***************************************************************************)
StillReading == readings < MaxReadings /\ readings' = readings + 1

(* The pass begins with the host.  A read that outlasts its budget is a gap,  *)
(* and what it says later goes nowhere.                                       *)
sampleHost ==
  /\ sampler.at = "host" /\ ~sampler.stop
  /\ sampler' = [at |-> "list", stop |-> FALSE, slot |-> hnow]
  /\ \/ RecordSample(HostSubject, hnow) /\ StillReading
     \/ UNCHANGED <<subjects, dirty, taken, readings>>
  /\ UNCHANGED <<hnow, inventory, listedApps, lastFlush, file, takenOnDisk, upsets>>

PassSkipped ==
  /\ sampler.at = "host" /\ sampler.stop
  /\ sampler' = [sampler EXCEPT !.at = "flush"]
  /\ UNCHANGED <<hnow, inventory, storeVars, taken, takenOnDisk, readings, upsets>>

(* The inventory as listed decides what is kept and what is asked.  A store  *)
(* that cannot be listed ends the pass.                                      *)
pass ==
  /\ sampler.at = "list"
  /\ LET gone == Prunable(inventory, sampler.slot)
     IN /\ subjects' = [k \in SeriesKeys |-> IF k \in gone THEN NoSubject ELSE subjects[k]]
        /\ taken' = [k \in SeriesKeys |-> IF k \in gone THEN {} ELSE taken[k]]
        /\ dirty' = (dirty \/ gone # {})
        /\ listedApps' = IF "cluster" \in inventory THEN listedApps ELSE Unlisted
  /\ sampler' = [at |-> "sample", stop |-> sampler.stop, slot |-> sampler.slot, todo |-> inventory]
  /\ UNCHANGED <<hnow, inventory, lastFlush, file, takenOnDisk, readings, upsets>>

PassFails ==
  /\ sampler.at = "list"
  /\ sampler' = [at |-> "flush", stop |-> sampler.stop]
  /\ UNCHANGED <<hnow, inventory, storeVars, taken, takenOnDisk, readings, upsets>>

(* A machine answers and its reading is filed under the pass's instant,      *)
(* whatever has become of it since the listing; or it does not answer.       *)
sampleMachine(m) ==
  /\ sampler.at = "sample" /\ m \in sampler.todo
  /\ sampler' = [sampler EXCEPT !.todo = @ \ {m}]
  /\ \/ RecordSample(m, sampler.slot) /\ StillReading
     \/ UNCHANGED <<subjects, dirty, taken, readings>>
  /\ UNCHANGED <<hnow, inventory, listedApps, lastFlush, file, takenOnDisk, upsets>>

(* A cluster's apps: the measured ones are filed, all of them are named.     *)
sampleCluster ==
  /\ sampler.at = "sample" /\ "cluster" \in sampler.todo
  /\ \E named \in SUBSET HApps :
       /\ listedApps' = [ever |-> TRUE, apps |-> named]
       /\ \/ \E a \in named : RecordSample(a, sampler.slot) /\ StillReading
          \/ UNCHANGED <<subjects, dirty, taken, readings>>
  /\ sampler' = [sampler EXCEPT !.todo = @ \ {"cluster"}]
  /\ UNCHANGED <<hnow, inventory, lastFlush, file, takenOnDisk, upsets>>

ClusterSilent ==
  /\ sampler.at = "sample" /\ "cluster" \in sampler.todo
  /\ sampler' = [sampler EXCEPT !.todo = @ \ {"cluster"}]
  /\ UNCHANGED <<hnow, inventory, storeVars, taken, takenOnDisk, readings, upsets>>

PassDone ==
  /\ sampler.at = "sample" /\ sampler.todo = {}
  /\ sampler' = [at |-> "flush", stop |-> sampler.stop]
  /\ UNCHANGED <<hnow, inventory, storeVars, taken, takenOnDisk, readings, upsets>>

(* Between passes: the next tick, or the end and one last write. *)
Run ==
  /\ sampler.at = "wait"
  /\ \/ /\ ~sampler.stop /\ sampler' = [sampler EXCEPT !.at = "host"]
        /\ UNCHANGED <<dirty, lastFlush, file, takenOnDisk, upsets>>
        /\ UNCHANGED <<subjects, listedApps, taken>>
     \/ /\ sampler.stop /\ Flush
        /\ sampler' = [sampler EXCEPT !.at = "gone"] /\ UNCHANGED <<subjects, listedApps, taken>>
  /\ UNCHANGED <<hnow, inventory, readings>>

(* The process ends, and what it held in memory with it. *)
Down ==
  /\ sampler' = [at |-> "down", stop |-> FALSE]
  /\ subjects' = Empty /\ listedApps' = Unlisted /\ dirty' = FALSE /\ lastFlush' = 0
  /\ taken' = Nobody

ProcessEnds ==
  /\ sampler.at = "gone" /\ Down
  /\ UNCHANGED <<hnow, inventory, file, takenOnDisk, readings, upsets>>

(***************************************************************************)
(* What happens around it.                                                 *)
(***************************************************************************)
Upset == upsets < MaxUpsets /\ upsets' = upsets + 1

StopAsked ==
  /\ sampler.at \notin {"down", "gone"} /\ ~sampler.stop /\ Upset
  /\ sampler' = [sampler EXCEPT !.stop = TRUE]
  /\ UNCHANGED <<hnow, inventory, storeVars, taken, takenOnDisk, readings>>

(* A crash: what was written last is what there is. *)
ProcessDies ==
  /\ sampler.at \notin {"down", "gone"} /\ Upset
  /\ Down
  /\ UNCHANGED <<hnow, inventory, file, takenOnDisk, readings>>

FileSpoils ==
  /\ sampler.at = "down" /\ Readable /\ Upset
  /\ file' = [is |-> "unreadable"]
  /\ UNCHANGED <<hnow, inventory, subjects, listedApps, dirty, lastFlush, sampler, taken,
                 takenOnDisk, readings>>

(* Within a pass nobody reads the clock, so it moves at its ends. *)
ClockRuns ==
  /\ sampler.at \in {"flush", "wait", "down"}
  /\ hnow < LastSlot /\ hnow' = hnow + 1
  /\ UNCHANGED <<inventory, storeVars, sampler, taken, takenOnDisk, readings, upsets>>

InventoryChanges ==
  /\ Upset
  /\ \E x \in HMachines \union {"cluster"} :
       inventory' = IF x \in inventory THEN inventory \ {x} ELSE inventory \union {x}
  /\ UNCHANGED <<hnow, storeVars, sampler, taken, takenOnDisk, readings>>

HistoryInit ==
  /\ hnow = FirstSlot /\ inventory = HMachines \union {"cluster"}
  /\ subjects = Empty /\ listedApps = Unlisted /\ dirty = FALSE /\ lastFlush = FirstSlot
  /\ file = [is |-> "none"] /\ sampler = [at |-> "down", stop |-> FALSE]
  /\ taken = Nobody /\ takenOnDisk = Nobody /\ readings = 0 /\ upsets = 0

HistoryNext ==
  \/ OpenHistory \/ sampleHost \/ PassSkipped \/ pass \/ PassFails \/ PassDone \/ FlushIfDue \/ Run
  \/ (\E m \in HMachines : sampleMachine(m)) \/ sampleCluster
  \/ ClusterSilent \/ ProcessEnds \/ StopAsked \/ ProcessDies \/ FileSpoils \/ ClockRuns \/ InventoryChanges

HistorySpec == HistoryInit /\ [][HistoryNext]_historyVars

(***************************************************************************)
(* Properties.                                                             *)
(***************************************************************************)
(* A chart shows what was read and nothing else.  In the hour it draws slot   *)
(* by slot, a slot holds its own reading or a gap; in the day, a minute holds *)
(* the mean of the readings taken in it, also of a minute half of which was   *)
(* read back from the file after a restart.  Nothing is owed but what a crash *)
(* or a failed last write took.                                               *)
ChartsAreTrue ==
  sampler.at # "down" =>
    \A k \in SeriesKeys :
      /\ Query(k, "fine") = {<<s, Mean({s})>> : s \in {x \in taken[k] : x > hnow - FineSlots}}
      /\ Query(k, "coarse") =
           {<<mn, Mean(taken[k] \cap FineOf(mn))>> :
              mn \in {MinuteOf(s) : s \in taken[k]} \cap
                     (MinuteOf(hnow) - CoarseSlots + 1 .. MinuteOf(hnow))}

=============================================================================
