---------------------------- MODULE HardwareRead ----------------------------
(***************************************************************************)
(* The hardware view of one node: cumulative counters, and the sensors of   *)
(* the kernel's hwmon tree, read live for everyone who has the panel open.  *)
(* Between two requests the manager keeps one thing per node, the memo: the *)
(* last counters, which are the baseline of the next rate, and the layout,  *)
(* which says what every sensor file stands for and spares the discovery.   *)
(*                                                                         *)
(* Both go stale. A reboot resets the counters and numbers the chips anew,  *)
(* so a file of the old layout may exist and belong to another chip; a      *)
(* driver that goes takes its files along. Requests overlap, and the parts  *)
(* of one request are read concurrently.                                    *)
(*                                                                         *)
(* A reboot lasts longer than HardwareBudget: no request outlives one.      *)
(***************************************************************************)
EXTENDS Integers, FiniteSets

CONSTANTS
  Readers,          \* requests that may be under way at once
  NodeCpuChips,         \* sensor chips of the processor
  DiskChips,        \* sensor chips of drives; chip d belongs to drive d
  Zones,            \* thermal zones, named like the chip they would be a twin of
  minWindow,        \* minRateWindow, in ticks
  maxWindow,        \* maxRateWindow
  baselineGap,      \* hardwareBaselineGap
  readBudget,           \* HardwareBudget
  layoutTTL,        \* sensorLayoutTTL
  MaxHwTicks,       \* bound: ticks of a run
  MaxHwReads,       \* bound: requests of a run
  MaxHwEvents       \* bound: reboots and drivers coming or going

VARIABLES
  hwClock,
  hwNode,           \* the node: its boot, where its chips are and which are driven
  drives,           \* the drives: identical or not, and whose chip shows a serial
  memo,             \* hardwareMemo of the node
  rd,               \* rd[r]: the request of r
  shown,            \* the view answered in this step, if one was
  hwEvents,
  hwReads           \* requests made

hwVars == <<hwClock, hwNode, drives, memo, rd, shown, hwEvents, hwReads>>

HwChips == NodeCpuChips \cup DiskChips
Places == 1..Cardinality(HwChips)
Homes == {h \in [HwChips -> Places] : \A a, b \in HwChips : h[a] = h[b] => a = b}

NoCounters == [at |-> 0, boot |-> 0]
NoLayout == [boot |-> 0, place |-> <<>>, zones |-> {}]
NoMemo == [has |-> FALSE, counters |-> NoCounters, layout |-> NoLayout,
           layoutAt |-> 0, touched |-> 0]
NoHwRead == [pc |-> "idle", since |-> 0, prev |-> NoCounters, sens |-> "none",
           layout |-> NoLayout, fresh |-> FALSE, readings |-> {},
           ctr |-> NoCounters, base |-> NoCounters]
NoView == [temps |-> {}, byDrive |-> <<>>, rates |-> [window |-> 0, boots |-> {}]]

NoDrive == "no drive"

ASSUME HardwareAssumption == IsFiniteSet(HwChips) /\ NoDrive \notin DiskChips

-----------------------------------------------------------------------------
(* The sensor tree.                                                         *)

(* What a walk of the tree finds: where every driven chip is and, when none *)
(* of them is the processor's, the thermal zones that stand in for it; a    *)
(* zone whose twin was found is left out.                                   *)
thermalZones(known) == IF known \cap NodeCpuChips = {} THEN Zones \ known ELSE {}

(* The entries of the hwmon class: only a chip with a driver has one.       *)
listDir(node) == node.up

discoverSensors(node) ==
  [boot |-> 0,
   place |-> [c \in listDir(node) |-> node.home[c]],
   zones |-> thermalZones(listDir(node))]

(* The chip whose file lies at a place now, if any, and the chips of a      *)
(* layout whose file exists.                                                *)
readFile(node, p) == {c \in node.up : node.home[c] = p}
readFiles(node, layout) == {c \in DOMAIN layout.place : readFile(node, layout.place[c]) # {}}

(* One reading per chip of the layout: under the layout's name, the value of *)
(* whichever chip lies there. A file that is gone makes the layout stale.   *)
(* Every file parses: a chip that answers nothing is only left out.         *)
readNodeSensors(node, layout) ==
  LET there == readFiles(node, layout)
  IN [stale |-> there # DOMAIN layout.place,
      readings |->
        {[name |-> c, place |-> layout.place[c],
          source |-> CHOOSE s \in readFile(node, layout.place[c]) : TRUE] : c \in there}
        \cup {[name |-> z, place |-> 0, source |-> z] : z \in layout.zones}]

-----------------------------------------------------------------------------
(* Which drive a chip's temperature is shown for.                           *)

(* By serial where the chip shows one, otherwise by model when exactly one  *)
(* unclaimed drive has it.                                                  *)
matchDrive(chip, claimed) ==
  LET alike == {d \in DiskChips \ claimed : drives.model[d] = drives.model[chip]}
  IN IF chip \in drives.serial /\ chip \notin claimed THEN chip
     ELSE IF Cardinality(alike) = 1 THEN CHOOSE d \in alike : TRUE ELSE NoDrive

(* The chip at a place claims its drive.                                    *)
claimDrive(readings, p, claimed) ==
  LET here == {r \in readings : r.place = p /\ r.name \in DiskChips}
      r == CHOOSE x \in here : TRUE
      d == matchDrive(r.name, DOMAIN claimed)
  IN IF here = {} \/ d = NoDrive THEN claimed
     ELSE [x \in {d} \cup DOMAIN claimed |-> IF x = d THEN r ELSE claimed[x]]

(* The chips in the kernel's order, each claiming its drive; the chip whose *)
(* temperature a drive ends up with.                                        *)
flattenSensors(readings) ==
  LET claim[p \in 0..Cardinality(HwChips)] ==
        IF p = 0 THEN <<>> ELSE claimDrive(readings, p, claim[p - 1])
      all == claim[Cardinality(HwChips)]
  IN [d \in DOMAIN all |-> all[d].source]

(* Every rate is a difference over one window; what matters of it here is   *)
(* which boots it was taken across.                                         *)
computeRates(prev, cur) == [window |-> cur.at - prev.at, boots |-> {prev.boot, cur.boot}]

hardwareView(readings, base, cur) ==
  [temps |-> {[name |-> r.name, source |-> r.source] : r \in readings},
   byDrive |-> flattenSensors(readings), rates |-> computeRates(base, cur)]

-----------------------------------------------------------------------------
(* A remembered reading can be subtracted from the current one.             *)

usableBaseline(prev, cur) ==
  /\ prev # NoCounters
  /\ prev.boot = cur.boot
  /\ cur.at - prev.at \in minWindow..maxWindow

(* The memo as a request finds it: the layout only while it is trusted.     *)
recallHardware ==
  [prev |-> memo.counters,
   layout |-> IF memo.layout # NoLayout /\ hwClock - memo.layoutAt < layoutTTL
                THEN memo.layout ELSE NoLayout]

(* A memo nobody touched for the lifetime of a layout is dropped; the later *)
(* reading wins whichever request ends last; a layout is kept when the      *)
(* request found it itself.                                                 *)
rememberHardware(q) ==
  LET old == IF memo.has /\ hwClock - memo.touched > layoutTTL THEN NoMemo ELSE memo
  IN [has |-> TRUE, touched |-> hwClock,
      counters |-> IF q.ctr.at > old.counters.at THEN q.ctr ELSE old.counters,
      layout |-> IF q.fresh THEN q.layout ELSE old.layout,
      layoutAt |-> IF q.fresh THEN hwClock ELSE old.layoutAt]

HwInit ==
  /\ hwClock = 1
  /\ hwNode \in [boot : {1}, home : Homes, up : {HwChips}]
  /\ drives \in [model : {[d \in DiskChips |-> 1], [d \in DiskChips |-> d]},
                 serial : SUBSET DiskChips]
  /\ memo = NoMemo
  /\ rd = [r \in Readers |-> NoHwRead]
  /\ shown = NoView
  /\ hwEvents = 0
  /\ hwReads = 0

(* The world outside the manager.                                           *)

HwTicks ==
  /\ hwClock < MaxHwTicks
  /\ hwClock' = hwClock + 1
  /\ rd' = [r \in Readers |->
              IF rd[r].pc # "idle" /\ hwClock + 1 - rd[r].since > readBudget
                THEN NoHwRead ELSE rd[r]]
  /\ shown' = NoView
  /\ UNCHANGED <<hwNode, drives, memo, hwEvents, hwReads>>

NodeReboots ==
  /\ hwEvents < MaxHwEvents
  /\ \E h \in Homes : hwNode' = [hwNode EXCEPT !.boot = @ + 1, !.home = h]
  /\ rd' = [r \in Readers |-> NoHwRead]
  /\ hwEvents' = hwEvents + 1
  /\ shown' = NoView
  /\ UNCHANGED <<hwClock, drives, memo, hwReads>>

DriverChanges ==
  /\ hwEvents < MaxHwEvents
  /\ \E c \in HwChips :
       hwNode' = [hwNode EXCEPT !.up = IF c \in @ THEN @ \ {c} ELSE @ \cup {c}]
  /\ hwEvents' = hwEvents + 1
  /\ shown' = NoView
  /\ UNCHANGED <<hwClock, drives, memo, rd, hwReads>>

-----------------------------------------------------------------------------
(* One request.                                                             *)

ReaderGoes(r, q) ==
  /\ rd' = [rd EXCEPT ![r] = q]
  /\ hwReads' = hwReads + (IF rd[r].pc = "idle" THEN 1 ELSE 0)
  /\ shown' = NoView
  /\ UNCHANGED <<hwClock, hwNode, drives, memo, hwEvents>>

HardwareAsked(r) ==
  /\ rd[r].pc = "idle" /\ hwReads < MaxHwReads
  /\ ReaderGoes(r, [NoHwRead EXCEPT
       !.pc = "sample", !.since = hwClock, !.prev = recallHardware.prev,
       !.layout = recallHardware.layout,
       !.sens = IF recallHardware.layout = NoLayout THEN "discover" ELSE "known"])

(* The halves of a sample run beside each other.                            *)
HardwareCounters(r) ==
  /\ rd[r].pc = "sample" /\ rd[r].ctr = NoCounters
  /\ ReaderGoes(r, [rd[r] EXCEPT !.ctr = [at |-> hwClock, boot |-> hwNode.boot]])

KnownSensorsRead(r) ==
  /\ rd[r].pc = "sample" /\ rd[r].sens = "known"
  /\ LET got == readNodeSensors(hwNode, rd[r].layout)
     IN ReaderGoes(r, IF got.stale THEN [rd[r] EXCEPT !.sens = "discover"]
                      ELSE [rd[r] EXCEPT !.sens = "done", !.readings = got.readings])

SensorsDiscovered(r) ==
  /\ rd[r].pc \in {"sample", "again"} /\ rd[r].sens = "discover"
  /\ ReaderGoes(r, [rd[r] EXCEPT !.sens = "read", !.layout = discoverSensors(hwNode),
                                 !.fresh = TRUE])

FreshSensorsRead(r) ==
  /\ rd[r].pc \in {"sample", "again"} /\ rd[r].sens = "read"
  /\ ReaderGoes(r, [rd[r] EXCEPT !.sens = "done",
                                 !.readings = readNodeSensors(hwNode, rd[r].layout).readings])

(* Both halves are in. A layout found in this call is stamped; one of       *)
(* another boot is thrown away with its readings. Without a usable baseline *)
(* the request then takes two readings of its own.                          *)
BaselineChosen(q) ==
  IF usableBaseline(q.prev, q.ctr)
    THEN [q EXCEPT !.pc = "store", !.base = q.prev, !.prev = NoCounters]
    ELSE [q EXCEPT !.pc = "gap", !.base = q.ctr, !.prev = NoCounters]

Sampled(r) == rd[r].pc \in {"sample", "again"} /\ rd[r].sens = "done" /\ rd[r].ctr # NoCounters

SampleTakenAsItIs(r) ==
  /\ Sampled(r)
  /\ ReaderGoes(r, BaselineChosen([rd[r] EXCEPT !.layout.boot = rd[r].ctr.boot]))

SampleCompared(r) ==
  /\ Sampled(r)
  /\ ReaderGoes(r, IF rd[r].layout.boot \in {0, rd[r].ctr.boot}
                   THEN BaselineChosen([rd[r] EXCEPT !.layout.boot = rd[r].ctr.boot])
                   ELSE [rd[r] EXCEPT !.pc = "again", !.sens = "discover"])

GapOver(r) ==
  /\ rd[r].pc = "gap" /\ hwClock - rd[r].base.at >= baselineGap
  /\ ReaderGoes(r, [rd[r] EXCEPT !.pc = "store",
                                 !.ctr = [at |-> hwClock, boot |-> hwNode.boot]])

HardwareAnswered(r) ==
  /\ rd[r].pc = "store"
  /\ memo' = rememberHardware(rd[r])
  /\ shown' = hardwareView(rd[r].readings, rd[r].base, rd[r].ctr)
  /\ rd' = [rd EXCEPT ![r] = NoHwRead]
  /\ UNCHANGED <<hwClock, hwNode, drives, hwEvents, hwReads>>

(* A call the node does not answer, or refuses: no view, and no word about  *)
(* missing sensors.                                                         *)
HardwareFails(r) ==
  /\ rd[r].pc \in {"sample", "again", "gap"}
  /\ ReaderGoes(r, NoHwRead)

HwNext ==
  \/ HwTicks \/ NodeReboots \/ DriverChanges
  \/ \E r \in Readers :
       \/ HardwareAsked(r) \/ HardwareCounters(r) \/ KnownSensorsRead(r)
       \/ SensorsDiscovered(r) \/ FreshSensorsRead(r) \/ SampleCompared(r)
       \/ GapOver(r) \/ HardwareAnswered(r) \/ HardwareFails(r)

HwSpec == HwInit /\ [][HwNext]_hwVars

-----------------------------------------------------------------------------
(* Every temperature of a view is that of the chip it is named after, and   *)
(* that of a drive comes from the drive's own chip, whatever was rebooted,  *)
(* loaded or pulled since the layout in use was discovered                  *)
(* (talos/hardware.go HardwareSample, inventory/hardware.go matchDrive: "A  *)
(* guess is right half the time, and the half it is wrong is the drive that *)
(* is actually overheating").                                               *)
SensorsAreTheirOwn ==
  /\ \A t \in shown.temps : t.name = t.source
  /\ \A d \in DOMAIN shown.byDrive : shown.byDrive[d] = d

=============================================================================
