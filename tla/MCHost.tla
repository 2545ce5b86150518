------------------------------- MODULE MCHost -------------------------------
(***************************************************************************)
(* Small instances of the machine the daemon runs on and of what machines  *)
(* report: the orders a browser places and a privileged helper carries out *)
(* (HostOrders), the collector behind the host page (HostCollector) and    *)
(* the reading of a node's sensors and drives (HardwareRead).              *)
(*                                                                         *)
(* They share no state, so the state graph holds the behaviours of each    *)
(* beside the others idle: turn says which one moves.                      *)
(***************************************************************************)
EXTENDS HostOrders, HostCollector, HardwareRead, TLC

MCHostIntents == {[action |-> "check-update", session |-> "s1"],
                  [action |-> "reboot", session |-> "s2"]}
MCInstallations == {{}, {"helper", "update-script", "update-unit"},
                    {"helper", "check-order", "update-script", "update-unit"}}

\* Requests are interchangeable, pages and readers too (the same model values stand for
\* the three), and so are samples and disks.
Sym == Permutations(Requests \cup Pages \cup Readers) \cup Permutations(Samples \cup DiskChips)

VARIABLE turn
mcVars == <<hostVars, collectorVars, hwVars, turn>>

NoHardware ==
    /\ hwClock = 0 /\ hwNode = <<>> /\ drives = <<>> /\ memo = NoMemo /\ rd = <<>>
    /\ shown = NoView /\ hwEvents = 0 /\ hwReads = 0

MCInit ==
    /\ turn \in {"orders", "collector", "hardware"}
    /\ HostInit /\ (turn # "orders" => installed = {})
    /\ CollectorInit
    /\ IF turn = "hardware" THEN HwInit ELSE NoHardware

MCNext ==
    \/ turn = "orders" /\ HostNext /\ UNCHANGED <<collectorVars, hwVars, turn>>
    \/ turn = "collector" /\ CollectorNext /\ UNCHANGED <<hostVars, hwVars, turn>>
    \/ turn = "hardware" /\ HwNext /\ UNCHANGED <<hostVars, collectorVars, turn>>

MCSpec == MCInit /\ [][MCNext]_mcVars
=============================================================================
