------------------------------- MODULE MCNodes ------------------------------
(***************************************************************************)
(* Small instances of how the daemon talks to its nodes and what it keeps  *)
(* of them: the calls and their retries (TalosClient), the records of the  *)
(* inventory and the pass that follows the membership (Inventory), the     *)
(* configuration of a node and its drift (NodeConfig), the watch over the  *)
(* certificates (CertWatch), and the simulated nodes the tests and the     *)
(* demo talk to (SimNode).                                                 *)
(*                                                                         *)
(* They share no state, so the state graph holds the behaviours of each    *)
(* beside the others idle: turn says which one moves.                      *)
(***************************************************************************)
EXTENDS NodeConfig, TalosClient, SimNode, Inventory, CertWatch

VARIABLE turn
mcVars == <<cfgVars, talosVars, simVars, invVars, certVars, turn>>

MCInit ==
    /\ turn \in {"config", "calls", "stream", "node", "inventory", "certs"}
    /\ ConfigInit /\ SimInit /\ CertInit
    /\ InventoryInit /\ (turn # "inventory" => \A m \in Machines : ~Exists(m))
    /\ TalosInit /\ (turn # "calls" => ~dryRun)

MCNext ==
    \/ /\ turn = "config" /\ ConfigNext
       /\ UNCHANGED <<talosVars, simVars, invVars, certVars, turn>>
    \/ turn = "calls" /\ CallNext /\ UNCHANGED <<cfgVars, simVars, invVars, certVars, turn>>
    \/ turn = "stream" /\ StreamNext /\ UNCHANGED <<cfgVars, simVars, invVars, certVars,
                                                    turn>>
    \/ turn = "node" /\ SimNext /\ UNCHANGED <<cfgVars, talosVars, invVars, certVars, turn>>
    \/ /\ turn = "inventory" /\ InventoryNext
       /\ UNCHANGED <<cfgVars, talosVars, simVars, certVars, turn>>
    \/ turn = "certs" /\ CertNext /\ UNCHANGED <<cfgVars, talosVars, simVars, invVars,
                                                 turn>>

MCSpec == MCInit /\ [][MCNext]_mcVars

CallSpec == MCSpec /\ turn = "calls"
=============================================================================
