------------------------------- MODULE MCLoops ------------------------------
(***************************************************************************)
(* Small instances of what runs on its own until something ends it: the    *)
(* supervision of one machine (Supervision), the requests that share one   *)
(* resolution of an installer image (ImageFactory), the goroutines of the  *)
(* simulator's faults (SimFaults), and the process itself from its start   *)
(* to its end (Daemon).                                                    *)
(*                                                                         *)
(* They share no state, so the state graph holds the behaviours of each    *)
(* beside the others idle: turn says which one moves.                      *)
(***************************************************************************)
EXTENDS Supervision, ImageFactory, SimFaults, Daemon

VARIABLE turn
mcVars == <<supVars, factoryVars, faultVars, daemonVars, turn>>

MCInit ==
    /\ turn \in {"supervision", "installer", "schematic", "faults", "daemon"}
    /\ SupInit /\ (turn # "supervision" => rec = "none")
    /\ InstallerInit /\ (turn # "installer" => carries = {} /\ buildable = {})
    /\ SchematicInit /\ (turn # "schematic" => builds = {})
    /\ FaultInit /\ DaemonInit

MCNext ==
    \/ turn = "supervision" /\ SupNext /\ UNCHANGED <<factoryVars, faultVars, daemonVars,
                                                      turn>>
    \/ /\ turn = "installer" /\ InstallerNext /\ UNCHANGED schematicVars
       /\ UNCHANGED <<supVars, faultVars, daemonVars, turn>>
    \/ /\ turn = "schematic" /\ SchematicNext /\ UNCHANGED installerVars
       /\ UNCHANGED <<supVars, faultVars, daemonVars, turn>>
    \/ turn = "faults" /\ FaultNext /\ UNCHANGED <<supVars, factoryVars, daemonVars, turn>>
    \/ turn = "daemon" /\ DaemonNext /\ UNCHANGED <<supVars, factoryVars, faultVars, turn>>

\* FaultFairness, of the simulator when it moves.
SimulatorFair ==
    /\ \A i \in Injections :
          /\ WF_faultVars(turn = "faults" /\ ~crashed /\ startScenario(i))
          /\ WF_faultVars(turn = "faults" /\ ~crashed /\ ClearSteps(i))
          /\ WF_faultVars(turn = "faults" /\ ~crashed /\ FlapSteps(i))
    /\ WF_faultVars(turn = "faults" /\ ~crashed /\ CallSteps)
    /\ WF_faultVars(turn = "faults" /\ ~crashed /\ \E a \in abandoned : severAbandoned(a))
    /\ WF_faultVars(turn = "faults" /\ ~crashed /\ CloseStops)
    /\ WF_faultVars(turn = "faults" /\ ~crashed /\ CloseReturns)

\* The goroutine of a request goes on when it can.
InstallerFair == \A a \in Askers : WF_installerVars(turn = "installer" /\ AskerSteps(a))

MCSpec == MCInit /\ [][MCNext]_mcVars /\ SimulatorFair /\ InstallerFair
=============================================================================
