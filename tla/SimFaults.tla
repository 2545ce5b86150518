------------------------------ MODULE SimFaults ------------------------------
(***************************************************************************)
(* The faults a test injects into a simulated machine while it serves      *)
(* (internal/talossim, scenario*.go): silence, a flapping listener, a      *)
(* refused method and an address that changes across a reboot.  A test may *)
(* inject and clear from several goroutines, calls are in flight           *)
(* throughout, and Close may come at any point of all of it.               *)
(***************************************************************************)
EXTENDS Naturals, FiniteSets

CONSTANTS
  Injections,   \* the injections a test makes, numbered from 1
  FaultNames,   \* subset of {"go_silent", "flap", "reject", "ip_change"}
  MaxPorts,     \* bound: addresses the machine may move through
  MaxFaultCalls \* bound: calls that arrive

ASSUME SimFaultsAssumption ==
  /\ Injections \subseteq Nat \ {0}
  /\ FaultNames \subseteq {"go_silent", "flap", "reject", "ip_change"}
  /\ MaxPorts \in Nat \ {0}
  /\ MaxFaultCalls \in Nat

VARIABLES
  inj,        \* each injection: its name, where it is, and what it found
  scenarios,  \* the injection active under each name, 0 for none
  silence,    \* the silence in force, 0 for none
  flapper,    \* each injection's flapping goroutine
  tcp,        \* the listener calls are taken on, 0 while there is none
  tcpAddr,    \* the address the machine says it has
  sockets,    \* addresses with an open socket
  abandoned,  \* addresses the machine has left and not yet closed
  faultCall,  \* the call in flight
  faultCalls, \* calls that arrived
  closing,    \* how far Close has come
  crashed     \* a handler dereferenced a listener that is not there

faultVars == <<inj, scenarios, silence, flapper, tcp, tcpAddr, sockets, abandoned,
               faultCall, faultCalls, closing, crashed>>
listenVars == <<tcp, tcpAddr, sockets, abandoned>>

closed == closing # "open"
Stopped == closing \in {"stopped", "closed"}
NoFault == [name |-> "none", at |-> "idle", previous |-> 0, silenced |-> 0]

FaultInit ==
  /\ inj = [i \in Injections |-> NoFault]
  /\ scenarios = [n \in FaultNames |-> 0]
  /\ silence = 0
  /\ flapper = [i \in Injections |-> "none"]
  /\ tcp = 1 /\ tcpAddr = 1 /\ sockets = {1} /\ abandoned = {}
  /\ faultCall = [at |-> "none"] /\ faultCalls = 0
  /\ closing = "open"
  /\ crashed = FALSE

(***************************************************************************)
(* The listener.                                                           *)
(***************************************************************************)
closeListener ==
  /\ tcp' = 0
  /\ sockets' = sockets \ {tcp}
  /\ UNCHANGED <<tcpAddr, abandoned>>

(* net.Listen, register, serve; a server already stopped closes what it is  *)
(* asked to serve.  An address still in use cannot be taken.                *)
openListener(addr) ==
  /\ addr \notin sockets
  /\ tcp' = addr /\ tcpAddr' = addr
  /\ sockets' = IF Stopped THEN sockets ELSE sockets \union {addr}
  /\ UNCHANGED abandoned

(***************************************************************************)
(* Inject, and the clear it returns: registered first, then started; undone *)
(* first, then restored.                                                    *)
(***************************************************************************)
Inject(i, n) ==
  /\ inj[i].at = "idle" /\ ~closed
  /\ inj' = [inj EXCEPT ![i] = [name |-> n, at |-> "registered",
                                previous |-> scenarios[n], silenced |-> 0]]
  /\ scenarios' = [scenarios EXCEPT ![n] = i]
  /\ UNCHANGED <<silence, flapper, listenVars, faultCall, faultCalls, closing, crashed>>

startGoSilent(i) ==
  /\ inj[i].name = "go_silent"
  /\ silence' = i
  /\ inj' = [inj EXCEPT ![i].at = "active", ![i].silenced = silence]
  /\ UNCHANGED flapper

startFlapConnection(i) ==
  /\ inj[i].name = "flap"
  /\ flapper' = [flapper EXCEPT ![i] = "up"]
  /\ inj' = [inj EXCEPT ![i].at = "active"]
  /\ UNCHANGED silence

startScenario(i) ==
  /\ inj[i].at = "registered"
  /\ \/ startGoSilent(i)
     \/ startFlapConnection(i)
     \/ /\ inj[i].name \in {"reject", "ip_change"}
        /\ inj' = [inj EXCEPT ![i].at = "active"]
        /\ UNCHANGED <<silence, flapper>>
  /\ UNCHANGED <<scenarios, listenVars, faultCall, faultCalls, closing, crashed>>

(* clear: the stop channel is closed, ... *)
StopFault(i) ==
  /\ inj[i].at = "active"
  /\ inj' = [inj EXCEPT ![i].at = "stopping"]
  /\ UNCHANGED <<scenarios, silence, flapper, listenVars, faultCall, faultCalls, closing, crashed>>

(* ... the flapper is waited for and the listener opened again, or the      *)
(* silence before this one put back, ...                                    *)
ensureListening(i) ==
  /\ inj[i].at = "stopping" /\ inj[i].name = "flap"
  /\ flapper[i] = "ended"
  /\ inj' = [inj EXCEPT ![i].at = IF tcp = 0 /\ ~closed THEN "reopening" ELSE "undone"]
  /\ UNCHANGED <<scenarios, silence, flapper, listenVars, faultCall, faultCalls, closing, crashed>>

Reopens(i) ==
  /\ inj[i].at = "reopening"
  /\ \/ openListener(tcpAddr)
     \/ tcpAddr \in sockets /\ UNCHANGED listenVars
  /\ inj' = [inj EXCEPT ![i].at = "undone"]
  /\ UNCHANGED <<scenarios, silence, flapper, faultCall, faultCalls, closing, crashed>>

UndoOther(i) ==
  /\ inj[i].at = "stopping" /\ inj[i].name # "flap"
  /\ silence' = IF inj[i].name = "go_silent" /\ silence = i THEN inj[i].silenced ELSE silence
  /\ inj' = [inj EXCEPT ![i].at = "undone"]
  /\ UNCHANGED <<scenarios, flapper, listenVars, faultCall, faultCalls, closing, crashed>>

(* ... and what was registered before this injection is registered again.   *)
Restore(i) ==
  /\ inj[i].at = "undone"
  /\ scenarios' = [scenarios EXCEPT ![inj[i].name] = inj[i].previous]
  /\ inj' = [inj EXCEPT ![i].at = "cleared"]
  /\ UNCHANGED <<silence, flapper, listenVars, faultCall, faultCalls, closing, crashed>>

(***************************************************************************)
(* The flapper: a wait that the clear or Close cuts short, then the        *)
(* listener closes; a wait, then it opens again, or the flapper gives up.  *)
(***************************************************************************)
\* Mutant: a flapper that only Close can stop.
waitCycleDeafToClear(i) == ~closed

waitCycle(i) == ~(inj[i].at = "stopping" \/ closed)

FlapEnds(i) ==
  /\ flapper[i] \in {"up", "down"} /\ ~waitCycle(i)
  /\ flapper' = [flapper EXCEPT ![i] = "ended"]
  /\ UNCHANGED <<inj, scenarios, silence, listenVars, faultCall, faultCalls, closing, crashed>>

FlapCloses(i) ==
  /\ flapper[i] = "up" /\ waitCycle(i)
  /\ flapper' = [flapper EXCEPT ![i] = "down"]
  /\ closeListener
  /\ UNCHANGED <<inj, scenarios, silence, faultCall, faultCalls, closing, crashed>>

FlapWaited(i) ==
  /\ flapper[i] = "down" /\ waitCycle(i)
  /\ flapper' = [flapper EXCEPT ![i] = IF closed THEN "ended" ELSE "opening"]
  /\ UNCHANGED <<inj, scenarios, silence, listenVars, faultCall, faultCalls, closing, crashed>>

FlapOpens(i) ==
  /\ flapper[i] = "opening"
  /\ \/ openListener(tcpAddr) /\ flapper' = [flapper EXCEPT ![i] = "up"]
     \/ tcpAddr \in sockets /\ flapper' = [flapper EXCEPT ![i] = "ended"] /\ UNCHANGED listenVars
  /\ UNCHANGED <<inj, scenarios, silence, faultCall, faultCalls, closing, crashed>>

(***************************************************************************)
(* A call: a Reboot, over the listener or the in-process pipe (address 0). *)
(***************************************************************************)
Hangup == faultCall' = [at |-> "none"]
CallStays == UNCHANGED <<inj, scenarios, silence, flapper, faultCalls, closing>>

CallArrives(addr) ==
  /\ faultCall.at = "none" /\ faultCalls < MaxFaultCalls /\ ~Stopped
  /\ faultCall' = [at |-> "gate", addr |-> addr]
  /\ faultCalls' = faultCalls + 1
  /\ UNCHANGED <<inj, scenarios, silence, flapper, listenVars, closing, crashed>>

(* A call on an address the machine has left is cut, and the address with it. *)
refuseAbandoned ==
  /\ faultCall.at = "gate" /\ faultCall.addr \in abandoned
  /\ Hangup
  /\ abandoned' = abandoned \ {faultCall.addr}
  /\ sockets' = sockets \ {faultCall.addr}
  /\ CallStays /\ UNCHANGED <<tcp, tcpAddr, crashed>>

scenarioGate ==
  /\ faultCall.at = "gate" /\ faultCall.addr \notin abandoned
  /\ faultCall' =
       IF "go_silent" \in FaultNames /\ scenarios["go_silent"] # 0
       THEN [at |-> "parked", stop |-> silence]
       ELSE [at |-> "method"]
  /\ CallStays /\ UNCHANGED <<listenVars, crashed>>

(* Parked until the silence is lifted or lasted; the caller's deadline and   *)
(* Close end the call instead.                                               *)
goSilent ==
  /\ faultCall.at = "parked"
  /\ \/ faultCall' = [at |-> "method"]       \* the silence's own 90 s
     \/ faultCall.stop # 0 /\ inj[faultCall.stop].at \notin {"registered", "active"}
        /\ faultCall' = [at |-> "method"]
     \/ Hangup                               \* the caller's context, or done
  /\ CallStays /\ UNCHANGED <<listenVars, crashed>>

rpcScenarioGate ==
  /\ faultCall.at = "method"
  /\ IF "reject" \in FaultNames /\ scenarios["reject"] # 0
     THEN Hangup
     ELSE IF "ip_change" \in FaultNames /\ scenarios["ip_change"] # 0 /\ ~closed
          THEN faultCall' = [at |-> "rebind", old |-> tcp]
          ELSE Hangup
  /\ CallStays /\ UNCHANGED <<listenVars, crashed>>

(* The new address is opened before the old one is looked at. *)
rebind ==
  /\ faultCall.at = "rebind"
  /\ tcpAddr < MaxPorts
  /\ Hangup
  /\ tcp' = tcpAddr + 1 /\ tcpAddr' = tcpAddr + 1
  /\ sockets' = IF Stopped THEN sockets ELSE sockets \union {tcpAddr + 1}
  /\ abandoned' = IF faultCall.old = 0 THEN abandoned ELSE abandoned \union {faultCall.old}
  /\ crashed' = (faultCall.old = 0)
  /\ CallStays

NoPortLeft ==
  /\ faultCall.at = "rebind" /\ tcpAddr = MaxPorts
  /\ Hangup
  /\ CallStays /\ UNCHANGED <<listenVars, crashed>>

(* The goroutine rebind leaves behind: the grace is over, or Close has come. *)
severAbandoned(a) ==
  /\ abandoned' = abandoned \ {a}
  /\ sockets' = sockets \ {a}
  /\ UNCHANGED <<inj, scenarios, silence, flapper, tcp, tcpAddr, faultCall, faultCalls, closing, crashed>>

(***************************************************************************)
(* Close, step by step.                                                    *)
(***************************************************************************)
CloseBegins ==
  /\ closing = "open"
  /\ closing' = "flagged"
  /\ UNCHANGED <<inj, scenarios, silence, flapper, listenVars, faultCall, faultCalls, crashed>>

(* sg.Wait: every flapper and every severing goroutine has ended; then      *)
(* srv.Stop closes what is being served.                                    *)
CloseStops ==
  /\ closing = "flagged"
  /\ \A i \in Injections : flapper[i] \in {"none", "ended"}
  /\ abandoned = {}
  /\ closing' = "stopped"
  /\ sockets' = {}
  /\ UNCHANGED <<inj, scenarios, silence, flapper, tcp, tcpAddr, abandoned, faultCall, faultCalls, crashed>>

CloseReturns ==
  /\ closing = "stopped"
  /\ closing' = "closed"
  /\ closeListener
  /\ UNCHANGED <<inj, scenarios, silence, flapper, faultCall, faultCalls, crashed>>

ClearSteps(i) == ensureListening(i) \/ Reopens(i) \/ UndoOther(i) \/ Restore(i)
FlapSteps(i) == FlapEnds(i) \/ FlapCloses(i) \/ FlapWaited(i) \/ FlapOpens(i)
CallSteps == refuseAbandoned \/ scenarioGate \/ goSilent \/ rpcScenarioGate \/ rebind \/ NoPortLeft

FaultNext ==
  /\ ~crashed
  /\ \/ \E i \in Injections :
          \/ \E n \in FaultNames : Inject(i, n)
          \/ startScenario(i) \/ StopFault(i) \/ ClearSteps(i) \/ FlapSteps(i)
     \/ \E a \in sockets \union {0} : CallArrives(a)
     \/ CallSteps
     \/ \E a \in abandoned : severAbandoned(a)
     \/ CloseBegins \/ CloseStops \/ CloseReturns

(* Every goroutine that can go on does; nobody has to call Close, or clear.  *)
FaultFairness ==
  /\ \A i \in Injections :
       /\ WF_faultVars(~crashed /\ startScenario(i))
       /\ WF_faultVars(~crashed /\ ClearSteps(i))
       /\ WF_faultVars(~crashed /\ FlapSteps(i))
  /\ WF_faultVars(~crashed /\ CallSteps)
  /\ WF_faultVars(~crashed /\ \E a \in abandoned : severAbandoned(a))
  /\ WF_faultVars(~crashed /\ CloseStops)
  /\ WF_faultVars(~crashed /\ CloseReturns)

FaultSpec == FaultInit /\ [][FaultNext]_faultVars /\ FaultFairness

(* Close comes back, and so does a clear that was begun: whatever faults    *)
(* overlap, the flappers, the listeners waiting to be severed and the two   *)
(* of them never wait for one another.  A crash of the process (rebind in a *)
(* flap's closed window) is the one way out.                                *)
NothingHangs ==
  /\ (closing = "flagged") ~> (closing = "closed" \/ crashed)
  /\ \A i \in Injections : (inj[i].at = "stopping") ~> (inj[i].at = "cleared" \/ crashed)

=============================================================================
