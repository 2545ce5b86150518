---------------------------- MODULE JobContract ----------------------------
(***************************************************************************)
(* What a job promises the person who submitted it, without goroutines,    *)
(* leases, saves or restarts: the states its record passes through, and    *)
(* when the side effect of a step may happen in the world.                 *)
(*                                                                         *)
(* JobEngine is shown to implement it, crashes included, while the disk    *)
(* accepts writes and no request outlives its call.                        *)
(***************************************************************************)
EXTENDS Naturals

CONSTANTS Jobs, NSteps, Certain   \* Certain[j]: steps that are never skipped on a guess

VARIABLES
    status,    \* [Jobs -> the state of the record]
    cancelled, \* jobs with a stored cancel
    effects,   \* [Jobs -> [1 .. NSteps -> Nat]]
    overrun    \* [Jobs -> effects since the cancel was stored]

vars == <<status, cancelled, effects, overrun>>

Init ==
    /\ status = [j \in Jobs |-> "absent"]
    /\ cancelled = {}
    /\ effects = [j \in Jobs |-> [i \in 1 .. NSteps[j] |-> 0]]
    /\ overrun = [j \in Jobs |-> 0]

Untouched(j) == \A i \in 1 .. NSteps[j] : effects[j][i] = 0
Complete(j) == \A i \in Certain[j] : effects[j][i] = 1

Accept(j) ==
    /\ status[j] = "absent"
    /\ status' = [status EXCEPT ![j] = "pending"]
    /\ UNCHANGED <<cancelled, effects, overrun>>

\* A submission the closing engine takes back has done nothing.
Withdraw(j) ==
    /\ status[j] = "pending"
    /\ Untouched(j)
    /\ status' = [status EXCEPT ![j] = "absent"]
    /\ cancelled' = cancelled \ {j}
    /\ UNCHANGED <<effects, overrun>>

Begin(j) ==
    /\ status[j] = "pending"
    /\ status' = [status EXCEPT ![j] = "running"]
    /\ UNCHANGED <<cancelled, effects, overrun>>

\* A step takes effect once, in order, while the record says running, and at
\* most one step does after a cancel.
Perform(j, i) ==
    /\ status[j] = "running"
    /\ effects[j][i] = 0
    /\ \A k \in Certain[j] : k < i => effects[j][k] = 1
    /\ \A k \in 1 .. NSteps[j] : k > i => effects[j][k] = 0
    /\ j \in cancelled => overrun[j] = 0
    /\ effects' = [effects EXCEPT ![j][i] = 1]
    /\ overrun' = [overrun EXCEPT ![j] = IF j \in cancelled THEN 1 ELSE 0]
    /\ UNCHANGED <<status, cancelled>>

Cancel(j) ==
    /\ status[j] \in {"pending", "running"}
    /\ cancelled' = cancelled \cup {j}
    /\ UNCHANGED <<status, effects, overrun>>

\* A parked job has nobody running it: the cancel is its end.
CancelParked(j) ==
    /\ status[j] = "parked"
    /\ status' = [status EXCEPT ![j] = "cancelled"]
    /\ cancelled' = cancelled \cup {j}
    /\ UNCHANGED <<effects, overrun>>

Park(j) ==
    /\ status[j] \in {"pending", "running"}
    /\ status' = [status EXCEPT ![j] = "parked"]
    /\ UNCHANGED <<cancelled, effects, overrun>>

\* Success needs every certain effect, and a job nobody cancelled is not
\* recorded as cancelled.
End(j, s) ==
    /\ status[j] \in {"pending", "running"}
    /\ s = "succeeded" => Complete(j)
    /\ s = "cancelled" => j \in cancelled
    /\ status' = [status EXCEPT ![j] = s]
    /\ UNCHANGED <<cancelled, effects, overrun>>

Next ==
    \E j \in Jobs :
        \/ Accept(j) \/ Withdraw(j) \/ Begin(j) \/ Cancel(j) \/ CancelParked(j) \/ Park(j)
        \/ \E i \in 1 .. NSteps[j] : Perform(j, i)
        \/ \E s \in {"succeeded", "failed", "cancelled"} : End(j, s)

Spec == Init /\ [][Next]_vars
============================================================================
