------------------------------- MODULE MCJobs -------------------------------
(***************************************************************************)
(* Small instances of JobEngine.                                           *)
(***************************************************************************)
EXTENDS JobEngine, TLC

CONSTANTS a, b, c1

TwoJobs == {a, b}

\* Two reboots with a look before them, beside a reset of the same cluster.
RebootAndReset == (a :> <<"read", "check", "check">>) @@ (b :> <<"blind">>)
TwoJobsLength == (a :> 3) @@ (b :> 1)

\* A reboot, then a shutdown.
RebootThenShutdown == a :> <<"check", "off">>
OneJobLength == a :> 2

SameCluster == [j \in Jobs |-> c1]
=============================================================================
