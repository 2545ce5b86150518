----------------------------- MODULE MCStreams -----------------------------
(***************************************************************************)
(* Small instances of the two halves of a live view: the hub that fans     *)
(* events out (StreamHub) and the readers that feed it (NodeStream).  They *)
(* meet only in Publish, which never waits, so one state graph holds the   *)
(* behaviours of each beside an idle other: turn says which one moves.     *)
(***************************************************************************)
EXTENDS StreamHub, NodeStream

VARIABLE turn
mcVars == <<vars, nodeVars, turn>>

MCInit == Init /\ NodeInit /\ turn \in {"hub", "node"}

MCNext ==
    \/ turn = "hub" /\ Next /\ UNCHANGED <<nodeVars, turn>>
    \/ turn = "node" /\ NodeNext /\ UNCHANGED <<vars, turn>>

\* What FairSpec and NodeFairSpec ask, of the one that moves.
MCFairness ==
    /\ \A p \in Publishers : WF_vars(turn = "hub" /\ PublishSteps(p))
    /\ \A r \in Readers : /\ WF_nodeVars(turn = "node" /\ Spawn(r))
                          /\ WF_nodeVars(turn = "node" /\ r \in cancelled /\ RunSteps(r))
    /\ \A t \in Times : WF_nodeVars(turn = "node" /\ LingerOver(t))
    /\ WF_nodeVars(turn = "node" /\ Tick)

MCSpec == MCInit /\ [][MCNext]_mcVars /\ MCFairness
============================================================================
