------------------------------ MODULE MCAccess ------------------------------
(***************************************************************************)
(* Small instances of who may do what: the accounts, sessions, tokens and  *)
(* links (Access) and the chain of checks a request passes (HttpChain).    *)
(*                                                                         *)
(* The chain asks for the session and the role once and keeps what it was  *)
(* told; the accounts never ask the chain. So the state graph holds the    *)
(* behaviours of each beside the other idle: turn says which one moves.    *)
(***************************************************************************)
EXTENDS Access, HttpChain, TLC

\* Accounts, names and requests are interchangeable.
Sym == Permutations(Ids) \cup Permutations(Names) \cup Permutations(Requests)

VARIABLE turn
mcVars == <<accessVars, httpVars, turn>>

MCInit ==
    /\ AccessInit /\ HttpInit
    /\ turn \in {"access", "http"}
    /\ (turn = "http") => (Present = {})

MCNext ==
    \/ turn = "access" /\ AccessNext /\ UNCHANGED <<httpVars, turn>>
    \/ turn = "http" /\ HttpNext /\ UNCHANGED <<accessVars, turn>>

MCSpec == MCInit /\ [][MCNext]_mcVars
=============================================================================
