------------------------------- MODULE MCDisk -------------------------------
(***************************************************************************)
(* Small instances of everything the daemon keeps in its data directory:   *)
(* the records (FsStore), the audit log (AuditLog) and the history behind  *)
(* the charts (History).                                                   *)
(*                                                                         *)
(* Each keeps files of its own and takes no lock of another, so the state  *)
(* graph holds the behaviours of each beside the others idle: turn says    *)
(* which one moves.                                                        *)
(***************************************************************************)
EXTENDS FsStore, AuditLog, History, TLC

\* The processes and the writers of the store are interchangeable.
Sym == Permutations(Procs) \cup Permutations(Writers)

VARIABLE turn
mcVars == <<vars, auditVars, historyVars, turn>>

MCInit ==
    /\ Init /\ AuditInit /\ HistoryInit
    /\ turn \in {"store", "audit", "history"}
    /\ (turn # "store") => fresh

MCNext ==
    \/ turn = "store" /\ Next /\ UNCHANGED <<auditVars, historyVars, turn>>
    \/ turn = "audit" /\ AuditNext /\ UNCHANGED <<vars, historyVars, turn>>
    \/ turn = "history" /\ HistoryNext /\ UNCHANGED <<vars, auditVars, turn>>

MCSpec == MCInit /\ [][MCNext]_mcVars
=============================================================================
