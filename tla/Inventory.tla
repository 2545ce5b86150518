----------------------------- MODULE Inventory -----------------------------
(***************************************************************************)
(* The inventory's records (internal/inventory and its routes): clusters,  *)
(* their secrets, and machines, which follow the membership of one real    *)
(* Talos cluster that may be adopted more than once.                       *)
(*                                                                         *)
(* Every write of a machine is read, decide, compare-and-swap on the       *)
(* record's revision, and a retry of the whole.  A call is a sequence of   *)
(* such writes: filing a machine first evicts whoever claims its address,  *)
(* a membership pass compares a list of records taken before with what a   *)
(* node says.  Calls overlap with each other and with the membership loop. *)
(* A record keeps who owns each field: the cluster, the address, the       *)
(* operator's labels and lock, the observation, and the two marks.         *)
(***************************************************************************)
EXTENDS Naturals, Sequences, FiniteSets, SequencesExt

CONSTANTS
    Machines,      \* machine UUIDs
    Clusters,      \* cluster ids
    Minted,        \* the ones a Create makes: their secrets open none of the machines
    Addrs,         \* addresses
    Callers,       \* handlers and supervisors
    First,         \* the cluster on record in the beginning
    writeAttempts, \* tries of a compare-and-swap
    MaxCalls,      \* calls begun
    MaxEvents      \* changes of the real cluster, and crashes

ASSUME InventoryAssumption ==
    /\ First \in Clusters \ Minted /\ Minted \subseteq Clusters /\ writeAttempts \in Nat \ {0}
    /\ MaxCalls \in Nat /\ MaxEvents \in Nat
    /\ IsFiniteSet(Machines) /\ IsFiniteSet(Addrs)
    /\ \E f \in [Machines -> Addrs] : \A m, n \in Machines : m # n => f[m] # f[n]

Threads == Callers \cup {"loop"}
None == "none"

VARIABLES
    mach,     \* [Machines -> the record, rev 0 if there is none]
    clusters, \* clusters on record
    secrets,  \* clusters whose secrets are stored
    at,       \* [Addrs -> the machine that answers there, or None]
    listed,   \* what a node answers when asked for the members
    thr,      \* [Threads -> the call]
    forgot,   \* machines whose record was deleted once (history)
    calls, events

invVars == <<mach, clusters, secrets, at, listed, thr, forgot, calls, events>>
recVars == <<mach, clusters, secrets>>
envVars == <<at, listed, events>>

NoRec == [rev |-> 0, cluster |-> None, addr |-> None, lost |-> FALSE, left |-> FALSE, ops |-> 0, snap |-> 0]
NoCall == [op |-> "none", c |-> None, pc |-> "items", todo |-> <<>>]

InventoryInit ==
    /\ \E known \in SUBSET Machines :
       LET home == CHOOSE f \in [Machines -> Addrs] : \A m, n \in Machines : m # n => f[m] # f[n] IN
         /\ at = [a \in Addrs |-> IF \E m \in Machines : home[m] = a
                                  THEN CHOOSE m \in Machines : home[m] = a ELSE None]
         /\ mach = [m \in Machines |->
                IF m \in known THEN [NoRec EXCEPT !.rev = 1, !.cluster = First, !.addr = home[m]] ELSE NoRec]
    /\ clusters = {First} /\ secrets = {First}
    /\ listed = Machines
    /\ thr = [t \in Threads |-> NoCall]
    /\ forgot = {}
    /\ calls = 0 /\ events = 0

Exists(m) == mach[m].rev > 0
AddrOf(m) == {a \in Addrs : at[a] = m}

\* clusterCreds: the stored bundle, which a node of that cluster accepts.
clusterCreds(c) == c \in secrets \ Minted
----------------------------------------------------------------------------
(***************************************************************************)
(* The writes.                                                             *)
(***************************************************************************)
Item(k, m, c, a, got) == [k |-> k, m |-> m, c |-> c, a |-> a, got |-> got, att |-> 1]
Unread == [NoRec EXCEPT !.ops = 99]

\* What each write puts on the record it holds.
apply(i, r) ==
    CASE i.k = "snapshot" -> [r EXCEPT !.snap = 1]
      [] i.k \in {"labels", "lock"} -> [r EXCEPT !.ops = @ + 1]
      [] i.k = "unassign" -> [r EXCEPT !.cluster = None]
      [] i.k = "evict" -> [r EXCEPT !.lost = TRUE]
      [] i.k = "listed" -> [r EXCEPT !.left = FALSE]
      [] i.k = "left" -> [r EXCEPT !.left = TRUE]
      [] i.k = "record" -> [r EXCEPT !.cluster = i.c, !.addr = i.a, !.lost = FALSE]

\* Attempts of each write; a lock and an eviction are not retried.
Attempts(k) == IF k \in {"lock", "evict"} THEN 1 ELSE writeAttempts

Held(t) == Head(thr[t].todo)
AtItem(t, ks) == thr[t].op # "none" /\ thr[t].pc = "items" /\ thr[t].todo # <<>> /\ Held(t).k \in ks
Next1(t) == thr' = [thr EXCEPT ![t].todo = Tail(@)]
Abort(t) == thr' = [thr EXCEPT ![t] = NoCall]
Writes == {"snapshot", "labels", "lock", "unassign", "evict", "listed", "left", "record"}

\* Store.Machines().Get, for a write that does not hold a record yet.
Get(t) ==
    /\ AtItem(t, Writes) /\ Held(t).got = Unread
    /\ IF (Exists(Held(t).m) /\ (Held(t).k = "unassign" => mach[Held(t).m].cluster # None)) \/ Held(t).k = "record"
       THEN thr' = [thr EXCEPT ![t].todo[1].got = mach[Held(t).m]]
       ELSE IF Held(t).k \in {"labels", "lock"} THEN Abort(t) ELSE Next1(t)
    /\ UNCHANGED recVars /\ UNCHANGED envVars /\ UNCHANGED <<forgot, calls>>

\* Mutant: the retry writes the record it read first.
PutStale(t) ==
    /\ AtItem(t, Writes) /\ Held(t).got # Unread
    /\ IF Exists(Held(t).m) \/ Held(t).k = "record"
       THEN /\ mach' = [mach EXCEPT ![Held(t).m] = [apply(Held(t), Held(t).got) EXCEPT !.rev = mach[Held(t).m].rev + 1]]
            /\ Next1(t)
       ELSE Next1(t) /\ UNCHANGED mach
    /\ UNCHANGED <<clusters, secrets, forgot, calls>> /\ UNCHANGED envVars

\* Put, with the revision that was read; a conflict reads again or gives up.
Put(t) ==
    /\ AtItem(t, Writes) /\ Held(t).got # Unread
    /\ LET i == Held(t) IN
       IF i.got.rev = mach[i.m].rev
       THEN /\ mach' = [mach EXCEPT ![i.m] = [apply(i, i.got) EXCEPT !.rev = i.got.rev + 1]]
            /\ Next1(t)
       ELSE /\ UNCHANGED mach
            /\ IF i.att < Attempts(i.k)
               THEN thr' = [thr EXCEPT ![t].todo[1] = [i EXCEPT !.got = Unread, !.att = i.att + 1]]
               ELSE IF i.k \in {"snapshot", "listed", "left"} THEN Next1(t) ELSE Abort(t)
    /\ UNCHANGED <<clusters, secrets, forgot, calls>> /\ UNCHANGED envVars

\* evictAddressHolders: everyone else who claims the address, as listed now.
evictAddressHolders(m, a) == {n \in Machines \ {m} : Exists(n) /\ mach[n].addr = a /\ ~mach[n].lost}

\* recordMachine: the evictions, then the machine.
fileMachine(t) ==
    /\ AtItem(t, {"file"})
    /\ LET i == Held(t) IN
       thr' = [thr EXCEPT ![t].todo =
                 SetToSeq({Item("evict", n, i.c, i.a, mach[n]) : n \in evictAddressHolders(i.m, i.a)})
                   \o <<Item("record", i.m, i.c, i.a, Unread)>> \o Tail(@)]
    /\ UNCHANGED recVars /\ UNCHANGED envVars /\ UNCHANGED <<forgot, calls>>

\* adoptJoined: a member filed under another cluster is left there.
adoptJoined(t) ==
    /\ AtItem(t, {"adopt"})
    /\ LET i == Held(t) IN
       IF at[i.a] # i.m \/ (Exists(i.m) /\ mach[i.m].cluster \notin {None, i.c})
       THEN Next1(t)
       ELSE thr' = [thr EXCEPT ![t].todo[1].k = "file"]
    /\ UNCHANGED recVars /\ UNCHANGED envVars /\ UNCHANGED <<forgot, calls>>

\* The call has nothing left to write.
Returns(t) ==
    /\ thr[t].op # "none" /\ thr[t].pc = "items" /\ thr[t].todo = <<>>
    /\ IF thr[t].op = "forgetCluster" THEN thr' = [thr EXCEPT ![t].pc = "secrets"] ELSE Abort(t)
    /\ UNCHANGED recVars /\ UNCHANGED envVars /\ UNCHANGED <<forgot, calls>>
----------------------------------------------------------------------------
(***************************************************************************)
(* A pass over the membership.                                             *)
(***************************************************************************)
\* readMembers: a node on record that kept its address, or the endpoint of an import.
readMembers(mine) == \E m \in mine : ~mach[m].lost /\ mach[m].addr \in Addrs /\ at[mach[m].addr] # None

\* The writes a pass decides on: marks, addresses that moved, members without a record.
SyncItems(c, mine) ==
    {Item("listed", m, c, None, mach[m]) : m \in {n \in mine \cap listed : mach[n].left}}
    \cup {Item("left", m, c, None, mach[m]) : m \in {n \in mine \ listed : ~mach[n].left}}

\* addressMoved, followAddress; and the members nobody has filed here.
Moved(c, mine) ==
    {Item("file", at[a], c, a, Unread) : a \in {b \in Addrs :
        at[b] \in mine \cap listed /\ mach[at[b]].addr \notin AddrOf(at[b])}}
    \cup {Item("adopt", at[a], c, a, Unread) : a \in {b \in Addrs : at[b] \in listed \ mine}}

syncCluster(t, c) ==
    LET mine == {m \in Machines : Exists(m) /\ mach[m].cluster = c} IN
    IF clusterCreds(c) /\ listed # {} /\ readMembers(mine)
    THEN /\ thr' = [thr EXCEPT ![t] = [op |-> "sync", c |-> c, pc |-> "items",
                        todo |-> SetToSeq(Moved(c, mine)) \o SetToSeq(SyncItems(c, mine))]]
         /\ UNCHANGED forgot
    ELSE UNCHANGED <<thr, forgot>>

\* SyncMembership, from membershipLoop.
SyncMembership ==
    /\ thr["loop"] = NoCall
    /\ \E c \in clusters : syncCluster("loop", c)
    /\ UNCHANGED recVars /\ UNCHANGED envVars /\ UNCHANGED calls
----------------------------------------------------------------------------
(***************************************************************************)
(* Calls.                                                                  *)
(***************************************************************************)
BeginCall(t) == t \in Callers /\ thr[t] = NoCall /\ calls < MaxCalls /\ calls' = calls + 1
StartCall(t, op, c, pc, todo) == thr' = [thr EXCEPT ![t] = [op |-> op, c |-> c, pc |-> pc, todo |-> todo]]

\* Refresh reads the record, asks the node, and merges what it heard.
Refresh(t, m) ==
    /\ BeginCall(t) /\ Exists(m) /\ mach[m].cluster # None
    /\ StartCall(t, "refresh", None, "items", <<Item("snapshot", m, None, None, mach[m])>>)
    /\ UNCHANGED recVars /\ UNCHANGED envVars /\ UNCHANGED forgot

SetLabels(t, m) ==
    /\ BeginCall(t) /\ Exists(m)
    /\ StartCall(t, "labels", None, "items", <<Item("labels", m, None, None, Unread)>>)
    /\ UNCHANGED recVars /\ UNCHANGED envVars /\ UNCHANGED forgot

SetMachineLock(t, m) ==
    /\ BeginCall(t) /\ Exists(m)
    /\ StartCall(t, "lock", None, "items", <<Item("lock", m, None, None, mach[m])>>)
    /\ UNCHANGED recVars /\ UNCHANGED envVars /\ UNCHANGED forgot

\* AddManual: whoever answers at the address, through the cluster's credentials.
AddManual(t, c, a) ==
    /\ BeginCall(t) /\ clusterCreds(c) /\ at[a] # None
    /\ StartCall(t, "add", c, "items", <<Item("file", at[a], c, a, Unread)>>)
    /\ UNCHANGED recVars /\ UNCHANGED envVars /\ UNCHANGED forgot

DeleteMachine(t, m) ==
    /\ BeginCall(t) /\ Exists(m)
    /\ mach' = [mach EXCEPT ![m] = NoRec]
    /\ forgot' = forgot \cup {m}
    /\ UNCHANGED <<clusters, secrets, thr>> /\ UNCHANGED envVars

\* ReadLive asks for the membership beside the loop.
ReadMembersLive(t, c) ==
    /\ BeginCall(t) /\ c \in clusters
    /\ syncCluster(t, c)
    /\ UNCHANGED recVars /\ UNCHANGED envVars

\* refuseIfAlreadyAdopted: the node answers for a cluster that is still on record.
refuseIfAlreadyAdopted(m) == Exists(m) /\ mach[m].cluster \in clusters

Import(t, c, a) ==
    /\ BeginCall(t) /\ c \notin clusters \cup secrets \cup Minted /\ at[a] # None
    /\ \A s \in Threads : thr[s].c # c
    /\ ~refuseIfAlreadyAdopted(at[a])
    /\ StartCall(t, "import", c, "put", <<Item("file", at[a], c, a, Unread)>>)
    /\ UNCHANGED recVars /\ UNCHANGED envVars /\ UNCHANGED forgot

Create(t, c) ==
    /\ BeginCall(t) /\ c \in Minted \ (clusters \cup secrets)
    /\ \A s \in Threads : thr[s].c # c
    /\ StartCall(t, "create", c, "put", <<>>)
    /\ UNCHANGED recVars /\ UNCHANGED envVars /\ UNCHANGED forgot

\* The bundle is stored before its cluster.
PutSecrets(t) ==
    /\ thr[t].op \in {"import", "create"} /\ thr[t].pc = "put"
    /\ secrets' = secrets \cup {thr[t].c}
    /\ thr' = [thr EXCEPT ![t].pc = "cluster"]
    /\ UNCHANGED <<mach, clusters, forgot, calls>> /\ UNCHANGED envVars

\* adoptMembers: the node itself, then every other member that says who it is.
otherMembers(c, m) == {Item("file", at[a], c, a, Unread) : a \in {b \in Addrs : at[b] \in listed \ {m}}}

PutCluster(t) ==
    /\ thr[t].op \in {"import", "create"} /\ thr[t].pc = "cluster"
    /\ clusters' = clusters \cup {thr[t].c}
    /\ thr' = [thr EXCEPT ![t].pc = "items",
                          ![t].todo = @ \o IF @ = <<>> THEN <<>> ELSE
                             SetToSeq(otherMembers(thr[t].c, Held(t).m))]
    /\ UNCHANGED <<mach, secrets, forgot, calls>> /\ UNCHANGED envVars

ForgetCluster(t, c) ==
    /\ BeginCall(t) /\ c \in clusters
    /\ StartCall(t, "forgetCluster", c, "items",
            SetToSeq({Item("unassign", m, c, None, Unread) : m \in {n \in Machines : Exists(n) /\ mach[n].cluster = c}}))
    /\ UNCHANGED recVars /\ UNCHANGED envVars /\ UNCHANGED forgot

\* Secrets first, then the cluster.
DeleteSecrets(t) ==
    /\ thr[t].op = "forgetCluster" /\ thr[t].pc = "secrets"
    /\ secrets' = secrets \ {thr[t].c}
    /\ thr' = [thr EXCEPT ![t].pc = "gone"]
    /\ UNCHANGED <<mach, clusters, forgot, calls>> /\ UNCHANGED envVars

DeleteCluster(t) ==
    /\ thr[t].op = "forgetCluster" /\ thr[t].pc = "gone"
    /\ clusters' = clusters \ {thr[t].c}
    /\ Abort(t)
    /\ UNCHANGED <<mach, secrets, forgot, calls>> /\ UNCHANGED envVars

\* The daemon dies: calls are gone, the records stay.
InventoryCrash ==
    /\ events < MaxEvents /\ events' = events + 1
    /\ thr' = [t \in Threads |-> NoCall]
    /\ UNCHANGED recVars /\ UNCHANGED <<at, listed, forgot, calls>>
----------------------------------------------------------------------------
(***************************************************************************)
(* The real cluster.                                                       *)
(***************************************************************************)
\* A node goes away, comes back, or moves to an address nobody has.
NodeMoves ==
    /\ events < MaxEvents /\ events' = events + 1
    /\ \E m \in Machines, a \in Addrs :
         /\ at[a] \in {None, m}
         /\ at' = [b \in Addrs |-> IF b = a THEN (IF at[a] = m THEN None ELSE m)
                                   ELSE IF at[b] = m THEN None ELSE at[b]]
    /\ UNCHANGED recVars /\ UNCHANGED <<listed, thr, forgot, calls>>

MemberListChanges ==
    /\ events < MaxEvents /\ events' = events + 1
    /\ \E m \in Machines : listed' = IF m \in listed THEN listed \ {m} ELSE listed \cup {m}
    /\ UNCHANGED recVars /\ UNCHANGED <<at, thr, forgot, calls>>

ThreadStep(t) ==
    Get(t) \/ Put(t) \/ fileMachine(t) \/ adoptJoined(t) \/ Returns(t) \/ PutSecrets(t)
        \/ PutCluster(t) \/ DeleteSecrets(t) \/ DeleteCluster(t)

InventoryNext ==
    \/ \E t \in Threads : ThreadStep(t)
    \/ SyncMembership
    \/ \E t \in Callers, m \in Machines : Refresh(t, m) \/ SetLabels(t, m) \/ SetMachineLock(t, m) \/ DeleteMachine(t, m)
    \/ \E t \in Callers, c \in Clusters :
         \/ ReadMembersLive(t, c) \/ Create(t, c) \/ ForgetCluster(t, c)
         \/ \E a \in Addrs : AddManual(t, c, a) \/ Import(t, c, a)
    \/ InventoryCrash \/ NodeMoves \/ MemberListChanges

InventoryFair ==
    /\ \A t \in Threads : WF_invVars(ThreadStep(t))
    /\ WF_invVars(SyncMembership)

InventorySpec == InventoryInit /\ [][InventoryNext]_invVars /\ InventoryFair
----------------------------------------------------------------------------
(***************************************************************************)
(* Properties.                                                             *)
(***************************************************************************)
\* A write touches what its writer owns and nothing else: no field goes back to what it
\* was when the record was read.
Undoes(m) ==
    /\ Exists(m) /\ mach'[m].rev > 0 /\ mach'[m] # mach[m]
    /\ \/ Cardinality({f \in {"cluster", "ops", "snap", "left"} : mach'[m][f] # mach[m][f]}) > 1
       \/ mach'[m].ops < mach[m].ops \/ mach'[m].snap < mach[m].snap

\* A heartbeat, a mark or an eviction never takes back what an operator or another
\* writer put on the record since it was read (merge re-reads; Put compares), as long as
\* nobody deletes the record in between.
NoSilentUndo == [][\A m \in Machines \ forgot : ~Undoes(m)]_invVars

=============================================================================
