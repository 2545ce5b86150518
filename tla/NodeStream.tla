----------------------------- MODULE NodeStream -----------------------------
(***************************************************************************)
(* The readers of node logs (internal/nodestream), for one topic: several  *)
(* panels share one upstream stream by counting references, a reader stops *)
(* a linger after its last panel left, and it publishes its connection     *)
(* state into the stream.                                                  *)
(*                                                                         *)
(* Time is a clock of Ticks.  A reader is the object Acquire makes and the *)
(* goroutine that runs for it; both are numbered in the order made.        *)
(***************************************************************************)
EXTENDS Naturals, FiniteSets

CONSTANTS
    Panels,      \* subscribers, each acquiring and releasing again and again
    MaxReaders,  \* readers made
    Linger,      \* ticks from the last release to the end of a reader
    MaxTicks,
    MaxTimers    \* timers that can be due in one tick

ASSUME StreamAssumption ==
    MaxReaders \in Nat /\ Linger \in Nat \ {0} /\ MaxTicks \in Nat /\ MaxTimers \in Nat

Readers == 1 .. MaxReaders
NoReader == 0
Never == MaxTicks + 1   \* idleSince is the zero time
Times == 0 .. MaxTicks + Linger

VARIABLES
    entry,      \* Manager.readers[topic]: the reader, None without an entry
    readersMade,       \* readers made so far
    refs,       \* [Readers -> reader.refs]
    idleSince,  \* [Readers -> reader.idleSince]
    cancelled,  \* readers whose context is cancelled
    pc,         \* [Readers -> where the goroutine of the reader stands]
    holding,    \* panels that have acquired and not released
    timers,     \* [Times -> how many AfterFunc timers of release are due]
    closed,     \* Manager.closed
    returned,   \* Close has returned
    shown,      \* the state published last, as a panel shows it
    now

nodeVars == <<entry, readersMade, refs, idleSince, cancelled, pc, holding, timers, closed,
          returned, shown, now>>

\* "made" is in the map and not yet counted by the wait group.
PC == {"none", "made", "start", "opening", "live", "broken", "waiting", "leaving", "gone"}
States == {"disconnected", "live", "reconnecting", "rebooting"}

NodeInit ==
    /\ entry = NoReader
    /\ readersMade = 0
    /\ refs = [r \in Readers |-> 0]
    /\ idleSince = [r \in Readers |-> Never]
    /\ cancelled = {}
    /\ pc = [r \in Readers |-> "none"]
    /\ holding = {}
    /\ timers = [t \in Times |-> 0]
    /\ closed = FALSE
    /\ returned = FALSE
    /\ shown = "disconnected"
    /\ now = 0
----------------------------------------------------------------------------

\* Acquire, the topic has a reader.
AcquireJoin(p) ==
    /\ p \notin holding
    /\ ~closed
    /\ entry # NoReader
    /\ refs' = [refs EXCEPT ![entry] = @ + 1]
    /\ idleSince' = [idleSince EXCEPT ![entry] = Never]
    /\ holding' = holding \cup {p}
    /\ UNCHANGED <<entry, readersMade, cancelled, pc, timers, closed, returned, shown, now>>

\* Acquire, the topic has none: one is put into the map under the lock.
AcquireMake(p) ==
    /\ p \notin holding
    /\ ~closed
    /\ entry = NoReader
    /\ readersMade < MaxReaders
    /\ readersMade' = readersMade + 1
    /\ entry' = readersMade + 1
    /\ refs' = [refs EXCEPT ![readersMade + 1] = 1]
    /\ pc' = [pc EXCEPT ![readersMade + 1] = "made"]
    /\ holding' = holding \cup {p}
    /\ UNCHANGED <<idleSince, cancelled, timers, closed, returned, shown, now>>

\* wg.Add(1) and the go statement, after the unlock.
Spawn(r) ==
    /\ pc[r] = "made"
    /\ pc' = [pc EXCEPT ![r] = "start"]
    /\ UNCHANGED <<entry, readersMade, refs, idleSince, cancelled, holding, timers, closed,
                   returned, shown, now>>

Release(p) ==
    /\ p \in holding
    /\ holding' = holding \ {p}
    /\ \/ /\ entry = NoReader
          /\ UNCHANGED <<refs, idleSince, timers>>
       \/ /\ entry # NoReader
          /\ refs' = [refs EXCEPT ![entry] = @ - 1]
          /\ \/ refs[entry] > 1 /\ UNCHANGED <<idleSince, timers>>
             \/ /\ refs[entry] <= 1
                /\ idleSince' = [idleSince EXCEPT ![entry] = now]
                /\ timers[now + Linger] < MaxTimers
                /\ timers' = [timers EXCEPT ![now + Linger] = @ + 1]
    /\ UNCHANGED <<entry, readersMade, cancelled, pc, closed, returned, shown, now>>

\* Mutant: the timer does not look whether somebody came back.
LingerOverBlindly(t) ==
    /\ timers[t] > 0
    /\ t <= now
    /\ timers' = [timers EXCEPT ![t] = @ - 1]
    /\ IF entry = NoReader
         THEN UNCHANGED <<entry, cancelled>>
         ELSE entry' = NoReader /\ cancelled' = cancelled \cup {entry}
    /\ UNCHANGED <<readersMade, refs, idleSince, pc, holding, closed, returned, shown, now>>

\* Mutant: the timer forgets the reader and does not stop it.
LingerOverUncancelled(t) ==
    /\ timers[t] > 0
    /\ t <= now
    /\ timers' = [timers EXCEPT ![t] = @ - 1]
    /\ entry' = IF entry = NoReader \/ refs[entry] > 0 \/ idleSince[entry] = Never
                  THEN entry ELSE NoReader
    /\ UNCHANGED <<readersMade, refs, idleSince, cancelled, pc, holding, closed, returned, shown, now>>

\* The timer of release.  It looks at the reader in the map, whichever it is.
LingerOver(t) ==
    /\ timers[t] > 0
    /\ t <= now
    /\ timers' = [timers EXCEPT ![t] = @ - 1]
    /\ IF entry = NoReader \/ refs[entry] > 0 \/ idleSince[entry] = Never
         THEN UNCHANGED <<entry, cancelled>>
         ELSE entry' = NoReader /\ cancelled' = cancelled \cup {entry}
    /\ UNCHANGED <<readersMade, refs, idleSince, pc, holding, closed, returned, shown, now>>

\* A timer fires in the tick it is due.
Tick ==
    /\ now < MaxTicks
    /\ \A t \in Times : timers[t] > 0 => t > now
    /\ now' = now + 1
    /\ UNCHANGED <<entry, readersMade, refs, idleSince, cancelled, pc, holding, timers, closed,
                   returned, shown>>
----------------------------------------------------------------------------
(***************************************************************************)
(* run and follow, the goroutine of one reader.                            *)
(***************************************************************************)
Goes(r, from, to) ==
    /\ pc[r] = from
    /\ pc' = [pc EXCEPT ![r] = to]
    /\ UNCHANGED <<entry, readersMade, refs, idleSince, cancelled, holding, timers, closed,
                   returned, now>>

\* The top of the loop: the context decides.
RunAgain(r) ==
    /\ Goes(r, "start", IF r \in cancelled THEN "leaving" ELSE "opening")
    /\ UNCHANGED shown

\* The node answered and the stream is open.
FollowLive(r) == Goes(r, "opening", "live") /\ shown' = "live"

\* Open, the request or Recv fails: a cancelled context ends the reader.
FollowBroken(r) ==
    /\ \E from \in {"opening", "live"} :
          Goes(r, from, IF r \in cancelled THEN "leaving" ELSE "broken")
    /\ UNCHANGED shown

\* The end of the stream and a failure are told apart.
RunReport(r) ==
    /\ Goes(r, "broken", "waiting")
    /\ shown' \in {"rebooting", "reconnecting"}

\* The wait between two attempts ends with the backoff or with the context.
RunWaited(r) ==
    /\ Goes(r, "waiting", IF r \in cancelled THEN "leaving" ELSE "start")
    /\ UNCHANGED shown

\* The deferred publishState, then wg.Done.
RunLeave(r) == Goes(r, "leaving", "gone") /\ shown' = "disconnected"
----------------------------------------------------------------------------
CloseManager ==
    /\ ~closed
    /\ closed' = TRUE
    /\ entry' = NoReader
    /\ cancelled' = IF entry = NoReader THEN cancelled ELSE cancelled \cup {entry}
    /\ UNCHANGED <<readersMade, refs, idleSince, pc, holding, timers, returned, shown, now>>

CloseReturn ==
    /\ closed
    /\ ~returned
    /\ \A r \in Readers : pc[r] \in {"none", "made", "gone"}
    /\ returned' = TRUE
    /\ UNCHANGED <<entry, readersMade, refs, idleSince, cancelled, pc, holding, timers, closed,
                   shown, now>>
----------------------------------------------------------------------------
RunSteps(r) ==
    \/ RunAgain(r) \/ FollowBroken(r) \/ RunReport(r) \/ RunWaited(r) \/ RunLeave(r)

NodeNext ==
    \/ \E p \in Panels : AcquireJoin(p) \/ AcquireMake(p) \/ Release(p)
    \/ \E r \in Readers : Spawn(r) \/ FollowLive(r) \/ RunSteps(r)
    \/ \E t \in Times : LingerOver(t)
    \/ Tick \/ CloseManager \/ CloseReturn

NodeSpec == NodeInit /\ [][NodeNext]_nodeVars

\* Fairness: goroutines are scheduled, a due timer fires, and a call whose
\* context is cancelled returns.  A panel need not come or go.
NodeFairSpec ==
    /\ NodeSpec
    /\ \A r \in Readers : WF_nodeVars(Spawn(r)) /\ WF_nodeVars(r \in cancelled /\ RunSteps(r))
    /\ \A t \in Times : WF_nodeVars(LingerOver(t))
    /\ WF_nodeVars(Tick)
----------------------------------------------------------------------------
\* Every variable keeps its type; the reference count never becomes negative.
NodeTypeOK ==
    /\ entry \in {NoReader} \cup Readers /\ readersMade \in 0 .. MaxReaders
    /\ refs \in [Readers -> 0 .. Cardinality(Panels)]
    /\ idleSince \in [Readers -> 0 .. Never]
    /\ cancelled \subseteq Readers
    /\ pc \in [Readers -> PC]
    /\ holding \subseteq Panels
    /\ timers \in [Times -> 0 .. MaxTimers]
    /\ closed \in BOOLEAN /\ returned \in BOOLEAN
    /\ shown \in States
    /\ now \in 0 .. MaxTicks

\* The count of the reader in the map is the number of panels watching, however
\* acquires, releases and timers of earlier readers interleave.
CountsPanels == ~closed => Cardinality(holding) = IF entry = NoReader THEN 0 ELSE refs[entry]

\* A panel that is watching has a reader nobody has stopped.
WatchedIsRead == (holding # {} /\ ~closed) => (entry # NoReader /\ entry \notin cancelled)

\* A reader that has left the map stops reading from the node.
UnwatchedStops ==
    \A r \in Readers : (pc[r] # "none" /\ r # entry) ~> (pc[r] = "gone")

=============================================================================
