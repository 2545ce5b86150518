----------------------------- MODULE TalosClient ----------------------------
(***************************************************************************)
(* How this process talks to a node: the connection and its probe, the     *)
(* deadline class of every method, dry run, retries, the kinds of failure, *)
(* the circuit breaker of a fan-out, and the receive of a stream racing    *)
(* its own timer (internal/talos).                                         *)
(*                                                                         *)
(* A call is an action at a time: admitted, sent, answered or not.  The    *)
(* node may carry out what it was sent and the answer be lost.  Certificate *)
(* and version are reduced to whether they are the ones expected.          *)
(***************************************************************************)
EXTENDS Naturals, FiniteSets

CONSTANTS
    Peers,        \* nodes called
    TalosCallers,      \* calls that may be under way at once
    TalosMethods, \* the methods called, of those named below
    MaxTalosTime, \* the last tick of the clock
    MaxTalosCalls,\* calls made
    MaxPeerFaults \* changes of a node's condition

RetryAttempts == 3
BreakerFailureThreshold == 3
BreakerCooldown == 2
FanOutConcurrency == 2

ASSUME TalosAssumption == MaxTalosTime \in Nat /\ MaxTalosCalls \in Nat /\ MaxPeerFaults \in Nat

(***************************************************************************)
(* The methods.  What a wrapper of the client sends, the class the table   *)
(* gives it, whether a retry is allowed, and whether it changes a node.    *)
(***************************************************************************)
ReadMethods == {"ServiceList", "Version"}
SecretReads == {"Kubeconfig"}
MutatingCalls == {"Reboot"}
StreamMethods == {"Logs", "EtcdSnapshot"}
UpgradeMethods == {"LifecycleUpgrade"}
UploadMethods == {"EtcdRecover"}
UnaryMethods == ReadMethods \cup SecretReads \cup MutatingCalls

ClassOf(m) ==
    CASE m \in MutatingCalls -> "mutation"
      [] m \in UploadMethods -> "upload"
      [] m \in StreamMethods \cup UpgradeMethods -> "stream"
      [] OTHER -> "fast-read"
Changes(m) == m \in MutatingCalls \cup UploadMethods \cup UpgradeMethods
RetryableAll(m) == m \in UnaryMethods
Retryable(m) == m \in ReadMethods

VARIABLES
    tclock,
    dryRun,    \* the mode the process was started in
    peer,      \* [Peers -> "up", "down", "deaf" (takes the call, never answers), "wrong"]
    peerFaults,
    callOf,     \* [TalosCallers -> the call: its node, method, where it is, attempts,
               \*  and how often the node has changed for it]
    changed,   \* some node was changed
    breaker,   \* [Peers -> failures in a row and when it opened]
    stream,    \* one stream: see below
    talosCalls

talosVars == <<tclock, dryRun, peer, peerFaults, callOf, changed, breaker, stream, talosCalls>>

NoTalosCall == [pc |-> "none", to |-> "none", method |-> "none", attempt |-> 0, kind |-> "none", did |-> 0]
ClosedBreaker == [failures |-> 0, openedAt |-> 0]
NoStream == [pc |-> "none", arrived |-> FALSE, settled |-> FALSE, starved |-> FALSE,
             cancelled |-> FALSE, got |-> FALSE, answer |-> "none", lost |-> FALSE]

TalosInit ==
    /\ tclock = 0 /\ dryRun \in BOOLEAN
    /\ peer = [p \in Peers |-> "up"]
    /\ callOf = [c \in TalosCallers |-> NoTalosCall]
    /\ changed = FALSE /\ peerFaults = 0
    /\ breaker = [p \in Peers |-> ClosedBreaker]
    /\ stream = NoStream /\ talosCalls = 0

TalosTick ==
    /\ tclock < MaxTalosTime /\ tclock' = tclock + 1
    /\ UNCHANGED <<dryRun, peer, peerFaults, callOf, changed, breaker, stream, talosCalls>>

PeerChanges(p) ==
    /\ peerFaults < MaxPeerFaults /\ peerFaults' = peerFaults + 1
    /\ \E s \in {"up", "down", "deaf", "wrong"} : s # peer[p] /\ peer' = [peer EXCEPT ![p] = s]
    /\ UNCHANGED <<tclock, dryRun, callOf, changed, breaker, stream, talosCalls>>
----------------------------------------------------------------------------
(***************************************************************************)
(* The breaker.                                                            *)
(***************************************************************************)
Open(p) == breaker[p].failures >= BreakerFailureThreshold

\* Past the cooldown one call is let through, and the wait begins again.
Allow(p) == Open(p) => tclock - breaker[p].openedAt >= BreakerCooldown

AfterAllow(p) ==
    IF Open(p) THEN [breaker[p] EXCEPT !.openedAt = tclock] ELSE breaker[p]

\* Observe: an answer closes it, a rejection says nothing, silence counts.
Observe(p, kind) ==
    CASE kind = "ok" -> ClosedBreaker
      [] kind \in {"unreachable", "timeout"} ->
            LET f == breaker[p].failures + 1
            IN  [failures |-> IF f > BreakerFailureThreshold THEN BreakerFailureThreshold ELSE f,
                 openedAt |-> IF f = BreakerFailureThreshold THEN tclock ELSE breaker[p].openedAt]
      [] OTHER -> breaker[p]
----------------------------------------------------------------------------
(***************************************************************************)
(* A call: FanOut admits it, a client is dialled and proven, and the       *)
(* method goes through the policy of its class.                            *)
(***************************************************************************)
Calling == {c \in TalosCallers : callOf[c].pc # "none"}
CallEnds(c, kind) ==
    /\ breaker' = [breaker EXCEPT ![callOf[c].to] = Observe(callOf[c].to, kind)]
    /\ callOf' = [callOf EXCEPT ![c] = NoTalosCall]
CallAt(c, pc) == callOf' = [callOf EXCEPT ![c].pc = pc]

FanOut(c, p, m) ==
    /\ callOf[c].pc = "none" /\ talosCalls < MaxTalosCalls
    /\ Cardinality(Calling) < FanOutConcurrency
    /\ Allow(p)
    /\ breaker' = [breaker EXCEPT ![p] = AfterAllow(p)]
    /\ talosCalls' = talosCalls + 1
    /\ callOf' = [callOf EXCEPT ![c] =
          [pc |-> "dial", to |-> p, method |-> m, attempt |-> 0, kind |-> "none", did |-> 0]]
    /\ UNCHANGED <<tclock, dryRun, peer, peerFaults, changed, stream>>

\* proveAnswering: the version answers within the probe's deadline, from the
\* certificate that was pinned, and is one this build supports.
proveAnswering(c) ==
    /\ callOf[c].pc = "dial"
    /\ LET s == peer[callOf[c].to]
       IN  \/ s = "up" /\ CallAt(c, "policy") /\ UNCHANGED breaker
           \/ s = "down" /\ CallEnds(c, "unreachable")
           \/ s = "deaf" /\ CallEnds(c, "timeout")
           \/ s = "wrong" /\ CallEnds(c, "refused")
    /\ UNCHANGED <<tclock, dryRun, peer, peerFaults, changed, stream, talosCalls>>

\* The innermost frame: a mutation is refused in a dry run.
refuseIfMutating(m) == dryRun /\ ClassOf(m) = "mutation"

\* The request leaves, and the node carries it out once it has it.
invoke(c) ==
    /\ callOf[c].pc = "policy"
    /\ LET q == callOf[c]
           s == peer[q.to]
           sent(kind, does) ==
               /\ callOf' = [callOf EXCEPT ![c].pc = "answered", ![c].kind = kind, ![c].attempt = @ + 1,
                              ![c].did = IF does /\ Changes(q.method) THEN @ + 1 ELSE @]
               /\ changed' = (changed \/ (does /\ Changes(q.method)))
       IN  IF refuseIfMutating(q.method)
           THEN CallEnds(c, "refused") /\ UNCHANGED changed
           ELSE /\ UNCHANGED breaker
                /\ \/ s = "up" /\ (sent("ok", TRUE) \/ sent("rejected", FALSE) \/ sent("unreachable", TRUE))
                   \/ s \in {"down", "wrong"} /\ sent("unreachable", FALSE)
                   \/ s = "deaf" /\ sent("timeout", TRUE)
    /\ UNCHANGED <<tclock, dryRun, peer, peerFaults, stream, talosCalls>>

\* do: only a read that nobody answered is asked again, while the budget and
\* the attempts last.  A stream is not retried.
doAgain(c) ==
    /\ callOf[c].pc = "answered"
    /\ LET q == callOf[c]
           again == /\ q.kind = "unreachable" /\ Retryable(q.method)
                    /\ q.attempt < RetryAttempts
       IN  \/ again /\ CallAt(c, "policy") /\ UNCHANGED breaker
           \/ CallEnds(c, q.kind)
    /\ UNCHANGED <<tclock, dryRun, peer, peerFaults, changed, stream, talosCalls>>
----------------------------------------------------------------------------
(***************************************************************************)
(* One stream: RecvMsg, the message, and the timer.                        *)
(***************************************************************************)
streamPolicy ==
    /\ stream.pc = "none" /\ stream' = [NoStream EXCEPT !.pc = "idle"]
    /\ UNCHANGED <<tclock, dryRun, peer, peerFaults, callOf, changed, breaker, talosCalls>>

\* The caller waits; the timer runs only while it does.
RecvMsg ==
    /\ stream.pc = "idle" /\ stream.answer \in {"none", "message"}
    /\ stream' = [stream EXCEPT !.pc = "waits", !.arrived = FALSE, !.settled = FALSE]
    /\ UNCHANGED <<tclock, dryRun, peer, peerFaults, callOf, changed, breaker, talosCalls>>

\* A message reaches the process while the stream is alive.
MessageArrives ==
    /\ stream.pc = "waits" /\ ~stream.cancelled /\ ~stream.arrived
    /\ stream' = [stream EXCEPT !.arrived = TRUE]
    /\ UNCHANGED <<tclock, dryRun, peer, peerFaults, callOf, changed, breaker, talosCalls>>

\* The window is over: the timer takes the receive's place, if it is first.
TimerFires ==
    /\ stream.pc = "waits" /\ ~stream.settled
    /\ stream' = [stream EXCEPT !.settled = TRUE, !.starved = TRUE, !.cancelled = TRUE,
                                !.lost = stream.arrived]
    /\ UNCHANGED <<tclock, dryRun, peer, peerFaults, callOf, changed, breaker, talosCalls>>

\* The node or the network ends it: an error, not a message.
StreamBreaks ==
    /\ stream.pc = "waits" /\ ~stream.cancelled /\ ~stream.arrived
    /\ stream' = [stream EXCEPT !.cancelled = TRUE]
    /\ UNCHANGED <<tclock, dryRun, peer, peerFaults, callOf, changed, breaker, talosCalls>>

RecvReturns ==
    /\ stream.pc = "waits" /\ (stream.arrived \/ stream.cancelled)
    /\ stream' = IF stream.arrived
                 THEN [stream EXCEPT !.pc = "idle", !.settled = TRUE, !.got = TRUE,
                                     !.starved = FALSE, !.answer = "message"]
                 ELSE [stream EXCEPT !.pc = "idle", !.settled = TRUE, !.cancelled = TRUE,
                         !.answer = IF stream.starved THEN "timeout" ELSE "unreachable"]
    /\ UNCHANGED <<tclock, dryRun, peer, peerFaults, callOf, changed, breaker, talosCalls>>
----------------------------------------------------------------------------
CallNext ==
    \/ TalosTick
    \/ \E p \in Peers : PeerChanges(p)
    \/ \E c \in TalosCallers, p \in Peers, m \in TalosMethods : FanOut(c, p, m)
    \/ \E c \in TalosCallers : proveAnswering(c) \/ invoke(c) \/ doAgain(c)

StreamNext ==
    \/ streamPolicy \/ RecvMsg \/ MessageArrives \/ TimerFires \/ StreamBreaks \/ RecvReturns

\* A stream and the calls share nothing but the connection.
TalosNext == CallNext \/ StreamNext
TalosSpec == TalosInit /\ [][TalosNext]_talosVars
----------------------------------------------------------------------------
(***************************************************************************)
(* Properties.                                                             *)
(***************************************************************************)
\* However often answers are lost and reads are retried, one call changes a
\* node at most once.
ChangedAtMostOnce == \A c \in TalosCallers : callOf[c].did <= 1

\* A process started with --dry-run changes nothing on a node.
DryRunChangesNothing == dryRun => ~changed

============================================================================
