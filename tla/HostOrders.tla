----------------------------- MODULE HostOrders -----------------------------
(***************************************************************************)
(* The host actions: the confirmation an operator is given and spends      *)
(* (internal/jobs/confirm.go), the handlers that take it                   *)
(* (internal/httpapi/handlers/host.go), the one slot an order waits in     *)
(* (internal/host/hostaction) and the root helper that empties it          *)
(* (deploy/holzkube-manager-host.sh).                                      *)
(*                                                                         *)
(* The daemon and the helper share two files: the order, which both take   *)
(* by renaming it, and the record of the last order, which the helper      *)
(* writes.  Two requests may be in their handlers at once.  Time is a      *)
(* small counter; the limits keep their order and are named constants.     *)
(***************************************************************************)
EXTENDS Naturals, FiniteSets

CONSTANTS
    HostIntents,  \* what may be confirmed and asked: an action, and the session it comes from
    Installations,\* what may be installed on the host: sets of the parts below
    Requests,     \* requests that may be in a handler at once
    MaxTokens,    \* confirmations issued
    MaxHostTime,  \* the last tick of the clock
    MaxHostStops  \* restarts of the daemon

CheckUpdate == "check-update"
PickupTimeout == 1       \* ten seconds
ResultWithin == 1        \* a minute
HelperServiceLimit == 2  \* three minutes
ConfirmationTTL == 2     \* ten minutes
OrderMaxAge == 2         \* MAX_AGE of the helper

ASSUME HostAssumption ==
    /\ \A i \in HostIntents : DOMAIN i = {"action", "session"}
    /\ \A i \in Installations : i \subseteq {"helper", "check-order", "update-script", "update-unit"}
    /\ MaxTokens \in Nat /\ MaxHostTime \in Nat /\ MaxHostStops \in Nat

VARIABLES
    installed,\* the helper, its check unit, the update script and unit: what is there
    hclock,   \* the clock
    daemon,   \* "up", "closing" (Close has run, handlers may still), or "down"
    tokens,   \* confirmations issued: nonce, action, session, when it expires, key
    spent,    \* nonces this process has seen used
    reqs,     \* [Requests -> where the request is in its handler, and what it carries]
    slot,     \* the order file
    lastOrder,\* the Box's last order and its state
    timer,    \* the order a pickup timer is armed for, with when it is due
    helper,   \* the helper: idle, claimed, running; and the order it took
    record,   \* what the helper recorded last
    taken,    \* orders the helper has renamed
    carried,  \* [order -> how often the helper has carried it out]
    withdrawn,\* ids reported withdrawn to anybody
    hostStops

hostVars == <<installed, hclock, daemon, tokens, spent, reqs, slot, lastOrder, timer, helper,
              record, taken, carried, withdrawn, hostStops>>
boxVars == <<slot, lastOrder, timer, withdrawn>>
helperVars == <<helper, record, taken, carried, installed>>

NoHostOrder == [id |-> 0, action |-> "none", at |-> 0]
NoRecord == [id |-> 0, action |-> "none", outcome |-> "none", at |-> 0]
HelperIdle == [pc |-> "idle", o |-> NoHostOrder]
AtRest == [pc |-> "idle", nonce |-> 0, action |-> "none", session |-> "none"]
\* Every process signs with a key of its own.
KeyNow == hostStops

HostInit ==
    /\ installed \in Installations /\ taken = {}
    /\ hclock = 0 /\ daemon = "up" /\ hostStops = 0
    /\ tokens = {} /\ spent = {}
    /\ reqs = [r \in Requests |-> AtRest]
    /\ slot = NoHostOrder /\ lastOrder = [o |-> NoHostOrder, state |-> "none"]
    /\ timer = [id |-> 0, due |-> 0]
    /\ helper = HelperIdle
    /\ record = NoRecord /\ carried = [n \in 1..MaxTokens |-> 0] /\ withdrawn = {}

HostTick ==
    /\ hclock < MaxHostTime /\ hclock' = hclock + 1
    /\ UNCHANGED <<daemon, tokens, spent, reqs, boxVars, helperVars, hostStops>>
----------------------------------------------------------------------------
(***************************************************************************)
(* What the Box reads: whether a check holds the helper.                   *)
(***************************************************************************)
CheckRunning(r) ==
    /\ r.action = CheckUpdate /\ r.outcome = "started"
    /\ hclock - r.at < HelperServiceLimit

busyLocked ==
    \/ CheckRunning(record)
    \/ /\ lastOrder.o.action = CheckUpdate /\ lastOrder.state # "withdrawn"
       /\ record.id # lastOrder.o.id
       /\ hclock - lastOrder.o.at < ResultWithin
       /\ slot = NoHostOrder

\* Order(): pending while the file lies there, picked up once it is gone.
OrderState ==
    IF lastOrder.state \in {"none", "withdrawn"} THEN lastOrder.state
    ELSE IF slot # NoHostOrder THEN "pending" ELSE "picked-up"
----------------------------------------------------------------------------
(***************************************************************************)
(* What is installed, asked anew by every handler.                         *)
(***************************************************************************)
Detect == {"helper"} \ installed
Outdated == {"check-order"} \ installed
NeedsUpdateScript(a) == a \in {"update", CheckUpdate}
NeedsUpdateUnit(a) == a = "update"

\* The refusals both handlers begin with.
HostRefuses(a) ==
    \/ Detect # {}
    \/ NeedsUpdateScript(a) /\ "update-script" \notin installed
    \/ NeedsUpdateUnit(a) /\ "update-unit" \notin installed
    \/ a = CheckUpdate /\ Outdated # {}
    \/ busyLocked
----------------------------------------------------------------------------
(***************************************************************************)
(* Confirmations.                                                          *)
(***************************************************************************)
IssueOnce(n, a, s) ==
    [nonce |-> n, action |-> a, session |-> s,
     expires |-> hclock + ConfirmationTTL, key |-> KeyNow]

\* confirmHostAction: refused while a check is running.
confirmHostAction(a, s) ==
    /\ daemon = "up" /\ ~HostRefuses(a)
    /\ Cardinality(tokens) < MaxTokens
    /\ tokens' = tokens \cup {IssueOnce(Cardinality(tokens) + 1, a, s)}
    /\ UNCHANGED <<hclock, daemon, spent, reqs, boxVars, helperVars, hostStops>>

\* hostAction up to the token: any session may present any token, also one that
\* was presented before, and for another action.
hostActionBegins(r, n, a, s) ==
    /\ daemon = "up" /\ reqs[r].pc = "idle" /\ ~HostRefuses(a)
    /\ reqs' = [reqs EXCEPT ![r] = [pc |-> "check", nonce |-> n, action |-> a, session |-> s]]
    /\ UNCHANGED <<hclock, daemon, tokens, spent, boxVars, helperVars, hostStops>>

\* The signature covers the session, the action and the expiry.
Signed(q) ==
    {t \in tokens : /\ t.nonce = q.nonce /\ t.action = q.action
                    /\ t.session = q.session /\ t.key = KeyNow}

Expired(n) == \E t \in tokens : t.nonce = n /\ hclock > t.expires

CheckOnce(r) ==
    /\ reqs[r].pc = "check"
    /\ LET q == reqs[r]
           reached == Signed(q) # {} /\ ~Expired(q.nonce)
           kept == {n \in spent : ~Expired(n)}
           ok == reached /\ q.nonce \notin kept
       IN  /\ reqs' = [reqs EXCEPT ![r] = IF ok THEN [q EXCEPT !.pc = "place"] ELSE AtRest]
           /\ spent' = IF ~reached THEN spent
                       ELSE IF ok THEN kept \cup {q.nonce} ELSE kept
    /\ UNCHANGED <<hclock, daemon, tokens, boxVars, helperVars, hostStops>>
----------------------------------------------------------------------------
(***************************************************************************)
(* The Box.  Its lock is held from the question whether the helper is busy *)
(* to the armed timer; the helper may act in between.                      *)
(***************************************************************************)
BoxFree == \A r \in Requests : reqs[r].pc # "link"

PlaceAsks(r) ==
    /\ reqs[r].pc = "place" /\ BoxFree
    /\ reqs' = [reqs EXCEPT ![r] = IF busyLocked THEN AtRest ELSE [@ EXCEPT !.pc = "link"]]
    /\ UNCHANGED <<hclock, daemon, tokens, spent, boxVars, helperVars, hostStops>>

\* An order is known by the confirmation that was spent on it.
PlaceLinks(r) ==
    /\ reqs[r].pc = "link"
    /\ reqs' = [reqs EXCEPT ![r] = AtRest]
    /\ IF slot # NoHostOrder THEN UNCHANGED boxVars
       ELSE LET o == [id |-> reqs[r].nonce, action |-> reqs[r].action, at |-> hclock]
            IN  /\ slot' = o /\ lastOrder' = [o |-> o, state |-> "pending"]
                /\ timer' = IF daemon = "closing" THEN timer
                            ELSE [id |-> o.id, due |-> hclock + PickupTimeout]
                /\ UNCHANGED withdrawn
    /\ UNCHANGED <<hclock, daemon, tokens, spent, helperVars, hostStops>>

\* Not by renaming it: what was read before is believed.
WithdrawUnasked ==
    /\ slot' = NoHostOrder
    /\ lastOrder' = [lastOrder EXCEPT !.state = "withdrawn"]
    /\ withdrawn' = withdrawn \cup {lastOrder.o.id}
\* Taking the order back by renaming it: it is there, or the helper has it.
Withdraw ==
    IF slot = NoHostOrder THEN UNCHANGED <<slot, lastOrder, withdrawn>>
    ELSE /\ slot' = NoHostOrder
         /\ lastOrder' = [lastOrder EXCEPT !.state = "withdrawn"]
         /\ withdrawn' = withdrawn \cup {lastOrder.o.id}

\* The pickup timer; one that was replaced or stopped does nothing.
withdrawTimed ==
    /\ daemon = "up" /\ BoxFree
    /\ timer.id # 0 /\ hclock >= timer.due
    /\ timer' = [id |-> 0, due |-> 0]
    /\ IF lastOrder.o.id = timer.id /\ lastOrder.state # "withdrawn" THEN Withdraw
       ELSE UNCHANGED <<slot, lastOrder, withdrawn>>
    /\ UNCHANGED <<hclock, daemon, tokens, spent, reqs, helperVars, hostStops>>

\* Close, deferred in main: the server has stopped taking requests, and one
\* that outlived the grace may still be in its handler.
Close ==
    /\ daemon = "up" /\ BoxFree /\ hostStops < MaxHostStops
    /\ daemon' = "closing"
    /\ timer' = [id |-> 0, due |-> 0]
    /\ IF lastOrder.state \notin {"none", "withdrawn"} THEN Withdraw
       ELSE UNCHANGED <<slot, lastOrder, withdrawn>>
    /\ UNCHANGED <<hclock, tokens, spent, reqs, helperVars, hostStops>>

\* The process is gone, after Close or without it.
DaemonDies ==
    /\ daemon \in {"up", "closing"} /\ hostStops < MaxHostStops
    /\ daemon' = "down" /\ hostStops' = hostStops + 1
    /\ reqs' = [r \in Requests |-> AtRest] /\ spent' = {}
    /\ timer' = [id |-> 0, due |-> 0]
    /\ lastOrder' = [o |-> NoHostOrder, state |-> "none"]
    /\ UNCHANGED <<hclock, tokens, slot, withdrawn, helperVars>>

NewBox ==
    /\ daemon = "down" /\ daemon' = "up"
    /\ slot' = NoHostOrder
    /\ withdrawn' = IF slot = NoHostOrder THEN withdrawn ELSE withdrawn \cup {slot.id}
    /\ UNCHANGED <<hclock, tokens, spent, reqs, lastOrder, timer, helperVars, hostStops>>
----------------------------------------------------------------------------
(***************************************************************************)
(* The helper: it takes the order, refuses one that is too old, records    *)
(* that it starts, acts, and for a check waits for the end.                *)
(***************************************************************************)
HelperClaims ==
    /\ "helper" \in installed /\ helper.pc = "idle" /\ slot # NoHostOrder
    /\ helper' = [pc |-> "claimed", o |-> slot] /\ slot' = NoHostOrder
    /\ taken' = taken \cup {slot.id}
    /\ UNCHANGED <<installed, hclock, daemon, tokens, spent, reqs, lastOrder, timer,
                   withdrawn, record, carried, hostStops>>

HelperReads ==
    /\ helper.pc = "claimed"
    /\ LET o == helper.o
           stale == hclock - o.at > OrderMaxAge
       IN  /\ record' = [id |-> o.id, action |-> o.action, at |-> hclock,
                         outcome |-> IF stale THEN "rejected" ELSE "started"]
           /\ helper' = IF stale THEN HelperIdle
                        ELSE [helper EXCEPT !.pc = "acts"]
    /\ UNCHANGED <<hclock, daemon, tokens, spent, reqs, boxVars, taken, carried, installed, hostStops>>

\* The command runs; only a check is waited for.  A failure is recorded.
HelperActs ==
    /\ helper.pc = "acts"
    /\ carried' = [carried EXCEPT ![helper.o.id] = @ + 1]
    /\ \/ helper.o.action = CheckUpdate /\ helper' = [helper EXCEPT !.pc = "waits"] /\ UNCHANGED record
       \/ helper.o.action # CheckUpdate /\ helper' = HelperIdle /\ UNCHANGED record
       \/ helper' = HelperIdle /\ record' = [record EXCEPT !.outcome = "failed", !.at = hclock]
    /\ UNCHANGED <<hclock, daemon, tokens, spent, reqs, boxVars, taken, installed, hostStops>>

\* The check ends, or the service manager ends the helper at its limit and
\* leaves "started" standing.
HelperEnds ==
    /\ helper.pc = "waits"
    /\ helper' = HelperIdle
    /\ \/ record' = [record EXCEPT !.outcome = "done", !.at = hclock]
       \/ hclock - record.at >= HelperServiceLimit /\ UNCHANGED record
    /\ UNCHANGED <<hclock, daemon, tokens, spent, reqs, boxVars, taken, carried, installed, hostStops>>
----------------------------------------------------------------------------
HostNext ==
    \/ HostTick \/ withdrawTimed \/ Close \/ DaemonDies \/ NewBox
    \/ HelperClaims \/ HelperReads \/ HelperActs \/ HelperEnds
    \/ \E i \in HostIntents : confirmHostAction(i.action, i.session)
    \/ \E r \in Requests, i \in HostIntents, n \in 1..Cardinality(tokens) :
          hostActionBegins(r, n, i.action, i.session)
    \/ \E r \in Requests : CheckOnce(r) \/ PlaceAsks(r) \/ PlaceLinks(r)

HostSpec == HostInit /\ [][HostNext]_hostVars
----------------------------------------------------------------------------
(***************************************************************************)
(* Properties.                                                             *)
(***************************************************************************)
\* Whoever renames the order owns it: an order the daemon has called withdrawn,
\* by the timer, at shutdown or at the next start, is never the helper's, one it
\* calls picked up is, and no order is carried out twice.
OneOwner ==
    /\ withdrawn \cap taken = {}
    /\ OrderState = "picked-up" => lastOrder.o.id \in taken
    /\ \A n \in 1..MaxTokens : carried[n] <= 1 /\ (carried[n] = 1 => n \in taken)

\* A confirmation is good for one order of the action and the session it was
\* given to, and for none after its process ended: two orders never share one.
OneOrderPerConfirmation ==
    [][slot' # NoHostOrder /\ slot' # slot =>
         /\ slot'.id \notin withdrawn \cup taken
         /\ \E t \in tokens : t.nonce = slot'.id /\ t.action = slot'.action
                              /\ \E r \in Requests : reqs[r].nonce = t.nonce
                                                     /\ reqs[r].session = t.session]_hostVars

============================================================================
