------------------------------ MODULE HttpChain ------------------------------
(***************************************************************************)
(* The chain of gates every request of the API passes on its way to its     *)
(* handler, and the way the answer takes back: the audit record before and  *)
(* after, the role, the cluster's lock, the password window of a            *)
(* destructive action and the session that is saved with the first byte of  *)
(* the response. Each gate is a step of its own: accounts, locks, the clock *)
(* and the archive change between them.                                     *)
(*                                                                         *)
(* An operator works in a row: one request of a session at a time. Several  *)
(* sessions run at once.                                                    *)
(***************************************************************************)
EXTENDS Integers, Sequences, FiniteSets

CONSTANTS
  Sessions,         \* operators, each with a session of its own
  Peers,            \* addresses an anonymous request may come from
  SudoWindow,       \* how long a password lasts, in ticks
  AnonBurst,        \* tokens of the bucket in front of anonymous routes
  MaxAnonPeers,     \* buckets kept
  MaxHttpTicks,     \* bound: ticks of a run
  MaxRequests,      \* bound: requests of a run
  MaxChanges        \* bound: changes of a role, the lock or the archive

VARIABLES
  hclock,
  rq,               \* rq[s]: the request of session s
  role,             \* role[s]: the role of its account, 0 viewer to 2 admin
  lockOn,           \* the cluster is locked
  archive,          \* the audit log can make a record durable
  stamp,            \* stamp[s]: when the stored session last saw the password, or -1
  lastSeen,         \* lastSeen[s]: when s last got a destructive action answered, or -1
  buckets,          \* the peers that have a bucket, and what is in it
  requests,         \* requests begun
  changes           \* changes of a role, the lock or the archive so far

httpVars == <<hclock, rq, role, lockOn, archive, stamp, lastSeen, buckets, requests, changes>>

(* The routes the gates tell apart.                                         *)
Route == [mutating : BOOLEAN, session : BOOLEAN, minRole : 0..2, scoped : BOOLEAN,
          destructive : BOOLEAN, auditRead : BOOLEAN, wall : BOOLEAN]

Plain == [mutating |-> FALSE, session |-> TRUE, minRole |-> 0, scoped |-> FALSE,
          destructive |-> FALSE, auditRead |-> FALSE, wall |-> FALSE]
Routes == {
  [Plain EXCEPT !.wall = TRUE],                                        \* the wall
  [Plain EXCEPT !.auditRead = TRUE, !.minRole = 2],                    \* a secret read
  [Plain EXCEPT !.mutating = TRUE, !.minRole = 1, !.scoped = TRUE],    \* a label
  [Plain EXCEPT !.mutating = TRUE, !.minRole = 1, !.scoped = TRUE,
                !.destructive = TRUE],                                 \* a reset
  [Plain EXCEPT !.mutating = TRUE, !.session = FALSE]}                 \* a sign-in

ASSUME RoutesAssumption == Routes \subseteq Route
ASSUME WindowAssumption == SudoWindow \in Nat

Audited(rt) == rt.mutating \/ rt.auditRead

NoRequest == [pc |-> "none", rt |-> Plain, by |-> "cookie", gate |-> 0,
              stamp |-> -1,
              attempted |-> FALSE, refusal |-> "none", status |-> "none",
              touched |-> -1]

-----------------------------------------------------------------------------
(* The per-route half of the chain, outermost first.                        *)

GateOrder == <<"csrf", "authn", "anon", "audit", "authz", "lock", "sudo">>
wrapRoute == GateOrder

(* A mutating request must carry the header, unless a token made it.        *)
csrfPasses(r, proof) == ~r.rt.mutating \/ r.by = "token" \/ proof

(* The wall's link counts only on a route that takes one.                   *)
wallLinkOpens(r) == r.by = "wall" /\ r.rt.wall

authnPasses(r) == ~r.rt.session \/ r.by \in {"cookie", "token"} \/ wallLinkOpens(r)

authzPasses(s, r) ==
  \/ ~r.rt.session
  \/ wallLinkOpens(r)
  \/ r.by \in {"cookie", "token"} /\ role[s] >= r.rt.minRole

lockPasses(r) == ~r.rt.scoped \/ ~lockOn

IsSudoOpen(r) == r.stamp >= 0 /\ hclock < r.stamp + SudoWindow
sudoPasses(r) == ~r.rt.destructive \/ r.by = "token" \/ IsSudoOpen(r)

(* The bucket of a peer: refilled by the time since it was last asked.      *)
anonLimited(r) == ~r.rt.session /\ r.rt.mutating
Least(a, b) == IF a <= b THEN a ELSE b
BucketsFor(c) ==
  IF c \in DOMAIN buckets THEN buckets
  ELSE LET idle == {p \in DOMAIN buckets : hclock - buckets[p].at > AnonBurst}
           kept == IF Cardinality(DOMAIN buckets) < MaxAnonPeers THEN DOMAIN buckets
                   ELSE IF Cardinality(DOMAIN buckets \ idle) < MaxAnonPeers
                        THEN DOMAIN buckets \ idle ELSE {}
       IN [p \in kept \cup {c} |-> IF p = c THEN [tokens |-> AnonBurst, at |-> hclock]
                                   ELSE buckets[p]]
Refilled(b) == [tokens |-> Least(AnonBurst, b.tokens + hclock - b.at), at |-> hclock]
take(c) ==
  LET b == Refilled(BucketsFor(c)[c]) IN
  [ok |-> b.tokens >= 1,
   map |-> [BucketsFor(c) EXCEPT ![c] = [b EXCEPT !.tokens = IF @ >= 1 THEN @ - 1 ELSE @]]]

-----------------------------------------------------------------------------

HttpInit ==
  /\ hclock = 0
  /\ rq = [s \in Sessions |-> NoRequest]
  /\ role = [s \in Sessions |-> 1]
  /\ lockOn = FALSE
  /\ archive = TRUE
  /\ stamp = [s \in Sessions |-> -1]
  /\ lastSeen = [s \in Sessions |-> -1]
  /\ buckets = [p \in {} |-> [tokens |-> 0, at |-> 0]]
  /\ requests = 0
  /\ changes = 0

(* The outer half: the host is one this instance serves, the session is     *)
(* loaded, a bearer token is resolved.                                      *)
RequestBegins(s) ==
  /\ rq[s].pc = "none" /\ requests < MaxRequests
  /\ \E rt \in Routes, by \in {"cookie", "token", "wall", "nobody"} :
       rq' = [rq EXCEPT ![s] = [NoRequest EXCEPT !.pc = "gates", !.rt = rt, !.by = by,
                                !.gate = 1, !.stamp = stamp[s]]]
  /\ requests' = requests + 1
  /\ UNCHANGED <<hclock, role, lockOn, archive, stamp, lastSeen, buckets, changes>>

Passed(r) == [r EXCEPT !.gate = @ + 1,
                       !.pc = IF r.gate = Len(wrapRoute) THEN "handler" ELSE "gates"]
RefusedBy(r, why) == [r EXCEPT !.pc = "written", !.refusal = why, !.status = "refused"]

(* The attempt is durable before anything behind the audit gate runs.       *)
Attempt(r) == IF archive THEN [Passed(r) EXCEPT !.attempted = TRUE] ELSE RefusedBy(r, "audit")

(* One gate. The audit gate makes the attempt durable or ends the request.  *)
Gate(s) ==
  LET r == rq[s]
      g == wrapRoute[r.gate]
  IN
  /\ r.pc = "gates"
  /\ \/ /\ g = "csrf"
        /\ \E proof \in BOOLEAN :
             rq' = [rq EXCEPT ![s] = IF csrfPasses(r, proof) THEN Passed(r)
                                     ELSE RefusedBy(r, "csrf")]
        /\ UNCHANGED buckets
     \/ /\ g = "authn"
        /\ rq' = [rq EXCEPT ![s] = IF authnPasses(r) THEN Passed(r) ELSE RefusedBy(r, "authn")]
        /\ UNCHANGED buckets
     \/ /\ g = "anon"
        /\ IF anonLimited(r)
           THEN \E c \in Peers :
                  /\ buckets' = take(c).map
                  /\ rq' = [rq EXCEPT ![s] = IF take(c).ok THEN Passed(r)
                                             ELSE RefusedBy(r, "anon")]
           ELSE rq' = [rq EXCEPT ![s] = Passed(r)] /\ UNCHANGED buckets
     \/ /\ g = "audit"
        /\ rq' = [rq EXCEPT ![s] = IF Audited(r.rt) THEN Attempt(r) ELSE Passed(r)]
        /\ UNCHANGED buckets
     \/ /\ g = "authz"
        /\ rq' = [rq EXCEPT ![s] = IF authzPasses(s, r) THEN Passed(r) ELSE RefusedBy(r, "authz")]
        /\ UNCHANGED buckets
     \/ /\ g = "lock"
        /\ rq' = [rq EXCEPT ![s] = IF lockPasses(r) THEN Passed(r) ELSE RefusedBy(r, "lock")]
        /\ UNCHANGED buckets
     \/ /\ g = "sudo"
        /\ rq' = [rq EXCEPT ![s] = IF sudoPasses(r) THEN Passed(r) ELSE RefusedBy(r, "sudo")]
        /\ UNCHANGED buckets
  /\ UNCHANGED <<hclock, role, lockOn, archive, stamp, lastSeen, requests, changes>>

(* The handler answers, or panics and is answered for. On a destructive     *)
(* route the answer is held back and nothing is written yet.                *)
HandlerReturns(s) ==
  /\ rq[s].pc = "handler"
  /\ \E status \in {"done", "failed", "panicked"} :
       rq' = [rq EXCEPT ![s].status = status,
                        ![s].pc = IF status = "panicked" THEN "written"
                                  ELSE IF rq[s].rt.destructive THEN "held" ELSE "written"]
  /\ UNCHANGED <<hclock, role, lockOn, archive, stamp, lastSeen, buckets, requests, changes>>

Touches(r) == r.status = "done" /\ r.by # "token"

(* The window is refreshed while the response is still held, so that the    *)
(* session saved with its first byte carries the refresh.                   *)
HeldIsFlushed(s) ==
  LET r == rq[s] IN
  /\ r.pc = "held"
  /\ rq' = [rq EXCEPT ![s].pc = "written", ![s].touched = IF Touches(r) THEN hclock ELSE -1]
  /\ stamp' = [stamp EXCEPT ![s] = IF Touches(r) THEN hclock ELSE @]
  /\ UNCHANGED <<hclock, role, lockOn, archive, lastSeen, buckets, requests, changes>>

(* The same with the answer written first: the session is saved before the  *)
(* refresh, which is computed and lost.                                     *)
FlushedBeforeTheTouch(s) ==
  LET r == rq[s] IN
  /\ r.pc = "held"
  /\ rq' = [rq EXCEPT ![s].pc = "written", ![s].touched = IF Touches(r) THEN hclock ELSE -1]
  /\ UNCHANGED <<hclock, role, lockOn, archive, stamp, lastSeen, buckets, requests, changes>>

SudoAnswers(s) == HeldIsFlushed(s)

(* The answer is out. Its outcome is recorded if it can be -- a panic goes  *)
(* past that line -- and the client sees it.                                *)
AnswerSeen(s) ==
  /\ rq[s].pc = "written"
  /\ rq' = [rq EXCEPT ![s] = NoRequest]
  /\ lastSeen' = [lastSeen EXCEPT ![s] = IF rq[s].touched >= 0 THEN rq[s].touched ELSE @]
  /\ UNCHANGED <<hclock, role, lockOn, archive, stamp, buckets, requests, changes>>

-----------------------------------------------------------------------------
(* What else goes on.                                                       *)

HttpClockTicks ==
  /\ hclock < MaxHttpTicks
  /\ hclock' = hclock + 1
  /\ UNCHANGED <<rq, role, lockOn, archive, stamp, lastSeen, buckets, requests, changes>>

(* The operator gives the password again.                                   *)
PasswordGiven(s) ==
  /\ rq[s].pc = "none" /\ stamp[s] # hclock
  /\ stamp' = [stamp EXCEPT ![s] = hclock]
  /\ UNCHANGED <<hclock, rq, role, lockOn, archive, lastSeen, buckets, requests, changes>>

Changes == changes < MaxChanges /\ changes' = changes + 1

RoleChanges(s) ==
  /\ Changes
  /\ \E r \in 0..2 \ {role[s]} : role' = [role EXCEPT ![s] = r]
  /\ UNCHANGED <<hclock, rq, lockOn, archive, stamp, lastSeen, buckets, requests>>

LockChanges ==
  /\ Changes
  /\ lockOn' = ~lockOn
  /\ UNCHANGED <<hclock, rq, role, archive, stamp, lastSeen, buckets, requests>>

ArchiveChanges ==
  /\ Changes
  /\ archive' = ~archive
  /\ UNCHANGED <<hclock, rq, role, lockOn, stamp, lastSeen, buckets, requests>>

HttpNext ==
  \/ \E s \in Sessions : \/ RequestBegins(s) \/ Gate(s) \/ HandlerReturns(s)
                         \/ SudoAnswers(s) \/ AnswerSeen(s) \/ PasswordGiven(s)
                         \/ RoleChanges(s)
  \/ HttpClockTicks \/ LockChanges \/ ArchiveChanges

HttpSpec == HttpInit /\ [][HttpNext]_httpVars

-----------------------------------------------------------------------------

(* Destructive actions in a row ask for the password once: whoever has seen *)
(* one succeed within the window is not refused the next for want of it.    *)
SeriesIsAskedOnce ==
  [][\A s \in Sessions :
       rq[s].pc = "gates" /\ rq'[s].refusal = "sudo" /\ lastSeen[s] >= 0
         => hclock >= lastSeen[s] + SudoWindow]_httpVars

=============================================================================
