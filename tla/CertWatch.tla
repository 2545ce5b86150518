------------------------------ MODULE CertWatch ------------------------------
(***************************************************************************)
(* The certificates inside a cluster: a pass reads them from every          *)
(* control-plane node in turn and is stored as a whole at its end; what the *)
(* overview and the wall say is computed from the last stored pass whenever *)
(* somebody looks. Time is counted in days, with the thresholds of the      *)
(* code, and passes by the jumps of the instance.                           *)
(***************************************************************************)
EXTENDS Integers, FiniteSets

CONSTANTS
  ControlPlanes,   \* machines that may be control planes of the cluster
  Jumps,           \* by how many days time may jump
  AuthorityLife,   \* days a new authority lasts
  IssuedLife,      \* days a new issued certificate lasts
  MaxDay,          \* bound: the last day of a run
  MaxCertEvents    \* bound: renewals, rotations, outages, joins and restarts

ASSUME CertWatchAssumption ==
  /\ Jumps \subseteq Nat \ {0} /\ AuthorityLife \in Nat /\ IssuedLife \in Nat
  /\ MaxDay \in Nat /\ MaxCertEvents \in Nat

VARIABLES
  today,      \* the day
  certs,      \* certs[n]: the day the authority and the issued certificate of n end
  upNodes,    \* the nodes that answer
  cpList,     \* the machines the inventory holds as control planes
  lastPass,    \* the last stored pass
  cpass,      \* the pass under way
  seen,       \* seen[n]: what the last pass that got an answer from n was told, while listed
  certEvents  \* events so far

certVars == <<today, certs, upNodes, cpList, lastPass, cpass, seen, certEvents>>

Kinds == {"authority", "issued"}
NoReading == [there |-> FALSE, nodes |-> {}, at |-> 0, items |-> {}]
NoPass == [on |-> FALSE, todo |-> {}, got |-> {}, nodes |-> {}, at |-> 0,
           previous |-> {}, items |-> {}]

CertInit ==
  /\ today = 0
  /\ certs = [n \in ControlPlanes |-> [authority |-> AuthorityLife, issued |-> IssuedLife]]
  /\ upNodes = ControlPlanes /\ cpList = ControlPlanes
  /\ lastPass = NoReading /\ cpass = NoPass
  /\ seen = [n \in ControlPlanes |-> {}]
  /\ certEvents = 0

-----------------------------------------------------------------------------
(* The rungs. Nothing renews an authority, so it is named months ahead; an  *)
(* issued certificate is renewed long before, so being close is the fault.  *)

Ladder(kind, left) ==
  IF kind = "authority"
  THEN IF left <= 7 THEN "critical" ELSE IF left <= 30 THEN "banner"
       ELSE IF left <= 90 THEN "badge" ELSE "none"
  ELSE IF left <= 3 THEN "critical" ELSE IF left <= 14 THEN "banner" ELSE "none"

rank(u) == CASE u = "critical" -> 3 [] u = "banner" -> 2 [] u = "badge" -> 1 [] OTHER -> 0

(* What a node tells: one item per certificate it holds.                    *)
Certificates(n) == {[node |-> n, kind |-> k, notAfter |-> certs[n][k]] : k \in Kinds}

(* HealthFor: the standing on the day somebody looks.                       *)
Urgency(it) == Ladder(it.kind, it.notAfter - today)
HealthFor == CHOOSE u \in {"none"} \cup {Urgency(it) : it \in lastPass.items} :
               \A it \in lastPass.items : rank(u) >= rank(Urgency(it))

-----------------------------------------------------------------------------

(* Tick, Refresh: the control planes are listed and the last reading is     *)
(* taken along for the nodes that will not answer.                          *)
Tick ==
  /\ ~cpass.on
  /\ cpass' = [NoPass EXCEPT !.on = TRUE, !.todo = cpList, !.nodes = cpList, !.at = today,
                             !.previous = lastPass.items]
  /\ UNCHANGED <<today, certs, upNodes, cpList, lastPass, seen, certEvents>>

OfNode(items, n) == {it \in items : it.node = n}

readCertificates(n) ==
  cpass' = [cpass EXCEPT !.todo = @ \ {n}, !.got = @ \cup {n},
                         !.items = @ \cup Certificates(n)]

(* A node that does not answer within its budget keeps what is known of it. *)
missNode(n) ==
  cpass' = [cpass EXCEPT !.todo = @ \ {n}, !.items = @ \cup OfNode(cpass.previous, n)]

(* Mutant: a node that does not answer is left out.                         *)
dropNode(n) == cpass' = [cpass EXCEPT !.todo = @ \ {n}]
silentNode(n) == missNode(n)

RefreshNode(n) ==
  /\ cpass.on /\ n \in cpass.todo
  /\ IF n \in upNodes THEN readCertificates(n) ELSE silentNode(n)
  /\ UNCHANGED <<today, certs, upNodes, cpList, lastPass, seen, certEvents>>

Stored ==
  /\ cpass.on /\ cpass.todo = {}
  /\ lastPass' = [there |-> TRUE, nodes |-> cpass.nodes, at |-> cpass.at, items |-> cpass.items]
  /\ seen' = [n \in ControlPlanes |->
        IF n \in cpass.got THEN OfNode(cpass.items, n)
        ELSE IF n \in cpass.nodes THEN seen[n] ELSE {}]
  /\ cpass' = NoPass
  /\ UNCHANGED <<today, certs, upNodes, cpList, certEvents>>

-----------------------------------------------------------------------------
(* The cluster and the daemon.                                              *)

DaysPass == /\ \E j \in Jumps : today + j <= MaxDay /\ today' = today + j
            /\ UNCHANGED <<certs, upNodes, cpList, lastPass, cpass, seen, certEvents>>

CertEvent == certEvents < MaxCertEvents /\ certEvents' = certEvents + 1

(* Talos renews a certificate it issued; somebody rotates the authority.    *)
Renewed(n, k) ==
  /\ CertEvent
  /\ certs' = [certs EXCEPT ![n][k] = today + (IF k = "issued" THEN IssuedLife ELSE AuthorityLife)]
  /\ UNCHANGED <<today, upNodes, cpList, lastPass, cpass, seen>>

AnswersOrNot(n) ==
  /\ CertEvent
  /\ upNodes' = IF n \in upNodes THEN upNodes \ {n} ELSE upNodes \cup {n}
  /\ UNCHANGED <<today, certs, cpList, lastPass, cpass, seen>>

JoinsOrLeaves(n) ==
  /\ CertEvent
  /\ cpList' = IF n \in cpList THEN cpList \ {n} ELSE cpList \cup {n}
  /\ UNCHANGED <<today, certs, upNodes, lastPass, cpass, seen>>

(* Nothing of this is stored on disk.                                       *)
WatchRestarts ==
  /\ CertEvent /\ (lastPass.there \/ cpass.on)
  /\ lastPass' = NoReading /\ cpass' = NoPass /\ seen' = [n \in ControlPlanes |-> {}]
  /\ UNCHANGED <<today, certs, upNodes, cpList>>

CertNext ==
  \/ Tick \/ Stored \/ DaysPass \/ WatchRestarts
  \/ \E n \in ControlPlanes : \/ RefreshNode(n) \/ AnswersOrNot(n) \/ JoinsOrLeaves(n)
                              \/ \E k \in Kinds : Renewed(n, k)

CertSpec == CertInit /\ [][CertNext]_certVars

-----------------------------------------------------------------------------

(* No certificate runs out quietly. Once a pass was told of it, the cluster *)
(* is at least as urgent as that certificate on the day somebody looks --   *)
(* though its node has stopped answering since -- until the node tells of   *)
(* another, leaves the cluster, or the daemon restarts.                     *)
NoQuietExpiry ==
  \A n \in ControlPlanes : \A it \in seen[n] : rank(HealthFor) >= rank(Urgency(it))

=============================================================================
