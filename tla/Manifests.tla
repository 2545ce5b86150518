------------------------------ MODULE Manifests ------------------------------
(***************************************************************************)
(* A pasted manifest: what it would do (PlanManifest) and doing it          *)
(* (ApplyManifest). Each document is one call to the API server, and other  *)
(* managers -- controllers, other people -- write, delete and install kinds *)
(* between any two of them. An object is reduced to one field: its value    *)
(* and who manages it.                                                      *)
(***************************************************************************)
EXTENDS Integers, Sequences, FiniteSets

CONSTANTS
  KindsInNamespace,     \* kinds whose objects live in a namespace
  KindsOfCluster,       \* kinds whose objects do not
  FieldValues,          \* values of the field
  MaxManifestObjects,   \* documents one manifest may carry
  MaxManifestRequests,  \* bound: requests of a run
  MaxManifestEvents     \* bound: writes of others, new kinds and lost answers

ASSUME ManifestsAssumption ==
  /\ KindsInNamespace \cap KindsOfCluster = {}
  /\ MaxManifestObjects \in Nat /\ MaxManifestRequests \in Nat /\ MaxManifestEvents \in Nat

VARIABLES
  held,        \* held[k]: the object stored under key k
  kinds,       \* the kinds the cluster's discovery knows
  ask,         \* the request being served
  pasted,       \* requests so far
  mevents      \* things others did so far

manifestVars == <<held, kinds, ask, pasted, mevents>>

(* A document as it was pasted: its kind ("" when the document names none   *)
(* or has no name), the namespace it names, if any, and its field.          *)
Doc == [kind : KindsInNamespace \cup KindsOfCluster \cup {""}, ns : {"", "default", "apps"},
        val : FieldValues]
Keys == (KindsInNamespace \X {"default", "apps"}) \cup (KindsOfCluster \X {""})
NoObject == [there |-> FALSE]
Object(v, by) == [there |-> TRUE, val |-> v, by |-> by]

NoAsk == [op |-> "none", docs |-> <<>>, next |-> 1, over |-> FALSE,
          plan |-> {}, warned |-> {}, applied |-> {}, failed |-> {}]

ManifestInit ==
  /\ held = [k \in Keys |-> NoObject]
  /\ kinds = KindsOfCluster
  /\ ask = NoAsk
  /\ pasted = 0 /\ mevents = 0

-----------------------------------------------------------------------------
(* Which object a document means. A namespaced object that names no         *)
(* namespace lands in "default"; a cluster's object loses the one it names. *)

resolves(d) == d.kind # "" /\ d.kind \in kinds
resolve(d) == <<d.kind, IF d.kind \in KindsOfCluster THEN ""
                        ELSE IF d.ns = "" THEN "default" ELSE d.ns>>

(* Server-side apply without force: a field somebody else manages may be    *)
(* set to the value it has -- it is then managed by both -- and to no other. *)
conflicts(k, v) == held[k].there /\ held[k].by # "us" /\ held[k].val # v
serveApply(k, v) ==
  held' = IF conflicts(k, v) THEN held
          ELSE [held EXCEPT ![k] =
                  Object(v, IF held[k].there /\ held[k].by # "us" THEN "both" ELSE "us")]

(* Mutant: the apply is forced.                                             *)
serveApplyForced(k, v) == held' = [held EXCEPT ![k] = Object(v, "us")]
serveObject(k, v) == serveApply(k, v)

(* The documents of a manifest: none of them empty, and not more than the   *)
(* limit; anything else is refused as a whole and nothing is asked.         *)
splitManifest(docs) == Len(docs) \in 1..MaxManifestObjects

-----------------------------------------------------------------------------

manifestFrom ==
  /\ ask.op = "none" /\ pasted < MaxManifestRequests
  /\ pasted' = pasted + 1
  /\ \E op \in {"plan", "apply"}, n \in 1..(MaxManifestObjects + 1) : \E docs \in [1..n -> Doc] :
       ask' = IF splitManifest(docs) THEN [NoAsk EXCEPT !.op = op, !.docs = docs] ELSE ask
  /\ UNCHANGED <<held, kinds, mevents>>

Serving(op) == ask.op = op /\ ask.next <= Len(ask.docs)
Current == ask.docs[ask.next]

(* One document of the plan: does the cluster have it?                      *)
PlanManifest ==
  /\ Serving("plan")
  /\ ask' = [ask EXCEPT !.next = @ + 1,
         !.plan = IF resolves(Current)
                  THEN @ \cup {<<ask.next, IF ~ask.over /\ held[resolve(Current)].there
                                           THEN "update" ELSE "create">>}
                  ELSE @,
         !.warned = IF ~resolves(Current) \/ ask.over
                         \/ (Current.kind \in KindsInNamespace /\ Current.ns = "")
                    THEN @ \cup {ask.next} ELSE @]
  /\ UNCHANGED <<held, kinds, pasted, mevents>>

Answered(ok) ==
  ask' = [ask EXCEPT !.next = @ + 1,
                     !.applied = IF ok THEN @ \cup {ask.next} ELSE @,
                     !.failed = IF ok THEN @ ELSE @ \cup {ask.next}]

ApplyResult(ok) == Answered(ok)

(* One document of the apply. A kind the cluster does not have, a conflict  *)
(* and a budget that has run out are failures of this document alone.       *)
ApplyManifest ==
  /\ Serving("apply")
  /\ IF resolves(Current) /\ ~ask.over
     THEN LET k == resolve(Current) IN
          /\ ApplyResult(~conflicts(k, Current.val))
          /\ serveObject(k, Current.val)
     ELSE ApplyResult(FALSE) /\ UNCHANGED held
  /\ UNCHANGED <<kinds, pasted, mevents>>

(* The budget runs out while the call is under way: the API server has      *)
(* taken the object, and all this side knows is that no answer came.        *)
AnswerLost ==
  /\ Serving("apply") /\ ~ask.over /\ mevents < MaxManifestEvents
  /\ resolves(Current) /\ ~conflicts(resolve(Current), Current.val)
  /\ serveObject(resolve(Current), Current.val)
  /\ ask' = [ask EXCEPT !.next = @ + 1, !.over = TRUE, !.failed = @ \cup {ask.next}]
  /\ mevents' = mevents + 1
  /\ UNCHANGED <<kinds, pasted>>

(* The budget runs out between two calls.                                   *)
ManifestBudgetEnds ==
  /\ (Serving("plan") \/ Serving("apply")) /\ ~ask.over /\ mevents < MaxManifestEvents
  /\ ask' = [ask EXCEPT !.over = TRUE]
  /\ mevents' = mevents + 1
  /\ UNCHANGED <<held, kinds, pasted>>

kubernetesManifestApply ==
  /\ ask.op \in {"plan", "apply"} /\ ask.next > Len(ask.docs)
  /\ ask' = NoAsk
  /\ UNCHANGED <<held, kinds, pasted, mevents>>

-----------------------------------------------------------------------------
(* Everybody else.                                                          *)

Other == mevents < MaxManifestEvents /\ mevents' = mevents + 1

OtherWrites == /\ Other
               /\ \E k \in Keys, v \in FieldValues :
                    /\ k[1] \in kinds
                    /\ held' = [held EXCEPT ![k] = Object(v, "other")]
               /\ UNCHANGED <<kinds, ask, pasted>>

OtherDeletes == /\ Other
                /\ \E k \in Keys : held[k].there /\ held' = [held EXCEPT ![k] = NoObject]
                /\ UNCHANGED <<kinds, ask, pasted>>

KindAppears == /\ Other
               /\ \E x \in KindsInNamespace \ kinds : kinds' = kinds \cup {x}
               /\ UNCHANGED <<held, ask, pasted>>

ManifestNext ==
  \/ manifestFrom \/ PlanManifest \/ ApplyManifest \/ AnswerLost \/ ManifestBudgetEnds \/ kubernetesManifestApply
  \/ OtherWrites \/ OtherDeletes \/ KindAppears

ManifestSpec == ManifestInit /\ [][ManifestNext]_manifestVars

-----------------------------------------------------------------------------

(* An apply takes no field away from whoever manages it, also when that     *)
(* manager wrote it after the plan was read: only others' own writes        *)
(* (counted in mevents) change the value of a field that is not ours alone. *)
FieldsAreNotTaken ==
  [][\A k \in Keys :
       ask.op = "apply" /\ ask'.op = "apply" /\ ask.next # ask'.next
         /\ held[k].there /\ held[k].by # "us"
         => held'[k].there /\ held'[k].val = held[k].val]_manifestVars

=============================================================================
