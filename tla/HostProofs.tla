----------------------------- MODULE HostProofs -----------------------------
(***************************************************************************)
(* Theorems about the machine the manager runs on and about what machines  *)
(* report, for any number of confirmations, requests, pages, chips, ticks, *)
(* restarts and reboots: an order has one owner and a confirmation makes   *)
(* one order; a page that waits for the size of the data directory gets    *)
(* it; a temperature is shown for the chip and the drive it was read of.   *)
(***************************************************************************)
EXTENDS HostOrders, HostCollector, HardwareRead, FiniteSetTheorems,
        NaturalsInduction, WellFoundedInduction, TLAPS

\* What an action, a session and an order can be.
Actions == {i.action : i \in HostIntents} \cup {"none"}
HostSessions == {i.session : i \in HostIntents} \cup {"none"}
HostOrder == [id : Nat, action : Actions, at : Nat]

\* The shape of the state the argument speaks of.
HostTypeOK ==
    /\ hclock \in Nat /\ hostStops \in Nat
    /\ daemon \in {"up", "closing", "down"}
    /\ tokens \subseteq [nonce : Nat, action : Actions, session : HostSessions,
                         expires : Nat, key : Nat]
    /\ IsFiniteSet(tokens)
    /\ reqs \in [Requests -> [pc : {"idle", "check", "place", "link"}, nonce : Nat,
                              action : Actions, session : HostSessions]]
    /\ slot \in HostOrder
    /\ lastOrder \in [o : HostOrder, state : {"none", "pending", "withdrawn"}]
    /\ helper \in [pc : {"idle", "claimed", "acts", "waits"}, o : HostOrder]
    /\ carried \in [1..MaxTokens -> Nat]

\* Confirmations are numbered as they are issued, by the process of their key.
TokensInv ==
    /\ Cardinality(tokens) <= MaxTokens
    /\ \A t \in tokens : t.nonce \in 1..Cardinality(tokens) /\ t.key <= KeyNow
    /\ \A t, u \in tokens : t.nonce = u.nonce => t = u

\* A confirmation that no request can spend any more.
Gone(t) == t.nonce \in spent \/ hclock > t.expires \/ t.key < KeyNow

\* The confirmations an order was made of.
Ordered == withdrawn \cup taken \cup (IF slot = NoHostOrder THEN {} ELSE {slot.id})

\* What became an order is gone as a confirmation.
OrderedInv ==
    \A n \in Ordered : /\ n \in 1..Cardinality(tokens)
                       /\ \A t \in tokens : t.nonce = n => Gone(t)

\* A request that passed the check of its confirmation.
Placing(r) == reqs[r].pc \in {"place", "link"}

\* A request past the check of its confirmation has spent it, alone, and no
\* order was made of it yet.
PlacingInv ==
    /\ \A r \in Requests : Placing(r) =>
          /\ reqs[r].nonce \notin Ordered
          /\ \E t \in tokens : /\ t.nonce = reqs[r].nonce /\ t.action = reqs[r].action
                               /\ t.session = reqs[r].session /\ t.key = KeyNow
                               /\ Gone(t)
    /\ \A r, q \in Requests :
          Placing(r) /\ Placing(q) /\ reqs[r].nonce = reqs[q].nonce => r = q
    /\ daemon = "down" => \A r \in Requests : reqs[r] = AtRest

\* The Box's memory is of the order in the slot, and what left the slot went
\* one way only.
SlotInv ==
    /\ withdrawn \cap taken = {}
    /\ slot # NoHostOrder => slot.id \notin withdrawn \cup taken
    /\ daemon # "down" /\ slot # NoHostOrder => lastOrder = [o |-> slot, state |-> "pending"]
    /\ lastOrder.state = "pending" /\ slot = NoHostOrder => lastOrder.o.id \in taken
    /\ daemon = "down" => lastOrder.state = "none"

\* What the helper holds is its own and not yet carried out.
HelperInv ==
    /\ helper.pc \in {"claimed", "acts"} =>
          helper.o.id \in taken /\ carried[helper.o.id] = 0
    /\ \A n \in 1..MaxTokens : carried[n] <= 1 /\ (carried[n] = 1 => n \in taken)

\* The inductive invariant.
HostInv ==
    HostTypeOK /\ TokensInv /\ OrderedInv /\ PlacingInv /\ SlotInv /\ HelperInv
----------------------------------------------------------------------------
\* The initial state satisfies the invariant: no confirmation, no order.
LEMMA HostInitInv == HostInit => HostInv
<1> SUFFICES ASSUME HostInit PROVE HostInv
  OBVIOUS
<1>1. Cardinality(tokens) = 0 /\ IsFiniteSet(tokens)
  BY FS_EmptySet DEF HostInit
<1>2. HostTypeOK
  BY <1>1, HostAssumption DEF HostInit, HostTypeOK, HostOrder, AtRest, NoHostOrder, HelperIdle,
     Actions, HostSessions
<1>3. TokensInv
  BY <1>1, HostAssumption DEF HostInit, TokensInv
<1>4. OrderedInv /\ PlacingInv /\ SlotInv /\ HelperInv
  BY <1>1, HostAssumption DEF HostInit, OrderedInv, PlacingInv, SlotInv, HelperInv, Ordered,
     Placing, AtRest, NoHostOrder, HelperIdle
<1> QED
  BY <1>2, <1>3, <1>4 DEF HostInv

\* Time passes: a confirmation that expires is gone, and stays gone.
LEMMA KeepsHostTick ==
    ASSUME HostInv, HostTick PROVE HostInv'
<1>1. HostTypeOK'
  BY DEF HostInv, HostTick, HostTypeOK, boxVars, helperVars
<1>2. TokensInv'
  BY DEF HostInv, HostTick, TokensInv, KeyNow
<1>3. OrderedInv'
  BY DEF HostInv, HostTick, HostTypeOK, OrderedInv, Ordered, Gone, KeyNow, boxVars, helperVars
<1>4. PlacingInv'
  BY DEF HostInv, HostTick, HostTypeOK, PlacingInv, Placing, Ordered, Gone, KeyNow, AtRest,
     boxVars, helperVars
<1>5. SlotInv'
  BY DEF HostInv, HostTick, SlotInv, boxVars, helperVars
<1>6. HelperInv'
  BY DEF HostInv, HostTick, HelperInv, helperVars
<1> QED
  BY <1>1, <1>2, <1>3, <1>4, <1>5, <1>6 DEF HostInv

\* The pickup timer takes an order back that is still in the slot.
LEMMA KeepsWithdrawTimed ==
    ASSUME HostInv, withdrawTimed PROVE HostInv'
<1>1. HostTypeOK'
  BY DEF HostInv, withdrawTimed, Withdraw, HostTypeOK, HostOrder, NoHostOrder, Actions,
     boxVars, helperVars
<1>2. TokensInv'
  BY DEF HostInv, withdrawTimed, Withdraw, TokensInv, KeyNow
<1>3. OrderedInv'
  BY HostAssumption DEF HostInv, boxVars, helperVars, withdrawTimed, Withdraw, HostTypeOK,
     HostOrder, TokensInv, OrderedInv, PlacingInv, SlotInv, Ordered, Placing, Gone, KeyNow,
     NoHostOrder
<1>4. PlacingInv'
  BY HostAssumption DEF HostInv, boxVars, helperVars, withdrawTimed, Withdraw, HostTypeOK,
     HostOrder, TokensInv, OrderedInv, PlacingInv, SlotInv, Ordered, Placing, Gone, KeyNow,
     NoHostOrder, AtRest
<1>5. SlotInv'
  BY DEF HostInv, withdrawTimed, Withdraw, SlotInv, boxVars, helperVars
<1>6. HelperInv'
  BY DEF HostInv, withdrawTimed, Withdraw, HelperInv, helperVars
<1> QED
  BY <1>1, <1>2, <1>3, <1>4, <1>5, <1>6 DEF HostInv

\* So does a daemon that closes.
LEMMA KeepsClose ==
    ASSUME HostInv, Close PROVE HostInv'
<1>1. HostTypeOK'
  BY DEF HostInv, Close, Withdraw, HostTypeOK, HostOrder, NoHostOrder, Actions, boxVars,
     helperVars
<1>2. TokensInv'
  BY DEF HostInv, Close, Withdraw, TokensInv, KeyNow
<1>3. OrderedInv'
  BY HostAssumption DEF HostInv, boxVars, helperVars, Close, Withdraw, HostTypeOK, HostOrder,
     TokensInv, OrderedInv, PlacingInv, SlotInv, Ordered, Placing, Gone, KeyNow, NoHostOrder
<1>4. PlacingInv'
  BY HostAssumption DEF HostInv, boxVars, helperVars, Close, Withdraw, HostTypeOK, HostOrder,
     TokensInv, OrderedInv, PlacingInv, SlotInv, Ordered, Placing, Gone, KeyNow, NoHostOrder,
     AtRest
<1>5. SlotInv'
  BY DEF HostInv, Close, Withdraw, SlotInv, boxVars, helperVars
<1>6. HelperInv'
  BY DEF HostInv, Close, Withdraw, HelperInv, helperVars
<1> QED
  BY <1>1, <1>2, <1>3, <1>4, <1>5, <1>6 DEF HostInv

\* A daemon that ends forgets its key, its spent nonces and its requests.
LEMMA KeepsDaemonDies ==
    ASSUME HostInv, DaemonDies PROVE HostInv'
<1>1. HostTypeOK'
  BY HostAssumption DEF HostInv, boxVars, helperVars, DaemonDies, HostTypeOK, HostOrder,
     AtRest, NoHostOrder, HelperIdle, Actions, HostSessions
<1>2. TokensInv'
  BY DEF HostInv, DaemonDies, HostTypeOK, TokensInv, KeyNow, boxVars, helperVars
<1>3. OrderedInv'
  BY DEF HostInv, DaemonDies, HostTypeOK, TokensInv, OrderedInv, Ordered, Gone, KeyNow,
     NoHostOrder, boxVars, helperVars
<1>4. PlacingInv'
  BY DEF HostInv, DaemonDies, HostTypeOK, PlacingInv, Placing, Ordered, Gone, KeyNow, AtRest,
     boxVars, helperVars
<1>5. SlotInv'
  BY DEF HostInv, DaemonDies, SlotInv, boxVars, helperVars
<1>6. HelperInv'
  BY DEF HostInv, DaemonDies, HelperInv, helperVars
<1> QED
  BY <1>1, <1>2, <1>3, <1>4, <1>5, <1>6 DEF HostInv

\* A new Box removes what it finds in the slot.
LEMMA KeepsNewBox ==
    ASSUME HostInv, NewBox PROVE HostInv'
<1>1. HostTypeOK'
  BY DEF HostInv, NewBox, HostTypeOK, HostOrder, NoHostOrder, Actions, boxVars, helperVars
<1>2. TokensInv'
  BY DEF HostInv, NewBox, TokensInv, KeyNow
<1>3. OrderedInv'
  BY DEF HostInv, NewBox, OrderedInv, Ordered, Gone, KeyNow, boxVars, helperVars
<1>4. PlacingInv'
  BY DEF HostInv, NewBox, PlacingInv, Placing, Ordered, Gone, KeyNow, boxVars, helperVars
<1>5. SlotInv'
  BY DEF HostInv, NewBox, SlotInv, boxVars, helperVars
<1>6. HelperInv'
  BY DEF HostInv, NewBox, HelperInv, helperVars
<1> QED
  BY <1>1, <1>2, <1>3, <1>4, <1>5, <1>6 DEF HostInv

\* The helper renames the order away: nobody else had it, and nobody carried it out.
LEMMA KeepsHelperClaims ==
    ASSUME HostInv, HelperClaims PROVE HostInv'
<1>1. HostTypeOK'
  BY DEF HostInv, HelperClaims, HostTypeOK, HostOrder, NoHostOrder, Actions, boxVars,
     helperVars
<1>2. TokensInv'
  BY DEF HostInv, HelperClaims, TokensInv, KeyNow
<1>3. OrderedInv'
  BY DEF HostInv, HelperClaims, OrderedInv, Ordered, Gone, KeyNow, boxVars, helperVars
<1>4. PlacingInv'
  BY DEF HostInv, HelperClaims, PlacingInv, Placing, Ordered, Gone, KeyNow, boxVars, helperVars
<1>5. SlotInv'
  BY DEF HostInv, HelperClaims, SlotInv, boxVars, helperVars
<1>6. HelperInv'
  <2>1. slot.id \in 1..MaxTokens /\ slot.id \notin taken
    BY HostAssumption, FS_CardinalityType
       DEF HostInv, HostTypeOK, HelperClaims, OrderedInv, TokensInv, SlotInv, Ordered
  <2>2. carried[slot.id] = 0
    BY <2>1 DEF HostInv, HostTypeOK, HelperInv
  <2> QED
    BY <2>1, <2>2 DEF HostInv, HostTypeOK, HostOrder, HelperClaims, HelperInv
<1> QED
  BY <1>1, <1>2, <1>3, <1>4, <1>5, <1>6 DEF HostInv

\* The helper reads what it claimed.
LEMMA KeepsHelperReads ==
    ASSUME HostInv, HelperReads PROVE HostInv'
<1>1. HostTypeOK'
  BY HostAssumption DEF HostInv, boxVars, helperVars, HelperReads, HostTypeOK, HostOrder,
     AtRest, NoHostOrder, HelperIdle, Actions, HostSessions
<1>2. TokensInv'
  BY DEF HostInv, HelperReads, TokensInv, KeyNow
<1>3. OrderedInv'
  BY DEF HostInv, HelperReads, OrderedInv, Ordered, Gone, KeyNow, boxVars, helperVars
<1>4. PlacingInv'
  BY DEF HostInv, HelperReads, PlacingInv, Placing, Ordered, Gone, KeyNow, boxVars, helperVars
<1>5. SlotInv'
  BY DEF HostInv, HelperReads, SlotInv, boxVars, helperVars
<1>6. HelperInv'
  BY DEF HostInv, HelperReads, HelperInv, HelperIdle, boxVars, helperVars
<1> QED
  BY <1>1, <1>2, <1>3, <1>4, <1>5, <1>6 DEF HostInv

\* The helper carries it out, for the first time.
LEMMA KeepsHelperActs ==
    ASSUME HostInv, HelperActs PROVE HostInv'
<1>1. HostTypeOK'
  <2>1. carried' \in [1..MaxTokens -> Nat]
    <3>1. carried[helper.o.id] = 0
      BY DEF HostInv, HelperInv, HelperActs
    <3>2. carried' = [carried EXCEPT ![helper.o.id] = carried[helper.o.id] + 1]
      BY DEF HelperActs
    <3>3. carried \in [1..MaxTokens -> Nat]
      BY DEF HostInv, HostTypeOK
    <3>4. ASSUME NEW n \in 1..MaxTokens PROVE carried'[n] \in Nat
      BY <3>1, <3>2, <3>3
    <3> QED
      BY <3>2, <3>3, <3>4
  <2>2. helper' \in [pc : {"idle", "claimed", "acts", "waits"}, o : HostOrder]
    BY SMTT(30) DEF HostInv, HostTypeOK, HostOrder, HelperActs, HelperIdle, NoHostOrder, Actions
  <2> QED
    BY <2>1, <2>2 DEF HostInv, HostTypeOK, HelperActs, boxVars
<1>2. TokensInv'
  BY DEF HostInv, HelperActs, TokensInv, KeyNow
<1>3. OrderedInv'
  BY DEF HostInv, HelperActs, OrderedInv, Ordered, Gone, KeyNow, boxVars, helperVars
<1>4. PlacingInv'
  BY DEF HostInv, HelperActs, PlacingInv, Placing, Ordered, Gone, KeyNow, boxVars, helperVars
<1>5. SlotInv'
  BY DEF HostInv, HelperActs, SlotInv, boxVars, helperVars
<1>6. HelperInv'
  BY DEF HostInv, HelperActs, HostTypeOK, HelperInv, HelperIdle, boxVars, helperVars
<1> QED
  BY <1>1, <1>2, <1>3, <1>4, <1>5, <1>6 DEF HostInv

\* The helper ends, or its host stops.
LEMMA KeepsHelperEnds ==
    ASSUME HostInv, HelperEnds PROVE HostInv'
<1>1. HostTypeOK'
  BY HostAssumption DEF HostInv, boxVars, helperVars, HelperEnds, HostTypeOK, HostOrder,
     AtRest, NoHostOrder, HelperIdle, Actions, HostSessions
<1>2. TokensInv'
  BY DEF HostInv, HelperEnds, TokensInv, KeyNow
<1>3. OrderedInv'
  BY DEF HostInv, HelperEnds, OrderedInv, Ordered, Gone, KeyNow, boxVars, helperVars
<1>4. PlacingInv'
  BY DEF HostInv, HelperEnds, PlacingInv, Placing, Ordered, Gone, KeyNow, boxVars, helperVars
<1>5. SlotInv'
  BY DEF HostInv, HelperEnds, SlotInv, boxVars, helperVars
<1>6. HelperInv'
  BY DEF HostInv, HelperEnds, HelperInv, HelperIdle, boxVars, helperVars
<1> QED
  BY <1>1, <1>2, <1>3, <1>4, <1>5, <1>6 DEF HostInv

\* The check spends the confirmation: one that passes was not gone, so no order and no
\* other request has it.
LEMMA KeepsCheckOnce ==
    ASSUME HostInv, NEW r \in Requests, CheckOnce(r) PROVE HostInv'
<1>1. HostTypeOK'
  <2>1. reqs' \in [Requests -> [pc : {"idle", "check", "place", "link"}, nonce : Nat,
                               action : Actions, session : HostSessions]]
    BY ZenonT(60) DEF HostInv, HostTypeOK, CheckOnce, AtRest, Actions, HostSessions
  <2> QED
    BY <2>1 DEF HostInv, HostTypeOK, CheckOnce, boxVars, helperVars
<1>2. TokensInv'
  BY DEF HostInv, CheckOnce, Signed, Expired, TokensInv, KeyNow
<1>3. OrderedInv'
  BY DEF HostInv, CheckOnce, Signed, Expired, HostTypeOK, TokensInv, OrderedInv, Ordered, Gone,
     KeyNow, NoHostOrder, boxVars, helperVars
<1>4. PlacingInv'
  <2> DEFINE n == reqs[r].nonce
  <2>1. KeyNow' = KeyNow /\ Ordered' = Ordered /\ UNCHANGED <<hclock, tokens, daemon>>
    BY DEF CheckOnce, boxVars, helperVars, KeyNow, Ordered
  <2>2. \A t \in tokens : Gone(t) => Gone(t)'
    BY <2>1 DEF HostInv, TokensInv, CheckOnce, Expired, Gone
  <2>3. reqs[r].pc = "check" /\ daemon # "down"
    BY DEF HostInv, PlacingInv, CheckOnce, AtRest
  <2>4. CASE reqs'[r].pc # "place"
    <3>1. \A q \in Requests : Placing(q)' => q # r /\ Placing(q) /\ reqs'[q] = reqs[q]
      BY <2>4 DEF HostInv, HostTypeOK, CheckOnce, Placing, AtRest
    <3> QED
      BY <2>1, <2>2, <2>3, <3>1 DEF HostInv, PlacingInv
  <2>5. CASE reqs'[r].pc = "place"
    <3>1. /\ Signed(reqs[r]) # {} /\ ~Expired(n)
          /\ n \notin {m \in spent : ~Expired(m)}
          /\ reqs' = [reqs EXCEPT ![r] = [reqs[r] EXCEPT !.pc = "place"]]
          /\ n \in spent'
      BY <2>5 DEF HostInv, HostTypeOK, CheckOnce, AtRest
    <3>2. PICK t \in tokens : /\ t.nonce = n /\ t.action = reqs[r].action
                              /\ t.session = reqs[r].session /\ t.key = KeyNow
      BY <3>1 DEF Signed
    <3>3. ~Gone(t)
      BY <3>1, <3>2 DEF HostInv, HostTypeOK, Gone, Expired, KeyNow
    <3>4. n \notin Ordered
      BY <3>2, <3>3 DEF HostInv, OrderedInv
    <3>5. \A q \in Requests : Placing(q) => reqs[q].nonce # n
      BY <3>2, <3>3 DEF HostInv, PlacingInv, TokensInv
    <3>6. Gone(t)'
      BY <3>1, <3>2 DEF Gone
    <3>7. \A q \in Requests : q # r => reqs'[q] = reqs[q]
      BY <3>1 DEF HostInv, HostTypeOK
    <3>8. /\ reqs'[r].nonce = n /\ reqs'[r].action = reqs[r].action
          /\ reqs'[r].session = reqs[r].session
      BY <3>1 DEF HostInv, HostTypeOK
    <3>9. \A q \in Requests : q # r => (Placing(q)' <=> Placing(q))
      BY <3>7 DEF Placing
    <3>10. ASSUME NEW q \in Requests, Placing(q)'
           PROVE  /\ reqs'[q].nonce \notin Ordered
                  /\ \E u \in tokens : /\ u.nonce = reqs'[q].nonce /\ u.action = reqs'[q].action
                                       /\ u.session = reqs'[q].session /\ u.key = KeyNow
                                       /\ Gone(u)'
      <4>1. CASE q = r
        BY <3>2, <3>4, <3>6, <3>8, <4>1
      <4>2. CASE q # r
        BY <2>2, <3>7, <3>9, <3>10, <4>2 DEF HostInv, PlacingInv
      <4> QED
        BY <4>1, <4>2
    <3>11. \A q, p \in Requests :
              Placing(q)' /\ Placing(p)' /\ reqs'[q].nonce = reqs'[p].nonce => q = p
      BY <3>5, <3>7, <3>8, <3>9 DEF HostInv, PlacingInv
    <3> QED
      BY <2>1, <2>3, <3>10, <3>11 DEF PlacingInv
  <2> QED
    BY <2>4, <2>5
<1>5. SlotInv'
  BY DEF HostInv, CheckOnce, Signed, Expired, SlotInv, boxVars, helperVars
<1>6. HelperInv'
  BY DEF HostInv, CheckOnce, Signed, Expired, HelperInv, helperVars
<1> QED
  BY <1>1, <1>2, <1>3, <1>4, <1>5, <1>6 DEF HostInv

\* A placing request looks at the order before it.
LEMMA KeepsPlaceAsks ==
    ASSUME HostInv, NEW r \in Requests, PlaceAsks(r) PROVE HostInv'
<1>1. HostTypeOK'
  <2>1. reqs' \in [Requests -> [pc : {"idle", "check", "place", "link"}, nonce : Nat,
                               action : Actions, session : HostSessions]]
    BY ZenonT(60) DEF HostInv, HostTypeOK, PlaceAsks, AtRest, Actions, HostSessions
  <2> QED
    BY <2>1 DEF HostInv, HostTypeOK, PlaceAsks, boxVars, helperVars
<1>2. TokensInv'
  BY DEF HostInv, PlaceAsks, TokensInv, KeyNow
<1>3. OrderedInv'
  BY DEF HostInv, PlaceAsks, OrderedInv, Ordered, Gone, KeyNow, boxVars, helperVars
<1>4. PlacingInv'
  BY DEF HostInv, PlaceAsks, HostTypeOK, PlacingInv, Placing, Ordered, Gone, KeyNow, AtRest,
     boxVars, helperVars
<1>5. SlotInv'
  BY DEF HostInv, PlaceAsks, SlotInv, boxVars, helperVars
<1>6. HelperInv'
  BY DEF HostInv, PlaceAsks, HelperInv, helperVars
<1> QED
  BY <1>1, <1>2, <1>3, <1>4, <1>5, <1>6 DEF HostInv

\* The order is made of the confirmation its request spent.
LEMMA KeepsPlaceLinks ==
    ASSUME HostInv, NEW r \in Requests, PlaceLinks(r) PROVE HostInv'
<1>1. HostTypeOK'
  <2>1. reqs' \in [Requests -> [pc : {"idle", "check", "place", "link"}, nonce : Nat,
                                action : Actions, session : HostSessions]]
    BY HostAssumption DEF HostInv, HostTypeOK, PlaceLinks, AtRest, Actions, HostSessions
  <2>2. slot' \in HostOrder /\ lastOrder' \in [o : HostOrder, state : {"none", "pending", "withdrawn"}]
    BY DEF HostInv, HostTypeOK, PlaceLinks, HostOrder, boxVars
  <2> QED
    BY <2>1, <2>2 DEF HostInv, HostTypeOK, PlaceLinks, helperVars
<1>2. TokensInv'
  BY DEF HostInv, PlaceLinks, TokensInv, KeyNow
<1>3. OrderedInv'
  BY HostAssumption DEF HostInv, boxVars, helperVars, PlaceLinks, HostTypeOK, HostOrder,
     TokensInv, OrderedInv, PlacingInv, SlotInv, Ordered, Placing, Gone, KeyNow, NoHostOrder
<1>4. PlacingInv'
  BY DEF HostInv, PlaceLinks, HostTypeOK, PlacingInv, Placing, Ordered, Gone, KeyNow, AtRest,
     boxVars, helperVars
<1>5. SlotInv'
  <2>1. reqs[r].nonce \notin withdrawn \cup taken /\ reqs[r].nonce # 0 /\ daemon # "down"
    BY HostAssumption, FS_CardinalityType
       DEF HostInv, HostTypeOK, TokensInv, PlacingInv, Placing, Ordered, PlaceLinks, AtRest
  <2>2. CASE slot = NoHostOrder
    BY <2>1, <2>2 DEF HostInv, SlotInv, PlaceLinks, helperVars, NoHostOrder
  <2>3. CASE slot # NoHostOrder
    BY <2>3 DEF HostInv, SlotInv, PlaceLinks, boxVars, helperVars
  <2> QED
    BY <2>2, <2>3
<1>6. HelperInv'
  BY DEF HostInv, PlaceLinks, HelperInv, helperVars
<1> QED
  BY <1>1, <1>2, <1>3, <1>4, <1>5, <1>6 DEF HostInv

\* A new confirmation has a number no order has.
LEMMA KeepsConfirmHostAction ==
    ASSUME HostInv, NEW i \in HostIntents, confirmHostAction(i.action, i.session) PROVE HostInv'
<1> DEFINE N == Cardinality(tokens)
           new == IssueOnce(N + 1, i.action, i.session)
<1>1. N \in Nat /\ N < MaxTokens /\ tokens' = tokens \cup {new}
  BY FS_CardinalityType DEF HostInv, HostTypeOK, confirmHostAction
<1>2. new.nonce = N + 1 /\ new.key = KeyNow
  BY DEF IssueOnce
<1>3. \A t \in tokens : t.nonce \in 1..N
  BY DEF HostInv, TokensInv
<1>4. new \notin tokens
  BY <1>1, <1>2, <1>3
<1>5. IsFiniteSet(tokens') /\ Cardinality(tokens') = N + 1
  BY <1>1, <1>4, FS_AddElement DEF HostInv, HostTypeOK
<1>6. HostTypeOK'
  <2>1. new \in [nonce : Nat, action : Actions, session : HostSessions, expires : Nat, key : Nat]
    BY <1>1 DEF HostInv, HostTypeOK, IssueOnce, Actions, HostSessions, KeyNow, ConfirmationTTL
  <2> QED
    BY <1>1, <1>5, <2>1 DEF HostInv, HostTypeOK, confirmHostAction, boxVars, helperVars
<1>7. KeyNow' = KeyNow /\ Ordered' = Ordered /\ UNCHANGED <<spent, hclock, reqs, daemon>>
  BY DEF confirmHostAction, boxVars, helperVars, KeyNow, Ordered
<1>8. TokensInv'
  <2>1. Cardinality(tokens') <= MaxTokens
    BY <1>1, <1>5, HostAssumption
  <2>2. \A t \in tokens' : t.nonce \in 1..(N + 1) /\ t.key <= KeyNow
    BY <1>1, <1>2, <1>3 DEF HostInv, HostTypeOK, TokensInv, KeyNow
  <2>3. \A t, u \in tokens' : t.nonce = u.nonce => t = u
    BY <1>1, <1>2, <1>3 DEF HostInv, TokensInv
  <2> QED
    BY <1>5, <1>7, <2>1, <2>2, <2>3 DEF TokensInv
<1>9. \A t \in tokens : Gone(t)' <=> Gone(t)
  BY <1>7 DEF Gone
<1>10. OrderedInv'
  BY <1>1, <1>2, <1>5, <1>7, <1>9 DEF HostInv, OrderedInv
<1>11. PlacingInv'
  BY <1>1, <1>7, <1>9 DEF HostInv, PlacingInv, Placing
<1>12. SlotInv' /\ HelperInv'
  BY DEF HostInv, SlotInv, HelperInv, confirmHostAction, boxVars, helperVars
<1> QED
  BY <1>6, <1>8, <1>10, <1>11, <1>12 DEF HostInv

\* A request begins with whatever confirmation its caller sends.
LEMMA KeepsHostActionBegins ==
    ASSUME HostInv, NEW r \in Requests, NEW i \in HostIntents, NEW n \in 1..Cardinality(tokens),
           hostActionBegins(r, n, i.action, i.session)
    PROVE  HostInv'
<1>1. HostTypeOK'
  BY DEF HostInv, hostActionBegins, HostTypeOK, AtRest, Actions, HostSessions, boxVars,
     helperVars
<1>2. TokensInv'
  BY DEF HostInv, hostActionBegins, TokensInv, KeyNow
<1>3. OrderedInv'
  BY DEF HostInv, hostActionBegins, OrderedInv, Ordered, Gone, KeyNow, boxVars, helperVars
<1>4. PlacingInv'
  BY DEF HostInv, hostActionBegins, PlacingInv, Placing, Ordered, Gone, KeyNow, boxVars,
     helperVars
<1>5. SlotInv'
  BY DEF HostInv, hostActionBegins, SlotInv, boxVars, helperVars
<1>6. HelperInv'
  BY DEF HostInv, hostActionBegins, HelperInv, helperVars
<1> QED
  BY <1>1, <1>2, <1>3, <1>4, <1>5, <1>6 DEF HostInv

\* Every step of the daemon, of a request, of the helper and of the clock keeps it.
LEMMA HostStepInv == HostInv /\ [HostNext]_hostVars => HostInv'
<1> SUFFICES ASSUME HostInv, [HostNext]_hostVars PROVE HostInv'
  OBVIOUS
<1>1. CASE UNCHANGED hostVars
  BY <1>1 DEF hostVars, HostInv, HostTypeOK, TokensInv, OrderedInv, PlacingInv, SlotInv,
     HelperInv, Ordered, Placing, Gone, KeyNow
<1>2. CASE HostNext
  BY <1>2, KeepsHostTick, KeepsWithdrawTimed, KeepsClose, KeepsDaemonDies, KeepsNewBox,
     KeepsHelperClaims, KeepsHelperReads, KeepsHelperActs, KeepsHelperEnds, KeepsCheckOnce,
     KeepsPlaceAsks, KeepsPlaceLinks, KeepsConfirmHostAction, KeepsHostActionBegins
     DEF HostNext
<1> QED
  BY <1>1, <1>2

\* The invariant of the host actions.
LEMMA HostInvariant == HostSpec => []HostInv
  BY HostInitInv, HostStepInv, PTL DEF HostSpec

\* For any number of requests, confirmations and restarts, and however the
\* helper, the pickup timer, Close and NewBox meet over the order file: an order
\* is withdrawn or taken and never both, what the daemon calls picked up the
\* helper has, and nothing is carried out twice.
THEOREM OrderHasOneOwner == HostSpec => []OneOwner
<1>1. HostInv => OneOwner
  BY DEF HostInv, HostTypeOK, SlotInv, HelperInv, OneOwner, OrderState
<1> QED
  BY <1>1, HostInvariant, PTL

\* An order the handler places is made of a confirmation that was issued for
\* that action and session and that no earlier order was made of, although spent
\* nonces are forgotten when they expire and when the process ends.
THEOREM ConfirmationMakesOneOrder == HostSpec => OneOrderPerConfirmation
<1> DEFINE IsNew == slot' # NoHostOrder /\ slot' # slot =>
              /\ slot'.id \notin withdrawn \cup taken
              /\ \E t \in tokens : t.nonce = slot'.id /\ t.action = slot'.action
                                   /\ \E r \in Requests : reqs[r].nonce = t.nonce
                                                          /\ reqs[r].session = t.session
<1>1. HostInv /\ [HostNext]_hostVars => [IsNew]_hostVars
  <2> SUFFICES ASSUME HostInv, [HostNext]_hostVars, slot' # NoHostOrder, slot' # slot
               PROVE  IsNew
    OBVIOUS
  <2>1. PICK r \in Requests : PlaceLinks(r)
    BY DEF HostNext, hostVars, boxVars, HostTick, withdrawTimed, Withdraw, Close, DaemonDies,
       NewBox, HelperClaims, HelperReads, HelperActs, HelperEnds, confirmHostAction,
       hostActionBegins, CheckOnce, PlaceAsks
  <2>2. slot'.id = reqs[r].nonce /\ slot'.action = reqs[r].action
    BY <2>1 DEF PlaceLinks, boxVars
  <2> QED
    BY <2>1, <2>2 DEF HostInv, PlacingInv, Placing, Ordered, PlaceLinks
<1> QED
  BY <1>1, HostInvariant, PTL DEF HostSpec, OneOrderPerConfirmation

----------------------------------------------------------------------------
(***************************************************************************)
(* The size of the data directory.                                         *)
(***************************************************************************)
CollectorTypeOK ==
    /\ ticks \in Nat
    /\ page \in [Pages -> [pc : {"idle", "size", "waits", "live", "rates"}, now : Nat,
                           left : BOOLEAN, size : {"none", "size", "hidden"}]]
    /\ sizer \in [tried : BOOLEAN, attempted : Nat, known : BOOLEAN]
    /\ walk.now \in Nat /\ faulty \in BOOLEAN

\* A walk that was tried and left no size has failed.
SizerInv == sizer.tried /\ ~sizer.known => faulty

SizeInv == CollectorTypeOK /\ SizerInv /\ WaitersGetTheSize

LEMMA WalkReturnsKeeps ==
  ASSUME SizeInv, NEW good \in BOOLEAN, WalkReturns(good), faulty' \in BOOLEAN,
         faulty => faulty', good \/ faulty'
  PROVE  SizeInv'
<1> DEFINE sz == [tried |-> TRUE, attempted |-> walk.now, known |-> sizer.known \/ good]
<1>1. sz \in [tried : BOOLEAN, attempted : Nat, known : BOOLEAN] /\ sizer' = sz
  BY DEF SizeInv, CollectorTypeOK, WalkReturns
<1>2. SizeOf(sz) \in {"size", "hidden"} /\ (SizeOf(sz) = "hidden" => ~good)
  BY DEF SizeOf
<1>3. ticks' = ticks /\ walk'.now \in Nat
  BY DEF WalkReturns, NoWalk
<1>4. page' = [p \in Pages |-> IF p \in walk.waits
                               THEN [page[p] EXCEPT !.pc = "live", !.size = SizeOf(sz)]
                               ELSE page[p]]
  BY DEF WalkReturns
<1> HIDE DEF sz
<1>5. ASSUME NEW p \in Pages
      PROVE  /\ page'[p] \in [pc : {"idle", "size", "waits", "live", "rates"}, now : Nat,
                              left : BOOLEAN, size : {"none", "size", "hidden"}]
             /\ page'[p].size = "hidden" => faulty'
  <2>1. page[p] \in [pc : {"idle", "size", "waits", "live", "rates"}, now : Nat,
                     left : BOOLEAN, size : {"none", "size", "hidden"}]
    BY DEF SizeInv, CollectorTypeOK
  <2>2. CASE p \in walk.waits
    <3>1. page'[p] = [page[p] EXCEPT !.pc = "live", !.size = SizeOf(sz)]
      BY <1>4, <2>2
    <3> QED
      BY <1>2, <2>1, <3>1
  <2>3. CASE p \notin walk.waits
    BY <1>4, <2>1, <2>3 DEF SizeInv, WaitersGetTheSize
  <2> QED
    BY <2>2, <2>3
<1>6. DOMAIN page' = Pages /\ page' = [p \in Pages |-> page'[p]]
  BY <1>4
<1>7. CollectorTypeOK'
  BY <1>1, <1>3, <1>5, <1>6 DEF SizeInv, CollectorTypeOK
<1>8. SizerInv'
  BY <1>1 DEF SizerInv, sz
<1> QED
  BY <1>5, <1>7, <1>8 DEF SizeInv, WaitersGetTheSize

LEMMA PageMoves ==
  ASSUME SizeInv, NEW p \in Pages,
         \/ ReadBegins(p) \/ BrowserLeaves(p) \/ SizeIsFresh(p)
         \/ SizeNeedsAWalk(p) \/ PageStamps(p) \/ PageRates(p)
  PROVE  SizeInv'
<1> DEFINE PageT == [pc : {"idle", "size", "waits", "live", "rates"}, now : Nat,
                     left : BOOLEAN, size : {"none", "size", "hidden"}]
<1> USE DEF SizeInv, CollectorTypeOK, SizerInv
<1>0. page[p] \in PageT
  OBVIOUS
<1>1. CASE ReadBegins(p)
  BY <1>1 DEF ReadBegins, WaitersGetTheSize
<1>2. CASE BrowserLeaves(p)
  BY <1>0, <1>2 DEF BrowserLeaves, WaitersGetTheSize
<1>3. CASE SizeIsFresh(p)
  <2>1. SizeOf(sizer) \in {"size", "hidden"} /\ (SizeOf(sizer) = "hidden" => faulty)
    BY <1>3 DEF SizeIsFresh, Fresh, SizeOf
  <2> QED
    BY <1>0, <1>3, <2>1 DEF SizeIsFresh, WaitersGetTheSize
<1>4. CASE SizeNeedsAWalk(p)
  <2>1. walk'.now \in Nat
    BY <1>0, <1>4 DEF SizeNeedsAWalk
  <2> QED
    BY <1>0, <1>4, <2>1 DEF SizeNeedsAWalk, WaitersGetTheSize
<1>5. CASE PageStamps(p)
  BY <1>0, <1>5 DEF PageStamps, WaitersGetTheSize
<1>6. CASE PageRates(p)
  BY <1>0, <1>6 DEF PageRates, WaitersGetTheSize
<1> QED
  BY <1>1, <1>2, <1>3, <1>4, <1>5, <1>6

LEMMA SizeStep == SizeInv /\ [CollectorNext]_collectorVars => SizeInv'
<1> SUFFICES ASSUME SizeInv, [CollectorNext]_collectorVars PROVE SizeInv'
  OBVIOUS
<1>1. CASE ClockTicks
  BY <1>1 DEF ClockTicks, SizeInv, CollectorTypeOK, SizerInv, WaitersGetTheSize
<1>2. CASE \E p \in Pages : \/ ReadBegins(p) \/ BrowserLeaves(p) \/ SizeIsFresh(p)
                            \/ SizeNeedsAWalk(p) \/ PageStamps(p) \/ PageRates(p)
  BY <1>2, PageMoves
<1>3. CASE WalkDone
  <2>1. WalkReturns(TRUE) /\ faulty' = faulty /\ faulty \in BOOLEAN
    BY <1>3 DEF WalkDone, SizeInv, CollectorTypeOK
  <2> QED
    BY <2>1, WalkReturnsKeeps
<1>4. CASE WalkFails
  <2>1. WalkReturns(FALSE) /\ faulty' = TRUE
    BY <1>4 DEF WalkFails
  <2> QED
    BY <2>1, WalkReturnsKeeps
<1>5. CASE WalkTooSlow
  <2>1. WalkReturns(FALSE) /\ faulty' = TRUE
    BY <1>5 DEF WalkTooSlow, WalkCut, WalkIsCut
  <2> QED
    BY <2>1, WalkReturnsKeeps
<1>6. CASE UNCHANGED <<ticks, page, sizer, walk, faulty>>
  BY <1>6 DEF SizeInv, CollectorTypeOK, SizerInv, WaitersGetTheSize
<1>7. CASE \E s \in Samples : \/ SampleBegins(s) \/ SampleStamps(s) \/ SampleRates(s)
                              \/ SampleStores(s)
  <2>1. UNCHANGED <<ticks, page, sizer, walk, faulty>>
    BY <1>7 DEF SampleBegins, SampleStamps, SampleRates, SampleStores
  <2> QED
    BY <1>6, <2>1
<1>8. CASE UNCHANGED collectorVars
  BY <1>6, <1>8 DEF collectorVars
<1> QED
  BY <1>1, <1>2, <1>3, <1>4, <1>5, <1>7, <1>8 DEF CollectorNext

\* For any number of pages, whoever's browser leaves while a walk is under way: a page is
\* told that the size is hidden only when a walk has failed or met its own deadline.
THEOREM SizeIsForEveryWaiter == CollectorSpec => []WaitersGetTheSize
<1>1. CollectorInit => SizeInv
  <2> SUFFICES ASSUME CollectorInit PROVE SizeInv
    OBVIOUS
  <2>1. walk.now \in Nat /\ ticks \in Nat /\ faulty \in BOOLEAN
    BY DEF CollectorInit, NoWalk
  <2>2. sizer \in [tried : BOOLEAN, attempted : Nat, known : BOOLEAN] /\ ~sizer.tried
    BY DEF CollectorInit
  <2>3. page = [p \in Pages |-> [pc |-> "idle", now |-> 0, left |-> FALSE, size |-> "none"]]
    BY DEF CollectorInit
  <2> QED
    BY <2>1, <2>2, <2>3 DEF SizeInv, CollectorTypeOK, SizerInv, WaitersGetTheSize
<1>2. SizeInv => WaitersGetTheSize
  BY DEF SizeInv
<1> QED
  BY <1>1, <1>2, SizeStep, PTL DEF CollectorSpec

----------------------------------------------------------------------------
(***************************************************************************)
(* Sensors and drives.                                                     *)
(***************************************************************************)
\* A set of naturals that is not empty has a least element.
LEMMA LeastNatural ==
  ASSUME NEW T, T \subseteq Nat, T # {}
  PROVE  \E x \in T : \A y \in T : x <= y
<1> DEFINE R == OpToRel(<, Nat)
<1>1. IsWellFoundedOn(R, Nat)
  BY NatLessThanWellFounded
<1>2. \A x, y \in Nat : y < x => <<y, x>> \in R
  BY DEF OpToRel
<1> HIDE DEF R
<1>3. \E x \in T : \A y \in T : ~(<<y, x>> \in R)
  BY <1>1, WFMin
<1>4. PICK x \in T : \A y \in T : ~(<<y, x>> \in R)
  BY <1>3
<1>5. ASSUME NEW y \in T PROVE x <= y
  <2>1. x \in Nat /\ y \in Nat /\ ~(y < x)
    BY <1>2, <1>4
  <2> QED
    BY <2>1
<1> QED
  BY <1>4, <1>5

\* Induction up to N over a set of numbers.
LEMMA CountUp ==
  ASSUME NEW N \in Nat, NEW T, 0 \in T, \A n \in 1 .. N : n - 1 \in T => n \in T
  PROVE  \A n \in 0 .. N : n \in T
<1> SUFFICES ASSUME NEW n \in 0 .. N, n \notin T PROVE FALSE
  OBVIOUS
<1> DEFINE Bad == {m \in 0 .. N : m \notin T}
<1>1. PICK m \in Bad : \A y \in Bad : m <= y
  <2>1. Bad \subseteq Nat /\ Bad # {}
    OBVIOUS
  <2> HIDE DEF Bad
  <2> QED
    BY <2>1, LeastNatural
<1>2. m \in 1 .. N /\ m - 1 \in 0 .. N
  OBVIOUS
<1>3. m - 1 \notin Bad
  BY <1>1, <1>2
<1> QED
  BY <1>2, <1>3

\* What is computed in N steps within a set S, each from the one before, exists.
Computes(N, S, F, s0, step) ==
    F \in [0 .. N -> S] /\ F[0] = s0 /\ \A n \in 1 .. N : F[n] = step[n][F[n - 1]]

LEMMA Computed ==
  ASSUME NEW N \in Nat, NEW S, NEW s0 \in S, NEW step \in [1 .. N -> [S -> S]]
  PROVE  \E F : Computes(N, S, F, s0, step)
<1> DEFINE Good(m, F) == F[0] = s0 /\ \A n \in 1 .. m : F[n] = step[n][F[n - 1]]
           T == {m \in 0 .. N : \E F \in [0 .. m -> S] : Good(m, F)}
<1>1. 0 \in T
  <2>1. [n \in 0 .. 0 |-> s0] \in [0 .. 0 -> S] /\ Good(0, [n \in 0 .. 0 |-> s0])
    OBVIOUS
  <2> HIDE DEF Good
  <2>2. \E F \in [0 .. 0 -> S] : Good(0, F)
    BY <2>1
  <2> QED
    BY <2>2
<1>2. ASSUME NEW m \in 1 .. N, m - 1 \in T PROVE m \in T
  <2>1. PICK F \in [0 .. m - 1 -> S] : Good(m - 1, F)
    BY <1>2
  <2> DEFINE G == [n \in 0 .. m |-> IF n = m THEN step[m][F[m - 1]] ELSE F[n]]
  <2>2. F[m - 1] \in S /\ step[m][F[m - 1]] \in S
    OBVIOUS
  <2>3. G \in [0 .. m -> S]
    BY <2>2
  <2>4. G[0] = s0
    BY <2>1
  <2>5. ASSUME NEW n \in 1 .. m PROVE G[n] = step[n][G[n - 1]]
    <3>1. n - 1 \in 0 .. m - 1 /\ G[n - 1] = F[n - 1]
      OBVIOUS
    <3>2. CASE n = m
      BY <3>1, <3>2
    <3>3. CASE n # m
      <4>1. n \in 1 .. m - 1 /\ n \in 0 .. m
        BY <3>3
      <4>2. G[n] = F[n]
        BY <3>3, <4>1
      <4> QED
        BY <2>1, <3>1, <4>1, <4>2
    <3> QED
      BY <3>2, <3>3
  <2> HIDE DEF G
  <2> QED
    BY <2>3, <2>4, <2>5
<1> HIDE DEF T
<1>3. \A n \in 1 .. N : n - 1 \in T => n \in T
  BY <1>2
<1>4. \A n \in 0 .. N : n \in T
  BY <1>1, <1>3, CountUp
<1>5. N \in T
  BY <1>4
<1> QED
  BY <1>5 DEF T, Computes

HwReading == [name : HwChips \cup Zones, place : Nat, source : HwChips \cup Zones]
HwLayout == [boot : Nat, place : UNION {[D -> Places] : D \in SUBSET HwChips}, zones : SUBSET Zones]

\* Every value is that of the chip it is named after; a chip lies at one place.
Own(readings) == \A r \in readings : r.name = r.source
Placed(readings) ==
    \A r, s \in readings : r.name = s.name /\ r.place # 0 /\ s.place # 0 => r.place = s.place

\* The drives that chips have claimed so far.
Claims(readings) == UNION {[D -> readings] : D \in SUBSET DiskChips}

LEMMA ChipCount == Cardinality(HwChips) \in Nat /\ Places \subseteq Nat \ {0}
<1>1. Cardinality(HwChips) \in Nat
  BY HardwareAssumption, FS_CardinalityType
<1> QED
  BY <1>1 DEF Places

\* A drive that is found is there and unclaimed, and it is the chip's own unless
\* somebody has claimed that.
LEMMA DriveIsOwn ==
  ASSUME NEW chip \in DiskChips, NEW claimed, matchDrive(chip, claimed) # NoDrive
  PROVE  /\ matchDrive(chip, claimed) \in DiskChips
         /\ chip \notin claimed => matchDrive(chip, claimed) = chip
<1> DEFINE alike == {d \in DiskChips \ claimed : drives.model[d] = drives.model[chip]}
<1>1. CASE chip \in drives.serial /\ chip \notin claimed
  BY <1>1 DEF matchDrive
<1>2. CASE ~(chip \in drives.serial /\ chip \notin claimed)
  <2>1. Cardinality(alike) = 1 /\ matchDrive(chip, claimed) = CHOOSE d \in alike : TRUE
    BY <1>2 DEF matchDrive
  <2>2. IsFiniteSet(alike)
    <3>1. alike \in SUBSET HwChips
      BY DEF HwChips
    <3> HIDE DEF alike
    <3> QED
      BY <3>1, HardwareAssumption, FS_Subset
  <2>3. PICK x : alike = {x}
    <3> HIDE DEF alike
    <3> QED
      BY <2>1, <2>2, FS_Singleton
  <2>4. matchDrive(chip, claimed) = x /\ x \in DiskChips
    BY <2>1, <2>3
  <2>5. chip \notin claimed => chip \in alike
    OBVIOUS
  <2> QED
    BY <2>3, <2>4, <2>5
<1> QED
  BY <1>1, <1>2

\* What one chip's claim does.
ClaimStep(readings, p, a, b) ==
    \/ b = a
    \/ \E r \in readings : \E d \in DiskChips :
         /\ r.place = p /\ r.name \in DiskChips
         /\ d = matchDrive(r.name, DOMAIN a) /\ d # NoDrive
         /\ b = [x \in {d} \cup DOMAIN a |-> IF x = d THEN r ELSE a[x]]

LEMMA ClaimOf ==
  ASSUME NEW readings, NEW p, NEW a \in Claims(readings)
  PROVE  ClaimStep(readings, p, a, claimDrive(readings, p, a))
<1> DEFINE here == {r \in readings : r.place = p /\ r.name \in DiskChips}
           r == CHOOSE x \in here : TRUE
           d == matchDrive(r.name, DOMAIN a)
<1>1. CASE here = {} \/ d = NoDrive
  BY <1>1 DEF claimDrive, ClaimStep
<1>2. CASE ~(here = {} \/ d = NoDrive)
  <2>1. r \in here
    BY <1>2
  <2>2. r \in readings /\ r.place = p /\ r.name \in DiskChips
    BY <2>1
  <2>3. claimDrive(readings, p, a) = [x \in {d} \cup DOMAIN a |-> IF x = d THEN r ELSE a[x]]
    BY <1>2 DEF claimDrive
  <2> HIDE DEF here, r
  <2>4. d \in DiskChips /\ d # NoDrive
    BY <1>2, <2>2, DriveIsOwn
  <2> QED
    BY <2>2, <2>3, <2>4 DEF ClaimStep
<1> QED
  BY <1>1, <1>2

LEMMA ClaimType ==
  ASSUME NEW readings, NEW p, NEW a \in Claims(readings)
  PROVE  claimDrive(readings, p, a) \in Claims(readings)
<1>1. CASE claimDrive(readings, p, a) = a
  BY <1>1
<1>2. ASSUME NEW r \in readings, NEW d \in DiskChips,
             claimDrive(readings, p, a) = [x \in {d} \cup DOMAIN a |-> IF x = d THEN r ELSE a[x]]
      PROVE  claimDrive(readings, p, a) \in Claims(readings)
  <2>1. PICK D \in SUBSET DiskChips : a \in [D -> readings]
    BY DEF Claims
  <2>2. {d} \cup DOMAIN a \in SUBSET DiskChips
    BY <2>1
  <2>3. claimDrive(readings, p, a) \in [{d} \cup DOMAIN a -> readings]
    BY <1>2, <2>1
  <2> QED
    BY <2>2, <2>3 DEF Claims
<1>3. \/ claimDrive(readings, p, a) = a
      \/ \E r \in readings : \E d \in DiskChips :
           claimDrive(readings, p, a) = [x \in {d} \cup DOMAIN a |-> IF x = d THEN r ELSE a[x]]
  <2>1. ClaimStep(readings, p, a, claimDrive(readings, p, a))
    BY ClaimOf
  <2> QED
    BY <2>1 DEF ClaimStep
<1> QED
  BY <1>1, <1>2, <1>3

\* The claims, chip by chip.
Claimed(F, readings) ==
    /\ F[0] = <<>>
    /\ \A p \in 1 .. Cardinality(HwChips) : F[p] = claimDrive(readings, p, F[p - 1])

LEMMA FlattenDef ==
  ASSUME NEW readings
  PROVE  \E F \in [0 .. Cardinality(HwChips) -> Claims(readings)] :
           /\ Claimed(F, readings)
           /\ flattenSensors(readings) =
                [d \in DOMAIN F[Cardinality(HwChips)] |-> F[Cardinality(HwChips)][d].source]
<1> DEFINE N == Cardinality(HwChips)
           S == Claims(readings)
           Rule(f) == [p \in 0 .. N |-> IF p = 0 THEN <<>> ELSE claimDrive(readings, p, f[p - 1])]
           G == CHOOSE f : f = Rule(f)
           step == [p \in 1 .. N |-> [a \in S |-> claimDrive(readings, p, a)]]
<1>1. flattenSensors(readings) = [d \in DOMAIN G[N] |-> G[N][d].source]
  BY DEF flattenSensors
<1>2. N \in Nat
  BY ChipCount
<1>3. step \in [1 .. N -> [S -> S]]
  BY ClaimType
<1>4. <<>> \in S
  <2>1. <<>> \in [{} -> readings]
    OBVIOUS
  <2> QED
    BY <2>1 DEF Claims
<1>5. PICK F \in [0 .. N -> S] : F[0] = <<>> /\ \A n \in 1 .. N : F[n] = step[n][F[n - 1]]
  <2> HIDE DEF step, N, S
  <2>2. \E F : Computes(N, S, F, <<>>, step)
    BY <1>2, <1>3, <1>4, Computed
  <2> QED
    BY <2>2 DEF Computes
<1> HIDE DEF S
<1>6. ASSUME NEW n \in 1 .. N PROVE F[n] = claimDrive(readings, n, F[n - 1])
  <2>1. n - 1 \in 0 .. N
    BY <1>2
  <2>2. F[n - 1] \in S
    BY <2>1
  <2> QED
    BY <1>5, <2>2
<1> HIDE DEF N
<1>7. F = Rule(F)
  <2>1. \A p \in 0 .. N : F[p] = IF p = 0 THEN <<>> ELSE claimDrive(readings, p, F[p - 1])
    BY <1>2, <1>5, <1>6
  <2> QED
    BY <1>5, <2>1
<1>8. G = Rule(G)
  BY <1>7
<1>9. \A n \in 0 .. N : G[n] = F[n]
  <2> DEFINE T == {n \in 0 .. N : G[n] = F[n]}
  <2> HIDE DEF G
  <2>1. 0 \in T
    BY <1>2, <1>5, <1>8
  <2>2. ASSUME NEW n \in 1 .. N, n - 1 \in T PROVE n \in T
    <3>1. n \in 0 .. N /\ n # 0 /\ G[n - 1] = F[n - 1]
      BY <1>2, <2>2
    <3>2. G[n] = claimDrive(readings, n, G[n - 1])
      BY <1>8, <3>1
    <3> QED
      BY <1>6, <3>1, <3>2
  <2> HIDE DEF T
  <2>3. \A n \in 0 .. N : n \in T
    BY <1>2, <2>1, <2>2, CountUp
  <2> QED
    BY <2>3 DEF T
<1>10. G[N] = F[N]
  BY <1>2, <1>9
<1> HIDE DEF G
<1>11. flattenSensors(readings) = [d \in DOMAIN F[N] |-> F[N][d].source]
  BY <1>1, <1>10
<1>12. Claimed(F, readings)
  BY <1>5, <1>6 DEF Claimed, N
<1> QED
  BY <1>11, <1>12 DEF N, S

\* A drive is shown with the temperature of its own chip, for any number of drives, alike
\* or not, whatever serials are shown and in whatever order the chips lie.
LEMMA DrivesAreTheirOwn ==
  ASSUME NEW readings \in SUBSET HwReading, Own(readings), Placed(readings)
  PROVE  \A d \in DOMAIN flattenSensors(readings) : flattenSensors(readings)[d] = d
<1> DEFINE N == Cardinality(HwChips)
           Good(a, n) == \A d \in DOMAIN a : a[d] \in readings /\ a[d].name = d /\ a[d].place \in 1 .. n
<1>1. PICK F \in [0 .. N -> Claims(readings)] :
        Claimed(F, readings) /\ flattenSensors(readings) = [d \in DOMAIN F[N] |-> F[N][d].source]
  BY FlattenDef
<1>2. N \in Nat
  BY ChipCount
<1> HIDE DEF N
<1>3. \A n \in 0 .. N : Good(F[n], n)
  <2> DEFINE T == {n \in 0 .. N : Good(F[n], n)}
  <2>1. 0 \in T
    BY <1>1, <1>2 DEF Claimed
  <2>2. ASSUME NEW n \in 1 .. N, n - 1 \in T PROVE n \in T
    <3>1. n \in 0 .. N /\ n - 1 \in 0 .. N /\ n \in Nat /\ n # 0
      BY <1>2
    <3>2. Good(F[n - 1], n - 1)
      BY <2>2
    <3>3. F[n] = claimDrive(readings, n, F[n - 1])
      BY <1>1 DEF Claimed, N
    <3>4. F[n - 1] \in Claims(readings)
      BY <3>1
    <3>5. CASE F[n] = F[n - 1]
      <4>1. Good(F[n], n)
        BY <3>1, <3>2, <3>5
      <4> QED
        BY <3>1, <4>1
    <3>6. ASSUME NEW r \in readings, NEW d \in DiskChips, r.place = n, r.name \in DiskChips,
                 d = matchDrive(r.name, DOMAIN F[n - 1]), d # NoDrive,
                 F[n] = [x \in {d} \cup DOMAIN F[n - 1] |-> IF x = d THEN r ELSE F[n - 1][x]]
          PROVE  n \in T
      <4>1. r.name \notin DOMAIN F[n - 1]
        <5> SUFFICES ASSUME r.name \in DOMAIN F[n - 1] PROVE FALSE
          OBVIOUS
        <5> DEFINE s == F[n - 1][r.name]
        <5>1. s \in readings /\ s.name = r.name /\ s.place \in 1 .. n - 1
          BY <3>2
        <5> HIDE DEF s
        <5>2. s.place = r.place
          BY <3>1, <3>6, <5>1 DEF Placed
        <5> QED
          BY <3>1, <3>6, <5>1, <5>2
      <4>2. d = r.name
        BY <3>6, <4>1, DriveIsOwn
      <4>3. ASSUME NEW x \in DOMAIN F[n]
            PROVE  F[n][x] \in readings /\ F[n][x].name = x /\ F[n][x].place \in 1 .. n
        <5>1. CASE x = d
          <6>1. F[n][x] = r
            BY <3>6, <5>1
          <6> QED
            BY <3>1, <3>6, <4>2, <5>1, <6>1
        <5>2. CASE x # d
          <6>1. x \in DOMAIN F[n - 1] /\ F[n][x] = F[n - 1][x]
            BY <3>6, <4>3, <5>2
          <6> QED
            BY <3>1, <3>2, <6>1
        <5> QED
          BY <5>1, <5>2
      <4> QED
        BY <3>1, <4>3
    <3> DEFINE a == F[n - 1]
    <3>7. a \in Claims(readings) /\ F[n] = claimDrive(readings, n, a)
      BY <3>3, <3>4
    <3> HIDE DEF a
    <3>8. ClaimStep(readings, n, a, F[n])
      <4>1. ClaimStep(readings, n, a, claimDrive(readings, n, a))
        BY <3>7, ClaimOf
      <4> QED
        BY <3>7, <4>1
    <3>9. CASE F[n] = a
      BY <3>5, <3>9 DEF a
    <3>10. CASE F[n] # a
      <4>1. PICK r \in readings, d \in DiskChips :
               /\ r.place = n /\ r.name \in DiskChips
               /\ d = matchDrive(r.name, DOMAIN a) /\ d # NoDrive
               /\ F[n] = [x \in {d} \cup DOMAIN a |-> IF x = d THEN r ELSE a[x]]
        BY <3>8, <3>10 DEF ClaimStep
      <4> QED
        BY <3>6, <4>1 DEF a
    <3> QED
      BY <3>9, <3>10
  <2> HIDE DEF T
  <2>3. \A n \in 0 .. N : n \in T
    BY <1>2, <2>1, <2>2, CountUp
  <2> QED
    BY <2>3 DEF T
<1>4. Good(F[N], N)
  BY <1>2, <1>3
<1> QED
  BY <1>1, <1>4 DEF Own

\* Counters, the memo, and a request.
HwCounters == [at : Nat, boot : Nat]
HwMemo == [has : BOOLEAN, counters : HwCounters, layout : HwLayout, layoutAt : Nat, touched : Nat]
HwRequest ==
    [pc : {"idle", "sample", "again", "gap", "store"}, since : Nat, prev : HwCounters,
     sens : {"none", "known", "discover", "read", "done"}, layout : HwLayout, fresh : BOOLEAN,
     readings : SUBSET HwReading, ctr : HwCounters, base : HwCounters]
HwMachine == [boot : Nat \ {0}, home : Homes, up : SUBSET HwChips]

HwTypeOK ==
    /\ hwClock \in Nat
    /\ hwNode \in HwMachine
    /\ memo \in HwMemo
    /\ rd \in [Readers -> HwRequest]

\* A layout that names the places where a machine has its chips.
AtHome(layout, node) == \A c \in DOMAIN layout.place : layout.place[c] = node.home[c]

\* A layout is no newer than the machine's boot, and one of this boot names the places.
Dated(layout, node) ==
    layout.boot <= node.boot /\ (layout.boot = node.boot => AtHome(layout, node))

\* The layout that is remembered; one without a boot is none.
LayoutInv(l, node) == Dated(l, node) /\ (l.boot = 0 => l.place = <<>>)

\* A request lives within one boot.  The layout it holds without a boot it has found itself,
\* and what it read with a layout of this boot is right.
HwRequestInv(q, node) ==
    /\ q.ctr # NoCounters => q.ctr.boot = node.boot
    /\ Dated(q.layout, node) /\ (q.layout.boot = 0 => AtHome(q.layout, node))
    /\ Placed(q.readings)
    /\ q.sens = "done" /\ q.layout.boot \in {0, node.boot} => Own(q.readings)
    /\ q.pc \in {"gap", "store"} => q.sens = "done" /\ q.layout.boot = node.boot

HwInv ==
    /\ HwTypeOK
    /\ LayoutInv(memo.layout, hwNode)
    /\ \A r \in Readers : HwRequestInv(rd[r], hwNode)
    /\ SensorsAreTheirOwn

LEMMA NoHwReadIsFine ==
  ASSUME NEW node \in HwMachine
  PROVE  NoHwRead \in HwRequest /\ HwRequestInv(NoHwRead, node)
<1>1. <<>> \in [{} -> Places] /\ {} \in SUBSET HwChips /\ DOMAIN <<>> = {}
  OBVIOUS
<1>2. <<>> \in UNION {[D -> Places] : D \in SUBSET HwChips}
  BY <1>1
<1>3. NoLayout \in HwLayout
  BY <1>2 DEF NoLayout, HwLayout
<1>4. NoHwRead \in HwRequest
  BY <1>3 DEF NoHwRead, HwRequest, NoCounters, HwCounters
<1>5. Dated(NoLayout, node) /\ AtHome(NoLayout, node) /\ NoLayout.boot = 0
  BY <1>1 DEF NoLayout, Dated, AtHome, HwMachine
<1>6. Placed({}) /\ Own({})
  BY DEF Placed, Own
<1> QED
  BY <1>4, <1>5, <1>6 DEF NoHwRead, HwRequestInv

\* What is read where the chips are is their own; whatever the layout, a chip has one place.
LEMMA ReadingsAreTheirOwn ==
  ASSUME NEW node \in HwMachine, NEW l \in HwLayout
  PROVE  LET got == readNodeSensors(node, l).readings
         IN  got \in SUBSET HwReading /\ Placed(got) /\ (AtHome(l, node) => Own(got))
<1> DEFINE got == readNodeSensors(node, l).readings
           there == readFiles(node, l)
           At(c) == CHOOSE s \in readFile(node, l.place[c]) : TRUE
<1>0. PICK D \in SUBSET HwChips : l.place \in [D -> Places]
  BY DEF HwLayout
<1>1. l.zones \subseteq Zones
  BY DEF HwLayout
<1>2. got = {[name |-> c, place |-> l.place[c], source |-> At(c)] : c \in there}
            \cup {[name |-> z, place |-> 0, source |-> z] : z \in l.zones}
  BY DEF readNodeSensors
<1>3. ASSUME NEW c \in there
      PROVE  /\ c \in DOMAIN l.place /\ c \in HwChips /\ l.place[c] \in Nat \ {0}
             /\ At(c) \in node.up /\ At(c) \in HwChips /\ node.home[At(c)] = l.place[c]
  <2>1. c \in DOMAIN l.place /\ readFile(node, l.place[c]) # {}
    BY DEF readFiles
  <2>2. At(c) \in readFile(node, l.place[c])
    BY <2>1
  <2>3. node.up \subseteq HwChips
    BY DEF HwMachine
  <2> HIDE DEF At
  <2>4. l.place[c] \in Places
    BY <1>0, <2>1
  <2> QED
    BY <1>0, <2>1, <2>2, <2>3, <2>4, ChipCount DEF readFile
<1> HIDE DEF At, there, got
<1>4. got \subseteq HwReading
  <2>1. ASSUME NEW c \in there
        PROVE  [name |-> c, place |-> l.place[c], source |-> At(c)] \in HwReading
    BY <1>3 DEF HwReading
  <2>2. ASSUME NEW z \in l.zones PROVE [name |-> z, place |-> 0, source |-> z] \in HwReading
    BY <1>1 DEF HwReading
  <2> QED
    BY <1>2, <2>1, <2>2
<1>5. \A r \in got : r.place # 0 => r.name \in there /\ r.place = l.place[r.name]
  BY <1>2
<1>6. Placed(got)
  BY <1>5 DEF Placed
<1>7. ASSUME AtHome(l, node) PROVE Own(got)
  <2>1. ASSUME NEW c \in there PROVE At(c) = c
    <3>1. node.home[c] = node.home[At(c)]
      BY <1>3, <1>7 DEF AtHome
    <3>2. node.home \in Homes
      BY DEF HwMachine
    <3> QED
      BY <1>3, <3>1, <3>2 DEF Homes
  <2> QED
    BY <1>2, <2>1 DEF Own
<1> QED
  BY <1>4, <1>6, <1>7 DEF got

LEMMA DiscoveredIsHome ==
  ASSUME NEW node \in HwMachine
  PROVE  discoverSensors(node) \in HwLayout /\ AtHome(discoverSensors(node), node)
         /\ discoverSensors(node).boot = 0
<1> DEFINE l == discoverSensors(node)
           pl == [c \in node.up |-> node.home[c]]
<1>1. node.up \in SUBSET HwChips /\ node.home \in [HwChips -> Places]
  BY DEF HwMachine, Homes
<1>2. pl \in [node.up -> Places]
  BY <1>1
<1>3. pl \in UNION {[D -> Places] : D \in SUBSET HwChips}
  BY <1>1, <1>2
<1>4. thermalZones(node.up) \in SUBSET Zones
  BY DEF thermalZones
<1>5. l = [boot |-> 0, place |-> pl, zones |-> thermalZones(node.up)]
  BY DEF discoverSensors, listDir
<1>6. \A c \in DOMAIN pl : pl[c] = node.home[c]
  OBVIOUS
<1> HIDE DEF pl, l
<1>7. l \in HwLayout
  BY <1>3, <1>4, <1>5 DEF HwLayout
<1>8. AtHome(l, node) /\ l.boot = 0
  BY <1>5, <1>6 DEF AtHome
<1> QED
  BY <1>7, <1>8 DEF l

\* A step of one request.
LEMMA ReaderGoesKeeps ==
  ASSUME HwInv, NEW r \in Readers, NEW q \in HwRequest, HwRequestInv(q, hwNode), ReaderGoes(r, q)
  PROVE  HwInv'
<1>1. /\ hwClock' = hwClock /\ hwNode' = hwNode /\ memo' = memo /\ shown' = NoView
      /\ rd' = [rd EXCEPT ![r] = q]
  BY DEF ReaderGoes
<1>2. rd \in [Readers -> HwRequest]
  BY DEF HwInv, HwTypeOK
<1>3. rd' \in [Readers -> HwRequest] /\ \A s \in Readers : rd'[s] = IF s = r THEN q ELSE rd[s]
  BY <1>1, <1>2
<1>4. \A s \in Readers : HwRequestInv(rd'[s], hwNode)
  BY <1>3 DEF HwInv
<1>5. SensorsAreTheirOwn'
  BY <1>1 DEF SensorsAreTheirOwn, NoView
<1>6. HwTypeOK'
  BY <1>1, <1>3 DEF HwInv, HwTypeOK
<1>7. LayoutInv(memo.layout, hwNode)'
  BY <1>1 DEF HwInv, LayoutInv, Dated, AtHome
<1>8. \A s \in Readers : HwRequestInv(rd[s], hwNode)'
  BY <1>1, <1>4 DEF HwRequestInv, Dated, AtHome
<1> QED
  BY <1>5, <1>6, <1>7, <1>8 DEF HwInv

LEMMA AskedKeeps ==
  ASSUME HwInv, NEW r \in Readers, HardwareAsked(r)
  PROVE  HwInv'
<1> DEFINE q == [NoHwRead EXCEPT
                   !.pc = "sample", !.since = hwClock, !.prev = recallHardware.prev,
                   !.layout = recallHardware.layout,
                   !.sens = IF recallHardware.layout = NoLayout THEN "discover" ELSE "known"]
<1>1. ReaderGoes(r, q)
  BY DEF HardwareAsked
<1>2. hwNode \in HwMachine /\ memo \in HwMemo /\ hwClock \in Nat
  BY DEF HwInv, HwTypeOK
<1>3. NoHwRead \in HwRequest /\ HwRequestInv(NoHwRead, hwNode)
  BY <1>2, NoHwReadIsFine
<1>4. recallHardware.prev \in HwCounters
  BY <1>2 DEF recallHardware, HwMemo
<1>5. /\ recallHardware.layout \in HwLayout /\ Dated(recallHardware.layout, hwNode)
      /\ recallHardware.layout.boot = 0 => AtHome(recallHardware.layout, hwNode)
  <2>1. CASE recallHardware.layout = NoLayout
    <3>1. NoHwRead.layout = NoLayout /\ NoLayout.boot = 0
      BY DEF NoHwRead, NoLayout
    <3>2. NoLayout \in HwLayout
      BY <1>3, <3>1 DEF HwRequest
    <3> QED
      BY <1>3, <2>1, <3>1, <3>2 DEF HwRequestInv
  <2>2. CASE recallHardware.layout # NoLayout
    <3>1. recallHardware.layout = memo.layout
      BY <2>2 DEF recallHardware
    <3>2. memo.layout \in HwLayout
      BY <1>2 DEF HwMemo
    <3>3. Dated(memo.layout, hwNode) /\ (memo.layout.boot = 0 => memo.layout.place = <<>>)
      BY DEF HwInv, LayoutInv
    <3>4. memo.layout.boot = 0 => AtHome(memo.layout, hwNode)
      BY <3>3 DEF AtHome
    <3> QED
      BY <3>1, <3>2, <3>3, <3>4
  <2> QED
    BY <2>1, <2>2
<1>6. /\ q.ctr = NoHwRead.ctr /\ q.layout = recallHardware.layout /\ q.readings = NoHwRead.readings
      /\ q.sens \in {"discover", "known"} /\ q.pc = "sample"
  BY <1>3 DEF HwRequest
<1>7. q \in HwRequest
  BY <1>2, <1>3, <1>4, <1>5 DEF HwRequest
<1> HIDE DEF q
<1>8. HwRequestInv(q, hwNode)
  BY <1>3, <1>5, <1>6 DEF HwRequestInv
<1> QED
  BY <1>1, <1>7, <1>8, ReaderGoesKeeps

LEMMA SensorsKeep ==
  ASSUME HwInv, NEW r \in Readers,
         \/ HardwareCounters(r) \/ KnownSensorsRead(r) \/ SensorsDiscovered(r)
         \/ FreshSensorsRead(r) \/ GapOver(r) \/ HardwareFails(r)
  PROVE  HwInv'
<1>0. /\ hwNode \in HwMachine /\ hwClock \in Nat /\ hwNode.boot \in Nat /\ hwNode.boot # 0
      /\ rd[r] \in HwRequest /\ HwRequestInv(rd[r], hwNode)
  BY DEF HwInv, HwTypeOK, HwMachine
<1>1. CASE HardwareCounters(r) \/ GapOver(r)
  <2> DEFINE c == [at |-> hwClock, boot |-> hwNode.boot]
  <2>1. c \in HwCounters /\ c.boot = hwNode.boot
    BY <1>0 DEF HwCounters
  <2> HIDE DEF c
  <2>2. CASE HardwareCounters(r)
    <3> DEFINE q == [rd[r] EXCEPT !.ctr = c]
    <3>1. ReaderGoes(r, q)
      BY <2>2 DEF HardwareCounters, c
    <3>2. q \in HwRequest
      BY <1>0, <2>1 DEF HwRequest
    <3>3. /\ q.ctr = c /\ q.layout = rd[r].layout /\ q.readings = rd[r].readings
          /\ q.sens = rd[r].sens /\ q.pc = rd[r].pc
      BY <1>0 DEF HwRequest
    <3> HIDE DEF q
    <3>4. HwRequestInv(q, hwNode)
      BY <1>0, <2>1, <3>3 DEF HwRequestInv
    <3> QED
      BY <3>1, <3>2, <3>4, ReaderGoesKeeps
  <2>3. CASE GapOver(r)
    <3> DEFINE q == [rd[r] EXCEPT !.pc = "store", !.ctr = c]
    <3>1. ReaderGoes(r, q) /\ rd[r].pc = "gap"
      BY <2>3 DEF GapOver, c
    <3>2. q \in HwRequest
      BY <1>0, <2>1 DEF HwRequest
    <3>3. /\ q.ctr = c /\ q.layout = rd[r].layout /\ q.readings = rd[r].readings
          /\ q.sens = rd[r].sens /\ q.pc = "store"
      BY <1>0 DEF HwRequest
    <3> HIDE DEF q
    <3>4. HwRequestInv(q, hwNode)
      BY <1>0, <2>1, <3>1, <3>3 DEF HwRequestInv
    <3> QED
      BY <3>1, <3>2, <3>4, ReaderGoesKeeps
  <2> QED
    BY <1>1, <2>2, <2>3
<1>2. CASE KnownSensorsRead(r)
  <2> DEFINE got == readNodeSensors(hwNode, rd[r].layout)
  <2>1. rd[r].pc = "sample" /\ rd[r].layout \in HwLayout
    BY <1>0, <1>2 DEF KnownSensorsRead, HwRequest
  <2>2. /\ got.readings \in SUBSET HwReading /\ Placed(got.readings)
        /\ AtHome(rd[r].layout, hwNode) => Own(got.readings)
    BY <1>0, <2>1, ReadingsAreTheirOwn
  <2>3. CASE got.stale
    <3> DEFINE q == [rd[r] EXCEPT !.sens = "discover"]
    <3>1. ReaderGoes(r, q)
      BY <1>2, <2>3 DEF KnownSensorsRead
    <3>2. q \in HwRequest
      BY <1>0 DEF HwRequest
    <3>3. /\ q.ctr = rd[r].ctr /\ q.layout = rd[r].layout /\ q.readings = rd[r].readings
          /\ q.sens = "discover" /\ q.pc = "sample"
      BY <1>0, <2>1 DEF HwRequest
    <3> HIDE DEF q
    <3>4. HwRequestInv(q, hwNode)
      BY <1>0, <3>3 DEF HwRequestInv
    <3> QED
      BY <3>1, <3>2, <3>4, ReaderGoesKeeps
  <2>4. CASE ~got.stale
    <3> DEFINE q == [rd[r] EXCEPT !.sens = "done", !.readings = got.readings]
    <3>1. ReaderGoes(r, q)
      BY <1>2, <2>4 DEF KnownSensorsRead
    <3> HIDE DEF got
    <3>2. q \in HwRequest
      BY <1>0, <2>2 DEF HwRequest
    <3>3. /\ q.ctr = rd[r].ctr /\ q.layout = rd[r].layout /\ q.readings = got.readings
          /\ q.sens = "done" /\ q.pc = "sample"
      BY <1>0, <2>1 DEF HwRequest
    <3> HIDE DEF q
    <3>4. rd[r].layout.boot \in {0, hwNode.boot} => Own(got.readings)
      BY <1>0, <2>2 DEF HwRequestInv, Dated
    <3>5. HwRequestInv(q, hwNode)
      BY <1>0, <2>2, <3>3, <3>4 DEF HwRequestInv
    <3> QED
      BY <3>1, <3>2, <3>5, ReaderGoesKeeps
  <2> QED
    BY <2>3, <2>4
<1>3. CASE SensorsDiscovered(r)
  <2> DEFINE l == discoverSensors(hwNode)
             q == [rd[r] EXCEPT !.sens = "read", !.layout = l, !.fresh = TRUE]
  <2>1. ReaderGoes(r, q) /\ rd[r].pc \in {"sample", "again"}
    BY <1>3 DEF SensorsDiscovered
  <2>2. l \in HwLayout /\ AtHome(l, hwNode) /\ l.boot = 0
    BY <1>0, DiscoveredIsHome
  <2> HIDE DEF l
  <2>3. q \in HwRequest
    BY <1>0, <2>2 DEF HwRequest
  <2>4. /\ q.ctr = rd[r].ctr /\ q.layout = l /\ q.readings = rd[r].readings
        /\ q.sens = "read" /\ q.pc = rd[r].pc
    BY <1>0 DEF HwRequest
  <2> HIDE DEF q
  <2>5. HwRequestInv(q, hwNode)
    BY <1>0, <2>1, <2>2, <2>4 DEF HwRequestInv, Dated
  <2> QED
    BY <2>1, <2>3, <2>5, ReaderGoesKeeps
<1>4. CASE FreshSensorsRead(r)
  <2> DEFINE got == readNodeSensors(hwNode, rd[r].layout).readings
             q == [rd[r] EXCEPT !.sens = "done", !.readings = got]
  <2>1. ReaderGoes(r, q) /\ rd[r].pc \in {"sample", "again"} /\ rd[r].layout \in HwLayout
    BY <1>0, <1>4 DEF FreshSensorsRead, HwRequest
  <2>2. /\ got \in SUBSET HwReading /\ Placed(got)
        /\ AtHome(rd[r].layout, hwNode) => Own(got)
    BY <1>0, <2>1, ReadingsAreTheirOwn
  <2> HIDE DEF got
  <2>3. q \in HwRequest
    BY <1>0, <2>2 DEF HwRequest
  <2>4. /\ q.ctr = rd[r].ctr /\ q.layout = rd[r].layout /\ q.readings = got
        /\ q.sens = "done" /\ q.pc = rd[r].pc
    BY <1>0 DEF HwRequest
  <2> HIDE DEF q
  <2>5. rd[r].layout.boot \in {0, hwNode.boot} => Own(got)
    BY <1>0, <2>2 DEF HwRequestInv, Dated
  <2>6. HwRequestInv(q, hwNode)
    BY <1>0, <2>1, <2>2, <2>4, <2>5 DEF HwRequestInv
  <2> QED
    BY <2>1, <2>3, <2>6, ReaderGoesKeeps
<1>5. CASE HardwareFails(r)
  <2>1. ReaderGoes(r, NoHwRead)
    BY <1>5 DEF HardwareFails
  <2> QED
    BY <1>0, <2>1, NoHwReadIsFine, ReaderGoesKeeps
<1> QED
  BY <1>1, <1>2, <1>3, <1>4, <1>5

LEMMA ComparedKeeps ==
  ASSUME HwInv, NEW r \in Readers, SampleCompared(r)
  PROVE  HwInv'
<1>0. /\ hwNode \in HwMachine /\ hwNode.boot \in Nat /\ hwNode.boot # 0
      /\ rd[r] \in HwRequest /\ HwRequestInv(rd[r], hwNode)
  BY DEF HwInv, HwTypeOK, HwMachine
<1>1. /\ rd[r].pc \in {"sample", "again"} /\ rd[r].sens = "done"
      /\ rd[r].ctr # NoCounters /\ rd[r].ctr.boot = hwNode.boot
  BY <1>0 DEF SampleCompared, Sampled, HwRequestInv
<1>2. /\ rd[r].layout \in HwLayout /\ rd[r].ctr \in HwCounters /\ rd[r].prev \in HwCounters
      /\ NoCounters \in HwCounters
  BY <1>0 DEF HwRequest, NoCounters, HwCounters
<1>3. CASE rd[r].layout.boot \in {0, rd[r].ctr.boot}
  <2> DEFINE b == rd[r].ctr.boot
             l == [rd[r].layout EXCEPT !.boot = b]
             u == [rd[r] EXCEPT !.layout.boot = b]
             q == BaselineChosen(u)
  <2>1. ReaderGoes(r, q)
    BY <1>3 DEF SampleCompared
  <2>2. b = hwNode.boot /\ b \in Nat
    BY <1>0, <1>1
  <2> HIDE DEF b
  <2>3. l \in HwLayout /\ l.boot = b /\ l.place = rd[r].layout.place
    BY <1>2, <2>2 DEF HwLayout
  <2>4. u = [rd[r] EXCEPT !.layout = l]
    BY <1>0 DEF HwRequest
  <2>5. AtHome(l, hwNode)
    BY <1>0, <1>1, <1>3, <2>3 DEF HwRequestInv, Dated, AtHome
  <2> HIDE DEF l
  <2>6. u \in HwRequest /\ u.layout = l /\ u.ctr = rd[r].ctr /\ u.readings = rd[r].readings
        /\ u.sens = "done"
    BY <1>0, <1>1, <2>3, <2>4 DEF HwRequest
  <2> HIDE DEF u
  <2>7. /\ q \in HwRequest /\ q.layout = l /\ q.ctr = rd[r].ctr /\ q.readings = rd[r].readings
        /\ q.sens = "done" /\ q.pc \in {"gap", "store"}
    <3>1. u.prev \in HwCounters /\ u.ctr \in HwCounters
      BY <2>6 DEF HwRequest
    <3>2. q \in {[u EXCEPT !.pc = "store", !.base = u.prev, !.prev = NoCounters],
                 [u EXCEPT !.pc = "gap", !.base = u.ctr, !.prev = NoCounters]}
      BY DEF BaselineChosen
    <3>3. CASE q = [u EXCEPT !.pc = "store", !.base = u.prev, !.prev = NoCounters]
      <4> HIDE DEF q
      <4> QED
        BY <1>2, <2>6, <3>1, <3>3 DEF HwRequest
    <3>4. CASE q = [u EXCEPT !.pc = "gap", !.base = u.ctr, !.prev = NoCounters]
      <4> HIDE DEF q
      <4> QED
        BY <1>2, <2>6, <3>1, <3>4 DEF HwRequest
    <3> QED
      BY <3>2, <3>3, <3>4
  <2> HIDE DEF q
  <2>8. Own(rd[r].readings) /\ Placed(rd[r].readings)
    BY <1>0, <1>1, <1>3 DEF HwRequestInv
  <2>9. Dated(l, hwNode) /\ l.boot = hwNode.boot
    BY <1>0, <2>2, <2>3, <2>5 DEF Dated
  <2>10. HwRequestInv(q, hwNode)
    BY <1>0, <1>1, <2>5, <2>7, <2>8, <2>9 DEF HwRequestInv
  <2> QED
    BY <2>1, <2>7, <2>10, ReaderGoesKeeps
<1>4. CASE rd[r].layout.boot \notin {0, rd[r].ctr.boot}
  <2> DEFINE q == [rd[r] EXCEPT !.pc = "again", !.sens = "discover"]
  <2>1. ReaderGoes(r, q)
    BY <1>4 DEF SampleCompared
  <2>2. q \in HwRequest
    BY <1>0 DEF HwRequest
  <2>3. /\ q.ctr = rd[r].ctr /\ q.layout = rd[r].layout /\ q.readings = rd[r].readings
        /\ q.sens = "discover" /\ q.pc = "again"
    BY <1>0 DEF HwRequest
  <2> HIDE DEF q
  <2>4. HwRequestInv(q, hwNode)
    BY <1>0, <2>3 DEF HwRequestInv
  <2> QED
    BY <2>1, <2>2, <2>4, ReaderGoesKeeps
<1> QED
  BY <1>3, <1>4

LEMMA AnsweredKeeps ==
  ASSUME HwInv, NEW r \in Readers, HardwareAnswered(r)
  PROVE  HwInv'
<1> DEFINE q == rd[r]
<1>0. /\ hwNode \in HwMachine /\ hwNode.boot \in Nat /\ hwNode.boot # 0 /\ hwClock \in Nat
      /\ q \in HwRequest /\ HwRequestInv(q, hwNode) /\ memo \in HwMemo
      /\ LayoutInv(memo.layout, hwNode)
  BY DEF HwInv, HwTypeOK, HwMachine
<1>1. /\ q.sens = "done" /\ q.layout.boot = hwNode.boot /\ Own(q.readings) /\ Placed(q.readings)
      /\ q.readings \in SUBSET HwReading /\ q.layout \in HwLayout /\ Dated(q.layout, hwNode)
      /\ q.ctr \in HwCounters
  BY <1>0 DEF HardwareAnswered, HwRequestInv, HwRequest
<1>2. /\ memo' = rememberHardware(q) /\ hwNode' = hwNode /\ hwClock' = hwClock
      /\ rd' = [rd EXCEPT ![r] = NoHwRead]
      /\ shown' = hardwareView(q.readings, q.base, q.ctr)
  BY DEF HardwareAnswered
<1> HIDE DEF q
<1>3. NoMemo \in HwMemo /\ LayoutInv(NoMemo.layout, hwNode)
  <2>1. NoHwRead \in HwRequest /\ HwRequestInv(NoHwRead, hwNode)
    BY <1>0, NoHwReadIsFine
  <2>2. NoHwRead.layout = NoLayout
    BY DEF NoHwRead
  <2>3. NoLayout \in HwLayout /\ Dated(NoLayout, hwNode)
    BY <2>1, <2>2 DEF HwRequest, HwRequestInv
  <2>4. NoMemo \in HwMemo
    BY <2>3 DEF NoMemo, HwMemo, NoCounters, HwCounters
  <2>5. NoMemo.layout = NoLayout /\ NoLayout.place = <<>>
    BY DEF NoMemo, NoLayout
  <2> QED
    BY <2>3, <2>4, <2>5 DEF LayoutInv
<1>4. memo' \in HwMemo /\ LayoutInv(memo'.layout, hwNode)
  <2> DEFINE old == IF memo.has /\ hwClock - memo.touched > layoutTTL THEN NoMemo ELSE memo
  <2>1. old \in HwMemo /\ LayoutInv(old.layout, hwNode)
    BY <1>0, <1>3
  <2> HIDE DEF old
  <2>2. memo' = [has |-> TRUE, touched |-> hwClock,
                 counters |-> IF q.ctr.at > old.counters.at THEN q.ctr ELSE old.counters,
                 layout |-> IF q.fresh THEN q.layout ELSE old.layout,
                 layoutAt |-> IF q.fresh THEN hwClock ELSE old.layoutAt]
    BY <1>2 DEF rememberHardware, old
  <2>3. LayoutInv(q.layout, hwNode)
    BY <1>0, <1>1 DEF LayoutInv
  <2>4. /\ old.counters \in HwCounters /\ old.layout \in HwLayout /\ old.layoutAt \in Nat
    BY <2>1 DEF HwMemo
  <2>5. memo' \in HwMemo
    BY <1>0, <1>1, <2>2, <2>4 DEF HwMemo
  <2>6. memo'.layout = q.layout \/ memo'.layout = old.layout
    BY <2>2
  <2> QED
    BY <2>1, <2>3, <2>5, <2>6
<1>5. SensorsAreTheirOwn'
  <2>1. \A t \in shown'.temps : t.name = t.source
    BY <1>1, <1>2 DEF hardwareView, Own
  <2>2. shown'.byDrive = flattenSensors(q.readings)
    BY <1>2 DEF hardwareView
  <2>3. \A d \in DOMAIN flattenSensors(q.readings) : flattenSensors(q.readings)[d] = d
    BY <1>1, DrivesAreTheirOwn
  <2> QED
    BY <2>1, <2>2, <2>3 DEF SensorsAreTheirOwn
<1>6. rd \in [Readers -> HwRequest] /\ NoHwRead \in HwRequest /\ HwRequestInv(NoHwRead, hwNode)
  BY <1>0, NoHwReadIsFine DEF HwInv, HwTypeOK
<1>7. rd' \in [Readers -> HwRequest] /\ \A s \in Readers : rd'[s] = IF s = r THEN NoHwRead ELSE rd[s]
  BY <1>2, <1>6
<1>8. \A s \in Readers : HwRequestInv(rd'[s], hwNode)
  BY <1>6, <1>7 DEF HwInv
<1>9. HwTypeOK'
  BY <1>0, <1>2, <1>4, <1>7 DEF HwTypeOK
<1>10. LayoutInv(memo'.layout, hwNode') /\ \A s \in Readers : HwRequestInv(rd'[s], hwNode')
  BY <1>2, <1>4, <1>8
<1> QED
  BY <1>5, <1>9, <1>10 DEF HwInv

\* What happens around the manager.
LEMMA WorldKeeps ==
  ASSUME HwInv, HwTicks \/ NodeReboots \/ DriverChanges
  PROVE  HwInv'
<1>0. /\ hwNode \in HwMachine /\ hwNode.boot \in Nat /\ hwNode.boot # 0 /\ hwClock \in Nat
      /\ rd \in [Readers -> HwRequest] /\ \A r \in Readers : HwRequestInv(rd[r], hwNode)
      /\ memo \in HwMemo /\ LayoutInv(memo.layout, hwNode) /\ memo.layout.boot \in Nat
  BY DEF HwInv, HwTypeOK, HwMachine, HwMemo, HwLayout
<1>1. SensorsAreTheirOwn' /\ memo' = memo
  <2>1. shown' = NoView /\ memo' = memo
    BY DEF HwTicks, NodeReboots, DriverChanges
  <2> QED
    BY <2>1 DEF SensorsAreTheirOwn, NoView
<1>2. CASE HwTicks
  <2>1. hwClock' = hwClock + 1 /\ hwNode' = hwNode
    BY <1>2 DEF HwTicks
  <2>2. NoHwRead \in HwRequest /\ HwRequestInv(NoHwRead, hwNode)
    BY <1>0, NoHwReadIsFine
  <2>3. rd' = [r \in Readers |-> IF rd[r].pc # "idle" /\ hwClock + 1 - rd[r].since > readBudget
                                 THEN NoHwRead ELSE rd[r]]
    BY <1>2 DEF HwTicks
  <2>4. rd' \in [Readers -> HwRequest] /\ \A r \in Readers : rd'[r] \in {NoHwRead, rd[r]}
    BY <1>0, <2>2, <2>3
  <2>5. \A r \in Readers : HwRequestInv(rd'[r], hwNode)
    BY <1>0, <2>2, <2>4
  <2>6. HwTypeOK'
    BY <1>0, <1>1, <2>1, <2>4 DEF HwTypeOK
  <2>7. LayoutInv(memo'.layout, hwNode') /\ \A r \in Readers : HwRequestInv(rd'[r], hwNode')
    BY <1>0, <1>1, <2>1, <2>5
  <2> QED
    BY <1>1, <2>6, <2>7 DEF HwInv
<1>3. CASE NodeReboots
  <2>1. PICK h \in Homes : hwNode' = [hwNode EXCEPT !.boot = @ + 1, !.home = h]
    BY <1>3 DEF NodeReboots
  <2>2. hwNode' \in HwMachine /\ hwNode'.boot = hwNode.boot + 1
    <3> DEFINE b == hwNode.boot + 1
    <3>1. b \in Nat \ {0}
      BY <1>0
    <3>2. hwNode' = [hwNode EXCEPT !.boot = b, !.home = h]
      BY <2>1
    <3> HIDE DEF b
    <3>3. hwNode' \in HwMachine /\ hwNode'.boot = b
      BY <1>0, <3>1, <3>2 DEF HwMachine
    <3> QED
      BY <3>3 DEF b
  <2>3. rd' = [r \in Readers |-> NoHwRead] /\ hwClock' = hwClock
    BY <1>3 DEF NodeReboots
  <2>4. NoHwRead \in HwRequest /\ HwRequestInv(NoHwRead, hwNode')
    BY <2>2, NoHwReadIsFine
  <2>5. HwTypeOK'
    BY <1>0, <1>1, <2>2, <2>3, <2>4 DEF HwTypeOK
  <2>6. LayoutInv(memo.layout, hwNode')
    BY <1>0, <2>2 DEF LayoutInv, Dated
  <2>7. LayoutInv(memo'.layout, hwNode') /\ \A r \in Readers : HwRequestInv(rd'[r], hwNode')
    BY <1>1, <2>3, <2>4, <2>6
  <2> QED
    BY <1>1, <2>5, <2>7 DEF HwInv
<1>4. CASE DriverChanges
  <2>1. PICK c \in HwChips :
          hwNode' = [hwNode EXCEPT !.up = IF c \in @ THEN @ \ {c} ELSE @ \cup {c}]
    BY <1>4 DEF DriverChanges
  <2>2. hwNode' \in HwMachine /\ hwNode'.boot = hwNode.boot /\ hwNode'.home = hwNode.home
    BY <1>0, <2>1 DEF HwMachine
  <2>3. rd' = rd /\ hwClock' = hwClock
    BY <1>4 DEF DriverChanges
  <2>4. HwTypeOK'
    BY <1>0, <1>1, <2>2, <2>3 DEF HwTypeOK
  <2>5. LayoutInv(memo.layout, hwNode')
    BY <1>0, <2>2 DEF LayoutInv, Dated, AtHome
  <2>6. \A r \in Readers : HwRequestInv(rd[r], hwNode')
    BY <1>0, <2>2 DEF HwRequestInv, Dated, AtHome
  <2>7. LayoutInv(memo'.layout, hwNode') /\ \A r \in Readers : HwRequestInv(rd'[r], hwNode')
    BY <1>1, <2>3, <2>5, <2>6
  <2> QED
    BY <1>1, <2>4, <2>7 DEF HwInv
<1> QED
  BY <1>2, <1>3, <1>4

\* For any number of chips, drives and requests, whatever reboots and whatever driver comes
\* or goes: a view shows no chip's temperature under the name of another, although the
\* layout it was read with may be of an earlier boot, and none for a drive it does not
\* belong to, although drives may be alike.
THEOREM TemperaturesAreTheirOwn == HwSpec => []SensorsAreTheirOwn
<1>1. HwInit => HwInv
  <2> SUFFICES ASSUME HwInit PROVE HwInv
    OBVIOUS
  <2>1. hwNode \in HwMachine /\ hwClock \in Nat
    BY DEF HwInit, HwMachine
  <2>2. NoHwRead \in HwRequest /\ HwRequestInv(NoHwRead, hwNode)
    BY <2>1, NoHwReadIsFine
  <2>3. NoHwRead.layout = NoLayout /\ NoMemo.layout = NoLayout /\ NoLayout.place = <<>>
    BY DEF NoHwRead, NoMemo, NoLayout
  <2>4. NoLayout \in HwLayout /\ Dated(NoLayout, hwNode)
    BY <2>2, <2>3 DEF HwRequest, HwRequestInv
  <2>5. memo \in HwMemo
    BY <2>4 DEF HwInit, NoMemo, HwMemo, NoCounters, HwCounters
  <2>6. memo.layout = NoLayout /\ rd = [r \in Readers |-> NoHwRead] /\ shown = NoView
    BY <2>3 DEF HwInit
  <2>7. SensorsAreTheirOwn
    BY <2>6 DEF SensorsAreTheirOwn, NoView
  <2> QED
    BY <2>1, <2>2, <2>3, <2>4, <2>5, <2>6, <2>7 DEF HwInv, HwTypeOK, LayoutInv
<1>2. HwInv /\ [HwNext]_hwVars => HwInv'
  <2> SUFFICES ASSUME HwInv, [HwNext]_hwVars PROVE HwInv'
    OBVIOUS
  <2>1. CASE UNCHANGED hwVars
    <3>1. hwClock' = hwClock /\ hwNode' = hwNode /\ memo' = memo /\ rd' = rd /\ shown' = shown
      BY <2>1 DEF hwVars
    <3> QED
      BY <3>1 DEF HwInv, HwTypeOK, SensorsAreTheirOwn
  <2> QED
    BY <2>1, WorldKeeps, AskedKeeps, SensorsKeep, ComparedKeeps, AnsweredKeeps DEF HwNext
<1>3. HwInv => SensorsAreTheirOwn
  BY DEF HwInv
<1> QED
  BY <1>1, <1>2, <1>3, PTL DEF HwSpec
============================================================================
