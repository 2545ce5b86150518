---------------------------- MODULE NodeConfig ----------------------------
(***************************************************************************)
(* The configuration of one node: planned and applied by operators         *)
(* (internal/machineconfig), and watched for changes nobody here made      *)
(* (internal/configdrift).                                                 *)
(*                                                                         *)
(* A configuration is the set of settings it carries; a patch adds one.    *)
(* Snapshots and digests leave the secret out.  An apply reads the node,   *)
(* checks the digest of its plan, tells the drift watch what it is about   *)
(* to send, sends, and tells it the outcome, each a step of its own; the   *)
(* answer of the node may be lost.  The drift watch reads first and        *)
(* decides later.  Somebody with talosctl writes in between.               *)
(*                                                                         *)
(* Baselines are only written under storeMu, so decide, expect, unexpect   *)
(* and Confirm are one step each.  A damaged baseline file, the texts and  *)
(* the memory of old plans (which only words a refusal) are left out.      *)
(***************************************************************************)
EXTENDS Naturals, FiniteSets

CONSTANTS
    Patches,       \* settings an operator may patch in
    Modes,         \* apply modes an operator picks
    Operators,     \* requests
    MaxApplies,    \* applies begun
    MaxOutside     \* changes of the node by others, and restarts of the daemon

ASSUME ConfigAssumption ==
    /\ Patches \cap {"foreign", "secret", "none"} = {}
    /\ Modes \subseteq {"no-reboot", "reboot", "auto", "staged", "try"}
    /\ MaxApplies \in Nat /\ MaxOutside \in Nat

VARIABLES
    ncfg,     \* what the node runs
    nnext,    \* what it boots next, if something is staged
    nback,    \* what a try goes back to
    mlock,    \* Service.locks of the node: who holds the slot
    staged,   \* Service.staged of the node
    appl,     \* [Operators -> the plan and apply of a request]
    base,     \* the stored baseline
    rdg,      \* Service.readings of the node
    look,     \* the drift loop: idle, or holding a snapshot it read
    known,    \* the inventory has the machine
    applies, outside

nodeVars == <<ncfg, nnext, nback>>
applyVars == <<mlock, staged, appl, applies>>
driftVars == <<base, rdg, look>>
cfgVars == <<ncfg, nnext, nback, mlock, staged, appl, base, rdg, look, known, applies, outside>>

NoCfg == {"none"}
NoExp == [digest |-> NoCfg, mode |-> "none", age |-> 0, by |-> "none"]
NoBase == [ex |-> FALSE, snap |-> {}, exp |-> NoExp, drift |-> FALSE, onDrift |-> FALSE]
NotRead == [state |-> "not-read", snap |-> {}]
NoApply == [pc |-> "idle", patch |-> "none", mode |-> "none", digest |-> {}, read |-> {},
            exp |-> FALSE, ok |-> FALSE, touched |-> FALSE]

ConfigInit ==
    /\ ncfg = {} /\ nnext = NoCfg /\ nback = NoCfg
    /\ mlock = "none" /\ staged = [st |-> "none", by |-> "none"]
    /\ appl = [o \in Operators |-> NoApply]
    /\ base = NoBase /\ rdg = NotRead
    /\ look = [pc |-> "idle", snap |-> {}]
    /\ known = TRUE
    /\ applies = 0 /\ outside = 0

\* Snapshot: what is left after Redact; a secret does not show.
Snapshot(cfg) == cfg \ {"secret"}
ApplyPatches(cfg, p) == cfg \cup {p}
----------------------------------------------------------------------------
(***************************************************************************)
(* Plan and apply.                                                         *)
(***************************************************************************)
To(o, pc) == appl' = [appl EXCEPT ![o].pc = pc]
Rests(o) == appl' = [appl EXCEPT ![o] = NoApply]
InApply(o, pc) == appl[o].pc = pc

Plan(o, p) ==
    /\ InApply(o, "idle") /\ known /\ applies < MaxApplies /\ applies' = applies + 1
    /\ \E mode \in Modes :
         appl' = [appl EXCEPT ![o] = [NoApply EXCEPT !.pc = "lock", !.patch = p, !.mode = mode,
                                                     !.digest = Snapshot(ncfg)]]
    /\ UNCHANGED nodeVars /\ UNCHANGED driftVars /\ UNCHANGED <<mlock, staged, known, outside>>

\* lockMachine: the node's slot is free.
lockMachine(o) == mlock = "none"

\* ErrApplyBusy: the request's time ran out while it waited.
ApplyBusy(o) ==
    /\ InApply(o, "lock") /\ mlock # "none"
    /\ Rests(o)
    /\ UNCHANGED nodeVars /\ UNCHANGED driftVars /\ UNCHANGED <<mlock, staged, applies, known, outside>>

\* The slot, then the claim of a mode that stages.
reserveStaged(o) ==
    /\ InApply(o, "lock") /\ lockMachine(o)
    /\ IF appl[o].mode = "staged" /\ staged.st # "none"
       THEN Rests(o) /\ UNCHANGED <<staged, mlock>>
       ELSE /\ mlock' = o /\ To(o, "read")
            /\ staged' = IF appl[o].mode = "staged" THEN [st |-> "applying", by |-> o] ELSE staged
    /\ UNCHANGED nodeVars /\ UNCHANGED driftVars /\ UNCHANGED <<applies, known, outside>>

\* The claim is withdrawn if it still is this call's, and the slot released.
Withdrawn(o) == IF staged.by = o THEN [st |-> "none", by |-> "none"] ELSE staged

\* apply: one reading for the check and the patch.  It may fail.
checkBase(o) ==
    /\ InApply(o, "read")
    /\ \/ /\ Snapshot(ncfg) = appl[o].digest
          /\ appl' = [appl EXCEPT ![o].pc = "expect", ![o].read = ncfg, ![o].touched = FALSE]
          /\ UNCHANGED <<staged, mlock>>
       \/ Rests(o) /\ staged' = Withdrawn(o) /\ mlock' = "none"
    /\ UNCHANGED nodeVars /\ UNCHANGED driftVars /\ UNCHANGED <<applies, known, outside>>

Sent(o) == ApplyPatches(appl[o].read, appl[o].patch)

\* ApplyObserver before the call; a try leaves nothing.
expect(o) ==
    /\ InApply(o, "expect")
    /\ LET leaves == appl[o].mode # "try" /\ base.ex IN
       /\ base' = IF leaves
                  THEN [base EXCEPT !.exp = [digest |-> Snapshot(Sent(o)), mode |-> appl[o].mode, age |-> 0, by |-> o]]
                  ELSE base
       /\ appl' = [appl EXCEPT ![o].pc = "send", ![o].exp = leaves]
    /\ UNCHANGED nodeVars /\ UNCHANGED <<mlock, staged, applies, known, outside, rdg, look>>

\* Something other than this apply has changed the node.
Touch == [o \in Operators |-> [appl[o] EXCEPT !.touched = TRUE]]

\* The node takes the configuration or refuses it; the answer may be lost on the way.
ApplyConfiguration(o) ==
    /\ InApply(o, "send")
    /\ \E takes, ok \in BOOLEAN :
         /\ ok => takes
         /\ appl' = [appl EXCEPT ![o].pc = "outcome", ![o].ok = ok]
         /\ IF ~takes THEN UNCHANGED nodeVars
            ELSE CASE appl[o].mode = "staged" -> nnext' = Sent(o) /\ UNCHANGED <<ncfg, nback>>
                   [] appl[o].mode = "try" -> /\ nback' = IF nback = NoCfg THEN ncfg ELSE nback
                                              /\ ncfg' = Sent(o) /\ UNCHANGED nnext
                   [] OTHER -> ncfg' = Sent(o) /\ nback' = NoCfg
                               /\ nnext' = IF appl[o].mode = "no-reboot" THEN nnext ELSE NoCfg
    /\ UNCHANGED driftVars /\ UNCHANGED <<mlock, staged, applies, known, outside>>

\* unexpect: only the expectation of this very apply.
unexpect(o) == IF base.exp.by = o /\ base.exp.digest = Snapshot(Sent(o)) THEN [base EXCEPT !.exp = NoExp] ELSE base

\* ApplyObserver after the call: an error takes the expectation back (success pokes the
\* drift loop, which may look at any time as it is).  Then Apply returns: commit, abort,
\* or forget what a reboot or a try made untrue.
Apply(o) ==
    /\ InApply(o, "outcome")
    /\ base' = IF ~appl[o].ok /\ appl[o].exp THEN unexpect(o) ELSE base
    /\ staged' = IF ~appl[o].ok THEN Withdrawn(o)
                 ELSE IF appl[o].mode \in {"reboot", "try"} THEN [st |-> "none", by |-> "none"]
                 ELSE IF staged.by = o THEN [staged EXCEPT !.st = "waiting", !.by = "node"]
                 ELSE staged
    /\ mlock' = "none"
    /\ Rests(o)
    /\ UNCHANGED nodeVars /\ UNCHANGED <<applies, known, outside, rdg, look>>
----------------------------------------------------------------------------
(***************************************************************************)
(* The drift watch.                                                        *)
(***************************************************************************)

settles(e) == e.mode \notin {"none", "staged"} /\ e.age < 1
adopts(e) ==
    \/ e.mode = "staged"
    \/ e.mode \in {"reboot", "auto"} /\ e.age < 2
    \/ e.mode = "no-reboot" /\ e.age < 1
stale(e) == e.mode # "none" /\ ~adopts(e)

\* Run: a pass that finds the machine gone clears up after it.
reconcile ==
    /\ look.pc = "idle" /\ ~known
    /\ base' = NoBase /\ rdg' = NotRead
    /\ UNCHANGED nodeVars /\ UNCHANGED applyVars /\ UNCHANGED <<look, known, outside>>

\* A pass or a poke: readNode, up to what the node answers.
readNode ==
    /\ look.pc = "idle" /\ known
    /\ look' = [pc |-> "decide", snap |-> Snapshot(ncfg)]
    /\ UNCHANGED nodeVars /\ UNCHANGED applyVars /\ UNCHANGED <<base, rdg, known, outside>>

\* The node does not answer: the last good reading and the start of a drift survive.
unreadable ==
    /\ look.pc = "idle" /\ known /\ outside < MaxOutside /\ outside' = outside + 1
    /\ rdg' = [rdg EXCEPT !.state = "unreadable"]
    /\ UNCHANGED nodeVars /\ UNCHANGED applyVars /\ UNCHANGED <<base, look, known>>

Reads(state) == rdg' = [state |-> state, snap |-> look.snap]

\* Mutant: an own apply moves the baseline whatever is open.
AdoptAlways(b) == ~b.drift \/ b.drift

\* An own apply becomes the baseline unless a deviation is open.
adoptable(b) == ~b.drift

\* decide: the table of what one reading means.
decide ==
    /\ look.pc = "decide"
    /\ look' = [look EXCEPT !.pc = "idle"]
    /\ LET snap == look.snap
           e == base.exp
           spent == stale(e) \/ (e.mode # "none" /\ e.digest = base.snap)
       IN \/ /\ ~base.ex
             /\ base' = [NoBase EXCEPT !.ex = TRUE, !.snap = snap]
             /\ Reads("baseline-created")
          \/ /\ base.ex /\ snap = base.snap
             /\ base' = [base EXCEPT !.drift = FALSE, !.onDrift = FALSE, !.exp = IF spent THEN NoExp ELSE e]
             /\ Reads("ok")
          \/ /\ base.ex /\ snap # base.snap /\ e.digest = snap /\ adopts(e)
             /\ IF adoptable(base)
                THEN /\ base' = [NoBase EXCEPT !.ex = TRUE, !.snap = snap]
                     /\ Reads("ok")
                ELSE /\ base' = [base EXCEPT !.onDrift = TRUE, !.exp = NoExp]
                     /\ Reads("drift")
          \/ /\ base.ex /\ snap # base.snap /\ ~(e.digest = snap /\ adopts(e))
             /\ IF settles(e) /\ ~base.drift
                THEN Reads("settling") /\ UNCHANGED base
                ELSE /\ base' = [base EXCEPT !.drift = TRUE, !.exp = IF stale(e) THEN NoExp ELSE e]
                     /\ Reads("drift")
            
    /\ UNCHANGED nodeVars /\ UNCHANGED applyVars /\ UNCHANGED <<known, outside>>

\* Confirm: the reading that was looked at becomes the baseline.
Confirm ==
    /\ known /\ rdg.state = "drift"
    /\ base' = [NoBase EXCEPT !.ex = TRUE, !.snap = rdg.snap]
    /\ rdg' = [rdg EXCEPT !.state = "ok"]
    /\ UNCHANGED nodeVars /\ UNCHANGED applyVars /\ UNCHANGED <<look, known, outside>>

\* An expectation grows old: past the settle window, past the adopt window.
Ages ==
    /\ base.exp.mode # "none" /\ base.exp.age < 2
    /\ base' = [base EXCEPT !.exp.age = @ + 1]
    /\ UNCHANGED nodeVars /\ UNCHANGED applyVars /\ UNCHANGED <<rdg, look, known, outside>>
----------------------------------------------------------------------------
(***************************************************************************)
(* The node, others, and the daemon.                                       *)
(***************************************************************************)
\* Somebody with talosctl changes a setting or rotates a secret.
Talosctl(s) ==
    /\ outside < MaxOutside /\ outside' = outside + 1
    /\ ncfg' = IF s \in ncfg THEN ncfg \ {s} ELSE ncfg \cup {s}
    /\ appl' = Touch
    /\ UNCHANGED <<nnext, nback, mlock, staged, applies, known>> /\ UNCHANGED driftVars

\* A try goes back by itself.
TryTimeout ==
    /\ nback # NoCfg
    /\ ncfg' = nback /\ nback' = NoCfg
    /\ appl' = Touch
    /\ UNCHANGED <<nnext, mlock, staged, applies, known, outside>> /\ UNCHANGED driftVars

\* The node boots what is staged; a reboot job clears the record (ClearStaged).
Reboot ==
    /\ nnext # NoCfg
    /\ ncfg' = nnext /\ nnext' = NoCfg /\ nback' = NoCfg
    /\ appl' = Touch
    /\ staged' \in {staged, [st |-> "none", by |-> "none"]}
    /\ UNCHANGED <<mlock, applies, known, outside>> /\ UNCHANGED driftVars

\* The machine is forgotten.
ForgetsMachine ==
    /\ known /\ outside < MaxOutside /\ outside' = outside + 1
    /\ known' = FALSE
    /\ UNCHANGED nodeVars /\ UNCHANGED applyVars /\ UNCHANGED driftVars

\* The daemon restarts: what is in memory goes, the baseline stays.
Restart ==
    /\ outside < MaxOutside /\ outside' = outside + 1
    /\ mlock' = "none" /\ staged' = [st |-> "none", by |-> "none"]
    /\ appl' = [o \in Operators |-> NoApply]
    /\ rdg' = NotRead /\ look' = [look EXCEPT !.pc = "idle"]
    /\ UNCHANGED nodeVars /\ UNCHANGED <<applies, base, known>>

ApplyStep(o) ==
    ApplyBusy(o) \/ reserveStaged(o) \/ checkBase(o) \/ expect(o) \/ ApplyConfiguration(o) \/ Apply(o)

ConfigNext ==
    \/ \E o \in Operators : ApplyStep(o) \/ \E p \in Patches : Plan(o, p)
    \/ reconcile \/ readNode \/ unreadable \/ decide \/ Confirm \/ Ages
    \/ TryTimeout \/ Reboot \/ ForgetsMachine \/ Restart
    \/ \E s \in {"foreign", "secret"} : Talosctl(s)

\* Requests run, the loop passes, time goes by.  Nobody has to confirm or to reboot.
ConfigFair ==
    /\ \A o \in Operators : WF_cfgVars(ApplyStep(o))
    /\ WF_cfgVars(reconcile) /\ WF_cfgVars(readNode) /\ WF_cfgVars(decide) /\ WF_cfgVars(Ages)

ConfigSpec == ConfigInit /\ [][ConfigNext]_cfgVars /\ ConfigFair
----------------------------------------------------------------------------
(***************************************************************************)
(* Properties.                                                             *)
(***************************************************************************)

\* While a difference is open the baseline moves only to what an operator was shown as
\* the difference (decide's rule 4, Confirm).
OpenDriftIsConfirmed ==
    [][base.drift /\ base'.ex /\ base'.snap # base.snap => rdg.state = "drift" /\ base'.snap = rdg.snap]_cfgVars

=============================================================================
