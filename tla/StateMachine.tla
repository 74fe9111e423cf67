---------------------------- MODULE StateMachine ----------------------------
(***************************************************************************)
(* The pure lifecycle state machine of one transaction:                    *)
(* domain/state_machine.py over the union of domain/transaction.py, with   *)
(* the events of domain/events.py and the effects of domain/effects.py.    *)
(*                                                                         *)
(* Each state is a record that carries exactly the data valid in it, as in *)
(* the code.  Times are left out: a deadline a state carries is armed for  *)
(* as long as the transaction is in it, and the timers the driver keeps    *)
(* are the SetTimer and CancelTimer effects.                               *)
(***************************************************************************)
EXTENDS Converge, Sequences

(* An InboundSignal.  id numbers the signals in the order they were sent.  *)
Signal == [id: Nat \ {0}, kind: {"reply", "receipt"}]
NoSig  == [id |-> 0, kind |-> "reply"]

Flags   == {"NONE", "POSSIBLY_INCONSISTENT", "DIVERGED"}
Origins == {"APPLIED", "LAPSED"}
Timers  == {"AMAZON_HOLD", "PATIENCE", "ARCHIVE"}

(* thread stands for "thread_id is not None": a transaction has one thread.*)
Core == [snap: Snapshot, thread: BOOLEAN]

(* -- The states --------------------------------------------------------- *)
DiscoveredState  == [state: {"DISCOVERED"}, thread: BOOLEAN,
                     pending: Seq(Signal)]
HoldAmazonState  == [state: {"HOLD_AMAZON"}, core: Core]
EnrichingState   == [state: {"ENRICHING"}, core: Core]
AutoAppliedState == [state: {"AUTO_APPLIED"}, core: Core, decision: Decision]
AwaitingState    == [state: {"AWAITING_HUMAN"}, core: Core,
                     proposal: Categories \cup {NoAlloc}, flag: Flags]
AppliedState     == [state: {"APPLIED"}, core: Core, decision: Decision]
OpenState        == [state: {"OPEN"}, core: Core, decision: Decision]
LapsedState      == [state: {"LAPSED"}, core: Core,
                     proposal: Categories \cup {NoAlloc}]
RevisingState    == [state: {"REVISING"}, core: Core, instruction: Signal,
                     origin: Origins, prior: Decision \cup {NoDecision}]
ArchivedState    == [state: {"ARCHIVED"}, core: Core,
                     final: Decision \cup {NoDecision}]

Transaction ==
    DiscoveredState \cup HoldAmazonState \cup EnrichingState
      \cup AutoAppliedState \cup AwaitingState \cup AppliedState
      \cup OpenState \cup LapsedState \cup RevisingState \cup ArchivedState

Discovered(th, p)        == [state |-> "DISCOVERED", thread |-> th,
                             pending |-> p]
HoldAmazon(c)            == [state |-> "HOLD_AMAZON", core |-> c]
Enriching(c)             == [state |-> "ENRICHING", core |-> c]
AutoApplied(c, d)        == [state |-> "AUTO_APPLIED", core |-> c,
                             decision |-> d]
AwaitingHuman(c, p, f)   == [state |-> "AWAITING_HUMAN", core |-> c,
                             proposal |-> p, flag |-> f]
Applied(c, d)            == [state |-> "APPLIED", core |-> c, decision |-> d]
Open(c, d)               == [state |-> "OPEN", core |-> c, decision |-> d]
Lapsed(c, p)             == [state |-> "LAPSED", core |-> c, proposal |-> p]
Revising(c, sig, o, pri) == [state |-> "REVISING", core |-> c,
                             instruction |-> sig, origin |-> o, prior |-> pri]
Archived(c, d)           == [state |-> "ARCHIVED", core |-> c, final |-> d]

(* The thread a transaction knows of.                                      *)
ThreadOf(t) == IF t.state = "DISCOVERED" THEN t.thread ELSE t.core.thread

(* The model validators: a record that fails one cannot be constructed.    *)
(* The Decision of AUTO_APPLIED is never a human's; a split always sums.   *)
Valid(t) ==
    /\ t.state \in {"AUTO_APPLIED", "APPLIED", "OPEN"} => t.decision.approved
    /\ t.state = "AUTO_APPLIED" => t.decision.by # "HUMAN"
    /\ t.state = "ARCHIVED" =>
         /\ t.core.snap.reconciled
         /\ t.final = NoDecision => Categorized(t.core.snap)

(* -- Events -------------------------------------------------------------- *)

(* The events that carry outcomes (Enriched, Converged) are named after    *)
(* the outcome they carry.                                                 *)
Outcomes == {"MATCH", "COULD_NOT_CONFIRM", "DIVERGED"}

Event ==
    [type: {"SnapshotMaterialized"}, snap: Snapshot, hold: BOOLEAN]
      \cup [type: {"HoldResolved"}, snap: Snapshot]
      \cup [type: {"InboundReceived"}, sig: Signal]
      \cup [type: {"AutoApply", "AnswerReceived", "OverrideDetected",
                   "Reapplied"}, decision: Decision]
      \cup [type: {"AskHuman"}, proposal: Categories \cup {NoAlloc}]
      \cup [type: {"WriteVerified"}, outcome: Outcomes]
      \cup [type: {"SnapshotUnavailable", "HoldDeadlineReached",
                   "ClarifyRequested", "PatienceExpired",
                   "ArchiveWindowReached", "NoChange", "CouldNotConfirm",
                   "Diverged", "NeedsHuman"}]

(* -- Effects ------------------------------------------------------------- *)
Purposes == {"PROPOSAL", "FYI", "CONFIRM", "CLARIFY", "HANDOFF",
             "POSSIBLY_INCONSISTENT", "DIVERGED_READBACK", "OVERRIDE_NOTICE",
             "REVISE_SUMMARY", "ARCHIVE_NOTICE"}

Effect ==
    [k: {"Commit"}, d: Decision]
      \cup [k: {"Send"}, purpose: Purposes]
      \cup [k: {"Feed"}, event: {"CONFIRM", "CORRECT"},
            prior: Decision \cup {NoDecision}]
      \cup [k: {"SetTimer", "CancelTimer"}, timer: Timers]
      \cup [k: {"Replay"}, sigs: Seq(Signal)]
      \cup [k: {"OpenThread", "CloseThread", "RecordAuto"}]

CommitToYnab(d)      == [k |-> "Commit", d |-> d]
SendThreadMessage(p) == [k |-> "Send", purpose |-> p]
FeedConfirm          == [k |-> "Feed", event |-> "CONFIRM",
                         prior |-> NoDecision]
FeedCorrect(pri)     == [k |-> "Feed", event |-> "CORRECT", prior |-> pri]
SetTimer(t)          == [k |-> "SetTimer", timer |-> t]
CancelTimer(t)       == [k |-> "CancelTimer", timer |-> t]
ReplayBuffered(s)    == [k |-> "Replay", sigs |-> s]
OpenThread           == [k |-> "OpenThread"]
CloseThread          == [k |-> "CloseThread"]
RecordAutoAction     == [k |-> "RecordAuto"]

(* -- Transitions -------------------------------------------------------- *)
Advanced(t, effs) == [kind |-> "ADVANCED", next |-> t, effects |-> effs]
Ignored(t)        == [kind |-> "IGNORED",  next |-> t, effects |-> <<>>]
Rejected(t)       == [kind |-> "REJECTED", next |-> t, effects |-> <<>>]

FromDiscovered(t, e) ==
    CASE e.type = "SnapshotMaterialized" ->
           LET core   == [snap |-> e.snap, thread |-> t.thread]
               replay == IF t.pending = <<>> THEN <<>>
                         ELSE <<ReplayBuffered(t.pending)>>
           IN  IF e.hold
               THEN Advanced(HoldAmazon(core),
                             <<SetTimer("AMAZON_HOLD")>> \o replay)
               ELSE Advanced(Enriching(core), replay)
      [] e.type = "SnapshotUnavailable" -> Ignored(t)
      [] e.type = "InboundReceived" ->
           Advanced(Discovered(t.thread \/ e.sig.kind = "reply",
                               Append(t.pending, e.sig)), <<>>)
      [] OTHER -> Rejected(t)

FromHoldAmazon(t, e) ==
    CASE e.type = "HoldResolved" ->
           Advanced(Enriching([t.core EXCEPT !.snap = e.snap]),
                    <<CancelTimer("AMAZON_HOLD")>>)
      [] e.type = "HoldDeadlineReached" -> Advanced(Enriching(t.core), <<>>)
      [] e.type = "InboundReceived" ->
           Advanced(Enriching(t.core),
                    <<CancelTimer("AMAZON_HOLD"), ReplayBuffered(<<e.sig>>)>>)
      [] OTHER -> Rejected(t)

FromEnriching(t, e) ==
    CASE e.type = "AutoApply" ->
           Advanced(AutoApplied(t.core, e.decision),
                    <<CommitToYnab(e.decision), RecordAutoAction>>)
      [] e.type = "AskHuman" ->
           Advanced(AwaitingHuman(t.core, e.proposal, "NONE"),
                    <<IF t.core.thread THEN SendThreadMessage("PROPOSAL")
                      ELSE OpenThread,
                      SetTimer("PATIENCE")>>)
      [] e.type = "InboundReceived" ->
           Advanced(t, <<ReplayBuffered(<<e.sig>>)>>)
      [] OTHER -> Rejected(t)

(* Mutant of EnterFlaggedAwaiting: the flag is forgotten.                  *)
EnterAwaiting(core, flag, purpose) ==
    Advanced(AwaitingHuman(core, NoAlloc, "NONE"),
             <<SendThreadMessage(purpose), SetTimer("PATIENCE")>>)

EnterFlaggedAwaiting(core, flag, purpose) ==
    Advanced(AwaitingHuman(core, NoAlloc, flag),
             <<SendThreadMessage(purpose), SetTimer("PATIENCE")>>)

(* learning is <<>> or the one effect that feeds the rule registry.        *)
ResolveWriteVerify(t, outcome, purpose, learning) ==
    CASE outcome = "MATCH" ->
           Advanced(Open(t.core, t.decision),
                    learning \o <<SendThreadMessage(purpose),
                                  SetTimer("ARCHIVE")>>)
      [] outcome = "COULD_NOT_CONFIRM" ->
           EnterFlaggedAwaiting(t.core, "POSSIBLY_INCONSISTENT",
                                "POSSIBLY_INCONSISTENT")
      [] outcome = "DIVERGED" ->
           EnterFlaggedAwaiting(t.core, "DIVERGED", "DIVERGED_READBACK")

(* Mutant of FromAutoApplied: the verdict on the write is not handled.     *)
NeverVerified(t, e) == Rejected(t)

FromAutoApplied(t, e) ==
    IF e.type = "WriteVerified"
    THEN ResolveWriteVerify(t, e.outcome, "FYI", <<>>)
    ELSE Rejected(t)

FromApplied(t, e) ==
    IF e.type = "WriteVerified"
    THEN ResolveWriteVerify(t, e.outcome, "CONFIRM", <<FeedConfirm>>)
    ELSE Rejected(t)

FromAwaitingHuman(t, e) ==
    CASE e.type = "AnswerReceived" ->
           Advanced(Applied(t.core, e.decision),
                    <<CommitToYnab(e.decision), CancelTimer("PATIENCE")>>)
      [] e.type = "ClarifyRequested" ->
           Advanced(AwaitingHuman(t.core, t.proposal, t.flag),
                    <<SendThreadMessage("CLARIFY"), SetTimer("PATIENCE")>>)
      [] e.type = "PatienceExpired" ->
           IF t.flag # "NONE" THEN Ignored(t)
           ELSE Advanced(Lapsed(t.core, t.proposal),
                         <<SendThreadMessage("HANDOFF"), SetTimer("ARCHIVE")>>)
      [] e.type = "InboundReceived" ->
           Advanced(t, <<ReplayBuffered(<<e.sig>>)>>)
      [] OTHER -> Rejected(t)

FromOpen(t, e) ==
    CASE e.type = "InboundReceived" ->
           Advanced(Revising(t.core, e.sig, "APPLIED", t.decision),
                    <<CancelTimer("ARCHIVE")>>)
      [] e.type = "ArchiveWindowReached" ->
           IF ~t.core.snap.reconciled THEN Ignored(t)
           ELSE Advanced(Archived(t.core, t.decision), <<CloseThread>>)
      [] e.type = "OverrideDetected" ->
           LET tell == <<FeedCorrect(t.decision),
                         SendThreadMessage("OVERRIDE_NOTICE")>>
           IN  IF ~t.core.snap.reconciled
               THEN Advanced(Open(t.core, e.decision), tell)
               ELSE Advanced(Archived(t.core, e.decision),
                             Append(tell, CloseThread))
      [] OTHER -> Rejected(t)

FromLapsed(t, e) ==
    CASE e.type = "InboundReceived" ->
           Advanced(Revising(t.core, e.sig, "LAPSED", NoDecision),
                    <<CancelTimer("ARCHIVE")>>)
      [] e.type = "ArchiveWindowReached" ->
           IF ~t.core.snap.reconciled THEN Ignored(t)
           ELSE IF ~Categorized(t.core.snap)
                THEN Advanced(t, <<SendThreadMessage("ARCHIVE_NOTICE")>>)
                ELSE Advanced(Archived(t.core, NoDecision), <<CloseThread>>)
      [] OTHER -> Rejected(t)

Reapply(t, d) ==
    Advanced(Open(t.core, d),
             <<IF t.prior # NoDecision /\ t.prior.alloc # d.alloc
               THEN FeedCorrect(t.prior) ELSE FeedConfirm,
               SendThreadMessage("REVISE_SUMMARY"), SetTimer("ARCHIVE")>>)

ResolveNoChange(t) ==
    IF t.origin = "APPLIED" /\ t.prior # NoDecision
    THEN Advanced(Open(t.core, t.prior), <<SetTimer("ARCHIVE")>>)
    ELSE Advanced(AwaitingHuman(t.core, NoAlloc, "NONE"),
                  <<SetTimer("PATIENCE")>>)

FromRevising(t, e) ==
    CASE e.type = "Reapplied" -> Reapply(t, e.decision)
      [] e.type = "NoChange"  -> ResolveNoChange(t)
      [] e.type = "CouldNotConfirm" ->
           EnterFlaggedAwaiting(t.core, "POSSIBLY_INCONSISTENT",
                                "POSSIBLY_INCONSISTENT")
      [] e.type = "Diverged" ->
           EnterFlaggedAwaiting(t.core, "DIVERGED", "DIVERGED_READBACK")
      [] e.type = "NeedsHuman" ->
           Advanced(AwaitingHuman(t.core, NoAlloc, "NONE"),
                    <<SendThreadMessage("CLARIFY"), SetTimer("PATIENCE")>>)
      [] e.type = "InboundReceived" ->
           Advanced([t EXCEPT !.instruction = e.sig],
                    <<ReplayBuffered(<<e.sig>>)>>)
      [] OTHER -> Rejected(t)

Advance(t, e) ==
    CASE t.state = "DISCOVERED"     -> FromDiscovered(t, e)
      [] t.state = "HOLD_AMAZON"    -> FromHoldAmazon(t, e)
      [] t.state = "ENRICHING"      -> FromEnriching(t, e)
      [] t.state = "AUTO_APPLIED"   -> FromAutoApplied(t, e)
      [] t.state = "AWAITING_HUMAN" -> FromAwaitingHuman(t, e)
      [] t.state = "APPLIED"        -> FromApplied(t, e)
      [] t.state = "OPEN"           -> FromOpen(t, e)
      [] t.state = "LAPSED"         -> FromLapsed(t, e)
      [] t.state = "REVISING"       -> FromRevising(t, e)
      [] t.state = "ARCHIVED"       -> Rejected(t)
=============================================================================
