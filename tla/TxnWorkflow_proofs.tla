------------------------- MODULE TxnWorkflow_proofs -------------------------
(***************************************************************************)
(* Proofs about the lifecycle state machine and the per-transaction        *)
(* workflow that drives it, for every set of categories, memos, payees and *)
(* rules and however often the environment acts.                           *)
(*                                                                         *)
(*   The state machine   what every transition guarantees (AdvanceSound)   *)
(*   The driver          IInv: types, and driver and machine agree         *)
(*   Silence             ConsentInv: no approval without consent           *)
(*   The order of effects  PlacedInv: opening first, re-injecting last     *)
(*   Emails              MailOnce: each email once                         *)
(*   Signals             HeldInv: none lost, none twice, in order          *)
(*   What YNAB holds     TrustInv: rest on verdicts, real divergences only *)
(*   The contract        every step of the driver is a step of TxnContract *)
(***************************************************************************)
EXTENDS TxnProperties, TLAPS, SequenceTheorems

-----------------------------------------------------------------------------
(* The state machine                                                        *)

(* The states whose entry writes to YNAB.                                  *)
Writing == {"AUTO_APPLIED", "APPLIED"}

(* A transition a from t is sound: it is well formed, it keeps the thread, *)
(* a write is the first effect of the transition that enters a writing     *)
(* state and of no other, and a transaction not yet materialized causes no *)
(* effect.                                                                 *)
Typed(a)        == a.next \in Transaction /\ a.effects \in Seq(Effect)
KeepsThread(t, a) == ThreadOf(t) => ThreadOf(a.next)
WritesFirst(t, a) ==
    /\ a.next.state \in Writing /\ t.state \notin Writing
         => a.effects # <<>> /\ Head(a.effects).k = "Commit"
    /\ \A i \in DOMAIN a.effects : a.effects[i].k = "Commit" =>
         i = 1 /\ a.next.state \in Writing

BuffersSilently(a) == a.next.state = "DISCOVERED" => a.effects = <<>>

Sound(t, a) == /\ Typed(a) /\ BuffersSilently(a)
               /\ KeepsThread(t, a) /\ WritesFirst(t, a)

(* -- What events, effects and states are made of ------------------------- *)
LEMMA EventFields ==
    ASSUME NEW e \in Event
    PROVE  /\ e.type \in {"SnapshotMaterialized", "HoldResolved"}
                => e.snap \in Snapshot
           /\ e.type = "InboundReceived" => e.sig \in Signal
           /\ e.type \in {"AutoApply", "AnswerReceived", "OverrideDetected",
                          "Reapplied"} => e.decision \in Decision
           /\ e.type = "AskHuman" => e.proposal \in Categories \cup {NoAlloc}
           /\ e.type = "WriteVerified" => e.outcome \in Outcomes
  BY DEF Event

LEMMA EffectsTyped ==
    /\ \A d \in Decision : CommitToYnab(d) \in Effect
    /\ \A p \in Purposes : SendThreadMessage(p) \in Effect
    /\ \A p \in Decision \cup {NoDecision} : FeedCorrect(p) \in Effect
    /\ \A t \in Timers : SetTimer(t) \in Effect /\ CancelTimer(t) \in Effect
    /\ \A s \in Seq(Signal) : ReplayBuffered(s) \in Effect
    /\ FeedConfirm \in Effect /\ OpenThread \in Effect
    /\ CloseThread \in Effect /\ RecordAutoAction \in Effect
  BY DEF CommitToYnab, SendThreadMessage, FeedConfirm, FeedCorrect, SetTimer,
         CancelTimer, ReplayBuffered, OpenThread, CloseThread,
         RecordAutoAction, Effect

LEMMA ShortSeqs ==
    ASSUME NEW S
    PROVE  /\ <<>> \in Seq(S)
           /\ \A a \in S : <<a>> \in Seq(S)
           /\ \A a, b \in S : <<a, b>> \in Seq(S)
           /\ \A a, b, c \in S : <<a, b, c>> \in Seq(S)
  OBVIOUS

(* Only CommitToYnab makes a Commit.                                       *)
LEMMA OtherEffects ==
    /\ \A p : SendThreadMessage(p).k # "Commit"
    /\ \A p : FeedCorrect(p).k # "Commit"
    /\ \A t : SetTimer(t).k # "Commit" /\ CancelTimer(t).k # "Commit"
    /\ \A s : ReplayBuffered(s).k # "Commit"
    /\ FeedConfirm.k # "Commit" /\ OpenThread.k # "Commit"
    /\ CloseThread.k # "Commit" /\ RecordAutoAction.k # "Commit"
    /\ \A d : CommitToYnab(d).k = "Commit"
  BY DEF CommitToYnab, SendThreadMessage, FeedConfirm, FeedCorrect, SetTimer,
         CancelTimer, ReplayBuffered, OpenThread, CloseThread,
         RecordAutoAction

LEMMA StatesTyped ==
    ASSUME NEW c \in Core
    PROVE  /\ HoldAmazon(c) \in Transaction /\ Enriching(c) \in Transaction
           /\ \A d \in Decision : /\ AutoApplied(c, d) \in Transaction
                                  /\ Applied(c, d) \in Transaction
                                  /\ Open(c, d) \in Transaction
           /\ \A p \in Categories \cup {NoAlloc} :
                /\ Lapsed(c, p) \in Transaction
                /\ \A f \in Flags : AwaitingHuman(c, p, f) \in Transaction
           /\ \A d \in Decision \cup {NoDecision} :
                /\ Archived(c, d) \in Transaction
                /\ \A s \in Signal, o \in Origins :
                     Revising(c, s, o, d) \in Transaction
  BY DEF HoldAmazon, Enriching, AutoApplied, Applied, Open, Lapsed,
         AwaitingHuman, Archived, Revising, HoldAmazonState, EnrichingState,
         AutoAppliedState, AppliedState, OpenState, LapsedState,
         AwaitingState, ArchivedState, RevisingState, Transaction

(* What the state of a transaction tells of its fields.                    *)
LEMMA TransactionFields ==
    ASSUME NEW t \in Transaction
    PROVE  /\ t.state = "DISCOVERED" => /\ t.thread \in BOOLEAN
                                        /\ t.pending \in Seq(Signal)
           /\ t.state # "DISCOVERED" => t.core \in Core
           /\ t.state \in {"AUTO_APPLIED", "APPLIED", "OPEN"}
                => t.decision \in Decision
           /\ t.state \in {"AWAITING_HUMAN", "LAPSED"}
                => t.proposal \in Categories \cup {NoAlloc}
           /\ t.state = "AWAITING_HUMAN" => t.flag \in Flags
           /\ t.state = "REVISING" => /\ t.instruction \in Signal
                                      /\ t.origin \in Origins
                                      /\ t.prior \in Decision \cup {NoDecision}
           /\ t.state \in {"DISCOVERED", "HOLD_AMAZON", "ENRICHING",
                           "AUTO_APPLIED", "AWAITING_HUMAN", "APPLIED",
                           "OPEN", "LAPSED", "REVISING", "ARCHIVED"}
  BY DEF Transaction, DiscoveredState, HoldAmazonState, EnrichingState,
         AutoAppliedState, AppliedState, OpenState, LapsedState,
         AwaitingState, ArchivedState, RevisingState

(* A transaction learns of its thread.                                     *)
LEMMA CoreReplaced ==
    ASSUME NEW t \in Transaction, t.state # "DISCOVERED", NEW c \in Core
    PROVE  /\ [t EXCEPT !.core = c] \in Transaction
           /\ [t EXCEPT !.core = c].core = c
           /\ [t EXCEPT !.core = c].state = t.state
  <1>1. CASE t \in HoldAmazonState \cup EnrichingState \cup AutoAppliedState
    BY <1>1
    DEF HoldAmazonState, EnrichingState, AutoAppliedState, Transaction
  <1>2. CASE t \in AppliedState \cup OpenState \cup LapsedState
    BY <1>2 DEF AppliedState, OpenState, LapsedState, Transaction
  <1>3. CASE t \in AwaitingState \cup ArchivedState
    BY <1>3 DEF AwaitingState, ArchivedState, Transaction
  <1>4. CASE t \in RevisingState
    BY <1>4 DEF RevisingState, Transaction
  <1> QED BY <1>1, <1>2, <1>3, <1>4 DEF Transaction, DiscoveredState

(* -- Sound transitions --------------------------------------------------- *)
Quiet(s) == s \in Seq(Effect) /\ \A i \in DOMAIN s : s[i].k # "Commit"

LEMMA ShortQuiet ==
    /\ Quiet(<<>>)
    /\ \A a \in Effect : a.k # "Commit" => Quiet(<<a>>)
    /\ \A a, b \in Effect :
         a.k # "Commit" /\ b.k # "Commit" => Quiet(<<a, b>>)
    /\ \A a, b, c \in Effect :
         a.k # "Commit" /\ b.k # "Commit" /\ c.k # "Commit"
           => Quiet(<<a, b, c>>)
  BY ShortSeqs DEF Quiet

LEMMA QuietConcat ==
    ASSUME NEW r, NEW s, Quiet(r), Quiet(s)
    PROVE  Quiet(r \o s)
  <1>1. r \in Seq(Effect) /\ s \in Seq(Effect) /\ r \o s \in Seq(Effect)
    BY DEF Quiet
  <1>2. ASSUME NEW i \in DOMAIN (r \o s)
        PROVE  (r \o s)[i].k # "Commit"
    <2>1. CASE i <= Len(r)
      BY <1>1, <1>2, <2>1 DEF Quiet
    <2>2. CASE i > Len(r)
      <3>1. (r \o s)[i] = s[i - Len(r)] /\ i - Len(r) \in DOMAIN s
        BY <1>1, <1>2, <2>2
      <3> QED BY <1>1, <3>1 DEF Quiet
    <2> QED BY <1>1, <1>2, <2>1, <2>2
  <1> QED BY <1>1, <1>2 DEF Quiet

LEMMA QuietAppend ==
    ASSUME NEW r, Quiet(r), NEW x \in Effect, x.k # "Commit"
    PROVE  Quiet(Append(r, x))
  BY DEF Quiet

LEMMA StaySound ==
    ASSUME NEW t \in Transaction
    PROVE  Sound(t, Rejected(t)) /\ Sound(t, Ignored(t))
  BY ShortSeqs DEF Sound, Typed, BuffersSilently, KeepsThread, WritesFirst,
                   Rejected, Ignored

(* A transition that writes nothing.                                       *)
LEMMA QuietSound ==
    ASSUME NEW t, NEW n \in Transaction, NEW effs, Quiet(effs),
           n.state \in Writing => t.state \in Writing,
           n.state = "DISCOVERED" => effs = <<>>,
           ThreadOf(t) => ThreadOf(n)
    PROVE  Sound(t, Advanced(n, effs))
  BY DEF Quiet, Sound, Typed, BuffersSilently, KeepsThread, WritesFirst,
         Advanced

(* A transition that enters a writing state.                               *)
LEMMA WriteSound ==
    ASSUME NEW t, NEW n \in Transaction, n.state \in Writing,
           NEW d \in Decision, NEW b \in Effect, b.k # "Commit",
           ThreadOf(t) => ThreadOf(n)
    PROVE  Sound(t, Advanced(n, <<CommitToYnab(d), b>>))
  <1>1. /\ CommitToYnab(d) \in Effect /\ CommitToYnab(d).k = "Commit"
        /\ n.state # "DISCOVERED"
    BY EffectsTyped, OtherEffects DEF Writing
  <1>2. <<CommitToYnab(d), b>> \in Seq(Effect)
    BY <1>1, ShortSeqs
  <1> QED BY <1>1, <1>2
      DEF Sound, Typed, BuffersSilently, KeepsThread, WritesFirst, Advanced

LEMMA HoldAmazonSound ==
    ASSUME NEW t \in Transaction, t.state = "HOLD_AMAZON", NEW e \in Event
    PROVE  Sound(t, FromHoldAmazon(t, e))
  <1> USE DEF FromHoldAmazon
  <1>1. t.core \in Core
    BY TransactionFields
  <1>2. ASSUME NEW c \in Core, c.thread = t.core.thread, NEW effs, Quiet(effs)
        PROVE  Sound(t, Advanced(Enriching(c), effs))
    BY <1>2, StatesTyped, QuietSound DEF Enriching, Writing, ThreadOf
  <1>3. CASE e.type = "HoldResolved"
    <2>1. /\ [t.core EXCEPT !.snap = e.snap] \in Core
          /\ [t.core EXCEPT !.snap = e.snap].thread = t.core.thread
      BY <1>1, <1>3, EventFields DEF Core
    <2>2. Quiet(<<CancelTimer("AMAZON_HOLD")>>)
      BY EffectsTyped, OtherEffects, ShortQuiet DEF Timers
    <2> QED BY <1>2, <1>3, <2>1, <2>2
  <1>4. CASE e.type = "HoldDeadlineReached"
    BY <1>1, <1>2, <1>4, ShortQuiet
  <1>5. CASE e.type = "InboundReceived"
    <2>1. /\ ReplayBuffered(<<e.sig>>) \in Effect
          /\ CancelTimer("AMAZON_HOLD") \in Effect
      BY <1>5, EventFields, EffectsTyped, ShortSeqs DEF Timers
    <2>2. Quiet(<<CancelTimer("AMAZON_HOLD"), ReplayBuffered(<<e.sig>>)>>)
      BY <2>1, OtherEffects, ShortQuiet
    <2> QED BY <1>1, <1>2, <1>5, <2>2
  <1>6. CASE e.type \notin {"HoldResolved", "HoldDeadlineReached",
                           "InboundReceived"}
    BY <1>6, StaySound
  <1> QED BY <1>3, <1>4, <1>5, <1>6

LEMMA DiscoveredSound ==
    ASSUME NEW t \in Transaction, t.state = "DISCOVERED", NEW e \in Event
    PROVE  Sound(t, FromDiscovered(t, e))
  <1> USE DEF FromDiscovered
  <1>1. t.thread \in BOOLEAN /\ t.pending \in Seq(Signal)
    BY TransactionFields
  <1>2. CASE e.type = "SnapshotMaterialized"
    <2> DEFINE core   == [snap |-> e.snap, thread |-> t.thread]
               replay == IF t.pending = <<>> THEN <<>>
                         ELSE <<ReplayBuffered(t.pending)>>
    <2>1. core \in Core
      BY <1>1, <1>2, EventFields DEF Core
    <2>2. Quiet(replay) /\ Quiet(<<SetTimer("AMAZON_HOLD")>> \o replay)
      <3>1. /\ ReplayBuffered(t.pending) \in Effect
            /\ SetTimer("AMAZON_HOLD") \in Effect
        BY <1>1, EffectsTyped DEF Timers
      <3>2. Quiet(replay) /\ Quiet(<<SetTimer("AMAZON_HOLD")>>)
        BY <3>1, OtherEffects, ShortQuiet
      <3> QED BY <3>2, QuietConcat
    <2>3. Sound(t, Advanced(HoldAmazon(core),
                            <<SetTimer("AMAZON_HOLD")>> \o replay))
      BY <2>1, <2>2, StatesTyped, QuietSound DEF HoldAmazon, Writing, ThreadOf
    <2>4. Sound(t, Advanced(Enriching(core), replay))
      BY <2>1, <2>2, StatesTyped, QuietSound DEF Enriching, Writing, ThreadOf
    <2> QED BY <1>2, <2>3, <2>4
  <1>3. CASE e.type = "SnapshotUnavailable"
    BY <1>3, StaySound
  <1>4. CASE e.type = "InboundReceived"
    <2> DEFINE n == Discovered(t.thread \/ e.sig.kind = "reply",
                               Append(t.pending, e.sig))
    <2>1. Append(t.pending, e.sig) \in Seq(Signal)
      BY <1>1, <1>4, EventFields
    <2>2. n \in Transaction
      BY <1>1, <2>1 DEF Discovered, DiscoveredState, Transaction
    <2>3. n.state = "DISCOVERED" /\ (t.thread => n.thread)
      BY DEF Discovered
    <2>4. Sound(t, Advanced(n, <<>>))
      BY <2>2, <2>3, ShortQuiet, QuietSound DEF Writing, ThreadOf
    <2> QED BY <1>4, <2>4
  <1>5. CASE e.type \notin {"SnapshotMaterialized", "SnapshotUnavailable",
                           "InboundReceived"}
    BY <1>5, StaySound
  <1> QED BY <1>2, <1>3, <1>4, <1>5

LEMMA ReplayQuiet ==
    ASSUME NEW s \in Signal
    PROVE  Quiet(<<ReplayBuffered(<<s>>)>>)
  <1>1. ReplayBuffered(<<s>>) \in Effect
    BY ShortSeqs, EffectsTyped
  <1> QED BY <1>1, OtherEffects, ShortQuiet

LEMMA EnrichingSound ==
    ASSUME NEW t \in Transaction, t.state = "ENRICHING", NEW e \in Event
    PROVE  Sound(t, FromEnriching(t, e))
  <1> USE DEF FromEnriching
  <1>1. t.core \in Core
    BY TransactionFields
  <1>2. CASE e.type = "AutoApply"
    <2>1. e.decision \in Decision
      BY <1>2, EventFields
    <2>2. /\ AutoApplied(t.core, e.decision) \in Transaction
          /\ AutoApplied(t.core, e.decision).state = "AUTO_APPLIED"
          /\ AutoApplied(t.core, e.decision).core = t.core
      BY <1>1, <2>1, StatesTyped DEF AutoApplied
    <2>3. RecordAutoAction \in Effect /\ RecordAutoAction.k # "Commit"
      BY EffectsTyped, OtherEffects
    <2>4. Sound(t, Advanced(AutoApplied(t.core, e.decision),
                            <<CommitToYnab(e.decision), RecordAutoAction>>))
      BY <2>1, <2>2, <2>3, WriteSound DEF Writing, ThreadOf
    <2> QED BY <1>2, <2>4
  <1>3. CASE e.type = "AskHuman"
    <2> DEFINE n    == AwaitingHuman(t.core, e.proposal, "NONE")
               tell == IF t.core.thread THEN SendThreadMessage("PROPOSAL")
                       ELSE OpenThread
    <2>1. n \in Transaction /\ n.state = "AWAITING_HUMAN" /\ n.core = t.core
      BY <1>1, <1>3, EventFields, StatesTyped DEF AwaitingHuman, Flags
    <2>2. Quiet(<<tell, SetTimer("PATIENCE")>>)
      <3>1. tell \in Effect /\ tell.k # "Commit"
        BY EffectsTyped, OtherEffects DEF Purposes
      <3>2. SetTimer("PATIENCE") \in Effect
        BY EffectsTyped DEF Timers
      <3> QED BY <3>1, <3>2, OtherEffects, ShortQuiet
    <2>3. Sound(t, Advanced(n, <<tell, SetTimer("PATIENCE")>>))
      BY <2>1, <2>2, QuietSound DEF Writing, ThreadOf
    <2> QED BY <1>3, <2>3
  <1>4. CASE e.type = "InboundReceived"
    BY <1>4, EventFields, ReplayQuiet, QuietSound
  <1>5. CASE e.type \notin {"AutoApply", "AskHuman", "InboundReceived"}
    BY <1>5, StaySound
  <1> QED BY <1>2, <1>3, <1>4, <1>5

(* The two-effect transition to a flagged or unflagged question.           *)
LEMMA AskSound ==
    ASSUME NEW t \in Transaction, t.state # "DISCOVERED", NEW f \in Flags,
           NEW p \in Categories \cup {NoAlloc}, NEW purpose \in Purposes
    PROVE  Sound(t, Advanced(AwaitingHuman(t.core, p, f),
                             <<SendThreadMessage(purpose),
                               SetTimer("PATIENCE")>>))
  <1> DEFINE n == AwaitingHuman(t.core, p, f)
  <1>1. n \in Transaction /\ n.state = "AWAITING_HUMAN" /\ n.core = t.core
    BY TransactionFields, StatesTyped DEF AwaitingHuman
  <1>2. Quiet(<<SendThreadMessage(purpose), SetTimer("PATIENCE")>>)
    <2>1. /\ SendThreadMessage(purpose) \in Effect
          /\ SetTimer("PATIENCE") \in Effect
      BY EffectsTyped DEF Timers
    <2> QED BY <2>1, OtherEffects, ShortQuiet
  <1> QED BY <1>1, <1>2, QuietSound DEF Writing, ThreadOf

LEMMA ResolveSound ==
    ASSUME NEW t \in Transaction, t.state \in Writing,
           NEW outcome \in Outcomes, NEW purpose \in Purposes,
           NEW learning \in {<<>>, <<FeedConfirm>>}
    PROVE  Sound(t, ResolveWriteVerify(t, outcome, purpose, learning))
  <1> USE DEF ResolveWriteVerify
  <1>1. CASE outcome = "MATCH"
    <2> DEFINE n    == Open(t.core, t.decision)
               effs == learning \o <<SendThreadMessage(purpose),
                                     SetTimer("ARCHIVE")>>
    <2>1. n \in Transaction /\ n.state = "OPEN" /\ n.core = t.core
      BY TransactionFields, StatesTyped DEF Open, Writing
    <2>2. Quiet(effs)
      <3>1. /\ SendThreadMessage(purpose) \in Effect
            /\ SetTimer("ARCHIVE") \in Effect /\ FeedConfirm \in Effect
        BY EffectsTyped DEF Timers
      <3>2. Quiet(<<SendThreadMessage(purpose), SetTimer("ARCHIVE")>>)
        BY <3>1, OtherEffects, ShortQuiet
      <3>3. Quiet(learning)
        BY <3>1, OtherEffects, ShortQuiet
      <3> QED BY <3>2, <3>3, QuietConcat
    <2>3. Sound(t, Advanced(n, effs))
      BY <2>1, <2>2, QuietSound DEF Writing, ThreadOf
    <2> QED BY <1>1, <2>3
  <1>2. CASE outcome = "COULD_NOT_CONFIRM"
    BY <1>2, AskSound DEF EnterFlaggedAwaiting, Flags, Purposes, Writing
  <1>3. CASE outcome = "DIVERGED"
    BY <1>3, AskSound DEF EnterFlaggedAwaiting, Flags, Purposes, Writing
  <1> QED BY <1>1, <1>2, <1>3 DEF Outcomes

LEMMA WritingSound ==
    ASSUME NEW t \in Transaction, t.state \in Writing, NEW e \in Event
    PROVE  Sound(t, FromAutoApplied(t, e)) /\ Sound(t, FromApplied(t, e))
  <1>1. CASE e.type = "WriteVerified"
    BY <1>1, EventFields, ResolveSound
    DEF FromAutoApplied, FromApplied, Purposes
  <1>2. CASE e.type # "WriteVerified"
    BY <1>2, StaySound DEF FromAutoApplied, FromApplied
  <1> QED BY <1>1, <1>2

LEMMA AwaitingHumanSound ==
    ASSUME NEW t \in Transaction, t.state = "AWAITING_HUMAN", NEW e \in Event
    PROVE  Sound(t, FromAwaitingHuman(t, e))
  <1> USE DEF FromAwaitingHuman
  <1>1. /\ t.core \in Core /\ t.proposal \in Categories \cup {NoAlloc}
        /\ t.flag \in Flags
    BY TransactionFields
  <1>2. CASE e.type = "AnswerReceived"
    <2>1. e.decision \in Decision
      BY <1>2, EventFields
    <2>2. /\ Applied(t.core, e.decision) \in Transaction
          /\ Applied(t.core, e.decision).state = "APPLIED"
          /\ Applied(t.core, e.decision).core = t.core
      BY <1>1, <2>1, StatesTyped DEF Applied
    <2>3. /\ CancelTimer("PATIENCE") \in Effect
          /\ CancelTimer("PATIENCE").k # "Commit"
      BY EffectsTyped, OtherEffects DEF Timers
    <2>4. Sound(t, Advanced(Applied(t.core, e.decision),
                            <<CommitToYnab(e.decision),
                              CancelTimer("PATIENCE")>>))
      BY <2>1, <2>2, <2>3, WriteSound DEF Writing, ThreadOf
    <2> QED BY <1>2, <2>4
  <1>3. CASE e.type = "ClarifyRequested"
    BY <1>1, <1>3, AskSound DEF Purposes
  <1>4. CASE e.type = "PatienceExpired"
    <2>1. CASE t.flag # "NONE"
      BY <1>4, <2>1, StaySound
    <2>2. CASE t.flag = "NONE"
      <3> DEFINE n == Lapsed(t.core, t.proposal)
      <3>1. n \in Transaction /\ n.state = "LAPSED" /\ n.core = t.core
        BY <1>1, StatesTyped DEF Lapsed
      <3>2. Quiet(<<SendThreadMessage("HANDOFF"), SetTimer("ARCHIVE")>>)
        <4>1. /\ SendThreadMessage("HANDOFF") \in Effect
              /\ SetTimer("ARCHIVE") \in Effect
          BY EffectsTyped DEF Timers, Purposes
        <4> QED BY <4>1, OtherEffects, ShortQuiet
      <3>3. Sound(t, Advanced(n, <<SendThreadMessage("HANDOFF"),
                                   SetTimer("ARCHIVE")>>))
        BY <3>1, <3>2, QuietSound DEF Writing, ThreadOf
      <3> QED BY <1>4, <2>2, <3>3
    <2> QED BY <2>1, <2>2
  <1>5. CASE e.type = "InboundReceived"
    BY <1>5, EventFields, ReplayQuiet, QuietSound
  <1>6. CASE e.type \notin {"AnswerReceived", "ClarifyRequested",
                           "PatienceExpired", "InboundReceived"}
    BY <1>6, StaySound
  <1> QED BY <1>2, <1>3, <1>4, <1>5, <1>6

(* Cancelling or closing as the only effect.                               *)
LEMMA OneQuiet ==
    /\ Quiet(<<CancelTimer("ARCHIVE")>>) /\ Quiet(<<SetTimer("ARCHIVE")>>)
    /\ Quiet(<<SetTimer("PATIENCE")>>)
    /\ Quiet(<<CloseThread>>) /\ Quiet(<<SendThreadMessage("ARCHIVE_NOTICE")>>)
  BY EffectsTyped, OtherEffects, ShortQuiet DEF Timers, Purposes

LEMMA ReviseSound ==
    ASSUME NEW t \in Transaction, t.state # "DISCOVERED", NEW s \in Signal,
           NEW o \in Origins, NEW d \in Decision \cup {NoDecision}
    PROVE  Sound(t, Advanced(Revising(t.core, s, o, d),
                             <<CancelTimer("ARCHIVE")>>))
  <1> DEFINE n == Revising(t.core, s, o, d)
  <1>1. n \in Transaction /\ n.state = "REVISING" /\ n.core = t.core
    BY TransactionFields, StatesTyped DEF Revising
  <1> QED BY <1>1, OneQuiet, QuietSound DEF Writing, ThreadOf

LEMMA OpenSound ==
    ASSUME NEW t \in Transaction, t.state = "OPEN", NEW e \in Event
    PROVE  Sound(t, FromOpen(t, e))
  <1> USE DEF FromOpen
  <1>1. t.core \in Core /\ t.decision \in Decision
    BY TransactionFields
  <1>2. ASSUME NEW d \in Decision, NEW effs, Quiet(effs)
        PROVE  /\ Sound(t, Advanced(Open(t.core, d), effs))
               /\ Sound(t, Advanced(Archived(t.core, d), effs))
    <2>1. /\ Open(t.core, d) \in Transaction
          /\ Archived(t.core, d) \in Transaction
      BY <1>1, StatesTyped
    <2>2. /\ Open(t.core, d).state = "OPEN" /\ Open(t.core, d).core = t.core
          /\ Archived(t.core, d).state = "ARCHIVED"
          /\ Archived(t.core, d).core = t.core
      BY DEF Open, Archived
    <2> QED BY <1>2, <2>1, <2>2, QuietSound DEF Writing, ThreadOf
  <1>3. CASE e.type = "InboundReceived"
    BY <1>1, <1>3, EventFields, ReviseSound DEF Origins
  <1>4. CASE e.type = "ArchiveWindowReached"
    BY <1>1, <1>2, <1>4, StaySound, OneQuiet
  <1>5. CASE e.type = "OverrideDetected"
    <2> DEFINE tell == <<FeedCorrect(t.decision),
                         SendThreadMessage("OVERRIDE_NOTICE")>>
    <2>1. /\ FeedCorrect(t.decision) \in Effect
          /\ SendThreadMessage("OVERRIDE_NOTICE") \in Effect
          /\ CloseThread \in Effect
      BY <1>1, EffectsTyped DEF Purposes
    <2>2. Quiet(tell)
      BY <2>1, OtherEffects, ShortQuiet
    <2>3. Quiet(Append(tell, CloseThread))
      BY <2>1, <2>2, OtherEffects, QuietAppend
    <2>4. e.decision \in Decision
      BY <1>5, EventFields
    <2> HIDE DEF tell
    <2>5. /\ Sound(t, Advanced(Open(t.core, e.decision), tell))
          /\ Sound(t, Advanced(Archived(t.core, e.decision),
                               Append(tell, CloseThread)))
      BY <1>2, <2>2, <2>3, <2>4
    <2> QED BY <1>5, <2>5 DEF tell
  <1>6. CASE e.type \notin {"InboundReceived", "ArchiveWindowReached",
                           "OverrideDetected"}
    BY <1>6, StaySound
  <1> QED BY <1>3, <1>4, <1>5, <1>6

LEMMA LapsedSound ==
    ASSUME NEW t \in Transaction, t.state = "LAPSED", NEW e \in Event
    PROVE  Sound(t, FromLapsed(t, e))
  <1> USE DEF FromLapsed
  <1>1. t.core \in Core
    BY TransactionFields
  <1>2. CASE e.type = "InboundReceived"
    BY <1>1, <1>2, EventFields, ReviseSound DEF Origins
  <1>3. CASE e.type = "ArchiveWindowReached"
    <2> DEFINE n == Archived(t.core, NoDecision)
    <2>1. n \in Transaction /\ n.state = "ARCHIVED" /\ n.core = t.core
      BY <1>1, StatesTyped DEF Archived
    <2>2. Sound(t, Advanced(n, <<CloseThread>>))
      BY <2>1, OneQuiet, QuietSound DEF Writing, ThreadOf
    <2>3. Sound(t, Advanced(t, <<SendThreadMessage("ARCHIVE_NOTICE")>>))
      BY OneQuiet, QuietSound
    <2> QED BY <1>3, <2>2, <2>3, StaySound
  <1>4. CASE e.type \notin {"InboundReceived", "ArchiveWindowReached"}
    BY <1>4, StaySound
  <1> QED BY <1>2, <1>3, <1>4

LEMMA RevisingSound ==
    ASSUME NEW t \in Transaction, t.state = "REVISING", NEW e \in Event
    PROVE  Sound(t, FromRevising(t, e))
  <1> USE DEF FromRevising
  <1>1. /\ t.core \in Core /\ t.instruction \in Signal /\ t.origin \in Origins
        /\ t.prior \in Decision \cup {NoDecision}
    BY TransactionFields
  <1>2. ASSUME NEW d \in Decision, NEW effs, Quiet(effs)
        PROVE  Sound(t, Advanced(Open(t.core, d), effs))
    <2>1. /\ Open(t.core, d) \in Transaction
          /\ Open(t.core, d).state = "OPEN" /\ Open(t.core, d).core = t.core
      BY <1>1, StatesTyped DEF Open
    <2> QED BY <1>2, <2>1, QuietSound DEF Writing, ThreadOf
  <1>3. CASE e.type = "Reapplied"
    <2> DEFINE learn == IF /\ t.prior # NoDecision
                           /\ t.prior.alloc # e.decision.alloc
                        THEN FeedCorrect(t.prior) ELSE FeedConfirm
    <2>1. learn \in Effect /\ learn.k # "Commit"
      BY <1>1, EffectsTyped, OtherEffects
    <2>2. /\ SendThreadMessage("REVISE_SUMMARY") \in Effect
          /\ SetTimer("ARCHIVE") \in Effect
      BY EffectsTyped DEF Purposes, Timers
    <2> HIDE DEF learn
    <2>3. Quiet(<<learn, SendThreadMessage("REVISE_SUMMARY"),
                  SetTimer("ARCHIVE")>>)
      BY <2>1, <2>2, OtherEffects, ShortQuiet
    <2>4. Sound(t, Advanced(Open(t.core, e.decision),
                            <<learn, SendThreadMessage("REVISE_SUMMARY"),
                              SetTimer("ARCHIVE")>>))
      BY <1>2, <1>3, <2>3, EventFields
    <2> QED BY <1>3, <2>4 DEF learn, Reapply
  <1>4. CASE e.type = "NoChange"
    <2>1. CASE t.origin = "APPLIED" /\ t.prior # NoDecision
      BY <1>1, <1>2, <1>4, <2>1, OneQuiet DEF ResolveNoChange
    <2>2. CASE ~(t.origin = "APPLIED" /\ t.prior # NoDecision)
      <3> DEFINE n == AwaitingHuman(t.core, NoAlloc, "NONE")
      <3>1. n \in Transaction /\ n.state = "AWAITING_HUMAN" /\ n.core = t.core
        BY <1>1, StatesTyped DEF AwaitingHuman, Flags
      <3>2. Sound(t, Advanced(n, <<SetTimer("PATIENCE")>>))
        BY <3>1, OneQuiet, QuietSound DEF Writing, ThreadOf
      <3> QED BY <1>4, <2>2, <3>2 DEF ResolveNoChange
    <2> QED BY <2>1, <2>2
  <1>5. CASE e.type \in {"CouldNotConfirm", "Diverged", "NeedsHuman"}
    BY <1>5, AskSound DEF EnterFlaggedAwaiting, Flags, Purposes
  <1>6. CASE e.type = "InboundReceived"
    <2> DEFINE n == [t EXCEPT !.instruction = e.sig]
    <2>1. n \in Transaction /\ n.state = "REVISING" /\ n.core = t.core
      <3>1. t \in RevisingState
        BY DEF Transaction, DiscoveredState, HoldAmazonState, EnrichingState,
               AutoAppliedState, AppliedState, OpenState, LapsedState,
               AwaitingState, ArchivedState
      <3>2. e.sig \in Signal
        BY <1>6, EventFields
      <3>3. n \in RevisingState /\ n.core = t.core
        BY <3>1, <3>2 DEF RevisingState
      <3> QED BY <3>3 DEF RevisingState, Transaction
    <2>2. Sound(t, Advanced(n, <<ReplayBuffered(<<e.sig>>)>>))
      BY <1>6, <2>1, EventFields, ReplayQuiet, QuietSound DEF Writing, ThreadOf
    <2> QED BY <1>6, <2>2
  <1>7. CASE e.type \notin {"Reapplied", "NoChange", "CouldNotConfirm",
                           "Diverged", "NeedsHuman", "InboundReceived"}
    BY <1>7, StaySound
  <1> QED BY <1>3, <1>4, <1>5, <1>6, <1>7

(* Every transition of the machine is sound (domain/state_machine.py,      *)
(* advance): no event, expected in the state or not, leads out of the ten  *)
(* records, forgets the thread or asks for a write elsewhere than first on *)
(* entering AUTO_APPLIED or APPLIED.                                       *)
THEOREM AdvanceSound ==
    ASSUME NEW t \in Transaction, NEW e \in Event
    PROVE  Sound(t, Advance(t, e))
  BY TransactionFields, DiscoveredSound, HoldAmazonSound, EnrichingSound,
     WritingSound, AwaitingHumanSound, OpenSound, LapsedSound, RevisingSound,
     StaySound
  DEF Advance, Writing

(* The verdict on a write leads out of the writing states.                 *)
LEMMA VerdictLeavesWriting ==
    ASSUME NEW t \in Transaction, t.state \in Writing, NEW o \in Outcomes
    PROVE  Advance(t, [type |-> "WriteVerified", outcome |-> o]).next.state
             \in {"OPEN", "AWAITING_HUMAN"}
  BY DEF Advance, Writing, FromAutoApplied, FromApplied, ResolveWriteVerify,
         EnterFlaggedAwaiting, Advanced, Open, AwaitingHuman, Outcomes

-----------------------------------------------------------------------------
(* The driver                                                               *)

(* The states in which the run waits for the owner or for a signal.        *)

Resting == {"AWAITING_HUMAN", "OPEN", "LAPSED"}

(* Where the driver goes on after a dispatch.                              *)
Returns == {"step", "blocked"}

(* What the driver and the state machine share.                            *)
ControlInv ==
    /\ status \in Statuses
    /\ txn \in Transaction
    /\ thread \in BOOLEAN
    /\ pc \in Pcs
    /\ todo \in Seq(Effect)
    /\ resume \in {"step", "blocked"}
    /\ ControlMatchesState
    /\ ThreadMirrored
    /\ txn.state = "DISCOVERED" => todo = <<>>
    /\ resume = "blocked" => txn.state \in Resting

(* The rest: the world, what the run has in hand, and the bookkeeping.     *)
WorldInv ==
    /\ ynab \in Snapshot
    /\ visible \in BOOLEAN /\ trusted \in BOOLEAN
    /\ polled \in Snapshot \cup {NoSnap}
    /\ consent \in BOOLEAN /\ touched \in BOOLEAN /\ unverified \in BOOLEAN
    /\ auto \in Allocs \cup {NoAlloc}

MailInv ==
    /\ labels \subseteq Nat /\ indexed \in BOOLEAN
    /\ landed \in Nat
    /\ mailFault \subseteq {"swallowed", "doubled"}
    /\ seq \in Nat

Drafting == {"readback", "cvWrite", "cvVerify"}

HandInv ==
    /\ timers \subseteq Timers
    /\ snapReady \in Snapshot \cup {NoSnap}
    /\ inbound \in Seq(Signal)
    /\ sig \in Signal \cup {NoSig}
    /\ draft \in Decision \cup {NoDecision}
    /\ status = "running" /\ pc \in Drafting => draft \in Decision
    /\ memoOnly \in BOOLEAN

EnvInv ==
    /\ left \in [Kinds -> Nat]
    /\ sent \in Nat
    /\ due \subseteq Nat

(* The inductive invariant of the driver.                                  *)
IInv == ControlInv /\ WorldInv /\ MailInv /\ HandInv /\ EnvInv

LEMMA InvTyped == IInv => TypeOK /\ ControlMatchesState /\ ThreadMirrored
  BY DEF IInv, ControlInv, WorldInv, MailInv, HandInv, EnvInv, TypeOK

(* -- What holds wherever the driver is suspended ------------------------- *)
LEMMA ThreadBoolean ==
    ASSUME NEW t \in Transaction
    PROVE  ThreadOf(t) \in BOOLEAN
  BY TransactionFields DEF ThreadOf, Core

LEMMA StatesAtEffects ==
    ASSUME NEW t \in Transaction
    PROVE  t.state \in StatesAt("effects")
  BY TransactionFields DEF StatesAt

(* A dispatch, wherever it is made from, leaves the driver and the machine *)
(* in agreement.                                                           *)
LEMMA DispatchControl ==
    ASSUME ControlInv,
           NEW e \in Event, NEW rest, Quiet(rest), NEW back,
           back = "blocked" => txn.state \in Resting,
           txn.state \in Writing => Advance(txn, e).next.state \notin Writing,
           rest # <<>> => Advance(txn, e).next.state # "DISCOVERED",
           Dispatch(e, rest, back)
    PROVE  ControlInv'
  <1> DEFINE t == Advance(txn, e)
  <1>1. Sound(txn, t)
    BY AdvanceSound DEF ControlInv
  <1>2. CASE ~Valid(t.next)
    <2>1. status' = "wedged" /\ UNCHANGED <<txn, thread, todo, pc, resume>>
      BY <1>2 DEF Dispatch
    <2> QED BY <2>1 DEF ControlInv, ControlMatchesState, ThreadMirrored,
                        Statuses
  <1>3. CASE Valid(t.next)
    <2>1. /\ txn' = t.next /\ todo' = t.effects \o rest
          /\ thread' = (thread \/ ThreadOf(t.next))
          /\ pc' = "effects" /\ status' = status
          /\ resume' = IF back = "blocked" /\ t.next.state = txn.state
                       THEN "blocked" ELSE "step"
      BY <1>3 DEF Dispatch, SyncThreadId
    <2> HIDE DEF t
    <2>2. /\ t.next \in Transaction /\ t.effects \in Seq(Effect)
          /\ rest \in Seq(Effect) /\ todo' \in Seq(Effect)
      BY <1>1, <2>1 DEF Sound, Typed, Quiet
    <2>3. /\ status' \in Statuses /\ txn' \in Transaction
          /\ thread' \in BOOLEAN /\ pc' \in Pcs
          /\ resume' \in {"step", "blocked"}
          /\ txn'.state \in StatesAt(pc')
      BY <2>1, <2>2, ThreadBoolean, StatesAtEffects DEF ControlInv, Pcs
    <2>4. ThreadMirrored'
      BY <1>1, <2>1, <2>2, ThreadBoolean
      DEF Sound, KeepsThread, ControlInv, ThreadMirrored
    <2>5. resume' = "blocked" => txn'.state \in Resting
      BY <2>1
    <2>6. txn'.state = "DISCOVERED" => todo' = <<>>
      BY <1>1, <2>1, <2>2 DEF Sound, BuffersSilently, t
    <2>7. ASSUME txn'.state \in {"AUTO_APPLIED", "APPLIED"}
          PROVE  todo' # <<>> /\ Head(todo').k = "Commit"
      <3>1. t.effects # <<>> /\ Head(t.effects).k = "Commit"
        BY <1>1, <2>1, <2>7 DEF Sound, WritesFirst, Writing, t
      <3>2. todo' # <<>> /\ Head(todo') = Head(t.effects)
        BY <2>1, <2>2, <3>1
      <3> QED BY <3>1, <3>2
    <2>8. ASSUME NEW i \in DOMAIN todo', todo'[i].k = "Commit"
          PROVE  i = 1 /\ txn'.state \in {"AUTO_APPLIED", "APPLIED"}
      <3>1. CASE i <= Len(t.effects)
        <4>1. i \in DOMAIN t.effects /\ todo'[i] = t.effects[i]
          BY <2>1, <2>2, <2>8, <3>1
        <4> QED BY <1>1, <2>1, <2>8, <4>1 DEF Sound, WritesFirst, Writing
      <3>2. CASE i > Len(t.effects)
        <4>1. /\ todo'[i] = rest[i - Len(t.effects)]
              /\ i - Len(t.effects) \in DOMAIN rest
          BY <2>1, <2>2, <2>8, <3>2
        <4> QED BY <2>8, <4>1 DEF Quiet
      <3>3. i \in Nat /\ Len(t.effects) \in Nat
        BY <2>2, <2>8
      <3> QED BY <3>1, <3>2, <3>3
    <2>9. ControlMatchesState'
      BY <2>1, <2>3, <2>7, <2>8 DEF ControlMatchesState
    <2> QED BY <2>2, <2>3, <2>4, <2>5, <2>6, <2>9 DEF ControlInv
  <1> QED BY <1>2, <1>3

(* The common case: nothing is left of an enclosing dispatch, and the      *)
(* transaction is not being written.                                       *)
LEMMA PlainDispatch ==
    ASSUME ControlInv, NEW e \in Event, NEW back,
           back = "blocked" => txn.state \in Resting,
           txn.state \notin Writing,
           Dispatch(e, <<>>, back)
    PROVE  ControlInv'
  BY ShortQuiet, DispatchControl

LEMMA ControlUnchanged ==
    ASSUME ControlInv, UNCHANGED control
    PROVE  ControlInv'
  BY DEF control, ControlInv, ControlMatchesState, ThreadMirrored

(* The driver moves on within a state.                                     *)
LEMMA ControlMoves ==
    ASSUME ControlInv, NEW p \in Pcs, pc' = p, pc # "effects",
           p # "effects", txn.state \in StatesAt(p),
           UNCHANGED <<status, txn, thread, todo, resume>>
    PROVE  ControlInv'
  <1>1. ASSUME NEW i \in DOMAIN todo', todo'[i].k = "Commit"
        PROVE  FALSE
    BY <1>1 DEF ControlInv, ControlMatchesState
  <1>2. ControlMatchesState'
    BY <1>1 DEF ControlMatchesState
  <1> QED BY <1>2 DEF ControlInv, ThreadMirrored

(* The first effect of a dispatch, one that is no write, has been executed.*)
LEMMA ControlPops ==
    ASSUME ControlInv, NEW k, k # "Commit", HeadIs(k), Pop,
           UNCHANGED <<status, txn, thread, pc, resume>>
    PROVE  ControlInv'
  <1>1. /\ todo \in Seq(Effect) /\ todo # <<>> /\ Head(todo).k # "Commit"
        /\ todo' = Tail(todo) /\ pc = "effects"
    BY DEF ControlInv, HeadIs, At, Pop
  <1>2. txn.state \notin {"AUTO_APPLIED", "APPLIED", "DISCOVERED"}
    BY <1>1 DEF ControlInv, ControlMatchesState
  <1>3. todo' \in Seq(Effect)
    BY <1>1
  <1>4. ASSUME NEW i \in DOMAIN todo', todo'[i].k = "Commit"
        PROVE  FALSE
    <2>1. i + 1 \in DOMAIN todo /\ todo'[i] = todo[i + 1] /\ i \in Nat \ {0}
      BY <1>1, <1>4
    <2> QED BY <1>4, <2>1 DEF ControlInv, ControlMatchesState
  <1>5. ControlMatchesState'
    BY <1>2, <1>4 DEF ControlInv, ControlMatchesState
  <1> QED BY <1>2, <1>3, <1>5 DEF ControlInv, ThreadMirrored

(* -- What an action leaves alone ----------------------------------------- *)
LEMMA Frame ==
    ASSUME IInv
    PROVE  /\ UNCHANGED <<world, ghost>> => WorldInv'
           /\ UNCHANGED <<mail, seq>> => MailInv'
           /\ UNCHANGED <<timers, snapReady, hand, inbound>>
                /\ (UNCHANGED <<status, pc>> \/ pc' \notin Drafting
                      \/ status' # "running") => HandInv'
           /\ UNCHANGED <<env, due>> => EnvInv'
  BY DEF IInv, WorldInv, MailInv, HandInv, EnvInv, world, ghost, mail, mirror,
         hand, env, Drafting

LEMMA DispatchPc ==
    ASSUME NEW e, NEW rest, NEW back, Dispatch(e, rest, back)
    PROVE  pc' = "effects" \/ status' # "running"
  BY DEF Dispatch

LEMMA EventsTyped ==
    /\ \A s \in Snapshot : Materialized(s) \in Event
    /\ \A s \in Snapshot : [type |-> "HoldResolved", snap |-> s] \in Event
    /\ \A s \in Signal : Inbound(s) \in Event
    /\ \A d \in Decision :
         /\ [type |-> "AutoApply", decision |-> d] \in Event
         /\ [type |-> "AnswerReceived", decision |-> d] \in Event
         /\ [type |-> "OverrideDetected", decision |-> d] \in Event
         /\ [type |-> "Reapplied", decision |-> d] \in Event
    /\ \A c \in Categories : [type |-> "AskHuman", proposal |-> c] \in Event
    /\ \A o \in Outcomes :
         [type |-> "WriteVerified", outcome |-> o] \in Event
    /\ [type |-> "HoldDeadlineReached"] \in Event
    /\ [type |-> "ClarifyRequested"] \in Event
    /\ [type |-> "PatienceExpired"] \in Event
    /\ [type |-> "ArchiveWindowReached"] \in Event
    /\ [type |-> "NoChange"] \in Event
    /\ [type |-> "CouldNotConfirm"] \in Event
    /\ [type |-> "Diverged"] \in Event
    /\ [type |-> "NeedsHuman"] \in Event
  BY WorkflowAssumption DEF Materialized, Inbound, HoldForAmazon, Event

(* An action that only dispatches.                                         *)
LEMMA PlainStep ==
    ASSUME IInv, NEW e \in Event, NEW back,
           back = "blocked" => txn.state \in Resting,
           txn.state \notin Writing,
           Dispatch(e, <<>>, back),
           UNCHANGED <<world, mail, mirror, hand, env, inbound, due>>,
           WorldInv'
    PROVE  IInv'
  <1>1. ControlInv'
    BY PlainDispatch DEF IInv
  <1>2. UNCHANGED <<timers, snapReady, seq>>
    BY DEF mirror
  <1> QED BY <1>1, <1>2, DispatchPc, Frame DEF IInv, Drafting

(* The state where the driver is suspended.                                *)
LEMMA Suspended ==
    ASSUME ControlInv
    PROVE  /\ pc \in {"fetch", "waitSnap"} => txn.state = "DISCOVERED"
           /\ pc = "hold" => txn.state = "HOLD_AMAZON"
           /\ pc = "enrich" => txn.state = "ENRICHING"
           /\ pc = "readback" => txn.state \in Writing
           /\ pc \in {"await", "awaitFlagged", "interpret"}
                => txn.state = "AWAITING_HUMAN"
           /\ pc \in {"open", "openRead", "openBlocked"} => txn.state = "OPEN"
           /\ pc \in {"lapsed", "lapsedBlocked"} => txn.state = "LAPSED"
           /\ pc \in {"converge", "cvWrite", "cvVerify"}
                => txn.state = "REVISING"
  BY DEF ControlInv, ControlMatchesState, StatesAt, Writing

(* -- The end of a dispatch ----------------------------------------------- *)
LEMMA ReturnInv ==
    ASSUME IInv, Return, snapReady' \in Snapshot \cup {NoSnap}
    PROVE  IInv'
  <1>1. /\ pc = "effects" /\ todo = <<>> /\ resume' = "step"
        /\ pc' = IF resume = "blocked" THEN BlockedPcOf(txn.state)
                 ELSE PcOf(txn.state)
        /\ status' \in {status, "completed"}
        /\ UNCHANGED <<txn, thread, todo, seq, inbound, due>>
        /\ UNCHANGED <<world, mail, hand, env, ghost>>
        /\ timers' \subseteq timers
    BY DEF Return, At
  <1>2. /\ txn.state \notin Writing
        /\ txn \in Transaction
        /\ resume = "blocked" => txn.state \in Resting
    BY <1>1 DEF IInv, ControlInv, ControlMatchesState, Writing
  <1>3. /\ pc' \in Pcs /\ txn'.state \in StatesAt(pc')
        /\ pc' \notin Drafting /\ pc' # "effects"
    BY <1>1, <1>2, TransactionFields
    DEF PcOf, BlockedPcOf, StatesAt, Pcs, Drafting, Resting, Writing
  <1>4. ControlInv'
    <2>1. ControlMatchesState'
      BY <1>1, <1>3 DEF ControlMatchesState
    <2> QED BY <1>1, <1>3, <2>1
        DEF IInv, ControlInv, ThreadMirrored, Statuses
  <1>5. HandInv'
    BY <1>1, <1>3 DEF IInv, HandInv, hand, Drafting
  <1> QED BY <1>1, <1>4, <1>5, Frame DEF IInv

(* -- The effects --------------------------------------------------------- *)
LEMMA EffectFields ==
    ASSUME NEW x \in Effect
    PROVE  /\ x.k = "Commit" => x.d \in Decision
           /\ x.k \in {"SetTimer", "CancelTimer"} => x.timer \in Timers
           /\ x.k = "Replay" => x.sigs \in Seq(Signal)
  BY DEF Effect

LEMMA HeadEffect ==
    ASSUME IInv, NEW k, HeadIs(k)
    PROVE  /\ Head(todo) \in Effect /\ Head(todo).k = k
           /\ todo \in Seq(Effect) /\ todo # <<>> /\ pc = "effects"
  BY DEF IInv, ControlInv, HeadIs, At

LEMMA RunTimerInv ==
    ASSUME IInv, RunTimer
    PROVE  IInv'
  <1>1. ControlInv'
    BY ControlPops DEF IInv, RunTimer
  <1>2. timers' \subseteq Timers
    BY HeadEffect, EffectFields DEF RunTimer, IInv, HandInv
  <1>3. HandInv'
    BY <1>2 DEF IInv, HandInv, RunTimer, hand
  <1> QED BY <1>1, <1>3, Frame DEF IInv, RunTimer

LEMMA RunReplayInv ==
    ASSUME IInv, RunReplay
    PROVE  IInv'
  <1>1. ControlInv'
    BY ControlPops DEF IInv, RunReplay
  <1>2. inbound' \in Seq(Signal)
    BY HeadEffect, EffectFields DEF RunReplay, ExtendLeft, IInv, HandInv
  <1>3. HandInv'
    BY <1>2 DEF IInv, HandInv, RunReplay, hand, mirror
  <1>4. UNCHANGED <<world, ghost, mail, seq, env, due>>
    BY DEF RunReplay, mirror
  <1> QED BY <1>1, <1>3, <1>4, Frame DEF IInv

LEMMA WriteInv ==
    ASSUME IInv, NEW d \in Decision, Write(d)
    PROVE  WorldInv'
  <1>1. Patched(ynab, d) \in Snapshot
    BY DEF Patched, Snapshot, Decision, IInv, WorldInv
  <1> QED BY <1>1 DEF Write, IInv, WorldInv

LEMMA RunCommitInv ==
    ASSUME IInv, RunCommit
    PROVE  IInv'
  <1>1. /\ Head(todo) \in Effect /\ Head(todo).k = "Commit"
        /\ Head(todo).d \in Decision
        /\ todo \in Seq(Effect) /\ todo # <<>> /\ pc = "effects"
    BY HeadEffect, EffectFields DEF RunCommit
  <1>2. /\ todo' = Tail(todo) /\ pc' = "readback"
        /\ UNCHANGED <<status, txn, thread, resume>>
    BY DEF RunCommit, Pop
  <1>3. txn.state \in Writing
    BY <1>1 DEF IInv, ControlInv, ControlMatchesState, Writing
  <1>4. todo' \in Seq(Effect)
    BY <1>1, <1>2
  <1>5. ASSUME NEW i \in DOMAIN todo', todo'[i].k = "Commit"
        PROVE  FALSE
    <2>1. i + 1 \in DOMAIN todo /\ todo'[i] = todo[i + 1] /\ i \in Nat \ {0}
      BY <1>1, <1>2, <1>5
    <2> QED BY <1>5, <2>1 DEF IInv, ControlInv, ControlMatchesState
  <1>6. ControlMatchesState'
    BY <1>2, <1>3, <1>5 DEF ControlMatchesState, StatesAt, Writing
  <1>7. ControlInv'
    BY <1>2, <1>3, <1>4, <1>6
    DEF IInv, ControlInv, ThreadMirrored, Pcs, Writing
  <1>8. WorldInv'
    BY <1>1, WriteInv DEF RunCommit
  <1>9. HandInv'
    BY <1>1 DEF RunCommit, IInv, HandInv, mirror
  <1>10. UNCHANGED <<mail, seq, env, due>>
    BY DEF RunCommit, mirror
  <1> QED BY <1>7, <1>8, <1>9, <1>10, Frame DEF IInv

LEMMA SpendTyped ==
    ASSUME IInv, NEW k \in Kinds, Spend(k)
    PROVE  left' \in [Kinds -> Nat]
  BY DEF IInv, EnvInv, Spend

LEMMA LostCommitInv ==
    ASSUME IInv, LostCommit
    PROVE  IInv'
  <1>1. ControlInv'
    BY ControlUnchanged DEF IInv, LostCommit
  <1>2. WorldInv'
    BY HeadEffect, EffectFields, WriteInv DEF LostCommit
  <1>3. EnvInv'
    BY SpendTyped DEF IInv, EnvInv, LostCommit, Kinds
  <1>4. UNCHANGED <<mail, timers, snapReady, seq, hand, inbound, status, pc>>
    BY DEF LostCommit, mirror, control
  <1> QED BY <1>1, <1>2, <1>3, <1>4, Frame DEF IInv

(* -- Reading back what was written --------------------------------------- *)
LEMMA ReadTyped ==
    ASSUME IInv
    PROVE  /\ Read \in TargetState \cup {NoTarget}
           /\ Read.alloc \in Allocs \cup {NoAlloc} /\ Read.memo \in Memos
           /\ Read.approved \in BOOLEAN
           /\ Read # NoTarget => Read.alloc \in Allocs
  <1>1. ynab \in Snapshot
    BY DEF IInv, WorldInv
  <1>2. {} \in Memos
    BY DEF Memos
  <1> QED BY <1>1, <1>2 DEF Read, ToTarget, TargetOf, TargetState, NoTarget,
                            Snapshot

LEMMA SettleInv ==
    ASSUME IInv, NEW outcome, NEW by, Settle(outcome, by), UNCHANGED world
    PROVE  WorldInv'
  BY ReadTyped DEF Settle, IInv, WorldInv, world

LEMMA ReadBackInv ==
    ASSUME IInv, ReadBack
    PROVE  IInv'
  <1> DEFINE outcome == ClassifyVerify(Read, TargetOf(draft))
             e       == [type |-> "WriteVerified", outcome |-> outcome]
  <1>1. outcome \in Outcomes
    BY DEF ClassifyVerify, Outcomes
  <1> HIDE DEF outcome
  <1>2. e \in Event
    BY <1>1, EventsTyped
  <1>3. Quiet(todo)
    BY DEF ReadBack, At, IInv, ControlInv, ControlMatchesState, Quiet
  <1>4. Dispatch(e, todo, "step") /\ Settle(outcome, draft.by)
    BY DEF ReadBack, outcome
  <1>5. /\ txn.state \in Writing /\ txn \in Transaction /\ ControlInv
        /\ pc = "readback"
    BY Suspended DEF ReadBack, At, IInv, ControlInv
  <1>6. Advance(txn, e).next.state \in {"OPEN", "AWAITING_HUMAN"}
    BY <1>1, <1>5, VerdictLeavesWriting
  <1>7. ControlInv'
    BY <1>2, <1>3, <1>4, <1>5, <1>6, DispatchControl DEF Writing
  <1>8. WorldInv'
    BY <1>4, SettleInv DEF ReadBack
  <1>9. HandInv'
    BY <1>4, DispatchPc DEF ReadBack, IInv, HandInv, mirror, Drafting
  <1>10. UNCHANGED <<mail, seq, env, due>>
    BY DEF ReadBack, mirror
  <1> QED BY <1>7, <1>8, <1>9, <1>10, Frame DEF IInv

(* -- Emails, their types ------------------------------------------------- *)
LEMMA DeliverTyped ==
    ASSUME MailInv, NEW l \in Nat
    PROVE  /\ Deliver(l) => /\ labels' \subseteq Nat /\ landed' \in Nat
                            /\ mailFault' \subseteq {"swallowed", "doubled"}
           /\ DeliverLost(l) => /\ labels' \subseteq Nat /\ landed' \in Nat
                                /\ mailFault' \subseteq {"swallowed", "doubled"}
                                /\ indexed' = indexed
  <1>1. labels \cup {l} \subseteq Nat /\ Emails(l) \in Nat /\ 0 \in Nat
    BY DEF MailInv, Emails
  <1>2. /\ (IF Emails(l) = 0 THEN {"swallowed"} ELSE {})
             \subseteq {"swallowed", "doubled"}
        /\ (IF Emails(l) > 1 THEN {"doubled"} ELSE {})
             \subseteq {"swallowed", "doubled"}
        /\ mailFault \subseteq {"swallowed", "doubled"}
    BY DEF MailInv
  <1>3. Deliver(l) => /\ labels' \subseteq Nat /\ landed' \in Nat
                      /\ mailFault' \subseteq {"swallowed", "doubled"}
    BY <1>1, <1>2, Zenon DEF Deliver
  <1>4. DeliverLost(l) =>
          /\ labels' \subseteq Nat /\ landed' \in Nat
          /\ UNCHANGED <<indexed, mailFault>>
    BY <1>1 DEF DeliverLost
  <1> QED BY <1>2, <1>3, <1>4

LEMMA RunOpenThreadInv ==
    ASSUME IInv, RunOpenThread
    PROVE  IInv'
  <1>1. PICK k \in {"OpenThread", "Send"} : HeadIs(k)
    BY DEF RunOpenThread, OpensThread
  <1>2. /\ todo \in Seq(Effect) /\ todo # <<>> /\ Head(todo).k # "Commit"
        /\ pc = "effects" /\ txn \in Transaction
    BY <1>1, HeadEffect DEF IInv, ControlInv
  <1>3. txn.state \notin {"DISCOVERED", "AUTO_APPLIED", "APPLIED"}
    BY <1>2 DEF IInv, ControlInv, ControlMatchesState
  <1>4. /\ txn' = [txn EXCEPT !.core.thread = TRUE]
        /\ thread' = TRUE /\ todo' = Tail(todo)
        /\ UNCHANGED <<status, pc, resume>>
    BY DEF RunOpenThread, Pop
  <1>5. txn' \in Transaction /\ txn'.state = txn.state /\ ThreadOf(txn') = TRUE
    <2>1. txn.core \in Core /\ [txn.core EXCEPT !.thread = TRUE] \in Core
      BY <1>2, <1>3, TransactionFields DEF Core
    <2>2. txn' = [txn EXCEPT !.core = [txn.core EXCEPT !.thread = TRUE]]
      BY <1>4
    <2> DEFINE c == [txn.core EXCEPT !.thread = TRUE]
    <2>3. c.thread = TRUE
      BY <2>1 DEF Core
    <2> HIDE DEF c
    <2> QED BY <1>2, <1>3, <2>1, <2>2, <2>3, CoreReplaced DEF ThreadOf, c
  <1>6. todo' \in Seq(Effect)
    BY <1>2, <1>4
  <1>7. ASSUME NEW i \in DOMAIN todo', todo'[i].k = "Commit"
        PROVE  FALSE
    <2>1. i + 1 \in DOMAIN todo /\ todo'[i] = todo[i + 1] /\ i \in Nat \ {0}
      BY <1>2, <1>4, <1>7
    <2> QED BY <1>7, <2>1 DEF IInv, ControlInv, ControlMatchesState
  <1>8. ControlMatchesState'
    BY <1>3, <1>4, <1>5, <1>7 DEF IInv, ControlInv, ControlMatchesState
  <1>9. ControlInv'
    BY <1>3, <1>4, <1>5, <1>6, <1>8 DEF IInv, ControlInv, ThreadMirrored
  <1>10. MailInv'
    BY DeliverTyped DEF RunOpenThread, IInv, MailInv, mirror
  <1>11. UNCHANGED <<world, ghost, timers, snapReady, hand, inbound, status,
                     pc, env, due>>
    BY DEF RunOpenThread, mirror
  <1> QED BY <1>9, <1>10, <1>11, Frame DEF IInv

LEMMA RunSendInv ==
    ASSUME IInv, RunSend
    PROVE  IInv'
  <1>1. ControlInv'
    BY ControlPops DEF IInv, RunSend
  <1>2. NextSeq \in Nat
    BY DEF NextSeq, IInv, MailInv
  <1>3. MailInv'
    BY <1>2, DeliverTyped DEF RunSend, IInv, MailInv
  <1>4. UNCHANGED <<world, ghost, timers, snapReady, hand, inbound, status,
                    pc, env, due>>
    BY DEF RunSend
  <1> QED BY <1>1, <1>3, <1>4, Frame DEF IInv

LEMMA LostSendInv ==
    ASSUME IInv, LostSend
    PROVE  IInv'
  <1>1. ControlInv'
    BY ControlUnchanged DEF IInv, LostSend
  <1>2. NextSeq \in Nat /\ 0 \in Nat
    BY DEF NextSeq, IInv, MailInv
  <1>3. PICK l \in Nat : DeliverLost(l)
    BY <1>2 DEF LostSend
  <1>4. MailInv'
    BY <1>3, DeliverTyped DEF LostSend, IInv, MailInv, mirror
  <1>5. EnvInv'
    BY <1>3, SpendTyped DEF LostSend, DeliverLost, IInv, EnvInv, Kinds
  <1>6. UNCHANGED <<world, ghost, timers, snapReady, hand, inbound, status, pc>>
    BY DEF LostSend, mirror, control
  <1> QED BY <1>1, <1>4, <1>5, <1>6, Frame DEF IInv

LEMMA RunFeedInv ==
    ASSUME IInv, RunFeed
    PROVE  IInv'
  <1>1. ControlInv'
    BY ControlPops DEF IInv, RunFeed
  <1>2. WorldInv'
    BY DEF RunFeed, IInv, WorldInv, ghost
  <1>3. UNCHANGED <<mail, timers, snapReady, seq, hand, inbound, status, pc,
                    env, due>>
    BY DEF RunFeed, mirror
  <1> QED BY <1>1, <1>2, <1>3, Frame DEF IInv

LEMMA RunCloseOrRecordInv ==
    ASSUME IInv, RunCloseOrRecord
    PROVE  IInv'
  <1>1. ControlInv'
    BY ControlPops DEF IInv, RunCloseOrRecord
  <1>2. UNCHANGED <<world, ghost, mail, timers, snapReady, seq, hand, inbound,
                    status, pc, env, due>>
    BY DEF RunCloseOrRecord, mirror
  <1> QED BY <1>1, <1>2, Frame DEF IInv

(* -- The per-state steps ------------------------------------------------- *)
LEMMA SnapTyped ==
    ASSUME IInv
    PROVE  /\ visible => Fetch \in Snapshot
           /\ snapReady # NoSnap => snapReady \in Snapshot
           /\ inbound # <<>> => /\ Head(inbound) \in Signal
                                /\ Tail(inbound) \in Seq(Signal)
  BY DEF Fetch, IInv, WorldInv, HandInv

LEMMA FetchSnapshotInv ==
    ASSUME IInv, FetchSnapshot
    PROVE  IInv'
  <1>1. /\ ControlInv /\ txn.state = "DISCOVERED" /\ pc = "fetch"
        /\ UNCHANGED <<world, mail, mirror, hand, env, ghost, inbound, due>>
    BY Suspended DEF FetchSnapshot, At, IInv
  <1>2. WorldInv'
    BY <1>1, Frame
  <1>3. CASE visible
    <2>1. Dispatch(Materialized(Fetch), <<>>, "step")
      BY <1>3 DEF FetchSnapshot
    <2> QED BY <1>1, <1>2, <1>3, <2>1, SnapTyped, EventsTyped, PlainStep
            DEF Writing
  <1>4. CASE ~visible
    <2>1. /\ pc' = "waitSnap" /\ pc # "effects"
          /\ UNCHANGED <<status, txn, thread, todo, resume>>
      BY <1>1, <1>4 DEF FetchSnapshot
    <2>2. ControlInv'
      BY <1>1, <2>1, ControlMoves DEF Pcs, StatesAt
    <2>3. UNCHANGED <<timers, snapReady, seq>> /\ pc' \notin Drafting
      BY <1>1, <2>1 DEF mirror, Drafting
    <2> QED BY <1>1, <1>2, <2>2, <2>3, Frame DEF IInv
  <1> QED BY <1>3, <1>4

(* A dispatch that takes the backfilled snapshot.                          *)
LEMMA TakesSnapshot ==
    ASSUME IInv, NEW e \in Event, txn.state \notin Writing,
           Dispatch(e, <<>>, "step"), snapReady' = NoSnap,
           UNCHANGED <<world, mail, timers, seq, hand, env, ghost, inbound,
                       due>>
    PROVE  IInv'
  <1>1. ControlInv'
    BY PlainDispatch DEF IInv
  <1>2. HandInv'
    BY DispatchPc DEF IInv, HandInv, hand, Drafting
  <1> QED BY <1>1, <1>2, Frame DEF IInv

(* A dispatch that takes the signal at the head of the queue.              *)
LEMMA TakesSignal ==
    ASSUME IInv, txn.state \notin Writing, inbound # <<>>,
           Dispatch(Inbound(Head(inbound)), <<>>, "step"),
           inbound' = Tail(inbound), due' \subseteq due,
           UNCHANGED <<world, mail, mirror, hand, env, ghost>>
    PROVE  IInv'
  <1>1. Inbound(Head(inbound)) \in Event
    BY SnapTyped, EventsTyped
  <1>2. ControlInv'
    BY <1>1, PlainDispatch DEF IInv
  <1>3. HandInv'
    BY SnapTyped, DispatchPc DEF IInv, HandInv, hand, mirror, Drafting
  <1>4. EnvInv'
    BY DEF IInv, EnvInv, env
  <1>5. UNCHANGED seq
    BY DEF mirror
  <1> QED BY <1>2, <1>3, <1>4, <1>5, Frame DEF IInv

LEMMA DiscoveredInv ==
    ASSUME IInv, TakeSnapshot \/ BufferInbound
    PROVE  IInv'
  <1>1. txn.state \notin Writing
    BY Suspended DEF TakeSnapshot, BufferInbound, At, IInv, Writing
  <1>2. CASE TakeSnapshot
    BY <1>1, <1>2, SnapTyped, EventsTyped, TakesSnapshot DEF TakeSnapshot
  <1>3. CASE BufferInbound
    BY <1>1, <1>3, TakesSignal DEF BufferInbound
  <1> QED BY <1>2, <1>3

LEMMA HoldInv ==
    ASSUME IInv, HoldBackfilled \/ HoldInterrupted \/ HoldExpires
    PROVE  IInv'
  <1>1. txn.state \notin Writing
    BY Suspended
    DEF HoldBackfilled, HoldInterrupted, HoldExpires, At, IInv, Writing
  <1>2. CASE HoldBackfilled
    BY <1>1, <1>2, SnapTyped, EventsTyped, TakesSnapshot DEF HoldBackfilled
  <1>3. CASE HoldInterrupted
    BY <1>1, <1>3, TakesSignal DEF HoldInterrupted
  <1>4. CASE HoldExpires
    BY <1>1, <1>4, EventsTyped, Frame, PlainStep DEF HoldExpires
  <1> QED BY <1>2, <1>3, <1>4

LEMMA EnrichingInv ==
    ASSUME IInv, GateOpens \/ GateAsks
    PROVE  IInv'
  <1>1. txn.state \notin Writing
    BY Suspended DEF GateOpens, GateAsks, At, IInv, Writing
  <1>2. CASE GateOpens
    <2>1. [alloc |-> RuleAlloc, memo |-> RuleMemo, approved |-> TRUE,
           by |-> "RULE"] \in Decision
      BY WorkflowAssumption DEF Decision, Authors
    <2>2. WorldInv'
      BY <1>2 DEF GateOpens, IInv, WorldInv, world
    <2>3. PICK e \in Event : Dispatch(e, <<>>, "step")
      BY <1>2, <2>1, EventsTyped DEF GateOpens
    <2>4. UNCHANGED <<world, mail, mirror, hand, env, inbound, due>>
      BY <1>2 DEF GateOpens
    <2> QED BY <1>1, <2>2, <2>3, <2>4, PlainStep
  <1>3. CASE GateAsks
    BY <1>1, <1>3, EventsTyped, Frame, PlainStep DEF GateAsks
  <1> QED BY <1>2, <1>3

LEMMA HumanTyped ==
    ASSUME NEW c \in Categories, NEW m \in Memos
    PROVE  HumanDecision(c, m) \in Decision
  BY DEF HumanDecision, Decision, Allocs, Authors

LEMMA AwaitingInv ==
    ASSUME IInv, PatienceExpires \/ TakeReply \/ Clarify \/ Answer
    PROVE  IInv'
  <1>1. txn.state = "AWAITING_HUMAN" /\ txn.state \notin Writing
    BY Suspended
    DEF PatienceExpires, TakeReply, Clarify, Answer, At, IInv, Writing
  <1>2. CASE PatienceExpires
    BY <1>1, <1>2, EventsTyped, Frame, PlainStep DEF PatienceExpires, Resting
  <1>3. CASE TakeReply
    <2>1. /\ pc' = "interpret" /\ pc # "effects"
          /\ UNCHANGED <<status, txn, thread, todo, resume>>
      BY <1>3 DEF TakeReply, At
    <2>2. ControlInv'
      BY <1>1, <2>1, ControlMoves DEF IInv, Pcs, StatesAt
    <2>3. HandInv'
      BY <1>3, SnapTyped DEF TakeReply, IInv, HandInv, mirror, Drafting
    <2>4. EnvInv'
      BY <1>3 DEF TakeReply, IInv, EnvInv, env
    <2>5. UNCHANGED <<world, ghost, mail, seq>>
      BY <1>3 DEF TakeReply, mirror
    <2> QED BY <2>2, <2>3, <2>4, <2>5, Frame DEF IInv
  <1>4. ASSUME NEW e \in Event, Dispatch(e, <<>>, "step"), sig' = NoSig,
               UNCHANGED <<world, mail, mirror, draft, memoOnly, env, ghost,
                           inbound, due>>
        PROVE  IInv'
    <2>1. ControlInv'
      BY <1>1, <1>4, PlainDispatch DEF IInv
    <2>2. HandInv'
      BY <1>4, DispatchPc DEF IInv, HandInv, mirror, Drafting
    <2>3. UNCHANGED seq
      BY <1>4 DEF mirror
    <2> QED BY <1>4, <2>1, <2>2, <2>3, Frame DEF IInv
  <1>5. CASE Clarify
    BY <1>4, <1>5, EventsTyped DEF Clarify
  <1>6. CASE Answer
    <2>1. PICK c \in Categories, m \in ReplyMemos :
            Dispatch([type |-> "AnswerReceived",
                      decision |-> HumanDecision(c, m)], <<>>, "step")
      BY <1>6 DEF Answer
    <2>2. m \in Memos
      BY WorkflowAssumption
    <2> QED BY <1>4, <1>6, <2>1, <2>2, HumanTyped, EventsTyped DEF Answer
  <1> QED BY <1>2, <1>3, <1>5, <1>6

(* -- The windows --------------------------------------------------------- *)
LEMMA ReopenInv ==
    ASSUME IInv, Reopen
    PROVE  IInv'
  <1>1. txn.state \notin Writing
    BY Suspended DEF Reopen, At, IInv, Writing
  <1>2. due' \subseteq due
    BY DEF Reopen
  <1> QED BY <1>1, <1>2, TakesSignal DEF Reopen

LEMMA WindowInv ==
    ASSUME IInv, OpenWindowPasses \/ ArchiveOrOverride \/ LapsedWindowPasses
    PROVE  IInv'
  <1>1. txn.state \in Resting /\ txn.state \notin Writing
    BY Suspended
    DEF OpenWindowPasses, ArchiveOrOverride, LapsedWindowPasses, At, IInv,
        Resting, Writing
  <1>2. CASE OpenWindowPasses
    <2>1. /\ pc' = "openRead" /\ pc # "effects" /\ txn.state = "OPEN"
          /\ UNCHANGED <<status, txn, thread, todo, resume>>
      BY <1>2, Suspended DEF OpenWindowPasses, At, IInv
    <2>2. ControlInv'
      BY <2>1, ControlMoves DEF IInv, Pcs, StatesAt
    <2>3. UNCHANGED <<world, ghost, mail, timers, snapReady, seq, hand, inbound,
                      env, due>>
      BY <1>2 DEF OpenWindowPasses, mirror
    <2> QED BY <2>1, <2>2, <2>3, Frame DEF IInv, Drafting
  <1>3. CASE ArchiveOrOverride
    <2>1. PICK e \in Event : Dispatch(e, <<>>, "blocked")
      <3>1. Read # NoTarget =>
              [alloc |-> Read.alloc, memo |-> Read.memo,
               approved |-> Read.approved, by |-> "HUMAN"] \in Decision
        BY ReadTyped DEF Decision, Authors
      <3> QED BY <1>3, <3>1, EventsTyped DEF ArchiveOrOverride
    <2> QED BY <1>1, <1>3, <2>1, Frame, PlainStep DEF ArchiveOrOverride
  <1>4. CASE LapsedWindowPasses
    BY <1>1, <1>4, EventsTyped, Frame, PlainStep DEF LapsedWindowPasses
  <1> QED BY <1>2, <1>3, <1>4

(* -- Converging a revision ----------------------------------------------- *)
LEMMA ConvergeDispatches ==
    ASSUME IInv, NEW o \in {"NoChange", "NeedsHuman", "CouldNotConfirm",
                            "Diverged"},
           txn.state \notin Writing, Converged(o)
    PROVE  ControlInv' /\ (pc' \notin Drafting \/ status' # "running")
  BY EventsTyped, PlainDispatch, DispatchPc DEF Converged, IInv, Drafting

LEMMA ReappliedDispatches ==
    ASSUME IInv, NEW d \in Decision, txn.state \notin Writing, Reapplied(d)
    PROVE  ControlInv' /\ (pc' \notin Drafting \/ status' # "running")
  BY EventsTyped, PlainDispatch, DispatchPc DEF Reapplied, IInv, Drafting

LEMMA BeginWriteInv ==
    ASSUME IInv, pc = "converge", txn.state = "REVISING", NEW d \in Decision,
           NEW m \in BOOLEAN, BeginWrite(d, m)
    PROVE  /\ ControlInv' /\ draft' \in Decision /\ memoOnly' \in BOOLEAN
  <1>1. /\ pc' = "cvWrite"
        /\ UNCHANGED <<status, txn, thread, todo, resume>>
        /\ draft' = d /\ memoOnly' = m
    BY DEF BeginWrite
  <1>2. ControlInv'
    BY <1>1, ControlMoves DEF IInv, Pcs, StatesAt
  <1> QED BY <1>1, <1>2

(* What the steps of the activity have in common: the run has a draft only *)
(* while it writes and verifies it.                                        *)
LEMMA ConvergeStep ==
    ASSUME IInv, ControlInv', WorldInv', sig' = sig,
           draft' \in Decision \cup {NoDecision}, memoOnly' \in BOOLEAN,
           draft' \in Decision \/ pc' \notin Drafting \/ status' # "running",
           UNCHANGED <<mail, mirror, inbound>>, EnvInv'
    PROVE  IInv'
  <1>1. HandInv'
    BY DEF IInv, HandInv, mirror
  <1>2. UNCHANGED <<mail, seq>>
    BY DEF mirror
  <1> QED BY <1>1, <1>2, Frame DEF IInv

LEMMA ConvergeEndsInv ==
    ASSUME IInv, ConvergeBlocked \/ ConvergeNothing
    PROVE  IInv'
  <1>1. txn.state \notin Writing
    BY Suspended
    DEF ConvergeBlocked, ConvergeNothing, AtConverge, At, IInv, Writing
  <1> QED BY <1>1, EventsTyped, Frame, PlainStep
          DEF ConvergeBlocked, ConvergeNothing, Converged

LEMMA ConvergeReceiptInv ==
    ASSUME IInv, ConvergeReceipt
    PROVE  IInv'
  <1> DEFINE merged == ynab.memo \cup {"items"}
             d == [alloc |-> ynab.alloc, memo |-> merged,
                   approved |-> ynab.approved, by |-> "AGENT"]
  <1>1. /\ pc = "converge" /\ txn.state = "REVISING"
        /\ txn.state \notin Writing
    BY Suspended DEF ConvergeReceipt, AtConverge, At, IInv, Writing
  <1>2. /\ UNCHANGED <<world, ghost, mail, mirror, inbound, env, due>>
        /\ sig' = sig /\ WorldInv' /\ EnvInv'
    BY Frame DEF ConvergeReceipt
  <1>3. draft \in Decision \cup {NoDecision} /\ memoOnly \in BOOLEAN
    BY DEF IInv, HandInv
  <1>4. CASE Read = NoTarget \/ ynab.alloc = Split
    <2>1. Converged("NeedsHuman") /\ UNCHANGED <<draft, memoOnly>>
      BY <1>4 DEF ConvergeReceipt
    <2> QED BY <1>1, <1>2, <1>3, <2>1, ConvergeDispatches, ConvergeStep
  <1>5. CASE ~(Read = NoTarget \/ ynab.alloc = Split) /\ merged = ynab.memo
    <2>1. Converged("NoChange") /\ UNCHANGED <<draft, memoOnly>>
      BY <1>5 DEF ConvergeReceipt
    <2> QED BY <1>1, <1>2, <1>3, <2>1, ConvergeDispatches, ConvergeStep
  <1>6. CASE ~(Read = NoTarget \/ ynab.alloc = Split) /\ merged # ynab.memo
    <2>1. BeginWrite(d, TRUE)
      BY <1>6 DEF ConvergeReceipt
    <2>2. d \in Decision
      <3>1. ynab.alloc \in Allocs
        BY <1>6 DEF Read, ToTarget
      <3>2. ynab \in Snapshot
        BY DEF IInv, WorldInv
      <3>3. merged \in Memos
        BY <3>2, WorkflowAssumption DEF Snapshot, Memos
      <3> QED BY <3>1, <3>2, <3>3 DEF Snapshot, Decision, Authors
    <2> HIDE DEF d
    <2>3. ControlInv' /\ draft' \in Decision /\ memoOnly' \in BOOLEAN
      BY <1>1, <2>1, <2>2, BeginWriteInv
    <2> QED BY <1>2, <2>3, ConvergeStep
  <1> QED BY <1>4, <1>5, <1>6

LEMMA ConvergeReplyInv ==
    ASSUME IInv, ConvergeReply
    PROVE  IInv'
  <1>1. /\ pc = "converge" /\ txn.state = "REVISING"
        /\ txn.state \notin Writing /\ txn \in Transaction
    BY Suspended DEF ConvergeReply, AtConverge, At, IInv, ControlInv, Writing
  <1>2. /\ UNCHANGED <<world, mail, mirror, inbound, env, due>>
        /\ sig' = sig /\ EnvInv'
    BY Frame DEF ConvergeReply
  <1>3. draft \in Decision \cup {NoDecision} /\ memoOnly \in BOOLEAN
    BY DEF IInv, HandInv
  <1>4. txn.core.snap.memo \in Memos
    BY <1>1, TransactionFields DEF Core, Snapshot
  <1> DEFINE dOf(plan) == HumanDecision(plan.alloc,
                                        IF plan.memo # {} THEN plan.memo
                                        ELSE txn.core.snap.memo)
             prior == IF txn.prior = NoDecision THEN NoTarget
                      ELSE TargetOf(txn.prior)
             actionOf(plan) ==
               PrecommitAction(Read, TargetOf(dOf(plan)), prior)
  <1>5. PICK plan \in RevisionPlans :
          IF plan.alloc \notin Categories
          THEN /\ Converged("NeedsHuman")
               /\ UNCHANGED <<draft, memoOnly, ghost>>
          ELSE IF actionOf(plan) = "WRITE"
               THEN /\ BeginWrite(dOf(plan), plan.kind = "MEMO_ONLY")
                    /\ UNCHANGED ghost
               ELSE /\ CASE actionOf(plan) = "NO_CHANGE" ->
                               Converged("NoChange")
                          [] actionOf(plan) = "ALREADY_TARGET" ->
                               Reapplied(dOf(plan))
                          [] actionOf(plan) = "DIVERGED" ->
                               Converged("Diverged")
                    /\ Settle(IF actionOf(plan) = "DIVERGED" THEN "DIVERGED"
                              ELSE "MATCH", "HUMAN")
                    /\ UNCHANGED <<draft, memoOnly>>
    BY DEF ConvergeReply
  <1> DEFINE d == dOf(plan)
             action == actionOf(plan)
  <1>8. action \in PrecommitActions
    BY DEF PrecommitAction, PrecommitActions
  <1> HIDE DEF action
  <1>6. CASE plan.alloc \notin Categories
    <2>1. /\ Converged("NeedsHuman") /\ UNCHANGED <<draft, memoOnly>>
          /\ UNCHANGED ghost
      BY <1>5, <1>6
    <2> QED BY <1>1, <1>2, <1>3, <2>1, Frame, ConvergeDispatches, ConvergeStep
  <1>7. CASE plan.alloc \in Categories
    <2>1. plan.memo \in Memos
      BY WorkflowAssumption DEF RevisionPlans
    <2>2. d \in Decision
      BY <1>4, <1>7, <2>1, HumanTyped
    <2>3. CASE action = "WRITE"
      <3>1. BeginWrite(d, plan.kind = "MEMO_ONLY") /\ UNCHANGED ghost
        BY <1>5, <1>7, <2>3 DEF action
      <3>2. WorldInv'
        BY <1>2, <3>1, Frame
      <3>3. ControlInv' /\ draft' \in Decision /\ memoOnly' \in BOOLEAN
        BY <1>1, <2>2, <3>1, BeginWriteInv
      <3> QED BY <1>2, <3>2, <3>3, ConvergeStep
    <2>4. CASE action # "WRITE"
      <3>1. /\ \/ Converged("NoChange") \/ Reapplied(d)
               \/ Converged("Diverged")
            /\ UNCHANGED <<draft, memoOnly>>
        BY <1>5, <1>7, <1>8, <2>4 DEF action, PrecommitActions
      <3>2. WorldInv'
        BY <1>2, <1>5, <1>7, <2>4, SettleInv DEF action
      <3>3. ControlInv' /\ (pc' \notin Drafting \/ status' # "running")
        BY <1>1, <2>2, <3>1, ConvergeDispatches, ReappliedDispatches
      <3> QED BY <1>2, <1>3, <3>1, <3>2, <3>3, ConvergeStep
    <2> QED BY <2>3, <2>4
  <1> QED BY <1>6, <1>7

LEMMA ConvergeWriteInv ==
    ASSUME IInv, ConvergeWrite
    PROVE  IInv'
  <1>1. /\ pc = "cvWrite" /\ pc' = "cvVerify" /\ txn.state = "REVISING"
        /\ UNCHANGED <<status, txn, thread, todo, resume>>
        /\ draft \in Decision
    BY Suspended DEF ConvergeWrite, At, IInv, HandInv, Drafting
  <1>2. ControlInv'
    BY <1>1, ControlMoves DEF IInv, Pcs, StatesAt
  <1>3. WorldInv'
    BY <1>1, WriteInv DEF ConvergeWrite
  <1>4. /\ UNCHANGED <<mail, mirror, inbound, env, due>>
        /\ draft' = draft /\ memoOnly' = memoOnly /\ sig' = sig
    BY DEF ConvergeWrite, hand
  <1>5. EnvInv' /\ memoOnly' \in BOOLEAN
    BY <1>4, Frame DEF IInv, HandInv
  <1> QED BY <1>1, <1>2, <1>3, <1>4, <1>5, ConvergeStep

LEMMA ConvergeVerifyInv ==
    ASSUME IInv, ConvergeVerify
    PROVE  IInv'
  <1> DEFINE outcome == ClassifyVerify(Read, TargetOf(draft))
  <1>1. /\ txn.state \notin Writing /\ draft \in Decision
    BY Suspended DEF ConvergeVerify, At, IInv, HandInv, Drafting, Writing
  <1>2. outcome \in Outcomes
    BY DEF ClassifyVerify, Outcomes
  <1> HIDE DEF outcome
  <1>3. /\ \/ Reapplied(draft) \/ Converged("CouldNotConfirm")
           \/ Converged("Diverged")
        /\ Settle(outcome, draft.by)
    BY <1>2 DEF ConvergeVerify, Outcomes, outcome
  <1>4. ControlInv' /\ (pc' \notin Drafting \/ status' # "running")
    BY <1>1, <1>3, ConvergeDispatches, ReappliedDispatches
  <1>5. WorldInv'
    BY <1>3, SettleInv DEF ConvergeVerify
  <1>6. /\ UNCHANGED <<mail, mirror, inbound, env, due>>
        /\ draft' = NoDecision /\ memoOnly' = FALSE /\ sig' = sig
    BY DEF ConvergeVerify
  <1>7. EnvInv'
    BY <1>6, Frame
  <1> QED BY <1>4, <1>5, <1>6, <1>7, ConvergeStep

LEMMA LostConvergeInv ==
    ASSUME IInv, LostConverge
    PROVE  IInv'
  <1>1. /\ pc # "effects" /\ pc' = "converge" /\ txn.state = "REVISING"
        /\ UNCHANGED <<status, txn, thread, todo, resume>>
    BY Suspended DEF LostConverge, At, IInv
  <1>2. ControlInv'
    BY <1>1, ControlMoves DEF IInv, Pcs, StatesAt
  <1>3. WorldInv'
    BY Frame DEF LostConverge
  <1>4. /\ UNCHANGED <<mail, mirror, inbound>>
        /\ draft' = NoDecision /\ memoOnly' = FALSE /\ sig' = sig
    BY DEF LostConverge
  <1>5. EnvInv'
    BY SpendTyped DEF LostConverge, IInv, EnvInv, Kinds
  <1> QED BY <1>1, <1>2, <1>3, <1>4, <1>5, ConvergeStep DEF Drafting

(* -- The end of a run ---------------------------------------------------- *)
LEMMA FailInv ==
    ASSUME IInv, Fail, EnvInv'
    PROVE  IInv'
  <1>1. /\ status' = "failed"
        /\ UNCHANGED <<txn, thread, pc, todo, resume>>
    BY DEF Fail
  <1>2. ControlInv'
    BY <1>1
    DEF IInv, ControlInv, ControlMatchesState, ThreadMirrored, Statuses
  <1>3. MailInv'
    BY DEF Fail, IInv, MailInv, mirror
  <1>4. UNCHANGED <<world, ghost, timers, snapReady, hand, inbound>>
    BY DEF Fail, mirror
  <1> QED BY <1>1, <1>2, <1>3, <1>4, Frame DEF IInv

LEMMA FailuresInv ==
    ASSUME IInv, ActivityFails \/ GoneFails
    PROVE  IInv'
  <1>1. Fail
    BY DEF ActivityFails, GoneFails
  <1>2. left' \in [Kinds -> Nat]
    BY SpendTyped DEF ActivityFails, GoneFails, Kinds, IInv, EnvInv
  <1>3. EnvInv'
    BY <1>1, <1>2 DEF Fail, IInv, EnvInv
  <1> QED BY <1>1, <1>3, FailInv

(* -- The environment ----------------------------------------------------- *)
Fresh == /\ status \in Statuses /\ txn = Discovered(FALSE, <<>>)
         /\ thread = FALSE /\ pc = "fetch" /\ todo = <<>>
         /\ resume = "step"

LEMMA FreshControl == Fresh => ControlInv
  <1> SUFFICES ASSUME Fresh PROVE ControlInv
    OBVIOUS
  <1> USE DEF Fresh
  <1>1. Discovered(FALSE, <<>>) \in Transaction
    BY DEF Discovered, DiscoveredState, Transaction
  <1>2. txn.state = "DISCOVERED" /\ ThreadOf(txn) = FALSE
    BY DEF Discovered, ThreadOf
  <1>3. todo \in Seq(Effect) /\ DOMAIN todo = {}
    OBVIOUS
  <1>4. "DISCOVERED" \in StatesAt("fetch") /\ "fetch" \in Pcs
    BY DEF StatesAt, Pcs
  <1>5. ControlMatchesState
    BY <1>2, <1>3, <1>4 DEF ControlMatchesState
  <1> QED BY <1>1, <1>2, <1>3, <1>4, <1>5 DEF ControlInv, ThreadMirrored

LEMMA BornInv ==
    ASSUME NEW q \in Seq(Signal), Born(q)
    PROVE  /\ ControlInv' /\ HandInv' /\ due' \subseteq Nat
           /\ seq' = 0 /\ unverified' = FALSE
  <1>1. ControlInv'
    <2>1. Fresh'
      BY DEF Born, Fresh, Statuses
    <2> QED BY <2>1, FreshControl, PTL
  <1>2. HandInv'
    BY DEF Born, HandInv, Drafting
  <1>3. ASSUME NEW i \in DOMAIN q
        PROVE  q[i].id \in Nat
    <2>1. q[i] \in Signal
      OBVIOUS
    <2> QED BY <2>1 DEF Signal
  <1>4. due' \subseteq Nat
    BY <1>3 DEF Born, Ids
  <1> QED BY <1>1, <1>2, <1>4 DEF Born

LEMMA PollInv ==
    ASSUME IInv, PollFetch \/ PollAddress
    PROVE  IInv'
  <1>1. CASE PollFetch
    <2>1. ControlInv'
      BY <1>1, ControlUnchanged DEF IInv, PollFetch
    <2>2. WorldInv'
      BY <1>1 DEF PollFetch, IInv, WorldInv, ghost
    <2>3. UNCHANGED <<mail, timers, snapReady, seq, hand, inbound, status, pc,
                      env, due>>
      BY <1>1 DEF PollFetch, mirror, control
    <2> QED BY <2>1, <2>2, <2>3, Frame DEF IInv
  <1>2. CASE PollAddress /\ status \in {"none", "failed"}
    <2>1. Spend("run") /\ Born(<<>>) /\ <<>> \in Seq(Signal)
      BY <1>2 DEF PollAddress
    <2>2. WorldInv'
      BY <1>2, <2>1, BornInv DEF PollAddress, IInv, WorldInv
    <2>5. UNCHANGED mail /\ seq' \in Nat
      BY <1>2, <2>1 DEF PollAddress, Born
    <2>3. EnvInv'
      BY <1>2, <2>1, BornInv, SpendTyped DEF PollAddress, IInv, EnvInv, Kinds
    <2>4. MailInv'
      BY <2>5 DEF IInv, MailInv, mail
    <2> QED BY <2>1, <2>2, <2>3, <2>4, BornInv DEF IInv
  <1>3. CASE PollAddress /\ status \notin {"none", "failed"}
    <2>1. /\ polled # NoSnap /\ polled' = NoSnap
          /\ snapReady' \in {polled, snapReady}
          /\ UNCHANGED <<control, timers, seq, hand, left, unverified,
                         inbound, due>>
          /\ UNCHANGED <<ynab, visible, trusted, mail, sent, consent, auto,
                         touched>>
      BY <1>3 DEF PollAddress
    <2>2. ControlInv'
      BY <2>1, ControlUnchanged DEF IInv
    <2>3. WorldInv' /\ EnvInv'
      BY <2>1 DEF IInv, WorldInv, EnvInv
    <2>4. HandInv'
      BY <2>1 DEF IInv, WorldInv, HandInv, hand, control
    <2> QED BY <2>1, <2>2, <2>3, <2>4, Frame DEF IInv
  <1> QED BY <1>1, <1>2, <1>3

LEMMA OwnerRepliesInv ==
    ASSUME IInv, OwnerReplies
    PROVE  IInv'
  <1> DEFINE s == [id |-> sent + 1, kind |-> "reply"]
  <1>1. /\ s \in Signal /\ s.id \in Nat /\ <<s>> \in Seq(Signal)
        /\ sent' \in Nat
    BY DEF OwnerReplies, IInv, EnvInv, Signal
  <1>2. /\ sent' = sent + 1 /\ consent' = TRUE
        /\ UNCHANGED <<world, mail, auto, touched>>
    BY DEF OwnerReplies
  <1>3. CASE ended
    <2>1. /\ left["reply"] > 0 /\ left["run"] > 0
          /\ left' = [left EXCEPT !["reply"] = @ - 1, !["run"] = @ - 1]
          /\ Born(<<s>>)
      BY <1>3 DEF OwnerReplies
    <2>2. left' \in [Kinds -> Nat]
      BY <2>1 DEF IInv, EnvInv, Kinds
    <2> HIDE DEF s
    <2>3. ControlInv' /\ HandInv' /\ EnvInv'
      BY <1>1, <2>1, <2>2, BornInv DEF EnvInv
    <2>4. unverified' = FALSE /\ seq' \in Nat
      BY <2>1 DEF Born
    <2>5. WorldInv' /\ MailInv'
      BY <1>2, <2>4 DEF IInv, WorldInv, MailInv, world, mail
    <2> QED BY <2>3, <2>5 DEF IInv
  <1>4. CASE ~ended
    <2>1. /\ Spend("reply") /\ inbound' = Append(inbound, s)
          /\ due' = due \cup {s.id}
          /\ UNCHANGED <<control, mirror, hand, unverified>>
      BY <1>4 DEF OwnerReplies
    <2>2. ControlInv'
      BY <2>1, ControlUnchanged DEF IInv
    <2>3. EnvInv'
      BY <1>1, <2>1, SpendTyped DEF IInv, EnvInv, Kinds
    <2>4. HandInv'
      BY <1>1, <2>1 DEF IInv, HandInv, hand, mirror, control
    <2>5. WorldInv' /\ MailInv'
      BY <1>2, <2>1 DEF IInv, WorldInv, MailInv, world, mail, mirror
    <2> QED BY <2>2, <2>3, <2>4, <2>5 DEF IInv
  <1> QED BY <1>3, <1>4

LEMMA ReceiptMatchedInv ==
    ASSUME IInv, ReceiptMatched
    PROVE  IInv'
  <1>1. /\ Spend("receipt") /\ sent' = sent + 1
        /\ UNCHANGED <<visible, trusted, polled, mail, control, mirror, hand,
                       ghost>>
    BY DEF ReceiptMatched
  <1>2. ControlInv'
    BY <1>1, ControlUnchanged DEF IInv
  <1>3. /\ ynab' \in {ynab, [ynab EXCEPT !.memo = @ \cup {"items"}]}
        /\ \/ inbound' = inbound
           \/ inbound' = Append(inbound, [id |-> sent + 1,
                                          kind |-> "receipt"])
        /\ due' \in {due, due \cup {sent + 1}}
    BY DEF ReceiptMatched
  <1>4. WorldInv'
    <2>1. ynab \in Snapshot
      BY DEF IInv, WorldInv
    <2>2. ynab.memo \cup {"items"} \in Memos
      BY <2>1, WorkflowAssumption DEF Snapshot, Memos
    <2>3. ynab' \in Snapshot
      BY <1>3, <2>1, <2>2 DEF Snapshot
    <2> QED BY <1>1, <2>3 DEF IInv, WorldInv, ghost
  <1>5. EnvInv'
    <2>1. left' \in [Kinds -> Nat]
      BY <1>1, SpendTyped DEF Kinds
    <2> QED BY <1>1, <1>3, <2>1 DEF IInv, EnvInv
  <1>6. [id |-> sent + 1, kind |-> "receipt"] \in Signal
    BY DEF IInv, EnvInv, Signal
  <1>7. HandInv'
    BY <1>1, <1>3, <1>6 DEF IInv, HandInv, hand, mirror, control
  <1>8. UNCHANGED <<mail, seq>>
    BY <1>1 DEF mirror
  <1> QED BY <1>2, <1>4, <1>5, <1>7, <1>8, Frame DEF IInv

LEMMA OwnerInv ==
    ASSUME IInv,
           OwnerEdits \/ OwnerReconciles \/ OwnerDeletes \/ MemoBackfills
    PROVE  IInv'
  <1>1. /\ UNCHANGED <<trusted, polled, mail, control, mirror, hand, sent,
                       auto, unverified, inbound, due>>
        /\ visible' \in {visible, FALSE}
    BY DEF OwnerEdits, OwnerReconciles, OwnerDeletes, MemoBackfills, env, ghost
  <1>2. ControlInv'
    BY <1>1, ControlUnchanged DEF IInv
  <1>3. ynab \in Snapshot
    BY DEF IInv, WorldInv
  <1>4. ynab' \in Snapshot
    <2>1. CASE OwnerEdits
      BY <1>3, <2>1 DEF OwnerEdits, Snapshot
    <2>2. CASE OwnerReconciles \/ OwnerDeletes
      BY <1>3, <2>2 DEF OwnerReconciles, OwnerDeletes, Snapshot
    <2>3. CASE MemoBackfills
      <3>1. ynab.memo \cup {"import"} \in Memos
        BY <1>3, WorkflowAssumption DEF Snapshot, Memos
      <3> QED BY <1>3, <2>3, <3>1 DEF MemoBackfills, Snapshot
    <2> QED BY <2>1, <2>2, <2>3
  <1>5. consent' \in BOOLEAN /\ touched' \in BOOLEAN
    BY <1>3 DEF OwnerEdits, OwnerReconciles, OwnerDeletes, MemoBackfills,
                ghost, IInv, WorldInv, Snapshot
  <1>6. WorldInv'
    BY <1>1, <1>4, <1>5 DEF IInv, WorldInv
  <1>7. left' \in [Kinds -> Nat]
    BY SpendTyped DEF OwnerEdits, OwnerReconciles, OwnerDeletes,
                      MemoBackfills, env, Kinds, IInv, EnvInv
  <1>8. EnvInv'
    BY <1>1, <1>7 DEF IInv, EnvInv
  <1>9. UNCHANGED <<mail, timers, snapReady, seq, hand, inbound, status, pc>>
    BY <1>1 DEF mirror, control
  <1> QED BY <1>2, <1>6, <1>8, <1>9, Frame DEF IInv

(* -- The invariant ------------------------------------------------------- *)
LEMMA InitInv == Init => IInv
  <1> SUFFICES ASSUME Init PROVE IInv
    OBVIOUS
  <1>1. ControlInv
    BY FreshControl DEF Init, Fresh, Statuses
  <1>2. WorldInv
    BY WorkflowAssumption DEF Init, WorldInv, Snapshot
  <1>3. MailInv
    BY DEF Init, MailInv
  <1>4. HandInv
    <2>1. /\ timers = {} /\ snapReady = NoSnap /\ inbound = <<>>
          /\ sig = NoSig /\ draft = NoDecision /\ memoOnly = FALSE
          /\ status = "none"
      BY DEF Init
    <2> QED BY <2>1, ShortSeqs DEF HandInv
  <1>5. EnvInv
    BY WorkflowAssumption DEF Init, EnvInv
  <1> QED BY <1>1, <1>2, <1>3, <1>4, <1>5 DEF IInv

LEMMA StepInv == IInv /\ [Next]_vars => IInv'
  <1> SUFFICES ASSUME IInv, [Next]_vars PROVE IInv'
    OBVIOUS
  <1>1. CASE Workflow
    <2>1. EndDispatch => IInv'
      BY ReturnInv DEF EndDispatch, IInv, HandInv
    <2> QED BY <1>1, <2>1, RunTimerInv, RunReplayInv, RunCommitInv,
               ReadBackInv, RunOpenThreadInv, RunSendInv, RunFeedInv,
               RunCloseOrRecordInv, FetchSnapshotInv, DiscoveredInv, HoldInv,
               EnrichingInv, AwaitingInv, ReopenInv, WindowInv,
               ConvergeEndsInv, ConvergeReceiptInv, ConvergeReplyInv,
               ConvergeWriteInv, ConvergeVerifyInv, FailuresInv
            DEF Workflow
  <1>2. CASE Interference
    <2>1. ContinueAsNew => IInv'
      BY ReturnInv DEF ContinueAsNew
    <2> QED BY <1>2, <2>1, LostCommitInv, LostSendInv, LostConvergeInv,
               FailuresInv
            DEF Interference
  <1>3. CASE Environment
    BY <1>3, PollInv, OwnerRepliesInv, ReceiptMatchedInv, OwnerInv
    DEF Environment
  <1>4. CASE UNCHANGED vars
    <2>1. UNCHANGED <<world, mail, control, mirror, hand, env, ghost, inbound,
                      due>>
      BY <1>4 DEF vars
    <2>2. ControlInv'
      BY <2>1, ControlUnchanged DEF IInv
    <2>3. UNCHANGED <<timers, snapReady, seq, status, pc>>
      BY <2>1 DEF mirror, control
    <2> QED BY <2>1, <2>2, <2>3, Frame DEF IInv
  <1> QED BY <1>1, <1>2, <1>3, <1>4 DEF Next

(* IInv holds of every run: the ground the other invariants stand on.      *)
THEOREM Invariant == Spec => []IInv
  BY InitInv, StepInv, PTL DEF Spec

(* Every variable keeps its type; in particular the transaction is always  *)
(* one of the ten records of domain/transaction.py, whatever events,       *)
(* retries, failures and restarts the run goes through.                    *)
THEOREM TypeCorrect == Spec => []TypeOK
  BY Invariant, InvTyped, PTL

(* Wherever the driver of txn_workflow.py is suspended, the state machine  *)
(* is in a state that accepts what can be dispatched from there, a write   *)
(* is only ever the first effect of a dispatch, and the driver knows the   *)
(* thread the transaction knows of (_sync_thread_id).                      *)
THEOREM DriverAgrees == Spec => []DriverInStep
  <1>1. IInv => DriverInStep
    BY InvTyped DEF DriverInStep
  <1> QED  BY <1>1, Invariant, PTL

-----------------------------------------------------------------------------
(* Silence                                                                  *)
(* What a run may hold before the owner has consented: receipts, effects   *)
(* that write nothing, and no approval.                                    *)
Receipts(s)   == \A i \in DOMAIN s : s[i].kind = "receipt"
MuteEffect(x) == x.k # "Commit" /\ (x.k = "Replay" => Receipts(x.sigs))
Mute(s)       == \A i \in DOMAIN s : MuteEffect(s[i])
MuteTxn(t)    == /\ t.state = "DISCOVERED" => Receipts(t.pending)
                 /\ t.state = "REVISING" => t.instruction.kind = "receipt"
MuteEvent(e)  == /\ e.type \notin {"AutoApply", "AnswerReceived"}
                 /\ e.type = "InboundReceived" => e.sig.kind = "receipt"
Hushed(a)     == MuteTxn(a.next) /\ Mute(a.effects)

Silent == /\ ~ynab.approved /\ ~draft.approved
          /\ MuteTxn(txn) /\ Mute(todo)
          /\ Receipts(inbound)
          /\ status = "running" /\ pc = "interpret" => sig.kind = "receipt"

(* Until the owner consents, nothing the run holds can lead to an approval *)
(* without passing a signal of the owner or a blessed rule.                *)
ConsentInv == ~consent => Silent

LEMMA MuteConstructors ==
    /\ \A p : MuteEffect(SendThreadMessage(p)) /\ MuteEffect(FeedCorrect(p))
    /\ \A t : MuteEffect(SetTimer(t)) /\ MuteEffect(CancelTimer(t))
    /\ \A s : Receipts(s) => MuteEffect(ReplayBuffered(s))
    /\ MuteEffect(FeedConfirm) /\ MuteEffect(OpenThread)
    /\ MuteEffect(CloseThread) /\ MuteEffect(RecordAutoAction)
  BY DEF MuteEffect, SendThreadMessage, FeedConfirm, FeedCorrect, SetTimer,
         CancelTimer, ReplayBuffered, OpenThread, CloseThread,
         RecordAutoAction

LEMMA ShortMute ==
    /\ Mute(<<>>)
    /\ \A a : MuteEffect(a) => Mute(<<a>>)
    /\ \A a, b : MuteEffect(a) /\ MuteEffect(b) => Mute(<<a, b>>)
    /\ \A a, b, c : MuteEffect(a) /\ MuteEffect(b) /\ MuteEffect(c)
         => Mute(<<a, b, c>>)
  BY DEF Mute

LEMMA MuteConcat ==
    ASSUME NEW r \in Seq(Effect), NEW s \in Seq(Effect), Mute(r), Mute(s)
    PROVE  Mute(r \o s)
  <1> SUFFICES ASSUME NEW i \in DOMAIN (r \o s)
               PROVE  MuteEffect((r \o s)[i])
    BY DEF Mute
  <1>1. CASE i <= Len(r)
    BY <1>1 DEF Mute
  <1>2. CASE i > Len(r)
    <2>1. (r \o s)[i] = s[i - Len(r)] /\ i - Len(r) \in DOMAIN s
      BY <1>2
    <2> QED BY <2>1 DEF Mute
  <1> QED BY <1>1, <1>2

LEMMA StayHushed ==
    ASSUME NEW t, MuteTxn(t)
    PROVE  Hushed(Rejected(t)) /\ Hushed(Ignored(t))
  BY ShortMute DEF Hushed, Rejected, Ignored

(* A transition to a state that holds no signal.                           *)
LEMMA MuteAdvance ==
    ASSUME NEW n, NEW effs, Mute(effs), MuteTxn(n)
    PROVE  Hushed(Advanced(n, effs))
  BY DEF Hushed, Advanced

LEMMA MuteStates ==
    /\ \A c : MuteTxn(HoldAmazon(c)) /\ MuteTxn(Enriching(c))
    /\ \A c, d : /\ MuteTxn(AutoApplied(c, d)) /\ MuteTxn(Applied(c, d))
                 /\ MuteTxn(Open(c, d)) /\ MuteTxn(Lapsed(c, d))
                 /\ MuteTxn(Archived(c, d))
    /\ \A c, p, f : MuteTxn(AwaitingHuman(c, p, f))
    /\ \A c, s, o, d : s.kind = "receipt" => MuteTxn(Revising(c, s, o, d))
  BY DEF MuteTxn, HoldAmazon, Enriching, AutoApplied, Applied, Open, Lapsed,
         Archived, AwaitingHuman, Revising

LEMMA MuteDiscovered ==
    ASSUME NEW t \in Transaction, t.state = "DISCOVERED", MuteTxn(t),
           NEW e \in Event, MuteEvent(e)
    PROVE  Hushed(FromDiscovered(t, e))
  <1> USE DEF FromDiscovered
  <1>1. t.pending \in Seq(Signal) /\ Receipts(t.pending)
    BY TransactionFields DEF MuteTxn
  <1>2. CASE e.type = "SnapshotMaterialized"
    <2> DEFINE core   == [snap |-> e.snap, thread |-> t.thread]
               replay == IF t.pending = <<>> THEN <<>>
                         ELSE <<ReplayBuffered(t.pending)>>
               timed  == <<SetTimer("AMAZON_HOLD")>> \o replay
    <2>1. Mute(replay)
      BY <1>1, ShortMute, MuteConstructors
    <2>2. Mute(timed)
      <3>1. Mute(<<SetTimer("AMAZON_HOLD")>>)
        BY ShortMute, MuteConstructors
      <3>2. /\ <<SetTimer("AMAZON_HOLD")>> \in Seq(Effect)
            /\ replay \in Seq(Effect)
        BY <1>1, EffectsTyped, ShortSeqs DEF Timers
      <3> QED BY <2>1, <3>1, <3>2, MuteConcat
    <2> HIDE DEF core, timed
    <2>3. Hushed(Advanced(HoldAmazon(core), timed))
      BY <2>2, MuteStates, MuteAdvance
    <2> HIDE DEF replay
    <2>4. Hushed(Advanced(Enriching(core), replay))
      BY <2>1, MuteStates, MuteAdvance
    <2> QED BY <1>2, <2>3, <2>4 DEF core, timed, replay
  <1>3. CASE e.type = "InboundReceived"
    <2> DEFINE n == Discovered(t.thread \/ e.sig.kind = "reply",
                               Append(t.pending, e.sig))
    <2>1. e.sig \in Signal /\ e.sig.kind = "receipt"
      BY <1>3, EventFields DEF MuteEvent
    <2>2. Receipts(Append(t.pending, e.sig))
      BY <1>1, <2>1 DEF Receipts
    <2>3. MuteTxn(n)
      BY <2>2 DEF MuteTxn, Discovered
    <2> QED BY <1>3, <2>3, ShortMute, MuteAdvance
  <1>4. CASE e.type \notin {"SnapshotMaterialized", "InboundReceived"}
    BY <1>4, StayHushed
  <1> QED BY <1>2, <1>3, <1>4

LEMMA MuteTriage ==
    ASSUME NEW t \in Transaction, t.state \in {"HOLD_AMAZON", "ENRICHING"},
           MuteTxn(t), NEW e \in Event, MuteEvent(e)
    PROVE  /\ Hushed(FromHoldAmazon(t, e))
           /\ Hushed(FromEnriching(t, e))
  <1>1. e.type = "InboundReceived" => Receipts(<<e.sig>>)
    BY DEF MuteEvent, Receipts
  <1>2. Hushed(FromHoldAmazon(t, e))
    BY <1>1, StayHushed, MuteStates, MuteAdvance, ShortMute, MuteConstructors
    DEF FromHoldAmazon
  <1>3. Hushed(FromEnriching(t, e))
    BY <1>1, StayHushed, MuteStates, MuteAdvance, ShortMute, MuteConstructors
    DEF FromEnriching, MuteEvent
  <1> QED BY <1>2, <1>3

LEMMA MuteWriting ==
    ASSUME NEW t \in Transaction, MuteTxn(t), NEW e \in Event
    PROVE  Hushed(FromAutoApplied(t, e)) /\ Hushed(FromApplied(t, e))
  <1>1. ASSUME NEW o \in Outcomes, NEW p \in Purposes,
               NEW l \in {<<>>, <<FeedConfirm>>}
        PROVE  Hushed(ResolveWriteVerify(t, o, p, l))
    <2> DEFINE tell == <<SendThreadMessage(p), SetTimer("ARCHIVE")>>
               effs == l \o tell
    <2>1. /\ tell \in Seq(Effect) /\ l \in Seq(Effect)
          /\ Mute(tell) /\ Mute(l)
      BY EffectsTyped, ShortSeqs, ShortMute, MuteConstructors DEF Timers
    <2>2. Mute(effs)
      BY <2>1, MuteConcat
    <2> HIDE DEF effs
    <2>3. Hushed(Advanced(Open(t.core, t.decision), effs))
      BY <2>2, MuteStates, MuteAdvance
    <2> QED BY <2>3, MuteStates, MuteAdvance, ShortMute, MuteConstructors
            DEF ResolveWriteVerify, EnterFlaggedAwaiting, Outcomes, effs
  <1> QED BY <1>1, EventFields, StayHushed
          DEF FromAutoApplied, FromApplied, Purposes

LEMMA MuteAwaiting ==
    ASSUME NEW t \in Transaction, MuteTxn(t), NEW e \in Event, MuteEvent(e)
    PROVE  Hushed(FromAwaitingHuman(t, e))
  <1>1. e.type = "InboundReceived" => Receipts(<<e.sig>>)
    BY DEF MuteEvent, Receipts
  <1> QED BY <1>1, StayHushed, MuteStates, MuteAdvance, ShortMute,
             MuteConstructors DEF FromAwaitingHuman, MuteEvent

LEMMA MuteSettled ==
    ASSUME NEW t \in Transaction, MuteTxn(t), NEW e \in Event, MuteEvent(e)
    PROVE  /\ t.state = "OPEN" => Hushed(FromOpen(t, e))
           /\ Hushed(FromLapsed(t, e))
  <1> DEFINE tell == <<FeedCorrect(t.decision),
                       SendThreadMessage("OVERRIDE_NOTICE")>>
  <1>1. ASSUME t.state = "OPEN"
        PROVE  tell \in Seq(Effect)
    BY <1>1, TransactionFields, EffectsTyped, ShortSeqs DEF Purposes
  <1>2. Mute(tell)
    BY ShortMute, MuteConstructors
  <1> HIDE DEF tell
  <1>3. ASSUME t.state = "OPEN"
        PROVE  Mute(Append(tell, CloseThread))
    BY <1>1, <1>2, <1>3, MuteConstructors DEF Mute
  <1>5. t.state = "OPEN" => Hushed(FromOpen(t, e))
    BY <1>2, <1>3, StayHushed, MuteStates, MuteAdvance, ShortMute, MuteConstructors
    DEF FromOpen, MuteEvent, tell
  <1>4. Hushed(FromLapsed(t, e))
    BY StayHushed, MuteStates, MuteAdvance, ShortMute, MuteConstructors
    DEF FromLapsed, MuteEvent
  <1> QED BY <1>4, <1>5

LEMMA MuteRevising ==
    ASSUME NEW t \in Transaction, t.state = "REVISING", MuteTxn(t),
           NEW e \in Event, MuteEvent(e)
    PROVE  Hushed(FromRevising(t, e))
  <1>1. CASE e.type = "InboundReceived"
    <2> DEFINE n == [t EXCEPT !.instruction = e.sig]
    <2>1. t \in RevisingState
      BY DEF Transaction, DiscoveredState, HoldAmazonState, EnrichingState,
             AutoAppliedState, AppliedState, OpenState, LapsedState,
             AwaitingState, ArchivedState
    <2>2. n.state = "REVISING" /\ n.instruction = e.sig
      BY <2>1 DEF RevisingState
    <2>3. MuteTxn(n) /\ Receipts(<<e.sig>>)
      BY <1>1, <2>2 DEF MuteTxn, MuteEvent, Receipts
    <2> HIDE DEF n
    <2>4. Hushed(Advanced(n, <<ReplayBuffered(<<e.sig>>)>>))
      BY <2>3, MuteAdvance, ShortMute, MuteConstructors
    <2> QED BY <1>1, <2>4 DEF FromRevising, n
  <1>2. CASE e.type # "InboundReceived"
    BY <1>2, StayHushed, MuteStates, MuteAdvance, ShortMute, MuteConstructors
    DEF FromRevising, Reapply, ResolveNoChange, EnterFlaggedAwaiting
  <1> QED BY <1>1, <1>2

LEMMA AdvanceHushed ==
    ASSUME NEW t \in Transaction, MuteTxn(t), NEW e \in Event, MuteEvent(e)
    PROVE  Hushed(Advance(t, e))
  BY TransactionFields, MuteDiscovered, MuteTriage, MuteWriting, MuteAwaiting,
     MuteSettled, MuteRevising, StayHushed DEF Advance

LEMMA ReceiptsHold ==
    /\ \A s \in Seq(Signal) : s # <<>> /\ Receipts(s)
         => Head(s).kind = "receipt" /\ Receipts(Tail(s))
    /\ \A r, s \in Seq(Signal) : Receipts(r) /\ Receipts(s)
         => Receipts(r \o s)
    /\ \A s \in Seq(Signal), x \in Signal : Receipts(s) /\ x.kind = "receipt"
         => Receipts(Append(s, x))
    /\ Receipts(<<>>)
  <1>1. ASSUME NEW r \in Seq(Signal), NEW s \in Seq(Signal),
               Receipts(r), Receipts(s), NEW i \in DOMAIN (r \o s)
        PROVE  (r \o s)[i].kind = "receipt"
    <2>1. CASE i <= Len(r)
      BY <1>1, <2>1 DEF Receipts
    <2>2. CASE i > Len(r)
      <3>1. (r \o s)[i] = s[i - Len(r)] /\ i - Len(r) \in DOMAIN s
        BY <2>2
      <3> QED BY <1>1, <3>1 DEF Receipts
    <2> QED BY <2>1, <2>2
  <1>2. ASSUME NEW s \in Seq(Signal), s # <<>>, Receipts(s)
        PROVE  Head(s).kind = "receipt" /\ Receipts(Tail(s))
    BY <1>2 DEF Receipts
  <1>3. \A s \in Seq(Signal), x \in Signal : Receipts(s) /\ x.kind = "receipt"
          => Receipts(Append(s, x))
    BY DEF Receipts
  <1> QED BY <1>1, <1>2, <1>3 DEF Receipts

LEMMA MuteTail ==
    ASSUME NEW s \in Seq(Effect), s # <<>>, Mute(s)
    PROVE  Mute(Tail(s)) /\ MuteEffect(Head(s))
  BY DEF Mute

(* A dispatch that no consent is needed for.                               *)
LEMMA SilentDispatch ==
    ASSUME IInv, Silent, NEW e \in Event, MuteEvent(e),
           NEW rest \in {<<>>, todo}, NEW back, Dispatch(e, rest, back),
           UNCHANGED world, ~draft'.approved, Receipts(inbound')
    PROVE  Silent'
  <1>1. txn \in Transaction /\ todo \in Seq(Effect)
    BY DEF IInv, ControlInv
  <1>2. MuteTxn(txn') /\ Mute(todo')
    <2> DEFINE t == Advance(txn, e)
    <2>1. Hushed(t) /\ t.effects \in Seq(Effect)
      BY <1>1, AdvanceHushed, AdvanceSound DEF Silent, Sound, Typed
    <2>2. Mute(rest) /\ rest \in Seq(Effect)
      BY <1>1, ShortMute, ShortSeqs DEF Silent
    <2>3. \/ txn' = t.next /\ todo' = t.effects \o rest
          \/ UNCHANGED <<txn, todo>>
      BY DEF Dispatch
    <2> HIDE DEF t
    <2> QED BY <2>1, <2>2, <2>3, MuteConcat DEF Hushed, Silent
  <1>3. pc' = "effects" \/ status' # "running"
    BY DispatchPc
  <1> QED BY <1>2, <1>3 DEF Silent, world

LEMMA SilentPops ==
    ASSUME IInv, Silent, NEW k, HeadIs(k), Pop,
           UNCHANGED <<ynab, draft, txn, inbound, pc>>
    PROVE  Silent'
  BY HeadEffect, MuteTail DEF Pop, Silent

LEMMA SilentMoves ==
    ASSUME Silent, UNCHANGED <<ynab, txn, todo, inbound>>, ~draft'.approved,
           pc' # "interpret" \/ status' # "running"
    PROVE  Silent'
  BY DEF Silent

LEMMA MuteEvents ==
    /\ \A s : MuteEvent(Materialized(s))
    /\ \A s : MuteEvent([type |-> "HoldResolved", snap |-> s])
    /\ \A s : s.kind = "receipt" => MuteEvent(Inbound(s))
    /\ \A d : MuteEvent([type |-> "OverrideDetected", decision |-> d])
    /\ \A d : MuteEvent([type |-> "Reapplied", decision |-> d])
    /\ \A p : MuteEvent([type |-> "AskHuman", proposal |-> p])
    /\ \A o : MuteEvent([type |-> "WriteVerified", outcome |-> o])
    /\ MuteEvent([type |-> "HoldDeadlineReached"])
    /\ MuteEvent([type |-> "ClarifyRequested"])
    /\ MuteEvent([type |-> "PatienceExpired"])
    /\ MuteEvent([type |-> "ArchiveWindowReached"])
    /\ MuteEvent([type |-> "NoChange"])
    /\ MuteEvent([type |-> "CouldNotConfirm"])
    /\ MuteEvent([type |-> "Diverged"])
    /\ MuteEvent([type |-> "NeedsHuman"])
  BY DEF MuteEvent, Materialized, Inbound

LEMMA SilentEffects ==
    ASSUME IInv, Silent,
           \/ EndDispatch \/ ContinueAsNew \/ RunTimer \/ RunReplay
           \/ RunCommit \/ LostCommit \/ ReadBack \/ RunOpenThread
           \/ RunSend \/ LostSend \/ RunFeed \/ RunCloseOrRecord
    PROVE  Silent'
  <1> USE DEF IInv, ControlInv
  <1>1. CASE EndDispatch \/ ContinueAsNew
    <2>1. /\ UNCHANGED <<ynab, txn, todo, inbound, draft>>
          /\ pc' \in {BlockedPcOf(txn.state), PcOf(txn.state)}
      BY <1>1 DEF EndDispatch, ContinueAsNew, Return, world, hand
    <2> QED BY <2>1, SilentMoves DEF BlockedPcOf, PcOf, Silent
  <1>2. CASE RunTimer \/ RunSend \/ RunFeed \/ RunCloseOrRecord
    <2>1. Pop /\ UNCHANGED <<ynab, draft, txn, inbound, pc>>
      BY <1>2 DEF RunTimer, RunSend, RunFeed, RunCloseOrRecord, world, hand
    <2> QED BY <1>2, <2>1, SilentPops
            DEF RunTimer, RunSend, RunFeed, RunCloseOrRecord
  <1>3. CASE RunReplay
    <2>1. /\ Head(todo).k = "Replay" /\ Head(todo) \in Effect
          /\ todo \in Seq(Effect) /\ todo # <<>> /\ pc = "effects"
      BY <1>3, HeadEffect DEF RunReplay
    <2>2. Receipts(Head(todo).sigs) /\ Head(todo).sigs \in Seq(Signal)
      BY <2>1, MuteTail, EffectFields DEF Silent, MuteEffect
    <2>3. Receipts(inbound')
      BY <1>3, <2>2, ReceiptsHold
      DEF RunReplay, ExtendLeft, Silent, HandInv
    <2> QED BY <1>3, <2>1, <2>3, MuteTail
            DEF RunReplay, Pop, Silent, world, hand
  <1>4. CASE RunCommit \/ LostCommit
    BY <1>4, HeadEffect, MuteTail
    DEF RunCommit, LostCommit, MuteEffect, Silent
  <1>5. CASE ReadBack
    <2> DEFINE e == [type |-> "WriteVerified",
                     outcome |-> ClassifyVerify(Read, TargetOf(draft))]
    <2>1. e \in Event
      BY EventsTyped DEF ClassifyVerify, Outcomes
    <2>2. Dispatch(e, todo, "step") /\ UNCHANGED <<world, inbound>>
            /\ draft' = NoDecision
      BY <1>5 DEF ReadBack
    <2>3. MuteEvent(e)
      BY MuteEvents
    <2> HIDE DEF e
    <2> QED BY <2>1, <2>2, <2>3, SilentDispatch DEF NoDecision, Silent
  <1>6. CASE RunOpenThread
    <2>1. PICK k : HeadIs(k)
      BY <1>6 DEF RunOpenThread, OpensThread
    <2>2. /\ todo \in Seq(Effect) /\ todo # <<>> /\ pc = "effects"
          /\ txn \in Transaction /\ Head(todo).k \in {"OpenThread", "Send"}
      BY <1>6, <2>1, HeadEffect DEF RunOpenThread, OpensThread, HeadIs
    <2>3. txn' = [txn EXCEPT !.core.thread = TRUE]
      BY <1>6 DEF RunOpenThread
    <2>4. MuteTxn(txn')
      <3>1. CASE txn.state = "REVISING"
        <4>1. txn \in RevisingState
          BY <2>2, <3>1
          DEF Transaction, DiscoveredState, HoldAmazonState, EnrichingState,
              AutoAppliedState, AppliedState, OpenState, LapsedState,
              AwaitingState, ArchivedState
        <4>2. txn'.state = "REVISING" /\ txn'.instruction = txn.instruction
          BY <2>3, <4>1 DEF RevisingState
        <4> QED BY <3>1, <4>2 DEF MuteTxn, Silent
      <3>2. CASE txn.state # "REVISING"
        <4>1. txn.state # "DISCOVERED"
          BY <2>2
        <4>2. txn.core \in Core /\ [txn.core EXCEPT !.thread = TRUE] \in Core
          BY <2>2, <4>1, TransactionFields DEF Core
        <4>3. txn'.state = txn.state
          BY <2>2, <2>3, <4>1, <4>2, CoreReplaced
        <4> QED BY <3>2, <4>1, <4>3 DEF MuteTxn
      <3> QED BY <3>1, <3>2
    <2>5. Mute(todo') /\ pc' = "effects"
      BY <1>6, <2>2, MuteTail DEF RunOpenThread, Pop, Silent
    <2> QED BY <1>6, <2>4, <2>5 DEF RunOpenThread, Silent, world, hand
  <1>7. CASE LostSend
    BY <1>7 DEF LostSend, control, world, hand, Silent
  <1> QED BY <1>1, <1>2, <1>3, <1>4, <1>5, <1>6, <1>7

LEMMA SilentTriage ==
    ASSUME IInv, Silent, ~consent',
           \/ FetchSnapshot \/ TakeSnapshot \/ BufferInbound
           \/ HoldBackfilled \/ HoldInterrupted \/ HoldExpires
           \/ GateOpens \/ GateAsks
    PROVE  Silent'
  <1>1. CASE FetchSnapshot
    <2>1. UNCHANGED <<world, inbound, draft>>
      BY <1>1 DEF FetchSnapshot, hand
    <2>2. CASE visible
      BY <1>1, <2>1, <2>2, SnapTyped, EventsTyped, MuteEvents, SilentDispatch
      DEF FetchSnapshot, Silent
    <2>3. CASE ~visible
      BY <1>1, <2>1, <2>3, SilentMoves DEF FetchSnapshot, world, Silent
    <2> QED BY <2>2, <2>3
  <1>2. CASE TakeSnapshot \/ HoldBackfilled \/ HoldExpires \/ GateAsks
    <2>1. PICK e \in Event : Dispatch(e, <<>>, "step") /\ MuteEvent(e)
      BY <1>2, SnapTyped, EventsTyped, MuteEvents
      DEF TakeSnapshot, HoldBackfilled, HoldExpires, GateAsks
    <2>2. UNCHANGED <<world, inbound, draft>>
      BY <1>2 DEF TakeSnapshot, HoldBackfilled, HoldExpires, GateAsks, hand
    <2> QED BY <2>1, <2>2, SilentDispatch DEF Silent
  <1>3. CASE BufferInbound \/ HoldInterrupted
    <2>1. /\ Dispatch(Inbound(Head(inbound)), <<>>, "step")
          /\ inbound # <<>> /\ inbound' = Tail(inbound)
          /\ UNCHANGED <<world, draft>>
      BY <1>3 DEF BufferInbound, HoldInterrupted, hand
    <2>2. inbound \in Seq(Signal) /\ Receipts(inbound)
      BY DEF IInv, HandInv, Silent
    <2>3. Head(inbound).kind = "receipt" /\ Receipts(inbound')
      BY <2>1, <2>2, ReceiptsHold
    <2> QED BY <2>1, <2>3, SnapTyped, EventsTyped, MuteEvents, SilentDispatch
            DEF Silent
  <1>4. CASE GateOpens
    BY <1>4 DEF GateOpens
  <1> QED BY <1>1, <1>2, <1>3, <1>4

LEMMA SilentWaits ==
    ASSUME IInv, Silent,
           \/ PatienceExpires \/ TakeReply \/ Clarify \/ Answer
           \/ Reopen \/ OpenWindowPasses \/ ArchiveOrOverride
           \/ LapsedWindowPasses
    PROVE  Silent'
  <1>1. inbound \in Seq(Signal) /\ Receipts(inbound)
    BY DEF IInv, HandInv, Silent
  <1>2. CASE PatienceExpires \/ Clarify \/ LapsedWindowPasses
    <2>1. PICK e \in Event, b \in Returns : Dispatch(e, <<>>, b) /\ MuteEvent(e)
      BY <1>2, EventsTyped, MuteEvents
      DEF Returns, PatienceExpires, Clarify,
          LapsedWindowPasses
    <2>2. UNCHANGED <<world, inbound, draft>>
      BY <1>2 DEF PatienceExpires, Clarify, LapsedWindowPasses, hand
    <2> QED BY <2>1, <2>2, SilentDispatch DEF Silent
  <1>3. CASE TakeReply
    <2>1. Head(inbound).kind = "receipt" /\ Receipts(Tail(inbound))
      BY <1>1, <1>3, ReceiptsHold DEF TakeReply
    <2> QED BY <1>3, <2>1 DEF TakeReply, Silent, world
  <1>4. CASE Answer
    BY <1>4 DEF Answer, At, Silent
  <1>5. CASE Reopen
    <2>1. Head(inbound).kind = "receipt" /\ Receipts(Tail(inbound))
      BY <1>1, <1>5, ReceiptsHold DEF Reopen
    <2> QED BY <1>5, <2>1, SnapTyped, EventsTyped, MuteEvents, SilentDispatch
            DEF Reopen, hand, Silent
  <1>6. CASE OpenWindowPasses
    BY <1>6, SilentMoves DEF OpenWindowPasses, world, hand, Silent
  <1>7. CASE ArchiveOrOverride
    <2>1. PICK e \in Event : Dispatch(e, <<>>, "blocked") /\ MuteEvent(e)
      <3>1. Read # NoTarget =>
              [alloc |-> Read.alloc, memo |-> Read.memo,
               approved |-> Read.approved, by |-> "HUMAN"] \in Decision
        BY ReadTyped DEF Decision, Authors
      <3> QED BY <1>7, <3>1, EventsTyped, MuteEvents DEF ArchiveOrOverride
    <2> QED BY <1>7, <2>1, SilentDispatch DEF ArchiveOrOverride, hand, Silent
  <1> QED BY <1>2, <1>3, <1>4, <1>5, <1>6, <1>7

LEMMA SilentConverges ==
    ASSUME IInv, Silent,
           \/ ConvergeBlocked \/ ConvergeReceipt \/ ConvergeNothing
           \/ ConvergeReply \/ ConvergeWrite \/ ConvergeVerify
           \/ LostConverge
    PROVE  Silent'
  <1>1. txn.state = "REVISING" /\ txn.instruction.kind = "receipt"
    BY Suspended
    DEF ConvergeBlocked, ConvergeReceipt, ConvergeNothing, ConvergeReply,
        ConvergeWrite, ConvergeVerify, LostConverge, AtConverge, At, IInv,
        Silent, MuteTxn
  <1>2. ~ConvergeNothing /\ ~ConvergeReply
    BY <1>1 DEF ConvergeNothing, ConvergeReply, AtConverge
  <1>3. CASE ConvergeBlocked
    BY <1>3, EventsTyped, MuteEvents, SilentDispatch
    DEF ConvergeBlocked, Converged, hand, Silent
  <1>4. CASE ConvergeReceipt
    <2>1. UNCHANGED <<world, inbound>>
      BY <1>4 DEF ConvergeReceipt
    <2>2. CASE Converged("NeedsHuman") \/ Converged("NoChange")
      <3>1. pc' = "effects" \/ status' # "running"
        BY <2>2, DispatchPc DEF Converged
      <3>2. ~draft'.approved
        BY <1>4 DEF ConvergeReceipt, BeginWrite, Silent
      <3> QED BY <2>1, <2>2, <3>2, EventsTyped, MuteEvents, SilentDispatch
              DEF Converged, Silent
    <2>3. CASE ~(Converged("NeedsHuman") \/ Converged("NoChange"))
      <3>1. /\ ~draft'.approved /\ pc' = "cvWrite"
            /\ UNCHANGED <<txn, todo>>
        BY <1>4, <2>3 DEF ConvergeReceipt, BeginWrite, Silent
      <3> QED BY <2>1, <3>1, SilentMoves DEF world
    <2> QED BY <2>2, <2>3
  <1>5. CASE ConvergeWrite
    <2>1. ynab' = Patched(ynab, draft)
      BY <1>5 DEF ConvergeWrite, Write
    <2>2. ~ynab'.approved
      BY <2>1 DEF Patched, Silent, IInv, WorldInv, Snapshot
    <2> QED BY <1>5, <2>2 DEF ConvergeWrite, hand, Silent
  <1>6. CASE ConvergeVerify
    <2>1. draft \in Decision
      BY <1>6 DEF ConvergeVerify, At, IInv, HandInv, Drafting
    <2>2. PICK e \in Event : Dispatch(e, <<>>, "step") /\ MuteEvent(e)
      BY <1>6, <2>1, EventsTyped, MuteEvents
      DEF ConvergeVerify, Converged, Reapplied, ClassifyVerify
    <2> QED BY <1>6, <2>2, SilentDispatch
            DEF ConvergeVerify, NoDecision, Silent
  <1>7. CASE LostConverge
    BY <1>7, SilentMoves DEF LostConverge, NoDecision, world, Silent
  <1> QED BY <1>2, <1>3, <1>4, <1>5, <1>6, <1>7

LEMMA SilentBirth ==
    ASSUME Born(<<>>), UNCHANGED ynab, Silent
    PROVE  Silent'
  <1>1. /\ txn' = Discovered(FALSE, <<>>) /\ todo' = <<>> /\ inbound' = <<>>
        /\ draft' = NoDecision /\ pc' = "fetch"
    BY DEF Born
  <1> QED BY <1>1, ReceiptsHold, ShortMute
          DEF Silent, MuteTxn, Discovered, NoDecision

LEMMA SilentEnvironment ==
    ASSUME IInv, Silent, ~consent',
           Environment \/ ActivityFails \/ GoneFails \/ UNCHANGED vars
    PROVE  Silent'
  <1>1. CASE ActivityFails \/ GoneFails
    BY <1>1, SilentMoves DEF ActivityFails, GoneFails, Fail, world, hand, Silent
  <1>2. CASE PollFetch \/ OwnerDeletes \/ UNCHANGED vars
    BY <1>2 DEF PollFetch, OwnerDeletes, vars, control, world, hand, Silent
  <1>3. CASE PollAddress
    <2>1. CASE status \in {"none", "failed"}
      BY <1>3, <2>1, SilentBirth DEF PollAddress
    <2>2. CASE status \notin {"none", "failed"}
      BY <1>3, <2>2 DEF PollAddress, control, hand, Silent
    <2> QED BY <2>1, <2>2
  <1>4. CASE OwnerReplies
    BY <1>4 DEF OwnerReplies
  <1>5. ynab \in Snapshot
    BY DEF IInv, WorldInv
  <1>6. CASE ReceiptMatched
    <2>1. ~ynab'.approved
      BY <1>5, <1>6 DEF ReceiptMatched, Silent, Snapshot
    <2>2. Receipts(inbound')
      <3> DEFINE s == [id |-> sent + 1, kind |-> "receipt"]
      <3>1. s \in Signal /\ s.kind = "receipt" /\ inbound \in Seq(Signal)
        BY DEF IInv, EnvInv, HandInv, Signal
      <3>2. inbound' \in {inbound, Append(inbound, s)}
        BY <1>6 DEF ReceiptMatched
      <3> HIDE DEF s
      <3> QED BY <3>1, <3>2, ReceiptsHold DEF Silent
    <2> QED BY <1>6, <2>1, <2>2 DEF ReceiptMatched, control, hand, Silent
  <1>7. CASE OwnerEdits \/ OwnerReconciles \/ MemoBackfills
    <2>1. ~ynab'.approved
      BY <1>5, <1>7
      DEF OwnerEdits, OwnerReconciles, MemoBackfills, Silent, Snapshot
    <2> QED BY <1>7, <2>1
            DEF OwnerEdits, OwnerReconciles, MemoBackfills, control, hand,
                Silent
  <1> QED BY <1>1, <1>2, <1>3, <1>4, <1>6, <1>7 DEF Environment

(* Consent, once given, stands.                                            *)
LEMMA ConsentStands ==
    ASSUME [Next]_vars, consent
    PROVE  consent'
  BY DEF Next, Workflow, Interference, Environment, vars, ghost, EndDispatch,
         Return, RunTimer, RunReplay, RunCommit, LostCommit, Write, ReadBack,
         Settle, RunOpenThread, RunSend, LostSend, RunFeed, RunCloseOrRecord,
         FetchSnapshot, TakeSnapshot, BufferInbound, HoldBackfilled,
         HoldInterrupted, HoldExpires, GateOpens, GateAsks, PatienceExpires,
         TakeReply, Clarify, Answer, Reopen, OpenWindowPasses,
         ArchiveOrOverride, LapsedWindowPasses, ConvergeBlocked,
         ConvergeReceipt, ConvergeNothing, ConvergeReply, ConvergeWrite,
         ConvergeVerify, GoneFails, ActivityFails, Fail, LostConverge,
         ContinueAsNew, PollFetch, PollAddress, OwnerReplies, ReceiptMatched,
         OwnerEdits, OwnerReconciles, OwnerDeletes, MemoBackfills

LEMMA InitConsent == Init => ConsentInv
  <1> SUFFICES ASSUME Init PROVE Silent
    BY DEF ConsentInv
  <1>1. /\ ynab.approved = FALSE /\ draft = NoDecision /\ pc = "fetch"
        /\ txn = Discovered(FALSE, <<>>) /\ todo = <<>> /\ inbound = <<>>
    BY DEF Init
  <1> QED BY <1>1, ReceiptsHold, ShortMute
          DEF Silent, MuteTxn, Discovered, NoDecision

LEMMA StepConsent == IInv /\ ConsentInv /\ [Next]_vars => ConsentInv'
  <1> SUFFICES ASSUME IInv, ConsentInv, [Next]_vars, ~consent'
               PROVE  Silent'
    BY DEF ConsentInv
  <1>1. Silent
    BY ConsentStands DEF ConsentInv
  <1> QED BY <1>1, SilentEffects, SilentTriage, SilentWaits, SilentConverges,
             SilentEnvironment
          DEF Next, Workflow, Interference

(* Silence is never consent: whatever receipts, deadlines, retries and     *)
(* restarts the run goes through, and however often each happens, a charge *)
(* is approved in YNAB only after the owner approved it there, replied     *)
(* about it, or a rule the owner blessed opened the gate.                  *)
THEOREM SilenceNeverApproves == Spec => []SilenceIsNotConsent
  <1>1. ConsentInv => SilenceIsNotConsent
    BY DEF ConsentInv, Silent, SilenceIsNotConsent
  <1> QED BY <1>1, Invariant, InitConsent, StepConsent, PTL DEF Spec

-----------------------------------------------------------------------------
(* The order of effects                                                     *)
(* Opening the thread is the first effect of the question that needs one;  *)
(* putting signals back is the last effect of a dispatch.                  *)
Triaging == {"HOLD_AMAZON", "ENRICHING"}

(* The effects effs that lead to state n stand where they may.             *)
Placed(n, effs) ==
    \A i \in DOMAIN effs :
      /\ effs[i].k = "OpenThread" =>
           i = 1 /\ n.state = "AWAITING_HUMAN" /\ ~n.core.thread
      /\ effs[i].k = "Replay" => i = Len(effs) /\ n.state \in Triaging

PlainEffect(x) == x.k \notin {"OpenThread", "Replay"}
Plain(s)       == \A i \in DOMAIN s : PlainEffect(s[i])

(* So do the effects still to be executed, and putting back is only ever   *)
(* executed from the effects loop.                                         *)
PlacedInv == /\ Placed(txn, todo)
             /\ pc # "effects" => \A i \in DOMAIN todo : todo[i].k # "Replay"

LEMMA PlainConstructors ==
    /\ \A d : PlainEffect(CommitToYnab(d))
    /\ \A p : PlainEffect(SendThreadMessage(p)) /\ PlainEffect(FeedCorrect(p))
    /\ \A t : PlainEffect(SetTimer(t)) /\ PlainEffect(CancelTimer(t))
    /\ PlainEffect(FeedConfirm)
    /\ PlainEffect(CloseThread) /\ PlainEffect(RecordAutoAction)
  BY DEF PlainEffect, CommitToYnab, SendThreadMessage, FeedConfirm,
         FeedCorrect, SetTimer, CancelTimer, CloseThread, RecordAutoAction

LEMMA ShortPlain ==
    /\ Plain(<<>>)
    /\ \A a : PlainEffect(a) => Plain(<<a>>)
    /\ \A a, b : PlainEffect(a) /\ PlainEffect(b) => Plain(<<a, b>>)
    /\ \A a, b, c : PlainEffect(a) /\ PlainEffect(b) /\ PlainEffect(c)
         => Plain(<<a, b, c>>)
  BY DEF Plain

LEMMA PlainConcat ==
    ASSUME NEW r \in Seq(Effect), NEW s \in Seq(Effect), Plain(r), Plain(s)
    PROVE  Plain(r \o s)
  <1> SUFFICES ASSUME NEW i \in DOMAIN (r \o s)
               PROVE  PlainEffect((r \o s)[i])
    BY DEF Plain
  <1>1. CASE i <= Len(r)
    BY <1>1 DEF Plain
  <1>2. CASE i > Len(r)
    <2>1. (r \o s)[i] = s[i - Len(r)] /\ i - Len(r) \in DOMAIN s
      BY <1>2
    <2> QED BY <2>1 DEF Plain
  <1> QED BY <1>1, <1>2

Orderly(a) == Placed(a.next, a.effects)

LEMMA PlainOrderly ==
    /\ \A n, effs : Plain(effs) => Orderly(Advanced(n, effs))
    /\ \A t : Orderly(Rejected(t)) /\ Orderly(Ignored(t))
  BY DEF Orderly, Advanced, Rejected, Ignored, Placed, Plain, PlainEffect

LEMMA DiscoveredOrderly ==
    ASSUME NEW t \in Transaction, t.state = "DISCOVERED", NEW e \in Event
    PROVE  Orderly(FromDiscovered(t, e))
  <1> USE DEF FromDiscovered
  <1>1. CASE e.type = "SnapshotMaterialized"
    <2> DEFINE core   == [snap |-> e.snap, thread |-> t.thread]
               first  == SetTimer("AMAZON_HOLD")
               put    == ReplayBuffered(t.pending)
               replay == IF t.pending = <<>> THEN <<>> ELSE <<put>>
    <2>1. first.k = "SetTimer" /\ put.k = "Replay"
      BY DEF SetTimer, ReplayBuffered
    <2>2. /\ HoldAmazon(core).state = "HOLD_AMAZON"
          /\ Enriching(core).state = "ENRICHING"
      BY DEF HoldAmazon, Enriching
    <2>5. first \in Effect /\ put \in Effect
      BY TransactionFields, EffectsTyped DEF Timers
    <2> HIDE DEF core, first, put
    <2>3. Orderly(Advanced(Enriching(core), replay))
      BY <2>1, <2>2 DEF Orderly, Advanced, Placed, Triaging
    <2>4. Orderly(Advanced(HoldAmazon(core), <<first>> \o replay))
      <3> DEFINE effs == <<first>> \o replay
      <3>1. <<first>> \in Seq(Effect) /\ replay \in Seq(Effect)
        BY <2>5, ShortSeqs
      <3>2. ASSUME NEW i \in DOMAIN effs, effs[i] # first
            PROVE  i = Len(effs) /\ effs[i] = put
        BY <3>1, <3>2
      <3> HIDE DEF effs
      <3>3. Orderly(Advanced(HoldAmazon(core), effs))
        BY <2>1, <2>2, <3>2 DEF Orderly, Advanced, Placed, Triaging
      <3> QED BY <3>3 DEF effs
    <2> QED BY <1>1, <2>3, <2>4 DEF core, first, put
  <1>2. CASE e.type # "SnapshotMaterialized"
    BY <1>2, PlainOrderly, ShortPlain
  <1> QED BY <1>1, <1>2

LEMMA HoldOrderly ==
    ASSUME NEW t \in Transaction, NEW e \in Event
    PROVE  Orderly(FromHoldAmazon(t, e))
  <1> USE DEF FromHoldAmazon
  <1>1. CASE e.type = "InboundReceived"
    <2> DEFINE first == CancelTimer("AMAZON_HOLD")
               put   == ReplayBuffered(<<e.sig>>)
    <2>1. first.k = "CancelTimer" /\ put.k = "Replay"
      BY DEF CancelTimer, ReplayBuffered
    <2>2. Enriching(t.core).state = "ENRICHING"
      BY DEF Enriching
    <2> HIDE DEF first, put
    <2>3. Orderly(Advanced(Enriching(t.core), <<first, put>>))
      BY <2>1, <2>2 DEF Orderly, Advanced, Placed, Triaging
    <2> QED BY <1>1, <2>3 DEF first, put
  <1>2. CASE e.type # "InboundReceived"
    BY <1>2, PlainOrderly, ShortPlain, PlainConstructors
  <1> QED BY <1>1, <1>2

LEMMA EnrichingOrderly ==
    ASSUME NEW t \in Transaction, t.state = "ENRICHING", NEW e \in Event,
           e.type # "InboundReceived"
    PROVE  Orderly(FromEnriching(t, e))
  <1> USE DEF FromEnriching
  <1>1. CASE e.type = "AskHuman"
    <2> DEFINE tell == IF t.core.thread THEN SendThreadMessage("PROPOSAL")
                       ELSE OpenThread
               last == SetTimer("PATIENCE")
               n    == AwaitingHuman(t.core, e.proposal, "NONE")
    <2>1. /\ tell.k \in {"Send", "OpenThread"} /\ last.k = "SetTimer"
          /\ tell.k = "OpenThread" => ~t.core.thread
      BY DEF SendThreadMessage, OpenThread, SetTimer
    <2>2. n.state = "AWAITING_HUMAN" /\ n.core = t.core
      BY DEF AwaitingHuman
    <2> HIDE DEF tell, last, n
    <2>3. Orderly(Advanced(n, <<tell, last>>))
      BY <2>1, <2>2 DEF Orderly, Advanced, Placed
    <2> QED BY <1>1, <2>3 DEF tell, last, n
  <1>2. CASE e.type # "AskHuman"
    BY <1>2, PlainOrderly, ShortPlain, PlainConstructors
  <1> QED BY <1>1, <1>2

LEMMA ResolvePlain ==
    ASSUME NEW t \in Transaction, t.state \in Writing, NEW e \in Event
    PROVE  Plain(Advance(t, e).effects)
  <1>1. ASSUME NEW o \in Outcomes, NEW p \in Purposes,
               NEW l \in {<<>>, <<FeedConfirm>>}
        PROVE  Plain(ResolveWriteVerify(t, o, p, l).effects)
    <2> DEFINE tell == <<SendThreadMessage(p), SetTimer("ARCHIVE")>>
               effs == l \o tell
    <2>1. /\ tell \in Seq(Effect) /\ l \in Seq(Effect)
          /\ Plain(tell) /\ Plain(l)
      BY EffectsTyped, ShortSeqs, ShortPlain, PlainConstructors DEF Timers
    <2>2. Plain(effs)
      BY <2>1, PlainConcat
    <2> HIDE DEF effs
    <2>3. Plain(Advanced(Open(t.core, t.decision), effs).effects)
      BY <2>2 DEF Advanced
    <2>4. ASSUME NEW f, NEW q
          PROVE  Plain(EnterFlaggedAwaiting(t.core, f, q).effects)
      BY ShortPlain, PlainConstructors DEF EnterFlaggedAwaiting, Advanced
    <2> QED BY <2>3, <2>4 DEF ResolveWriteVerify, Outcomes, effs
  <1>2. Plain(Rejected(t).effects)
    BY ShortPlain DEF Rejected
  <1> QED BY <1>1, <1>2, EventFields
          DEF Advance, Writing, FromAutoApplied, FromApplied, Purposes

LEMMA SettledOrderly ==
    ASSUME NEW t \in Transaction, NEW e \in Event
    PROVE  /\ t.state = "OPEN" => Orderly(FromOpen(t, e))
           /\ Orderly(FromLapsed(t, e))
           /\ e.type # "InboundReceived"
                => Orderly(FromAwaitingHuman(t, e)) /\ Orderly(FromRevising(t, e))
  <1> DEFINE tell == <<FeedCorrect(t.decision),
                       SendThreadMessage("OVERRIDE_NOTICE")>>
  <1>1. ASSUME t.state = "OPEN"
        PROVE  tell \in Seq(Effect)
    BY <1>1, TransactionFields, EffectsTyped, ShortSeqs DEF Purposes
  <1>2. Plain(tell)
    BY ShortPlain, PlainConstructors
  <1> HIDE DEF tell
  <1>3. ASSUME t.state = "OPEN"
        PROVE  Plain(Append(tell, CloseThread))
    BY <1>1, <1>2, <1>3, PlainConstructors DEF Plain
  <1>4. t.state = "OPEN" => Orderly(FromOpen(t, e))
    BY <1>2, <1>3, PlainOrderly, ShortPlain, PlainConstructors
    DEF FromOpen, tell
  <1>5. Orderly(FromLapsed(t, e))
    BY PlainOrderly, ShortPlain, PlainConstructors DEF FromLapsed
  <1>6. ASSUME e.type # "InboundReceived"
        PROVE  Orderly(FromAwaitingHuman(t, e)) /\ Orderly(FromRevising(t, e))
    <2>1. Orderly(FromAwaitingHuman(t, e))
      BY <1>6, PlainOrderly, ShortPlain, PlainConstructors
      DEF FromAwaitingHuman
    <2>2. Orderly(FromRevising(t, e))
      BY <1>6, PlainOrderly, ShortPlain, PlainConstructors
      DEF FromRevising, Reapply, ResolveNoChange, EnterFlaggedAwaiting
    <2> QED BY <2>1, <2>2
  <1> QED BY <1>4, <1>5, <1>6

(* The states in which the driver hands a signal to the machine.           *)
TakesSignals == {"DISCOVERED", "HOLD_AMAZON", "OPEN", "LAPSED"}

LEMMA AdvanceOrderly ==
    ASSUME NEW t \in Transaction, NEW e \in Event,
           e.type = "InboundReceived" => t.state \in TakesSignals
    PROVE  Orderly(Advance(t, e))
  <1>1. ASSUME t.state \in Writing
        PROVE  Orderly(Advance(t, e))
    BY <1>1, ResolvePlain DEF Orderly, Placed, Plain, PlainEffect
  <1>2. ASSUME t.state = "ENRICHING"
        PROVE  Orderly(FromEnriching(t, e))
    BY <1>2, EnrichingOrderly DEF TakesSignals
  <1>3. ASSUME t.state \in {"AWAITING_HUMAN", "REVISING"}
        PROVE  Orderly(FromAwaitingHuman(t, e)) /\ Orderly(FromRevising(t, e))
    BY <1>3, SettledOrderly DEF TakesSignals
  <1> QED BY <1>1, <1>2, <1>3, TransactionFields, DiscoveredOrderly,
             HoldOrderly, SettledOrderly, PlainOrderly DEF Advance, Writing

(* -- The forms of a step ------------------------------------------------- *)
(* What most of the proofs below need to know of an action: what it does   *)
(* with the run, its effects, its signals and its emails.                  *)
Elsewhere == UNCHANGED <<mail, seq, sent>> /\ left'["run"] = left["run"]

Dispatches ==
    /\ status = "running" /\ pc # "effects" /\ Elsewhere
    /\ \E e \in Event, rest \in {<<>>, todo}, back \in Returns :
         /\ Dispatch(e, rest, back)
         /\ rest = <<>> \/ pc = "readback"
         /\ \/ e.type # "InboundReceived" /\ UNCHANGED <<inbound, due>>
            \/ /\ e.type = "InboundReceived" /\ inbound # <<>>
               /\ e.sig = Head(inbound) /\ inbound' = Tail(inbound)
               /\ txn.state \in TakesSignals
               /\ due' = IF txn.state \in {"DISCOVERED", "HOLD_AMAZON"}
                         THEN due ELSE due \ {Head(inbound).id}

Moves ==
    /\ status = "running" /\ pc # "effects" /\ pc' # "effects" /\ Elsewhere
    /\ UNCHANGED <<status, txn, thread, todo, inbound, due>>

Pops ==
    \E k \in {"Commit", "SetTimer", "CancelTimer", "Feed", "CloseThread",
             "RecordAuto"} :
      /\ HeadIs(k) /\ Pop /\ Elsewhere
      /\ UNCHANGED <<status, txn, thread, inbound, due>>
      /\ pc' = IF k = "Commit" THEN "readback" ELSE "effects"

Stands == /\ UNCHANGED <<control, mail, seq, inbound, due>>
          /\ sent' \in {sent, sent + 1} /\ left'["run"] = left["run"]

Signalled ==
    \E s \in Signal :
      /\ ~ended /\ s.id = sent + 1 /\ sent' = sent + 1
      /\ inbound' = Append(inbound, s) /\ due' = due \cup {sent + 1}
      /\ UNCHANGED <<control, mail, seq>> /\ left'["run"] = left["run"]

Births ==
    /\ ended /\ UNCHANGED mail
    /\ left["run"] > 0 /\ left'["run"] = left["run"] - 1
    /\ \/ Born(<<>>) /\ sent' = sent
       \/ /\ indexed /\ sent' = sent + 1
          /\ \E s \in Signal : s.id = sent + 1 /\ Born(<<s>>)

Fails == status = "running" /\ Fail /\ left'["run"] = left["run"]

LEMMA SpendKeepsRuns ==
    ASSUME IInv, NEW k \in Kinds \ {"run"}, Spend(k)
    PROVE  left'["run"] = left["run"]
  BY DEF Spend, IInv, EnvInv, Kinds

LEMMA EventKinds ==
    /\ \A s : Materialized(s).type = "SnapshotMaterialized"
    /\ \A s : Inbound(s).type = "InboundReceived" /\ Inbound(s).sig = s
  BY DEF Materialized, Inbound

LEMMA EffectForms ==
    ASSUME IInv,
           \/ RunTimer \/ RunCommit \/ LostCommit \/ ReadBack
           \/ RunFeed \/ RunCloseOrRecord
    PROVE  Pops \/ Stands \/ Dispatches
  <1>1. CASE RunTimer \/ RunFeed \/ RunCloseOrRecord \/ RunCommit
    <2>1. /\ Pop /\ UNCHANGED <<mail, status, txn, thread, inbound, due, seq,
                                sent, left>>
      BY <1>1 DEF RunTimer, RunFeed, RunCloseOrRecord, RunCommit, mirror, env
    <2>2. PICK k \in {"Commit", "SetTimer", "CancelTimer", "Feed",
                      "CloseThread", "RecordAuto"} :
            HeadIs(k) /\ pc' = IF k = "Commit" THEN "readback" ELSE "effects"
      BY <1>1 DEF RunTimer, RunFeed, RunCloseOrRecord, RunCommit, HeadIs, At
    <2> QED BY <2>1, <2>2 DEF Pops, Elsewhere
  <1>2. CASE LostCommit
    BY <1>2, SpendKeepsRuns DEF LostCommit, Stands, Kinds, mirror
  <1>3. CASE ReadBack
    <2> DEFINE e == [type |-> "WriteVerified",
                     outcome |-> ClassifyVerify(Read, TargetOf(draft))]
    <2>1. e \in Event /\ e.type # "InboundReceived"
      BY EventsTyped DEF ClassifyVerify, Outcomes
    <2>2. /\ Dispatch(e, todo, "step") /\ status = "running"
          /\ pc = "readback" /\ UNCHANGED <<mail, mirror, env, inbound, due>>
      BY <1>3 DEF ReadBack, At
    <2> HIDE DEF e
    <2> QED BY <2>1, <2>2 DEF Returns, Dispatches, Elsewhere, mirror, env
  <1> QED BY <1>1, <1>2, <1>3

LEMMA ReturnPoints == "step" \in Returns /\ "blocked" \in Returns
  BY DEF Returns

(* A dispatch of something other than a signal.                            *)
LEMMA PlainForm ==
    ASSUME NEW e \in Event, e.type # "InboundReceived",
           NEW back \in Returns,
           Dispatch(e, <<>>, back), status = "running", pc # "effects",
           UNCHANGED <<mail, seq, env, inbound, due>>
    PROVE  Dispatches
  BY DEF Returns, Dispatches, Elsewhere, env

(* A dispatch of the signal at the head of the queue.                      *)
LEMMA SignalForm ==
    ASSUME IInv, Dispatch(Inbound(Head(inbound)), <<>>, "step"),
           inbound # <<>>, inbound' = Tail(inbound),
           txn.state \in TakesSignals, status = "running", pc # "effects",
           due' = IF txn.state \in {"DISCOVERED", "HOLD_AMAZON"}
                  THEN due ELSE due \ {Head(inbound).id},
           UNCHANGED <<mail, seq, env>>
    PROVE  Dispatches
  <1>1. /\ Inbound(Head(inbound)) \in Event
        /\ Inbound(Head(inbound)).type = "InboundReceived"
        /\ Inbound(Head(inbound)).sig = Head(inbound)
    BY SnapTyped, EventsTyped, EventKinds
  <1> QED BY <1>1 DEF Returns, Dispatches, Elsewhere, env

LEMMA StateForms ==
    ASSUME IInv,
           \/ FetchSnapshot \/ TakeSnapshot \/ BufferInbound
           \/ HoldBackfilled \/ HoldInterrupted \/ HoldExpires
           \/ GateOpens \/ GateAsks
           \/ PatienceExpires \/ Clarify \/ Answer
           \/ Reopen \/ OpenWindowPasses \/ ArchiveOrOverride
           \/ LapsedWindowPasses
    PROVE  Dispatches \/ Moves
  <1>1. CASE FetchSnapshot
    <2>1. /\ status = "running" /\ pc = "fetch"
          /\ UNCHANGED <<mail, seq, env, inbound, due>>
      BY <1>1 DEF FetchSnapshot, At, mirror
    <2>2. CASE visible
      BY <1>1, <2>1, <2>2, SnapTyped, EventsTyped, EventKinds, PlainForm, ReturnPoints
      DEF FetchSnapshot
    <2>3. CASE ~visible
      BY <1>1, <2>1, <2>3 DEF FetchSnapshot, Moves, Elsewhere, env
    <2> QED BY <2>2, <2>3
  <1>2. CASE TakeSnapshot \/ HoldBackfilled \/ HoldExpires \/ GateAsks
    <2>1. PICK e \in Event :
            Dispatch(e, <<>>, "step") /\ e.type # "InboundReceived"
      BY <1>2, SnapTyped, EventsTyped, EventKinds
      DEF TakeSnapshot, HoldBackfilled, HoldExpires, GateAsks
    <2>2. /\ status = "running" /\ pc # "effects"
          /\ UNCHANGED <<mail, seq, env, inbound, due>>
      BY <1>2
      DEF TakeSnapshot, HoldBackfilled, HoldExpires, GateAsks, At, mirror
    <2> QED BY <2>1, <2>2, PlainForm, ReturnPoints
  <1>3. CASE GateOpens
    <2> DEFINE d == [alloc |-> RuleAlloc, memo |-> RuleMemo,
                     approved |-> TRUE, by |-> "RULE"]
               e == [type |-> "AutoApply", decision |-> d]
    <2>1. d \in Decision
      BY WorkflowAssumption DEF Decision, Authors
    <2>2. Dispatch(e, <<>>, "step")
      BY <1>3 DEF GateOpens
    <2> HIDE DEF d
    <2>3. e \in Event /\ e.type # "InboundReceived"
      BY <2>1, EventsTyped
    <2>4. /\ status = "running" /\ pc # "effects"
          /\ UNCHANGED <<mail, seq, env, inbound, due>>
      BY <1>3 DEF GateOpens, At, mirror
    <2> HIDE DEF e
    <2> QED BY <2>2, <2>3, <2>4, PlainForm, ReturnPoints
  <1>4. CASE BufferInbound \/ HoldInterrupted \/ Reopen
    <2>1. /\ Dispatch(Inbound(Head(inbound)), <<>>, "step")
          /\ inbound # <<>> /\ inbound' = Tail(inbound)
          /\ status = "running" /\ pc # "effects"
          /\ UNCHANGED <<mail, seq, env>>
      BY <1>4 DEF BufferInbound, HoldInterrupted, Reopen, At, mirror
    <2>2. /\ BufferInbound => txn.state = "DISCOVERED"
          /\ HoldInterrupted => txn.state = "HOLD_AMAZON"
          /\ Reopen => txn.state \in {"OPEN", "LAPSED"}
      BY Suspended DEF BufferInbound, HoldInterrupted, Reopen, At, IInv
    <2>3. /\ BufferInbound \/ HoldInterrupted => due' = due
          /\ Reopen => due' = due \ {Head(inbound).id}
      BY DEF BufferInbound, HoldInterrupted, Reopen
    <2> QED BY <1>4, <2>1, <2>2, <2>3, SignalForm DEF TakesSignals
  <1>5. CASE PatienceExpires \/ Clarify \/ LapsedWindowPasses
    <2>1. PICK e \in Event, b \in Returns :
            Dispatch(e, <<>>, b) /\ e.type # "InboundReceived"
      BY <1>5, EventsTyped DEF Returns, PatienceExpires, Clarify,
          LapsedWindowPasses
    <2>2. /\ status = "running" /\ pc # "effects"
          /\ UNCHANGED <<mail, seq, env, inbound, due>>
      BY <1>5 DEF PatienceExpires, Clarify, LapsedWindowPasses, At, mirror
    <2> QED BY <2>1, <2>2, PlainForm, ReturnPoints
  <1>6. CASE Answer
    <2>1. PICK c \in Categories, m \in ReplyMemos :
            Dispatch([type |-> "AnswerReceived",
                      decision |-> HumanDecision(c, m)], <<>>, "step")
      BY <1>6 DEF Answer
    <2>2. HumanDecision(c, m) \in Decision
      BY WorkflowAssumption, HumanTyped
    <2>3. /\ status = "running" /\ pc # "effects"
          /\ UNCHANGED <<mail, seq, env, inbound, due>>
      BY <1>6 DEF Answer, At, mirror
    <2> QED BY <2>1, <2>2, <2>3, EventsTyped, PlainForm, ReturnPoints
  <1>7. CASE OpenWindowPasses
    BY <1>7 DEF OpenWindowPasses, At, mirror, env, Moves, Elsewhere
  <1>8. CASE ArchiveOrOverride
    <2>1. PICK e \in Event :
            Dispatch(e, <<>>, "blocked") /\ e.type # "InboundReceived"
      <3>1. Read # NoTarget =>
              [alloc |-> Read.alloc, memo |-> Read.memo,
               approved |-> Read.approved, by |-> "HUMAN"] \in Decision
        BY ReadTyped DEF Decision, Authors
      <3> QED BY <1>8, <3>1, EventsTyped DEF ArchiveOrOverride
    <2>2. /\ status = "running" /\ pc # "effects"
          /\ UNCHANGED <<mail, seq, env, inbound, due>>
      BY <1>8 DEF ArchiveOrOverride, At, mirror
    <2> QED BY <2>1, <2>2, PlainForm, ReturnPoints
  <1> QED BY <1>1, <1>2, <1>3, <1>4, <1>5, <1>6, <1>7, <1>8

(* The plan of a reply's revision, spelled out.                            *)
RevisionOf(plan) == HumanDecision(plan.alloc,
                                  IF plan.memo # {} THEN plan.memo
                                  ELSE txn.core.snap.memo)
PriorTarget      == IF txn.prior = NoDecision THEN NoTarget
                    ELSE TargetOf(txn.prior)
ActionOf(plan)   == PrecommitAction(Read, TargetOf(RevisionOf(plan)),
                                    PriorTarget)

RevisesBy(plan) ==
    \/ /\ plan.alloc \notin Categories
       /\ Converged("NeedsHuman") /\ UNCHANGED <<draft, memoOnly, ghost>>
    \/ /\ plan.alloc \in Categories /\ RevisionOf(plan) \in Decision
       /\ \/ /\ ActionOf(plan) = "WRITE"
             /\ BeginWrite(RevisionOf(plan), plan.kind = "MEMO_ONLY")
             /\ UNCHANGED ghost
          \/ /\ ActionOf(plan) = "NO_CHANGE"
             /\ Converged("NoChange") /\ Settle("MATCH", "HUMAN")
             /\ UNCHANGED <<draft, memoOnly>>
          \/ /\ ActionOf(plan) = "ALREADY_TARGET"
             /\ Reapplied(RevisionOf(plan)) /\ Settle("MATCH", "HUMAN")
             /\ UNCHANGED <<draft, memoOnly>>
          \/ /\ ActionOf(plan) = "DIVERGED"
             /\ Converged("Diverged") /\ Settle("DIVERGED", "HUMAN")
             /\ UNCHANGED <<draft, memoOnly>>

LEMMA ConvergeReplyForms ==
    ASSUME IInv, ConvergeReply
    PROVE  \E plan \in RevisionPlans : RevisesBy(plan)
  <1>1. txn.state = "REVISING" /\ txn \in Transaction
    BY Suspended DEF ConvergeReply, AtConverge, At, IInv, ControlInv
  <1>2. txn.core.snap.memo \in Memos
    BY <1>1, TransactionFields DEF Core, Snapshot
  <1>3. PICK plan \in RevisionPlans :
          IF plan.alloc \notin Categories
          THEN /\ Converged("NeedsHuman")
               /\ UNCHANGED <<draft, memoOnly, ghost>>
          ELSE IF ActionOf(plan) = "WRITE"
               THEN /\ BeginWrite(RevisionOf(plan), plan.kind = "MEMO_ONLY")
                    /\ UNCHANGED ghost
               ELSE /\ CASE ActionOf(plan) = "NO_CHANGE" ->
                               Converged("NoChange")
                          [] ActionOf(plan) = "ALREADY_TARGET" ->
                               Reapplied(RevisionOf(plan))
                          [] ActionOf(plan) = "DIVERGED" ->
                               Converged("Diverged")
                    /\ Settle(IF ActionOf(plan) = "DIVERGED" THEN "DIVERGED"
                              ELSE "MATCH", "HUMAN")
                    /\ UNCHANGED <<draft, memoOnly>>
    BY DEF ConvergeReply, ActionOf, RevisionOf, PriorTarget
  <1>4. ActionOf(plan) \in PrecommitActions
    BY DEF ActionOf, PrecommitAction, PrecommitActions
  <1>5. plan.alloc \in Categories => RevisionOf(plan) \in Decision
    <2>1. plan.memo \in Memos
      BY WorkflowAssumption DEF RevisionPlans
    <2> QED BY <1>2, <2>1, HumanTyped DEF RevisionOf
  <1>6. RevisesBy(plan)
    BY <1>3, <1>4, <1>5 DEF RevisesBy, PrecommitActions
  <1> QED BY <1>6

LEMMA ConvergeForms ==
    ASSUME IInv,
           \/ ConvergeBlocked \/ ConvergeReceipt \/ ConvergeNothing
           \/ ConvergeReply \/ ConvergeWrite \/ ConvergeVerify
           \/ LostConverge
    PROVE  Dispatches \/ Moves
  <1>1. /\ status = "running" /\ pc \in {"converge", "cvWrite", "cvVerify"}
        /\ UNCHANGED <<mail, seq, inbound, due, sent>>
        /\ left'["run"] = left["run"]
    BY SpendKeepsRuns
    DEF ConvergeBlocked, ConvergeReceipt, ConvergeNothing, ConvergeReply,
        ConvergeWrite, ConvergeVerify, LostConverge, AtConverge, At, mirror,
        env, Kinds
  <1>2. ASSUME NEW o \in {"NoChange", "NeedsHuman", "CouldNotConfirm",
                          "Diverged"}, Converged(o)
        PROVE  Dispatches
    <2>1. [type |-> o] \in Event /\ [type |-> o].type # "InboundReceived"
      BY EventsTyped
    <2> QED BY <1>1, <1>2, <2>1 DEF Returns, Converged, Dispatches, Elsewhere
  <1>3. ASSUME NEW d \in Decision, Reapplied(d)
        PROVE  Dispatches
    <2> DEFINE e == [type |-> "Reapplied", decision |-> d]
    <2>1. e \in Event /\ e.type # "InboundReceived"
      BY EventsTyped
    <2>2. Dispatch(e, <<>>, "step")
      BY <1>3 DEF Reapplied
    <2> HIDE DEF e
    <2> QED BY <1>1, <2>1, <2>2 DEF Returns, Dispatches, Elsewhere
  <1>4. ASSUME NEW d, NEW m, BeginWrite(d, m)
        PROVE  Moves
    BY <1>1, <1>4 DEF BeginWrite, Moves, Elsewhere
  <1>5. CASE ConvergeBlocked \/ ConvergeReceipt \/ ConvergeNothing
    BY <1>2, <1>4, <1>5 DEF ConvergeBlocked, ConvergeReceipt, ConvergeNothing
  <1>6. CASE ConvergeReply
    BY <1>2, <1>3, <1>4, <1>6, ConvergeReplyForms DEF RevisesBy
  <1>7. CASE ConvergeWrite \/ LostConverge
    BY <1>1, <1>7 DEF ConvergeWrite, LostConverge, Moves, Elsewhere
  <1>8. CASE ConvergeVerify
    <2>1. draft \in Decision
      BY <1>8 DEF ConvergeVerify, At, IInv, HandInv, Drafting
    <2> QED BY <1>2, <1>3, <1>8, <2>1 DEF ConvergeVerify, ClassifyVerify
  <1> QED BY <1>5, <1>6, <1>7, <1>8

LEMMA EnvironmentForms ==
    ASSUME IInv, Environment \/ UNCHANGED vars
    PROVE  Stands \/ Signalled \/ Births
  <1> USE DEF IInv, EnvInv
  <1>1. CASE UNCHANGED vars
    BY <1>1 DEF vars, Stands, env, mirror
  <1>2. CASE PollFetch \/ OwnerEdits \/ OwnerReconciles \/ OwnerDeletes
               \/ MemoBackfills
    <2>1. left'["run"] = left["run"]
      BY <1>2, SpendKeepsRuns
      DEF PollFetch, OwnerEdits, OwnerReconciles, OwnerDeletes, MemoBackfills,
          env, Kinds
    <2> QED BY <1>2, <2>1
        DEF PollFetch, OwnerEdits, OwnerReconciles, OwnerDeletes,
            MemoBackfills, Stands, env, mirror
  <1>3. CASE PollAddress
    <2>1. CASE status \in {"none", "failed"}
      <3>1. Spend("run") /\ Born(<<>>) /\ UNCHANGED <<mail, sent>> /\ ended
        BY <1>3, <2>1 DEF PollAddress, ended
      <3>2. left["run"] > 0 /\ left'["run"] = left["run"] - 1
        BY <3>1 DEF Spend, Kinds
      <3> QED BY <3>1, <3>2 DEF Births
    <2>2. CASE status \notin {"none", "failed"}
      BY <1>3, <2>2 DEF PollAddress, Stands
    <2> QED BY <2>1, <2>2
  <1>4. CASE OwnerReplies
    <2> DEFINE s == [id |-> sent + 1, kind |-> "reply"]
    <2>1. s \in Signal /\ s.id = sent + 1
      BY DEF Signal
    <2>2. CASE ended
      <3>1. /\ left["run"] > 0 /\ Born(<<s>>) /\ sent' = sent + 1 /\ indexed
            /\ left' = [left EXCEPT !["reply"] = @ - 1, !["run"] = @ - 1]
            /\ UNCHANGED mail
        BY <1>4, <2>2 DEF OwnerReplies
      <3>2. left'["run"] = left["run"] - 1
        BY <3>1 DEF Kinds
      <3> HIDE DEF s
      <3> QED BY <2>1, <2>2, <3>1, <3>2 DEF Births
    <2>3. CASE ~ended
      <3>1. /\ Spend("reply") /\ inbound' = Append(inbound, s)
            /\ due' = due \cup {s.id} /\ sent' = sent + 1
            /\ UNCHANGED <<control, mail, seq>>
        BY <1>4, <2>3 DEF OwnerReplies, mirror
      <3>2. left'["run"] = left["run"]
        BY <3>1, SpendKeepsRuns DEF Kinds
      <3> HIDE DEF s
      <3> QED BY <2>1, <2>3, <3>1, <3>2 DEF Signalled
    <2> QED BY <2>2, <2>3
  <1>5. CASE ReceiptMatched
    <2> DEFINE s == [id |-> sent + 1, kind |-> "receipt"]
    <2>1. s \in Signal /\ s.id = sent + 1
      BY DEF Signal
    <2>2. /\ UNCHANGED <<control, mail, seq>> /\ sent' = sent + 1
          /\ Spend("receipt")
      BY <1>5 DEF ReceiptMatched, mirror
    <2>3. left'["run"] = left["run"]
      BY <2>2, SpendKeepsRuns DEF Kinds
    <2>4. CASE ended
      BY <1>5, <2>2, <2>3, <2>4 DEF ReceiptMatched, Stands
    <2>5. CASE ~ended
      <3>1. inbound' = Append(inbound, s) /\ due' = due \cup {sent + 1}
        BY <1>5, <2>5 DEF ReceiptMatched
      <3> HIDE DEF s
      <3> QED BY <2>1, <2>2, <2>3, <2>5, <3>1 DEF Signalled
    <2> QED BY <2>4, <2>5
  <1> QED BY <1>1, <1>2, <1>3, <1>4, <1>5 DEF Environment

LEMMA EveryStep ==
    ASSUME IInv, [Next]_vars
    PROVE  \/ Dispatches \/ Moves \/ Pops \/ Stands \/ Signalled \/ Births
           \/ Return \/ RunReplay \/ RunOpenThread \/ RunSend \/ LostSend
           \/ Fails \/ TakeReply
  <1>1. CASE Workflow
    <2>1. GoneFails => Fails
      BY DEF GoneFails, Fails, HeadIs, At
    <2> QED BY <1>1, <2>1, EffectForms, StateForms, ConvergeForms
            DEF Workflow, EndDispatch
  <1>2. CASE Interference
    <2>1. ActivityFails => Fails
      BY SpendKeepsRuns DEF ActivityFails, Fails, Kinds, HeadIs, At
    <2> QED BY <1>2, <2>1, EffectForms, ConvergeForms
            DEF Interference, ContinueAsNew
  <1> QED BY <1>1, <1>2, EnvironmentForms DEF Next

LEMMA DispatchedTxn ==
    ASSUME IInv, NEW e \in Event, NEW rest \in {<<>>, todo}, NEW back,
           Dispatch(e, rest, back)
    PROVE  /\ txn \in Transaction /\ Sound(txn, Advance(txn, e))
           /\ rest \in Seq(Effect)
           /\ \/ /\ Valid(Advance(txn, e).next)
                 /\ txn' = Advance(txn, e).next
                 /\ todo' = Advance(txn, e).effects \o rest
                 /\ thread' = (thread \/ ThreadOf(txn'))
                 /\ pc' = "effects" /\ status' = status
              \/ /\ ~Valid(Advance(txn, e).next) /\ status' = "wedged"
                 /\ UNCHANGED <<txn, thread, todo, pc>>
  <1>1. txn \in Transaction /\ todo \in Seq(Effect) /\ <<>> \in Seq(Effect)
    BY DEF IInv, ControlInv
  <1>2. Sound(txn, Advance(txn, e))
    BY <1>1, AdvanceSound
  <1> QED BY <1>1, <1>2 DEF Dispatch, SyncThreadId

(* After a dispatch that starts from nothing, or from the read-back of a   *)
(* write, the effects are in order.                                        *)
LEMMA PlacedDispatch ==
    ASSUME IInv, PlacedInv, NEW e \in Event, NEW rest \in {<<>>, todo},
           NEW back, Dispatch(e, rest, back), rest = <<>> \/ pc = "readback",
           e.type = "InboundReceived" => txn.state \in TakesSignals
    PROVE  PlacedInv'
  <1> DEFINE a == Advance(txn, e)
  <1>1. /\ txn \in Transaction /\ a.effects \in Seq(Effect)
        /\ rest \in Seq(Effect)
        /\ \/ txn' = a.next /\ todo' = a.effects \o rest /\ pc' = "effects"
           \/ UNCHANGED <<txn, todo, pc>>
    BY DispatchedTxn DEF Sound, Typed
  <1>2. CASE UNCHANGED <<txn, todo, pc>>
    BY <1>2 DEF PlacedInv, Placed
  <1>3. CASE /\ txn' = a.next /\ todo' = a.effects \o rest /\ pc' = "effects"
    <2>1. CASE rest = <<>>
      <3>1. todo' = a.effects
        BY <1>1, <1>3, <2>1
      <3> QED BY <1>1, <1>3, <3>1, AdvanceOrderly DEF PlacedInv, Orderly
    <2>2. CASE rest = todo /\ pc = "readback"
      <3>1. txn.state \in Writing
        BY <2>2, Suspended DEF IInv
      <3>2. Plain(todo)
        BY <2>2, <3>1
        DEF PlacedInv, Placed, Plain, PlainEffect, Triaging, Writing
      <3>3. Plain(a.effects \o todo)
        BY <1>1, <2>2, <3>1, <3>2, ResolvePlain, PlainConcat
      <3> HIDE DEF a
      <3> QED BY <1>3, <2>2, <3>3
              DEF PlacedInv, Placed, Plain, PlainEffect
    <2> QED BY <2>1, <2>2
  <1> QED BY <1>1, <1>2, <1>3

LEMMA PlacedTail ==
    ASSUME NEW n, NEW s \in Seq(Effect), s # <<>>, Placed(n, s)
    PROVE  /\ Placed(n, Tail(s))
           /\ \A i \in DOMAIN Tail(s) : Tail(s)[i].k # "OpenThread"
           /\ n.state \in Writing => \A i \in DOMAIN Tail(s) :
                                       Tail(s)[i].k # "Replay"
           /\ Head(s).k = "Replay" => Tail(s) = <<>>
  <1>1. ASSUME NEW i \in DOMAIN Tail(s)
        PROVE  /\ i + 1 \in DOMAIN s /\ Tail(s)[i] = s[i + 1]
               /\ i \in Nat \ {0} /\ Len(Tail(s)) = Len(s) - 1
    BY <1>1
  <1>2. \A i \in DOMAIN Tail(s) : Tail(s)[i].k # "OpenThread"
    BY <1>1 DEF Placed
  <1>3. ASSUME NEW i \in DOMAIN Tail(s), Tail(s)[i].k = "Replay"
        PROVE  i = Len(Tail(s)) /\ n.state \in Triaging
    BY <1>1, <1>3 DEF Placed
  <1>4. Head(s).k = "Replay" => Len(s) = 1
    <2>1. Head(s) = s[1] /\ 1 \in DOMAIN s
      OBVIOUS
    <2> QED BY <2>1 DEF Placed
  <1>5. Len(s) = 1 => Tail(s) = <<>>
    <2>1. Tail(s) \in Seq(Effect) /\ Len(Tail(s)) = Len(s) - 1
      BY HeadTailProperties
    <2>2. \A r \in Seq(Effect) : Len(r) = 0 => r = <<>>
      BY EmptySeq
    <2>3. Len(s) = 1 => Len(Tail(s)) = 0
      BY <2>1
    <2> QED BY <2>1, <2>2, <2>3, Zenon
  <1> QED BY <1>2, <1>3, <1>4, <1>5 DEF Placed, Triaging, Writing

LEMMA OpenedThread ==
    ASSUME IInv, RunOpenThread
    PROVE  /\ txn'.state = txn.state /\ txn.state # "DISCOVERED"
           /\ todo \in Seq(Effect) /\ todo # <<>> /\ todo' = Tail(todo)
           /\ pc = "effects" /\ pc' = "effects" /\ status = "running"
           /\ thread' = TRUE /\ ThreadOf(txn') = TRUE
           /\ UNCHANGED <<status, seq, left, sent, inbound, due>>
  <1>1. PICK k \in {"OpenThread", "Send"} : HeadIs(k)
    BY DEF RunOpenThread, OpensThread
  <1>2. /\ todo \in Seq(Effect) /\ todo # <<>> /\ Head(todo).k # "Commit"
        /\ pc = "effects" /\ txn \in Transaction /\ status = "running"
    BY <1>1, HeadEffect DEF IInv, ControlInv, HeadIs, At
  <1>3. txn.state # "DISCOVERED"
    BY <1>2 DEF IInv, ControlInv
  <1>4. /\ txn' = [txn EXCEPT !.core.thread = TRUE]
        /\ thread' = TRUE /\ todo' = Tail(todo)
        /\ UNCHANGED <<status, pc, seq, left, sent, inbound, due>>
    BY DEF RunOpenThread, Pop, mirror, env
  <1>5. txn.core \in Core /\ [txn.core EXCEPT !.thread = TRUE] \in Core
    BY <1>2, <1>3, TransactionFields DEF Core
  <1>6. txn' = [txn EXCEPT !.core = [txn.core EXCEPT !.thread = TRUE]]
    BY <1>4
  <1> DEFINE c == [txn.core EXCEPT !.thread = TRUE]
  <1>7. c.thread = TRUE
    BY <1>5 DEF Core
  <1> HIDE DEF c
  <1>8. txn'.state = txn.state /\ ThreadOf(txn') = TRUE
    BY <1>2, <1>3, <1>5, <1>6, <1>7, CoreReplaced DEF ThreadOf, c
  <1> QED BY <1>2, <1>3, <1>4, <1>8

LEMMA StepPlaced == IInv /\ PlacedInv /\ [Next]_vars => PlacedInv'
  <1> SUFFICES ASSUME IInv, PlacedInv, [Next]_vars PROVE PlacedInv'
    OBVIOUS
  <1>0. todo \in Seq(Effect) /\ txn \in Transaction
    BY DEF IInv, ControlInv
  <1>1. CASE Dispatches
    BY <1>1, PlacedDispatch DEF Dispatches
  <1>2. CASE Moves
    BY <1>2 DEF Moves, PlacedInv, Placed
  <1>3. CASE Pops
    <2>1. PICK k : /\ HeadIs(k) /\ Pop /\ txn' = txn
                   /\ pc' = IF k = "Commit" THEN "readback" ELSE "effects"
      BY <1>3 DEF Pops
    <2>2. /\ todo # <<>> /\ todo' = Tail(todo)
          /\ k = "Commit" => txn.state \in Writing
      BY <2>1, HeadEffect
      DEF HeadIs, At, Pop, IInv, ControlInv, ControlMatchesState, Writing
    <2>3. Placed(txn, todo') /\ (txn.state \in Writing =>
            \A i \in DOMAIN todo' : todo'[i].k # "Replay")
      BY <1>0, <2>2, PlacedTail DEF PlacedInv
    <2> QED BY <2>1, <2>2, <2>3 DEF PlacedInv
  <1>4. CASE Stands \/ Signalled
    BY <1>4 DEF Stands, Signalled, control, PlacedInv, Placed
  <1>5. CASE Births
    <2>1. todo' = <<>>
      BY <1>5 DEF Births, Born
    <2> QED BY <2>1 DEF PlacedInv, Placed
  <1>6. CASE Return
    <2>1. txn' = txn /\ todo' = <<>>
      BY <1>6 DEF Return
    <2> QED BY <2>1 DEF PlacedInv, Placed
  <1>7. CASE RunReplay \/ RunSend
    <2>1. PICK k : /\ HeadIs(k) /\ Pop /\ txn' = txn /\ pc' = pc
      BY <1>7 DEF RunReplay, RunSend
    <2>2. todo # <<>> /\ todo' = Tail(todo) /\ pc' = "effects"
      BY <2>1 DEF HeadIs, At, Pop
    <2>3. Placed(txn, todo')
      BY <1>0, <2>2, PlacedTail DEF PlacedInv
    <2> QED BY <2>1, <2>2, <2>3 DEF PlacedInv
  <1>8. CASE RunOpenThread
    <2>1. Placed(txn, todo') /\ \A i \in DOMAIN todo' : todo'[i].k # "OpenThread"
      BY <1>8, OpenedThread, PlacedTail DEF PlacedInv
    <2> QED BY <1>8, <2>1, OpenedThread DEF PlacedInv, Placed
  <1>9. CASE LostSend \/ Fails
    BY <1>9 DEF LostSend, Fails, Fail, control, PlacedInv, Placed
  <1>10. CASE TakeReply
    BY <1>10 DEF TakeReply, At, PlacedInv, Placed
  <1> QED BY <1>1, <1>2, <1>3, <1>4, <1>5, <1>6, <1>7, <1>8, <1>9, <1>10,
             EveryStep

LEMMA InitPlaced == Init => PlacedInv
  <1> SUFFICES ASSUME Init PROVE PlacedInv
    OBVIOUS
  <1>1. todo = <<>>
    BY DEF Init
  <1> QED BY <1>1 DEF PlacedInv, Placed

-----------------------------------------------------------------------------
(* Emails                                                                   *)
(* The labels a run that has lost no send can find on the mailbox.         *)
Known   == (1 .. seq) \cup (IF thread THEN {0} ELSE {})
(* The label of the send being executed.                                   *)
Sending == IF OpensThread THEN 0 ELSE NextSeq

(* A send that has produced its email is the one still to execute, and has *)
(* left its label.                                                         *)
HalfSent == /\ landed \in {0, 1}
            /\ landed = 1 =>
                 /\ status = "running" /\ Sending \in labels
                 /\ OpensThread \/ (HeadIs("Send") /\ thread)

(* W2 runs are counted, and nothing is sent before the first.              *)
RunsCounted == /\ left["run"] <= Bounds["run"]
               /\ status # "none" => left["run"] < Bounds["run"]
               /\ status = "none" => labels = {} /\ ~indexed

(* In a first run every label is that of a send made, or half made.        *)
LabelsKnown == Used("run") <= 1 /\ status = "running" =>
                 labels \subseteq Known \cup (IF landed = 1 THEN {Sending}
                                              ELSE {})

MailOnce == HalfSent /\ RunsCounted /\ LabelsKnown /\ EachEmailOnce

LEMMA RunsNat ==
    ASSUME IInv
    PROVE  left["run"] \in Nat /\ Bounds["run"] \in Nat
  BY WorkflowAssumption DEF IInv, EnvInv, Kinds

(* Nothing is half sent unless a send is being executed.                   *)
LEMMA NothingHalfSent ==
    ASSUME HalfSent, status # "running" \/ pc # "effects" \/ todo = <<>>
                       \/ Head(todo).k \notin {"OpenThread", "Send"}
    PROVE  landed = 0
  BY DEF HalfSent, OpensThread, HeadIs, At

(* A step that has nothing to do with emails, taken when none is half sent.*)
LEMMA MailUntouched ==
    ASSUME IInv, MailOnce, landed = 0, UNCHANGED <<mail, seq>>,
           left'["run"] = left["run"], thread => thread',
           status' \in Statuses \ {"none"}, status = "running"
    PROVE  MailOnce'
  <1>1. /\ UNCHANGED <<labels, indexed, landed, mailFault, seq>>
    BY DEF mail
  <1>2. HalfSent'
    BY <1>1 DEF HalfSent, MailOnce
  <1>3. RunsCounted'
    BY <1>1 DEF RunsCounted, MailOnce
  <1>4. Known \subseteq Known'
    BY <1>1 DEF Known
  <1>5. LabelsKnown'
    BY <1>1, <1>4 DEF LabelsKnown, MailOnce, Used
  <1>6. EachEmailOnce'
    BY <1>1
    DEF EachEmailOnce, NoDoubleEmail, NoSwallowedEmail, MailOnce, Used
  <1> QED BY <1>2, <1>3, <1>5, <1>6 DEF MailOnce

(* A step that leaves the run where it is.                                 *)
LEMMA MailStands ==
    ASSUME IInv, MailOnce, UNCHANGED <<control, mail, seq>>,
           left'["run"] = left["run"]
    PROVE  MailOnce'
  BY DEF control, mail, MailOnce, HalfSent, RunsCounted, LabelsKnown, Known,
         Sending, NextSeq, OpensThread, HeadIs, At, Used, EachEmailOnce,
         NoDoubleEmail, NoSwallowedEmail

(* What a completed send leaves, whatever it had already produced.         *)
LEMMA DeliverOnce ==
    ASSUME IInv, MailOnce, Deliver(Sending), status = "running",
           OpensThread => ~thread, ~OpensThread => thread,
           left'["run"] = left["run"]
    PROVE  /\ landed' = 0 /\ EachEmailOnce'
           /\ labels' = labels \cup {Sending}
  <1> DEFINE n == Emails(Sending)
  <1>1. /\ landed \in {0, 1}
        /\ landed = 1 => Sending \in labels
    BY DEF MailOnce, HalfSent
  <1>2. n <= 1 /\ n \in Nat
    BY <1>1 DEF Emails
  <1>3. ASSUME Used("run") <= 1
        PROVE  n # 0
    <2>1. seq \in Nat
      BY DEF IInv, MailInv
    <2>2. Sending \notin Known
      BY <2>1 DEF Sending, Known, NextSeq
    <2>3. landed = 0 => Sending \notin labels
      BY <1>3, <2>2 DEF MailOnce, LabelsKnown
    <2> QED BY <1>1, <2>3 DEF Emails
  <1>4. /\ landed' = 0 /\ labels' = labels \cup {Sending}
        /\ mailFault' = mailFault \cup (IF n = 0 THEN {"swallowed"} ELSE {})
                                  \cup (IF n > 1 THEN {"doubled"} ELSE {})
    BY DEF Deliver
  <1> HIDE DEF n
  <1>5. "doubled" \notin mailFault'
    BY <1>2, <1>4 DEF MailOnce, EachEmailOnce, NoDoubleEmail
  <1>6. Used("run") <= 1 => "swallowed" \notin mailFault'
    BY <1>3, <1>4 DEF MailOnce, EachEmailOnce, NoSwallowedEmail
  <1>7. Used("run")' = Used("run")
    BY DEF Used
  <1> QED BY <1>4, <1>5, <1>6, <1>7
      DEF EachEmailOnce, NoDoubleEmail, NoSwallowedEmail

(* A thread is opened only for a transaction that has none.                *)
LEMMA OpensUnopened ==
    ASSUME IInv, PlacedInv, OpensThread
    PROVE  ~thread
  <1>1. ASSUME HeadIs("OpenThread")
        PROVE  ~thread
    <2>1. /\ todo \in Seq(Effect) /\ todo # <<>>
          /\ Head(todo).k = "OpenThread" /\ txn \in Transaction
      BY <1>1, HeadEffect DEF IInv, ControlInv
    <2>2. todo[1].k = "OpenThread" /\ 1 \in DOMAIN todo
      BY <2>1
    <2>3. txn.state = "AWAITING_HUMAN" /\ ~txn.core.thread
      BY <2>2 DEF PlacedInv, Placed
    <2> QED BY <2>3 DEF IInv, ControlInv, ThreadMirrored, ThreadOf
  <1> QED BY <1>1 DEF OpensThread

LEMMA MailSends ==
    ASSUME IInv, PlacedInv, MailOnce, RunOpenThread \/ RunSend
    PROVE  MailOnce'
  <1>1. /\ status = "running" /\ status' = "running"
        /\ left'["run"] = left["run"]
    BY DEF RunOpenThread, RunSend, OpensThread, HeadIs, At, env
  <1>2. OpensThread => ~thread
    BY OpensUnopened
  <1>3. CASE RunOpenThread
    <2>1. OpensThread /\ Sending = 0 /\ Deliver(0) /\ indexed' = TRUE
      BY <1>3 DEF RunOpenThread, Sending
    <2>2. landed' = 0 /\ EachEmailOnce' /\ labels' = labels \cup {0}
      BY <1>1, <1>2, <2>1, DeliverOnce
    <2>3. thread' = TRUE /\ seq' = seq
      BY <1>3, OpenedThread
    <2>4. HalfSent' /\ RunsCounted'
      BY <1>1, <2>2 DEF HalfSent, RunsCounted, MailOnce
    <2>5. Known' = Known \cup {0}
      BY <2>3 DEF Known
    <2>6. LabelsKnown'
      BY <1>1, <2>1, <2>2, <2>5 DEF LabelsKnown, MailOnce, Used
    <2> QED BY <2>2, <2>4, <2>6 DEF MailOnce
  <1>4. CASE RunSend
    <2>1. /\ HeadIs("Send") /\ thread /\ Deliver(NextSeq)
          /\ seq' = NextSeq /\ thread' = thread
          /\ indexed' = indexed
      BY <1>4 DEF RunSend
    <2>2. ~OpensThread /\ Sending = NextSeq
      BY <2>1 DEF OpensThread, HeadIs, Sending
    <2>3. landed' = 0 /\ EachEmailOnce' /\ labels' = labels \cup {NextSeq}
      BY <1>1, <2>1, <2>2, DeliverOnce
    <2>4. HalfSent' /\ RunsCounted'
      BY <1>1, <2>1, <2>3 DEF HalfSent, RunsCounted, MailOnce
    <2>5. Known' = Known \cup {NextSeq}
      BY <2>1 DEF Known, NextSeq, IInv, MailInv
    <2>6. LabelsKnown'
      BY <1>1, <2>2, <2>3, <2>5 DEF LabelsKnown, MailOnce, Used
    <2> QED BY <2>3, <2>4, <2>6 DEF MailOnce
  <1> QED BY <1>3, <1>4

LEMMA MailLostSend ==
    ASSUME IInv, PlacedInv, MailOnce, LostSend
    PROVE  MailOnce'
  <1>1. /\ UNCHANGED <<status, thread, pc, todo, seq>>
        /\ status = "running"
    BY DEF LostSend, control, mirror, OpensThread, HeadIs, At
  <1>2. /\ OpensThread \/ (HeadIs("Send") /\ thread)
        /\ DeliverLost(Sending)
    BY DEF LostSend, Sending, OpensThread, HeadIs
  <1>3. /\ labels' = labels \cup {Sending} /\ landed' = Emails(Sending)
        /\ UNCHANGED <<indexed, mailFault>> /\ Spend("lost")
    BY <1>2 DEF DeliverLost
  <1>4. left'["run"] = left["run"]
    BY <1>3, SpendKeepsRuns DEF Kinds
  <1>5. landed \in {0, 1} /\ (landed = 1 => Sending \in labels)
    BY DEF MailOnce, HalfSent
  <1>6. Sending' = Sending /\ (OpensThread' <=> OpensThread) /\ Known' = Known
        /\ (HeadIs("Send")' <=> HeadIs("Send"))
    BY <1>1 DEF Sending, OpensThread, HeadIs, At, NextSeq, Known
  <1>7. landed' \in {0, 1}
    BY <1>3, <1>5 DEF Emails
  <1>8. HalfSent'
    BY <1>1, <1>2, <1>3, <1>6, <1>7 DEF HalfSent
  <1>9. RunsCounted'
    BY <1>1, <1>3, <1>4 DEF RunsCounted, MailOnce
  <1>10. LabelsKnown'
    <2>1. ASSUME Used("run") <= 1
          PROVE  landed' = 1
      <3>1. seq \in Nat
        BY DEF IInv, MailInv
      <3>2. OpensThread => ~thread
        BY OpensUnopened
      <3>3. Sending \notin Known
        BY <1>2, <3>1, <3>2 DEF Sending, Known, NextSeq
      <3>4. landed = 0 => Sending \notin labels
        BY <1>1, <2>1, <3>3 DEF MailOnce, LabelsKnown
      <3> QED BY <1>3, <1>5, <3>4 DEF Emails
    <2>2. Used("run")' = Used("run")
      BY <1>4 DEF Used
    <2>3. Used("run") <= 1 => labels \subseteq Known \cup {Sending}
      BY <1>1 DEF MailOnce, LabelsKnown
    <2> QED BY <1>3, <1>6, <2>1, <2>2, <2>3 DEF LabelsKnown
  <1>11. EachEmailOnce'
    BY <1>3, <1>4
    DEF EachEmailOnce, NoDoubleEmail, NoSwallowedEmail, MailOnce, Used
  <1> QED BY <1>8, <1>9, <1>10, <1>11 DEF MailOnce

LEMMA MailBirths ==
    ASSUME IInv, MailOnce, Births
    PROVE  MailOnce'
  <1>1. /\ ended /\ UNCHANGED <<labels, indexed, landed, mailFault>>
        /\ left'["run"] = left["run"] - 1 /\ left["run"] > 0
        /\ status' = "running" /\ thread' = FALSE
        /\ status = "none" => ~indexed
    BY DEF Births, Born, mail, MailOnce, RunsCounted
  <1>2. landed = 0
    BY <1>1, NothingHalfSent DEF MailOnce, ended
  <1>3. HalfSent' /\ RunsCounted'
    BY <1>1, <1>2, RunsNat DEF HalfSent, RunsCounted, MailOnce
  <1>4. CASE status = "none"
    <2>1. labels = {}
      BY <1>4 DEF MailOnce, RunsCounted
    <2>2. LabelsKnown'
      BY <1>1, <2>1 DEF LabelsKnown
    <2>4. Used("run") <= 1 \/ ~(Used("run")' <= 1)
      BY <1>1, RunsNat DEF Used
    <2>5. EachEmailOnce'
      BY <1>1, <2>4
      DEF EachEmailOnce, NoDoubleEmail, NoSwallowedEmail, MailOnce
    <2> QED BY <1>3, <2>2, <2>5 DEF MailOnce
  <1>5. CASE status # "none"
    <2>1. ~(Used("run")' <= 1)
      BY <1>1, <1>5, RunsNat DEF Used, MailOnce, RunsCounted
    <2>2. EachEmailOnce'
      BY <1>1, <2>1
      DEF EachEmailOnce, NoDoubleEmail, NoSwallowedEmail, MailOnce
    <2> QED BY <1>3, <2>1, <2>2 DEF MailOnce, LabelsKnown
  <1> QED BY <1>4, <1>5

LEMMA StepMail == IInv /\ PlacedInv /\ MailOnce /\ [Next]_vars => MailOnce'
  <1> SUFFICES ASSUME IInv, PlacedInv, MailOnce, [Next]_vars PROVE MailOnce'
    OBVIOUS
  <1>0. HalfSent /\ thread \in BOOLEAN /\ status \in Statuses
    BY DEF MailOnce, IInv, ControlInv
  <1>1. CASE Dispatches
    <2>1. PICK e \in Event, rest \in {<<>>, todo}, back \in Returns :
            Dispatch(e, rest, back)
      BY <1>1 DEF Dispatches
    <2>2. (thread => thread') /\ status' \in {"running", "wedged"}
      <3>1. \/ thread' = (thread \/ ThreadOf(txn')) /\ status' = status
            \/ thread' = thread /\ status' = "wedged"
        BY <2>1, DispatchedTxn
      <3>2. status = "running"
        BY <1>1 DEF Dispatches
      <3>3. thread => thread'
        BY <3>1, Zenon
      <3> QED BY <3>1, <3>2, <3>3
    <2>3. landed = 0
      BY <1>0, <1>1, NothingHalfSent DEF Dispatches
    <2> QED BY <1>1, <2>2, <2>3, MailUntouched
            DEF Dispatches, Elsewhere, Statuses
  <1>2. CASE Moves
    <2>1. landed = 0
      BY <1>0, <1>2, NothingHalfSent DEF Moves
    <2> QED BY <1>0, <1>2, <2>1, MailUntouched DEF Moves, Elsewhere, Statuses
  <1>3. CASE Pops
    <2>1. landed = 0 /\ status = "running"
      BY <1>0, <1>3, NothingHalfSent DEF Pops, HeadIs, At
    <2> QED BY <1>0, <1>3, <2>1, MailUntouched DEF Pops, Elsewhere, Statuses
  <1>4. CASE Stands \/ Signalled
    BY <1>4, MailStands DEF Stands, Signalled
  <1>5. CASE Births
    BY <1>5, MailBirths
  <1>6. CASE Return
    <2>1. /\ landed = 0 /\ status = "running"
          /\ UNCHANGED <<mail, seq, left, thread>>
          /\ status' \in {"running", "completed"}
      BY <1>0, <1>6, NothingHalfSent DEF Return, At, env
    <2> QED BY <1>0, <2>1, MailUntouched DEF Statuses
  <1>7. CASE RunReplay
    <2>1. /\ landed = 0 /\ status = "running"
          /\ UNCHANGED <<mail, seq, left, thread, status>>
      BY <1>0, <1>7, NothingHalfSent DEF RunReplay, HeadIs, At, env, mirror
    <2> QED BY <1>0, <2>1, MailUntouched DEF Statuses
  <1>8. CASE RunOpenThread \/ RunSend
    BY <1>8, MailSends
  <1>9. CASE LostSend
    BY <1>9, MailLostSend
  <1>10. CASE Fails
    <2>1. /\ status = "running" /\ status' = "failed"
          /\ left'["run"] = left["run"] /\ landed' = 0 /\ seq' = seq
          /\ UNCHANGED <<labels, indexed, mailFault>>
      BY <1>10 DEF Fails, Fail, mirror
    <2>2. HalfSent' /\ RunsCounted' /\ LabelsKnown'
      BY <2>1 DEF HalfSent, RunsCounted, LabelsKnown, MailOnce
    <2>3. EachEmailOnce'
      BY <2>1
      DEF EachEmailOnce, NoDoubleEmail, NoSwallowedEmail, MailOnce, Used
    <2> QED BY <2>2, <2>3 DEF MailOnce
  <1>11. CASE TakeReply
    <2>1. /\ landed = 0 /\ status = "running"
          /\ UNCHANGED <<mail, seq, left, thread, status>>
      BY <1>0, <1>11, NothingHalfSent DEF TakeReply, At, env, mirror
    <2> QED BY <1>0, <2>1, MailUntouched DEF Statuses
  <1> QED BY <1>1, <1>2, <1>3, <1>4, <1>5, <1>6, <1>7, <1>8, <1>9, <1>10,
             <1>11, EveryStep

LEMMA InitMail == Init => MailOnce
  <1> SUFFICES ASSUME Init PROVE MailOnce
    OBVIOUS
  <1>1. /\ status = "none" /\ left = Bounds /\ labels = {} /\ indexed = FALSE
        /\ landed = 0 /\ mailFault = {}
    BY DEF Init
  <1>2. HalfSent /\ LabelsKnown /\ EachEmailOnce
    BY <1>1
    DEF HalfSent, LabelsKnown, EachEmailOnce, NoDoubleEmail, NoSwallowedEmail
  <1>3. RunsCounted
    BY <1>1, WorkflowAssumption DEF RunsCounted, Kinds
  <1> QED BY <1>2, <1>3 DEF MailOnce

(* However often the completion of a send is lost and the activity tried   *)
(* again, the owner gets each email once: a label found on the mailbox     *)
(* (mail/client.py:223) is, in a first run, always that of this very send. *)
THEOREM EmailsGoOutOnce == Spec => []EachEmailOnce
  <1>1. MailOnce => EachEmailOnce
    BY DEF MailOnce
  <1> QED BY <1>1, Invariant, InitPlaced, StepPlaced, InitMail, StepMail, PTL
          DEF Spec

-----------------------------------------------------------------------------
(* Signals                                                                  *)
(* Signals are numbered as they are sent.                                  *)
InOrder(s) == \A i, j \in DOMAIN s : i < j => s[i].id < s[j].id
SentBy(s, n) == \A i \in DOMAIN s : s[i].id <= n

Pending == IF txn.state = "DISCOVERED" THEN txn.pending ELSE <<>>

(* A live run holds exactly the signals that are due, each once, in the    *)
(* order they were sent, and none from the future.                         *)
HeldInv == ~ended => /\ Ids(Held) = due /\ InOrder(Held)
                     /\ SentBy(Held, sent)

LEMMA SignalIds ==
    ASSUME NEW s \in Seq(Signal), NEW i \in 1 .. Len(s)
    PROVE  s[i].id \in Nat
  <1>1. s[i] \in Signal
    BY ElementOfSeq
  <1> QED BY <1>1 DEF Signal

LEMMA OneAppended ==
    ASSUME NEW s \in Seq(Signal), NEW x \in Signal, NEW n \in Nat,
           InOrder(s), SentBy(s, n), x.id = n + 1
    PROVE  /\ InOrder(Append(s, x)) /\ SentBy(Append(s, x), n + 1)
           /\ Ids(Append(s, x)) = Ids(s) \cup {n + 1}
  <1> DEFINE t == Append(s, x)
  <1>1. /\ t \in Seq(Signal) /\ Len(t) = Len(s) + 1 /\ Len(s) \in Nat
        /\ t[Len(s) + 1] = x
        /\ \A i \in 1 .. Len(s) : t[i] = s[i]
    BY AppendProperties, LenProperties
  <1>2. \A i \in 1 .. Len(s) : s[i].id \in Nat
    BY SignalIds
  <1> HIDE DEF t
  <1>3. DOMAIN s = 1 .. Len(s) /\ DOMAIN t = 1 .. Len(s) + 1
    <2>1. DOMAIN t = 1 .. Len(t)
      BY <1>1, LenProperties
    <2>2. DOMAIN s = 1 .. Len(s)
      BY LenProperties
    <2> QED BY <1>1, <2>1, <2>2
  <1>4. InOrder(t)
    BY <1>1, <1>2, <1>3 DEF InOrder, SentBy
  <1>5. SentBy(t, n + 1)
    BY <1>1, <1>2, <1>3 DEF SentBy
  <1>6. Ids(t) = Ids(s) \cup {n + 1}
    <2>1. ASSUME NEW i \in DOMAIN s
          PROVE  i \in DOMAIN t /\ t[i] = s[i]
      BY <1>1, <1>3
    <2>2. Len(s) + 1 \in DOMAIN t
      BY <1>1, <1>3
    <2>3. ASSUME NEW i \in DOMAIN t, i \notin DOMAIN s
          PROVE  i = Len(s) + 1
      <3>1. i \in 1 .. Len(s) + 1 /\ ~(i \in 1 .. Len(s))
        BY <1>3, <2>3
      <3> QED BY <1>1, <3>1
    <2> QED BY <1>1, <2>1, <2>2, <2>3 DEF Ids
  <1> QED BY <1>4, <1>5, <1>6 DEF t

LEMMA HeadTaken ==
    ASSUME NEW s \in Seq(Signal), s # <<>>, InOrder(s), NEW n, SentBy(s, n)
    PROVE  /\ InOrder(Tail(s)) /\ SentBy(Tail(s), n)
           /\ Ids(Tail(s)) = Ids(s) \ {Head(s).id}
  <1> DEFINE t == Tail(s)
  <1>1. /\ t \in Seq(Signal) /\ Len(t) = Len(s) - 1 /\ Len(s) \in Nat \ {0}
        /\ Head(s) = s[1]
        /\ \A i \in 1 .. Len(t) : t[i] = s[i + 1]
    <2>1. Len(s) \in Nat \ {0}
      BY EmptySeq
    <2>2. Head(s) = s[1]
      OBVIOUS
    <2> QED BY <2>1, <2>2, HeadTailProperties
  <1>2. \A i \in 1 .. Len(s) : s[i].id \in Nat
    BY SignalIds
  <1> HIDE DEF t
  <1>3. DOMAIN s = 1 .. Len(s) /\ DOMAIN t = 1 .. Len(t)
    BY <1>1, LenProperties
  <1>4. ASSUME NEW i \in DOMAIN t
        PROVE  i + 1 \in DOMAIN s /\ t[i] = s[i + 1] /\ i \in Nat /\ 1 < i + 1
    BY <1>1, <1>3
  <1>5. InOrder(t)
    BY <1>1, <1>3, <1>4 DEF InOrder
  <1>6. SentBy(t, n)
    BY <1>4 DEF SentBy
  <1>7. Ids(t) = Ids(s) \ {Head(s).id}
    <2>1. 1 \in DOMAIN s
      BY <1>1, <1>3
    <2>2. ASSUME NEW i \in DOMAIN s, i # 1
          PROVE  i - 1 \in DOMAIN t /\ t[i - 1] = s[i] /\ s[1].id < s[i].id
      <3>1. i \in Nat /\ 1 < i /\ i - 1 \in 1 .. Len(t)
        BY <1>1, <1>3, <2>2
      <3>2. t[i - 1] = s[(i - 1) + 1] /\ (i - 1) + 1 = i
        BY <1>1, <3>1
      <3> QED BY <1>3, <2>1, <2>2, <3>1, <3>2 DEF InOrder
    <2>3. ASSUME NEW i \in DOMAIN t
          PROVE  t[i].id \in Ids(s) /\ t[i].id # s[1].id
      <3>1. i + 1 \in DOMAIN s /\ i + 1 # 1 /\ t[i] = s[i + 1]
        BY <1>4
      <3>2. s[1].id < s[i + 1].id
        BY <1>4, <2>1, <3>1 DEF InOrder
      <3>3. s[1].id \in Nat /\ s[i + 1].id \in Nat
        BY <1>2, <1>3, <2>1, <3>1
      <3> QED BY <3>1, <3>2, <3>3 DEF Ids
    <2>4. ASSUME NEW x \in Ids(s), x # s[1].id
          PROVE  x \in Ids(t)
      <3>1. PICK i \in DOMAIN s : x = s[i].id
        BY DEF Ids
      <3> QED BY <2>2, <2>4, <3>1 DEF Ids
    <2>5. Ids(t) \subseteq Ids(s) \ {s[1].id}
      BY <2>3 DEF Ids
    <2> QED BY <1>1, <2>4, <2>5
  <1> QED BY <1>5, <1>6, <1>7 DEF t

(* What the signals held are made of.                                      *)
LEMMA HeldTyped ==
    ASSUME IInv
    PROVE  /\ Pending \in Seq(Signal) /\ Replayed \in Seq(Signal)
           /\ inbound \in Seq(Signal) /\ Held = Pending \o Replayed \o inbound
           /\ Held \in Seq(Signal)
  <1>1. txn \in Transaction /\ todo \in Seq(Effect) /\ inbound \in Seq(Signal)
    BY DEF IInv, ControlInv, HandInv
  <1>2. Pending \in Seq(Signal)
    BY <1>1, TransactionFields DEF Pending
  <1>3. Replayed \in Seq(Signal)
    <2>1. CASE todo # <<>> /\ todo[Len(todo)].k = "Replay"
      <3>1. Len(todo) \in 1 .. Len(todo)
        BY <1>1, <2>1, EmptySeq
      <3>2. todo[Len(todo)] \in Effect
        BY <1>1, <3>1, ElementOfSeq
      <3> QED BY <2>1, <3>2, EffectFields DEF Replayed
    <2>2. CASE ~(todo # <<>> /\ todo[Len(todo)].k = "Replay")
      BY <2>2 DEF Replayed
    <2> QED BY <2>1, <2>2
  <1>4. Held = Pending \o Replayed \o inbound
    BY DEF Held, Pending
  <1> QED BY <1>1, <1>2, <1>3, <1>4, ConcatProperties

(* The parts that are empty where there is nothing to put back.            *)
LEMMA NothingReplayed ==
    ASSUME NEW s \in Seq(Effect), \A i \in DOMAIN s : s[i].k # "Replay"
    PROVE  ~(s # <<>> /\ s[Len(s)].k = "Replay")
  <1> SUFFICES ASSUME s # <<>> PROVE s[Len(s)].k # "Replay"
    OBVIOUS
  <1>1. Len(s) \in DOMAIN s
    BY EmptySeq, LenProperties
  <1> QED BY <1>1

LEMMA OnlyQueued ==
    ASSUME IInv, PlacedInv, pc # "effects", txn.state # "DISCOVERED"
    PROVE  Replayed = <<>> /\ Held = inbound
  <1>1. todo \in Seq(Effect)
    BY DEF IInv, ControlInv
  <1>2. Replayed = <<>>
    BY <1>1, NothingReplayed DEF Replayed, PlacedInv
  <1>3. Pending = <<>>
    BY DEF Pending
  <1> QED BY <1>2, <1>3, HeldTyped, ConcatEmptySeq

LEMMA Buffering ==
    ASSUME IInv, txn.state = "DISCOVERED"
    PROVE  /\ todo = <<>> /\ Replayed = <<>>
           /\ Held = txn.pending \o inbound /\ txn.pending \in Seq(Signal)
  <1>1. todo = <<>> /\ Replayed = <<>>
    BY DEF IInv, ControlInv, Replayed
  <1>2. Pending = txn.pending
    BY DEF Pending
  <1> QED BY <1>1, <1>2, HeldTyped, ConcatEmptySeq

(* Nothing is put back by a dispatch that takes no signal, except by the   *)
(* one that materializes the transaction.                                  *)
LEMMA PutsNothingBack ==
    ASSUME NEW t \in Transaction, NEW e \in Event,
           e.type # "InboundReceived", t.state # "DISCOVERED"
    PROVE  /\ \A i \in DOMAIN Advance(t, e).effects :
                Advance(t, e).effects[i].k # "Replay"
           /\ Advance(t, e).next.state # "DISCOVERED"
  <1> DEFINE a == Advance(t, e)
  <1>1. Orderly(a)
    BY AdvanceOrderly
  <1>2. a.next.state \in Triaging =>
          \A i \in DOMAIN a.effects : a.effects[i].k # "Replay"
    <2>1. CASE t.state = "HOLD_AMAZON"
      BY <2>1 DEF Advance, FromHoldAmazon, Advanced, Rejected, CancelTimer
    <2>2. CASE t.state = "ENRICHING"
      BY <2>2 DEF Advance, FromEnriching, Advanced, Rejected, AutoApplied,
                  AwaitingHuman, Triaging
    <2>3. CASE t.state = "AWAITING_HUMAN"
      BY <2>3 DEF Advance, FromAwaitingHuman, Advanced, Rejected, Ignored,
                  Applied, AwaitingHuman, Lapsed, Triaging
    <2>4. CASE t.state \in Writing
      BY <2>4, ResolvePlain DEF Plain, PlainEffect
    <2>5. CASE t.state \in {"OPEN", "LAPSED"}
      BY <2>5 DEF Advance, FromOpen, FromLapsed, Advanced, Rejected, Ignored,
                  Open, Archived, Triaging
    <2>6. CASE t.state = "REVISING"
      BY <2>6 DEF Advance, FromRevising, Reapply, ResolveNoChange,
                  EnterFlaggedAwaiting, Advanced, Rejected, Open,
                  AwaitingHuman, Triaging
    <2>7. CASE t.state = "ARCHIVED"
      BY <2>7 DEF Advance, Rejected
    <2> QED BY <2>1, <2>2, <2>3, <2>4, <2>5, <2>6, <2>7, TransactionFields
            DEF Writing
  <1>3. a.next.state # "DISCOVERED"
    <2>1. CASE t.state \in {"HOLD_AMAZON", "ENRICHING"}
      BY <2>1 DEF Advance, FromHoldAmazon, FromEnriching, Advanced, Rejected,
                  Enriching, AutoApplied, AwaitingHuman
    <2>2. CASE t.state = "AWAITING_HUMAN"
      BY <2>2 DEF Advance, FromAwaitingHuman, Advanced, Rejected, Ignored,
                  Applied, AwaitingHuman, Lapsed
    <2>3. CASE t.state \in Writing
      <3>1. ASSUME NEW o \in Outcomes, NEW p, NEW l
            PROVE  ResolveWriteVerify(t, o, p, l).next.state # "DISCOVERED"
        BY <2>3 DEF ResolveWriteVerify, Outcomes, Advanced, Open,
                    EnterFlaggedAwaiting, AwaitingHuman
      <3>2. Rejected(t).next.state # "DISCOVERED"
        BY DEF Rejected
      <3> QED BY <2>3, <3>1, <3>2, EventFields
              DEF Advance, Writing, FromAutoApplied, FromApplied
    <2>4. CASE t.state \in {"OPEN", "LAPSED"}
      BY <2>4 DEF Advance, FromOpen, FromLapsed, Advanced, Rejected, Ignored,
                  Open, Archived
    <2>5. CASE t.state \in {"REVISING", "ARCHIVED"}
      BY <2>5 DEF Advance, FromRevising, Reapply, ResolveNoChange,
                  EnterFlaggedAwaiting, Advanced, Rejected, Open,
                  AwaitingHuman
    <2> QED BY <2>1, <2>2, <2>3, <2>4, <2>5, TransactionFields DEF Writing
  <1>4. a.next.state \notin Triaging =>
          \A i \in DOMAIN a.effects : a.effects[i].k # "Replay"
    BY <1>1 DEF Orderly, Placed
  <1> QED BY <1>2, <1>3, <1>4

LEMMA HeadFirst ==
    ASSUME NEW s \in Seq(Signal), s # <<>>
    PROVE  /\ Head(s) \in Signal /\ <<Head(s)>> \in Seq(Signal)
           /\ Tail(s) \in Seq(Signal) /\ s = <<Head(s)>> \o Tail(s)
  <1>1. Len(s) \in Nat \ {0} /\ Head(s) = s[1]
    BY EmptySeq
  <1>2. Head(s) \in Signal /\ Tail(s) \in Seq(Signal)
    BY HeadTailProperties
  <1>3. Tail(s) = SubSeq(s, 2, Len(s))
    BY TailIsSubSeq
  <1>4. SubSeq(s, 1, Len(s)) = <<s[1]>> \o SubSeq(s, 1 + 1, Len(s))
    <2>1. 1 \in 1 .. Len(s) /\ Len(s) \in 1 .. Len(s)
      BY <1>1
    <2> QED BY <2>1, SubSeqRecursiveFirst
  <1>5. SubSeq(s, 1, Len(s)) = s
    BY SubSeqFull
  <1>6. 1 + 1 = 2 /\ <<Head(s)>> \in Seq(Signal)
    BY <1>2
  <1> QED BY <1>1, <1>2, <1>3, <1>4, <1>5, <1>6

(* The machine's answer to a signal.                                       *)
LEMMA AnswerToSignal ==
    ASSUME NEW t \in Transaction, t.state \in TakesSignals,
           NEW e \in Event, e.type = "InboundReceived"
    PROVE  /\ Valid(Advance(t, e).next)
           /\ t.state = "DISCOVERED" =>
                /\ Advance(t, e).next.state = "DISCOVERED"
                /\ Advance(t, e).next.pending = Append(t.pending, e.sig)
           /\ t.state = "HOLD_AMAZON" =>
                /\ Advance(t, e).next.state = "ENRICHING"
                /\ Advance(t, e).effects =
                     <<CancelTimer("AMAZON_HOLD"), ReplayBuffered(<<e.sig>>)>>
           /\ t.state \in {"OPEN", "LAPSED"} =>
                /\ Advance(t, e).next.state = "REVISING"
                /\ Advance(t, e).effects = <<CancelTimer("ARCHIVE")>>
  BY DEF TakesSignals, Advance, FromDiscovered, FromHoldAmazon, FromOpen,
         FromLapsed, Advanced, Discovered, Enriching, Revising, Valid

(* The machine's answer to the snapshot it was waiting for.                *)
LEMMA AnswerToSnapshot ==
    ASSUME NEW t \in Transaction, t.state = "DISCOVERED",
           NEW e \in Event, e.type = "SnapshotMaterialized"
    PROVE  Advance(t, e).next.state \in Triaging
  BY DEF Advance, FromDiscovered, Advanced, HoldAmazon, Enriching, Triaging

LEMMA AnswerReplays ==
    ASSUME NEW t \in Transaction, t.state = "DISCOVERED",
           NEW e \in Event, e.type = "SnapshotMaterialized", NEW effs,
           effs = Advance(t, e).effects
    PROVE  (IF effs # <<>> /\ effs[Len(effs)].k = "Replay"
            THEN effs[Len(effs)].sigs ELSE <<>>) = t.pending
  <1> DEFINE first == SetTimer("AMAZON_HOLD")
             put   == ReplayBuffered(t.pending)
             rep   == IF t.pending = <<>> THEN <<>> ELSE <<put>>
  <1>1. first.k = "SetTimer" /\ put.k = "Replay" /\ put.sigs = t.pending
    BY DEF SetTimer, ReplayBuffered
  <1>2. first \in Effect /\ put \in Effect
    BY TransactionFields, EffectsTyped DEF Timers
  <1>3. effs = <<first>> \o rep \/ effs = rep
    BY DEF Advance, FromDiscovered, Advanced
  <1> HIDE DEF first, put
  <1>4. CASE effs = rep
    BY <1>1, <1>4
  <1>5. CASE effs = <<first>> \o rep
    <2>1. CASE t.pending = <<>>
      <3>1. <<first>> \in Seq(Effect)
        BY <1>2, ShortSeqs
      <3>2. effs = <<first>>
        BY <1>5, <2>1, <3>1, ConcatEmptySeq
      <3> QED BY <1>1, <2>1, <3>2
    <2>2. CASE t.pending # <<>>
      <3>1. <<first>> \in Seq(Effect) /\ <<put>> \in Seq(Effect)
            /\ Len(<<first>>) = 1 /\ Len(<<put>>) = 1
        BY <1>2, ShortSeqs
      <3>2. effs = <<first>> \o <<put>>
        BY <1>5, <2>2
      <3>3. Len(effs) = 2 /\ effs[2] = put /\ effs # <<>>
        BY <3>1, <3>2
      <3> QED BY <1>1, <3>3
    <2> QED BY <2>1, <2>2
  <1> QED BY <1>3, <1>4, <1>5

LEMMA HeldSame ==
    ASSUME HeldInv, Held' = Held, due' = due, sent' \in {sent, sent + 1},
           ended => ended', IInv
    PROVE  HeldInv'
  <1> SUFFICES ASSUME ~ended'
               PROVE  Ids(Held') = due' /\ InOrder(Held') /\ SentBy(Held', sent')
    BY DEF HeldInv, InOrder, SentBy, Ids
  <1>1. Ids(Held) = due /\ InOrder(Held) /\ SentBy(Held, sent)
    BY DEF HeldInv
  <1>2. sent \in Nat /\ Held \in Seq(Signal)
    BY HeldTyped DEF IInv, EnvInv
  <1>3. \A i \in DOMAIN Held : Held[i].id \in Nat
    BY <1>2, SignalIds, LenProperties
  <1>4. SentBy(Held, sent')
    BY <1>1, <1>2, <1>3 DEF SentBy
  <1> QED BY <1>1, <1>4

LEMMA HeldDispatch ==
    ASSUME IInv, PlacedInv, HeldInv, Dispatches
    PROVE  HeldInv'
  <1>1. PICK e \in Event, rest \in {<<>>, todo}, back \in Returns :
          /\ Dispatch(e, rest, back)
          /\ rest = <<>> \/ pc = "readback"
          /\ \/ e.type # "InboundReceived" /\ UNCHANGED <<inbound, due>>
             \/ /\ e.type = "InboundReceived" /\ inbound # <<>>
                /\ e.sig = Head(inbound) /\ inbound' = Tail(inbound)
                /\ txn.state \in TakesSignals
                /\ due' = IF txn.state \in {"DISCOVERED", "HOLD_AMAZON"}
                          THEN due ELSE due \ {Head(inbound).id}
    BY DEF Dispatches
  <1>2. /\ ~ended /\ pc # "effects" /\ sent' = sent
        /\ txn \in Transaction /\ todo \in Seq(Effect) /\ rest \in Seq(Effect)
        /\ inbound \in Seq(Signal)
    BY <1>1, DispatchedTxn
    DEF Dispatches, Elsewhere, ended, IInv, ControlInv, HandInv
  <1> DEFINE a == Advance(txn, e)
  <1>3. \/ /\ Valid(a.next) /\ txn' = a.next /\ todo' = a.effects \o rest
        \/ ~Valid(a.next) /\ UNCHANGED <<txn, todo>>
    BY <1>1, DispatchedTxn
  <1>4. a.effects \in Seq(Effect)
    BY <1>1, DispatchedTxn DEF Sound, Typed
  <1>5. CASE e.type # "InboundReceived" /\ UNCHANGED <<txn, todo>>
    BY <1>1, <1>2, <1>5, HeldSame DEF Held, Replayed
  <1>6. CASE e.type # "InboundReceived" /\ txn.state = "DISCOVERED"
    <2>1. rest = <<>> /\ todo = <<>> /\ Held = txn.pending \o inbound
          /\ txn.pending \in Seq(Signal)
      BY <1>6, Buffering
    <2>2. CASE txn' = a.next /\ todo' = a.effects \o rest
      <3>1. todo' = a.effects
        BY <1>4, <2>1, <2>2, ConcatEmptySeq
      <3>2. CASE e.type = "SnapshotMaterialized"
        <4>1. txn'.state \in Triaging
          BY <1>2, <1>6, <2>2, <3>2, AnswerToSnapshot
        <4>2. Replayed' = txn.pending
          BY <1>2, <1>6, <3>1, <3>2, AnswerReplays DEF Replayed
        <4>3. Pending' = <<>>
          BY <4>1 DEF Pending, Triaging
        <4>4. Held' = Pending' \o Replayed' \o inbound'
          BY DEF Held, Pending
        <4>5. Held' = txn.pending \o inbound
          BY <1>1, <1>6, <2>1, <4>2, <4>3, <4>4, ConcatEmptySeq
        <4> QED BY <1>1, <1>2, <1>6, <2>1, <4>5, HeldSame
      <3>3. CASE e.type # "SnapshotMaterialized"
        <4>1. a.next = txn /\ a.effects = <<>>
          BY <1>6, <3>3 DEF Advance, FromDiscovered, Ignored, Rejected
        <4>2. txn' = txn /\ todo' = todo
          BY <2>1, <2>2, <3>1, <4>1
        <4> QED BY <1>5, <1>6, <4>2
      <3> QED BY <3>2, <3>3
    <2> QED BY <1>3, <1>5, <1>6, <2>2
  <1>7. CASE /\ e.type # "InboundReceived" /\ txn.state # "DISCOVERED"
             /\ txn' = a.next /\ todo' = a.effects \o rest
    <2>1. Held = inbound
      BY <1>2, <1>7, OnlyQueued
    <2>2. \A i \in DOMAIN rest : rest[i].k # "Replay"
      BY <1>2 DEF PlacedInv
    <2>3. /\ \A i \in DOMAIN a.effects : a.effects[i].k # "Replay"
          /\ txn'.state # "DISCOVERED"
      BY <1>2, <1>7, PutsNothingBack
    <2>4. ASSUME NEW i \in DOMAIN todo'
          PROVE  todo'[i].k # "Replay"
      <3> DEFINE effs == a.effects
      <3>1. effs \in Seq(Effect) /\ rest \in Seq(Effect) /\ todo' = effs \o rest
            /\ \A j \in DOMAIN effs : effs[j].k # "Replay"
        BY <1>2, <1>4, <1>7, <2>3
      <3> HIDE DEF effs
      <3>2. CASE i <= Len(effs)
        BY <2>4, <3>1, <3>2
      <3>3. CASE i > Len(effs)
        <4>1. todo'[i] = rest[i - Len(effs)] /\ i - Len(effs) \in DOMAIN rest
          BY <2>4, <3>1, <3>3
        <4> QED BY <2>2, <4>1
      <3> QED BY <2>4, <3>1, <3>2, <3>3
    <2>5. todo' \in Seq(Effect)
      BY <1>2, <1>4, <1>7, ConcatProperties
    <2>6. Replayed' = <<>> /\ Pending' = <<>>
      BY <2>3, <2>4, <2>5, NothingReplayed DEF Replayed, Pending
    <2>7. Held' = Pending' \o Replayed' \o inbound'
      BY DEF Held, Pending
    <2>8. Held' = inbound
      BY <1>1, <1>2, <1>7, <2>6, <2>7, ConcatEmptySeq
    <2> QED BY <1>1, <1>2, <1>7, <2>1, <2>8, HeldSame
  <1>8. CASE e.type = "InboundReceived"
    <2>0. /\ inbound # <<>> /\ e.sig = Head(inbound)
          /\ inbound' = Tail(inbound) /\ txn.state \in TakesSignals
      BY <1>1, <1>8
    <2>1. /\ Valid(a.next) /\ txn' = a.next /\ todo' = a.effects \o rest
      BY <1>2, <1>3, <1>8, <2>0, AnswerToSignal
    <2>2. rest = <<>>
      BY <1>1, <2>0, Suspended DEF IInv, TakesSignals, Writing
    <2>3. todo' = a.effects
      BY <1>4, <2>1, <2>2, ConcatEmptySeq
    <2>4. /\ Tail(inbound) \in Seq(Signal) /\ Head(inbound) \in Signal
          /\ inbound = <<Head(inbound)>> \o Tail(inbound)
          /\ <<Head(inbound)>> \in Seq(Signal)
      BY <1>2, <2>0, HeadFirst
    <2>5. Held' = Pending' \o Replayed' \o inbound'
      BY DEF Held, Pending
    <2>6. CASE txn.state = "DISCOVERED"
      <3>1. /\ todo = <<>> /\ Held = txn.pending \o inbound
            /\ txn.pending \in Seq(Signal)
        BY <2>6, Buffering
      <3>2. txn'.state = "DISCOVERED" /\ txn'.pending = Append(txn.pending, e.sig)
        BY <1>2, <1>8, <2>0, <2>1, <2>6, AnswerToSignal
      <3>3. todo' = <<>>
        BY <1>1, <2>1, <2>3, <3>2, DispatchedTxn DEF Sound, BuffersSilently
      <3>4. /\ Pending' = txn.pending \o <<Head(inbound)>> /\ Replayed' = <<>>
        BY <2>0, <2>4, <3>1, <3>2, <3>3, AppendIsConcat DEF Pending, Replayed
      <3>5. txn.pending \o <<Head(inbound)>> \in Seq(Signal)
        BY <2>4, <3>1, ConcatProperties
      <3>6. Held' = (txn.pending \o <<Head(inbound)>>) \o Tail(inbound)
        BY <2>0, <2>5, <3>4, <3>5, ConcatEmptySeq
      <3>7. Held' = Held
        <4>1. (txn.pending \o <<Head(inbound)>>) \o Tail(inbound)
                = txn.pending \o (<<Head(inbound)>> \o Tail(inbound))
          BY <2>4, <3>1, ConcatAssociative
        <4>2. <<Head(inbound)>> \o Tail(inbound) = inbound
          BY <2>4
        <4> QED BY <3>1, <3>6, <4>1, <4>2
      <3> QED BY <1>1, <1>2, <1>8, <2>6, <3>7, HeldSame
    <2>7. CASE txn.state = "HOLD_AMAZON"
      <3>1. Held = inbound
        BY <1>2, <2>7, OnlyQueued
      <3> DEFINE x == CancelTimer("AMAZON_HOLD")
                 y == ReplayBuffered(<<e.sig>>)
      <3>2. txn'.state = "ENRICHING" /\ todo' = <<x, y>>
        BY <1>2, <1>8, <2>0, <2>1, <2>3, <2>7, AnswerToSignal
      <3>3. y.k = "Replay" /\ y.sigs = <<e.sig>>
        BY DEF ReplayBuffered
      <3> HIDE DEF x, y
      <3>4. Replayed' = <<Head(inbound)>> /\ Pending' = <<>>
        BY <2>0, <3>2, <3>3 DEF Replayed, Pending
      <3>5. Held' = Held
        BY <2>0, <2>4, <2>5, <3>1, <3>4, ConcatEmptySeq
      <3> QED BY <1>1, <1>2, <1>8, <2>7, <3>5, HeldSame
    <2>8. CASE txn.state \in {"OPEN", "LAPSED"}
      <3>1. Held = inbound
        BY <1>2, <2>8, OnlyQueued
      <3>2. txn'.state = "REVISING" /\ todo' = <<CancelTimer("ARCHIVE")>>
        BY <1>2, <1>8, <2>0, <2>1, <2>3, <2>8, AnswerToSignal
      <3>3. Replayed' = <<>> /\ Pending' = <<>>
        BY <3>2 DEF Replayed, Pending, CancelTimer
      <3>4. Held' = Tail(inbound)
        BY <2>0, <2>4, <2>5, <3>3, ConcatEmptySeq
      <3>5. due' = due \ {Head(inbound).id}
        BY <1>1, <1>8, <2>8
      <3> QED BY <1>2, <2>0, <3>1, <3>4, <3>5, HeadTaken DEF HeldInv
    <2> QED BY <2>0, <2>6, <2>7, <2>8 DEF TakesSignals
  <1> QED BY <1>3, <1>5, <1>6, <1>7, <1>8

(* Executing an effect other than Replay leaves what is to be put back.    *)
LEMMA PopKeepsReplay ==
    ASSUME NEW s \in Seq(Effect), s # <<>>, Head(s).k # "Replay"
    PROVE  (IF s # <<>> /\ s[Len(s)].k = "Replay"
            THEN s[Len(s)].sigs ELSE <<>>)
             = (IF Tail(s) # <<>> /\ Tail(s)[Len(Tail(s))].k = "Replay"
                THEN Tail(s)[Len(Tail(s))].sigs ELSE <<>>)
  <1>1. Len(s) \in Nat \ {0} /\ Head(s) = s[1]
    BY EmptySeq
  <1>2. /\ Tail(s) \in Seq(Effect) /\ Len(Tail(s)) = Len(s) - 1
        /\ \A i \in 1 .. Len(Tail(s)) : Tail(s)[i] = s[i + 1]
    BY HeadTailProperties
  <1>3. CASE Len(s) = 1
    <2>1. Len(Tail(s)) = 0
      BY <1>2, <1>3
    <2>2. Tail(s) = <<>>
      BY <1>2, <2>1, EmptySeq
    <2> QED BY <1>1, <1>3, <2>2
  <1>4. CASE Len(s) # 1
    <2>1. Len(Tail(s)) \in 1 .. Len(Tail(s)) /\ Len(Tail(s)) + 1 = Len(s)
      BY <1>1, <1>2, <1>4
    <2>2. Tail(s)[Len(Tail(s))] = s[Len(s)]
      BY <1>2, <2>1
    <2>3. Tail(s) # <<>>
      BY <2>1, EmptySeq
    <2> QED BY <2>2, <2>3
  <1> QED BY <1>3, <1>4

LEMMA StepHeld == IInv /\ PlacedInv /\ HeldInv /\ [Next]_vars => HeldInv'
  <1> SUFFICES ASSUME IInv, PlacedInv, HeldInv, [Next]_vars PROVE HeldInv'
    OBVIOUS
  <1>0. /\ todo \in Seq(Effect) /\ txn \in Transaction /\ sent \in Nat
        /\ inbound \in Seq(Signal)
    BY DEF IInv, ControlInv, EnvInv, HandInv
  <1>1. CASE Dispatches
    BY <1>1, HeldDispatch
  <1>2. CASE Moves
    <2>1. /\ UNCHANGED <<txn, todo, inbound, due, sent, status>>
      BY <1>2 DEF Moves, Elsewhere
    <2> QED BY <2>1, HeldSame DEF Held, Replayed, ended
  <1>3. ASSUME NEW k, k # "Replay", HeadIs(k), Pop, txn'.state = txn.state,
               txn.state # "DISCOVERED",
               UNCHANGED <<status, inbound, due, sent>>
        PROVE  HeldInv'
    <2>1. todo # <<>> /\ Head(todo).k # "Replay" /\ todo' = Tail(todo)
      BY <1>3 DEF HeadIs, Pop
    <2>2. Replayed' = Replayed
      BY <1>0, <2>1, PopKeepsReplay DEF Replayed
    <2>3. Held' = Held
      BY <1>3, <2>2 DEF Held
    <2> QED BY <1>3, <2>3, HeldSame DEF ended
  <1>4. ASSUME NEW k, HeadIs(k)
        PROVE  txn.state # "DISCOVERED"
    BY <1>4 DEF HeadIs, IInv, ControlInv
  <1>5. CASE Pops
    <2>1. PICK k : /\ HeadIs(k) /\ k # "Replay" /\ Pop
                   /\ UNCHANGED <<status, txn, inbound, due, sent>>
      BY <1>5 DEF Pops, Elsewhere
    <2> QED BY <1>3, <1>4, <2>1
  <1>6. CASE Stands
    BY <1>6, HeldSame DEF Stands, control, Held, Replayed, ended
  <1>7. CASE Signalled
    <2>1. PICK s \in Signal :
            /\ ~ended /\ s.id = sent + 1 /\ sent' = sent + 1
            /\ inbound' = Append(inbound, s) /\ due' = due \cup {sent + 1}
            /\ UNCHANGED control
      BY <1>7 DEF Signalled
    <2>2. UNCHANGED <<txn, todo>>
      BY <2>1 DEF control
    <2>3. Held' = Append(Held, s)
      <3>1. /\ Pending \in Seq(Signal) /\ Replayed \in Seq(Signal)
            /\ Held = (Pending \o Replayed) \o inbound
        BY HeldTyped
      <3>2. Held' = (Pending \o Replayed) \o Append(inbound, s)
        BY <2>1, <2>2 DEF Held, Pending, Replayed
      <3> DEFINE front == Pending \o Replayed
      <3>3. front \in Seq(Signal)
        BY <3>1, ConcatProperties
      <3>5. <<s>> \in Seq(Signal)
        OBVIOUS
      <3> HIDE DEF front
      <3>4. front \o Append(inbound, s) = Append(front \o inbound, s)
        <4>1. Append(inbound, s) = inbound \o <<s>>
          BY <1>0, AppendIsConcat
        <4>2. front \o (inbound \o <<s>>) = (front \o inbound) \o <<s>>
          BY <1>0, <3>3, <3>5, ConcatAssociative
        <4>3. front \o inbound \in Seq(Signal)
          BY <1>0, <3>3, ConcatProperties
        <4>4. Append(front \o inbound, s) = (front \o inbound) \o <<s>>
          BY <4>3, AppendIsConcat
        <4> QED BY <4>1, <4>2, <4>4
      <3> QED BY <3>1, <3>2, <3>4 DEF front
    <2>4. Held \in Seq(Signal)
      BY HeldTyped
    <2> QED BY <1>0, <2>1, <2>3, <2>4, OneAppended DEF HeldInv
  <1>8. CASE Births
    <2>1. PICK queue : /\ Born(queue)
                       /\ \/ queue = <<>> /\ sent' = sent
                          \/ /\ sent' = sent + 1
                             /\ \E s \in Signal : s.id = sent + 1 /\ queue = <<s>>
      BY <1>8 DEF Births
    <2>2. /\ txn' = Discovered(FALSE, <<>>) /\ todo' = <<>>
          /\ inbound' = queue /\ due' = Ids(queue) /\ queue \in Seq(Signal)
      <3>1. queue \in Seq(Signal)
        BY <2>1, ShortSeqs
      <3> QED BY <2>1, <3>1 DEF Born
    <2>3. Held' = queue
      <3>1. txn'.state = "DISCOVERED" /\ txn'.pending = <<>>
        BY <2>2 DEF Discovered
      <3>2. Held' = <<>> \o <<>> \o queue
        BY <2>2, <3>1 DEF Held, Replayed
      <3>3. <<>> \o queue = queue /\ <<>> \o <<>> = <<>>
        BY <2>2, ConcatEmptySeq, EmptySeq
      <3> QED BY <3>2, <3>3
    <2>4. InOrder(queue) /\ SentBy(queue, sent')
      BY <1>0, <2>1 DEF InOrder, SentBy, Signal
    <2> QED BY <2>2, <2>3, <2>4 DEF HeldInv
  <1>9. CASE Return
    <2>1. /\ UNCHANGED <<txn, todo, inbound, due, env>>
          /\ status' = status \/ status' = "completed"
      BY <1>9 DEF Return
    <2> QED BY <2>1, HeldSame DEF Held, Replayed, ended, env
  <1>10. CASE RunReplay
    <2>1. /\ HeadIs("Replay") /\ Pop /\ inbound' = Head(todo).sigs \o inbound
          /\ UNCHANGED <<status, txn, env, due>>
      BY <1>10 DEF RunReplay, ExtendLeft
    <2>2. /\ todo # <<>> /\ Head(todo).k = "Replay" /\ todo' = Tail(todo)
          /\ Head(todo).sigs \in Seq(Signal)
      BY <2>1, HeadEffect, EffectFields DEF Pop
    <2>3. Tail(todo) = <<>> /\ Len(todo) = 1
      <3>1. Head(todo) = todo[1] /\ 1 \in DOMAIN todo
        BY <1>0, <2>2
      <3> QED BY <1>0, <2>2, <3>1, PlacedTail DEF PlacedInv, Placed
    <2>4. Replayed = Head(todo).sigs /\ Replayed' = <<>>
      BY <1>0, <2>2, <2>3 DEF Replayed
    <2>5. Pending = <<>> /\ Pending' = <<>>
      BY <1>4, <2>1 DEF Pending
    <2>6. Held = Head(todo).sigs \o inbound
      BY <2>2, <2>4, <2>5, HeldTyped, ConcatEmptySeq
    <2>7. inbound' \in Seq(Signal)
      BY <1>0, <2>1, <2>2, ConcatProperties
    <2>8. Held' = inbound'
      BY <2>4, <2>5, <2>7, ConcatEmptySeq DEF Held, Pending
    <2> QED BY <2>1, <2>6, <2>8, HeldSame DEF ended, env
  <1>11. CASE RunOpenThread
    <2>1. PICK k \in {"OpenThread", "Send"} : HeadIs(k) /\ Pop
      BY <1>11 DEF RunOpenThread, OpensThread
    <2> QED BY <1>3, <1>4, <1>11, <2>1, OpenedThread
  <1>12. CASE RunSend
    <2>1. HeadIs("Send") /\ Pop /\ UNCHANGED <<status, txn, inbound, due, env>>
      BY <1>12 DEF RunSend
    <2> QED BY <1>3, <1>4, <2>1 DEF env
  <1>13. CASE LostSend
    <2>1. UNCHANGED <<control, sent, inbound, due>>
      BY <1>13 DEF LostSend
    <2> QED BY <2>1, HeldSame DEF control, Held, Replayed, ended
  <1>14. CASE Fails
    BY <1>14 DEF Fails, Fail, HeldInv, ended
  <1>15. CASE TakeReply
    <2>1. /\ pc \in {"await", "awaitFlagged"} /\ status = "running"
          /\ inbound # <<>> /\ inbound' = Tail(inbound)
          /\ due' = due \ {Head(inbound).id}
          /\ UNCHANGED <<txn, todo, status, env>>
      BY <1>15 DEF TakeReply, At
    <2>2. txn.state = "AWAITING_HUMAN"
      BY <2>1, Suspended DEF IInv
    <2>3. Held = inbound /\ Replayed = <<>>
      BY <2>1, <2>2, OnlyQueued
    <2>4. Tail(inbound) \in Seq(Signal)
      BY <1>0, <2>1, HeadTailProperties
    <2>5. Held' = Tail(inbound)
      <3>1. Replayed' = <<>> /\ Pending' = <<>>
        BY <2>1, <2>2, <2>3 DEF Replayed, Pending
      <3>2. Held' = Pending' \o Replayed' \o inbound'
        BY DEF Held, Pending
      <3> QED BY <2>1, <2>4, <3>1, <3>2, ConcatEmptySeq
    <2> QED BY <1>0, <2>1, <2>3, <2>5, HeadTaken DEF HeldInv, ended, env
  <1> QED BY <1>1, <1>2, <1>5, <1>6, <1>7, <1>8, <1>9, <1>10, <1>11, <1>12,
             <1>13, <1>14, <1>15, EveryStep

(* A live run neither loses a delivered signal nor acts on one twice, and  *)
(* keeps them in the order they came: through buffering before the charge  *)
(* is materialized, the Amazon hold, their replay and every retry.         *)
THEOREM SignalsStayInOrder == Spec => []SignalsKeptInOrder
  <1>1. Init => HeldInv
    BY DEF Init, HeldInv, ended
  <1>2. HeldInv => SignalsKeptInOrder
    BY DEF HeldInv, InOrder, SignalsKeptInOrder
  <1> QED BY <1>1, <1>2, Invariant, InitPlaced, StepPlaced, StepHeld, PTL
          DEF Spec

-----------------------------------------------------------------------------
(* What YNAB holds                                                          *)
(* YNAB holds the allocation and the approval of the decision d.           *)
Agrees(d) == ynab.alloc = d.alloc /\ ynab.approved = d.approved

Flagged(t) == t.state = "AWAITING_HUMAN" /\ t.flag # "NONE"
Divergent(t) == t.state = "AWAITING_HUMAN" /\ t.flag = "DIVERGED"

CommitsDecision == \A i \in DOMAIN todo :
                     todo[i].k = "Commit" => todo[i].d = txn.decision

(* Where a write is verified, nobody else having written since, it is what *)
(* YNAB holds.                                                             *)
LastWritten ==
    /\ pc = "readback" => draft = txn.decision
    /\ pc \in {"readback", "cvVerify"} /\ ~touched /\ ~Amazon =>
         /\ visible /\ Agrees(draft)
         /\ draft.memo = {} \/ ynab.memo = draft.memo

AtOpen     == txn.state = "OPEN" /\ ~touched => Agrees(txn.decision)
AtRevising == txn.state = "REVISING" /\ txn.prior # NoDecision
                /\ pc # "cvVerify" /\ ~touched => Agrees(txn.prior)

(* Where an unverified write can be.                                       *)
Doubted == \/ txn.state \in Writing \/ Flagged(txn)
           \/ txn.state = "REVISING" /\ pc = "cvVerify"

OwnDivergence == Divergent(txn) /\ ~Amazon => touched

(* No attempt of converge has been lost half way.                          *)
NoReask == Used("reask") = 0

Backed == AtOpen /\ AtRevising /\ (unverified => Doubted) /\ OwnDivergence

(* A completed run is archived, the write in progress is that of the       *)
(* decision in hand, and what the run rests on is what YNAB holds.         *)
TrustInv ==
    /\ Valid(txn)
    /\ status = "completed" => txn.state = "ARCHIVED"
    /\ CommitsDecision
    /\ left["reask"] <= Bounds["reask"]
    /\ status = "running" => LastWritten
    /\ status = "running" /\ NoReask => Backed

LEMMA InitTrust == Init => TrustInv
  <1> SUFFICES ASSUME Init PROVE TrustInv
    OBVIOUS
  <1>1. /\ status = "none" /\ txn = Discovered(FALSE, <<>>) /\ todo = <<>>
        /\ left = Bounds
    BY DEF Init
  <1>2. Valid(txn)
    BY <1>1 DEF Valid, Discovered
  <1>3. left["reask"] <= Bounds["reask"]
    BY <1>1, WorkflowAssumption DEF Kinds
  <1>4. CommitsDecision
    BY <1>1 DEF CommitsDecision
  <1> QED BY <1>1, <1>2, <1>3, <1>4 DEF TrustInv

LEMMA TrustRests ==
    ASSUME TrustInv, IInv, NoReask
    PROVE  RestIsVerified /\ (~Amazon => DivergenceIsReal)
  <1>1. DivergenceIsReal \/ Amazon
    BY WorkflowAssumption
    DEF TrustInv, Backed, OwnDivergence, Divergent, DivergenceIsReal
  <1>2. OpenIsVerified
    <2> SUFFICES ASSUME status = "running", pc \in {"open", "openBlocked"},
                        ~touched
                 PROVE  ynab.alloc = txn.decision.alloc /\ ynab.approved
      BY DEF OpenIsVerified
    <2>1. txn.state = "OPEN"
      BY Suspended DEF IInv
    <2>2. Agrees(txn.decision) /\ txn.decision.approved
      BY <2>1 DEF TrustInv, Backed, AtOpen, Valid
    <2> QED BY <2>2 DEF Agrees
  <1>3. UnverifiedAwaitsOwner
    <2> SUFFICES ASSUME status = "running", unverified,
                        pc \in {"hold", "await", "awaitFlagged", "open",
                                "openBlocked", "lapsed", "lapsedBlocked"}
                 PROVE  txn.state = "AWAITING_HUMAN" /\ txn.flag # "NONE"
      BY DEF UnverifiedAwaitsOwner
    <2>1. txn.state \notin Writing /\ txn.state # "REVISING"
      BY Suspended DEF IInv, Writing
    <2> QED BY <2>1 DEF TrustInv, Backed, Doubted, Flagged
  <1> QED BY <1>1, <1>2, <1>3 DEF RestIsVerified

(* -- What the machine's answers have in common --------------------------- *)
(* How OPEN, REVISING and a divergence are reached, where a doubted write  *)
(* leads, and what a transition writes.                                    *)
OpenFrom(t, e, n) ==
    \/ n = t
    \/ /\ t.state = "OPEN" /\ e.type = "OverrideDetected"
       /\ n.decision = e.decision
    \/ /\ t.state = "REVISING" /\ e.type = "NoChange"
       /\ t.prior # NoDecision /\ n.decision = t.prior
    \/ /\ t.state = "REVISING" /\ e.type = "Reapplied"
       /\ n.decision = e.decision
    \/ /\ t.state \in Writing /\ e.type = "WriteVerified"
       /\ e.outcome = "MATCH" /\ n.decision = t.decision

RevisingFrom(t, n) ==
    \/ t.state = "REVISING" /\ n.prior = t.prior
    \/ t.state = "OPEN" /\ n.prior = t.decision
    \/ t.state = "LAPSED" /\ n.prior = NoDecision

Unmatched(e) == \/ e.type = "WriteVerified" /\ e.outcome # "MATCH"
                \/ e.type \in {"CouldNotConfirm", "Diverged"}

ShowsDivergence(e) == \/ e.type = "WriteVerified" /\ e.outcome = "DIVERGED"
                      \/ e.type = "Diverged"

Traced(t, e, n) ==
    /\ n.state = "OPEN" => OpenFrom(t, e, n)
    /\ n.state = "REVISING" => RevisingFrom(t, n)
    /\ Divergent(n) => Divergent(t) \/ ShowsDivergence(e)
    /\ Flagged(t) => Flagged(n) \/ n.state \in Writing
    /\ t.state \in Writing \cup {"REVISING"} /\ Unmatched(e)
         => Flagged(n) \/ n = t

LEMMA StayTraced ==
    ASSUME NEW t, NEW e
    PROVE  /\ Traced(t, e, t)
           /\ Rejected(t).next = t /\ Ignored(t).next = t
           /\ \A n, effs : Advanced(n, effs).next = n
  BY DEF Traced, Rejected, Ignored, Advanced, OpenFrom, RevisingFrom, Writing

(* A transition to another state says where it comes from.                 *)
LEMMA OrdinaryTraced ==
    ASSUME NEW t, NEW e, NEW n,
           n.state \notin {"OPEN", "REVISING"}, ~Divergent(n), ~Flagged(t),
           t.state \notin Writing \cup {"REVISING"}
    PROVE  Traced(t, e, n)
  BY DEF Traced

LEMMA StateTags ==
    /\ \A c : HoldAmazon(c).state = "HOLD_AMAZON"
              /\ Enriching(c).state = "ENRICHING"
    /\ \A h, p : Discovered(h, p).state = "DISCOVERED"
    /\ \A c, d : /\ AutoApplied(c, d).state = "AUTO_APPLIED"
                 /\ AutoApplied(c, d).decision = d
                 /\ Applied(c, d).state = "APPLIED"
                 /\ Applied(c, d).decision = d
                 /\ Open(c, d).state = "OPEN" /\ Open(c, d).decision = d
                 /\ Lapsed(c, d).state = "LAPSED"
                 /\ Archived(c, d).state = "ARCHIVED"
    /\ \A c, p, f : /\ AwaitingHuman(c, p, f).state = "AWAITING_HUMAN"
                    /\ AwaitingHuman(c, p, f).flag = f
    /\ \A c, s, o, d : /\ Revising(c, s, o, d).state = "REVISING"
                       /\ Revising(c, s, o, d).prior = d
  BY DEF HoldAmazon, Enriching, Discovered, AutoApplied, Applied, Open,
         Lapsed, Archived, AwaitingHuman, Revising

(* What each state answers.                                                *)
LEMMA TriageAnswers ==
    ASSUME NEW t \in Transaction, NEW e \in Event
    PROVE  /\ t.state = "DISCOVERED" =>
                \/ Advance(t, e).next = t
                \/ Advance(t, e).next.state
                     \in {"DISCOVERED", "HOLD_AMAZON", "ENRICHING"}
           /\ t.state = "HOLD_AMAZON" =>
                \/ Advance(t, e).next = t
                \/ Advance(t, e).next.state = "ENRICHING"
           /\ t.state = "ENRICHING" =>
                \/ Advance(t, e).next = t
                \/ Advance(t, e).next.state = "AUTO_APPLIED"
                \/ /\ Advance(t, e).next.state = "AWAITING_HUMAN"
                   /\ Advance(t, e).next.flag = "NONE"
  <1>1. \/ FromDiscovered(t, e).next = t
        \/ FromDiscovered(t, e).next.state
             \in {"DISCOVERED", "HOLD_AMAZON", "ENRICHING"}
    BY StayTraced, StateTags DEF FromDiscovered
  <1>2. \/ FromHoldAmazon(t, e).next = t
        \/ FromHoldAmazon(t, e).next.state = "ENRICHING"
    BY StateTags DEF FromHoldAmazon, Advanced, Rejected
  <1>3. \/ FromEnriching(t, e).next = t
        \/ FromEnriching(t, e).next.state = "AUTO_APPLIED"
        \/ /\ FromEnriching(t, e).next.state = "AWAITING_HUMAN"
           /\ FromEnriching(t, e).next.flag = "NONE"
    BY StayTraced, StateTags DEF FromEnriching, Advanced, Rejected
  <1> QED BY <1>1, <1>2, <1>3 DEF Advance

LEMMA WritingAnswers ==
    ASSUME NEW t \in Transaction, NEW e \in Event, t.state \in Writing
    PROVE  \/ Advance(t, e).next = t /\ e.type # "WriteVerified"
           \/ /\ e.type = "WriteVerified" /\ e.outcome = "MATCH"
              /\ Advance(t, e).next.state = "OPEN"
              /\ Advance(t, e).next.decision = t.decision
           \/ /\ e.type = "WriteVerified"
              /\ Advance(t, e).next.state = "AWAITING_HUMAN"
              /\ \/ e.outcome = "COULD_NOT_CONFIRM"
                    /\ Advance(t, e).next.flag = "POSSIBLY_INCONSISTENT"
                 \/ /\ e.outcome = "DIVERGED"
                    /\ Advance(t, e).next.flag = "DIVERGED"
  <1>1. e.type = "WriteVerified" => e.outcome \in Outcomes
    BY EventFields
  <1> QED BY <1>1, StayTraced, StateTags
          DEF Writing, Advance, FromAutoApplied, FromApplied,
              ResolveWriteVerify, EnterFlaggedAwaiting, Outcomes

LEMMA RestAnswers ==
    ASSUME NEW t \in Transaction, NEW e \in Event
    PROVE  /\ t.state = "OPEN" =>
                \/ Advance(t, e).next = t
                \/ Advance(t, e).next.state = "ARCHIVED"
                \/ /\ Advance(t, e).next.state = "REVISING"
                   /\ Advance(t, e).next.prior = t.decision
                \/ /\ e.type = "OverrideDetected"
                   /\ Advance(t, e).next.state = "OPEN"
                   /\ Advance(t, e).next.decision = e.decision
           /\ t.state = "LAPSED" =>
                \/ Advance(t, e).next = t
                \/ Advance(t, e).next.state = "ARCHIVED"
                \/ /\ Advance(t, e).next.state = "REVISING"
                   /\ Advance(t, e).next.prior = NoDecision
           /\ t.state = "AWAITING_HUMAN" =>
                \/ Advance(t, e).next = t
                \/ Advance(t, e).next.state = "APPLIED"
                \/ /\ Advance(t, e).next.state = "AWAITING_HUMAN"
                   /\ Advance(t, e).next.flag = t.flag
                \/ t.flag = "NONE" /\ Advance(t, e).next.state = "LAPSED"
  <1>1. \/ FromOpen(t, e).next = t
        \/ FromOpen(t, e).next.state = "ARCHIVED"
        \/ /\ FromOpen(t, e).next.state = "REVISING"
           /\ FromOpen(t, e).next.prior = t.decision
        \/ /\ e.type = "OverrideDetected"
           /\ FromOpen(t, e).next.state = "OPEN"
           /\ FromOpen(t, e).next.decision = e.decision
    BY StayTraced, StateTags DEF FromOpen, Advanced, Rejected, Ignored
  <1>2. \/ FromLapsed(t, e).next = t
        \/ FromLapsed(t, e).next.state = "ARCHIVED"
        \/ /\ FromLapsed(t, e).next.state = "REVISING"
           /\ FromLapsed(t, e).next.prior = NoDecision
    BY StayTraced, StateTags DEF FromLapsed
  <1>3. \/ FromAwaitingHuman(t, e).next = t
        \/ FromAwaitingHuman(t, e).next.state = "APPLIED"
        \/ /\ FromAwaitingHuman(t, e).next.state = "AWAITING_HUMAN"
           /\ FromAwaitingHuman(t, e).next.flag = t.flag
        \/ t.flag = "NONE" /\ FromAwaitingHuman(t, e).next.state = "LAPSED"
    BY StayTraced, StateTags DEF FromAwaitingHuman
  <1> QED BY <1>1, <1>2, <1>3 DEF Advance

LEMMA RevisingAnswers ==
    ASSUME NEW t \in Transaction, NEW e \in Event, t.state = "REVISING"
    PROVE  \/ Advance(t, e).next = t
           \/ /\ e.type = "Reapplied" /\ Advance(t, e).next.state = "OPEN"
              /\ Advance(t, e).next.decision = e.decision
           \/ /\ e.type = "NoChange" /\ Advance(t, e).next.state = "OPEN"
              /\ t.prior # NoDecision
              /\ Advance(t, e).next.decision = t.prior
           \/ /\ e.type \in {"NoChange", "NeedsHuman"}
              /\ Advance(t, e).next.state = "AWAITING_HUMAN"
              /\ Advance(t, e).next.flag = "NONE"
           \/ /\ e.type = "CouldNotConfirm"
              /\ Advance(t, e).next.state = "AWAITING_HUMAN"
              /\ Advance(t, e).next.flag = "POSSIBLY_INCONSISTENT"
           \/ /\ e.type = "Diverged"
              /\ Advance(t, e).next.state = "AWAITING_HUMAN"
              /\ Advance(t, e).next.flag = "DIVERGED"
           \/ /\ e.type = "InboundReceived"
              /\ Advance(t, e).next.state = "REVISING"
              /\ Advance(t, e).next.prior = t.prior
  <1>1. /\ [t EXCEPT !.instruction = e.sig].state = t.state
        /\ [t EXCEPT !.instruction = e.sig].prior = t.prior
    BY DEF Transaction, DiscoveredState, HoldAmazonState, EnrichingState,
           AutoAppliedState, AppliedState, OpenState, LapsedState,
           AwaitingState, ArchivedState, RevisingState
  <1>2. Advance(t, e) = FromRevising(t, e)
    BY DEF Advance
  <1> QED BY <1>1, <1>2, StayTraced, StateTags
          DEF FromRevising, Reapply, ResolveNoChange, EnterFlaggedAwaiting,
              Advanced, Rejected

LEMMA AdvanceTraced ==
    ASSUME NEW t \in Transaction, NEW e \in Event
    PROVE  Traced(t, e, Advance(t, e).next)
  <1> DEFINE n == Advance(t, e).next
  <1>1. CASE t.state \in {"DISCOVERED", "HOLD_AMAZON", "ENRICHING"}
    <2>1. \/ n = t
          \/ /\ n.state \notin {"OPEN", "REVISING"}
             /\ n.state = "AWAITING_HUMAN" => n.flag = "NONE"
      BY <1>1, TriageAnswers
    <2> HIDE DEF n
    <2>2. Traced(t, e, n)
      BY <1>1, <2>1, StayTraced, OrdinaryTraced
      DEF Divergent, Flagged, Writing
    <2> QED BY <2>2 DEF n
  <1>2. CASE t.state \in Writing
    BY <1>2, WritingAnswers, StayTraced
    DEF Traced, OpenFrom, RevisingFrom, Divergent, Flagged, Writing,
        ShowsDivergence, Unmatched
  <1>3. CASE t.state \in {"OPEN", "LAPSED", "AWAITING_HUMAN"}
    BY <1>3, RestAnswers, StayTraced
    DEF Traced, OpenFrom, RevisingFrom, Divergent, Flagged, Writing
  <1>4. CASE t.state = "REVISING"
    BY <1>4, RevisingAnswers, StayTraced
    DEF Traced, OpenFrom, RevisingFrom, Divergent, Flagged, Writing,
        ShowsDivergence, Unmatched
  <1>5. CASE t.state = "ARCHIVED"
    BY <1>5, StayTraced DEF Advance
  <1> QED BY <1>1, <1>2, <1>3, <1>4, <1>5, TransactionFields DEF Writing

(* A transition that writes, writes its decision.                          *)
LEMMA AdvanceWrites ==
    ASSUME NEW t \in Transaction, NEW e \in Event,
           NEW i \in DOMAIN Advance(t, e).effects,
           Advance(t, e).effects[i].k = "Commit"
    PROVE  Advance(t, e).effects[i].d = Advance(t, e).next.decision
  <1> DEFINE a == Advance(t, e)
  <1>1. i = 1 /\ a.next.state \in Writing
    BY AdvanceSound DEF Sound, WritesFirst
  <1>2. CASE t.state \in Writing
    <2>1. a.next.state \in Writing => a.effects = <<>>
      <3>1. e.type = "WriteVerified" => e.outcome \in Outcomes
        BY EventFields
      <3>2. ASSUME NEW o \in Outcomes, NEW p, NEW l
            PROVE  ResolveWriteVerify(t, o, p, l).next.state
                     \in {"OPEN", "AWAITING_HUMAN"}
        BY StateTags DEF ResolveWriteVerify, EnterFlaggedAwaiting, Outcomes,
                         Advanced
      <3>3. CASE e.type = "WriteVerified"
        BY <1>2, <3>1, <3>2, <3>3
        DEF Writing, Advance, FromAutoApplied, FromApplied
      <3>4. CASE e.type # "WriteVerified"
        BY <1>2, <3>4
        DEF Writing, Advance, FromAutoApplied, FromApplied, Rejected
      <3> QED BY <3>3, <3>4
    <2> QED BY <1>1, <2>1
  <1>3. ASSUME t.state \notin Writing
        PROVE  /\ e.type \in {"AutoApply", "AnswerReceived"}
               /\ a.effects[1] = CommitToYnab(e.decision)
               /\ a.next.decision = e.decision
    <2>1. CASE t.state = "ENRICHING"
      BY <1>1, <2>1, StateTags
      DEF Advance, FromEnriching, Writing, Advanced, Rejected
    <2>2. CASE t.state = "AWAITING_HUMAN"
      BY <1>1, <2>2, StateTags
      DEF Advance, FromAwaitingHuman, Writing, Advanced, Rejected, Ignored
    <2>3. CASE t.state \in {"DISCOVERED", "HOLD_AMAZON"}
      BY <1>1, <2>3, StateTags
      DEF Advance, FromDiscovered, FromHoldAmazon, Writing, Advanced, Rejected,
          Ignored
    <2>4. CASE t.state \in {"OPEN", "LAPSED", "ARCHIVED"}
      BY <1>1, <2>4, StateTags
      DEF Advance, FromOpen, FromLapsed, Writing, Advanced, Rejected,
          Ignored
    <2>5. CASE t.state = "REVISING"
      <3>1. /\ [t EXCEPT !.instruction = e.sig].state = t.state
        BY <2>5 DEF Transaction, DiscoveredState, HoldAmazonState,
               EnrichingState, AutoAppliedState, AppliedState, OpenState,
               LapsedState, AwaitingState, ArchivedState, RevisingState
      <3> QED BY <1>1, <2>5, <3>1, StateTags
              DEF Advance, FromRevising, Reapply, ResolveNoChange,
                  EnterFlaggedAwaiting, Writing, Advanced, Rejected
    <2> QED BY <1>3, <2>1, <2>2, <2>3, <2>4, <2>5, TransactionFields
            DEF Writing
  <1> QED BY <1>1, <1>2, <1>3 DEF CommitToYnab

(* A revision ends in OPEN or with the owner.                              *)
LEMMA RevisionEnds ==
    ASSUME NEW t \in Transaction, NEW e \in Event, t.state = "REVISING",
           e.type \in {"Reapplied", "NoChange", "CouldNotConfirm", "Diverged",
                       "NeedsHuman"}
    PROVE  /\ Advance(t, e).next.state \in {"OPEN", "AWAITING_HUMAN"}
           /\ e.type = "Reapplied" => Advance(t, e).next.state = "OPEN"
  BY StateTags DEF Advance, FromRevising, Reapply, ResolveNoChange,
                   EnterFlaggedAwaiting, Advanced, Rejected

(* -- Reading what was written -------------------------------------------- *)
LEMMA ReadsWhatIsThere ==
    ASSUME IInv, Read # NoTarget
    PROVE  visible /\ Read = TargetOf(ynab)
  BY DEF Read, ToTarget

LEMMA MatchAgrees ==
    ASSUME IInv, NEW d \in Decision,
           ClassifyVerify(Read, TargetOf(d)) = "MATCH"
    PROVE  Agrees(d)
  <1>1. Read # NoTarget
    BY DEF ClassifyVerify
  <1>2. Read = TargetOf(ynab)
    BY <1>1, ReadsWhatIsThere
  <1>3. \E m : [Read EXCEPT !.memo = m] = TargetOf(d)
    BY <1>1 DEF ClassifyVerify
  <1> QED BY <1>2, <1>3 DEF TargetOf, Agrees

LEMMA SameAgrees ==
    ASSUME IInv, NEW d \in Decision, Read = TargetOf(d)
    PROVE  Agrees(d)
  <1>1. Read # NoTarget
    BY CategoriesAssumption DEF NoTarget, TargetOf, Decision, Allocs, NoAlloc,
                                Split
  <1> QED BY <1>1, ReadsWhatIsThere DEF TargetOf, Agrees

LEMMA WrittenMatches ==
    ASSUME IInv, NEW d \in Decision, visible, Agrees(d),
           d.memo = {} \/ ynab.memo = d.memo
    PROVE  ClassifyVerify(Read, TargetOf(d)) = "MATCH"
  <1>1. Read = TargetOf(ynab)
    BY DEF Read, ToTarget, Agrees, Decision
  <1>2. ynab.alloc # NoAlloc
    BY CategoriesAssumption DEF Agrees, Decision, Allocs, NoAlloc, Split
  <1>3. Read # NoTarget
    BY <1>1, <1>2 DEF TargetOf, NoTarget
  <1>4. [Read EXCEPT !.memo = IF d.memo = {} THEN {} ELSE @] = TargetOf(d)
    BY <1>1 DEF TargetOf, Agrees
  <1>5. TargetOf(d).memo = d.memo
    BY DEF TargetOf
  <1> QED BY <1>3, <1>4, <1>5 DEF ClassifyVerify

(* -- The forms of a step, for what YNAB holds ---------------------------- *)
LEMMA CommitsTail ==
    ASSUME IInv, TrustInv, todo # <<>>, todo' = Tail(todo), txn' = txn
    PROVE  CommitsDecision'
  <1>1. todo \in Seq(Effect)
    BY DEF IInv, ControlInv
  <1>2. ASSUME NEW i \in DOMAIN todo'
        PROVE  i + 1 \in DOMAIN todo /\ todo'[i] = todo[i + 1]
    BY <1>1, <1>2
  <1> QED BY <1>2 DEF TrustInv, CommitsDecision

(* A step that leaves the transaction and what the agent knows of YNAB.    *)
LEMMA TrustStays ==
    ASSUME IInv, TrustInv, UNCHANGED <<txn, visible, touched, unverified>>,
           ynab'.alloc = ynab.alloc, ynab'.approved = ynab.approved,
           ynab'.memo = ynab.memo \/ Amazon \/ status' # "running",
           \/ pc' = pc /\ draft' = draft
           \/ pc # "cvVerify" /\ pc' \notin {"readback", "cvVerify"},
           status' = "running" => status = "running",
           status' = "completed" => txn.state = "ARCHIVED",
           CommitsDecision', left'["reask"] = left["reask"]
    PROVE  TrustInv'
  <1>1. \A d : Agrees(d) => Agrees(d)'
    BY DEF Agrees
  <1>2. NoReask' => NoReask
    BY DEF NoReask, Used
  <1>3. status' = "running" => LastWritten'
    <2>1. CASE pc' = pc /\ draft' = draft
      BY <1>1, <2>1 DEF TrustInv, LastWritten, Agrees
    <2>2. CASE pc' \notin {"readback", "cvVerify"}
      BY <2>2 DEF LastWritten
    <2> QED BY <2>1, <2>2
  <1>4. ASSUME status' = "running", NoReask'
        PROVE  Backed'
    <2>1. Backed
      BY <1>2, <1>4 DEF TrustInv
    <2>2. AtOpen' /\ AtRevising'
      BY <1>1, <2>1 DEF Backed, AtOpen, AtRevising, Agrees
    <2>3. (unverified => Doubted)' /\ OwnDivergence'
      BY <2>1
      DEF Backed, Doubted, OwnDivergence, Flagged, Divergent
    <2> QED BY <2>2, <2>3 DEF Backed
  <1>5. Valid(txn)'
    BY DEF TrustInv
  <1> QED BY <1>3, <1>4, <1>5 DEF TrustInv

(* A dispatch, given what it leaves of the agreement with YNAB.            *)
LEMMA DispatchTrust ==
    ASSUME IInv, TrustInv, NEW e \in Event, NEW rest \in {<<>>, todo},
           NEW back, Dispatch(e, rest, back), status = "running",
           rest = <<>> \/ pc = "readback", left'["reask"] = left["reask"],
           /\ NoReask /\ txn' = Advance(txn, e).next /\ pc' = "effects"
             => Backed'
    PROVE  TrustInv'
  <1> DEFINE a == Advance(txn, e)
  <1>1. /\ txn \in Transaction /\ rest \in Seq(Effect)
        /\ a.effects \in Seq(Effect)
        /\ \/ /\ Valid(a.next) /\ txn' = a.next /\ pc' = "effects"
              /\ todo' = a.effects \o rest /\ status' = status
           \/ status' = "wedged" /\ UNCHANGED <<txn, thread, todo, pc>>
    BY DispatchedTxn DEF Sound, Typed
  <1>2. NoReask' => NoReask
    BY DEF NoReask, Used
  <1>3. CASE status' = "wedged" /\ UNCHANGED <<txn, thread, todo, pc>>
    BY <1>3 DEF TrustInv, CommitsDecision, Valid
  <1>4. CASE /\ Valid(a.next) /\ txn' = a.next /\ pc' = "effects"
             /\ todo' = a.effects \o rest /\ status' = status
    <2>1. ASSUME NEW i \in DOMAIN todo', todo'[i].k = "Commit"
          PROVE  todo'[i].d = txn'.decision
      <3> DEFINE effs == a.effects
      <3>1. effs \in Seq(Effect) /\ rest \in Seq(Effect)
            /\ todo' = effs \o rest
        BY <1>1, <1>4
      <3>2. ASSUME NEW j \in DOMAIN effs, effs[j].k = "Commit"
            PROVE  effs[j].d = txn'.decision
        BY <1>1, <1>4, <3>2, AdvanceWrites
      <3>3. \A j \in DOMAIN rest : rest[j].k # "Commit"
        BY DEF IInv, ControlInv, ControlMatchesState
      <3> HIDE DEF effs
      <3>4. CASE i <= Len(effs)
        BY <2>1, <3>1, <3>2, <3>4
      <3>5. CASE i > Len(effs)
        <4>1. todo'[i] = rest[i - Len(effs)] /\ i - Len(effs) \in DOMAIN rest
          BY <2>1, <3>1, <3>5
        <4> QED BY <2>1, <3>3, <4>1
      <3> QED BY <2>1, <3>1, <3>4, <3>5
    <2>2. Valid(txn)'
      BY <1>4
    <2>3. LastWritten' /\ CommitsDecision'
      BY <1>4, <2>1 DEF LastWritten, CommitsDecision
    <2> QED BY <1>2, <1>4, <2>2, <2>3 DEF TrustInv
  <1> QED BY <1>1, <1>3, <1>4

(* A dispatch that learns nothing of YNAB.                                 *)
LEMMA PlainTrust ==
    ASSUME IInv, TrustInv, NEW e \in Event, NEW back,
           Dispatch(e, <<>>, back), status = "running",
           pc \notin {"readback", "cvVerify"}, txn.state \notin Writing,
           e.type \notin {"Reapplied", "WriteVerified", "Diverged",
                          "CouldNotConfirm"},
           e.type = "OverrideDetected" => Agrees(e.decision),
           UNCHANGED <<ynab, visible, touched, unverified>>,
           left'["reask"] = left["reask"]
    PROVE  TrustInv'
  <1>1. ASSUME NoReask, txn' = Advance(txn, e).next, pc' = "effects"
        PROVE  Backed'
    <2>1. Backed
      BY <1>1 DEF TrustInv
    <2>2. Traced(txn, e, txn')
      BY <1>1, AdvanceTraced DEF IInv, ControlInv
    <2>3. \A d : Agrees(d) => Agrees(d)'
      BY DEF Agrees
    <2>4. ASSUME txn'.state = "OPEN", ~touched
          PROVE  Agrees(txn'.decision)
      BY <2>1, <2>2, <2>4
      DEF Traced, OpenFrom, Backed, AtOpen, AtRevising, Writing
    <2>5. ASSUME txn'.state = "REVISING", txn'.prior # NoDecision, ~touched
          PROVE  Agrees(txn'.prior)
      BY <2>1, <2>2, <2>5
      DEF Traced, RevisingFrom, Backed, AtOpen, AtRevising
    <2>6. unverified => Flagged(txn') \/ txn'.state \in Writing
      BY <2>1, <2>2 DEF Traced, Backed, Doubted
    <2>7. Divergent(txn') => Divergent(txn)
      BY <2>2 DEF Traced, ShowsDivergence
    <2>8. AtOpen' /\ AtRevising'
      BY <2>3, <2>4, <2>5 DEF AtOpen, AtRevising, Agrees
    <2>9. (unverified => Doubted)'
      BY <2>6 DEF Doubted, Flagged
    <2>10. OwnDivergence'
      BY <2>1, <2>7 DEF Backed, OwnDivergence, Divergent
    <2> QED BY <2>8, <2>9, <2>10 DEF Backed
  <1> QED BY <1>1, DispatchTrust

(* -- The steps, for what YNAB holds -------------------------------------- *)
LEMMA CoreKept ==
    ASSUME NEW t \in Transaction, t.state # "DISCOVERED", NEW c \in Core,
           c.snap = t.core.snap, NEW u, u = [t EXCEPT !.core = c]
    PROVE  /\ u.state = t.state /\ u.core = c
           /\ t.state \in {"AUTO_APPLIED", "APPLIED", "OPEN"}
                => u.decision = t.decision
           /\ t.state = "AWAITING_HUMAN" => u.flag = t.flag
           /\ t.state = "REVISING" => u.prior = t.prior
           /\ t.state = "ARCHIVED" => u.final = t.final
  <1>1. CASE t \in HoldAmazonState \cup EnrichingState \cup AutoAppliedState
    BY <1>1 DEF HoldAmazonState, EnrichingState, AutoAppliedState
  <1>2. CASE t \in AppliedState \cup OpenState \cup LapsedState
    BY <1>2 DEF AppliedState, OpenState, LapsedState
  <1>3. CASE t \in AwaitingState \cup ArchivedState
    BY <1>3 DEF AwaitingState, ArchivedState
  <1>4. CASE t \in RevisingState
    BY <1>4 DEF RevisingState
  <1> QED BY <1>1, <1>2, <1>3, <1>4 DEF Transaction, DiscoveredState

LEMMA CoreValid ==
    ASSUME NEW t \in Transaction, t.state # "DISCOVERED", NEW c \in Core,
           c.snap = t.core.snap, Valid(t)
    PROVE  Valid([t EXCEPT !.core = c])
  <1> DEFINE u == [t EXCEPT !.core = c]
  <1>1. /\ u.state = t.state /\ u.core = c
        /\ t.state \in {"AUTO_APPLIED", "APPLIED", "OPEN"}
             => u.decision = t.decision
        /\ t.state = "ARCHIVED" => u.final = t.final
    BY CoreKept
  <1> HIDE DEF u
  <1>2. Valid(u)
    BY <1>1 DEF Valid
  <1> QED BY <1>2 DEF u

LEMMA OpenThreadTrust ==
    ASSUME IInv, TrustInv, RunOpenThread
    PROVE  TrustInv'
  <1>1. /\ txn.state # "DISCOVERED" /\ todo \in Seq(Effect) /\ todo # <<>>
        /\ todo' = Tail(todo) /\ pc = "effects" /\ pc' = "effects"
        /\ status = "running" /\ status' = "running" /\ left' = left
    BY OpenedThread
  <1>2. /\ txn \in Transaction
        /\ UNCHANGED <<ynab, visible, touched, unverified>>
        /\ txn' = [txn EXCEPT !.core.thread = TRUE]
    BY DEF RunOpenThread, world, ghost, IInv, ControlInv
  <1> DEFINE c == [txn.core EXCEPT !.thread = TRUE]
  <1>3. c \in Core /\ c.snap = txn.core.snap
    BY <1>1, <1>2, TransactionFields DEF Core
  <1>4. txn' = [txn EXCEPT !.core = c]
    BY <1>2
  <1> HIDE DEF c
  <1>5. /\ txn'.state = txn.state
        /\ txn.state \in {"AUTO_APPLIED", "APPLIED", "OPEN"}
             => txn'.decision = txn.decision
        /\ txn.state = "AWAITING_HUMAN" => txn'.flag = txn.flag
        /\ txn.state = "REVISING" => txn'.prior = txn.prior
    BY <1>1, <1>2, <1>3, <1>4, CoreKept
  <1>6. Valid(txn)'
    BY <1>1, <1>2, <1>3, <1>4, CoreValid DEF TrustInv
  <1>7. \A i \in DOMAIN todo' : todo'[i].k # "Commit"
    <2>1. ASSUME NEW i \in DOMAIN todo'
          PROVE  i + 1 \in DOMAIN todo /\ todo'[i] = todo[i + 1] /\ i + 1 # 1
      BY <1>1, <2>1
    <2> QED BY <2>1 DEF IInv, ControlInv, ControlMatchesState
  <1>8. NoReask' => NoReask
    BY <1>1 DEF NoReask, Used
  <1>9. NoReask' => Backed'
    <2>1. NoReask' => Backed
      BY <1>1, <1>8 DEF TrustInv
    <2>2. Backed => AtOpen' /\ AtRevising'
      BY <1>1, <1>2, <1>5 DEF Backed, AtOpen, AtRevising, Agrees
    <2>3. Backed => (unverified => Doubted)' /\ OwnDivergence'
      BY <1>1, <1>2, <1>5
      DEF Backed, Doubted, OwnDivergence, Flagged, Divergent, Writing
    <2> QED BY <2>1, <2>2, <2>3 DEF Backed
  <1>10. LastWritten' /\ CommitsDecision'
    BY <1>1, <1>7 DEF LastWritten, CommitsDecision
  <1> QED BY <1>1, <1>6, <1>9, <1>10 DEF TrustInv

(* Emails, timers, learning, signals: nothing YNAB holds is concerned.     *)
LEMMA SideTrust ==
    ASSUME IInv, TrustInv,
           \/ Return \/ RunTimer \/ RunReplay \/ RunSend \/ LostSend
           \/ RunFeed \/ RunCloseOrRecord \/ TakeReply \/ OpenWindowPasses
    PROVE  TrustInv'
  <1>1. /\ UNCHANGED <<txn, ynab, visible, touched, unverified, draft>>
        /\ status' = status \/ status' = "completed"
        /\ status = "running"
        /\ \/ pc' = pc
           \/ pc # "cvVerify" /\ pc' \notin {"readback", "cvVerify"}
    <2>1. CASE Return
      <3>1. /\ pc = "effects" /\ txn.state \notin Writing
        BY <2>1 DEF Return, At, IInv, ControlInv, ControlMatchesState,
                    Writing
      <3>2. pc' \notin {"readback", "cvVerify"}
        BY <2>1 DEF Return, PcOf, BlockedPcOf
      <3> QED BY <2>1, <3>1, <3>2 DEF Return, At, world, ghost, hand
    <2>2. CASE RunTimer \/ RunReplay \/ RunSend \/ LostSend \/ RunFeed
                 \/ RunCloseOrRecord \/ TakeReply \/ OpenWindowPasses
      BY <2>2
      DEF RunTimer, RunReplay, RunSend, LostSend, RunFeed, RunCloseOrRecord,
          TakeReply, OpenWindowPasses, HeadIs, At, OpensThread, world, ghost,
          hand, control
    <2> QED BY <2>1, <2>2
  <1>2. left'["reask"] = left["reask"]
    <2>1. LostSend => left'["reask"] = left["reask"]
      BY DEF LostSend, DeliverLost, Spend, IInv, EnvInv, Kinds
    <2> QED BY <2>1
        DEF Return, RunTimer, RunReplay, RunSend, RunFeed, RunCloseOrRecord,
            TakeReply, OpenWindowPasses, env
  <1>3. CommitsDecision'
    <2>1. CASE todo' = todo
      BY <1>1, <2>1 DEF TrustInv, CommitsDecision
    <2>2. CASE todo # <<>> /\ todo' = Tail(todo)
      BY <1>1, <2>2, CommitsTail
    <2>3. todo' = todo \/ (todo # <<>> /\ todo' = Tail(todo))
      BY DEF Return, RunTimer, RunReplay, RunSend, LostSend, RunFeed,
             RunCloseOrRecord, TakeReply, OpenWindowPasses, HeadIs, Pop,
             control
    <2> QED BY <2>1, <2>2, <2>3
  <1>4. status' = "completed" => txn.state = "ARCHIVED"
    <2>1. CASE Return
      <3>1. status' = "completed" => pc' = "done" /\ status = "running"
        BY <2>1 DEF Return, At
      <3>2. pc' = "done" => txn.state = "ARCHIVED"
        BY <2>1 DEF Return, PcOf, BlockedPcOf
      <3> QED BY <3>1, <3>2
    <2>2. ~Return => status' = status
      BY DEF RunTimer, RunReplay, RunSend, LostSend, RunFeed,
             RunCloseOrRecord, TakeReply, OpenWindowPasses, control
    <2> QED BY <1>1, <2>1, <2>2
  <1> QED BY <1>1, <1>2, <1>3, <1>4, TrustStays

LEMMA StateTrust ==
    ASSUME IInv, TrustInv,
           \/ FetchSnapshot \/ TakeSnapshot \/ BufferInbound
           \/ HoldBackfilled \/ HoldInterrupted \/ HoldExpires
           \/ GateOpens \/ GateAsks
           \/ PatienceExpires \/ Clarify \/ Answer
           \/ Reopen \/ ArchiveOrOverride \/ LapsedWindowPasses
    PROVE  TrustInv'
  <1>1. /\ UNCHANGED <<ynab, visible, touched, unverified, left>>
        /\ status = "running"
        /\ pc \notin {"readback", "cvVerify", "effects"}
    BY DEF FetchSnapshot, TakeSnapshot, BufferInbound, HoldBackfilled,
           HoldInterrupted, HoldExpires, GateOpens, GateAsks,
           PatienceExpires, Clarify, Answer, Reopen, ArchiveOrOverride,
           LapsedWindowPasses, At, world, ghost, env
  <1>2. txn.state \notin Writing
    BY <1>1 DEF IInv, ControlInv, ControlMatchesState, StatesAt, Pcs, Writing
  <1> DEFINE Learns(e) ==
        /\ e.type \notin {"Reapplied", "WriteVerified", "Diverged",
                          "CouldNotConfirm"}
        /\ e.type = "OverrideDetected" => Agrees(e.decision)
  <1>3. ASSUME NEW e \in Event, NEW b, Dispatch(e, <<>>, b), Learns(e)
        PROVE  TrustInv'
    BY <1>1, <1>2, <1>3, PlainTrust
  <1>4. CASE FetchSnapshot /\ ~visible
    <2>1. UNCHANGED <<txn, status, todo>> /\ pc' = "waitSnap"
      BY <1>4 DEF FetchSnapshot
    <2> QED BY <1>1, <2>1, TrustStays DEF TrustInv, CommitsDecision
  <1>5. CASE FetchSnapshot /\ visible
    BY <1>3, <1>5, SnapTyped, EventsTyped, EventKinds DEF FetchSnapshot
  <1>6. CASE TakeSnapshot \/ HoldBackfilled \/ HoldExpires \/ GateAsks
    BY <1>3, <1>6, SnapTyped, EventsTyped, EventKinds
    DEF TakeSnapshot, HoldBackfilled, HoldExpires, GateAsks
  <1>7. CASE BufferInbound \/ HoldInterrupted \/ Reopen
    BY <1>3, <1>7, SnapTyped, EventsTyped, EventKinds
    DEF BufferInbound, HoldInterrupted, Reopen
  <1>8. CASE GateOpens
    <2> DEFINE d == [alloc |-> RuleAlloc, memo |-> RuleMemo,
                     approved |-> TRUE, by |-> "RULE"]
               e == [type |-> "AutoApply", decision |-> d]
    <2>1. d \in Decision
      BY WorkflowAssumption DEF Decision, Authors
    <2>2. Dispatch(e, <<>>, "step")
      BY <1>8 DEF GateOpens
    <2> HIDE DEF d
    <2>3. e \in Event /\ Learns(e)
      BY <2>1, EventsTyped
    <2> HIDE DEF e, Learns
    <2> QED BY <1>3, <2>2, <2>3
  <1>9. CASE PatienceExpires \/ Clarify \/ LapsedWindowPasses
    BY <1>3, <1>9, EventsTyped DEF PatienceExpires, Clarify, LapsedWindowPasses
  <1>10. CASE Answer
    <2>1. PICK c \in Categories, m \in ReplyMemos :
            Dispatch([type |-> "AnswerReceived",
                      decision |-> HumanDecision(c, m)], <<>>, "step")
      BY <1>10 DEF Answer
    <2>2. HumanDecision(c, m) \in Decision
      BY WorkflowAssumption, HumanTyped
    <2> QED BY <1>3, <2>1, <2>2, EventsTyped
  <1>11. CASE ArchiveOrOverride
    <2> DEFINE d == [alloc |-> Read.alloc, memo |-> Read.memo,
                     approved |-> Read.approved, by |-> "HUMAN"]
               o == [type |-> "OverrideDetected", decision |-> d]
    <2>1. CASE Dispatch([type |-> "ArchiveWindowReached"], <<>>, "blocked")
      BY <1>3, <2>1, EventsTyped
    <2>2. CASE Read # NoTarget /\ Dispatch(o, <<>>, "blocked")
      <3>1. d \in Decision
        BY <2>2, ReadTyped DEF Decision, Authors
      <3>2. Agrees(d)
        BY <2>2, ReadsWhatIsThere DEF Agrees, TargetOf
      <3> HIDE DEF d
      <3>3. o \in Event /\ o.type = "OverrideDetected" /\ o.decision = d
        BY <3>1, EventsTyped
      <3> HIDE DEF o
      <3> QED BY <1>3, <2>2, <3>2, <3>3
    <2>3. \/ Dispatch([type |-> "ArchiveWindowReached"], <<>>, "blocked")
          \/ Read # NoTarget /\ Dispatch(o, <<>>, "blocked")
      BY <1>11 DEF ArchiveOrOverride
    <2> QED BY <2>1, <2>2, <2>3
  <1> QED BY <1>4, <1>5, <1>6, <1>7, <1>8, <1>9, <1>10, <1>11

(* A write: from here to its verdict nobody but the agent may rest on it.  *)
LEMMA WriteTrust ==
    ASSUME IInv, TrustInv, RunCommit \/ LostCommit \/ ConvergeWrite
    PROVE  TrustInv'
  <1> DEFINE d == IF ConvergeWrite THEN draft ELSE txn.decision
  <1>1. ASSUME RunCommit \/ LostCommit
        PROVE  /\ status = "running" /\ pc = "effects" /\ todo # <<>>
               /\ txn.state \in Writing /\ Head(todo).d = txn.decision
               /\ txn.decision \in Decision
    <2>1. HeadIs("Commit")
      BY <1>1 DEF RunCommit, LostCommit
    <2>2. 1 \in DOMAIN todo /\ Head(todo) = todo[1]
      BY <2>1 DEF HeadIs, IInv, ControlInv
    <2>3. txn.state \in Writing /\ todo[1].d = txn.decision
      BY <2>1, <2>2
      DEF HeadIs, TrustInv, CommitsDecision, IInv, ControlInv,
          ControlMatchesState, Writing
    <2> QED BY <2>1, <2>2, <2>3, TransactionFields
            DEF HeadIs, At, IInv, ControlInv, Writing
  <1>2. ConvergeWrite => /\ status = "running" /\ pc = "cvWrite"
                         /\ txn.state = "REVISING" /\ draft \in Decision
    BY Suspended DEF ConvergeWrite, At, IInv, HandInv, Drafting
  <1>3. /\ visible /\ visible' /\ touched' = touched /\ unverified' = TRUE
        /\ ynab' = Patched(ynab, d) /\ d \in Decision
    <2>1. CASE RunCommit \/ LostCommit
      <3>1. Write(txn.decision) /\ ~ConvergeWrite
        BY <1>1, <1>2, <2>1 DEF RunCommit, LostCommit
      <3> QED BY <1>1, <2>1, <3>1 DEF Write
    <2>2. CASE ConvergeWrite
      BY <1>2, <2>2 DEF ConvergeWrite, Write
    <2> QED BY <2>1, <2>2
  <1>4. /\ ynab'.alloc = d.alloc /\ ynab'.approved = d.approved
        /\ d.memo = {} \/ ynab'.memo = d.memo
    <2> HIDE DEF d
    <2> QED BY <1>3 DEF Patched, IInv, WorldInv, Snapshot
  <1>5. left' = left \/ left'["reask"] = left["reask"]
    BY DEF RunCommit, LostCommit, ConvergeWrite, Spend, env, IInv, EnvInv,
           Kinds
  <1>6. UNCHANGED <<txn, status>>
    BY DEF RunCommit, LostCommit, ConvergeWrite, control
  <1>7. CASE RunCommit
    <2>1. pc' = "readback" /\ draft' = txn.decision /\ todo' = Tail(todo)
      BY <1>1, <1>7 DEF RunCommit, Pop
    <2>2. d = txn.decision
      BY <1>1, <1>2, <1>7
    <2> HIDE DEF d
    <2>3. CommitsDecision'
      BY <1>1, <1>6, <1>7, <2>1, CommitsTail
    <2>4. LastWritten'
      BY <1>3, <1>4, <1>6, <2>1, <2>2 DEF LastWritten, Agrees
    <2>5. Backed'
      BY <1>1, <1>6, <1>7
      DEF Backed, AtOpen, AtRevising, Doubted, OwnDivergence, Divergent,
          Writing
    <2> QED BY <1>1, <1>5, <1>6, <1>7, <2>3, <2>4, <2>5 DEF TrustInv, Valid
  <1>8. CASE LostCommit
    <2>1. UNCHANGED <<pc, todo, draft>>
      BY <1>8 DEF LostCommit, control, hand
    <2>2. CommitsDecision'
      BY <1>6, <2>1 DEF TrustInv, CommitsDecision
    <2>3. LastWritten'
      BY <1>1, <1>8, <2>1 DEF LastWritten
    <2>4. Backed'
      BY <1>1, <1>6, <1>8
      DEF Backed, AtOpen, AtRevising, Doubted, OwnDivergence, Divergent,
          Writing
    <2> QED BY <1>1, <1>5, <1>6, <1>8, <2>2, <2>3, <2>4 DEF TrustInv, Valid
  <1>9. CASE ConvergeWrite
    <2>1. pc' = "cvVerify" /\ UNCHANGED <<draft, todo>>
      BY <1>9 DEF ConvergeWrite, hand
    <2>2. d = draft
      BY <1>9
    <2> HIDE DEF d
    <2>3. CommitsDecision'
      BY <1>6, <2>1 DEF TrustInv, CommitsDecision
    <2>4. LastWritten'
      BY <1>3, <1>4, <1>6, <2>1, <2>2 DEF LastWritten, Agrees
    <2>5. Backed'
      BY <1>2, <1>6, <1>9, <2>1
      DEF Backed, AtOpen, AtRevising, Doubted, OwnDivergence, Divergent,
          Writing
    <2> QED BY <1>2, <1>5, <1>6, <1>9, <2>3, <2>4, <2>5 DEF TrustInv, Valid
  <1> QED BY <1>7, <1>8, <1>9

(* The verdict on a write.                                                 *)
Verdict == ClassifyVerify(Read, TargetOf(draft))

(* The event that carries it.                                              *)
Carries(e) ==
    \/ /\ pc = "readback"
       /\ e.type = "WriteVerified" /\ e.outcome = Verdict
    \/ /\ pc = "cvVerify"
       /\ \/ Verdict = "MATCH" /\ e.type = "Reapplied" /\ e.decision = draft
          \/ Verdict = "DIVERGED" /\ e.type = "Diverged"
          \/ Verdict = "COULD_NOT_CONFIRM" /\ e.type = "CouldNotConfirm"

LEMMA VerdictBacks ==
    ASSUME IInv, TrustInv, NoReask, NEW e \in Event,
           status = "running", pc \in {"readback", "cvVerify"},
           txn' = Advance(txn, e).next, pc' = "effects",
           UNCHANGED <<ynab, visible>>,
           unverified' = (unverified /\ Verdict # "MATCH"),
           touched' = (touched /\ Verdict # "MATCH"),
           Carries(e)
    PROVE  Backed'
  <1>1. /\ draft \in Decision
        /\ pc = "readback" => txn.state \in Writing
        /\ pc = "cvVerify" => txn.state = "REVISING"
    BY Suspended DEF IInv, HandInv, Drafting, Writing
  <1>2. Traced(txn, e, txn')
    BY AdvanceTraced DEF IInv, ControlInv
  <1>3. /\ Verdict = "MATCH" => Agrees(draft)
        /\ Verdict = "DIVERGED" /\ ~Amazon => touched
    <2>1. Verdict = "MATCH" => Agrees(draft)
      BY <1>1, MatchAgrees DEF Verdict
    <2>2. ~touched /\ ~Amazon => Verdict = "MATCH"
      BY <1>1, WrittenMatches DEF Verdict, TrustInv, LastWritten
    <2> QED BY <2>1, <2>2
  <1>4. txn'.state # "REVISING" /\ (pc = "readback" => txn'.state # txn.state
                                      \/ txn'.state \in Writing)
    BY <1>1, <1>2, RevisionEnds
    DEF Traced, RevisingFrom, IInv, ControlInv, Writing, Carries
  <1>5. pc = "readback" => draft = txn.decision
    BY DEF TrustInv, LastWritten
  <1>6. AtOpen'
    <2>1. txn'.state = "OPEN" => Agrees(txn'.decision)
      BY <1>1, <1>2, <1>3, <1>5
      DEF Traced, OpenFrom, Writing, Carries
    <2> QED BY <2>1 DEF AtOpen, Agrees
  <1>7. AtRevising'
    BY <1>4 DEF AtRevising
  <1>8. (unverified => Doubted)'
    <2>0. unverified' => Verdict # "MATCH"
      OBVIOUS
    <2>1. Verdict # "MATCH" => Unmatched(e)
      BY DEF Unmatched, Carries
    <2>2. Unmatched(e) => Flagged(txn') \/ txn' = txn
      BY <1>1, <1>2 DEF Traced, Writing
    <2> QED BY <1>1, <1>4, <2>0, <2>1, <2>2 DEF Doubted, Flagged
  <1>9. OwnDivergence'
    <2>1. Divergent(txn') => ShowsDivergence(e)
      BY <1>1, <1>2 DEF Traced, Divergent, Writing
    <2>2. ShowsDivergence(e) => Verdict = "DIVERGED"
      BY DEF ShowsDivergence, Carries
    <2> QED BY <1>3, <2>1, <2>2 DEF OwnDivergence, Divergent
  <1> QED BY <1>6, <1>7, <1>8, <1>9 DEF Backed

LEMMA VerdictForm ==
    ASSUME IInv, ReadBack \/ ConvergeVerify
    PROVE  \E e \in Event, rest \in {<<>>, todo} :
             /\ Dispatch(e, rest, "step") /\ Carries(e)
             /\ rest = <<>> \/ pc = "readback"
  <1>1. /\ ReadBack => status = "running" /\ pc = "readback"
        /\ ConvergeVerify => status = "running" /\ pc = "cvVerify"
    BY DEF ReadBack, ConvergeVerify, At
  <1>2. draft \in Decision
    BY <1>1 DEF IInv, HandInv, Drafting
  <1>3. Verdict \in Outcomes
    BY DEF Verdict, ClassifyVerify, Outcomes
  <1>4. CASE ReadBack
    <2> DEFINE e == [type |-> "WriteVerified", outcome |-> Verdict]
    <2>1. e \in Event
      BY <1>3, EventsTyped
    <2>2. Dispatch(e, todo, "step")
      BY <1>4 DEF ReadBack, Verdict
    <2>3. Carries(e)
      BY <1>1, <1>4 DEF Carries
    <2> HIDE DEF e
    <2> QED BY <1>1, <1>4, <2>1, <2>2, <2>3
  <1>5. CASE ConvergeVerify
    <2>1. CASE Verdict = "MATCH"
      <3> DEFINE e == [type |-> "Reapplied", decision |-> draft]
      <3>1. e \in Event /\ Carries(e)
        BY <1>1, <1>2, <1>5, <2>1, EventsTyped DEF Carries
      <3>2. Dispatch(e, <<>>, "step")
        BY <1>5, <2>1 DEF ConvergeVerify, Verdict, Reapplied
      <3> HIDE DEF e
      <3> QED BY <3>1, <3>2
    <2>2. CASE Verdict = "COULD_NOT_CONFIRM"
      <3>1. [type |-> "CouldNotConfirm"] \in Event
            /\ Carries([type |-> "CouldNotConfirm"])
        BY <1>1, <1>5, <2>2, EventsTyped DEF Carries
      <3>2. Dispatch([type |-> "CouldNotConfirm"], <<>>, "step")
        BY <1>5, <2>2 DEF ConvergeVerify, Verdict, Converged
      <3> QED BY <3>1, <3>2
    <2>3. CASE Verdict = "DIVERGED"
      <3>1. [type |-> "Diverged"] \in Event /\ Carries([type |-> "Diverged"])
        BY <1>1, <1>5, <2>3, EventsTyped DEF Carries
      <3>2. Dispatch([type |-> "Diverged"], <<>>, "step")
        BY <1>5, <2>3 DEF ConvergeVerify, Verdict, Converged
      <3> QED BY <3>1, <3>2
    <2> QED BY <1>3, <2>1, <2>2, <2>3 DEF Outcomes
  <1> QED BY <1>4, <1>5

LEMMA VerdictSettles ==
    ASSUME IInv, ReadBack \/ ConvergeVerify
    PROVE  /\ status = "running" /\ pc \in {"readback", "cvVerify"}
           /\ UNCHANGED <<ynab, visible, left>>
           /\ unverified' = (unverified /\ Verdict # "MATCH")
           /\ touched' = (touched /\ Verdict # "MATCH")
  BY DEF ReadBack, ConvergeVerify, At, Settle, world, env, Verdict

LEMMA VerifyTrust ==
    ASSUME IInv, TrustInv, ReadBack \/ ConvergeVerify
    PROVE  TrustInv'
  <1>1. PICK e \in Event, rest \in {<<>>, todo} :
          /\ Dispatch(e, rest, "step") /\ Carries(e)
          /\ rest = <<>> \/ pc = "readback"
    BY VerdictForm
  <1>2. NoReask /\ txn' = Advance(txn, e).next /\ pc' = "effects" => Backed'
    BY <1>1, VerdictSettles, VerdictBacks
  <1> QED BY <1>1, <1>2, VerdictSettles, DispatchTrust

(* What a revision that writes nothing has read.                           *)
LEMMA RevisedBacks ==
    ASSUME IInv, TrustInv, NoReask, NEW e \in Event,
           status = "running", pc = "converge",
           txn' = Advance(txn, e).next, pc' = "effects",
           UNCHANGED ynab, unverified' => unverified,
           \/ e.type = "NoChange"
              /\ (txn.prior # NoDecision => Agrees(txn.prior))
           \/ e.type = "Reapplied" /\ Agrees(e.decision)
           \/ e.type = "Diverged" /\ touched /\ touched'
    PROVE  Backed'
  <1>1. txn.state = "REVISING" /\ txn \in Transaction
    BY Suspended DEF IInv, ControlInv
  <1>2. Traced(txn, e, txn')
    BY <1>1, AdvanceTraced
  <1>3. txn'.state \in {"OPEN", "AWAITING_HUMAN"}
    BY <1>1, RevisionEnds
  <1>4. ~unverified
    BY <1>1 DEF TrustInv, Backed, Doubted, Writing, Flagged
  <1>5. AtOpen'
    <2>1. txn'.state = "OPEN" => Agrees(txn'.decision)
      BY <1>1, <1>2 DEF Traced, OpenFrom, Writing
    <2> QED BY <2>1 DEF AtOpen, Agrees
  <1>6. AtRevising' /\ (unverified => Doubted)'
    BY <1>3, <1>4 DEF AtRevising
  <1>7. OwnDivergence'
    <2>1. Divergent(txn') => e.type = "Diverged"
      BY <1>1, <1>2 DEF Traced, Divergent, ShowsDivergence
    <2> QED BY <2>1 DEF OwnDivergence, Divergent
  <1> QED BY <1>5, <1>6, <1>7 DEF Backed

(* The read of a revision begins a write of its own.                       *)
LEMMA BeginsTrust ==
    ASSUME IInv, TrustInv, status = "running", pc = "converge",
           NEW d, NEW m, BeginWrite(d, m), UNCHANGED <<world, ghost, env>>
    PROVE  TrustInv'
  <1>1. /\ UNCHANGED <<status, txn, thread, todo>> /\ pc' = "cvWrite"
        /\ UNCHANGED <<ynab, visible, touched, unverified, left>>
    BY DEF BeginWrite, world, ghost, env
  <1>2. CommitsDecision'
    BY <1>1 DEF TrustInv, CommitsDecision
  <1> QED BY <1>1, <1>2, TrustStays

LEMMA RevisionTrust ==
    ASSUME IInv, TrustInv,
           ConvergeBlocked \/ ConvergeReceipt \/ ConvergeNothing
    PROVE  TrustInv'
  <1>1. /\ status = "running" /\ pc = "converge" /\ txn.state = "REVISING"
        /\ UNCHANGED <<world, ghost, env>>
    BY Suspended
    DEF ConvergeBlocked, ConvergeReceipt, ConvergeNothing, AtConverge, At,
        IInv
  <1>2. ASSUME NEW o \in {"NoChange", "NeedsHuman"}, Converged(o)
        PROVE  TrustInv'
    <2>1. [type |-> o] \in Event
      BY EventsTyped
    <2> QED BY <1>1, <1>2, <2>1, PlainTrust
            DEF Converged, world, ghost, env, Writing
  <1>3. ASSUME NEW d, NEW m, BeginWrite(d, m)
        PROVE  TrustInv'
    BY <1>1, <1>3, BeginsTrust
  <1> QED BY <1>2, <1>3 DEF ConvergeBlocked, ConvergeReceipt, ConvergeNothing

LEMMA ReplyTrust ==
    ASSUME IInv, TrustInv, ConvergeReply
    PROVE  TrustInv'
  <1>1. /\ status = "running" /\ pc = "converge" /\ txn.state = "REVISING"
        /\ UNCHANGED <<world, env>>
    BY Suspended DEF ConvergeReply, AtConverge, At, IInv
  <1>2. txn.prior \in Decision \cup {NoDecision}
    BY <1>1, TransactionFields DEF IInv, ControlInv
  <1>3. PICK plan \in RevisionPlans : RevisesBy(plan)
    BY ConvergeReplyForms
  <1> DEFINE d == RevisionOf(plan)
  <1>4. ASSUME NEW e \in Event, Dispatch(e, <<>>, "step"),
               unverified' => unverified,
               NoReask =>
                 \/ e.type = "NoChange"
                    /\ (txn.prior # NoDecision => Agrees(txn.prior))
                 \/ e.type = "Reapplied" /\ Agrees(e.decision)
                 \/ e.type = "Diverged" /\ touched /\ touched'
        PROVE  TrustInv'
    <2>1. UNCHANGED <<ynab, left>>
      BY <1>1 DEF world, env
    <2>2. NoReask /\ txn' = Advance(txn, e).next /\ pc' = "effects"
            => Backed'
      BY <1>1, <1>4, <2>1, RevisedBacks
    <2> QED BY <1>1, <1>4, <2>1, <2>2, DispatchTrust
  <1>5. CASE Converged("NeedsHuman") /\ UNCHANGED ghost
    <2>1. [type |-> "NeedsHuman"] \in Event
      BY EventsTyped
    <2> QED BY <1>1, <1>5, <2>1, PlainTrust
            DEF Converged, world, ghost, env, Writing
  <1>6. CASE BeginWrite(d, plan.kind = "MEMO_ONLY") /\ UNCHANGED ghost
    BY <1>1, <1>6, BeginsTrust
  <1>7. CASE /\ ActionOf(plan) = "NO_CHANGE"
             /\ Converged("NoChange") /\ Settle("MATCH", "HUMAN")
    <2>1. Read = PriorTarget /\ PriorTarget # NoTarget
      BY <1>7 DEF ActionOf, PrecommitAction
    <2>2. txn.prior # NoDecision => Agrees(txn.prior)
      BY <1>2, <2>1, SameAgrees DEF PriorTarget
    <2>3. [type |-> "NoChange"] \in Event
      BY EventsTyped
    <2>4. Dispatch([type |-> "NoChange"], <<>>, "step") /\ unverified' = FALSE
      BY <1>7 DEF Converged, Settle
    <2> QED BY <1>4, <2>2, <2>3, <2>4
  <1>8. CASE /\ ActionOf(plan) = "ALREADY_TARGET" /\ d \in Decision
             /\ Reapplied(d) /\ Settle("MATCH", "HUMAN")
    <2> DEFINE e == [type |-> "Reapplied", decision |-> d]
    <2>1. Agrees(d)
      BY <1>8, SameAgrees DEF ActionOf, PrecommitAction, NeedsWrite
    <2>2. e \in Event /\ e.type = "Reapplied" /\ e.decision = d
      BY <1>8, EventsTyped
    <2>3. Dispatch(e, <<>>, "step") /\ unverified' = FALSE
      BY <1>8 DEF Reapplied, Settle
    <2> HIDE DEF e, d
    <2> QED BY <1>4, <2>1, <2>2, <2>3
  <1>9. CASE /\ ActionOf(plan) = "DIVERGED"
             /\ Converged("Diverged") /\ Settle("DIVERGED", "HUMAN")
    <2>1. /\ Read # NoTarget /\ PriorTarget # NoTarget
          /\ Read.alloc # PriorTarget.alloc
      BY <1>9 DEF ActionOf, PrecommitAction
    <2>2. txn.prior # NoDecision /\ Read.alloc # txn.prior.alloc
      BY <2>1 DEF PriorTarget, TargetOf
    <2>3. Read.alloc = ynab.alloc
      BY <2>1, ReadsWhatIsThere DEF TargetOf
    <2>4. NoReask => touched
      BY <1>1, <2>2, <2>3 DEF TrustInv, Backed, AtRevising, Agrees
    <2>5. [type |-> "Diverged"] \in Event
      BY EventsTyped
    <2>6. /\ Dispatch([type |-> "Diverged"], <<>>, "step")
          /\ unverified' => unverified
          /\ touched => touched'
      BY <1>9 DEF Converged, Settle
    <2> QED BY <1>4, <2>4, <2>5, <2>6
  <1> QED BY <1>3, <1>5, <1>6, <1>7, <1>8, <1>9 DEF RevisesBy

(* An attempt lost half way: the one step after which a doubted write may  *)
(* be anywhere (a later attempt finds its own write).                      *)
LEMMA LostAttemptTrust ==
    ASSUME IInv, TrustInv, LostConverge
    PROVE  TrustInv'
  <1>1. /\ left["reask"] \in Nat /\ left'["reask"] = left["reask"] - 1
        /\ Bounds["reask"] \in Nat
    BY WorkflowAssumption DEF LostConverge, Spend, IInv, EnvInv, Kinds
  <1>2. left["reask"] <= Bounds["reask"]
    BY DEF TrustInv
  <1>3. ~NoReask' /\ left'["reask"] <= Bounds["reask"]
    BY <1>1, <1>2 DEF NoReask, Used
  <1>4. /\ UNCHANGED <<txn, todo, status>> /\ pc' = "converge"
        /\ status = "running"
    BY DEF LostConverge, At
  <1> QED BY <1>3, <1>4 DEF TrustInv, CommitsDecision, LastWritten, Valid

(* -- The end and the beginning of a run ---------------------------------- *)
LEMMA FailTrust ==
    ASSUME IInv, TrustInv, ActivityFails \/ GoneFails
    PROVE  TrustInv'
  <1>1. Fail /\ left'["reask"] = left["reask"]
    BY DEF ActivityFails, GoneFails, Spend, IInv, EnvInv, Kinds
  <1>2. /\ UNCHANGED <<txn, ynab, visible, touched, unverified, draft, pc,
                       todo>>
        /\ status' = "failed"
    BY <1>1 DEF Fail, world, ghost, hand
  <1>3. CommitsDecision'
    BY <1>2 DEF TrustInv, CommitsDecision
  <1> QED BY <1>1, <1>2, <1>3, TrustStays

LEMMA BirthTrust ==
    ASSUME IInv, TrustInv, NEW queue, Born(queue),
           left'["reask"] = left["reask"]
    PROVE  TrustInv'
  <1>1. /\ txn' = Discovered(FALSE, <<>>) /\ todo' = <<>> /\ pc' = "fetch"
        /\ status' = "running" /\ unverified' = FALSE
    BY DEF Born
  <1>2. txn'.state = "DISCOVERED"
    BY <1>1 DEF Discovered
  <1>3. Backed'
    BY <1>1, <1>2
    DEF Backed, AtOpen, AtRevising, OwnDivergence, Divergent
  <1>4. CommitsDecision'
    BY <1>1 DEF CommitsDecision
  <1>5. LastWritten' /\ Valid(txn)'
    BY <1>1, <1>2 DEF LastWritten, Valid
  <1>6. left'["reask"] <= Bounds["reask"]
    BY DEF TrustInv
  <1> QED BY <1>1, <1>2, <1>3, <1>4, <1>5, <1>6 DEF TrustInv

(* -- The environment ----------------------------------------------------- *)
LEMMA WorldTrust ==
    ASSUME IInv, TrustInv,
           \/ PollFetch \/ ReceiptMatched \/ OwnerReconciles \/ MemoBackfills
           \/ UNCHANGED vars
    PROVE  TrustInv'
  <1>1. /\ UNCHANGED <<txn, visible, touched, unverified, draft, pc, todo,
                       status>>
        /\ left'["reask"] = left["reask"]
    BY DEF PollFetch, ReceiptMatched, OwnerReconciles, MemoBackfills, Spend,
           vars, world, ghost, hand, control, env, IInv, EnvInv, Kinds
  <1>2. /\ ynab'.alloc = ynab.alloc /\ ynab'.approved = ynab.approved
        /\ ynab'.memo = ynab.memo \/ Amazon \/ status' # "running"
    BY <1>1
    DEF PollFetch, ReceiptMatched, OwnerReconciles, MemoBackfills, vars,
        world, ended, IInv, WorldInv, Snapshot
  <1>3. CommitsDecision'
    BY <1>1 DEF TrustInv, CommitsDecision
  <1> QED BY <1>1, <1>2, <1>3, TrustStays DEF TrustInv

LEMMA OwnerTrust ==
    ASSUME IInv, TrustInv, OwnerEdits \/ OwnerDeletes
    PROVE  TrustInv'
  <1>1. /\ UNCHANGED <<txn, unverified, draft, pc, todo, status>>
        /\ left'["reask"] = left["reask"] /\ touched' = TRUE
    BY DEF OwnerEdits, OwnerDeletes, Spend, control, hand, IInv, EnvInv, Kinds
  <1>2. CommitsDecision' /\ (status' = "running" => LastWritten')
    BY <1>1 DEF TrustInv, CommitsDecision, LastWritten
  <1>3. Backed => Backed'
    BY <1>1
    DEF Backed, AtOpen, AtRevising, Doubted, OwnDivergence, Divergent, Flagged
  <1>4. NoReask' => NoReask
    BY <1>1 DEF NoReask, Used
  <1> QED BY <1>1, <1>2, <1>3, <1>4 DEF TrustInv, Valid

LEMMA ContactTrust ==
    ASSUME IInv, TrustInv, PollAddress \/ OwnerReplies
    PROVE  TrustInv'
  <1>1. left'["reask"] = left["reask"]
    BY DEF PollAddress, OwnerReplies, Spend, IInv, EnvInv, Kinds
  <1>2. ASSUME NEW queue, Born(queue)
        PROVE  TrustInv'
    BY <1>1, <1>2, BirthTrust
  <1>3. CASE UNCHANGED <<control, hand, unverified>>
    <2>1. UNCHANGED <<txn, ynab, visible, touched, unverified, draft, pc,
                      todo, status>>
      BY <1>3 DEF PollAddress, OwnerReplies, control, hand, world
    <2>2. CommitsDecision'
      BY <2>1 DEF TrustInv, CommitsDecision
    <2> QED BY <1>1, <2>1, <2>2, TrustStays DEF TrustInv
  <1> QED BY <1>2, <1>3 DEF PollAddress, OwnerReplies

LEMMA StepTrust == IInv /\ TrustInv /\ [Next]_vars => TrustInv'
  <1> SUFFICES ASSUME IInv, TrustInv, [Next]_vars PROVE TrustInv'
    OBVIOUS
  <1>1. CASE Workflow
    BY <1>1, SideTrust, StateTrust, OpenThreadTrust, WriteTrust, VerifyTrust,
       RevisionTrust, ReplyTrust, FailTrust
    DEF Workflow, EndDispatch
  <1>2. CASE Interference
    BY <1>2, SideTrust, WriteTrust, LostAttemptTrust, FailTrust
    DEF Interference, ContinueAsNew
  <1>3. CASE Environment \/ UNCHANGED vars
    BY <1>3, WorldTrust, OwnerTrust, ContactTrust DEF Environment
  <1> QED BY <1>1, <1>2, <1>3 DEF Next

LEMMA TrustKept == Spec => []TrustInv
  <1>1. IInv /\ TrustInv /\ [Next]_vars => TrustInv'
    BY StepTrust
  <1> QED BY <1>1, InitTrust, Invariant, PTL DEF Spec

(* A charge at rest in OPEN is on a verified write, and a doubted write    *)
(* waits for the owner.                                                    *)
THEOREM RestsOnVerdicts == Spec => [](Used("reask") = 0 => RestIsVerified)
  <1>1. IInv /\ TrustInv => (Used("reask") = 0 => RestIsVerified)
    BY TrustRests DEF NoReask
  <1> QED BY <1>1, Invariant, TrustKept, PTL

(* The agent never takes its own write for somebody else's edit.           *)
THEOREM DivergencesAreReal ==
    Spec => [](~Amazon /\ Used("reask") = 0 => DivergenceIsReal)
  <1>1. IInv /\ TrustInv => (~Amazon /\ Used("reask") = 0 => DivergenceIsReal)
    BY TrustRests DEF NoReask
  <1> QED BY <1>1, Invariant, TrustKept, PTL

-----------------------------------------------------------------------------
(* The contract of the lifecycle                                            *)
(* Where a transaction stands with its owner, while its run is alive.      *)
Stage(t) ==
    IF t.state \in {"DISCOVERED", "HOLD_AMAZON", "ENRICHING"} THEN "triage"
    ELSE IF t.state \in {"AUTO_APPLIED", "APPLIED", "REVISING"} THEN "working"
    ELSE IF t.state = "AWAITING_HUMAN"
         THEN IF t.flag = "NONE" THEN "asking" ELSE "flagged"
    ELSE IF t.state = "OPEN" THEN "settled"
    ELSE IF t.state = "LAPSED" THEN "handedBack" ELSE "closed"

(* How far one event can take it.                                          *)
Strides(a, b) ==
    \/ a = b
    \/ a = "triage" /\ b \in {"working", "asking"}
    \/ a = "working" /\ b \in {"settled", "flagged", "asking"}
    \/ a \in {"asking", "flagged"} /\ b = "working"
    \/ a = "asking" /\ b = "handedBack"
    \/ a \in {"settled", "handedBack"} /\ b \in {"working", "closed"}

LEMMA AdvanceStrides ==
    ASSUME NEW t \in Transaction, NEW e \in Event
    PROVE  Strides(Stage(t), Stage(Advance(t, e).next))
  <1> DEFINE n == Advance(t, e).next
  <1>1. CASE t.state \in {"DISCOVERED", "HOLD_AMAZON", "ENRICHING"}
    <2>1. \/ n = t
          \/ n.state \in {"DISCOVERED", "HOLD_AMAZON", "ENRICHING",
                          "AUTO_APPLIED"}
          \/ n.state = "AWAITING_HUMAN" /\ n.flag = "NONE"
      BY <1>1, TriageAnswers
    <2> HIDE DEF n
    <2>2. Strides(Stage(t), Stage(n))
      BY <1>1, <2>1 DEF Strides, Stage
    <2> QED BY <2>2 DEF n
  <1>2. CASE t.state \in Writing
    <2>1. n = t \/ n.state \in {"OPEN", "AWAITING_HUMAN"}
      BY <1>2, WritingAnswers
    <2> HIDE DEF n
    <2>2. Strides(Stage(t), Stage(n))
      BY <1>2, <2>1 DEF Strides, Stage, Writing
    <2> QED BY <2>2 DEF n
  <1>3. CASE t.state = "REVISING"
    <2>1. n = t \/ n.state \in {"OPEN", "AWAITING_HUMAN", "REVISING"}
      BY <1>3, RevisingAnswers
    <2> HIDE DEF n
    <2>2. Strides(Stage(t), Stage(n))
      BY <1>3, <2>1 DEF Strides, Stage
    <2> QED BY <2>2 DEF n
  <1>4. CASE t.state \in {"OPEN", "LAPSED", "AWAITING_HUMAN"}
    <2>1. \/ n = t
          \/ t.state = "OPEN" /\ n.state \in {"OPEN", "REVISING", "ARCHIVED"}
          \/ t.state = "LAPSED" /\ n.state \in {"REVISING", "ARCHIVED"}
          \/ /\ t.state = "AWAITING_HUMAN"
             /\ \/ n.state = "APPLIED"
                \/ n.state = "AWAITING_HUMAN" /\ n.flag = t.flag
                \/ t.flag = "NONE" /\ n.state = "LAPSED"
      BY <1>4, RestAnswers
    <2> HIDE DEF n
    <2>2. Strides(Stage(t), Stage(n))
      BY <1>4, <2>1 DEF Strides, Stage
    <2> QED BY <2>2 DEF n
  <1>5. CASE t.state = "ARCHIVED"
    BY <1>5, StayTraced DEF Advance, Strides
  <1> QED BY <1>1, <1>2, <1>3, <1>4, <1>5, TransactionFields DEF Writing

PhaseRead ==
    /\ status = "running" => Phase = Stage(txn)
    /\ status = "none" => Phase = "untracked"
    /\ status \in {"failed", "wedged"} /\ txn.state # "ARCHIVED"
         => Phase = "broken"
    /\ status # "none" /\ txn.state = "ARCHIVED" => Phase = "closed"

LEMMA PhaseOfRun == IInv => PhaseRead
  <1> SUFFICES ASSUME IInv PROVE PhaseRead
    OBVIOUS
  <1>1. ASSUME status = "running"
        PROVE  Phase = Stage(txn)
    <2>1. CASE txn.state \in {"DISCOVERED", "HOLD_AMAZON", "ENRICHING"}
      BY <1>1, <2>1 DEF Phase, Stage
    <2>2. CASE txn.state \in {"AUTO_APPLIED", "APPLIED", "REVISING"}
      BY <1>1, <2>2 DEF Phase, Stage
    <2>3. CASE txn.state = "AWAITING_HUMAN"
      BY <1>1, <2>3 DEF Phase, Stage
    <2>4. CASE txn.state \in {"OPEN", "LAPSED", "ARCHIVED"}
      BY <1>1, <2>4 DEF Phase, Stage
    <2> QED BY <2>1, <2>2, <2>3, <2>4, TransactionFields DEF IInv, ControlInv
  <1>2. status = "none" => Phase = "untracked"
    BY DEF Phase
  <1>3. status # "none" /\ txn.state = "ARCHIVED" => Phase = "closed"
    BY DEF Phase
  <1>4. status \in {"failed", "wedged"} /\ txn.state # "ARCHIVED"
          => Phase = "broken"
    BY DEF Phase
  <1> QED BY <1>1, <1>2, <1>3, <1>4 DEF PhaseRead

ContractStep == Contract!Next \/ UNCHANGED <<Phase, unverified>>

LEMMA StrideKeeps ==
    ASSUME Strides(Phase, Phase'), unverified' = unverified,
           unverified => Phase = "flagged"
    PROVE  ContractStep
  BY DEF Strides, ContractStep, Contract!Next, Contract!Ask, Contract!Work,
         Contract!Verify, Contract!HandBack, Contract!Close, Contract!Live,
         Contract!Phases

LEMMA VerdictKeeps ==
    ASSUME Phase = "working",
           \/ Phase' = "settled" /\ unverified' = FALSE
           \/ Phase' = "flagged" /\ unverified' = unverified
    PROVE  ContractStep
  BY DEF ContractStep, Contract!Next, Contract!Verify

LEMMA BreakKeeps ==
    ASSUME Phase \in Contract!Live, Phase' = "broken",
           unverified' \in {FALSE, unverified}
    PROVE  ContractStep
  BY DEF ContractStep, Contract!Next, Contract!Break

LEMMA LiveStages ==
    ASSUME NEW t \in Transaction, t.state # "ARCHIVED"
    PROVE  Stage(t) \in Contract!Live
  BY TransactionFields DEF Stage, Contract!Live, Contract!Phases

(* A dispatch, given what becomes of a doubted write.                      *)
LEMMA DispatchKeeps ==
    ASSUME IInv, IInv', TrustInv, NoReask, NEW e \in Event,
           NEW rest \in {<<>>, todo}, NEW back, Dispatch(e, rest, back),
           status = "running", txn.state # "ARCHIVED",
           rest = <<>> \/ pc = "readback",
           \/ unverified' = unverified
              /\ (unverified => Flagged(txn))
           \/ /\ Stage(txn) = "working"
              /\ unverified' \in {FALSE, unverified}
              /\ \/ Stage(Advance(txn, e).next) = "settled"
                    /\ unverified' = FALSE
                 \/ Stage(Advance(txn, e).next) = "flagged"
                    /\ unverified' = unverified
    PROVE  ContractStep
  <1> DEFINE n == Advance(txn, e).next
  <1>1. /\ txn \in Transaction
        /\ \/ txn' = n /\ status' = status
           \/ status' = "wedged" /\ txn' = txn
    BY DispatchedTxn
  <1>2. Phase = Stage(txn) /\ PhaseRead'
    <2>1. PhaseRead /\ PhaseRead'
      BY PhaseOfRun, PTL
    <2> QED BY <2>1 DEF PhaseRead
  <1>3. unverified' \in {FALSE, unverified}
    OBVIOUS
  <1>4. CASE status' = "wedged" /\ txn' = txn
    <2>1. Phase' = "broken"
      BY <1>2, <1>4 DEF PhaseRead
    <2>2. Phase \in Contract!Live
      BY <1>1, <1>2, LiveStages
    <2> QED BY <1>3, <2>1, <2>2, BreakKeeps
  <1>5. CASE txn' = n /\ status' = status
    <2>1. Phase' = Stage(txn')
      BY <1>2, <1>5 DEF PhaseRead
    <2>2. Strides(Phase, Phase')
      BY <1>1, <1>2, <1>5, <2>1, AdvanceStrides
    <2>3. CASE unverified' = unverified /\ (unverified => Flagged(txn))
      <3>1. Flagged(txn) => Phase = "flagged"
        BY <1>2 DEF Flagged, Stage
      <3> QED BY <2>2, <2>3, <3>1, StrideKeeps
    <2>4. CASE /\ Stage(txn) = "working"
               /\ \/ Stage(n) = "settled" /\ unverified' = FALSE
                  \/ Stage(n) = "flagged" /\ unverified' = unverified
      BY <1>2, <1>5, <2>1, <2>4, VerdictKeeps
    <2> QED BY <2>3, <2>4
  <1> QED BY <1>1, <1>4, <1>5

(* A step of no consequence to the contract.                               *)
LEMMA StillKeeps ==
    ASSUME IInv, IInv', TrustInv, unverified' = unverified,
           \/ UNCHANGED <<txn, status>>
           \/ /\ status = "running" /\ status' = "running"
              /\ Stage(txn') = Stage(txn)
           \/ /\ status = "running" /\ status' = "completed" /\ txn' = txn
              /\ txn.state = "ARCHIVED"
    PROVE  ContractStep
  <1>1. PhaseRead /\ PhaseRead'
    BY PhaseOfRun, PTL
  <1>2. /\ status \in {"none", "running", "wedged", "failed", "completed"}
        /\ status = "completed" => txn.state = "ARCHIVED"
    BY DEF IInv, ControlInv, Statuses, TrustInv
  <1>3. Phase' = Phase
    BY <1>1, <1>2 DEF PhaseRead
  <1> QED BY <1>3 DEF ContractStep

LEMMA SideKeeps ==
    ASSUME IInv, IInv', TrustInv,
           \/ Return \/ RunTimer \/ RunReplay \/ RunSend \/ LostSend
           \/ RunFeed \/ RunCloseOrRecord \/ TakeReply \/ OpenWindowPasses
           \/ RunOpenThread
    PROVE  ContractStep
  <1>1. CASE RunOpenThread
    <2>1. /\ txn \in Transaction /\ txn.state # "DISCOVERED"
          /\ status = "running" /\ status' = status
          /\ unverified' = unverified
          /\ txn' = [txn EXCEPT !.core.thread = TRUE]
      BY <1>1, OpenedThread DEF RunOpenThread, ghost, IInv, ControlInv
    <2> DEFINE c == [txn.core EXCEPT !.thread = TRUE]
    <2>2. c \in Core /\ c.snap = txn.core.snap
      BY <2>1, TransactionFields DEF Core
    <2>3. txn' = [txn EXCEPT !.core = c]
      BY <2>1
    <2> HIDE DEF c
    <2>4. /\ txn'.state = txn.state
          /\ txn.state = "AWAITING_HUMAN" => txn'.flag = txn.flag
      BY <2>1, <2>2, <2>3, CoreKept
    <2>5. Stage(txn') = Stage(txn)
      BY <2>4 DEF Stage
    <2> QED BY <2>1, <2>5, StillKeeps
  <1>2. CASE Return
    <2>1. /\ UNCHANGED <<txn, unverified>> /\ status = "running"
          /\ \/ status' = status
             \/ status' = "completed" /\ pc' = "done"
      BY <1>2 DEF Return, At, ghost
    <2>2. pc' = "done" => txn.state = "ARCHIVED"
      BY <1>2 DEF Return, PcOf, BlockedPcOf
    <2> QED BY <2>1, <2>2, StillKeeps
  <1>3. CASE \/ RunTimer \/ RunReplay \/ RunSend \/ LostSend \/ RunFeed
             \/ RunCloseOrRecord \/ TakeReply \/ OpenWindowPasses
    <2>1. UNCHANGED <<txn, status, unverified>>
      BY <1>3
      DEF RunTimer, RunReplay, RunSend, LostSend, RunFeed, RunCloseOrRecord,
          TakeReply, OpenWindowPasses, ghost, control
    <2> QED BY <2>1, StillKeeps
  <1> QED BY <1>1, <1>2, <1>3

LEMMA StateKeeps ==
    ASSUME IInv, IInv', TrustInv, NoReask,
           \/ FetchSnapshot \/ TakeSnapshot \/ BufferInbound
           \/ HoldBackfilled \/ HoldInterrupted \/ HoldExpires
           \/ GateOpens \/ GateAsks
           \/ PatienceExpires \/ Clarify \/ Answer
           \/ Reopen \/ ArchiveOrOverride \/ LapsedWindowPasses
           \/ ConvergeBlocked \/ ConvergeReceipt \/ ConvergeNothing
           \/ ConvergeReply
    PROVE  ContractStep
  <1>1. /\ status = "running"
        /\ pc \notin {"readback", "cvVerify", "effects", "done"}
    BY DEF FetchSnapshot, TakeSnapshot, BufferInbound, HoldBackfilled,
           HoldInterrupted, HoldExpires, GateOpens, GateAsks,
           PatienceExpires, Clarify, Answer, Reopen, ArchiveOrOverride,
           LapsedWindowPasses, ConvergeBlocked, ConvergeReceipt,
           ConvergeNothing, ConvergeReply, AtConverge, At
  <1>2. txn.state \notin Writing /\ txn.state # "ARCHIVED"
    BY <1>1 DEF IInv, ControlInv, ControlMatchesState, StatesAt, Pcs, Writing
  <1>3. unverified => Flagged(txn)
    BY <1>1, <1>2 DEF TrustInv, Backed, Doubted
  <1>4. unverified' = unverified
    <2>1. CASE ConvergeReply
      <3>1. pc = "converge"
        BY <2>1 DEF ConvergeReply, AtConverge, At
      <3>2. unverified = FALSE
        BY <1>1, <1>3, <3>1, Suspended DEF Flagged, IInv, WorldInv
      <3>3. PICK plan \in RevisionPlans : RevisesBy(plan)
        BY <2>1, ConvergeReplyForms
      <3>4. unverified' = unverified \/ unverified' = FALSE
        BY <3>2, <3>3 DEF RevisesBy, Settle, ghost
      <3> QED BY <3>2, <3>4
    <2>2. CASE ~ConvergeReply
      BY <2>2
      DEF FetchSnapshot, TakeSnapshot, BufferInbound, HoldBackfilled,
          HoldInterrupted, HoldExpires, GateOpens, GateAsks,
          PatienceExpires, Clarify, Answer, Reopen, ArchiveOrOverride,
          LapsedWindowPasses, ConvergeBlocked, ConvergeReceipt,
          ConvergeNothing, ghost
    <2> QED BY <2>1, <2>2
  <1>5. Dispatches \/ Moves
    BY StateForms, ConvergeForms
  <1>6. CASE Dispatches
    <2>1. PICK e \in Event, rest \in {<<>>, todo}, back \in Returns :
            Dispatch(e, rest, back) /\ (rest = <<>> \/ pc = "readback")
      BY <1>6 DEF Dispatches
    <2> QED BY <1>1, <1>2, <1>3, <1>4, <2>1, DispatchKeeps
  <1>7. CASE Moves
    BY <1>4, <1>7, StillKeeps DEF Moves
  <1> QED BY <1>5, <1>6, <1>7

LEMMA VerifyKeeps ==
    ASSUME IInv, IInv', TrustInv, NoReask, ReadBack \/ ConvergeVerify
    PROVE  ContractStep
  <1>1. PICK e \in Event, rest \in {<<>>, todo} :
          /\ Dispatch(e, rest, "step") /\ Carries(e)
          /\ rest = <<>> \/ pc = "readback"
    BY VerdictForm
  <1>2. /\ status = "running" /\ txn \in Transaction
        /\ unverified' = (unverified /\ Verdict # "MATCH")
        /\ pc = "readback" => txn.state \in Writing
        /\ pc = "cvVerify" => txn.state = "REVISING"
        /\ pc \in {"readback", "cvVerify"}
    BY VerdictSettles, Suspended DEF Writing, IInv, ControlInv
  <1>3. Stage(txn) = "working" /\ txn.state # "ARCHIVED"
    BY <1>2 DEF Stage, Writing
  <1> DEFINE n == Advance(txn, e).next
  <1>4. Stage(n) = IF Verdict = "MATCH" THEN "settled" ELSE "flagged"
    <2>1. CASE pc = "readback"
      <3>1. \/ Verdict = "MATCH" /\ n.state = "OPEN"
            \/ Verdict # "MATCH" /\ n.state = "AWAITING_HUMAN"
               /\ n.flag # "NONE"
        BY <1>1, <1>2, <2>1, WritingAnswers DEF Carries
      <3> HIDE DEF n
      <3> QED BY <3>1 DEF Stage
    <2>2. CASE pc = "cvVerify"
      <3>1. n.state \in {"OPEN", "AWAITING_HUMAN"}
        BY <1>1, <1>2, <2>2, RevisionEnds DEF Carries
      <3>2. \/ Verdict = "MATCH" /\ n.state = "OPEN"
            \/ Verdict # "MATCH" /\ n.state = "AWAITING_HUMAN"
               /\ n.flag # "NONE"
        BY <1>1, <1>2, <2>2, <3>1, RevisingAnswers DEF Carries
      <3> HIDE DEF n
      <3> QED BY <3>2 DEF Stage
    <2> QED BY <1>2, <2>1, <2>2
  <1>5. \/ Stage(n) = "settled" /\ unverified' = FALSE
        \/ Stage(n) = "flagged" /\ unverified' = unverified
    <2>1. unverified \in BOOLEAN
      BY DEF IInv, WorldInv
    <2>2. CASE Verdict = "MATCH"
      BY <1>2, <1>4, <2>2
    <2>3. CASE Verdict # "MATCH"
      BY <1>2, <1>4, <2>1, <2>3
    <2> QED BY <2>2, <2>3
  <1> QED BY <1>1, <1>2, <1>3, <1>5, DispatchKeeps

LEMMA WriteKeeps ==
    ASSUME IInv, IInv', RunCommit \/ LostCommit \/ ConvergeWrite
    PROVE  ContractStep
  <1>1. /\ status = "running" /\ UNCHANGED <<txn, status>>
        /\ unverified' = TRUE
    BY DEF RunCommit, LostCommit, ConvergeWrite, Write, HeadIs, At, control
  <1>2. txn.state \in Writing \cup {"REVISING"}
    <2>1. CASE RunCommit \/ LostCommit
      <3>1. HeadIs("Commit")
        BY <2>1 DEF RunCommit, LostCommit
      <3>2. 1 \in DOMAIN todo /\ Head(todo) = todo[1]
        BY <3>1 DEF HeadIs, IInv, ControlInv
      <3> QED BY <3>1, <3>2
              DEF HeadIs, IInv, ControlInv, ControlMatchesState, Writing
    <2>2. CASE ConvergeWrite
      BY <2>2, Suspended DEF ConvergeWrite, At, IInv
    <2> QED BY <2>1, <2>2
  <1>3. PhaseRead /\ PhaseRead'
    BY PhaseOfRun, PTL
  <1>4. Phase = "working" /\ Phase' = Phase
    BY <1>1, <1>2, <1>3 DEF PhaseRead, Stage, Writing
  <1> QED BY <1>1, <1>4 DEF ContractStep, Contract!Next, Contract!Write

(* The end and the beginning of a run.                                     *)
LEMMA EndKeeps ==
    ASSUME IInv, IInv', TrustInv, ActivityFails \/ GoneFails
    PROVE  ContractStep
  <1>1. /\ status = "running" /\ status' = "failed"
        /\ UNCHANGED <<txn, unverified>>
    BY DEF ActivityFails, GoneFails, Fail, HeadIs, At, ghost
  <1>2. PhaseRead /\ PhaseRead'
    BY PhaseOfRun, PTL
  <1>3. CASE txn.state = "ARCHIVED"
    <2>1. Phase' = Phase
      BY <1>1, <1>2, <1>3 DEF PhaseRead
    <2> QED BY <1>1, <2>1 DEF ContractStep
  <1>4. CASE txn.state # "ARCHIVED"
    <2>1. Phase' = "broken" /\ Phase \in Contract!Live
      BY <1>1, <1>2, <1>4, LiveStages DEF PhaseRead, IInv, ControlInv
    <2> QED BY <1>1, <2>1, BreakKeeps
  <1> QED BY <1>3, <1>4

LEMMA ContactKeeps ==
    ASSUME IInv, IInv', TrustInv, PollAddress \/ OwnerReplies
    PROVE  ContractStep
  <1>1. ASSUME NEW queue, Born(queue), ended
        PROVE  ContractStep
    <2>1. /\ txn' = Discovered(FALSE, <<>>) /\ status' = "running"
          /\ unverified' = FALSE
      BY <1>1 DEF Born
    <2>2. Stage(txn') = "triage"
      <3>1. txn'.state = "DISCOVERED"
        BY <2>1 DEF Discovered
      <3> QED BY <3>1 DEF Stage
    <2>3. PhaseRead /\ PhaseRead'
      BY PhaseOfRun, PTL
    <2>4. status = "completed" => txn.state = "ARCHIVED"
      BY DEF TrustInv
    <2>5. Phase \in {"untracked", "closed", "broken"}
      BY <1>1, <2>3, <2>4 DEF PhaseRead, ended
    <2>6. Phase' = "triage"
      BY <2>1, <2>2, <2>3 DEF PhaseRead
    <2> QED BY <2>1, <2>5, <2>6
            DEF ContractStep, Contract!Next, Contract!TakeUp
  <1>2. CASE UNCHANGED <<control, unverified>>
    BY <1>2, StillKeeps DEF control
  <1> QED BY <1>1, <1>2 DEF PollAddress, OwnerReplies, ended

LEMMA WorldKeeps ==
    ASSUME IInv, IInv', TrustInv,
           \/ PollFetch \/ ReceiptMatched \/ OwnerReconciles \/ MemoBackfills
           \/ OwnerEdits \/ OwnerDeletes \/ UNCHANGED vars
    PROVE  ContractStep
  <1>1. UNCHANGED <<txn, status, unverified>>
    BY DEF PollFetch, ReceiptMatched, OwnerReconciles, MemoBackfills,
           OwnerEdits, OwnerDeletes, vars, ghost, control
  <1> QED BY <1>1, StillKeeps

LEMMA StepKeeps ==
    ASSUME IInv, IInv', TrustInv, NoReask, NoReask', [Next]_vars
    PROVE  ContractStep
  <1>1. ~LostConverge
    <2>1. LostConverge => left'["reask"] < left["reask"]
      BY DEF LostConverge, Spend, IInv, EnvInv, Kinds
    <2>2. left'["reask"] = left["reask"] \/ ~(NoReask /\ NoReask')
      <3>1. /\ left["reask"] \in Nat /\ left'["reask"] \in Nat
            /\ Bounds["reask"] \in Nat
        BY WorkflowAssumption DEF IInv, EnvInv, Kinds
      <3> QED BY <3>1 DEF NoReask, Used
    <2>3. left["reask"] \in Nat
      BY DEF IInv, EnvInv, Kinds
    <2> QED BY <2>1, <2>2, <2>3
  <1>2. CASE Workflow
    BY <1>2, SideKeeps, StateKeeps, WriteKeeps, VerifyKeeps, EndKeeps
    DEF Workflow, EndDispatch
  <1>3. CASE Interference
    BY <1>1, <1>3, SideKeeps, WriteKeeps, EndKeeps
    DEF Interference, ContinueAsNew
  <1>4. CASE Environment \/ UNCHANGED vars
    BY <1>4, WorldKeeps, ContactKeeps DEF Environment
  <1> QED BY <1>2, <1>3, <1>4 DEF Next

(* The workflow implements the contract of the lifecycle, as long as no    *)
(* attempt of converge is lost half way.                                   *)
THEOREM ContractKept == Spec /\ [](Used("reask") = 0) => KeepsContract
  <1>1. Init => Contract!Init
    BY DEF Init, Contract!Init, Phase
  <1>2. IInv /\ IInv' /\ TrustInv /\ Used("reask") = 0
          /\ (Used("reask") = 0)' /\ [Next]_vars
            => [Contract!Next]_(Contract!vars)
    <2> SUFFICES ASSUME IInv, IInv', TrustInv, Used("reask") = 0,
                        (Used("reask") = 0)', [Next]_vars
                 PROVE  [Contract!Next]_(Contract!vars)
      OBVIOUS
    <2>1. NoReask /\ NoReask'
      BY DEF NoReask
    <2>2. ContractStep
      BY <2>1, StepKeeps
    <2> QED BY <2>2 DEF ContractStep, Contract!vars
  <1>3. Spec => Init /\ [][Next]_vars
    BY DEF Spec
  <1>4. Contract!Init /\ [][Contract!Next]_(Contract!vars) => KeepsContract
    BY DEF KeepsContract, Contract!Spec
  <1> QED BY <1>1, <1>2, <1>3, <1>4, Invariant, TrustKept, PTL
=============================================================================
