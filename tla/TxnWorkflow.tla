---------------------------- MODULE TxnWorkflow ----------------------------
(***************************************************************************)
(* W2, the durable per-transaction workflow (workflow/txn_workflow.py) with*)
(* the activities it calls (workflow/activities.py), the processes that    *)
(* start and signal it (W1, W3, W4) and the world it acts on: the          *)
(* transaction in YNAB, the owner's mailbox and the trust of the payee's   *)
(* rule.                                                                   *)
(*                                                                         *)
(* pc is where the workflow's coroutine is suspended: waiting (fetch is    *)
(* the first activity of a run), in an activity, or between two effects of *)
(* a dispatch.  An activity is one step that takes effect and completes;   *)
(* converge, which reads, writes and verifies, is three.  A step named     *)
(* Lost... is an attempt whose effect landed but whose completion did not  *)
(* reach the server, so the activity is attempted again.                   *)
(***************************************************************************)
EXTENDS StateMachine, FiniteSets

CONSTANTS Amazon,       \* the payee is Amazon (hold for item detail)
          RuleAlloc,    \* what the payee's blessed rule files under
          RuleMemo,     \* the rule's memo template ({}: none)
          Blessed,      \* the rule starts out blessed and trusted
          ReplyMemos,   \* memos the model may read in a reply
          FirstAllocs,  \* categories the bank import may arrive with
          FirstMemos,   \* memos it may arrive with
          Bounds        \* how often the environment may act (see Kinds)

(* reply, receipt: signals sent.  edit, delete: the owner edits, reconciles*)
(* or deletes in YNAB.  lost: activity completions lost.  reask: converge  *)
(* attempts lost.  fault: terminal activity failures.  run: W2 runs.       *)
Kinds == {"reply", "receipt", "edit", "delete", "lost", "reask", "fault",
          "run"}

ASSUME WorkflowAssumption ==
    /\ Amazon \in BOOLEAN /\ Blessed \in BOOLEAN
    /\ RuleAlloc \in Allocs /\ RuleMemo \in Memos
    /\ ReplyMemos \subseteq Memos
    /\ FirstAllocs \subseteq Allocs \cup {NoAlloc}
    /\ FirstMemos \subseteq Memos
    /\ {"items", "import"} \subseteq MemoParts
    /\ Bounds \in [Kinds -> Nat]

VARIABLES
    (* the world *)
    ynab,       \* what YNAB holds
    visible,    \* YNAB returns the transaction (imported, not deleted)
    trusted,    \* the payee's rule is still blessed in the registry
    labels,     \* AgentMail labels: 0 the opened thread, n the n-th send
    indexed,    \* some run carries the thread id: replies find the workflow
    polled,     \* W1's last read of the unapproved list, not yet addressed
    (* the workflow *)
    status,     \* none, running, wedged, failed, completed
    txn, thread, timers, inbound, snapReady, seq,
    pc,
    todo,       \* effects of the dispatch still to execute
    resume,     \* step, or blocked: a window passed and nothing changed
    sig,        \* the signal being interpreted
    draft,      \* the decision being written or verified
    memoOnly,   \* that decision comes from a revision naming no category
    (* bookkeeping of the environment and of the properties *)
    left,       \* what remains of Bounds
    sent,       \* signals sent so far
    due,        \* ids delivered to this run that it has not acted on
    landed,     \* emails the send being executed has already produced
    mailFault,  \* what has gone wrong with emails: doubled, swallowed
    consent,    \* the owner approved, replied, or a blessed rule gated
    auto,       \* where a blessed rule last filed the charge, verified
    touched,    \* the owner edited YNAB since the agent last verified
    unverified  \* the last write of this run has not read back as written

world   == <<ynab, visible, trusted, polled>>
mail    == <<labels, indexed, landed, mailFault>>
control == <<status, txn, thread, pc, todo, resume>>
mirror  == <<timers, snapReady, seq>>
hand    == <<sig, draft, memoOnly>>
env     == <<left, sent>>
ghost   == <<consent, auto, touched, unverified>>
vars    == <<world, mail, control, mirror, hand, env, ghost, inbound, due>>

Spend(kind) == /\ left[kind] > 0
               /\ left' = [left EXCEPT ![kind] = @ - 1]

(* read_back, and fetch_snapshot.                                          *)
Read  == IF visible THEN ToTarget(ynab) ELSE NoTarget
Fetch == IF visible THEN ynab ELSE NoSnap

HoldForAmazon(s) == Amazon /\ s.memo = {}

Ids(s) == {s[i].id : i \in DOMAIN s}

(***************************************************************************)
(* A run is born: by W1, or by W3 with the reply that found it closed.     *)
(***************************************************************************)
Born(queue) ==
    /\ status' = "running"
    /\ txn' = Discovered(FALSE, <<>>)
    /\ thread' = FALSE
    /\ timers' = {} /\ snapReady' = NoSnap /\ seq' = 0
    /\ inbound' = queue /\ due' = Ids(queue)
    /\ pc' = "fetch" /\ todo' = <<>> /\ resume' = "step"
    /\ sig' = NoSig /\ draft' = NoDecision /\ memoOnly' = FALSE
    /\ unverified' = FALSE

Init ==
    /\ ynab \in [alloc: FirstAllocs, memo: FirstMemos,
                 approved: {FALSE}, reconciled: {FALSE}]
    /\ visible = TRUE /\ trusted = Blessed
    /\ labels = {} /\ indexed = FALSE /\ polled = NoSnap
    /\ status = "none" /\ txn = Discovered(FALSE, <<>>) /\ thread = FALSE
    /\ timers = {} /\ inbound = <<>> /\ snapReady = NoSnap /\ seq = 0
    /\ pc = "fetch" /\ todo = <<>> /\ resume = "step"
    /\ sig = NoSig /\ draft = NoDecision /\ memoOnly = FALSE
    /\ left = Bounds /\ sent = 0 /\ due = {}
    /\ landed = 0 /\ mailFault = {}
    /\ consent = FALSE /\ auto = NoAlloc
    /\ touched = FALSE /\ unverified = FALSE

(* The driver's mirror adopts the state machine's thread.  (Mutant: it does*)
(* not.)                                                                   *)
NoSync(t) == UNCHANGED thread
SyncThreadId(t) == thread' = (thread \/ ThreadOf(t))

(***************************************************************************)
(* One dispatch: advance, then queue the effects ahead of those of the     *)
(* dispatch it is nested in.  A transition to a record the validators      *)
(* refuse raises in workflow code: the workflow task fails and is retried  *)
(* for ever, the run is stuck.                                             *)
(***************************************************************************)
Dispatch(e, rest, back) ==
    LET t == Advance(txn, e)
    IN  IF Valid(t.next)
        THEN /\ txn' = t.next
             /\ SyncThreadId(t.next)
             /\ todo' = t.effects \o rest
             /\ pc' = "effects"
             /\ resume' = IF back = "blocked" /\ t.next.state = txn.state
                          THEN "blocked" ELSE "step"
             /\ UNCHANGED status
        ELSE /\ status' = "wedged"
             /\ UNCHANGED <<txn, thread, todo, pc, resume>>

At(p) == status = "running" /\ pc = p

(* Where _step suspends first in each state.                               *)
PcOf(s) == CASE s = "DISCOVERED"     -> "fetch"
             [] s = "HOLD_AMAZON"    -> "hold"
             [] s = "ENRICHING"      -> "enrich"
             [] s = "AWAITING_HUMAN" -> "await"
             [] s = "OPEN"           -> "open"
             [] s = "LAPSED"         -> "lapsed"
             [] s = "REVISING"       -> "converge"
             [] s = "ARCHIVED"       -> "done"
             [] OTHER                -> "spin"

(* Mutant of BlockedPcOf: nothing wakes the wait.                          *)
WaitsForNothing(s) == "spin"

(* Where it waits on when the window passed and the state did not change.  *)
BlockedPcOf(s) == CASE s = "AWAITING_HUMAN" -> "awaitFlagged"
                    [] s = "OPEN"           -> "openBlocked"
                    [] OTHER                -> "lapsedBlocked"

(* The dispatch has returned.                                              *)
Return ==
    /\ At("effects") /\ todo = <<>>
    /\ pc' = IF resume = "blocked" THEN BlockedPcOf(txn.state)
             ELSE PcOf(txn.state)
    /\ status' = IF pc' = "done" THEN "completed" ELSE status
    /\ timers' = IF resume = "step" THEN timers
                 ELSE timers \ {IF txn.state = "AWAITING_HUMAN"
                                THEN "PATIENCE" ELSE "ARCHIVE"}
    /\ resume' = "step"
    /\ UNCHANGED <<world, mail, txn, thread, todo, seq, hand, env, ghost,
                   inbound, due>>

EndDispatch == Return /\ UNCHANGED snapReady

(* continue-as-new, once the step has returned to a resting state with     *)
(* nothing queued and the history is long: everything but the backfilled   *)
(* snapshot is carried over.                                               *)
ContinueAsNew ==
    /\ Return
    /\ resume = "step" /\ inbound = <<>> /\ snapReady # NoSnap
    /\ txn.state \in {"DISCOVERED", "HOLD_AMAZON", "AWAITING_HUMAN", "OPEN",
                      "LAPSED"}
    /\ snapReady' = NoSnap

(***************************************************************************)
(* The effects of a dispatch, in order (_execute).                         *)
(***************************************************************************)
HeadIs(k) == At("effects") /\ todo # <<>> /\ Head(todo).k = k
Pop       == todo' = Tail(todo)

RunTimer ==
    /\ HeadIs("SetTimer") \/ HeadIs("CancelTimer")
    /\ Pop
    /\ timers' = IF Head(todo).k = "SetTimer"
                 THEN timers \cup {Head(todo).timer}
                 ELSE timers \ {Head(todo).timer}
    /\ UNCHANGED <<world, mail, status, txn, thread, pc, resume, snapReady,
                   seq, hand, env, ghost, inbound, due>>

(* Mutant of ExtendLeft: the replayed signals go to the back.              *)
ExtendRight(sigs) == inbound \o sigs
ExtendLeft(sigs)  == sigs \o inbound

RunReplay ==
    /\ HeadIs("Replay")
    /\ Pop
    /\ inbound' = ExtendLeft(Head(todo).sigs)
    /\ UNCHANGED <<world, mail, status, txn, thread, pc, resume, mirror, hand,
                   env, ghost, due>>

(* commit_to_ynab: YNAB refuses to patch a deleted transaction.            *)
Write(d) == /\ visible
            /\ ynab' = Patched(ynab, d)
            /\ unverified' = TRUE
            /\ UNCHANGED <<visible, trusted, polled, consent, auto, touched>>

RunCommit ==
    /\ HeadIs("Commit")
    /\ Write(Head(todo).d)
    /\ draft' = Head(todo).d
    /\ pc' = "readback"
    /\ Pop
    /\ UNCHANGED <<mail, status, txn, thread, resume, mirror, sig, memoOnly,
                   env, inbound, due>>

LostCommit ==
    /\ HeadIs("Commit")
    /\ Spend("lost")
    /\ Write(Head(todo).d)
    /\ UNCHANGED <<mail, control, mirror, hand, sent, inbound, due>>

(* A verified read-back settles the write; it is also the last time the    *)
(* agent and YNAB are known to agree.                                      *)
Settle(outcome, by) ==
    /\ unverified' = (unverified /\ outcome # "MATCH")
    /\ touched' = (touched /\ outcome # "MATCH")
    /\ auto' = IF outcome = "MATCH" /\ by = "RULE" THEN Read.alloc ELSE auto
    /\ UNCHANGED consent

ReadBack ==
    /\ At("readback")
    /\ LET outcome == ClassifyVerify(Read, TargetOf(draft))
       IN  /\ Dispatch([type |-> "WriteVerified", outcome |-> outcome],
                       todo, "step")
           /\ Settle(outcome, draft.by)
    /\ draft' = NoDecision
    /\ UNCHANGED <<world, mail, mirror, sig, memoOnly, env, inbound, due>>

(* An email is sent unless its label is already on the mailbox.  (Mutant:  *)
(* the label is not looked up.)                                            *)
SentAnyway(label) == landed + 1
Emails(label)     == IF label \in labels THEN landed ELSE landed + 1

Deliver(label) ==
    /\ labels' = labels \cup {label}
    /\ LET n == Emails(label)
       IN  /\ landed' = 0
           /\ mailFault' = mailFault \cup (IF n = 0 THEN {"swallowed"} ELSE {})
                                     \cup (IF n > 1 THEN {"doubled"} ELSE {})

DeliverLost(label) ==
    /\ Spend("lost")
    /\ labels' = labels \cup {label}
    /\ landed' = Emails(label)
    /\ UNCHANGED <<indexed, mailFault>>

(* open_thread, with the message that opens it, then the upsert of the     *)
(* search attribute.  A message is composed from a fresh read of YNAB: there*)
(* is none to send about a deleted transaction.                            *)
OpensThread == HeadIs("OpenThread") \/ (HeadIs("Send") /\ ~thread)

RunOpenThread ==
    /\ OpensThread /\ visible
    /\ Deliver(0)
    /\ indexed' = TRUE
    /\ thread' = TRUE
    /\ txn' = [txn EXCEPT !.core.thread = TRUE]
    /\ Pop
    /\ UNCHANGED <<world, status, pc, resume, mirror, hand, env, ghost,
                   inbound, due>>

NextSeq  == seq + 1

RunSend ==
    /\ HeadIs("Send") /\ thread /\ visible
    /\ seq' = NextSeq
    /\ Deliver(NextSeq)
    /\ Pop
    /\ UNCHANGED <<world, indexed, status, txn, thread, pc, resume, timers,
                   snapReady, hand, env, ghost, inbound, due>>

LostSend ==
    /\ visible
    /\ \/ OpensThread /\ DeliverLost(0)
       \/ HeadIs("Send") /\ thread /\ DeliverLost(NextSeq)
    /\ UNCHANGED <<world, control, mirror, hand, sent, ghost, inbound, due>>

(* feed_rule_learning, down to what the registry does with a correction:   *)
(* the rule that drove the prior decision loses its blessing.              *)
RunFeed ==
    /\ HeadIs("Feed")
    /\ trusted' = (trusted /\ ~(/\ Head(todo).event = "CORRECT"
                                /\ Head(todo).prior.by = "RULE"))
    /\ Pop
    /\ UNCHANGED <<ynab, visible, polled, mail, status, txn, thread, pc,
                   resume, mirror, hand, env, ghost, inbound, due>>

(* close_thread, and record_auto_action, whose failure is swallowed: none  *)
(* of the state kept here depends on them.                                 *)
RunCloseOrRecord ==
    /\ HeadIs("CloseThread") \/ HeadIs("RecordAuto")
    /\ Pop
    /\ UNCHANGED <<world, mail, status, txn, thread, pc, resume, mirror, hand,
                   env, ghost, inbound, due>>

(***************************************************************************)
(* The per-state steps.                                                    *)
(***************************************************************************)
Materialized(s) == [type |-> "SnapshotMaterialized", snap |-> s,
                    hold |-> HoldForAmazon(s)]
Inbound(s)      == [type |-> "InboundReceived", sig |-> s]

(* _on_discovered.                                                         *)
FetchSnapshot ==
    /\ At("fetch")
    /\ IF visible
       THEN Dispatch(Materialized(Fetch), <<>>, "step")
       ELSE pc' = "waitSnap" /\ UNCHANGED <<status, txn, thread, todo, resume>>
    /\ UNCHANGED <<world, mail, mirror, hand, env, ghost, inbound, due>>

TakeSnapshot ==
    /\ At("waitSnap") /\ snapReady # NoSnap
    /\ Dispatch(Materialized(snapReady), <<>>, "step")
    /\ snapReady' = NoSnap
    /\ UNCHANGED <<world, mail, timers, seq, hand, env, ghost, inbound, due>>

BufferInbound ==
    /\ At("waitSnap") /\ snapReady = NoSnap /\ inbound # <<>>
    /\ Dispatch(Inbound(Head(inbound)), <<>>, "step")
    /\ inbound' = Tail(inbound)
    /\ UNCHANGED <<world, mail, mirror, hand, env, ghost, due>>

(* _on_hold.                                                               *)
HoldBackfilled ==
    /\ At("hold") /\ snapReady # NoSnap
    /\ Dispatch([type |-> "HoldResolved", snap |-> snapReady], <<>>, "step")
    /\ snapReady' = NoSnap
    /\ UNCHANGED <<world, mail, timers, seq, hand, env, ghost, inbound, due>>

HoldInterrupted ==
    /\ At("hold") /\ snapReady = NoSnap /\ inbound # <<>>
    /\ Dispatch(Inbound(Head(inbound)), <<>>, "step")
    /\ inbound' = Tail(inbound)
    /\ UNCHANGED <<world, mail, mirror, hand, env, ghost, due>>

(* Mutant of HoldExpires: the hold waits for the backfill.                 *)
HoldWaits ==
    /\ At("hold") /\ snapReady # NoSnap
    /\ Dispatch([type |-> "HoldDeadlineReached"], <<>>, "step")
    /\ UNCHANGED <<world, mail, mirror, hand, env, ghost, inbound, due>>

HoldExpires ==
    /\ At("hold")
    /\ Dispatch([type |-> "HoldDeadlineReached"], <<>>, "step")
    /\ UNCHANGED <<world, mail, mirror, hand, env, ghost, inbound, due>>

(* _on_enriching.  The gate opens only for a rule still blessed; the floor,*)
(* a matched import, a second blessed rule and the model's review may each *)
(* hold it back, so asking is always possible.                             *)
GateOpens ==
    /\ At("enrich") /\ trusted
    /\ Dispatch([type |-> "AutoApply",
                 decision |-> [alloc |-> RuleAlloc, memo |-> RuleMemo,
                               approved |-> TRUE, by |-> "RULE"]],
                <<>>, "step")
    /\ consent' = TRUE
    /\ UNCHANGED <<world, mail, mirror, hand, env, auto, touched, unverified,
                   inbound, due>>

GateAsks ==
    /\ At("enrich")
    /\ \E c \in Categories :
         Dispatch([type |-> "AskHuman", proposal |-> c], <<>>, "step")
    /\ UNCHANGED <<world, mail, mirror, hand, env, ghost, inbound, due>>

(* _on_awaiting.                                                         *)
PatienceExpires ==
    /\ At("await")
    /\ Dispatch([type |-> "PatienceExpired"], <<>>, "blocked")
    /\ UNCHANGED <<world, mail, mirror, hand, env, ghost, inbound, due>>

TakeReply ==
    /\ At("await") \/ At("awaitFlagged")
    /\ inbound # <<>>
    /\ sig' = Head(inbound)
    /\ inbound' = Tail(inbound)
    /\ due' = due \ {Head(inbound).id}
    /\ pc' = "interpret"
    /\ UNCHANGED <<world, mail, status, txn, thread, todo, resume, mirror,
                   draft, memoOnly, env, ghost>>

(* _interpret_inbound: a receipt is always answered with a question.       *)
HumanDecision(c, m) == [alloc |-> c, memo |-> m, approved |-> TRUE,
                        by |-> "HUMAN"]

Clarify ==
    /\ At("interpret")
    /\ Dispatch([type |-> "ClarifyRequested"], <<>>, "step")
    /\ sig' = NoSig
    /\ UNCHANGED <<world, mail, mirror, draft, memoOnly, env, ghost, inbound,
                   due>>

Answer ==
    /\ At("interpret") /\ sig.kind = "reply"
    /\ \E c \in Categories, m \in ReplyMemos :
         Dispatch([type |-> "AnswerReceived",
                   decision |-> HumanDecision(c, m)], <<>>, "step")
    /\ sig' = NoSig
    /\ UNCHANGED <<world, mail, mirror, draft, memoOnly, env, ghost, inbound,
                   due>>

(* _on_open and _on_lapsed: the signal at the head reopens the transaction.*)
Reopen ==
    /\ \E p \in {"open", "openBlocked", "lapsed", "lapsedBlocked"} : At(p)
    /\ inbound # <<>>
    /\ Dispatch(Inbound(Head(inbound)), <<>>, "step")
    /\ inbound' = Tail(inbound)
    /\ due' = due \ {Head(inbound).id}
    /\ UNCHANGED <<world, mail, mirror, hand, env, ghost>>

(* The archive window passes.  asyncio.wait_for lets a deadline that had   *)
(* already passed beat a queued signal, so inbound is not consulted.       *)
OpenWindowPasses ==
    /\ At("open") /\ "ARCHIVE" \in timers
    /\ pc' = "openRead"
    /\ UNCHANGED <<world, mail, status, txn, thread, todo, resume, mirror,
                   hand, env, ghost, inbound, due>>

(* _archive_or_override: a category other than the decision's is the       *)
(* owner's.                                                                *)
ArchiveOrOverride ==
    /\ At("openRead")
    /\ LET overridden == Read # NoTarget /\ Read.alloc # txn.decision.alloc
       IN  Dispatch(IF overridden
                    THEN [type |-> "OverrideDetected",
                          decision |-> [alloc |-> Read.alloc,
                                        memo |-> Read.memo,
                                        approved |-> Read.approved,
                                        by |-> "HUMAN"]]
                    ELSE [type |-> "ArchiveWindowReached"],
                    <<>>, "blocked")
    /\ UNCHANGED <<world, mail, mirror, hand, env, ghost, inbound, due>>

LapsedWindowPasses ==
    /\ At("lapsed") /\ "ARCHIVE" \in timers
    /\ Dispatch([type |-> "ArchiveWindowReached"], <<>>, "blocked")
    /\ UNCHANGED <<world, mail, mirror, hand, env, ghost, inbound, due>>

(***************************************************************************)
(* The converge activity of a REVISING run.                                *)
(***************************************************************************)
Converged(outcome) == Dispatch([type |-> outcome], <<>>, "step")
Reapplied(d) ==
    Dispatch([type |-> "Reapplied", decision |-> d], <<>>, "step")

(* Start writing d: the write is the activity's next step.                 *)
BeginWrite(d, memo) ==
    /\ draft' = d
    /\ memoOnly' = memo
    /\ pc' = "cvWrite"
    /\ UNCHANGED <<status, txn, thread, todo, resume>>

AtConverge(kind) == /\ At("converge")
                    /\ ~ReconciliationBlocks(txn.core.snap)
                    /\ txn.instruction.kind = kind

ConvergeBlocked ==
    /\ At("converge") /\ ReconciliationBlocks(txn.core.snap)
    /\ Converged("NeedsHuman")
    /\ UNCHANGED <<world, mail, mirror, hand, env, ghost, inbound, due>>

(* A receipt: fold the items into the live memo, leave the rest as it is.  *)
ConvergeReceipt ==
    /\ AtConverge("receipt")
    /\ LET merged == ynab.memo \cup {"items"}
       IN  IF Read = NoTarget \/ ynab.alloc = Split
           THEN Converged("NeedsHuman") /\ UNCHANGED <<draft, memoOnly>>
           ELSE IF merged = ynab.memo
                THEN Converged("NoChange") /\ UNCHANGED <<draft, memoOnly>>
                ELSE BeginWrite([alloc |-> ynab.alloc, memo |-> merged,
                                 approved |-> ynab.approved,
                                 by |-> "AGENT"], TRUE)
    /\ UNCHANGED <<world, mail, mirror, sig, env, ghost, inbound, due>>

(* The model reads no change in the reply.                                 *)
ConvergeNothing ==
    /\ AtConverge("reply")
    /\ Converged("NoChange")
    /\ UNCHANGED <<world, mail, mirror, hand, env, ghost, inbound, due>>

(* A retarget names a category; a memo-only revision falls back to the     *)
(* snapshot's, and an absent memo to the snapshot's memo.                  *)
RevisionPlans ==
    [kind: {"RETARGET"}, alloc: Categories, memo: ReplyMemos]
      \cup [kind: {"MEMO_ONLY"}, alloc: {txn.core.snap.alloc},
            memo: ReplyMemos \ {{}}]

ConvergeReply ==
    /\ AtConverge("reply")
    /\ \E plan \in RevisionPlans :
         LET d == HumanDecision(plan.alloc,
                                IF plan.memo # {} THEN plan.memo
                                ELSE txn.core.snap.memo)
             prior == IF txn.prior = NoDecision THEN NoTarget
                      ELSE TargetOf(txn.prior)
             action == PrecommitAction(Read, TargetOf(d), prior)
         IN  IF plan.alloc \notin Categories
             THEN /\ Converged("NeedsHuman")
                  /\ UNCHANGED <<draft, memoOnly, ghost>>
             ELSE IF action = "WRITE"
                  THEN /\ BeginWrite(d, plan.kind = "MEMO_ONLY")
                       /\ UNCHANGED ghost
                  ELSE /\ CASE action = "NO_CHANGE" -> Converged("NoChange")
                             [] action = "ALREADY_TARGET" -> Reapplied(d)
                             [] action = "DIVERGED" -> Converged("Diverged")
                       /\ Settle(IF action = "DIVERGED" THEN "DIVERGED"
                                 ELSE "MATCH", "HUMAN")
                       /\ UNCHANGED <<draft, memoOnly>>
    /\ UNCHANGED <<world, mail, mirror, sig, env, inbound, due>>

ConvergeWrite ==
    /\ At("cvWrite")
    /\ Write(draft)
    /\ pc' = "cvVerify"
    /\ UNCHANGED <<mail, status, txn, thread, todo, resume, mirror, hand, env,
                   inbound, due>>

ConvergeVerify ==
    /\ At("cvVerify")
    /\ LET outcome == ClassifyVerify(Read, TargetOf(draft))
       IN  /\ CASE outcome = "MATCH" -> Reapplied(draft)
                 [] outcome = "COULD_NOT_CONFIRM" ->
                      Converged("CouldNotConfirm")
                 [] outcome = "DIVERGED" -> Converged("Diverged")
           /\ Settle(outcome, draft.by)
    /\ draft' = NoDecision /\ memoOnly' = FALSE
    /\ UNCHANGED <<world, mail, mirror, sig, env, inbound, due>>

(* The attempt dies after its read or after its write and starts over.     *)
LostConverge ==
    /\ At("cvWrite") \/ At("cvVerify")
    /\ Spend("reask")
    /\ pc' = "converge"
    /\ draft' = NoDecision /\ memoOnly' = FALSE
    /\ UNCHANGED <<world, mail, status, txn, thread, todo, resume, mirror, sig,
                   sent, ghost, inbound, due>>

(***************************************************************************)
(* The end of a run, other than archiving.                                 *)
(***************************************************************************)
ActivityPcs == {"fetch", "enrich", "interpret", "readback", "openRead",
                "converge", "cvWrite", "cvVerify"}
ActivityEffects == {"Commit", "OpenThread", "Send", "Feed", "CloseThread"}

Fail == /\ status' = "failed"
        /\ landed' = 0
        /\ UNCHANGED <<world, labels, indexed, mailFault, txn, thread, pc,
                       todo, resume, mirror, hand, sent, ghost, inbound, due>>

(* An activity fails terminally: the owner is alerted, the run fails.      *)
ActivityFails ==
    /\ \/ \E p \in ActivityPcs : At(p)
       \/ \E k \in ActivityEffects : HeadIs(k)
    /\ Spend("fault")
    /\ Fail

(* A write to, or a message about, a deleted transaction cannot succeed.   *)
GoneFails ==
    /\ ~visible
    /\ HeadIs("Commit") \/ HeadIs("OpenThread") \/ HeadIs("Send")
         \/ At("cvWrite")
    /\ Fail
    /\ UNCHANGED left

(***************************************************************************)
(* W1, W3, W4 and the owner.                                               *)
(***************************************************************************)
ended == status \in {"none", "failed", "completed"}

(* fetch_unapproved.                                                       *)
PollFetch ==
    /\ visible /\ ~ynab.approved /\ polled = NoSnap
    /\ polled' = ynab
    /\ UNCHANGED <<ynab, visible, trusted, mail, control, mirror, hand, env,
                   ghost, inbound, due>>

(* address_transaction, later in the tick.                                 *)
PollAddress ==
    /\ polled # NoSnap
    /\ polled' = NoSnap
    /\ IF status \in {"none", "failed"}
       THEN Spend("run") /\ Born(<<>>)
       ELSE /\ snapReady' = IF ~ended /\ Amazon /\ polled.memo # {}
                            THEN polled ELSE snapReady
            /\ UNCHANGED <<control, timers, seq, hand, left, unverified,
                           inbound, due>>
    /\ UNCHANGED <<ynab, visible, trusted, mail, sent, consent, auto, touched>>

(* signal_transaction: signal-with-start.                                  *)
OwnerReplies ==
    LET s == [id |-> sent + 1, kind |-> "reply"]
    IN  /\ indexed /\ left["reply"] > 0
        /\ sent' = sent + 1
        /\ consent' = TRUE
        /\ IF ended
           THEN /\ left["run"] > 0
                /\ left' = [left EXCEPT !["reply"] = @ - 1, !["run"] = @ - 1]
                /\ Born(<<s>>)
           ELSE /\ Spend("reply")
                /\ inbound' = Append(inbound, s)
                /\ due' = due \cup {s.id}
                /\ UNCHANGED <<control, mirror, hand, unverified>>
    /\ UNCHANGED <<world, mail, auto, touched>>

(* signal_match: only a running W2 is signalled; otherwise W4 folds the    *)
(* items into the memo itself.                                             *)
ReceiptMatched ==
    /\ visible /\ Spend("receipt")
    /\ sent' = sent + 1
    /\ IF ended
       THEN /\ ynab' = [ynab EXCEPT !.memo = @ \cup {"items"}]
            /\ UNCHANGED <<inbound, due>>
       ELSE /\ inbound' = Append(inbound,
                                 [id |-> sent + 1, kind |-> "receipt"])
            /\ due' = due \cup {sent + 1}
            /\ UNCHANGED ynab
    /\ UNCHANGED <<visible, trusted, polled, mail, control, mirror, hand,
                   ghost>>

(* The owner files the charge in the YNAB app.                             *)
OwnerEdits ==
    /\ visible /\ Spend("edit")
    /\ \E a \in Allocs \cup {NoAlloc}, ok \in {ynab.approved, TRUE} :
         /\ <<a, ok>> # <<ynab.alloc, ynab.approved>>
         /\ ynab' = [ynab EXCEPT !.alloc = a, !.approved = ok]
         /\ consent' = (consent \/ ok)
    /\ touched' = TRUE
    /\ UNCHANGED <<visible, trusted, polled, mail, control, mirror, hand, sent,
                   auto, unverified, inbound, due>>

OwnerReconciles ==
    /\ visible /\ ~ynab.reconciled /\ Spend("edit")
    /\ ynab' = [ynab EXCEPT !.reconciled = TRUE]
    /\ UNCHANGED <<visible, trusted, polled, mail, control, mirror, hand, sent,
                   ghost, inbound, due>>

OwnerDeletes ==
    /\ visible /\ Spend("delete")
    /\ visible' = FALSE
    /\ touched' = TRUE
    /\ UNCHANGED <<ynab, trusted, polled, mail, control, mirror, hand, sent,
                   consent, auto, unverified, inbound, due>>

(* The Amazon item detail arrives in the memo.                             *)
MemoBackfills ==
    /\ Amazon /\ visible /\ "import" \notin ynab.memo
    /\ ynab' = [ynab EXCEPT !.memo = @ \cup {"import"}]
    /\ UNCHANGED <<visible, trusted, polled, mail, control, mirror, hand, env,
                   ghost, inbound, due>>

(* What the workflow does when it is not interfered with.                  *)
Workflow ==
    \/ EndDispatch \/ RunTimer \/ RunReplay \/ RunCommit \/ ReadBack
    \/ RunOpenThread \/ RunSend \/ RunFeed \/ RunCloseOrRecord
    \/ FetchSnapshot \/ TakeSnapshot \/ BufferInbound
    \/ HoldBackfilled \/ HoldInterrupted \/ HoldExpires
    \/ GateOpens \/ GateAsks
    \/ PatienceExpires \/ TakeReply \/ Clarify \/ Answer
    \/ Reopen \/ OpenWindowPasses \/ ArchiveOrOverride \/ LapsedWindowPasses
    \/ ConvergeBlocked \/ ConvergeReceipt \/ ConvergeNothing \/ ConvergeReply
    \/ ConvergeWrite \/ ConvergeVerify \/ GoneFails

Interference ==
    \/ LostCommit \/ LostSend \/ LostConverge \/ ActivityFails \/ ContinueAsNew

Environment ==
    \/ PollFetch \/ PollAddress \/ OwnerReplies \/ ReceiptMatched
    \/ OwnerEdits \/ OwnerReconciles \/ OwnerDeletes \/ MemoBackfills

Next == Workflow \/ Interference \/ Environment

Spec == Init /\ [][Next]_vars

(* Temporal keeps a run going: its timers fire and its activities are      *)
(* executed.  Nobody promises that the owner or the world ever acts.       *)
FairSpec == Spec /\ WF_vars(Workflow)
=============================================================================
