--------------------------- MODULE TxnProperties ---------------------------
(***************************************************************************)
(* What the per-transaction workflow promises.                             *)
(***************************************************************************)
EXTENDS TxnWorkflow

(* How often the environment has acted.                                    *)
Used(k) == Bounds[k] - left[k]

Pcs == {"effects", "fetch", "waitSnap", "hold", "enrich", "readback", "await",
        "awaitFlagged", "interpret", "open", "openRead", "openBlocked",
        "lapsed", "lapsedBlocked", "converge", "cvWrite", "cvVerify", "done"}

Statuses == {"none", "running", "wedged", "failed", "completed"}

(* Every variable has its type; in particular the transaction is always    *)
(* one of the ten records of domain/transaction.py, with that record's     *)
(* fields and no others.                                                   *)
TypeOK ==
    /\ ynab \in Snapshot
    /\ visible \in BOOLEAN /\ trusted \in BOOLEAN /\ indexed \in BOOLEAN
    /\ labels \subseteq Nat
    /\ polled \in Snapshot \cup {NoSnap}
    /\ status \in Statuses
    /\ txn \in Transaction
    /\ thread \in BOOLEAN
    /\ timers \subseteq Timers
    /\ inbound \in Seq(Signal)
    /\ snapReady \in Snapshot \cup {NoSnap}
    /\ seq \in Nat
    /\ pc \in Pcs
    /\ todo \in Seq(Effect)
    /\ resume \in {"step", "blocked"}
    /\ sig \in Signal \cup {NoSig}
    /\ draft \in Decision \cup {NoDecision}
    /\ left \in [Kinds -> Nat]
    /\ sent \in Nat
    /\ due \subseteq Nat
    /\ landed \in Nat
    /\ mailFault \subseteq {"swallowed", "doubled"}
    /\ memoOnly \in BOOLEAN
    /\ auto \in Allocs \cup {NoAlloc}
    /\ consent \in BOOLEAN /\ touched \in BOOLEAN /\ unverified \in BOOLEAN

(* The state the machine must be in where the driver is suspended.         *)
StatesAt(p) ==
    CASE p \in {"fetch", "waitSnap"}                   -> {"DISCOVERED"}
      [] p = "hold"                                    -> {"HOLD_AMAZON"}
      [] p = "enrich"                                  -> {"ENRICHING"}
      [] p = "readback"                                -> {"AUTO_APPLIED",
                                                           "APPLIED"}
      [] p \in {"await", "awaitFlagged", "interpret"}  -> {"AWAITING_HUMAN"}
      [] p \in {"open", "openRead", "openBlocked"}     -> {"OPEN"}
      [] p \in {"lapsed", "lapsedBlocked"}             -> {"LAPSED"}
      [] p \in {"converge", "cvWrite", "cvVerify"}     -> {"REVISING"}
      [] p = "done"                                    -> {"ARCHIVED"}
      [] OTHER -> {"DISCOVERED", "HOLD_AMAZON", "ENRICHING", "AUTO_APPLIED",
                   "AWAITING_HUMAN", "APPLIED", "OPEN", "LAPSED", "REVISING",
                   "ARCHIVED"}

(* The driver's place fits the state: wherever a run is suspended, the     *)
(* transaction is in a state that accepts every event that can be          *)
(* dispatched from there, so no event (and no signal taken to make one) is *)
(* rejected, and the loop never spins in a state that is only passed       *)
(* through (txn_workflow.py:223-241).                                      *)
ControlMatchesState ==
    /\ txn.state \in StatesAt(pc)
    /\ pc = "effects" /\ txn.state \in {"AUTO_APPLIED", "APPLIED"}
         => todo # <<>> /\ Head(todo).k = "Commit"
    /\ \A i \in DOMAIN todo : todo[i].k = "Commit" =>
         i = 1 /\ txn.state \in {"AUTO_APPLIED", "APPLIED"} /\ pc = "effects"

(* The driver's mirror of the thread id is the state's (_sync_thread_id).  *)
ThreadMirrored == thread = ThreadOf(txn)

(* The driver and the state machine agree, on where they are and on the    *)
(* thread that belongs to the charge.                                      *)
DriverInStep == ControlMatchesState /\ ThreadMirrored

(* Silence is never consent: no sequence of receipts, deadlines, retries,  *)
(* failures and restarts approves a charge unless the owner approved it in *)
(* YNAB, replied about it, or a rule the owner blessed gated it.           *)
SilenceIsNotConsent == ynab.approved => consent

(* At rest in OPEN, and unless the owner edited YNAB after the agent last  *)
(* read it, YNAB holds the category the decision names, approved.          *)
OpenIsVerified ==
    status = "running" /\ pc \in {"open", "openBlocked"} /\ ~touched =>
        ynab.alloc = txn.decision.alloc /\ ynab.approved

(* After a write that has not read back as written, a run that is waiting  *)
(* waits for the owner, flagged: it never rests and never lapses.          *)
UnverifiedAwaitsOwner ==
    status = "running" /\ unverified
      /\ pc \in {"hold", "await", "awaitFlagged", "open", "openBlocked",
                 "lapsed", "lapsedBlocked"} =>
        txn.state = "AWAITING_HUMAN" /\ txn.flag # "NONE"

(* Both: a charge is at rest on a verified write or in the owner's hands.  *)
RestIsVerified == OpenIsVerified /\ UnverifiedAwaitsOwner

(* The signals a run holds, oldest first: those an unexecuted ReplayBuffered*)
(* puts back (the last effect of its dispatch), those DISCOVERED buffers,  *)
(* those queued.                                                           *)
Replayed == IF todo # <<>> /\ todo[Len(todo)].k = "Replay"
            THEN todo[Len(todo)].sigs ELSE <<>>

Held == (IF txn.state = "DISCOVERED" THEN txn.pending ELSE <<>>)
          \o Replayed \o inbound

(* A live run neither loses a delivered signal nor acts on one twice, and  *)
(* it keeps them in the order they came, through buffering in DISCOVERED,  *)
(* the Amazon hold and their replay.                                       *)
SignalsKeptInOrder ==
    ~ended => /\ Ids(Held) = due
              /\ \A i, j \in DOMAIN Held : i < j => Held[i].id < Held[j].id

(* A retried send never emails twice.                                      *)
NoDoubleEmail == "doubled" \notin mailFault

(* Every send a first run's lifecycle asks for reaches the owner: no send  *)
(* is taken for one already made (mail/client.py:223).  (A run started     *)
(* again counts its sends from one and meets the labels of the first.)     *)
NoSwallowedEmail == Used("run") <= 1 => "swallowed" \notin mailFault

(* Both: an email asked for goes out, once, whatever is lost.              *)
EachEmailOnce == NoDoubleEmail /\ NoSwallowedEmail

(* A divergence the owner is asked to settle is the owner's: the agent is  *)
(* never shown its own write as somebody else's edit (classify_verify and  *)
(* precommit_action).                                                      *)
DivergenceIsReal ==
    status = "running" /\ txn.state = "AWAITING_HUMAN"
      /\ txn.flag = "DIVERGED" => touched

(* -- Refinement ---------------------------------------------------------- *)
(* A run that fails closing the thread of an archived charge has closed it.*)
Phase ==
    IF status = "none" THEN "untracked"
    ELSE IF txn.state = "ARCHIVED" THEN "closed"
    ELSE IF status \in {"failed", "wedged"} THEN "broken"
    ELSE CASE txn.state \in {"DISCOVERED", "HOLD_AMAZON",
                             "ENRICHING"}               -> "triage"
           [] txn.state \in {"AUTO_APPLIED", "APPLIED",
                             "REVISING"}                -> "working"
           [] txn.state = "AWAITING_HUMAN"              ->
                IF txn.flag = "NONE" THEN "asking" ELSE "flagged"
           [] txn.state = "OPEN"                        -> "settled"
           [] txn.state = "LAPSED"                      -> "handedBack"

Contract == INSTANCE TxnContract WITH phase <- Phase

(* The workflow keeps the contract of the lifecycle (TxnContract).         *)
KeepsContract == Contract!Spec

(* -- Liveness (under FairSpec) ------------------------------------------- *)

(* A delivered signal is eventually acted on, unless the run ends first or *)
(* YNAB no longer returns the charge (a run that has never fetched it then *)
(* waits for a snapshot for ever).                                         *)
SignalsActedOn ==
    \A i \in 1 .. (Bounds["reply"] + Bounds["receipt"]) :
        (status = "running" /\ i \in due)
          ~> (status # "running" \/ i \notin due \/ ~visible)

(* The Amazon hold is bounded by its deadline, whether or not the memo is  *)
(* ever backfilled; nothing sends a transaction back to it.                *)
HoldEnds == []<>(status = "running" => txn.state # "HOLD_AMAZON")

(* A question does not stay open for ever in silence: it is answered or it *)
(* lapses.  (A flagged one waits for the owner as long as it takes.)       *)
QuestionsEnd ==
    (status = "running" /\ txn.state = "AWAITING_HUMAN" /\ txn.flag = "NONE")
      ~> ~(status = "running" /\ txn.state = "AWAITING_HUMAN"
             /\ txn.flag = "NONE")

(* Both: neither the poll's backfill nor the owner can keep a run waiting. *)
NoEndlessWait == HoldEnds /\ QuestionsEnd

(* -- Statements of the documentation the code does not keep -------------- *)

(* "Approval is preserved, never granted ... (a LAPSED reopen reaches here *)
(* too)" (activities.py:598-600), and yet the run goes on.                 *)
NeverWedged == status # "wedged"

(* A memo_only revision is one where "just the memo should change"         *)
(* (agentic/converge.py:73); a receipt's write is "memo-only by            *)
(* construction" (activities.py:622).                                      *)
MemoOnlyKeepsCategory ==
    [][ConvergeWrite /\ memoOnly => ynab'.alloc = ynab.alloc]_vars

(* "A transaction that is reconciled ... must not be silently un-approved  *)
(* or edited" (policy/converge.py:126).                                    *)
ReconciledNotRevised == [][ConvergeWrite => ~ynab.reconciled]_vars

(* "OPEN --> ARCHIVED: inactive > window & reconciled" (SPEC.md:329).      *)
OpenArchives ==
    (status = "running" /\ txn.state = "OPEN" /\ ynab.reconciled)
      ~> (status # "running" \/ txn.state # "OPEN")

(* "Works in any state" (SPEC.md:482): a reply reaches its transaction.    *)
CompletedWithNothingDue == status = "completed" => due = {}

(* "a correction of any auto-action demotes the rule" (SPEC.md:777).       *)
CorrectionDemotes ==
    status = "running" /\ pc = "open" /\ auto # NoAlloc
      /\ txn.decision.by = "HUMAN" /\ txn.decision.alloc # auto => ~trusted

(* "the agent never re-triages ... something already approved"             *)
(* (ingest/plan.py:93).                                                    *)
ApprovedNotRetriaged ==
    status = "running" /\ txn.state = "AUTO_APPLIED"
      => ~txn.core.snap.approved

(* "A late edit is handled by ... re-instantiating a fresh REVISING run"   *)
(* (state_machine.py:656-657).                                             *)
LateReplyRevises ==
    [][status = "completed" /\ status' = "running"
         => txn'.state = "REVISING"]_vars

(* "a needless intermediate write is skipped when the buffer already holds *)
(* its successor" (SPEC.md:363-364).                                       *)
IntermediateWriteSkipped ==
    [][At("converge") /\ pc' = "cvWrite" => inbound = <<>>]_vars
=============================================================================
