------------------------------ MODULE PollLoop -------------------------------
(***************************************************************************)
(* W1 and its deadman: the poll loop (workflow/poll_workflow.py) over the  *)
(* plan of ingest/plan.py, the operator's poll_starter.py, and the hourly  *)
(* check of deadman_workflow.py that pages when the loop has stopped.      *)
(*                                                                         *)
(* The steps of an alert (module AlertLedger) are one step here.           *)
(***************************************************************************)
EXTENDS AlertRules

CONSTANTS Charges,      \* YNAB transactions
          Backlog,      \* those dated before the loop was first started
          Configured,   \* YNAB_AGENT_INSTALL_DATE predates them all
          Interval,     \* hours between ticks
          MaxTick,      \* hours a tick takes at most when nothing is wrong
          StaleAfter,   \* POLL_STALE_AFTER
          PollBounds    \* how often each thing may happen (see PollKinds)

(* fault: an activity of a tick fails on every attempt.  crowd: an alert   *)
(* expires before it has a slot.  refused: a page does not go out.         *)
(* outage: the deadman cannot reach Temporal.  missed: its probe fails.    *)
(* down: the worker stops.  wedge: an activity hangs.  stop: the operator  *)
(* terminates a loop that runs.  failed: a W2 run fails.                   *)
PollKinds == {"fault", "crowd", "refused", "outage", "missed", "down", "wedge",
          "stop", "failed"}

PollConstants ==
    /\ Backlog \subseteq Charges /\ IsFiniteSet(Charges)
    /\ Configured \in BOOLEAN
    /\ Interval \in Nat \ {0} /\ MaxTick \in Nat \ {0} /\ StaleAfter \in Nat
    /\ Interval + MaxTick <= StaleAfter
    /\ PollBounds \in [PollKinds -> Nat]
ASSUME PollAssumption == PollConstants

VARIABLES
    charge,    \* YNAB: not there yet, unapproved or approved
    today,     \* the charges dated today
    scope,     \* the charges the loop's install date lets in
    w2,        \* the last run of each charge's workflow
    loop,      \* Temporal's status of the poll loop
    pc,        \* where the loop's current run is
    todo,      \* the charges it has planned and not yet addressed
    age, wait, \* hours since that run started, hours left to sleep
    worker,    \* up, down, or up with the loop wedged
    deadman,   \* the hour's check: over, due, or about to page
    pollLedger, \* the alert ledger
    pollLeft

ynab  == <<charge, today>>
tick  == <<pc, todo, age, wait>>
pollVars  == <<ynab, scope, w2, loop, tick, worker, deadman, pollLedger,
               pollLeft>>

PollUse(k)  == pollLeft[k] > 0 /\ pollLeft' = [pollLeft EXCEPT ![k] = @ - 1]
PollUsed(k) == PollBounds[k] - pollLeft[k]

(* _resolve_install_date: the configured date, else today.  (Mutant: the   *)
(* old default reached back over the backlog.)                             *)
ScopeBack == Charges
ScopeFrom == IF Configured THEN Charges ELSE today

(* plan_ingest over what fetch_unapproved returns.                         *)
Planned == {c \in scope : charge[c] = "unapproved"}

(* ALLOW_DUPLICATE_FAILED_ONLY.                                            *)
Startable(status) == status \in {"none", "failed", "terminated"}

(* alert_failure: the page goes out unless held back.                      *)
Page(key) ==
    IF ShouldNotify(pollLedger, key)
    THEN \/ pollLedger' = Record(pollLedger, key) /\ UNCHANGED pollLeft
         \/ PollUse("refused") /\ UNCHANGED pollLedger
    ELSE UNCHANGED <<pollLedger, pollLeft>>
----------------------------------------------------------------------------
Runs(at) == loop = "running" /\ worker = "up" /\ pc = at

Fetch ==
    /\ Runs("fetch")
    /\ todo' = Planned
    /\ pc' = IF todo' = {} THEN "receipts" ELSE "address"
    /\ UNCHANGED <<ynab, scope, w2, loop, age, wait, worker, deadman,
                   pollLedger, pollLeft>>

(* address_transaction: a run that stands makes it a no-op.                *)
Address(c) ==
    /\ Runs("address") /\ c \in todo
    /\ w2' = IF Startable(w2[c]) THEN [w2 EXCEPT ![c] = "running"] ELSE w2
    /\ todo' = todo \ {c}
    /\ pc' = IF todo' = {} THEN "receipts" ELSE "address"
    /\ UNCHANGED <<ynab, scope, loop, age, wait, worker, deadman,
                   pollLedger, pollLeft>>

(* The open receipts are joined again (module ReceiptJoin).                *)
Sleep == pc' = "sleep" /\ wait' = Interval /\ todo' = {}
Receipts ==
    /\ Runs("receipts")
    /\ Sleep
    /\ UNCHANGED <<ynab, scope, w2, loop, age, worker, deadman,
                   pollLedger, pollLeft>>

(* The tick is given up.  (Mutant of TickFails: the loop fails with it.)   *)
TickFailsLoop ==
    /\ \E at \in {"fetch", "address", "receipts"} : Runs(at)
    /\ PollUse("fault")
    /\ loop' = "failed"
    /\ UNCHANGED <<ynab, scope, w2, tick, worker, deadman, pollLedger>>
TickFails ==
    /\ \E at \in {"fetch", "address", "receipts"} : Runs(at)
    /\ PollUse("fault")
    /\ pc' = "page"
    /\ UNCHANGED <<ynab, scope, w2, loop, todo, age, wait, worker, deadman,
                   pollLedger>>

(* The alert swallows its own errors, but not the end of its budget.       *)
PageTick ==
    /\ Runs("page")
    /\ \/ Page("w1-poll-tick") /\ Sleep /\ UNCHANGED <<loop, age>>
       \/ PollUse("crowd") /\ loop' = "failed"
          /\ UNCHANGED <<tick, pollLedger>>
    /\ UNCHANGED <<ynab, scope, w2, worker, deadman>>

Restarts == pc' = "fetch" /\ todo' = {} /\ age' = 0 /\ wait' = 0
ContinueAsNew ==
    /\ Runs("sleep") /\ wait = 0
    /\ Restarts
    /\ UNCHANGED <<ynab, scope, w2, loop, worker, deadman,
                   pollLedger, pollLeft>>

LoopStep == \/ Fetch \/ Receipts \/ PageTick \/ ContinueAsNew
            \/ \E c \in Charges : Address(c)
----------------------------------------------------------------------------
(* The operator applies start-poll again: a no-op on a running loop.       *)
StartPoll ==
    /\ Startable(loop)
    /\ loop' = "running" /\ scope' = ScopeFrom
    /\ Restarts
    /\ UNCHANGED <<ynab, w2, worker, deadman, pollLedger, pollLeft>>

Terminate ==
    /\ loop = "running"
    /\ PollUse("stop") \/ (worker = "wedged" /\ UNCHANGED pollLeft)
    /\ loop' = "terminated"
    /\ worker' = IF worker = "wedged" THEN "up" ELSE worker
    /\ UNCHANGED <<ynab, scope, w2, tick, deadman, pollLedger>>

WorkerStops ==
    /\ worker # "down" /\ PollUse("down") /\ worker' = "down"
    /\ UNCHANGED <<ynab, scope, w2, loop, tick, deadman, pollLedger>>
WorkerStarts ==
    /\ worker = "down" /\ worker' = "up"
    /\ UNCHANGED <<ynab, scope, w2, loop, tick, deadman, pollLedger, pollLeft>>

Wedge ==
    /\ worker = "up" /\ loop = "running" /\ PollUse("wedge")
    /\ worker' = "wedged"
    /\ UNCHANGED <<ynab, scope, w2, loop, tick, deadman, pollLedger>>
----------------------------------------------------------------------------
(* check_poll_liveness.  Any failure of the call reads as "does not exist".*)
(* (Mutant of Problem: the status alone is looked at.)                     *)
ProblemByStatus == loop # "running"
Problem == loop # "running" \/ age > StaleAfter

Probe ==
    /\ deadman = "due" /\ worker # "down"
    /\ \/ deadman' = (IF Problem THEN "page" ELSE "over") /\ UNCHANGED pollLeft
       \/ PollUse("outage") /\ deadman' = "page"
       \/ PollUse("missed") /\ deadman' = "over"
    /\ UNCHANGED <<ynab, scope, w2, loop, tick, worker, pollLedger>>

PageDeadman ==
    /\ deadman = "page" /\ worker # "down"
    /\ \/ Page("deadman-poll")
       \/ PollUse("crowd") /\ UNCHANGED pollLedger
    /\ deadman' = "over"
    /\ UNCHANGED <<ynab, scope, w2, loop, tick, worker>>

Deadman == Probe \/ PageDeadman
----------------------------------------------------------------------------
Post(c) ==
    /\ charge[c] = "none"
    /\ charge' = [charge EXCEPT ![c] = "unapproved"]
    /\ today' = today \cup {c} /\ scope' = scope \cup {c}
    /\ UNCHANGED <<w2, loop, tick, worker, deadman, pollLedger, pollLeft>>

Approve(c) ==
    /\ charge[c] = "unapproved"
    /\ charge' = [charge EXCEPT ![c] = "approved"]
    /\ UNCHANGED <<today, scope, w2, loop, tick, worker, deadman, pollLedger,
                   pollLeft>>

(* A W2 run ends (module TxnWorkflow).                                     *)
RunEnds(c, status) ==
    /\ w2[c] = "running" /\ w2' = [w2 EXCEPT ![c] = status]
    /\ UNCHANGED <<ynab, scope, loop, tick, worker, deadman, pollLedger>>
Completes(c) == RunEnds(c, "completed") /\ UNCHANGED pollLeft
Fails(c)     == RunEnds(c, "failed") /\ PollUse("failed")

(* An hour passes: a healthy worker has done what the hour asks of it.     *)
OnTime ==
    worker # "down" =>
        /\ deadman = "over"
        /\ (loop = "running" /\ worker = "up") =>
              (IF pc = "sleep" THEN wait > 0 ELSE age < MaxTick)
Hour ==
    /\ OnTime
    /\ age' = IF age > StaleAfter THEN age ELSE age + 1
    /\ wait' = IF wait > 0 THEN wait - 1 ELSE 0
    /\ deadman' = IF deadman = "over" THEN "due" ELSE deadman
    /\ pollLedger' = Older(pollLedger)
    /\ today' \in {today, {}}
    /\ UNCHANGED <<charge, scope, w2, loop, pc, todo, worker, pollLeft>>
----------------------------------------------------------------------------
PollInit ==
    /\ charge = [c \in Charges |->
                    IF c \in Backlog THEN "unapproved" ELSE "none"]
    /\ today = {} /\ scope = ScopeFrom
    /\ w2 = [c \in Charges |-> "none"]
    /\ loop = "running" /\ pc = "fetch" /\ todo = {} /\ age = 0 /\ wait = 0
    /\ worker = "up" /\ deadman = "over" /\ pollLedger = {}
    /\ pollLeft = PollBounds

Mishap == Terminate \/ WorkerStops \/ Wedge \/ TickFails
PollNext ==
        \/ LoopStep \/ Deadman \/ Mishap
        \/ StartPoll \/ WorkerStarts \/ Hour
        \/ \E c \in Charges :
              Post(c) \/ Approve(c) \/ Completes(c) \/ Fails(c)

PollSpec == PollInit /\ [][PollNext]_pollVars

(* Temporal runs the loop and the check, the worker is brought back up,    *)
(* and time passes.                                                        *)
PollFairness == /\ WF_pollVars(LoopStep) /\ WF_pollVars(Deadman)
                /\ WF_pollVars(WorkerStarts) /\ WF_pollVars(Hour)

FairPollSpec == PollSpec /\ PollFairness

(* Besides, an operator who applies a stopped loop again and terminates a  *)
(* wedged one.                                                             *)
Tended == /\ WF_pollVars(StartPoll)
          /\ WF_pollVars(worker = "wedged" /\ Terminate)
----------------------------------------------------------------------------
Statuses == {"none", "running", "failed", "terminated", "completed"}

PollTypeOK ==
    /\ charge \in [Charges -> {"none", "unapproved", "approved"}]
    /\ today \subseteq Charges /\ scope \subseteq Charges
    /\ w2 \in [Charges -> Statuses] /\ loop \in Statuses
    /\ pc \in {"fetch", "address", "receipts", "page", "sleep"}
    /\ todo \subseteq scope
    /\ age \in 0 .. StaleAfter + 1 /\ wait \in 0 .. Interval
    /\ worker \in {"up", "down", "wedged"}
    /\ deadman \in {"over", "due", "page"}
    /\ pollLedger \subseteq [key : {"w1-poll-tick", "deadman-poll"},
                         age : 0 .. Cooldown, nth : Nat]
    /\ pollLeft \in [PollKinds -> Nat]

Paged == \E e \in pollLedger : e.key = "deadman-poll" /\ e.age < Cooldown
Stopped == loop # "running" \/ worker = "wedged"

(* "The silent stop ... the most dangerous failure": a loop that has been  *)
(* terminated, has failed or is wedged is paged within the cooldown, and   *)
(* again after it, unless it runs again.                                   *)
StopIsPaged == Stopped ~> (Paged \/ ~Stopped)

(* As long as nothing goes wrong the deadman is quiet: a slow tick and the *)
(* sleep after it are never taken for a wedge.                             *)
HealthyNotPaged ==
    (\A k \in PollKinds \ {"failed"} : PollUsed(k) = 0) => ~Paged

(* On top of the types: the deadman pages a loop that has stopped, and no  *)
(* other.                                                                  *)
DeadmanTruthful == [](PollTypeOK /\ HealthyNotPaged) /\ StopIsPaged

(* A charge in scope that is unapproved and has no run, or whose run has   *)
(* failed, gets one, through failed ticks, worker restarts and W2 runs     *)
(* that fail again; a loop that has stopped excuses it.                    *)
Outstanding(c) ==
    charge[c] = "unapproved" /\ w2[c] \in {"none", "failed"}
Addressed ==
    \A c \in Charges :
        Outstanding(c) /\ c \in scope
            ~> \/ ~Outstanding(c)
               \/ PollUsed("crowd") + PollUsed("stop") + PollUsed("wedge") > 0

(* "default ignore everything before install": a charge of the backlog     *)
(* gets no run unless the install date was set to let it in.               *)
BacklogIgnored == ~Configured => \A c \in Backlog : w2[c] = "none"

(* "nothing is lost — the unapproved set is re-derived from YNAB on every  *)
(* tick": with an operator who tends the loop, whatever stops it, a charge *)
(* the install date lets in is addressed.                                  *)
NothingLost ==
    Tended => \A c \in Charges \ Backlog :
                 (Outstanding(c) /\ c \in scope)
                    ~> (~Outstanding(c) \/ c \notin scope)

(* Both: a charge in scope is addressed while the loop runs, and once it   *)
(* runs again.                                                             *)
NothingLeftBehind == Addressed /\ NothingLost

(* And so whatever posts after the install.                                *)
NothingLeftOut ==
    Tended => \A c \in Charges \ Backlog : Outstanding(c) ~> ~Outstanding(c)

(* workflow/poll_workflow.py: "The continuous loop must outlive any        *)
(* outage".                                                                *)
LoopOutlivesOutage == loop # "failed"
==============================================================================
