# ynab-agent, verified

TLA+ models of ynab-agent: a set of Temporal workflows that watch a YNAB budget,
file its charges, and talk to the budget's owner by email. This directory holds
the models, the TLC configurations that check them on small instances and the
TLAPS proofs that hold for every instance. Paths below are relative to
`src/ynab_agent/` of the repository.

## 1. Inventory

| part | state it keeps | operations | hard behaviour | what makes it correct |
|---|---|---|---|---|
| **Transaction state machine** `domain/state_machine.py`, `domain/transaction.py` | one of ten frozen records | `advance(txn, event)`: next record and a tuple of effects | every state must take every event that can reach it; validators refuse impossible records | typed results, write-first effects, no thread forgotten |
| **Convergence algebra** `policy/converge.py`, `ynab/client.py` | none | `target_of`, `to_patch`, `classify_verify`, `precommit_action` | a retry meeting its own write; an owner's edit in between | own write never reported as a divergence |
| **W2 transaction workflow** `workflow/txn_workflow.py`, `workflow/activities.py` | record, thread id, send counter, signal queue, timers | `submit_inbound`, `notify_snapshot`, the ten `_on_*` handlers, the effects, continue-as-new | signals at any await; lost completions; failed runs started again; a world that moves | no approval in silence, unverified writes flagged, one email per send |
| **W1 poller** `workflow/poll_*.py`, `ingest/`, `poll_starter.py` | the install date the loop was started with | list unapproved, scope, address each, re-check receipts, page on failure, sleep, continue-as-new | acts on a list read earlier; a tick, a page or the loop fails; the loop is started again | the backlog is left alone, a charge in scope gets a run whatever fails |
| **W3 dispatch** `webhook/app.py`, `workflow/dispatch_*.py`, `dispatch/` | none | check and start, classify, look up the thread, route, handle a command | posts repeated, activities repeated as a whole, threads that close and are opened again meanwhile | only the owner acts, one way per message, a reply is heard or paged, answers are honest, no reply brings a closed conversation back |
| **W4 receipt join** `join/`, `workflow/receipt_*.py` | the ledger (at most `LEDGER_CAP` receipts) | `park`, `set_status`, `open_receipts`, one join attempt | stale copies of a receipt, a full ledger, act-then-save | acknowledged receipts kept, statuses backed by deeds, none waits for ever |
| **W5 registry** `learn/`, `workflow/registry_workflow.py`, `offer_*`, `command_*` | the rule table of all payees | `record`, `bless`, `bless_existing`, `revoke`, the offering driver | signals during an offer, redelivery, stale yeses | autonomy is granted, never taken |
| **Gate and floor** `policy/gate.py`, `policy/floor.py`, `policy/auto_action_ledger.py` | the tail of recent auto-actions | `evaluate_gate`, `check_floor`, `record`, `counters` | counters read long before they are acted on | bursts are bounded |
| **Consent conversations** `workflow/offer_*.py`, `workflow/command_*.py`, `mail/client.py` | one run per rule or command, its reply queue, its patience; threads and labels in the mailbox | open a thread, wait, interpret, answer, clarify | attempts die after their effect, replies late, repeated or queued together, a second run with the first one's id and labels | one email per label, a yes blesses once and for its own run, every conversation ends |
| **W6 overspend monitor** `workflow/monitor_*.py`, `workflow/overspend_ledger_workflow.py`, `budget/overspend.py`, `budget/ledger.py` | ledger of alerts by period and category | fetch, assess, dedupe, email or update, save, offer coverage | email sent and save lost, ledger unreachable, month's end inside a pass | the owner is told of what goes over, once unless it worsens |
| **W7 budget balancer** `workflow/balance_*.py`, `budget/balance.py` | one offer a month | plan, offer, interpret, re-check, write, verify | days between plan and yes; retried writes; month's end | no donor drained twice, refusals write nothing |
| **Failure alerts, deadman** `alert/`, `workflow/alert_*`, `workflow/alerting.py`, `deadman_workflow.py`, `notify/` | ledger of pages by key | ask, push, record; hourly probe of the poll loop | alerts that ask before others have recorded, a refused push, a slot that never comes | one page per cooldown, a standing failure is paged, a silent stop is noticed |
| **Dashboard** `dashboard/` | none; one request reads everything | read Temporal and YNAB piece by piece, roll up, list what awaits the owner | pieces read at different times, any of them failing | the masthead was true at some time of the request, nothing that waits is hidden |
| **YNAB and mail clients** `ynab/`, `mail/` | none (labels live in AgentMail) | read, patch, send with a label | echo of a write is not trusted | modelled by what callers see |
| **Agentic steps** `agentic/` | none | one model call each, validated | may answer anything within the validation | a nondeterministic choice |
| **Audit, worker, settings, telemetry** | none that is read back | | | not modelled |

How they interact: the webhook starts W3 with a message. W3 signals W2 (a reply),
the offer or command workflows of W5, W7 (a reply on its thread), or routes a
receipt to W4. W1 starts W2 for every unapproved charge, notifies running ones of
fresh snapshots and restarts joins for open receipts. W4 signals W2 with a match.
W2 writes to YNAB, emails, feeds W5 and records auto-actions; its gate reads W5's
rules and the floor's counters. W6 starts W7 with a month's assessments. Every
workflow pages through the alert activity; the deadman watches W1; the dashboard
queries them all. All share YNAB and the mailbox; the registry, the receipt ledger, the auto-action
ledger and the alert ledgers are singleton workflows that serialise their folds.

## 2. Modules

| module | models | state and actions against the code |
|---|---|---|
| `Converge` | convergence algebra | pure operators; categories are model values or one split, memos are sets of parts |
| `StateMachine` | the state machine | `Advance(t, e)` by the functions `_from_*`; records have the code's fields, dates and texts left out |
| `TxnWorkflow` | W2 and its activities, with W1, W3, W4, the owner, YNAB and the mailbox around it | `pc` is the await the coroutine is suspended at, `todo` the effects a dispatch has still to execute; one action per handler step, activity or lost attempt; `converge` is three actions (read and plan, write, verify) because the owner can edit between them |
| `TxnContract` | what the lifecycle promises the owner | nine phases and one flag; refined by `TxnProperties` through the mapping `Phase` |
| `TxnProperties`, `MCTxn` | properties of `TxnWorkflow`; instances | |
| `AutoBreaker`, `MCBreaker` | the circuit breaker | many charges, each read counters, rule, write, record; the clock in ticks |
| `RuleRegistry`, `MCRegistry` | W5 for one payee | the folds as functions on a sequence of rules; a rule's id is its place. History: `granted`, the yeses given since a rule was last demoted, `reused`, the rules an older yes has blessed since, `asked` |
| `ReceiptJoin`, `MCReceipts` | W4 | the ledger as a set of rows with their place; `route`, `join`, `listed` are where each process stands |
| `Coverage` | the planner of W7 | `plan_coverage`, `check_moves`, `move_targets` as folds |
| `Balance`, `MCBalance` | one offer of W7 | `pc` is the step of `_run` and `_apply`; budgets by month and category |
| `Overspend` | W6's figures | `project`, `severity`, `assess`, `should_alert` as operators over whole numbers |
| `OverspendMonitor`, `MCMonitor` | W6: pass, ledger, alert threads | `pc` is the activity the pass is at; budget, spending and bills move between any two of them; `mailbox` holds the emails with their labels |
| `AlertRules` | alert dedup and rate | `should_notify`, `record` over ages in hours; the remembered tuple as a set, in which `nth` tells entries of one key and age apart |
| `AlertLedger`, `MCAlerts` | the alert activity and its ledger | a slot is one of the worker's activity slots; each holds the key it serves and whether it asks, pushes or records |
| `PollLoop`, `MCPoll` | W1, the starter and the deadman | `loop` is the workflow's status, `pc` the step of a tick, `w2` the status of each charge's run; hours pass by `Hour` |
| `Dispatch`, `MCDispatch` | webhook and W3 | `pc[m]` is the activity the dispatch of message `m` is at; `handle_command` is split at each call it makes. `thread` is the status of each thread's workflow, which may be asked again on the thread it had (`StartConfirm`, `AskAgain`) |
| `ConsentThread`, `MCConsent` | one yes-or-no conversation and its mail thread | `run`, `pc`, `queue` are the workflow; `thread` the emails in order, with sender, addressee and label. History: `used`, the replies the registry was signalled for, `retried`, those delivered late or again or accepted in two attempts |
| `Dashboard`, `MCDashboard` | one request of the dashboard | `seen` is what has been read of each panel; the world moves between readings |
| `*_proofs` | theorems (section 5) on the module of that name; `TxnWorkflow_proofs` also on `StateMachine` and `TxnProperties`, `Balance_proofs` also on `Coverage`, `Autonomy_proofs` on `AutoBreaker`, `RuleRegistry` and `ConsentThread`, `Paging_proofs` on `AlertLedger` and `PollLoop` | modules proved about together share no name but those of what they both extend, so their variables and specifications have names of their own (`PollSpec`, `ConsentSpec`, `BreakerSpec`) |

Definitions that start with a comment "Mutant of ..." are plausible bugs; no
specification uses them, each makes one property fail (PROJECT.json, "mutants").

### Abstractions, and what they cost

* Data: a category is a model value, a split is one value, a memo a set of its
  parts (import detail, receipt items, note). Amounts matter only in W7, where
  they are small whole numbers. Wording, formatting and logging are left out.
* A model's answer is any answer its validation lets through.
* A Temporal activity is one step, except where the interleaving inside it
  matters (`converge`, `route_receipt`, the budget write and its read-back). A
  completion can be lost after the effect landed, and the attempt is repeated.
* A signal is folded when it is sent. Singleton ledgers serialise their folds, so
  the order of arrival is the order of sending by different senders.
* W4: an attempt of an activity is over long before the thirty-day TTL of a
  receipt; `parked_at` orders receipts as their places do, because it is read
  just before the park; the thread note of a direct fold is not kept; the matcher
  may answer anything about the charges posted.
* W7: a category's figure is its excess, balance less projected spend. The
  projection is a number of its own: that `project_spend` leans on the budgeted
  amount early in a month is left out (it makes a donor's slack shrink by less
  than what is taken). The two reads of a propose are one step, as are those of
  the apply-time check. A reply means what the interpreter reads in it.
* W5: one payee. Rules of different payees never meet in a fold. A yes counts from
  when it is first signalled. A command's yes names its category and is about
  whatever rule files under it; an offer's is about the rule as the owner was asked
  about it.
* `ConsentThread`: all runs are about one rule or command, so they share its id
  and its labels, which is where they can get in each other's way. A signal names
  the id alone, so a reply may reach the run it was written to, a later one, or
  both, whenever there is a run. A wait of no
  time at all may end before it has seen a queued reply.
* `OverspendMonitor`: amounts are small whole numbers; a projection is the spent
  amount scaled by the month, as in the code; wording and "days left" are left
  out. A pass is over before the next day's. An entry of the ledger also keeps
  the figure its alert was about: the code does not, no step reads it, and the
  properties need it to say what "the same figures" are. The threshold of a
  worsening is at least one unit (`OverspendAssumption`; it is 25 dollars wherever
  the code builds one): with none, rounding alone could raise the projection of a
  category that spends nothing from one day to the next, and email the owner.
* `AlertRules`, `AlertLedger`: the clock ticks in hours and the ledger keeps ages
  rather than times; an activity meets at most one tick, because its budget is
  ninety seconds (`ALERT_BUDGET`). Entries at least a cooldown old are all one
  age: no rule looks back further. Every key is broken or mended by the
  environment; what it is about does not matter to the rules.
* `PollLoop`: an alert is one step (its own steps are `AlertLedger`). A tick and
  the sleep after it take no longer than `StaleAfter` (`PollAssumption`): in the
  code `POLL_STALE_AFTER` is fixed at three hours while the interval is
  configured, so an operator who sets an interval beyond that is paged for ever.
  A one-shot run is one tick.
* `Dispatch`: what the models read in a message is a nondeterministic choice out
  of the message's `verdicts` and `readings`; headers decide sender and
  autoresponder. A request without a valid signature is refused by the webhook.
  A conversation that is made again (by the agent, once Temporal has forgotten the
  closed run, or as the read-back of a repeated command) takes the mail thread it had,
  which is not stamped until it runs. Which read-back a command is about is left
  open, because the model reads the command.
* `Dashboard`: a request meets at most one turn of the hour; retained runs fit in
  one page (`Retained <= PageCap`). The rule table, the threads, the traces, the
  pull requests and the rendering show what they read and are left out.

## 3. Runs

`tlc -workers 2 -config <run>.cfg <module>.tla`; the module of `MCTxnAmazon` is
`MCTxn`, that of every other run has the run's name. Deadlock is not checked
anywhere: the environment is bounded, so when it has used its bounds and the
workflow waits, the system really stops.

| run | asks | instance, and why it is enough |
|---|---|---|
| `MCTxn` | silence is not consent, no double and no swallowed email, driver and state in step, unverified writes, rest state, honest divergences, the contract | `Faults`: a reply, a receipt, an owner edit, a deletion, a lost completion, a terminal failure and a second run, each between any two steps: the least in which an attempt meets its own effect, a second run the first one's mail, and a reply a run that has no snapshot yet |
| `MCTxnAmazon` | signals in order, liveness | the hold with two receipts, a reply, a deletion and a lost converge attempt: before the snapshot, during the hold, after it |
| `MCBreaker` | the breaker's bounds | four charges against caps 1 and 2, two in flight: the smallest in which both caps and the overlap bite |
| `MCRegistry` | consent, earned eligibility, asked once | two categories, K = 2, three confirmations, a correction, a command, a revocation, a redelivery, a retried and a failed start |
| `MCReceipts` | acknowledged receipts kept, eviction order, statuses backed, every receipt resolves | `Crowded`: three receipts and room for two, so the third parks into a full ledger, and one charge, so a settled row may be younger than a waiting one. `Alone`: one receipt, two charges (the least for an ambiguous verdict), every mishap |
| `MCBalance` | the plan, the writes, refusals, every offer ends | all budgets 0..3 of two categories, Ready-to-Assign 0 or 3, a ceiling of 1 (so that a draw is chunked), two moves a day (so that the cap is met), two replies and one of everything else |
| `MCMonitor` | what is saved was mailed, the owner knows, one offer and one thread a month, emails only for news, what goes over is reported | two categories, a rent that posts, two changes by the owner. `Failing`: a loss, an unanswered read and a failed pass, at any step of either category's alert. `Healthy`: two months and a loss, one category left alone: enough to trend, go over and worsen, then start afresh |
| `MCAlerts` | one page per cooldown, nothing remembered that was not pushed, floods bounded, a standing failure is paged again and again | two keys, two slots, a cap of one, a cooldown of three hours: the smallest with both a race and a cap. `Unasked`: an unreachable ledger. `Dying`: an attempt that dies. `Losing`: refused pushes, lost records, a key that mends and breaks. `Crowded`: a key alerted by two workflows, alerts that expire without a slot |
| `MCPoll` | the backlog is left alone, a charge in scope is addressed and not lost, a stop is paged and a healthy loop is not | one charge of the backlog and one that posts. `Failing`: a failed tick, a failed run, a stopped worker. `Tending`: a failed tick, an expired alert, a termination, a wedge. `Stopping`: termination, wedge, worker down, refused page, failed probe, missed check |
| `MCDispatch` | nothing acts but the owner's word, strangers are paged, one way per message, replies are heard, an answer that says revoked is true, no reply brings a closed conversation back | `Boundary`: a forged request, a stranger and an autoresponder on an offer's thread, a bounce; a failed activity, a full alert queue, a second post. `Replies`: a message on a transaction's thread and one on a balance offer's, a loss, an outage, a failed activity. `Commands`: two messages about one payee on the thread of a read-back, a loss, a second post, a grant meanwhile. Threads are stamped, close and are asked again throughout. A reply that finds its thread closed or not stamped yet may be read as a receipt or a command, so every route crosses every state of a thread |
| `MCDashboard` | the masthead was true at some time of the request, what waits throughout is in the queue | `TheLoop`: one charge, one routing action, three retained failures, a failed reading, the loop stopped and started. `TheQueue`: two charges of which one is looked up (`MaxResolve = 1`), an offer, a query budget of two, YNAB or a query failing |
| `MCConsent` | one email per label, a yes blesses once and for its own run, conversations end | a command sent twice, two replies, two late or repeated deliveries of either to either run, a loss and a failure, stops at any time: the least in which a yes can be delivered again, or accepted again, after a stop or to a run that asked anew |

**Several environments in one run.** Where the last column names environments, the
MC module's `Scoped` is their disjunction and `ScopedSpec` adds `Scoped'` to the
next-state relation: from beginning to end the environment stays within one of
them. `Scoped` restricts only what the environment has done (its mishaps, its
messages, which charges or receipts there are), never a step of the program, so it
does not disable what fairness is promised of, unless it bounds the arrival of
something new. The product of all the bounds would be too large, and each
environment already lets every mishap it contains fall at every step.

Their properties, by name (a name in brackets lists the parts it is the conjunction
of, each stated in its module):

- `MCTxn`: `SilenceIsNotConsent`, `EachEmailOnce` (`NoDoubleEmail`,
  `NoSwallowedEmail`), `DriverInStep` (`ControlMatchesState`, `ThreadMirrored`),
  `RestIsVerified` (`OpenIsVerified`,
  `UnverifiedAwaitsOwner`), `DivergenceIsReal`, `KeepsContract`
- `MCTxnAmazon`: `SignalsKeptInOrder`, `SignalsActedOn`,
  `NoEndlessWait` (`HoldEnds`, `QuestionsEnd`)
- `MCBreaker`: `TailExact` (`CountedOnce`, `NothingForgotten`), `OvershootBounded`
- `MCRegistry`: `GrantedNotTaken`, `EarnedByConfirms`, `AskedOnce`
- `MCReceipts`: `LedgerTruthful` (`TypeOK`, `AckedKept`, `StatusBacked`),
  `OpenEvictedLast`, `ReceiptsResolve`
- `MCBalance`: `PlanSound`, `BudgetAsAgreed` (`TypeOK`, `AppliedOnce`,
  `RefusedUntouched`), `DonorsProtected`, `OfferEnds`
- `MCMonitor`: `LedgerBacked` (`TypeOK`, `SavedMeansMailed`, `OwnerKnows`),
  `OncePerMonth` (`OneThread`, `OneOffer`), `NewsOnly` (`OnlyNews`,
  `QuietNeverChurns`), `OverReported`
- `MCAlerts`: `PagesSound` (`TypeOK`, `CooldownHolds`, `RateBounded`,
  `RecordedMeansPushed`), `BrokenPaged`
- `MCPoll`: `BacklogIgnored`, `DeadmanTruthful` (`PollTypeOK`, `HealthyNotPaged`,
  `StopIsPaged`), `NothingLeftBehind` (`Addressed`, `NothingLost`)
- `MCDispatch`: `OnlyTrustedAct`, `OneWay`, `DoneIsDone`, `NothingDropped`
  (`OfferReplyHeard`, `TxnReplyHeard`, `HeldIsPaged`), `NoOfferResurrected`
- `MCDashboard`: `MastheadSound` (`TypeOK`, `VerdictSound`), `WaitingShown`
- `MCConsent`: `SentOnce`, `OnlyYesBlesses`, `ConversationEnds`

The `TypeOK` of `TxnWorkflow`, `RuleRegistry` and `Dispatch`, `BreakerTypeOK` and
`ConsentTypeOK` are in no run: they are proved for every instance (section 5).

Some properties say less than one might wish, and section 4 shows why:
`NoSwallowedEmail` is about the first run of a charge; `OpenIsVerified` and
`DivergenceIsReal` are checked without a converge attempt that is run again and
read differently; `NothingLost` is about charges the restarted loop has in scope.
`GrantedNotTaken` excuses a rule that an older yes has blessed since it was demoted,
that rule and no other: a yes signalled again, or one to an offer made before. Even
then the rule must have earned its trust anew if the yes was to an offer.
`OnlyYesBlesses` excuses a reply that was itself delivered late or again, or
accepted in two attempts: of every other, it says that it blesses once and for the
run it was written to. `NoOfferResurrected` is what becomes of `signal_offer`'s "so
a closed offer is never resurrected": asking again does bring a conversation back, on
its old thread; a reply never does.
`SignalsActedOn` excepts charges YNAB no longer returns: a run whose charge is
deleted before it was ever fetched waits for a snapshot for ever.

**Fairness.** `TxnWorkflow!FairSpec` is weak fairness of what Temporal itself
drives: activities are retried until they end, timers fire. Nothing is promised
of the owner, the poll or the backfill. `ReceiptJoin!Fairness` adds that the poll
schedule repeats, that some joining attempt under way goes on, that each join in
turn does, and that a receipt ages; `Balance!FairSpec` that the offer's deadline
comes. `OverspendMonitor!Fairness`: the daily schedule starts a pass and its
activities go on. `Dispatch!Fairness`: Temporal goes on with the dispatches there
are; as each ends after a few steps, weak fairness of their union is enough.
`ConsentThread!FairSpec`: an open conversation goes on and its patience ends.
`PollLoop!PollFairness`: the loop and the hourly check go on, a stopped worker is
brought up again, time passes. That the operator the pages call for starts a
stopped loop again and terminates a wedged one is no fairness of the code: it is
the premise `Tended` of `NothingLost`. In all of these what is enabled stays
enabled until taken, so weak fairness is enough. `AlertLedger!Fairness` alone has
strong fairness, of a broken key getting a slot: the slots are shared and are taken
and given back by others, and the worker's queue is first come, first served.

`BrokenPaged` needs a rate cap that the cooldown leaves room in: with two broken
keys, a cap of one and a cooldown of two windows, one of them can hold the cap for
ever, because the other's query may be delayed across the hour; with a cooldown of
three it cannot. The code's figures (five an hour, a cooldown of a day) starve a
key only when more than a hundred others stay broken.

**Refinement.** `KeepsContract` is `TxnContract!Spec` with `phase <- Phase`:
each step of the workflow is a step of the contract or leaves it alone, so after
a write that has not read back as written, only a flagged question follows,
through failures and restarts (a run that stops is alerted: phase "broken").

## 4. Disagreements

Statements of the documentation, comments and docstrings that the code does not
keep. Each is a property defined beside the others, in the module that the MC
module extends, and is in no run; TLC refutes each with the bounds named. To see
the trace, copy the cfg, drop its properties and its SYMMETRY, make it
`SPECIFICATION Spec` (`PollSpec`, `ConsentSpec`, `BreakerSpec`, or what is named), set the constants named, and add the
property.

**Charges** (`MCTxn.cfg`)

| property | constants | what the code does, and what is said of it |
|---|---|---|
| `NeverWedged` | `Blessed = FALSE`, `FirstAllocs = {c1}`, `Bounds <- OneReceipt` | `workflow/activities.py:620` keeps `live.approved` in a receipt's decision, and `_reapply` (`domain/state_machine.py:620`) puts it in an OPEN record, whose validator (`domain/transaction.py:107`) demands an approved one: a receipt for a LAPSED, unapproved charge fails the workflow task for ever. activities.py:602 says "a LAPSED reopen reaches here too" |
| `MemoOnlyKeepsCategory` | `FirstAllocs = {c2}`, `ReplyMemos = {{}, {"note"}}`, `Bounds <- OneReply` | a memo-only revision writes back the category of the snapshot frozen at materialization (`workflow/activities.py:654`); `agentic/converge.py:73` says "`memo_only` if just the memo should change". A receipt's full-record write reverts an owner's edit the same way (`workflow/activities.py:622`) |
| `CorrectionDemotes` | `FirstAllocs = {"none"}`, `Bounds <- TwoReplies` | after a memo-only reply or a receipt, the owner's later correction names no rule (`domain/state_machine.py:597`), so the rule that filed the charge is not demoted; SPEC.md:777 says "a correction of any auto-action demotes the rule" |
| `ReconciledNotRevised` | `FirstAllocs = {c2}`, `Bounds <- ReplyEdit` | the reconciliation guard reads the same frozen snapshot (`workflow/activities.py:584`): a charge reconciled since is edited. `policy/converge.py:126` says it "must not be silently un-approved or edited" |
| `OpenArchives` | `FairSpec`, `Bounds <- OneEdit` | such a charge never archives (SPEC.md:329) |
| `CompletedWithNothingDue` | `FirstAllocs = {c2}`, `Bounds <- ReplyEdit` | a reply that arrives while the archive step reads YNAB dies with the run (`workflow/txn_workflow.py:513`); SPEC.md:482 says the signal-with-start "Works in any state" |
| `LateReplyRevises` | `Bounds <- LateReply` | a reply to a completed run starts in DISCOVERED (`domain/state_machine.py:656`), which buffers it; the same lines of SPEC.md |
| `ApprovedNotRetriaged` | `Bounds <- OneEdit` | a charge approved between the poll's list and the run's fetch is triaged (`workflow/poll_activities.py:77`); `ingest/plan.py:93` says "the agent never re-triages or emails about something already approved" |
| `IntermediateWriteSkipped` | `Bounds <- TwoReplies` | the older of two queued replies is written all the same (SPEC.md:363) |
| `NoSwallowedEmail` without its premise | `Bounds <- Restart` | a restarted run counts its sends from one again and finds the failed run's labels, so its email is taken for sent (`workflow/txn_workflow.py:139`) |
| `OpenIsVerified`, `DivergenceIsReal` | `Bounds <- Reask` | a converge attempt run again may be read differently: it restores the prior decision over the write that landed, or takes that write for an edit of the owner's (`policy/converge.py:177`) |

**Autonomy** (`MCBreaker.cfg`, `MCRegistry.cfg`, `MCConsent.cfg`)

| property | constants | what the code does, and what is said of it |
|---|---|---|
| `CapsHold` | MCBreaker, `Losses = 0` | two enrichments in flight read the same counters; with `Overlap = 1` the caps hold, which is what `workflow/constants.py:68` supposes and `worker.py:56` does not do |
| `CommandTakesEffect` | MCRegistry | `bless_rule` adds a second blessed rule with another action and the gate opens only for exactly one (`policy/gate.py:117`); the owner is told "I'll auto-handle {payee} as {category} from now on" (`agentic/compose.py:123`) |
| `CorrectionDropsToObserve` | MCRegistry | a second blessed rule takes over from the corrected one (SPEC.md:777) |
| `HitsAreConfirms`, `ConsentNotReused` | MCRegistry | a redelivered confirmation counts twice; a redelivered bless survives a revocation (`workflow/constants.py:94`), and with `Bounds <- Stale` a yes to an offer made before a correction blesses a rule that has earned its trust anew. `learn/transitions.py:9` counts "`K` consistent hits of the *same* action"; `workflow/registry_workflow.py:159` says that after a stop "the agent asks again from now on" |
| `OfferedMeansAsked` | MCRegistry, `Bounds <- Revoked` | a revoked rule keeps the mark of its first offer and is never offered again (`learn/registry.py:217`) |
| `ConsentNamesAction` | MCRegistry, `Bounds <- Stale` | a yes to an offer made before a correction blesses the action the rule was rewritten to (`learn/registry.py:174`) |
| `EachYesOnce` | MCConsent, `Mishaps <- Tried` | accepting signals the registry and answers in one activity (`workflow/offer_activities.py:181`): an attempt that dies after the signal repeats it, and undoes a stop the owner asked for in between, "the one-reply undo promise" (`workflow/registry_workflow.py:157`) |
| `EachYesOnce` | MCConsent, `Mishaps <- Late` | a reply is signalled by id, with no run (`workflow/dispatch_activities.py:83`): a yes to an earlier read-back, delivered late, answers the next one, though silence "simply never blesses" (`workflow/command_types.py:25`) |
| `ReadBackSent` | MCConsent, `Mishaps <- Two` | `open_thread` takes any thread with the label (`mail/client.py:192`): a command sent again after its read-back lapsed emails nothing and waits on the old thread. `workflow/command_types.py:34` says "a later command after the confirm closed re-opens a fresh one" |
| `AnswersReachOwner` | MCConsent, `Kind = "offer"`, `Mishaps <- Fast` | an answer that follows the agent's own clarification is addressed to the agent (`workflow/offer_activities.py:192`), the case `mail/client.py:91` warns of |

**Money and receipts** (`MCReceipts.cfg`, `MCBalance.cfg`, `MCMonitor.cfg`)

| property | constants | what the code does, and what is said of it |
|---|---|---|
| `MatchedIsFinal` | MCReceipts, `Receipts = {1}`, `Cap = 1`, `Mishaps = 0` | a join works on the receipt as the poll listed it (`workflow/receipt_workflow.py:51`) and attaches one matched meanwhile to a second charge; `join/match.py:8` says "once MATCHED or EXPIRED it is terminal and re-checks are no-ops" |
| `DonorsSpared` | MCBalance, `Pool = {0}`, `Bounds <- OneReply` | donors are read without their scheduled outflows (`workflow/balance_activities.py:136`), and one is drained of its bill; `budget/balance.py:423` says it is "never drained below what it still needs" |
| `NewMonthUntouched` | MCBalance | the month ends between the period check and the writes (`workflow/balance_workflow.py:241`), which go to the new month; SPEC.md:620 says a late reply "is refused" |
| `AtMostOncePerPeriod` | MCMonitor, `Cats <- OneCat`, `Bounds <- Unanswered` | a ledger that cannot be reached reads as one that has never alerted (`workflow/monitor_activities.py:146`); its docstring says None means "nothing has ever alerted" |
| `WorseningPosted` | MCMonitor, `Cats <- OneCat`, `MonthLength = 3`, `Bounds <- Flapping` | an alert that repeats earlier figures finds its label in the mailbox, is not sent, and is saved as sent (`mail/client.py:270`); `budget/message.py:101` says a re-alert "carries a new label and so posts a fresh update" |
| `FiguresOfThePeriod` | MCMonitor, `Cats <- OneCat`, `Bounds <- Healthy` | a pass across the month's end files the new month's figures under the old one (`workflow/monitor_activities.py:93`); lines 12-15 say the activities "can never disagree on it across a month boundary" |

**Polling, paging, dispatch, dashboard** (`MCAlerts.cfg`, `MCPoll.cfg`, `MCDispatch.cfg`, `MCDashboard.cfg`)

| property | constants | what the code does, and what is said of it |
|---|---|---|
| `RateCapHolds` | MCAlerts, `Senders = {}`, `Bounds <- Healthy` | the cap is asked before others have recorded (`workflow/alert_activities.py:37`); `alert/ledger.py:10` says "no more than N alerts fire in any rolling hour" |
| `LoopOutlivesOutage` | MCPoll, `PollBounds <- Crowded` | an alert that expires without a slot takes the poll loop with it (`workflow/poll_workflow.py:67`); line 53 says the loop "must outlive any outage" |
| `NothingLeftOut` | MCPoll, `FairPollSpec`, `PollBounds <- Restart` | a loop started again without a configured date leaves out what was posted before that day (`poll_starter.py:53`); `workflow/poll_workflow.py:58` says "nothing is lost" |
| `NothingMeansNothing` | MCDispatch, `ScopedSpec` | a repeated attempt answers "nothing changed" to the message whose first attempt revoked (`workflow/dispatch_activities.py:328`); line 303 says the registry is consulted first "so the reply is honest" |
| `NeverSilent` | MCDispatch, `ScopedSpec` | an answer to an offer that closes meanwhile is dropped and nobody is told (`workflow/dispatch_activities.py:83`); `workflow/dispatch_workflow.py:54` says a dropped reply "is never silent" |
| `CaughtUpIsTrue` | MCDashboard, `Bounds <- Silent` | a charge whose query fails leaves the queue, which then says that all is caught up (`dashboard/temporal_source.py:156`); line 342 says a failure "names itself in the error" |
| `OnlyItsPanel` | MCDashboard, `Bounds <- Unread` | any failed Temporal reading shows the agent as down (`dashboard/read_model.py:241`); the same docstring says it "reddens only its panel" |
| `TalliedByAction` | MCDashboard, `Bounds <- Nothing`, `Actions = {receipt, reply}` | a dispatch result read back as a dict is counted under no action (`dashboard/temporal_source.py:258`), whose docstring says it tallies "by routing action" |

## 5. Proofs

`tlapm <module>.tla`; every leaf is checked by Z3, Zenon or LS4.

* `TxnWorkflow_proofs!AdvanceSound`: for every well-typed record and event,
  `Advance` returns a well-typed record and effects, buffers in DISCOVERED with
  no side effect, never forgets a thread, and commits first exactly when it
  enters a writing state. One lemma per source state.
* `TxnWorkflow_proofs!Invariant`: `Spec => []IInv`, for every set of categories,
  memo parts, rule and bounds that satisfies `WorkflowAssumption` and the
  assumptions of `Converge`. `IInv` has five parts: `ControlInv` (where the
  driver is suspended fits the record's state, a commit can only head the
  effects, the thread mirror is right), `WorldInv`, `MailInv`, `HandInv` and
  `EnvInv` (types of the world, the mailbox, what the driver has in hand and
  the environment). `ControlMatchesState` alone is not inductive: a step that ends
  a dispatch must know what the remaining effects can be, and that comes from
  what `AdvanceSound` says of the effects when they were queued.
* From it `TypeCorrect` (`TypeOK`) and `DriverAgrees` (`DriverInStep`:
  `ControlMatchesState` and `ThreadMirrored`), through retries, failures and
  restarts.
* On top of `IInv`, each with a part of its own that every action is shown to keep:
  * `SilenceNeverApproves` (`SilenceIsNotConsent`). `ConsentInv` says that as long
    as the owner has consented to nothing, whatever the run has in hand is mute:
    no effect commits, no queued signal is anything but a receipt, no pending event
    approves, and neither YNAB nor the converge draft is approved. A signal buffered
    before the snapshot, put back, and taken up again stays mute on each leg.
  * `EmailsGoOutOnce` (`EachEmailOnce`). `PlacedInv`: opening the thread is the first
    effect of the dispatch that needs it, putting signals back the last. `MailOnce`:
    a send that has produced its email and lost its completion is the one still to
    execute, and has left its label; a first run finds no label but its own.
  * `SignalsStayInOrder` (`SignalsKeptInOrder`). `HeldInv`: what is buffered, about
    to be put back, queued and in hand, taken together in that order, is exactly
    what is due, each once and in the order of sending.
  * `RestsOnVerdicts` (`RestIsVerified`) and `DivergencesAreReal`
    (`DivergenceIsReal`). `TrustInv` follows a decision through the write: what is
    being written is the decision in hand, and from the write to the verdict,
    nobody else having written, YNAB holds it; so OPEN agrees with YNAB, an
    unverified write stands only where it is still doubted, and a divergence means
    that somebody else wrote.
  * `ContractKept` (`KeepsContract`): the refinement of `TxnContract`. The initial
    state maps to an initial state, and with `IInv` and `TrustInv` each step maps to
    a step of the contract or a stutter: one lemma per source state for what
    `Advance` answers (`Strides`), one per action for the rest.
  The last three are stated under `Used("reask") = 0`: no converge attempt is run
  again and read differently. Without it they are false of the code, which section 4
  shows (`policy/converge.py:177`). `DivergencesAreReal` is for a charge that is not
  Amazon's: during the hold the backfill writes the items into the memo.
* `Autonomy_proofs!BreakerTypeCorrect`, `CountsOnce` and `ForgetsNothing`, which make
  up `TailStaysExact` (`TailExact`): for any number of charges, caps, windows,
  concurrency and losses. `NothingForgotten` is not inductive: a charge whose record
  was lost is taken up again and, if the gate then asks, leaves the set of those in
  flight without a new loss. The invariant `OwedInv` counts every unrecorded write
  no run is about to record, and each action either owes nothing new or takes a loss
  for it.
* `Autonomy_proofs!OvershootStaysBounded` (`OvershootBounded`). The cap is spent
  when the counters are read, not when the charge is written: `BurstInv` bounds the
  writes of a window together with the charges that hold a license to write
  (`Exposed`), by the cap, the concurrency and the losses.
* `Autonomy_proofs!TypeCorrect`, `AutonomyGranted` (`GrantedNotTaken`) and
  `EligibilityEarned` (`EarnedByConfirms`): for any categories, any `K` and any
  sequence of decisions, offers, commands, revokes and repeated deliveries.
  `FoldedSound` says of every pure fold that it keeps rules sound (`RuleSound`: an
  eligible rule has `K` hits, a blessed one is trusted), adds a hit only for a
  confirmation of the same action, and blesses only what the signal is a yes to.
  What it blesses is thereby granted or, the yes being an older one, `reused`, and
  a demotion takes the rule out of both.
  `EarnedByConfirms` is not inductive: a signal still to be delivered again will
  add a hit. `HitsInv` bounds the hits of a rule by the owner's decisions and the
  repeated deliveries, less those still to come (`Slack`), and `AgainInv` says
  that every one of those was paid for.
* `Autonomy_proofs!OffersAskOnce` (`AskedOnce`, an action property). `AskedInv`:
  a rule the owner was asked about is marked, or the driver is on its way to mark
  it, and a start that is retried finds the run it started. `FoldedMarked` says
  that no fold takes the mark off a rule it does not demote.
* `Autonomy_proofs!ConsentTypeCorrect`, `NeverSentTwice` (`SentOnce`) and
  `YesBlesses` (`OnlyYesBlesses`): for any number of runs, replies, losses and
  failures. `QueueInv` says that a queued reply is the owner's and fresh (written
  to this run and not yet used, or else delivered again), and waits once and is not
  being acted on unless it was delivered again; `YesInv` ties a run about to bless to
  such a reply that is a yes.
* `ReceiptJoin_proofs!LedgerStaysTruthful` (`LedgerTruthful`) and `EvictsOpenLast`
  (`OpenEvictedLast`, an action property): for any receipts, charges, capacity and
  mishaps. `IInv` adds to `StatusBacked` that the rows' places are those of a tuple
  (`Ledger`), that a receipt about to be acknowledged is as safe as one that has been
  (`AckInv`: it is in the ledger, or the ledger is full), that what an attempt is
  about to save has been done (`JoinInv`), and that only a receipt whose routing is
  over ages (`AgedInv`), so that no retry parks it afresh.
* `OverspendMonitor_proofs!AlertsStayBacked` (`LedgerBacked`), `OneConversation`
  (`OncePerMonth`) and `NewsStaysNews` (`NewsOnly`): for any categories, figures,
  month length, threshold and mishaps. `IInv` says that the pass is never ahead of
  the calendar (`CalendarInv`); that what is remembered is the assessment, on a day
  gone by, of the figures it is said to be about (`LedgerInv`); that the categories
  a pass has gone through have been told (`PassInv`); that an alert about to be sent
  is news (`SendInv`); and that what the owner was told is remembered, unless a query
  went unanswered or a pass died (`RememberedInv`). `QuietNeverChurns` then rests on
  `SameFiguresNoWorse`: the same figures on a later day are at most one unit worse,
  which is short of a worsening. That the schedule, a fold over the bills, is a number
  is shown without induction: of the sets on which it is none, a smallest would
  have none.
* `Dispatch_proofs!TypeCorrect`, `BoundaryHolds` (`OnlyTrustedAct`), `GoesOneWay`
  (`OneWay`), `OfferReplyArrives` (`OfferReplyHeard`), `SaidAndDone`
  (`DoneIsDone`) and `StaysClosed` (`NoOfferResurrected`): for any messages,
  threads, mishaps and repeated posts. The invariant `MessageInv(m)` says of each
  message what its place in the workflow implies: it has passed the boundary, what
  it has done fits its decision, what it was delivered to, and what it may answer.
  A step of one message leaves the others' parts alone, which is one lemma.
  For `NoOfferResurrected` the steps that touch a thread are taken one by one: a
  command that opens a read-back again has passed the boundary and was delivered to
  no conversation, a transaction's signal-with-start is on no other kind of thread.
* `Paging_proofs!PagesStaySound` (`PagesSound`): for any keys, slots, cooldown,
  window, cap and failures. None of its parts is inductive, because the pages that
  went out are bounded by the ledger only up to what is in flight, and an hour that
  turns makes a page older than the entry that records it. `MatchedInv` therefore
  compares them at every age: for any set of keys and any age, the pages that young
  are no more than the entries that young, the activities about to record one, and
  the records that were lost. `QuietInv` bounds entries and activities in flight of
  one key, `FloodInv` those of all keys over any stretch of hours (so many windows,
  each of at most the cap and the other slots), `SentInv` says that what is about to
  be recorded went out within the hour. The turn of the hour is the step that needs
  counting: `OlderCounts` maps the entries between two ages one to one to those an
  hour younger.
* `Paging_proofs!BacklogStaysIgnored` (`BacklogIgnored`): the invariant adds that no
  charge of the backlog is dated today, in the scope or in the list of a tick.
* `Paging_proofs!HealthyIsNotPaged` (the part of `DeadmanTruthful` that is not
  liveness): for any interval and longest tick that together stay within
  `StaleAfter`. `OnTimeInv` is what is inductive: while nothing has gone wrong, a
  tick that runs is no older than `MaxTick`, and the age of a loop that sleeps,
  together with the hours it has left to sleep, is no more than both.
* `Balance_proofs!PlansStaySound` (`PlanSound`), `AppliesAsAgreed`
  (`BudgetAsAgreed`) and `DonorsStayProtected` (`DonorsProtected`): for any
  categories, ceiling, figures, replies, edits and losses. Three layers:
  * Sums. `FoldLeft` is defined through a recursive function on sets of indices, and
    a definition by recursion says nothing until such a function is shown to exist
    (`FoldExists`, by a largest partial one). From `Folding` come chains: the sums of
    the initial parts of a sequence, and the states of the planner after each need
    and each donor. A fact about every step of a chain holds at its end by `Upward`:
    of the places where it fails, there would be a first. This is induction on
    indices by a smallest counterexample, with sets in place of the operator the
    provers cannot instantiate.
  * The plan. `Drawn`, `CoverGood` and `PlanGreedy`: at each point what a donor has
    given and what it has left add up to what it had, no need has more than its gap,
    and a need that is still open has emptied every donor. `Balances`: the changes
    of a plan add up to what it takes from Ready-to-Assign.
  * The offer. `IInv` adds to `PlanSound` that needs name a category once and the
    plan takes from none (`PlanApart`), how far the workflow is (`Progress`), and, if
    nobody else has been at the budget since it was read, that the figures read bear
    the plan and each category stands at its target or is still to be written
    (`Applying`). A repeated write finds the target it has set, because targets are
    derived from the figures read before the first.
  `Coverage`'s assumption says that categories are distinct and Ready-to-Assign is
  none of them: they are YNAB's ids, and the sentinel is a word that is no id
  (`budget/balance.py:376`).
* `Dashboard_proofs!TypeCorrect`, `MastheadIsTrue` (`MastheadSound`) and
  `WaitingIsShown` (`WaitingShown`): for any charges, offers, retention and failed
  readings. `LoopInv`: a loop that looks fresh now, the hours of the request taken
  off its age, has been seen to tick during the request; `PolledInv` says so of what
  the page holds. `AskedInv`: what has waited all the while is still to be asked or
  on the page. The premises are the limits of the readings: the loop's retained runs
  fit in the page that is read (`Retained <= PageCap`, as in section 2), and the
  charges in the number of queries (`Cardinality(Txns) <= MaxQueries`, 200). Beyond
  either, what is cut off is not shown. Charges and offers are distinct: the
  workflow of a charge has its YNAB id for its own, those of offers have prefixes
  that are no such id.

Only model-checked: liveness and everything under fairness, which is
`SignalsActedOn`, `NoEndlessWait`, `ReceiptsResolve`, `OfferEnds`, `OverReported`,
`BrokenPaged`, `StopIsPaged`, `NothingLeftBehind`, `ConversationEnds` and the part
of `NothingDropped` that something is eventually heard or paged. Every invariant and
action property of a run is stated by a theorem.

## 6. Plan

Order of work, most important behaviour first; what is done is marked.

1. Core: `Converge`, `StateMachine`, `TxnWorkflow`, contract, proofs of types and
   control. **Done.**
2. `AutoBreaker`, `RuleRegistry`: the two gates of autonomy. **Done.**
3. `ReceiptJoin`, `Balance`: the other workflows that write. **Done**, except the
   single-need options of `budget/balance.py`, which no workflow calls.
4. `OverspendMonitor` and `AlertLedger`: the ledgers of W6 and of failure alerts.
   **Done**, as two modules: they differ in all but the order of their steps.
5. `Dispatch`, `PollLoop` with the deadman, `ConsentThread`, `Dashboard`. **Done**;
   of the dashboard, the verdict and the queue.
6. Proofs about `RuleRegistry`, `ConsentThread`, `PollLoop` and `Dispatch`.
   **Done.**
7. Proofs about the properties of `TxnProperties` and the contract,
   `OvershootBounded`, `ReceiptJoin`, `OverspendMonitor` and `AlertLedger`.
   **Done.**
8. Proofs of `Dashboard`, and of `Balance` over the folds of `Coverage`. **Done.**
9. Left: composition of `RuleRegistry`'s gate with `AutoBreaker` and the enrichment
   of `TxnWorkflow`, in place of the constant `Blessed`.

## 7. Not modelled

The audit trail is append-only and nothing reads it. Telemetry, settings and
process start-up configure the rest; the worker's concurrency is the constant
`Overlap` of `AutoBreaker` and `Slots` of `AlertLedger`. HTTP paging, rate limits
and the rendering of emails and pages are below what any property here can see.
The single-need options of `budget/balance.py` and `agentic/balance.py`
(`feasible_options`, `fallback_option`, `validate_option`) are called by no
workflow. The tie-breaking of `policy/resolve.py` has no state and its outcome is
part of what the gate may read.
