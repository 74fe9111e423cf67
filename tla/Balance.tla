------------------------------- MODULE Balance --------------------------------
(***************************************************************************)
(* W7, the coverage offer of one budget month: workflow/                   *)
(* balance_workflow.py with its activities (balance_activities.py) and the *)
(* budget calls of ynab/client.py, next to an owner who replies, spends    *)
(* and edits the same budget, and a month that ends.                       *)
(*                                                                         *)
(* The workflow is started once a month (REJECT_DUPLICATE).  Every budget  *)
(* call is made for YNAB's current month, whichever that is when the call  *)
(* arrives.  A reply means what the interpreter reads in it.               *)
(***************************************************************************)
EXTENDS Coverage, FiniteSets

CONSTANTS MovesPerDay,  \* the floor's moves_per_day_cap
          Largest,      \* bound: the largest budgeted amount
          Committed,    \* what a category has spent and will spend at first
          Pool,         \* amounts Ready-to-Assign may hold at first
          Dues,         \* amounts one category may have scheduled
          Bounds        \* how often each thing may happen (see Kinds)

(* reply: of the owner.  change: by the owner, to a category's budget or   *)
(* to its spending.  lost: completions of a write lost.  fault: terminal   *)
(* failures.  month: the month ends.                                       *)
Kinds == {"reply", "change", "lost", "fault", "month"}

ASSUME BalanceAssumption ==
    /\ MovesPerDay \in Nat /\ Largest \in Nat /\ Committed \in Nat
    /\ Pool \subseteq Nat /\ Dues \subseteq Nat
    /\ Bounds \in [Kinds -> Nat]

Months   == 1 .. Bounds["month"] + 1
Verdicts == {"apply", "decline", "clarify"}

(* Where the workflow stands, and how it ended.                            *)
Pcs == {"propose", "open", "wait", "clock", "read", "write", "verify", "tell",
        "closed"}
Refusals == {"could-not-cover", "timed-out", "declined", "stale-period",
             "over-cap", "rejected"}
Outcomes == Refusals \cup {"none", "applied", "verify-failed", "failed"}

VARIABLES
    month,      \* the current month; the offer is for the first
    budgeted,   \* YNAB: the amount budgeted, by month and category
    committed,  \* YNAB: spending so far and still projected from it
    scheduled,  \* YNAB: outflows scheduled for the rest of the month
    income,     \* YNAB: what there is to budget
    pc, outcome,
    needs,      \* the assessments the workflow was started with
    moves,      \* the plan it offered
    baseline,   \* the budgets read before writing
    todo,       \* the categories still to write
    verified,   \* every read-back so far was as asked
    replies,    \* the owner's replies, queued
    late,       \* the offer's deadline has passed
    wrote,      \* categories written, with the month they were written in
    meddled,    \* the owner has changed the budget, or the month, since
    left        \* what remains of Bounds

ynab  == <<month, budgeted, committed, scheduled, income>>
asked == <<needs, moves>>
apply == <<baseline, todo, verified, wrote>>
inbox == <<replies, late>>
vars  == <<ynab, pc, outcome, asked, apply, inbox, meddled, left>>

Use(k) == left[k] > 0 /\ left' = [left EXCEPT ![k] = @ - 1]

(* The balancer reads the categories alone, the monitor the scheduled      *)
(* transactions as well.                                                   *)
Excess  == [c \in Categories |-> budgeted[month][c] - committed[c]]
Outlook == [c \in Categories |-> Excess[c] - scheduled[c]]
Rta == income - Total([i \in DOMAIN Cats |-> budgeted[month][Cats[i]]])

Close(o) == pc' = "closed" /\ outcome' = o

----------------------------------------------------------------------------
Propose ==
    /\ pc = "propose"
    /\ moves' = PlanCoverage(needs, SourcesOf(Excess, Rta, needs),
                             Drawable(Excess, Rta))
    /\ meddled' = FALSE
    /\ IF moves' = <<>> THEN Close("could-not-cover")
       ELSE pc' = "open" /\ UNCHANGED outcome
    /\ UNCHANGED <<ynab, needs, apply, inbox, left>>

(* The thread is opened and indexed, and the deadline set.                 *)
Open ==
    /\ pc = "open"
    /\ pc' = "wait"
    /\ UNCHANGED <<ynab, outcome, asked, apply, inbox, meddled, left>>

Decide(verdict) ==
    CASE verdict = "apply"   -> pc' = "clock" /\ UNCHANGED outcome
      [] verdict = "decline" -> Close("declined")
      [] verdict = "clarify" -> UNCHANGED <<pc, outcome>>

TakeReply ==
    /\ pc = "wait" /\ replies # <<>> /\ ~late
    /\ replies' = Tail(replies)
    /\ Decide(Head(replies))
    /\ UNCHANGED <<ynab, asked, apply, late, meddled, left>>

(* A wait begun after its deadline times out although a reply is queued.   *)
(* Mutant of Lapse: a queued reply holds it up.                            *)
LapseIfQuiet ==
    /\ pc = "wait" /\ late /\ replies = <<>>
    /\ Close("timed-out")
    /\ UNCHANGED <<ynab, asked, apply, inbox, meddled, left>>
Lapse ==
    /\ pc = "wait" /\ late
    /\ Close("timed-out")
    /\ UNCHANGED <<ynab, asked, apply, inbox, meddled, left>>

CheckPeriod ==
    /\ pc = "clock"
    /\ \/ month # 1 /\ Close("stale-period")
       \/ month = 1 /\ Len(moves) > MovesPerDay /\ Close("over-cap")
       \/ /\ month = 1 /\ Len(moves) <= MovesPerDay
          /\ pc' = "read" /\ UNCHANGED outcome
    /\ UNCHANGED <<ynab, asked, apply, inbox, meddled, left>>

ReadState ==
    /\ pc = "read"
    /\ baseline' = budgeted[month]
    /\ meddled' = FALSE
    /\ IF CheckMoves(moves, Drawable(Excess, Rta))
       THEN /\ pc' = "write" /\ UNCHANGED outcome
            /\ todo' = Touched(moves)
       ELSE Close("rejected") /\ UNCHANGED todo
    /\ UNCHANGED <<ynab, asked, verified, wrote, inbox, left>>

Target(c) == baseline[c] + Change(moves, c)

(* There is always something to write: no donor has a need of its own, so  *)
(* what a plan gives to a need is not taken back.  (Mutant of SetBudget:   *)
(* the change is added to what is there.)                                  *)
AddBudget ==
    /\ pc = "write"
    /\ budgeted' = [budgeted EXCEPT ![month][Head(todo)] =
                                       @ + Change(moves, Head(todo))]
    /\ wrote' = wrote \cup {<<month, Head(todo)>>}
    /\ pc' = "verify"
    /\ UNCHANGED <<month, committed, scheduled, income, outcome, asked,
                   baseline, todo, verified, inbox, meddled, left>>
SetBudget ==
    /\ pc = "write"
    /\ budgeted' = [budgeted EXCEPT ![month][Head(todo)] = Target(Head(todo))]
    /\ wrote' = wrote \cup {<<month, Head(todo)>>}
    /\ pc' = "verify"
    /\ UNCHANGED <<month, committed, scheduled, income, outcome, asked,
                   baseline, todo, verified, inbox, meddled, left>>

ReadBack ==
    /\ pc = "verify"
    /\ verified' = (verified
                    /\ budgeted[month][Head(todo)] = Target(Head(todo)))
    /\ todo' = Tail(todo)
    /\ pc' = IF todo' = <<>> THEN "tell" ELSE "write"
    /\ UNCHANGED <<ynab, outcome, asked, baseline, wrote, inbox, meddled, left>>

(* The attempt dies between its write and its completion and is run again. *)
RepeatWrite ==
    /\ pc = "verify" /\ Use("lost")
    /\ pc' = "write"
    /\ UNCHANGED <<ynab, outcome, asked, apply, inbox, meddled>>

(* The audit entries and the owner's email.                                *)
TellOutcome ==
    /\ pc = "tell"
    /\ Close(IF verified THEN "applied" ELSE "verify-failed")
    /\ UNCHANGED <<ynab, asked, apply, inbox, meddled, left>>

(* An activity fails on every attempt: the owner is paged, and what was    *)
(* written stays written.                                                  *)
Fail ==
    /\ pc # "closed" /\ Use("fault")
    /\ Close("failed")
    /\ UNCHANGED <<ynab, asked, apply, inbox, meddled>>

Step == \/ Propose   \/ Open      \/ TakeReply \/ Lapse
        \/ CheckPeriod \/ ReadState \/ SetBudget
        \/ ReadBack  \/ RepeatWrite \/ TellOutcome
----------------------------------------------------------------------------
Reply(verdict) ==
    /\ pc \notin {"propose", "open", "closed"} /\ Use("reply")
    /\ replies' = Append(replies, verdict)
    /\ UNCHANGED <<ynab, pc, outcome, asked, apply, late, meddled>>

DeadlinePasses ==
    /\ pc \notin {"propose", "open", "closed"} /\ ~late
    /\ late' = TRUE
    /\ UNCHANGED <<ynab, pc, outcome, asked, apply, replies, meddled, left>>

OwnerEdits(c, amount) ==
    /\ pc # "closed" /\ budgeted[month][c] # amount /\ Use("change")
    /\ budgeted' = [budgeted EXCEPT ![month][c] = amount]
    /\ meddled' = TRUE
    /\ UNCHANGED <<month, committed, scheduled, income, pc, outcome, asked,
                   apply, inbox>>

OwnerSpends(c) ==
    /\ pc # "closed" /\ Use("change")
    /\ committed' = [committed EXCEPT ![c] = @ + 1]
    /\ meddled' = TRUE
    /\ UNCHANGED <<month, budgeted, scheduled, income, pc, outcome, asked,
                   apply, inbox>>

MonthEnds ==
    /\ pc # "closed" /\ Use("month")
    /\ month' = month + 1
    /\ meddled' = TRUE
    /\ UNCHANGED <<budgeted, committed, scheduled, income, pc, outcome, asked,
                   apply, inbox>>

Owner == \/ \E v \in Verdicts : Reply(v)
         \/ \E c \in Categories : \/ OwnerSpends(c)
                                  \/ \E n \in 0 .. Largest : OwnerEdits(c, n)
----------------------------------------------------------------------------
Init ==
    /\ month = 1
    /\ budgeted \in {[m \in Months |-> IF m = 1 THEN b
                                      ELSE [c \in Categories |-> Committed]] :
                        b \in [Categories -> 0 .. Largest]}
    /\ committed = [c \in Categories |-> Committed]
    /\ \E d \in Dues, c \in Categories :
          scheduled = [x \in Categories |-> IF x = c THEN d ELSE 0]
    /\ \E rta \in Pool :
          income = rta + Total([i \in DOMAIN Cats |-> budgeted[1][Cats[i]]])
    /\ needs = NeedsOf(Outlook) /\ needs # <<>>
    /\ pc = "propose" /\ outcome = "none"
    /\ moves = <<>> /\ baseline = budgeted[1] /\ todo = <<>>
    /\ verified = TRUE /\ wrote = {}
    /\ replies = <<>> /\ late = FALSE
    /\ meddled = FALSE /\ left = Bounds

Next == Step \/ Fail \/ DeadlinePasses \/ Owner \/ MonthEnds

Spec == Init /\ [][Next]_vars

(* Activities are retried to an end and the deadline comes.                *)
FairSpec == Spec /\ WF_vars(Step) /\ WF_vars(DeadlinePasses)
----------------------------------------------------------------------------
TypeOK ==
    /\ month \in Months
    /\ budgeted \in [Months -> [Categories -> Int]]
    /\ {committed, scheduled} \subseteq [Categories -> Nat] /\ income \in Int
    /\ pc \in Pcs /\ outcome \in Outcomes
    /\ needs \in Seq(Need) /\ moves \in Seq(Move)
    /\ baseline \in [Categories -> Int]
    /\ todo \in Seq(Categories) /\ verified \in BOOLEAN
    /\ wrote \subseteq Months \X Categories
    /\ replies \in Seq(Verdicts) /\ late \in BOOLEAN
    /\ meddled \in BOOLEAN /\ left \in [Kinds -> Nat]

(* "double-drain impossible": whatever has changed since the monitor's     *)
(* pass, a plan just made takes no more from any donor than it can spare,  *)
(* takes nothing from a category in need, gives no need more than it lacks *)
(* and leaves a need open only when the pool is empty.                     *)
PlanSound ==
    pc = "open" /\ ~meddled =>
        /\ \A b \in Buckets : Pulled(moves, b) <= Drawable(Excess, Rta)[b]
        /\ \A i \in DOMAIN moves : moves[i].source \notin NeedyOf(needs)
        /\ \A i \in DOMAIN needs :
              LET given == Given(moves, needs[i].category) IN
              \/ given = needs[i].shortfall
              \/ /\ given < needs[i].shortfall
                 /\ \A b \in Buckets \ NeedyOf(needs) :
                       Pulled(moves, b) = Drawable(Excess, Rta)[b]

(* "a write retry never double-applies": a plan written to its end, with   *)
(* nobody else at the budget meanwhile, is verified, and every category    *)
(* stands where the plan puts it.                                          *)
AppliedOnce ==
    outcome \in {"applied", "verify-failed"} /\ ~meddled =>
        /\ outcome = "applied"
        /\ \A c \in Categories : budgeted[month][c] = Target(c)

(* No plan applied to a budget that stood still leaves a donor short of    *)
(* what the figures read for it say it will spend, or Ready-to-Assign      *)
(* overdrawn: the owner's yes may be days old, those figures are not.      *)
DonorsProtected ==
    outcome = "applied" /\ ~meddled =>
        \A i \in DOMAIN moves :
            IF moves[i].source = RTA THEN Rta >= 0
            ELSE Excess[moves[i].source] >= 0

(* An offer that is refused, declined or lapses has written nothing.       *)
RefusedUntouched == outcome \in Refusals => wrote = {}

(* On top of the types: the budget changes by the plan the owner agreed to,*)
(* once, and by nothing else.                                              *)
BudgetAsAgreed == TypeOK /\ AppliedOnce /\ RefusedUntouched

(* Every offer ends.                                                       *)
OfferEnds == <>(pc = "closed")

(* donor_slack of budget/balance.py: "so it is never drained below what it *)
(* still needs", which scheduled outflows are part of.                     *)
DonorsSpared ==
    outcome = "applied" /\ ~meddled =>
        \A i \in DOMAIN moves :
            moves[i].source # RTA => Outlook[moves[i].source] >= 0

(* SPEC.md: "A reply that lands after the month rolls over is refused (it  *)
(* would rewrite the new month's budget)".                                 *)
NewMonthUntouched == \A w \in wrote : w[1] = 1
==============================================================================
