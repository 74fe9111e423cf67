------------------------------ MODULE Overspend -------------------------------
(***************************************************************************)
(* The projection and the alert rule of the overspend monitor              *)
(* (budget/overspend.py) and the memory it is held against                 *)
(* (budget/ledger.py).  Amounts are whole units; the ledger is a set with  *)
(* at most one entry per category, which also keeps the figures the alert  *)
(* was about, for the properties.                                          *)
(***************************************************************************)
EXTENDS Integers, FiniteSets, FiniteSetsExt

CONSTANTS MonthLength,   \* days_in_month
          Threshold      \* OverspendPolicy.trend_threshold

ASSUME OverspendAssumption == {MonthLength, Threshold} \subseteq Nat \ {0}

Days     == 1 .. MonthLength
Verdicts == {"ok", "trending_over", "already_over"}

(* CategorySpend.  The balance is what YNAB calls available.               *)
Figures == [budgeted : Nat, carried : Nat, activity : Int, scheduled : Nat]
Available(f) == f.budgeted + f.carried + f.activity

Greater(a, b) == IF a > b THEN a ELSE b

SpentMagnitude(f) == Greater(-f.activity, 0)

(* Outflows due from today to the month's end, for one category.           *)
ScheduledRemaining(bills, c, today) ==
    MapThenSumSet(LAMBDA b : -b.amount,
                  {b \in bills : b.category = c /\ b.amount < 0
                                 /\ b.due >= today})

(* The burn rate and the plan, weighed by how far the month has gone.      *)
ProjectSpend(f, day) ==
    LET spent   == SpentMagnitude(f)
        runRate == (spent * MonthLength) \div day
        anchor  == Greater(f.budgeted, spent)
        blend   == (day * runRate + (MonthLength - day) * anchor)
                      \div MonthLength
    IN  Greater(blend, spent) + f.scheduled

(* Mutant of Assess: what is over is judged by the projection alone.       *)
Ranked(f, remaining, isOver) ==
    IF isOver THEN "already_over"
    ELSE IF remaining - Available(f) > Threshold THEN "trending_over"
    ELSE "ok"
AssessProjected(f, day) ==
    LET projected == ProjectSpend(f, day)
        remaining == projected - SpentMagnitude(f)
    IN  [verdict   |-> Ranked(f, remaining, FALSE),
         projected |-> projected,
         shortfall |-> Greater(remaining - Available(f), 0)]
Assess(f, day) ==
    LET projected == ProjectSpend(f, day)
        remaining == projected - SpentMagnitude(f)
    IN  [verdict   |-> Ranked(f, remaining, Available(f) < 0),
         projected |-> projected,
         shortfall |-> Greater(remaining - Available(f), 0)]

Escalated(a, prior) ==
    a.verdict = "already_over" /\ prior.verdict # "already_over"

(* Mutant of Worsened: any change of the projection is news.               *)
Moved(a, prior)    == a.projected # prior.projected
Worsened(a, prior) == a.projected - prior.projected > Threshold

Worse(a, prior) == Escalated(a, prior) \/ Worsened(a, prior)

(* priors: the prior alert, if there is one, as a set.                     *)
ShouldAlert(a, priors) ==
    a.verdict # "ok" /\ \A p \in priors : Worse(a, p)

Prior(ledger, c, period) ==
    {e.alert : e \in {x \in ledger : x.category = c /\ x.period = period}}

Record(ledger, c, period, alert, figure) ==
    {e \in ledger : e.category # c}
    \cup {[category |-> c, period |-> period, alert |-> alert,
           figure |-> figure]}
===============================================================================
