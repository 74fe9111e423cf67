--------------------------- MODULE OverspendMonitor ---------------------------
(***************************************************************************)
(* W6: the daily pass (workflow/monitor_workflow.py) with its activities   *)
(* (monitor_activities.py), the ledger of alerts                           *)
(* (overspend_ledger_workflow.py), the alert threads of mail/client.py and *)
(* the start of W7's offer, next to an owner who spends, is refunded and   *)
(* moves money, bills that post, days and months that pass.                *)
(*                                                                         *)
(* The schedule starts no pass while one runs.  What is computed between   *)
(* two awaits happens with the await before it.                            *)
(***************************************************************************)
EXTENDS Overspend, Sequences

CONSTANTS Cats,      \* the user-facing categories, in order, as a sequence
          Plan,      \* what a month's budget gives each category
          Bills,     \* scheduled transactions: category, amount, due
          Bounds     \* how often each thing may happen (see Kinds)

(* change: of the owner's.  month: the month ends.  lost: completions of   *)
(* an activity lost.  outage: queries unanswered, scheduled reads failed.  *)
(* fault: passes that end in a terminal failure.                           *)
Kinds == {"change", "month", "lost", "outage", "fault"}

Categories == {Cats[i] : i \in DOMAIN Cats}
Place(c)   == CHOOSE i \in DOMAIN Cats : Cats[i] = c

ASSUME MonitorAssumption ==
    /\ Cats \in Seq(STRING)
    /\ Plan \in [Categories -> Nat]
    /\ Bills \subseteq [category : Categories, amount : Int, due : Days]
    /\ IsFiniteSet(Bills)
    /\ Bounds \in [Kinds -> Nat]

Months == 1 .. Bounds["month"] + 1
Pcs    == {"idle", "period", "fetch", "prior", "send", "save", "offer"}

VARIABLES
    month, day,  \* the household's calendar
    figures,     \* YNAB: budgeted, carried and activity, by category
    posted,      \* YNAB: the bills of the month that have posted
    pc,
    period, clock,  \* where in the calendar the pass believes it is
    read, readIn,   \* the figures it read, and in which month
    todo,        \* the flagged categories still to go through
    ledger,      \* the last alert by category, and what it was about
    mails,       \* the alerts sent, in order
    offers,      \* the W7 offers started
    left         \* what remains of Bounds

world == <<month, day, figures, posted>>
pass  == <<period, clock, read, readIn>>
vars  == <<world, pc, pass, todo, ledger, mails, offers, left>>

Use(k)  == left[k] > 0 /\ left' = [left EXCEPT ![k] = @ - 1]
Uses(k) == left[k] < Bounds[k]
(* An activity ends, or its completion is lost and it is run again.        *)
Completes(next) ==
    \/ next /\ UNCHANGED left
    \/ Use("lost") /\ UNCHANGED <<pc, todo>>

Assessed(c) == Assess(read[c], clock)
Flagged     == {c \in Categories : Assessed(c).verdict # "ok"}
Alert(c)    == [verdict |-> Assessed(c).verdict,
                projected |-> Assessed(c).projected]
----------------------------------------------------------------------------
StartPass ==
    /\ pc = "idle"
    /\ pc' = "period"
    /\ UNCHANGED <<world, pass, todo, ledger, mails, offers, left>>

CurrentPeriod ==
    /\ pc = "period"
    /\ period' = month /\ clock' = day
    /\ pc' = "fetch"
    /\ UNCHANGED <<world, read, readIn, todo, ledger, mails, offers, left>>

(* The categories are the live ones, whatever the period; the scheduled    *)
(* read may fail, and then nothing is scheduled.                           *)
FetchSpends ==
    /\ pc = "fetch"
    /\ UNCHANGED <<period, clock>>
    /\ \E bills \in {Bills \ posted, {}} :
          /\ read' = [c \in Categories |->
                        [figures[c] EXCEPT !.scheduled =
                            ScheduledRemaining(bills, c, clock)]]
          /\ IF bills = Bills \ posted THEN UNCHANGED left
             ELSE Use("outage")
    /\ readIn' = month
    /\ todo' = Flagged'
    /\ pc' = IF todo' = {} THEN "idle" ELSE "prior"
    /\ UNCHANGED <<world, ledger, mails, offers>>

(* The categories are gone through in the order of Cats.                   *)
Current == CHOOSE c \in todo : \A d \in todo : Place(c) <= Place(d)

NextCategory ==
    /\ todo' = todo \ {Current}
    /\ pc' = IF todo' = {} THEN "offer" ELSE "prior"

(* Any failure of the query reads as "never alerted".                      *)
LoadPrior ==
    /\ pc = "prior"
    /\ LET c == Current IN
       \E priors \in {Prior(ledger, c, period), {}} :
          /\ IF priors = Prior(ledger, c, period) THEN UNCHANGED left
             ELSE Use("outage")
          /\ IF ShouldAlert(Assessed(c), priors)
             THEN pc' = "send" /\ UNCHANGED todo
             ELSE NextCategory
    /\ UNCHANGED <<world, pass, ledger, mails, offers>>

(* Where the emails of a category's thread of a month stand, and those of   *)
(* them that bear the label of the alert in hand.                          *)
Thread(c, p) ==
    {i \in DOMAIN mails : mails[i].category = c /\ mails[i].period = p}
Labelled(c) == {i \in Thread(c, period) : mails[i].alert = Alert(c)}
Mail(c, opens) ==
    [category |-> c, period |-> period, alert |-> Alert(c), opens |-> opens]

(* alert_on_thread: open the category's thread, or reply on it unless the  *)
(* mailbox already holds this alert.  (Mutants of AlertOnThread: a thread  *)
(* found is taken for the alert sent; a thread is looked for by the        *)
(* alert's label.)                                                         *)
OpenOnce(c) ==
    IF Thread(c, period) = {} THEN Append(mails, Mail(c, TRUE)) ELSE mails
OpenByUpdate(c) ==
    IF Labelled(c) = {} THEN Append(mails, Mail(c, TRUE)) ELSE mails
AlertOnThread(c) ==
    IF Thread(c, period) = {} THEN Append(mails, Mail(c, TRUE))
    ELSE IF Labelled(c) = {} THEN Append(mails, Mail(c, FALSE))
    ELSE mails

SendAlert ==
    /\ pc = "send"
    /\ mails' = AlertOnThread(Current)
    /\ Completes(pc' = "save" /\ UNCHANGED todo)
    /\ UNCHANGED <<world, pass, ledger, offers>>

SaveAlert ==
    /\ pc = "save"
    /\ ledger' = Record(ledger, Current, period, Alert(Current), read[Current])
    /\ Completes(NextCategory)
    /\ UNCHANGED <<world, pass, mails, offers>>

(* One offer a month: a later start of the same id is rejected.            *)
Offer == [period |-> period,
          needs |-> {c \in Flagged : Assessed(c).shortfall > 0}]
StartOffer ==
    /\ pc = "offer"
    /\ offers' = IF Offer.needs = {} \/ \E o \in offers : o.period = period
                 THEN offers ELSE offers \cup {Offer}
    /\ Completes(pc' = "idle" /\ UNCHANGED todo)
    /\ UNCHANGED <<world, pass, ledger, mails>>

(* An activity has failed on every attempt: the pass is over, what it has  *)
(* done stays done, and nobody is told.                                    *)
FailPass ==
    /\ pc # "idle" /\ Use("fault")
    /\ pc' = "idle" /\ todo' = {}
    /\ UNCHANGED <<world, pass, ledger, mails, offers>>

Step == \/ CurrentPeriod \/ FetchSpends \/ LoadPrior
        \/ SendAlert \/ SaveAlert \/ StartOffer
----------------------------------------------------------------------------
Owner(c, f) ==
    /\ figures' = [figures EXCEPT ![c] = f] /\ Use("change")
    /\ UNCHANGED <<month, day, posted, pc, pass, todo, ledger, mails, offers>>

Spend(c)  == Owner(c, [figures[c] EXCEPT !.activity = @ - 2])
Refund(c) == Owner(c, [figures[c] EXCEPT !.activity = @ + 2])
Fund(c)   == Owner(c, [figures[c] EXCEPT !.budgeted = @ + 2])
Defund(c) == figures[c].budgeted >= 2
             /\ Owner(c, [figures[c] EXCEPT !.budgeted = @ - 2])

Post(b) ==
    /\ b \notin posted /\ b.due <= day
    /\ posted' = posted \cup {b}
    /\ figures' = [figures EXCEPT ![b.category].activity = @ + b.amount]
    /\ UNCHANGED <<month, day, pc, pass, todo, ledger, mails, offers, left>>

DayPasses ==
    /\ day < MonthLength
    /\ day' = day + 1
    /\ UNCHANGED <<month, figures, posted, pc, pass, todo, ledger, mails,
                   offers, left>>

(* What is left over is carried; an overdraft is taken from elsewhere.     *)
Opening(c, carried) ==
    [budgeted |-> Plan[c], carried |-> carried, activity |-> 0,
     scheduled |-> 0]
MonthEnds ==
    /\ day = MonthLength /\ posted = Bills /\ Use("month")
    /\ month' = month + 1 /\ day' = 1 /\ posted' = {}
    /\ figures' = [c \in Categories |->
                      Opening(c, Greater(Available(figures[c]), 0))]
    /\ UNCHANGED <<pc, pass, todo, ledger, mails, offers>>
----------------------------------------------------------------------------
Init ==
    /\ month = 1 /\ day = 1 /\ posted = {}
    /\ figures = [c \in Categories |-> Opening(c, 0)]
    /\ pc = "idle" /\ period = 1 /\ clock = 1
    /\ read = figures /\ readIn = 1 /\ todo = {}
    /\ ledger = {} /\ mails = <<>> /\ offers = {}
    /\ left = Bounds

Next == \/ StartPass \/ Step \/ FailPass
        \/ \E c \in Categories : Spend(c) \/ Refund(c) \/ Fund(c) \/ Defund(c)
        \/ \E b \in Bills : Post(b)
        \/ DayPasses \/ MonthEnds

Spec == Init /\ [][Next]_vars

(* The schedule comes round, activities are retried to an end.             *)
Fairness == WF_vars(StartPass) /\ WF_vars(Step)

FairSpec == Spec /\ Fairness
----------------------------------------------------------------------------
Alerts == [verdict : Verdicts \ {"ok"}, projected : Nat]

TypeOK ==
    /\ month \in Months /\ day \in Days /\ posted \subseteq Bills
    /\ figures \in [Categories -> Figures]
    /\ pc \in Pcs /\ period \in Months /\ clock \in Days
    /\ read \in [Categories -> Figures] /\ readIn \in Months
    /\ todo \subseteq Categories
    /\ ledger \subseteq [category : Categories, period : Months,
                         alert : Alerts, figure : Figures]
    /\ mails \in Seq([category : Categories, period : Months, alert : Alerts,
                      opens : BOOLEAN])
    /\ offers \subseteq [period : Months, needs : SUBSET Categories]
    /\ left \in [Kinds -> Nat]

(* What a reader of alert b learns from alert a that is worse.             *)
SaysOver(a, b) == a.verdict = "already_over" /\ b.verdict # "already_over"
SaysMore(a, b) == a.projected > b.projected + Threshold
News(a, b)     == SaysOver(a, b) \/ SaysMore(a, b)

(* What the ledger holds against a later alert is something the owner has  *)
(* been sent, through lost completions, unanswered queries and failed      *)
(* passes: silence is never bought with an email that did not go out.      *)
SavedMeansMailed ==
    \A e \in ledger : \E i \in Thread(e.category, e.period) :
        mails[i].alert = e.alert

(* "One conversation per overspend": a category has one thread a month.    *)
OneThread ==
    \A i, j \in DOMAIN mails :
        mails[i].opens /\ mails[j].opens /\ i # j =>
            mails[i].category # mails[j].category
            \/ mails[i].period # mails[j].period

(* A thread gets another email on news alone, worse than something it has  *)
(* said before, unless a query went unanswered or a pass died with its     *)
(* alert unsaved.                                                          *)
OnlyNews ==
    Uses("outage") \/ Uses("fault") \/
    \A i \in DOMAIN mails :
        mails[i].opens \/ \E j \in 1 .. i - 1 :
            /\ mails[j].category = mails[i].category
            /\ mails[j].period = mails[i].period
            /\ News(mails[i].alert, mails[j].alert)

(* "a quiet category never churns a fresh alert": unless a query went      *)
(* unanswered, a category whose figures are those of its last alert of the *)
(* month is not alerted about again, however the projection moves as days  *)
(* pass.                                                                   *)
QuietNeverChurns ==
    pc = "send" /\ ~Uses("outage") =>
        \A e \in ledger : e.category = Current /\ e.period = period =>
            e.figure # read[Current]

(* A pass that has gone through its categories has left none untold: of    *)
(* each that is over the owner has an email of this month saying so, of    *)
(* each that is trending one at all, and one with a projection no more     *)
(* than the threshold short of today's.                                    *)
Told(c) ==
    /\ \E i \in Thread(c, period) : ~SaysOver(Alert(c), mails[i].alert)
    /\ \E i \in Thread(c, period) : ~SaysMore(Alert(c), mails[i].alert)
OwnerKnows == pc = "offer" => \A c \in Flagged : Told(c)

(* A month's coverage is offered once, and only for categories the owner   *)
(* has an alert of.                                                        *)
OneOffer ==
    /\ \A o, q \in offers : o.period = q.period => o = q
    /\ \A o \in offers : \A c \in o.needs : Thread(c, o.period) # {}

(* Both: whatever is retried, a month opens one conversation of each kind. *)
OncePerMonth == OneThread /\ OneOffer

(* On top of the types: the owner knows what the ledger takes him to know, *)
(* and what there is to know.                                              *)
LedgerBacked == TypeOK /\ SavedMeansMailed /\ OwnerKnows

(* Both: no email but for something that has moved, for the worse.         *)
NewsOnly == OnlyNews /\ QuietNeverChurns

(* Going below zero does not stay unreported: time and again every such    *)
(* category is one the owner has been told of, as over, in that month.     *)
Overdrawn == {c \in Categories : Available(figures[c]) < 0}
OverReported ==
    []<>(\A c \in Overdrawn : \E i \in Thread(c, month) :
            mails[i].alert.verdict = "already_over")

(* budget/ledger.py: "at most once per budget period unless it materially  *)
(* worsens".                                                               *)
AtMostOncePerPeriod ==
    \A c \in Categories, p \in Months :
        \A i \in Thread(c, p) :
            mails[i].opens \/ \E j \in Thread(c, p) :
                j < i /\ News(mails[i].alert, mails[j].alert)

(* budget/message.py: a materially worse re-alert "carries a new label and *)
(* so posts a fresh update on the thread".                                 *)
WorseningPosted ==
    pc = "save" =>
        \E i \in Labelled(Current) : \A j \in Thread(Current, period) : j <= i

(* workflow/monitor_activities.py: one period for a whole pass, so that its *)
(* parts "can never disagree on it across a month boundary": an alert      *)
(* filed under a month is about that month's figures.                      *)
FiguresOfThePeriod == pc \in {"send", "save", "offer"} => readIn = period
===============================================================================
