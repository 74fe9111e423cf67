----------------------------- MODULE AlertLedger -----------------------------
(***************************************************************************)
(* The failure alerts: things that break, the hourly passes that run into  *)
(* them, the activity that pages the operator (alert_activities.py), and   *)
(* the ledger it asks first and tells afterwards                           *)
(* (alert_ledger_workflow.py).  Several activities run at a time.          *)
(***************************************************************************)
EXTENDS AlertRules

CONSTANTS Keys,      \* what alerts are about: a charge, a message, a sender
          Senders,   \* keys several workflows may alert about at once
          Slots,     \* activities at a time
          Bounds     \* how often each thing may happen (see Kinds)

(* breaks: things break or mend.  more: further messages of a sender.      *)
(* outage: the query fails.  refused: ntfy takes no push, or is not        *)
(* configured.  dropped: the record is not delivered.  lost: an attempt    *)
(* dies or times out and is run again.  crowd: no slot within the budget.  *)
Kinds == {"breaks", "more", "outage", "refused", "dropped", "lost", "crowd"}

ASSUME LedgerAssumption ==
    /\ Senders \subseteq Keys /\ IsFiniteSet(Keys) /\ IsFiniteSet(Slots)
    /\ Slots # {} /\ Bounds \in [Kinds -> Nat]

VARIABLES
    broken,   \* what fails now
    fired,    \* what has been run into since the hour began
    act,      \* the activities: what each is about and how far it is
    ledger,   \* the alerts remembered
    pushes,   \* the pages of the last Cooldown
    left

vars == <<broken, fired, act, ledger, pushes, left>>

Use(k)  == left[k] > 0 /\ left' = [left EXCEPT ![k] = @ - 1]
Used(k) == Bounds[k] - left[k]

Idle    == [pc |-> "idle"]
At(pc, key, late) == [pc |-> pc, key |-> key, late |-> late]
Goes(s, pc) ==
    act' = [act EXCEPT ![s] = At(pc, act[s].key, act[s].late)]
Ends(s) == act' = [act EXCEPT ![s] = Idle]
Busy(k) == \E s \in Slots : act[s] # Idle /\ act[s].key = k
----------------------------------------------------------------------------
Break(k) ==
    /\ k \notin broken /\ Use("breaks")
    /\ broken' = broken \cup {k}
    /\ UNCHANGED <<fired, act, ledger, pushes>>

Fix(k) ==
    /\ k \in broken /\ Use("breaks")
    /\ broken' = broken \ {k}
    /\ UNCHANGED <<fired, act, ledger, pushes>>

(* A workflow runs into what is broken and schedules its alert.            *)
Fire(k) ==
    /\ k \in broken
    /\ \/ k \notin fired /\ UNCHANGED left
       \/ k \in fired /\ k \in Senders /\ Use("more")
    /\ Busy(k) => k \in Senders
    /\ \E s \in Slots :
          act[s] = Idle /\ act' = [act EXCEPT ![s] = At("ask", k, FALSE)]
    /\ fired' = fired \cup {k}
    /\ UNCHANGED <<broken, ledger, pushes>>

(* A ledger that cannot be asked is taken for one not started yet.         *)
Ask(s) ==
    /\ act[s].pc = "ask"
    /\ \/ /\ UNCHANGED left
          /\ IF ShouldNotify(ledger, act[s].key) THEN Goes(s, "push")
             ELSE Ends(s)
       \/ Use("outage") /\ Goes(s, "push")
    /\ UNCHANGED <<broken, fired, ledger, pushes>>

(* A push that fails is not recorded.  (Mutant of Push: it is.)            *)
PushAnyway(s) ==
    /\ act[s].pc = "push" /\ Goes(s, "record")
    /\ \/ pushes' = With(pushes, act[s].key) /\ UNCHANGED left
       \/ Use("refused") /\ UNCHANGED pushes
    /\ UNCHANGED <<broken, fired, ledger>>
Push(s) ==
    /\ act[s].pc = "push"
    /\ \/ /\ pushes' = With(pushes, act[s].key)
          /\ Goes(s, "record") /\ UNCHANGED left
       \/ Use("refused") /\ Ends(s) /\ UNCHANGED pushes
    /\ UNCHANGED <<broken, fired, ledger>>

(* A signal that starts the ledger when it is the first.                   *)
RecordAlert(s) ==
    /\ act[s].pc = "record"
    /\ \/ ledger' = Record(ledger, act[s].key) /\ UNCHANGED left
       \/ Use("dropped") /\ UNCHANGED ledger
    /\ Ends(s)
    /\ UNCHANGED <<broken, fired, pushes>>

(* The worker dies in an attempt, and the next asks again.                 *)
Rerun(s) ==
    /\ act[s].pc \in {"push", "record"} /\ Use("lost")
    /\ Goes(s, "ask")
    /\ UNCHANGED <<broken, fired, ledger, pushes>>

(* The budget of an alert is over before its activity has had a slot.      *)
Expire(s) ==
    /\ act[s].pc = "ask" /\ Use("crowd") /\ Ends(s)
    /\ UNCHANGED <<broken, fired, ledger, pushes>>

(* The hour turns once at most during an activity, whose budget is         *)
(* shorter, and what is broken is run into every hour.                     *)
Tick ==
    /\ broken \subseteq fired
    /\ \A s \in Slots : act[s] # Idle => ~act[s].late
    /\ act' = [s \in Slots |->
                  IF act[s] = Idle THEN Idle
                  ELSE At(act[s].pc, act[s].key, TRUE)]
    /\ ledger' = Older(ledger)
    /\ pushes' = Kept(Older(pushes), Cooldown)
    /\ fired' = {}
    /\ UNCHANGED <<broken, left>>
----------------------------------------------------------------------------
Init ==
    /\ broken \in SUBSET Keys /\ fired = {} /\ act = [s \in Slots |-> Idle]
    /\ ledger = {} /\ pushes = {} /\ left = Bounds

Step(s) == Ask(s) \/ Push(s) \/ RecordAlert(s)
Next == \/ \E k \in Keys : Break(k) \/ Fix(k) \/ Fire(k)
        \/ \E s \in Slots : Step(s) \/ Rerun(s) \/ Expire(s)
        \/ Tick

Spec == Init /\ [][Next]_vars

(* Time passes, what is broken is run into, activities are carried out.    *)
Fairness == /\ WF_vars(Tick)
            /\ \A k \in Keys : SF_vars(Fire(k))
            /\ \A s \in Slots : WF_vars(Step(s))

FairSpec == Spec /\ Fairness
----------------------------------------------------------------------------
Remembered == [key : Keys, age : 0 .. Cooldown, nth : Nat]

(* The tail stays bounded: what a cooldown of full windows leaves.         *)
TypeOK ==
    /\ broken \subseteq Keys /\ fired \subseteq Keys
    /\ act \in [Slots -> {Idle} \cup
                [pc : {"ask", "push", "record"}, key : Keys, late : BOOLEAN]]
    /\ ledger \subseteq Remembered
    /\ Cardinality(ledger) <=
          ((Cooldown + Window - 1) \div Window) * (Cap + Cardinality(Slots) - 1)
              + Used("outage")
    /\ pushes \subseteq Remembered
    /\ left \in [Kinds -> Nat]

PagesOf(k) == {p \in pushes : p.key = k}

(* "a given failure key alerts at most once per cooldown", through hours   *)
(* that turn in mid-activity and other keys' alerts: every further page    *)
(* is one query, one record or one completion that failed.  Of a sender    *)
(* there are as many more as are alerted about at once.                    *)
CooldownHolds ==
    \A k \in Keys \ Senders :
        Cardinality(PagesOf(k)) <= 1 + Used("outage") + Used("dropped")
                                     + Used("lost")

(* The flood is bounded: within the window no more pages go out than the   *)
(* cap, what the other slots had in flight when it was reached, and one    *)
(* for every failure of the alert path itself.                             *)
RateBounded ==
    Cardinality(Recent(pushes)) <=
        Cap + Cardinality(Slots) - 1
            + Used("outage") + Used("dropped") + Used("lost")

(* "If it raises (ntfy down) ... we do not record": a key is held back     *)
(* only for a page that went out, at most an hour before it was recorded.  *)
RecordedMeansPushed ==
    \A e \in ledger :
        e.age + 1 < Cooldown =>
            \E p \in pushes : p.key = e.key /\ p.age - e.age \in {0, 1}

(* On top of the types: the ledger's memory and the pages that went out    *)
(* agree as far as dedup and cap need it, neither flooding nor silencing.  *)
PagesSound ==
    TypeOK /\ CooldownHolds /\ RateBounded /\ RecordedMeansPushed

(* What stays broken is paged, and again whenever the cooldown has passed: *)
(* neither the cap, nor a failed push, nor an expired alert silences it    *)
(* for good.                                                               *)
BrokenPaged ==
    \A k \in Keys : k \in broken ~> (k \notin broken \/ PagesOf(k) # {})

(* alert/ledger.py: "no more than N alerts fire in any rolling hour".      *)
RateCapHolds ==
    Cardinality(Recent(pushes)) <= Cap
==============================================================================
