---------------------------- MODULE AutoBreaker ----------------------------
(***************************************************************************)
(* The circuit breaker of the hard floor: the durable tail of recent       *)
(* auto-actions (policy/auto_action_ledger.py and its singleton workflow), *)
(* the caps that read it (policy/floor.py), and the enrichments of many    *)
(* transactions that read the tail, write, and only then record.           *)
(*                                                                         *)
(* Every rule is blessed and every amount is under the ceiling here: the   *)
(* breaker alone stands between a transaction and an auto-write.  Time is  *)
(* counted in ticks.                                                       *)
(***************************************************************************)
EXTENDS Naturals, FiniteSets

CONSTANTS Txns,        \* the transactions
          RunCap,      \* per_run_cap
          DayCap,      \* per_day_cap
          RunWindow,   \* "this run" is a rolling window
          DayWindow,   \* "today", and the prune horizon
          Overlap,     \* how many may be between their read and their record
          Losses,      \* bound: ledger unreachable, records lost, runs failed
          MaxTime      \* bound on the clock

ASSUME BreakerAssumption ==
    /\ IsFiniteSet(Txns)
    /\ RunCap \in Nat /\ DayCap \in Nat
    /\ RunWindow \in Nat /\ DayWindow \in Nat /\ RunWindow <= DayWindow
    /\ Overlap \in Nat \ {0} /\ Losses \in Nat /\ MaxTime \in Nat

VARIABLES now,
          entries,   \* the ledger's tail: a set of [id, at]
          stage,     \* of each transaction's run
          counters,  \* what each enrichment read
          acted,     \* when each transaction was last auto-written
          lost       \* losses so far

breakerVars == <<now, entries, stage, counters, acted, lost>>

Stages == {"new", "enriching", "commit", "verified", "asked", "done", "failed"}
Never  == 0   \* the clock starts where no window reaches back to it
Entry  == [id: Txns, at: Nat]

(* record: dedup by id, prune to a day, append.  (Mutant: pruned to the    *)
(* run's window.)                                                          *)
RecordShort(tail, id, at) ==
    {e \in tail : e.id # id /\ at - e.at < RunWindow}
      \cup {[id |-> id, at |-> at]}

Record(tail, id, at) ==
    {e \in tail : e.id # id /\ at - e.at < DayWindow}
      \cup {[id |-> id, at |-> at]}

(* counters, and how check_floor rules on them.                            *)
Within(tail, at, window) == Cardinality({e \in tail : at - e.at < window})

Counters(tail, at) == [this_run |-> Within(tail, at, RunWindow),
                       today    |-> Within(tail, at, DayWindow)]

(* Mutant of CheckFloor: one too many.                                     *)
CheckAbove(c) == IF c.this_run > RunCap \/ c.today > DayCap
                 THEN "TRIP_BREAKER" ELSE "ALLOW"

CheckFloor(c) == IF c.this_run >= RunCap \/ c.today >= DayCap
                 THEN "TRIP_BREAKER" ELSE "ALLOW"

Zero == [this_run |-> 0, today |-> 0]

InFlight == {t \in Txns : stage[t] \in {"enriching", "commit", "verified"}}

BreakerInit ==
    /\ now = DayWindow
    /\ entries = {}
    /\ stage = [t \in Txns |-> "new"]
    /\ counters = [t \in Txns |-> Zero]
    /\ acted = [t \in Txns |-> Never]
    /\ lost = 0

Goto(t, s) == stage' = [stage EXCEPT ![t] = s]
Lose == lost < Losses /\ lost' = lost + 1

(* enrich, before the model runs: an unreachable ledger reads as zero.     *)
LoadCounters(t) ==
    /\ stage[t] = "new" /\ Cardinality(InFlight) < Overlap
    /\ Goto(t, "enriching")
    /\ \/ counters' = [counters EXCEPT ![t] = Counters(entries, now)]
          /\ UNCHANGED lost
       \/ counters' = [counters EXCEPT ![t] = Zero] /\ Lose
    /\ UNCHANGED <<now, entries, acted>>

(* enrich, after the model ran: the gate rules on the counters it read.    *)
Gate(t) ==
    /\ stage[t] = "enriching"
    /\ Goto(t, IF CheckFloor(counters[t]) = "ALLOW" THEN "commit" ELSE "asked")
    /\ UNCHANGED <<now, entries, counters, acted, lost>>

(* The write, its read-back and the email they lead to come before         *)
(* RecordAutoAction is executed; the run can fail on any of them.          *)
Commit(t) ==
    /\ stage[t] = "commit"
    /\ Goto(t, "verified")
    /\ acted' = [acted EXCEPT ![t] = now]
    /\ UNCHANGED <<now, entries, counters, lost>>

RunFails(t) ==
    /\ stage[t] \in {"commit", "verified"}
    /\ Goto(t, "failed") /\ Lose
    /\ UNCHANGED <<now, entries, counters, acted>>

(* record_auto_action: best effort.  A lost completion runs it again.      *)
RecordAction(t) ==
    /\ stage[t] = "verified"
    /\ \/ Goto(t, "done") /\ entries' = Record(entries, t, now)
          /\ UNCHANGED lost
       \/ UNCHANGED stage /\ entries' = Record(entries, t, now) /\ Lose
       \/ Goto(t, "done") /\ UNCHANGED entries /\ Lose
    /\ UNCHANGED <<now, counters, acted>>

(* The poll takes a failed transaction up again (its write may have landed *)
(* after the poll read YNAB, or not at all).                               *)
Respawn(t) ==
    /\ stage[t] = "failed"
    /\ Goto(t, "new")
    /\ UNCHANGED <<now, entries, counters, acted, lost>>

Tick ==
    /\ now < DayWindow + MaxTime
    /\ now' = now + 1
    /\ UNCHANGED <<entries, stage, counters, acted, lost>>

BreakerNext ==
    \/ \E t \in Txns : \/ LoadCounters(t) \/ Gate(t) \/ Commit(t)
                       \/ RunFails(t) \/ RecordAction(t) \/ Respawn(t)
    \/ Tick

BreakerSpec == BreakerInit /\ [][BreakerNext]_breakerVars

(***************************************************************************)
(* Properties.                                                             *)
(***************************************************************************)
BreakerTypeOK ==
    /\ now \in Nat
    /\ entries \subseteq Entry
    /\ stage \in [Txns -> Stages]
    /\ counters \in [Txns -> [this_run: Nat, today: Nat]]
    /\ acted \in [Txns -> Nat]
    /\ lost \in 0 .. Losses

ActedWithin(window) ==
    {t \in Txns : acted[t] # Never /\ now - acted[t] < window}

(* A transaction counts once, however often it is recorded (record).       *)
CountedOnce == \A e, f \in entries : e.id = f.id => e = f

(* The breaker forgets nothing it should remember: a transaction written   *)
(* within the day is in the tail, at a time no earlier than the write,     *)
(* unless it is still on its way to being recorded or its record was lost. *)
Unrecorded ==
    {t \in ActedWithin(DayWindow) :
        ~\E e \in entries : e.id = t /\ e.at >= acted[t]}

NothingForgotten == Cardinality(Unrecorded \ InFlight) <= lost

(* Both: what the counters are read from is the auto-actions, each once.   *)
TailExact == CountedOnce /\ NothingForgotten

(* What the caps do bound: the burst within one window exceeds them by no  *)
(* more than the transactions that read the counters before the others had *)
(* recorded, and one for every loss.                                       *)
OvershootBounded ==
    /\ Cardinality(ActedWithin(RunWindow)) <= RunCap + Overlap - 1 + lost
    /\ Cardinality(ActedWithin(DayWindow)) <= DayCap + Overlap - 1 + lost

(* "[The circuit breaker] caps how many auto-actions the agent may take"   *)
(* (policy/auto_action_ledger.py:3-5).                                     *)
CapsHold ==
    /\ Cardinality(ActedWithin(RunWindow)) <= RunCap
    /\ Cardinality(ActedWithin(DayWindow)) <= DayCap
=============================================================================
