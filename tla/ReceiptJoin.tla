----------------------------- MODULE ReceiptJoin -----------------------------
(***************************************************************************)
(* W4, the join of forwarded receipts with charges: the route              *)
(* (route_receipt of workflow/dispatch_activities.py), the durable ledger  *)
(* (join/store.py, workflow/receipt_ledger_workflow.py), one join attempt  *)
(* (join/match.py, workflow/receipt_workflow.py, receipt_activities.py)    *)
(* and the poll's re-check (workflow/poll_workflow.py).                    *)
(*                                                                         *)
(* A join attempt works on the receipt it was STARTED with, whatever the   *)
(* ledger has come to say since.  Which charge a receipt belongs to is the *)
(* matcher's verdict, a choice among the charges posted.  A signal to the  *)
(* ledger is folded when it is sent.                                       *)
(***************************************************************************)
EXTENDS Naturals, FiniteSets

CONSTANTS Receipts,  \* forwarded messages, a receipt id each
          Txns,      \* the charges a receipt may belong to
          Cap,       \* LEDGER_CAP
          Mishaps    \* how many kinds of mishap may happen, once each

(* lost: an activity attempt whose completion is lost, so that it is run   *)
(* again.  fault: a join attempt that fails for good.  unreachable: a      *)
(* query the ledger does not answer.                                       *)
Kinds == {"lost", "fault", "unreachable"}

ASSUME ReceiptAssumption ==
    /\ IsFiniteSet(Receipts)
    /\ Cap \in Nat \ {0}
    /\ Mishaps \in Nat

Open     == {"parked", "asked"}
Terminal == {"matched", "expired"}
Statuses == Open \cup Terminal
Labels   == {"ack", "unread", "ask", "nomatch"}
Stages   == {"unsent", "parse", "park", "ack", "start", "done"}

(* A row of the ledger: pos is its place in the tuple.  parked_at is read  *)
(* just before the receipt is parked, so it orders rows as their places do.*)
Row == [id: Receipts, status: Statuses, pos: Nat]

VARIABLES
    table,      \* the ledger's rows
    route,      \* where route_receipt stands with each message
    join,       \* the join attempt running for each receipt
    listed,     \* the rows the poll has listed and not yet started
    posted,     \* the charges YNAB holds
    aged,       \* the receipts older than the TTL
    notes,      \* labels of the notes on each receipt's thread
    delivered,  \* charges each receipt was handed to
    mishaps     \* the kinds of mishap that have happened

world == <<posted, aged>>
said  == <<notes, delivered>>
vars  == <<table, route, join, listed, world, said, mishaps>>

Mishap(k) == /\ k \notin mishaps /\ Cardinality(mishaps) < Mishaps
             /\ mishaps' = mishaps \cup {k}

(***************************************************************************)
(* The ledger's folds.                                                     *)
(***************************************************************************)
Ids(T)     == {row.id : row \in T}
Settled(T) == {row \in T : row.status \in Terminal}

Earliest(T) == {row \in T : \A q \in T : row.pos <= q.pos}

OldestSettled(T, n) ==
    {row \in Settled(T) :
        Cardinality({q \in Settled(T) : q.pos < row.pos}) < n}

Latest(T, n) == {row \in T : Cardinality({q \in T : q.pos > row.pos}) < n}

Renumbered(T) ==
    {[row EXCEPT !.pos = Cardinality({q \in T : q.pos <= row.pos})] :
        row \in T}

(* Mutant of Bounded: the oldest rows age off, settled or not.             *)
BoundedByAge(T) == Renumbered(Latest(T, Cap))
Bounded(T) ==
    IF Cardinality(T) <= Cap THEN T
    ELSE LET kept == T \ OldestSettled(T, Cardinality(T) - Cap)
         IN  Renumbered(Latest(kept, Cap))

(* park: an id already in the table is left untouched.                     *)
ParkIn(T, r) ==
    IF r \in Ids(T) THEN T
    ELSE Bounded(T \cup {[id |-> r, status |-> "parked",
                          pos |-> Cardinality(T) + 1]})

SetStatus(T, r, status) ==
    {IF row.id = r THEN [row EXCEPT !.status = status] ELSE row : row \in T}

OpenReceipts(T) == {row \in T : row.status \in Open}

(***************************************************************************)
(* The spine of a join: the matcher's verdicts and what is done with them. *)
(***************************************************************************)
Confident(t) == [kind |-> "confident", txn |-> t]
Ambiguous    == [kind |-> "ambiguous"]
NoMatch      == [kind |-> "no_match"]

Verdicts == {NoMatch} \cup {Confident(t) : t \in posted}
            \cup (IF Cardinality(posted) >= 2 THEN {Ambiguous} ELSE {})

Signal(t) == [kind |-> "signal", txn |-> t]
Ask       == [kind |-> "ask"]
Tell      == [kind |-> "tell"]  \* ask_no_match
Wait      == [kind |-> "wait"]  \* Park and DoNothing
Actions   == {Signal(t) : t \in Txns} \cup {Ask, Tell, Wait}

(* Mutant of PlanJoin: a question once asked never ages out.               *)
PlanNoAging(status, old, verdict) ==
    CASE status \in Terminal         -> Wait
      [] status \in Open /\ verdict.kind = "confident" -> Signal(verdict.txn)
      [] status = "parked" /\ verdict = Ambiguous      -> Ask
      [] status = "asked"  /\ verdict = Ambiguous      -> Wait
      [] OTHER                       -> IF old THEN Tell ELSE Wait
PlanJoin(status, old, verdict) ==
    CASE status \in Terminal         -> Wait
      [] status \in Open /\ verdict.kind = "confident" -> Signal(verdict.txn)
      [] status = "parked" /\ verdict = Ambiguous      -> Ask
      [] OTHER                       -> IF old THEN Tell ELSE Wait

ResultingStatus(a) == CASE a.kind = "signal" -> "matched"
                        [] a.kind = "ask"    -> "asked"
                        [] a.kind = "tell"   -> "expired"

NoJoin == [pc |-> "none"]
Joins  == {NoJoin}
          \cup [pc : {"match"}, status : Open]
          \cup [pc : {"act", "save"}, action : Actions \ {Wait}]

(* start_join: an attempt still running covers this one.                   *)
StartJoin(r, status) ==
    join' = IF join[r] = NoJoin
            THEN [join EXCEPT ![r] = [pc |-> "match", status |-> status]]
            ELSE join

----------------------------------------------------------------------------
(***************************************************************************)
(* route_receipt, one activity attempt step by step.                       *)
(***************************************************************************)
At(r, stage) == route[r] = stage
GoTo(r, stage) == route' = [route EXCEPT ![r] = stage]

Forward(r) ==
    /\ At(r, "unsent") /\ GoTo(r, "parse")
    /\ UNCHANGED <<table, join, listed, world, said, mishaps>>

(* The parse is a model's, and a second attempt may read differently.      *)
Parse(r) ==
    /\ At(r, "parse") /\ GoTo(r, "park")
    /\ UNCHANGED <<table, join, listed, world, said, mishaps>>

NotAReceipt(r) ==
    /\ At(r, "parse") /\ GoTo(r, "done")
    /\ notes' = [notes EXCEPT ![r] = @ \cup {"unread"}]
    /\ UNCHANGED <<table, join, listed, world, delivered, mishaps>>

Park(r) ==
    /\ At(r, "park") /\ GoTo(r, "ack")
    /\ table' = ParkIn(table, r)
    /\ UNCHANGED <<join, listed, world, said, mishaps>>

Ack(r) ==
    /\ At(r, "ack") /\ GoTo(r, "start")
    /\ notes' = [notes EXCEPT ![r] = @ \cup {"ack"}]
    /\ UNCHANGED <<table, join, listed, world, delivered, mishaps>>

(* The receipt just read is handed over, as parked.                        *)
StartRouted(r) ==
    /\ At(r, "start") /\ GoTo(r, "done")
    /\ StartJoin(r, "parked")
    /\ UNCHANGED <<table, listed, world, said, mishaps>>

(* The attempt dies, or its completion is lost: all of it is run again.    *)
RetryRoute(r) ==
    /\ route[r] \in {"park", "ack", "start", "done"} /\ r \notin aged
    /\ Mishap("lost")
    /\ GoTo(r, "parse")
    /\ UNCHANGED <<table, join, listed, world, said>>

Attempt(r) == \/ Parse(r) \/ NotAReceipt(r)
              \/ Park(r)  \/ Ack(r) \/ StartRouted(r)

(***************************************************************************)
(* The poll's re-check: one list, then one start after the other.          *)
(***************************************************************************)
PollList ==
    /\ listed = {}
    /\ listed' = OpenReceipts(table)
    /\ UNCHANGED <<table, route, join, world, said, mishaps>>

PollStart ==
    /\ \E row \in Earliest(listed) :
          /\ StartJoin(row.id, row.status)
          /\ \/ listed' = listed \ {row} /\ UNCHANGED mishaps
             \/ UNCHANGED listed /\ Mishap("lost")
    /\ UNCHANGED <<table, route, world, said>>

(***************************************************************************)
(* ReceiptJoinWorkflow.                                                    *)
(***************************************************************************)
JoinMatch(r) ==
    /\ join[r].pc = "match"
    /\ \E verdict \in Verdicts :
          LET a == PlanJoin(join[r].status, r \in aged, verdict)
          IN  join' = [join EXCEPT ![r] =
                         IF a = Wait THEN NoJoin
                         ELSE [pc |-> "act", action |-> a]]
    /\ UNCHANGED <<table, route, listed, world, said, mishaps>>

Acting(r, kind) == join[r].pc = "act" /\ join[r].action.kind = kind
Acted(r) == join' = [join EXCEPT ![r].pc = "save"]

(* The completion reaches the workflow, or is lost and the act repeated.   *)
Completes(r) == \/ Acted(r) /\ UNCHANGED mishaps
                \/ UNCHANGED join /\ Mishap("lost")

(* signal_match: to the charge's running W2, or folded into its memo (and  *)
(* told on the receipt's own thread, which no property looks at).          *)
ActSignal(r) ==
    /\ Acting(r, "signal")
    /\ r \in Ids(table)
    /\ delivered' = [delivered EXCEPT ![r] = @ \cup {join[r].action.txn}]
    /\ Completes(r)
    /\ UNCHANGED <<table, route, listed, world, notes>>

(* Mutant of ActAsk: it too returns without a word.                        *)
AskQuietly(r) ==
    /\ Acting(r, "ask")
    /\ \/ /\ r \in Ids(table)
          /\ notes' = [notes EXCEPT ![r] = @ \cup {"ask"}]
          /\ Completes(r)
       \/ Mishap("unreachable") /\ Acted(r) /\ UNCHANGED notes
    /\ UNCHANGED <<table, route, listed, world, delivered>>
ActAsk(r) ==
    /\ Acting(r, "ask")
    /\ r \in Ids(table)
    /\ notes' = [notes EXCEPT ![r] = @ \cup {"ask"}]
    /\ Completes(r)
    /\ UNCHANGED <<table, route, listed, world, delivered>>

(* ask_no_match returns without a word when the ledger has no answer.      *)
ActTell(r) ==
    /\ Acting(r, "tell")
    /\ \/ /\ r \in Ids(table)
          /\ notes' = [notes EXCEPT ![r] = @ \cup {"nomatch"}]
          /\ Completes(r)
       \/ /\ r \notin Ids(table)
          /\ Acted(r) /\ UNCHANGED <<notes, mishaps>>
       \/ /\ Mishap("unreachable")
          /\ Acted(r) /\ UNCHANGED notes
    /\ UNCHANGED <<table, route, listed, world, delivered>>

JoinSave(r) ==
    /\ join[r].pc = "save"
    /\ table' = SetStatus(table, r, ResultingStatus(join[r].action))
    /\ join' = [join EXCEPT ![r] = NoJoin]
    /\ UNCHANGED <<route, listed, world, said, mishaps>>

(* The attempt fails for good: its activity raised on every try, as        *)
(* signal_match and ask_disambiguation do once the ledger has dropped the  *)
(* receipt.                                                                *)
Unknown(r) == r \notin Ids(table) /\ (Acting(r, "signal") \/ Acting(r, "ask"))

JoinFails(r) ==
    /\ join[r] # NoJoin
    /\ \/ Unknown(r) /\ UNCHANGED mishaps
       \/ Mishap("fault")
    /\ join' = [join EXCEPT ![r] = NoJoin]
    /\ UNCHANGED <<table, route, listed, world, said>>

JoinStep(r) == \/ JoinMatch(r) \/ ActSignal(r) \/ ActAsk(r)
               \/ ActTell(r)   \/ JoinSave(r)  \/ JoinFails(r)

(***************************************************************************)
(* Charges post and time passes: the TTL is a month, and every attempt of  *)
(* an activity long over when it ends.                                     *)
(***************************************************************************)
Post(t) ==
    /\ t \notin posted
    /\ posted' = posted \cup {t}
    /\ UNCHANGED <<table, route, join, listed, aged, said, mishaps>>

Expire(r) ==
    /\ At(r, "done") /\ r \in Ids(table) \ aged
    /\ aged' = aged \cup {r}
    /\ UNCHANGED <<table, route, join, listed, posted, said, mishaps>>

----------------------------------------------------------------------------
Init == /\ table = {} /\ listed = {} /\ posted = {} /\ aged = {}
        /\ route = [r \in Receipts |-> "unsent"]
        /\ join = [r \in Receipts |-> NoJoin]
        /\ notes = [r \in Receipts |-> {}]
        /\ delivered = [r \in Receipts |-> {}]
        /\ mishaps = {}

Next == \/ \E r \in Receipts : \/ Forward(r)  \/ Attempt(r) \/ RetryRoute(r)
                           \/ JoinStep(r) \/ Expire(r)
        \/ PollList \/ PollStart
        \/ \E t \in Txns : Post(t)

Spec == Init /\ [][Next]_vars

(* The poll repeats for ever, activities are retried to an end and time    *)
(* passes.                                                                 *)
Fairness == /\ WF_vars(PollList \/ PollStart)
            /\ WF_vars(\E r \in Receipts : Attempt(r))
            /\ \A r \in Receipts : WF_vars(JoinStep(r))
            /\ WF_vars(\E r \in Receipts : Expire(r))

FairSpec == Spec /\ Fairness

----------------------------------------------------------------------------
TypeOK ==
    /\ table \subseteq Row /\ listed \subseteq Row
    /\ Cardinality(table) <= Cap
    /\ \A p, q \in table : p.id = q.id => p = q
    /\ route \in [Receipts -> Stages]
    /\ join \in [Receipts -> Joins]
    /\ posted \subseteq Txns /\ aged \subseteq Receipts
    /\ notes \in [Receipts -> SUBSET Labels]
    /\ delivered \in [Receipts -> SUBSET Txns]
    /\ mishaps \subseteq Kinds

(* A status says something that has happened: a matched receipt has been   *)
(* handed to a charge, an asked one has its question on the thread, and an *)
(* expired one its note unless the ledger did not answer when it was time  *)
(* to write it.                                                            *)
StatusBacked ==
    \A row \in table :
        /\ row.status = "matched" => delivered[row.id] # {}
        /\ row.status = "asked"   => "ask" \in notes[row.id]
        /\ row.status = "expired" => \/ "nomatch" \in notes[row.id]
                                     \/ "unreachable" \in mishaps

(* A receipt that was acknowledged to its sender is in the ledger, unless  *)
(* the ledger is full: nothing between the reading and the note loses it.  *)
AckedKept ==
    \A r \in Receipts :
        "ack" \in notes[r] /\ r \notin Ids(table) => Cardinality(table) = Cap

(* On top of the types: the ledger holds what the senders were told it     *)
(* holds, and says of it what has happened.                                *)
LedgerTruthful == TypeOK /\ AckedKept /\ StatusBacked

(* "continued forwarding": a receipt still waiting for its charge is never *)
(* dropped while a settled one could go instead.                           *)
OpenEvictedLast ==
    [][\A row \in OpenReceipts(table) :
          row.id \notin Ids(table') => Settled(table) = {}]_vars

(* No receipt waits for ever: it is matched, aged out or crowded out.      *)
ReceiptsResolve ==
    \A r \in Receipts :
        (r \in Ids(OpenReceipts(table))) ~> (r \notin Ids(OpenReceipts(table)))

(* join/match.py: "once MATCHED or EXPIRED it is terminal and re-checks    *)
(* are no-ops": a receipt is never attached to a second charge.            *)
MatchedIsFinal == \A r \in Receipts : Cardinality(delivered[r]) <= 1
==============================================================================
