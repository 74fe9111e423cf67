------------------------------ MODULE Dashboard ------------------------------
(***************************************************************************)
(* The operations dashboard (src/ynab_agent/dashboard): one request reads  *)
(* Temporal and YNAB piece by piece while the poll loop, the transactions  *)
(* and the owner go on, then rolls the pieces up into a verdict, a         *)
(* headline and the owner's queue.                                         *)
(*                                                                         *)
(* The registry's table, the mail threads, the pull requests and all       *)
(* wording are left out; ClickHouse is whether it reads fine.              *)
(***************************************************************************)
EXTENDS Naturals, Sequences, FiniteSets, FiniteSetsExt

CONSTANTS Txns, Offers,   \* transactions, and autonomy offers
          Actions,        \* what a dispatch may have done
          Retained,       \* runs of the poll loop Temporal keeps
          PageCap,        \* runs of it one page reads (100)
          MaxQueries,     \* _MAX_STATE_QUERIES
          MaxResolve,     \* _MAX_RESOLVE
          StaleAfter,     \* _STALE_POLL_SECS = POLL_STALE_AFTER, in hours
          Bounds          \* how often each mishap may happen (see Kinds)

(* unread: one reading of Temporal fails.  unanswered: a transaction's     *)
(* state query fails.  unresolved: YNAB fails or is too slow.  stop: the   *)
(* loop is terminated.                                                     *)
Kinds == {"unread", "unanswered", "unresolved", "stop"}

ASSUME DashboardAssumption ==
    /\ IsFiniteSet(Txns) /\ IsFiniteSet(Offers) /\ IsFiniteSet(Actions)
    /\ Txns \cap Offers = {}
    /\ Retained \in Nat \ {0} /\ PageCap \in Nat \ {0}
    /\ MaxQueries \in Nat /\ MaxResolve \in Nat /\ StaleAfter \in Nat
    /\ Bounds \in [Kinds -> Nat]

VARIABLES
    runs,       \* the loop's runs that are kept, the latest last
    state,      \* each transaction's workflow
    approved,   \* YNAB: approved transactions
    offers,     \* offers awaiting an answer
    dispatched, \* dispatches that completed, by what they did
    at,         \* the next reading of the request
    unasked,    \* the transactions listed and not yet queried
    page,       \* what the request has read
    since,      \* hours since it began
    verdicts,   \* history: whether the loop had a problem meanwhile
    waited,     \* history: what has awaited the owner all the while
    left

world == <<runs, state, approved, offers, dispatched>>
vars  == <<world, at, unasked, page, since, verdicts, waited, left>>

Use(k)  == left[k] > 0 /\ left' = [left EXCEPT ![k] = @ - 1]
Used(k) == Bounds[k] - left[k]

Live == {"running", "continued_as_new"}
NoPage == [live |-> FALSE, age |-> 0, awaiting |-> {}, offers |-> {},
           tally |-> {}, total |-> 0, errors |-> {}, ynab |-> TRUE,
           known |-> {}, settled |-> {}, traces |-> TRUE]

(* Up to cap members of S: visibility pages in no useful order.            *)
Pages(S, cap) ==
    {T \in SUBSET S : Cardinality(T) = IF Cardinality(S) < cap
                                       THEN Cardinality(S) ELSE cap}

(* What the deadman calls a problem (check_poll_liveness): it describes    *)
(* the latest run.                                                         *)
Latest  == runs[Len(runs)]
Problem == Latest.status \notin Live \/ Latest.age > StaleAfter

Awaits == {t \in Txns : state[t] = "awaiting_human" /\ t \notin approved}
              \cup offers
----------------------------------------------------------------------------
(* build_html: now is taken first.  Nothing is kept of an earlier request. *)
Request ==
    /\ at = "idle" /\ at' = "poll"
    /\ UNCHANGED <<world, unasked, page, since, left>>
Close ==
    /\ at = "shown" /\ at' = "idle" /\ page' = NoPage /\ since' = 0
    /\ UNCHANGED <<world, unasked, left>>

(* One guarded reading of temporal_source.fetch, or its failure.           *)
Goes(from, to) == at = from /\ at' = to
Fails(piece) ==
    /\ Use("unread")
    /\ page' = [page EXCEPT !.errors = @ \cup {piece}]

(* _poll: the latest start of one page of runs, aged by the request's now. *)
(* (Mutant: the status alone is looked at.)                                *)
SeenNow(i) == [runs[i] EXCEPT !.age = 0]
Seen(i) ==
    [runs[i] EXCEPT !.age = IF @ > since THEN @ - since ELSE 0]
ReadPoll ==
    /\ Goes("poll", "lifecycle")
    /\ \/ /\ \E S \in Pages(DOMAIN runs, PageCap) :
                LET run == Seen(Max(S))
                IN  page' = [page EXCEPT !.live = run.status \in Live,
                                         !.age = run.age]
          /\ UNCHANGED left
       \/ Fails("poll")
    /\ UNCHANGED <<world, unasked, since>>

(* _lifecycle: a page of running workflows, then one query each.           *)
List ==
    /\ at = "lifecycle"
    /\ \/ /\ at' = "queries"
          /\ unasked' \in Pages({t \in Txns : state[t] \in
                                     {"awaiting_human", "open"}}, MaxQueries)
          /\ UNCHANGED <<page, left>>
       \/ at' = "offers" /\ Fails("lifecycle") /\ UNCHANGED unasked
    /\ UNCHANGED <<world, since>>

(* A query that fails counts its workflow as "unknown".                    *)
Query(t) ==
    /\ at = "queries" /\ t \in unasked /\ unasked' = unasked \ {t}
    /\ \/ /\ page' = IF state[t] = "awaiting_human"
                     THEN [page EXCEPT !.awaiting = @ \cup {t}] ELSE page
          /\ UNCHANGED left
       \/ Use("unanswered") /\ UNCHANGED page
    /\ UNCHANGED <<world, at, since>>

ReadOffers ==
    /\ at = "offers" \/ (at = "queries" /\ unasked = {})
    /\ at' = "dispatch"
    /\ \/ page' = [page EXCEPT !.offers = offers] /\ UNCHANGED left
       \/ Fails("offers")
    /\ UNCHANGED <<world, unasked, since>>

(* _dispatch: handle.result() without a result type decodes a result as a  *)
(* plain mapping, which has no attribute "action".                         *)
Tallied(action) == "?"
ReadDispatch ==
    /\ Goes("dispatch", "terminal")
    /\ \/ /\ page' = [page EXCEPT
                        !.tally = {Tallied(a) : a \in dispatched},
                        !.total = Cardinality(dispatched)]
          /\ UNCHANGED left
       \/ Fails("dispatch")
    /\ UNCHANGED <<world, unasked, since>>

ReadTerminal ==
    /\ Goes("terminal", "resolve")
    /\ UNCHANGED <<page, left>> \/ Fails("terminal")
    /\ UNCHANGED <<world, unasked, since>>

(* resolve_queue: facts for some of the awaiting ids, once the readers     *)
(* have answered, ClickHouse and YNAB's own among them.                    *)
Resolvable == Pages(page.awaiting, MaxResolve)
Resolve ==
    /\ Goes("resolve", "shown")
    /\ \E traces \in BOOLEAN :
          \/ /\ \E ids \in Resolvable :
                   page' = [page EXCEPT !.known = ids,
                                        !.settled = ids \cap approved,
                                        !.traces = traces]
             /\ UNCHANGED left
          \/ /\ Use("unresolved")
             /\ \E read \in BOOLEAN :
                   page' = [page EXCEPT !.ynab = read, !.traces = traces]
    /\ UNCHANGED <<world, unasked, since>>
----------------------------------------------------------------------------
(* _humanize_queue.  (Mutant of Handled: what was not resolved is taken    *)
(* for settled.)                                                           *)
HandledUnknown == page.settled \cup (page.awaiting \ page.known)
Handled  == page.settled
NeedsYou == (page.awaiting \ Handled) \cup page.offers

(* _rollup                                                                 *)
Down == ~page.live \/ page.age > StaleAfter \/ page.errors # {}
Tone == IF Down THEN "bad"
        ELSE IF ~page.ynab \/ ~page.traces THEN "warn" ELSE "ok"

(* narrate                                                                 *)
Headline == IF Tone = "bad" THEN "attention needed"
            ELSE IF NeedsYou # {} THEN "waiting on you" ELSE "all caught up"
----------------------------------------------------------------------------
Kept(s) == IF Len(s) > Retained THEN Tail(s) ELSE s
Closes(status) == [runs EXCEPT ![Len(runs)].status = status]
NewRun(s) == runs' = Kept(Append(s, [status |-> "running", age |-> 0]))

Tick ==
    /\ Latest.status = "running" /\ Latest.age > 0
    /\ NewRun(Closes("continued_as_new"))
    /\ UNCHANGED <<state, approved, offers, dispatched, since, left>>
Terminate ==
    /\ Latest.status = "running" /\ Use("stop")
    /\ runs' = Closes("terminated")
    /\ UNCHANGED <<state, approved, offers, dispatched, since>>
StartPoll ==
    /\ Latest.status = "terminated" /\ NewRun(runs)
    /\ UNCHANGED <<state, approved, offers, dispatched, since, left>>
(* A request takes minutes: at most one hour turns in it.  Ages beyond     *)
(* what a page can tell apart are not counted.                             *)
Hour ==
    /\ IF at = "idle" THEN UNCHANGED since ELSE since = 0 /\ since' = 1
    /\ runs' = [i \in DOMAIN runs |-> [runs[i] EXCEPT !.age =
                   IF @ > StaleAfter + 1 THEN @ ELSE @ + 1]]
    /\ UNCHANGED <<state, approved, offers, dispatched, left>>

Moves(t) ==
    /\ \/ state[t] = "open"
          /\ state' = [state EXCEPT ![t] = "awaiting_human"]
       \/ state[t] = "awaiting_human" /\ t \in approved
          /\ state' = [state EXCEPT ![t] = "archived"]
    /\ UNCHANGED <<runs, approved, offers, dispatched, since, left>>
Approve(t) ==
    /\ t \notin approved /\ approved' = approved \cup {t}
    /\ UNCHANGED <<runs, state, offers, dispatched, since, left>>
Offer(o) ==
    /\ offers' \in {offers \cup {o}, offers \ {o}} /\ offers' # offers
    /\ UNCHANGED <<runs, state, approved, dispatched, since, left>>
Dispatches(a) ==
    /\ a \notin dispatched /\ dispatched' = dispatched \cup {a}
    /\ UNCHANGED <<runs, state, approved, offers, since, left>>

Init ==
    /\ runs = <<[status |-> "running", age |-> 0]>>
    /\ state = [t \in Txns |-> "open"] /\ approved = {} /\ offers = {}
    /\ dispatched = {}
    /\ at = "idle" /\ unasked = {} /\ page = NoPage /\ since = 0
    /\ verdicts = {} /\ waited = {} /\ left = Bounds

Reads == \/ Request \/ Close \/ ReadPoll \/ List \/ ReadOffers \/ ReadDispatch
         \/ ReadTerminal \/ Resolve
         \/ \E t \in Txns : Query(t)
(* A page that is shown stands; the world goes on before the next one.     *)
World ==
    /\ at # "shown"
    /\ \/ Tick \/ Terminate \/ StartPoll \/ Hour
       \/ \E t \in Txns : Moves(t) \/ Approve(t)
       \/ \E o \in Offers : Offer(o)
       \/ \E a \in Actions : Dispatches(a)
    /\ UNCHANGED <<at, unasked, page>>

(* The history of a request, from when it began until it is shown.         *)
Observe ==
    /\ verdicts' = IF at' = "idle" THEN {} ELSE verdicts \cup {Problem'}
    /\ waited' = IF at' = "idle" THEN {}
                 ELSE IF at = "idle" THEN Awaits ELSE waited \cap Awaits'

Next == (Reads \/ World) /\ Observe
Spec == Init /\ [][Next]_vars
----------------------------------------------------------------------------
TypeOK ==
    /\ runs \in Seq([status : Live \cup {"terminated"}, age : Nat])
    /\ Len(runs) \in 1 .. Retained
    /\ state \in [Txns -> {"open", "awaiting_human", "archived"}]
    /\ approved \subseteq Txns /\ offers \subseteq Offers
    /\ dispatched \subseteq Actions
    /\ at \in {"idle", "poll", "lifecycle", "queries", "offers", "dispatch",
               "terminal", "resolve", "shown"}
    /\ unasked \subseteq Txns
    /\ page.awaiting \subseteq Txns /\ page.known \subseteq page.awaiting
    /\ page.offers \subseteq Offers
    /\ since \in 0 .. 1 /\ left \in [Kinds -> Nat]

Shown == at = "shown"

(* The masthead agrees with the deadman: a page that does not say "down"   *)
(* was asked for or read while the loop ticked, and one that says so with  *)
(* every reading in hand while it did not.                                 *)
VerdictSound ==
    Shown => /\ Tone # "bad" => FALSE \in verdicts
             /\ Tone = "bad" /\ page.errors = {} => TRUE \in verdicts

(* On top of the types: a page is well formed, and its verdict one the     *)
(* deadman would have given.                                               *)
MastheadSound == TypeOK /\ VerdictSound

(* With every workflow asked, what has awaited the owner from the request  *)
(* to the answer is in the queue, whatever the readers of YNAB gave, or    *)
(* the headline says that something is wrong.                              *)
WaitingShown ==
    Shown /\ Used("unanswered") = 0 =>
        Headline = "attention needed" \/ waited \subseteq NeedsYou

(* narrate: "This is the trustworthy baseline" -- the page says "All       *)
(* caught up — nothing needs you" only when nothing has waited.            *)
CaughtUpIsTrue == Shown /\ Headline = "all caught up" => waited = {}

(* temporal_source.fetch: one failed sub-read "reddens only its panel".    *)
OnlyItsPanel ==
    Shown /\ "poll" \notin page.errors /\ Tone = "bad" => TRUE \in verdicts

(* "Tally recent inbound dispatch results by routing action."              *)
TalliedByAction == page.tally \subseteq Actions
==============================================================================
