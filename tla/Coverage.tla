------------------------------- MODULE Coverage -------------------------------
(***************************************************************************)
(* The arithmetic of the budget balancer (budget/balance.py): the greedy   *)
(* plan over one pool of donors, the check made when it is applied and the *)
(* absolute targets it is written as.  Amounts are whole units; a figure   *)
(* is a category's excess, its balance less what it will still spend, so   *)
(* that its shortfall and its slack are the two signs of one number.       *)
(***************************************************************************)
EXTENDS Integers, Sequences, SequencesExt

CONSTANTS Cats,     \* the budget's categories, in order, as a sequence
          Ceiling   \* the floor's per_move_ceiling

RTA        == "@ready-to-assign"
Categories == {Cats[i] : i \in DOMAIN Cats}

ASSUME CoverageAssumption ==
    /\ Ceiling \in Nat \ {0} /\ Cats \in Seq(STRING) /\ RTA \notin Categories
    /\ \A i, j \in DOMAIN Cats : Cats[i] = Cats[j] => i = j

Buckets    == Categories \cup {RTA}
Move       == [source: Buckets, destination: Categories, amount: Nat \ {0}]
Need       == [category: Categories, shortfall: Nat \ {0}]

Lesser(a, b) == IF a < b THEN a ELSE b
Slack(x)     == IF x > 0 THEN x ELSE 0

(* The sum of a sequence of amounts.                                       *)
Total(w) == FoldLeft(LAMBDA n, x : n + x, 0, w)

Pulled(moves, c) ==
    Total([i \in DOMAIN moves |->
              IF moves[i].source = c THEN moves[i].amount ELSE 0])
Given(moves, c) ==
    Total([i \in DOMAIN moves |->
              IF moves[i].destination = c THEN moves[i].amount ELSE 0])

(* The elements of a set, each before those it comes before.               *)
Ordered(S, Before(_, _)) ==
    CHOOSE s \in SetToSeqs(S) :
        \A i, j \in DOMAIN s : i < j => Before(s[i], s[j])

(* The largest figure first, in the order of the budget for ties.          *)
Place(c) == CHOOSE i \in DOMAIN Cats : Cats[i] = c
Ranked(S, figure) ==
    Ordered(S, LAMBDA a, b : \/ figure[a] > figure[b]
                             \/ figure[a] = figure[b] /\ Place(a) < Place(b))

(* The categories short at the monitor's pass, the largest gap first.      *)
NeedsOf(excess) ==
    LET gap   == [c \in Categories |-> -excess[c]]
        short == Ranked({c \in Categories : gap[c] > 0}, gap)
    IN  [i \in DOMAIN short |->
            [category |-> short[i], shortfall |-> gap[short[i]]]]

NeedyOf(needs) == {needs[i].category : i \in DOMAIN needs}

(* Ready-to-Assign leads; a category with a need of its own gives nothing. *)
SourcesOf(excess, rta, needs) ==
    (IF rta > 0 THEN <<RTA>> ELSE <<>>)
    \o Ranked({c \in Categories \ NeedyOf(needs) : excess[c] > 0}, excess)

Drawable(excess, rta) ==
    [b \in Buckets |-> IF b = RTA THEN Slack(rta) ELSE Slack(excess[b])]

(* What is taken from a source for a need, in moves within the ceiling.    *)
Chunks(source, destination, total) ==
    [i \in 1 .. (total + Ceiling - 1) \div Ceiling |->
        [source |-> source, destination |-> destination,
         amount |-> Lesser(Ceiling, total - (i - 1) * Ceiling)]]

(* plan so far: the moves, what each source has left, the current gap.     *)
Draw(plan, source, destination) ==
    LET take == Lesser(plan.remaining[source], plan.short)
    IN  [moves     |-> plan.moves \o Chunks(source, destination, take),
         remaining |-> [plan.remaining EXCEPT ![source] = @ - take],
         short     |-> plan.short - take]

(* Mutant of CoverNeed: every need has the whole pool to itself.           *)
CoverNeedAfresh(plan, need, sources) ==
    LET done == FoldLeft(LAMBDA p, s : Draw(p, s, need.category),
                         [plan EXCEPT !.short = need.shortfall], sources)
    IN  [done EXCEPT !.remaining = plan.remaining]
CoverNeed(plan, need, sources) ==
    FoldLeft(LAMBDA p, s : Draw(p, s, need.category),
             [plan EXCEPT !.short = need.shortfall], sources)

PlanCoverage(needs, sources, drawable) ==
    FoldLeft(LAMBDA plan, need : CoverNeed(plan, need, sources),
             [moves |-> <<>>, remaining |-> drawable, short |-> 0],
             needs).moves

(* Mutant of CheckMoves: each move is held against the slack on its own.   *)
CheckEachMove(moves, drawable) ==
    /\ moves # <<>>
    /\ \A i \in DOMAIN moves :
          moves[i].amount <= Lesser(Ceiling, drawable[moves[i].source])
CheckMoves(moves, drawable) ==
    /\ moves # <<>>
    /\ \A i \in DOMAIN moves : moves[i].amount \in 1 .. Ceiling
    /\ \A i \in DOMAIN moves :
          Pulled(moves, moves[i].source) <= drawable[moves[i].source]

(* Every category that changes, in the order the moves first name them, a  *)
(* destination before its source.                                          *)
FirstNamed(moves, c) ==
    Min({2 * i : i \in {j \in DOMAIN moves : moves[j].destination = c}}
          \cup {2 * i + 1 : i \in {j \in DOMAIN moves : moves[j].source = c}})
Touched(moves) ==
    Ordered({c \in Categories : Given(moves, c) # Pulled(moves, c)},
            LAMBDA a, b : FirstNamed(moves, a) < FirstNamed(moves, b))

Change(moves, c) == Given(moves, c) - Pulled(moves, c)
==============================================================================
