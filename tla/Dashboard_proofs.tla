--------------------------- MODULE Dashboard_proofs ---------------------------
(***************************************************************************)
(* Proofs about the dashboard: however the poll loop ticks, stops and      *)
(* starts, the charges and offers move and YNAB is approved between the    *)
(* readings of a request, and whichever readings fail, the masthead is one *)
(* the deadman would have given during the request, and the queue holds    *)
(* what has waited all the while.                                          *)
(***************************************************************************)
EXTENDS Dashboard, FiniteSetTheorems, WellFoundedInduction, TLAPS

PastPoll    == {"lifecycle", "queries", "offers", "dispatch", "terminal",
                "resolve", "shown"}
PastQueries == {"offers", "dispatch", "terminal", "resolve", "shown"}
PastOffers  == {"dispatch", "terminal", "resolve", "shown"}

Run == [status : Live \cup {"terminated"}, age : Nat]

Pieces == {"poll", "lifecycle", "offers", "dispatch", "terminal"}
Page == [live : BOOLEAN, age : Nat, awaiting : SUBSET Txns,
         offers : SUBSET Offers, tally : SUBSET {"?"}, total : Nat,
         errors : SUBSET Pieces, ynab : BOOLEAN, known : SUBSET Txns,
         settled : SUBSET Txns, traces : BOOLEAN]

(* The types, with what the code keeps between requests: nothing.          *)
TypeInv ==
    /\ TypeOK
    /\ page \in Page
    /\ \A k \in Kinds : left[k] <= Bounds[k]
    /\ at = "idle" => since = 0

(* What the loop looks like now, an hour of the request taken off its age, *)
(* it has looked like during the request.                                  *)
Fresh(run, hours) == run.status \in Live /\ run.age <= StaleAfter + hours
LoopInv == at # "idle" /\ Fresh(Latest, since) => FALSE \in verdicts

(* So has what the page says of it.                                        *)
Sound(p) == p.live /\ p.age <= StaleAfter
PolledInv ==
    at \in PastPoll /\ "poll" \notin page.errors =>
        IF Sound(page) THEN FALSE \in verdicts ELSE TRUE \in verdicts

MastheadInv == TypeInv /\ LoopInv /\ PolledInv

(* -- The mishaps --------------------------------------------------------- *)
LEMMA UseTyped ==
    ASSUME left \in [Kinds -> Nat], \A k \in Kinds : left[k] <= Bounds[k],
           NEW m \in Kinds, Use(m) \/ UNCHANGED left
    PROVE  /\ left' \in [Kinds -> Nat]
           /\ \A k \in Kinds : left'[k] <= Bounds[k] /\ left'[k] <= left[k]
  <1>1. Bounds \in [Kinds -> Nat]
    BY DashboardAssumption
  <1>2. CASE UNCHANGED left
    BY <1>1, <1>2
  <1>3. CASE Use(m)
    <2>1. left' = [left EXCEPT ![m] = @ - 1] /\ left[m] > 0
      BY <1>3 DEF Use
    <2> HIDE DEF Kinds
    <2> QED  BY <1>1, <2>1
  <1> QED  BY <1>2, <1>3

(* -- The loop's runs ------------------------------------------------------ *)
LEMMA RunsTyped ==
    ASSUME TypeOK
    PROVE  /\ runs \in Seq(Run) /\ Len(runs) \in Nat /\ Len(runs) >= 1
           /\ Len(runs) \in DOMAIN runs /\ Latest \in Run
           /\ \A i \in DOMAIN runs : runs[i] \in Run
           /\ Len(runs) <= Retained /\ Retained \in Nat /\ Retained >= 1
  <1>1. runs \in Seq(Run) /\ Len(runs) \in 1 .. Retained /\ Retained \in Nat
    BY DashboardAssumption DEF TypeOK, Run
  <1> QED  BY <1>1 DEF Latest

(* Appending a run and dropping the oldest beyond what is kept.            *)
LEMMA KeptTyped ==
    ASSUME NEW s \in Seq(Run), Len(s) >= 1, Len(s) <= Retained,
           NEW run \in Run
    PROVE  /\ Kept(Append(s, run)) \in Seq(Run)
           /\ Len(Kept(Append(s, run))) \in 1 .. Retained
           /\ Kept(Append(s, run))[Len(Kept(Append(s, run)))] = run
  <1> DEFINE t == Append(s, run)
  <1>1. t \in Seq(Run) /\ Len(t) = Len(s) + 1 /\ t[Len(t)] = run
    OBVIOUS
  <1>2. Retained \in Nat /\ Retained >= 1 /\ Len(s) \in Nat
    BY DashboardAssumption
  <1>3. CASE Len(t) > Retained
    <2>1. Tail(t) \in Seq(Run) /\ Len(Tail(t)) = Len(s)
          /\ Tail(t)[Len(s)] = t[Len(s) + 1]
      BY <1>1, <1>2
    <2> QED  BY <1>1, <1>2, <1>3, <2>1 DEF Kept
  <1>4. CASE ~(Len(t) > Retained)
    BY <1>1, <1>2, <1>4 DEF Kept
  <1> QED  BY <1>3, <1>4

LEMMA ClosesTyped ==
    ASSUME TypeOK, NEW status \in Live \cup {"terminated"}
    PROVE  /\ Closes(status) \in Seq(Run)
           /\ Len(Closes(status)) = Len(runs)
           /\ Closes(status)[Len(runs)] = [Latest EXCEPT !.status = status]
  <1>1. /\ runs \in Seq(Run) /\ Len(runs) \in DOMAIN runs /\ Latest \in Run
        /\ Len(runs) \in Nat /\ Len(runs) >= 1
    BY RunsTyped
  <1>2. [Latest EXCEPT !.status = status] \in Run
    BY <1>1 DEF Run
  <1>3. Closes(status) = [runs EXCEPT ![Len(runs)] =
                              [Latest EXCEPT !.status = status]]
    BY DEF Closes, Latest
  <1> QED  BY <1>1, <1>2, <1>3

(* A page that holds every run holds the latest.                           *)
LEMMA PageHoldsLatest ==
    ASSUME TypeOK, Retained <= PageCap,
           NEW S \in Pages(DOMAIN runs, PageCap)
    PROVE  Max(S) = Len(runs)
  <1>1. /\ Len(runs) \in Nat /\ Len(runs) >= 1 /\ Len(runs) <= PageCap
        /\ DOMAIN runs = 1 .. Len(runs) /\ PageCap \in Nat
    BY RunsTyped, DashboardAssumption
  <1>2. /\ IsFiniteSet(DOMAIN runs)
        /\ Cardinality(DOMAIN runs) = Len(runs)
    BY <1>1, FS_Interval
  <1>3. S \in SUBSET DOMAIN runs /\ Cardinality(S) = Cardinality(DOMAIN runs)
    BY <1>1, <1>2 DEF Pages
  <1>4. S = DOMAIN runs
    BY <1>2, <1>3, FS_Subset
  <1>5. Len(runs) \in S /\ \A i \in S : Len(runs) >= i
    BY <1>1, <1>4
  <1>6. \A i \in S : (\A j \in S : i >= j) => i = Len(runs)
    BY <1>1, <1>4, <1>5
  <1> QED  BY <1>5, <1>6 DEF Max

(* -- The types ------------------------------------------------------------ *)
LEMMA FailsTyped ==
    ASSUME TypeInv, NEW piece \in Pieces, Fails(piece)
    PROVE  /\ page' \in Page /\ page'.known \subseteq page'.awaiting
           /\ page'.live = page.live /\ page'.age = page.age
           /\ page'.errors = page.errors \cup {piece}
           /\ page'.settled = page.settled
           /\ page'.awaiting = page.awaiting /\ page'.offers = page.offers
           /\ \A k \in Kinds : left'[k] <= Bounds[k] /\ left'[k] <= left[k]
           /\ left' \in [Kinds -> Nat]
  <1>1. "unread" \in Kinds
    BY DEF Kinds
  <1>2. /\ left' \in [Kinds -> Nat]
        /\ \A k \in Kinds : left'[k] <= Bounds[k] /\ left'[k] <= left[k]
    BY <1>1, UseTyped DEF Fails, TypeInv, TypeOK
  <1>3. page \in Page /\ page.known \subseteq page.awaiting
        /\ page' = [page EXCEPT !.errors = page.errors \cup {piece}]
    BY DEF Fails, TypeInv, TypeOK
  <1> QED  BY <1>2, <1>3 DEF Page

(* What the readings leave alone, and what a page must be.                 *)
LEMMA ReadsKeep ==
    ASSUME TypeInv, UNCHANGED world,
           page' \in Page, page'.known \subseteq page'.awaiting,
           left' \in [Kinds -> Nat], \A k \in Kinds : left'[k] <= Bounds[k],
           unasked' \subseteq Txns, since' \in 0 .. 1,
           at' \in PastPoll \cup {"idle", "poll"},
           at' = "idle" => since' = 0
    PROVE  TypeInv'
  BY DEF TypeInv, TypeOK, world, PastPoll, Page

LEMMA RequestTypes == ASSUME TypeInv, Request PROVE TypeInv'
  BY ReadsKeep DEF Request, TypeInv, TypeOK, PastPoll

LEMMA CloseTypes == ASSUME TypeInv, Close PROVE TypeInv'
  <1>1. page' \in Page /\ page'.known \subseteq page'.awaiting
    BY DEF Close, NoPage, Page
  <1> QED  BY <1>1, ReadsKeep DEF Close, TypeInv, TypeOK

(* Whatever runs a page holds, the latest of them is one of the runs.      *)
LEMMA GreatestIn ==
    ASSUME NEW n \in Nat, NEW S \in SUBSET (1 .. n), S # {}
    PROVE  Max(S) \in S
  <1> DEFINE R    == OpToRel(<, Nat)
             Gaps == {n - i : i \in S}
  <1>1. IsWellFoundedOn(R, Nat)
    BY NatLessThanWellFounded
  <1>2. \A i, j \in Nat : i < j => <<i, j>> \in R
    BY DEF OpToRel
  <1>3. Gaps \in SUBSET Nat /\ Gaps # {}
    <2>1. \A i \in S : n - i \in Nat
      OBVIOUS
    <2>2. PICK i \in S : TRUE
      OBVIOUS
    <2>3. n - i \in Gaps
      OBVIOUS
    <2> QED  BY <2>1, <2>3
  <1> HIDE DEF R
  <1>4. PICK gap \in Gaps : \A g \in Gaps : ~(<<g, gap>> \in R)
    <2> HIDE DEF Gaps
    <2> QED  BY <1>1, <1>3, WFMin
  <1>5. PICK i \in S : gap = n - i
    BY <1>4
  <1>6. ASSUME NEW j \in S PROVE i >= j
    <2>1. n - j \in Gaps
      OBVIOUS
    <2>3. n - j \in Nat /\ n - i \in Nat
      OBVIOUS
    <2>2. ~(n - j < n - i)
      <3> HIDE DEF Gaps
      <3> QED  BY <1>2, <1>4, <1>5, <2>1, <2>3
    <2> QED  BY <2>2
  <1>7. \E k \in S : \A j \in S : k >= j
    BY <1>6
  <1> QED  BY <1>7 DEF Max

(* What a reading puts on the page leaves the rest of it.                  *)
Polled(p, alive, n) == [p EXCEPT !.live = alive, !.age = n]
LEMMA PagePolled ==
    ASSUME NEW p \in Page, NEW q, NEW alive \in BOOLEAN, NEW n \in Nat,
           q = Polled(p, alive, n)
    PROVE  /\ q \in Page /\ q.known = p.known /\ q.awaiting = p.awaiting
           /\ q.live = alive /\ q.age = n
           /\ q.errors = p.errors /\ q.settled = p.settled
  BY DEF Page, Polled

LEMMA PageAwaits ==
    ASSUME NEW p \in Page, NEW q, NEW t \in Txns,
           q = [p EXCEPT !.awaiting = @ \cup {t}]
    PROVE  /\ q \in Page /\ q.known = p.known
           /\ q.awaiting = p.awaiting \cup {t}
           /\ q.live = p.live /\ q.age = p.age
           /\ q.errors = p.errors /\ q.settled = p.settled
  BY DEF Page

LEMMA PageOffers ==
    ASSUME NEW p \in Page, NEW q, NEW open \in SUBSET Offers,
           q = [p EXCEPT !.offers = open]
    PROVE  /\ q \in Page /\ q.known = p.known /\ q.awaiting = p.awaiting
           /\ q.live = p.live /\ q.age = p.age /\ q.offers = open
           /\ q.errors = p.errors /\ q.settled = p.settled
  BY DEF Page

LEMMA PageTallies ==
    ASSUME NEW p \in Page, NEW q, NEW actions \in SUBSET {"?"}, NEW n \in Nat,
           q = [p EXCEPT !.tally = actions, !.total = n]
    PROVE  /\ q \in Page /\ q.known = p.known /\ q.awaiting = p.awaiting
           /\ q.live = p.live /\ q.age = p.age /\ q.offers = p.offers
           /\ q.errors = p.errors /\ q.settled = p.settled
  BY DEF Page

Known(p, ids, done, ok) ==
    [p EXCEPT !.known = ids, !.settled = done, !.traces = ok]
LEMMA PageKnows ==
    ASSUME NEW p \in Page, NEW ids, NEW done, NEW ok \in BOOLEAN,
           ids \in SUBSET p.awaiting, done \in SUBSET ids,
           NEW q, q = Known(p, ids, done, ok)
    PROVE  /\ q \in Page /\ q.known = ids /\ q.awaiting = p.awaiting
           /\ q.live = p.live /\ q.age = p.age /\ q.offers = p.offers
           /\ q.errors = p.errors /\ q.settled = done
  <1>1. ids \in SUBSET Txns /\ done \in SUBSET Txns
    BY DEF Page
  <1> QED  BY <1>1 DEF Page, Known

LEMMA PageUnresolved ==
    ASSUME NEW p \in Page, NEW q, NEW read \in BOOLEAN, NEW ok \in BOOLEAN,
           q = [p EXCEPT !.ynab = read, !.traces = ok]
    PROVE  /\ q \in Page /\ q.known = p.known /\ q.awaiting = p.awaiting
           /\ q.live = p.live /\ q.age = p.age /\ q.offers = p.offers
           /\ q.errors = p.errors /\ q.settled = p.settled
  BY DEF Page

LEMMA SeenTyped ==
    ASSUME TypeInv, NEW S \in Pages(DOMAIN runs, PageCap)
    PROVE  Seen(Max(S)) \in Run
  <1>1. /\ DOMAIN runs = 1 .. Len(runs) /\ Len(runs) \in Nat /\ Len(runs) >= 1
        /\ \A i \in DOMAIN runs : runs[i] \in Run
        /\ PageCap \in Nat /\ PageCap >= 1
    BY RunsTyped, DashboardAssumption DEF TypeInv
  <1>2. /\ IsFiniteSet(DOMAIN runs)
        /\ Cardinality(DOMAIN runs) = Len(runs)
    BY <1>1, FS_Interval
  <1>3. S \in SUBSET DOMAIN runs /\ Cardinality(S) >= 1
    BY <1>1, <1>2 DEF Pages
  <1>4. S # {}
    BY <1>3, FS_EmptySet
  <1>5. Max(S) \in DOMAIN runs
    BY <1>1, <1>3, <1>4, GreatestIn
  <1> DEFINE i == Max(S)
  <1>6. i \in DOMAIN runs
    BY <1>5
  <1> HIDE DEF i
  <1>7. Seen(i) \in Run
    <2> DEFINE run  == runs[i]
               aged == IF run.age > since THEN run.age - since ELSE 0
    <2>1. run \in Run /\ since \in Nat
      BY <1>1, <1>6 DEF TypeInv, TypeOK
    <2>2. aged \in Nat
      BY <2>1 DEF Run
    <2>3. Seen(i) = [run EXCEPT !.age = aged]
      BY DEF Seen
    <2> HIDE DEF run, aged
    <2> QED  BY <2>1, <2>2, <2>3 DEF Run
  <1> QED  BY <1>7 DEF i

LEMMA ReadPollTypes == ASSUME TypeInv, ReadPoll PROVE TypeInv'
  <1>1. ASSUME NEW S \in Pages(DOMAIN runs, PageCap),
               page' = [page EXCEPT !.live = Seen(Max(S)).status \in Live,
                                    !.age = Seen(Max(S)).age]
        PROVE  page' \in Page /\ page'.known \subseteq page'.awaiting
    <2>1. PICK run \in Run : run = Seen(Max(S))
      BY SeenTyped
    <2>2. (run.status \in Live) \in BOOLEAN /\ run.age \in Nat
      BY DEF Run
    <2>3. PICK b \in BOOLEAN : b = (run.status \in Live)
      BY <2>2
    <2>4. page' = Polled(page, b, run.age)
      BY <1>1, <2>1, <2>3 DEF Polled
    <2>5. page \in Page /\ page.known \subseteq page.awaiting
      BY DEF TypeInv, TypeOK
    <2>6. page' \in Page /\ page'.known = page.known
            /\ page'.awaiting = page.awaiting
      BY <2>2, <2>4, <2>5, PagePolled
    <2> QED  BY <2>5, <2>6
  <1>2. CASE Fails("poll")
    BY <1>2, FailsTyped, ReadsKeep
    DEF Pieces, ReadPoll, Goes, TypeInv, TypeOK, PastPoll
  <1>3. CASE /\ \E S \in Pages(DOMAIN runs, PageCap) :
                   page' = [page EXCEPT !.live = Seen(Max(S)).status \in Live,
                                        !.age = Seen(Max(S)).age]
             /\ UNCHANGED left
    BY <1>1, <1>3, ReadsKeep DEF ReadPoll, Goes, TypeInv, TypeOK, PastPoll
  <1> QED  BY <1>2, <1>3 DEF ReadPoll

LEMMA ListTypes == ASSUME TypeInv, List PROVE TypeInv'
  <1>1. CASE /\ at' = "offers" /\ Fails("lifecycle") /\ UNCHANGED unasked
    BY <1>1, FailsTyped, ReadsKeep DEF Pieces, List, TypeInv, TypeOK, PastPoll
  <1>2. CASE /\ at' = "queries"
             /\ unasked' \in Pages({t \in Txns : state[t] \in
                                       {"awaiting_human", "open"}}, MaxQueries)
             /\ UNCHANGED <<page, left>>
    <2>1. unasked' \subseteq Txns
      BY <1>2 DEF Pages
    <2> QED  BY <1>2, <2>1, ReadsKeep DEF List, TypeInv, TypeOK, PastPoll
  <1> QED  BY <1>1, <1>2 DEF List

LEMMA QueryTypes ==
    ASSUME TypeInv, NEW t \in Txns, Query(t) PROVE TypeInv'
  <1>1. "unanswered" \in Kinds
    BY DEF Kinds
  <1>2. /\ left' \in [Kinds -> Nat]
        /\ \A k \in Kinds : left'[k] <= Bounds[k] /\ left'[k] <= left[k]
    BY <1>1, UseTyped DEF Query, TypeInv, TypeOK
  <1>3. page' \in Page /\ page'.known \subseteq page'.awaiting
    BY PageAwaits DEF Query, TypeInv, TypeOK
  <1> QED  BY <1>2, <1>3, ReadsKeep DEF Query, TypeInv, TypeOK, PastPoll

LEMMA ReadOffersTypes == ASSUME TypeInv, ReadOffers PROVE TypeInv'
  <1>1. CASE Fails("offers")
    BY <1>1, FailsTyped, ReadsKeep
    DEF Pieces, ReadOffers, TypeInv, TypeOK, PastPoll
  <1>2. CASE page' = [page EXCEPT !.offers = offers] /\ UNCHANGED left
    <2>1. page' \in Page /\ page'.known \subseteq page'.awaiting
      BY <1>2, PageOffers DEF TypeInv, TypeOK
    <2> QED  BY <1>2, <2>1, ReadsKeep
             DEF ReadOffers, TypeInv, TypeOK, PastPoll
  <1> QED  BY <1>1, <1>2 DEF ReadOffers

LEMMA ReadDispatchTypes == ASSUME TypeInv, ReadDispatch PROVE TypeInv'
  <1>1. CASE Fails("dispatch")
    BY <1>1, FailsTyped, ReadsKeep
    DEF Pieces, ReadDispatch, Goes, TypeInv, TypeOK, PastPoll
  <1>2. CASE ~Fails("dispatch")
    <2>1. dispatched \in SUBSET Actions /\ IsFiniteSet(Actions)
      BY DashboardAssumption DEF TypeInv, TypeOK
    <2>2. Cardinality(dispatched) \in Nat
      BY <2>1, FS_Subset, FS_CardinalityType
    <2>3. {Tallied(a) : a \in dispatched} \in SUBSET {"?"}
      BY DEF Tallied
    <2>4. page \in Page /\ page.known \subseteq page.awaiting
      BY DEF TypeInv, TypeOK
    <2>5. page' = [page EXCEPT !.tally = {Tallied(a) : a \in dispatched},
                               !.total = Cardinality(dispatched)]
      BY <1>2 DEF ReadDispatch
    <2>6. page' \in Page /\ page'.known = page.known
            /\ page'.awaiting = page.awaiting
      BY <2>2, <2>3, <2>4, <2>5, PageTallies
    <2> QED  BY <1>2, <2>4, <2>6, ReadsKeep
             DEF ReadDispatch, Goes, TypeInv, TypeOK, PastPoll
  <1> QED  BY <1>1, <1>2

LEMMA ReadTerminalTypes == ASSUME TypeInv, ReadTerminal PROVE TypeInv'
  <1>1. CASE Fails("terminal")
    BY <1>1, FailsTyped, ReadsKeep
    DEF Pieces, ReadTerminal, Goes, TypeInv, TypeOK, PastPoll
  <1>2. CASE UNCHANGED <<page, left>>
    BY <1>2, ReadsKeep DEF ReadTerminal, Goes, TypeInv, TypeOK, PastPoll
  <1> QED  BY <1>1, <1>2 DEF ReadTerminal

LEMMA ResolveTypes == ASSUME TypeInv, Resolve PROVE TypeInv'
  <1>1. "unresolved" \in Kinds
    BY DEF Kinds
  <1>2. /\ left' \in [Kinds -> Nat]
        /\ \A k \in Kinds : left'[k] <= Bounds[k] /\ left'[k] <= left[k]
    BY <1>1, UseTyped DEF Resolve, TypeInv, TypeOK
  <1>3. page \in Page /\ page.known \subseteq page.awaiting
    BY DEF TypeInv, TypeOK
  <1>4. ASSUME NEW traces \in BOOLEAN, NEW ids \in Resolvable,
               page' = [page EXCEPT !.known = ids,
                                    !.settled = ids \cap approved,
                                    !.traces = traces]
        PROVE  page' \in Page /\ page'.known \subseteq page'.awaiting
    <2>1. PICK done : done = ids \cap approved
      OBVIOUS
    <2>2. ids \in SUBSET page.awaiting /\ done \in SUBSET ids
      BY <2>1 DEF Resolvable, Pages
    <2>3. page' = Known(page, ids, done, traces)
      BY <1>4, <2>1 DEF Known
    <2>4. page' \in Page /\ page'.known = ids
            /\ page'.awaiting = page.awaiting
      BY <1>3, <2>2, <2>3, PageKnows
    <2> QED  BY <2>2, <2>4
  <1>5. ASSUME NEW traces \in BOOLEAN, NEW read \in BOOLEAN,
               page' = [page EXCEPT !.ynab = read, !.traces = traces]
        PROVE  page' \in Page /\ page'.known \subseteq page'.awaiting
    <2>1. page' \in Page /\ page'.known = page.known
            /\ page'.awaiting = page.awaiting
      BY <1>3, <1>5, PageUnresolved
    <2> QED  BY <1>3, <2>1
  <1>6. page' \in Page /\ page'.known \subseteq page'.awaiting
    BY <1>4, <1>5 DEF Resolve
  <1> QED  BY <1>2, <1>6, ReadsKeep
           DEF Resolve, Goes, TypeInv, TypeOK, PastPoll

(* Whatever the world does, the page and the request stand.                *)
LEMMA WorldKeeps ==
    ASSUME TypeInv, UNCHANGED <<at, unasked, page>>,
           runs' \in Seq(Run), Len(runs') \in 1 .. Retained,
           state' \in [Txns -> {"open", "awaiting_human", "archived"}],
           approved' \subseteq Txns, offers' \subseteq Offers,
           dispatched' \subseteq Actions,
           left' \in [Kinds -> Nat], \A k \in Kinds : left'[k] <= Bounds[k],
           since' \in 0 .. 1, at = "idle" => since' = 0
    PROVE  TypeInv'
  BY DEF TypeInv, TypeOK, Run

(* What a step of the loop does to its runs: the latest is new, or stopped *)
(* or, when an hour turns, older.                                          *)
LEMMA TickRuns ==
    ASSUME TypeOK, Tick \/ StartPoll
    PROVE  /\ runs' \in Seq(Run) /\ Len(runs') \in 1 .. Retained
           /\ Latest' = [status |-> "running", age |-> 0]
  <1> DEFINE new == [status |-> "running", age |-> 0]
  <1>1. new \in Run
    BY DEF Run, Live
  <1>2. /\ runs \in Seq(Run) /\ Len(runs) \in Nat /\ Len(runs) >= 1
        /\ Len(runs) <= Retained
    BY RunsTyped
  <1>3. PICK s \in {runs, Closes("continued_as_new")} :
           runs' = Kept(Append(s, new))
    BY DEF Tick, StartPoll, NewRun
  <1>4. s \in Seq(Run) /\ Len(s) = Len(runs)
    BY <1>2, ClosesTyped DEF Live
  <1> HIDE DEF new
  <1>5. /\ Kept(Append(s, new)) \in Seq(Run)
        /\ Len(Kept(Append(s, new))) \in 1 .. Retained
        /\ Kept(Append(s, new))[Len(Kept(Append(s, new)))] = new
    BY <1>1, <1>2, <1>4, KeptTyped
  <1> QED  BY <1>3, <1>5 DEF Latest, new

LEMMA TerminateRuns ==
    ASSUME TypeOK, Terminate
    PROVE  /\ runs' \in Seq(Run) /\ Len(runs') \in 1 .. Retained
           /\ Latest'.status = "terminated"
  <1>1. /\ runs' \in Seq(Run) /\ Len(runs') = Len(runs)
        /\ runs'[Len(runs)] = [Latest EXCEPT !.status = "terminated"]
    BY ClosesTyped DEF Terminate
  <1>2. Latest \in Run /\ Len(runs) \in 1 .. Retained
    BY RunsTyped DEF TypeOK
  <1>3. [Latest EXCEPT !.status = "terminated"].status = "terminated"
    BY <1>2 DEF Run
  <1> QED  BY <1>1, <1>2, <1>3 DEF Latest

LEMMA HourRuns ==
    ASSUME TypeOK, Hour
    PROVE  /\ runs' \in Seq(Run) /\ Len(runs') \in 1 .. Retained
           /\ Latest'.status = Latest.status
           /\ Latest'.age = IF Latest.age > StaleAfter + 1 THEN Latest.age
                            ELSE Latest.age + 1
           /\ Latest.age \in Nat
  <1> DEFINE aged(run) == IF run.age > StaleAfter + 1 THEN run.age
                          ELSE run.age + 1
             older(run) == [run EXCEPT !.age = aged(run)]
  <1>1. /\ runs \in Seq(Run) /\ Len(runs) \in Nat /\ Len(runs) >= 1
        /\ Len(runs) \in DOMAIN runs /\ Latest \in Run
        /\ \A i \in DOMAIN runs : runs[i] \in Run
    BY RunsTyped
  <1>2. ASSUME NEW run \in Run
        PROVE  /\ older(run) \in Run /\ older(run).status = run.status
               /\ older(run).age = aged(run)
    <2>1. aged(run) \in Nat
      BY DashboardAssumption DEF Run
    <2> HIDE DEF aged
    <2> QED  BY <2>1 DEF Run
  <1>3. runs' = [i \in DOMAIN runs |-> older(runs[i])]
    BY DEF Hour
  <1> HIDE DEF older
  <1>4. runs' \in Seq(Run) /\ Len(runs') = Len(runs)
    BY <1>1, <1>2, <1>3
  <1>5. Latest' = older(Latest)
    BY <1>1, <1>3, <1>4 DEF Latest
  <1>6. Latest.age \in Nat
    BY <1>1 DEF Run
  <1> QED  BY <1>1, <1>2, <1>4, <1>5, <1>6 DEF TypeOK

LEMMA WorldTypes == ASSUME TypeInv, World PROVE TypeInv'
  <1>1. /\ runs \in Seq(Run) /\ Len(runs) \in 1 .. Retained
        /\ left \in [Kinds -> Nat] /\ \A k \in Kinds : left[k] <= Bounds[k]
        /\ since \in 0 .. 1 /\ (at = "idle" => since = 0)
        /\ UNCHANGED <<at, unasked, page>>
    BY DEF TypeInv, TypeOK, Run, World
  <1>2. CASE Tick \/ StartPoll
    <2>1. runs' \in Seq(Run) /\ Len(runs') \in 1 .. Retained
      BY <1>2, TickRuns DEF TypeInv
    <2> QED  BY <1>1, <1>2, <2>1, WorldKeeps
             DEF Tick, StartPoll, TypeInv, TypeOK
  <1>3. CASE Terminate
    <2>1. runs' \in Seq(Run) /\ Len(runs') \in 1 .. Retained
      BY <1>3, TerminateRuns DEF TypeInv
    <2>2. "stop" \in Kinds
      BY DEF Kinds
    <2>3. /\ left' \in [Kinds -> Nat]
          /\ \A k \in Kinds : left'[k] <= Bounds[k] /\ left'[k] <= left[k]
      BY <1>1, <1>3, <2>2, UseTyped DEF Terminate
    <2> QED  BY <1>1, <1>3, <2>1, <2>3, WorldKeeps
             DEF Terminate, TypeInv, TypeOK
  <1>4. CASE Hour
    <2>1. runs' \in Seq(Run) /\ Len(runs') \in 1 .. Retained
      BY <1>4, HourRuns DEF TypeInv
    <2>2. since' \in 0 .. 1 /\ (at = "idle" => since' = 0)
      BY <1>1, <1>4 DEF Hour
    <2> QED  BY <1>1, <1>4, <2>1, <2>2, WorldKeeps DEF Hour, TypeInv, TypeOK
  <1>5. ASSUME NEW t \in Txns, Moves(t) PROVE TypeInv'
    <2>1. state' \in [Txns -> {"open", "awaiting_human", "archived"}]
      BY <1>5 DEF Moves, TypeInv, TypeOK
    <2> QED  BY <1>1, <1>5, <2>1, WorldKeeps DEF Moves, TypeInv, TypeOK
  <1>6. ASSUME NEW t \in Txns, Approve(t) PROVE TypeInv'
    BY <1>1, <1>6, WorldKeeps DEF Approve, TypeInv, TypeOK
  <1>7. ASSUME NEW o \in Offers, Offer(o) PROVE TypeInv'
    BY <1>1, <1>7, WorldKeeps DEF Offer, TypeInv, TypeOK
  <1>8. ASSUME NEW a \in Actions, Dispatches(a) PROVE TypeInv'
    BY <1>1, <1>8, WorldKeeps DEF Dispatches, TypeInv, TypeOK
  <1> QED  BY <1>2, <1>3, <1>4, <1>5, <1>6, <1>7, <1>8 DEF World

LEMMA InitTypes == Init => TypeInv
  <1> SUFFICES ASSUME Init PROVE TypeInv
    OBVIOUS
  <1>1. NoPage \in Page /\ NoPage.known \subseteq NoPage.awaiting
        /\ NoPage.awaiting = {} /\ NoPage.offers = {}
    BY DEF NoPage, Page
  <1>2. /\ runs \in Seq([status : Live \cup {"terminated"}, age : Nat])
        /\ Len(runs) = 1 /\ Retained \in Nat /\ Retained >= 1
    BY DashboardAssumption DEF Init, Live
  <1>3. Bounds \in [Kinds -> Nat]
    BY DashboardAssumption
  <1>4. TypeOK
    BY <1>1, <1>2, <1>3 DEF Init, TypeOK
  <1> QED  BY <1>1, <1>3, <1>4 DEF Init, TypeInv

LEMMA StepTypes == TypeInv /\ [Next]_vars => TypeInv'
  <1> SUFFICES ASSUME TypeInv, [Next]_vars PROVE TypeInv'
    OBVIOUS
  <1>1. CASE UNCHANGED vars
    BY <1>1 DEF vars, world, TypeInv, TypeOK
  <1>2. CASE Reads
    BY <1>2, RequestTypes, CloseTypes, ReadPollTypes, ListTypes, QueryTypes,
       ReadOffersTypes, ReadDispatchTypes, ReadTerminalTypes, ResolveTypes
    DEF Reads
  <1>3. CASE World
    BY <1>3, WorldTypes
  <1> QED  BY <1>1, <1>2, <1>3 DEF Next

LEMMA TypesInvariant == Spec => []TypeInv
  BY InitTypes, StepTypes, PTL DEF Spec

(* Type correctness: whatever is read when, a page holds charges and       *)
(* offers, and what is known of the queue is part of it.                   *)
THEOREM TypeCorrect == Spec => []TypeOK
  <1>1. TypeInv => TypeOK
    BY DEF TypeInv
  <1> QED  BY <1>1, TypesInvariant, PTL

(* -- The masthead --------------------------------------------------------- *)
(* No reading but that of the loop says anything of it, and no reading is  *)
(* taken back before the next request.                                     *)
Says == /\ page'.live = page.live /\ page'.age = page.age
        /\ page.errors \subseteq page'.errors

(* Later ones leave the queue on the page, and look up what is approved.   *)
Holds == /\ page'.awaiting = page.awaiting /\ page'.offers = page.offers
         /\ page'.settled \subseteq page.settled \cup approved

LEMMA FailsSays ==
    ASSUME TypeInv, NEW piece \in Pieces, Fails(piece) PROVE Says /\ Holds
  BY FailsTyped DEF Says, Holds

LEMMA ReadDispatchSays ==
    ASSUME TypeInv, ReadDispatch PROVE Says /\ Holds
  <1>1. CASE Fails("dispatch")
    BY <1>1, FailsSays DEF Pieces
  <1>2. CASE ~Fails("dispatch")
    <2>1. page \in Page /\ dispatched \in SUBSET Actions
      BY DEF TypeInv, TypeOK
    <2>2. Cardinality(dispatched) \in Nat
      BY <2>1, DashboardAssumption, FS_Subset, FS_CardinalityType
    <2>3. {Tallied(a) : a \in dispatched} \in SUBSET {"?"}
      BY DEF Tallied
    <2>4. page' = [page EXCEPT !.tally = {Tallied(a) : a \in dispatched},
                               !.total = Cardinality(dispatched)]
      BY <1>2 DEF ReadDispatch
    <2>5. /\ page'.live = page.live /\ page'.age = page.age
          /\ page'.errors = page.errors /\ page'.awaiting = page.awaiting
          /\ page'.offers = page.offers /\ page'.settled = page.settled
      BY <2>1, <2>2, <2>3, <2>4, PageTallies
    <2> QED  BY <2>5 DEF Says, Holds
  <1> QED  BY <1>1, <1>2

LEMMA ResolveSays == ASSUME TypeInv, Resolve PROVE Says /\ Holds
  <1>1. page \in Page
    BY DEF TypeInv
  <1>2. ASSUME NEW ids \in Resolvable, NEW traces \in BOOLEAN,
               page' = Known(page, ids, ids \cap approved, traces)
        PROVE  Says /\ Holds
    <2>1. ids \in SUBSET page.awaiting
      BY DEF Resolvable, Pages
    <2>2. /\ page'.live = page.live /\ page'.age = page.age
          /\ page'.errors = page.errors /\ page'.awaiting = page.awaiting
          /\ page'.offers = page.offers /\ page'.settled = ids \cap approved
      BY <1>1, <1>2, <2>1, PageKnows
    <2> QED  BY <2>2 DEF Says, Holds
  <1>3. ASSUME NEW read \in BOOLEAN, NEW traces \in BOOLEAN,
               page' = [page EXCEPT !.ynab = read, !.traces = traces]
        PROVE  Says /\ Holds
    <2>1. /\ page'.live = page.live /\ page'.age = page.age
          /\ page'.errors = page.errors /\ page'.awaiting = page.awaiting
          /\ page'.offers = page.offers /\ page'.settled = page.settled
      BY <1>1, <1>3, PageUnresolved
    <2> QED  BY <2>1 DEF Says, Holds
  <1> QED  BY <1>2, <1>3 DEF Resolve, Known

LEMMA ReadsSay ==
    ASSUME TypeInv, Reads, ~ReadPoll, at \in PastPoll, at' # "idle"
    PROVE  Says
  <1>1. CASE Request \/ Close
    BY <1>1 DEF Request, Close, PastPoll
  <1>2. CASE List
    BY <1>2, FailsSays DEF List, Pieces, Says
  <1>3. ASSUME NEW t \in Txns, Query(t) PROVE Says
    <2>1. page'.live = page.live /\ page'.age = page.age
            /\ page'.errors = page.errors
      BY <1>3, PageAwaits DEF Query, TypeInv
    <2> QED  BY <2>1 DEF Says
  <1>4. CASE ReadOffers
    <2>1. ASSUME page' = [page EXCEPT !.offers = offers] PROVE Says
      <3>1. page'.live = page.live /\ page'.age = page.age
              /\ page'.errors = page.errors
        BY <2>1, PageOffers DEF TypeInv, TypeOK
      <3> QED  BY <3>1 DEF Says
    <2> QED  BY <1>4, <2>1, FailsSays DEF ReadOffers, Pieces
  <1>5. CASE ReadDispatch \/ Resolve
    BY <1>5, ReadDispatchSays, ResolveSays
  <1>6. CASE ReadTerminal
    BY <1>6, FailsSays DEF ReadTerminal, Pieces, Says
  <1> QED  BY <1>1, <1>2, <1>3, <1>4, <1>5, <1>6 DEF Reads

(* The history only grows until the request is over.                       *)
LEMMA Observes ==
    ASSUME Observe, at' # "idle"
    PROVE  /\ verdicts \subseteq verdicts'
           /\ Problem' => TRUE \in verdicts'
           /\ ~Problem' => FALSE \in verdicts'
  <1>1. verdicts' = verdicts \cup {Problem'}
    BY DEF Observe
  <1>3. (Problem') \in {TRUE, FALSE}
    BY DEF Problem
  <1>4. (Problem') \in verdicts'
    BY <1>1
  <1>5. ASSUME Problem' PROVE TRUE \in verdicts'
    <2>1. (Problem') = TRUE
      BY <1>3, <1>5
    <2> QED  BY <1>4, <2>1
  <1>6. ASSUME ~Problem' PROVE FALSE \in verdicts'
    <2>1. (Problem') = FALSE
      BY <1>3, <1>6
    <2> QED  BY <1>4, <2>1
  <1> QED  BY <1>1, <1>5, <1>6

LEMMA ReadsStay ==
    ASSUME Reads
    PROVE  /\ UNCHANGED world
           /\ at' # "idle" => UNCHANGED since
           /\ at' \in PastPoll => at \in PastPoll \/ ReadPoll
           /\ at = "idle" => Request
  <1>1. UNCHANGED world
    BY DEF Reads, Request, Close, ReadPoll, List, Query, ReadOffers,
           ReadDispatch, ReadTerminal, Resolve
  <1>2. at' # "idle" => UNCHANGED since
    BY DEF Reads, Request, Close, ReadPoll, List, Query, ReadOffers,
           ReadDispatch, ReadTerminal, Resolve
  <1>3. at' \in PastPoll => at \in PastPoll \/ ReadPoll
    BY DEF Reads, Request, Close, List, Query, ReadOffers,
           ReadDispatch, ReadTerminal, Resolve, Goes, PastPoll
  <1>4. at = "idle" => Request
    BY DEF Reads, Close, ReadPoll, List, Query, ReadOffers,
           ReadDispatch, ReadTerminal, Resolve, Goes
  <1> QED  BY <1>1, <1>2, <1>3, <1>4

(* A run that is alive and fresh by the request's clock is none the        *)
(* deadman would have called a problem at some time since.                 *)
LEMMA LoopKept ==
    ASSUME MastheadInv, Next PROVE LoopInv'
  <1> SUFFICES ASSUME at' # "idle", Fresh(Latest', since')
               PROVE  FALSE \in verdicts'
    BY DEF LoopInv
  <1>1. /\ verdicts \subseteq verdicts'
        /\ (~Problem' => FALSE \in verdicts')
    BY Observes DEF Next
  <1>2. TypeInv /\ LoopInv /\ StaleAfter \in Nat /\ since \in Nat
    BY DashboardAssumption DEF MastheadInv, TypeInv, TypeOK
  <1>3. /\ verdicts \subseteq verdicts' /\ (~Problem' => FALSE \in verdicts')
        /\ TypeInv /\ LoopInv /\ StaleAfter \in Nat /\ since \in Nat
    BY <1>1, <1>2
  <1>4. ASSUME UNCHANGED Latest, UNCHANGED since, at # "idle"
        PROVE  FALSE \in verdicts'
    BY <1>3, <1>4 DEF LoopInv
  <1>5. CASE Reads
    <2>1. CASE at = "idle"
      <3>1. /\ since' = 0 /\ Latest' = Latest /\ Latest.age \in Nat
            /\ at = "idle"
        BY <1>3, <1>5, <2>1, ReadsStay, RunsTyped
        DEF TypeInv, world, Latest, Run
      <3>2. ~Problem'
        BY <1>3, <3>1 DEF Problem, Fresh
      <3> QED  BY <1>3, <3>2
    <2>2. CASE at # "idle"
      BY <1>4, <1>5, <2>2, ReadsStay DEF world, Latest
    <2> QED  BY <2>1, <2>2
  <1>6. CASE World
    <2>1. at # "idle"
      BY <1>6 DEF World
    <2>2. CASE Tick \/ StartPoll
      <3>1. Latest' = [status |-> "running", age |-> 0]
        BY <1>3, <2>2, TickRuns DEF TypeInv
      <3>2. ~Problem'
        BY <1>3, <3>1 DEF Problem, Live
      <3> QED  BY <1>3, <3>2
    <2>3. CASE Terminate
      <3>1. Latest'.status = "terminated"
        BY <1>3, <2>3, TerminateRuns DEF TypeInv
      <3> QED  BY <3>1 DEF Fresh, Live
    <2>4. CASE Hour
      <3>1. /\ Latest'.status = Latest.status /\ Latest.age \in Nat
            /\ Latest'.age = IF Latest.age > StaleAfter + 1 THEN Latest.age
                             ELSE Latest.age + 1
        BY <1>3, <2>4, HourRuns DEF TypeInv
      <3>2. since = 0 /\ since' = 1
        BY <2>1, <2>4 DEF Hour
      <3>3. Latest.age <= StaleAfter
        BY <1>3, <3>1, <3>2 DEF Fresh
      <3>4. Fresh(Latest, since)
        BY <1>3, <3>1, <3>2, <3>3 DEF Fresh
      <3> QED  BY <1>3, <2>1, <3>4 DEF LoopInv
    <2>5. CASE \/ \E t \in Txns : Moves(t) \/ Approve(t)
               \/ \E o \in Offers : Offer(o)
               \/ \E a \in Actions : Dispatches(a)
      <3>1. UNCHANGED <<runs, since>>
        BY <2>5 DEF Moves, Approve, Offer, Dispatches
      <3> QED  BY <1>4, <2>1, <3>1 DEF Latest
    <2> QED  BY <1>6, <2>2, <2>3, <2>4, <2>5 DEF World
  <1> QED  BY <1>5, <1>6 DEF Next

(* What a page that holds every run says of the loop.                      *)
LEMMA PolledRun ==
    ASSUME TypeInv, Retained <= PageCap, ReadPoll, ~Fails("poll")
    PROVE  /\ page'.live <=> Latest.status \in Live
           /\ page'.age = IF Latest.age > since THEN Latest.age - since ELSE 0
           /\ Latest.age \in Nat
  <1> DEFINE aged == IF Latest.age > since THEN Latest.age - since ELSE 0
             seen == [Latest EXCEPT !.age = aged]
  <1>1. PICK S \in Pages(DOMAIN runs, PageCap) :
           page' = [page EXCEPT !.live = Seen(Max(S)).status \in Live,
                                !.age = Seen(Max(S)).age]
    BY DEF ReadPoll
  <1>2. Max(S) = Len(runs)
    BY PageHoldsLatest DEF TypeInv
  <1>3. Seen(Len(runs)) = seen
    BY DEF Seen, Latest
  <1>4. Latest \in Run /\ Latest.age \in Nat /\ since \in Nat
    BY RunsTyped DEF TypeInv, TypeOK, Run
  <1>5. aged \in Nat
    BY <1>4
  <1>6. seen.status = Latest.status /\ seen.age = aged
    <2> HIDE DEF aged
    <2> QED  BY <1>4, <1>5 DEF Run
  <1>7. PICK alive \in BOOLEAN : alive <=> Latest.status \in Live
    OBVIOUS
  <1>8. PICK n \in Nat : n = aged
    BY <1>5
  <1>9. page' = Polled(page, alive, n)
    <2> HIDE DEF aged, seen
    <2> QED  BY <1>1, <1>2, <1>3, <1>6, <1>7, <1>8 DEF Polled
  <1>10. page \in Page
    BY DEF TypeInv
  <1>11. page'.live = alive /\ page'.age = n
    BY <1>9, <1>10, PagePolled
  <1> QED  BY <1>4, <1>7, <1>8, <1>11

LEMMA PolledKept ==
    ASSUME MastheadInv, Retained <= PageCap, Next PROVE PolledInv'
  <1> SUFFICES ASSUME at' \in PastPoll, "poll" \notin page'.errors
               PROVE  IF Sound(page') THEN FALSE \in verdicts'
                      ELSE TRUE \in verdicts'
    BY DEF PolledInv
  <1>1. at' # "idle" /\ TypeInv /\ LoopInv /\ PolledInv
    BY DEF PastPoll, MastheadInv
  <1>2. verdicts \subseteq verdicts' /\ (Problem' => TRUE \in verdicts')
    BY <1>1, Observes DEF Next
  <1>3. ASSUME at \in PastPoll, Says PROVE Sound(page') <=> Sound(page)
    BY <1>3 DEF Says, Sound
  <1>4. ASSUME at \in PastPoll, Says
        PROVE  IF Sound(page') THEN FALSE \in verdicts'
               ELSE TRUE \in verdicts'
    <2>1. "poll" \notin page.errors
      BY <1>4 DEF Says
    <2> QED  BY <1>1, <1>2, <1>3, <1>4, <2>1 DEF PolledInv
  <1>5. CASE ReadPoll
    <2>1. ~Fails("poll")
      <3>1. "poll" \in Pieces
        BY DEF Pieces
      <3> QED  BY <1>1, <3>1, FailsTyped
    <2>2. /\ page'.live <=> Latest.status \in Live
          /\ page'.age = IF Latest.age > since THEN Latest.age - since ELSE 0
          /\ Latest.age \in Nat
      BY <1>1, <1>5, <2>1, PolledRun
    <2>3. StaleAfter \in Nat /\ since \in Nat
      BY <1>1, DashboardAssumption DEF TypeInv, TypeOK
    <2>4. CASE Sound(page')
      <3>1. Fresh(Latest, since)
        BY <2>2, <2>3, <2>4 DEF Sound, Fresh
      <3>2. at # "idle"
        BY <1>5 DEF ReadPoll, Goes
      <3> QED  BY <1>1, <1>2, <2>4, <3>1, <3>2 DEF LoopInv
    <2>5. CASE ~Sound(page')
      <3>1. Problem
        BY <2>2, <2>3, <2>5 DEF Sound, Problem
      <3>2. runs' = runs
        BY <1>5 DEF ReadPoll, world
      <3>3. Problem'
        BY <3>1, <3>2 DEF Problem, Latest
      <3> QED  BY <1>2, <2>5, <3>3
    <2> QED  BY <2>4, <2>5
  <1>6. CASE Reads /\ ~ReadPoll
    BY <1>1, <1>4, <1>6, ReadsStay, ReadsSay
  <1>7. CASE World
    BY <1>4, <1>7 DEF World, Says
  <1> QED  BY <1>5, <1>6, <1>7 DEF Next

LEMMA InitMasthead == Init => MastheadInv
  BY InitTypes DEF Init, MastheadInv, LoopInv, PolledInv, PastPoll

LEMMA StepMasthead ==
    ASSUME Retained <= PageCap
    PROVE  MastheadInv /\ [Next]_vars => MastheadInv'
  <1> SUFFICES ASSUME MastheadInv, [Next]_vars PROVE MastheadInv'
    OBVIOUS
  <1>1. TypeInv'
    BY StepTypes DEF MastheadInv
  <1>2. CASE UNCHANGED vars
    <2>1. LoopInv' /\ PolledInv'
      BY <1>2 DEF vars, world, MastheadInv, LoopInv, PolledInv, Latest
    <2> QED  BY <1>1, <2>1 DEF MastheadInv
  <1>3. CASE Next
    BY <1>1, <1>3, LoopKept, PolledKept DEF MastheadInv
  <1> QED  BY <1>2, <1>3

(* The masthead agrees with the deadman, whatever happens between the      *)
(* request's clock and its readings: a page that does not say "down" was   *)
(* asked for or read while the loop ticked, and one that says so with all  *)
(* its readings while it did not (dashboard/read_model.py, _rollup).  A    *)
(* page of the loop's runs must hold them all: they are listed in no       *)
(* useful order.                                                           *)
THEOREM MastheadIsTrue ==
    ASSUME Retained <= PageCap
    PROVE  Spec => []MastheadSound
  <1>1. ASSUME MastheadInv PROVE MastheadSound
    <2>1. ASSUME Shown
          PROVE  /\ Tone # "bad" => FALSE \in verdicts
                 /\ Tone = "bad" /\ page.errors = {} => TRUE \in verdicts
      <3>1. "poll" \notin page.errors =>
               IF Sound(page) THEN FALSE \in verdicts ELSE TRUE \in verdicts
        BY <1>1, <2>1 DEF MastheadInv, PolledInv, PastPoll, Shown
      <3>2. page.age \in Nat /\ StaleAfter \in Nat
        BY <1>1, DashboardAssumption DEF MastheadInv, TypeInv, Page
      <3>3. Tone # "bad" => page.errors = {} /\ Sound(page)
        BY <3>2 DEF Tone, Down, Sound
      <3>4. Tone = "bad" /\ page.errors = {} => ~Sound(page)
        BY <3>2 DEF Tone, Down, Sound
      <3> QED  BY <3>1, <3>3, <3>4
    <2> QED  BY <1>1, <2>1
             DEF MastheadSound, VerdictSound, MastheadInv, TypeInv
  <1>2. MastheadInv => MastheadSound
    BY <1>1
  <1>3. MastheadInv /\ [Next]_vars => MastheadInv'
    BY StepMasthead
  <1> QED  BY <1>2, <1>3, InitMasthead, PTL DEF Spec

(* -- The queue ------------------------------------------------------------ *)
(* What waits is still to be asked, or on the page: of the charges once    *)
(* they were listed, of the offers once they were read.                    *)
AskedInv ==
    Used("unanswered") = 0 /\ page.errors = {} =>
        /\ at = "queries" =>
             waited \cap Txns \subseteq unasked \cup page.awaiting
        /\ at \in PastQueries => waited \cap Txns \subseteq page.awaiting
        /\ at \in PastOffers => waited \cap Offers \subseteq page.offers

QueueInv == /\ TypeInv /\ waited \subseteq Awaits
            /\ page.settled \subseteq approved /\ AskedInv

LEMMA AwaitsParts ==
    ASSUME TypeOK, NEW x, x \in Awaits
    PROVE  /\ x \in Txns => state[x] = "awaiting_human" /\ x \notin approved
           /\ x \in Offers => x \in offers
  <1>1. Txns \cap Offers = {} /\ offers \subseteq Offers
    BY DashboardAssumption DEF TypeOK
  <1> QED  BY <1>1 DEF Awaits

(* No mishap is taken back.                                                *)
LEMMA LeftFalls ==
    ASSUME TypeInv, Next
    PROVE  /\ left' \in [Kinds -> Nat]
           /\ \A k \in Kinds : left'[k] <= left[k] /\ left[k] <= Bounds[k]
                                 /\ Bounds[k] \in Nat
  <1>1. /\ left \in [Kinds -> Nat] /\ Bounds \in [Kinds -> Nat]
        /\ \A k \in Kinds : left[k] <= Bounds[k]
    BY DashboardAssumption DEF TypeInv, TypeOK
  <1>2. PICK k \in Kinds : Use(k) \/ UNCHANGED left
    <2>1. CASE Reads
      BY <2>1
      DEF Reads, Request, Close, ReadPoll, List, Query, ReadOffers,
          ReadDispatch, ReadTerminal, Resolve, Fails, Kinds
    <2>2. CASE World
      BY <2>2 DEF World, Tick, Terminate, StartPoll, Hour, Moves, Approve,
                  Offer, Dispatches, Kinds
    <2> QED  BY <2>1, <2>2 DEF Next
  <1>3. /\ left' \in [Kinds -> Nat]
        /\ \A m \in Kinds : left'[m] <= Bounds[m] /\ left'[m] <= left[m]
    BY <1>1, <1>2, UseTyped
  <1> QED  BY <1>1, <1>3

LEMMA NeverUnused ==
    ASSUME TypeInv, Next, (Used("unanswered"))' = 0
    PROVE  Used("unanswered") = 0 /\ left'["unanswered"] = left["unanswered"]
  <1>1. "unanswered" \in Kinds
    BY DEF Kinds
  <1>2. /\ left \in [Kinds -> Nat] /\ left' \in [Kinds -> Nat]
        /\ left'["unanswered"] <= left["unanswered"]
        /\ left["unanswered"] <= Bounds["unanswered"]
        /\ Bounds["unanswered"] \in Nat
    BY <1>1, LeftFalls DEF TypeInv, TypeOK
  <1>3. left["unanswered"] \in Nat /\ left'["unanswered"] \in Nat
    BY <1>1, <1>2
  <1>4. Bounds["unanswered"] - left'["unanswered"] = 0
    BY DEF Used
  <1> QED  BY <1>2, <1>3, <1>4 DEF Used

(* A page of charges that is large enough lists every one.                 *)
LEMMA AllListed ==
    ASSUME Cardinality(Txns) <= MaxQueries, NEW S \in SUBSET Txns,
           NEW T \in Pages(S, MaxQueries)
    PROVE  T = S
  <1>1. IsFiniteSet(Txns) /\ MaxQueries \in Nat
    BY DashboardAssumption
  <1>2. IsFiniteSet(S) /\ Cardinality(S) <= Cardinality(Txns)
    BY <1>1, FS_Subset
  <1>3. Cardinality(S) \in Nat /\ Cardinality(Txns) \in Nat
    BY <1>1, <1>2, FS_CardinalityType
  <1>4. T \in SUBSET S /\ Cardinality(T) = Cardinality(S)
    BY <1>1, <1>2, <1>3 DEF Pages
  <1> QED  BY <1>2, <1>4, FS_Subset

(* The history only loses what no longer waits.                            *)
LEMMA WaitedShrinks ==
    ASSUME Observe, waited \subseteq Awaits
    PROVE  /\ at' # "idle" /\ at # "idle" => waited' \subseteq waited
           /\ (at = "idle" /\ UNCHANGED world) \/ at # "idle" \/ at' = "idle"
                => waited' \subseteq Awaits'
  <1>1. UNCHANGED world => Awaits' = Awaits
    BY DEF Awaits, world
  <1> QED  BY <1>1 DEF Observe

LEMMA LaterReads ==
    ASSUME TypeInv, ReadDispatch \/ ReadTerminal \/ Resolve
    PROVE  /\ Says /\ Holds /\ at \in PastOffers /\ at' \in PastOffers
           /\ at # "idle" /\ at' # "idle" /\ UNCHANGED world
  <1>1. Says /\ Holds
    BY ReadDispatchSays, ResolveSays, FailsSays
    DEF ReadTerminal, Says, Holds, Pieces
  <1> QED  BY <1>1 DEF ReadDispatch, ReadTerminal, Resolve, Goes, PastOffers

(* The page never holds a charge for settled that is not approved.         *)
LEMMA SettledKept ==
    ASSUME QueueInv, Next PROVE page'.settled \subseteq approved'
  <1>1. TypeInv /\ page.settled \subseteq approved /\ page \in Page
    BY DEF QueueInv, TypeInv
  <1>2. CASE World
    BY <1>1, <1>2 DEF World, Tick, Terminate, StartPoll, Hour, Moves, Approve,
                      Offer, Dispatches
  <1>3. CASE Reads
    <2>1. approved' = approved
      BY <1>3, ReadsStay DEF world
    <2>2. CASE ReadPoll
      <3>1. CASE Fails("poll")
        BY <1>1, <2>1, <3>1, FailsTyped DEF Pieces
      <3>2. CASE ~Fails("poll")
        <4>1. PICK S \in Pages(DOMAIN runs, PageCap) :
                 page' = [page EXCEPT !.live = Seen(Max(S)).status \in Live,
                                      !.age = Seen(Max(S)).age]
          BY <2>2, <3>2 DEF ReadPoll
        <4>2. page'.settled = page.settled
          BY <1>1, <4>1 DEF Page
        <4> QED  BY <1>1, <2>1, <4>2
      <3> QED  BY <3>1, <3>2
    <2>3. CASE Request \/ Close \/ List
      BY <1>1, <2>1, <2>3, FailsTyped
      DEF Request, Close, NoPage, List, Pieces
    <2>4. ASSUME NEW t \in Txns, Query(t) PROVE page'.settled = page.settled
      BY <1>1, <2>4, PageAwaits DEF Query
    <2>5. CASE ReadOffers
      <3>1. CASE Fails("offers")
        BY <1>1, <2>1, <3>1, FailsTyped DEF Pieces
      <3>2. CASE page' = [page EXCEPT !.offers = offers]
        <4>1. page'.settled = page.settled
          BY <1>1, <3>2, PageOffers DEF TypeInv, TypeOK
        <4> QED  BY <1>1, <2>1, <4>1
      <3> QED  BY <2>5, <3>1, <3>2 DEF ReadOffers
    <2>6. CASE ReadDispatch \/ ReadTerminal \/ Resolve
      BY <1>1, <2>1, <2>6, LaterReads DEF Holds
    <2> QED  BY <1>1, <1>3, <2>1, <2>2, <2>3, <2>4, <2>5, <2>6 DEF Reads
  <1> QED  BY <1>2, <1>3 DEF Next

(* What has waited all the while is asked for, and put on the page.        *)
LEMMA AskedKept ==
    ASSUME QueueInv, Cardinality(Txns) <= MaxQueries, Next PROVE AskedInv'
  <1> SUFFICES ASSUME (Used("unanswered"))' = 0, page'.errors = {}
               PROVE  /\ at' = "queries" =>
                         waited' \cap Txns \subseteq unasked' \cup page'.awaiting
                      /\ at' \in PastQueries =>
                           waited' \cap Txns \subseteq page'.awaiting
                      /\ at' \in PastOffers =>
                           waited' \cap Offers \subseteq page'.offers
    BY DEF AskedInv
  <1>1. /\ TypeInv /\ TypeOK /\ AskedInv /\ waited \subseteq Awaits
        /\ page \in Page /\ offers \in SUBSET Offers
    BY DEF QueueInv, TypeInv, TypeOK
  <1>2. /\ Used("unanswered") = 0
        /\ left'["unanswered"] = left["unanswered"]
    BY <1>1, NeverUnused
  <1>3. /\ at' # "idle" /\ at # "idle" => waited' \subseteq waited
        /\ (at = "idle" /\ UNCHANGED world) \/ at # "idle" \/ at' = "idle"
             => waited' \subseteq Awaits'
    BY <1>1, WaitedShrinks DEF Next
  <1>4. \A x \in waited : /\ x \in Txns => state[x] = "awaiting_human"
                          /\ x \in Offers => x \in offers
    BY <1>1, AwaitsParts
  <1>5. CASE World
    <2>1. UNCHANGED <<at, page, unasked>>
      BY <1>5 DEF World
    <2> QED  BY <1>1, <1>2, <1>3, <2>1
             DEF AskedInv, PastQueries, PastOffers
  <1>6. CASE Request \/ Close \/ ReadPoll
    BY <1>6 DEF Request, Close, ReadPoll, Goes, PastQueries, PastOffers
  <1>7. CASE List
    <2>1. ~Fails("lifecycle")
      BY <1>1, FailsTyped DEF Pieces
    <2> DEFINE S == {t \in Txns : state[t] \in {"awaiting_human", "open"}}
    <2>2. at = "lifecycle" /\ at' = "queries"
            /\ unasked' \in Pages(S, MaxQueries)
      BY <1>7, <2>1 DEF List
    <2>3. S \in SUBSET Txns
      OBVIOUS
    <2> HIDE DEF S
    <2>4. unasked' = S
      BY <2>2, <2>3, AllListed
    <2>5. waited' \subseteq waited
      BY <1>3, <2>2
    <2>6. \A x \in waited' \cap Txns : x \in unasked'
      BY <1>4, <2>4, <2>5 DEF S
    <2> QED  BY <2>2, <2>6 DEF PastQueries, PastOffers
  <1>8. ASSUME NEW t \in Txns, Query(t)
        PROVE  /\ at' = "queries"
               /\ waited' \cap Txns \subseteq unasked' \cup page'.awaiting
    <2>1. at = "queries" /\ at' = "queries" /\ t \in unasked
            /\ unasked' = unasked \ {t}
      BY <1>8 DEF Query
    <2>2. waited' \subseteq waited
      BY <1>3, <2>1
    <2>3. ~Use("unanswered")
      <3> SUFFICES ASSUME Use("unanswered") PROVE FALSE
        OBVIOUS
      <3>1. "unanswered" \in Kinds
        BY DEF Kinds
      <3>2. left \in [Kinds -> Nat]
              /\ left' = [left EXCEPT !["unanswered"] = @ - 1]
        BY <1>1 DEF Use, TypeOK
      <3>3. left'["unanswered"] = left["unanswered"] - 1
              /\ left["unanswered"] \in Nat
        <4> HIDE DEF Kinds
        <4> QED  BY <3>1, <3>2
      <3> QED  BY <1>2, <3>3
    <2>4. page' = IF state[t] = "awaiting_human"
                  THEN [page EXCEPT !.awaiting = @ \cup {t}] ELSE page
      BY <1>8, <2>3 DEF Query
    <2>5. /\ page'.errors = page.errors
          /\ page.awaiting \subseteq page'.awaiting
          /\ state[t] = "awaiting_human" => t \in page'.awaiting
      BY <1>1, <2>4, PageAwaits
    <2>6. waited \cap Txns \subseteq unasked \cup page.awaiting
      BY <1>1, <1>2, <2>1, <2>5 DEF AskedInv
    <2>7. \A x \in waited' \cap Txns : x \in unasked' \cup page'.awaiting
      BY <1>4, <2>1, <2>2, <2>5, <2>6
    <2> QED  BY <2>1, <2>7
  <1>9. CASE ReadOffers
    <2>1. ~Fails("offers")
      BY <1>1, FailsTyped DEF Pieces
    <2>2. page' = [page EXCEPT !.offers = offers]
      BY <1>9, <2>1 DEF ReadOffers
    <2>3. page'.awaiting = page.awaiting /\ page'.offers = offers
            /\ page'.errors = page.errors
      BY <1>1, <2>2, PageOffers
    <2>4. /\ at' = "dispatch" /\ at \in {"offers", "queries"}
          /\ at = "queries" => unasked = {}
      BY <1>9 DEF ReadOffers
    <2>5. waited' \subseteq waited
      BY <1>3, <2>4
    <2>6. waited \cap Txns \subseteq page.awaiting
      BY <1>1, <1>2, <2>3, <2>4 DEF AskedInv, PastQueries
    <2> QED  BY <1>4, <2>3, <2>4, <2>5, <2>6
  <1>10. CASE ReadDispatch \/ ReadTerminal \/ Resolve
    <2>1. /\ Says /\ Holds /\ at \in PastOffers /\ at' \in PastOffers
          /\ waited' \subseteq waited
      BY <1>1, <1>3, <1>10, LaterReads
    <2>2. page.errors = {} /\ page'.awaiting = page.awaiting
            /\ page'.offers = page.offers
      BY <2>1 DEF Says, Holds
    <2>3. at \in PastQueries /\ at' \in PastQueries /\ at' # "queries"
      BY <2>1 DEF PastQueries, PastOffers
    <2>4. /\ waited \cap Txns \subseteq page.awaiting
          /\ waited \cap Offers \subseteq page.offers
      BY <1>1, <1>2, <2>1, <2>2, <2>3 DEF AskedInv
    <2> QED  BY <2>1, <2>2, <2>3, <2>4
  <1> QED  BY <1>5, <1>6, <1>7, <1>8, <1>9, <1>10
           DEF Next, Reads, PastQueries, PastOffers

LEMMA WaitedKept == ASSUME QueueInv, Next PROVE waited' \subseteq Awaits'
  <1>1. waited \subseteq Awaits /\ Observe
    BY DEF QueueInv, Next
  <1>2. \/ at = "idle" /\ UNCHANGED world
        \/ at # "idle" \/ at' = "idle"
    <2>1. CASE Reads
      BY <2>1, ReadsStay
    <2>2. CASE World /\ at # "idle"
      BY <2>2
    <2>3. CASE World /\ at = "idle"
      BY <2>3 DEF World
    <2> QED  BY <2>1, <2>2, <2>3 DEF Next
  <1> QED  BY <1>1, <1>2, WaitedShrinks

LEMMA InitQueue == Init => QueueInv
  <1> SUFFICES ASSUME Init PROVE QueueInv
    OBVIOUS
  <1>1. TypeInv
    BY InitTypes
  <1>2. AskedInv
    BY DEF Init, AskedInv, PastQueries, PastOffers
  <1> QED  BY <1>1, <1>2 DEF Init, QueueInv, NoPage

LEMMA StepQueue ==
    ASSUME Cardinality(Txns) <= MaxQueries
    PROVE  QueueInv /\ [Next]_vars => QueueInv'
  <1> SUFFICES ASSUME QueueInv, [Next]_vars PROVE QueueInv'
    OBVIOUS
  <1>1. TypeInv'
    BY StepTypes DEF QueueInv
  <1>2. CASE UNCHANGED vars
    <2>1. AskedInv'
      BY <1>2 DEF vars, QueueInv, AskedInv, Used
    <2>2. waited' \subseteq Awaits' /\ page'.settled \subseteq approved'
      BY <1>2 DEF vars, world, QueueInv, Awaits
    <2> QED  BY <1>1, <2>1, <2>2 DEF QueueInv
  <1>3. CASE Next
    BY <1>1, <1>3, SettledKept, AskedKept, WaitedKept DEF QueueInv
  <1> QED  BY <1>2, <1>3

(* With every workflow asked and answering, what has awaited the owner     *)
(* from the request to the answer is in the queue, however the charges     *)
(* move and are approved meanwhile and whatever the readers of YNAB give,  *)
(* or the headline says that something is wrong (dashboard/read_model.py,  *)
(* _humanize_queue).  The charges must be no more than are asked.          *)
THEOREM WaitingIsShown ==
    ASSUME Cardinality(Txns) <= MaxQueries
    PROVE  Spec => []WaitingShown
  <1>1. ASSUME QueueInv PROVE WaitingShown
    <2> SUFFICES ASSUME Shown, Used("unanswered") = 0,
                        Headline # "attention needed",
                        NEW x \in waited
                 PROVE  x \in NeedsYou
      BY DEF WaitingShown
    <2>1. page.errors = {}
      BY DEF Headline, Tone, Down
    <2>2. /\ waited \cap Txns \subseteq page.awaiting
          /\ waited \cap Offers \subseteq page.offers
      BY <1>1, <2>1 DEF QueueInv, AskedInv, Shown, PastQueries, PastOffers
    <2>3. TypeOK /\ x \in Awaits /\ page.settled \subseteq approved
      BY <1>1 DEF QueueInv, TypeInv
    <2>4. x \in Txns \/ x \in Offers
      BY <2>3 DEF Awaits, TypeOK
    <2>5. CASE x \in Offers
      BY <2>2, <2>5 DEF NeedsYou
    <2>6. CASE x \in Txns
      <3>1. x \notin page.settled
        BY <2>3, <2>6, AwaitsParts
      <3> QED  BY <2>2, <2>6, <3>1 DEF NeedsYou, Handled
    <2> QED  BY <2>4, <2>5, <2>6
  <1>2. QueueInv => WaitingShown
    BY <1>1
  <1>3. QueueInv /\ [Next]_vars => QueueInv'
    BY StepQueue
  <1> QED  BY <1>2, <1>3, InitQueue, PTL DEF Spec
==============================================================================
