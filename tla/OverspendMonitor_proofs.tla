---------------------- MODULE OverspendMonitor_proofs ----------------------
(***************************************************************************)
(* Proofs about W6: for every set of categories and bills, every plan and  *)
(* however often the environment acts.                                     *)
(***************************************************************************)
EXTENDS OverspendMonitor, FiniteSetTheorems, WellFoundedInduction, TLAPS

(* -- Numbers ------------------------------------------------------------- *)
LEMMA Least ==
    ASSUME NEW S \in SUBSET Nat, S # {}
    PROVE  \E i \in S : \A j \in S : i <= j
  <1> DEFINE R == OpToRel(<, Nat)
  <1>1. IsWellFoundedOn(R, Nat)
    BY NatLessThanWellFounded
  <1>2. \A i, j \in Nat : i < j => <<i, j>> \in R
    BY DEF OpToRel
  <1> HIDE DEF R
  <1>3. PICK i \in S : \A j \in S : ~(<<j, i>> \in R)
    BY <1>1, WFMin
  <1>4. ASSUME NEW j \in S PROVE i <= j
    <2>1. ~(j < i)
      BY <1>2, <1>3
    <2> QED BY <2>1
  <1> QED BY <1>4

(* -- What is scheduled --------------------------------------------------- *)
(* The sum of budget/overspend.py's scheduled_remaining, computed bill by  *)
(* bill: sums is a table of it for the sets of D.                          *)
Chosen(s) == CHOOSE b \in s : TRUE

Sums(D, sums) ==
    sums = [s \in D |-> IF s = {} THEN 0
                        ELSE -(Chosen(s).amount) + sums[s \ {Chosen(s)}]]

UpTo(due, n) == {s \in SUBSET due : Cardinality(s) <= n}

LEMMA OneLess ==
    ASSUME NEW due, IsFiniteSet(due), NEW s \in SUBSET due, s # {}
    PROVE  /\ Chosen(s) \in s /\ s \ {Chosen(s)} \in SUBSET due
           /\ Cardinality(s) \in Nat /\ Cardinality(s \ {Chosen(s)}) \in Nat
           /\ Cardinality(s \ {Chosen(s)}) = Cardinality(s) - 1
  <1>1. Chosen(s) \in s
    BY DEF Chosen
  <1>2. IsFiniteSet(s)
    BY FS_Subset
  <1>3. IsFiniteSet(s \ {Chosen(s)})
    BY <1>2, FS_RemoveElement
  <1> QED BY <1>1, <1>2, <1>3, FS_RemoveElement, FS_CardinalityType

LEMMA SumsExist ==
    ASSUME NEW due, IsFiniteSet(due)
    PROVE  \E sums : Sums(SUBSET due, sums)
  <1> DEFINE Fails == {n \in Nat : ~ \E sums : Sums(UpTo(due, n), sums)}
  <1>1. Fails = {}
    <2> SUFFICES ASSUME Fails # {} PROVE FALSE
      OBVIOUS
    <2>1. PICK n \in Fails : \A m \in Fails : n <= m
      BY Least
    <2>2. n \in Nat
      OBVIOUS
    <2>3. CASE n = 0
      <3>1. ASSUME NEW s \in UpTo(due, 0), s # {} PROVE FALSE
        <4>1. s \in SUBSET due /\ Cardinality(s) <= 0
          BY DEF UpTo
        <4>2. /\ Cardinality(s) \in Nat
              /\ Cardinality(s \ {Chosen(s)}) \in Nat
              /\ Cardinality(s \ {Chosen(s)}) = Cardinality(s) - 1
          BY <3>1, <4>1, OneLess
        <4> HIDE DEF Fails
        <4> QED BY <4>1, <4>2
      <3> DEFINE sums == [s \in UpTo(due, 0) |-> 0]
      <3>2. Sums(UpTo(due, 0), sums)
        BY <3>1 DEF Sums
      <3> QED BY <2>3, <3>2
    <2>4. CASE n # 0
      <3>1. n - 1 \in Nat /\ n - 1 \notin Fails
        BY <2>1, <2>2, <2>4
      <3>2. PICK less : Sums(UpTo(due, n - 1), less)
        BY <3>1
      <3> DEFINE sums == [s \in UpTo(due, n) |->
                            IF s = {} THEN 0
                            ELSE -(Chosen(s).amount) + less[s \ {Chosen(s)}]]
      <3>3. ASSUME NEW s \in UpTo(due, n), s # {}
            PROVE  /\ s \ {Chosen(s)} \in UpTo(due, n)
                   /\ s \ {Chosen(s)} \in UpTo(due, n - 1)
        BY <2>2, <3>1, <3>3, OneLess DEF UpTo
      <3>4. ASSUME NEW s \in UpTo(due, n), s \in UpTo(due, n - 1)
            PROVE  sums[s] = less[s]
        BY <3>2, <3>4 DEF Sums
      <3>5. Sums(UpTo(due, n), sums)
        <4>1. ASSUME NEW s \in UpTo(due, n)
              PROVE  sums[s] = IF s = {} THEN 0
                               ELSE -(Chosen(s).amount)
                                      + sums[s \ {Chosen(s)}]
          BY <3>3, <3>4
        <4>2. sums = [s \in UpTo(due, n) |-> sums[s]]
          OBVIOUS
        <4> HIDE DEF sums
        <4> QED BY <4>1, <4>2 DEF Sums
      <3> QED BY <3>5
    <2> QED BY <2>3, <2>4
  <1>2. Cardinality(due) \in Nat
    BY FS_CardinalityType
  <1>3. PICK sums : Sums(UpTo(due, Cardinality(due)), sums)
    BY <1>1, <1>2
  <1>4. UpTo(due, Cardinality(due)) = SUBSET due
    BY FS_Subset DEF UpTo
  <1> QED BY <1>3, <1>4

LEMMA SumsTyped ==
    ASSUME NEW due, IsFiniteSet(due), NEW sums, Sums(SUBSET due, sums),
           \A b \in due : b.amount \in Int /\ b.amount < 0
    PROVE  \A s \in SUBSET due : sums[s] \in Nat
  <1> DEFINE Fails == {Cardinality(s) : s \in {t \in SUBSET due :
                                                 sums[t] \notin Nat}}
  <1>1. Fails \in SUBSET Nat
    BY FS_Subset, FS_CardinalityType
  <1> SUFFICES ASSUME Fails # {} PROVE FALSE
    OBVIOUS
  <1>2. PICK n \in Fails : \A m \in Fails : n <= m
    BY <1>1, Least
  <1>3. PICK s \in SUBSET due : sums[s] \notin Nat /\ n = Cardinality(s)
    OBVIOUS
  <1>4. sums[s] = IF s = {} THEN 0
                  ELSE -(Chosen(s).amount) + sums[s \ {Chosen(s)}]
    BY Zenon DEF Sums
  <1>5. s # {}
    BY <1>3, <1>4
  <1>6. /\ Chosen(s) \in due /\ s \ {Chosen(s)} \in SUBSET due
        /\ Cardinality(s \ {Chosen(s)}) \in Nat
        /\ Cardinality(s \ {Chosen(s)}) < n
    BY <1>3, <1>5, OneLess
  <1>7. Cardinality(s \ {Chosen(s)}) \notin Fails
    BY <1>1, <1>2, <1>6
  <1>8. sums[s \ {Chosen(s)}] \in Nat
    BY <1>6, <1>7
  <1>9. -(Chosen(s).amount) \in Nat
    BY <1>6
  <1> QED BY <1>3, <1>4, <1>5, <1>8, <1>9

LEMMA ScheduledTyped ==
    ASSUME NEW bills \in SUBSET Bills, NEW c, NEW today
    PROVE  ScheduledRemaining(bills, c, today) \in Nat
  <1> DEFINE due == {b \in bills : b.category = c /\ b.amount < 0
                                   /\ b.due >= today}
             total == CHOOSE t : t = [s \in SUBSET due |->
                        IF s = {} THEN 0
                        ELSE -(Chosen(s).amount) + t[s \ {Chosen(s)}]]
  <1>1. ScheduledRemaining(bills, c, today) = total[due]
    BY Zenon DEF ScheduledRemaining, MapThenSumSet, MapThenFoldSet, Chosen
  <1>2. IsFiniteSet(due) /\ due \in SUBSET due
    BY MonitorAssumption, FS_Subset
  <1>3. \A b \in due : b.amount \in Int /\ b.amount < 0
    BY MonitorAssumption
  <1> HIDE DEF due
  <1>4. Sums(SUBSET due, total)
    <2>1. \E t : t = [s \in SUBSET due |->
                        IF s = {} THEN 0
                        ELSE -(Chosen(s).amount) + t[s \ {Chosen(s)}]]
      BY <1>2, SumsExist DEF Sums
    <2>2. total = [s \in SUBSET due |->
                        IF s = {} THEN 0
                        ELSE -(Chosen(s).amount) + total[s \ {Chosen(s)}]]
      BY Zenon, <2>1
    <2> QED BY Zenon, <2>2 DEF Sums
  <1> HIDE DEF total
  <1>5. total[due] \in Nat
    BY <1>2, <1>3, <1>4, SumsTyped
  <1> QED BY <1>1, <1>5

(* -- Projections --------------------------------------------------------- *)
LEMMA Division ==
    ASSUME NEW a \in Int, NEW b \in Nat \ {0}
    PROVE  /\ a \div b \in Int
           /\ b * (a \div b) <= a /\ a < b * (a \div b) + b
  OBVIOUS

LEMMA Products ==
    ASSUME NEW a \in Nat, NEW b \in Nat
    PROVE  a * b \in Nat
  OBVIOUS

(* Numbers that are at most n apart are at most one apart divided by it.   *)
LEMMA QuotientsClose ==
    ASSUME NEW a \in Int, NEW b \in Int, NEW n \in Nat \ {0}, a < b + n
    PROVE  a \div n <= b \div n + 1
  <1> DEFINE p == a \div n
             q == b \div n
  <1>1. p \in Int /\ q \in Int /\ n * p <= a /\ b < n * q + n
    BY Division
  <1> HIDE DEF p, q
  <1>2. n * p < n * q + n + n
    BY <1>1
  <1>3. n * q + n + n = n * (q + 2)
    BY <1>1
  <1>4. p < q + 2
    <2> SUFFICES ASSUME q + 2 <= p PROVE FALSE
      BY <1>1
    <2>1. n * (q + 2) <= n * p
      BY <1>1
    <2> QED BY <1>1, <1>2, <1>3, <2>1
  <1> QED BY <1>1, <1>4 DEF p, q

LEMMA BlendMoves ==
    ASSUME NEW spent \in Nat, NEW anchor \in Nat,
           NEW d \in Days, NEW e \in Days, d <= e
    PROVE  LET blend(at) == at * ((spent * MonthLength) \div at)
                               + (MonthLength - at) * anchor
           IN  /\ blend(d) \in Int /\ blend(e) \in Int
               /\ blend(e) < blend(d) + MonthLength
  <1> DEFINE total == spent * MonthLength
             p == d * (total \div d)
             q == e * (total \div e)
             v == (MonthLength - d) * anchor
             w == (MonthLength - e) * anchor
  <1>0. /\ MonthLength \in Nat /\ d \in Nat \ {0} /\ e \in Nat \ {0}
        /\ d <= MonthLength /\ e <= MonthLength
    BY OverspendAssumption DEF Days
  <1>1. total \in Nat
    BY <1>0, Products
  <1> HIDE DEF total
  <1>2. total \div d \in Int /\ total \div e \in Int
    BY <1>0, <1>1, Division
  <1>3. /\ p \in Int /\ q \in Int /\ p <= total /\ total < p + d
        /\ q <= total
    BY <1>0, <1>1, <1>2, Division
  <1>4. /\ MonthLength - d \in Nat /\ MonthLength - e \in Nat
        /\ MonthLength - e <= MonthLength - d
    BY <1>0
  <1>5. v \in Nat /\ w \in Nat
    BY <1>4, Products
  <1>6. w <= v
    <2>1. v = w + (e - d) * anchor
      BY <1>0
    <2>2. (e - d) * anchor \in Nat
      BY <1>0, Products
    <2> QED BY <1>5, <2>1, <2>2
  <1> HIDE DEF p, q, v, w
  <1>7. q + w < p + v + MonthLength
    BY <1>0, <1>1, <1>3, <1>5, <1>6
  <1>8. p + v \in Int /\ q + w \in Int
    BY <1>3, <1>5
  <1> QED BY <1>7, <1>8 DEF p, q, v, w, total

(* A later day adds at most one unit to the projection of the same figures,*)
(* which is rounding (budget/overspend.py, project_spend).                 *)
LEMMA ProjectionSettles ==
    ASSUME NEW f \in Figures, NEW d \in Days, NEW e \in Days, d <= e
    PROVE  /\ ProjectSpend(f, d) \in Nat /\ ProjectSpend(f, e) \in Nat
           /\ ProjectSpend(f, e) <= ProjectSpend(f, d) + 1
  <1> DEFINE spent  == SpentMagnitude(f)
             anchor == Greater(f.budgeted, spent)
             n(at) == at * ((spent * MonthLength) \div at)
                         + (MonthLength - at) * anchor
             x == n(d) \div MonthLength
             y == n(e) \div MonthLength
  <1>1. spent \in Nat /\ anchor \in Nat /\ f.scheduled \in Nat
    BY DEF Figures, SpentMagnitude, Greater
  <1>2. n(d) \in Int /\ n(e) \in Int /\ n(e) < n(d) + MonthLength
    <2> HIDE DEF spent, anchor
    <2> QED BY <1>1, BlendMoves
  <1>3. /\ ProjectSpend(f, d) = Greater(x, spent) + f.scheduled
        /\ ProjectSpend(f, e) = Greater(y, spent) + f.scheduled
    BY Zenon DEF ProjectSpend
  <1> HIDE DEF spent, n
  <1>4. x \in Int /\ y \in Int /\ y <= x + 1
    BY <1>2, Division, QuotientsClose, OverspendAssumption
  <1> HIDE DEF x, y
  <1> QED BY <1>1, <1>3, <1>4 DEF Greater

Over(f) == Available(f) < 0

LEMMA AssessTyped ==
    ASSUME NEW f \in Figures, NEW d \in Days
    PROVE  /\ Assess(f, d).verdict \in Verdicts
           /\ Assess(f, d).projected \in Nat
           /\ Assess(f, d).projected = ProjectSpend(f, d)
           /\ Assess(f, d).verdict = "already_over" <=> Over(f)
  <1>1. /\ Assess(f, d).verdict = Ranked(f, ProjectSpend(f, d)
                                              - SpentMagnitude(f), Over(f))
        /\ Assess(f, d).projected = ProjectSpend(f, d)
    BY DEF Assess, Over
  <1>2. ProjectSpend(f, d) \in Nat
    <2>1. d <= d
      BY DEF Days
    <2> QED BY <2>1, ProjectionSettles
  <1>3. Ranked(f, ProjectSpend(f, d) - SpentMagnitude(f), Over(f)) \in Verdicts
    BY DEF Ranked, Verdicts
  <1>4. Ranked(f, ProjectSpend(f, d) - SpentMagnitude(f), Over(f))
          = "already_over" <=> Over(f)
    BY DEF Ranked
  <1> QED BY <1>1, <1>2, <1>3, <1>4

(* An alert is not worse than one about the same figures on a day before.  *)
LEMMA SameFiguresNoWorse ==
    ASSUME NEW f \in Figures, NEW d \in Days, NEW e \in Days, d <= e,
           NEW prior, prior.verdict = Assess(f, d).verdict,
           prior.projected = Assess(f, d).projected
    PROVE  ~Worse(Assess(f, e), prior)
  <1>1. ProjectSpend(f, e) <= ProjectSpend(f, d) + 1
        /\ ProjectSpend(f, d) \in Nat /\ ProjectSpend(f, e) \in Nat
    BY ProjectionSettles
  <1>2. Threshold \in Nat \ {0}
    BY OverspendAssumption
  <1> QED BY <1>1, <1>2, AssessTyped DEF Worse, Escalated, Worsened
-----------------------------------------------------------------------------
(* The inductive invariant                                                  *)

InPass    == {"prior", "send", "save"}

(* The calendar only goes forward, and the pass is never ahead of it.      *)
CalendarInv ==
    /\ month + left["month"] <= Bounds["month"] + 1
    /\ \A k \in Kinds : left[k] <= Bounds[k]
    /\ period <= month
    /\ period = month => clock <= day
    /\ \A i \in DOMAIN mails : mails[i].period <= period

(* What is remembered is the assessment, on a day gone by, of the figures  *)
(* it is said to be about.                                                 *)
LedgerInv ==
    \A e \in ledger :
        /\ e.period <= period
        /\ \E d \in Days : /\ e.alert.verdict = Assess(e.figure, d).verdict
                           /\ e.alert.projected =
                                Assess(e.figure, d).projected
                           /\ e.period = period => d <= clock

(* The categories left are flagged, those gone through have been told, and *)
(* what is about to be saved has been sent.                                *)
PassInv ==
    /\ pc \in InPass => todo # {} /\ todo \subseteq Flagged
    /\ pc \in InPass => \A c \in Flagged \ todo : Told(c)
    /\ OwnerKnows
    /\ pc = "save" => Labelled(Current) # {}

(* An alert about to be sent is news against what the ledger remembers.    *)
SendInv ==
    pc = "send" /\ ~Uses("outage") =>
        \A p \in Prior(ledger, Current, period) : Worse(Assessed(Current), p)

(* Unless a query went unanswered or a pass died, what the owner has been  *)
(* told this month is remembered, or about to be.                          *)
Remembered(c) == \E e \in ledger : e.category = c /\ e.period = period
RememberedInv ==
    ~Uses("outage") /\ ~Uses("fault") =>
        \A c \in Categories : Thread(c, period) # {} =>
            \/ Remembered(c)
            \/ pc \in {"send", "save"} /\ c = Current /\ Labelled(c) # {}

IInv == /\ TypeOK /\ CalendarInv /\ LedgerInv /\ SavedMeansMailed
        /\ PassInv /\ OneThread /\ OneOffer
        /\ SendInv /\ RememberedInv /\ OnlyNews

LEMMA CurrentTodo ==
    ASSUME todo \subseteq Categories, todo # {}
    PROVE  Current \in todo
  <1>1. \A c \in Categories : Place(c) \in Nat
    <2> SUFFICES ASSUME NEW c \in Categories PROVE Place(c) \in Nat
      OBVIOUS
    <2>1. \E i \in DOMAIN Cats : Cats[i] = c
      BY DEF Categories
    <2>2. Place(c) \in DOMAIN Cats
      BY <2>1 DEF Place
    <2>3. DOMAIN Cats \subseteq Nat
      BY MonitorAssumption
    <2> QED BY <2>2, <2>3
  <1> DEFINE S == {Place(c) : c \in todo}
  <1>2. S \in SUBSET Nat /\ S # {}
    BY <1>1
  <1>3. PICK n \in S : \A m \in S : n <= m
    BY <1>2, Least
  <1>4. \E c \in todo : \A d \in todo : Place(c) <= Place(d)
    BY <1>3
  <1> QED BY <1>4 DEF Current

LEMMA AlertTyped ==
    ASSUME TypeOK, NEW c \in Categories
    PROVE  /\ Assessed(c).projected \in Nat
           /\ c \in Flagged => Alert(c) \in Alerts
  <1>1. read[c] \in Figures /\ clock \in Days
    BY DEF TypeOK
  <1>2. /\ Assess(read[c], clock).verdict \in Verdicts
        /\ Assess(read[c], clock).projected \in Nat
    BY <1>1, AssessTyped
  <1> QED BY <1>2 DEF Assessed, Alert, Alerts, Flagged

Emails == [category : Categories, period : Months, alert : Alerts,
           opens : BOOLEAN]

LEMMA MailsTyped ==
    ASSUME TypeOK
    PROVE  /\ mails \in Seq(Emails)
           /\ Len(mails) \in Nat /\ DOMAIN mails = 1 .. Len(mails)
           /\ \A i \in DOMAIN mails : mails[i] \in Emails
  <1>1. mails \in Seq(Emails)
    BY DEF TypeOK, Emails
  <1> QED BY <1>1

(* What a step that sends no email leaves: the threads and what they say.  *)
LEMMA SameThreads ==
    ASSUME mails' = mails
    PROVE  \A c, p : Thread(c, p)' = Thread(c, p)
  BY DEF Thread

(* What the world may do without being noticed.                            *)
LEMMA WorldInv ==
    ASSUME IInv, TypeOK', UNCHANGED <<pc, pass, todo, ledger, mails, offers>>,
           month' + left'["month"] <= Bounds["month"] + 1, month <= month',
           month' = month => day <= day',
           \A k \in Kinds : left'[k] <= left[k]
    PROVE  IInv'
  <1> USE DEF pass
  <1>1. \A c : /\ Assessed(c)' = Assessed(c) /\ Alert(c)' = Alert(c)
               /\ \A p : Thread(c, p)' = Thread(c, p)
    BY DEF Assessed, Alert, Thread
  <1>2. Current' = Current /\ Flagged' = Flagged
    BY <1>1 DEF Current, Flagged
  <1>3. \A c : Labelled(c)' = Labelled(c) /\ (Told(c) => Told(c)')
               /\ (Remembered(c) => Remembered(c)')
    BY <1>1 DEF Labelled, Told, Remembered
  <1>0. \A k \in Kinds : /\ left[k] \in Nat /\ left'[k] \in Nat
                          /\ Bounds[k] \in Nat /\ (Uses(k) => Uses(k)')
    BY MonitorAssumption DEF IInv, TypeOK, Uses
  <1>4. CalendarInv'
    <2>1. month \in Int /\ month' \in Int /\ period \in Int
          /\ clock \in Int /\ day \in Int /\ day' \in Int
      BY DEF IInv, TypeOK, Months, Days
    <2>2. \A k \in Kinds : left'[k] <= Bounds[k]
      BY <1>0 DEF IInv, CalendarInv
    <2> QED BY <2>1, <2>2 DEF IInv, CalendarInv
  <1>5. LedgerInv' /\ SavedMeansMailed'
    BY <1>1 DEF IInv, LedgerInv, SavedMeansMailed
  <1>6. PassInv'
    BY <1>2, <1>3 DEF IInv, PassInv, OwnerKnows
  <1>7. OneThread' /\ OneOffer'
    BY <1>1 DEF IInv, OneThread, OneOffer
  <1>8. SendInv'
    BY <1>0, <1>1, <1>2 DEF IInv, SendInv, Kinds
  <1>9. RememberedInv' /\ OnlyNews'
    BY <1>0, <1>1, <1>2, <1>3 DEF IInv, RememberedInv, OnlyNews, Kinds
  <1> QED BY <1>4, <1>5, <1>6, <1>7, <1>8, <1>9 DEF IInv

LEMMA InitInv == Init => IInv
  <1> SUFFICES ASSUME Init PROVE IInv
    OBVIOUS
  <1>1. TypeOK
    <2>1. \A c \in Categories : Opening(c, 0) \in Figures
      BY MonitorAssumption DEF Opening, Figures
    <2>2. Bounds["month"] \in Nat /\ 1 \in Days
      BY MonitorAssumption, OverspendAssumption DEF Kinds, Days
    <2>3. mails \in Seq([category : Categories, period : Months,
                         alert : Alerts, opens : BOOLEAN])
      BY DEF Init
    <2> QED BY <2>1, <2>2, <2>3, MonitorAssumption
        DEF Init, TypeOK, Months, Pcs
  <1>2. CalendarInv
    BY MonitorAssumption DEF Init, CalendarInv, Kinds
  <1>3. DOMAIN mails = {}
    BY DEF Init
  <1>4. ledger = {} /\ offers = {} /\ pc = "idle"
    BY DEF Init
  <1>5. \A c, p : Thread(c, p) = {}
    BY <1>3 DEF Thread
  <1>6. LedgerInv /\ SavedMeansMailed /\ OneOffer
    BY <1>4 DEF LedgerInv, SavedMeansMailed, OneOffer
  <1>7. OneThread /\ OnlyNews /\ RememberedInv
    BY <1>3, <1>5 DEF OneThread, OnlyNews, RememberedInv
  <1>8. PassInv /\ SendInv
    BY <1>4 DEF PassInv, SendInv, InPass, OwnerKnows
  <1> QED BY <1>1, <1>2, <1>6, <1>7, <1>8 DEF IInv

-----------------------------------------------------------------------------
(* The steps                                                                *)

LEMMA UseTyped ==
    ASSUME IInv, NEW k \in Kinds, Use(k) \/ UNCHANGED left
    PROVE  /\ left' \in [Kinds -> Nat]
           /\ \A j \in Kinds : /\ left'[j] <= left[j]
                               /\ left'[j] <= Bounds[j]
                               /\ Uses(j) => Uses(j)'
           /\ \A j \in Kinds \ {k} : left'[j] = left[j]
           /\ Use(k) => Uses(k)' /\ left'[k] = left[k] - 1
  <1>1. left \in [Kinds -> Nat] /\ Bounds \in [Kinds -> Nat]
    BY MonitorAssumption DEF IInv, TypeOK
  <1>2. \A j \in Kinds : left[j] \in Nat /\ Bounds[j] \in Nat
                         /\ left[j] <= Bounds[j]
    BY <1>1 DEF IInv, CalendarInv
  <1>3. CASE UNCHANGED left
    BY <1>1, <1>2, <1>3 DEF Uses, Use
  <1>4. CASE Use(k)
    BY <1>1, <1>2, <1>4 DEF Uses, Use
  <1> QED BY <1>3, <1>4

LEMMA OwnerStep ==
    ASSUME IInv, NEW c \in Categories,
           Spend(c) \/ Refund(c) \/ Fund(c) \/ Defund(c)
    PROVE  IInv'
  <1>1. TypeOK /\ figures[c] \in Figures
    BY DEF IInv, TypeOK
  <1>2. PICK f \in Figures : Owner(c, f)
    <2>1. /\ [figures[c] EXCEPT !.activity = @ - 2] \in Figures
          /\ [figures[c] EXCEPT !.activity = @ + 2] \in Figures
          /\ [figures[c] EXCEPT !.budgeted = @ + 2] \in Figures
          /\ figures[c].budgeted >= 2 =>
                [figures[c] EXCEPT !.budgeted = @ - 2] \in Figures
      BY <1>1 DEF Figures
    <2> QED BY <2>1 DEF Spend, Refund, Fund, Defund
  <1>3. "change" \in Kinds /\ "month" \in Kinds \ {"change"}
    BY DEF Kinds
  <1>4. /\ left' \in [Kinds -> Nat]
        /\ \A k \in Kinds : left'[k] <= left[k]
        /\ left'["month"] = left["month"]
    BY <1>2, <1>3, UseTyped DEF Owner
  <1>5. TypeOK'
    BY <1>1, <1>2, <1>4 DEF Owner, TypeOK, pass
  <1>6. month <= month' /\ day <= day' /\ month' = month
    BY <1>1, <1>2 DEF Owner, TypeOK, Months, Days
  <1> QED BY <1>2, <1>4, <1>5, <1>6, WorldInv DEF Owner, IInv, CalendarInv

LEMMA PostStep ==
    ASSUME IInv, NEW b \in Bills, Post(b)
    PROVE  IInv'
  <1>1. /\ TypeOK /\ b.category \in Categories /\ b.amount \in Int
        /\ figures[b.category] \in Figures
    BY MonitorAssumption DEF IInv, TypeOK
  <1> DEFINE f == [figures[b.category] EXCEPT !.activity = @ + b.amount]
  <1>2. f \in Figures
    BY <1>1 DEF Figures
  <1>3. figures' = [figures EXCEPT ![b.category] = f]
    BY DEF Post
  <1> HIDE DEF f
  <1>4. TypeOK'
    BY <1>1, <1>2, <1>3 DEF Post, TypeOK, pass
  <1>5. month <= month' /\ day <= day' /\ month' = month /\ left' = left
    BY <1>1 DEF Post, TypeOK, Months, Days
  <1>6. \A k \in Kinds : left'[k] <= left[k]
    BY <1>1, <1>5 DEF TypeOK
  <1> QED BY <1>4, <1>5, <1>6, WorldInv DEF Post, IInv, CalendarInv

LEMMA CalendarStep ==
    ASSUME IInv, DayPasses \/ MonthEnds
    PROVE  IInv'
  <1>0. /\ TypeOK /\ Bounds["month"] \in Nat /\ left["month"] \in Nat
        /\ month \in Nat /\ day \in Nat /\ "month" \in Kinds
    <2>1. "month" \in Kinds
      BY DEF Kinds
    <2>2. TypeOK /\ Bounds["month"] \in Nat /\ left["month"] \in Nat
      BY <2>1, MonitorAssumption DEF IInv, TypeOK
    <2>3. month \in Nat /\ day \in Nat
      BY <2>2 DEF TypeOK, Months, Days
    <2> QED BY <2>1, <2>2, <2>3
  <1>1. CASE DayPasses
    <2>1. day' \in Days
      BY <1>0, <1>1, OverspendAssumption DEF DayPasses, Days
    <2>2. TypeOK'
      BY <1>0, <1>1, <2>1 DEF DayPasses, TypeOK, pass
    <2>3. month <= month' /\ day <= day' /\ month' = month /\ left' = left
      BY <1>0, <1>1 DEF DayPasses
    <2>4. \A k \in Kinds : left'[k] <= left[k]
      BY <1>0, <2>3 DEF TypeOK
    <2> QED BY <1>1, <2>2, <2>3, <2>4, WorldInv
        DEF DayPasses, IInv, CalendarInv
  <1>2. CASE MonthEnds
    <2>1. /\ left' \in [Kinds -> Nat]
          /\ \A k \in Kinds : left'[k] <= left[k]
      BY <1>0, <1>2, UseTyped DEF MonthEnds
    <2>2. left'["month"] = left["month"] - 1
      BY <1>0, <1>2 DEF MonthEnds, Use, TypeOK
    <2>3. month' \in Months /\ month' = month + 1
      BY <1>0, <1>2, <2>1, <2>2 DEF IInv, CalendarInv, MonthEnds, Months
    <2>4. figures' \in [Categories -> Figures]
      <3>1. ASSUME NEW c \in Categories
            PROVE  Opening(c, Greater(Available(figures[c]), 0)) \in Figures
        <4>1. Available(figures[c]) \in Int
          BY <1>0 DEF TypeOK, Figures, Available
        <4> QED BY <4>1, MonitorAssumption DEF Opening, Figures, Greater
      <3> QED BY <1>2, <3>1 DEF MonthEnds
    <2>5. 1 \in Days
      BY OverspendAssumption DEF Days
    <2>6. TypeOK'
      BY <1>0, <1>2, <2>1, <2>3, <2>4, <2>5 DEF MonthEnds, TypeOK, pass
    <2>7. month' + left'["month"] <= Bounds["month"] + 1 /\ month < month'
      BY <1>0, <2>2, <2>3 DEF IInv, CalendarInv
    <2> QED BY <1>0, <1>2, <2>1, <2>3, <2>6, <2>7, WorldInv DEF MonthEnds
  <1> QED BY <1>1, <1>2

(* A step after which no category is in hand.  If it leaves an alert       *)
(* unsaved, the pass has died.                                             *)
LEMMA OffInv ==
    ASSUME IInv, TypeOK', UNCHANGED <<month, day, ledger, mails>>, OneOffer',
           pc' \in {"idle", "period", "fetch"},
           period <= period', period' <= month,
           period' = month => clock' <= day,
           period' = period => clock <= clock',
           \A k \in Kinds : left'[k] <= left[k],
           pc \in {"send", "save"} => Uses("fault")'
    PROVE  IInv'
  <1>1. \A c, p : Thread(c, p)' = Thread(c, p)
    BY SameThreads
  <1>2. \A k \in Kinds : /\ left[k] \in Nat /\ left'[k] \in Nat
                          /\ Bounds[k] \in Nat /\ (Uses(k) => Uses(k)')
                          /\ left'[k] <= Bounds[k]
    BY MonitorAssumption DEF IInv, TypeOK, Uses, CalendarInv
  <1>3. {"month", "outage", "fault"} \subseteq Kinds
    BY DEF Kinds
  <1>4. /\ period \in Int /\ period' \in Int /\ month \in Int
        /\ clock \in Int /\ clock' \in Int
        /\ \A i \in DOMAIN mails : mails[i].period \in Int
        /\ \A e \in ledger : e.period \in Int
    BY MailsTyped DEF IInv, TypeOK, Months, Days, Emails
  <1>5. CalendarInv'
    BY <1>2, <1>3, <1>4 DEF IInv, CalendarInv
  <1>6. LedgerInv'
    <2> SUFFICES ASSUME NEW e \in ledger
                 PROVE  /\ e.period <= period'
                        /\ \E d \in Days :
                              /\ e.alert.verdict = Assess(e.figure, d).verdict
                              /\ e.alert.projected =
                                    Assess(e.figure, d).projected
                              /\ e.period = period' => d <= clock'
      BY DEF LedgerInv
    <2>1. PICK d \in Days : /\ e.alert.verdict = Assess(e.figure, d).verdict
                            /\ e.alert.projected =
                                  Assess(e.figure, d).projected
                            /\ e.period = period => d <= clock
      BY DEF IInv, LedgerInv
    <2>2. e.period <= period /\ e.period \in Int /\ d \in Int
      BY <1>4 DEF IInv, LedgerInv, Days
    <2>3. e.period = period' => d <= clock'
      BY <1>4, <2>1, <2>2
    <2> QED BY <1>4, <2>1, <2>2, <2>3
  <1>7. SavedMeansMailed' /\ OneThread'
    BY <1>1 DEF IInv, SavedMeansMailed, OneThread
  <1>8. PassInv' /\ SendInv'
    BY DEF PassInv, SendInv, OwnerKnows, InPass
  <1>9. OnlyNews'
    BY <1>2, <1>3 DEF IInv, OnlyNews
  <1>10. RememberedInv'
    <2> SUFFICES ASSUME ~Uses("outage")', ~Uses("fault")',
                        NEW c \in Categories, Thread(c, period)' # {}
                 PROVE  Remembered(c)'
      BY DEF RememberedInv
    <2>1. ~Uses("outage") /\ ~Uses("fault") /\ pc \notin {"send", "save"}
      BY <1>2, <1>3
    <2>2. PICK i \in DOMAIN mails : /\ mails[i].category = c
                                    /\ mails[i].period = period'
      BY DEF Thread
    <2>3. period' = period
      BY <1>4, <2>2 DEF IInv, CalendarInv
    <2>4. Thread(c, period) # {}
      BY <2>2, <2>3 DEF Thread
    <2>5. Remembered(c)
      BY <2>1, <2>4 DEF IInv, RememberedInv
    <2> QED BY <2>3, <2>5 DEF Remembered
  <1> QED BY <1>5, <1>6, <1>7, <1>8, <1>9, <1>10 DEF IInv

(* What a step of the pass leaves alone while a category is in hand.       *)
LEMMA SameAlerts ==
    ASSUME UNCHANGED <<world, pass>>
    PROVE  /\ \A c : Assessed(c)' = Assessed(c) /\ Alert(c)' = Alert(c)
           /\ Flagged' = Flagged
           /\ UNCHANGED <<month, day, figures, posted, period, clock, read>>
  BY DEF Assessed, Alert, Flagged, world, pass

(* The parts that speak of neither emails, offers nor alerts in hand.      *)
LEMMA KeptInv ==
    ASSUME IInv, UNCHANGED <<world, pass>>,
           \A k \in Kinds : left'[k] <= left[k],
           left' \in [Kinds -> Nat],
           \A i \in DOMAIN mails' : mails'[i].period <= period
    PROVE  /\ CalendarInv'
           /\ \A k \in Kinds : Uses(k) => Uses(k)'
           /\ UNCHANGED ledger => LedgerInv'
  <1>1. \A k \in Kinds : /\ left[k] \in Nat /\ left'[k] \in Nat
                          /\ Bounds[k] \in Nat /\ (Uses(k) => Uses(k)')
                          /\ left'[k] <= Bounds[k]
    BY MonitorAssumption DEF IInv, TypeOK, Uses, CalendarInv
  <1>2. "month" \in Kinds
    BY DEF Kinds
  <1>3. UNCHANGED <<month, day, period, clock>> /\ month \in Int
    BY DEF IInv, TypeOK, Months, world, pass
  <1>4. CalendarInv'
    BY <1>1, <1>2, <1>3 DEF IInv, CalendarInv
  <1>5. UNCHANGED ledger => LedgerInv'
    BY <1>3 DEF IInv, LedgerInv
  <1> QED BY <1>1, <1>4, <1>5

LEMMA StartPassStep ==
    ASSUME IInv, StartPass
    PROVE  IInv'
  <1>1. TypeOK'
    BY DEF StartPass, IInv, TypeOK, Pcs, world, pass
  <1>2. /\ period' = period /\ clock' = clock /\ left' = left
        /\ UNCHANGED <<month, day, ledger, mails, offers>>
    BY DEF StartPass, world, pass
  <1>3. OneOffer'
    BY <1>2, SameThreads DEF IInv, OneOffer
  <1>4. period \in Int /\ clock \in Int /\ \A k \in Kinds : left[k] \in Nat
    BY DEF IInv, TypeOK, Months, Days
  <1> QED BY <1>1, <1>2, <1>3, <1>4, OffInv DEF StartPass, IInv, CalendarInv

LEMMA CurrentPeriodStep ==
    ASSUME IInv, CurrentPeriod
    PROVE  IInv'
  <1>1. TypeOK'
    BY DEF CurrentPeriod, IInv, TypeOK, Pcs, world
  <1>2. /\ period' = month /\ clock' = day /\ left' = left
        /\ UNCHANGED <<month, day, ledger, mails, offers>>
    BY DEF CurrentPeriod, world
  <1>3. OneOffer'
    BY <1>2, SameThreads DEF IInv, OneOffer
  <1>4. /\ month \in Int /\ day \in Int
        /\ \A k \in Kinds : left[k] \in Nat
    BY DEF IInv, TypeOK, Months, Days
  <1> QED BY <1>1, <1>2, <1>3, <1>4, OffInv
      DEF CurrentPeriod, IInv, CalendarInv

LEMMA FailPassStep ==
    ASSUME IInv, FailPass
    PROVE  IInv'
  <1>1. "fault" \in Kinds
    BY DEF Kinds
  <1>2. /\ left' \in [Kinds -> Nat] /\ Uses("fault")'
        /\ \A k \in Kinds : left'[k] <= left[k]
    BY <1>1, UseTyped DEF FailPass
  <1>3. TypeOK'
    BY <1>2 DEF FailPass, IInv, TypeOK, Pcs, world, pass
  <1>4. /\ period' = period /\ clock' = clock
        /\ UNCHANGED <<month, day, ledger, mails, offers>>
    BY DEF FailPass, world, pass
  <1>5. OneOffer'
    BY <1>4, SameThreads DEF IInv, OneOffer
  <1>6. period \in Int /\ clock \in Int
    BY DEF IInv, TypeOK, Months, Days
  <1> QED BY <1>2, <1>3, <1>4, <1>5, <1>6, OffInv
      DEF FailPass, IInv, CalendarInv

LEMMA FetchSpendsStep ==
    ASSUME IInv, FetchSpends
    PROVE  IInv'
  <1>1. /\ UNCHANGED <<month, day, period, clock, figures, posted>>
        /\ UNCHANGED <<ledger, mails, offers>>
        /\ readIn' = month /\ todo' = Flagged' /\ pc = "fetch"
        /\ pc' = IF todo' = {} THEN "idle" ELSE "prior"
    BY DEF FetchSpends, world
  <1>2. /\ left' \in [Kinds -> Nat]
        /\ \A k \in Kinds : left'[k] <= left[k]
        /\ \A k \in Kinds : left'[k] <= Bounds[k] /\ (Uses(k) => Uses(k)')
    <2>1. Use("outage") \/ UNCHANGED left
      BY DEF FetchSpends
    <2>2. "outage" \in Kinds
      BY DEF Kinds
    <2> QED BY <2>1, <2>2, UseTyped
  <1>3. read' \in [Categories -> Figures]
    <2>1. PICK bills \in {Bills \ posted, {}} :
             read' = [c \in Categories |->
                        [figures[c] EXCEPT !.scheduled =
                            ScheduledRemaining(bills, c, clock)]]
      BY DEF FetchSpends
    <2>2. ASSUME NEW c \in Categories
          PROVE  [figures[c] EXCEPT !.scheduled =
                     ScheduledRemaining(bills, c, clock)] \in Figures
      <3>1. figures[c] \in Figures
        BY DEF IInv, TypeOK
      <3>2. ScheduledRemaining(bills, c, clock) \in Nat
        BY ScheduledTyped
      <3> QED BY <3>1, <3>2 DEF Figures
    <2> QED BY <2>1, <2>2
  <1>4. TypeOK'
    <2>1. Flagged' \subseteq Categories
      BY DEF Flagged
    <2> QED BY <1>1, <1>2, <1>3, <2>1 DEF IInv, TypeOK, Pcs
  <1>5. OneOffer'
    BY <1>1, SameThreads DEF IInv, OneOffer
  <1>6. CASE todo' = {}
    <2>1. period \in Int /\ clock \in Int
      BY DEF IInv, TypeOK, Months, Days
    <2> QED BY <1>1, <1>2, <1>4, <1>5, <1>6, <2>1, OffInv
        DEF IInv, CalendarInv
  <1>7. CASE todo' # {}
    <2>1. \A c, p : Thread(c, p)' = Thread(c, p)
      BY <1>1, SameThreads
    <2>2. CalendarInv' /\ LedgerInv'
      <3>1. "month" \in Kinds /\ month \in Int /\ left["month"] \in Int
            /\ left'["month"] \in Int /\ Bounds["month"] \in Int
        BY <1>2, MonitorAssumption DEF Kinds, IInv, TypeOK, Months
      <3> QED BY <1>1, <1>2, <3>1 DEF IInv, CalendarInv, LedgerInv
    <2>3. SavedMeansMailed' /\ OneThread'
      BY <1>1, <2>1 DEF IInv, SavedMeansMailed, OneThread
    <2>4. PassInv' /\ SendInv'
      BY <1>1, <1>7 DEF PassInv, SendInv, OwnerKnows
    <2>5. "outage" \in Kinds /\ "fault" \in Kinds
      BY DEF Kinds
    <2>6. RememberedInv'
      BY <1>1, <1>2, <2>1, <2>5 DEF IInv, RememberedInv, Remembered
    <2>7. OnlyNews'
      BY <1>1, <1>2, <2>5 DEF IInv, OnlyNews
    <2> QED BY <1>4, <1>5, <2>2, <2>3, <2>4, <2>6, <2>7 DEF IInv
  <1> QED BY <1>6, <1>7

(* The category in hand is a flagged one.                                  *)
LEMMA InHand ==
    ASSUME IInv, pc \in InPass
    PROVE  /\ Current \in todo /\ Current \in Flagged
           /\ Current \in Categories
           /\ Assessed(Current).verdict # "ok"
           /\ Alert(Current) \in Alerts
           /\ Assessed(Current).projected \in Nat
  <1>1. todo # {} /\ todo \subseteq Flagged /\ TypeOK
    BY DEF IInv, PassInv
  <1>2. Current \in todo
    BY <1>1, CurrentTodo DEF TypeOK
  <1>3. Current \in Flagged /\ Current \in Categories
    BY <1>1, <1>2 DEF TypeOK
  <1>4. Assessed(Current).verdict # "ok"
    BY <1>3 DEF Flagged
  <1> QED BY <1>1, <1>2, <1>3, <1>4, AlertTyped

(* The pass goes on to the next category once the owner knows of this one. *)
LEMMA NextInv ==
    ASSUME IInv, pc \in InPass, NextCategory, UNCHANGED <<world, pass>>,
           \A c : Told(c) => Told(c)', NEW d, d = Current, Told(d)
    PROVE  PassInv' /\ SendInv' /\ pc' \in {"prior", "offer"}
           /\ todo' \subseteq Categories
  <1>1. Flagged' = Flagged
    BY SameAlerts
  <1>2. /\ todo' = todo \ {Current}
        /\ pc' = IF todo' = {} THEN "offer" ELSE "prior"
    BY DEF NextCategory
  <1>3. todo \subseteq Flagged /\ todo \subseteq Categories
    BY DEF IInv, PassInv, TypeOK
  <1>4. ASSUME NEW c \in Flagged' \ todo' PROVE Told(c)'
    <2>1. c = d \/ c \in Flagged \ todo
      BY <1>1, <1>2
    <2>2. Told(c)
      BY <2>1 DEF IInv, PassInv
    <2> QED BY <2>2
  <1>5. OwnerKnows'
    BY <1>2, <1>4 DEF OwnerKnows
  <1>6. PassInv'
    BY <1>1, <1>2, <1>3, <1>4, <1>5 DEF PassInv, InPass
  <1> QED BY <1>2, <1>3, <1>6 DEF SendInv

LEMMA LoadPriorStep ==
    ASSUME IInv, LoadPrior
    PROVE  IInv'
  <1>1. /\ pc = "prior" /\ pc \in InPass
        /\ UNCHANGED <<world, pass>> /\ UNCHANGED <<ledger, mails, offers>>
    BY DEF LoadPrior, InPass
  <1>2. PICK priors \in {Prior(ledger, Current, period), {}} :
          /\ IF priors = Prior(ledger, Current, period) THEN UNCHANGED left
             ELSE Use("outage")
          /\ IF ShouldAlert(Assessed(Current), priors)
             THEN pc' = "send" /\ UNCHANGED todo
             ELSE NextCategory
    BY DEF LoadPrior
  <1>3. "outage" \in Kinds /\ "fault" \in Kinds
    BY DEF Kinds
  <1>4. /\ left' \in [Kinds -> Nat]
        /\ \A k \in Kinds : left'[k] <= left[k]
        /\ Use("outage") => Uses("outage")'
    BY <1>2, <1>3, UseTyped
  <1>5. \A i \in DOMAIN mails' : mails'[i].period <= period
    BY <1>1 DEF IInv, CalendarInv
  <1>6. /\ CalendarInv' /\ LedgerInv'
        /\ \A k \in Kinds : Uses(k) => Uses(k)'
    BY <1>1, <1>4, <1>5, KeptInv
  <1>7. /\ \A c : Assessed(c)' = Assessed(c) /\ Alert(c)' = Alert(c)
        /\ Flagged' = Flagged /\ period' = period
        /\ \A c, p : Thread(c, p)' = Thread(c, p)
    BY <1>1, SameAlerts, SameThreads
  <1>8. \A c : Told(c)' = Told(c)
    BY <1>1, <1>7 DEF Told
  <1>9. SavedMeansMailed' /\ OneThread' /\ OneOffer'
    BY <1>1, <1>7 DEF IInv, SavedMeansMailed, OneThread, OneOffer
  <1>10. OnlyNews'
    BY <1>1, <1>3, <1>6 DEF IInv, OnlyNews
  <1>11. RememberedInv'
    BY <1>1, <1>3, <1>6, <1>7 DEF IInv, RememberedInv, Remembered
  <1>12. CASE ShouldAlert(Assessed(Current), priors)
    <2>1. pc' = "send" /\ todo' = todo
      BY <1>2, <1>12
    <2>2. Current' = Current
      BY <2>1 DEF Current
    <2>3. TypeOK'
      BY <1>1, <1>4, <2>1 DEF IInv, TypeOK, Pcs, world, pass
    <2>4. PassInv'
      BY <1>1, <1>7, <1>8, <2>1 DEF IInv, PassInv, OwnerKnows, InPass
    <2>5. SendInv'
      <3> SUFFICES ASSUME ~Uses("outage")',
                          NEW p \in Prior(ledger, Current, period)
                   PROVE  Worse(Assessed(Current), p)
        BY <1>1, <1>7, <2>2 DEF SendInv
      <3>1. priors = Prior(ledger, Current, period)
        BY <1>2, <1>4
      <3> QED BY <1>12, <3>1 DEF ShouldAlert
    <2> QED BY <1>6, <1>9, <1>10, <1>11, <2>3, <2>4, <2>5 DEF IInv
  <1>13. CASE ~ShouldAlert(Assessed(Current), priors)
    <2>1. PICK p \in priors : ~Worse(Assessed(Current), p)
      BY <1>1, <1>13, InHand DEF ShouldAlert
    <2>2. PICK e \in ledger : /\ e.category = Current /\ e.period = period
                              /\ e.alert = p
      BY <1>2, <2>1 DEF Prior
    <2>3. PICK i \in Thread(Current, period) : mails[i].alert = p
      BY <2>2 DEF IInv, SavedMeansMailed
    <2>4. Told(Current)
      <3>1. p.projected \in Nat /\ Threshold \in Nat
        BY <2>2, OverspendAssumption DEF IInv, TypeOK, Alerts
      <3>2. ~SaysOver(Alert(Current), p)
        BY <2>1 DEF Worse, Escalated, SaysOver, Alert
      <3>3. ~SaysMore(Alert(Current), p)
        BY <1>1, <2>1, <3>1, InHand DEF Worse, Worsened, SaysMore, Alert
      <3> QED BY <2>3, <3>2, <3>3 DEF Told
    <2>5. PassInv' /\ SendInv' /\ pc' \in {"prior", "offer"}
          /\ todo' \subseteq Categories
      BY <1>1, <1>2, <1>8, <1>13, <2>4, NextInv
    <2>6. TypeOK'
      BY <1>1, <1>4, <2>5 DEF IInv, TypeOK, Pcs, world, pass
    <2> QED BY <1>6, <1>9, <1>10, <1>11, <2>5, <2>6 DEF IInv
  <1> QED BY <1>12, <1>13

(* What alert_on_thread does to the mailbox: nothing, if the thread bears  *)
(* the alert's label; or one email more, that opens the thread if there is *)
(* none.                                                                   *)
LEMMA SentAlert ==
    ASSUME IInv, pc = "send", NEW c, c = Current, mails' = AlertOnThread(c)
    PROVE  \/ mails' = mails /\ Labelled(c) # {}
           \/ \E opens \in BOOLEAN :
                 /\ mails' = Append(mails, Mail(c, opens))
                 /\ opens = (Thread(c, period) = {})
                 /\ ~opens => Labelled(c) = {}
  <1>1. CASE Thread(c, period) = {}
    BY <1>1 DEF AlertOnThread
  <1>2. CASE Thread(c, period) # {} /\ Labelled(c) = {}
    <2>1. mails' = Append(mails, Mail(c, FALSE))
      BY <1>2 DEF AlertOnThread
    <2> QED BY <1>2, <2>1
  <1>3. CASE Thread(c, period) # {} /\ Labelled(c) # {}
    BY <1>3 DEF AlertOnThread
  <1> QED BY <1>1, <1>2, <1>3

LEMMA Appended ==
    ASSUME TypeOK, NEW m \in Emails, mails' = Append(mails, m)
    PROVE  /\ mails' \in Seq(Emails)
           /\ Len(mails) \in Nat
           /\ DOMAIN mails = 1 .. Len(mails)
           /\ DOMAIN mails' = 1 .. Len(mails) + 1
           /\ \A i \in DOMAIN mails : mails'[i] = mails[i]
           /\ mails'[Len(mails) + 1] = m
  <1> HIDE DEF Emails
  <1>1. mails \in Seq(Emails)
    BY MailsTyped
  <1> QED BY <1>1

LEMMA SendAlertStep ==
    ASSUME IInv, SendAlert
    PROVE  IInv'
  <1>0. PICK c : c = Current
    OBVIOUS
  <1> DEFINE n == Len(mails) + 1
  <1>1. /\ pc = "send" /\ pc \in InPass /\ mails' = AlertOnThread(c)
        /\ UNCHANGED <<world, pass>> /\ UNCHANGED <<ledger, offers>>
    BY <1>0 DEF SendAlert, InPass
  <1>2. /\ pc' \in {"save", "send"} /\ todo' = todo
        /\ Use("lost") \/ UNCHANGED left
    BY DEF SendAlert, Completes
  <1>3. {"outage", "fault", "lost"} \subseteq Kinds
    BY DEF Kinds
  <1>4. /\ left' \in [Kinds -> Nat]
        /\ \A k \in Kinds : left'[k] <= left[k] /\ (Uses(k) => Uses(k)')
    BY <1>2, <1>3, UseTyped
  <1>5. /\ \A d : Assessed(d)' = Assessed(d) /\ Alert(d)' = Alert(d)
        /\ Flagged' = Flagged /\ period' = period /\ Current' = c
    BY <1>0, <1>1, <1>2, SameAlerts DEF Current
  <1>6. \A opens \in BOOLEAN : Mail(c, opens) \in Emails
    BY <1>0, <1>1, InHand DEF Mail, Emails, IInv, TypeOK
  <1>7. \/ mails' = mails /\ Labelled(c) # {}
        \/ \E opens \in BOOLEAN :
              /\ mails' = Append(mails, Mail(c, opens))
              /\ opens = (Thread(c, period) = {})
              /\ ~opens => Labelled(c) = {}
    BY <1>0, <1>1, SentAlert
  <1>8. ASSUME mails' = mails, Labelled(c) # {} PROVE IInv'
    <2>1. \A d, p : Thread(d, p)' = Thread(d, p)
      BY <1>8, SameThreads
    <2>2. \A d : Labelled(d)' = Labelled(d) /\ Told(d)' = Told(d)
      BY <1>5, <1>8, <2>1 DEF Labelled, Told
    <2>3. TypeOK'
      BY <1>1, <1>2, <1>4, <1>8 DEF IInv, TypeOK, Pcs, world, pass
    <2>4. CalendarInv' /\ LedgerInv'
      BY <1>1, <1>4, <1>8, KeptInv DEF IInv, CalendarInv
    <2>5. SavedMeansMailed' /\ OneThread' /\ OneOffer'
      BY <1>1, <1>8, <2>1 DEF IInv, SavedMeansMailed, OneThread, OneOffer
    <2>6. PassInv'
      BY <1>0, <1>1, <1>2, <1>5, <1>8, <2>2 DEF IInv, PassInv, OwnerKnows, InPass
    <2>7. SendInv'
      BY <1>0, <1>1, <1>3, <1>4, <1>5 DEF IInv, SendInv
    <2>8. RememberedInv'
      BY <1>0, <1>1, <1>2, <1>3, <1>4, <1>5, <2>1, <2>2
      DEF IInv, RememberedInv, Remembered
    <2>9. OnlyNews'
      BY <1>3, <1>4, <1>8 DEF IInv, OnlyNews
    <2> QED BY <2>3, <2>4, <2>5, <2>6, <2>7, <2>8, <2>9 DEF IInv
  <1>9. ASSUME NEW opens \in BOOLEAN,
               mails' = Append(mails, Mail(c, opens)),
               opens = (Thread(c, period) = {}),
               ~opens => Labelled(c) = {}
        PROVE  IInv'
    <2>1. /\ mails' \in Seq(Emails)
          /\ Len(mails) \in Nat
          /\ DOMAIN mails = 1 .. Len(mails)
          /\ DOMAIN mails' = 1 .. n
          /\ \A i \in DOMAIN mails : mails'[i] = mails[i]
          /\ mails'[n] = Mail(c, opens)
      BY <1>6, <1>9, Appended DEF IInv
    <2>2. /\ mails'[n].category = c /\ mails'[n].period = period
          /\ mails'[n].alert = Alert(c) /\ mails'[n].opens = opens
      BY <2>1 DEF Mail
    <2>3. \A i \in DOMAIN mails' : i \in DOMAIN mails \/ i = n
      BY <2>1
    <2>4. n \in DOMAIN mails' /\ DOMAIN mails \subseteq DOMAIN mails'
      BY <2>1
    <2> HIDE DEF n
    <2>5. \A d, p : /\ Thread(d, p) \subseteq Thread(d, p)'
                    /\ \A i \in Thread(d, p) : mails'[i] = mails[i]
                    /\ \A i \in Thread(d, p)' :
                          i \in Thread(d, p) \/ (d = c /\ p = period)
      BY <2>1, <2>2, <2>3, <2>4 DEF Thread
    <2>6. \A d : /\ Labelled(d) # {} => Labelled(d)' # {}
                 /\ Told(d) => Told(d)'
      <3> SUFFICES ASSUME NEW d
                   PROVE  /\ Labelled(d) # {} => Labelled(d)' # {}
                          /\ Told(d) => Told(d)'
        OBVIOUS
      <3>1. /\ Thread(d, period) \subseteq Thread(d, period)'
            /\ \A i \in Thread(d, period) : mails'[i] = mails[i]
        BY <1>5, <2>5
      <3>2. Labelled(d) \subseteq Labelled(d)'
        BY <1>5, <3>1 DEF Labelled
      <3>3. Told(d) => Told(d)'
        BY <1>5, <3>1 DEF Told
      <3> QED BY <3>2, <3>3
    <2>7. Labelled(c)' # {}
      <3>1. n \in Thread(c, period)'
        BY <1>5, <2>2, <2>4 DEF Thread
      <3> QED BY <1>5, <2>2, <3>1 DEF Labelled
    <2>8. TypeOK'
      BY <1>1, <1>2, <1>4, <2>1 DEF IInv, TypeOK, Pcs, Emails, world, pass
    <2>9. CalendarInv' /\ LedgerInv'
      <3>1. period <= period
        BY DEF IInv, TypeOK, Months
      <3>2. \A i \in DOMAIN mails' : mails'[i].period <= period
        BY <2>1, <2>2, <2>3, <3>1 DEF IInv, CalendarInv
      <3> QED BY <1>1, <1>4, <3>2, KeptInv
    <2>10. SavedMeansMailed' /\ OneOffer'
      <3>1. SavedMeansMailed'
        BY <1>1, <2>5 DEF IInv, SavedMeansMailed
      <3>2. OneOffer'
        BY <1>1, <2>5 DEF IInv, OneOffer
      <3> QED BY <3>1, <3>2
    <2>11. OneThread'
      <3>1. opens => \A i \in DOMAIN mails : mails[i].category # c
                                             \/ mails[i].period # period
        BY <1>9 DEF Thread
      <3> QED BY <2>1, <2>2, <2>3, <3>1 DEF IInv, OneThread
    <2>12. PassInv'
      BY <1>0, <1>1, <1>2, <1>5, <2>6, <2>7 DEF IInv, PassInv, OwnerKnows, InPass
    <2>13. SendInv'
      BY <1>0, <1>1, <1>3, <1>4, <1>5 DEF IInv, SendInv
    <2>14. RememberedInv'
      <3> SUFFICES ASSUME ~Uses("outage"), ~Uses("fault"),
                          NEW d \in Categories, Thread(d, period)' # {}
                   PROVE  \/ Remembered(d)
                          \/ d = c /\ Labelled(d)' # {}
        BY <1>0, <1>1, <1>2, <1>3, <1>4, <1>5 DEF RememberedInv, Remembered
      <3>1. CASE d = c
        BY <2>7, <3>1
      <3>2. CASE d # c
        <4>1. Thread(d, period) # {}
          BY <1>5, <2>5, <3>2
        <4> QED BY <1>0, <3>2, <4>1 DEF IInv, RememberedInv
      <3> QED BY <3>1, <3>2
    <2>15. OnlyNews'
      <3> SUFFICES ASSUME ~Uses("outage"), ~Uses("fault"),
                          NEW i \in DOMAIN mails', ~mails'[i].opens
                   PROVE  \E j \in 1 .. i - 1 :
                             /\ mails'[j].category = mails'[i].category
                             /\ mails'[j].period = mails'[i].period
                             /\ News(mails'[i].alert, mails'[j].alert)
        BY <1>3, <1>4 DEF OnlyNews
      <3>1. CASE i \in DOMAIN mails
        <4>1. PICK j \in 1 .. i - 1 :
                 /\ mails[j].category = mails[i].category
                 /\ mails[j].period = mails[i].period
                 /\ News(mails[i].alert, mails[j].alert)
          BY <2>1, <3>1 DEF IInv, OnlyNews
        <4>2. j \in DOMAIN mails
          BY <2>1, <3>1
        <4> QED BY <2>1, <3>1, <4>1, <4>2
      <3>2. CASE i = n
        <4>1. ~opens
          BY <2>2, <3>2
        <4>2. Thread(c, period) # {} /\ Labelled(c) = {}
          BY <1>9, <4>1
        <4>3. c \in Categories
          BY <1>0, <1>1, InHand
        <4>4. Remembered(c)
          BY <1>0, <1>1, <4>2, <4>3 DEF IInv, RememberedInv
        <4>5. PICK e \in ledger : e.category = c /\ e.period = period
          BY <4>4 DEF Remembered
        <4>6. e.alert \in Prior(ledger, c, period)
          BY <4>5 DEF Prior
        <4>7. Worse(Assessed(c), e.alert)
          BY <1>0, <1>1, <4>6 DEF IInv, SendInv
        <4>8. PICK j \in Thread(c, period) : mails[j].alert = e.alert
          BY <4>5 DEF IInv, SavedMeansMailed
        <4>9. News(Alert(c), e.alert)
          <5>1. e.alert.projected \in Nat /\ Threshold \in Nat
            BY OverspendAssumption DEF IInv, TypeOK, Alerts
          <5>2. Assessed(c).projected \in Nat
            BY <1>0, <1>1, InHand
          <5>3. /\ Alert(c).verdict = Assessed(c).verdict
                /\ Alert(c).projected = Assessed(c).projected
            BY DEF Alert
          <5> QED BY <4>7, <5>1, <5>2, <5>3
              DEF Worse, Escalated, Worsened, News, SaysOver, SaysMore
        <4>10. /\ j \in DOMAIN mails /\ mails[j].category = c
               /\ mails[j].period = period
          BY <4>8 DEF Thread
        <4>11. j \in 1 .. i - 1
          BY <2>1, <3>2, <4>10 DEF n
        <4> QED BY <2>1, <2>2, <3>2, <4>8, <4>9, <4>10, <4>11
      <3> QED BY <2>3, <3>1, <3>2
    <2> QED BY <2>8, <2>9, <2>10, <2>11, <2>12, <2>13, <2>14, <2>15 DEF IInv
  <1> QED BY <1>7, <1>8, <1>9

LEMMA SaveAlertStep ==
    ASSUME IInv, SaveAlert
    PROVE  IInv'
  <1>0. PICK c : c = Current
    OBVIOUS
  <1> DEFINE entry == [category |-> c, period |-> period, alert |-> Alert(c),
                       figure |-> read[c]]
  <1>1. /\ pc = "save" /\ pc \in InPass
        /\ ledger' = {e \in ledger : e.category # c} \cup {entry}
        /\ UNCHANGED <<world, pass>> /\ UNCHANGED <<mails, offers>>
    BY <1>0 DEF SaveAlert, InPass, Record
  <1>2. \/ NextCategory /\ UNCHANGED left
        \/ Use("lost") /\ UNCHANGED <<pc, todo>>
    BY DEF SaveAlert, Completes
  <1>3. {"outage", "fault", "lost"} \subseteq Kinds
    BY DEF Kinds
  <1>4. /\ left' \in [Kinds -> Nat]
        /\ \A k \in Kinds : left'[k] <= left[k] /\ (Uses(k) => Uses(k)')
    <2>1. Use("lost") \/ UNCHANGED left
      BY <1>2
    <2> QED BY <1>3, <2>1, UseTyped
  <1>5. /\ \A d : Assessed(d)' = Assessed(d) /\ Alert(d)' = Alert(d)
        /\ Flagged' = Flagged /\ period' = period /\ clock' = clock
        /\ \A d, p : Thread(d, p)' = Thread(d, p)
    BY <1>1, SameAlerts, SameThreads
  <1>6. \A d : Told(d)' = Told(d) /\ Labelled(d)' = Labelled(d)
    BY <1>1, <1>5 DEF Told, Labelled
  <1>7. /\ c \in Categories /\ Alert(c) \in Alerts
        /\ Assessed(c).projected \in Nat
        /\ read[c] \in Figures /\ period \in Months
    BY <1>0, <1>1, InHand DEF IInv, TypeOK
  <1>8. Labelled(c) # {}
    BY <1>0, <1>1 DEF IInv, PassInv
  <1>9. ledger' \subseteq [category : Categories, period : Months,
                           alert : Alerts, figure : Figures]
    BY <1>1, <1>7 DEF IInv, TypeOK
  <1>10. CalendarInv'
    <2>1. \A i \in DOMAIN mails' : mails'[i].period <= period
      BY <1>1 DEF IInv, CalendarInv
    <2> QED BY <1>1, <1>4, <2>1, KeptInv
  <1>11. LedgerInv'
    <2>1. /\ entry.period <= period /\ clock \in Days /\ clock <= clock
          /\ entry.alert.verdict = Assess(entry.figure, clock).verdict
          /\ entry.alert.projected = Assess(entry.figure, clock).projected
      <3>1. period <= period /\ clock \in Days /\ clock <= clock
        BY DEF IInv, TypeOK, Months, Days
      <3> QED BY <3>1 DEF Alert, Assessed
    <2> HIDE DEF entry
    <2> SUFFICES ASSUME NEW e \in ledger'
                 PROVE  /\ e.period <= period
                        /\ \E d \in Days :
                              /\ e.alert.verdict = Assess(e.figure, d).verdict
                              /\ e.alert.projected =
                                    Assess(e.figure, d).projected
                              /\ e.period = period => d <= clock
      BY <1>5 DEF LedgerInv
    <2>2. CASE e \in ledger
      BY <2>2 DEF IInv, LedgerInv
    <2>3. CASE e = entry
      BY <2>1, <2>3
    <2> QED BY <1>1, <2>2, <2>3
  <1>12. SavedMeansMailed'
    <2> SUFFICES ASSUME NEW e \in ledger'
                 PROVE  \E i \in Thread(e.category, e.period) :
                           mails[i].alert = e.alert
      BY <1>1, <1>5 DEF SavedMeansMailed
    <2>1. CASE e \in ledger
      BY <2>1 DEF IInv, SavedMeansMailed
    <2>2. CASE e = entry
      BY <1>8, <2>2 DEF Labelled
    <2> QED BY <1>1, <2>1, <2>2
  <1>13. OneThread' /\ OneOffer'
    BY <1>1, <1>5 DEF IInv, OneThread, OneOffer
  <1>14. OnlyNews'
    BY <1>1, <1>3, <1>4 DEF IInv, OnlyNews
  <1>15. RememberedInv'
    <2> SUFFICES ASSUME ~Uses("outage")', ~Uses("fault")',
                        NEW d \in Categories, Thread(d, period)' # {}
                 PROVE  Remembered(d)'
      BY DEF RememberedInv
    <2>1. ~Uses("outage") /\ ~Uses("fault") /\ Thread(d, period) # {}
      BY <1>3, <1>4, <1>5
    <2>2. CASE d = c
      <3>1. entry \in ledger' /\ entry.category = d /\ entry.period = period
        BY <1>1, <2>2
      <3> QED BY <1>5, <3>1 DEF Remembered
    <2>3. CASE d # c
      <3>1. Remembered(d)
        BY <1>0, <2>1, <2>3 DEF IInv, RememberedInv
      <3>2. PICK e \in ledger : e.category = d /\ e.period = period
        BY <3>1 DEF Remembered
      <3> QED BY <1>1, <1>5, <2>3, <3>2 DEF Remembered
    <2> QED BY <2>2, <2>3
  <1>16. CASE NextCategory
    <2>1. Told(c)
      <3>1. PICK i \in Thread(c, period) : mails[i].alert = Alert(c)
        BY <1>8 DEF Labelled
      <3>2. ~SaysOver(Alert(c), Alert(c))
        BY DEF SaysOver
      <3>3. ~SaysMore(Alert(c), Alert(c))
        <4>1. Alert(c).projected \in Nat /\ Threshold \in Nat
          BY <1>7, OverspendAssumption DEF Alert
        <4> QED BY <4>1 DEF SaysMore
      <3> QED BY <3>1, <3>2, <3>3 DEF Told
    <2>2. PassInv' /\ SendInv' /\ pc' \in {"prior", "offer"}
          /\ todo' \subseteq Categories
      BY <1>0, <1>1, <1>6, <1>16, <2>1, NextInv
    <2>3. TypeOK'
      BY <1>1, <1>4, <1>9, <2>2 DEF IInv, TypeOK, Pcs, world, pass
    <2> QED BY <1>10, <1>11, <1>12, <1>13, <1>14, <1>15, <2>2, <2>3 DEF IInv
  <1>17. CASE UNCHANGED <<pc, todo>>
    <2>1. Current' = Current
      BY <1>17 DEF Current
    <2>2. PassInv' /\ SendInv'
      BY <1>0, <1>1, <1>5, <1>6, <1>17, <2>1
      DEF IInv, PassInv, SendInv, OwnerKnows, InPass
    <2>3. TypeOK'
      BY <1>1, <1>4, <1>9, <1>17 DEF IInv, TypeOK, Pcs, world, pass
    <2> QED BY <1>10, <1>11, <1>12, <1>13, <1>14, <1>15, <2>2, <2>3 DEF IInv
  <1> QED BY <1>2, <1>16, <1>17

LEMMA StartOfferStep ==
    ASSUME IInv, StartOffer
    PROVE  IInv'
  <1>1. /\ pc = "offer"
        /\ UNCHANGED <<world, pass>> /\ UNCHANGED <<ledger, mails>>
        /\ \/ offers' = offers
           \/ /\ offers' = offers \cup {Offer}
              /\ \A o \in offers : o.period # period
    BY DEF StartOffer, Offer
  <1>2. /\ \/ pc' = "idle" /\ UNCHANGED <<todo, left>>
           \/ Use("lost") /\ UNCHANGED <<pc, todo>>
    BY DEF StartOffer, Completes
  <1>3. {"outage", "fault", "lost"} \subseteq Kinds
    BY DEF Kinds
  <1>4. /\ left' \in [Kinds -> Nat]
        /\ \A k \in Kinds : left'[k] <= left[k] /\ (Uses(k) => Uses(k)')
    <2>1. Use("lost") \/ UNCHANGED left
      BY <1>2
    <2> QED BY <1>3, <2>1, UseTyped
  <1>5. /\ \A d : Assessed(d)' = Assessed(d) /\ Alert(d)' = Alert(d)
        /\ Flagged' = Flagged /\ period' = period /\ clock' = clock
        /\ \A d, p : Thread(d, p)' = Thread(d, p)
    BY <1>1, SameAlerts, SameThreads
  <1>6. \A d : Told(d)' = Told(d) /\ Labelled(d)' = Labelled(d)
    BY <1>1, <1>5 DEF Told, Labelled
  <1>7. /\ Offer.period = period
        /\ \A c \in Offer.needs : Thread(c, period) # {}
        /\ Offer \in [period : Months, needs : SUBSET Categories]
    <2>1. Offer.period = period /\ Offer.needs \subseteq Flagged
      BY DEF Offer
    <2>2. \A c \in Flagged : Thread(c, period) # {}
      BY <1>1 DEF IInv, PassInv, OwnerKnows, Told
    <2>3. period \in Months /\ Flagged \subseteq Categories
      BY DEF IInv, TypeOK, Flagged
    <2>4. Offer \in [period : Months, needs : SUBSET Categories]
      BY <2>3 DEF Offer
    <2> QED BY <2>1, <2>2, <2>4
  <1>8. OneOffer'
    BY <1>1, <1>5, <1>7 DEF IInv, OneOffer
  <1>9. TypeOK'
    BY <1>1, <1>2, <1>4, <1>7 DEF IInv, TypeOK, Pcs, world, pass
  <1>10. CASE pc' = "idle"
    <2>1. UNCHANGED <<month, day>> /\ period \in Int /\ clock \in Int
      BY <1>1 DEF IInv, TypeOK, Months, Days, world
    <2> QED BY <1>1, <1>4, <1>5, <1>8, <1>9, <1>10, <2>1, OffInv
        DEF IInv, CalendarInv
  <1>11. CASE UNCHANGED <<pc, todo>>
    <2>1. \A i \in DOMAIN mails' : mails'[i].period <= period
      BY <1>1 DEF IInv, CalendarInv
    <2>2. CalendarInv' /\ LedgerInv'
      BY <1>1, <1>4, <2>1, KeptInv
    <2>3. SavedMeansMailed' /\ OneThread'
      BY <1>1, <1>5 DEF IInv, SavedMeansMailed, OneThread
    <2>4. PassInv' /\ SendInv'
      BY <1>1, <1>5, <1>6, <1>11
      DEF IInv, PassInv, SendInv, OwnerKnows, InPass
    <2>5. RememberedInv'
      BY <1>1, <1>3, <1>4, <1>5, <1>11
      DEF IInv, RememberedInv, Remembered
    <2>6. OnlyNews'
      BY <1>1, <1>3, <1>4 DEF IInv, OnlyNews
    <2> QED BY <1>8, <1>9, <2>2, <2>3, <2>4, <2>5, <2>6 DEF IInv
  <1> QED BY <1>2, <1>10, <1>11

LEMMA StepInv == IInv /\ [Next]_vars => IInv'
  <1> SUFFICES ASSUME IInv, [Next]_vars PROVE IInv'
    OBVIOUS
  <1>1. CASE StartPass
    BY <1>1, StartPassStep
  <1>2. CASE CurrentPeriod
    BY <1>2, CurrentPeriodStep
  <1>3. CASE FetchSpends
    BY <1>3, FetchSpendsStep
  <1>4. CASE LoadPrior
    BY <1>4, LoadPriorStep
  <1>5. CASE SendAlert
    BY <1>5, SendAlertStep
  <1>6. CASE SaveAlert
    BY <1>6, SaveAlertStep
  <1>7. CASE StartOffer
    BY <1>7, StartOfferStep
  <1>8. CASE FailPass
    BY <1>8, FailPassStep
  <1>9. CASE \E c \in Categories :
                Spend(c) \/ Refund(c) \/ Fund(c) \/ Defund(c)
    BY <1>9, OwnerStep
  <1>10. CASE \E b \in Bills : Post(b)
    BY <1>10, PostStep
  <1>11. CASE DayPasses \/ MonthEnds
    BY <1>11, CalendarStep
  <1>12. CASE UNCHANGED vars
    <2>1. /\ TypeOK' /\ UNCHANGED <<pc, pass, todo, ledger, mails, offers>>
          /\ UNCHANGED <<month, day, left>>
      BY <1>12 DEF IInv, TypeOK, vars, world, pass
    <2>2. month \in Int /\ day \in Int /\ \A k \in Kinds : left[k] \in Nat
      BY DEF IInv, TypeOK, Months, Days
    <2> QED BY <2>1, <2>2, WorldInv DEF IInv, CalendarInv
  <1> QED BY <1>1, <1>2, <1>3, <1>4, <1>5, <1>6, <1>7, <1>8, <1>9, <1>10,
             <1>11, <1>12 DEF Next, Step

LEMMA AlwaysInv == Spec => []IInv
  BY InitInv, StepInv, PTL DEF Spec
-----------------------------------------------------------------------------
(* However often activities complete unnoticed, queries go unanswered and  *)
(* passes die: what the ledger remembers has been mailed, and a pass that  *)
(* reaches its end has told the owner of every flagged category            *)
(* (workflow/monitor_workflow.py:60).                                      *)
THEOREM AlertsStayBacked == Spec => []LedgerBacked
  <1>1. IInv => LedgerBacked
    BY DEF IInv, PassInv, LedgerBacked
  <1> QED BY AlwaysInv, <1>1, PTL

(* A category has one thread a month (mail/client.py, alert_on_thread) and *)
(* a month one offer, made only for categories the owner has an alert of.  *)
THEOREM OneConversation == Spec => []OncePerMonth
  <1>1. IInv => OncePerMonth
    BY DEF IInv, OncePerMonth
  <1> QED BY AlwaysInv, <1>1, PTL

(* The last alert of a quiet category stands: if its figures have not      *)
(* moved, the projection of a later day is at most one unit more.          *)
LEMMA QuietHolds ==
    ASSUME IInv
    PROVE  QuietNeverChurns
  <1> SUFFICES ASSUME pc = "send", ~Uses("outage"), NEW e \in ledger,
                      e.category = Current, e.period = period,
                      e.figure = read[Current]
               PROVE  FALSE
    BY DEF QuietNeverChurns
  <1>1. e.alert \in Prior(ledger, Current, period)
    BY DEF Prior
  <1>2. Worse(Assess(read[Current], clock), e.alert)
    BY <1>1 DEF IInv, SendInv, Assessed
  <1>3. PICK d \in Days :
           /\ e.alert.verdict = Assess(read[Current], d).verdict
           /\ e.alert.projected = Assess(read[Current], d).projected
           /\ d <= clock
    BY DEF IInv, LedgerInv
  <1>4. read[Current] \in Figures /\ clock \in Days
    BY InHand DEF IInv, TypeOK, InPass
  <1> QED BY <1>2, <1>3, <1>4, SameFiguresNoWorse

(* No email but for something that has moved, for the worse, for every     *)
(* threshold and length of month (budget/overspend.py, should_alert).      *)
THEOREM NewsStaysNews == Spec => []NewsOnly
  <1>1. IInv => NewsOnly
    BY QuietHolds DEF IInv, NewsOnly
  <1> QED BY AlwaysInv, <1>1, PTL
=============================================================================
