------------------------- MODULE ReceiptJoin_proofs -------------------------
(***************************************************************************)
(* Proofs about the receipt join: for any number of receipts and charges,  *)
(* any size of the ledger and any number of mishaps, the ledger holds what *)
(* the senders were told it holds, its statuses say what has happened, and *)
(* a receipt still waiting is dropped only when no settled one is left.    *)
(***************************************************************************)
EXTENDS ReceiptJoin, FiniteSetTheorems, WellFoundedInduction, TLAPS

(***************************************************************************)
(* The inductive invariant.                                                *)
(***************************************************************************)
(* The places of a table's rows are those of a tuple: no two rows share    *)
(* one, and none lies beyond the table's length.                           *)
DistinctIds(T) == \A p, q \in T : p.id = q.id => p = q
Placed(T)      == /\ \A p, q \in T : p.pos = q.pos => p = q
                  /\ \A p \in T : p.pos <= Cardinality(T)
Ledger(T)      == /\ T \in SUBSET Row /\ IsFiniteSet(T)
                  /\ DistinctIds(T) /\ Placed(T)

(* The poll lists open receipts only.                                      *)
TypeInv == TypeOK /\ Ledger(table) /\ listed \subseteq OpenReceipts(Row)

(* A receipt about to be acknowledged is as safe as one that has been.     *)
AckInv ==
    \A r \in Receipts :
        route[r] = "ack" \/ "ack" \in notes[r]
            => r \in Ids(table) \/ Cardinality(table) = Cap

(* What an attempt is about to save has been done; a receipt that is told  *)
(* it aged out has aged, so that no retry parks it again.                  *)
Done(r, a) ==
    /\ a.kind = "signal" => delivered[r] # {}
    /\ a.kind = "ask"    => "ask" \in notes[r]
    /\ a.kind = "tell"   => \/ "nomatch" \in notes[r]
                            \/ "unreachable" \in mishaps
                            \/ r \notin Ids(table)

JoinInv ==
    \A r \in Receipts :
        /\ join[r].pc = "save" => Done(r, join[r].action)
        /\ join[r].pc \in {"act", "save"} /\ join[r].action.kind = "tell"
              => r \in aged

AgedInv == \A r \in aged : route[r] = "done"

IInv == TypeInv /\ AckInv /\ StatusBacked /\ JoinInv /\ AgedInv

(***************************************************************************)
(* Places.                                                                 *)
(***************************************************************************)
LEMMA Least ==
    ASSUME NEW S \in SUBSET Nat, S # {}
    PROVE  \E i \in S : \A j \in S : i <= j
  <1> DEFINE R == OpToRel(<, Nat)
  <1>1. IsWellFoundedOn(R, Nat)
    BY NatLessThanWellFounded
  <1>2. \A i, j \in Nat : i < j => <<i, j>> \in R
    BY DEF OpToRel
  <1> HIDE DEF R
  <1>3. PICK i \in S : \A j \in S : ~(<<j, i>> \in R)
    BY <1>1, WFMin
  <1>4. ASSUME NEW j \in S PROVE i <= j
    <2>1. ~(j < i)
      BY <1>2, <1>3
    <2> QED  BY <2>1
  <1> QED  BY <1>4

(* A table that is not empty has a first row.                              *)
LEMMA FirstRow ==
    ASSUME NEW T \in SUBSET Row, T # {}
    PROVE  \E row \in T : \A q \in T : row.pos <= q.pos
  <1> DEFINE S == {row.pos : row \in T}
  <1>1. S \in SUBSET Nat /\ S # {}
    BY DEF Row
  <1>2. PICK i \in S : \A j \in S : i <= j
    BY <1>1, Least
  <1>3. PICK row \in T : row.pos = i
    OBVIOUS
  <1> QED  BY <1>2, <1>3

(* The rows up to one are more the later it stands.                        *)
RankIn(T, row) == Cardinality({q \in T : q.pos <= row.pos})

LEMMA Rank ==
    ASSUME NEW T \in SUBSET Row, IsFiniteSet(T), NEW p \in T, NEW q \in T
    PROVE  /\ RankIn(T, p) \in Nat
           /\ RankIn(T, p) <= Cardinality(T)
           /\ p.pos < q.pos => RankIn(T, p) < RankIn(T, q)
  <1> DEFINE upto(row) == {s \in T : s.pos <= row.pos}
  <1>1. /\ IsFiniteSet(upto(p)) /\ IsFiniteSet(upto(q))
        /\ Cardinality(upto(p)) <= Cardinality(T)
        /\ Cardinality(upto(p)) \in Nat /\ Cardinality(upto(q)) \in Nat
    <2>1. upto(p) \in SUBSET T /\ upto(q) \in SUBSET T
      OBVIOUS
    <2> QED  BY <2>1, FS_Subset, FS_CardinalityType
  <1>2. ASSUME p.pos < q.pos
        PROVE  Cardinality(upto(p)) < Cardinality(upto(q))
    <2>0. \A s \in T : s.pos \in Nat
      BY DEF Row
    <2>1. upto(p) \in SUBSET upto(q)
      BY <1>2, <2>0
    <2>2. q \in upto(q) /\ q \notin upto(p)
      BY <1>2, <2>0
    <2>3. /\ Cardinality(upto(p)) <= Cardinality(upto(q))
          /\ Cardinality(upto(p)) # Cardinality(upto(q))
      BY <1>1, <2>1, <2>2, FS_Subset
    <2> QED  BY <1>1, <2>3
  <1> QED  BY <1>1, <1>2 DEF RankIn

(* Renumbering keeps every row but its place, and gives each its own.      *)
LEMMA RenumberedSound ==
    ASSUME NEW T \in SUBSET Row, IsFiniteSet(T), DistinctIds(T),
           \A p, q \in T : p.pos = q.pos => p = q
    PROVE  /\ Ledger(Renumbered(T))
           /\ Cardinality(Renumbered(T)) = Cardinality(T)
           /\ \A row \in Renumbered(T) :
                 \E p \in T : row.id = p.id /\ row.status = p.status
           /\ \A p \in T :
                 \E row \in Renumbered(T) :
                    row.id = p.id /\ row.status = p.status
  <1> DEFINE rank(row) == RankIn(T, row)
             moved(row) == [row EXCEPT !.pos = rank(row)]
             f == [row \in T |-> moved(row)]
             N == Renumbered(T)
  <1>1. ASSUME NEW p \in T, NEW q \in T
        PROVE  /\ rank(p) \in Nat /\ rank(p) <= Cardinality(T)
               /\ p.pos < q.pos => rank(p) < rank(q)
    BY Rank
  <1> HIDE DEF rank
  <1>2. ASSUME NEW p \in T
        PROVE  /\ moved(p) \in Row
               /\ moved(p).id = p.id /\ moved(p).status = p.status
               /\ moved(p).pos = rank(p)
    BY <1>1 DEF Row
  <1>3. N = {moved(row) : row \in T}
    BY DEF Renumbered, rank, RankIn
  <1>4. N \in SUBSET Row
    BY <1>2, <1>3
  <1> HIDE DEF moved, N
  <1>5. /\ f \in Surjection(T, N)
        /\ f \in Injection(T, N)
    <2>1. f \in [T -> N]
      BY <1>3
    <2>2. \A x \in N : \E p \in T : f[p] = x
      BY <1>3
    <2>3. \A p, q \in T : f[p] = f[q] => p = q
      BY <1>2 DEF DistinctIds
    <2> QED  BY <2>1, <2>2, <2>3 DEF Surjection, Injection, IsInjective
  <1>6. IsFiniteSet(N) /\ Cardinality(N) = Cardinality(T)
    BY <1>5, FS_Surjection
  <1>7. DistinctIds(N)
    <2> SUFFICES ASSUME NEW x \in N, NEW y \in N, x.id = y.id PROVE x = y
      BY DEF DistinctIds
    <2>1. PICK p \in T, q \in T : x = moved(p) /\ y = moved(q)
      BY <1>3
    <2> QED  BY <1>2, <2>1 DEF DistinctIds
  <1>8. Placed(N)
    <2>1. ASSUME NEW x \in N, NEW y \in N, x.pos = y.pos PROVE x = y
      <3>1. PICK p \in T, q \in T : x = moved(p) /\ y = moved(q)
        BY <1>3
      <3>2. rank(p) = rank(q) /\ rank(p) \in Nat /\ rank(q) \in Nat
        BY <1>1, <1>2, <2>1, <3>1
      <3>3. ~(p.pos < q.pos) /\ ~(q.pos < p.pos)
        BY <1>1, <3>2
      <3>4. p.pos = q.pos
        BY <3>3 DEF Row
      <3> QED  BY <3>1, <3>4
    <2>2. ASSUME NEW x \in N PROVE x.pos <= Cardinality(N)
      BY <1>1, <1>2, <1>3, <1>6
    <2> QED  BY <2>1, <2>2 DEF Placed
  <1>9. /\ \A row \in N : \E p \in T : row.id = p.id /\ row.status = p.status
        /\ \A p \in T : \E row \in N : row.id = p.id /\ row.status = p.status
    BY <1>2, <1>3
  <1> QED  BY <1>4, <1>6, <1>7, <1>8, <1>9 DEF Ledger, N
(***************************************************************************)
(* The ledger's folds.                                                     *)
(***************************************************************************)
LEMMA RowLess ==
    ASSUME NEW T, IsFiniteSet(T), NEW m \in T,
           NEW n \in Nat, Cardinality(T) = n + 1
    PROVE  IsFiniteSet(T \ {m}) /\ Cardinality(T \ {m}) = n
  <1>1. /\ IsFiniteSet(T \ {m})
        /\ Cardinality(T \ {m}) = Cardinality(T) - 1
    BY FS_RemoveElement
  <1> QED  BY <1>1

(* A table of exactly the cap loses none of its latest rows, one more than *)
(* the cap its first.                                                      *)
LEMMA LatestAll ==
    ASSUME NEW T \in SUBSET Row, IsFiniteSet(T), Cardinality(T) = Cap
    PROVE  Latest(T, Cap) = T
  <1> SUFFICES ASSUME NEW row \in T
               PROVE  Cardinality({q \in T : q.pos > row.pos}) < Cap
    BY DEF Latest
  <1> DEFINE later == {q \in T : q.pos > row.pos}
  <1>1. later \in SUBSET (T \ {row})
    BY DEF Row
  <1>2. IsFiniteSet(T \ {row}) /\ Cardinality(T \ {row}) = Cap - 1
    BY FS_RemoveElement
  <1>3. Cardinality(later) <= Cardinality(T \ {row}) /\ Cardinality(later) \in Nat
    BY <1>1, <1>2, FS_Subset, FS_CardinalityType
  <1> QED  BY <1>2, <1>3, ReceiptAssumption

LEMMA LatestButFirst ==
    ASSUME NEW T \in SUBSET Row, IsFiniteSet(T), Cardinality(T) = Cap + 1,
           \A p, q \in T : p.pos = q.pos => p = q,
           NEW m \in T, \A q \in T : m.pos <= q.pos
    PROVE  Latest(T, Cap) = T \ {m}
  <1>0. \A row \in T : row.pos \in Nat
    BY DEF Row
  <1>1. IsFiniteSet(T \ {m}) /\ Cardinality(T \ {m}) = Cap
    BY RowLess, ReceiptAssumption
  <1>2. ASSUME NEW row \in T \ {m}
        PROVE  Cardinality({q \in T : q.pos > row.pos}) < Cap
    <2> DEFINE later == {q \in T : q.pos > row.pos}
    <2>1. later \in SUBSET ((T \ {m}) \ {row})
      BY <1>0
    <2>2. /\ IsFiniteSet((T \ {m}) \ {row})
          /\ Cardinality((T \ {m}) \ {row}) = Cap - 1
      BY <1>1, FS_RemoveElement
    <2>3. /\ Cardinality(later) <= Cardinality((T \ {m}) \ {row})
          /\ Cardinality(later) \in Nat
      BY <2>1, <2>2, FS_Subset, FS_CardinalityType
    <2> QED  BY <2>2, <2>3, ReceiptAssumption
  <1>3. {q \in T : q.pos > m.pos} = T \ {m}
    <2>1. ASSUME NEW q \in T, q # m PROVE q.pos > m.pos
      BY <1>0, <2>1
    <2> QED  BY <1>0, <2>1
  <1>4. ~(Cardinality({q \in T : q.pos > m.pos}) < Cap)
    BY <1>1, <1>3, ReceiptAssumption
  <1> QED  BY <1>2, <1>4 DEF Latest

(* One row too many: the first settled row goes, or the first row if none  *)
(* is settled.                                                             *)
LEMMA BoundedDropsOne ==
    ASSUME NEW T \in SUBSET Row, IsFiniteSet(T), Cardinality(T) = Cap + 1,
           \A p, q \in T : p.pos = q.pos => p = q
    PROVE  \E m \in T : /\ Bounded(T) = Renumbered(T \ {m})
                        /\ \/ m \in Settled(T)
                           \/ Settled(T) = {} /\ \A q \in T : m.pos <= q.pos
  <1>0. \A row \in T : row.pos \in Nat
    BY DEF Row
  <1>1. Cap \in Nat /\ Cap >= 1
    BY ReceiptAssumption
  <1>2. Cardinality(T) - Cap = 1 /\ ~(Cardinality(T) <= Cap)
    BY <1>1
  <1>3. Bounded(T) = Renumbered(Latest(T \ OldestSettled(T, 1), Cap))
    BY <1>2 DEF Bounded
  <1>4. CASE Settled(T) = {}
    <2>1. OldestSettled(T, 1) = {}
      BY <1>4 DEF OldestSettled
    <2>2. T # {}
      BY <1>1, FS_EmptySet
    <2>3. PICK m \in T : \A q \in T : m.pos <= q.pos
      BY <2>2, FirstRow
    <2>4. Latest(T, Cap) = T \ {m}
      BY <2>3, LatestButFirst
    <2>5. T \ OldestSettled(T, 1) = T
      BY <2>1
    <2> QED  BY <1>3, <1>4, <2>3, <2>4, <2>5
  <1>5. CASE Settled(T) # {}
    <2>0. Settled(T) \in SUBSET T
      BY DEF Settled
    <2>1. PICK m \in Settled(T) : \A q \in Settled(T) : m.pos <= q.pos
      BY <1>5, <2>0, FirstRow
    <2>2. OldestSettled(T, 1) = {m}
      <3> DEFINE before(row) == {q \in Settled(T) : q.pos < row.pos}
      <3>1. before(m) = {}
        BY <1>0, <2>0, <2>1
      <3>2. ASSUME NEW row \in Settled(T), row # m
            PROVE  ~(Cardinality(before(row)) < 1)
        <4>1. m \in before(row)
          BY <1>0, <2>0, <2>1, <3>2
        <4>2. before(row) \in SUBSET T
          BY <2>0
        <4>3. /\ IsFiniteSet(before(row)) /\ Cardinality(before(row)) \in Nat
              /\ Cardinality(before(row)) # 0
          BY <4>1, <4>2, FS_Subset, FS_CardinalityType, FS_EmptySet
        <4> QED  BY <4>3
      <3>3. Cardinality(before(m)) < 1
        BY <3>1, FS_EmptySet
      <3> HIDE DEF before
      <3>4. OldestSettled(T, 1)
              = {row \in Settled(T) : Cardinality(before(row)) < 1}
        BY DEF OldestSettled, before
      <3> QED  BY <3>2, <3>3, <3>4
    <2>3. /\ IsFiniteSet(T \ {m}) /\ Cardinality(T \ {m}) = Cap
          /\ T \ {m} \in SUBSET Row
      BY <1>1, <2>0, RowLess
    <2>4. Latest(T \ {m}, Cap) = T \ {m}
      BY <2>3, LatestAll
    <2> QED  BY <1>3, <2>0, <2>1, <2>2, <2>4
  <1> QED  BY <1>4, <1>5

(* Parking: the receipt is in the ledger afterwards, every other row keeps *)
(* its id and its status, only a full ledger loses one, and an open one    *)
(* only when none is settled.                                              *)
Parked(T, r) == [id |-> r, status |-> "parked", pos |-> Cardinality(T) + 1]

LEMMA ParkInSound ==
    ASSUME NEW T, Ledger(T), Cardinality(T) <= Cap, NEW r \in Receipts
    PROVE  /\ Ledger(ParkIn(T, r))
           /\ Cardinality(ParkIn(T, r)) <= Cap
           /\ Cardinality(T) = Cap => Cardinality(ParkIn(T, r)) = Cap
           /\ r \in Ids(ParkIn(T, r))
           /\ \A row \in ParkIn(T, r) :
                 \/ \E p \in T : row.id = p.id /\ row.status = p.status
                 \/ row.id = r /\ row.status = "parked"
           /\ \A p \in T : p.id \in Ids(ParkIn(T, r))
                            \/ /\ Cardinality(ParkIn(T, r)) = Cap
                               /\ p \in Settled(T) \/ Settled(T) = {}
  <1>0. Cap \in Nat /\ Cap >= 1 /\ Cardinality(T) \in Nat
    BY ReceiptAssumption, FS_CardinalityType DEF Ledger
  <1>1. CASE r \in Ids(T)
    <2>1. ParkIn(T, r) = T
      BY <1>1 DEF ParkIn
    <2> QED  BY <1>1, <2>1 DEF Ids
  <1>2. CASE r \notin Ids(T)
    <2> DEFINE new == Parked(T, r)
               U   == T \cup {new}
    <2>1. /\ new \in Row /\ new.id = r /\ new.status = "parked"
          /\ new.pos = Cardinality(T) + 1
      BY <1>0 DEF Parked, Row, Statuses, Open
    <2>2. \A p \in T : p.id # r /\ p.pos < new.pos /\ p.pos \in Nat
      BY <1>0, <1>2, <2>1 DEF Ids, Ledger, Placed, Row
    <2>3. new \notin T
      BY <2>1, <2>2
    <2>4. ParkIn(T, r) = Bounded(U)
      BY <1>2 DEF ParkIn, Parked
    <2> HIDE DEF new
    <2>5. /\ U \in SUBSET Row /\ IsFiniteSet(U) /\ DistinctIds(U)
          /\ \A p, q \in U : p.pos = q.pos => p = q
          /\ Cardinality(U) = Cardinality(T) + 1
      <3>1. IsFiniteSet(U) /\ Cardinality(U) = Cardinality(T) + 1
        BY <2>3, FS_AddElement DEF Ledger
      <3>2. U \in SUBSET Row
        BY <2>1 DEF Ledger
      <3>3. DistinctIds(U)
        BY <2>1, <2>2 DEF DistinctIds, Ledger
      <3>4. \A p, q \in U : p.pos = q.pos => p = q
        <4>1. \A p \in T : p.pos # new.pos
          BY <1>0, <2>1, <2>2
        <4> QED  BY <4>1 DEF Ledger, Placed
      <3> QED  BY <3>1, <3>2, <3>3, <3>4
    <2>6. Settled(U) = Settled(T)
      BY <2>1 DEF Settled, Terminal
    <2>7. CASE Cardinality(U) <= Cap
      <3>1. ParkIn(T, r) = U
        BY <2>4, <2>7 DEF Bounded
      <3>2. Ledger(U)
        <4>1. \A p \in U : p.pos <= Cardinality(U)
          BY <1>0, <2>1, <2>2, <2>5
        <4> QED  BY <2>5, <4>1 DEF Ledger, Placed
      <3> QED  BY <1>0, <2>1, <2>5, <2>7, <3>1, <3>2 DEF Ids
    <2>8. CASE ~(Cardinality(U) <= Cap)
      <3>1. Cardinality(U) = Cap + 1 /\ Cardinality(T) = Cap
        BY <1>0, <2>5, <2>8
      <3> HIDE DEF U
      <3>2. PICK m \in U : /\ Bounded(U) = Renumbered(U \ {m})
                           /\ \/ m \in Settled(U)
                              \/ Settled(U) = {} /\ \A q \in U : m.pos <= q.pos
        BY <2>5, <3>1, BoundedDropsOne
      <3> DEFINE K == U \ {m}
      <3>3. /\ K \in SUBSET Row /\ IsFiniteSet(K) /\ DistinctIds(K)
            /\ \A p, q \in K : p.pos = q.pos => p = q
            /\ Cardinality(K) = Cap
        BY <1>0, <2>5, <3>1, <3>2, RowLess DEF DistinctIds
      <3>4. /\ Ledger(Renumbered(K))
            /\ Cardinality(Renumbered(K)) = Cap
            /\ \A row \in Renumbered(K) :
                  \E p \in K : row.id = p.id /\ row.status = p.status
            /\ \A p \in K :
                  \E row \in Renumbered(K) :
                     row.id = p.id /\ row.status = p.status
        BY <3>3, RenumberedSound
      <3>5. ParkIn(T, r) = Renumbered(K)
        BY <2>4, <3>2
      <3>6. m # new
        <4>1. CASE m \in Settled(U)
          BY <2>3, <2>6, <4>1 DEF Settled
        <4>2. CASE \A q \in U : m.pos <= q.pos
          <5>1. PICK q \in T : TRUE
            BY <1>0, <3>1, FS_EmptySet
          <5>2. q.pos < new.pos /\ q \in U /\ q.pos \in Nat
            BY <2>2, <5>1 DEF U
          <5>3. new.pos \in Nat
            BY <1>0, <2>1
          <5> QED  BY <4>2, <5>2, <5>3
        <4> QED  BY <3>2, <4>1, <4>2
      <3>7. new \in K
        BY <3>6 DEF U
      <3>8. r \in Ids(ParkIn(T, r))
        BY <2>1, <3>4, <3>5, <3>7 DEF Ids
      <3>9. \A row \in ParkIn(T, r) :
               \/ \E p \in T : row.id = p.id /\ row.status = p.status
               \/ row.id = r /\ row.status = "parked"
        BY <2>1, <3>4, <3>5 DEF U
      <3>10. ASSUME NEW p \in T
             PROVE  p.id \in Ids(ParkIn(T, r))
                     \/ p \in Settled(T) \/ Settled(T) = {}
        <4>1. CASE p = m
          BY <2>6, <3>2, <4>1
        <4>2. CASE p # m
          <5>1. p \in K
            BY <4>2 DEF U
          <5> QED  BY <3>4, <3>5, <5>1 DEF Ids
        <4> QED  BY <4>1, <4>2
      <3>11. Ledger(ParkIn(T, r)) /\ Cardinality(ParkIn(T, r)) = Cap
        BY <3>4, <3>5
      <3> QED  BY <1>0, <3>8, <3>9, <3>10, <3>11
    <2> QED  BY <2>7, <2>8
  <1> QED  BY <1>1, <1>2

(* Settling a receipt moves no row.                                        *)
LEMMA SetStatusSound ==
    ASSUME NEW T, Ledger(T), NEW r, NEW status \in Statuses
    PROVE  /\ Ledger(SetStatus(T, r, status))
           /\ Cardinality(SetStatus(T, r, status)) = Cardinality(T)
           /\ Ids(SetStatus(T, r, status)) = Ids(T)
           /\ \A row \in SetStatus(T, r, status) :
                 \/ \E p \in T : row.id = p.id /\ row.status = p.status
                 \/ row.id = r /\ row.status = status /\ r \in Ids(T)
  <1> DEFINE set(row) == IF row.id = r THEN [row EXCEPT !.status = status]
                         ELSE row
             f == [row \in T |-> set(row)]
             N == SetStatus(T, r, status)
  <1>1. ASSUME NEW p \in T
        PROVE  /\ set(p) \in Row /\ set(p).id = p.id /\ set(p).pos = p.pos
               /\ set(p).status = IF p.id = r THEN status ELSE p.status
    BY DEF Ledger, Row
  <1>2. N = {set(row) : row \in T}
    BY DEF SetStatus
  <1> HIDE DEF set, N
  <1>3. f \in Surjection(T, N) /\ f \in Injection(T, N)
    <2>1. f \in [T -> N]
      BY <1>2
    <2>2. \A x \in N : \E p \in T : f[p] = x
      BY <1>2
    <2>3. \A p, q \in T : f[p] = f[q] => p = q
      BY <1>1 DEF Ledger, DistinctIds
    <2> QED  BY <2>1, <2>2, <2>3 DEF Surjection, Injection, IsInjective
  <1>4. IsFiniteSet(N) /\ Cardinality(N) = Cardinality(T)
    BY <1>3, FS_Surjection DEF Ledger
  <1>5. N \in SUBSET Row
    BY <1>1, <1>2
  <1>6. DistinctIds(N)
    BY <1>1, <1>2 DEF Ledger, DistinctIds
  <1>7. Placed(N)
    <2>1. \A x, y \in N : x.pos = y.pos => x = y
      BY <1>1, <1>2 DEF Ledger, Placed
    <2>2. \A x \in N : x.pos <= Cardinality(N)
      BY <1>1, <1>2, <1>4 DEF Ledger, Placed
    <2> QED  BY <2>1, <2>2 DEF Placed
  <1>8. Ids(N) = Ids(T)
    BY <1>1, <1>2 DEF Ids
  <1>9. \A row \in N : \/ \E p \in T : row.id = p.id /\ row.status = p.status
                       \/ row.id = r /\ row.status = status /\ r \in Ids(T)
    BY <1>1, <1>2 DEF Ids
  <1> QED  BY <1>4, <1>5, <1>6, <1>7, <1>8, <1>9 DEF Ledger, N
(***************************************************************************)
(* The joins.                                                              *)
(***************************************************************************)
LEMMA JoinShape ==
    ASSUME NEW j \in Joins
    PROVE  /\ j.pc \in {"none", "match", "act", "save"}
           /\ j.pc = "match" => j.status \in Open
           /\ j.pc \in {"act", "save"} =>
                 /\ j = [pc |-> j.pc, action |-> j.action]
                 /\ j.action \in Actions \ {Wait}
  BY DEF Joins, NoJoin

LEMMA ActionKinds ==
    ASSUME NEW a \in Actions \ {Wait}
    PROVE  /\ a.kind \in {"signal", "ask", "tell"}
           /\ a.kind = "signal" => a.txn \in Txns
           /\ ResultingStatus(a) \in Statuses
           /\ ResultingStatus(a) = "matched" => a.kind = "signal"
           /\ ResultingStatus(a) = "asked"   => a.kind = "ask"
           /\ ResultingStatus(a) = "expired" => a.kind = "tell"
  BY DEF Actions, Signal, Ask, Tell, Wait, ResultingStatus, Statuses, Open,
         Terminal

(* The plan is one of the actions, and tells only of a receipt grown old.  *)
LEMMA PlanSound ==
    ASSUME TypeOK, NEW status \in Open, NEW old \in BOOLEAN,
           NEW verdict \in Verdicts
    PROVE  /\ PlanJoin(status, old, verdict) \in Actions
           /\ PlanJoin(status, old, verdict).kind = "tell" => old
  <1>1. /\ Ask \in Actions /\ Tell \in Actions /\ Wait \in Actions
        /\ \A t \in Txns : Signal(t) \in Actions
        /\ Ask.kind # "tell" /\ Wait.kind # "tell"
        /\ \A t \in Txns : Signal(t).kind # "tell"
    BY DEF Actions, Ask, Wait, Signal
  <1>2. verdict.kind = "confident" => verdict.txn \in Txns
    BY DEF Verdicts, Confident, NoMatch, Ambiguous, TypeOK
  <1>3. status \notin Terminal
    BY DEF Open, Terminal
  <1>4. \/ /\ verdict.kind = "confident"
           /\ PlanJoin(status, old, verdict) = Signal(verdict.txn)
        \/ PlanJoin(status, old, verdict) = Ask
        \/ PlanJoin(status, old, verdict) = IF old THEN Tell ELSE Wait
    BY <1>3 DEF PlanJoin
  <1> QED  BY <1>1, <1>2, <1>4

LEMMA StartJoinSound ==
    ASSUME TypeOK, NEW r \in Receipts, NEW status \in Open,
           StartJoin(r, status)
    PROVE  /\ join' \in [Receipts -> Joins]
           /\ \A q \in Receipts : join'[q] = join[q] \/ join'[q].pc = "match"
  <1>1. [pc |-> "match", status |-> status] \in Joins
    BY DEF Joins
  <1> QED  BY <1>1 DEF StartJoin, TypeOK

(* -- What every step keeps ----------------------------------------------- *)
Grown ==
    /\ \A r \in Receipts : /\ notes[r] \subseteq notes'[r]
                           /\ delivered[r] \subseteq delivered'[r]
    /\ mishaps \subseteq mishaps' /\ aged \subseteq aged'

LEMMA MishapTyped ==
    ASSUME TypeOK, NEW k \in Kinds, Mishap(k) \/ UNCHANGED mishaps
    PROVE  mishaps' \subseteq Kinds /\ mishaps \subseteq mishaps'
  BY DEF Mishap, TypeOK

LEMMA StatusKept ==
    ASSUME TypeInv, StatusBacked, Grown,
           \A row \in table' :
              \/ \E p \in table : row.id = p.id /\ row.status = p.status
              \/ row.status = "parked"
    PROVE  StatusBacked'
  <1> SUFFICES ASSUME NEW row \in table'
               PROVE  /\ row.status = "matched" => delivered'[row.id] # {}
                      /\ row.status = "asked"   => "ask" \in notes'[row.id]
                      /\ row.status = "expired" => \/ "nomatch" \in notes'[row.id]
                                                   \/ "unreachable" \in mishaps'
    BY DEF StatusBacked
  <1>1. CASE row.status = "parked"
    BY <1>1
  <1>2. CASE \E p \in table : row.id = p.id /\ row.status = p.status
    <2>1. PICK p \in table : row.id = p.id /\ row.status = p.status
      BY <1>2
    <2>2. p.id \in Receipts
      BY DEF TypeInv, TypeOK, Row
    <2> QED  BY <2>1, <2>2 DEF StatusBacked, Grown
  <1> QED  BY <1>1, <1>2

LEMMA JoinsKept ==
    ASSUME TypeInv, JoinInv, Grown,
           \A q \in Receipts : \/ join'[q] = join[q]
                               \/ join'[q].pc \in {"none", "match"},
           \A q \in aged : q \in Ids(table') => q \in Ids(table)
    PROVE  JoinInv'
  <1> SUFFICES ASSUME NEW r \in Receipts
               PROVE  /\ join'[r].pc = "save" => Done(r, join[r].action)'
                      /\ /\ join'[r].pc \in {"act", "save"}
                         /\ join'[r].action.kind = "tell"
                         => r \in aged'
    BY DEF JoinInv
  <1>1. CASE join'[r].pc \in {"none", "match"}
    BY <1>1
  <1>2. CASE join'[r] = join[r]
    BY <1>2 DEF JoinInv, Done, Grown
  <1> QED  BY <1>1, <1>2

LEMMA AcksKept ==
    ASSUME TypeInv, AckInv,
           Ids(table) \subseteq Ids(table') \/ Cardinality(table') = Cap,
           Cardinality(table) = Cap => Cardinality(table') = Cap,
           \A r \in Receipts :
              /\ route'[r] = "ack" => route[r] = "ack" \/ r \in Ids(table')
              /\ "ack" \in notes'[r] => "ack" \in notes[r] \/ route[r] = "ack"
    PROVE  AckInv'
  BY DEF AckInv
(***************************************************************************)
(* The actions.                                                            *)
(***************************************************************************)
(* A step of the routing that leaves the ledger alone.                     *)
LEMMA RouteQuiet ==
    ASSUME IInv, UNCHANGED <<table, listed, world, delivered>>,
           route' \in [Receipts -> Stages],
           \A r \in aged : route'[r] = "done",
           join' \in [Receipts -> Joins],
           \A q \in Receipts : join'[q] = join[q] \/ join'[q].pc = "match",
           notes' \in [Receipts -> SUBSET Labels],
           \A r \in Receipts :
              /\ notes[r] \subseteq notes'[r]
              /\ route'[r] = "ack" => route[r] = "ack"
              /\ "ack" \in notes'[r] => "ack" \in notes[r] \/ route[r] = "ack",
           mishaps' \subseteq Kinds, mishaps \subseteq mishaps'
    PROVE  IInv'
  <1>1. TypeInv'
    BY DEF IInv, TypeInv, TypeOK, world
  <1>2. Grown
    BY DEF Grown, world
  <1>3. AckInv'
    BY AcksKept DEF IInv
  <1>4. StatusBacked'
    BY <1>2, StatusKept DEF IInv
  <1>5. JoinInv'
    BY <1>2, JoinsKept DEF IInv
  <1>6. AgedInv'
    BY DEF AgedInv, world
  <1> QED  BY <1>1, <1>3, <1>4, <1>5, <1>6 DEF IInv

LEMMA RoutingInv ==
    ASSUME IInv, NEW r \in Receipts,
           \/ Forward(r) \/ Parse(r) \/ NotAReceipt(r) \/ Ack(r)
           \/ StartRouted(r) \/ RetryRoute(r)
    PROVE  IInv'
  <1>0. /\ route \in [Receipts -> Stages] /\ aged \subseteq Receipts
        /\ join \in [Receipts -> Joins] /\ mishaps \subseteq Kinds
        /\ notes \in [Receipts -> SUBSET Labels] /\ TypeOK
        /\ \A q \in aged : route[q] = "done"
    BY DEF IInv, TypeInv, TypeOK, AgedInv
  <1>1. CASE Forward(r) \/ Parse(r)
    <2>1. /\ route' \in [Receipts -> Stages]
          /\ \A q \in aged : route'[q] = "done"
          /\ \A q \in Receipts : route'[q] = "ack" => route[q] = "ack"
      BY <1>0, <1>1 DEF Forward, Parse, At, GoTo, Stages
    <2> QED  BY <1>0, <1>1, <2>1, RouteQuiet DEF Forward, Parse, said, world
  <1>2. CASE NotAReceipt(r) \/ Ack(r)
    <2>1. /\ route' \in [Receipts -> Stages]
          /\ \A q \in aged : route'[q] = "done"
          /\ \A q \in Receipts : route'[q] = "ack" => route[q] = "ack"
      BY <1>0, <1>2 DEF NotAReceipt, Ack, At, GoTo, Stages
    <2>2. /\ notes' \in [Receipts -> SUBSET Labels]
          /\ \A q \in Receipts :
                /\ notes[q] \subseteq notes'[q]
                /\ "ack" \in notes'[q] => "ack" \in notes[q] \/ route[q] = "ack"
      BY <1>0, <1>2 DEF NotAReceipt, Ack, At, Labels
    <2> QED  BY <1>0, <1>2, <2>1, <2>2, RouteQuiet DEF NotAReceipt, Ack, world
  <1>3. CASE StartRouted(r)
    <2>1. /\ route' \in [Receipts -> Stages]
          /\ \A q \in aged : route'[q] = "done"
          /\ \A q \in Receipts : route'[q] = "ack" => route[q] = "ack"
      BY <1>0, <1>3 DEF StartRouted, At, GoTo, Stages
    <2>2. /\ join' \in [Receipts -> Joins]
          /\ \A q \in Receipts : join'[q] = join[q] \/ join'[q].pc = "match"
      BY <1>0, <1>3, StartJoinSound DEF StartRouted, Open
    <2> QED  BY <1>0, <1>3, <2>1, <2>2, RouteQuiet DEF StartRouted, said, world
  <1>4. CASE RetryRoute(r)
    <2>1. /\ route' \in [Receipts -> Stages]
          /\ \A q \in aged : route'[q] = "done"
          /\ \A q \in Receipts : route'[q] = "ack" => route[q] = "ack"
      BY <1>0, <1>4 DEF RetryRoute, GoTo, Stages
    <2>2. mishaps' \subseteq Kinds /\ mishaps \subseteq mishaps'
      BY <1>0, <1>4, MishapTyped DEF RetryRoute, Kinds
    <2> QED  BY <1>0, <1>4, <2>1, <2>2, RouteQuiet DEF RetryRoute, said, world
  <1> QED  BY <1>1, <1>2, <1>3, <1>4

LEMMA ParkInv == ASSUME IInv, NEW r \in Receipts, Park(r) PROVE IInv'
  <1>0. /\ Ledger(table') /\ Cardinality(table') <= Cap
        /\ Cardinality(table) = Cap => Cardinality(table') = Cap
        /\ r \in Ids(table')
        /\ \A row \in table' :
              \/ \E p \in table : row.id = p.id /\ row.status = p.status
              \/ row.id = r /\ row.status = "parked"
        /\ \A p \in table : \/ p.id \in Ids(table')
                            \/ Cardinality(table') = Cap
    BY ParkInSound DEF IInv, TypeInv, TypeOK, Park
  <1>1. TypeInv'
    BY <1>0 DEF IInv, TypeInv, TypeOK, Ledger, DistinctIds, Park, At, GoTo,
                world, said, Stages
  <1>2. Grown
    BY DEF Grown, Park, world, said
  <1>3. AckInv'
    <2>1. Ids(table) \subseteq Ids(table') \/ Cardinality(table') = Cap
      BY <1>0 DEF Ids
    <2>2. \A q \in Receipts :
             route'[q] = "ack" => route[q] = "ack" \/ q \in Ids(table')
      BY <1>0 DEF Park, GoTo, IInv, TypeInv, TypeOK
    <2> QED  BY <1>0, <2>1, <2>2, AcksKept DEF IInv, Park, said
  <1>4. StatusBacked'
    BY <1>0, <1>2, StatusKept DEF IInv
  <1>5. JoinInv'
    <2>1. r \notin aged
      BY DEF Park, At, IInv, AgedInv
    <2>2. \A q \in aged : q \in Ids(table') => q \in Ids(table)
      BY <1>0, <2>1 DEF Ids
    <2> QED  BY <1>2, <2>2, JoinsKept DEF IInv, Park
  <1>6. AgedInv'
    BY DEF IInv, AgedInv, Park, At, GoTo, world, TypeInv, TypeOK
  <1> QED  BY <1>1, <1>3, <1>4, <1>5, <1>6 DEF IInv

(* A step of the joins or the poll that leaves the ledger and the routing  *)
(* alone, and starts no act.                                               *)
LEMMA JoinQuiet ==
    ASSUME IInv, UNCHANGED <<table, route, said>>,
           listed' \subseteq OpenReceipts(Row), join' \in [Receipts -> Joins],
           \A q \in Receipts : \/ join'[q] = join[q]
                               \/ join'[q].pc \in {"none", "match"},
           posted' \subseteq Txns, aged' \subseteq Receipts, aged \subseteq aged',
           \A q \in aged' : route[q] = "done",
           mishaps' \subseteq Kinds, mishaps \subseteq mishaps'
    PROVE  IInv'
  <1>1. TypeInv'
    BY DEF IInv, TypeInv, TypeOK, said, OpenReceipts
  <1>2. Grown
    BY DEF Grown, said
  <1>3. AckInv'
    BY AcksKept DEF IInv, said
  <1>4. StatusBacked'
    BY <1>2, StatusKept DEF IInv
  <1>5. JoinInv'
    BY <1>2, JoinsKept DEF IInv
  <1>6. AgedInv'
    BY DEF AgedInv
  <1> QED  BY <1>1, <1>3, <1>4, <1>5, <1>6 DEF IInv

LEMMA PollInv == ASSUME IInv, PollList \/ PollStart PROVE IInv'
  <1>0. /\ TypeOK /\ listed \subseteq OpenReceipts(Row) /\ join \in [Receipts -> Joins]
        /\ posted \subseteq Txns /\ aged \subseteq Receipts /\ table \subseteq Row
        /\ \A q \in aged : route[q] = "done"
    BY DEF IInv, TypeInv, TypeOK, AgedInv
  <1>1. mishaps' \subseteq Kinds /\ mishaps \subseteq mishaps'
    BY <1>0, MishapTyped DEF PollList, PollStart, Kinds
  <1>2. CASE PollList
    <2>1. listed' \subseteq OpenReceipts(Row)
      BY <1>0, <1>2 DEF PollList, OpenReceipts
    <2> QED  BY <1>0, <1>1, <1>2, <2>1, JoinQuiet DEF PollList, world
  <1>3. CASE PollStart
    <2>1. PICK row \in Earliest(listed) :
             /\ StartJoin(row.id, row.status)
             /\ listed' \in SUBSET listed
      BY <1>3 DEF PollStart
    <2>2. row \in Row /\ row.status \in Open
      BY <1>0 DEF Earliest, OpenReceipts
    <2>3. /\ join' \in [Receipts -> Joins]
          /\ \A q \in Receipts : join'[q] = join[q] \/ join'[q].pc = "match"
      BY <1>0, <2>1, <2>2, StartJoinSound DEF Row
    <2> QED  BY <1>0, <1>1, <1>3, <2>1, <2>3, JoinQuiet DEF PollStart, world
  <1> QED  BY <1>2, <1>3

LEMMA MatchInv == ASSUME IInv, NEW r \in Receipts, JoinMatch(r) PROVE IInv'
  <1>0. /\ TypeOK /\ listed \subseteq OpenReceipts(Row) /\ join \in [Receipts -> Joins]
        /\ posted \subseteq Txns /\ aged \subseteq Receipts
        /\ \A q \in aged : route[q] = "done"
    BY DEF IInv, TypeInv, TypeOK, AgedInv
  <1> DEFINE old == r \in aged
             a(v) == PlanJoin(join[r].status, old, v)
             next(v) == IF a(v) = Wait THEN NoJoin
                        ELSE [pc |-> "act", action |-> a(v)]
  <1>1. PICK v \in Verdicts : join' = [join EXCEPT ![r] = next(v)]
    BY DEF JoinMatch
  <1>2. join[r].status \in Open
    BY <1>0, JoinShape DEF JoinMatch
  <1>3. a(v) \in Actions /\ (a(v).kind = "tell" => r \in aged)
    <2>1. old \in BOOLEAN
      OBVIOUS
    <2> HIDE DEF old
    <2>2. a(v) \in Actions /\ (a(v).kind = "tell" => old)
      BY <1>0, <1>2, <2>1, PlanSound
    <2> QED  BY <2>2 DEF old
  <1>4. next(v) \in Joins /\ next(v).pc \in {"none", "act"}
        /\ (next(v).pc = "act" => next(v).action = a(v))
    BY <1>3 DEF Joins, NoJoin
  <1> HIDE DEF a, next
  <1>5. /\ join' \in [Receipts -> Joins] /\ join'[r] = next(v)
        /\ \A q \in Receipts \ {r} : join'[q] = join[q]
    BY <1>0, <1>1, <1>4
  <1>6. TypeInv'
    BY <1>5 DEF IInv, TypeInv, TypeOK, JoinMatch, world, said
  <1>7. AckInv' /\ StatusBacked' /\ AgedInv'
    BY DEF IInv, AckInv, StatusBacked, AgedInv, JoinMatch, world, said
  <1>8. JoinInv'
    <2> SUFFICES ASSUME NEW q \in Receipts
                 PROVE  /\ join'[q].pc = "save" => Done(q, join[q].action)'
                        /\ /\ join'[q].pc \in {"act", "save"}
                           /\ join'[q].action.kind = "tell"
                           => q \in aged'
      BY DEF JoinInv
    <2>1. CASE q = r
      BY <1>3, <1>4, <1>5, <2>1 DEF JoinMatch, world
    <2>2. CASE q # r
      BY <1>5, <2>2 DEF IInv, JoinInv, Done, JoinMatch, world, said
    <2> QED  BY <2>1, <2>2
  <1> QED  BY <1>6, <1>7, <1>8 DEF IInv

(* An act: the attempt stays where it is, or goes on to save what it did.  *)
LEMMA ActKept ==
    ASSUME IInv, NEW r \in Receipts, join[r].pc = "act",
           UNCHANGED <<table, route, listed, world>>,
           (Acted(r) /\ Done(r, join[r].action)') \/ UNCHANGED join,
           notes' \in [Receipts -> SUBSET Labels],
           delivered' \in [Receipts -> SUBSET Txns],
           \A q \in Receipts : /\ notes[q] \subseteq notes'[q]
                               /\ delivered[q] \subseteq delivered'[q]
                               /\ "ack" \in notes'[q] => "ack" \in notes[q],
           mishaps' \subseteq Kinds, mishaps \subseteq mishaps'
    PROVE  IInv'
  <1>0. join \in [Receipts -> Joins]
    BY DEF IInv, TypeInv, TypeOK
  <1>1. Grown
    BY DEF Grown, world
  <1>2. /\ join' \in [Receipts -> Joins]
        /\ \A q \in Receipts \ {r} : join'[q] = join[q]
        /\ join'[r].pc \in {"act", "save"} /\ join'[r].action = join[r].action
        /\ join'[r].pc = "save" => Done(r, join[r].action)'
    <2>1. CASE Acted(r) /\ Done(r, join[r].action)'
      <3>1. /\ join[r] = [pc |-> "act", action |-> join[r].action]
            /\ join[r].action \in Actions \ {Wait}
        BY <1>0, JoinShape
      <3>2. join'[r] = [pc |-> "save", action |-> join[r].action]
        BY <1>0, <2>1, <3>1 DEF Acted
      <3>3. join'[r] \in Joins
        BY <3>1, <3>2 DEF Joins
      <3>4. /\ join' = [join EXCEPT ![r] = join'[r]]
        BY <1>0, <2>1 DEF Acted
      <3> QED  BY <1>0, <2>1, <3>2, <3>3, <3>4
    <2>2. CASE UNCHANGED join
      BY <1>0, <2>2
    <2> QED  BY <2>1, <2>2
  <1>3. TypeInv'
    BY <1>2 DEF IInv, TypeInv, TypeOK, world
  <1>4. AckInv'
    BY AcksKept DEF IInv
  <1>5. StatusBacked'
    BY <1>1, StatusKept DEF IInv
  <1>6. JoinInv'
    <2> SUFFICES ASSUME NEW q \in Receipts
                 PROVE  /\ join'[q].pc = "save" => Done(q, join[q].action)'
                        /\ /\ join'[q].pc \in {"act", "save"}
                           /\ join'[q].action.kind = "tell"
                           => q \in aged'
      BY DEF JoinInv
    <2>1. CASE q = r
      BY <1>2, <2>1 DEF IInv, JoinInv, world
    <2>2. CASE q # r
      BY <1>1, <1>2, <2>2 DEF IInv, JoinInv, Done, Grown
    <2> QED  BY <2>1, <2>2
  <1>7. AgedInv'
    BY DEF IInv, AgedInv, world
  <1> QED  BY <1>3, <1>4, <1>5, <1>6, <1>7 DEF IInv

LEMMA ActedShape ==
    ASSUME TypeOK, NEW r \in Receipts, join[r].pc = "act", Acted(r)
    PROVE  join'[r].action = join[r].action
  <1>1. join[r] = [pc |-> "act", action |-> join[r].action]
    BY JoinShape DEF TypeOK
  <1>2. join'[r] = [join[r] EXCEPT !.pc = "save"]
    BY DEF Acted, TypeOK
  <1> QED  BY <1>1, <1>2

LEMMA ActInv ==
    ASSUME IInv, NEW r \in Receipts, ActSignal(r) \/ ActAsk(r) \/ ActTell(r)
    PROVE  IInv'
  <1>0. /\ TypeOK /\ join \in [Receipts -> Joins]
        /\ notes \in [Receipts -> SUBSET Labels]
        /\ delivered \in [Receipts -> SUBSET Txns] /\ mishaps \subseteq Kinds
    BY DEF IInv, TypeInv, TypeOK
  <1>1. join[r].pc = "act" /\ join[r].action \in Actions \ {Wait}
    BY <1>0, JoinShape DEF ActSignal, ActAsk, ActTell, Acting
  <1>2. mishaps' \subseteq Kinds /\ mishaps \subseteq mishaps'
    BY <1>0, MishapTyped DEF ActSignal, ActAsk, ActTell, Completes, Kinds
  <1>3. Acted(r) => join'[r].action = join[r].action
    BY <1>0, <1>1, ActedShape
  <1>4. CASE ActSignal(r)
    <2>1. join[r].action.txn \in Txns /\ join[r].action.kind = "signal"
      BY <1>1, <1>4, ActionKinds DEF ActSignal, Acting
    <2>2. /\ delivered' \in [Receipts -> SUBSET Txns]
          /\ \A q \in Receipts : delivered[q] \subseteq delivered'[q]
          /\ delivered'[r] # {}
      BY <1>0, <1>4, <2>1 DEF ActSignal
    <2>3. Acted(r) => Done(r, join[r].action)'
      BY <1>3, <2>1, <2>2 DEF Done
    <2> QED  BY <1>0, <1>1, <1>2, <1>4, <2>2, <2>3, ActKept
             DEF ActSignal, Completes
  <1>5. CASE ActAsk(r)
    <2>1. /\ notes' \in [Receipts -> SUBSET Labels] /\ "ask" \in notes'[r]
          /\ \A q \in Receipts : /\ notes[q] \subseteq notes'[q]
                                /\ "ack" \in notes'[q] => "ack" \in notes[q]
      BY <1>0, <1>5 DEF ActAsk, Labels
    <2>2. Acted(r) => Done(r, join[r].action)'
      BY <1>3, <1>5, <2>1 DEF Done, ActAsk, Acting
    <2> QED  BY <1>0, <1>1, <1>2, <1>5, <2>1, <2>2, ActKept
             DEF ActAsk, Completes
  <1>6. CASE ActTell(r)
    <2>1. /\ notes' \in [Receipts -> SUBSET Labels]
          /\ \A q \in Receipts : /\ notes[q] \subseteq notes'[q]
                                /\ "ack" \in notes'[q] => "ack" \in notes[q]
          /\ Acted(r) \/ UNCHANGED join
          /\ \/ "nomatch" \in notes'[r]
             \/ r \notin Ids(table')
             \/ "unreachable" \in mishaps'
      BY <1>0, <1>6 DEF ActTell, Completes, Mishap, Labels
    <2>2. Acted(r) => Done(r, join[r].action)'
      BY <1>3, <1>6, <2>1 DEF Done, ActTell, Acting
    <2> QED  BY <1>0, <1>1, <1>2, <1>6, <2>1, <2>2, ActKept DEF ActTell
  <1> QED  BY <1>4, <1>5, <1>6

LEMMA SaveInv == ASSUME IInv, NEW r \in Receipts, JoinSave(r) PROVE IInv'
  <1> DEFINE a == join[r].action
  <1>0. /\ TypeOK /\ join \in [Receipts -> Joins] /\ table \subseteq Row
        /\ Ledger(table)
    BY DEF IInv, TypeInv, TypeOK
  <1>1. a \in Actions \ {Wait} /\ Done(r, a)
    BY <1>0, JoinShape DEF JoinSave, IInv, JoinInv
  <1> HIDE DEF a
  <1>2. /\ ResultingStatus(a) \in Statuses
        /\ ResultingStatus(a) = "matched" => a.kind = "signal"
        /\ ResultingStatus(a) = "asked"   => a.kind = "ask"
        /\ ResultingStatus(a) = "expired" => a.kind = "tell"
    BY <1>1, ActionKinds
  <1>3. /\ Ledger(table') /\ Cardinality(table') = Cardinality(table)
        /\ Ids(table') = Ids(table)
        /\ \A row \in table' :
              \/ \E p \in table : row.id = p.id /\ row.status = p.status
              \/ /\ row.id = r /\ row.status = ResultingStatus(a)
                 /\ r \in Ids(table)
    BY <1>0, <1>2, SetStatusSound DEF JoinSave, a
  <1>4. /\ join' \in [Receipts -> Joins] /\ join'[r].pc = "none"
        /\ \A q \in Receipts \ {r} : join'[q] = join[q]
    BY <1>0 DEF JoinSave, Joins, NoJoin
  <1>5. TypeInv'
    BY <1>3, <1>4 DEF IInv, TypeInv, TypeOK, Ledger, DistinctIds, JoinSave,
                      world, said
  <1>6. Grown
    BY DEF Grown, JoinSave, world, said
  <1>7. AckInv'
    BY <1>3, AcksKept DEF IInv, JoinSave, said
  <1>8. StatusBacked'
    <2> SUFFICES ASSUME NEW row \in table'
                 PROVE  /\ row.status = "matched" => delivered[row.id] # {}
                        /\ row.status = "asked"   => "ask" \in notes[row.id]
                        /\ row.status = "expired" => \/ "nomatch" \in notes[row.id]
                                                     \/ "unreachable" \in mishaps
      BY DEF StatusBacked, JoinSave, said
    <2>1. CASE \E p \in table : row.id = p.id /\ row.status = p.status
      BY <2>1 DEF IInv, StatusBacked
    <2>2. CASE /\ row.id = r /\ row.status = ResultingStatus(a)
               /\ r \in Ids(table)
      BY <1>1, <1>2, <2>2 DEF Done
    <2> QED  BY <1>3, <2>1, <2>2
  <1>9. JoinInv'
    BY <1>3, <1>4, <1>6, JoinsKept DEF IInv
  <1>10. AgedInv'
    BY DEF IInv, AgedInv, JoinSave, world
  <1> QED  BY <1>5, <1>7, <1>8, <1>9, <1>10 DEF IInv

LEMMA FailsInv == ASSUME IInv, NEW r \in Receipts, JoinFails(r) PROVE IInv'
  <1>0. /\ TypeOK /\ listed \subseteq OpenReceipts(Row) /\ join \in [Receipts -> Joins]
        /\ posted \subseteq Txns /\ aged \subseteq Receipts
        /\ \A q \in aged : route[q] = "done"
    BY DEF IInv, TypeInv, TypeOK, AgedInv
  <1>1. /\ join' \in [Receipts -> Joins]
        /\ \A q \in Receipts : join'[q] = join[q] \/ join'[q].pc \in {"none", "match"}
    BY <1>0 DEF JoinFails, Joins, NoJoin
  <1>2. mishaps' \subseteq Kinds /\ mishaps \subseteq mishaps'
    BY <1>0, MishapTyped DEF JoinFails, Kinds
  <1> QED  BY <1>0, <1>1, <1>2, JoinQuiet DEF JoinFails, world

LEMMA WorldInv ==
    ASSUME IInv,
           \/ \E t \in Txns : Post(t)
           \/ \E r \in Receipts : Expire(r)
    PROVE  IInv'
  <1>0. /\ TypeOK /\ listed \subseteq OpenReceipts(Row) /\ join \in [Receipts -> Joins]
        /\ posted \subseteq Txns /\ aged \subseteq Receipts /\ mishaps \subseteq Kinds
        /\ \A q \in aged : route[q] = "done"
    BY DEF IInv, TypeInv, TypeOK, AgedInv
  <1>1. CASE \E t \in Txns : Post(t)
    BY <1>0, <1>1, JoinQuiet DEF Post
  <1>2. CASE \E r \in Receipts : Expire(r)
    BY <1>0, <1>2, JoinQuiet DEF Expire, At
  <1> QED  BY <1>1, <1>2

(***************************************************************************)
(* The theorems.                                                           *)
(***************************************************************************)
LEMMA InitInv == Init => IInv
  <1> SUFFICES ASSUME Init PROVE IInv
    OBVIOUS
  <1>1. IsFiniteSet({}) /\ Cardinality({}) = 0
    BY FS_EmptySet
  <1>2. TypeInv
    BY <1>1, ReceiptAssumption
    DEF Init, TypeInv, TypeOK, Ledger, DistinctIds, Placed, Joins, Stages
  <1>3. AckInv /\ StatusBacked /\ JoinInv /\ AgedInv
    BY DEF Init, AckInv, StatusBacked, JoinInv, AgedInv, NoJoin
  <1> QED  BY <1>2, <1>3 DEF IInv

LEMMA StepInv == IInv /\ [Next]_vars => IInv'
  <1> SUFFICES ASSUME IInv, [Next]_vars PROVE IInv'
    OBVIOUS
  <1>1. CASE UNCHANGED vars
    BY <1>1 DEF vars, world, said, IInv, TypeInv, TypeOK, AckInv, StatusBacked,
                JoinInv, Done, AgedInv
  <1>2. ASSUME NEW r \in Receipts,
               Forward(r) \/ Attempt(r) \/ RetryRoute(r)
        PROVE  IInv'
    BY <1>2, RoutingInv, ParkInv DEF Attempt
  <1>3. ASSUME NEW r \in Receipts, JoinStep(r)
        PROVE  IInv'
    BY <1>3, MatchInv, ActInv, SaveInv, FailsInv DEF JoinStep
  <1>4. CASE PollList \/ PollStart
    BY <1>4, PollInv
  <1>5. CASE (\E t \in Txns : Post(t)) \/ \E r \in Receipts : Expire(r)
    BY <1>5, WorldInv
  <1> QED  BY <1>1, <1>2, <1>3, <1>4, <1>5 DEF Next

LEMMA Invariant == Spec => []IInv
  BY InitInv, StepInv, PTL DEF Spec

(* The ledger tells the truth: a receipt that was acknowledged to its      *)
(* sender is in it unless it is full, and a status says something that has *)
(* happened (join/store.py; route_receipt, receipt_workflow.py), whatever  *)
(* attempt is repeated and whatever a join was started with.               *)
THEOREM LedgerStaysTruthful == Spec => []LedgerTruthful
  <1>1. IInv => LedgerTruthful
    BY DEF IInv, TypeInv, LedgerTruthful, AckInv, AckedKept
  <1> QED  BY <1>1, Invariant, PTL

(* A receipt still waiting is dropped only when no settled one is left     *)
(* (join/store.py, _bounded).                                              *)
THEOREM EvictsOpenLast == Spec => OpenEvictedLast
  <1> DEFINE Kept == \A row \in OpenReceipts(table) :
                        row.id \notin Ids(table') => Settled(table) = {}
  <1>1. ASSUME IInv, [Next]_vars PROVE [Kept]_vars
    <2>0. Ledger(table) /\ Cardinality(table) <= Cap
      BY <1>1 DEF IInv, TypeInv, TypeOK
    <2>1. CASE Ids(table) \subseteq Ids(table')
      BY <2>1 DEF OpenReceipts, Ids
    <2>2. ASSUME NEW r \in Receipts, Park(r) PROVE Kept
      <3>1. \A p \in table : \/ p.id \in Ids(table') \/ p \in Settled(table)
                            \/ Settled(table) = {}
        BY <2>0, <2>2, ParkInSound DEF Park
      <3> QED  BY <3>1 DEF OpenReceipts, Settled, Open, Terminal
    <2>3. ASSUME NEW r \in Receipts, JoinSave(r)
          PROVE  Ids(table') = Ids(table)
      <3>1. join[r] \in Joins /\ join[r].pc = "save"
        BY <1>1, <2>3 DEF IInv, TypeInv, TypeOK, JoinSave
      <3>2. ResultingStatus(join[r].action) \in Statuses
        BY <3>1, JoinShape, ActionKinds
      <3> QED  BY <2>0, <2>3, <3>2, SetStatusSound DEF JoinSave
    <2>4. CASE UNCHANGED table
      BY <2>1, <2>4
    <2>5. ASSUME NEW r \in Receipts,
                 \/ Forward(r) \/ Attempt(r) \/ RetryRoute(r)
                 \/ JoinStep(r) \/ Expire(r)
          PROVE  UNCHANGED table \/ Park(r) \/ JoinSave(r)
      BY <2>5 DEF Forward, Attempt, Parse, NotAReceipt, Ack, StartRouted,
         RetryRoute, JoinStep, JoinMatch, ActSignal, ActAsk, ActTell, JoinFails,
         Expire
    <2>6. CASE PollList \/ PollStart \/ (\E t \in Txns : Post(t)) \/ UNCHANGED vars
      BY <2>4, <2>6 DEF PollList, PollStart, Post, vars
    <2> QED  BY <1>1, <2>1, <2>2, <2>3, <2>4, <2>5, <2>6 DEF Next
  <1> QED  BY <1>1, Invariant, PTL DEF Spec, OpenEvictedLast
=============================================================================
