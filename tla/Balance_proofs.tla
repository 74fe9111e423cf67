--------------------------- MODULE Balance_proofs ---------------------------
(***************************************************************************)
(* Proofs about the coverage offer (Balance, over Coverage): the plan the  *)
(* greedy fold makes, the sums it moves, and the offer's way from the      *)
(* figures it was made from to the budget it leaves.                       *)
(***************************************************************************)
EXTENDS Balance, FiniteSetTheorems, FunctionTheorems, WellFoundedInduction,
        TLAPS

LEMMA Least ==
    ASSUME NEW S \in SUBSET Nat, S # {}
    PROVE  \E i \in S : \A j \in S : i <= j
  <1> DEFINE R == OpToRel(<, Nat)
  <1>1. IsWellFoundedOn(R, Nat)
    BY NatLessThanWellFounded
  <1>2. \A i, j \in Nat : i < j => <<i, j>> \in R
    BY DEF OpToRel
  <1> HIDE DEF R
  <1>3. PICK i \in S : \A j \in S : ~(<<j, i>> \in R)
    BY <1>1, WFMin
  <1>4. ASSUME NEW j \in S PROVE i <= j
    <2>1. i \in Nat /\ j \in Nat
      OBVIOUS
    <2>2. ~(j < i)
      BY <1>2, <1>3, <2>1
    <2> QED  BY <2>1, <2>2
  <1> QED  BY <1>4

LEMMA MaxIn ==
    ASSUME NEW n \in Nat, NEW s \in SUBSET (1 .. n), s # {}
    PROVE  Max(s) \in s
  <1> DEFINE Above == {i \in Nat : \A x \in s : x <= i}
  <1>1. n \in Above
    OBVIOUS
  <1>2. PICK i \in Above : \A j \in Above : i <= j
    BY <1>1, Least
  <1>3. i \in s
    <2> SUFFICES ASSUME i \notin s PROVE FALSE
      OBVIOUS
    <2>1. PICK x \in s : TRUE
      OBVIOUS
    <2>2. x \in 1 .. n /\ x <= i /\ i \in Nat
      OBVIOUS
    <2>3. i - 1 \in Nat
      BY <2>2
    <2>4. \A y \in s : y \in 1 .. n /\ y <= i /\ y # i
      OBVIOUS
    <2>5. \A y \in s : y <= i - 1
      BY <2>2, <2>4
    <2>6. i - 1 \in Above
      BY <2>3, <2>5
    <2> HIDE DEF Above
    <2> QED  BY <1>2, <2>2, <2>6
  <1>4. \A x \in s : i >= x
    BY <1>2
  <1> QED  BY <1>3, <1>4 DEF Max

LEMMA Initials ==
    ASSUME NEW n \in Nat
    PROVE  /\ 1 .. 0 = {}
           /\ \A k \in 1 .. n : /\ 1 .. k \in SUBSET (1 .. n) /\ 1 .. k # {}
                                /\ Max(1 .. k) = k
                                /\ (1 .. k) \ {k} = 1 .. (k - 1)
  <1>1. ASSUME NEW k \in 1 .. n
        PROVE  /\ 1 .. k \in SUBSET (1 .. n) /\ 1 .. k # {}
               /\ (1 .. k) \ {k} = 1 .. (k - 1)
    OBVIOUS
  <1>2. ASSUME NEW k \in 1 .. n PROVE Max(1 .. k) = k
    <2>1. k \in Nat /\ k \in 1 .. k /\ \A x \in 1 .. k : k >= x
      OBVIOUS
    <2>2. \A m \in 1 .. k : (\A x \in 1 .. k : m >= x) => m = k
      BY <2>1
    <2> QED  BY <2>1, <2>2 DEF Max
  <1> QED  BY <1>1, <1>2

LEMMA OneLess ==
    ASSUME NEW n \in Nat, NEW s \in SUBSET (1 .. n), s # {}
    PROVE  /\ Max(s) \in s /\ s \ {Max(s)} \in SUBSET (1 .. n)
           /\ Cardinality(s) \in Nat /\ Cardinality(s \ {Max(s)}) \in Nat
           /\ Cardinality(s \ {Max(s)}) = Cardinality(s) - 1
  <1>1. Max(s) \in s
    BY MaxIn
  <1>2. IsFiniteSet(s)
    <2>1. IsFiniteSet(1 .. n)
      BY FS_Interval
    <2> QED BY <2>1, FS_Subset
  <1>3. IsFiniteSet(s \ {Max(s)})
    BY <1>2, FS_RemoveElement
  <1> QED BY <1>1, <1>2, <1>3, FS_RemoveElement, FS_CardinalityType

(* A fold over the numbers up to n, as its definition chooses it: a table  *)
(* for all sets of them.                                                   *)
IsFold(it, T, base, n, step) ==
    /\ it \in [SUBSET (1 .. n) -> T]
    /\ \A s \in SUBSET (1 .. n) :
          it[s] = IF s = {} THEN base
                  ELSE step[<<it[s \ {Max(s)}], Max(s)>>]

UpTo(n, m) == {s \in SUBSET (1 .. n) : Cardinality(s) <= m}

FoldsUpTo(it, T, base, n, step, m) ==
    /\ it \in [UpTo(n, m) -> T]
    /\ \A s \in UpTo(n, m) :
        it[s] = IF s = {} THEN base
                ELSE step[<<it[s \ {Max(s)}], Max(s)>>]

LEMMA FoldExists ==
    ASSUME NEW T, NEW base \in T, NEW n \in Nat,
           NEW step \in [T \X (1 .. n) -> T]
    PROVE  \E it : IsFold(it, T, base, n, step)
  <1> DEFINE Fails == {m \in Nat :
                         ~ \E it : FoldsUpTo(it, T, base, n, step, m)}
  <1>1. Fails = {}
    <2> SUFFICES ASSUME Fails # {} PROVE FALSE
      OBVIOUS
    <2>1. PICK m \in Fails : \A k \in Fails : m <= k
      BY Least
    <2>2. m \in Nat
      OBVIOUS
    <2>3. CASE m = 0
      <3>1. ASSUME NEW s \in UpTo(n, 0), s # {} PROVE FALSE
        <4>1. s \in SUBSET (1 .. n) /\ Cardinality(s) <= 0
          BY DEF UpTo
        <4>2. /\ Cardinality(s) \in Nat
              /\ Cardinality(s \ {Max(s)}) \in Nat
              /\ Cardinality(s \ {Max(s)}) = Cardinality(s) - 1
          BY <3>1, <4>1, OneLess
        <4> HIDE DEF Fails
        <4> QED BY <4>1, <4>2
      <3> DEFINE it == [s \in UpTo(n, 0) |-> base]
      <3>2. FoldsUpTo(it, T, base, n, step, 0)
        BY <3>1 DEF FoldsUpTo
      <3> QED BY <2>3, <3>2
    <2>4. CASE m # 0
      <3>1. m - 1 \in Nat /\ m - 1 \notin Fails
        BY <2>1, <2>2, <2>4
      <3>2. PICK less : FoldsUpTo(less, T, base, n, step, m - 1)
        BY <3>1
      <3> DEFINE it == [s \in UpTo(n, m) |->
                          IF s = {} THEN base
                          ELSE step[<<less[s \ {Max(s)}], Max(s)>>]]
      <3>3. ASSUME NEW s \in UpTo(n, m), s # {}
            PROVE  /\ s \ {Max(s)} \in UpTo(n, m)
                   /\ s \ {Max(s)} \in UpTo(n, m - 1)
                   /\ Max(s) \in 1 .. n
        <4>1. s \in SUBSET (1 .. n) /\ Cardinality(s) <= m
          BY DEF UpTo
        <4>2. /\ Max(s) \in s /\ s \ {Max(s)} \in SUBSET (1 .. n)
              /\ Cardinality(s) \in Nat /\ Cardinality(s \ {Max(s)}) \in Nat
              /\ Cardinality(s \ {Max(s)}) = Cardinality(s) - 1
          BY <3>3, <4>1, OneLess
        <4>3. /\ Cardinality(s \ {Max(s)}) <= m
              /\ Cardinality(s \ {Max(s)}) <= m - 1
          BY <4>1, <4>2, <2>2
        <4> QED BY <4>1, <4>2, <4>3 DEF UpTo
      <3>4. ASSUME NEW s \in UpTo(n, m), s \in UpTo(n, m - 1)
            PROVE  it[s] = less[s]
        BY <3>2, <3>4 DEF FoldsUpTo
      <3>5. it \in [UpTo(n, m) -> T]
        BY <3>2, <3>3 DEF FoldsUpTo
      <3>6. ASSUME NEW s \in UpTo(n, m)
            PROVE  it[s] = IF s = {} THEN base
                           ELSE step[<<it[s \ {Max(s)}], Max(s)>>]
        BY <3>3, <3>4
      <3> HIDE DEF it
      <3>7. FoldsUpTo(it, T, base, n, step, m)
        BY <3>5, <3>6 DEF FoldsUpTo
      <3> QED BY <3>7
    <2> QED BY <2>3, <2>4
  <1>2. PICK it : FoldsUpTo(it, T, base, n, step, n)
    BY <1>1
  <1>3. UpTo(n, n) = SUBSET (1 .. n)
    <2>1. IsFiniteSet(1 .. n) /\ Cardinality(1 .. n) = n
      BY FS_Interval
    <2>2. ASSUME NEW s \in SUBSET (1 .. n) PROVE Cardinality(s) <= n
      <3>1. Cardinality(s) <= Cardinality(1 .. n)
        BY <2>1, FS_Subset
      <3> QED BY <2>1, <3>1
    <2> QED BY <2>2 DEF UpTo
  <1> QED BY <1>2, <1>3 DEF FoldsUpTo, IsFold

(* What such a function gives for the first k numbers, for every k.        *)
IsChain(f, it, T, base, n, step) ==
    /\ f[n] = it[1 .. n]
    /\ f \in [0 .. n -> T] /\ f[0] = base
    /\ \A k \in 1 .. n : f[k - 1] \in T /\ f[k] = step[<<f[k - 1], k>>]
Follows(it, T, base, n, step) ==
    /\ it[{}] = base
    /\ \A s \in SUBSET (1 .. n) :
          s # {} /\ it[s \ {Max(s)}] \in T
             => it[s] = step[<<it[s \ {Max(s)}], Max(s)>>]

LEMMA Folding ==
    ASSUME NEW T, NEW base, base \in T, NEW n, n \in Nat, NEW step, NEW it,
           step \in [T \X (1 .. n) -> T], Follows(it, T, base, n, step)
    PROVE  \E f : IsChain(f, it, T, base, n, step)
  <1> DEFINE f == [k \in 0 .. n |-> it[1 .. k]]
             Fails == {k \in 0 .. n : f[k] \notin T}
  <1>1. f[0] = base
    BY Initials DEF Follows
  <1>2. ASSUME NEW k \in 1 .. n, f[k - 1] \in T
        PROVE  f[k] = step[<<f[k - 1], k>>] /\ f[k] \in T
    <2>1. /\ 1 .. k \in SUBSET (1 .. n) /\ 1 .. k # {} /\ Max(1 .. k) = k
          /\ (1 .. k) \ {k} = 1 .. (k - 1) /\ k - 1 \in 0 .. n
      BY Initials
    <2>2. f[k - 1] = it[1 .. (k - 1)] /\ f[k] = it[1 .. k]
      BY <2>1
    <2> HIDE DEF f
    <2>3. f[k] = step[<<f[k - 1], k>>]
      BY <1>2, <2>1, <2>2 DEF Follows
    <2> QED BY <1>2, <2>3
  <1>3. Fails = {}
    <2> SUFFICES ASSUME Fails # {} PROVE FALSE
      OBVIOUS
    <2>0. Fails \in SUBSET Nat
      OBVIOUS
    <2>1. PICK k \in Fails : \A j \in Fails : k <= j
      <3> HIDE DEF Fails
      <3> QED BY <2>0, Least
    <2>2. k # 0
      BY <1>1
    <2> HIDE DEF f
    <2>3. k \in 1 .. n /\ k - 1 \in 0 .. n /\ k - 1 \notin Fails
      BY <2>1, <2>2
    <2> QED BY <1>2, <2>3
  <1>4. f \in [0 .. n -> T]
    BY <1>3
  <1>5. f[n] = it[1 .. n]
    OBVIOUS
  <1> HIDE DEF f, Fails
  <1>6. \A k \in 1 .. n : k - 1 \in 0 .. n
    OBVIOUS
  <1> QED BY <1>1, <1>2, <1>4, <1>5, <1>6 DEF IsChain

(* The sum of the first k amounts, for every k.                            *)
Sums(f, w) ==
    /\ f \in [0 .. Len(w) -> Int] /\ f[0] = 0
    /\ \A k \in 1 .. Len(w) : f[k - 1] \in Int /\ f[k] = f[k - 1] + w[k]

LEMMA TotalChain ==
    ASSUME NEW w \in Seq(Int)
    PROVE  \E f : Sums(f, w) /\ f[Len(w)] = Total(w)
  <1> DEFINE n == Len(w)
             step == [p \in Int \X (1 .. n) |-> p[1] + w[p[2]]]
             Is(it) == it = [s \in SUBSET DOMAIN w |->
                               IF s = {} THEN 0
                               ELSE it[s \ {Max(s)}] + w[Max(s)]]
             sums == CHOOSE it : Is(it)
  <1>1. /\ n \in Nat /\ DOMAIN w = 1 .. n /\ \A i \in 1 .. n : w[i] \in Int
        /\ step \in [Int \X (1 .. n) -> Int] /\ 0 \in Int
    OBVIOUS
  <1>2. Total(w) = sums[DOMAIN w]
    BY DEF Total, FoldLeft, MapThenFoldSet
  <1>3. ASSUME NEW x \in Int, NEW k \in 1 .. n
        PROVE  step[<<x, k>>] = x + w[k]
    OBVIOUS
  <1>4. \E it : Is(it)
    <2>1. PICK it : IsFold(it, Int, 0, n, step)
      <3> HIDE DEF n, step
      <3> QED BY <1>1, FoldExists
    <2>2. ASSUME NEW s \in SUBSET (1 .. n)
          PROVE  it[s] = IF s = {} THEN 0 ELSE it[s \ {Max(s)}] + w[Max(s)]
      <3>1. CASE s = {}
        BY <2>1, <3>1 DEF IsFold
      <3>2. CASE s # {}
        <4>1. Max(s) \in 1 .. n /\ s \ {Max(s)} \in SUBSET (1 .. n)
          BY <1>1, <3>2, MaxIn
        <4>2. /\ it[s \ {Max(s)}] \in Int
              /\ it[s] = step[<<it[s \ {Max(s)}], Max(s)>>]
          BY <2>1, <3>2, <4>1 DEF IsFold
        <4> HIDE DEF step
        <4> QED BY <1>3, <3>2, <4>1, <4>2
      <3> QED BY <3>1, <3>2
    <2>3. it = [s \in SUBSET DOMAIN w |-> it[s]]
      BY <1>1, <2>1 DEF IsFold
    <2>4. Is(it)
      BY <1>1, <2>2, <2>3
    <2> QED BY <2>4
  <1>5. Is(sums)
    BY <1>4
  <1> HIDE DEF sums
  <1>6. /\ sums[{}] = 0
        /\ \A s \in SUBSET (1 .. n) :
              s # {} => sums[s] = sums[s \ {Max(s)}] + w[Max(s)]
    BY <1>1, <1>5
  <1> HIDE DEF Is, step
  <1>7. Follows(sums, Int, 0, n, step)
    <2>1. ASSUME NEW s \in SUBSET (1 .. n), s # {}, sums[s \ {Max(s)}] \in Int
          PROVE  sums[s] = step[<<sums[s \ {Max(s)}], Max(s)>>]
      <3>1. Max(s) \in 1 .. n
        BY <1>1, <2>1, MaxIn
      <3> QED BY <1>3, <1>6, <2>1, <3>1
    <2> QED BY <1>6, <2>1 DEF Follows
  <1>8. PICK f : IsChain(f, sums, Int, 0, n, step)
    <2> HIDE DEF n
    <2>1. n \in Nat
      BY <1>1
    <2>2. step \in [Int \X (1 .. n) -> Int]
      BY <1>1
    <2>3. 0 \in Int
      OBVIOUS
    <2> QED BY <2>1, <2>2, <2>3, <1>7, Folding
  <1>9. Sums(f, w)
    BY <1>3, <1>8 DEF IsChain, Sums
  <1>10. f[n] = sums[1 .. n]
    BY <1>8 DEF IsChain
  <1> QED BY <1>1, <1>2, <1>9, <1>10

LEMMA Upward ==
    ASSUME NEW n \in Nat, NEW S, 0 \in S,
           \A k \in 1 .. n : k - 1 \in S => k \in S
    PROVE  \A k \in 0 .. n : k \in S
  <1> DEFINE Fails == {k \in 0 .. n : k \notin S}
  <1> SUFFICES ASSUME Fails # {} PROVE FALSE
    OBVIOUS
  <1>0. Fails \in SUBSET Nat
    OBVIOUS
  <1>1. PICK k \in Fails : \A j \in Fails : k <= j
    <2> HIDE DEF Fails
    <2> QED BY <1>0, Least
  <1>2. k \in 1 .. n /\ k - 1 \in 0 .. n /\ k \notin S
    OBVIOUS
  <1>3. k - 1 \notin Fails
    <2> HIDE DEF Fails
    <2> QED BY <1>0, <1>1, <1>2
  <1> QED BY <1>2, <1>3

(* Any table of partial sums ends in the sum.                              *)
LEMMA SumsUnique ==
    ASSUME NEW w \in Seq(Int), NEW f, Sums(f, w)
    PROVE  f[Len(w)] = Total(w)
  <1>1. PICK g : Sums(g, w) /\ g[Len(w)] = Total(w)
    BY TotalChain
  <1> DEFINE S == {k \in 0 .. Len(w) : f[k] = g[k]}
  <1>2. Len(w) \in Nat /\ \A k \in 1 .. Len(w) : w[k] \in Int
    OBVIOUS
  <1>3. 0 \in S
    BY <1>1, <1>2 DEF Sums
  <1>4. \A k \in 1 .. Len(w) : k - 1 \in S => k \in S
    BY <1>1, <1>2 DEF Sums
  <1>5. \A k \in 0 .. Len(w) : k \in S
    <2> HIDE DEF S
    <2> QED BY <1>2, <1>3, <1>4, Upward
  <1> QED BY <1>1, <1>2, <1>5

LEMMA TotalInt ==
    ASSUME NEW w \in Seq(Int)
    PROVE  Total(w) \in Int
  <1>1. PICK g : Sums(g, w) /\ g[Len(w)] = Total(w)
    BY TotalChain
  <1>2. Len(w) \in 0 .. Len(w)
    OBVIOUS
  <1> QED BY <1>1, <1>2 DEF Sums

LEMMA TotalEmpty == Total(<<>>) = 0
  <1> DEFINE f == [k \in 0 .. 0 |-> 0]
  <1>1. <<>> \in Seq(Int) /\ Len(<<>>) = 0
    OBVIOUS
  <1>2. Sums(f, <<>>) /\ f[0] = 0
    BY <1>1 DEF Sums
  <1> HIDE DEF f
  <1> QED BY <1>1, <1>2, SumsUnique

LEMMA TotalConcat ==
    ASSUME NEW a \in Seq(Int), NEW b \in Seq(Int)
    PROVE  Total(a \o b) = Total(a) + Total(b)
  <1>1. PICK fa : Sums(fa, a) /\ fa[Len(a)] = Total(a)
    BY TotalChain
  <1>2. PICK fb : Sums(fb, b) /\ fb[Len(b)] = Total(b)
    BY TotalChain
  <1> DEFINE n == Len(a) + Len(b)
             f == [k \in 0 .. n |-> IF k <= Len(a) THEN fa[k]
                                    ELSE fa[Len(a)] + fb[k - Len(a)]]
  <1>3. /\ Len(a) \in Nat /\ Len(b) \in Nat /\ a \o b \in Seq(Int)
        /\ Len(a \o b) = n
        /\ \A k \in 1 .. Len(a) : a[k] \in Int
        /\ \A k \in 1 .. Len(b) : b[k] \in Int
        /\ \A k \in 1 .. n : (a \o b)[k] = IF k <= Len(a) THEN a[k]
                                           ELSE b[k - Len(a)]
    OBVIOUS
  <1>4. /\ fa \in [0 .. Len(a) -> Int] /\ fb \in [0 .. Len(b) -> Int]
        /\ fa[0] = 0 /\ fb[0] = 0 /\ fa[Len(a)] \in Int /\ fb[Len(b)] \in Int
        /\ \A k \in 1 .. Len(a) : fa[k] = fa[k - 1] + a[k]
        /\ \A k \in 1 .. Len(b) : fb[k] = fb[k - 1] + b[k]
    BY <1>1, <1>2, <1>3, TotalInt DEF Sums
  <1>5. f \in [0 .. n -> Int] /\ f[0] = 0
    <2>1. ASSUME NEW k \in 0 .. n PROVE f[k] \in Int
      <3>1. CASE k <= Len(a)
        <4>1. k \in 0 .. Len(a) /\ f[k] = fa[k]
          BY <1>3, <3>1
        <4> HIDE DEF f, n
        <4> QED BY <1>4, <4>1
      <3>2. CASE k > Len(a)
        <4>1. /\ k - Len(a) \in 0 .. Len(b)
              /\ f[k] = fa[Len(a)] + fb[k - Len(a)]
          BY <1>3, <3>2
        <4>2. fb[k - Len(a)] \in Int
          BY <1>4, <4>1
        <4> HIDE DEF f, n
        <4> QED BY <1>4, <4>1, <4>2
      <3> QED BY <1>3, <3>1, <3>2
    <2>2. f[0] = 0
      BY <1>3, <1>4
    <2> QED BY <2>1, <2>2
  <1>6. ASSUME NEW k \in 1 .. n PROVE f[k] = f[k - 1] + (a \o b)[k]
    <2>1. CASE k <= Len(a)
      BY <1>3, <1>4, <2>1
    <2>2. CASE k = Len(a) + 1
      BY <1>3, <1>4, <2>2
    <2>3. CASE k > Len(a) + 1
      <3> DEFINE m == k - Len(a)
      <3>1. /\ m \in 1 .. Len(b) /\ ~(k <= Len(a)) /\ ~(k - 1 <= Len(a))
            /\ (k - 1) - Len(a) = m - 1 /\ k - 1 \in 0 .. n
        BY <1>3, <2>3
      <3>2. /\ f[k] = fa[Len(a)] + fb[m]
            /\ f[k - 1] = fa[Len(a)] + fb[m - 1]
            /\ (a \o b)[k] = b[m]
        BY <1>3, <3>1
      <3>3. m - 1 \in 0 .. Len(b)
        BY <1>3, <3>1
      <3>4. fb[m - 1] \in Int /\ b[m] \in Int /\ fb[m] = fb[m - 1] + b[m]
        <4> HIDE DEF m
        <4> QED BY <1>3, <1>4, <3>1, <3>3
      <3> HIDE DEF f, m, n
      <3> QED BY <1>4, <3>2, <3>4
    <2> QED BY <1>3, <2>1, <2>2, <2>3
  <1>7. ASSUME NEW k \in 1 .. n PROVE f[k - 1] \in Int
    <2>1. k - 1 \in 0 .. n
      BY <1>3
    <2> HIDE DEF f, n
    <2> QED BY <1>5, <2>1
  <1>8. f[n] = fa[Len(a)] + fb[Len(b)]
    <2>1. n \in 0 .. n /\ n - Len(a) = Len(b)
      BY <1>3
    <2>2. CASE Len(b) = 0
      BY <1>3, <1>4, <2>2
    <2>3. CASE Len(b) # 0
      <3>1. ~(n <= Len(a))
        BY <1>3, <2>3
      <3> QED BY <2>1, <3>1
    <2> QED BY <2>2, <2>3
  <1> HIDE DEF f
  <1>9. Sums(f, a \o b)
    BY <1>3, <1>5, <1>6, <1>7 DEF Sums
  <1> HIDE DEF n
  <1>10. f[n] = Total(a \o b)
    BY <1>3, <1>9, SumsUnique
  <1> QED BY <1>1, <1>2, <1>8, <1>10

(* Two sums over the same positions, added position by position.           *)
LEMMA TotalSum ==
    ASSUME NEW a \in Seq(Int), NEW b \in Seq(Int), NEW c \in Seq(Int),
           Len(a) = Len(c), Len(b) = Len(c),
           \A k \in 1 .. Len(c) : c[k] = a[k] + b[k]
    PROVE  Total(c) = Total(a) + Total(b)
  <1>1. PICK fa : Sums(fa, a) /\ fa[Len(a)] = Total(a)
    BY TotalChain
  <1>2. PICK fb : Sums(fb, b) /\ fb[Len(b)] = Total(b)
    BY TotalChain
  <1> DEFINE f == [k \in 0 .. Len(c) |-> fa[k] + fb[k]]
  <1>3. /\ Len(c) \in Nat /\ Len(c) \in 0 .. Len(c)
        /\ \A k \in 1 .. Len(c) : a[k] \in Int /\ b[k] \in Int
    OBVIOUS
  <1>4. /\ fa \in [0 .. Len(c) -> Int] /\ fb \in [0 .. Len(c) -> Int]
        /\ fa[0] = 0 /\ fb[0] = 0
        /\ \A k \in 1 .. Len(c) : fa[k] = fa[k - 1] + a[k]
        /\ \A k \in 1 .. Len(c) : fb[k] = fb[k - 1] + b[k]
        /\ \A k \in 1 .. Len(c) : fa[k - 1] \in Int /\ fb[k - 1] \in Int
    BY <1>1, <1>2 DEF Sums
  <1>5. f \in [0 .. Len(c) -> Int] /\ f[0] = 0 /\ f[Len(c)] = Total(a) + Total(b)
    BY <1>1, <1>2, <1>3, <1>4
  <1>6. ASSUME NEW k \in 1 .. Len(c)
        PROVE  f[k - 1] \in Int /\ f[k] = f[k - 1] + c[k]
    <2>1. k - 1 \in 0 .. Len(c) /\ k \in 0 .. Len(c)
      BY <1>3
    <2>2. /\ f[k - 1] = fa[k - 1] + fb[k - 1] /\ f[k] = fa[k] + fb[k]
          /\ c[k] = a[k] + b[k]
      BY <2>1
    <2>3. /\ fa[k] = fa[k - 1] + a[k] /\ fb[k] = fb[k - 1] + b[k]
          /\ fa[k - 1] \in Int /\ fb[k - 1] \in Int
      BY <1>4
    <2>4. a[k] \in Int /\ b[k] \in Int
      BY <1>3
    <2>5. \A p, q, x, y \in Int : /\ p + q \in Int
                                  /\ (p + x) + (q + y) = (p + q) + (x + y)
      OBVIOUS
    <2> HIDE DEF f
    <2>6. /\ fa[k - 1] + fb[k - 1] \in Int
          /\ (fa[k - 1] + a[k]) + (fb[k - 1] + b[k])
               = (fa[k - 1] + fb[k - 1]) + (a[k] + b[k])
      BY <2>3, <2>4, <2>5
    <2> QED BY <2>2, <2>3, <2>6
  <1> HIDE DEF f
  <1>7. Sums(f, c)
    BY <1>5, <1>6 DEF Sums
  <1>8. f[Len(c)] = Total(c)
    BY <1>7, SumsUnique
  <1> QED BY <1>5, <1>8

(* Positions that hold nothing add nothing, and one that does is the sum.  *)
LEMMA TotalOne ==
    ASSUME NEW w \in Seq(Int), NEW i \in 1 .. Len(w),
           \A k \in 1 .. Len(w) : k # i => w[k] = 0
    PROVE  Total(w) = w[i]
  <1> DEFINE f == [k \in 0 .. Len(w) |-> IF k < i THEN 0 ELSE w[i]]
  <1>1. Len(w) \in Nat /\ i \in Int /\ \A k \in 1 .. Len(w) : w[k] \in Int
    OBVIOUS
  <1>2. f \in [0 .. Len(w) -> Int] /\ f[0] = 0 /\ f[Len(w)] = w[i]
    BY <1>1
  <1>3. ASSUME NEW k \in 1 .. Len(w)
        PROVE  f[k - 1] \in Int /\ f[k] = f[k - 1] + w[k]
    <2>1. CASE k < i
      BY <1>1, <2>1
    <2>2. CASE k = i
      BY <1>1, <2>2
    <2>3. CASE k > i
      BY <1>1, <2>3
    <2> QED BY <1>1, <2>1, <2>2, <2>3
  <1> HIDE DEF f
  <1>4. Sums(f, w)
    BY <1>2, <1>3 DEF Sums
  <1> QED BY <1>2, <1>4, SumsUnique

LEMMA TotalNone ==
    ASSUME NEW w \in Seq(Int), \A k \in 1 .. Len(w) : w[k] = 0
    PROVE  Total(w) = 0
  <1> DEFINE f == [k \in 0 .. Len(w) |-> 0]
  <1>1. Len(w) \in Nat
    OBVIOUS
  <1>2. f \in [0 .. Len(w) -> Int] /\ f[0] = 0 /\ f[Len(w)] = 0
    BY <1>1
  <1>3. ASSUME NEW k \in 1 .. Len(w)
        PROVE  f[k - 1] \in Int /\ f[k] = f[k - 1] + w[k]
    BY <1>1
  <1> HIDE DEF f
  <1>4. Sums(f, w)
    BY <1>2, <1>3 DEF Sums
  <1> QED BY <1>2, <1>4, SumsUnique

(* Amounts of which none is negative.                                      *)
LEMMA TotalNat ==
    ASSUME NEW w \in Seq(Nat)
    PROVE  Total(w) \in Nat
  <1>1. w \in Seq(Int) /\ Len(w) \in Nat /\ \A k \in 1 .. Len(w) : w[k] \in Nat
    OBVIOUS
  <1>2. PICK f : Sums(f, w) /\ f[Len(w)] = Total(w)
    BY <1>1, TotalChain
  <1> DEFINE S == {k \in 0 .. Len(w) : f[k] \in Nat}
  <1>3. 0 \in S
    BY <1>1, <1>2 DEF Sums
  <1>4. ASSUME NEW k \in 1 .. Len(w), k - 1 \in S PROVE k \in S
    <2>1. f[k - 1] \in Nat /\ w[k] \in Nat /\ k \in 0 .. Len(w)
      BY <1>1, <1>4
    <2>2. f[k] = f[k - 1] + w[k]
      BY <1>2 DEF Sums
    <2> QED BY <2>1, <2>2
  <1>5. \A k \in 0 .. Len(w) : k \in S
    <2> HIDE DEF S
    <2> QED BY <1>1, <1>3, <1>4, Upward
  <1> QED BY <1>1, <1>2, <1>5

LEMMA TotalCovers ==
    ASSUME NEW w \in Seq(Nat), NEW i \in 1 .. Len(w)
    PROVE  w[i] <= Total(w)
  <1> DEFINE one  == [k \in 1 .. Len(w) |-> IF k = i THEN w[i] ELSE 0]
             rest == [k \in 1 .. Len(w) |-> IF k = i THEN 0 ELSE w[k]]
  <1>1. /\ w \in Seq(Int) /\ Len(w) \in Nat
        /\ \A k \in 1 .. Len(w) : w[k] \in Nat
    OBVIOUS
  <1>2. /\ one \in Seq(Nat) /\ rest \in Seq(Nat)
        /\ Len(one) = Len(w) /\ Len(rest) = Len(w)
    BY <1>1
  <1>3. /\ \A k \in 1 .. Len(w) : w[k] = one[k] + rest[k]
        /\ one[i] = w[i] /\ \A k \in 1 .. Len(one) : k # i => one[k] = 0
    BY <1>1, <1>2
  <1> HIDE DEF one, rest
  <1>4. one \in Seq(Int) /\ rest \in Seq(Int) /\ i \in 1 .. Len(one)
    BY <1>2
  <1>5. Total(w) = Total(one) + Total(rest)
    BY <1>1, <1>2, <1>3, <1>4, TotalSum
  <1>6. Total(one) = w[i]
    BY <1>3, <1>4, TotalOne
  <1>7. Total(rest) \in Nat
    BY <1>2, TotalNat
  <1> QED BY <1>1, <1>5, <1>6, <1>7

(* A strict order on a finite set lists it.                                *)
IsOrder(R, S) ==
    /\ \A a, b \in S : a # b => <<a, b>> \in R \/ <<b, a>> \in R
    /\ \A a, b \in S : <<a, b>> \in R => <<b, a>> \notin R
    /\ \A a, b, c \in S : <<a, b>> \in R /\ <<b, c>> \in R => <<a, c>> \in R

LEMMA Listing ==
    ASSUME NEW S, IsFiniteSet(S), NEW R, IsOrder(R, S)
    PROVE  \E s \in SetToSeqs(S) :
              \A i, j \in DOMAIN s : i < j => <<s[i], s[j]>> \in R
  <1> DEFINE n == Cardinality(S)
             below(c) == {d \in S : <<d, c>> \in R}
             rank == [c \in S |-> Cardinality(below(c)) + 1]
  <1>1. n \in Nat /\ IsFiniteSet(1 .. n) /\ Cardinality(1 .. n) = n
    <2>1. n \in Nat
      BY FS_CardinalityType
    <2> QED BY <2>1, FS_Interval
  <1>2. ASSUME NEW c \in S PROVE rank[c] \in 1 .. n
    <2>1. below(c) \in SUBSET S /\ c \notin below(c)
      BY DEF IsOrder
    <2>2. IsFiniteSet(below(c)) /\ Cardinality(below(c)) <= n
      BY <2>1, FS_Subset
    <2>3. Cardinality(below(c)) \in Nat
      BY <2>2, FS_CardinalityType
    <2>4. Cardinality(below(c)) # n
      BY <2>1, FS_Subset
    <2> HIDE DEF below, n
    <2> QED BY <1>1, <2>2, <2>3, <2>4
  <1>3. ASSUME NEW a \in S, NEW b \in S, <<a, b>> \in R
        PROVE  rank[a] < rank[b]
    <2>1. /\ below(a) \in SUBSET below(b) /\ below(b) \in SUBSET S
          /\ a \in below(b) /\ a \notin below(a)
      BY <1>3 DEF IsOrder
    <2>2. IsFiniteSet(below(b))
      BY <2>1, FS_Subset
    <2>3. IsFiniteSet(below(a)) /\ Cardinality(below(a)) <= Cardinality(below(b))
      BY <2>1, <2>2, FS_Subset
    <2>4. Cardinality(below(a)) # Cardinality(below(b))
      BY <2>1, <2>2, FS_Subset
    <2>5. Cardinality(below(a)) \in Nat /\ Cardinality(below(b)) \in Nat
      BY <2>2, <2>3, FS_CardinalityType
    <2> HIDE DEF below
    <2> QED BY <2>3, <2>4, <2>5
  <1>4. rank \in [S -> 1 .. n]
    BY <1>2
  <1> HIDE DEF rank
  <1>5. ASSUME NEW a \in S, NEW b \in S, rank[a] = rank[b]
        PROVE  a = b
    <2> SUFFICES ASSUME a # b PROVE FALSE
      OBVIOUS
    <2>1. rank[a] < rank[b] \/ rank[b] < rank[a]
      BY <1>3 DEF IsOrder
    <2>2. rank[a] \in Int /\ rank[b] \in Int
      BY <1>2, <1>1
    <2> QED BY <1>5, <2>1, <2>2
  <1>6. rank \in Injection(S, 1 .. n)
    BY <1>4, <1>5 DEF Injection, IsInjective
  <1>7. rank \in Surjection(S, 1 .. n)
    <2> HIDE DEF n
    <2>1. Cardinality(S) = Cardinality(1 .. n)
      BY <1>1 DEF n
    <2> QED BY <1>1, <1>6, <2>1, FS_Injection
  <1>8. \A i \in 1 .. n : \E c \in S : rank[c] = i
    BY <1>7 DEF Surjection
  <1> DEFINE s == [i \in 1 .. n |-> CHOOSE c \in S : rank[c] = i]
  <1>9. ASSUME NEW i \in 1 .. n PROVE s[i] \in S /\ rank[s[i]] = i
    BY <1>8
  <1>10. s \in SetToSeqs(S)
    <2>1. s \in [1 .. n -> S]
      BY <1>9
    <2>2. \A i, j \in 1 .. n : i # j => s[i] # s[j]
      <3> HIDE DEF s, n
      <3> QED BY <1>9
    <2>3. SetToSeqs(S)
            = {f \in [1 .. n -> S] :
                  \A i, j \in 1 .. n : i # j => f[i] # f[j]}
      BY DEF SetToSeqs
    <2> HIDE DEF s, n
    <2> QED BY <2>1, <2>2, <2>3
  <1>11. DOMAIN s = 1 .. n
    OBVIOUS
  <1>12. ASSUME NEW i \in 1 .. n, NEW j \in 1 .. n, i < j
         PROVE  <<s[i], s[j]>> \in R
    <2> HIDE DEF s, n
    <2>1. s[i] # s[j] /\ i \in Int /\ j \in Int
      BY <1>1, <1>9, <1>12
    <2>2. <<s[j], s[i]>> \notin R
      <3> SUFFICES ASSUME <<s[j], s[i]>> \in R PROVE FALSE
        OBVIOUS
      <3>1. j < i
        BY <1>3, <1>9
      <3> QED BY <1>12, <2>1, <3>1
    <2> QED BY <1>9, <2>1, <2>2 DEF IsOrder
  <1> HIDE DEF s
  <1> QED BY <1>10, <1>11, <1>12

(* What a listing is.                                                      *)
LEMMA Listed ==
    ASSUME NEW S, IsFiniteSet(S), NEW s \in SetToSeqs(S)
    PROVE  /\ s \in Seq(S) /\ Len(s) = Cardinality(S)
           /\ \A i, j \in DOMAIN s : i # j => s[i] # s[j]
           /\ \A c \in S : \E i \in DOMAIN s : s[i] = c
  <1> DEFINE n == Cardinality(S)
  <1>1. n \in Nat /\ IsFiniteSet(1 .. n) /\ Cardinality(1 .. n) = n
    <2>1. n \in Nat
      BY FS_CardinalityType
    <2> QED BY <2>1, FS_Interval
  <1>2. s \in [1 .. n -> S] /\ \A i, j \in 1 .. n : i # j => s[i] # s[j]
    BY DEF SetToSeqs
  <1>3. s \in Seq(S) /\ Len(s) = n /\ DOMAIN s = 1 .. n
    <2> HIDE DEF n
    <2> QED BY <1>1, <1>2
  <1>4. s \in Injection(1 .. n, S)
    BY <1>2 DEF Injection, IsInjective
  <1>5. s \in Surjection(1 .. n, S)
    <2>1. Cardinality(S) = Cardinality(1 .. n)
      BY <1>1
    <2> HIDE DEF n
    <2> QED BY <1>1, <1>4, <2>1, FS_Injection
  <1>6. \A c \in S : \E i \in 1 .. n : s[i] = c
    BY <1>5 DEF Surjection
  <1> QED BY <1>2, <1>3, <1>6

(* What the moves take from a bucket and give to a category, one by one.   *)
Takes(flows, c) == [i \in DOMAIN flows |->
                       IF flows[i].source = c THEN flows[i].amount ELSE 0]
Gives(flows, c) == [i \in DOMAIN flows |->
                       IF flows[i].destination = c THEN flows[i].amount ELSE 0]

LEMMA MoveAt ==
    ASSUME NEW flows \in Seq(Move)
    PROVE  /\ Len(flows) \in Nat /\ DOMAIN flows = 1 .. Len(flows)
           /\ \A i \in DOMAIN flows :
                 /\ flows[i] \in Move /\ flows[i].source \in Buckets
                 /\ flows[i].destination \in Categories
                 /\ flows[i].amount \in Nat /\ flows[i].amount > 0
  <1>1. /\ Len(flows) \in Nat /\ DOMAIN flows = 1 .. Len(flows)
        /\ \A i \in DOMAIN flows : flows[i] \in Move
    OBVIOUS
  <1>2. \A m \in Move : /\ m.source \in Buckets /\ m.destination \in Categories
                        /\ m.amount \in Nat /\ m.amount > 0
    BY DEF Move
  <1> QED BY <1>1, <1>2

LEMMA Shares ==
    ASSUME NEW flows \in Seq(Move), NEW c
    PROVE  /\ Takes(flows, c) \in Seq(Nat) /\ Gives(flows, c) \in Seq(Nat)
           /\ Takes(flows, c) \in Seq(Int) /\ Gives(flows, c) \in Seq(Int)
           /\ Len(Takes(flows, c)) = Len(flows)
           /\ Len(Gives(flows, c)) = Len(flows)
           /\ \A i \in 1 .. Len(flows) :
                 /\ Takes(flows, c)[i] = IF flows[i].source = c
                                         THEN flows[i].amount ELSE 0
                 /\ Gives(flows, c)[i] = IF flows[i].destination = c
                                         THEN flows[i].amount ELSE 0
  <1> DEFINE n == Len(flows)
             T == Takes(flows, c)
             G == Gives(flows, c)
  <1>1. n \in Nat /\ DOMAIN flows = 1 .. n
    BY MoveAt
  <1>2. \A i \in 1 .. n : flows[i].amount \in Nat
    BY MoveAt
  <1> HIDE DEF n
  <1>3. T \in [1 .. n -> Nat] /\ G \in [1 .. n -> Nat]
    BY <1>1, <1>2 DEF Takes, Gives
  <1>4. \A i \in 1 .. n :
                 /\ T[i] = IF flows[i].source = c THEN flows[i].amount ELSE 0
                 /\ G[i] = IF flows[i].destination = c
                           THEN flows[i].amount ELSE 0
    BY <1>1 DEF Takes, Gives
  <1> HIDE DEF T, G
  <1>5. /\ T \in Seq(Nat) /\ G \in Seq(Nat) /\ T \in Seq(Int) /\ G \in Seq(Int)
        /\ Len(T) = n /\ Len(G) = n
    BY <1>1, <1>3
  <1> QED BY <1>4, <1>5 DEF T, G, n

LEMMA Flows ==
    ASSUME NEW flows \in Seq(Move), NEW c
    PROVE  /\ Pulled(flows, c) = Total(Takes(flows, c))
           /\ Given(flows, c) = Total(Gives(flows, c))
           /\ Pulled(flows, c) \in Nat /\ Given(flows, c) \in Nat
           /\ \A i \in DOMAIN flows :
                 /\ flows[i].source = c => flows[i].amount <= Pulled(flows, c)
                 /\ flows[i].destination = c
                       => flows[i].amount <= Given(flows, c)
           /\ (\A i \in DOMAIN flows : flows[i].source # c)
                 => Pulled(flows, c) = 0
           /\ (\A i \in DOMAIN flows : flows[i].destination # c)
                 => Given(flows, c) = 0
  <1> DEFINE P == Pulled(flows, c)
             G == Given(flows, c)
             T == Takes(flows, c)
             V == Gives(flows, c)
  <1>1. P = Total(T) /\ G = Total(V)
    BY DEF Pulled, Given, Takes, Gives
  <1>2. /\ T \in Seq(Nat) /\ V \in Seq(Nat) /\ T \in Seq(Int) /\ V \in Seq(Int)
        /\ Len(T) = Len(flows) /\ Len(V) = Len(flows)
        /\ \A i \in 1 .. Len(flows) :
              /\ T[i] = IF flows[i].source = c THEN flows[i].amount ELSE 0
              /\ V[i] = IF flows[i].destination = c THEN flows[i].amount ELSE 0
    BY Shares
  <1>3. DOMAIN flows = 1 .. Len(flows)
    BY MoveAt
  <1> HIDE DEF P, G, T, V
  <1>4. P \in Nat /\ G \in Nat
    BY <1>1, <1>2, TotalNat
  <1>5. \A i \in 1 .. Len(flows) : T[i] <= P /\ V[i] <= G
    BY <1>1, <1>2, TotalCovers
  <1>6. (\A i \in 1 .. Len(flows) : T[i] = 0) => P = 0
    BY <1>1, <1>2, TotalNone
  <1>7. (\A i \in 1 .. Len(flows) : V[i] = 0) => G = 0
    BY <1>1, <1>2, TotalNone
  <1>8. ASSUME NEW i \in DOMAIN flows
        PROVE  /\ flows[i].source = c => flows[i].amount <= P
               /\ flows[i].destination = c => flows[i].amount <= G
    BY <1>2, <1>3, <1>5
  <1>9. (\A i \in DOMAIN flows : flows[i].source # c) => P = 0
    BY <1>2, <1>3, <1>6
  <1>10. (\A i \in DOMAIN flows : flows[i].destination # c) => G = 0
    BY <1>2, <1>3, <1>7
  <1> QED BY <1>1, <1>4, <1>8, <1>9, <1>10 DEF P, G, T, V

LEMMA FlowsOfNone ==
    ASSUME NEW c
    PROVE  Pulled(<<>>, c) = 0 /\ Given(<<>>, c) = 0
  <1>1. <<>> \in Seq(Move) /\ DOMAIN <<>> = {}
    OBVIOUS
  <1> QED BY <1>1, Flows

LEMMA FlowsConcat ==
    ASSUME NEW a \in Seq(Move), NEW b \in Seq(Move), NEW c
    PROVE  /\ a \o b \in Seq(Move)
           /\ Pulled(a \o b, c) = Pulled(a, c) + Pulled(b, c)
           /\ Given(a \o b, c) = Given(a, c) + Given(b, c)
  <1> DEFINE ab == a \o b
  <1>1. /\ ab \in Seq(Move) /\ Len(a) \in Nat /\ Len(b) \in Nat
        /\ Len(ab) = Len(a) + Len(b)
        /\ \A i \in 1 .. Len(a) : ab[i] = a[i]
        /\ \A i \in 1 .. Len(ab) : ~(i <= Len(a)) => ab[i] = b[i - Len(a)]
    OBVIOUS
  <1> HIDE DEF ab
  <1>0. ab \in Seq(Move)
    BY <1>1
  <1>2. Takes(ab, c) = Takes(a, c) \o Takes(b, c)
    <2> DEFINE A == Takes(a, c)
               B == Takes(b, c)
               AB == Takes(ab, c)
    <2>1. /\ A \in Seq(Int) /\ Len(A) = Len(a)
          /\ \A i \in 1 .. Len(a) :
                A[i] = IF a[i].source = c THEN a[i].amount ELSE 0
      BY Shares
    <2>2. /\ B \in Seq(Int) /\ Len(B) = Len(b)
          /\ \A i \in 1 .. Len(b) :
                B[i] = IF b[i].source = c THEN b[i].amount ELSE 0
      BY Shares
    <2>3. /\ AB \in Seq(Int) /\ Len(AB) = Len(ab)
          /\ \A i \in 1 .. Len(ab) :
                AB[i] = IF ab[i].source = c THEN ab[i].amount ELSE 0
      BY <1>0, Shares
    <2> HIDE DEF A, B, AB
    <2>4. ASSUME NEW i \in 1 .. Len(ab)
          PROVE  AB[i] = (A \o B)[i]
      <3>1. CASE i <= Len(a)
        <4>1. i \in 1 .. Len(a) /\ (A \o B)[i] = A[i]
          BY <1>1, <2>1, <2>2, <3>1
        <4> QED BY <1>1, <2>1, <2>3, <4>1
      <3>2. CASE ~(i <= Len(a))
        <4>1. i - Len(a) \in 1 .. Len(b) /\ (A \o B)[i] = B[i - Len(a)]
          BY <1>1, <2>1, <2>2, <3>2
        <4> QED BY <1>1, <2>2, <2>3, <3>2, <4>1
      <3> QED BY <3>1, <3>2
    <2>5. Len(A \o B) = Len(A) + Len(B) /\ A \o B \in Seq(Int)
      <3>1. A \in Seq(Int) /\ B \in Seq(Int)
        BY <2>1, <2>2
      <3> QED BY <3>1
    <2>6. AB = A \o B
      <3>1. Len(AB) = Len(A \o B) /\ Len(AB) = Len(ab) /\ AB \in Seq(Int)
        BY <1>1, <2>1, <2>2, <2>3, <2>5
      <3>2. \A i \in 1 .. Len(AB) : AB[i] = (A \o B)[i]
        BY <2>4, <3>1
      <3> HIDE DEF ab
      <3> DEFINE C == A \o B
      <3>3. C \in Seq(Int) /\ Len(AB) = Len(C)
            /\ \A i \in 1 .. Len(AB) : AB[i] = C[i]
        BY <2>5, <3>1, <3>2
      <3> HIDE DEF C
      <3>4. AB = C
        BY <3>1, <3>3
      <3> QED BY <3>4 DEF C
    <2> QED BY <2>6 DEF A, B, AB
  <1>3. Gives(ab, c) = Gives(a, c) \o Gives(b, c)
    <2> DEFINE A == Gives(a, c)
               B == Gives(b, c)
               AB == Gives(ab, c)
    <2>1. /\ A \in Seq(Int) /\ Len(A) = Len(a)
          /\ \A i \in 1 .. Len(a) :
                A[i] = IF a[i].destination = c THEN a[i].amount ELSE 0
      BY Shares
    <2>2. /\ B \in Seq(Int) /\ Len(B) = Len(b)
          /\ \A i \in 1 .. Len(b) :
                B[i] = IF b[i].destination = c THEN b[i].amount ELSE 0
      BY Shares
    <2>3. /\ AB \in Seq(Int) /\ Len(AB) = Len(ab)
          /\ \A i \in 1 .. Len(ab) :
                AB[i] = IF ab[i].destination = c THEN ab[i].amount ELSE 0
      BY <1>0, Shares
    <2> HIDE DEF A, B, AB
    <2>4. ASSUME NEW i \in 1 .. Len(ab)
          PROVE  AB[i] = (A \o B)[i]
      <3>1. CASE i <= Len(a)
        <4>1. i \in 1 .. Len(a) /\ (A \o B)[i] = A[i]
          BY <1>1, <2>1, <2>2, <3>1
        <4> QED BY <1>1, <2>1, <2>3, <4>1
      <3>2. CASE ~(i <= Len(a))
        <4>1. i - Len(a) \in 1 .. Len(b) /\ (A \o B)[i] = B[i - Len(a)]
          BY <1>1, <2>1, <2>2, <3>2
        <4> QED BY <1>1, <2>2, <2>3, <3>2, <4>1
      <3> QED BY <3>1, <3>2
    <2>5. Len(A \o B) = Len(A) + Len(B) /\ A \o B \in Seq(Int)
      <3>1. A \in Seq(Int) /\ B \in Seq(Int)
        BY <2>1, <2>2
      <3> QED BY <3>1
    <2>6. AB = A \o B
      <3>1. Len(AB) = Len(A \o B) /\ Len(AB) = Len(ab) /\ AB \in Seq(Int)
        BY <1>1, <2>1, <2>2, <2>3, <2>5
      <3>2. \A i \in 1 .. Len(AB) : AB[i] = (A \o B)[i]
        BY <2>4, <3>1
      <3> HIDE DEF ab
      <3> DEFINE C == A \o B
      <3>3. C \in Seq(Int) /\ Len(AB) = Len(C)
            /\ \A i \in 1 .. Len(AB) : AB[i] = C[i]
        BY <2>5, <3>1, <3>2
      <3> HIDE DEF C
      <3>4. AB = C
        BY <3>1, <3>3
      <3> QED BY <3>4 DEF C
    <2> QED BY <2>6 DEF A, B, AB
  <1>4. /\ Takes(a, c) \in Seq(Int) /\ Takes(b, c) \in Seq(Int)
        /\ Gives(a, c) \in Seq(Int) /\ Gives(b, c) \in Seq(Int)
    BY Shares
  <1>5. Total(Takes(ab, c)) = Total(Takes(a, c)) + Total(Takes(b, c))
    BY <1>2, <1>4, TotalConcat
  <1>6. Total(Gives(ab, c)) = Total(Gives(a, c)) + Total(Gives(b, c))
    BY <1>3, <1>4, TotalConcat
  <1>7. /\ Pulled(a, c) = Total(Takes(a, c)) /\ Pulled(b, c) = Total(Takes(b, c))
        /\ Given(a, c) = Total(Gives(a, c)) /\ Given(b, c) = Total(Gives(b, c))
    BY Flows
  <1>8. /\ Pulled(ab, c) = Total(Takes(ab, c))
        /\ Given(ab, c) = Total(Gives(ab, c))
    BY <1>1, Flows
  <1> QED BY <1>1, <1>5, <1>6, <1>7, <1>8 DEF ab

LEMMA CeilingPositive == Ceiling \in Nat /\ Ceiling > 0
  BY CoverageAssumption

(* How many moves a total takes.                                           *)
LEMMA HowMany ==
    ASSUME NEW total \in Nat
    PROVE  LET n == (total + Ceiling - 1) \div Ceiling
           IN  /\ n \in Nat /\ total <= n * Ceiling /\ n * Ceiling \in Nat
               /\ \A k \in 1 .. n : /\ (k - 1) * Ceiling \in Nat
                                    /\ (k - 1) * Ceiling < total
                                    /\ k * Ceiling = (k - 1) * Ceiling + Ceiling
  <1> DEFINE n == (total + Ceiling - 1) \div Ceiling
  <1>1. Ceiling \in Nat /\ Ceiling > 0
    BY CeilingPositive
  <1>2. total + Ceiling - 1 \in Nat
    BY <1>1
  <1>3. \A x \in Nat, c \in Nat \ {0} :
           /\ x \div c \in Nat
           /\ (x \div c) * c <= x
           /\ x < (x \div c) * c + c
    OBVIOUS
  <1>4. \A k, m, c \in Nat : k <= m => k * c <= m * c /\ k * c \in Nat
    OBVIOUS
  <1>5. \A k \in Nat \ {0}, c \in Nat :
           k * c = (k - 1) * c + c /\ (k - 1) * c \in Nat /\ k * c \in Nat
    OBVIOUS
  <1>6. /\ n \in Nat /\ n * Ceiling <= total + Ceiling - 1
        /\ total + Ceiling - 1 < n * Ceiling + Ceiling
    <2>1. Ceiling \in Nat \ {0}
      BY <1>1
    <2> QED BY <1>2, <1>3, <2>1
  <1> HIDE DEF n
  <1>7. n * Ceiling \in Nat
    BY <1>1, <1>4, <1>6
  <1>8. total <= n * Ceiling
    BY <1>1, <1>6, <1>7
  <1>9. ASSUME NEW k \in 1 .. n
        PROVE  /\ (k - 1) * Ceiling \in Nat /\ (k - 1) * Ceiling < total
               /\ k * Ceiling = (k - 1) * Ceiling + Ceiling
    <2>1. k \in Nat \ {0} /\ k \in Nat /\ k <= n
      BY <1>6
    <2>2. /\ k * Ceiling = (k - 1) * Ceiling + Ceiling
          /\ (k - 1) * Ceiling \in Nat /\ k * Ceiling \in Nat
      BY <1>1, <1>5, <2>1
    <2>3. k * Ceiling <= n * Ceiling
      BY <1>1, <1>4, <1>6, <2>1
    <2> QED BY <1>1, <1>6, <1>7, <2>2, <2>3
  <1> QED BY <1>6, <1>7, <1>8, <1>9 DEF n

LEMMA ChunksFlow ==
    ASSUME NEW s \in Buckets, NEW d \in Categories, NEW total \in Nat
    PROVE  /\ Chunks(s, d, total) \in Seq(Move)
           /\ \A i \in DOMAIN Chunks(s, d, total) :
                 /\ Chunks(s, d, total)[i].source = s
                 /\ Chunks(s, d, total)[i].destination = d
           /\ \A b : Pulled(Chunks(s, d, total), b) = IF b = s THEN total ELSE 0
           /\ \A c : Given(Chunks(s, d, total), c) = IF c = d THEN total ELSE 0
  <1> DEFINE n == (total + Ceiling - 1) \div Ceiling
             parts == Chunks(s, d, total)
             size(i) == Lesser(Ceiling, total - (i - 1) * Ceiling)
             f == [k \in 0 .. n |-> Lesser(k * Ceiling, total)]
  <1>1. /\ n \in Nat /\ total <= n * Ceiling /\ n * Ceiling \in Nat
        /\ \A k \in 1 .. n : /\ (k - 1) * Ceiling \in Nat
                             /\ (k - 1) * Ceiling < total
                             /\ k * Ceiling = (k - 1) * Ceiling + Ceiling
    BY HowMany
  <1>2. Ceiling \in Nat /\ Ceiling > 0
    BY CeilingPositive
  <1>3. parts = [i \in 1 .. n |-> [source |-> s, destination |-> d,
                                   amount |-> size(i)]]
    BY DEF Chunks
  <1> HIDE DEF n, parts
  <1>4. ASSUME NEW i \in 1 .. n
        PROVE  size(i) \in Nat /\ size(i) > 0
    BY <1>1, <1>2 DEF Lesser
  <1>5. ASSUME NEW k \in 1 .. n
        PROVE  /\ Lesser(k * Ceiling, total) \in Nat
               /\ Lesser((k - 1) * Ceiling, total) \in Nat
               /\ Lesser(k * Ceiling, total)
                    = Lesser((k - 1) * Ceiling, total) + size(k)
    BY <1>1, <1>2 DEF Lesser
  <1>6. Lesser(0 * Ceiling, total) = 0
    BY <1>2 DEF Lesser
  <1>7. Lesser(n * Ceiling, total) = total
    BY <1>1 DEF Lesser
  <1> HIDE DEF size
  <1>8. /\ parts \in [1 .. n -> Move]
        /\ \A i \in 1 .. n : /\ parts[i].source = s /\ parts[i].destination = d
                             /\ parts[i].amount = size(i)
    BY <1>3, <1>4 DEF Move
  <1>9. parts \in Seq(Move) /\ Len(parts) = n /\ DOMAIN parts = 1 .. n
    BY <1>1, <1>8
  <1>10. ASSUME NEW w \in Seq(Int), Len(w) = n,
                \A i \in 1 .. n : w[i] = size(i)
         PROVE  Total(w) = total
    <2>1. f[0] = 0 /\ f[n] = total
      BY <1>1, <1>6, <1>7
    <2>2. ASSUME NEW k \in 1 .. n
          PROVE  f[k - 1] \in Int /\ f[k] = f[k - 1] + w[k]
      <3>1. k - 1 \in 0 .. n /\ k \in 0 .. n
        BY <1>1
      <3>2. /\ f[k - 1] = Lesser((k - 1) * Ceiling, total)
            /\ f[k] = Lesser(k * Ceiling, total) /\ w[k] = size(k)
        BY <1>10, <3>1
      <3> HIDE DEF f
      <3> QED BY <1>5, <3>2
    <2>3. f \in [0 .. n -> Int]
      <3>1. ASSUME NEW k \in 0 .. n PROVE f[k] \in Int
        <4>1. CASE k = 0
          BY <2>1, <4>1
        <4>2. CASE k # 0
          <5>1. k \in 1 .. n
            BY <1>1, <4>2
          <5>2. Lesser(k * Ceiling, total) \in Nat
            BY <1>5, <5>1
          <5> QED BY <5>2
        <4> QED BY <4>1, <4>2
      <3> QED BY <3>1
    <2> HIDE DEF f
    <2>4. Sums(f, w)
      BY <1>10, <2>1, <2>2, <2>3 DEF Sums
    <2>5. f[Len(w)] = Total(w)
      BY <2>4, SumsUnique
    <2> QED BY <1>10, <2>1, <2>5
  <1>11. ASSUME NEW b PROVE Pulled(parts, b) = IF b = s THEN total ELSE 0
    <2>1. CASE b = s
      <3>1. /\ Takes(parts, b) \in Seq(Int) /\ Len(Takes(parts, b)) = Len(parts)
            /\ \A i \in 1 .. Len(parts) :
                  Takes(parts, b)[i] = IF parts[i].source = b
                                       THEN parts[i].amount ELSE 0
        BY <1>9, Shares
      <3>2. \A i \in 1 .. n : Takes(parts, b)[i] = size(i)
        BY <1>8, <1>9, <2>1, <3>1
      <3>3. Total(Takes(parts, b)) = total
        BY <1>9, <1>10, <3>1, <3>2
      <3>4. Pulled(parts, b) = Total(Takes(parts, b))
        BY <1>9, Flows
      <3> QED BY <2>1, <3>3, <3>4
    <2>2. CASE b # s
      <3>1. \A i \in DOMAIN parts : parts[i].source # b
        BY <1>8, <1>9, <2>2
      <3> QED BY <1>9, <2>2, <3>1, Flows
    <2> QED BY <2>1, <2>2
  <1>12. ASSUME NEW c PROVE Given(parts, c) = IF c = d THEN total ELSE 0
    <2>1. CASE c = d
      <3>1. /\ Gives(parts, c) \in Seq(Int) /\ Len(Gives(parts, c)) = Len(parts)
            /\ \A i \in 1 .. Len(parts) :
                  Gives(parts, c)[i] = IF parts[i].destination = c
                                       THEN parts[i].amount ELSE 0
        BY <1>9, Shares
      <3>2. \A i \in 1 .. n : Gives(parts, c)[i] = size(i)
        BY <1>8, <1>9, <2>1, <3>1
      <3>3. Total(Gives(parts, c)) = total
        BY <1>9, <1>10, <3>1, <3>2
      <3>4. Given(parts, c) = Total(Gives(parts, c))
        BY <1>9, Flows
      <3> QED BY <2>1, <3>3, <3>4
    <2>2. CASE c # d
      <3>1. \A i \in DOMAIN parts : parts[i].destination # c
        BY <1>8, <1>9, <2>2
      <3> QED BY <1>9, <2>2, <3>1, Flows
    <2> QED BY <2>1, <2>2
  <1> QED BY <1>8, <1>9, <1>11, <1>12 DEF parts

(* A plan so far.                                                          *)
Plans == [moves : Seq(Move), remaining : [Buckets -> Nat], short : Nat]

LEMMA Drawn ==
    ASSUME NEW plan \in Plans, NEW s \in Buckets, NEW d \in Categories
    PROVE  LET q    == Draw(plan, s, d)
               take == Lesser(plan.remaining[s], plan.short)
           IN  /\ q \in Plans /\ take \in Nat
               /\ \A b \in Buckets :
                     /\ q.remaining[b] + Pulled(q.moves, b)
                          = plan.remaining[b] + Pulled(plan.moves, b)
                     /\ q.remaining[b] <= plan.remaining[b]
               /\ \A c : Given(q.moves, c)
                           = Given(plan.moves, c) + (IF c = d THEN take ELSE 0)
               /\ q.short = plan.short - take
               /\ q.short > 0 => q.remaining[s] = 0
               /\ \A i \in DOMAIN q.moves :
                     \/ q.moves[i].source = s /\ q.moves[i].destination = d
                     \/ \E j \in DOMAIN plan.moves : q.moves[i] = plan.moves[j]
  <1> DEFINE q     == Draw(plan, s, d)
             take  == Lesser(plan.remaining[s], plan.short)
             parts == Chunks(s, d, take)
  <1>1. /\ plan.moves \in Seq(Move) /\ plan.remaining \in [Buckets -> Nat]
        /\ plan.short \in Nat /\ plan.remaining[s] \in Nat
    BY DEF Plans
  <1>2. /\ take \in Nat /\ take <= plan.remaining[s] /\ take <= plan.short
        /\ take = plan.remaining[s] \/ take = plan.short
    BY <1>1 DEF Lesser
  <1>3. /\ q.moves = plan.moves \o parts
        /\ q.remaining = [plan.remaining EXCEPT ![s] = @ - take]
        /\ q.short = plan.short - take
        /\ q = [moves |-> q.moves, remaining |-> q.remaining, short |-> q.short]
    BY DEF Draw
  <1> HIDE DEF q, take
  <1>4. /\ parts \in Seq(Move)
        /\ \A i \in DOMAIN parts : parts[i].source = s /\ parts[i].destination = d
        /\ \A b : Pulled(parts, b) = IF b = s THEN take ELSE 0
        /\ \A c : Given(parts, c) = IF c = d THEN take ELSE 0
    BY <1>2, ChunksFlow
  <1> HIDE DEF parts
  <1>5. /\ q.moves \in Seq(Move)
        /\ \A c : /\ Pulled(q.moves, c) = Pulled(plan.moves, c) + Pulled(parts, c)
                  /\ Given(q.moves, c) = Given(plan.moves, c) + Given(parts, c)
    <2>1. parts \in Seq(Move) /\ plan.moves \in Seq(Move)
      BY <1>1, <1>4
    <2> QED BY <1>3, <2>1, FlowsConcat
  <1>6. /\ q.remaining \in [Buckets -> Nat] /\ q.short \in Nat
        /\ \A b \in Buckets :
              q.remaining[b] = plan.remaining[b] - (IF b = s THEN take ELSE 0)
    BY <1>1, <1>2, <1>3
  <1>7. q \in Plans
    BY <1>3, <1>5, <1>6 DEF Plans
  <1>8. ASSUME NEW b \in Buckets
        PROVE  /\ q.remaining[b] + Pulled(q.moves, b)
                    = plan.remaining[b] + Pulled(plan.moves, b)
               /\ q.remaining[b] <= plan.remaining[b]
    <2>1. plan.remaining[b] \in Nat /\ Pulled(plan.moves, b) \in Nat
      BY <1>1, Flows
    <2>2. Pulled(parts, b) = IF b = s THEN take ELSE 0
      BY <1>4
    <2>3. Pulled(q.moves, b) = Pulled(plan.moves, b) + Pulled(parts, b)
      BY <1>5
    <2>4. q.remaining[b] = plan.remaining[b] - (IF b = s THEN take ELSE 0)
      BY <1>6
    <2> QED BY <1>2, <2>1, <2>2, <2>3, <2>4
  <1>9. \A c : Given(q.moves, c)
                 = Given(plan.moves, c) + (IF c = d THEN take ELSE 0)
    BY <1>4, <1>5
  <1>10. q.short > 0 => q.remaining[s] = 0
    BY <1>1, <1>2, <1>3, <1>6
  <1>11. ASSUME NEW i \in DOMAIN q.moves
         PROVE  \/ q.moves[i].source = s /\ q.moves[i].destination = d
                \/ \E j \in DOMAIN plan.moves : q.moves[i] = plan.moves[j]
    <2> DEFINE m == plan.moves
    <2>1. m \in Seq(Move) /\ q.moves = m \o parts
      BY <1>1, <1>3
    <2> HIDE DEF m
    <2>2. /\ DOMAIN m = 1 .. Len(m) /\ Len(m) \in Nat
          /\ DOMAIN parts = 1 .. Len(parts) /\ Len(parts) \in Nat
      BY <1>4, <2>1, MoveAt
    <2>3. /\ i \in 1 .. Len(m) + Len(parts)
          /\ q.moves[i] = IF i <= Len(m) THEN m[i] ELSE parts[i - Len(m)]
      BY <1>4, <2>1
    <2>4. CASE i <= Len(m)
      <3>1. i \in DOMAIN m /\ q.moves[i] = m[i]
        BY <2>2, <2>3, <2>4
      <3> QED BY <3>1 DEF m
    <2>5. CASE ~(i <= Len(m))
      <3>1. i - Len(m) \in DOMAIN parts /\ q.moves[i] = parts[i - Len(m)]
        BY <2>2, <2>3, <2>5
      <3> QED BY <1>4, <3>1
    <2> QED BY <2>4, <2>5
  <1> QED BY <1>2, <1>3, <1>7, <1>8, <1>9, <1>10, <1>11 DEF q, take

(* The plan after each of the sources, for one need.                       *)
Covers(f, plan, need, sources) ==
    /\ f \in [0 .. Len(sources) -> Plans]
    /\ f[0] = [plan EXCEPT !.short = need.shortfall]
    /\ \A k \in 1 .. Len(sources) :
          /\ f[k - 1] \in Plans
          /\ f[k] = Draw(f[k - 1], sources[k], need.category)

LEMMA CoverChain ==
    ASSUME NEW plan \in Plans, NEW need \in Need, NEW sources \in Seq(Buckets)
    PROVE  \E f : /\ Covers(f, plan, need, sources)
                  /\ f[Len(sources)] = CoverNeed(plan, need, sources)
  <1> DEFINE n == Len(sources)
             base == [plan EXCEPT !.short = need.shortfall]
             c == need.category
             step == [p \in Plans \X (1 .. n) |-> Draw(p[1], sources[p[2]], c)]
             Is(it) == it = [s \in SUBSET DOMAIN sources |->
                               IF s = {} THEN base
                               ELSE Draw(it[s \ {Max(s)}], sources[Max(s)], c)]
             plans == CHOOSE it : Is(it)
  <1>1. /\ n \in Nat /\ DOMAIN sources = 1 .. n
        /\ \A i \in 1 .. n : sources[i] \in Buckets
    OBVIOUS
  <1>2. CoverNeed(plan, need, sources) = plans[DOMAIN sources]
    BY DEF CoverNeed, FoldLeft, MapThenFoldSet
  <1>3. base \in Plans /\ c \in Categories
    BY DEF Plans, Need
  <1>4. ASSUME NEW x \in Plans, NEW k \in 1 .. n
        PROVE  /\ step[<<x, k>>] = Draw(x, sources[k], c)
               /\ Draw(x, sources[k], c) \in Plans
    <2>1. sources[k] \in Buckets
      BY <1>1
    <2>2. Draw(x, sources[k], c) \in Plans
      BY <1>3, <2>1, Drawn
    <2> QED BY <2>2
  <1>5. step \in [Plans \X (1 .. n) -> Plans]
    BY <1>4
  <1> HIDE DEF base, c, step
  <1>6. \E it : Is(it)
    <2>1. PICK it : IsFold(it, Plans, base, n, step)
      <3> HIDE DEF n
      <3> QED BY <1>1, <1>3, <1>5, FoldExists
    <2>2. ASSUME NEW s \in SUBSET (1 .. n)
          PROVE  it[s] = IF s = {} THEN base
                         ELSE Draw(it[s \ {Max(s)}], sources[Max(s)], c)
      <3>1. CASE s = {}
        BY <2>1, <3>1 DEF IsFold
      <3>2. CASE s # {}
        <4>1. Max(s) \in 1 .. n /\ s \ {Max(s)} \in SUBSET (1 .. n)
          BY <1>1, <3>2, MaxIn
        <4>2. /\ it[s \ {Max(s)}] \in Plans
              /\ it[s] = step[<<it[s \ {Max(s)}], Max(s)>>]
          BY <2>1, <3>2, <4>1 DEF IsFold
        <4> QED BY <1>4, <3>2, <4>1, <4>2
      <3> QED BY <3>1, <3>2
    <2>3. it = [s \in SUBSET DOMAIN sources |-> it[s]]
      BY <1>1, <2>1 DEF IsFold
    <2>4. Is(it)
      BY <1>1, <2>2, <2>3
    <2> QED BY <2>4
  <1>7. Is(plans)
    BY <1>6
  <1> HIDE DEF plans
  <1>8. /\ plans[{}] = base
        /\ \A s \in SUBSET (1 .. n) :
              s # {} => plans[s] = Draw(plans[s \ {Max(s)}], sources[Max(s)], c)
    BY <1>1, <1>7
  <1> HIDE DEF Is
  <1>9. Follows(plans, Plans, base, n, step)
    <2>1. ASSUME NEW s \in SUBSET (1 .. n), s # {},
                 plans[s \ {Max(s)}] \in Plans
          PROVE  plans[s] = step[<<plans[s \ {Max(s)}], Max(s)>>]
      <3>1. Max(s) \in 1 .. n
        BY <1>1, <2>1, MaxIn
      <3> QED BY <1>4, <1>8, <2>1, <3>1
    <2> QED BY <1>8, <2>1 DEF Follows
  <1>10. PICK f : IsChain(f, plans, Plans, base, n, step)
    <2> HIDE DEF n
    <2>1. n \in Nat
      BY <1>1
    <2> QED BY <2>1, <1>3, <1>5, <1>9, Folding
  <1>11. Covers(f, plan, need, sources)
    <2>1. ASSUME NEW k \in 1 .. n
          PROVE  f[k - 1] \in Plans /\ f[k] = Draw(f[k - 1], sources[k], c)
      <3>1. f[k - 1] \in Plans /\ f[k] = step[<<f[k - 1], k>>]
        BY <1>10 DEF IsChain
      <3> QED BY <1>4, <3>1
    <2>2. f \in [0 .. n -> Plans] /\ f[0] = base
      BY <1>10 DEF IsChain
    <2> QED BY <2>1, <2>2 DEF Covers, base, c
  <1>12. f[n] = plans[1 .. n]
    BY <1>10 DEF IsChain
  <1> QED BY <1>1, <1>2, <1>11, <1>12

(* What holds of the plan for one need once k sources have been drawn on.  *)
Covered(p, plan, need, sources, k) ==
    /\ p \in Plans
    /\ \A b \in Buckets :
          /\ p.remaining[b] + Pulled(p.moves, b)
               = plan.remaining[b] + Pulled(plan.moves, b)
          /\ p.remaining[b] <= plan.remaining[b]
    /\ p.short <= need.shortfall
    /\ \A c : Given(p.moves, c)
                = Given(plan.moves, c) + (IF c = need.category
                                          THEN need.shortfall - p.short ELSE 0)
    /\ p.short > 0 => \A j \in 1 .. k : p.remaining[sources[j]] = 0
    /\ \A i \in DOMAIN p.moves :
          \/ /\ \E j \in DOMAIN sources : p.moves[i].source = sources[j]
             /\ p.moves[i].destination = need.category
          \/ \E j \in DOMAIN plan.moves : p.moves[i] = plan.moves[j]

LEMMA CoverStart ==
    ASSUME NEW plan \in Plans, NEW need \in Need, NEW sources \in Seq(Buckets)
    PROVE  Covered([plan EXCEPT !.short = need.shortfall],
                   plan, need, sources, 0)
  <1> DEFINE p == [plan EXCEPT !.short = need.shortfall]
  <1>1. /\ p \in Plans /\ p.moves = plan.moves /\ p.remaining = plan.remaining
        /\ p.short = need.shortfall /\ need.shortfall \in Nat
    BY DEF Plans, Need
  <1> HIDE DEF p
  <1>2. plan.moves \in Seq(Move) /\ plan.remaining \in [Buckets -> Nat]
    BY DEF Plans
  <1>3. \A c : Given(plan.moves, c) \in Nat
    BY <1>2, Flows
  <1>4. \A c : Given(p.moves, c)
                = Given(plan.moves, c) + (IF c = need.category
                                          THEN need.shortfall - p.short ELSE 0)
    BY <1>1, <1>3
  <1>5. \A b \in Buckets : plan.remaining[b] \in Nat
    BY <1>2
  <1> QED BY <1>1, <1>4, <1>5 DEF Covered, p

LEMMA CoverStep ==
    ASSUME NEW plan \in Plans, NEW need \in Need, NEW sources \in Seq(Buckets),
           NEW k \in 1 .. Len(sources), NEW p,
           Covered(p, plan, need, sources, k - 1)
    PROVE  Covered(Draw(p, sources[k], need.category),
                   plan, need, sources, k)
  <1> DEFINE s == sources[k]
             q == Draw(p, s, need.category)
             take == Lesser(p.remaining[s], p.short)
  <1>1. /\ s \in Buckets /\ need.category \in Categories
        /\ need.shortfall \in Nat /\ DOMAIN sources = 1 .. Len(sources)
        /\ \A j \in 1 .. Len(sources) : sources[j] \in Buckets
    BY DEF Need
  <1>2. p \in Plans
    BY DEF Covered
  <1>3. /\ q \in Plans /\ take \in Nat
        /\ \A b \in Buckets :
              /\ q.remaining[b] + Pulled(q.moves, b)
                   = p.remaining[b] + Pulled(p.moves, b)
              /\ q.remaining[b] <= p.remaining[b]
        /\ \A c : Given(q.moves, c)
                    = Given(p.moves, c) + (IF c = need.category THEN take ELSE 0)
        /\ q.short = p.short - take
        /\ q.short > 0 => q.remaining[s] = 0
        /\ \A i \in DOMAIN q.moves :
              \/ q.moves[i].source = s /\ q.moves[i].destination = need.category
              \/ \E j \in DOMAIN p.moves : q.moves[i] = p.moves[j]
    <2> DEFINE c == need.category
    <2>1. s \in Buckets /\ c \in Categories
      BY <1>1
    <2> HIDE DEF s, c
    <2> QED BY <1>2, <2>1, Drawn DEF c
  <1>4. /\ take \in Nat /\ p.short \in Nat /\ q.short \in Nat
        /\ \A b \in Buckets : p.remaining[b] \in Nat /\ q.remaining[b] \in Nat
                              /\ plan.remaining[b] \in Nat
        /\ p.moves \in Seq(Move) /\ plan.moves \in Seq(Move)
    BY <1>2, <1>3 DEF Plans
  <1>5. \A c : Given(p.moves, c) \in Nat /\ Given(plan.moves, c) \in Nat
    BY <1>4, Flows
  <1> HIDE DEF q, s, take
  <1>6. \A b \in Buckets :
           /\ q.remaining[b] + Pulled(q.moves, b)
                = plan.remaining[b] + Pulled(plan.moves, b)
           /\ q.remaining[b] <= plan.remaining[b]
    BY <1>3, <1>4 DEF Covered
  <1>7. q.short <= need.shortfall
    BY <1>1, <1>3, <1>4 DEF Covered
  <1>8. ASSUME NEW c
        PROVE  Given(q.moves, c)
                 = Given(plan.moves, c) + (IF c = need.category
                                           THEN need.shortfall - q.short ELSE 0)
    <2>1. Given(p.moves, c)
             = Given(plan.moves, c) + (IF c = need.category
                                       THEN need.shortfall - p.short ELSE 0)
      BY DEF Covered
    <2>2. Given(q.moves, c)
            = Given(p.moves, c) + (IF c = need.category THEN take ELSE 0)
      BY <1>3
    <2>3. q.short = p.short - take
      BY <1>3
    <2>4. /\ Given(plan.moves, c) \in Nat /\ take \in Nat
          /\ p.short \in Nat /\ need.shortfall \in Nat
      BY <1>1, <1>4, <1>5
    <2> DEFINE here == c = need.category
    <2> HIDE DEF here
    <2>5. Given(p.moves, c) = Given(plan.moves, c)
                                + (IF here THEN need.shortfall - p.short ELSE 0)
      BY <2>1 DEF here
    <2>6. Given(q.moves, c) = Given(p.moves, c) + (IF here THEN take ELSE 0)
      BY <2>2 DEF here
    <2>7. Given(q.moves, c) = Given(plan.moves, c)
                                + (IF here THEN need.shortfall - q.short ELSE 0)
      BY <2>3, <2>4, <2>5, <2>6
    <2> QED BY <2>7 DEF here
  <1>9. ASSUME q.short > 0, NEW j \in 1 .. k
        PROVE  q.remaining[sources[j]] = 0
    <2>1. CASE j = k
      BY <1>3, <1>9, <2>1 DEF s
    <2>2. CASE j # k
      <3>1. j \in 1 .. (k - 1) /\ j \in 1 .. Len(sources)
        BY <2>2
      <3>2. p.short > 0
        BY <1>3, <1>4, <1>9
      <3>3. p.remaining[sources[j]] = 0
        BY <3>1, <3>2 DEF Covered
      <3>4. sources[j] \in Buckets
        BY <1>1, <3>1
      <3>5. q.remaining[sources[j]] <= p.remaining[sources[j]]
        BY <1>3, <3>4
      <3>6. q.remaining[sources[j]] \in Nat
        BY <1>4, <3>4
      <3> QED BY <3>3, <3>5, <3>6
    <2> QED BY <2>1, <2>2
  <1>10. ASSUME NEW i \in DOMAIN q.moves
         PROVE  \/ /\ \E j \in DOMAIN sources : q.moves[i].source = sources[j]
                   /\ q.moves[i].destination = need.category
                \/ \E j \in DOMAIN plan.moves : q.moves[i] = plan.moves[j]
    <2>1. CASE q.moves[i].source = s /\ q.moves[i].destination = need.category
      BY <1>1, <2>1 DEF s
    <2>2. CASE \E j \in DOMAIN p.moves : q.moves[i] = p.moves[j]
      BY <2>2 DEF Covered
    <2> QED BY <1>3, <2>1, <2>2
  <1>11. Covered(q, plan, need, sources, k)
    BY <1>3, <1>6, <1>7, <1>8, <1>9, <1>10 DEF Covered
  <1> QED BY <1>11 DEF q, s

LEMMA CoverGood ==
    ASSUME NEW plan \in Plans, NEW need \in Need, NEW sources \in Seq(Buckets)
    PROVE  Covered(CoverNeed(plan, need, sources),
                   plan, need, sources, Len(sources))
  <1>1. PICK f : /\ Covers(f, plan, need, sources)
                 /\ f[Len(sources)] = CoverNeed(plan, need, sources)
    BY CoverChain
  <1> DEFINE S == {k \in 0 .. Len(sources) :
                     Covered(f[k], plan, need, sources, k)}
  <1>2. Len(sources) \in Nat /\ Len(sources) \in 0 .. Len(sources)
    OBVIOUS
  <1>3. 0 \in S
    <2>1. f[0] = [plan EXCEPT !.short = need.shortfall]
      BY <1>1 DEF Covers
    <2>2. Covered(f[0], plan, need, sources, 0)
      BY <2>1, CoverStart
    <2> QED BY <1>2, <2>2
  <1>4. ASSUME NEW k \in 1 .. Len(sources), k - 1 \in S PROVE k \in S
    <2>1. f[k] = Draw(f[k - 1], sources[k], need.category)
      BY <1>1 DEF Covers
    <2>2. Covered(f[k - 1], plan, need, sources, k - 1)
      BY <1>4
    <2>3. Covered(f[k], plan, need, sources, k)
      BY <2>1, <2>2, CoverStep
    <2> QED BY <1>2, <2>3
  <1>5. \A k \in 0 .. Len(sources) : k \in S
    <2> HIDE DEF S
    <2> QED BY <1>2, <1>3, <1>4, Upward
  <1> QED BY <1>1, <1>2, <1>5

(* The plan after each of the needs.                                       *)
Plannings(f, wants, sources, drawable) ==
    /\ f \in [0 .. Len(wants) -> Plans]
    /\ f[0] = [moves |-> <<>>, remaining |-> drawable, short |-> 0]
    /\ \A k \in 1 .. Len(wants) :
          /\ f[k - 1] \in Plans
          /\ f[k] = CoverNeed(f[k - 1], wants[k], sources)

LEMMA CoverNeedPlans ==
    ASSUME NEW plan \in Plans, NEW need \in Need, NEW sources \in Seq(Buckets)
    PROVE  CoverNeed(plan, need, sources) \in Plans
  BY CoverGood DEF Covered

LEMMA PlanChain ==
    ASSUME NEW wants \in Seq(Need), NEW sources \in Seq(Buckets),
           NEW drawable \in [Buckets -> Nat]
    PROVE  \E f : /\ Plannings(f, wants, sources, drawable)
                  /\ f[Len(wants)].moves = PlanCoverage(wants, sources, drawable)
  <1> DEFINE n == Len(wants)
             base == [moves |-> <<>>, remaining |-> drawable, short |-> 0]
             step == [p \in Plans \X (1 .. n) |->
                         CoverNeed(p[1], wants[p[2]], sources)]
             Is(it) == it = [s \in SUBSET DOMAIN wants |->
                               IF s = {} THEN base
                               ELSE CoverNeed(it[s \ {Max(s)}], wants[Max(s)],
                                              sources)]
             plans == CHOOSE it : Is(it)
  <1>1. /\ n \in Nat /\ DOMAIN wants = 1 .. n
        /\ \A i \in 1 .. n : wants[i] \in Need
    OBVIOUS
  <1>2. PlanCoverage(wants, sources, drawable) = plans[DOMAIN wants].moves
    BY DEF PlanCoverage, FoldLeft, MapThenFoldSet
  <1>3. base \in Plans
    <2>1. <<>> \in Seq(Move)
      OBVIOUS
    <2> QED BY <2>1 DEF Plans
  <1>4. ASSUME NEW x \in Plans, NEW k \in 1 .. n
        PROVE  /\ step[<<x, k>>] = CoverNeed(x, wants[k], sources)
               /\ CoverNeed(x, wants[k], sources) \in Plans
    <2>1. wants[k] \in Need
      BY <1>1
    <2>2. CoverNeed(x, wants[k], sources) \in Plans
      BY <2>1, CoverNeedPlans
    <2> QED BY <2>2
  <1>5. step \in [Plans \X (1 .. n) -> Plans]
    BY <1>4
  <1> HIDE DEF base, step
  <1>6. \E it : Is(it)
    <2>1. PICK it : IsFold(it, Plans, base, n, step)
      <3> HIDE DEF n
      <3> QED BY <1>1, <1>3, <1>5, FoldExists
    <2>2. ASSUME NEW s \in SUBSET (1 .. n)
          PROVE  it[s] = IF s = {} THEN base
                         ELSE CoverNeed(it[s \ {Max(s)}], wants[Max(s)], sources)
      <3>1. CASE s = {}
        BY <2>1, <3>1 DEF IsFold
      <3>2. CASE s # {}
        <4>1. Max(s) \in 1 .. n /\ s \ {Max(s)} \in SUBSET (1 .. n)
          BY <1>1, <3>2, MaxIn
        <4>2. /\ it[s \ {Max(s)}] \in Plans
              /\ it[s] = step[<<it[s \ {Max(s)}], Max(s)>>]
          BY <2>1, <3>2, <4>1 DEF IsFold
        <4> QED BY <1>4, <3>2, <4>1, <4>2
      <3> QED BY <3>1, <3>2
    <2>3. it = [s \in SUBSET DOMAIN wants |-> it[s]]
      BY <1>1, <2>1 DEF IsFold
    <2>4. Is(it)
      BY <1>1, <2>2, <2>3
    <2> QED BY <2>4
  <1>7. Is(plans)
    BY <1>6
  <1> HIDE DEF plans
  <1>8. /\ plans[{}] = base
        /\ \A s \in SUBSET (1 .. n) :
              s # {} => plans[s] = CoverNeed(plans[s \ {Max(s)}], wants[Max(s)],
                                             sources)
    BY <1>1, <1>7
  <1> HIDE DEF Is
  <1>9. Follows(plans, Plans, base, n, step)
    <2>1. ASSUME NEW s \in SUBSET (1 .. n), s # {},
                 plans[s \ {Max(s)}] \in Plans
          PROVE  plans[s] = step[<<plans[s \ {Max(s)}], Max(s)>>]
      <3>1. Max(s) \in 1 .. n
        BY <1>1, <2>1, MaxIn
      <3> QED BY <1>4, <1>8, <2>1, <3>1
    <2> QED BY <1>8, <2>1 DEF Follows
  <1>10. PICK f : IsChain(f, plans, Plans, base, n, step)
    <2> HIDE DEF n
    <2>1. n \in Nat
      BY <1>1
    <2> QED BY <2>1, <1>3, <1>5, <1>9, Folding
  <1>11. Plannings(f, wants, sources, drawable)
    <2>1. ASSUME NEW k \in 1 .. n
          PROVE  /\ f[k - 1] \in Plans
                 /\ f[k] = CoverNeed(f[k - 1], wants[k], sources)
      <3>1. f[k - 1] \in Plans /\ f[k] = step[<<f[k - 1], k>>]
        BY <1>10 DEF IsChain
      <3> QED BY <1>4, <3>1
    <2>2. f \in [0 .. n -> Plans] /\ f[0] = base
      BY <1>10 DEF IsChain
    <2> QED BY <2>1, <2>2 DEF Plannings, base
  <1>12. f[n] = plans[1 .. n]
    BY <1>10 DEF IsChain
  <1> QED BY <1>1, <1>2, <1>11, <1>12

Distinct(wants) ==
    \A i, j \in DOMAIN wants : i # j => wants[i].category # wants[j].category

(* What holds of the plan once the first k needs have been seen to.        *)
Planned(p, wants, sources, drawable, k) ==
    /\ p \in Plans
    /\ \A b \in Buckets : p.remaining[b] + Pulled(p.moves, b) = drawable[b]
    /\ \A i \in DOMAIN p.moves :
          /\ \E j \in DOMAIN sources : p.moves[i].source = sources[j]
          /\ \E j \in 1 .. k : p.moves[i].destination = wants[j].category
    /\ \A j \in 1 .. k :
          \/ Given(p.moves, wants[j].category) = wants[j].shortfall
          \/ /\ Given(p.moves, wants[j].category) < wants[j].shortfall
             /\ \A i \in DOMAIN sources : p.remaining[sources[i]] = 0

LEMMA PlanStart ==
    ASSUME NEW wants \in Seq(Need), NEW sources \in Seq(Buckets),
           NEW drawable \in [Buckets -> Nat]
    PROVE  Planned([moves |-> <<>>, remaining |-> drawable, short |-> 0],
                   wants, sources, drawable, 0)
  <1> DEFINE p == [moves |-> <<>>, remaining |-> drawable, short |-> 0]
  <1>1. <<>> \in Seq(Move) /\ DOMAIN <<>> = {}
    OBVIOUS
  <1>2. p \in Plans /\ p.moves = <<>> /\ p.remaining = drawable
    BY <1>1 DEF Plans
  <1> HIDE DEF p
  <1>3. \A b : Pulled(p.moves, b) = 0
    BY <1>2, FlowsOfNone
  <1>4. \A b \in Buckets : p.remaining[b] + Pulled(p.moves, b) = drawable[b]
    BY <1>2, <1>3
  <1>5. DOMAIN p.moves = {}
    BY <1>1, <1>2
  <1> QED BY <1>2, <1>4, <1>5 DEF Planned, p

LEMMA PlanStep ==
    ASSUME NEW wants \in Seq(Need), NEW sources \in Seq(Buckets),
           NEW drawable \in [Buckets -> Nat], Distinct(wants),
           NEW k \in 1 .. Len(wants), NEW p,
           Planned(p, wants, sources, drawable, k - 1)
    PROVE  Planned(CoverNeed(p, wants[k], sources),
                   wants, sources, drawable, k)
  <1> DEFINE need == wants[k]
             q == CoverNeed(p, need, sources)
  <1>1. /\ DOMAIN wants = 1 .. Len(wants) /\ DOMAIN sources = 1 .. Len(sources)
        /\ \A j \in 1 .. Len(wants) : wants[j] \in Need
        /\ \A j \in 1 .. Len(sources) : sources[j] \in Buckets
    OBVIOUS
  <1>2. p \in Plans /\ need \in Need
    BY <1>1 DEF Planned
  <1>3. need.category \in Categories /\ need.shortfall \in Nat
    BY <1>2 DEF Need
  <1> HIDE DEF need
  <1>4. Covered(q, p, need, sources, Len(sources))
    BY <1>2, CoverGood
  <1> HIDE DEF q
  <1>5. /\ q \in Plans /\ q.short \in Nat /\ q.moves \in Seq(Move)
        /\ p.moves \in Seq(Move)
        /\ \A b \in Buckets : q.remaining[b] \in Nat /\ p.remaining[b] \in Nat
    BY <1>2, <1>4 DEF Covered, Plans
  <1>6. \A c : Given(p.moves, c) \in Nat
    BY <1>5, Flows
  <1>7. ASSUME NEW b \in Buckets
        PROVE  q.remaining[b] + Pulled(q.moves, b) = drawable[b]
    BY <1>4 DEF Covered, Planned
  <1>8. ASSUME NEW i \in DOMAIN q.moves
        PROVE  /\ \E j \in DOMAIN sources : q.moves[i].source = sources[j]
               /\ \E j \in 1 .. k : q.moves[i].destination = wants[j].category
    <2>1. CASE /\ \E j \in DOMAIN sources : q.moves[i].source = sources[j]
               /\ q.moves[i].destination = need.category
      <3>1. k \in 1 .. k
        OBVIOUS
      <3> QED BY <2>1, <3>1 DEF need
    <2>2. CASE \E j \in DOMAIN p.moves : q.moves[i] = p.moves[j]
      <3>1. PICK j \in DOMAIN p.moves : q.moves[i] = p.moves[j]
        BY <2>2
      <3>2. /\ \E m \in DOMAIN sources : p.moves[j].source = sources[m]
            /\ \E m \in 1 .. (k - 1) : p.moves[j].destination = wants[m].category
        BY <3>1 DEF Planned
      <3>3. \A m \in 1 .. (k - 1) : m \in 1 .. k
        OBVIOUS
      <3> QED BY <3>1, <3>2, <3>3
    <2> QED BY <1>4, <2>1, <2>2 DEF Covered
  <1>9. ASSUME NEW j \in 1 .. (k - 1)
        PROVE  wants[j].category # need.category
    <2>1. j \in DOMAIN wants /\ k \in DOMAIN wants /\ j # k
      BY <1>1
    <2> QED BY <2>1 DEF Distinct, need
  <1>10. Given(p.moves, need.category) = 0
    <2>1. \A i \in DOMAIN p.moves : p.moves[i].destination # need.category
      BY <1>9 DEF Planned
    <2> QED BY <1>5, <2>1, Flows
  <1>11. Given(q.moves, need.category) = need.shortfall - q.short
    <2>1. Given(q.moves, need.category)
            = Given(p.moves, need.category) + (need.shortfall - q.short)
      BY <1>4 DEF Covered
    <2> QED BY <1>3, <1>5, <1>10, <2>1
  <1>12. q.short > 0 => \A i \in DOMAIN sources : q.remaining[sources[i]] = 0
    BY <1>1, <1>4 DEF Covered
  <1>13. ASSUME NEW j \in 1 .. k
         PROVE  \/ Given(q.moves, wants[j].category) = wants[j].shortfall
                \/ /\ Given(q.moves, wants[j].category) < wants[j].shortfall
                   /\ \A i \in DOMAIN sources : q.remaining[sources[i]] = 0
    <2>1. CASE j = k
      <3>1. CASE q.short = 0
        BY <1>3, <1>11, <2>1, <3>1 DEF need
      <3>2. CASE q.short > 0
        BY <1>3, <1>5, <1>11, <1>12, <2>1, <3>2 DEF need
      <3> QED BY <1>5, <3>1, <3>2
    <2>2. CASE j # k
      <3>1. j \in 1 .. (k - 1)
        BY <2>2
      <3> DEFINE c == wants[j].category
      <3>2. c # need.category
        BY <1>9, <3>1
      <3>3. Given(q.moves, c) = Given(p.moves, c) + 0
        BY <1>4, <3>2 DEF Covered
      <3>4. Given(q.moves, c) = Given(p.moves, c)
        BY <1>6, <3>3
      <3>5. ASSUME NEW i \in DOMAIN sources, p.remaining[sources[i]] = 0
            PROVE  q.remaining[sources[i]] = 0
        <4>1. sources[i] \in Buckets
          BY <1>1
        <4>2. q.remaining[sources[i]] <= p.remaining[sources[i]]
          BY <1>4, <4>1 DEF Covered
        <4> QED BY <1>5, <3>5, <4>1, <4>2
      <3>6. \/ Given(p.moves, c) = wants[j].shortfall
            \/ /\ Given(p.moves, c) < wants[j].shortfall
               /\ \A i \in DOMAIN sources : p.remaining[sources[i]] = 0
        BY <3>1 DEF Planned
      <3> QED BY <3>4, <3>5, <3>6
    <2> QED BY <2>1, <2>2
  <1>14. Planned(q, wants, sources, drawable, k)
    BY <1>5, <1>7, <1>8, <1>13 DEF Planned
  <1> QED BY <1>14 DEF q, need

(* What a plan is: it takes from its sources alone, gives to the needs     *)
(* alone, never more than there is, and stops short of a need only when    *)
(* every source is empty.                                                  *)
Greedy(flows, wants, sources, drawable) ==
    /\ flows \in Seq(Move)
    /\ \A b \in Buckets : Pulled(flows, b) <= drawable[b]
    /\ \A i \in DOMAIN flows :
          /\ \E j \in DOMAIN sources : flows[i].source = sources[j]
          /\ flows[i].destination \in NeedyOf(wants)
    /\ \A j \in DOMAIN wants :
          \/ Given(flows, wants[j].category) = wants[j].shortfall
          \/ /\ Given(flows, wants[j].category) < wants[j].shortfall
             /\ \A i \in DOMAIN sources :
                   Pulled(flows, sources[i]) = drawable[sources[i]]

LEMMA PlanGreedy ==
    ASSUME NEW wants \in Seq(Need), NEW sources \in Seq(Buckets),
           NEW drawable \in [Buckets -> Nat], Distinct(wants)
    PROVE  Greedy(PlanCoverage(wants, sources, drawable),
                  wants, sources, drawable)
  <1> DEFINE n == Len(wants)
             flows == PlanCoverage(wants, sources, drawable)
  <1>1. PICK f : /\ Plannings(f, wants, sources, drawable)
                 /\ f[n].moves = flows
    BY PlanChain
  <1> DEFINE S == {k \in 0 .. n : Planned(f[k], wants, sources, drawable, k)}
  <1>2. /\ n \in Nat /\ n \in 0 .. n /\ 0 \in 0 .. n /\ DOMAIN wants = 1 .. n
        /\ \A i \in DOMAIN sources : sources[i] \in Buckets
    OBVIOUS
  <1>3. 0 \in S
    <2>1. f[0] = [moves |-> <<>>, remaining |-> drawable, short |-> 0]
      BY <1>1 DEF Plannings
    <2>2. Planned(f[0], wants, sources, drawable, 0)
      BY <2>1, PlanStart
    <2> QED BY <1>2, <2>2
  <1>4. ASSUME NEW k \in 1 .. n, k - 1 \in S PROVE k \in S
    <2>1. f[k] = CoverNeed(f[k - 1], wants[k], sources)
      BY <1>1 DEF Plannings
    <2>2. Planned(f[k - 1], wants, sources, drawable, k - 1)
      BY <1>4
    <2>3. Planned(f[k], wants, sources, drawable, k)
      BY <2>1, <2>2, PlanStep
    <2> QED BY <1>2, <2>3
  <1>5. \A k \in 0 .. n : k \in S
    <2> HIDE DEF S, n
    <2> QED BY <1>2, <1>3, <1>4, Upward
  <1> DEFINE p == f[n]
  <1>6. Planned(p, wants, sources, drawable, n) /\ p.moves = flows
    BY <1>1, <1>2, <1>5
  <1> HIDE DEF p, flows
  <1>7. /\ flows \in Seq(Move)
        /\ \A b \in Buckets : p.remaining[b] \in Nat
    BY <1>6 DEF Planned, Plans
  <1>8. \A b \in Buckets : /\ p.remaining[b] + Pulled(flows, b) = drawable[b]
                           /\ Pulled(flows, b) \in Nat /\ drawable[b] \in Nat
    BY <1>6, <1>7, Flows DEF Planned
  <1>9. \A b \in Buckets : /\ Pulled(flows, b) <= drawable[b]
                           /\ p.remaining[b] = 0 => Pulled(flows, b) = drawable[b]
    BY <1>7, <1>8
  <1>10. \A i \in DOMAIN flows :
          /\ \E j \in DOMAIN sources : flows[i].source = sources[j]
          /\ flows[i].destination \in NeedyOf(wants)
    BY <1>2, <1>6 DEF Planned, NeedyOf
  <1>11. \A j \in DOMAIN wants :
          \/ Given(flows, wants[j].category) = wants[j].shortfall
          \/ /\ Given(flows, wants[j].category) < wants[j].shortfall
             /\ \A i \in DOMAIN sources :
                   Pulled(flows, sources[i]) = drawable[sources[i]]
    BY <1>2, <1>6, <1>9 DEF Planned
  <1> QED BY <1>7, <1>9, <1>10, <1>11 DEF Greedy, flows

LEMMA Budget ==
    /\ Len(Cats) \in Nat /\ DOMAIN Cats = 1 .. Len(Cats)
    /\ \A i \in DOMAIN Cats : Cats[i] \in Categories
    /\ IsFiniteSet(Categories) /\ RTA \notin Categories
    /\ \A c \in Categories : Place(c) \in DOMAIN Cats /\ Cats[Place(c)] = c
    /\ \A a, b \in Categories : a # b => Place(a) # Place(b)
  <1> DEFINE n == Len(Cats)
  <1>1. n \in Nat /\ DOMAIN Cats = 1 .. n /\ Cats \in [1 .. n -> STRING]
    BY CoverageAssumption
  <1>2. Cats \in [1 .. n -> Categories]
    BY <1>1 DEF Categories
  <1>3. Cats \in Surjection(1 .. n, Categories)
    BY <1>1, <1>2 DEF Categories, Surjection
  <1>4. IsFiniteSet(1 .. n)
    BY <1>1, FS_Interval
  <1>5. IsFiniteSet(Categories)
    <2> HIDE DEF n
    <2> QED BY <1>3, <1>4, FS_Surjection
  <1>6. \A c \in Categories : Place(c) \in DOMAIN Cats /\ Cats[Place(c)] = c
    BY DEF Place, Categories
  <1> QED BY <1>1, <1>2, <1>5, <1>6, CoverageAssumption

LEMMA Ranking ==
    ASSUME NEW S \in SUBSET Categories, NEW figure \in [Categories -> Int]
    PROVE  Ranked(S, figure) \in SetToSeqs(S)
  <1> DEFINE before(a, b) == \/ figure[a] > figure[b]
                             \/ figure[a] = figure[b] /\ Place(a) < Place(b)
             R == {r \in S \X S : before(r[1], r[2])}
             sorted(s) == \A i, j \in DOMAIN s : i < j => before(s[i], s[j])
  <1>1. \A a \in S : figure[a] \in Int /\ Place(a) \in Int
    BY Budget
  <1>2. \A a, b \in S : a # b => Place(a) # Place(b)
    BY Budget
  <1>3. IsFiniteSet(S)
    BY Budget, FS_Subset
  <1>4. \A a, b \in S : <<a, b>> \in R <=> before(a, b)
    OBVIOUS
  <1> HIDE DEF R
  <1>5. IsOrder(R, S)
    <2>1. ASSUME NEW a \in S, NEW b \in S, a # b
          PROVE  before(a, b) \/ before(b, a)
      BY <1>1, <1>2, <2>1
    <2>2. ASSUME NEW a \in S, NEW b \in S, before(a, b)
          PROVE  ~before(b, a)
      BY <1>1, <2>2
    <2>3. ASSUME NEW a \in S, NEW b \in S, NEW c \in S,
                 before(a, b), before(b, c)
          PROVE  before(a, c)
      BY <1>1, <2>3
    <2> HIDE DEF before
    <2> QED BY <1>4, <2>1, <2>2, <2>3 DEF IsOrder
  <1>6. PICK s \in SetToSeqs(S) :
           \A i, j \in DOMAIN s : i < j => <<s[i], s[j]>> \in R
    BY <1>3, <1>5, Listing
  <1>7. sorted(s)
    <2>1. \A i \in DOMAIN s : s[i] \in S
      BY DEF SetToSeqs
    <2> HIDE DEF before
    <2> QED BY <1>4, <1>6, <2>1
  <1>8. Ranked(S, figure) = CHOOSE t \in SetToSeqs(S) : sorted(t)
    BY DEF Ranked, Ordered
  <1> HIDE DEF sorted
  <1> QED BY <1>7, <1>8

LEMMA NeedsGood ==
    ASSUME NEW excess \in [Categories -> Int]
    PROVE  NeedsOf(excess) \in Seq(Need) /\ Distinct(NeedsOf(excess))
  <1> DEFINE gap == [c \in Categories |-> -excess[c]]
             S == {c \in Categories : gap[c] > 0}
             short == Ranked(S, gap)
             wants == NeedsOf(excess)
  <1>1. gap \in [Categories -> Int] /\ S \in SUBSET Categories
    OBVIOUS
  <1>2. IsFiniteSet(S)
    BY <1>1, Budget, FS_Subset
  <1>3. \A c \in S : gap[c] \in Nat \ {0} /\ c \in Categories
    OBVIOUS
  <1>4. wants = [i \in DOMAIN short |-> [category |-> short[i],
                                         shortfall |-> gap[short[i]]]]
    BY DEF NeedsOf
  <1> HIDE DEF gap, S
  <1>5. short \in SetToSeqs(S)
    BY <1>1, Ranking
  <1> HIDE DEF short, wants
  <1>6. /\ short \in Seq(S) /\ \A i, j \in DOMAIN short : i # j => short[i] # short[j]
    BY <1>2, <1>5, Listed
  <1>7. /\ Len(short) \in Nat /\ DOMAIN short = 1 .. Len(short)
        /\ \A i \in 1 .. Len(short) : short[i] \in S
    BY <1>6
  <1>8. /\ wants \in [1 .. Len(short) -> Need]
        /\ \A i \in 1 .. Len(short) : wants[i].category = short[i]
    BY <1>3, <1>4, <1>7 DEF Need
  <1>9. wants \in Seq(Need) /\ DOMAIN wants = 1 .. Len(short)
    BY <1>7, <1>8
  <1>10. Distinct(wants)
    BY <1>6, <1>7, <1>8, <1>9 DEF Distinct
  <1> QED BY <1>9, <1>10 DEF wants

(* Sources with no need of their own, and all that have something to give. *)
Donors(sources, drawable, wants) ==
    /\ sources \in Seq(Buckets) /\ drawable \in [Buckets -> Nat]
    /\ \A i \in DOMAIN sources :
          sources[i] = RTA \/ sources[i] \in Categories \ NeedyOf(wants)
    /\ \A b \in Buckets \ NeedyOf(wants) :
          drawable[b] = 0 \/ \E i \in DOMAIN sources : sources[i] = b

LEMMA SourcesGood ==
    ASSUME NEW excess \in [Categories -> Int], NEW rta \in Int, NEW wants
    PROVE  Donors(SourcesOf(excess, rta, wants), Drawable(excess, rta), wants)
  <1> DEFINE S == {c \in Categories \ NeedyOf(wants) : excess[c] > 0}
             donors == Ranked(S, excess)
             lead == IF rta > 0 THEN <<RTA>> ELSE <<>>
             sources == SourcesOf(excess, rta, wants)
             drawable == Drawable(excess, rta)
  <1>1. sources = lead \o donors
    BY DEF SourcesOf
  <1>2. drawable \in [Buckets -> Nat]
    <2>1. \A b \in Buckets : b = RTA \/ excess[b] \in Int
      BY DEF Buckets
    <2> QED BY <2>1 DEF Drawable, Slack
  <1>3. ASSUME NEW b \in Buckets \ NeedyOf(wants), drawable[b] # 0
        PROVE  (b = RTA /\ rta > 0) \/ b \in S
    BY <1>3 DEF Drawable, Slack, Buckets
  <1>4. S \in SUBSET Categories /\ S \in SUBSET (Categories \ NeedyOf(wants))
    OBVIOUS
  <1>5. IsFiniteSet(S)
    BY <1>4, Budget, FS_Subset
  <1> HIDE DEF S, sources, drawable
  <1>6. donors \in SetToSeqs(S)
    BY <1>4, Ranking
  <1> HIDE DEF donors
  <1>7. donors \in Seq(S) /\ \A c \in S : \E i \in DOMAIN donors : donors[i] = c
    BY <1>5, <1>6, Listed
  <1>8. donors \in Seq(Buckets) /\ \A i \in DOMAIN donors : donors[i] \in S
    BY <1>4, <1>7 DEF Buckets
  <1>9. lead \in Seq(Buckets)
    <2>1. <<RTA>> \in Seq(Buckets) /\ <<>> \in Seq(Buckets)
      <3>1. RTA \in Buckets
        BY DEF Buckets
      <3> QED BY <3>1
    <2> QED BY <2>1
  <1>10. sources \in Seq(Buckets)
    BY <1>1, <1>8, <1>9
  <1>11. CASE rta > 0
    <2>1. /\ DOMAIN sources = 1 .. Len(donors) + 1 /\ Len(donors) \in Nat
          /\ DOMAIN donors = 1 .. Len(donors) /\ sources[1] = RTA
          /\ \A i \in 1 .. Len(donors) : sources[i + 1] = donors[i]
          /\ \A i \in DOMAIN sources : i # 1 => i - 1 \in 1 .. Len(donors)
                                                /\ sources[i] = donors[i - 1]
      BY <1>1, <1>8, <1>11
    <2>2. \A i \in DOMAIN sources :
             sources[i] = RTA \/ sources[i] \in Categories \ NeedyOf(wants)
      BY <1>4, <1>8, <2>1
    <2>3. ASSUME NEW b \in Buckets \ NeedyOf(wants), drawable[b] # 0
          PROVE  \E i \in DOMAIN sources : sources[i] = b
      <3>1. CASE b = RTA
        BY <2>1, <3>1
      <3>2. CASE b \in S
        <4>1. PICK i \in DOMAIN donors : donors[i] = b
          BY <1>7, <3>2
        <4>2. i + 1 \in DOMAIN sources /\ sources[i + 1] = b
          BY <2>1, <4>1
        <4> QED BY <4>2
      <3> QED BY <1>3, <2>3, <3>1, <3>2
    <2> HIDE DEF lead
    <2> QED BY <1>2, <1>10, <2>2, <2>3 DEF Donors, sources, drawable
  <1>12. CASE ~(rta > 0)
    <2>1. sources = donors
      BY <1>1, <1>8, <1>12
    <2>2. \A i \in DOMAIN sources :
             sources[i] = RTA \/ sources[i] \in Categories \ NeedyOf(wants)
      BY <1>4, <1>8, <2>1
    <2>3. ASSUME NEW b \in Buckets \ NeedyOf(wants), drawable[b] # 0
          PROVE  \E i \in DOMAIN sources : sources[i] = b
      BY <1>3, <1>7, <1>12, <2>1, <2>3
    <2> QED BY <1>2, <1>10, <2>2, <2>3 DEF Donors, sources, drawable
  <1> QED BY <1>11, <1>12

(* The plan made for these needs from these figures.                       *)
LEMMA PlanGood ==
    ASSUME NEW excess \in [Categories -> Int], NEW rta \in Int,
           NEW wants \in Seq(Need), Distinct(wants)
    PROVE  LET drawable == Drawable(excess, rta)
               flows == PlanCoverage(wants, SourcesOf(excess, rta, wants), drawable)
           IN  /\ flows \in Seq(Move)
               /\ \A b \in Buckets : Pulled(flows, b) <= drawable[b]
               /\ \A i \in DOMAIN flows :
                     /\ flows[i].source \notin NeedyOf(wants)
                     /\ flows[i].destination \in NeedyOf(wants)
               /\ \A i \in DOMAIN wants :
                     \/ Given(flows, wants[i].category) = wants[i].shortfall
                     \/ /\ Given(flows, wants[i].category) < wants[i].shortfall
                        /\ \A b \in Buckets \ NeedyOf(wants) :
                              Pulled(flows, b) = drawable[b]
  <1> DEFINE drawable == Drawable(excess, rta)
             sources  == SourcesOf(excess, rta, wants)
             flows    == PlanCoverage(wants, sources, drawable)
  <1>0. Donors(sources, drawable, wants)
    BY SourcesGood
  <1> HIDE DEF sources, drawable
  <1>1. /\ sources \in Seq(Buckets) /\ drawable \in [Buckets -> Nat]
        /\ \A i \in DOMAIN sources :
              \/ sources[i] = RTA
              \/ sources[i] \in Categories \ NeedyOf(wants)
        /\ \A b \in Buckets \ NeedyOf(wants) :
              drawable[b] = 0 \/ \E i \in DOMAIN sources : sources[i] = b
    BY <1>0 DEF Donors
  <1>2. Greedy(flows, wants, sources, drawable)
    BY <1>1, PlanGreedy
  <1> HIDE DEF flows
  <1>3. flows \in Seq(Move) /\ \A b \in Buckets : Pulled(flows, b) <= drawable[b]
    BY <1>2 DEF Greedy
  <1>4. NeedyOf(wants) \subseteq Categories
    <2>1. \A i \in DOMAIN wants : wants[i] \in Need
      OBVIOUS
    <2> QED BY <2>1 DEF NeedyOf, Need
  <1>5. \A i \in DOMAIN sources : sources[i] \notin NeedyOf(wants)
    BY <1>1, <1>4, Budget
  <1>6. \A i \in DOMAIN flows : /\ flows[i].source \notin NeedyOf(wants)
                                /\ flows[i].destination \in NeedyOf(wants)
    BY <1>2, <1>5 DEF Greedy
  <1>7. ASSUME NEW b \in Buckets \ NeedyOf(wants),
               \A i \in DOMAIN sources :
                  Pulled(flows, sources[i]) = drawable[sources[i]]
        PROVE  Pulled(flows, b) = drawable[b]
    <2>1. CASE drawable[b] = 0
      <3>1. Pulled(flows, b) \in Nat
        BY <1>3, Flows
      <3>2. Pulled(flows, b) <= drawable[b]
        BY <1>3
      <3> QED BY <2>1, <3>1, <3>2
    <2>2. CASE \E i \in DOMAIN sources : sources[i] = b
      BY <1>7, <2>2
    <2> QED BY <1>1, <2>1, <2>2
  <1>8. \A i \in DOMAIN wants :
           \/ Given(flows, wants[i].category) = wants[i].shortfall
           \/ /\ Given(flows, wants[i].category) < wants[i].shortfall
              /\ \A b \in Buckets \ NeedyOf(wants) :
                    Pulled(flows, b) = drawable[b]
    BY <1>2, <1>7 DEF Greedy
  <1> QED BY <1>3, <1>6, <1>8 DEF flows, sources, drawable

(* The categories a plan changes are listed, and there is one.             *)
LEMMA TouchedGood ==
    ASSUME NEW flows \in Seq(Move)
    PROVE  /\ Touched(flows) \in Seq(Categories)
           /\ \A c \in Categories :
                 Change(flows, c) # 0
                    => \E i \in DOMAIN Touched(flows) : Touched(flows)[i] = c
           /\ (\E c \in Categories : Change(flows, c) # 0)
                 => Touched(flows) # <<>>
  <1> DEFINE S == {c \in Categories : Given(flows, c) # Pulled(flows, c)}
             D(c) == {2 * i : i \in {j \in DOMAIN flows : flows[j].destination = c}}
             U(c) == {2 * i + 1 : i \in {j \in DOMAIN flows : flows[j].source = c}}
             first == [c \in S |-> FirstNamed(flows, c)]
             R == {r \in S \X S : first[r[1]] < first[r[2]]}
             sorted(s) == \A i, j \in DOMAIN s :
                             i < j => FirstNamed(flows, s[i]) < FirstNamed(flows, s[j])
  <1>1. /\ DOMAIN flows = 1 .. Len(flows) /\ Len(flows) \in Nat
    BY MoveAt
  <1>2. S \in SUBSET Categories
    OBVIOUS
  <1>3. IsFiniteSet(S)
    BY <1>2, Budget, FS_Subset
  <1>4. ASSUME NEW c \in S
        PROVE  /\ first[c] \in D(c) \cup U(c) /\ first[c] \in Nat
    <2>1. D(c) \cup U(c) \in SUBSET Nat
      BY <1>1
    <2>2. \E i \in DOMAIN flows : flows[i].destination = c \/ flows[i].source = c
      <3> SUFFICES ASSUME \A i \in DOMAIN flows : /\ flows[i].destination # c
                                                  /\ flows[i].source # c
                   PROVE  FALSE
        OBVIOUS
      <3>1. Given(flows, c) = 0 /\ Pulled(flows, c) = 0
        BY Flows
      <3> QED BY <3>1
    <2>3. D(c) \cup U(c) # {}
      BY <2>2
    <2>4. first[c] = Min(D(c) \cup U(c))
      BY DEF FirstNamed
    <2> DEFINE N == D(c) \cup U(c)
    <2> HIDE DEF N, first, D, U, S
    <2>5. N \in SUBSET Nat /\ N # {} /\ first[c] = Min(N)
      BY <2>1, <2>3, <2>4 DEF N
    <2>6. \E i \in N : \A j \in N : i <= j
      BY <2>5, Least
    <2>7. Min(N) \in N
      BY <2>6 DEF Min
    <2> QED BY <2>5, <2>7 DEF N
  <1>5. ASSUME NEW a \in S, NEW b \in S, a # b
        PROVE  first[a] # first[b]
    <2> SUFFICES ASSUME first[a] = first[b] PROVE FALSE
      OBVIOUS
    <2> DEFINE v == first[a]
    <2>1. v \in D(a) \cup U(a) /\ v \in D(b) \cup U(b)
      BY <1>4
    <2> HIDE DEF first, v
    <2>2. PICK i \in DOMAIN flows : \/ v = 2 * i /\ flows[i].destination = a
                                    \/ v = 2 * i + 1 /\ flows[i].source = a
      BY <2>1
    <2>3. PICK j \in DOMAIN flows : \/ v = 2 * j /\ flows[j].destination = b
                                    \/ v = 2 * j + 1 /\ flows[j].source = b
      BY <2>1
    <2>4. i \in Nat /\ j \in Nat
      BY <1>1
    <2>5. \A m, k \in Nat : 2 * m # 2 * k + 1 /\ (2 * m = 2 * k => m = k)
                            /\ (2 * m + 1 = 2 * k + 1 => m = k)
      OBVIOUS
    <2> QED BY <1>5, <2>2, <2>3, <2>4, <2>5
  <1>6. \A a \in S : first[a] \in Nat /\ first[a] = FirstNamed(flows, a)
    BY <1>4
  <1>7. \A a, b \in S : <<a, b>> \in R <=> first[a] < first[b]
    OBVIOUS
  <1> HIDE DEF first, R, D, U
  <1>8. IsOrder(R, S)
    <2>1. \A a, b \in S : a # b => <<a, b>> \in R \/ <<b, a>> \in R
      BY <1>5, <1>6, <1>7
    <2>2. \A a, b \in S : <<a, b>> \in R => <<b, a>> \notin R
      BY <1>6, <1>7
    <2>3. \A a, b, c \in S :
             <<a, b>> \in R /\ <<b, c>> \in R => <<a, c>> \in R
      BY <1>6, <1>7
    <2> QED BY <2>1, <2>2, <2>3 DEF IsOrder
  <1> DEFINE touched == Touched(flows)
  <1>9. touched = CHOOSE t \in SetToSeqs(S) : sorted(t)
    BY DEF Touched, Ordered
  <1>10. \A c \in Categories : Change(flows, c) # 0 => c \in S
    <2>1. \A c : Given(flows, c) \in Nat /\ Pulled(flows, c) \in Nat
      BY Flows
    <2> QED BY <2>1 DEF Change
  <1> HIDE DEF S, touched
  <1>11. PICK s \in SetToSeqs(S) :
           \A i, j \in DOMAIN s : i < j => <<s[i], s[j]>> \in R
    BY <1>3, <1>8, Listing
  <1>12. sorted(s)
    <2>1. \A i \in DOMAIN s : s[i] \in S
      BY DEF SetToSeqs
    <2> QED BY <1>6, <1>7, <1>11, <2>1
  <1> HIDE DEF sorted
  <1>13. touched \in SetToSeqs(S)
    BY <1>9, <1>12
  <1>14. /\ touched \in Seq(S)
         /\ \A c \in S : \E i \in DOMAIN touched : touched[i] = c
    BY <1>3, <1>13, Listed
  <1>15. touched \in Seq(Categories)
    BY <1>2, <1>14
  <1>16. (\E c \in S : TRUE) => touched # <<>>
    <2>1. DOMAIN <<>> = {}
      OBVIOUS
    <2> QED BY <1>14, <2>1
  <1> QED BY <1>10, <1>14, <1>15, <1>16 DEF touched

(* A figure of every category, in the order of the budget.                 *)
Row(figure) == [i \in DOMAIN Cats |-> figure[Cats[i]]]
Changes(flows) == [c \in Categories |-> Change(flows, c)]

LEMMA RowGood ==
    ASSUME NEW figure \in [Categories -> Int]
    PROVE  /\ Row(figure) \in Seq(Int) /\ Len(Row(figure)) = Len(Cats)
           /\ \A i \in 1 .. Len(Cats) : /\ Cats[i] \in Categories
                                        /\ Row(figure)[i] = figure[Cats[i]]
  <1> DEFINE n == Len(Cats)
             row == Row(figure)
  <1>1. n \in Nat /\ DOMAIN Cats = 1 .. n /\ \A i \in 1 .. n : Cats[i] \in Categories
    BY Budget
  <1> HIDE DEF n
  <1>2. row \in [1 .. n -> Int] /\ \A i \in 1 .. n : row[i] = figure[Cats[i]]
    BY <1>1 DEF Row
  <1> HIDE DEF row
  <1>3. row \in Seq(Int) /\ Len(row) = n
    BY <1>1, <1>2
  <1> QED BY <1>1, <1>2, <1>3 DEF row, n

LEMMA RowSum ==
    ASSUME NEW a \in [Categories -> Int], NEW b \in [Categories -> Int],
           NEW c \in [Categories -> Int], \A x \in Categories : c[x] = a[x] + b[x]
    PROVE  Total(Row(c)) = Total(Row(a)) + Total(Row(b))
  <1>1. /\ Row(a) \in Seq(Int) /\ Row(b) \in Seq(Int) /\ Row(c) \in Seq(Int)
        /\ Len(Row(a)) = Len(Row(c)) /\ Len(Row(b)) = Len(Row(c))
    BY RowGood
  <1>2. \A i \in 1 .. Len(Row(c)) : Row(c)[i] = Row(a)[i] + Row(b)[i]
    BY RowGood
  <1> QED BY <1>1, <1>2, TotalSum

LEMMA RowOne ==
    ASSUME NEW a \in [Categories -> Int], NEW c \in Categories,
           \A x \in Categories : x # c => a[x] = 0
    PROVE  Total(Row(a)) = a[c]
  <1> DEFINE i == Place(c)
  <1>1. /\ Row(a) \in Seq(Int) /\ Len(Row(a)) = Len(Cats)
        /\ \A k \in 1 .. Len(Cats) : /\ Cats[k] \in Categories
                                     /\ Row(a)[k] = a[Cats[k]]
    BY RowGood
  <1>2. i \in 1 .. Len(Cats) /\ Cats[i] = c
    BY Budget
  <1>3. \A k \in 1 .. Len(Cats) : k # i => Cats[k] # c
    BY <1>2, Budget, CoverageAssumption
  <1> HIDE DEF i
  <1>4. \A k \in 1 .. Len(Row(a)) : k # i => Row(a)[k] = 0
    BY <1>1, <1>3
  <1>5. Total(Row(a)) = Row(a)[i]
    BY <1>1, <1>2, <1>4, TotalOne
  <1> QED BY <1>1, <1>2, <1>5

LEMMA RowNone ==
    ASSUME NEW a \in [Categories -> Int], \A x \in Categories : a[x] = 0
    PROVE  Total(Row(a)) = 0
  <1>1. /\ Row(a) \in Seq(Int) /\ Len(Row(a)) = Len(Cats)
        /\ \A k \in 1 .. Len(Cats) : /\ Cats[k] \in Categories
                                     /\ Row(a)[k] = a[Cats[k]]
    BY RowGood
  <1>2. \A k \in 1 .. Len(Row(a)) : Row(a)[k] = 0
    BY <1>1
  <1> QED BY <1>1, <1>2, TotalNone

LEMMA ChangesTyped ==
    ASSUME NEW flows \in Seq(Move)
    PROVE  /\ Changes(flows) \in [Categories -> Int]
           /\ Pulled(flows, RTA) \in Nat /\ Total(Row(Changes(flows))) \in Int
  <1>1. \A c : Given(flows, c) \in Nat /\ Pulled(flows, c) \in Nat
    BY Flows
  <1>2. Changes(flows) \in [Categories -> Int]
    BY <1>1 DEF Changes, Change
  <1>3. Row(Changes(flows)) \in Seq(Int)
    BY <1>2, RowGood
  <1>4. Total(Row(Changes(flows))) \in Int
    BY <1>3, TotalInt
  <1> QED BY <1>1, <1>2, <1>4

(* One move.                                                               *)
LEMMA OneFlow ==
    ASSUME NEW m \in Move
    PROVE  /\ <<m>> \in Seq(Move)
           /\ \A c : /\ Pulled(<<m>>, c) = IF m.source = c THEN m.amount ELSE 0
                     /\ Given(<<m>>, c) = IF m.destination = c
                                          THEN m.amount ELSE 0
  <1> DEFINE s == <<m>>
  <1>1. s \in Seq(Move) /\ Len(s) = 1 /\ s[1] = m /\ DOMAIN s = {1}
    OBVIOUS
  <1> HIDE DEF s
  <1>2. ASSUME NEW c
        PROVE  /\ Pulled(s, c) = IF m.source = c THEN m.amount ELSE 0
               /\ Given(s, c) = IF m.destination = c THEN m.amount ELSE 0
    <2>1. /\ Takes(s, c) \in Seq(Int) /\ Gives(s, c) \in Seq(Int)
          /\ Len(Takes(s, c)) = Len(s) /\ Len(Gives(s, c)) = Len(s)
          /\ \A i \in 1 .. Len(s) :
                /\ Takes(s, c)[i] = IF s[i].source = c THEN s[i].amount ELSE 0
                /\ Gives(s, c)[i] = IF s[i].destination = c
                                    THEN s[i].amount ELSE 0
      BY <1>1, Shares
    <2>2. 1 \in 1 .. Len(s) /\ \A k \in 1 .. Len(s) : k = 1
      BY <1>1
    <2>3. Total(Takes(s, c)) = Takes(s, c)[1]
      BY <2>1, <2>2, TotalOne
    <2>4. Total(Gives(s, c)) = Gives(s, c)[1]
      BY <2>1, <2>2, TotalOne
    <2>5. Pulled(s, c) = Total(Takes(s, c)) /\ Given(s, c) = Total(Gives(s, c))
      BY <1>1, Flows
    <2> QED BY <1>1, <2>1, <2>2, <2>3, <2>4, <2>5
  <1> QED BY <1>1, <1>2 DEF s

LEMMA OneBalances ==
    ASSUME NEW m \in Move
    PROVE  Total(Row(Changes(<<m>>))) = Pulled(<<m>>, RTA)
  <1> DEFINE gain == [c \in Categories |-> IF m.destination = c THEN m.amount ELSE 0]
             loss == [c \in Categories |-> IF m.source = c THEN -m.amount ELSE 0]
             all  == Changes(<<m>>)
  <1>1. /\ m.destination \in Categories /\ m.source \in Buckets
        /\ m.amount \in Nat
    BY DEF Move
  <1>2. /\ gain \in [Categories -> Int] /\ loss \in [Categories -> Int]
        /\ gain[m.destination] = m.amount
        /\ \A x \in Categories : x # m.destination => gain[x] = 0
        /\ \A x \in Categories : x # m.source => loss[x] = 0
        /\ m.source \in Categories => loss[m.source] = -m.amount
    BY <1>1
  <1>3. /\ <<m>> \in Seq(Move)
        /\ \A c : /\ Pulled(<<m>>, c) = IF m.source = c THEN m.amount ELSE 0
                  /\ Given(<<m>>, c) = IF m.destination = c THEN m.amount ELSE 0
    BY OneFlow
  <1>4. all \in [Categories -> Int]
    BY <1>3, ChangesTyped
  <1>5. \A x \in Categories : all[x] = gain[x] + loss[x]
    BY <1>1, <1>3 DEF Changes, Change
  <1> HIDE DEF gain, loss, all
  <1>6. Total(Row(all)) = Total(Row(gain)) + Total(Row(loss))
    BY <1>2, <1>4, <1>5, RowSum
  <1>7. Total(Row(gain)) = m.amount
    <2> DEFINE d == m.destination
    <2>1. /\ d \in Categories /\ gain[d] = m.amount
          /\ \A x \in Categories : x # d => gain[x] = 0
      BY <1>1, <1>2
    <2> HIDE DEF d
    <2>2. Total(Row(gain)) = gain[d]
      BY <1>2, <2>1, RowOne
    <2> QED BY <2>1, <2>2
  <1>8. CASE m.source = RTA
    <2>1. \A x \in Categories : loss[x] = 0
      BY <1>2, <1>8, Budget
    <2>2. Total(Row(loss)) = 0
      BY <1>2, <2>1, RowNone
    <2> QED BY <1>1, <1>3, <1>6, <1>7, <1>8, <2>2 DEF all
  <1>9. CASE m.source # RTA
    <2> DEFINE s == m.source
    <2>1. s \in Categories
      BY <1>1, <1>9 DEF Buckets
    <2>2. loss[s] = -m.amount /\ \A x \in Categories : x # s => loss[x] = 0
      BY <1>2, <2>1
    <2> HIDE DEF s
    <2>3. Total(Row(loss)) = loss[s]
      BY <1>2, <2>1, <2>2, RowOne
    <2> QED BY <1>1, <1>3, <1>6, <1>7, <1>9, <2>2, <2>3 DEF all
  <1> QED BY <1>8, <1>9

(* What the categories gain together is what Ready-to-Assign gives.        *)
LEMMA Balances ==
    ASSUME NEW flows \in Seq(Move)
    PROVE  Total(Row(Changes(flows))) = Pulled(flows, RTA)
  <1> DEFINE n == Len(flows)
             first(k) == SubSeq(flows, 1, k)
             even(w) == Total(Row(Changes(w))) = Pulled(w, RTA)
             S == {k \in 0 .. n : even(first(k))}
  <1>1. /\ n \in Nat /\ DOMAIN flows = 1 .. n /\ \A k \in 1 .. n : flows[k] \in Move
        /\ first(0) = <<>> /\ first(n) = flows
        /\ \A k \in 1 .. n : first(k - 1) \in Seq(Move)
    OBVIOUS
  <1>2. ASSUME NEW k \in 1 .. n
        PROVE  first(k) = first(k - 1) \o <<flows[k]>>
    BY <1>1
  <1> HIDE DEF first, n
  <1>3. even(<<>>)
    <2>1. <<>> \in Seq(Move)
      OBVIOUS
    <2>2. \A c \in Categories : Changes(<<>>)[c] = 0
      BY FlowsOfNone DEF Changes, Change
    <2>3. Changes(<<>>) \in [Categories -> Int]
      BY <2>1, ChangesTyped
    <2>4. Total(Row(Changes(<<>>))) = 0
      BY <2>2, <2>3, RowNone
    <2> QED BY <2>4, FlowsOfNone
  <1>4. ASSUME NEW a \in Seq(Move), even(a), NEW m \in Move
        PROVE  even(a \o <<m>>)
    <2> DEFINE one == <<m>>
               b == a \o one
    <2>1. one \in Seq(Move) /\ Total(Row(Changes(one))) = Pulled(one, RTA)
      BY OneFlow, OneBalances
    <2> HIDE DEF one
    <2>2. /\ b \in Seq(Move)
          /\ \A c : /\ Pulled(b, c) = Pulled(a, c) + Pulled(one, c)
                    /\ Given(b, c) = Given(a, c) + Given(one, c)
      BY <2>1, FlowsConcat
    <2> HIDE DEF b
    <2>3. /\ Changes(a) \in [Categories -> Int]
          /\ Changes(b) \in [Categories -> Int]
          /\ Changes(one) \in [Categories -> Int]
          /\ Pulled(a, RTA) \in Nat /\ Pulled(one, RTA) \in Nat
      BY <2>1, <2>2, ChangesTyped
    <2>4. \A c : /\ Given(a, c) \in Nat /\ Pulled(a, c) \in Nat
      BY Flows
    <2>5. \A c : /\ Given(one, c) \in Nat /\ Pulled(one, c) \in Nat
      BY <2>1, Flows
    <2>6. ASSUME NEW x \in Categories
          PROVE  Changes(b)[x] = Changes(a)[x] + Changes(one)[x]
      <3>1. /\ Pulled(b, x) = Pulled(a, x) + Pulled(one, x)
            /\ Given(b, x) = Given(a, x) + Given(one, x)
            /\ Given(a, x) \in Nat /\ Pulled(a, x) \in Nat
            /\ Given(one, x) \in Nat /\ Pulled(one, x) \in Nat
        BY <2>2, <2>4, <2>5
      <3> QED BY <3>1 DEF Changes, Change
    <2>7. Total(Row(Changes(b)))
            = Total(Row(Changes(a))) + Total(Row(Changes(one)))
      BY <2>3, <2>6, RowSum
    <2>8. even(b)
      BY <1>4, <2>1, <2>2, <2>7
    <2> QED BY <2>8 DEF b, one
  <1> HIDE DEF even
  <1>5. 0 \in S
    BY <1>1, <1>3
  <1>6. ASSUME NEW k \in 1 .. n, k - 1 \in S PROVE k \in S
    <2>1. even(first(k - 1)) /\ first(k - 1) \in Seq(Move) /\ flows[k] \in Move
      BY <1>1, <1>6
    <2>2. even(first(k))
      BY <1>2, <1>4, <2>1
    <2> QED BY <1>1, <2>2
  <1>7. \A k \in 0 .. n : k \in S
    <2> HIDE DEF S
    <2> QED BY <1>1, <1>5, <1>6, Upward
  <1>8. even(flows)
    BY <1>1, <1>7
  <1> QED BY <1>8 DEF even

(* The bound on the months is what is left of them.                        *)
MonthsCounted == month + left["month"] = 1 + Bounds["month"]

(* The needs name a category once, and a plan takes from none of them.     *)
PlanApart ==
    /\ Distinct(needs)
    /\ \A i \in DOMAIN moves : /\ moves[i].source \notin NeedyOf(needs)
                               /\ moves[i].destination \in NeedyOf(needs)

(* Where the workflow stands and what it has so far.                       *)
Progress ==
    /\ (pc = "closed") <=> (outcome # "none")
    /\ pc \in {"open", "wait", "clock", "read", "write", "verify", "tell"}
          => moves # <<>>
    /\ pc \in {"propose", "open", "wait", "clock", "read"}
          => verified /\ wrote = {}
    /\ pc \in {"write", "verify"} => todo # <<>>
    /\ pc = "tell" \/ outcome \in {"applied", "verify-failed"} => todo = <<>>
    /\ outcome = "applied" => verified
    /\ outcome = "verify-failed" => ~verified

(* The figures read before writing bear the plan.                          *)
Affordable ==
    \A i \in DOMAIN moves :
        LET s == moves[i].source IN
        IF s = RTA THEN Pulled(moves, s) <= income - Total(Row(baseline))
        ELSE Pulled(moves, s) <= baseline[s] - committed[s]

(* Nobody else at the budget: what is no longer to be written stands where *)
(* the plan puts it.                                                       *)
Applying ==
    /\ \/ pc \in {"write", "verify", "tell"}
       \/ outcome \in {"applied", "verify-failed"}
    /\ ~meddled
    =>
        /\ verified /\ Affordable
        /\ \A c \in Categories :
              \/ budgeted[month][c] = Target(c)
              \/ \E i \in DOMAIN todo : todo[i] = c
        /\ pc = "verify" => budgeted[month][Head(todo)] = Target(Head(todo))

(* A plan is sound when made, apart from the needs it covers, affordable   *)
(* once checked, and written out by what is still to be written.           *)
IInv == /\ TypeOK /\ MonthsCounted /\ PlanApart /\ Progress /\ PlanSound
        /\ Applying /\ RefusedUntouched

USE DEF Kinds, Verdicts, Pcs, Refusals, Outcomes

LEMMA Figures ==
    ASSUME TypeOK
    PROVE  /\ budgeted[month] \in [Categories -> Int]
           /\ \A c \in Categories : /\ budgeted[month][c] \in Int
                                    /\ committed[c] \in Nat /\ scheduled[c] \in Nat
                                    /\ Change(moves, c) \in Int
                                    /\ Target(c) \in Int
           /\ Excess \in [Categories -> Int] /\ Outlook \in [Categories -> Int]
           /\ Rta \in Int /\ Rta = income - Total(Row(budgeted[month]))
           /\ Total(Row(budgeted[month])) \in Int /\ Total(Row(baseline)) \in Int
  <1>1. /\ budgeted[month] \in [Categories -> Int]
        /\ committed \in [Categories -> Nat] /\ scheduled \in [Categories -> Nat]
        /\ baseline \in [Categories -> Int] /\ moves \in Seq(Move) /\ income \in Int
    BY DEF TypeOK
  <1>2. \A c \in Categories : Change(moves, c) \in Int
    BY <1>1, Flows DEF Change
  <1>3. \A c \in Categories : Target(c) \in Int
    BY <1>1, <1>2 DEF Target
  <1>4. Excess \in [Categories -> Int] /\ Outlook \in [Categories -> Int]
    BY <1>1 DEF Excess, Outlook
  <1>5. Rta = income - Total(Row(budgeted[month]))
    BY DEF Rta, Row
  <1>6. /\ Row(budgeted[month]) \in Seq(Int) /\ Row(baseline) \in Seq(Int)
    BY <1>1, RowGood
  <1>7. Total(Row(budgeted[month])) \in Int /\ Total(Row(baseline)) \in Int
    BY <1>6, TotalInt
  <1> QED BY <1>1, <1>2, <1>3, <1>4, <1>5, <1>7

LEMMA InitGood == Init => IInv
  <1> SUFFICES ASSUME Init PROVE IInv
    OBVIOUS
  <1>1. /\ month = 1 /\ month \in Months /\ left = Bounds /\ left \in [Kinds -> Nat]
        /\ left["month"] \in Nat
    BY BalanceAssumption DEF Init, Months
  <1>2. budgeted \in [Months -> [Categories -> Int]] /\ budgeted[1] \in [Categories -> Int]
    <2>1. PICK b \in [Categories -> 0 .. Largest] :
             budgeted = [m \in Months |-> IF m = 1 THEN b
                                          ELSE [c \in Categories |-> Committed]]
      BY DEF Init
    <2>2. \A m \in Months : budgeted[m] \in [Categories -> Int]
      BY <2>1, BalanceAssumption
    <2> QED BY <1>1, <2>1, <2>2
  <1>3. committed \in [Categories -> Nat]
    BY BalanceAssumption DEF Init
  <1>4. scheduled \in [Categories -> Nat]
    BY BalanceAssumption DEF Init
  <1>5. income \in Int
    <2>1. PICK rta \in Pool :
             income = rta + Total([i \in DOMAIN Cats |-> budgeted[1][Cats[i]]])
      BY DEF Init
    <2>2. Row(budgeted[1]) \in Seq(Int)
      BY <1>2, RowGood
    <2>3. Total(Row(budgeted[1])) \in Int
      BY <2>2, TotalInt
    <2> QED BY <2>1, <2>3, BalanceAssumption DEF Row
  <1>6. Outlook \in [Categories -> Int]
    BY <1>1, <1>2, <1>3, <1>4 DEF Outlook, Excess
  <1>7. needs \in Seq(Need) /\ Distinct(needs)
    BY <1>6, NeedsGood DEF Init
  <1>8. /\ pc = "propose" /\ outcome = "none" /\ moves = <<>> /\ todo = <<>>
        /\ verified = TRUE /\ wrote = {} /\ replies = <<>> /\ late = FALSE
        /\ meddled = FALSE /\ baseline = budgeted[1]
    BY DEF Init
  <1>9. <<>> \in Seq(Move) /\ <<>> \in Seq(Categories) /\ <<>> \in Seq(Verdicts)
        /\ DOMAIN <<>> = {}
    OBVIOUS
  <1>10. TypeOK
    BY <1>1, <1>2, <1>3, <1>4, <1>5, <1>7, <1>8, <1>9 DEF TypeOK
  <1>11. MonthsCounted
    BY <1>1 DEF MonthsCounted
  <1>12. PlanApart
    BY <1>7, <1>8, <1>9 DEF PlanApart
  <1>13. Progress /\ PlanSound /\ Applying /\ RefusedUntouched
    BY <1>8 DEF Progress, PlanSound, Applying, RefusedUntouched
  <1> QED BY <1>10, <1>11, <1>12, <1>13 DEF IInv

LEMMA Used ==
    ASSUME left \in [Kinds -> Nat], NEW k \in Kinds, Use(k)
    PROVE  /\ left' \in [Kinds -> Nat] /\ left'[k] = left[k] - 1
           /\ left[k] > 0 /\ \A j \in Kinds : j # k => left'[j] = left[j]
  <1> DEFINE K == Kinds
  <1>1. left \in [K -> Nat] /\ k \in K
    OBVIOUS
  <1> HIDE DEF K
  <1>2. left' = [left EXCEPT ![k] = @ - 1] /\ left[k] > 0 /\ left[k] \in Nat
    BY <1>1 DEF Use
  <1>3. \A j \in K : left'[j] = IF j = k THEN left[j] - 1 ELSE left[j]
    BY <1>1, <1>2
  <1>4. left' \in [K -> Nat]
    BY <1>1, <1>2
  <1> QED BY <1>1, <1>2, <1>3, <1>4 DEF K

LEMMA TypeNext == TypeOK /\ MonthsCounted /\ PlanApart /\ Progress /\ Next => TypeOK'
  <1> SUFFICES ASSUME TypeOK, MonthsCounted, PlanApart, Progress, Next PROVE TypeOK'
    OBVIOUS
  <1>1. CASE Propose
    <2>1. Excess \in [Categories -> Int] /\ Rta \in Int /\ needs \in Seq(Need)
          /\ Distinct(needs)
      BY Figures DEF TypeOK, PlanApart
    <2>2. PlanCoverage(needs, SourcesOf(Excess, Rta, needs),
                       Drawable(Excess, Rta)) \in Seq(Move)
      BY <2>1, PlanGood
    <2>3. moves' \in Seq(Move)
      BY <1>1, <2>2 DEF Propose
    <2>4. pc' \in Pcs /\ outcome' \in Outcomes /\ meddled' \in BOOLEAN
      BY <1>1 DEF Propose, Close, TypeOK
    <2> QED BY <1>1, <2>3, <2>4 DEF Propose, TypeOK, ynab, apply, inbox
  <1>2. CASE Open
    BY <1>2 DEF Open, TypeOK, ynab, asked, apply, inbox
  <1>3. CASE TakeReply
    <2>1. replies' \in Seq(Verdicts) /\ Head(replies) \in Verdicts
      BY <1>3 DEF TakeReply, TypeOK
    <2>2. pc' \in Pcs /\ outcome' \in Outcomes
      <3>1. CASE Head(replies) = "apply"
        BY <1>3, <3>1 DEF TakeReply, Decide, Close, TypeOK
      <3>2. CASE Head(replies) = "decline"
        BY <1>3, <3>2 DEF TakeReply, Decide, Close, TypeOK
      <3>3. CASE Head(replies) = "clarify"
        BY <1>3, <3>3 DEF TakeReply, Decide, Close, TypeOK
      <3> QED BY <2>1, <3>1, <3>2, <3>3
    <2> QED BY <1>3, <2>1, <2>2 DEF TakeReply, TypeOK, ynab, asked, apply
  <1>4. CASE Lapse
    BY <1>4 DEF Lapse, Close, TypeOK, ynab, asked, apply, inbox
  <1>5. CASE CheckPeriod
    BY <1>5 DEF CheckPeriod, Close, TypeOK, ynab, asked, apply, inbox
  <1>6. CASE ReadState
    <2>1. Touched(moves) \in Seq(Categories)
      BY TouchedGood DEF TypeOK
    <2>2. todo' \in Seq(Categories) /\ pc' \in Pcs /\ outcome' \in Outcomes
      BY <1>6, <2>1 DEF ReadState, Close, TypeOK
    <2>3. baseline' \in [Categories -> Int] /\ meddled' \in BOOLEAN
      BY <1>6, Figures DEF ReadState
    <2> QED BY <1>6, <2>2, <2>3 DEF ReadState, TypeOK, ynab, asked, inbox
  <1>7. CASE SetBudget
    <2>1. Head(todo) \in Categories /\ month \in Months
      BY <1>7 DEF SetBudget, Progress, TypeOK
    <2>2. Target(Head(todo)) \in Int
      BY <2>1, Figures
    <2>3. budgeted' \in [Months -> [Categories -> Int]]
      BY <1>7, <2>1, <2>2 DEF SetBudget, TypeOK
    <2>4. wrote' \subseteq Months \X Categories
      BY <1>7, <2>1 DEF SetBudget, TypeOK
    <2> QED BY <1>7, <2>3, <2>4 DEF SetBudget, TypeOK, asked, inbox
  <1>8. CASE ReadBack
    <2>1. todo' \in Seq(Categories)
      BY <1>8 DEF ReadBack, Progress, TypeOK
    <2>2. pc' \in Pcs /\ verified' \in BOOLEAN
      BY <1>8 DEF ReadBack, TypeOK
    <2> QED BY <1>8, <2>1, <2>2 DEF ReadBack, TypeOK, ynab, asked, inbox
  <1>9. CASE RepeatWrite
    <2>1. left' \in [Kinds -> Nat]
      BY <1>9, Used DEF RepeatWrite, TypeOK
    <2> QED BY <1>9, <2>1 DEF RepeatWrite, TypeOK, ynab, asked, apply, inbox
  <1>10. CASE TellOutcome
    BY <1>10 DEF TellOutcome, Close, TypeOK, ynab, asked, apply, inbox
  <1>11. CASE Fail
    <2>1. left' \in [Kinds -> Nat]
      BY <1>11, Used DEF Fail, TypeOK
    <2> QED BY <1>11, <2>1 DEF Fail, Close, TypeOK, ynab, asked, apply, inbox
  <1>12. CASE DeadlinePasses
    BY <1>12 DEF DeadlinePasses, TypeOK, ynab, asked, apply
  <1>13. ASSUME NEW v \in Verdicts, Reply(v)
         PROVE  TypeOK'
    <2>1. left' \in [Kinds -> Nat]
      BY <1>13, Used DEF Reply, TypeOK
    <2>2. replies' \in Seq(Verdicts)
      BY <1>13 DEF Reply, TypeOK
    <2> QED BY <1>13, <2>1, <2>2 DEF Reply, TypeOK, ynab, asked, apply
  <1>14. ASSUME NEW c \in Categories, OwnerSpends(c)
         PROVE  TypeOK'
    <2>1. left' \in [Kinds -> Nat]
      BY <1>14, Used DEF OwnerSpends, TypeOK
    <2>2. committed' \in [Categories -> Nat]
      BY <1>14 DEF OwnerSpends, TypeOK
    <2> QED BY <1>14, <2>1, <2>2 DEF OwnerSpends, TypeOK, asked, apply, inbox
  <1>15. ASSUME NEW c \in Categories, NEW n \in 0 .. Largest, OwnerEdits(c, n)
         PROVE  TypeOK'
    <2>1. n \in Int /\ month \in Months
      BY BalanceAssumption DEF TypeOK
    <2>2. budgeted' \in [Months -> [Categories -> Int]]
      BY <1>15, <2>1 DEF OwnerEdits, TypeOK
    <2>3. left' \in [Kinds -> Nat]
      BY <1>15, Used DEF OwnerEdits, TypeOK
    <2> QED BY <1>15, <2>2, <2>3 DEF OwnerEdits, TypeOK, asked, apply, inbox
  <1>16. CASE MonthEnds
    <2>1. left' \in [Kinds -> Nat] /\ left["month"] > 0
      BY <1>16, Used DEF MonthEnds, TypeOK
    <2>2. Bounds["month"] \in Nat /\ left["month"] \in Nat
      BY BalanceAssumption DEF TypeOK
    <2>3. month' \in Months
      <3> DEFINE m == left["month"]
                 b == Bounds["month"]
      <3>1. m \in Nat /\ b \in Nat /\ m > 0 /\ month + m = 1 + b
        BY <2>1, <2>2 DEF MonthsCounted
      <3>2. month \in 1 .. b + 1 /\ month' = month + 1 /\ Months = 1 .. b + 1
        BY <1>16 DEF MonthEnds, TypeOK, Months
      <3> HIDE DEF m, b
      <3> QED BY <3>1, <3>2
    <2> QED BY <1>16, <2>1, <2>3 DEF MonthEnds, TypeOK, asked, apply, inbox
  <1> QED
    BY <1>1, <1>2, <1>3, <1>4, <1>5, <1>6, <1>7, <1>8, <1>9, <1>10, <1>11,
       <1>12, <1>13, <1>14, <1>15, <1>16 DEF Next, Step, Owner

LEMMA MonthSpent ==
    ASSUME TypeOK, Use("month")
    PROVE  left'["month"] = left["month"] - 1 /\ left["month"] \in Nat
  <1>1. left \in [Kinds -> Nat]
    BY DEF TypeOK
  <1>2. left' = [left EXCEPT !["month"] = @ - 1]
    BY DEF Use
  <1> QED BY <1>1, <1>2

LEMMA OtherSpent ==
    ASSUME TypeOK, NEW k \in Kinds \ {"month"}, Use(k)
    PROVE  left'["month"] = left["month"]
  <1>1. left \in [Kinds -> Nat]
    BY DEF TypeOK
  <1>2. left' = [left EXCEPT ![k] = @ - 1]
    BY DEF Use
  <1> QED BY <1>1, <1>2

LEMMA MonthsCountedNext == TypeOK /\ MonthsCounted /\ Next => MonthsCounted'
  <1> SUFFICES ASSUME TypeOK, MonthsCounted, Next PROVE MonthsCounted'
    OBVIOUS
  <1>1. CASE MonthEnds
    <2>1. left'["month"] = left["month"] - 1 /\ left["month"] \in Nat
      BY <1>1, MonthSpent DEF MonthEnds
    <2>2. month' = month + 1
      BY <1>1 DEF MonthEnds
    <2>3. month \in Int
      BY BalanceAssumption DEF TypeOK, Months
    <2> QED BY <2>1, <2>2, <2>3 DEF MonthsCounted
  <1>2. ASSUME UNCHANGED month, NEW k \in Kinds \ {"month"}, Use(k)
        PROVE  MonthsCounted'
    <2>1. left'["month"] = left["month"]
      BY <1>2, OtherSpent
    <2> QED BY <1>2, <2>1 DEF MonthsCounted
  <1>3. CASE UNCHANGED <<month, left>>
    BY <1>3 DEF MonthsCounted
  <1>4. CASE RepeatWrite
    <2>1. UNCHANGED month /\ Use("lost")
      BY <1>4 DEF RepeatWrite, ynab
    <2> QED BY <1>2, <2>1
  <1>5. CASE Fail
    <2>1. UNCHANGED month /\ Use("fault")
      BY <1>5 DEF Fail, ynab
    <2> QED BY <1>2, <2>1
  <1>6. CASE Owner
    <2>1. ASSUME NEW v \in Verdicts, Reply(v) PROVE MonthsCounted'
      <3>1. UNCHANGED month /\ Use("reply")
        BY <2>1 DEF Reply, ynab
      <3> QED BY <1>2, <3>1
    <2>2. ASSUME NEW c \in Categories, OwnerSpends(c) PROVE MonthsCounted'
      <3>1. UNCHANGED month /\ Use("change")
        BY <2>2 DEF OwnerSpends
      <3> QED BY <1>2, <3>1
    <2>3. ASSUME NEW c \in Categories, NEW n \in 0 .. Largest, OwnerEdits(c, n)
          PROVE  MonthsCounted'
      <3>1. UNCHANGED month /\ Use("change")
        BY <2>3 DEF OwnerEdits
      <3> QED BY <1>2, <3>1
    <2> QED BY <1>6, <2>1, <2>2, <2>3 DEF Owner
  <1>7. CASE Step \/ DeadlinePasses
    <2>1. CASE Propose
      BY <1>3, <2>1 DEF Propose, ynab
    <2>2. CASE Open
      BY <1>3, <2>2 DEF Open, ynab
    <2>3. CASE TakeReply
      BY <1>3, <2>3 DEF TakeReply, ynab
    <2>4. CASE Lapse
      BY <1>3, <2>4 DEF Lapse, ynab
    <2>5. CASE CheckPeriod
      BY <1>3, <2>5 DEF CheckPeriod, ynab
    <2>6. CASE ReadState
      BY <1>3, <2>6 DEF ReadState, ynab
    <2>7. CASE SetBudget
      BY <1>3, <2>7 DEF SetBudget
    <2>8. CASE ReadBack
      BY <1>3, <2>8 DEF ReadBack, ynab
    <2>9. CASE TellOutcome
      BY <1>3, <2>9 DEF TellOutcome, ynab
    <2>10. CASE DeadlinePasses
      BY <1>3, <2>10 DEF DeadlinePasses, ynab
    <2> QED BY <1>4, <1>7, <2>1, <2>2, <2>3, <2>4, <2>5, <2>6, <2>7, <2>8,
               <2>9, <2>10 DEF Step
  <1> QED BY <1>1, <1>5, <1>6, <1>7 DEF Next

(* What only a proposal changes.                                           *)
LEMMA AskedKept == Next => UNCHANGED asked \/ Propose
  BY DEF Next, Step, Owner, Open, TakeReply, Lapse, CheckPeriod, ReadState,
         SetBudget, ReadBack, RepeatWrite, TellOutcome, Fail, Reply,
         DeadlinePasses, OwnerEdits, OwnerSpends, MonthEnds, asked

LEMMA PlanApartNext == TypeOK /\ PlanApart /\ Next => PlanApart'
  <1> SUFFICES ASSUME TypeOK, PlanApart, Next PROVE PlanApart'
    OBVIOUS
  <1>1. CASE UNCHANGED asked
    BY <1>1 DEF asked, PlanApart
  <1>2. CASE Propose
    <2>1. /\ Excess \in [Categories -> Int] /\ Rta \in Int /\ needs \in Seq(Need)
          /\ Distinct(needs)
      BY Figures DEF TypeOK, PlanApart
    <2>2. /\ moves' = PlanCoverage(needs, SourcesOf(Excess, Rta, needs),
                                   Drawable(Excess, Rta))
          /\ needs' = needs
      BY <1>2 DEF Propose
    <2>3. \A i \in DOMAIN moves' : /\ moves'[i].source \notin NeedyOf(needs)
                                   /\ moves'[i].destination \in NeedyOf(needs)
      BY <2>1, <2>2, PlanGood
    <2> QED BY <2>1, <2>2, <2>3 DEF PlanApart
  <1> QED BY <1>1, <1>2, AskedKept

(* A plan that is not empty changes a category.                            *)
LEMMA SomethingToWrite ==
    ASSUME TypeOK, PlanApart, moves # <<>>
    PROVE  Touched(moves) # <<>>
  <1>1. moves \in Seq(Move)
    BY DEF TypeOK
  <1>2. 1 \in DOMAIN moves
    BY <1>1
  <1> DEFINE c == moves[1].destination
  <1>3. /\ c \in Categories /\ moves[1].amount \in Nat /\ moves[1].amount > 0
    BY <1>1, <1>2, MoveAt
  <1>4. Given(moves, c) \in Nat /\ moves[1].amount <= Given(moves, c)
    BY <1>1, <1>2, Flows
  <1>5. Pulled(moves, c) = 0
    <2>1. \A i \in DOMAIN moves : moves[i].source # c
      BY <1>2 DEF PlanApart
    <2> QED BY <1>1, <2>1, Flows
  <1>6. Change(moves, c) # 0
    BY <1>3, <1>4, <1>5 DEF Change
  <1> HIDE DEF c
  <1> QED BY <1>1, <1>3, <1>6, TouchedGood

LEMMA ProgressNext == TypeOK /\ PlanApart /\ Progress /\ Next => Progress'
  <1> SUFFICES ASSUME TypeOK, PlanApart, Progress, Next PROVE Progress'
    OBVIOUS
  <1>1. CASE Propose
    BY <1>1 DEF Propose, Close, Progress, apply
  <1>2. CASE Open
    BY <1>2 DEF Open, Progress, asked, apply
  <1>3. CASE TakeReply
    <2>1. Head(replies) \in Verdicts
      BY <1>3 DEF TakeReply, TypeOK
    <2>2. CASE Head(replies) = "apply"
      BY <1>3, <2>2 DEF TakeReply, Decide, Progress, asked, apply
    <2>3. CASE Head(replies) = "decline"
      BY <1>3, <2>3 DEF TakeReply, Decide, Close, Progress, asked, apply
    <2>4. CASE Head(replies) = "clarify"
      BY <1>3, <2>4 DEF TakeReply, Decide, Progress, asked, apply
    <2>5. \/ Head(replies) = "apply" \/ Head(replies) = "decline"
          \/ Head(replies) = "clarify"
      BY <2>1
    <2> QED BY <2>2, <2>3, <2>4, <2>5
  <1>4. CASE Lapse
    BY <1>4 DEF Lapse, Close, Progress, asked, apply
  <1>5. CASE CheckPeriod
    BY <1>5 DEF CheckPeriod, Close, Progress, asked, apply
  <1>6. CASE ReadState
    <2>1. moves # <<>>
      BY <1>6 DEF ReadState, Progress
    <2>2. Touched(moves) # <<>>
      BY <2>1, SomethingToWrite
    <2> QED BY <1>6, <2>1, <2>2 DEF ReadState, Close, Progress, asked
  <1>7. CASE SetBudget
    BY <1>7 DEF SetBudget, Progress, asked
  <1>8. CASE ReadBack
    BY <1>8 DEF ReadBack, Progress, asked
  <1>9. CASE RepeatWrite
    BY <1>9 DEF RepeatWrite, Progress, asked, apply
  <1>10. CASE TellOutcome
    BY <1>10 DEF TellOutcome, Close, Progress, asked, apply
  <1>11. CASE Fail
    BY <1>11 DEF Fail, Close, Progress, asked, apply
  <1>12. CASE DeadlinePasses \/ MonthEnds
    BY <1>12 DEF DeadlinePasses, MonthEnds, Progress, asked, apply
  <1>13. CASE Owner
    BY <1>13 DEF Owner, Reply, OwnerSpends, OwnerEdits, Progress, asked, apply
  <1> QED BY <1>1, <1>2, <1>3, <1>4, <1>5, <1>6, <1>7, <1>8, <1>9, <1>10,
             <1>11, <1>12, <1>13 DEF Next, Step

LEMMA RefusedNext ==
    TypeOK /\ Progress /\ RefusedUntouched /\ Next => RefusedUntouched'
  <1> SUFFICES ASSUME TypeOK, Progress, RefusedUntouched, Next
               PROVE  RefusedUntouched'
    OBVIOUS
  <1>1. CASE Propose
    BY <1>1 DEF Propose, Close, Progress, apply, RefusedUntouched
  <1>2. CASE Open
    BY <1>2 DEF Open, Progress, apply, RefusedUntouched
  <1>3. CASE TakeReply
    BY <1>3 DEF TakeReply, Progress, apply, RefusedUntouched
  <1>4. CASE Lapse
    BY <1>4 DEF Lapse, Close, Progress, apply, RefusedUntouched
  <1>5. CASE CheckPeriod
    BY <1>5 DEF CheckPeriod, Close, Progress, apply, RefusedUntouched
  <1>6. CASE ReadState
    BY <1>6 DEF ReadState, Close, Progress, RefusedUntouched
  <1>7. CASE SetBudget
    <2>1. outcome' = "none"
      BY <1>7 DEF SetBudget, Progress
    <2> QED BY <2>1 DEF RefusedUntouched
  <1>8. CASE ReadBack
    BY <1>8 DEF ReadBack, RefusedUntouched
  <1>9. CASE RepeatWrite
    BY <1>9 DEF RepeatWrite, apply, RefusedUntouched
  <1>10. CASE TellOutcome
    <2>1. outcome' = "applied" \/ outcome' = "verify-failed"
      BY <1>10 DEF TellOutcome, Close
    <2> QED BY <2>1 DEF RefusedUntouched
  <1>11. CASE Fail
    <2>1. outcome' = "failed"
      BY <1>11 DEF Fail, Close
    <2> QED BY <2>1 DEF RefusedUntouched
  <1>12. CASE DeadlinePasses \/ MonthEnds
    BY <1>12 DEF DeadlinePasses, MonthEnds, apply, RefusedUntouched
  <1>13. CASE Owner
    BY <1>13 DEF Owner, Reply, OwnerSpends, OwnerEdits, apply, RefusedUntouched
  <1> QED BY <1>1, <1>2, <1>3, <1>4, <1>5, <1>6, <1>7, <1>8, <1>9, <1>10,
             <1>11, <1>12, <1>13 DEF Next, Step

LEMMA PlanSoundNext == TypeOK /\ PlanApart /\ PlanSound /\ Next => PlanSound'
  <1> SUFFICES ASSUME TypeOK, PlanApart, PlanSound, Next, pc' = "open", ~meddled'
               PROVE  PlanSound'
    BY DEF PlanSound
  <1>1. CASE Propose
    <2>1. /\ Excess \in [Categories -> Int] /\ Rta \in Int /\ needs \in Seq(Need)
          /\ Distinct(needs)
      BY Figures DEF TypeOK, PlanApart
    <2> DEFINE drawable == Drawable(Excess, Rta)
    <2>2. /\ moves' = PlanCoverage(needs, SourcesOf(Excess, Rta, needs), drawable)
          /\ UNCHANGED <<needs, ynab>>
      BY <1>1 DEF Propose
    <2>3. /\ \A b \in Buckets : Pulled(moves', b) <= drawable[b]
          /\ \A i \in DOMAIN moves' : moves'[i].source \notin NeedyOf(needs)
          /\ \A i \in DOMAIN needs :
                \/ Given(moves', needs[i].category) = needs[i].shortfall
                \/ /\ Given(moves', needs[i].category) < needs[i].shortfall
                   /\ \A b \in Buckets \ NeedyOf(needs) :
                         Pulled(moves', b) = drawable[b]
      BY <2>1, <2>2, PlanGood
    <2>4. Drawable(Excess, Rta)' = drawable
      BY <2>2 DEF Excess, Rta, ynab
    <2> HIDE DEF drawable
    <2> QED BY <2>2, <2>3, <2>4 DEF PlanSound
  <1>2. CASE ~Propose
    <2>1. ~Open /\ ~Lapse /\ ~CheckPeriod /\ ~SetBudget /\ ~ReadBack
      BY DEF Open, Lapse, CheckPeriod, Close, SetBudget, ReadBack
    <2>2. ~ReadState /\ ~RepeatWrite /\ ~TellOutcome /\ ~Fail /\ ~MonthEnds
      BY DEF ReadState, RepeatWrite, TellOutcome, Fail, Close, MonthEnds
    <2>3. ~TakeReply
      <3> SUFFICES ASSUME TakeReply PROVE FALSE
        OBVIOUS
      <3>1. Head(replies) \in Verdicts
        BY DEF TakeReply, TypeOK
      <3>2. \/ Head(replies) = "apply" \/ Head(replies) = "decline"
            \/ Head(replies) = "clarify"
        BY <3>1
      <3>3. pc = "wait" /\ pc' \in {"clock", "closed", "wait"}
        BY <3>2 DEF TakeReply, Decide, Close
      <3> QED BY <3>3
    <2>4. ~DeadlinePasses /\ ~Owner
      BY DEF DeadlinePasses, Owner, Reply, OwnerSpends, OwnerEdits
    <2> QED BY <1>2, <2>1, <2>2, <2>3, <2>4 DEF Next, Step
  <1> QED BY <1>1, <1>2

Engaged == \/ pc \in {"write", "verify", "tell"}
           \/ outcome \in {"applied", "verify-failed"}

(* A step that keeps to what is applied.                                   *)
LEMMA EngagedBefore ==
    ASSUME TypeOK, Progress, Next, Engaged', ~meddled'
    PROVE  \/ ReadState /\ CheckMoves(moves, Drawable(Excess, Rta))
           \/ SetBudget \/ ReadBack
           \/ /\ Engaged /\ ~meddled /\ (pc' = "verify" => pc = "verify")
              /\ UNCHANGED <<ynab, asked, apply>>
  <1>1. outcome = "none" \/ pc = "closed"
    BY DEF Progress
  <1>2. CASE Propose
    BY <1>1, <1>2 DEF Propose, Close, Engaged
  <1>3. CASE Open
    BY <1>1, <1>3 DEF Open, Engaged
  <1>4. CASE TakeReply
    <2>1. Head(replies) \in Verdicts
      BY <1>4 DEF TakeReply, TypeOK
    <2>2. \/ Head(replies) = "apply" \/ Head(replies) = "decline"
          \/ Head(replies) = "clarify"
      BY <2>1
    <2>3. pc = "wait" /\ \/ pc' = "clock" /\ outcome' = outcome
                         \/ pc' = "closed" /\ outcome' = "declined"
                         \/ pc' = "wait" /\ outcome' = outcome
      BY <1>4, <2>2 DEF TakeReply, Decide, Close
    <2> QED BY <1>1, <2>3 DEF Engaged
  <1>5. CASE Lapse
    BY <1>5 DEF Lapse, Close, Engaged
  <1>6. CASE CheckPeriod
    BY <1>1, <1>6 DEF CheckPeriod, Close, Engaged
  <1>7. CASE ReadState
    <2>1. CASE CheckMoves(moves, Drawable(Excess, Rta))
      BY <1>7, <2>1
    <2>2. CASE ~CheckMoves(moves, Drawable(Excess, Rta))
      <3>1. pc' = "closed" /\ outcome' = "rejected"
        BY <1>7, <2>2 DEF ReadState, Close
      <3> QED BY <3>1 DEF Engaged
    <2> QED BY <2>1, <2>2
  <1>8. CASE RepeatWrite
    BY <1>8 DEF RepeatWrite, Engaged
  <1>9. CASE TellOutcome
    BY <1>9 DEF TellOutcome, Close, Engaged
  <1>10. CASE Fail
    <2>1. pc' = "closed" /\ outcome' = "failed"
      BY <1>10 DEF Fail, Close
    <2> QED BY <2>1 DEF Engaged
  <1>11. CASE DeadlinePasses
    BY <1>11 DEF DeadlinePasses, Engaged
  <1>12. CASE Owner \/ MonthEnds
    BY <1>12 DEF Owner, Reply, OwnerSpends, OwnerEdits, MonthEnds, Engaged
  <1> QED BY <1>2, <1>3, <1>4, <1>5, <1>6, <1>7, <1>8, <1>9, <1>10,
             <1>11, <1>12 DEF Next, Step

LEMMA ApplyingNext == TypeOK /\ Progress /\ Applying /\ Next => Applying'
  <1> SUFFICES ASSUME TypeOK, Progress, Applying, Next, Engaged', ~meddled'
               PROVE  /\ verified' /\ Affordable'
                      /\ \A c \in Categories :
                            \/ (budgeted[month][c] = Target(c))'
                            \/ (\E i \in DOMAIN todo : todo[i] = c)'
                      /\ pc' = "verify" =>
                            (budgeted[month][Head(todo)] = Target(Head(todo)))'
    BY DEF Applying, Engaged
  <1>1. CASE ReadState /\ CheckMoves(moves, Drawable(Excess, Rta))
    <2>1. /\ pc = "read" /\ pc' = "write" /\ baseline' = budgeted[month]
          /\ todo' = Touched(moves)
          /\ UNCHANGED <<ynab, asked, verified, wrote>>
      BY <1>1 DEF ReadState
    <2>2. UNCHANGED <<month, budgeted, committed, income, moves>>
      BY <2>1 DEF ynab, asked
    <2>3. moves \in Seq(Move)
      BY DEF TypeOK
    <2>4. verified'
      BY <2>1 DEF Progress
    <2>5. ASSUME NEW i \in DOMAIN moves
          PROVE  LET s == moves[i].source IN
                 IF s = RTA
                 THEN Pulled(moves, s) <= income - Total(Row(budgeted[month]))
                 ELSE Pulled(moves, s) <= budgeted[month][s] - committed[s]
      <3> DEFINE s == moves[i].source
      <3>1. /\ s \in Buckets /\ moves[i].amount > 0 /\ moves[i].amount \in Nat
            /\ moves[i].amount <= Pulled(moves, s) /\ Pulled(moves, s) \in Nat
        BY <2>3, MoveAt, Flows
      <3>2. Pulled(moves, s) <= Drawable(Excess, Rta)[s]
        BY <1>1 DEF CheckMoves
      <3>3. CASE s = RTA
        <4>1. Pulled(moves, s) <= Slack(Rta)
          BY <3>1, <3>2, <3>3 DEF Drawable
        <4>2. Rta \in Int /\ Rta = income - Total(Row(budgeted[month]))
          BY Figures
        <4> HIDE DEF s
        <4>3. Pulled(moves, s) <= Rta
          BY <3>1, <4>1, <4>2 DEF Slack
        <4> QED BY <3>3, <4>2, <4>3 DEF s
      <3>4. CASE s # RTA
        <4>1. s \in Categories
          BY <3>1, <3>4 DEF Buckets
        <4>2. Pulled(moves, s) <= Slack(Excess[s])
          BY <3>1, <3>2, <3>4 DEF Drawable
        <4>3. Excess[s] \in Int /\ Excess[s] = budgeted[month][s] - committed[s]
          BY <4>1, Figures DEF Excess
        <4> HIDE DEF s
        <4>4. Pulled(moves, s) <= Excess[s]
          BY <3>1, <4>2, <4>3 DEF Slack
        <4> QED BY <3>4, <4>3, <4>4 DEF s
      <3> QED BY <3>3, <3>4
    <2>6. Affordable'
      BY <2>1, <2>2, <2>5 DEF Affordable
    <2>7. ASSUME NEW c \in Categories
          PROVE  \/ budgeted[month][c] = budgeted[month][c] + Change(moves, c)
                 \/ \E i \in DOMAIN todo' : todo'[i] = c
      <3>1. CASE Change(moves, c) = 0
        <4>1. budgeted[month][c] \in Int
          BY Figures
        <4> QED BY <3>1, <4>1
      <3>2. CASE Change(moves, c) # 0
        BY <2>1, <2>3, <3>2, TouchedGood
      <3> QED BY <3>1, <3>2
    <2> QED BY <2>1, <2>2, <2>4, <2>6, <2>7 DEF Target
  <1>2. CASE SetBudget
    <2> DEFINE h == Head(todo)
    <2>1. /\ pc = "write" /\ pc' = "verify"
          /\ budgeted' = [budgeted EXCEPT ![month][h] = Target(h)]
          /\ UNCHANGED <<month, committed, income, asked, baseline, todo,
                         verified, meddled>>
      BY <1>2 DEF SetBudget
    <2>2. h \in Categories /\ month \in Months /\ moves' = moves
      BY <2>1 DEF Progress, TypeOK, asked
    <2>3. /\ budgeted'[month][h] = Target(h)
          /\ \A c \in Categories : c # h => budgeted'[month][c] = budgeted[month][c]
      BY <2>1, <2>2 DEF TypeOK
    <2> HIDE DEF h
    <2>4. /\ verified /\ Affordable
          /\ \A c \in Categories :
                \/ budgeted[month][c] = Target(c)
                \/ \E i \in DOMAIN todo : todo[i] = c
      BY <2>1 DEF Applying
    <2>5. Affordable'
      BY <2>1, <2>2, <2>4 DEF Affordable
    <2>6. \A c : Target(c)' = Target(c)
      BY <2>1, <2>2 DEF Target
    <2>7. h' = h
      BY <2>1 DEF h
    <2> QED BY <2>1, <2>2, <2>3, <2>4, <2>5, <2>6, <2>7 DEF h
  <1>3. CASE ReadBack
    <2> DEFINE h == Head(todo)
    <2>1. /\ pc = "verify" /\ pc' \in {"tell", "write"} /\ todo' = Tail(todo)
          /\ verified' = (verified /\ budgeted[month][h] = Target(h))
          /\ UNCHANGED <<ynab, asked, baseline, meddled>>
      BY <1>3 DEF ReadBack
    <2>2. UNCHANGED <<month, budgeted, committed, income, moves>>
      BY <2>1 DEF ynab, asked
    <2>3. /\ verified /\ Affordable /\ budgeted[month][h] = Target(h)
          /\ \A c \in Categories :
                \/ budgeted[month][c] = Target(c)
                \/ \E i \in DOMAIN todo : todo[i] = c
      BY <2>1 DEF Applying
    <2>4. Affordable'
      BY <2>1, <2>2, <2>3 DEF Affordable
    <2>5. \A c : Target(c)' = Target(c)
      BY <2>1, <2>2 DEF Target
    <2>6. ASSUME NEW i \in DOMAIN todo, todo[i] # h
          PROVE  \E j \in DOMAIN Tail(todo) : Tail(todo)[j] = todo[i]
      <3>1. todo # <<>> /\ todo \in Seq(Categories)
        BY <2>1 DEF Progress, TypeOK
      <3>2. i # 1
        BY <2>6, <3>1
      <3>3. i - 1 \in DOMAIN Tail(todo) /\ Tail(todo)[i - 1] = todo[i]
        BY <3>1, <3>2
      <3> QED BY <3>3
    <2>7. ASSUME NEW c \in Categories
          PROVE  \/ budgeted[month][c] = Target(c)
                 \/ \E j \in DOMAIN Tail(todo) : Tail(todo)[j] = c
      BY <2>3, <2>6
    <2> QED BY <2>1, <2>2, <2>3, <2>4, <2>5, <2>7
  <1>4. CASE /\ Engaged /\ ~meddled /\ (pc' = "verify" => pc = "verify")
             /\ UNCHANGED <<ynab, asked, apply>>
    <2>1. UNCHANGED <<month, budgeted, committed, income, moves, baseline, todo,
                      verified>>
      BY <1>4 DEF ynab, asked, apply
    <2>2. /\ verified /\ Affordable
          /\ \A c \in Categories :
                \/ budgeted[month][c] = Target(c)
                \/ \E i \in DOMAIN todo : todo[i] = c
          /\ pc = "verify" => budgeted[month][Head(todo)] = Target(Head(todo))
      BY <1>4 DEF Applying, Engaged
    <2>3. Affordable'
      BY <2>1, <2>2 DEF Affordable
    <2>4. \A c : Target(c)' = Target(c)
      BY <2>1 DEF Target
    <2> QED BY <1>4, <2>1, <2>2, <2>3, <2>4
  <1> QED BY <1>1, <1>2, <1>3, <1>4, EngagedBefore

LEMMA IInvNext == IInv /\ [Next]_vars => IInv'
  <1> SUFFICES ASSUME IInv, [Next]_vars PROVE IInv'
    OBVIOUS
  <1>1. CASE Next
    BY <1>1, TypeNext, MonthsCountedNext, PlanApartNext, ProgressNext,
       PlanSoundNext, ApplyingNext, RefusedNext DEF IInv
  <1>2. CASE UNCHANGED vars
    <2>1. UNCHANGED <<month, budgeted, committed, scheduled, income, pc, outcome,
                      needs, moves, baseline, todo, verified, replies, late,
                      wrote, meddled, left>>
      BY <1>2 DEF vars, ynab, asked, apply, inbox
    <2>2. TypeOK' /\ MonthsCounted' /\ PlanApart' /\ Progress' /\ RefusedUntouched'
      BY <2>1 DEF IInv, TypeOK, MonthsCounted, PlanApart, Progress,
                  RefusedUntouched
    <2>3. Excess' = Excess /\ Rta' = Rta
      BY <2>1 DEF Excess, Rta
    <2>4. PlanSound'
      BY <2>1, <2>3 DEF IInv, PlanSound
    <2>5. Applying'
      BY <2>1 DEF IInv, Applying, Affordable, Target
    <2> QED BY <2>2, <2>4, <2>5 DEF IInv
  <1> QED BY <1>1, <1>2

(* What holds of an offer at every step, whatever the owner replies, edits *)
(* and spends, whichever activities are lost or fail and whenever the      *)
(* month ends (workflow/balance_workflow.py).                              *)
THEOREM Invariant == Spec => []IInv
  <1>1. Init => IInv
    BY InitGood
  <1>2. IInv /\ [Next]_vars => IInv'
    BY IInvNext
  <1> QED BY <1>1, <1>2, PTL DEF Spec

(* A plan just made from the current figures drains no donor below its     *)
(* slack, touches no category in need, covers no need beyond its gap, and  *)
(* leaves one open only once every donor is empty (budget/balance.py,      *)
(* plan_coverage).                                                         *)
THEOREM PlansStaySound == Spec => []PlanSound
  <1>1. IInv => PlanSound
    BY DEF IInv
  <1> QED BY <1>1, Invariant, PTL

LEMMA WrittenOut ==
    ASSUME IInv, outcome \in {"applied", "verify-failed"}, ~meddled
    PROVE  /\ outcome = "applied" /\ Affordable
           /\ \A c \in Categories : budgeted[month][c] = Target(c)
  <1>1. todo = <<>> /\ DOMAIN <<>> = {}
    BY DEF IInv, Progress
  <1>2. /\ verified /\ Affordable
        /\ \A c \in Categories :
              \/ budgeted[month][c] = Target(c)
              \/ \E i \in DOMAIN todo : todo[i] = c
    BY DEF IInv, Applying
  <1>3. outcome = "applied"
    BY <1>2 DEF IInv, Progress
  <1> QED BY <1>1, <1>2, <1>3

(* A plan that is written to its end, with nobody else at the budget, is   *)
(* verified and stands in the budget once, repeated writes or not; an      *)
(* offer that is refused has written nothing                               *)
(* (workflow/balance_workflow.py, _apply).                                 *)
THEOREM AppliesAsAgreed == Spec => []BudgetAsAgreed
  <1>1. IInv => BudgetAsAgreed
    BY WrittenOut DEF IInv, BudgetAsAgreed, AppliedOnce
  <1> QED BY <1>1, Invariant, PTL

LEMMA DonorsSafe == IInv => DonorsProtected
  <1> SUFFICES ASSUME IInv, outcome = "applied", ~meddled,
                      NEW i \in DOMAIN moves
               PROVE  IF moves[i].source = RTA THEN Rta >= 0
                      ELSE Excess[moves[i].source] >= 0
    BY DEF DonorsProtected
  <1> DEFINE s == moves[i].source
  <1>1. Affordable /\ \A c \in Categories : budgeted[month][c] = Target(c)
    BY WrittenOut
  <1>2. TypeOK /\ moves \in Seq(Move) /\ baseline \in [Categories -> Int]
        /\ committed \in [Categories -> Nat] /\ income \in Int
    BY DEF IInv, TypeOK
  <1>3. s \in Buckets
    BY <1>2, MoveAt
  <1>4. CASE s = RTA
    <2> DEFINE now == budgeted[month]
    <2>1. /\ now \in [Categories -> Int] /\ Rta = income - Total(Row(now))
          /\ Total(Row(now)) \in Int /\ Total(Row(baseline)) \in Int
      BY <1>2, Figures
    <2>2. /\ Changes(moves) \in [Categories -> Int] /\ Pulled(moves, RTA) \in Nat
          /\ Total(Row(Changes(moves))) = Pulled(moves, RTA)
      BY <1>2, ChangesTyped, Balances
    <2>3. \A c \in Categories : now[c] = baseline[c] + Changes(moves)[c]
      BY <1>1 DEF Target, Changes
    <2> HIDE DEF now
    <2>4. Total(Row(now)) = Total(Row(baseline)) + Total(Row(Changes(moves)))
      BY <1>2, <2>1, <2>2, <2>3, RowSum
    <2>5. Pulled(moves, RTA) <= income - Total(Row(baseline))
      BY <1>1, <1>4 DEF Affordable
    <2>6. Rta >= 0
      BY <1>2, <2>1, <2>2, <2>4, <2>5
    <2> QED BY <1>4, <2>6
  <1>5. CASE s # RTA
    <2>1. s \in Categories
      BY <1>3, <1>5 DEF Buckets
    <2>2. Pulled(moves, s) <= baseline[s] - committed[s]
      BY <1>1, <1>5 DEF Affordable
    <2>3. Excess[s] = Target(s) - committed[s]
      BY <1>1, <2>1 DEF Excess
    <2>4. Target(s) = baseline[s] + (Given(moves, s) - Pulled(moves, s))
      BY DEF Target, Change
    <2>5. Given(moves, s) \in Nat /\ Pulled(moves, s) \in Nat
      BY <1>2, Flows
    <2>6. baseline[s] \in Int /\ committed[s] \in Nat
      BY <1>2, <2>1
    <2> HIDE DEF s
    <2>7. Excess[s] >= 0
      BY <2>2, <2>3, <2>4, <2>5, <2>6
    <2> QED BY <1>5, <2>7 DEF s
  <1> QED BY <1>4, <1>5

(* And then no donor is short of what it will still spend, nor Ready-to-   *)
(* Assign overdrawn, although the plan is days older than the figures it   *)
(* was checked against (budget/balance.py, check_moves).                   *)
THEOREM DonorsStayProtected == Spec => []DonorsProtected
  <1> QED BY DonorsSafe, Invariant, PTL

=============================================================================
