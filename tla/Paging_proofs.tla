---------------------------- MODULE Paging_proofs ----------------------------
(***************************************************************************)
(* Proofs about paging: the alert activity and its ledger, for any keys,   *)
(* slots, windows, caps and failures of the alert path; and the poll loop, *)
(* whose pages go that way.                                                *)
(***************************************************************************)
EXTENDS AlertLedger, PollLoop, FiniteSetTheorems, TLAPS

(* -- Counting ------------------------------------------------------------ *)
LEMMA Smaller ==
    ASSUME NEW T, IsFiniteSet(T), NEW S, S \subseteq T
    PROVE  /\ IsFiniteSet(S) /\ Cardinality(S) \in Nat
           /\ Cardinality(T) \in Nat /\ Cardinality(S) <= Cardinality(T)
  <1>1. IsFiniteSet(S) /\ Cardinality(S) <= Cardinality(T)
    BY FS_Subset
  <1>2. Cardinality(S) \in Nat
    BY <1>1, FS_CardinalityType
  <1>3. Cardinality(T) \in Nat
    BY FS_CardinalityType
  <1> QED BY <1>1, <1>2, <1>3

LEMMA OneMore ==
    ASSUME NEW S, IsFiniteSet(S), NEW x
    PROVE  /\ IsFiniteSet(S \cup {x}) /\ Cardinality(S) \in Nat
           /\ Cardinality(S) <= Cardinality(S \cup {x})
           /\ Cardinality(S \cup {x}) <= Cardinality(S) + 1
           /\ x \notin S => Cardinality(S \cup {x}) = Cardinality(S) + 1
  <1>1. Cardinality(S) \in Nat
    BY FS_CardinalityType
  <1>2. /\ IsFiniteSet(S \cup {x})
        /\ Cardinality(S \cup {x}) =
              IF x \in S THEN Cardinality(S) ELSE Cardinality(S) + 1
    BY FS_AddElement
  <1> QED BY <1>1, <1>2

LEMMA OneFewer ==
    ASSUME NEW S, IsFiniteSet(S), NEW x \in S
    PROVE  /\ Cardinality(S) \in Nat
           /\ Cardinality(S \ {x}) = Cardinality(S) - 1
  BY FS_RemoveElement, FS_CardinalityType

LEMMA Onto ==
    ASSUME NEW S, IsFiniteSet(S), NEW T, NEW f \in [S -> T],
           \A y \in T : \E x \in S : f[x] = y
    PROVE  /\ IsFiniteSet(T) /\ Cardinality(T) <= Cardinality(S)
           /\ Cardinality(T) \in Nat /\ Cardinality(S) \in Nat
  <1>1. f \in Surjection(S, T)
    BY DEF Surjection
  <1>2. IsFiniteSet(T) /\ Cardinality(T) <= Cardinality(S)
    BY <1>1, FS_Surjection
  <1> QED BY <1>2, FS_CardinalityType

LEMMA Both ==
    ASSUME NEW S, IsFiniteSet(S), NEW T, IsFiniteSet(T)
    PROVE  /\ Cardinality(S) \in Nat /\ Cardinality(T) \in Nat
           /\ Cardinality(S \cup T) <= Cardinality(S) + Cardinality(T)
  <1>1. IsFiniteSet(S \cap T)
    BY FS_Subset
  <1>2. Cardinality(S \cap T) \in Nat
    BY <1>1, FS_CardinalityType
  <1>3. Cardinality(S) \in Nat
    BY FS_CardinalityType
  <1>4. Cardinality(T) \in Nat
    BY FS_CardinalityType
  <1>5. Cardinality(S \cup T) =
           Cardinality(S) + Cardinality(T) - Cardinality(S \cap T)
    BY FS_Union
  <1> QED BY <1>2, <1>3, <1>4, <1>5

LEMMA Constants ==
    /\ Cooldown \in Nat \ {0} /\ Window \in Nat \ {0} /\ Cap \in Nat \ {0}
    /\ Window <= Cooldown
    /\ IsFiniteSet(Slots) /\ Cardinality(Slots) \in Nat \ {0}
    /\ Bounds \in [Kinds -> Nat]
  BY AlertAssumption, LedgerAssumption, FS_EmptySet, FS_CardinalityType
-----------------------------------------------------------------------------
(* The inductive invariant                                                  *)

(* The alerts of the keys K that are between b and a hours old, and the    *)
(* activities about them that stand at one of pcs.                         *)
Aged(S, K, b, a) == {e \in S : e.key \in K /\ b <= e.age /\ e.age <= a}
Doing(A, pcs, K) == {s \in Slots : A[s].pc \in pcs /\ A[s].key \in K}
InFlight(A, K)   == Doing(A, {"push", "record"}, K)

Hours == 0 .. Cooldown - 1

TypeInv ==
    /\ broken \subseteq Keys /\ fired \subseteq Keys
    /\ act \in [Slots -> {Idle} \cup
                [pc : {"ask", "push", "record"}, key : Keys, late : BOOLEAN]]
    /\ ledger \subseteq Remembered /\ IsFiniteSet(ledger)
    /\ pushes \subseteq [key : Keys, age : Hours, nth : Nat]
    /\ IsFiniteSet(pushes)
    /\ left \in [Kinds -> Nat] /\ \A k \in Kinds : left[k] <= Bounds[k]

(* The fresh entries of a key are counted from nothing, so that the next   *)
(* one is new.                                                             *)
CountedInv ==
    \A e \in ledger :
        e.age = 0 => e.nth < Cardinality(Alike(ledger, e.key, 0))

(* Of the pages of any keys, however young, each is in the ledger and no   *)
(* older there, or about to be recorded, or one whose record was dropped   *)
(* or whose attempt died.                                                  *)
MatchedInv ==
    \A K \in SUBSET Keys, a \in Hours :
        Cardinality(Aged(pushes, K, 0, a)) <=
            Cardinality(Aged(ledger, K, 0, a))
                + Cardinality(Doing(act, {"record"}, K))
                + Used("dropped") + Used("lost")

(* A key several workflows do not share has one alert at a time, and is    *)
(* remembered or in flight once but for the queries that failed.           *)
OneSlot ==
    \A s, t \in Slots :
        act[s] # Idle /\ act[t] # Idle /\ act[s].key = act[t].key
        /\ act[s].key \notin Senders => s = t
QuietInv ==
    \A k \in Keys \ Senders :
        Cardinality(Aged(ledger, {k}, 0, Cooldown - 1))
            + Cardinality(InFlight(act, {k})) <= 1 + Used("outage")

(* What any stretch of hours holds: so many windows of it, so many times   *)
(* what one window can take.                                               *)
Burst == Cap + Cardinality(Slots) - 1
Stretch(n) == ((n + Window) \div Window) * Burst
FloodInv ==
    /\ \A b, a \in Hours :
          b <= a => Cardinality(Aged(ledger, Keys, b, a)) <=
                        Stretch(a - b) + Used("outage")
    /\ \A a \in Hours :
          Cardinality(Aged(ledger, Keys, 0, a))
              + Cardinality(InFlight(act, Keys)) <= Stretch(a) + Used("outage")
LengthInv == Cardinality(ledger) <= Stretch(Cooldown - 1) + Used("outage")

(* What is about to be recorded went out, and an hour ago at most.         *)
SentInv ==
    \A s \in Slots :
        act[s].pc = "record" /\ Cooldown > 1 =>
            \E p \in pushes : /\ p.key = act[s].key /\ p.age \in {0, 1}
                              /\ ~act[s].late => p.age = 0

IInv == /\ TypeInv /\ CountedInv /\ MatchedInv /\ OneSlot /\ QuietInv
        /\ FloodInv /\ LengthInv /\ SentInv /\ RecordedMeansPushed
-----------------------------------------------------------------------------
(* The parts                                                                *)

LEMMA StretchTyped ==
    /\ Burst \in Nat \ {0} /\ Cap - 1 + Cardinality(Slots) = Burst
    /\ \A n \in Nat : /\ Stretch(n) \in Nat /\ Burst <= Stretch(n)
                      /\ Stretch(n + Window) = Stretch(n) + Burst
    /\ \A n, m \in Nat : n <= m => Stretch(n) <= Stretch(m)
  <1>1. Burst \in Nat \ {0} /\ Cap - 1 + Cardinality(Slots) = Burst
    BY Constants DEF Burst
  <1> DEFINE q(n) == (n + Window) \div Window
  <1>2. ASSUME NEW n \in Nat
        PROVE  q(n) \in Nat /\ 1 <= q(n) /\ q(n + Window) = q(n) + 1
    BY Constants
  <1>3. ASSUME NEW n \in Nat, NEW m \in Nat, n <= m PROVE q(n) <= q(m)
    <2> DEFINE x == q(n)
               y == q(m)
    <2>1. /\ x \in Nat /\ y \in Nat /\ x * Window <= n + Window
          /\ m + Window < y * Window + Window
      BY Constants, <1>2
    <2> HIDE DEF x, y
    <2>2. SUFFICES ASSUME y + 1 <= x PROVE FALSE
      BY <2>1 DEF x, y
    <2>3. (y + 1) * Window <= x * Window
      BY <2>1, <2>2, Constants
    <2>4. (y + 1) * Window = y * Window + Window
      BY <2>1, Constants
    <2>5. x * Window \in Nat /\ y * Window \in Nat
      BY <2>1, Constants
    <2> QED BY <1>3, <2>1, <2>3, <2>4, <2>5, Constants
  <1>4. \A n : Stretch(n) = q(n) * Burst
    BY DEF Stretch
  <1> HIDE DEF q
  <1>5. ASSUME NEW n \in Nat
        PROVE  /\ Stretch(n) \in Nat /\ Burst <= Stretch(n)
               /\ Stretch(n + Window) = Stretch(n) + Burst
    <2>1. q(n) * Burst = Burst + (q(n) - 1) * Burst
          /\ (q(n) - 1) * Burst \in Nat
      BY <1>1, <1>2
    <2>2. (q(n) + 1) * Burst = q(n) * Burst + Burst
      BY <1>1, <1>2
    <2> QED BY <1>1, <1>2, <1>4, <2>1, <2>2
  <1>6. ASSUME NEW n \in Nat, NEW m \in Nat, n <= m
        PROVE  Stretch(n) <= Stretch(m)
    <2>1. q(n) \in Nat /\ q(m) \in Nat /\ q(n) <= q(m)
      BY <1>2, <1>3, <1>6
    <2>2. q(m) * Burst = q(n) * Burst + (q(m) - q(n)) * Burst
          /\ (q(m) - q(n)) * Burst \in Nat /\ q(n) * Burst \in Nat
      BY <1>1, <2>1
    <2> QED BY <1>4, <2>2
  <1> QED BY <1>1, <1>5, <1>6

LEMMA Finite ==
    ASSUME TypeInv
    PROVE  /\ \A K, b, a : /\ IsFiniteSet(Aged(ledger, K, b, a))
                           /\ IsFiniteSet(Aged(pushes, K, b, a))
                           /\ Cardinality(Aged(ledger, K, b, a)) \in Nat
                           /\ Cardinality(Aged(pushes, K, b, a)) \in Nat
           /\ \A pcs, K : /\ IsFiniteSet(Doing(act, pcs, K))
                          /\ Cardinality(Doing(act, pcs, K)) \in Nat
                          /\ Cardinality(Doing(act, pcs, K)) <=
                                 Cardinality(Slots)
  <1>1. \A K, b, a : /\ Aged(ledger, K, b, a) \subseteq ledger
                     /\ Aged(pushes, K, b, a) \subseteq pushes
    BY DEF Aged
  <1>2. \A pcs, K : Doing(act, pcs, K) \subseteq Slots
    BY DEF Doing
  <1> QED BY <1>1, <1>2, Smaller, Constants DEF TypeInv

LEMMA UseTyped ==
    ASSUME TypeInv, NEW k \in Kinds, Use(k) \/ UNCHANGED left
    PROVE  /\ left' \in [Kinds -> Nat] /\ \A j \in Kinds : left'[j] <= Bounds[j]
           /\ \A j \in Kinds : /\ Used(j) \in Nat /\ Used(j)' \in Nat
                               /\ Used(j) <= Used(j)'
           /\ Use(k) => Used(k)' = Used(k) + 1
  <1>1. \A j \in Kinds : left[j] \in Nat /\ Bounds[j] \in Nat
                         /\ left[j] <= Bounds[j]
    BY Constants DEF TypeInv
  <1>2. CASE UNCHANGED left
    BY <1>1, <1>2 DEF TypeInv, Used, Use
  <1>3. CASE Use(k)
    <2>1. /\ left' \in [Kinds -> Nat] /\ left'[k] = left[k] - 1
          /\ \A j \in Kinds : j # k => left'[j] = left[j]
      BY <1>1, <1>3 DEF TypeInv, Use
    <2> QED BY <1>1, <2>1 DEF Used
  <1> QED BY <1>2, <1>3

(* An activity moves to r.                                                 *)
Moves(s, r) == act' = [act EXCEPT ![s] = r]

LEMMA DoingMoves ==
    ASSUME TypeInv, NEW s \in Slots, NEW r, Moves(s, r), NEW pcs, NEW K
    PROVE  /\ r.pc \in pcs /\ r.key \in K =>
                  Doing(act', pcs, K) = Doing(act, pcs, K) \cup {s}
           /\ ~(r.pc \in pcs /\ r.key \in K) =>
                  Doing(act', pcs, K) = Doing(act, pcs, K) \ {s}
  <1>1. act'[s] = r /\ \A t \in Slots \ {s} : act'[t] = act[t]
    BY DEF TypeInv, Moves
  <1> QED BY <1>1 DEF Doing

LEMMA Moving ==
    ASSUME TypeInv, NEW s \in Slots, act[s].pc \in {"ask", "push", "record"}
    PROVE  /\ act[s] \in [pc : {"ask", "push", "record"}, key : Keys,
                          late : BOOLEAN]
           /\ act[s] # Idle /\ act[s].key \in Keys
           /\ \A at : /\ At(at, act[s].key, act[s].late).pc = at
                      /\ At(at, act[s].key, act[s].late).key = act[s].key
                      /\ At(at, act[s].key, act[s].late).late = act[s].late
           /\ Idle.pc = "idle"
  BY DEF TypeInv, Idle, At

(* A step that puts nothing in the ledger and no page out, takes nothing   *)
(* up, and loses no record but for a loss that is counted.                 *)
LEMMA NothingNew ==
    ASSUME IInv, TypeInv', OneSlot', SentInv', UNCHANGED <<ledger, pushes>>,
           \A K : InFlight(act', K) \subseteq InFlight(act, K),
           \A K : Cardinality(Doing(act, {"record"}, K))
                    + Used("dropped") + Used("lost") <=
                  Cardinality(Doing(act', {"record"}, K))
                    + Used("dropped")' + Used("lost")',
           \A j \in Kinds : /\ Used(j) \in Nat /\ Used(j)' \in Nat
                            /\ Used(j) <= Used(j)'
    PROVE  IInv'
  <1>1. {"outage", "dropped", "lost"} \subseteq Kinds
    BY DEF Kinds
  <1>2. TypeInv
    BY DEF IInv
  <1>3. CountedInv' /\ RecordedMeansPushed'
    BY DEF IInv, CountedInv, RecordedMeansPushed
  <1>4. \A K : /\ Cardinality(Doing(act, {"record"}, K)) \in Nat
               /\ Cardinality(Doing(act', {"record"}, K)) \in Nat
               /\ Cardinality(InFlight(act, K)) \in Nat
               /\ Cardinality(InFlight(act', K)) \in Nat
               /\ Cardinality(InFlight(act', K)) <=
                      Cardinality(InFlight(act, K))
    <2>1. \A K : /\ Cardinality(Doing(act, {"record"}, K)) \in Nat
                 /\ IsFiniteSet(InFlight(act, K))
      BY <1>2, Finite DEF InFlight
    <2>2. \A K : Cardinality(Doing(act', {"record"}, K)) \in Nat
      <3> SUFFICES ASSUME NEW K
                   PROVE  Cardinality(Doing(act', {"record"}, K)) \in Nat
        OBVIOUS
      <3>1. Doing(act', {"record"}, K) \subseteq Slots
        BY DEF Doing
      <3> QED BY <3>1, Smaller, Constants
    <2> QED BY <2>1, <2>2, Smaller
  <1>5. \A K, b, a : /\ Cardinality(Aged(ledger, K, b, a)) \in Nat
                     /\ Cardinality(Aged(pushes, K, b, a)) \in Nat
    BY <1>2, Finite
  <1>6. MatchedInv'
    <2> SUFFICES ASSUME NEW K \in SUBSET Keys, NEW a \in Hours
                 PROVE  Cardinality(Aged(pushes, K, 0, a)) <=
                          Cardinality(Aged(ledger, K, 0, a))
                            + Cardinality(Doing(act', {"record"}, K))
                            + Used("dropped")' + Used("lost")'
      BY DEF MatchedInv
    <2>1. Cardinality(Aged(pushes, K, 0, a)) <=
             Cardinality(Aged(ledger, K, 0, a))
               + Cardinality(Doing(act, {"record"}, K))
               + Used("dropped") + Used("lost")
      BY DEF IInv, MatchedInv
    <2> QED BY <1>1, <1>4, <1>5, <2>1
  <1>7. QuietInv'
    BY <1>1, <1>4, <1>5 DEF IInv, QuietInv
  <1>8. \A a \in Hours : a \in Nat
    BY DEF Hours
  <1>9. FloodInv'
    <2>1. \A b, a \in Hours :
             b <= a => Cardinality(Aged(ledger, Keys, b, a)) <=
                          Stretch(a - b) + Used("outage")'
      <3> SUFFICES ASSUME NEW b \in Hours, NEW a \in Hours, b <= a
                   PROVE  Cardinality(Aged(ledger, Keys, b, a)) <=
                             Stretch(a - b) + Used("outage")'
        OBVIOUS
      <3>1. a - b \in Nat
        BY <1>8
      <3> QED BY <1>1, <1>5, <3>1, StretchTyped DEF IInv, FloodInv
    <2>2. \A a \in Hours :
             Cardinality(Aged(ledger, Keys, 0, a))
               + Cardinality(InFlight(act', Keys)) <=
                 Stretch(a) + Used("outage")'
      BY <1>1, <1>4, <1>5, <1>8, StretchTyped DEF IInv, FloodInv
    <2> QED BY <2>1, <2>2 DEF FloodInv
  <1>10. LengthInv'
    <2>1. Cooldown - 1 \in Nat /\ Cardinality(ledger) \in Nat
      BY <1>2, Constants, FS_CardinalityType DEF TypeInv
    <2> QED BY <1>1, <2>1, StretchTyped DEF IInv, LengthInv
  <1> QED BY <1>3, <1>6, <1>7, <1>9, <1>10 DEF IInv

(* How many stand at pcs and are about K after an activity has moved to r. *)
LEMMA DoingCounts ==
    ASSUME TypeInv, NEW s \in Slots, NEW r, Moves(s, r), NEW pcs, NEW K
    PROVE  /\ Cardinality(Doing(act, pcs, K)) \in Nat
           /\ Cardinality(Doing(act', pcs, K)) \in Nat
           /\ ((act[s].pc \in pcs /\ act[s].key \in K)
                 <=> (r.pc \in pcs /\ r.key \in K)) =>
                 Doing(act', pcs, K) = Doing(act, pcs, K)
           /\ ~(act[s].pc \in pcs /\ act[s].key \in K)
              /\ (r.pc \in pcs /\ r.key \in K) =>
                 Cardinality(Doing(act', pcs, K)) =
                     Cardinality(Doing(act, pcs, K)) + 1
           /\ (act[s].pc \in pcs /\ act[s].key \in K)
              /\ ~(r.pc \in pcs /\ r.key \in K) =>
                 /\ Cardinality(Doing(act', pcs, K)) =
                        Cardinality(Doing(act, pcs, K)) - 1
                 /\ Doing(act', pcs, K) \subseteq Doing(act, pcs, K)
  <1> DEFINE was == act[s].pc \in pcs /\ act[s].key \in K
             is  == r.pc \in pcs /\ r.key \in K
             D   == Doing(act, pcs, K)
             E   == Doing(act', pcs, K)
  <1>1. /\ is => E = D \cup {s}
        /\ ~is => E = D \ {s}
    BY DoingMoves
  <1>2. was <=> s \in D
    BY DEF Doing
  <1>3. IsFiniteSet(D) /\ Cardinality(D) \in Nat
    BY Finite
  <1> SUFFICES /\ Cardinality(E) \in Nat
               /\ (was <=> is) => E = D
               /\ ~was /\ is => Cardinality(E) = Cardinality(D) + 1
               /\ was /\ ~is => /\ Cardinality(E) = Cardinality(D) - 1
                                /\ E \subseteq D
    BY <1>3
  <1> HIDE DEF was, is, D, E
  <1>4. CASE was /\ is
    <2>1. E = D
      BY <1>1, <1>2, <1>4
    <2> QED BY <1>3, <1>4, <2>1
  <1>5. CASE ~was /\ ~is
    <2>1. E = D
      BY <1>1, <1>2, <1>5
    <2> QED BY <1>3, <1>5, <2>1
  <1>6. CASE ~was /\ is
    <2>1. Cardinality(E) = Cardinality(D) + 1
      BY <1>1, <1>2, <1>3, <1>6, OneMore
    <2> QED BY <1>3, <1>6, <2>1
  <1>7. CASE was /\ ~is
    <2>1. Cardinality(E) = Cardinality(D) - 1
      BY <1>1, <1>2, <1>3, <1>7, OneFewer
    <2>2. IsFiniteSet(E) /\ E \subseteq D
      BY <1>1, <1>3, <1>7, Smaller
    <2>3. Cardinality(E) \in Nat
      BY <2>2, FS_CardinalityType
    <2> QED BY <1>7, <2>1, <2>2, <2>3
  <1> QED BY <1>4, <1>5, <1>6, <1>7
-----------------------------------------------------------------------------
(* The steps                                                                *)

LEMMA InitInv == Init => IInv
  <1> SUFFICES ASSUME Init PROVE IInv
    OBVIOUS
  <1>1. \A S, K, b, a : S = {} => Aged(S, K, b, a) = {}
    BY DEF Aged
  <1>2. \A pcs, K : "idle" \notin pcs => Doing(act, pcs, K) = {}
    BY DEF Init, Doing, Idle
  <1>3. Cardinality({}) = 0 /\ IsFiniteSet({})
    BY FS_EmptySet
  <1>4. \A j \in Kinds : Bounds[j] \in Nat /\ Used(j) = 0
    BY Constants DEF Init, Used
  <1>5. {"outage", "dropped", "lost"} \subseteq Kinds
    BY DEF Kinds
  <1>6. ledger = {} /\ pushes = {} /\ \A s \in Slots : act[s] = Idle
    BY DEF Init
  <1>7. TypeInv
    BY <1>3, <1>4, Constants DEF Init, TypeInv
  <1>8. CountedInv /\ RecordedMeansPushed /\ OneSlot /\ SentInv
    BY <1>6 DEF CountedInv, RecordedMeansPushed, OneSlot, SentInv, Idle
  <1>9. \A K : InFlight(act, K) = {} /\ Doing(act, {"record"}, K) = {}
    BY <1>2 DEF InFlight
  <1>14. /\ Used("outage") = 0 /\ Used("dropped") = 0 /\ Used("lost") = 0
         /\ \A K, b, a : /\ Cardinality(Aged(ledger, K, b, a)) = 0
                         /\ Cardinality(Aged(pushes, K, b, a)) = 0
         /\ \A K : /\ Cardinality(InFlight(act, K)) = 0
                   /\ Cardinality(Doing(act, {"record"}, K)) = 0
    BY <1>1, <1>3, <1>4, <1>5, <1>6, <1>9
  <1>10. MatchedInv /\ QuietInv
    BY <1>14 DEF MatchedInv, QuietInv
  <1>11. \A n \in Nat : Stretch(n) \in Nat
    BY StretchTyped
  <1>12. FloodInv
    <2>1. \A b, a \in Hours : a \in Nat /\ (b <= a => a - b \in Nat)
      BY DEF Hours
    <2> QED BY <1>11, <1>14, <2>1 DEF FloodInv
  <1>13. LengthInv
    <2>1. Cooldown - 1 \in Nat
      BY Constants
    <2> QED BY <1>3, <1>4, <1>5, <1>6, <1>11, <2>1 DEF LengthInv
  <1> QED BY <1>7, <1>8, <1>10, <1>12, <1>13 DEF IInv

(* A step that moves no activity, nor the ledger.                          *)
LEMMA StillInv ==
    ASSUME IInv, UNCHANGED <<act, ledger, pushes>>,
           broken' \subseteq Keys, fired' \subseteq Keys,
           Use("breaks") \/ UNCHANGED left
    PROVE  IInv'
  <1>1. TypeInv
    BY DEF IInv
  <1>2. "breaks" \in Kinds /\ {"dropped", "lost"} \subseteq Kinds
    BY DEF Kinds
  <1>3. /\ left' \in [Kinds -> Nat] /\ \A j \in Kinds : left'[j] <= Bounds[j]
        /\ \A j \in Kinds : /\ Used(j) \in Nat /\ Used(j)' \in Nat
                            /\ Used(j) <= Used(j)'
    BY <1>1, <1>2, UseTyped
  <1>4. TypeInv'
    BY <1>1, <1>3 DEF TypeInv
  <1>5. \A pcs, K : Doing(act', pcs, K) = Doing(act, pcs, K)
    BY DEF Doing
  <1>6. \A K : InFlight(act', K) = InFlight(act, K)
    BY <1>5 DEF InFlight
  <1>7. OneSlot' /\ SentInv'
    BY DEF IInv, OneSlot, SentInv
  <1>8. \A K : Cardinality(Doing(act, {"record"}, K)) \in Nat
    BY <1>1, Finite
  <1>9. \A K : Cardinality(Doing(act, {"record"}, K))
                 + Used("dropped") + Used("lost") <=
               Cardinality(Doing(act', {"record"}, K))
                 + Used("dropped")' + Used("lost")'
    BY <1>2, <1>3, <1>5, <1>8
  <1> QED BY <1>3, <1>4, <1>6, <1>7, <1>9, NothingNew

LEMMA FireInv == ASSUME IInv, NEW k \in Keys, Fire(k) PROVE IInv'
  <1> DEFINE r == At("ask", k, FALSE)
  <1>1. PICK s \in Slots : act[s] = Idle /\ Moves(s, r)
    BY DEF Fire, Moves
  <1>2. TypeInv
    BY DEF IInv
  <1>3. "more" \in Kinds /\ {"dropped", "lost"} \subseteq Kinds
    BY DEF Kinds
  <1>4. /\ left' \in [Kinds -> Nat] /\ \A j \in Kinds : left'[j] <= Bounds[j]
        /\ \A j \in Kinds : /\ Used(j) \in Nat /\ Used(j)' \in Nat
                            /\ Used(j) <= Used(j)'
    BY <1>2, <1>3, UseTyped DEF Fire
  <1>5. /\ r \in [pc : {"ask", "push", "record"}, key : Keys, late : BOOLEAN]
        /\ r.pc = "ask" /\ r.key = k /\ Idle.pc = "idle"
    BY DEF At, Idle
  <1> HIDE DEF r
  <1>6. /\ act' \in [Slots -> {Idle} \cup
                [pc : {"ask", "push", "record"}, key : Keys, late : BOOLEAN]]
        /\ act'[s] = r /\ \A t \in Slots \ {s} : act'[t] = act[t]
    BY <1>1, <1>2, <1>5 DEF TypeInv, Moves
  <1>7. TypeInv'
    BY <1>2, <1>4, <1>6 DEF TypeInv, Fire
  <1>8. OneSlot'
    <2>1. k \notin Senders => \A t \in Slots : act[t] # Idle => act[t].key # k
      BY DEF Fire, Busy
    <2>2. \A t \in Slots : act'[t] = IF t = s THEN r ELSE act[t]
      BY <1>6
    <2> QED BY <1>5, <2>1, <2>2 DEF IInv, OneSlot
  <1>9. SentInv'
    <2>1. UNCHANGED pushes
      BY DEF Fire
    <2> QED BY <1>5, <1>6, <2>1 DEF IInv, SentInv
  <1>10. \A pcs, K : "ask" \notin pcs /\ "idle" \notin pcs =>
            /\ Doing(act', pcs, K) = Doing(act, pcs, K)
            /\ Cardinality(Doing(act, pcs, K)) \in Nat
    <2> SUFFICES ASSUME NEW pcs, NEW K, "ask" \notin pcs, "idle" \notin pcs
                 PROVE  /\ Doing(act', pcs, K) = Doing(act, pcs, K)
                        /\ Cardinality(Doing(act, pcs, K)) \in Nat
      OBVIOUS
    <2> QED BY <1>1, <1>2, <1>5, DoingCounts
  <1>11. \A K : InFlight(act', K) = InFlight(act, K)
    BY <1>10 DEF InFlight
  <1>12. \A K : Cardinality(Doing(act, {"record"}, K))
                  + Used("dropped") + Used("lost") <=
                Cardinality(Doing(act', {"record"}, K))
                  + Used("dropped")' + Used("lost")'
    BY <1>3, <1>4, <1>10
  <1> QED BY <1>4, <1>7, <1>8, <1>9, <1>11, <1>12, NothingNew DEF Fire

(* An activity ends, or starts again, with nothing new.  One that was to   *)
(* record a page did not, which is counted.                                *)
LEMMA QuitsInv ==
    ASSUME IInv, NEW s \in Slots, act[s].pc \in {"ask", "push", "record"},
           NEW r \in {Idle, At("ask", act[s].key, act[s].late)},
           Moves(s, r), UNCHANGED <<broken, fired, ledger, pushes>>,
           NEW k \in Kinds, Use(k) \/ UNCHANGED left,
           act[s].pc = "record" => Use(k) /\ k \in {"dropped", "lost"}
    PROVE  IInv'
  <1>1. TypeInv
    BY DEF IInv
  <1>2. {"dropped", "lost"} \subseteq Kinds
    BY DEF Kinds
  <1>3. /\ left' \in [Kinds -> Nat] /\ \A j \in Kinds : left'[j] <= Bounds[j]
        /\ \A j \in Kinds : /\ Used(j) \in Nat /\ Used(j)' \in Nat
                            /\ Used(j) <= Used(j)'
        /\ Use(k) => Used(k)' = Used(k) + 1
    BY <1>1, UseTyped
  <1>4. /\ act[s] \in [pc : {"ask", "push", "record"}, key : Keys,
                       late : BOOLEAN]
        /\ act[s] # Idle /\ Idle.pc = "idle"
    BY <1>1, Moving
  <1>5. /\ r \in {Idle} \cup
              [pc : {"ask", "push", "record"}, key : Keys, late : BOOLEAN]
        /\ r.pc \in {"ask", "idle"} /\ (r # Idle => r.key = act[s].key)
    BY <1>4 DEF At
  <1>6. /\ act' \in [Slots -> {Idle} \cup
                [pc : {"ask", "push", "record"}, key : Keys, late : BOOLEAN]]
        /\ act'[s] = r /\ \A t \in Slots \ {s} : act'[t] = act[t]
    BY <1>1, <1>5 DEF TypeInv, Moves
  <1>7. TypeInv'
    BY <1>1, <1>3, <1>6 DEF TypeInv
  <1>8. OneSlot'
    <2>1. \A t \in Slots : act'[t] = IF t = s THEN r ELSE act[t]
      BY <1>6
    <2> QED BY <1>4, <1>5, <2>1 DEF IInv, OneSlot
  <1>9. SentInv'
    BY <1>5, <1>6 DEF IInv, SentInv
  <1>10. \A K : InFlight(act', K) \subseteq InFlight(act, K)
    <2> SUFFICES ASSUME NEW K
                 PROVE  Doing(act', {"push", "record"}, K) \subseteq
                            Doing(act, {"push", "record"}, K)
      BY DEF InFlight
    <2>1. ~(r.pc \in {"push", "record"} /\ r.key \in K)
      BY <1>5
    <2> QED BY <1>1, <2>1, DoingMoves
  <1>11. \A K : Cardinality(Doing(act, {"record"}, K))
                  + Used("dropped") + Used("lost") <=
                Cardinality(Doing(act', {"record"}, K))
                  + Used("dropped")' + Used("lost")'
    <2> SUFFICES ASSUME NEW K
                 PROVE  Cardinality(Doing(act, {"record"}, K))
                          + Used("dropped") + Used("lost") <=
                        Cardinality(Doing(act', {"record"}, K))
                          + Used("dropped")' + Used("lost")'
      OBVIOUS
    <2>1. /\ Cardinality(Doing(act, {"record"}, K)) \in Nat
          /\ Cardinality(Doing(act', {"record"}, K)) \in Nat
          /\ act[s].pc # "record" =>
                Cardinality(Doing(act', {"record"}, K)) =
                    Cardinality(Doing(act, {"record"}, K))
          /\ Cardinality(Doing(act', {"record"}, K)) >=
                Cardinality(Doing(act, {"record"}, K)) - 1
      <3>1. ~(r.pc \in {"record"} /\ r.key \in K)
        BY <1>5
      <3>2. /\ Cardinality(Doing(act, {"record"}, K)) \in Nat
            /\ Cardinality(Doing(act', {"record"}, K)) \in Nat
            /\ ~(act[s].pc \in {"record"} /\ act[s].key \in K) =>
                  Doing(act', {"record"}, K) = Doing(act, {"record"}, K)
            /\ act[s].pc \in {"record"} /\ act[s].key \in K =>
                  Cardinality(Doing(act', {"record"}, K)) =
                      Cardinality(Doing(act, {"record"}, K)) - 1
        BY <1>1, <3>1, DoingCounts
      <3> QED BY <3>2
    <2>2. CASE act[s].pc # "record"
      BY <1>2, <1>3, <2>1, <2>2
    <2>3. CASE act[s].pc = "record"
      BY <1>2, <1>3, <2>1, <2>3
    <2> QED BY <2>2, <2>3
  <1> QED BY <1>3, <1>7, <1>8, <1>9, <1>10, <1>11, NothingNew

(* An activity goes on to another point, about the same key: what the      *)
(* step leaves typed, and the counts it changes.                           *)
LEMMA GoesOn ==
    ASSUME TypeInv, NEW s \in Slots, act[s].pc \in {"ask", "push", "record"},
           NEW at \in {"push", "record"}, Goes(s, at)
    PROVE  /\ act' \in [Slots -> {Idle} \cup
                [pc : {"ask", "push", "record"}, key : Keys, late : BOOLEAN]]
           /\ act'[s].pc = at /\ act'[s].key = act[s].key
           /\ act'[s].late = act[s].late /\ act[s] # Idle
           /\ act'[s] # Idle /\ act[s].key \in Keys
           /\ \A t \in Slots \ {s} : act'[t] = act[t]
           /\ OneSlot => OneSlot'
           /\ \E r : Moves(s, r) /\ r.pc = at /\ r.key = act[s].key
  <1> DEFINE r == At(at, act[s].key, act[s].late)
  <1>1. /\ r \in [pc : {"ask", "push", "record"}, key : Keys, late : BOOLEAN]
        /\ r.pc = at /\ r.key = act[s].key /\ r.late = act[s].late
        /\ act[s] # Idle /\ act[s].key \in Keys
        /\ Idle.pc = "idle"
    <2>1. /\ act[s] \in [pc : {"ask", "push", "record"}, key : Keys,
                         late : BOOLEAN]
          /\ act[s] # Idle /\ act[s].key \in Keys
          /\ Idle.pc = "idle"
      BY Moving
    <2> QED BY <2>1 DEF At
  <1>2. Moves(s, r)
    BY DEF Goes, Moves
  <1> HIDE DEF r
  <1>3. /\ act' \in [Slots -> {Idle} \cup
                [pc : {"ask", "push", "record"}, key : Keys, late : BOOLEAN]]
        /\ act'[s] = r /\ \A t \in Slots \ {s} : act'[t] = act[t]
    BY <1>1, <1>2 DEF TypeInv, Moves
  <1>4. OneSlot => OneSlot'
    <2>1. \A t \in Slots : act'[t] = IF t = s THEN r ELSE act[t]
      BY <1>3
    <2>2. \A t \in Slots : /\ act'[t].key = act[t].key
                           /\ act'[t] # Idle => act[t] # Idle
      BY <1>1, <2>1
    <2> QED BY <2>2 DEF OneSlot
  <1> QED BY <1>1, <1>2, <1>3, <1>4

(* The counts such a step changes.                                         *)
LEMMA GoesCounts ==
    ASSUME TypeInv, NEW s \in Slots, act[s].pc \in {"ask", "push", "record"},
           NEW at \in {"push", "record"}, Goes(s, at), NEW pcs, NEW K
    PROVE  /\ Cardinality(Doing(act, pcs, K)) \in Nat
           /\ Cardinality(Doing(act', pcs, K)) \in Nat
           /\ act[s].key \notin K \/ (act[s].pc \in pcs <=> at \in pcs) =>
                 Cardinality(Doing(act', pcs, K)) =
                     Cardinality(Doing(act, pcs, K))
           /\ act[s].key \in K /\ act[s].pc \notin pcs /\ at \in pcs =>
                 Cardinality(Doing(act', pcs, K)) =
                     Cardinality(Doing(act, pcs, K)) + 1
  <1>1. PICK r : Moves(s, r) /\ r.pc = at /\ r.key = act[s].key
    BY GoesOn
  <1>2. /\ Cardinality(Doing(act, pcs, K)) \in Nat
        /\ Cardinality(Doing(act', pcs, K)) \in Nat
        /\ ((act[s].pc \in pcs /\ act[s].key \in K)
                 <=> (r.pc \in pcs /\ r.key \in K)) =>
                 Doing(act', pcs, K) = Doing(act, pcs, K)
        /\ ~(act[s].pc \in pcs /\ act[s].key \in K)
              /\ (r.pc \in pcs /\ r.key \in K) =>
                 Cardinality(Doing(act', pcs, K)) =
                     Cardinality(Doing(act, pcs, K)) + 1
    BY <1>1, DoingCounts
  <1> QED BY <1>1, <1>2

(* What is young is what is recent, and what is older than a window.       *)
LEMMA RecentIsYoung ==
    ASSUME TypeInv
    PROVE  /\ Recent(ledger) = Aged(ledger, Keys, 0, Window - 1)
           /\ Recent(pushes) = Aged(pushes, Keys, 0, Window - 1)
           /\ Window - 1 \in Hours
  <1>1. \A e \in ledger \cup pushes : e.key \in Keys /\ e.age \in Nat
    BY Constants DEF TypeInv, Remembered, Hours
  <1> QED BY <1>1, Constants DEF Recent, Aged, Hours

(* An alert that may go out fits in what a stretch of hours can take.      *)
LEMMA Fits ==
    ASSUME IInv, NEW k, ShouldNotify(ledger, k), NEW a \in Hours
    PROVE  Cardinality(Aged(ledger, Keys, 0, a)) + Cardinality(Slots) <=
               Stretch(a) + Used("outage")
  <1>1. /\ TypeInv /\ a \in Nat /\ Cardinality(Slots) \in Nat
        /\ Window \in Nat \ {0} /\ Cap \in Nat
    BY Constants DEF IInv, Hours
  <1> DEFINE n(b, c) == Cardinality(Aged(ledger, Keys, b, c))
  <1>2. Used("outage") \in Nat
    <2>1. "outage" \in Kinds
      BY DEF Kinds
    <2> QED BY <1>1, <2>1, Constants DEF TypeInv, Used
  <1>3. /\ n(0, Window - 1) < Cap
        /\ \A b, c : n(b, c) \in Nat /\ IsFiniteSet(Aged(ledger, Keys, b, c))
    BY <1>1, RecentIsYoung, Finite DEF ShouldNotify
  <1>4. CASE a < Window
    <2>1. Aged(ledger, Keys, 0, a) \subseteq Aged(ledger, Keys, 0, Window - 1)
      <3>1. \A e \in ledger : e.age \in Nat
        BY <1>1, Constants DEF TypeInv, Remembered
      <3> QED BY <1>1, <1>4, <3>1 DEF Aged
    <2>2. n(0, a) <= n(0, Window - 1)
      BY <1>3, <2>1, Smaller
    <2>3. Burst <= Stretch(a) /\ Burst \in Nat /\ Stretch(a) \in Nat
          /\ Cap - 1 + Cardinality(Slots) = Burst
      BY <1>1, StretchTyped
    <2> HIDE DEF n
    <2>4. n(0, a) + Cardinality(Slots) <= Stretch(a) + Used("outage")
      BY <1>1, <1>2, <1>3, <2>2, <2>3
    <2> QED BY <2>4 DEF n
  <1>5. CASE a >= Window
    <2>1. Aged(ledger, Keys, 0, a) = Aged(ledger, Keys, 0, Window - 1)
                                        \cup Aged(ledger, Keys, Window, a)
      <3>1. \A e \in ledger : e.age \in Nat
        BY <1>1, Constants DEF TypeInv, Remembered
      <3> QED BY <1>1, <1>5, <3>1 DEF Aged
    <2>2. n(0, a) <= n(0, Window - 1) + n(Window, a)
      BY <1>3, <2>1, Both
    <2>3. a - Window \in Nat /\ Window \in Hours /\ Window <= a
      BY <1>1, <1>5, Constants DEF Hours
    <2>4. n(Window, a) <= Stretch(a - Window) + Used("outage")
      BY <2>3 DEF IInv, FloodInv
    <2>5. /\ Stretch(a - Window) \in Nat /\ Burst \in Nat
          /\ Stretch((a - Window) + Window) = Stretch(a - Window) + Burst
          /\ Cap - 1 + Cardinality(Slots) = Burst
      BY <2>3, StretchTyped
    <2>6. (a - Window) + Window = a
      BY <1>1
    <2> HIDE DEF n
    <2>7. n(0, a) + Cardinality(Slots) <= Stretch(a) + Used("outage")
      BY <1>1, <1>2, <1>3, <2>2, <2>4, <2>5, <2>6
    <2> QED BY <2>7 DEF n
  <1> QED BY <1>1, <1>4, <1>5

(* An alert is taken up: the ledger lets it through, or cannot be asked.   *)
LEMMA TakesUpInv ==
    ASSUME IInv, NEW s \in Slots, act[s].pc = "ask", Goes(s, "push"),
           UNCHANGED <<broken, fired, ledger, pushes>>,
           \/ ShouldNotify(ledger, act[s].key) /\ UNCHANGED left
           \/ Use("outage")
    PROVE  IInv'
  <1>1. TypeInv /\ "outage" \in Kinds /\ {"dropped", "lost"} \subseteq Kinds
    BY DEF IInv, Kinds
  <1>2. /\ left' \in [Kinds -> Nat] /\ \A j \in Kinds : left'[j] <= Bounds[j]
        /\ \A j \in Kinds : /\ Used(j) \in Nat /\ Used(j)' \in Nat
                            /\ Used(j) <= Used(j)'
        /\ Use("outage") => Used("outage")' = Used("outage") + 1
        /\ UNCHANGED left => Used("outage")' = Used("outage")
    BY <1>1, UseTyped DEF Used
  <1>3. /\ act' \in [Slots -> {Idle} \cup
                [pc : {"ask", "push", "record"}, key : Keys, late : BOOLEAN]]
        /\ act'[s].pc = "push" /\ act'[s].key = act[s].key
        /\ act'[s] # Idle /\ act[s].key \in Keys
        /\ \A t \in Slots \ {s} : act'[t] = act[t]
        /\ OneSlot'
    BY <1>1, GoesOn DEF IInv
  <1>4. TypeInv'
    BY <1>1, <1>2, <1>3 DEF TypeInv
  <1>5. CountedInv' /\ RecordedMeansPushed'
    BY DEF IInv, CountedInv, RecordedMeansPushed
  <1>6. SentInv'
    BY <1>3 DEF IInv, SentInv
  <1>7. \A K, b, a : /\ Cardinality(Aged(ledger, K, b, a)) \in Nat
                     /\ Cardinality(Aged(pushes, K, b, a)) \in Nat
    BY <1>1, Finite
  <1>8. ASSUME NEW K
        PROVE  /\ Cardinality(Doing(act, {"record"}, K)) \in Nat
               /\ Cardinality(Doing(act', {"record"}, K)) =
                      Cardinality(Doing(act, {"record"}, K))
               /\ Cardinality(InFlight(act, K)) \in Nat
               /\ Cardinality(InFlight(act', K)) \in Nat
               /\ act[s].key \notin K => Cardinality(InFlight(act', K)) =
                      Cardinality(InFlight(act, K))
               /\ act[s].key \in K => Cardinality(InFlight(act', K)) =
                      Cardinality(InFlight(act, K)) + 1
    BY <1>1, GoesCounts DEF InFlight
  <1>9. MatchedInv'
    <2> SUFFICES ASSUME NEW K \in SUBSET Keys, NEW a \in Hours
                 PROVE  Cardinality(Aged(pushes, K, 0, a)) <=
                          Cardinality(Aged(ledger, K, 0, a))
                            + Cardinality(Doing(act', {"record"}, K))
                            + Used("dropped")' + Used("lost")'
      BY DEF MatchedInv
    <2>1. Cardinality(Aged(pushes, K, 0, a)) <=
             Cardinality(Aged(ledger, K, 0, a))
               + Cardinality(Doing(act, {"record"}, K))
               + Used("dropped") + Used("lost")
      BY DEF IInv, MatchedInv
    <2> QED BY <1>1, <1>2, <1>7, <1>8, <2>1
  <1>10. QuietInv'
    <2> SUFFICES ASSUME NEW k \in Keys \ Senders
                 PROVE  Cardinality(Aged(ledger, {k}, 0, Cooldown - 1))
                          + Cardinality(InFlight(act', {k}))
                            <= 1 + Used("outage")'
      BY DEF QuietInv
    <2>1. Cardinality(Aged(ledger, {k}, 0, Cooldown - 1))
            + Cardinality(InFlight(act, {k})) <= 1 + Used("outage")
      BY DEF IInv, QuietInv
    <2>2. CASE k # act[s].key
      BY <1>1, <1>2, <1>7, <1>8, <2>1, <2>2
    <2>3. CASE Use("outage")
      BY <1>1, <1>2, <1>7, <1>8, <2>1, <2>3
    <2>4. CASE k = act[s].key /\ ShouldNotify(ledger, act[s].key)
      <3>1. Aged(ledger, {k}, 0, Cooldown - 1) = {}
        <4>1. \A e \in ledger : e.age \in Nat
          BY <1>1, Constants DEF TypeInv, Remembered
        <4> QED BY <2>4, <4>1, Constants DEF ShouldNotify, Quiet, Aged
      <3>2. InFlight(act', {k}) \subseteq {s}
        <4>1. \A t \in Slots : act'[t].pc \in {"push", "record"} =>
                                  act'[t] # Idle
          BY DEF Idle
        <4> QED BY <1>3, <2>4, <4>1 DEF OneSlot, InFlight, Doing
      <3>3. Cardinality(InFlight(act', {k})) <= 1
        <4>1. IsFiniteSet({s}) /\ Cardinality({s}) = 1
          BY FS_Singleton
        <4> QED BY <3>2, <4>1, Smaller
      <3>4. Cardinality(Aged(ledger, {k}, 0, Cooldown - 1)) = 0
        BY <3>1, FS_EmptySet
      <3> QED BY <1>1, <1>2, <1>8, <3>3, <3>4
    <2> QED BY <2>2, <2>3, <2>4
  <1>11. \A a \in Hours : a \in Nat /\ \A b \in Hours : b <= a => a - b \in Nat
    BY DEF Hours
  <1>12. \A b, a \in Hours :
            b <= a => Cardinality(Aged(ledger, Keys, b, a)) <=
                          Stretch(a - b) + Used("outage")'
    BY <1>1, <1>2, <1>7, <1>11, StretchTyped DEF IInv, FloodInv
  <1>13. ASSUME NEW a \in Hours
         PROVE  Cardinality(Aged(ledger, Keys, 0, a))
                  + Cardinality(InFlight(act', Keys)) <=
                Stretch(a) + Used("outage")'
    <2>1. Cardinality(Aged(ledger, Keys, 0, a))
            + Cardinality(InFlight(act, Keys)) <= Stretch(a) + Used("outage")
      BY DEF IInv, FloodInv
    <2>2. Stretch(a) \in Nat
      BY <1>11, StretchTyped
    <2>3. CASE Use("outage")
      BY <1>1, <1>2, <1>3, <1>7, <1>8, <2>1, <2>2, <2>3
    <2>4. CASE ShouldNotify(ledger, act[s].key) /\ UNCHANGED left
      <3>1. Cardinality(InFlight(act', Keys)) <= Cardinality(Slots)
        BY Smaller, Constants DEF InFlight, Doing
      <3>2. Cardinality(Aged(ledger, Keys, 0, a)) + Cardinality(Slots) <=
               Stretch(a) + Used("outage")
        BY <2>4, Fits
      <3> QED BY <1>1, <1>2, <1>7, <1>8, <2>2, <2>4, <3>1, <3>2, Constants
    <2> QED BY <2>3, <2>4
  <1>14. FloodInv'
    BY <1>12, <1>13 DEF FloodInv
  <1>15. LengthInv'
    <2>1. Cooldown - 1 \in Nat /\ Cardinality(ledger) \in Nat
      BY <1>1, Constants, FS_CardinalityType DEF TypeInv
    <2> QED BY <1>1, <1>2, <2>1, StretchTyped DEF IInv, LengthInv
  <1> QED BY <1>3, <1>4, <1>5, <1>6, <1>9, <1>10, <1>14, <1>15 DEF IInv

(* What With and Record put into a set of entries.                         *)
LEMMA EntryTyped ==
    ASSUME NEW S, IsFiniteSet(S), NEW k
    PROVE  /\ Entry(S, k).key = k /\ Entry(S, k).age = 0
           /\ Entry(S, k).nth \in Nat
           /\ Entry(S, k).nth = Cardinality(Alike(S, k, 0))
           /\ Entry(S, k) \in [key : {k}, age : {0}, nth : Nat]
           /\ IsFiniteSet(With(S, k)) /\ With(S, k) = S \cup {Entry(S, k)}
  <1>1. Alike(S, k, 0) \subseteq S
    BY DEF Alike
  <1>2. Cardinality(Alike(S, k, 0)) \in Nat
    BY <1>1, Smaller
  <1>3. IsFiniteSet(With(S, k))
    BY OneMore DEF With
  <1> QED BY <1>2, <1>3 DEF Entry, With

LEMMA PushedInv ==
    ASSUME IInv, NEW s \in Slots, act[s].pc = "push", Goes(s, "record"),
           UNCHANGED <<broken, fired, ledger, left>>,
           pushes' = With(pushes, act[s].key)
    PROVE  IInv'
  <1>1. TypeInv
    BY DEF IInv
  <1> DEFINE k == act[s].key
             x == Entry(pushes, k)
  <1>2. /\ act' \in [Slots -> {Idle} \cup
                [pc : {"ask", "push", "record"}, key : Keys, late : BOOLEAN]]
        /\ act'[s].pc = "record" /\ act'[s].key = k
        /\ act'[s] # Idle /\ k \in Keys
        /\ \A t \in Slots \ {s} : act'[t] = act[t]
        /\ OneSlot'
    BY <1>1, GoesOn DEF IInv
  <1>3. /\ x.key = k /\ x.age = 0 /\ x.nth \in Nat
        /\ x \in [key : {k}, age : {0}, nth : Nat]
        /\ IsFiniteSet(pushes') /\ pushes' = pushes \cup {x}
    BY <1>1, EntryTyped DEF TypeInv
  <1> HIDE DEF k, x
  <1>4. TypeInv'
    <2>1. 0 \in Hours
      BY Constants DEF Hours
    <2>2. x \in [key : Keys, age : Hours, nth : Nat]
      BY <1>2, <1>3, <2>1
    <2> QED BY <1>1, <1>2, <1>3, <2>2 DEF TypeInv
  <1>5. \A j : Used(j)' = Used(j)
    BY DEF Used
  <1>6. CountedInv'
    BY DEF IInv, CountedInv
  <1>7. RecordedMeansPushed'
    BY <1>3 DEF IInv, RecordedMeansPushed
  <1>8. SentInv'
    <2>1. \A t \in Slots \ {s} : act'[t] = act[t]
      BY <1>2
    <2> QED BY <1>2, <1>3, <2>1 DEF IInv, SentInv
  <1>9. ASSUME NEW K
        PROVE  /\ Cardinality(Doing(act, {"record"}, K)) \in Nat
               /\ Cardinality(InFlight(act, K)) \in Nat
               /\ Cardinality(InFlight(act', K)) = Cardinality(InFlight(act, K))
               /\ k \notin K => Cardinality(Doing(act', {"record"}, K)) =
                      Cardinality(Doing(act, {"record"}, K))
               /\ k \in K => Cardinality(Doing(act', {"record"}, K)) =
                      Cardinality(Doing(act, {"record"}, K)) + 1
    BY <1>1, GoesCounts DEF InFlight, k
  <1>10. MatchedInv'
    <2> SUFFICES ASSUME NEW K \in SUBSET Keys, NEW a \in Hours
                 PROVE  Cardinality(Aged(pushes', K, 0, a)) <=
                          Cardinality(Aged(ledger, K, 0, a))
                            + Cardinality(Doing(act', {"record"}, K))
                            + Used("dropped") + Used("lost")
      BY <1>5 DEF MatchedInv
    <2>1. Cardinality(Aged(pushes, K, 0, a)) <=
             Cardinality(Aged(ledger, K, 0, a))
               + Cardinality(Doing(act, {"record"}, K))
               + Used("dropped") + Used("lost")
      BY DEF IInv, MatchedInv
    <2>2. /\ IsFiniteSet(Aged(pushes, K, 0, a))
          /\ Cardinality(Aged(pushes, K, 0, a)) \in Nat
          /\ Cardinality(Aged(ledger, K, 0, a)) \in Nat
      BY <1>1, Finite
    <2>3. Used("dropped") \in Nat /\ Used("lost") \in Nat
      <3>1. {"dropped", "lost"} \subseteq Kinds
        BY DEF Kinds
      <3> QED BY <1>1, <3>1, Constants DEF TypeInv, Used
    <2>4. CASE k \notin K
      <3>1. Aged(pushes', K, 0, a) = Aged(pushes, K, 0, a)
        BY <1>3, <2>4 DEF Aged
      <3> QED BY <1>9, <2>1, <2>4, <3>1
    <2>5. CASE k \in K
      <3>1. Aged(pushes', K, 0, a) \subseteq Aged(pushes, K, 0, a) \cup {x}
        BY <1>3 DEF Aged
      <3>2. /\ IsFiniteSet(Aged(pushes, K, 0, a) \cup {x})
            /\ Cardinality(Aged(pushes, K, 0, a) \cup {x}) <=
                   Cardinality(Aged(pushes, K, 0, a)) + 1
        BY <2>2, OneMore
      <3>3. /\ Cardinality(Aged(pushes', K, 0, a)) <=
                   Cardinality(Aged(pushes, K, 0, a) \cup {x})
            /\ Cardinality(Aged(pushes', K, 0, a)) \in Nat
            /\ Cardinality(Aged(pushes, K, 0, a) \cup {x}) \in Nat
        BY <3>1, <3>2, Smaller
      <3> QED BY <1>9, <2>1, <2>2, <2>3, <2>5, <3>2, <3>3
    <2> QED BY <2>4, <2>5
  <1>11. QuietInv' /\ FloodInv' /\ LengthInv'
    BY <1>5, <1>9 DEF IInv, QuietInv, FloodInv, LengthInv
  <1> QED BY <1>2, <1>4, <1>6, <1>7, <1>8, <1>10, <1>11 DEF IInv

(* The alert is recorded, under an entry that is new.                      *)
LEMMA RecordedInv ==
    ASSUME IInv, NEW s \in Slots, act[s].pc = "record", Ends(s),
           UNCHANGED <<broken, fired, pushes, left>>,
           ledger' = Record(ledger, act[s].key)
    PROVE  IInv'
  <1>1. TypeInv
    BY DEF IInv
  <1> DEFINE k == act[s].key
             L == Kept(ledger, Cooldown)
             x == Entry(L, k)
  <1>2. /\ act[s] # Idle /\ k \in Keys /\ Idle.pc = "idle"
        /\ Moves(s, Idle) /\ act' = [act EXCEPT ![s] = Idle]
    <2>1. /\ act[s] # Idle /\ k \in Keys /\ Idle.pc = "idle"
      BY <1>1, Moving
    <2> QED BY <2>1 DEF Ends, Moves
  <1>3. L \subseteq ledger /\ IsFiniteSet(L)
    <2>1. L \subseteq ledger
      BY DEF Kept
    <2> QED BY <1>1, <2>1, Smaller DEF TypeInv
  <1>4. /\ x.key = k /\ x.age = 0 /\ x.nth = Cardinality(Alike(L, k, 0))
        /\ x.nth \in Nat /\ x \in [key : {k}, age : {0}, nth : Nat]
        /\ IsFiniteSet(ledger') /\ ledger' = L \cup {x}
    BY <1>3, EntryTyped DEF Record
  <1>5. \A j : Alike(L, j, 0) = Alike(ledger, j, 0)
    BY Constants DEF Alike, Kept
  <1>6. x \notin L
    BY <1>3, <1>4, <1>5 DEF IInv, CountedInv
  <1>7. \A K, b : \A a \in Hours : Aged(L, K, b, a) = Aged(ledger, K, b, a)
    <2>1. \A e \in ledger : e.age \in Nat
      BY <1>1, Constants DEF TypeInv, Remembered
    <2> QED BY <2>1, Constants DEF Aged, Kept, Hours
  <1>8. /\ \A e \in L : e.age \in Nat /\ e.age < Cooldown /\ e.key \in Keys
        /\ L \subseteq [key : Keys, age : Hours, nth : Nat]
    <2>1. \A e \in L : e \in Remembered /\ e.age < Cooldown
      BY <1>1 DEF Kept, TypeInv
    <2>2. \A e \in L : e.age \in Nat /\ e.age < Cooldown /\ e.key \in Keys
      BY <2>1, Constants DEF Remembered
    <2>3. ASSUME NEW e \in L PROVE e \in [key : Keys, age : Hours, nth : Nat]
      BY <2>1, <2>2, Constants DEF Remembered, Hours
    <2> QED BY <2>2, <2>3
  <1> HIDE DEF k, L, x
  <1>9. /\ act' \in [Slots -> {Idle} \cup
                [pc : {"ask", "push", "record"}, key : Keys, late : BOOLEAN]]
        /\ act'[s] = Idle /\ \A t \in Slots \ {s} : act'[t] = act[t]
    BY <1>1, <1>2 DEF TypeInv
  <1>10. TypeInv'
    <2>1. 0 \in Hours /\ Hours \subseteq 0 .. Cooldown
      BY Constants DEF Hours
    <2>2. x \in Remembered
      BY <1>2, <1>4, <2>1 DEF Remembered
    <2>3. ledger' \subseteq Remembered
      BY <1>1, <1>3, <1>4, <2>2 DEF TypeInv
    <2> QED BY <1>1, <1>4, <1>9, <2>3 DEF TypeInv
  <1>11. \A j : Used(j)' = Used(j)
    BY DEF Used
  <1>12. CountedInv'
    <2> SUFFICES ASSUME NEW e \in ledger', e.age = 0
                 PROVE  e.nth < Cardinality(Alike(ledger', e.key, 0))
      BY DEF CountedInv
    <2>1. Alike(L, k, 0) \subseteq L /\ x \notin Alike(L, k, 0)
      BY <1>6 DEF Alike
    <2>2. Alike(ledger', k, 0) = Alike(L, k, 0) \cup {x}
      BY <1>4 DEF Alike
    <2>3. IsFiniteSet(Alike(L, k, 0))
      BY <1>3, <2>1, Smaller
    <2>4. Cardinality(Alike(ledger', k, 0)) = Cardinality(Alike(L, k, 0)) + 1
          /\ Cardinality(Alike(L, k, 0)) \in Nat
      BY <2>1, <2>2, <2>3, OneMore
    <2>5. CASE e = x
      BY <1>4, <2>4, <2>5
    <2>6. CASE e \in L
      <3>1. e \in ledger /\ e.nth < Cardinality(Alike(ledger, e.key, 0))
        BY <1>3, <2>6 DEF IInv, CountedInv
      <3>2. e.nth \in Nat
        BY <1>8, <2>6
      <3>3. CASE e.key = k
        BY <1>5, <2>4, <3>1, <3>2, <3>3
      <3>4. CASE e.key # k
        <4>1. Alike(ledger', e.key, 0) = Alike(L, e.key, 0)
          BY <1>4, <3>4 DEF Alike
        <4> QED BY <1>5, <3>1, <4>1
      <3> QED BY <3>3, <3>4
    <2> QED BY <1>4, <2>5, <2>6
  <1>13. ASSUME NEW K
         PROVE  /\ Cardinality(Doing(act', {"record"}, K)) \in Nat
                /\ Cardinality(InFlight(act', K)) \in Nat
                /\ k \notin K =>
                     /\ Doing(act', {"record"}, K) = Doing(act, {"record"}, K)
                     /\ InFlight(act', K) = InFlight(act, K)
                /\ k \in K =>
                     /\ Cardinality(Doing(act', {"record"}, K)) =
                            Cardinality(Doing(act, {"record"}, K)) - 1
                     /\ Cardinality(InFlight(act', K)) =
                            Cardinality(InFlight(act, K)) - 1
    <2>1. PICK r : Moves(s, r) /\ r.pc = "idle"
      BY <1>2
    <2>2. ASSUME NEW pcs, "idle" \notin pcs, "record" \in pcs
          PROVE  /\ Cardinality(Doing(act', pcs, K)) \in Nat
                 /\ act[s].key \notin K =>
                        Doing(act', pcs, K) = Doing(act, pcs, K)
                 /\ act[s].key \in K =>
                        Cardinality(Doing(act', pcs, K)) =
                            Cardinality(Doing(act, pcs, K)) - 1
      BY <1>1, <2>1, <2>2, DoingCounts
    <2> QED BY <2>2 DEF InFlight, k
  <1>14. ASSUME NEW K, NEW b \in Nat, NEW a \in Hours
         PROVE  LET was == Cardinality(Aged(ledger, K, b, a))
                    is  == Cardinality(Aged(ledger', K, b, a))
                IN  /\ was \in Nat /\ is \in Nat
                    /\ k \in K /\ b = 0 => is = was + 1
                    /\ k \notin K \/ b # 0 => is = was
    <2>1. /\ IsFiniteSet(Aged(ledger, K, b, a))
          /\ Cardinality(Aged(ledger, K, b, a)) \in Nat
      BY <1>1, Finite
    <2>2. Aged(L, K, b, a) = Aged(ledger, K, b, a) /\ a \in Nat
      BY <1>7 DEF Hours
    <2>3. CASE k \in K /\ b = 0
      <3>1. Aged(ledger', K, b, a) = Aged(L, K, b, a) \cup {x}
        BY <1>4, <2>2, <2>3 DEF Aged
      <3>2. x \notin Aged(L, K, b, a)
        BY <1>6 DEF Aged
      <3> QED BY <2>1, <2>2, <2>3, <3>1, <3>2, OneMore
    <2>4. CASE k \notin K \/ b # 0
      <3>1. Aged(ledger', K, b, a) = Aged(L, K, b, a)
        BY <1>4, <2>2, <2>4 DEF Aged
      <3> QED BY <2>1, <2>2, <2>4, <3>1
    <2> QED BY <2>3, <2>4
  <1>15. \A a \in Hours : a \in Nat
    BY DEF Hours
  <1>16. Cooldown - 1 \in Hours /\ \A j : k \in {j} <=> k = j
    BY Constants DEF Hours
  <1>17. MatchedInv'
    <2> SUFFICES ASSUME NEW K \in SUBSET Keys, NEW a \in Hours
                 PROVE  Cardinality(Aged(pushes, K, 0, a)) <=
                          Cardinality(Aged(ledger', K, 0, a))
                            + Cardinality(Doing(act', {"record"}, K))
                            + Used("dropped") + Used("lost")
      BY <1>11 DEF MatchedInv
    <2>1. Cardinality(Aged(pushes, K, 0, a)) <=
             Cardinality(Aged(ledger, K, 0, a))
               + Cardinality(Doing(act, {"record"}, K))
               + Used("dropped") + Used("lost")
      BY DEF IInv, MatchedInv
    <2>2. Cardinality(Doing(act, {"record"}, K)) \in Nat
      BY <1>1, Finite
    <2>3. Cardinality(Aged(ledger', K, 0, a))
             + Cardinality(Doing(act', {"record"}, K)) =
          Cardinality(Aged(ledger, K, 0, a))
             + Cardinality(Doing(act, {"record"}, K))
      BY <1>13, <1>14, <2>2
    <2>4. Used("dropped") \in Nat /\ Used("lost") \in Nat
      <3>1. {"dropped", "lost"} \subseteq Kinds
        BY DEF Kinds
      <3> QED BY <1>1, <3>1, Constants DEF TypeInv, Used
    <2> QED BY <2>1, <2>3, <2>4
  <1>18. ASSUME NEW K, NEW a \in Hours
         PROVE  Cardinality(Aged(ledger', K, 0, a))
                    + Cardinality(InFlight(act', K)) =
                Cardinality(Aged(ledger, K, 0, a))
                    + Cardinality(InFlight(act, K))
    <2>1. Cardinality(InFlight(act, K)) \in Nat
      BY <1>1, Finite DEF InFlight
    <2> QED BY <1>13, <1>14, <2>1
  <1>19. QuietInv'
    BY <1>11, <1>16, <1>18 DEF IInv, QuietInv
  <1>20. \A a \in Hours :
            Cardinality(Aged(ledger', Keys, 0, a))
                + Cardinality(InFlight(act', Keys)) <=
            Stretch(a) + Used("outage")
    BY <1>18 DEF IInv, FloodInv
  <1>21. Used("outage") \in Nat /\ \A n \in Nat : Stretch(n) \in Nat
    <2>1. "outage" \in Kinds
      BY DEF Kinds
    <2>2. Used("outage") \in Nat
      BY <1>1, <2>1, Constants DEF TypeInv, Used
    <2> QED BY <2>2, StretchTyped
  <1>22. FloodInv'
    <2>1. ASSUME NEW b \in Hours, NEW a \in Hours, b <= a
          PROVE  Cardinality(Aged(ledger', Keys, b, a)) <=
                     Stretch(a - b) + Used("outage")
      <3>1. CASE b = 0
        <4>1. a - 0 = a
          BY <1>15
        <4> QED BY <1>13, <1>14, <1>15, <1>20, <1>21, <3>1, <4>1
      <3>2. CASE b # 0
        BY <1>14, <1>15, <2>1, <3>2 DEF IInv, FloodInv
      <3> QED BY <3>1, <3>2
    <2> QED BY <1>11, <1>20, <2>1 DEF FloodInv
  <1>23. LengthInv'
    <2>1. ledger' = Aged(ledger', Keys, 0, Cooldown - 1)
      <3>1. \A e \in ledger' : /\ e.key \in Keys /\ e.age \in Nat
                               /\ e.age < Cooldown
        BY <1>2, <1>4, <1>8, Constants
      <3> QED BY <3>1, Constants DEF Aged
    <2>2. Cardinality(ledger') <= Stretch(Cooldown - 1) + Used("outage")
      BY <1>13, <1>14, <1>15, <1>16, <1>20, <1>21, <2>1
    <2> QED BY <1>11, <2>2 DEF LengthInv
  <1>24. RecordedMeansPushed'
    <2> SUFFICES ASSUME NEW e \in ledger', e.age + 1 < Cooldown
                 PROVE  \E p \in pushes : p.key = e.key
                                          /\ p.age - e.age \in {0, 1}
      BY DEF RecordedMeansPushed
    <2>1. CASE e \in L
      BY <1>3, <2>1 DEF IInv, RecordedMeansPushed
    <2>2. CASE e = x
      <3>1. Cooldown > 1
        BY <1>4, <2>2, Constants
      <3>2. PICK p \in pushes : p.key = k /\ p.age \in {0, 1}
        BY <3>1 DEF IInv, SentInv, k
      <3>3. p.age - e.age \in {0, 1}
        BY <1>4, <2>2, <3>2
      <3> QED BY <1>4, <2>2, <3>2, <3>3
    <2> QED BY <1>4, <2>1, <2>2
  <1>25. SentInv'
    BY <1>2, <1>9 DEF IInv, SentInv
  <1>26. OneSlot'
    <2>1. \A t \in Slots : act'[t] # Idle => act'[t] = act[t]
      BY <1>9
    <2> QED BY <2>1 DEF IInv, OneSlot
  <1> QED BY <1>10, <1>12, <1>17, <1>19, <1>22, <1>23, <1>24, <1>25, <1>26
          DEF IInv

Entries(P) == [key : P, age : 0 .. Cooldown, nth : Nat]

(* What an hour does to a set of entries: none is fresh any more, and those*)
(* younger than the cooldown are the earlier ones an hour older.           *)
LEMMA OlderEntries ==
    ASSUME NEW P, NEW S, S \subseteq Entries(P), IsFiniteSet(S)
    PROVE  /\ IsFiniteSet(Older(S)) /\ Cardinality(Older(S)) \in Nat
           /\ Cardinality(Older(S)) <= Cardinality(S)
           /\ Older(S) \subseteq Entries(P)
           /\ \A e \in Older(S) : e.age >= 1
           /\ \A d \in S : d.age + 1 < Cooldown =>
                  [d EXCEPT !.age = @ + 1] \in Older(S)
           /\ \A e \in Older(S) :
                  e.age < Cooldown =>
                      \E d \in S : /\ d.age + 1 < Cooldown
                                   /\ e = [d EXCEPT !.age = @ + 1]
  <1> DEFINE up(d) == [d EXCEPT !.age = @ + 1]
             old(d) == [d EXCEPT !.age = Cooldown,
                                 !.nth = IF d.age = Cooldown THEN @ ELSE
                                   @ + Cardinality(Alike(S, d.key, Cooldown))]
             f == [d \in S |-> IF d.age + 1 < Cooldown THEN up(d) ELSE old(d)]
  <1>1. Older(S) = {IF d.age + 1 < Cooldown THEN up(d) ELSE old(d) : d \in S}
    BY DEF Older
  <1>2. \A j, n : Cardinality(Alike(S, j, n)) \in Nat
    <2>1. \A j, n : Alike(S, j, n) \subseteq S
      BY DEF Alike
    <2> QED BY <2>1, Smaller
  <1>3. \A d \in S : /\ d \in Entries(P) /\ d.age \in 0 .. Cooldown
                     /\ d.nth \in Nat /\ d.key \in P
    BY DEF Entries
  <1>4. \A d \in S : d.age + 1 < Cooldown =>
           up(d) \in Entries(P) /\ up(d).age = d.age + 1
    BY <1>3, Constants DEF Entries
  <1>5. \A d \in S : old(d) \in Entries(P) /\ old(d).age = Cooldown
    <2> SUFFICES ASSUME NEW d \in S
                 PROVE  old(d) \in Entries(P) /\ old(d).age = Cooldown
      OBVIOUS
    <2>1. d \in [key : P, age : 0 .. Cooldown, nth : Nat]
      BY DEF Entries
    <2>2. PICK c \in Nat : c = Cardinality(Alike(S, d.key, Cooldown))
      BY <1>2
    <2>3. PICK n \in Nat : old(d) = [d EXCEPT !.age = Cooldown, !.nth = n]
      <3>1. CASE d.age = Cooldown
        BY <2>1, <3>1
      <3>2. CASE d.age # Cooldown
        <4>1. d.nth + c \in Nat
          BY <2>1, <2>2
        <4> QED BY <2>1, <2>2, <3>2, <4>1
      <3> QED BY <3>1, <3>2
    <2> HIDE DEF old
    <2>4. Cooldown \in 0 .. Cooldown
      BY Constants
    <2>5. /\ old(d) \in [key : P, age : 0 .. Cooldown, nth : Nat]
          /\ old(d).age = Cooldown
      BY <2>1, <2>3, <2>4
    <2> QED BY <2>5 DEF Entries
  <1> HIDE DEF up, old
  <1>6. f \in [S -> Older(S)] /\ \A e \in Older(S) : \E d \in S : f[d] = e
    BY <1>1
  <1>7. /\ IsFiniteSet(Older(S)) /\ Cardinality(Older(S)) <= Cardinality(S)
        /\ Cardinality(Older(S)) \in Nat
    <2> HIDE DEF f
    <2> QED BY <1>6, Onto
  <1>8. Older(S) \subseteq Entries(P)
    BY <1>1, <1>4, <1>5
  <1>9. \A e \in Older(S) : e.age >= 1
    BY <1>1, <1>3, <1>4, <1>5, Constants
  <1>10. \A d \in S : d.age + 1 < Cooldown => up(d) \in Older(S)
    BY <1>1
  <1>11. \A e \in Older(S) :
            e.age < Cooldown => \E d \in S : /\ d.age + 1 < Cooldown
                                             /\ e = up(d)
    BY <1>1, <1>5, Constants
  <1> QED BY <1>7, <1>8, <1>9, <1>10, <1>11 DEF up

LEMMA OlderTyped ==
    ASSUME NEW S, S \subseteq Remembered, IsFiniteSet(S)
    PROVE  /\ IsFiniteSet(Older(S)) /\ Cardinality(Older(S)) \in Nat
           /\ Cardinality(Older(S)) <= Cardinality(S)
           /\ Older(S) \subseteq Remembered
           /\ \A e \in Older(S) : e.age >= 1
           /\ \A d \in S : d.age + 1 < Cooldown =>
                  [d EXCEPT !.age = @ + 1] \in Older(S)
           /\ \A e \in Older(S) :
                  e.age < Cooldown =>
                      \E d \in S : /\ d.age + 1 < Cooldown
                                   /\ e = [d EXCEPT !.age = @ + 1]
  <1>1. Remembered = Entries(Keys)
    BY DEF Remembered, Entries
  <1> QED BY <1>1, OlderEntries

(* An hour earlier, as far back as there is one.                           *)
Earlier(b) == IF b = 0 THEN 0 ELSE b - 1

(* What is between b and a hours old now was so an hour earlier.           *)
LEMMA OlderCounts ==
    ASSUME NEW S, S \subseteq Remembered, IsFiniteSet(S), NEW K,
           NEW b \in Nat, NEW a \in Hours
    PROVE  /\ a = 0 => Aged(Older(S), K, b, a) = {}
           /\ a # 0 => Cardinality(Aged(Older(S), K, b, a)) =
                           Cardinality(Aged(S, K, Earlier(b), a - 1))
           /\ Cardinality(Aged(S, K, Earlier(b), a - 1)) \in Nat
           /\ Cardinality(Aged(Older(S), K, b, a)) \in Nat
  <1> DEFINE A == Aged(S, K, Earlier(b), a - 1)
             B == Aged(Older(S), K, b, a)
  <1>1. a \in Nat /\ a < Cooldown /\ Cooldown \in Nat
    BY Constants DEF Hours
  <1>2. \A d \in S : /\ d \in Remembered /\ d.age \in 0 .. Cooldown
                     /\ d.nth \in Nat /\ d.key \in Keys
    BY DEF Remembered
  <1>3. \A e \in Older(S) : e.age \in Nat /\ e.age >= 1 /\ e \in Remembered
    BY OlderTyped DEF Remembered
  <1>4. a = 0 => B = {}
    BY <1>3 DEF Aged
  <1>5. IsFiniteSet(A) /\ IsFiniteSet(B)
    <2>1. A \subseteq S /\ B \subseteq Older(S)
      BY DEF Aged
    <2>2. IsFiniteSet(Older(S))
      BY OlderTyped
    <2> QED BY <2>1, <2>2, Smaller
  <1>6. Cardinality(A) \in Nat /\ Cardinality(B) \in Nat
    BY <1>5, FS_CardinalityType
  <1>7. ASSUME a # 0 PROVE Cardinality(B) = Cardinality(A)
    <2> DEFINE up(d) == [d EXCEPT !.age = @ + 1]
               down(e) == [e EXCEPT !.age = @ - 1]
    <2>1. \A d \in S : /\ up(d).age = d.age + 1 /\ up(d).key = d.key
                       /\ down(up(d)) = d
      <3> SUFFICES ASSUME NEW d \in S
                   PROVE  /\ up(d).age = d.age + 1 /\ up(d).key = d.key
                          /\ down(up(d)) = d
        OBVIOUS
      <3>1. d \in [key : Keys, age : Nat, nth : Nat]
        BY <1>2 DEF Remembered
      <3>2. PICK n \in Nat : n = d.age /\ n + 1 - 1 = n
        BY <3>1
      <3>3. up(d) = [d EXCEPT !.age = n + 1]
        BY <3>2
      <3>4. /\ up(d) \in [key : Keys, age : Nat, nth : Nat]
            /\ up(d).age = n + 1 /\ up(d).key = d.key /\ up(d).nth = d.nth
        BY <3>1, <3>2, <3>3
      <3> HIDE DEF up
      <3>5. down(up(d)) = [up(d) EXCEPT !.age = n]
        BY <3>2, <3>4
      <3>6. down(up(d)) = d
        BY <3>1, <3>2, <3>4, <3>5
      <3> QED BY <3>2, <3>4, <3>6
    <2>2. ASSUME NEW d \in A PROVE up(d) \in B
      <3>1. /\ d \in S /\ d.key \in K /\ Earlier(b) <= d.age
            /\ d.age <= a - 1 /\ d.age \in Nat
        BY <1>2 DEF Aged
      <3>2. d.age + 1 < Cooldown /\ b <= d.age + 1 /\ d.age + 1 <= a
        BY <1>1, <3>1 DEF Earlier
      <3>3. up(d) \in Older(S)
        BY <3>1, <3>2, OlderTyped
      <3> HIDE DEF up, down
      <3> QED BY <2>1, <3>1, <3>2, <3>3 DEF Aged
    <2>3. ASSUME NEW e \in B
          PROVE  /\ down(e) \in A /\ \E d \in A : up(d) = e
                 /\ \A d \in A : up(d) = e => down(e) = d
      <3>1. /\ e \in Older(S) /\ e.key \in K /\ b <= e.age /\ e.age <= a
        BY DEF Aged
      <3>2. e.age < Cooldown
        BY <1>1, <1>3, <3>1
      <3>3. PICK d \in S : d.age + 1 < Cooldown /\ e = up(d)
        BY <3>1, <3>2, OlderTyped
      <3>4. e.age = d.age + 1 /\ e.key = d.key /\ down(e) = d
        BY <2>1, <3>3
      <3>5. d \in A
        <4>1. d.age \in Nat /\ Earlier(b) <= d.age /\ d.age <= a - 1
          BY <1>1, <1>2, <3>1, <3>4 DEF Earlier
        <4> QED BY <3>1, <3>4, <4>1 DEF Aged
      <3>6. \A c \in A : c \in S
        BY DEF Aged
      <3> HIDE DEF up, down, A, B
      <3> QED BY <2>1, <3>3, <3>4, <3>5, <3>6
    <2> DEFINE f == [d \in A |-> up(d)]
               g == [e \in B |-> down(e)]
    <2>4. \A d \in A : down(up(d)) = d
      BY <2>1 DEF Aged
    <2> HIDE DEF up, down, A, B
    <2>5. f \in [A -> B] /\ \A e \in B : \E d \in A : f[d] = e
      BY <2>2, <2>3
    <2>6. g \in [B -> A] /\ \A d \in A : \E e \in B : g[e] = d
      BY <2>2, <2>3, <2>4
    <2>7. Cardinality(B) <= Cardinality(A)
      BY <1>5, <2>5, Onto
    <2>8. Cardinality(A) <= Cardinality(B)
      BY <1>5, <2>6, Onto
    <2> QED BY <1>6, <2>7, <2>8
  <1> QED BY <1>4, <1>6, <1>7

LEMMA TickInv == ASSUME IInv, Tick PROVE IInv'
  <1>1. /\ TypeInv /\ ledger \subseteq Remembered /\ IsFiniteSet(ledger)
        /\ pushes \subseteq Remembered /\ IsFiniteSet(pushes)
    <2>1. TypeInv
      BY DEF IInv
    <2>2. [key : Keys, age : Hours, nth : Nat] \subseteq Remembered
      BY Constants DEF Hours, Remembered
    <2> QED BY <2>1, <2>2 DEF TypeInv
  <1>2. /\ ledger' = Older(ledger) /\ pushes' = Kept(Older(pushes), Cooldown)
        /\ broken' = broken /\ fired' = {} /\ left' = left
    BY DEF Tick
  <1>3. \A t \in Slots : /\ act[t] = Idle => act'[t] = Idle
                         /\ act[t] # Idle => /\ ~act[t].late
                               /\ act'[t] = At(act[t].pc, act[t].key, TRUE)
    BY DEF Tick
  <1>4. \A t \in Slots : act[t] # Idle =>
           /\ act[t] \in [pc : {"ask", "push", "record"}, key : Keys,
                          late : BOOLEAN]
           /\ act'[t] \in [pc : {"ask", "push", "record"}, key : Keys,
                           late : BOOLEAN]
           /\ act'[t].pc = act[t].pc /\ act'[t].key = act[t].key
           /\ act'[t].late = TRUE
    <2> SUFFICES ASSUME NEW t \in Slots, act[t] # Idle
                 PROVE  /\ act[t] \in [pc : {"ask", "push", "record"},
                                      key : Keys, late : BOOLEAN]
                        /\ act'[t] \in [pc : {"ask", "push", "record"},
                                       key : Keys, late : BOOLEAN]
                        /\ act'[t].pc = act[t].pc /\ act'[t].key = act[t].key
                        /\ act'[t].late = TRUE
      OBVIOUS
    <2>1. act[t] \in [pc : {"ask", "push", "record"}, key : Keys,
                      late : BOOLEAN]
      BY <1>1 DEF TypeInv
    <2>2. act'[t] = [pc |-> act[t].pc, key |-> act[t].key, late |-> TRUE]
      BY <1>3 DEF At
    <2> QED BY <2>1, <2>2
  <1>5. act' \in [Slots -> {Idle} \cup
             [pc : {"ask", "push", "record"}, key : Keys, late : BOOLEAN]]
    <2>1. act' = [t \in Slots |-> act'[t]]
      BY DEF Tick
    <2>2. \A t \in Slots : act'[t] \in {Idle} \cup
             [pc : {"ask", "push", "record"}, key : Keys, late : BOOLEAN]
      BY <1>3, <1>4
    <2> QED BY <2>1, <2>2
  <1>6. \A pcs, K :
           "idle" \notin pcs => Doing(act', pcs, K) = Doing(act, pcs, K)
    <2>1. Idle.pc = "idle"
      BY DEF Idle
    <2> QED BY <1>3, <1>4, <2>1 DEF Doing
  <1>7. \A K : /\ Doing(act', {"record"}, K) = Doing(act, {"record"}, K)
               /\ InFlight(act', K) = InFlight(act, K)
               /\ Cardinality(Doing(act, {"record"}, K)) \in Nat
               /\ Cardinality(InFlight(act, K)) \in Nat
    BY <1>1, <1>6, Finite DEF InFlight
  <1>8. \A j : Used(j)' = Used(j)
    BY <1>2 DEF Used
  <1>9. /\ Used("outage") \in Nat /\ Used("dropped") \in Nat
        /\ Used("lost") \in Nat
    <2>1. {"outage", "dropped", "lost"} \subseteq Kinds
      BY DEF Kinds
    <2> QED BY <1>1, <2>1, Constants DEF TypeInv, Used
  <1>10. TypeInv'
    <2>1. pushes' \subseteq Older(pushes) /\ \A e \in pushes' : e.age < Cooldown
      BY <1>2 DEF Kept
    <2>2. IsFiniteSet(pushes')
      BY <1>1, <2>1, OlderTyped, Smaller
    <2>3. ASSUME NEW e \in pushes'
          PROVE  e \in [key : Keys, age : Hours, nth : Nat]
      <3>1. /\ e \in [key : Keys, age : 0 .. Cooldown, nth : Nat]
            /\ e.age < Cooldown
        BY <1>1, <2>1, OlderTyped DEF Remembered
      <3> QED BY <3>1, Constants DEF Hours
    <2>4. ledger' \subseteq Remembered /\ IsFiniteSet(ledger')
      BY <1>1, <1>2, OlderTyped
    <2> QED BY <1>1, <1>2, <1>5, <2>2, <2>3, <2>4 DEF TypeInv
  <1>11. CountedInv'
    BY <1>1, <1>2, OlderTyped DEF CountedInv
  <1>12. \A a \in Hours : /\ a \in Nat
                          /\ a # 0 => a - 1 \in Hours /\ a - 1 \in Nat
    BY Constants DEF Hours
  <1>13. ASSUME NEW K, NEW b \in Nat, NEW a \in Hours
         PROVE  LET was == Cardinality(Aged(ledger, K, Earlier(b), a - 1))
                    is  == Cardinality(Aged(ledger', K, b, a))
                IN  /\ was \in Nat /\ is \in Nat
                    /\ a = 0 => is = 0
                    /\ a # 0 => is = was
    <2>1. /\ a = 0 => Aged(ledger', K, b, a) = {}
          /\ a # 0 => Cardinality(Aged(ledger', K, b, a)) =
                          Cardinality(Aged(ledger, K, Earlier(b), a - 1))
          /\ Cardinality(Aged(ledger, K, Earlier(b), a - 1)) \in Nat
          /\ Cardinality(Aged(ledger', K, b, a)) \in Nat
      BY <1>1, <1>2, OlderCounts
    <2> QED BY <2>1, FS_EmptySet
  <1>14. ASSUME NEW K, NEW a \in Hours
         PROVE  LET was == Cardinality(Aged(pushes, K, 0, a - 1))
                    is  == Cardinality(Aged(pushes', K, 0, a))
                IN  /\ was \in Nat /\ is \in Nat
                    /\ a = 0 => is = 0
                    /\ a # 0 => is = was
    <2>1. Earlier(0) = 0 /\ 0 \in Nat
      BY DEF Earlier
    <2>2. /\ a = 0 => Aged(Older(pushes), K, 0, a) = {}
          /\ a # 0 => Cardinality(Aged(Older(pushes), K, 0, a)) =
                          Cardinality(Aged(pushes, K, 0, a - 1))
          /\ Cardinality(Aged(pushes, K, 0, a - 1)) \in Nat
          /\ Cardinality(Aged(Older(pushes), K, 0, a)) \in Nat
      BY <1>1, <2>1, OlderCounts
    <2>3. Aged(pushes', K, 0, a) = Aged(Older(pushes), K, 0, a)
      <3>1. \A e \in Older(pushes) : e.age \in Nat
        BY <1>1, OlderTyped DEF Remembered
      <3>2. a \in Nat /\ a < Cooldown
        BY Constants DEF Hours
      <3> QED BY <1>2, <3>1, <3>2, Constants DEF Aged, Kept
    <2> QED BY <2>2, <2>3, FS_EmptySet
  <1>15. Earlier(0) = 0
    BY DEF Earlier
  <1>16. MatchedInv'
    <2> SUFFICES ASSUME NEW K \in SUBSET Keys, NEW a \in Hours
                 PROVE  Cardinality(Aged(pushes', K, 0, a)) <=
                          Cardinality(Aged(ledger', K, 0, a))
                            + Cardinality(Doing(act, {"record"}, K))
                            + Used("dropped") + Used("lost")
      BY <1>7, <1>8 DEF MatchedInv
    <2>1. CASE a = 0
      BY <1>7, <1>9, <1>13, <1>14, <2>1
    <2>2. CASE a # 0
      <3>1. Cardinality(Aged(pushes, K, 0, a - 1)) <=
               Cardinality(Aged(ledger, K, 0, a - 1))
                 + Cardinality(Doing(act, {"record"}, K))
                 + Used("dropped") + Used("lost")
        BY <1>12, <2>2 DEF IInv, MatchedInv
      <3> QED BY <1>13, <1>14, <1>15, <2>2, <3>1
    <2> QED BY <2>1, <2>2
  <1>17. /\ \A n \in Nat : Stretch(n) \in Nat
         /\ \A n, m \in Nat : n <= m => Stretch(n) <= Stretch(m)
    BY StretchTyped
  <1>18. QuietInv'
    <2> SUFFICES ASSUME NEW k \in Keys \ Senders
                 PROVE  Cardinality(Aged(ledger', {k}, 0, Cooldown - 1))
                          + Cardinality(InFlight(act, {k}))
                            <= 1 + Used("outage")
      BY <1>7, <1>8 DEF QuietInv
    <2>1. Cooldown - 1 \in Hours
      BY Constants DEF Hours
    <2>2. Cardinality(Aged(ledger, {k}, 0, Cooldown - 1))
            + Cardinality(InFlight(act, {k})) <= 1 + Used("outage")
      BY DEF IInv, QuietInv
    <2>3. Cardinality(Aged(ledger', {k}, 0, Cooldown - 1)) <=
              Cardinality(Aged(ledger, {k}, 0, Cooldown - 1))
      <3>1. Aged(ledger, {k}, 0, Cooldown - 1 - 1) \subseteq
                Aged(ledger, {k}, 0, Cooldown - 1)
        <4>1. \A e \in ledger : e.age \in Nat
          BY <1>1, Constants DEF Remembered
        <4> QED BY <4>1, Constants DEF Aged
      <3>2. /\ IsFiniteSet(Aged(ledger, {k}, 0, Cooldown - 1))
            /\ Cardinality(Aged(ledger, {k}, 0, Cooldown - 1)) \in Nat
        BY <1>1, Finite
      <3>3. Cardinality(Aged(ledger, {k}, 0, Cooldown - 1 - 1)) <=
                Cardinality(Aged(ledger, {k}, 0, Cooldown - 1))
        BY <3>1, <3>2, Smaller
      <3> QED BY <1>13, <1>15, <2>1, <3>2, <3>3
    <2>4. /\ Cardinality(Aged(ledger, {k}, 0, Cooldown - 1)) \in Nat
          /\ Cardinality(Aged(ledger', {k}, 0, Cooldown - 1)) \in Nat
      BY <1>1, <1>13, <2>1, Finite
    <2> QED BY <1>7, <1>9, <2>2, <2>3, <2>4
  <1>19. ASSUME NEW b \in Hours, NEW a \in Hours, b <= a
         PROVE  Cardinality(Aged(ledger', Keys, b, a)) <=
                    Stretch(a - b) + Used("outage")
    <2>1. b \in Nat /\ a \in Nat /\ a - b \in Nat
      BY <1>12, <1>19
    <2>2. CASE a = 0
      BY <1>9, <1>13, <1>17, <2>1, <2>2
    <2>3. CASE a # 0
      <3>1. /\ Earlier(b) \in Hours /\ Earlier(b) <= a - 1
            /\ a - 1 - Earlier(b) \in Nat /\ a - 1 - Earlier(b) <= a - b
        BY <1>12, <1>19, <2>1, <2>3 DEF Earlier
      <3>2. Cardinality(Aged(ledger, Keys, Earlier(b), a - 1)) <=
                Stretch(a - 1 - Earlier(b)) + Used("outage")
        BY <1>12, <2>3, <3>1 DEF IInv, FloodInv
      <3>3. Stretch(a - 1 - Earlier(b)) <= Stretch(a - b)
            /\ Stretch(a - 1 - Earlier(b)) \in Nat /\ Stretch(a - b) \in Nat
        BY <1>17, <2>1, <3>1
      <3> QED BY <1>9, <1>13, <2>1, <2>3, <3>2, <3>3
    <2> QED BY <2>2, <2>3
  <1>20. ASSUME NEW a \in Hours
         PROVE  Cardinality(Aged(ledger', Keys, 0, a))
                    + Cardinality(InFlight(act, Keys)) <=
                Stretch(a) + Used("outage")
    <2>1. CASE a = 0
      <3>1. Cardinality(Aged(ledger, Keys, 0, a))
                + Cardinality(InFlight(act, Keys)) <=
            Stretch(a) + Used("outage")
        BY DEF IInv, FloodInv
      <3>2. Cardinality(Aged(ledger, Keys, 0, a)) \in Nat
        BY <1>1, Finite
      <3> QED BY <1>7, <1>9, <1>12, <1>13, <1>17, <2>1, <3>1, <3>2
    <2>2. CASE a # 0
      <3>1. Cardinality(Aged(ledger, Keys, 0, a - 1))
                + Cardinality(InFlight(act, Keys)) <=
            Stretch(a - 1) + Used("outage")
        BY <1>12, <2>2 DEF IInv, FloodInv
      <3>2. /\ Stretch(a - 1) <= Stretch(a) /\ Stretch(a - 1) \in Nat
            /\ Stretch(a) \in Nat
        BY <1>12, <1>17, <2>2
      <3> QED BY <1>7, <1>9, <1>13, <1>15, <2>2, <3>1, <3>2
    <2> QED BY <2>1, <2>2
  <1>21. FloodInv'
    BY <1>7, <1>8, <1>19, <1>20 DEF FloodInv
  <1>22. LengthInv'
    <2>1. Cardinality(ledger') <= Cardinality(ledger)
          /\ Cardinality(ledger') \in Nat /\ Cardinality(ledger) \in Nat
      BY <1>1, <1>2, OlderTyped, FS_CardinalityType
    <2>2. Cooldown - 1 \in Nat
      BY Constants
    <2> QED BY <1>8, <1>9, <1>17, <2>1, <2>2 DEF IInv, LengthInv
  <1>23. OneSlot'
    <2>1. \A t \in Slots : act'[t] # Idle => /\ act[t] # Idle
                                             /\ act'[t].key = act[t].key
      BY <1>3, <1>4
    <2> QED BY <2>1 DEF IInv, OneSlot
  <1>24. \A d \in pushes : d.age + 1 < Cooldown =>
            \E p \in pushes' : p.key = d.key /\ p.age = d.age + 1
    <2> SUFFICES ASSUME NEW d \in pushes, d.age + 1 < Cooldown
                 PROVE  \E p \in pushes' : p.key = d.key /\ p.age = d.age + 1
      OBVIOUS
    <2> DEFINE p == [d EXCEPT !.age = @ + 1]
    <2>1. d \in [key : Keys, age : 0 .. Cooldown, nth : Nat]
      BY <1>1 DEF Remembered
    <2>2. p.key = d.key /\ p.age = d.age + 1
      BY <2>1
    <2>3. p \in Older(pushes)
      BY <1>1, OlderTyped
    <2> HIDE DEF p
    <2>4. p \in pushes'
      BY <1>2, <2>2, <2>3 DEF Kept
    <2> QED BY <2>2, <2>4
  <1>25. SentInv'
    <2> SUFFICES ASSUME NEW t \in Slots, act'[t].pc = "record", Cooldown > 1
                 PROVE  \E p \in pushes' : /\ p.key = act'[t].key
                                           /\ p.age \in {0, 1}
                                           /\ ~act'[t].late => p.age = 0
      BY DEF SentInv
    <2>1. act[t] # Idle
      <3>1. Idle.pc = "idle"
        BY DEF Idle
      <3> QED BY <1>3, <3>1
    <2>2. act[t].pc = "record" /\ ~act[t].late /\ act'[t].key = act[t].key
      BY <1>3, <1>4, <2>1
    <2>3. act'[t].late
      BY <1>4, <2>1
    <2>4. PICK d \in pushes : d.key = act[t].key /\ d.age = 0
      BY <2>2 DEF IInv, SentInv
    <2>5. \E p \in pushes' : p.key = d.key /\ p.age = 1
      BY <1>24, <2>4
    <2> QED BY <2>2, <2>3, <2>4, <2>5
  <1>26. RecordedMeansPushed'
    <2> SUFFICES ASSUME NEW e \in ledger', e.age + 1 < Cooldown
                 PROVE  \E p \in pushes' : p.key = e.key
                                           /\ p.age - e.age \in {0, 1}
      BY DEF RecordedMeansPushed
    <2>1. e \in Older(ledger) /\ e.age \in Nat /\ e.age < Cooldown
      BY <1>1, <1>2, OlderTyped, Constants DEF Remembered
    <2>2. PICK d \in ledger : /\ d.age + 1 < Cooldown
                              /\ e = [d EXCEPT !.age = @ + 1]
      BY <1>1, <2>1, OlderTyped
    <2>3. d \in [key : Keys, age : 0 .. Cooldown, nth : Nat]
      BY <1>1 DEF Remembered
    <2>4. e.key = d.key /\ e.age = d.age + 1 /\ d.age \in Nat
      BY <2>2, <2>3, Constants
    <2>5. PICK c \in pushes : c.key = d.key /\ c.age - d.age \in {0, 1}
      BY <2>2 DEF IInv, RecordedMeansPushed
    <2>6. c.age \in Nat
      BY <1>1, Constants DEF Remembered
    <2>7. c.age + 1 < Cooldown
      BY <2>4, <2>5, <2>6, Constants
    <2>8. PICK p \in pushes' : p.key = c.key /\ p.age = c.age + 1
      BY <1>24, <2>7
    <2>9. p.age - e.age \in {0, 1}
      BY <2>4, <2>5, <2>6, <2>8
    <2> QED BY <2>4, <2>5, <2>8, <2>9
  <1> QED BY <1>10, <1>11, <1>16, <1>18, <1>21, <1>22, <1>23, <1>25, <1>26
          DEF IInv

LEMMA AskInv == ASSUME IInv, NEW s \in Slots, Ask(s) PROVE IInv'
  <1>1. CASE Ends(s) /\ UNCHANGED left
    <2>1. Moves(s, Idle) /\ "crowd" \in Kinds
      BY <1>1 DEF Ends, Moves, Kinds
    <2> QED BY <1>1, <2>1, QuitsInv DEF Ask
  <1>2. CASE /\ Goes(s, "push")
             /\ \/ ShouldNotify(ledger, act[s].key) /\ UNCHANGED left
                \/ Use("outage")
    BY <1>2, TakesUpInv DEF Ask
  <1> QED BY <1>1, <1>2 DEF Ask

LEMMA PushInv == ASSUME IInv, NEW s \in Slots, Push(s) PROVE IInv'
  <1>1. CASE Use("refused") /\ Ends(s) /\ UNCHANGED pushes
    <2>1. Moves(s, Idle) /\ "refused" \in Kinds
      BY <1>1 DEF Ends, Moves, Kinds
    <2> QED BY <1>1, <2>1, QuitsInv DEF Push
  <1>2. CASE /\ pushes' = With(pushes, act[s].key)
             /\ Goes(s, "record") /\ UNCHANGED left
    BY <1>2, PushedInv DEF Push
  <1> QED BY <1>1, <1>2 DEF Push

LEMMA RecordAlertInv ==
    ASSUME IInv, NEW s \in Slots, RecordAlert(s) PROVE IInv'
  <1>1. CASE Use("dropped") /\ UNCHANGED ledger
    <2>1. Moves(s, Idle) /\ "dropped" \in Kinds
      BY DEF RecordAlert, Ends, Moves, Kinds
    <2> QED BY <1>1, <2>1, QuitsInv DEF RecordAlert
  <1>2. CASE ledger' = Record(ledger, act[s].key) /\ UNCHANGED left
    BY <1>2, RecordedInv DEF RecordAlert
  <1> QED BY <1>1, <1>2 DEF RecordAlert

LEMMA RerunInv ==
    ASSUME IInv, NEW s \in Slots, Rerun(s) \/ Expire(s) PROVE IInv'
  <1>1. {"lost", "crowd"} \subseteq Kinds
    BY DEF Kinds
  <1>2. CASE Expire(s)
    <2>1. Moves(s, Idle)
      BY <1>2 DEF Expire, Ends, Moves
    <2> QED BY <1>1, <1>2, <2>1, QuitsInv DEF Expire
  <1>3. CASE Rerun(s)
    <2>1. PICK r \in {Idle, At("ask", act[s].key, act[s].late)} : Moves(s, r)
      BY <1>3 DEF Rerun, Goes, Moves
    <2>2. Moves(s, r) /\ "lost" \in Kinds
      BY <1>1, <2>1
    <2> QED BY <1>3, <2>2, QuitsInv DEF Rerun
  <1> QED BY <1>2, <1>3

LEMMA StepInv == IInv /\ [Next]_vars => IInv'
  <1> SUFFICES ASSUME IInv, [Next]_vars PROVE IInv'
    OBVIOUS
  <1>1. broken \subseteq Keys /\ fired \subseteq Keys
    BY DEF IInv, TypeInv
  <1>2. CASE UNCHANGED vars
    BY <1>1, <1>2, StillInv DEF vars
  <1>3. ASSUME NEW k \in Keys, Break(k) PROVE IInv'
    BY <1>1, <1>3, StillInv DEF Break
  <1>4. ASSUME NEW k \in Keys, Fix(k) PROVE IInv'
    BY <1>1, <1>4, StillInv DEF Fix
  <1>5. ASSUME NEW s \in Slots, Step(s) \/ Rerun(s) \/ Expire(s) PROVE IInv'
    BY <1>5, AskInv, PushInv, RecordAlertInv, RerunInv DEF Step
  <1> QED BY <1>2, <1>3, <1>4, <1>5, FireInv, TickInv DEF Next

LEMMA OneWindow == Stretch(Window - 1) = Burst
  <1> DEFINE w == Window - 1 + Window
             x == w \div Window
  <1>1. Window \in Nat \ {0} /\ w = 2 * Window - 1
    BY Constants
  <1>2. x \in Nat /\ x * Window <= w /\ w < x * Window + Window
    BY <1>1
  <1> HIDE DEF x, w
  <1>3. x # 0
    BY <1>1, <1>2
  <1>4. ~(x >= 2)
    <2> SUFFICES ASSUME x >= 2 PROVE FALSE
      OBVIOUS
    <2>1. x * Window = 2 * Window + (x - 2) * Window
          /\ (x - 2) * Window \in Nat
      BY <1>1, <1>2
    <2> QED BY <1>1, <1>2, <2>1
  <1>5. x = 1
    BY <1>2, <1>3, <1>4
  <1> QED BY <1>5, StretchTyped DEF x, w, Stretch

LEMMA SoundInv == IInv => PagesSound
  <1> SUFFICES ASSUME IInv PROVE PagesSound
    OBVIOUS
  <1>1. TypeInv /\ Cooldown \in Nat \ {0} /\ Window \in Nat \ {0}
    BY Constants DEF IInv
  <1>2. /\ Used("outage") \in Nat /\ Used("dropped") \in Nat
        /\ Used("lost") \in Nat
    <2>1. {"outage", "dropped", "lost"} \subseteq Kinds
      BY DEF Kinds
    <2> QED BY <1>1, <2>1, Constants DEF TypeInv, Used
  <1>3. TypeOK
    <2>1. pushes \subseteq Remembered
      BY <1>1 DEF TypeInv, Hours, Remembered
    <2>2. Stretch(Cooldown - 1) =
             ((Cooldown + Window - 1) \div Window)
                 * (Cap + Cardinality(Slots) - 1)
      <3>1. Cooldown - 1 + Window = Cooldown + Window - 1
        BY <1>1
      <3> QED BY <3>1 DEF Stretch, Burst
    <2>3. Cardinality(ledger) <= Stretch(Cooldown - 1) + Used("outage")
      BY DEF IInv, LengthInv
    <2> QED BY <1>1, <2>1, <2>2, <2>3 DEF TypeInv, TypeOK
  <1>4. ASSUME NEW K \in SUBSET Keys, NEW a \in Hours
        PROVE  /\ Cardinality(Aged(pushes, K, 0, a)) <=
                      Cardinality(Aged(ledger, K, 0, a))
                        + Cardinality(InFlight(act, K))
                        + Used("dropped") + Used("lost")
               /\ Cardinality(Aged(pushes, K, 0, a)) \in Nat
               /\ Cardinality(Aged(ledger, K, 0, a)) \in Nat
               /\ Cardinality(InFlight(act, K)) \in Nat
    <2>1. Cardinality(Aged(pushes, K, 0, a)) <=
             Cardinality(Aged(ledger, K, 0, a))
               + Cardinality(Doing(act, {"record"}, K))
               + Used("dropped") + Used("lost")
      BY DEF IInv, MatchedInv
    <2>2. Doing(act, {"record"}, K) \subseteq InFlight(act, K)
      BY DEF Doing, InFlight
    <2>3. IsFiniteSet(InFlight(act, K))
      BY <1>1, Finite DEF InFlight
    <2>4. /\ Cardinality(Doing(act, {"record"}, K)) <=
                 Cardinality(InFlight(act, K))
          /\ Cardinality(Doing(act, {"record"}, K)) \in Nat
          /\ Cardinality(InFlight(act, K)) \in Nat
      BY <2>2, <2>3, Smaller
    <2>5. /\ Cardinality(Aged(pushes, K, 0, a)) \in Nat
          /\ Cardinality(Aged(ledger, K, 0, a)) \in Nat
      BY <1>1, Finite
    <2> QED BY <1>2, <2>1, <2>4, <2>5
  <1>5. \A p \in pushes : p.age \in Nat /\ p.age <= Cooldown - 1
    BY <1>1 DEF TypeInv, Hours
  <1>6. CooldownHolds
    <2> SUFFICES ASSUME NEW k \in Keys \ Senders
                 PROVE  Cardinality(PagesOf(k)) <=
                            1 + Used("outage") + Used("dropped") + Used("lost")
      BY DEF CooldownHolds
    <2>1. PagesOf(k) = Aged(pushes, {k}, 0, Cooldown - 1)
      BY <1>5 DEF PagesOf, Aged
    <2>2. Cardinality(Aged(ledger, {k}, 0, Cooldown - 1))
            + Cardinality(InFlight(act, {k})) <= 1 + Used("outage")
      BY DEF IInv, QuietInv
    <2>3. Cooldown - 1 \in Hours /\ {k} \in SUBSET Keys
      BY <1>1 DEF Hours
    <2> HIDE DEF PagesOf
    <2> QED BY <1>2, <1>4, <2>1, <2>2, <2>3
  <1>7. RateBounded
    <2>1. /\ Recent(pushes) = Aged(pushes, Keys, 0, Window - 1)
          /\ Window - 1 \in Hours
      BY <1>1, RecentIsYoung
    <2>2. Cardinality(Aged(ledger, Keys, 0, Window - 1))
            + Cardinality(InFlight(act, Keys)) <= Burst + Used("outage")
      BY <2>1, OneWindow DEF IInv, FloodInv
    <2>3. /\ Burst \in Nat /\ Burst = Cap + Cardinality(Slots) - 1
      BY StretchTyped DEF Burst
    <2>4. Cardinality(Recent(pushes)) <=
             Burst + Used("outage") + Used("dropped") + Used("lost")
      BY <1>2, <1>4, <2>1, <2>2, <2>3
    <2> QED BY <2>3, <2>4 DEF RateBounded
  <1> QED BY <1>3, <1>6, <1>7 DEF IInv, PagesSound

(* Whatever breaks, however many activities page at a time, and however    *)
(* often the ledger cannot be asked, a push is refused, a record dropped   *)
(* or an attempt lost: a key is paged once per cooldown and the window     *)
(* takes no more than its cap, but for the failures of the alert path      *)
(* itself, counted one by one; what is remembered stays bounded and was    *)
(* sent (alert_activities.py, alert/ledger.py).                            *)
THEOREM PagesStaySound == Spec => []PagesSound
  <1>1. Spec => []IInv
    BY InitInv, StepInv, PTL DEF Spec
  <1> QED BY <1>1, SoundInv, PTL
-----------------------------------------------------------------------------
(* The poll loop                                                            *)

PollTypeInv ==
    /\ charge \in [Charges -> {"none", "unapproved", "approved"}]
    /\ w2 \in [Charges -> Statuses]
    /\ today \subseteq Charges /\ scope \subseteq Charges
    /\ todo \subseteq scope

(* That a charge of the backlog has no run is not inductive: it must also  *)
(* stay out of the charges dated today, which a loop that is started again *)
(* takes for its scope, and of that scope, from which ticks are planned.   *)
Ignored(c) == /\ w2[c] = "none" /\ charge[c] # "none"
              /\ c \notin today /\ c \notin scope

PollInv == /\ PollConstants /\ PollTypeInv
           /\ ~Configured => \A c \in Backlog : Ignored(c)

LEMMA PollInitInv == PollConstants /\ PollInit => PollInv
  BY DEF PollConstants, PollInit, PollInv, PollTypeInv, Ignored,
         ScopeFrom, Statuses

(* A step that reaches no charge and widens no scope.                      *)
LEMMA PollQuietInv ==
    ASSUME PollInv, UNCHANGED <<charge, w2>>, today' \subseteq today,
           scope' \subseteq scope, todo' \subseteq scope'
    PROVE  PollInv'
  BY DEF PollInv, PollTypeInv, Ignored, PollConstants

LEMMA FetchInv == ASSUME PollInv, Fetch PROVE PollInv'
  <1>1. Planned \subseteq scope
    BY DEF Planned
  <1> QED  BY <1>1, PollQuietInv DEF Fetch, ynab

(* What is planned is in scope, so no charge of the backlog is.            *)
LEMMA AddressInv ==
    ASSUME PollInv, NEW c \in Charges, Address(c) PROVE PollInv'
  <1>1. c \in scope
    BY DEF Address, PollInv, PollTypeInv
  <1>2. PollTypeInv' /\ PollConstants'
    BY DEF Address, ynab, PollInv, PollTypeInv, Statuses,
           PollConstants
  <1>3. ASSUME ~Configured, NEW b \in Backlog PROVE Ignored(b)'
    <2>1. b \in Charges /\ b # c /\ Ignored(b)
      BY <1>1, <1>3 DEF PollInv, Ignored, PollConstants
    <2>2. w2'[b] = w2[b]
      BY <2>1 DEF Address, PollInv, PollTypeInv
    <2> QED  BY <2>1, <2>2 DEF Ignored, Address, ynab
  <1> QED  BY <1>2, <1>3 DEF PollInv

(* A loop that is started again looks no further back than today.          *)
LEMMA StartPollInv == ASSUME PollInv, StartPoll PROVE PollInv'
  <1>1. PollTypeInv' /\ PollConstants'
    BY DEF StartPoll, ScopeFrom, Restarts, ynab, PollInv,
           PollTypeInv, PollConstants
  <1>2. ASSUME ~Configured, NEW b \in Backlog PROVE Ignored(b)'
    BY <1>2 DEF StartPoll, ScopeFrom, ynab, PollInv, Ignored
  <1> QED  BY <1>1, <1>2 DEF PollInv

(* A step on a charge that is not of the backlog, or not the run of one.   *)
LEMMA PostInv == ASSUME PollInv, NEW c \in Charges, Post(c) PROVE PollInv'
  <1>1. PollTypeInv' /\ PollConstants'
    BY DEF Post, tick, PollInv, PollTypeInv, PollConstants
  <1>2. ASSUME ~Configured, NEW b \in Backlog PROVE Ignored(b)'
    <2>1. b \in Charges /\ Ignored(b)
      BY <1>2 DEF PollInv, PollConstants
    <2>2. b # c
      BY <2>1 DEF Ignored, Post
    <2> QED  BY <2>1, <2>2 DEF Ignored, Post, PollInv, PollTypeInv
  <1> QED  BY <1>1, <1>2 DEF PollInv

LEMMA ApproveInv ==
    ASSUME PollInv, NEW c \in Charges, Approve(c) PROVE PollInv'
  <1>1. PollTypeInv' /\ PollConstants'
    BY DEF Approve, tick, PollInv, PollTypeInv, PollConstants
  <1>2. ASSUME ~Configured, NEW b \in Backlog PROVE Ignored(b)'
    <2>1. b \in Charges /\ Ignored(b)
      BY <1>2 DEF PollInv, PollConstants
    <2> QED  BY <2>1 DEF Ignored, Approve, PollInv, PollTypeInv
  <1> QED  BY <1>1, <1>2 DEF PollInv

(* Only a charge that has a run has one that ends.                         *)
LEMMA EndsInv ==
    ASSUME PollInv, NEW c \in Charges, NEW status \in Statuses,
           RunEnds(c, status)
    PROVE  PollInv'
  <1>1. PollTypeInv' /\ PollConstants'
    BY DEF RunEnds, ynab, tick, PollInv, PollTypeInv,
           PollConstants
  <1>2. ASSUME ~Configured, NEW b \in Backlog PROVE Ignored(b)'
    <2>1. b \in Charges /\ Ignored(b)
      BY <1>2 DEF PollInv, PollConstants
    <2>2. b # c
      BY <2>1 DEF Ignored, RunEnds
    <2> QED  BY <2>1, <2>2
             DEF Ignored, RunEnds, ynab, PollInv, PollTypeInv
  <1> QED  BY <1>1, <1>2 DEF PollInv

LEMMA LoopStepInv == ASSUME PollInv, LoopStep PROVE PollInv'
  <1>1. CASE Receipts
    BY <1>1, PollQuietInv DEF Receipts, Sleep, ynab
  <1>2. CASE PageTick
    BY <1>2, PollQuietInv
    DEF PageTick, Sleep, ynab, tick, PollInv, PollTypeInv
  <1>3. CASE ContinueAsNew
    BY <1>3, PollQuietInv DEF ContinueAsNew, Restarts, ynab
  <1> QED  BY <1>1, <1>2, <1>3, FetchInv, AddressInv DEF LoopStep

LEMMA PollStepInv == PollInv /\ [PollNext]_pollVars => PollInv'
  <1> SUFFICES ASSUME PollInv, [PollNext]_pollVars PROVE PollInv'
    OBVIOUS
  <1>1. CASE UNCHANGED pollVars
    BY <1>1, PollQuietInv
    DEF pollVars, ynab, tick, PollInv, PollTypeInv
  <1>2. CASE LoopStep
    BY <1>2, LoopStepInv
  <1>3. CASE Deadman
    BY <1>3, PollQuietInv
    DEF Deadman, Probe, PageDeadman, ynab, tick,
        PollInv, PollTypeInv
  <1>4. CASE Mishap
    BY <1>4, PollQuietInv
    DEF Mishap, Terminate, WorkerStops, Wedge,
        TickFails, ynab, tick, PollInv, PollTypeInv
  <1>5. CASE StartPoll
    BY <1>5, StartPollInv
  <1>6. CASE WorkerStarts
    BY <1>6, PollQuietInv
    DEF WorkerStarts, ynab, tick, PollInv, PollTypeInv
  <1>7. CASE Hour
    BY <1>7, PollQuietInv DEF Hour, PollInv, PollTypeInv
  <1>8. ASSUME NEW c \in Charges, \/ Post(c) \/ Approve(c)
                                  \/ Completes(c) \/ Fails(c)
        PROVE  PollInv'
    <2>1. "completed" \in Statuses /\ "failed" \in Statuses
      BY DEF Statuses
    <2> QED  BY <1>8, <2>1, PostInv, ApproveInv, EndsInv
             DEF Completes, Fails
  <1> QED  BY <1>1, <1>2, <1>3, <1>4, <1>5, <1>6, <1>7, <1>8 DEF PollNext

(* A charge that was in YNAB before the install date gets no run, however  *)
(* often the loop fails, is terminated, continues as new or is started     *)
(* again on a later day (poll_starter.py, _resolve_install_date).          *)
THEOREM BacklogStaysIgnored == PollSpec => []BacklogIgnored
  <1>1. PollInv => BacklogIgnored
    BY DEF PollInv, BacklogIgnored, Ignored
  <1>2. PollInit => PollInv
    BY PollInitInv, PollAssumption
  <1>3. PollSpec => []PollInv
    BY <1>2, PollStepInv, PTL DEF PollSpec
  <1> QED  BY <1>1, <1>3, PTL
(* -- The deadman --------------------------------------------------------- *)
PollKeys == {"w1-poll-tick", "deadman-poll"}

(* Nothing has gone wrong yet.                                             *)
Clean == \A k \in PollKinds \ {"failed"} : PollUsed(k) = 0

(* That a healthy loop is not paged is not inductive: its age has to stay  *)
(* within what the deadman allows, which takes the time that is left to    *)
(* sleep into account.                                                     *)
OnTimeInv ==
    Clean => /\ loop = "running" /\ worker = "up"
             /\ pc # "page" /\ deadman # "page" /\ pollLedger = {}
             /\ pc = "sleep" => age + wait <= MaxTick + Interval
             /\ pc # "sleep" => age <= MaxTick

LeftInv == pollLeft \in [PollKinds -> Nat]
           /\ \A k \in PollKinds : pollLeft[k] <= PollBounds[k]
LedgerInv == pollLedger \subseteq Entries(PollKeys) /\ IsFiniteSet(pollLedger)
LoopInv ==
    /\ charge \in [Charges -> {"none", "unapproved", "approved"}]
    /\ today \subseteq Charges /\ scope \subseteq Charges
    /\ w2 \in [Charges -> Statuses] /\ loop \in Statuses
    /\ pc \in {"fetch", "address", "receipts", "page", "sleep"}
    /\ todo \subseteq scope
    /\ age \in 0 .. StaleAfter + 1 /\ wait \in 0 .. Interval
    /\ worker \in {"up", "down", "wedged"}
    /\ deadman \in {"over", "due", "page"}
DeadmanInv == LoopInv /\ LedgerInv /\ LeftInv /\ OnTimeInv

LEMMA PollNumbers ==
    /\ Interval \in Nat \ {0} /\ MaxTick \in Nat \ {0} /\ StaleAfter \in Nat
    /\ Interval + MaxTick <= StaleAfter
    /\ PollBounds \in [PollKinds -> Nat]
  BY PollAssumption DEF PollConstants

LEMMA DeadmanInit == PollInit => DeadmanInv
  <1> SUFFICES ASSUME PollInit PROVE DeadmanInv
    OBVIOUS
  <1>1. IsFiniteSet({})
    BY FS_EmptySet
  <1>2. LoopInv
    BY PollNumbers, PollAssumption
    DEF PollInit, LoopInv, ScopeFrom, Statuses, PollConstants
  <1>3. LedgerInv /\ LeftInv
    BY <1>1, PollNumbers DEF PollInit, LedgerInv, LeftInv
  <1>4. OnTimeInv
    BY PollNumbers DEF PollInit, OnTimeInv
  <1> QED  BY <1>2, <1>3, <1>4 DEF DeadmanInv

(* What goes wrong is counted, and but for a run that fails it ends what   *)
(* was clean.                                                              *)
LEMMA PollSpends ==
    ASSUME LeftInv, NEW k \in PollKinds, PollUse(k) \/ UNCHANGED pollLeft
    PROVE  /\ LeftInv' /\ (Clean' => Clean)
           /\ PollUse(k) /\ k # "failed" => ~Clean'
  <1>1. \A j \in PollKinds : /\ pollLeft[j] \in Nat /\ PollBounds[j] \in Nat
                             /\ pollLeft[j] <= PollBounds[j]
    BY PollNumbers DEF LeftInv
  <1>2. CASE UNCHANGED pollLeft
    BY <1>1, <1>2 DEF LeftInv, Clean, PollUsed, PollUse
  <1>3. CASE PollUse(k)
    <2>1. /\ pollLeft' \in [PollKinds -> Nat] /\ pollLeft'[k] = pollLeft[k] - 1
          /\ \A j \in PollKinds : j # k => pollLeft'[j] = pollLeft[j]
      BY <1>1, <1>3 DEF LeftInv, PollUse
    <2> QED  BY <1>1, <2>1 DEF LeftInv, Clean, PollUsed
  <1> QED  BY <1>2, <1>3

LEMMA PageTyped ==
    ASSUME DeadmanInv, NEW key \in PollKeys, Page(key)
    PROVE  LedgerInv' /\ LeftInv' /\ (Clean' => Clean)
  <1>1. "refused" \in PollKinds
    BY DEF PollKinds
  <1>2. LeftInv' /\ (Clean' => Clean)
    BY <1>1, PollSpends DEF DeadmanInv, Page
  <1>3. CASE UNCHANGED pollLedger
    BY <1>2, <1>3 DEF DeadmanInv, LedgerInv
  <1>4. CASE pollLedger' = Record(pollLedger, key)
    <2> DEFINE K == Kept(pollLedger, Cooldown)
    <2>1. K \subseteq pollLedger
      BY DEF Kept
    <2>2. IsFiniteSet(K) /\ K \subseteq Entries(PollKeys)
      BY <2>1, Smaller DEF DeadmanInv, LedgerInv
    <2> HIDE DEF K
    <2>3. /\ Entry(K, key) \in [key : {key}, age : {0}, nth : Nat]
          /\ IsFiniteSet(With(K, key)) /\ With(K, key) = K \cup {Entry(K, key)}
      BY <2>2, EntryTyped
    <2>4. Entry(K, key) \in Entries(PollKeys)
      BY <2>3, Constants DEF Entries
    <2>5. pollLedger' = With(K, key)
      BY <1>4 DEF Record, K
    <2> QED  BY <1>2, <2>2, <2>3, <2>4, <2>5 DEF LedgerInv
  <1> QED  BY <1>3, <1>4 DEF Page

(* A step that pages nothing and counts nothing.                           *)
LEMMA PollStill ==
    ASSUME DeadmanInv, UNCHANGED <<pollLedger, pollLeft>>
    PROVE  LedgerInv' /\ LeftInv' /\ (Clean' <=> Clean)
  BY DEF DeadmanInv, LedgerInv, LeftInv, Clean, PollUsed

LEMMA LoopStepOnTime == ASSUME DeadmanInv, LoopStep PROVE DeadmanInv'
  <1>1. LoopInv'
    <2>1. Planned \subseteq scope
      BY DEF Planned
    <2>2. CASE Fetch
      BY <2>1, <2>2 DEF Fetch, ynab, LoopInv, DeadmanInv
    <2>3. ASSUME NEW c \in Charges, Address(c) PROVE LoopInv'
      <3>1. w2' \in [Charges -> Statuses]
        BY <2>3 DEF Address, LoopInv, DeadmanInv, Statuses
      <3> QED  BY <2>3, <3>1 DEF Address, ynab, LoopInv, DeadmanInv
    <2>4. CASE Receipts
      BY <2>4, PollNumbers DEF Receipts, Sleep, ynab, LoopInv, DeadmanInv
    <2>5. CASE PageTick
      BY <2>5, PollNumbers
      DEF PageTick, Sleep, ynab, tick, LoopInv, DeadmanInv, Statuses
    <2>6. CASE ContinueAsNew
      BY <2>6, PollNumbers
      DEF ContinueAsNew, Restarts, ynab, LoopInv, DeadmanInv
    <2> QED  BY <2>2, <2>3, <2>4, <2>5, <2>6 DEF LoopStep
  <1>2. CASE PageTick
    <2>1. "crowd" \in PollKinds /\ "w1-poll-tick" \in PollKeys
      BY DEF PollKinds, PollKeys
    <2>2. ~Clean
      BY <1>2 DEF PageTick, Runs, DeadmanInv, OnTimeInv
    <2>3. CASE Page("w1-poll-tick")
      BY <1>1, <2>1, <2>2, <2>3, PageTyped DEF DeadmanInv, OnTimeInv
    <2>4. CASE PollUse("crowd") /\ UNCHANGED pollLedger
      <3>1. LeftInv' /\ ~Clean'
        BY <2>1, <2>2, <2>4, PollSpends DEF DeadmanInv
      <3>2. LedgerInv'
        BY <2>4 DEF DeadmanInv, LedgerInv
      <3> QED  BY <1>1, <3>1, <3>2 DEF DeadmanInv, OnTimeInv
    <2> QED  BY <1>2, <2>3, <2>4 DEF PageTick
  <1>3. CASE \/ Fetch \/ Receipts \/ ContinueAsNew
             \/ \E c \in Charges : Address(c)
    <2>1. UNCHANGED <<pollLedger, pollLeft, loop, worker, deadman>>
      BY <1>3 DEF Fetch, Receipts, ContinueAsNew, Address
    <2>2. LedgerInv' /\ LeftInv' /\ (Clean' <=> Clean)
      BY <2>1, PollStill
    <2>3. \/ pc' \in {"address", "receipts"} /\ age' = age /\ pc # "sleep"
          \/ pc' = "sleep" /\ age' = age /\ wait' = Interval /\ pc # "sleep"
          \/ pc' = "fetch" /\ age' = 0
      BY <1>3 DEF Fetch, Receipts, ContinueAsNew, Address, Sleep, Restarts,
                  Runs
    <2>4. OnTimeInv'
      BY <2>1, <2>2, <2>3, PollNumbers DEF DeadmanInv, LoopInv, OnTimeInv
    <2> QED  BY <1>1, <2>2, <2>4 DEF DeadmanInv
  <1> QED  BY <1>2, <1>3 DEF LoopStep

(* A loop on time is younger than what the deadman calls stale.            *)
LEMMA DeadmanOnTime == ASSUME DeadmanInv, Deadman PROVE DeadmanInv'
  <1>1. {"outage", "missed", "crowd"} \subseteq PollKinds \ {"failed"}
        /\ "deadman-poll" \in PollKeys
    BY DEF PollKinds, PollKeys
  <1>2. LoopInv'
    BY DEF Deadman, Probe, PageDeadman, ynab, tick, LoopInv, DeadmanInv
  <1>3. UNCHANGED <<loop, worker, pc, age, wait>>
    BY DEF Deadman, Probe, PageDeadman, tick
  <1>4. CASE Probe
    <2>1. LedgerInv'
      BY <1>4 DEF Probe, DeadmanInv, LedgerInv
    <2>2. CASE deadman' = (IF Problem THEN "page" ELSE "over")
               /\ UNCHANGED pollLeft
      <3>1. LeftInv' /\ (Clean' <=> Clean)
        BY <1>4, <2>2, PollStill DEF Probe
      <3>2. Clean => ~Problem
        BY PollNumbers DEF DeadmanInv, LoopInv, OnTimeInv, Problem
      <3>3. OnTimeInv'
        BY <1>3, <1>4, <2>2, <3>1, <3>2 DEF Probe, DeadmanInv, OnTimeInv
      <3> QED  BY <1>2, <2>1, <3>1, <3>3 DEF DeadmanInv
    <2>3. CASE PollUse("outage") \/ PollUse("missed")
      <3>1. LeftInv' /\ ~Clean'
        BY <1>1, <2>3, PollSpends DEF DeadmanInv
      <3> QED  BY <1>2, <2>1, <3>1 DEF DeadmanInv, OnTimeInv
    <2> QED  BY <1>4, <2>2, <2>3 DEF Probe
  <1>5. CASE PageDeadman
    <2>1. ~Clean
      BY <1>5 DEF PageDeadman, DeadmanInv, OnTimeInv
    <2>2. CASE Page("deadman-poll")
      BY <1>1, <1>2, <2>1, <2>2, PageTyped DEF DeadmanInv, OnTimeInv
    <2>3. CASE PollUse("crowd") /\ UNCHANGED pollLedger
      <3>1. LeftInv' /\ ~Clean'
        BY <1>1, <2>3, PollSpends DEF DeadmanInv
      <3>2. LedgerInv'
        BY <2>3 DEF DeadmanInv, LedgerInv
      <3> QED  BY <1>2, <3>1, <3>2 DEF DeadmanInv, OnTimeInv
    <2> QED  BY <1>5, <2>2, <2>3 DEF PageDeadman
  <1> QED  BY <1>4, <1>5 DEF Deadman

(* What goes wrong, and what only happens once something has.              *)
LEMMA UncleanOnTime ==
    ASSUME DeadmanInv, Mishap \/ StartPoll \/ WorkerStarts
    PROVE  DeadmanInv'
  <1>1. {"stop", "down", "wedge", "fault"} \subseteq PollKinds \ {"failed"}
    BY DEF PollKinds
  <1>2. CASE Mishap
    <2>1. LoopInv' /\ LedgerInv'
      BY <1>2
      DEF Mishap, Terminate, WorkerStops, Wedge, TickFails, ynab, tick,
          DeadmanInv, LoopInv, LedgerInv, Statuses
    <2>2. \/ \E k \in {"stop", "down", "wedge", "fault"} : PollUse(k)
          \/ worker = "wedged" /\ UNCHANGED pollLeft
      BY <1>2 DEF Mishap, Terminate, WorkerStops, Wedge, TickFails
    <2>3. LeftInv' /\ ~Clean'
      <3>1. CASE worker = "wedged" /\ UNCHANGED pollLeft
        <4>1. ~Clean
          BY <3>1 DEF DeadmanInv, OnTimeInv
        <4> QED  BY <3>1, <4>1 DEF DeadmanInv, LeftInv, Clean, PollUsed
      <3> QED  BY <1>1, <2>2, <3>1, PollSpends DEF DeadmanInv
    <2> QED  BY <2>1, <2>3 DEF DeadmanInv, OnTimeInv
  <1>3. CASE StartPoll \/ WorkerStarts
    <2>1. ~Clean /\ UNCHANGED <<pollLedger, pollLeft>>
      BY <1>3 DEF StartPoll, Startable, WorkerStarts, DeadmanInv, OnTimeInv
    <2>2. LoopInv'
      BY <1>3, PollNumbers
      DEF StartPoll, WorkerStarts, ScopeFrom, Restarts, ynab, tick, DeadmanInv,
          LoopInv, Statuses
    <2> QED  BY <2>1, <2>2, PollStill DEF DeadmanInv, OnTimeInv
  <1> QED  BY <1>2, <1>3

(* An hour passes only once a healthy worker has done what it asks: a tick *)
(* that still runs has hours left, and a loop that sleeps has slept less.  *)
LEMMA HourOnTime == ASSUME DeadmanInv, Hour PROVE DeadmanInv'
  <1>1. LeftInv' /\ (Clean' <=> Clean)
    BY DEF Hour, DeadmanInv, LeftInv, Clean, PollUsed
  <1>2. LedgerInv'
    BY OlderEntries DEF Hour, DeadmanInv, LedgerInv
  <1>3. LoopInv'
    BY PollNumbers DEF Hour, DeadmanInv, LoopInv
  <1>4. OnTimeInv'
    <2> SUFFICES ASSUME Clean
                 PROVE  /\ loop' = "running" /\ worker' = "up"
                        /\ pc' # "page" /\ deadman' # "page"
                        /\ pollLedger' = {}
                        /\ pc' = "sleep" => age' + wait' <= MaxTick + Interval
                        /\ pc' # "sleep" => age' <= MaxTick
      BY <1>1 DEF OnTimeInv
    <2>1. /\ loop = "running" /\ worker = "up" /\ pc # "page"
          /\ deadman # "page" /\ pollLedger = {}
      BY DEF DeadmanInv, OnTimeInv
    <2>2. pollLedger' = {}
      BY <2>1 DEF Hour, Older
    <2>3. /\ loop' = "running" /\ worker' = "up" /\ pc' = pc
          /\ deadman' # "page"
      BY <2>1 DEF Hour
    <2>4. IF pc = "sleep" THEN wait > 0 ELSE age < MaxTick
      BY <2>1 DEF Hour, OnTime
    <2>5. /\ age' = age + 1
          /\ wait' = IF wait > 0 THEN wait - 1 ELSE 0
      BY <2>1, <2>4, PollNumbers DEF Hour, DeadmanInv, LoopInv, OnTimeInv
    <2>6. /\ pc' = "sleep" => age' + wait' <= MaxTick + Interval
          /\ pc' # "sleep" => age' <= MaxTick
      BY <2>3, <2>4, <2>5, PollNumbers DEF DeadmanInv, LoopInv, OnTimeInv
    <2> QED  BY <2>1, <2>2, <2>3, <2>6
  <1> QED  BY <1>1, <1>2, <1>3, <1>4 DEF DeadmanInv

(* YNAB and the W2 runs do not reach the loop's clock.                     *)
LEMMA ChargeOnTime ==
    ASSUME DeadmanInv, NEW c \in Charges,
           Post(c) \/ Approve(c) \/ Completes(c) \/ Fails(c)
    PROVE  DeadmanInv'
  <1>1. "failed" \in PollKinds
    BY DEF PollKinds
  <1>2. LeftInv' /\ (Clean' => Clean)
    BY <1>1, PollSpends
    DEF Post, Approve, Completes, Fails, RunEnds, DeadmanInv
  <1>3. UNCHANGED <<loop, worker, pc, deadman, pollLedger, age, wait, todo>>
    BY DEF Post, Approve, Completes, Fails, RunEnds, tick
  <1>4. LedgerInv' /\ OnTimeInv'
    BY <1>2, <1>3 DEF DeadmanInv, LedgerInv, OnTimeInv
  <1>5. /\ charge' \in [Charges -> {"none", "unapproved", "approved"}]
        /\ w2' \in [Charges -> Statuses]
        /\ today' \subseteq Charges /\ scope' \subseteq Charges
        /\ scope \subseteq scope'
    BY DEF Post, Approve, Completes, Fails, RunEnds, ynab, DeadmanInv,
           LoopInv, Statuses
  <1> QED  BY <1>2, <1>3, <1>4, <1>5 DEF DeadmanInv, LoopInv

LEMMA DeadmanStep == DeadmanInv /\ [PollNext]_pollVars => DeadmanInv'
  <1> SUFFICES ASSUME DeadmanInv, [PollNext]_pollVars PROVE DeadmanInv'
    OBVIOUS
  <1>1. CASE UNCHANGED pollVars
    BY <1>1
    DEF pollVars, ynab, tick, DeadmanInv, LoopInv, LedgerInv, LeftInv,
        OnTimeInv, Clean, PollUsed
  <1> QED  BY <1>1, LoopStepOnTime, DeadmanOnTime, UncleanOnTime, HourOnTime,
              ChargeOnTime DEF PollNext

(* The safety half of DeadmanTruthful, whatever the interval and the       *)
(* longest tick that together stay within what the deadman allows: while   *)
(* nothing has gone wrong it pages nobody, however a slow tick, the sleep  *)
(* after it and the hourly check interleave (deadman_workflow.py).         *)
THEOREM HealthyIsNotPaged == PollSpec => [](PollTypeOK /\ HealthyNotPaged)
  <1>1. DeadmanInv => PollTypeOK /\ HealthyNotPaged
    <2> SUFFICES ASSUME DeadmanInv PROVE PollTypeOK /\ HealthyNotPaged
      OBVIOUS
    <2>1. pollLedger \subseteq [key : {"w1-poll-tick", "deadman-poll"},
                               age : 0 .. Cooldown, nth : Nat]
      BY DEF DeadmanInv, LedgerInv, Entries, PollKeys
    <2>2. PollTypeOK
      BY <2>1 DEF DeadmanInv, LoopInv, LeftInv, PollTypeOK
    <2>3. Clean => pollLedger = {}
      BY DEF DeadmanInv, OnTimeInv
    <2>4. HealthyNotPaged
      BY <2>3 DEF HealthyNotPaged, Paged, Clean
    <2> QED  BY <2>2, <2>4
  <1>2. PollSpec => []DeadmanInv
    BY DeadmanInit, DeadmanStep, PTL DEF PollSpec
  <1> QED  BY <1>1, <1>2, PTL

=============================================================================
