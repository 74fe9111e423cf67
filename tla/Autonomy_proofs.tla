--------------------------- MODULE Autonomy_proofs ---------------------------
(***************************************************************************)
(* Proofs about the parts that let the agent act on its own: the rule      *)
(* table, the conversation in which the owner gives his consent, and the   *)
(* circuit breaker.  The three share no variable; each is proved for every *)
(* value of its own constants.                                             *)
(***************************************************************************)
EXTENDS RuleRegistry, ConsentThread, AutoBreaker,
        FiniteSetTheorems, WellFoundedInduction, TLAPS

(***************************************************************************)
(* The rule table: for any categories, any K, any sequence of confirmations, *)
(* corrections, offers, commands, revokes and deliveries of a signal more  *)
(* than once, autonomy is granted and never taken, a rule is offered only  *)
(* on K decisions of the owner, and the owner is asked about it once.      *)
(***************************************************************************)
TypeInv ==
    /\ TypeOK
    /\ IsFiniteSet(again)
    /\ \A k \in Kinds : left[k] <= Bounds[k]
    /\ driver = "starting" => offering \in Nat \ {0} /\ wanted \in Actions

(* A rule the owner has blessed stays trusted until it is demoted, and one *)
(* that learned its trust has the hits for it.                             *)
RuleSound(r) ==
    /\ r.source = "HUMAN_EXPLICIT" => r.trust = "TRUSTED"
    /\ r.source = "LEARNED" /\ r.trust = "TRUSTED" => r.hits >= K

(* EarnedByConfirms is not inductive: a signal still to be delivered again *)
(* will add a hit.  What bounds the hits of a rule is the decisions of the *)
(* owner and the deliveries that were repeated, but for those still to     *)
(* come.                                                                   *)
Slack(a) == confirmed[a] + Redelivered - Cardinality(again)
HitsInv  == \A i \in DOMAIN rules : rules[i].hits <= Slack(rules[i].action)
AgainInv == Cardinality(again) <= Redelivered

IInv == /\ TypeInv /\ HitsInv /\ AgainInv /\ GrantedNotTaken
        /\ \A i \in DOMAIN rules : RuleSound(rules[i])

(* -- The folds ------------------------------------------------------------ *)
LEMMA Least ==
    ASSUME NEW S \in SUBSET Nat, S # {}
    PROVE  \E i \in S : \A j \in S : i <= j
  <1> DEFINE R == OpToRel(<, Nat)
  <1>1. IsWellFoundedOn(R, Nat)
    BY NatLessThanWellFounded
  <1>2. \A i, j \in Nat : i < j => <<i, j>> \in R
    BY DEF OpToRel
  <1> HIDE DEF R
  <1>3. PICK i \in S : \A j \in S : ~(<<j, i>> \in R)
    BY <1>1, WFMin
  <1>4. ASSUME NEW j \in S PROVE i <= j
    <2>1. i \in Nat /\ j \in Nat
      OBVIOUS
    <2>2. ~(j < i)
      BY <1>2, <1>3, <2>1
    <2> QED  BY <2>1, <2>2
  <1> QED  BY <1>4

LEMMA FirstIn ==
    ASSUME NEW S \in SUBSET Nat, S # {} PROVE First(S) \in S
  BY Least DEF First

LEMMA RulesTyped ==
    ASSUME TypeInv
    PROVE  /\ rules \in Seq(Rule) /\ Len(rules) \in Nat
           /\ DOMAIN rules = 1 .. Len(rules) /\ DOMAIN rules \in SUBSET Nat
           /\ \A i \in DOMAIN rules : rules[i] \in Rule
  BY DEF TypeInv, TypeOK

(* What a signal may add to the hits of a rule that files under a.         *)
Extra(s, a) == IF s.k = "confirm" /\ s.action = a THEN 1 ELSE 0

(* A fold keeps rules sound, adds hits only where they were earned, and    *)
(* blesses only what the signal is a yes to or leaves blessed as it was.   *)
Agreed(s, i, a) ==
    i \in YesTo(s) /\ \A p \in Grants(s) : p.id = i => p.action = a
Hits(F, s) ==
    \A i \in DOMAIN F :
        \/ F[i].hits <= Extra(s, F[i].action)
        \/ /\ i \in DOMAIN rules /\ F[i].action = rules[i].action
           /\ F[i].hits <= rules[i].hits + Extra(s, F[i].action)
Grant(F, s) ==
    \A i \in Blessed(F) :
        \/ /\ i \in Blessed(rules) /\ i \notin Demoted(s)
           /\ F[i].action = rules[i].action
        \/ Agreed(s, i, F[i].action)
SoundFold(F, s) ==
    /\ F \in Seq(Rule) /\ \A i \in DOMAIN F : RuleSound(F[i])
    /\ Hits(F, s) /\ Grant(F, s)

(* A rule is added at the end.                                             *)
LEMMA AppendSound ==
    ASSUME IInv, NEW s, NEW r \in Rule, RuleSound(r),
           r.hits <= Extra(s, r.action),
           s.k # "revoke",
           s.k = "correct" => s.prior \notin DOMAIN rules,
           r.source = "HUMAN_EXPLICIT" => Agreed(s, Len(rules) + 1, r.action)
    PROVE  SoundFold(Append(rules, r), s)
  <1> DEFINE F == Append(rules, r)
             n == Len(rules) + 1
  <1>1. /\ rules \in Seq(Rule) /\ Len(rules) \in Nat
        /\ DOMAIN rules = 1 .. Len(rules)
    BY RulesTyped DEF IInv
  <1>2. /\ F \in Seq(Rule) /\ DOMAIN F = 1 .. n /\ F[n] = r
        /\ \A i \in DOMAIN rules : i \in DOMAIN F /\ F[i] = rules[i]
        /\ \A i \in DOMAIN F : i \in DOMAIN rules \/ i = n
    BY <1>1
  <1> HIDE DEF F
  <1>3. \A i \in DOMAIN F : RuleSound(F[i])
    BY <1>2 DEF IInv
  <1>4. Hits(F, s)
    <2>1. ASSUME NEW i \in DOMAIN rules
          PROVE  rules[i].hits <= rules[i].hits + Extra(s, rules[i].action)
      BY RulesTyped DEF IInv, Rule, Extra
    <2> QED  BY <1>2, <2>1 DEF Hits
  <1>5. Grant(F, s)
    <2>1. ASSUME NEW i \in DOMAIN rules PROVE i \notin Demoted(s)
      BY <2>1, <1>1 DEF Demoted
    <2> QED  BY <1>2, <2>1 DEF Grant, Blessed
  <1> QED  BY <1>2, <1>3, <1>4, <1>5 DEF SoundFold, F

(* One rule is changed.                                                    *)
LEMMA ChangeSound ==
    ASSUME IInv, NEW s, NEW n \in DOMAIN rules, NEW r \in Rule, RuleSound(r),
           \/ r.hits <= Extra(s, r.action)
           \/ /\ r.action = rules[n].action
              /\ r.hits <= rules[n].hits + Extra(s, r.action),
           s.k # "revoke", s.k = "correct" => s.prior = n,
           r.source = "HUMAN_EXPLICIT" =>
              \/ /\ s.k = "confirm" /\ n \in Blessed(rules)
                 /\ r.action = rules[n].action
              \/ Agreed(s, n, r.action)
    PROVE  SoundFold([rules EXCEPT ![n] = r], s)
  <1> DEFINE F == [rules EXCEPT ![n] = r]
  <1>1. /\ F \in Seq(Rule) /\ DOMAIN F = DOMAIN rules /\ F[n] = r
        /\ \A i \in DOMAIN rules : i # n => F[i] = rules[i]
    BY RulesTyped DEF IInv
  <1> HIDE DEF F
  <1>2. \A i \in DOMAIN F : RuleSound(F[i])
    BY <1>1 DEF IInv
  <1>3. Hits(F, s)
    <2>1. ASSUME NEW i \in DOMAIN rules
          PROVE  rules[i].hits <= rules[i].hits + Extra(s, rules[i].action)
      BY RulesTyped DEF IInv, Rule, Extra
    <2> QED  BY <1>1, <2>1 DEF Hits
  <1>4. Grant(F, s)
    <2>1. \A i \in DOMAIN rules : i # n => i \notin Demoted(s)
      BY DEF Demoted
    <2>2. s.k = "confirm" => n \notin Demoted(s)
      BY DEF Demoted
    <2> QED  BY <1>1, <2>1, <2>2 DEF Grant, Blessed
  <1> QED  BY <1>1, <1>2, <1>3, <1>4 DEF SoundFold, F

LEMMA Trusting ==
    ASSUME NEW hits \in Nat
    PROVE  /\ TrustForHits(hits) \in Trusts
           /\ TrustForHits(hits) = "TRUSTED" => hits >= K
  BY RegistryAssumption DEF TrustForHits, Trusts

LEMMA EncodingFirst ==
    ASSUME TypeInv, NEW a, Encoding(rules, a) # {}
    PROVE  /\ First(Encoding(rules, a)) \in DOMAIN rules
           /\ rules[First(Encoding(rules, a))].action = a
  <1>1. Encoding(rules, a) \in SUBSET Nat
    BY RulesTyped DEF Encoding
  <1>2. First(Encoding(rules, a)) \in Encoding(rules, a)
    BY <1>1, FirstIn
  <1> QED  BY <1>2 DEF Encoding

LEMMA ConfirmSound ==
    ASSUME IInv, NEW a \in Actions, NEW s, s = [k |-> "confirm", action |-> a]
    PROVE  SoundFold(Confirm(rules, a), s)
  <1>1. s.k = "confirm" /\ s.action = a /\ Extra(s, a) = 1
    BY DEF Extra
  <1>2. CASE Encoding(rules, a) = {}
    <2> DEFINE r == NewRule(a, TrustForHits(1), 1, "LEARNED")
    <2>1. /\ r.action = a /\ r.hits = 1 /\ r.source = "LEARNED"
          /\ r.trust = TrustForHits(1) /\ r \in Rule
      BY Trusting DEF NewRule, Rule, Sources
    <2>2. RuleSound(r)
      BY <2>1, Trusting DEF RuleSound
    <2>3. Confirm(rules, a) = Append(rules, r)
      BY <1>2 DEF Confirm
    <2> HIDE DEF r
    <2> QED  BY <1>1, <2>1, <2>2, <2>3, AppendSound
  <1>3. CASE Encoding(rules, a) # {}
    <2> DEFINE n == First(Encoding(rules, a))
               old == rules[n]
               r == Strengthen(old)
    <2>1. n \in DOMAIN rules /\ old.action = a /\ old \in Rule
          /\ RuleSound(old)
      BY <1>3, EncodingFirst, RulesTyped DEF IInv
    <2>2. /\ r.action = a /\ r.hits = old.hits + 1 /\ r.source = old.source
          /\ r.trust = (IF old.source = "HUMAN_EXPLICIT" THEN "TRUSTED"
                        ELSE TrustForHits(old.hits + 1))
          /\ old.hits \in Nat /\ r \in Rule
      <3>1. old.hits \in Nat /\ old.hits + 1 \in Nat
        BY <2>1 DEF Rule
      <3>2. TrustForHits(old.hits + 1) \in Trusts /\ "TRUSTED" \in Trusts
        BY <3>1, Trusting DEF Trusts
      <3>3. r = [old EXCEPT !.hits = old.hits + 1,
                            !.trust = IF old.source = "HUMAN_EXPLICIT"
                                      THEN "TRUSTED"
                                      ELSE TrustForHits(old.hits + 1)]
        BY DEF Strengthen
      <3> HIDE DEF old, r
      <3> QED  BY <2>1, <3>1, <3>2, <3>3 DEF Rule
    <2>3. RuleSound(r)
      BY <2>2, Trusting DEF RuleSound
    <2>4. Confirm(rules, a) = [rules EXCEPT ![n] = r]
      BY <1>3 DEF Confirm
    <2>5. r.source = "HUMAN_EXPLICIT" => n \in Blessed(rules)
      BY <2>1, <2>2 DEF Blessed, RuleSound
    <2>6. r.hits <= rules[n].hits + Extra(s, r.action)
      BY <1>1, <2>2
    <2>7. r.action = rules[n].action
      BY <2>1, <2>2
    <2> HIDE DEF r, n
    <2> QED
      BY <1>1, <2>1, <2>2, <2>3, <2>4, <2>5, <2>6, <2>7, ChangeSound
  <1> QED  BY <1>2, <1>3

LEMMA CorrectSound ==
    ASSUME IInv, NEW a \in Actions, NEW prior \in Nat, NEW s,
           s = [k |-> "correct", prior |-> prior, action |-> a]
    PROVE  SoundFold(Correct(rules, prior, a), s)
  <1> DEFINE r == NewRule(a, "SUGGESTED", 0, "LEARNED")
  <1>1. /\ s.k = "correct" /\ s.prior = prior /\ Extra(s, a) = 0
        /\ r.action = a /\ r.hits = 0 /\ r.source = "LEARNED"
        /\ r.trust = "SUGGESTED" /\ r \in Rule
    BY DEF Extra, NewRule, Rule, Sources, Trusts
  <1>2. RuleSound(r)
    BY <1>1 DEF RuleSound
  <1>3. Correct(rules, prior, a) = IF prior \notin DOMAIN rules
                                   THEN Append(rules, r)
                                   ELSE [rules EXCEPT ![prior] = r]
    BY DEF Correct
  <1> HIDE DEF r
  <1>4. r.hits <= Extra(s, r.action)
    BY <1>1
  <1>5. CASE prior \notin DOMAIN rules
    BY <1>1, <1>2, <1>3, <1>4, <1>5, AppendSound
  <1>6. CASE prior \in DOMAIN rules
    <2>1. SoundFold([rules EXCEPT ![prior] = r], s)
      BY <1>1, <1>2, <1>4, <1>6, ChangeSound
    <2> QED  BY <1>3, <1>6, <2>1
  <1> QED  BY <1>5, <1>6

LEMMA BlessSound ==
    ASSUME IInv, NEW a \in Actions, NEW s, s = [k |-> "bless", action |-> a]
    PROVE  SoundFold(Bless(rules, a), s)
  <1>1. /\ s.k = "bless" /\ s.action = a
        /\ \A b : Extra(s, b) = 0
    BY DEF Extra
  <1>2. CASE Encoding(rules, a) = {}
    <2> DEFINE r == NewRule(a, "TRUSTED", 0, "HUMAN_EXPLICIT")
    <2>1. /\ r.action = a /\ r.hits = 0 /\ r.source = "HUMAN_EXPLICIT"
          /\ r.trust = "TRUSTED" /\ r \in Rule
      BY DEF NewRule, Rule, Sources, Trusts
    <2>2. RuleSound(r)
      BY <2>1 DEF RuleSound
    <2>3. Bless(rules, a) = Append(rules, r)
      BY <1>2 DEF Bless
    <2>4. Agreed(s, Len(rules) + 1, r.action)
      BY <1>1, <1>2, <2>1 DEF Agreed, Grants, YesTo
    <2> HIDE DEF r
    <2> QED  BY <1>1, <2>1, <2>2, <2>3, <2>4, AppendSound
  <1>3. CASE Encoding(rules, a) # {}
    <2> DEFINE n == First(Encoding(rules, a))
               old == rules[n]
               r == [old EXCEPT !.trust = "TRUSTED",
                                !.source = "HUMAN_EXPLICIT"]
    <2>1. n \in DOMAIN rules /\ old.action = a /\ old \in Rule
      BY <1>3, EncodingFirst, RulesTyped DEF IInv
    <2>2. /\ r.action = a /\ r.hits = old.hits /\ r.trust = "TRUSTED"
          /\ old.hits \in Nat /\ r \in Rule
      BY <2>1 DEF Rule, Trusts, Sources
    <2>3. RuleSound(r)
      BY <2>1 DEF RuleSound, Rule
    <2>4. Bless(rules, a) = [rules EXCEPT ![n] = r]
      BY <1>3 DEF Bless
    <2>5. Agreed(s, n, r.action)
      BY <1>1, <1>3, <2>2 DEF Agreed, Grants, YesTo
    <2>6. /\ r.action = rules[n].action
          /\ r.hits <= rules[n].hits + Extra(s, r.action)
      BY <1>1, <2>1, <2>2
    <2> HIDE DEF r, n
    <2> QED  BY <1>1, <2>1, <2>2, <2>3, <2>4, <2>5, <2>6, ChangeSound
  <1> QED  BY <1>2, <1>3

(* Nothing happens.                                                        *)
LEMMA SameSound ==
    ASSUME IInv, NEW s, s.k \notin {"revoke", "correct"}
    PROVE  SoundFold(rules, s)
  <1>1. ASSUME NEW i \in DOMAIN rules
        PROVE  rules[i].hits <= rules[i].hits + Extra(s, rules[i].action)
    BY RulesTyped DEF IInv, Rule, Extra
  <1>2. Demoted(s) = {}
    BY DEF Demoted
  <1> QED
    BY <1>1, <1>2, RulesTyped DEF SoundFold, Hits, Grant, IInv

LEMMA BlessByIdSound ==
    ASSUME IInv, NEW id \in Nat \ {0}, NEW s,
           s = [k |-> "blessExisting", id |-> id]
    PROVE  SoundFold(BlessById(rules, id), s)
  <1>1. /\ s.k = "blessExisting" /\ s.id = id
        /\ \A b : Extra(s, b) = 0
    BY DEF Extra
  <1>2. CASE id \notin Eligible(rules)
    BY <1>1, <1>2, SameSound DEF BlessById
  <1>3. CASE id \in Eligible(rules)
    <2> DEFINE old == rules[id]
               r == [old EXCEPT !.source = "HUMAN_EXPLICIT"]
    <2>1. id \in DOMAIN rules /\ old \in Rule /\ old.trust = "TRUSTED"
      BY <1>3, RulesTyped DEF IInv, Eligible
    <2>2. /\ r.action = old.action /\ r.hits = old.hits
          /\ old.hits \in Nat /\ r \in Rule
      BY <2>1 DEF Rule, Sources
    <2>3. RuleSound(r)
      BY <2>1 DEF RuleSound, Rule
    <2>4. BlessById(rules, id) = [rules EXCEPT ![id] = r]
      BY <1>3 DEF BlessById
    <2>5. r.hits <= rules[id].hits + Extra(s, r.action)
      BY <1>1, <2>2
    <2>6. Agreed(s, id, r.action)
      BY <1>1, <1>3, <2>2 DEF Agreed, Grants, YesTo
    <2> HIDE DEF r
    <2> QED  BY <1>1, <2>1, <2>2, <2>3, <2>4, <2>5, <2>6, ChangeSound
  <1> QED  BY <1>2, <1>3

LEMMA RevokeSound ==
    ASSUME IInv, NEW s, s = [k |-> "revoke"]
    PROVE  SoundFold(Revoke(rules), s)
  <1> DEFINE F == Revoke(rules)
  <1>1. /\ rules \in Seq(Rule) /\ DOMAIN rules = 1 .. Len(rules)
        /\ Len(rules) \in Nat /\ \A i \in DOMAIN rules : rules[i] \in Rule
    BY RulesTyped DEF IInv
  <1>2. ASSUME NEW i \in DOMAIN rules
        PROVE  /\ F[i] \in Rule /\ F[i].source = "LEARNED"
               /\ F[i].action = rules[i].action
               /\ F[i].hits = rules[i].hits /\ rules[i].hits \in Nat
               /\ RuleSound(F[i])
    <2>1. F[i] = IF rules[i].source = "HUMAN_EXPLICIT"
                 THEN [rules[i] EXCEPT !.source = "LEARNED",
                                       !.trust = "CONFIRMED"]
                 ELSE rules[i]
      BY DEF Revoke
    <2>2. rules[i] \in Rule /\ RuleSound(rules[i])
      BY <1>1 DEF IInv
    <2>3. CASE rules[i].source = "HUMAN_EXPLICIT"
      BY <2>1, <2>2, <2>3 DEF Rule, Sources, Trusts, RuleSound
    <2>4. CASE rules[i].source # "HUMAN_EXPLICIT"
      BY <2>1, <2>2, <2>4 DEF Rule, Sources
    <2> QED  BY <2>3, <2>4
  <1>3. DOMAIN F = DOMAIN rules
    BY DEF Revoke
  <1>4. F \in Seq(Rule)
    <2>1. F = [i \in 1 .. Len(rules) |-> F[i]]
      BY <1>1 DEF Revoke
    <2> HIDE DEF F
    <2> QED  BY <1>1, <1>2, <2>1
  <1> HIDE DEF F
  <1>5. Hits(F, s)
    BY <1>2, <1>3 DEF Hits, Extra
  <1>6. Grant(F, s)
    BY <1>2, <1>3 DEF Grant, Blessed
  <1> QED  BY <1>2, <1>3, <1>4, <1>5, <1>6 DEF SoundFold, F

LEMMA FoldedSound ==
    ASSUME IInv, NEW s \in Signal PROVE SoundFold(Folded(s), s)
  <1>1. CASE s \in [k: {"confirm", "bless"}, action: Actions]
    <2>1. s = [k |-> s.k, action |-> s.action] /\ s.action \in Actions
          /\ s.k \in {"confirm", "bless"}
      BY <1>1
    <2> QED  BY <2>1, ConfirmSound, BlessSound DEF Folded
  <1>2. CASE s \in [k: {"correct"}, prior: Nat, action: Actions]
    <2>1. /\ s = [k |-> "correct", prior |-> s.prior, action |-> s.action]
          /\ s.action \in Actions /\ s.prior \in Nat /\ s.k = "correct"
      BY <1>2
    <2> QED  BY <2>1, CorrectSound DEF Folded
  <1>3. CASE s \in [k: {"blessExisting"}, id: Nat \ {0}]
    <2>1. /\ s = [k |-> "blessExisting", id |-> s.id]
          /\ s.id \in Nat \ {0} /\ s.k = "blessExisting"
      BY <1>3
    <2> QED  BY <2>1, BlessByIdSound DEF Folded
  <1>4. CASE s \in [k: {"revoke"}]
    <2>1. s = [k |-> "revoke"] /\ s.k = "revoke"
      BY <1>4
    <2> QED  BY <2>1, RevokeSound DEF Folded
  <1> QED  BY <1>1, <1>2, <1>3, <1>4 DEF Signal

(* -- Signals -------------------------------------------------------------- *)
OffersTyped ==
    offers \subseteq [id: Nat \ {0}, action: Actions, open: BOOLEAN]
AutosTyped == autos \subseteq [rule: Nat \ {0}, n: Nat, action: Actions]

LEMMA SlackTyped ==
    ASSUME TypeInv
    PROVE  /\ Redelivered \in Nat /\ Cardinality(again) \in Nat
           /\ \A a \in Actions : confirmed[a] \in Nat /\ Slack(a) \in Int
  <1>1. "lost" \in Kinds
    BY DEF Kinds
  <1>2. /\ left["lost"] \in Nat /\ Bounds["lost"] \in Nat
        /\ left["lost"] <= Bounds["lost"]
    BY <1>1, RegistryAssumption DEF TypeInv, TypeOK
  <1>3. Redelivered \in Nat
    BY <1>2 DEF Redelivered
  <1>4. Cardinality(again) \in Nat
    BY FS_CardinalityType DEF TypeInv
  <1>5. \A a \in Actions : confirmed[a] \in Nat
    BY DEF TypeInv, TypeOK
  <1> QED  BY <1>3, <1>4, <1>5 DEF Slack

LEMMA YesTyped ==
    ASSUME IInv, NEW s \in Signal PROVE YesTo(s) \subseteq Nat \ {0}
  <1>1. CASE s.k = "bless"
    <2>1. Len(rules) + 1 \in Nat \ {0}
      BY RulesTyped DEF IInv
    <2>2. Encoding(rules, s.action) # {}
            => First(Encoding(rules, s.action)) \in Nat \ {0}
      BY EncodingFirst, RulesTyped DEF IInv
    <2> QED  BY <1>1, <2>1, <2>2 DEF YesTo
  <1>2. CASE s.k = "blessExisting"
    BY <1>2, RulesTyped DEF YesTo, Eligible, IInv
  <1>3. CASE s.k \notin {"bless", "blessExisting"}
    BY <1>3 DEF YesTo
  <1> QED  BY <1>1, <1>2, <1>3

LEMMA GrantsTyped ==
    ASSUME IInv, NEW s \in Signal PROVE Grants(s) \subseteq Pair
  <1>1. CASE s.k = "bless"
    <2>1. s.action \in Actions
      BY <1>1 DEF Signal
    <2> QED  BY <1>1, <2>1, YesTyped DEF Grants, Pair
  <1>2. CASE s.k = "blessExisting"
    BY <1>2 DEF Grants, Pair, IInv, TypeInv, TypeOK
  <1>3. CASE s.k \notin {"bless", "blessExisting"}
    BY <1>3 DEF Grants
  <1> QED  BY <1>1, <1>2, <1>3

(* A signal is folded, and the count of what was decided or delivered once *)
(* more grows at least with what it adds.                                  *)
LEMMA FoldInv ==
    ASSUME IInv, NEW s \in Signal, NEW fresh \in {Grants(s), {}},
           Fold(s, fresh),
           left' \in [Kinds -> Nat], \A k \in Kinds : left'[k] <= Bounds[k],
           again' \subseteq Signal, IsFiniteSet(again'),
           confirmed' \in [Actions -> Nat],
           UNCHANGED <<driver, offering, wanted>>, OffersTyped',
           commands' \subseteq Actions, AutosTyped',
           AgainInv', Redelivered' >= Redelivered,
           \A a \in Actions : Slack(a)' >= Slack(a) + Extra(s, a)
    PROVE  IInv'
  <1>1. SoundFold(rules', s)
    BY FoldedSound DEF Fold
  <1>2. TypeInv'
    <2>1. granted' \subseteq Pair /\ reused' \subseteq Nat \ {0}
      BY GrantsTyped, YesTyped DEF IInv, TypeInv, TypeOK, Fold
    <2> QED
      BY <1>1, <2>1
      DEF IInv, TypeInv, TypeOK, Fold, SoundFold, OffersTyped, AutosTyped
  <1>3. HitsInv'
    <2>1. \A i \in DOMAIN rules' : rules'[i].action \in Actions
                                   /\ rules'[i].hits \in Nat
      <3>1. rules' \in Seq(Rule)
        BY <1>1 DEF SoundFold
      <3>2. \A i \in DOMAIN rules' : rules'[i] \in Rule
        BY <3>1
      <3> QED  BY <3>2 DEF Rule
    <2> SUFFICES ASSUME NEW i \in DOMAIN rules', NEW a \in Actions,
                        rules'[i].action = a
                 PROVE  rules'[i].hits <= Slack(a)'
      BY <2>1 DEF HitsInv, Slack, Redelivered
    <2>2. /\ Slack(a) \in Int /\ Slack(a)' \in Int /\ Slack(a) >= 0
          /\ Extra(s, a) \in Nat /\ Slack(a)' >= Slack(a) + Extra(s, a)
      <3>1. Slack(a) \in Int /\ confirmed[a] \in Nat /\ Redelivered \in Nat
            /\ Cardinality(again) \in Nat
        BY SlackTyped DEF IInv
      <3>2. Redelivered' \in Nat /\ Cardinality(again') \in Nat
        <4>1. "lost" \in Kinds
          BY DEF Kinds
        <4>2. /\ left'["lost"] \in Nat /\ Bounds["lost"] \in Nat
              /\ left'["lost"] <= Bounds["lost"]
          BY <4>1, RegistryAssumption
        <4> QED  BY <4>2, FS_CardinalityType DEF Redelivered
      <3>3. confirmed'[a] \in Nat
        OBVIOUS
      <3>4. Slack(a)' \in Int
        BY <3>2, <3>3 DEF Slack
      <3>5. Slack(a) >= 0
        BY <3>1 DEF IInv, AgainInv, Slack
      <3>6. Extra(s, a) \in Nat
        BY DEF Extra
      <3> QED  BY <3>1, <3>4, <3>5, <3>6
    <2>3. CASE rules'[i].hits <= Extra(s, a)
      BY <2>1, <2>2, <2>3
    <2>4. CASE /\ i \in DOMAIN rules /\ a = rules[i].action
               /\ rules'[i].hits <= rules[i].hits + Extra(s, a)
      <3>1. rules[i].hits \in Nat /\ rules[i].hits <= Slack(a)
        <4>1. rules[i].hits \in Nat
          BY <2>4, RulesTyped DEF IInv, Rule
        <4> QED  BY <4>1, <2>4 DEF IInv, HitsInv
      <3>2. rules'[i].hits \in Nat
        BY <2>1
      <3> QED  BY <2>2, <2>4, <3>1, <3>2
    <2> QED  BY <1>1, <2>3, <2>4 DEF SoundFold, Hits
  <1>4. GrantedNotTaken'
    <2> SUFFICES ASSUME NEW i \in Blessed(rules')
                 PROVE  \/ [id |-> i, action |-> rules'[i].action] \in granted'
                        \/ i \in reused'
      BY DEF GrantedNotTaken
    <2>1. \/ /\ i \in Blessed(rules) /\ i \notin Demoted(s)
             /\ rules'[i].action = rules[i].action
          \/ Agreed(s, i, rules'[i].action)
      BY <1>1 DEF SoundFold, Grant
    <2>2. CASE /\ i \in Blessed(rules) /\ i \notin Demoted(s)
               /\ rules'[i].action = rules[i].action
      BY <2>2 DEF IInv, GrantedNotTaken, Fold
    <2>3. CASE Agreed(s, i, rules'[i].action)
      <3>1. CASE \E p \in fresh : p.id = i
        <4>1. PICK p \in fresh : p.id = i
          BY <3>1
        <4>2. p \in Pair /\ p.action = rules'[i].action
          BY <2>3, <4>1, GrantsTyped DEF Agreed
        <4>3. p = [id |-> i, action |-> rules'[i].action]
          BY <4>1, <4>2 DEF Pair
        <4> QED  BY <4>1, <4>3 DEF Fold
      <3>2. CASE ~ \E p \in fresh : p.id = i
        BY <2>3, <3>2 DEF Agreed, Fold
      <3> QED  BY <3>1, <3>2
    <2> QED  BY <2>1, <2>2, <2>3
  <1>5. \A i \in DOMAIN rules' : RuleSound(rules'[i])
    BY <1>1 DEF SoundFold
  <1> QED  BY <1>2, <1>3, <1>4, <1>5 DEF IInv, RuleSound

LEMMA SpendTyped ==
    ASSUME TypeInv, NEW kinds \in SUBSET Kinds, Spend(kinds)
    PROVE  /\ left' \in [Kinds -> Nat]
           /\ \A k \in Kinds : left'[k] <= left[k] /\ left'[k] <= Bounds[k]
           /\ \A k \in Kinds :
                 left'[k] = IF k \in kinds THEN left[k] - 1 ELSE left[k]
  <1>1. \A k \in Kinds : left[k] \in Nat /\ Bounds[k] \in Nat
                          /\ left[k] <= Bounds[k]
    BY RegistryAssumption DEF TypeInv, TypeOK
  <1> QED  BY <1>1 DEF Spend

(* A signal whose sender did not hear of its arrival stays to be delivered *)
(* again, at the cost of one of the losses.                                *)
LEMMA SendInv ==
    ASSUME IInv, NEW s \in Signal, NEW kinds \in SUBSET (Kinds \ {"lost"}),
           Send(s, kinds),
           confirmed' \in [Actions -> Nat],
           \A a \in Actions : confirmed'[a] >= confirmed[a] + Extra(s, a),
           UNCHANGED <<driver, offering, wanted>>, OffersTyped',
           commands' \subseteq Actions, AutosTyped'
    PROVE  IInv'
  <1>1. "lost" \in Kinds /\ kinds \cup {"lost"} \in SUBSET Kinds
        /\ kinds \in SUBSET Kinds
    BY DEF Kinds
  <1>2. /\ Redelivered \in Nat /\ Cardinality(again) \in Nat
        /\ \A a \in Actions : confirmed[a] \in Nat
        /\ IsFiniteSet(again) /\ again \subseteq Signal
        /\ left["lost"] \in Nat /\ Bounds["lost"] \in Nat
    BY <1>1, SlackTyped, RegistryAssumption DEF IInv, TypeInv, TypeOK
  <1>3. Fold(s, Grants(s))
    BY DEF Send
  <1>4. \A a \in Actions : Extra(s, a) \in Nat /\ confirmed'[a] \in Nat
    BY DEF Extra
  <1>5. CASE Spend(kinds) /\ UNCHANGED again
    <2>1. /\ left' \in [Kinds -> Nat] /\ left'["lost"] = left["lost"]
          /\ \A k \in Kinds : left'[k] <= Bounds[k]
      BY <1>1, <1>5, SpendTyped DEF IInv
    <2>2. Redelivered' = Redelivered
      BY <2>1 DEF Redelivered
    <2>3. \A a \in Actions : Slack(a)' >= Slack(a) + Extra(s, a)
      BY <1>2, <1>4, <1>5, <2>2 DEF Slack
    <2>4. AgainInv'
      BY <1>5, <2>2 DEF IInv, AgainInv
    <2> QED
      BY <1>2, <1>3, <1>5, <2>1, <2>2, <2>3, <2>4, FoldInv
  <1>6. CASE Spend(kinds \cup {"lost"}) /\ again' = again \cup {s}
    <2>1. /\ left' \in [Kinds -> Nat] /\ left'["lost"] = left["lost"] - 1
          /\ \A k \in Kinds : left'[k] <= Bounds[k]
      BY <1>1, <1>6, SpendTyped DEF IInv
    <2>2. Redelivered' = Redelivered + 1
      BY <1>2, <2>1 DEF Redelivered
    <2>3. /\ IsFiniteSet(again') /\ Cardinality(again') \in Nat
          /\ Cardinality(again') <= Cardinality(again) + 1
      <3>1. /\ IsFiniteSet(again \cup {s})
            /\ \/ Cardinality(again \cup {s}) = Cardinality(again)
               \/ Cardinality(again \cup {s}) = Cardinality(again) + 1
        BY <1>2, FS_AddElement
      <3> QED  BY <1>2, <1>6, <3>1
    <2>4. \A a \in Actions : Slack(a)' >= Slack(a) + Extra(s, a)
      BY <1>2, <1>4, <2>2, <2>3 DEF Slack
    <2>5. AgainInv'
      BY <1>2, <2>2, <2>3 DEF IInv, AgainInv
    <2>6. Redelivered' >= Redelivered
      BY <1>2, <2>2
    <2>7. again' \subseteq Signal
      BY <1>2, <1>6
    <2> QED
      BY <1>3, <2>1, <2>3, <2>4, <2>5, <2>6, <2>7, FoldInv
  <1> QED  BY <1>5, <1>6 DEF Send

(* -- The actions ---------------------------------------------------------- *)
LEMMA ConfirmInv ==
    ASSUME IInv, NEW a \in Actions, OwnerConfirms(a) PROVE IInv'
  <1> DEFINE s == [k |-> "confirm", action |-> a]
  <1>1. s \in Signal /\ s.k = "confirm" /\ s.action = a
    BY DEF Signal
  <1>2. {"confirm"} \in SUBSET (Kinds \ {"lost"}) /\ Send(s, {"confirm"})
    BY DEF Kinds, OwnerConfirms
  <1> HIDE DEF s
  <1>3. /\ \A b \in Actions : confirmed[b] \in Nat
        /\ confirmed \in [Actions -> Nat]
        /\ confirmed' = [confirmed EXCEPT ![a] = @ + 1]
    BY DEF OwnerConfirms, IInv, TypeInv, TypeOK
  <1>4. confirmed' \in [Actions -> Nat]
    BY <1>3
  <1>5. \A b \in Actions : confirmed'[b] >= confirmed[b] + Extra(s, b)
    BY <1>1, <1>3 DEF Extra
  <1>6. /\ UNCHANGED <<driver, offering, wanted>> /\ OffersTyped'
        /\ commands' \subseteq Actions /\ AutosTyped'
    BY DEF OwnerConfirms, offer, IInv, TypeInv, TypeOK, OffersTyped,
           AutosTyped
  <1> QED  BY <1>1, <1>2, <1>4, <1>5, <1>6, SendInv

(* A signal other than a confirmation, from an action that leaves the      *)
(* count of the confirmations alone.                                       *)
LEMMA OtherSendInv ==
    ASSUME IInv, NEW s \in Signal, s.k # "confirm",
           NEW kinds \in SUBSET (Kinds \ {"lost"}), Send(s, kinds),
           UNCHANGED <<confirmed, driver, offering, wanted>>, OffersTyped',
           commands' \subseteq Actions, AutosTyped'
    PROVE  IInv'
  <1>1. \A b \in Actions : confirmed[b] \in Nat
    BY DEF IInv, TypeInv, TypeOK
  <1>2. confirmed' \in [Actions -> Nat]
    BY DEF IInv, TypeInv, TypeOK
  <1>3. \A b \in Actions : confirmed'[b] >= confirmed[b] + Extra(s, b)
    BY <1>1 DEF Extra
  <1> QED  BY <1>2, <1>3, SendInv

LEMMA CorrectsInv ==
    ASSUME IInv, NEW a \in Actions, OwnerCorrects(a) PROVE IInv'
  <1> DEFINE s == [k |-> "correct", prior |-> 0, action |-> a]
  <1>1. s \in Signal /\ s.k = "correct"
    BY DEF Signal
  <1>2. {"correct"} \in SUBSET (Kinds \ {"lost"}) /\ Send(s, {"correct"})
    BY DEF Kinds, OwnerCorrects
  <1> HIDE DEF s
  <1>3. /\ UNCHANGED <<confirmed, driver, offering, wanted>>
        /\ OffersTyped' /\ commands' \subseteq Actions /\ AutosTyped'
    BY DEF OwnerCorrects, offer, others, IInv, TypeInv, TypeOK, OffersTyped,
           AutosTyped
  <1> QED  BY <1>1, <1>2, <1>3, OtherSendInv

LEMMA CorrectAutoInv ==
    ASSUME IInv, NEW a \in Actions, NEW d \in autos, CorrectAuto(d, a)
    PROVE  IInv'
  <1> DEFINE s == [k |-> "correct", prior |-> d.rule, action |-> a]
  <1>1. s \in Signal /\ s.k = "correct"
    BY DEF Signal, IInv, TypeInv, TypeOK
  <1>2. {"correct"} \in SUBSET (Kinds \ {"lost"}) /\ Send(s, {"correct"})
    BY DEF Kinds, CorrectAuto
  <1> HIDE DEF s
  <1>3. /\ UNCHANGED <<confirmed, driver, offering, wanted>>
        /\ OffersTyped' /\ commands' \subseteq Actions /\ AutosTyped'
    BY DEF CorrectAuto, offer, IInv, TypeInv, TypeOK, OffersTyped, AutosTyped
  <1> QED  BY <1>1, <1>2, <1>3, OtherSendInv

LEMMA ClosedTyped ==
    ASSUME IInv, NEW o \in offers, offers' = Closed(o) PROVE OffersTyped'
  BY DEF Closed, IInv, TypeInv, TypeOK, OffersTyped

(* The yes to an offer blesses the rule of that offer, if it is eligible.  *)
LEMMA AcceptOfferInv ==
    ASSUME IInv, NEW o \in offers, AcceptOffer(o) PROVE IInv'
  <1> DEFINE s == [k |-> "blessExisting", id |-> o.id]
  <1>1. s \in Signal /\ s.k = "blessExisting" /\ s.id = o.id
    BY DEF Signal, IInv, TypeInv, TypeOK
  <1>2. {} \in SUBSET (Kinds \ {"lost"}) /\ Send(s, {})
    BY DEF AcceptOffer
  <1> HIDE DEF s
  <1>3. /\ UNCHANGED <<confirmed, driver, offering, wanted>>
        /\ OffersTyped' /\ commands' \subseteq Actions /\ AutosTyped'
    BY ClosedTyped
    DEF AcceptOffer, others, IInv, TypeInv, TypeOK, AutosTyped
  <1> QED  BY <1>1, <1>2, <1>3, OtherSendInv

LEMMA AcceptCommandInv ==
    ASSUME IInv, NEW a \in Actions, AcceptCommand(a) PROVE IInv'
  <1> DEFINE s == [k |-> "bless", action |-> a]
  <1>1. s \in Signal /\ s.k = "bless"
    BY DEF Signal
  <1>2. {} \in SUBSET (Kinds \ {"lost"}) /\ Send(s, {})
    BY DEF AcceptCommand
  <1> HIDE DEF s
  <1>3. /\ UNCHANGED <<confirmed, driver, offering, wanted>>
        /\ OffersTyped' /\ commands' \subseteq Actions /\ AutosTyped'
    BY DEF AcceptCommand, offer, IInv, TypeInv, TypeOK, OffersTyped,
           AutosTyped
  <1> QED  BY <1>1, <1>2, <1>3, OtherSendInv

LEMMA RevokeInv ==
    ASSUME IInv, RevokeCommand PROVE IInv'
  <1> DEFINE s == [k |-> "revoke"]
  <1>1. s \in Signal /\ s.k = "revoke"
    BY DEF Signal
  <1>2. {"revoke"} \in SUBSET (Kinds \ {"lost"}) /\ Send(s, {"revoke"})
    BY DEF Kinds, RevokeCommand
  <1> HIDE DEF s
  <1>3. /\ UNCHANGED <<confirmed, driver, offering, wanted>>
        /\ OffersTyped' /\ commands' \subseteq Actions /\ AutosTyped'
    BY DEF RevokeCommand, offer, others, IInv, TypeInv, TypeOK, OffersTyped,
           AutosTyped
  <1> QED  BY <1>1, <1>2, <1>3, OtherSendInv

(* The second delivery of a signal uses up what its loss left open.        *)
LEMMA RedeliverInv ==
    ASSUME IInv, Redeliver PROVE IInv'
  <1>1. PICK s \in again : Fold(s, {}) /\ again' = again \ {s}
    BY DEF Redeliver
  <1>2. /\ s \in Signal /\ again \subseteq Signal /\ IsFiniteSet(again)
        /\ confirmed \in [Actions -> Nat] /\ left \in [Kinds -> Nat]
        /\ \A k \in Kinds : left[k] <= Bounds[k]
    BY DEF IInv, TypeInv, TypeOK
  <1>3. /\ UNCHANGED <<driver, offering, wanted, offers>>
        /\ UNCHANGED <<commands, autos, confirmed, left>>
    BY DEF Redeliver, offer, others
  <1>4. OffersTyped' /\ commands' \subseteq Actions /\ AutosTyped'
    BY <1>3 DEF IInv, TypeInv, TypeOK, OffersTyped, AutosTyped
  <1>5. /\ IsFiniteSet(again') /\ again' \subseteq Signal
        /\ Cardinality(again') = Cardinality(again) - 1
    BY <1>1, <1>2, FS_RemoveElement
  <1>6. /\ Cardinality(again) \in Nat /\ Cardinality(again') \in Nat
        /\ Redelivered \in Nat /\ \A a \in Actions : confirmed[a] \in Nat
    BY <1>2, <1>5, FS_CardinalityType, SlackTyped DEF IInv
  <1>7. Redelivered' = Redelivered /\ Redelivered > 0
    BY <1>3, <1>5, <1>6 DEF Redelivered, IInv, AgainInv
  <1>8. AgainInv'
    BY <1>5, <1>6, <1>7 DEF IInv, AgainInv
  <1>9. \A a \in Actions : Slack(a)' >= Slack(a) + Extra(s, a)
    BY <1>3, <1>5, <1>6, <1>7 DEF Slack, Extra
  <1>10. Redelivered' >= Redelivered
    BY <1>6, <1>7
  <1>11. /\ left' \in [Kinds -> Nat] /\ \A k \in Kinds : left'[k] <= Bounds[k]
         /\ confirmed' \in [Actions -> Nat]
    BY <1>1, <1>2, <1>3
  <1> QED
    BY <1>1, <1>2, <1>3, <1>4, <1>5, <1>8, <1>9, <1>10, <1>11, FoldInv

LEMMA MarkInv ==
    ASSUME IInv, Mark PROVE IInv'
  <1> DEFINE F == MarkOffered(rules, offering)
  <1>1. /\ rules \in Seq(Rule) /\ \A i \in DOMAIN rules : rules[i] \in Rule
    BY RulesTyped DEF IInv
  <1>2. /\ F \in Seq(Rule) /\ DOMAIN F = DOMAIN rules
        /\ \A i \in DOMAIN F : /\ F[i].action = rules[i].action
                               /\ F[i].trust = rules[i].trust
                               /\ F[i].hits = rules[i].hits
                               /\ F[i].source = rules[i].source
    <2>1. CASE offering \notin DOMAIN rules
      <3>1. F = rules
        BY <1>1, <2>1 DEF MarkOffered
      <3> QED  BY <1>1, <3>1
    <2>2. CASE offering \in DOMAIN rules
      <3> DEFINE r == [rules[offering] EXCEPT !.offered = TRUE]
      <3>1. rules[offering] \in Rule
        BY <1>1, <2>2
      <3>2. /\ r \in Rule /\ r.action = rules[offering].action
            /\ r.trust = rules[offering].trust
            /\ r.hits = rules[offering].hits
            /\ r.source = rules[offering].source
        BY <3>1 DEF Rule
      <3>3. F = [rules EXCEPT ![offering] = r]
        BY DEF MarkOffered
      <3> HIDE DEF r, F
      <3> QED  BY <1>1, <2>2, <3>2, <3>3
    <2> QED  BY <2>1, <2>2
  <1> HIDE DEF F
  <1>3. /\ rules' = F /\ driver' = "idle" /\ offering' = 0 /\ wanted' = None
        /\ UNCHANGED <<granted, reused, asked, offers, commands, autos>>
        /\ UNCHANGED <<confirmed, again, left>>
    BY DEF Mark, others, F
  <1>4. TypeInv'
    BY <1>2, <1>3 DEF IInv, TypeInv, TypeOK
  <1>5. HitsInv'
    BY <1>2, <1>3 DEF IInv, HitsInv, Slack, Redelivered
  <1>6. AgainInv' /\ GrantedNotTaken'
    BY <1>2, <1>3
    DEF IInv, AgainInv, GrantedNotTaken, Blessed, Redelivered
  <1>7. \A i \in DOMAIN rules' : RuleSound(rules'[i])
    BY <1>2, <1>3 DEF IInv, RuleSound
  <1> QED  BY <1>4, <1>5, <1>6, <1>7 DEF IInv, RuleSound

(* A step that folds nothing.                                              *)
LEMMA QuietInv ==
    ASSUME IInv, UNCHANGED <<rules, granted, reused>>, TypeInv',
           UNCHANGED <<confirmed, again>>,
           left'["lost"] = left["lost"]
    PROVE  IInv'
  BY DEF IInv, HitsInv, AgainInv, GrantedNotTaken, Slack, Redelivered

LEMMA SpendOther ==
    ASSUME IInv, NEW k \in Kinds, k # "lost", Spend({k})
    PROVE  /\ left' \in [Kinds -> Nat] /\ left'["lost"] = left["lost"]
           /\ \A j \in Kinds : left'[j] <= Bounds[j]
  <1>1. {k} \in SUBSET Kinds /\ "lost" \in Kinds /\ "lost" \notin {k}
    BY DEF Kinds
  <1> QED  BY <1>1, SpendTyped DEF IInv

LEMMA AutoInv ==
    ASSUME IInv, AutoApply PROVE IInv'
  <1>1. GateRule(rules) \in DOMAIN rules
    <2>1. /\ Blessed(rules) \in SUBSET Nat
          /\ Blessed(rules) \subseteq DOMAIN rules
      BY RulesTyped DEF Blessed, IInv
    <2>2. Cardinality(Blessed(rules)) = 1
      BY DEF AutoApply, GateRule
    <2>3. Blessed(rules) # {}
      BY <2>2, FS_EmptySet
    <2> QED  BY <2>1, <2>2, <2>3, FirstIn DEF GateRule
  <1>2. /\ GateRule(rules) \in Nat \ {0}
        /\ rules[GateRule(rules)].action \in Actions
    <2>1. DOMAIN rules = 1 .. Len(rules) /\ Len(rules) \in Nat
          /\ rules[GateRule(rules)] \in Rule
      BY <1>1, RulesTyped DEF IInv
    <2> QED  BY <1>1, <2>1 DEF Rule
  <1>3. "auto" \in Kinds /\ "auto" # "lost" /\ left["auto"] \in Nat
    BY DEF Kinds, IInv, TypeInv, TypeOK
  <1>4. /\ left' \in [Kinds -> Nat] /\ left'["lost"] = left["lost"]
        /\ \A j \in Kinds : left'[j] <= Bounds[j]
    BY <1>3, SpendOther DEF AutoApply
  <1>5. AutosTyped'
    BY <1>2, <1>3 DEF AutoApply, AutosTyped, IInv, TypeInv, TypeOK
  <1>6. TypeInv'
    BY <1>4, <1>5
    DEF AutoApply, AutosTyped, table, offer, IInv, TypeInv, TypeOK
  <1> QED  BY <1>4, <1>6, QuietInv DEF AutoApply, table

LEMMA DecideInv ==
    ASSUME IInv, DecideOffer PROVE IInv'
  <1>1. First(Pending(rules)) \in DOMAIN rules
    <2>1. /\ Pending(rules) \in SUBSET Nat
          /\ Pending(rules) \subseteq DOMAIN rules
      BY RulesTyped DEF Pending, Eligible, IInv
    <2> QED  BY <2>1, FirstIn DEF DecideOffer
  <1>2. /\ First(Pending(rules)) \in Nat \ {0}
        /\ rules[First(Pending(rules))].action \in Actions
    <2>1. DOMAIN rules = 1 .. Len(rules) /\ Len(rules) \in Nat
          /\ rules[First(Pending(rules))] \in Rule
      BY <1>1, RulesTyped DEF IInv
    <2> QED  BY <1>1, <2>1 DEF Rule
  <1>3. TypeInv'
    BY <1>2 DEF DecideOffer, table, others, IInv, TypeInv, TypeOK
  <1> QED  BY <1>3, QuietInv DEF DecideOffer, table, others

LEMMA StartInv ==
    ASSUME IInv, StartOffer PROVE IInv'
  <1>1. /\ offering \in Nat \ {0} /\ wanted \in Actions
        /\ OffersTyped /\ asked \subseteq Pair
        /\ left \in [Kinds -> Nat] /\ "retry" \in Kinds
        /\ \A j \in Kinds : left[j] <= Bounds[j]
    BY DEF StartOffer, IInv, TypeInv, TypeOK, OffersTyped, Kinds
  <1>2. /\ left' \in [Kinds -> Nat] /\ left'["lost"] = left["lost"]
        /\ \A j \in Kinds : left'[j] <= Bounds[j]
    <2>1. CASE UNCHANGED left
      BY <1>1, <2>1
    <2>2. CASE Spend({"retry"})
      BY <1>1, <2>2, SpendOther
    <2> QED  BY <2>1, <2>2 DEF StartOffer
  <1> DEFINE new == IF \E x \in offers : x.id = offering THEN {}
                    ELSE {[id |-> offering, action |-> wanted, open |-> TRUE]}
  <1>3. new \subseteq [id: Nat \ {0}, action: Actions, open: BOOLEAN]
    <2>1. [id |-> offering, action |-> wanted, open |-> TRUE]
             \in [id: Nat \ {0}, action: Actions, open: BOOLEAN]
      BY <1>1
    <2> QED  BY <2>1, Zenon
  <1>4. /\ offers' = offers \cup new
        /\ asked' = asked \cup {[id |-> o.id, action |-> o.action] :
                                   o \in new}
    BY DEF StartOffer
  <1> HIDE DEF new
  <1>5. OffersTyped' /\ asked' \subseteq Pair
    BY <1>1, <1>3, <1>4 DEF OffersTyped, Pair
  <1>6. driver' \in {"idle", "starting", "marking"}
        /\ UNCHANGED <<rules, granted, reused, offering, wanted, commands>>
        /\ UNCHANGED <<autos, confirmed, again>>
    BY DEF StartOffer, others, IInv, TypeInv, TypeOK
  <1>7. TypeInv'
    BY <1>1, <1>2, <1>5, <1>6 DEF IInv, TypeInv, TypeOK, OffersTyped
  <1> QED  BY <1>2, <1>6, <1>7, QuietInv

LEMMA StartFailsInv ==
    ASSUME IInv, StartFails PROVE IInv'
  <1>1. "fail" \in Kinds /\ "fail" # "lost"
    BY DEF Kinds
  <1>2. /\ left' \in [Kinds -> Nat] /\ left'["lost"] = left["lost"]
        /\ \A j \in Kinds : left'[j] <= Bounds[j]
    BY <1>1, SpendOther DEF StartFails
  <1>3. TypeInv'
    BY <1>2 DEF StartFails, table, others, IInv, TypeInv, TypeOK
  <1> QED  BY <1>2, <1>3, QuietInv DEF StartFails, table, others

LEMMA EndOfferInv ==
    ASSUME IInv, NEW o \in offers, EndOffer(o) \/ ForgetOffer(o) PROVE IInv'
  <1>1. OffersTyped'
    <2>1. CASE EndOffer(o)
      BY <2>1, ClosedTyped DEF EndOffer
    <2>2. CASE ForgetOffer(o)
      BY <2>2 DEF ForgetOffer, OffersTyped, IInv, TypeInv, TypeOK
    <2> QED  BY <2>1, <2>2
  <1>2. UNCHANGED <<table, driver, offering, wanted, others, again, left>>
    BY DEF EndOffer, ForgetOffer
  <1>3. TypeInv'
    BY <1>1, <1>2 DEF table, others, OffersTyped, IInv, TypeInv, TypeOK
  <1> QED  BY <1>2, <1>3, QuietInv DEF table, others

LEMMA CommandInv ==
    ASSUME IInv, NEW a \in Actions, Command(a) \/ EndCommand(a) PROVE IInv'
  <1>1. /\ left' \in [Kinds -> Nat] /\ left'["lost"] = left["lost"]
        /\ \A j \in Kinds : left'[j] <= Bounds[j]
    <2>1. CASE Command(a)
      <3>1. "command" \in Kinds /\ "command" # "lost"
        BY DEF Kinds
      <3> QED  BY <2>1, <3>1, SpendOther DEF Command
    <2>2. CASE EndCommand(a)
      BY <2>2 DEF EndCommand, IInv, TypeInv, TypeOK
    <2> QED  BY <2>1, <2>2
  <1>2. UNCHANGED <<table, offer, autos, confirmed, again>>
    BY DEF Command, EndCommand
  <1>3. commands' \subseteq Actions
    BY DEF Command, EndCommand, IInv, TypeInv, TypeOK
  <1>4. TypeInv'
    BY <1>1, <1>2, <1>3 DEF table, offer, IInv, TypeInv, TypeOK
  <1> QED  BY <1>1, <1>2, <1>4, QuietInv DEF table

(* -- The specification ---------------------------------------------------- *)
LEMMA InitInv ==
    ASSUME Init PROVE IInv
  <1>1. IsFiniteSet(again) /\ Cardinality(again) = 0
    BY FS_EmptySet DEF Init
  <1>2. /\ Redelivered = 0 /\ left = Bounds
        /\ \A k \in Kinds : Bounds[k] \in Nat /\ left[k] <= Bounds[k]
    <2>1. "lost" \in Kinds
      BY DEF Kinds
    <2> QED  BY <2>1, RegistryAssumption DEF Init, Redelivered
  <1>3. rules = <<>> /\ rules \in Seq(Rule) /\ DOMAIN rules = {}
    BY DEF Init
  <1>4. TypeInv
    BY <1>1, <1>2, <1>3, RegistryAssumption DEF Init, TypeInv, TypeOK
  <1>5. HitsInv /\ AgainInv /\ GrantedNotTaken
    BY <1>1, <1>2, <1>3 DEF HitsInv, AgainInv, GrantedNotTaken, Blessed
  <1> QED  BY <1>3, <1>4, <1>5 DEF IInv

LEMMA StepInv ==
    ASSUME IInv, [Next]_vars PROVE IInv'
  <1>1. CASE UNCHANGED vars
    <2>1. UNCHANGED <<rules, granted, reused, asked, driver, offering, wanted>>
          /\ UNCHANGED <<offers, commands, autos, confirmed, again, left>>
      BY <1>1 DEF vars, table, offer, others
    <2>2. TypeInv'
      BY <2>1 DEF IInv, TypeInv, TypeOK
    <2> QED  BY <2>1, <2>2, QuietInv
  <1>2. ASSUME NEW a \in Actions,
               \/ OwnerConfirms(a) \/ OwnerCorrects(a)
               \/ Command(a) \/ AcceptCommand(a) \/ EndCommand(a)
               \/ \E d \in autos : CorrectAuto(d, a)
        PROVE  IInv'
    BY <1>2, ConfirmInv, CorrectsInv, CommandInv, AcceptCommandInv,
       CorrectAutoInv
  <1>3. ASSUME NEW o \in offers,
               AcceptOffer(o) \/ EndOffer(o) \/ ForgetOffer(o)
        PROVE  IInv'
    BY <1>3, AcceptOfferInv, EndOfferInv
  <1>4. CASE AutoApply \/ Redeliver \/ RevokeCommand
    BY <1>4, AutoInv, RedeliverInv, RevokeInv
  <1>5. CASE DecideOffer \/ StartOffer \/ StartFails \/ Mark
    BY <1>5, DecideInv, StartInv, StartFailsInv, MarkInv
  <1> QED  BY <1>1, <1>2, <1>3, <1>4, <1>5 DEF Next

LEMMA Invariance == Spec => []IInv
  BY InitInv, StepInv, PTL DEF Spec

(* TypeOK: the table, the offers, the pending commands and what is still   *)
(* to be delivered keep their types.                                       *)
THEOREM TypeCorrect == Spec => []TypeOK
  <1>1. IInv => TypeOK
    BY DEF IInv, TypeInv
  <1> QED  BY <1>1, Invariance, PTL

(* GrantedNotTaken: a rule is blessed on the owner's yes, given about it   *)
(* under its category since it was last demoted, or on an older yes that   *)
(* was delivered again or given to an outdated offer, and then only the    *)
(* rule that this yes is about.                                            *)
THEOREM AutonomyGranted == Spec => []GrantedNotTaken
  <1>1. IInv => GrantedNotTaken
    BY DEF IInv
  <1> QED  BY <1>1, Invariance, PTL

(* EarnedByConfirms: whatever was corrected, revoked and offered before, a *)
(* rule is offered for autonomy only with K decisions of the owner behind  *)
(* it, less those that were delivered twice.                               *)
THEOREM EligibilityEarned == Spec => []EarnedByConfirms
  <1>1. ASSUME IInv PROVE EarnedByConfirms
    <2> SUFFICES ASSUME NEW i \in Eligible(rules)
                 PROVE  confirmed[rules[i].action] + Redelivered >= K
      BY DEF EarnedByConfirms
    <2>1. /\ i \in DOMAIN rules /\ rules[i] \in Rule /\ rules[i].hits >= K
      BY <1>1, RulesTyped DEF IInv, Eligible, RuleSound
    <2>2. rules[i].hits \in Nat /\ rules[i].action \in Actions
      BY <2>1 DEF Rule
    <2>3. rules[i].hits <= Slack(rules[i].action)
      BY <1>1, <2>1 DEF IInv, HitsInv
    <2>4. /\ Cardinality(again) \in Nat /\ Redelivered \in Nat
          /\ confirmed[rules[i].action] \in Nat
      BY <1>1, <2>2, SlackTyped DEF IInv
    <2> QED
      BY <2>1, <2>2, <2>3, <2>4, RegistryAssumption DEF Slack
  <1> QED  BY <1>1, Invariance, PTL

(* -- The offers ----------------------------------------------------------- *)
(* What a second offer of a rule would have to get past: a rule the owner  *)
(* has been asked about is marked, or the driver is on its way to mark it; *)
(* and a start that is being retried finds the run it has already started. *)
AskedInv ==
    /\ driver # "idle" => offering \in DOMAIN rules
    /\ \A p \in asked :
          \/ p.id \in DOMAIN rules /\ rules[p.id].offered
          \/ driver \in {"starting", "marking"} /\ offering = p.id
    /\ driver = "starting" => \/ \E o \in offers : o.id = offering
                              \/ \A p \in asked : p.id # offering

(* A fold removes no rule, and takes the mark off a demoted one only.      *)
Marked(F, s) ==
    /\ DOMAIN rules \subseteq DOMAIN F
    /\ \A i \in DOMAIN rules :
          rules[i].offered /\ i \notin Demoted(s) => F[i].offered

LEMMA AppendMarked ==
    ASSUME IInv, NEW s, NEW r PROVE Marked(Append(rules, r), s)
  <1> DEFINE F == Append(rules, r)
  <1>1. /\ rules \in Seq(Rule) /\ Len(rules) \in Nat
        /\ DOMAIN rules = 1 .. Len(rules)
    BY RulesTyped DEF IInv
  <1>2. \A i \in DOMAIN rules : i \in DOMAIN F /\ F[i] = rules[i]
    BY <1>1
  <1> QED  BY <1>2 DEF Marked

LEMMA ChangeMarked ==
    ASSUME IInv, NEW s, NEW n \in DOMAIN rules, NEW r,
           n \in Demoted(s) \/ (rules[n].offered => r.offered)
    PROVE  Marked([rules EXCEPT ![n] = r], s)
  <1> DEFINE F == [rules EXCEPT ![n] = r]
  <1>1. /\ DOMAIN F = DOMAIN rules /\ F[n] = r
        /\ \A i \in DOMAIN rules : i # n => F[i] = rules[i]
    BY RulesTyped DEF IInv
  <1> HIDE DEF F
  <1> QED  BY <1>1 DEF Marked, F

LEMMA FoldedMarked ==
    ASSUME IInv, NEW s \in Signal PROVE Marked(Folded(s), s)
  <1>0. \A i \in DOMAIN rules : rules[i] \in Rule
    BY RulesTyped DEF IInv
  <1>1. ASSUME s.k = "confirm" PROVE Marked(Confirm(rules, s.action), s)
    <2>1. CASE Encoding(rules, s.action) = {}
      BY <2>1, AppendMarked DEF Confirm
    <2>2. CASE Encoding(rules, s.action) # {}
      <3> DEFINE n == First(Encoding(rules, s.action))
                 r == Strengthen(rules[n])
      <3>1. n \in DOMAIN rules
        BY <2>2, EncodingFirst DEF IInv
      <3>2. rules[n].offered => r.offered
        BY <1>0, <3>1 DEF Strengthen, Rule
      <3>3. Confirm(rules, s.action) = [rules EXCEPT ![n] = r]
        BY <2>2 DEF Confirm
      <3> HIDE DEF n, r
      <3> QED  BY <3>1, <3>2, <3>3, ChangeMarked
    <2> QED  BY <2>1, <2>2
  <1>2. ASSUME s.k = "correct"
        PROVE  Marked(Correct(rules, s.prior, s.action), s)
    <2>1. CASE s.prior \notin DOMAIN rules
      BY <2>1, AppendMarked DEF Correct
    <2>2. CASE s.prior \in DOMAIN rules
      <3>1. s.prior \in Demoted(s)
        BY <1>2 DEF Demoted
      <3> QED  BY <2>2, <3>1, ChangeMarked DEF Correct
    <2> QED  BY <2>1, <2>2
  <1>3. ASSUME s.k = "bless" PROVE Marked(Bless(rules, s.action), s)
    <2>1. CASE Encoding(rules, s.action) = {}
      BY <2>1, AppendMarked DEF Bless
    <2>2. CASE Encoding(rules, s.action) # {}
      <3> DEFINE n == First(Encoding(rules, s.action))
                 r == [rules[n] EXCEPT !.trust = "TRUSTED",
                                       !.source = "HUMAN_EXPLICIT"]
      <3>1. n \in DOMAIN rules
        BY <2>2, EncodingFirst DEF IInv
      <3>2. rules[n].offered => r.offered
        BY <1>0, <3>1 DEF Rule
      <3>3. Bless(rules, s.action) = [rules EXCEPT ![n] = r]
        BY <2>2 DEF Bless
      <3> HIDE DEF n, r
      <3> QED  BY <3>1, <3>2, <3>3, ChangeMarked
    <2> QED  BY <2>1, <2>2
  <1>4. Marked(BlessById(rules, s.id), s)
    <2>1. CASE s.id \notin Eligible(rules)
      BY <2>1 DEF BlessById, Marked
    <2>2. CASE s.id \in Eligible(rules)
      <3> DEFINE r == [rules[s.id] EXCEPT !.source = "HUMAN_EXPLICIT"]
      <3>1. s.id \in DOMAIN rules
        BY <2>2 DEF Eligible
      <3>2. rules[s.id].offered => r.offered
        BY <1>0, <3>1 DEF Rule
      <3>3. BlessById(rules, s.id) = [rules EXCEPT ![s.id] = r]
        BY <2>2 DEF BlessById
      <3> HIDE DEF r
      <3> QED  BY <3>1, <3>2, <3>3, ChangeMarked
    <2> QED  BY <2>1, <2>2
  <1>5. Marked(Revoke(rules), s)
    <2>1. ASSUME NEW i \in DOMAIN rules
          PROVE  Revoke(rules)[i].offered = rules[i].offered
      <3>1. rules[i] \in Rule
        BY <1>0
      <3> QED  BY <3>1 DEF Revoke, Rule
    <2>2. DOMAIN Revoke(rules) = DOMAIN rules
      BY DEF Revoke
    <2> QED  BY <2>1, <2>2 DEF Marked
  <1>6. s.k \in {"confirm", "correct", "bless", "blessExisting", "revoke"}
    BY DEF Signal
  <1> QED  BY <1>1, <1>2, <1>3, <1>4, <1>5, <1>6 DEF Folded

(* A run that stays, open or closed, keeps its id.                         *)
SameRuns == \A o \in offers : \E x \in offers' : x.id = o.id

LEMMA FoldAsked ==
    ASSUME IInv, AskedInv, NEW s \in Signal, NEW fresh, Fold(s, fresh),
           UNCHANGED <<driver, offering>>, SameRuns
    PROVE  AskedInv'
  <1>1. Marked(rules', s)
    BY FoldedMarked DEF Fold
  <1>2. \A p \in asked' : p \in asked /\ p.id \notin Demoted(s)
    BY DEF Fold
  <1>3. driver' # "idle" => offering' \in DOMAIN rules'
    BY <1>1 DEF AskedInv, Marked
  <1>4. ASSUME NEW p \in asked'
        PROVE  \/ p.id \in DOMAIN rules' /\ rules'[p.id].offered
               \/ driver' \in {"starting", "marking"} /\ offering' = p.id
    BY <1>1, <1>2 DEF AskedInv, Marked
  <1>5. driver' = "starting" => \/ \E o \in offers' : o.id = offering'
                                \/ \A p \in asked' : p.id # offering'
    BY <1>2 DEF AskedInv, SameRuns
  <1> QED  BY <1>3, <1>4, <1>5 DEF AskedInv

LEMMA ClosedRuns ==
    ASSUME IInv, NEW o \in offers, offers' = Closed(o) PROVE SameRuns
  <1>1. o \in [id: Nat \ {0}, action: Actions, open: BOOLEAN]
    BY DEF IInv, TypeInv, TypeOK
  <1>2. [o EXCEPT !.open = FALSE].id = o.id
    BY <1>1
  <1> QED  BY <1>2 DEF Closed, SameRuns

(* The actions that fold a signal.                                         *)
LEMMA SendAsked ==
    ASSUME IInv, AskedInv,
           \/ \E a \in Actions : \/ OwnerConfirms(a) \/ OwnerCorrects(a)
                                 \/ AcceptCommand(a)
                                 \/ \E d \in autos : CorrectAuto(d, a)
           \/ \E o \in offers : AcceptOffer(o)
           \/ Redeliver \/ RevokeCommand
    PROVE  AskedInv'
  <1>1. offers' = offers => SameRuns
    BY DEF SameRuns
  <1>2. ASSUME NEW a \in Actions, OwnerConfirms(a) PROVE AskedInv'
    <2>1. [k |-> "confirm", action |-> a] \in Signal
      BY DEF Signal
    <2> QED  BY <1>1, <1>2, <2>1, FoldAsked DEF OwnerConfirms, Send, offer
  <1>3. ASSUME NEW a \in Actions, OwnerCorrects(a) PROVE AskedInv'
    <2>1. [k |-> "correct", prior |-> 0, action |-> a] \in Signal
      BY DEF Signal
    <2> QED  BY <1>1, <1>3, <2>1, FoldAsked DEF OwnerCorrects, Send, offer
  <1>4. ASSUME NEW a \in Actions, AcceptCommand(a) PROVE AskedInv'
    <2>1. [k |-> "bless", action |-> a] \in Signal
      BY DEF Signal
    <2> QED  BY <1>1, <1>4, <2>1, FoldAsked DEF AcceptCommand, Send, offer
  <1>5. ASSUME NEW a \in Actions, NEW d \in autos, CorrectAuto(d, a)
        PROVE  AskedInv'
    <2>1. [k |-> "correct", prior |-> d.rule, action |-> a] \in Signal
      BY DEF Signal, IInv, TypeInv, TypeOK
    <2> QED  BY <1>1, <1>5, <2>1, FoldAsked DEF CorrectAuto, Send, offer
  <1>6. ASSUME NEW o \in offers, AcceptOffer(o) PROVE AskedInv'
    <2>1. [k |-> "blessExisting", id |-> o.id] \in Signal
      BY DEF Signal, IInv, TypeInv, TypeOK
    <2>2. SameRuns
      BY <1>6, ClosedRuns DEF AcceptOffer
    <2> QED  BY <1>6, <2>1, <2>2, FoldAsked DEF AcceptOffer, Send
  <1>7. CASE Redeliver
    <2>1. PICK s \in again : Fold(s, {})
      BY <1>7 DEF Redeliver
    <2>2. s \in Signal
      BY DEF IInv, TypeInv, TypeOK
    <2> QED  BY <1>1, <1>7, <2>1, <2>2, FoldAsked DEF Redeliver, offer
  <1>8. CASE RevokeCommand
    <2>1. [k |-> "revoke"] \in Signal
      BY DEF Signal
    <2> QED  BY <1>1, <1>8, <2>1, FoldAsked DEF RevokeCommand, Send, offer
  <1> QED
    BY <1>2, <1>3, <1>4, <1>5, <1>6, <1>7, <1>8

(* The actions that leave the table, the driver and the runs' ids alone.   *)
LEMMA QuietAsked ==
    ASSUME IInv, AskedInv, UNCHANGED <<rules, asked, driver, offering>>,
           SameRuns
    PROVE  AskedInv'
  BY DEF AskedInv, SameRuns

(* A closed run is forgotten, but not the one whose start is retried.      *)
LEMMA ForgetAsked ==
    ASSUME IInv, AskedInv, NEW o \in offers, ForgetOffer(o) PROVE AskedInv'
  <1>1. /\ UNCHANGED <<rules, asked, driver, offering>>
        /\ offers' = offers \ {o}
        /\ driver = "starting" => offering # o.id
    BY DEF ForgetOffer, table
  <1> QED  BY <1>1 DEF AskedInv

LEMMA DecideAsked ==
    ASSUME IInv, AskedInv, DecideOffer PROVE AskedInv'
  <1> DEFINE n == First(Pending(rules))
  <1>1. n \in DOMAIN rules /\ ~rules[n].offered
    <2>1. Pending(rules) \in SUBSET Nat
      BY RulesTyped DEF Pending, Eligible, IInv
    <2>2. n \in Pending(rules)
      BY <2>1, FirstIn DEF DecideOffer
    <2> QED  BY <2>2 DEF Pending, Eligible
  <1>2. /\ driver = "idle" /\ driver' = "starting" /\ offering' = n
        /\ UNCHANGED <<rules, asked, offers>>
    BY DEF DecideOffer, table
  <1> HIDE DEF n
  <1>3. \A p \in asked : /\ p.id \in DOMAIN rules /\ rules[p.id].offered
                         /\ p.id # n
    BY <1>1, <1>2 DEF AskedInv
  <1> QED  BY <1>1, <1>2, <1>3 DEF AskedInv

LEMMA StartAsked ==
    ASSUME IInv, AskedInv, StartOffer PROVE AskedInv'
  <1> DEFINE new == IF \E x \in offers : x.id = offering THEN {}
                    ELSE {[id |-> offering, action |-> wanted, open |-> TRUE]}
  <1>1. /\ offers' = offers \cup new
        /\ asked' = asked \cup {[id |-> o.id, action |-> o.action] :
                                   o \in new}
        /\ UNCHANGED <<rules, offering>> /\ driver = "starting"
        /\ driver' \in {"starting", "marking"}
    BY DEF StartOffer
  <1>2. /\ \A o \in new : o.id = offering
        /\ \E o \in offers \cup new : o.id = offering
    <2>1. CASE \E x \in offers : x.id = offering
      BY <2>1
    <2>2. CASE ~ \E x \in offers : x.id = offering
      <3> DEFINE fresh == [id |-> offering, action |-> wanted, open |-> TRUE]
      <3>1. new = {fresh} /\ fresh.id = offering
        BY <2>2
      <3> HIDE DEF fresh, new
      <3> QED  BY <3>1
    <2> QED  BY <2>1, <2>2
  <1> HIDE DEF new
  <1>3. \A p \in asked' : p \in asked \/ p.id = offering
    BY <1>1, <1>2
  <1> QED  BY <1>1, <1>2, <1>3 DEF AskedInv

LEMMA MarkAsked ==
    ASSUME IInv, AskedInv, Mark PROVE AskedInv'
  <1>1. /\ offering \in DOMAIN rules /\ rules[offering] \in Rule
        /\ driver' = "idle" /\ UNCHANGED asked
        /\ rules' = [rules EXCEPT ![offering].offered = TRUE]
    BY RulesTyped DEF Mark, MarkOffered, AskedInv, IInv
  <1>2. /\ DOMAIN rules' = DOMAIN rules /\ rules'[offering].offered
        /\ \A i \in DOMAIN rules : i # offering => rules'[i] = rules[i]
    BY <1>1 DEF Rule
  <1> QED  BY <1>1, <1>2 DEF AskedInv

LEMMA StepAsked ==
    ASSUME IInv, AskedInv, [Next]_vars PROVE AskedInv'
  <1>1. offers' = offers => SameRuns
    BY DEF SameRuns
  <1>2. CASE UNCHANGED vars
    BY <1>1, <1>2, QuietAsked DEF vars, table, offer
  <1>3. ASSUME NEW a \in Actions, Command(a) \/ EndCommand(a)
        PROVE  AskedInv'
    BY <1>1, <1>3, QuietAsked DEF Command, EndCommand, table, offer
  <1>4. ASSUME NEW o \in offers, EndOffer(o) PROVE AskedInv'
    BY <1>4, ClosedRuns, QuietAsked DEF EndOffer, table
  <1>5. CASE AutoApply
    BY <1>1, <1>5, QuietAsked DEF AutoApply, table, offer
  <1>6. CASE StartFails
    BY <1>6 DEF StartFails, table, AskedInv
  <1> QED
    BY <1>2, <1>3, <1>4, <1>5, <1>6, SendAsked, ForgetAsked, DecideAsked,
       StartAsked, MarkAsked
    DEF Next

(* The only step that opens an offer is a start, and it opens one only for *)
(* a rule without a run.                                                   *)
NewlyAsked ==
    \A o \in offers' \ offers :
        o.open => [id |-> o.id, action |-> o.action] \notin asked

LEMMA StepNewlyAsked ==
    ASSUME IInv, AskedInv, [Next]_vars PROVE NewlyAsked
  <1>1. CASE offers' \subseteq offers
    BY <1>1 DEF NewlyAsked
  <1>2. ASSUME NEW o \in offers, offers' = Closed(o) PROVE NewlyAsked
    <2>1. o \in [id: Nat \ {0}, action: Actions, open: BOOLEAN]
      BY DEF IInv, TypeInv, TypeOK
    <2>2. ~[o EXCEPT !.open = FALSE].open
      BY <2>1
    <2> QED  BY <1>2, <2>2 DEF Closed, NewlyAsked
  <1>3. CASE StartOffer
    <2> DEFINE fresh == [id |-> offering, action |-> wanted, open |-> TRUE]
    <2>1. CASE \E x \in offers : x.id = offering
      BY <1>3, <1>1, <2>1 DEF StartOffer
    <2>2. CASE ~ \E x \in offers : x.id = offering
      <3>1. offers' = offers \cup {fresh}
        BY <1>3, <2>2 DEF StartOffer
      <3>2. \A p \in asked : p.id # offering
        BY <1>3, <2>2 DEF AskedInv, StartOffer
      <3>3. fresh.id = offering
        OBVIOUS
      <3> HIDE DEF fresh
      <3>4. [id |-> fresh.id, action |-> fresh.action].id = offering
        BY <3>3
      <3> QED  BY <3>1, <3>2, <3>4 DEF NewlyAsked
    <2> QED  BY <2>1, <2>2
  <1>4. CASE UNCHANGED offers
    BY <1>1, <1>4
  <1> QED
    BY <1>1, <1>2, <1>3, <1>4
    DEF Next, vars, offer, OwnerConfirms, OwnerCorrects, Command,
        AcceptCommand, EndCommand, CorrectAuto, AcceptOffer, EndOffer,
        ForgetOffer, AutoApply, Redeliver, RevokeCommand, DecideOffer,
        StartFails, Mark

(* AskedOnce: however often a start is retried, and although closed runs   *)
(* are forgotten, the owner is not asked again about a rule and category   *)
(* until the rule has been demoted.                                        *)
THEOREM OffersAskOnce == Spec => AskedOnce
  <1>1. Init => AskedInv
    BY DEF Init, AskedInv
  <1>2. IInv /\ AskedInv /\ [Next]_vars => AskedInv' /\ [NewlyAsked]_vars
    BY StepAsked, StepNewlyAsked
  <1>3. Spec => [][NewlyAsked]_vars
    BY <1>1, <1>2, Invariance, PTL DEF Spec
  <1> QED  BY <1>3 DEF AskedOnce, NewlyAsked

(***************************************************************************)
(* A conversation of consent: however often the owner is asked and answers, *)
(* replies are delivered again, attempts die after their effect and        *)
(* activities are given up, only a yes blesses, once and for the run it    *)
(* was written in unless that very reply was delivered late or again or    *)
(* accepted twice, and no email is sent twice.                             *)
(***************************************************************************)
ThreadTypes == ConsentTypeOK /\ queue \in Seq(Nat)

Owners(i) == i \in DOMAIN thread /\ thread[i].from = "owner"
Fresh(i)  == i \in retried \/ (i > begun /\ i \notin used)

NextOwners(i) == i \in DOMAIN thread' /\ thread'[i].from = "owner"
NextFresh(i)  == i \in retried' \/ (i > begun' /\ i \notin used')

(* What waits to be read is the owner's and fresh, and waits once and is   *)
(* not being acted on unless it has been delivered again: so what is read  *)
(* as a yes is fresh too, and stays so until the registry is signalled.    *)
QueueInv ==
    /\ \A k \in DOMAIN queue :
          /\ Owners(queue[k]) /\ Fresh(queue[k])
          /\ queue[k] = current => queue[k] \in retried
    /\ \A k, l \in DOMAIN queue :
          k # l /\ queue[k] = queue[l] => queue[k] \in retried
YesInv ==
    /\ pc \in {"blessing", "answering"} =>
          Owners(current) /\ thread[current].means = "accept"
    /\ pc = "blessing" => Fresh(current)

ThreadInv == ThreadTypes /\ QueueInv /\ YesInv /\ SentOnce

(* -- The thread ---------------------------------------------------------- *)
Grows == /\ Len(thread') \in Nat /\ Len(thread') >= Len(thread)
         /\ \A i \in 1 .. Len(thread) : thread'[i] = thread[i]

LEMMA AppendGrows ==
    ASSUME ThreadTypes, NEW email \in Email, thread' = Append(thread, email)
    PROVE  /\ Grows /\ thread' \in Seq(Email)
           /\ Len(thread') = Len(thread) + 1
           /\ thread'[Len(thread) + 1] = email
  BY DEF ThreadTypes, ConsentTypeOK, Grows

(* Posting what no email is labelled with keeps every label unique.        *)
LEMMA PostSound ==
    ASSUME ThreadInv, NEW to \in {"owners", "agent"}, NEW label \in Label,
           Labelled(label) = {}, Post(to, label)
    PROVE  thread' \in Seq(Email) /\ Grows /\ SentOnce'
  <1> DEFINE email == [from |-> "agent", to |-> to, label |-> label]
  <1>1. email \in Email
    BY DEF Email
  <1>2. /\ Grows /\ thread' \in Seq(Email)
        /\ Len(thread') = Len(thread) + 1
        /\ thread'[Len(thread) + 1] = email
    BY <1>1, AppendGrows DEF ThreadInv, Post
  <1>3. SentOnce'
    <2>1. /\ Len(thread) \in Nat /\ DOMAIN thread = 1 .. Len(thread)
          /\ DOMAIN thread' = 1 .. Len(thread) + 1
      BY <1>2 DEF ThreadInv, ThreadTypes, ConsentTypeOK
    <2>2. \A i \in DOMAIN thread : ~(thread[i].from = "agent"
                                       /\ thread[i].label = label)
      BY DEF Labelled
    <2> QED
      <3> SUFFICES ASSUME NEW i \in DOMAIN thread', NEW j \in DOMAIN thread',
                          thread'[i].from = "agent", thread'[j].from = "agent",
                          thread'[i].label = thread'[j].label
                   PROVE  i = j
        BY DEF SentOnce
      <3>1. CASE i \in DOMAIN thread /\ j \in DOMAIN thread
        BY <3>1, <2>1, <1>2 DEF ThreadInv, SentOnce, Grows
      <3>2. CASE i \in DOMAIN thread /\ j = Len(thread) + 1
        BY <3>2, <2>1, <2>2, <1>2 DEF Grows
      <3>3. CASE i = Len(thread) + 1 /\ j \in DOMAIN thread
        BY <3>3, <2>1, <2>2, <1>2 DEF Grows
      <3>4. CASE i = Len(thread) + 1 /\ j = Len(thread) + 1
        BY <3>4
      <3> QED  BY <3>1, <3>2, <3>3, <3>4, <2>1
  <1> QED  BY <1>2, <1>3

LEMMA SameThread ==
    ASSUME ThreadInv, UNCHANGED thread
    PROVE  thread' \in Seq(Email) /\ Grows /\ SentOnce'
  BY DEF ThreadInv, ThreadTypes, ConsentTypeOK, Grows, SentOnce

LEMMA OpenThreadSound ==
    ASSUME ThreadInv, OpenThread
    PROVE  thread' \in Seq(Email) /\ Grows /\ SentOnce'
  <1>1. [k |-> "ask"] \in Label
    BY DEF Label
  <1> QED  BY <1>1, PostSound, SameThread DEF OpenThread

LEMMA SendOnThreadSound ==
    ASSUME ThreadInv, NEW to \in {"owners", "agent"}, NEW label \in Label,
           SendOnThread(to, label)
    PROVE  thread' \in Seq(Email) /\ Grows /\ SentOnce'
  BY PostSound, SameThread DEF SendOnThread

LEMMA LatestTyped == Latest \in {"owners", "agent"}
  BY DEF Latest

(* -- What a growing thread leaves true ------------------------------------ *)
LEMMA OwnersKept ==
    ASSUME ThreadTypes, Grows, thread' \in Seq(Email)
    PROVE  \A i : Owners(i) => /\ i \in DOMAIN thread'
                               /\ thread'[i] = thread[i]
  <1>1. Len(thread) \in Nat /\ DOMAIN thread = 1 .. Len(thread)
    BY DEF ThreadTypes, ConsentTypeOK
  <1>2. DOMAIN thread' = 1 .. Len(thread')
    OBVIOUS
  <1> QED  BY <1>1, <1>2 DEF Grows, Owners, NextOwners

(* Only the reply that is being acted on is used, and what has been        *)
(* delivered again stays so.                                               *)
Ages ==
    /\ used' \subseteq used \cup {current} /\ retried \subseteq retried'
    /\ used' \subseteq DOMAIN thread' /\ retried' \subseteq DOMAIN thread'

LEMMA SameHistory ==
    ASSUME ThreadTypes, Grows, thread' \in Seq(Email), UNCHANGED history
    PROVE  Ages
  BY DEF ThreadTypes, ConsentTypeOK, Grows, Ages, history

LEMMA QueueKept ==
    ASSUME ThreadInv, Grows, thread' \in Seq(Email), Ages,
           UNCHANGED <<begun, queue, current>>
    PROVE  QueueInv'
  <1>1. \A i : Owners(i) => NextOwners(i)
    BY OwnersKept DEF ThreadInv, Owners, NextOwners
  <1>2. ASSUME NEW k \in DOMAIN queue PROVE NextFresh(queue[k])
    BY DEF ThreadInv, QueueInv, Fresh, NextFresh, Ages
  <1> QED  BY <1>1, <1>2 DEF ThreadInv, QueueInv, Ages, Owners, NextOwners,
                             Fresh, NextFresh

(* A conversation that has ended awaits and acts on nothing.               *)
LEMMA EndsSound ==
    ASSUME ThreadInv, Grows, thread' \in Seq(Email), SentOnce', Ends,
           UNCHANGED <<begun, history>>,
           due' \in BOOLEAN, blessed' \in BOOLEAN,
           spare' \in [MishapKinds -> Nat]
    PROVE  ThreadInv'
  <1>1. Ages
    BY SameHistory DEF ThreadInv
  <1>2. ThreadTypes'
    <2>1. /\ queue' = <<>> /\ current' = 0 /\ pc' = "over"
          /\ run' = "closed"
      BY DEF Ends, NoReply
    <2>2. /\ begun' \in 0 .. Len(thread') /\ current' \in 0 .. Len(thread')
      BY <2>1 DEF ThreadInv, ThreadTypes, ConsentTypeOK, Grows
    <2> QED  BY <1>1, <2>1, <2>2 DEF ThreadTypes, ConsentTypeOK, Ages
  <1>3. QueueInv' /\ YesInv'
    BY DEF QueueInv, YesInv, Ends
  <1> QED  BY <1>2, <1>3 DEF ThreadInv

(* One that goes on with the same queue and the same reply keeps what it   *)
(* had, if it is not about to act on a yes that it was not acting on, nor  *)
(* to signal for one that is used and not tried again.                     *)
LEMMA GoesOnSound ==
    ASSUME ThreadInv, Grows, thread' \in Seq(Email), SentOnce', Ages,
           UNCHANGED <<run, queue, current, begun>>,
           due' \in BOOLEAN, blessed' \in BOOLEAN,
           spare' \in [MishapKinds -> Nat],
           \/ pc' = pc
           \/ pc # "over" /\ pc' \in {"waiting", "blessing", "answering"},
           pc' \in {"blessing", "answering"}
               => pc \in {"blessing", "answering"},
           pc' = "blessing"
               => \/ pc = "blessing" /\ UNCHANGED used
                  \/ current \in retried'
    PROVE  ThreadInv'
  <1>1. QueueInv'
    BY QueueKept
  <1>2. ThreadTypes'
    <2>1. /\ \A k \in DOMAIN queue' : queue'[k] \in DOMAIN thread'
          /\ queue' \in Seq(Nat)
      BY <1>1 DEF QueueInv, Owners, NextOwners, ThreadInv, ThreadTypes
    <2> QED  BY <2>1 DEF ThreadInv, ThreadTypes, ConsentTypeOK, Grows, Ages
  <1>3. YesInv'
    <2>1. \A i : Owners(i) => /\ i \in DOMAIN thread'
                              /\ thread'[i] = thread[i]
      BY OwnersKept DEF ThreadInv
    <2>2. pc' \in {"blessing", "answering"} =>
              Owners(current) /\ thread[current].means = "accept"
      BY DEF ThreadInv, YesInv
    <2>3. pc' = "blessing" => NextFresh(current)
      BY DEF ThreadInv, YesInv, Fresh, NextFresh, Ages
    <2> QED
      BY <2>1, <2>2, <2>3 DEF YesInv, Owners, NextOwners, Fresh, NextFresh
  <1> QED  BY <1>1, <1>2, <1>3 DEF ThreadInv

LEMMA UseTyped ==
    ASSUME ThreadTypes, NEW k \in MishapKinds, Use(k) \/ UNCHANGED spare
    PROVE  spare' \in [MishapKinds -> Nat]
  <1>1. spare \in [MishapKinds -> Nat]
    BY DEF ThreadTypes, ConsentTypeOK
  <1>2. CASE Use(k)
    BY <1>1, <1>2 DEF Use
  <1> QED  BY <1>1, <1>2

(* -- The actions ---------------------------------------------------------- *)
LEMMA OpenInv == ASSUME ThreadInv, Open PROVE ThreadInv'
  <1>1. thread' \in Seq(Email) /\ Grows /\ SentOnce'
    BY OpenThreadSound DEF Open
  <1>2. spare' \in [MishapKinds -> Nat]
    BY UseTyped DEF Open, Done, ThreadInv, MishapKinds
  <1>3. Ages
    BY <1>1, SameHistory DEF ThreadInv, Open
  <1> QED
    BY <1>1, <1>2, <1>3, GoesOnSound
    DEF Open, Done, ThreadInv, ThreadTypes, ConsentTypeOK

LEMMA LapseInv == ASSUME ThreadInv, Lapse PROVE ThreadInv'
  BY SameThread, EndsSound DEF Lapse, ThreadInv, ThreadTypes, ConsentTypeOK

(* Only what means yes is read as a yes.                                   *)
LEMMA ReadInv == ASSUME ThreadInv, Read PROVE ThreadInv'
  <1>1. thread' \in Seq(Email) /\ SentOnce' /\ UNCHANGED <<thread, begun>>
        /\ used' = used /\ retried' = retried
    BY SameThread DEF Read, history
  <1>2. /\ queue \in Seq(Nat) /\ queue # <<>> /\ queue' = Tail(queue)
        /\ current' = queue[1] /\ 1 \in DOMAIN queue
        /\ Head(queue) = queue[1]
    BY DEF Read, ThreadInv, ThreadTypes
  <1>3. Owners(queue[1]) /\ Fresh(queue[1])
    BY <1>2 DEF ThreadInv, QueueInv
  <1>4. thread[queue[1]].means \in Verdicts
    <2>1. thread[queue[1]] \in Email
      BY <1>3 DEF ThreadInv, ThreadTypes, ConsentTypeOK, Owners, NextOwners
    <2> QED  BY <1>3, <2>1 DEF Email, Owners, NextOwners
  <1>5. PICK verdict \in Readings(thread[queue[1]].means) :
           pc' = IF verdict = "accept" THEN "blessing" ELSE verdict
    BY <1>2 DEF Read
  <1>6. /\ verdict \in Verdicts
        /\ verdict = "accept" => thread[queue[1]].means = "accept"
    BY <1>4, <1>5 DEF Readings, Verdicts
  <1>7. /\ queue' \in Seq(Nat)
        /\ \A k \in DOMAIN queue' : /\ k + 1 \in DOMAIN queue /\ k \in Nat
                                    /\ k + 1 # 1
                                    /\ queue'[k] = queue[k + 1]
    BY <1>2
  <1>8. QueueInv'
    <2>1. ASSUME NEW k \in DOMAIN queue'
          PROVE  /\ NextOwners(queue'[k]) /\ NextFresh(queue'[k])
                 /\ queue'[k] = current' => queue'[k] \in retried'
      BY <1>1, <1>2, <1>7
      DEF ThreadInv, QueueInv, Owners, NextOwners, Fresh, NextFresh
    <2>2. ASSUME NEW k \in DOMAIN queue', NEW l \in DOMAIN queue', k # l,
                 queue'[k] = queue'[l]
          PROVE  queue'[k] \in retried'
      <3>1. k + 1 # l + 1
        BY <1>7, <2>2
      <3> QED  BY <1>1, <1>7, <2>2, <3>1 DEF ThreadInv, QueueInv
    <2> QED  BY <2>1, <2>2 DEF QueueInv, Owners, NextOwners, Fresh, NextFresh
  <1>9. YesInv'
    BY <1>1, <1>2, <1>3, <1>5, <1>6
    DEF YesInv, Owners, NextOwners, Fresh, NextFresh, Verdicts
  <1>10. ThreadTypes'
    <2>1. \A k \in DOMAIN queue' : queue'[k] \in DOMAIN thread'
      BY <1>8 DEF QueueInv, Owners, NextOwners
    <2>2. current' \in 0 .. Len(thread')
      BY <1>1, <1>2, <1>3
      DEF Owners, NextOwners, ThreadInv, ThreadTypes, ConsentTypeOK
    <2> QED  BY <1>1, <1>5, <1>6, <1>7, <2>1, <2>2
             DEF ThreadInv, ThreadTypes, ConsentTypeOK, Read, Verdicts
  <1> QED  BY <1>1, <1>8, <1>9, <1>10 DEF ThreadInv

(* Only the reply that is acted on is marked, and it is the owner's.       *)
LEMMA ActedOnAges ==
    ASSUME ThreadInv, pc \in {"blessing", "answering"}, Grows,
           thread' \in Seq(Email), used' \in {used, used \cup {current}},
           retried' \in {retried, retried \cup {current}}
    PROVE  Ages
  <1>1. /\ current \in DOMAIN thread /\ used \subseteq DOMAIN thread
        /\ retried \subseteq DOMAIN thread
    BY DEF ThreadInv, YesInv, Owners, NextOwners, ThreadTypes, ConsentTypeOK
  <1>2. DOMAIN thread \subseteq DOMAIN thread'
    BY DEF Grows, ThreadInv, ThreadTypes, ConsentTypeOK
  <1> QED  BY <1>1, <1>2 DEF Ages

LEMMA SignalYesInv == ASSUME ThreadInv, SignalYes PROVE ThreadInv'
  <1>1. thread' \in Seq(Email) /\ Grows /\ SentOnce'
    BY SameThread DEF SignalYes
  <1>2. spare' \in [MishapKinds -> Nat]
    BY UseTyped DEF SignalYes, TriedAgain, ThreadInv, MishapKinds
  <1>3. Ages
    BY <1>1, ActedOnAges DEF SignalYes, TriedAgain
  <1>4. pc' = "blessing" => current \in retried'
    BY DEF SignalYes, TriedAgain
  <1> QED
    BY <1>1, <1>2, <1>3, <1>4, GoesOnSound
    DEF SignalYes, TriedAgain, ThreadInv, ThreadTypes, ConsentTypeOK

LEMMA AnswerYesInv == ASSUME ThreadInv, AnswerYes PROVE ThreadInv'
  <1>1. [k |-> "accept"] \in Label
    BY DEF Label
  <1>2. thread' \in Seq(Email) /\ Grows /\ SentOnce'
    BY <1>1, LatestTyped, SendOnThreadSound DEF AnswerYes
  <1>3. spare' \in [MishapKinds -> Nat]
    BY UseTyped DEF AnswerYes, TriedAgain, ThreadInv, MishapKinds
  <1>4. CASE Ends /\ UNCHANGED retried
    BY <1>2, <1>3, <1>4, EndsSound
    DEF AnswerYes, history, ThreadInv, ThreadTypes, ConsentTypeOK
  <1>5. CASE TriedAgain /\ UNCHANGED <<run, queue, current>>
    <2>1. Ages /\ current \in retried'
      BY <1>2, <1>5, ActedOnAges DEF AnswerYes, TriedAgain
    <2> QED
      BY <1>2, <1>3, <1>5, <2>1, GoesOnSound
      DEF AnswerYes, TriedAgain, ThreadInv, ThreadTypes, ConsentTypeOK
  <1> QED  BY <1>4, <1>5 DEF AnswerYes

LEMMA DeclineInv == ASSUME ThreadInv, Decline PROVE ThreadInv'
  <1>1. [k |-> "decline"] \in Label
    BY DEF Label
  <1>2. thread' \in Seq(Email) /\ Grows /\ SentOnce'
    BY <1>1, LatestTyped, SendOnThreadSound DEF Decline
  <1>3. spare' \in [MishapKinds -> Nat]
    BY UseTyped DEF Decline, ThreadInv, MishapKinds
  <1>4. CASE Ends
    BY <1>2, <1>3, <1>4, EndsSound
    DEF Decline, ThreadInv, ThreadTypes, ConsentTypeOK
  <1>5. CASE UNCHANGED <<run, pc, queue, current>>
    BY <1>2, <1>3, <1>5, SameHistory, GoesOnSound
    DEF Decline, history, ThreadInv, ThreadTypes, ConsentTypeOK
  <1> QED  BY <1>4, <1>5 DEF Decline

LEMMA ClarifyInv == ASSUME ThreadInv, Clarify PROVE ThreadInv'
  <1>1. [k |-> "unclear", of |-> current] \in Label
    BY DEF Label, ThreadInv, ThreadTypes, ConsentTypeOK
  <1>2. thread' \in Seq(Email) /\ Grows /\ SentOnce'
    BY <1>1, SendOnThreadSound DEF Clarify
  <1>3. spare' \in [MishapKinds -> Nat]
    BY UseTyped DEF Clarify, Done, ThreadInv, MishapKinds
  <1>4. Ages
    BY <1>2, SameHistory DEF ThreadInv, Clarify
  <1> QED
    BY <1>2, <1>3, <1>4, GoesOnSound
    DEF Clarify, Done, ThreadInv, ThreadTypes, ConsentTypeOK

LEMMA StartRunInv == ASSUME ThreadInv, Start PROVE ThreadInv'
  <1>1. thread' \in Seq(Email) /\ Grows /\ SentOnce'
    BY SameThread DEF Start
  <1>2. spare' \in [MishapKinds -> Nat]
    BY UseTyped DEF Start, ThreadInv, MishapKinds
  <1>3. CASE MayStart
    <2>1. /\ run' = "open" /\ pc' = "opening" /\ due' = FALSE
          /\ queue' = <<>> /\ current' = 0 /\ begun' = Len(thread)
          /\ blessed' = blessed /\ thread' = thread
      BY <1>3 DEF Start, NoReply
    <2>2. Len(thread) \in Nat
      BY DEF ThreadInv, ThreadTypes, ConsentTypeOK
    <2>3. ThreadTypes'
      <3>1. queue' \in Seq(Nat)
            /\ \A k \in DOMAIN queue' : queue'[k] \in DOMAIN thread'
        BY <2>1
      <3>2. current' \in 0 .. Len(thread') /\ begun' \in 0 .. Len(thread')
        BY <2>1, <2>2
      <3>3. /\ blessed' \in BOOLEAN
            /\ used' \subseteq DOMAIN thread'
            /\ retried' \subseteq DOMAIN thread'
        BY <2>1 DEF ThreadInv, ThreadTypes, ConsentTypeOK, Start, history
      <3> QED  BY <1>1, <1>2, <2>1, <3>1, <3>2, <3>3
               DEF ThreadTypes, ConsentTypeOK
    <2>4. QueueInv' /\ YesInv'
      BY <2>1 DEF QueueInv, YesInv
    <2> QED  BY <1>1, <2>3, <2>4 DEF ThreadInv
  <1>4. CASE ~MayStart
    BY <1>1, <1>2, <1>4, SameHistory, GoesOnSound
    DEF Start, conversation, history, ThreadInv, ThreadTypes, ConsentTypeOK
  <1> QED  BY <1>3, <1>4

LEMMA ForgetInv == ASSUME ThreadInv, Forget PROVE ThreadInv'
  BY DEF Forget, ThreadInv, ThreadTypes, ConsentTypeOK, QueueInv, YesInv,
         Owners, NextOwners, Fresh, NextFresh, SentOnce, history

LEMMA DeadlineInv == ASSUME ThreadInv, Deadline PROVE ThreadInv'
  BY SameThread, SameHistory, GoesOnSound
  DEF Deadline, history, ThreadInv, ThreadTypes, ConsentTypeOK

LEMMA GiveUpInv == ASSUME ThreadInv, GiveUp PROVE ThreadInv'
  <1>1. spare' \in [MishapKinds -> Nat]
    BY UseTyped DEF GiveUp, ThreadInv, MishapKinds
  <1> QED  BY <1>1, SameThread, EndsSound
           DEF GiveUp, ThreadInv, ThreadTypes, ConsentTypeOK

LEMMA ReplyInv == ASSUME ThreadInv, Reply PROVE ThreadInv'
  <1>1. PICK means \in Verdicts :
           thread' = Append(thread, [from |-> "owner", means |-> means])
    BY DEF Reply
  <1> DEFINE email == [from |-> "owner", means |-> means]
             last  == Len(thread) + 1
  <1>2. email \in Email
    BY DEF Email
  <1>3. /\ Grows /\ thread' \in Seq(Email) /\ Len(thread') = last
        /\ thread'[last] = email
    BY <1>1, <1>2, AppendGrows DEF ThreadInv
  <1>4. spare' \in [MishapKinds -> Nat]
    BY UseTyped DEF Reply, ThreadInv, MishapKinds
  <1>5. /\ Len(thread) \in Nat /\ begun \in 0 .. Len(thread)
        /\ current \in 0 .. Len(thread)
        /\ DOMAIN thread = 1 .. Len(thread) /\ DOMAIN thread' = 1 .. last
        /\ used \subseteq DOMAIN thread
    BY <1>3 DEF ThreadInv, ThreadTypes, ConsentTypeOK
  <1>6. Ages
    BY <1>3, SameHistory DEF ThreadInv, Reply
  <1>7. SentOnce'
    BY <1>3, <1>5 DEF ThreadInv, SentOnce, Grows
  <1>8. CASE UNCHANGED queue
    <2>1. QueueInv'
      BY <1>3, <1>6, <1>8, QueueKept DEF Reply
    <2> QED
      BY <1>3, <1>4, <1>6, <1>7, <1>8, GoesOnSound
      DEF Reply, history, ThreadInv, ThreadTypes, ConsentTypeOK
  <1>9. CASE queue' = Append(queue, last)
    <2>1. /\ queue' \in Seq(Nat)
          /\ DOMAIN queue' = DOMAIN queue \cup {Len(queue) + 1}
          /\ Len(queue) + 1 \notin DOMAIN queue
          /\ queue'[Len(queue) + 1] = last
          /\ \A k \in DOMAIN queue : queue'[k] = queue[k]
      BY <1>5, <1>9 DEF ThreadInv, ThreadTypes
    <2>2. /\ NextOwners(last) /\ NextFresh(last) /\ last # current'
          /\ \A i : Owners(i) => NextOwners(i) /\ i # last
      BY <1>3, <1>5, OwnersKept
      DEF ThreadInv, Owners, NextOwners, Fresh, NextFresh, Reply, history
    <2>3. \A k \in DOMAIN queue :
             /\ Owners(queue[k]) /\ NextFresh(queue[k])
             /\ queue[k] = current' => queue[k] \in retried'
      BY DEF ThreadInv, QueueInv, Fresh, NextFresh, Reply, history
    <2>4. QueueInv'
      <3>1. ASSUME NEW k \in DOMAIN queue'
            PROVE  /\ NextOwners(queue'[k]) /\ NextFresh(queue'[k])
                   /\ queue'[k] = current' => queue'[k] \in retried'
        BY <2>1, <2>2, <2>3
      <3>2. ASSUME NEW k \in DOMAIN queue', NEW l \in DOMAIN queue', k # l,
                   queue'[k] = queue'[l]
            PROVE  queue'[k] \in retried'
        <4>1. k \in DOMAIN queue /\ l \in DOMAIN queue
          BY <2>1, <2>2, <2>3, <3>2
        <4> QED  BY <2>1, <3>2, <4>1
                 DEF ThreadInv, QueueInv, Reply, history
      <3> QED  BY <3>1, <3>2 DEF QueueInv, Owners, NextOwners, Fresh, NextFresh
    <2>5. YesInv'
      <3>1. \A i : Owners(i) => /\ i \in DOMAIN thread'
                                /\ thread'[i] = thread[i]
        BY <1>3, OwnersKept DEF ThreadInv
      <3> QED  BY <3>1
      DEF ThreadInv, YesInv, Owners, NextOwners, Fresh, NextFresh, Reply,
          history
    <2>6. ThreadTypes'
      <3>1. \A k \in DOMAIN queue' : queue'[k] \in DOMAIN thread'
        BY <2>4 DEF QueueInv, Owners, NextOwners
      <3> QED  BY <3>1, <1>3, <1>4, <1>5, <1>6, <2>1
               DEF ThreadInv, ThreadTypes, ConsentTypeOK, Reply, Ages
    <2> QED  BY <1>7, <2>4, <2>5, <2>6 DEF ThreadInv
  <1> QED  BY <1>3, <1>8, <1>9 DEF Reply

LEMMA ReplyAgainInv == ASSUME ThreadInv, Again PROVE ThreadInv'
  <1>1. PICK r \in DOMAIN thread :
           /\ thread[r].from = "owner"
           /\ queue' = Append(queue, r) /\ retried' = retried \cup {r}
    BY DEF Again
  <1>2. r \in Nat /\ Owners(r)
    BY <1>1 DEF Owners, NextOwners, ThreadInv, ThreadTypes, ConsentTypeOK
  <1>3. /\ queue' \in Seq(Nat)
        /\ \A k \in DOMAIN queue' :
              (k \in DOMAIN queue /\ queue'[k] = queue[k]) \/ queue'[k] = r
    BY <1>1, <1>2 DEF ThreadInv, ThreadTypes
  <1>4. \A i : (Owners(i) => NextOwners(i)) /\ (Fresh(i) => NextFresh(i))
    BY <1>1 DEF Owners, NextOwners, Fresh, NextFresh, Again
  <1>5. QueueInv'
    <2>1. ASSUME NEW k \in DOMAIN queue'
          PROVE  /\ NextOwners(queue'[k]) /\ NextFresh(queue'[k])
                 /\ queue'[k] = current' => queue'[k] \in retried'
      <3>1. CASE k \in DOMAIN queue /\ queue'[k] = queue[k]
        BY <1>1, <1>4, <3>1 DEF ThreadInv, QueueInv, Again
      <3>2. CASE queue'[k] = r
        BY <1>1, <1>2, <1>4, <3>2 DEF Fresh, NextFresh
      <3> QED  BY <1>3, <3>1, <3>2
    <2>2. ASSUME NEW k \in DOMAIN queue', NEW l \in DOMAIN queue', k # l,
                 queue'[k] = queue'[l]
          PROVE  queue'[k] \in retried'
      <3>1. CASE queue'[k] = r
        BY <1>1, <3>1
      <3>2. CASE queue'[k] # r
        BY <1>1, <1>3, <2>2, <3>2 DEF ThreadInv, QueueInv
      <3> QED  BY <3>1, <3>2
    <2> QED  BY <2>1, <2>2 DEF QueueInv, Owners, NextOwners, Fresh, NextFresh
  <1>6. YesInv' /\ SentOnce'
    BY <1>4 DEF ThreadInv, YesInv, SentOnce, Again, Owners, NextOwners,
                Fresh, NextFresh
  <1>7. spare' \in [MishapKinds -> Nat]
    BY UseTyped DEF Again, ThreadInv, MishapKinds
  <1>8. ThreadTypes'
    <2>1. \A k \in DOMAIN queue' : queue'[k] \in DOMAIN thread'
      BY <1>5 DEF QueueInv, Owners, NextOwners
    <2> QED  BY <1>1, <1>3, <1>7, <2>1
             DEF ThreadInv, ThreadTypes, ConsentTypeOK, Again
  <1> QED  BY <1>5, <1>6, <1>8 DEF ThreadInv

LEMMA StopHandlingInv == ASSUME ThreadInv, StopHandling PROVE ThreadInv'
  BY SameThread, SameHistory, GoesOnSound
  DEF StopHandling, conversation, history, ThreadInv, ThreadTypes, ConsentTypeOK

(* -- The theorems --------------------------------------------------------- *)
LEMMA InitThread == ConsentInit => ThreadInv
  <1> SUFFICES ASSUME ConsentInit PROVE ThreadInv
    OBVIOUS
  <1>1. queue = <<>> /\ thread = <<>> /\ pc = "over" /\ Len(thread) = 0
    BY DEF ConsentInit
  <1>2. ThreadTypes
    <2>1. /\ thread \in Seq(Email) /\ queue \in Seq(Nat)
          /\ spare \in [MishapKinds -> Nat]
          /\ used \subseteq DOMAIN thread /\ retried \subseteq DOMAIN thread
      BY <1>1, ConsentAssumption DEF ConsentInit
    <2>2. \A k \in DOMAIN queue : queue[k] \in DOMAIN thread
      BY <1>1
    <2>3. current \in 0 .. Len(thread) /\ begun \in 0 .. Len(thread)
      BY <1>1 DEF ConsentInit, NoReply
    <2> QED  BY <2>1, <2>2, <2>3 DEF ConsentInit, ThreadTypes, ConsentTypeOK
  <1>3. QueueInv /\ YesInv /\ SentOnce
    BY <1>1 DEF QueueInv, YesInv, SentOnce
  <1> QED  BY <1>2, <1>3 DEF ThreadInv

LEMMA StepThread == ThreadInv /\ [ConsentNext]_consentVars => ThreadInv'
  <1> SUFFICES ASSUME ThreadInv, [ConsentNext]_consentVars PROVE ThreadInv'
    OBVIOUS
  <1>1. CASE UNCHANGED consentVars
    BY <1>1
    DEF consentVars, conversation, history, ThreadInv, ThreadTypes,
        ConsentTypeOK, QueueInv, YesInv, Owners, NextOwners, Fresh, NextFresh,
        SentOnce
  <1>2. CASE Step
    BY <1>2, OpenInv, LapseInv, ReadInv, SignalYesInv, AnswerYesInv,
       DeclineInv,
       ClarifyInv DEF Step
  <1>3. CASE \/ Start \/ Forget \/ Deadline \/ GiveUp
             \/ Reply \/ Again \/ StopHandling
    BY <1>3, StartRunInv, ForgetInv, DeadlineInv, GiveUpInv, ReplyInv,
       ReplyAgainInv,
       StopHandlingInv
  <1> QED  BY <1>1, <1>2, <1>3 DEF ConsentNext

LEMMA ThreadInvariant == ConsentSpec => []ThreadInv
  BY InitThread, StepThread, PTL DEF ConsentSpec

(* Every variable of the conversation keeps its type.                      *)
THEOREM ConsentTypeCorrect == ConsentSpec => []ConsentTypeOK
  <1>1. ThreadInv => ConsentTypeOK
    BY DEF ThreadInv, ThreadTypes
  <1> QED  BY <1>1, ThreadInvariant, PTL

(* No email of a conversation is sent twice, through attempts that die     *)
(* after sending, replies delivered again and conversations that are begun *)
(* again (mail/client.py, send_on_thread and open_thread).                 *)
THEOREM NeverSentTwice == ConsentSpec => []SentOnce
  <1>1. ThreadInv => SentOnce
    BY DEF ThreadInv
  <1> QED  BY <1>1, ThreadInvariant, PTL

(* A rule is blessed by a reply of the owner that means yes, once and for  *)
(* the run in which he wrote it, except a reply that was itself delivered  *)
(* late or once more or accepted in two attempts (offer_activities.py,     *)
(* interpret_offer_reply and accept_offer; dispatch_activities.py,         *)
(* signal_offer).                                                          *)
THEOREM YesBlesses == ConsentSpec => OnlyYesBlesses
  <1>1. ASSUME ThreadInv, [ConsentNext]_consentVars, ~blessed, blessed'
        PROVE  /\ current \in DOMAIN thread
               /\ thread[current].from = "owner"
               /\ thread[current].means = "accept"
               /\ \/ current \in retried
                  \/ current > begun /\ current \notin used
    <2>1. SignalYes
      BY <1>1
      DEF ConsentNext, Step, consentVars, conversation, Open, Lapse, Read,
          AnswerYes, Decline, Clarify, Start, Forget, Deadline, GiveUp, Reply,
          Again, StopHandling
    <2> QED  BY <1>1, <2>1
    DEF SignalYes, ThreadInv, YesInv, Owners, NextOwners, Fresh, NextFresh
  <1>2. ThreadInv /\ [ConsentNext]_consentVars
          => [~blessed /\ blessed' =>
                /\ current \in DOMAIN thread
                /\ thread[current].from = "owner"
                /\ thread[current].means = "accept"
                /\ current \in retried
                      \/ (current > begun /\ current \notin used)
             ]_consentVars
    BY <1>1
  <1> QED  BY <1>2, ThreadInvariant, PTL DEF ConsentSpec, OnlyYesBlesses

(***************************************************************************)
(* The circuit breaker: for any number of charges, any caps, windows,      *)
(* concurrency and losses, a charge counts once, the ledger forgets no     *)
(* auto-write of the day but those whose record was lost, and a burst      *)
(* exceeds a cap by no more than the overlap and the losses.               *)
(***************************************************************************)
BreakerTypes ==
    /\ BreakerTypeOK
    /\ IsFiniteSet(entries)
    /\ \A t \in Txns : acted[t] <= now

(* A charge that has been asked about or taken up again after its record   *)
(* was lost leaves InFlight, so NothingForgotten is not inductive: what    *)
(* the losses pay for is every unrecorded write that no run is about to    *)
(* record.                                                                 *)
Owed    == {t \in Unrecorded : stage[t] # "verified"}
OwedInv == Cardinality(Owed) <= lost

BreakerInv == BreakerTypes /\ CountedOnce /\ OwedInv

(* A count of the tail is a number.                                        *)
LEMMA CountersTyped ==
    ASSUME NEW tail, IsFiniteSet(tail), NEW at
    PROVE  Counters(tail, at) \in [this_run: Nat, today: Nat]
  <1>1. ASSUME NEW window PROVE Within(tail, at, window) \in Nat
    <2>1. {e \in tail : at - e.at < window} \in SUBSET tail
      OBVIOUS
    <2> QED  BY <2>1, FS_Subset, FS_CardinalityType DEF Within
  <1> QED  BY <1>1 DEF Counters

(* The tail stays a finite set of entries with one for each charge.        *)
LEMMA RecordSound ==
    ASSUME NEW tail \in SUBSET Entry, IsFiniteSet(tail),
           NEW id \in Txns, NEW at \in Nat,
           \A e, f \in tail : e.id = f.id => e = f
    PROVE  /\ Record(tail, id, at) \in SUBSET Entry
           /\ IsFiniteSet(Record(tail, id, at))
           /\ \A e, f \in Record(tail, id, at) : e.id = f.id => e = f
  <1> DEFINE kept == {e \in tail : e.id # id /\ at - e.at < DayWindow}
  <1>1. kept \in SUBSET tail
    OBVIOUS
  <1>2. IsFiniteSet(kept \cup {[id |-> id, at |-> at]})
    BY <1>1, FS_Subset, FS_AddElement
  <1>3. Record(tail, id, at) = kept \cup {[id |-> id, at |-> at]}
    BY DEF Record
  <1>4. [id |-> id, at |-> at] \in Entry
    BY DEF Entry
  <1> QED  BY <1>1, <1>2, <1>3, <1>4

LEMMA OwedFinite == Owed \in SUBSET Txns /\ IsFiniteSet(Owed)
  <1>1. Owed \in SUBSET Txns
    BY DEF Owed, Unrecorded, ActedWithin
  <1> QED  BY <1>1, FS_Subset, BreakerAssumption

(* A step keeps what is owed within the losses if it owes no more, or one  *)
(* more for the loss it takes.                                             *)
LEMMA OwedSame ==
    ASSUME BreakerInv, Owed' \in SUBSET Owed, lost' \in Nat, lost' >= lost
    PROVE  OwedInv'
  <1>1. IsFiniteSet(Owed)
    BY OwedFinite
  <1>2. Cardinality(Owed) \in Nat /\ Cardinality(Owed') \in Nat
        /\ Cardinality(Owed') <= Cardinality(Owed)
    BY <1>1, FS_Subset, FS_CardinalityType
  <1>3. lost \in Nat
    BY BreakerAssumption DEF BreakerInv, BreakerTypes, BreakerTypeOK
  <1> QED  BY <1>2, <1>3 DEF BreakerInv, OwedInv

LEMMA OwedOneMore ==
    ASSUME BreakerInv, NEW t \in Txns,
           Owed' \in SUBSET (Owed \cup {t}), lost' = lost + 1
    PROVE  OwedInv'
  <1>1. IsFiniteSet(Owed)
    BY OwedFinite
  <1>2. /\ IsFiniteSet(Owed \cup {t})
        /\ Cardinality(Owed \cup {t}) <= Cardinality(Owed) + 1
        /\ Cardinality(Owed) \in Nat
    BY <1>1, FS_AddElement, FS_CardinalityType
  <1>3. /\ Cardinality(Owed') <= Cardinality(Owed \cup {t})
        /\ Cardinality(Owed') \in Nat
        /\ Cardinality(Owed \cup {t}) \in Nat
    BY <1>2, FS_Subset, FS_CardinalityType
  <1>4. lost \in Nat
    BY BreakerAssumption DEF BreakerInv, BreakerTypes, BreakerTypeOK
  <1> QED  BY <1>2, <1>3, <1>4 DEF BreakerInv, OwedInv

(* A step that neither writes nor records, and lets no run end that was    *)
(* about to record, owes nothing new.                                      *)
LEMMA OwedQuiet ==
    ASSUME BreakerInv, UNCHANGED <<now, entries, acted>>,
           \A t \in Txns : stage[t] = "verified" => stage'[t] = "verified",
           lost' \in Nat, lost' >= lost
    PROVE  OwedInv'
  <1>1. Owed' \in SUBSET Owed
    BY DEF Owed, Unrecorded, ActedWithin
  <1> QED  BY <1>1, OwedSame

LEMMA LoseTyped ==
    ASSUME BreakerTypes, Lose \/ UNCHANGED lost
    PROVE  lost' \in 0 .. Losses /\ lost' >= lost /\ lost' \in Nat
  BY BreakerAssumption DEF BreakerTypes, BreakerTypeOK, Lose

(* What recording t leaves owed: nothing new, for an entry goes only with  *)
(* the write it stands for.                                                *)
LEMMA RecordOwes ==
    ASSUME BreakerInv, NEW t \in Txns,
           entries' = Record(entries, t, now), UNCHANGED <<now, acted>>,
           \A s \in Txns \ {t} : stage'[s] = stage[s]
    PROVE  Owed' \in SUBSET Owed
  <1> SUFFICES ASSUME NEW s \in Txns, s \in Owed'
               PROVE  s \in Owed
    BY DEF Owed, Unrecorded, ActedWithin
  <1>1. now \in Nat /\ DayWindow \in Nat /\ acted \in [Txns -> Nat]
        /\ entries \subseteq Entry /\ \A x \in Txns : acted[x] <= now
    BY BreakerAssumption DEF BreakerInv, BreakerTypes, BreakerTypeOK
  <1>2. s # t
    <2> SUFFICES ASSUME s = t PROVE FALSE
      OBVIOUS
    <2>1. [id |-> t, at |-> now] \in entries'
      BY DEF Record
    <2> QED  BY <2>1, <1>1 DEF Owed, Unrecorded
  <1>3. ASSUME NEW e \in entries, e.id = s, e.at >= acted[s]
        PROVE  e \in entries'
    <2>1. now - acted[s] < DayWindow
      BY DEF Owed, Unrecorded, ActedWithin
    <2>2. e.at \in Nat /\ acted[s] \in Nat
      BY <1>1 DEF Entry
    <2>3. now - e.at < DayWindow
      BY <1>1, <1>3, <2>1, <2>2
    <2> QED  BY <1>2, <1>3, <2>3 DEF Record
  <1> QED  BY <1>2, <1>3 DEF Owed, Unrecorded, ActedWithin

(* -- The actions --------------------------------------------------------- *)
LEMMA LoadCountersInv ==
    ASSUME BreakerInv, NEW t \in Txns, LoadCounters(t) PROVE BreakerInv'
  <1>1. BreakerTypes'
    <2>1. Counters(entries, now) \in [this_run: Nat, today: Nat]
      BY CountersTyped DEF BreakerInv, BreakerTypes
    <2>2. Zero \in [this_run: Nat, today: Nat]
      BY DEF Zero
    <2> QED  BY <2>1, <2>2, LoseTyped
             DEF BreakerInv, BreakerTypes, BreakerTypeOK, LoadCounters, Goto,
                 Stages
  <1>2. CountedOnce'
    BY DEF BreakerInv, CountedOnce, LoadCounters
  <1>3. OwedInv'
    BY OwedQuiet, LoseTyped
    DEF LoadCounters, Goto, BreakerInv, BreakerTypes, BreakerTypeOK
  <1> QED  BY <1>1, <1>2, <1>3 DEF BreakerInv

LEMMA GateInv ==
    ASSUME BreakerInv, NEW t \in Txns, Gate(t) PROVE BreakerInv'
  <1>1. BreakerTypes'
    BY DEF BreakerInv, BreakerTypes, BreakerTypeOK, Gate, Goto, Stages
  <1>2. CountedOnce'
    BY DEF BreakerInv, CountedOnce, Gate
  <1>3. OwedInv'
    BY OwedQuiet, LoseTyped
    DEF Gate, Goto, BreakerInv, BreakerTypes, BreakerTypeOK
  <1> QED  BY <1>1, <1>2, <1>3 DEF BreakerInv

(* The charge written is on its way to being recorded.                     *)
LEMMA CommitInv ==
    ASSUME BreakerInv, NEW t \in Txns, Commit(t) PROVE BreakerInv'
  <1>1. BreakerTypes'
    BY DEF BreakerInv, BreakerTypes, BreakerTypeOK, Commit, Goto, Stages
  <1>2. CountedOnce'
    BY DEF BreakerInv, CountedOnce, Commit
  <1>3. Owed' \in SUBSET Owed
    BY DEF Owed, Unrecorded, ActedWithin, Commit, Goto, BreakerInv,
           BreakerTypes, BreakerTypeOK
  <1>4. OwedInv'
    BY <1>3, OwedSame, LoseTyped DEF Commit, BreakerInv
  <1> QED  BY <1>1, <1>2, <1>4 DEF BreakerInv

LEMMA RunFailsInv ==
    ASSUME BreakerInv, NEW t \in Txns, RunFails(t) PROVE BreakerInv'
  <1>1. BreakerTypes'
    BY LoseTyped
    DEF BreakerInv, BreakerTypes, BreakerTypeOK, RunFails, Goto, Stages
  <1>2. CountedOnce'
    BY DEF BreakerInv, CountedOnce, RunFails
  <1>3. Owed' \in SUBSET (Owed \cup {t})
    BY DEF Owed, Unrecorded, ActedWithin, RunFails, Goto, BreakerInv,
           BreakerTypes, BreakerTypeOK
  <1>4. OwedInv'
    BY <1>3, OwedOneMore DEF RunFails, Lose
  <1> QED  BY <1>1, <1>2, <1>4 DEF BreakerInv

LEMMA RecordActionInv ==
    ASSUME BreakerInv, NEW t \in Txns, RecordAction(t) PROVE BreakerInv'
  <1>0. /\ Record(entries, t, now) \in SUBSET Entry
        /\ IsFiniteSet(Record(entries, t, now))
        /\ \A e, f \in Record(entries, t, now) : e.id = f.id => e = f
    BY RecordSound DEF BreakerInv, BreakerTypes, BreakerTypeOK, CountedOnce
  <1>1. BreakerTypes'
    BY <1>0, LoseTyped
    DEF BreakerInv, BreakerTypes, BreakerTypeOK, RecordAction, Goto, Stages
  <1>2. CountedOnce'
    BY <1>0 DEF BreakerInv, CountedOnce, RecordAction
  <1>3. OwedInv'
    <2>1. CASE entries' = Record(entries, t, now)
      <3>1. \A s \in Txns \ {t} : stage'[s] = stage[s]
        BY DEF RecordAction, Goto, BreakerInv, BreakerTypes, BreakerTypeOK
      <3>2. Owed' \in SUBSET Owed
        BY <2>1, <3>1, RecordOwes DEF RecordAction
      <3> QED  BY <3>2, OwedSame, LoseTyped DEF RecordAction, BreakerInv
    <2>2. CASE Goto(t, "done") /\ UNCHANGED entries /\ Lose
      <3>1. Owed' \in SUBSET (Owed \cup {t})
        BY <2>2 DEF Owed, Unrecorded, ActedWithin, RecordAction, Goto,
                    BreakerInv, BreakerTypes, BreakerTypeOK
      <3> QED  BY <2>2, <3>1, OwedOneMore DEF Lose
    <2> QED  BY <2>1, <2>2 DEF RecordAction
  <1> QED  BY <1>1, <1>2, <1>3 DEF BreakerInv

LEMMA RespawnInv ==
    ASSUME BreakerInv, NEW t \in Txns, Respawn(t) PROVE BreakerInv'
  <1>1. BreakerTypes'
    BY DEF BreakerInv, BreakerTypes, BreakerTypeOK, Respawn, Goto, Stages
  <1>2. CountedOnce'
    BY DEF BreakerInv, CountedOnce, Respawn
  <1>3. OwedInv'
    BY OwedQuiet, LoseTyped
    DEF Respawn, Goto, BreakerInv, BreakerTypes, BreakerTypeOK
  <1> QED  BY <1>1, <1>2, <1>3 DEF BreakerInv

(* As time passes writes leave the day, and none enters it.                *)
LEMMA TickInv == ASSUME BreakerInv, Tick PROVE BreakerInv'
  <1>1. BreakerTypes'
    BY DEF BreakerInv, BreakerTypes, BreakerTypeOK, Tick
  <1>2. CountedOnce'
    BY DEF BreakerInv, CountedOnce, Tick
  <1>3. Owed' \in SUBSET Owed
    BY BreakerAssumption
    DEF Owed, Unrecorded, ActedWithin, Tick, BreakerInv, BreakerTypes,
        BreakerTypeOK
  <1>4. OwedInv'
    BY <1>3, OwedSame, LoseTyped DEF Tick, BreakerInv
  <1> QED  BY <1>1, <1>2, <1>4 DEF BreakerInv

(* -- The theorems -------------------------------------------------------- *)
LEMMA InitBreaker == BreakerInit => BreakerInv
  <1> SUFFICES ASSUME BreakerInit PROVE BreakerInv
    OBVIOUS
  <1>1. BreakerTypes
    BY BreakerAssumption, FS_EmptySet
    DEF BreakerInit, BreakerTypes, BreakerTypeOK, Zero, Stages, Never, Entry
  <1>2. CountedOnce
    BY DEF BreakerInit, CountedOnce
  <1>3. Owed = {}
    BY DEF BreakerInit, Owed, Unrecorded, ActedWithin
  <1>4. OwedInv
    BY <1>3, FS_EmptySet DEF OwedInv, BreakerInit
  <1> QED  BY <1>1, <1>2, <1>4 DEF BreakerInv

LEMMA StepBreaker == BreakerInv /\ [BreakerNext]_breakerVars => BreakerInv'
  <1> SUFFICES ASSUME BreakerInv, [BreakerNext]_breakerVars PROVE BreakerInv'
    OBVIOUS
  <1>1. CASE UNCHANGED breakerVars
    BY <1>1
    DEF breakerVars, BreakerInv, BreakerTypes, BreakerTypeOK, CountedOnce,
        OwedInv, Owed,
                Unrecorded, ActedWithin
  <1>2. CASE Tick
    BY <1>2, TickInv
  <1>3. ASSUME NEW t \in Txns,
               LoadCounters(t) \/ Gate(t) \/ Commit(t)
                 \/ RunFails(t) \/ RecordAction(t) \/ Respawn(t)
        PROVE  BreakerInv'
    BY <1>3, LoadCountersInv, GateInv, CommitInv, RunFailsInv,
       RecordActionInv, RespawnInv
  <1> QED  BY <1>1, <1>2, <1>3 DEF BreakerNext

LEMMA BreakerInvariant == BreakerSpec => []BreakerInv
  BY InitBreaker, StepBreaker, PTL DEF BreakerSpec

(* Every variable of the breaker keeps its type.                           *)
THEOREM BreakerTypeCorrect == BreakerSpec => []BreakerTypeOK
  <1>1. BreakerInv => BreakerTypeOK
    BY DEF BreakerInv, BreakerTypes
  <1> QED  BY <1>1, BreakerInvariant, PTL

(* A charge counts once towards the caps, however often it is recorded     *)
(* (policy/auto_action_ledger.py, record).                                 *)
THEOREM CountsOnce == BreakerSpec => []CountedOnce
  <1>1. BreakerInv => CountedOnce
    BY DEF BreakerInv
  <1> QED  BY <1>1, BreakerInvariant, PTL

(* The tail forgets no auto-write of the day (its pruning, its dedup and   *)
(* the re-recording of a retried activity included) but one for every loss.*)
THEOREM ForgetsNothing == BreakerSpec => []NothingForgotten
  <1>1. ASSUME BreakerInv PROVE NothingForgotten
    <2>1. Unrecorded \ InFlight \in SUBSET Owed
      BY DEF Owed, InFlight, Unrecorded, ActedWithin
    <2>2. /\ Cardinality(Unrecorded \ InFlight) <= Cardinality(Owed)
          /\ Cardinality(Unrecorded \ InFlight) \in Nat
          /\ Cardinality(Owed) \in Nat
      BY <2>1, OwedFinite, FS_Subset, FS_CardinalityType
    <2>3. lost \in Nat
      BY <1>1, BreakerAssumption DEF BreakerInv, BreakerTypes, BreakerTypeOK
    <2> QED  BY <1>1, <2>2, <2>3 DEF BreakerInv, OwedInv, NothingForgotten
  <1>2. BreakerInv => NothingForgotten
    BY <1>1
  <1> QED  BY <1>2, BreakerInvariant, PTL

(* So the counters the gate reads are of the auto-actions, each once.      *)
THEOREM TailStaysExact == BreakerSpec => []TailExact
  <1>1. CountedOnce /\ NothingForgotten => TailExact
    BY DEF TailExact
  <1> QED  BY <1>1, CountsOnce, ForgetsNothing, PTL

(* -- The burst ----------------------------------------------------------- *)
(* A charge past the gate has not written yet, so OvershootBounded is not  *)
(* inductive: the license is spent when the counters are read.  What the   *)
(* caps bound is the writes of the window and the licenses together.       *)
Licensed == {t \in Txns : \/ stage[t] = "commit"
                          \/ /\ stage[t] = "enriching"
                             /\ CheckFloor(counters[t]) = "ALLOW"}

Exposed(window) == ActedWithin(window) \cup Licensed

Allowance(cap) == cap + Overlap - 1 + lost

BurstInv ==
    /\ Cardinality(InFlight) <= Overlap
    /\ Cardinality(Exposed(RunWindow)) <= Allowance(RunCap)
    /\ Cardinality(Exposed(DayWindow)) <= Allowance(DayCap)

LEMMA SetsFinite ==
    /\ InFlight \in SUBSET Txns /\ IsFiniteSet(InFlight)
    /\ \A w : Exposed(w) \in SUBSET Txns /\ IsFiniteSet(Exposed(w))
  <1>1. InFlight \in SUBSET Txns
    BY DEF InFlight
  <1>2. \A w : Exposed(w) \in SUBSET Txns
    BY DEF Exposed, ActedWithin, Licensed
  <1> QED  BY <1>1, <1>2, FS_Subset, BreakerAssumption

(* Adding one charge adds at most one.                                     *)
LEMMA OneMore ==
    ASSUME NEW S, IsFiniteSet(S), NEW t, NEW U, U \in SUBSET (S \cup {t})
    PROVE  /\ Cardinality(U) \in Nat /\ Cardinality(S) \in Nat
           /\ Cardinality(U) <= Cardinality(S) + 1
  <1>1. /\ IsFiniteSet(S \cup {t})
        /\ Cardinality(S) \in Nat
        /\ Cardinality(S \cup {t}) <= Cardinality(S) + 1
    BY FS_AddElement, FS_CardinalityType
  <1>2. /\ Cardinality(U) <= Cardinality(S \cup {t})
        /\ Cardinality(U) \in Nat /\ Cardinality(S \cup {t}) \in Nat
    BY <1>1, FS_Subset, FS_CardinalityType
  <1> QED  BY <1>1, <1>2

(* The union of two sets is no larger than both together.                  *)
LEMMA UnionBound ==
    ASSUME NEW S, IsFiniteSet(S), NEW T, IsFiniteSet(T)
    PROVE  /\ IsFiniteSet(S \cup T)
           /\ Cardinality(S) \in Nat /\ Cardinality(T) \in Nat
           /\ Cardinality(S \cup T) \in Nat
           /\ Cardinality(S \cup T) <= Cardinality(S) + Cardinality(T)
  <1>1. /\ IsFiniteSet(S \cup T) /\ IsFiniteSet(S \cap T)
        /\ Cardinality(S \cup T)
             = Cardinality(S) + Cardinality(T) - Cardinality(S \cap T)
    BY FS_Union, FS_Subset
  <1>2. /\ Cardinality(S) \in Nat /\ Cardinality(T) \in Nat
        /\ Cardinality(S \cap T) \in Nat /\ Cardinality(S \cup T) \in Nat
    BY <1>1, FS_CardinalityType
  <1> QED  BY <1>1, <1>2

(* The charges the tail shows within a window are no more than its entries.*)
Counted(window) == {t \in Txns : \E e \in entries : e.id = t
                                                 /\ now - e.at < window}

LEMMA CountedBound ==
    ASSUME BreakerTypes, NEW w
    PROVE  /\ IsFiniteSet(Counted(w))
           /\ Within(entries, now, w) \in Nat
           /\ Cardinality(Counted(w)) <= Within(entries, now, w)
  <1> DEFINE W == {e \in entries : now - e.at < w}
             f == [e \in W |-> e.id]
  <1>1. IsFiniteSet(W)
    <2>1. W \in SUBSET entries
      OBVIOUS
    <2> QED  BY <2>1, FS_Subset DEF BreakerTypes
  <1>2. f \in Surjection(W, Counted(w))
    <2>1. \A e \in W : e.id \in Counted(w)
      BY DEF Counted, BreakerTypes, BreakerTypeOK, Entry
    <2>2. \A t \in Counted(w) : \E e \in W : f[e] = t
      BY DEF Counted
    <2> QED  BY <2>1, <2>2 DEF Surjection
  <1>3. IsFiniteSet(Counted(w)) /\ Cardinality(Counted(w)) <= Cardinality(W)
    BY <1>1, <1>2, FS_Surjection
  <1>4. Cardinality(W) \in Nat
    BY <1>1, FS_CardinalityType
  <1> QED  BY <1>3, <1>4 DEF Within

(* A charge written within the window is in the tail, still on its way to  *)
(* it, or owed for a loss.                                                 *)
LEMMA WrittenIsAccounted ==
    ASSUME BreakerInv, NEW w \in Nat, w <= DayWindow
    PROVE  Exposed(w) \in SUBSET (Counted(w) \cup InFlight \cup Owed)
  <1> SUFFICES ASSUME NEW s \in Txns, s \in ActedWithin(w),
                      s \notin InFlight, s \notin Owed
               PROVE  s \in Counted(w)
    BY DEF Exposed, ActedWithin, Licensed, InFlight
  <1>1. now \in Nat /\ acted[s] \in Nat /\ DayWindow \in Nat
    BY BreakerAssumption DEF BreakerInv, BreakerTypes, BreakerTypeOK
  <1>2. s \in ActedWithin(DayWindow) /\ now - acted[s] < w
    BY <1>1 DEF ActedWithin
  <1>3. PICK e \in entries : e.id = s /\ e.at >= acted[s]
    BY <1>2 DEF Owed, Unrecorded, InFlight
  <1>4. e.at \in Nat
    BY DEF BreakerInv, BreakerTypes, BreakerTypeOK, Entry
  <1> QED  BY <1>1, <1>2, <1>3, <1>4 DEF Counted

(* So the license of a charge whose counters read below the cap fits: the  *)
(* tail shows fewer than the cap, fewer than Overlap are in flight, and    *)
(* what is owed is paid for.                                               *)
LEMMA LicenseFits ==
    ASSUME BreakerInv, NEW t \in Txns, Cardinality(InFlight) < Overlap,
           NEW w \in Nat, w <= DayWindow,
           NEW cap \in Nat, Within(entries, now, w) < cap,
           NEW E, E \in SUBSET (Exposed(w) \cup {t})
    PROVE  Cardinality(E) <= Allowance(cap)
  <1> DEFINE A == Counted(w)
             B == A \cup InFlight
             C == B \cup Owed
  <1>1. /\ IsFiniteSet(A) /\ Within(entries, now, w) \in Nat
        /\ Cardinality(A) <= Within(entries, now, w)
    BY CountedBound DEF BreakerInv
  <1>2. /\ IsFiniteSet(B) /\ Cardinality(B) \in Nat
        /\ Cardinality(A) \in Nat /\ Cardinality(InFlight) \in Nat
        /\ Cardinality(B) <= Cardinality(A) + Cardinality(InFlight)
    BY <1>1, SetsFinite, UnionBound
  <1>3. /\ IsFiniteSet(C)
        /\ Cardinality(C) \in Nat /\ Cardinality(Owed) \in Nat
        /\ Cardinality(C) <= Cardinality(B) + Cardinality(Owed)
    BY <1>2, OwedFinite, UnionBound
  <1>4. E \in SUBSET (C \cup {t})
    BY WrittenIsAccounted
  <1>5. Cardinality(E) \in Nat /\ Cardinality(E) <= Cardinality(C) + 1
    BY <1>3, <1>4, OneMore
  <1>6. Cardinality(Owed) <= lost /\ lost \in Nat /\ Overlap \in Nat
    BY BreakerAssumption DEF BreakerInv, OwedInv, BreakerTypes, BreakerTypeOK
  <1> HIDE DEF A, B, C
  <1> QED  BY <1>1, <1>2, <1>3, <1>5, <1>6 DEF Allowance

(* A step that licenses and writes nothing new.                            *)
LEMMA BurstShrinks ==
    ASSUME BreakerTypes, BurstInv, InFlight' \in SUBSET InFlight,
           Exposed(RunWindow)' \in SUBSET Exposed(RunWindow),
           Exposed(DayWindow)' \in SUBSET Exposed(DayWindow),
           lost' \in Nat, lost' >= lost
    PROVE  BurstInv'
  <1>1. /\ Cardinality(InFlight') <= Cardinality(InFlight)
        /\ Cardinality(InFlight) \in Nat /\ Cardinality(InFlight') \in Nat
    BY SetsFinite, FS_Subset, FS_CardinalityType
  <1>2. ASSUME NEW w, Exposed(w)' \in SUBSET Exposed(w)
        PROVE  /\ Cardinality(Exposed(w)') <= Cardinality(Exposed(w))
               /\ Cardinality(Exposed(w)) \in Nat
               /\ Cardinality(Exposed(w)') \in Nat
    BY <1>2, SetsFinite, FS_Subset, FS_CardinalityType
  <1>3. lost \in Nat /\ Overlap \in Nat /\ RunCap \in Nat /\ DayCap \in Nat
    BY BreakerAssumption DEF BreakerTypes, BreakerTypeOK
  <1> QED  BY <1>1, <1>2, <1>3 DEF BurstInv, Allowance

(* Only the reading of the counters licenses a charge.                     *)
LEMMA LoadBurst ==
    ASSUME BreakerInv, BurstInv, NEW t \in Txns, LoadCounters(t)
    PROVE  BurstInv'
  <1>0. /\ lost \in Nat /\ Overlap \in Nat /\ RunCap \in Nat /\ DayCap \in Nat
        /\ RunWindow \in Nat /\ DayWindow \in Nat /\ RunWindow <= DayWindow
    BY BreakerAssumption DEF BreakerInv, BreakerTypes, BreakerTypeOK
  <1>1. InFlight' \in SUBSET (InFlight \cup {t})
    BY DEF InFlight, LoadCounters, Goto, BreakerInv, BreakerTypes,
           BreakerTypeOK
  <1>2. /\ Cardinality(InFlight') <= Cardinality(InFlight) + 1
        /\ Cardinality(InFlight) \in Nat /\ Cardinality(InFlight') \in Nat
    BY <1>1, SetsFinite, OneMore
  <1>3. Cardinality(InFlight') <= Overlap
    BY <1>0, <1>2 DEF LoadCounters
  <1>4. \A w : Exposed(w)' \in SUBSET (Exposed(w) \cup {t})
    BY DEF Exposed, ActedWithin, Licensed, LoadCounters, Goto,
           BreakerInv, BreakerTypes, BreakerTypeOK
  <1>5. CASE Lose
    <2>1. ASSUME NEW w
          PROVE  /\ Cardinality(Exposed(w)') <= Cardinality(Exposed(w)) + 1
                 /\ Cardinality(Exposed(w)) \in Nat
                 /\ Cardinality(Exposed(w)') \in Nat
      BY <1>4, SetsFinite, OneMore
    <2>2. lost' = lost + 1
      BY <1>5 DEF Lose
    <2> QED  BY <1>0, <1>3, <2>1, <2>2 DEF BurstInv, Allowance
  <1>6. CASE /\ counters' = [counters EXCEPT ![t] = Counters(entries, now)]
             /\ UNCHANGED lost
    <2>1. CASE CheckFloor(Counters(entries, now)) = "ALLOW"
      <3>1. /\ Within(entries, now, RunWindow) \in Nat
            /\ Within(entries, now, DayWindow) \in Nat
        BY CountersTyped, CountedBound DEF BreakerInv
      <3>2. /\ Within(entries, now, RunWindow) < RunCap
            /\ Within(entries, now, DayWindow) < DayCap
        BY <1>0, <2>1, <3>1 DEF CheckFloor, Counters
      <3>3. /\ Cardinality(Exposed(RunWindow)') <= Allowance(RunCap)
            /\ Cardinality(Exposed(DayWindow)') <= Allowance(DayCap)
        BY <1>0, <1>4, <3>2, LicenseFits DEF LoadCounters
      <3> QED  BY <1>3, <1>6, <3>3 DEF BurstInv, Allowance
    <2>2. CASE CheckFloor(Counters(entries, now)) # "ALLOW"
      <3>1. \A w : Exposed(w)' \in SUBSET Exposed(w)
        BY <1>6, <2>2 DEF Exposed, ActedWithin, Licensed, LoadCounters, Goto,
                          BreakerInv, BreakerTypes, BreakerTypeOK
      <3>2. ASSUME NEW w
            PROVE  /\ Cardinality(Exposed(w)') <= Cardinality(Exposed(w))
                   /\ Cardinality(Exposed(w)) \in Nat
                   /\ Cardinality(Exposed(w)') \in Nat
        BY <3>1, SetsFinite, FS_Subset, FS_CardinalityType
      <3> QED  BY <1>0, <1>3, <1>6, <3>2 DEF BurstInv, Allowance
    <2> QED  BY <2>1, <2>2
  <1> QED  BY <1>5, <1>6 DEF LoadCounters

(* The gate turns the license over, the write spends it, and every other   *)
(* step only lets licenses and writes go.                                  *)
LEMMA OtherBurst ==
    ASSUME BreakerInv, BurstInv, NEW t \in Txns,
           Gate(t) \/ Commit(t) \/ RunFails(t) \/ RecordAction(t) \/ Respawn(t)
    PROVE  BurstInv'
  <1>0. lost' \in Nat /\ lost' >= lost
    BY LoseTyped
    DEF BreakerInv, Gate, Commit, RunFails, RecordAction, Respawn
  <1>1. InFlight' \in SUBSET InFlight
    BY DEF InFlight, Gate, Commit, RunFails, RecordAction, Respawn, Goto,
           BreakerInv, BreakerTypes, BreakerTypeOK
  <1>2. CASE Gate(t) \/ RunFails(t) \/ RecordAction(t) \/ Respawn(t)
    <2>1. \A w : ActedWithin(w)' = ActedWithin(w)
      BY <1>2 DEF ActedWithin, Gate, RunFails, RecordAction, Respawn
    <2>2. Licensed' \in SUBSET Licensed
      <3> SUFFICES ASSUME NEW s \in Licensed' PROVE s \in Licensed
        OBVIOUS
      <3> QED  BY <1>2
               DEF Licensed, Gate, RunFails, RecordAction, Respawn, Goto,
                      BreakerInv, BreakerTypes, BreakerTypeOK
    <2>3. \A w : Exposed(w)' \in SUBSET Exposed(w)
      BY <2>1, <2>2 DEF Exposed
    <2> QED  BY <1>0, <1>1, <2>3, BurstShrinks DEF BreakerInv
  <1>3. CASE Commit(t)
    <2>1. \A w : Exposed(w)' \in SUBSET Exposed(w)
      BY <1>3 DEF Exposed, ActedWithin, Licensed, Commit, Goto,
                  BreakerInv, BreakerTypes, BreakerTypeOK
    <2> QED  BY <1>0, <1>1, <2>1, BurstShrinks DEF BreakerInv
  <1> QED  BY <1>2, <1>3

LEMMA TickBurst == ASSUME BreakerInv, BurstInv, Tick PROVE BurstInv'
  <1>1. lost' \in Nat /\ lost' >= lost
    BY LoseTyped DEF BreakerInv, Tick
  <1>2. InFlight' = InFlight /\ Licensed' = Licensed
    BY DEF InFlight, Licensed, Tick
  <1>3. ASSUME NEW w \in Nat PROVE Exposed(w)' \in SUBSET Exposed(w)
    <2>1. ActedWithin(w)' \in SUBSET ActedWithin(w)
      BY DEF ActedWithin, Tick, BreakerInv, BreakerTypes, BreakerTypeOK
    <2> QED  BY <1>2, <2>1 DEF Exposed
  <1> QED  BY <1>1, <1>2, <1>3, BurstShrinks, BreakerAssumption DEF BreakerInv

LEMMA InitBurst == BreakerInit => BurstInv
  <1> SUFFICES ASSUME BreakerInit PROVE BurstInv
    OBVIOUS
  <1>1. InFlight = {} /\ \A w : Exposed(w) = {}
    BY DEF BreakerInit, InFlight, Exposed, ActedWithin, Licensed
  <1>2. Cardinality({}) = 0
    BY FS_EmptySet
  <1> QED  BY <1>1, <1>2, BreakerAssumption
           DEF BurstInv, Allowance, BreakerInit

LEMMA StepBurst ==
    BreakerInv /\ BurstInv /\ [BreakerNext]_breakerVars => BurstInv'
  <1> SUFFICES ASSUME BreakerInv, BurstInv,
  [BreakerNext]_breakerVars PROVE BurstInv'
    OBVIOUS
  <1>1. CASE UNCHANGED breakerVars
    BY <1>1
    DEF breakerVars, BurstInv, Allowance, InFlight, Exposed, ActedWithin,
                Licensed
  <1>2. CASE Tick
    BY <1>2, TickBurst
  <1>3. ASSUME NEW t \in Txns,
               LoadCounters(t) \/ Gate(t) \/ Commit(t)
                 \/ RunFails(t) \/ RecordAction(t) \/ Respawn(t)
        PROVE  BurstInv'
    BY <1>3, LoadBurst, OtherBurst
  <1> QED  BY <1>1, <1>2, <1>3 DEF BreakerNext

(* What the caps bound: within either window the auto-writes exceed the    *)
(* cap by no more than the charges that read the counters before the       *)
(* others had recorded, and one for every loss (policy/floor.py,           *)
(* check_floor; enrich reads, writes, and only then records).              *)
THEOREM OvershootStaysBounded == BreakerSpec => []OvershootBounded
  <1>1. ASSUME BreakerInv, BurstInv PROVE OvershootBounded
    <2>1. ASSUME NEW w
          PROVE  /\ Cardinality(ActedWithin(w)) <= Cardinality(Exposed(w))
                 /\ Cardinality(ActedWithin(w)) \in Nat
                 /\ Cardinality(Exposed(w)) \in Nat
      <3>1. ActedWithin(w) \in SUBSET Exposed(w)
        BY DEF Exposed
      <3> QED  BY <3>1, SetsFinite, FS_Subset, FS_CardinalityType
    <2>2. lost \in Nat /\ Overlap \in Nat /\ RunCap \in Nat /\ DayCap \in Nat
      BY <1>1, BreakerAssumption DEF BreakerInv, BreakerTypes, BreakerTypeOK
    <2> QED  BY <1>1, <2>1, <2>2 DEF BurstInv, Allowance, OvershootBounded
  <1>2. BreakerInv /\ BurstInv => OvershootBounded
    BY <1>1
  <1> QED  BY <1>2, InitBurst, StepBurst, BreakerInvariant, PTL DEF BreakerSpec
==============================================================================
