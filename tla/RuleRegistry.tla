---------------------------- MODULE RuleRegistry ----------------------------
(***************************************************************************)
(* W5, the durable rule table (learn/transitions.py, learn/registry.py and *)
(* workflow/registry_workflow.py) of one payee, with what reaches it: the  *)
(* confirmations and corrections W2 feeds, the autonomy offers it starts   *)
(* (workflow/offer_*.py), the owner's standing commands                    *)
(* (workflow/command_*.py, handle_command) and the gate that reads it      *)
(* (policy/gate.py).                                                       *)
(*                                                                         *)
(* Every rule matches the one payee; its action is the category it files   *)
(* under.  Rules are never removed: a rule's id is its place in the table. *)
(* A signal is folded when it is sent; one whose sender did not learn that *)
(* it had arrived is sent, and folded, once more (again).                  *)
(***************************************************************************)
EXTENDS Naturals, Sequences, FiniteSets

CONSTANTS Actions,  \* what a rule can file the payee under
          K,        \* consistent confirmations that earn "trusted"
          Bounds    \* how often each thing may happen (see Kinds)

(* confirm, correct: human decisions fed by W2.  auto: charges the gate    *)
(* lets through.  command, revoke: standing commands.  lost: completions   *)
(* of a signal's activity lost.  retry, fail: attempts to start an offer   *)
(* whose completion is lost, and terminal failures to start one.           *)
Kinds == {"confirm", "correct", "auto", "command", "revoke", "lost", "retry",
          "fail"}

ASSUME RegistryAssumption ==
    /\ Actions # {}
    /\ K \in Nat \ {0}
    /\ Bounds \in [Kinds -> Nat]

None == "none"

Trusts  == {"SUGGESTED", "CONFIRMED", "TRUSTED"}
Sources == {"LEARNED", "HUMAN_EXPLICIT"}
Rule    == [action: Actions, trust: Trusts, hits: Nat, source: Sources,
            offered: BOOLEAN]

VARIABLES
    rules,      \* the rule table
    driver,     \* idle, starting or marking
    offering,   \* the id of the rule whose offer is being started
    wanted,     \* the action that rule had when the driver read the table
    offers,     \* offer workflows: [id, action, open]; closed ids are kept
    commands,   \* standing commands waiting for their one-word confirm
    autos,      \* auto-applied charges the owner may still correct
    again,      \* signals that will be delivered once more
    left,       \* what remains of Bounds
    confirmed,  \* how often the owner has confirmed each action
    granted,    \* [id, action]: a yes given since the rule's last demotion
    reused,     \* ids: an older yes has blessed the rule since then
    asked       \* [id, action]: an offer emailed since its last demotion

table  == <<rules, granted, reused, asked>>
offer  == <<driver, offering, wanted, offers>>
others == <<commands, autos, confirmed>>
vars   == <<table, offer, others, again, left>>

Spend(kinds) ==
    /\ \A k \in kinds : left[k] > 0
    /\ left' = [k \in Kinds |-> IF k \in kinds THEN left[k] - 1 ELSE left[k]]

(***************************************************************************)
(* The pure folds.                                                         *)
(***************************************************************************)
(* Mutant of TrustForHits: trusted one confirmation early.                 *)
TrustEarly(hits)   == IF hits = 0 THEN "SUGGESTED"
                      ELSE IF hits + 1 >= K THEN "TRUSTED" ELSE "CONFIRMED"
TrustForHits(hits) == IF hits = 0 THEN "SUGGESTED"
                      ELSE IF hits >= K THEN "TRUSTED" ELSE "CONFIRMED"

Blessed(rs)  == {i \in DOMAIN rs : rs[i].source = "HUMAN_EXPLICIT"
                                     /\ rs[i].trust = "TRUSTED"}
Eligible(rs) == {i \in DOMAIN rs : rs[i].source = "LEARNED"
                                     /\ rs[i].trust = "TRUSTED"}
Pending(rs)  == {i \in Eligible(rs) : ~rs[i].offered}

(* The first of a non-empty set of ids.                                    *)
First(ids) == CHOOSE i \in ids : \A j \in ids : i <= j

Encoding(rs, a) == {i \in DOMAIN rs : rs[i].action = a}

NewRule(a, trust, hits, source) ==
    [action |-> a, trust |-> trust, hits |-> hits, source |-> source,
     offered |-> FALSE]

(* No human decision names a rule, so a confirmation looks for the first   *)
(* rule of the same action.                                                *)
Strengthen(r) ==
    [r EXCEPT !.hits  = @ + 1,
              !.trust = IF r.source = "HUMAN_EXPLICIT" THEN "TRUSTED"
                        ELSE TrustForHits(r.hits + 1)]

Confirm(rs, a) ==
    IF Encoding(rs, a) = {}
    THEN Append(rs, NewRule(a, TrustForHits(1), 1, "LEARNED"))
    ELSE LET i == First(Encoding(rs, a))
         IN  [rs EXCEPT ![i] = Strengthen(@)]

(* prior is the id of the rule that drove the overturned decision, or 0.   *)
Correct(rs, prior, a) ==
    IF prior \notin DOMAIN rs
    THEN Append(rs, NewRule(a, "SUGGESTED", 0, "LEARNED"))
    ELSE [rs EXCEPT ![prior] = NewRule(a, "SUGGESTED", 0, "LEARNED")]

Bless(rs, a) ==
    IF Encoding(rs, a) = {}
    THEN Append(rs, NewRule(a, "TRUSTED", 0, "HUMAN_EXPLICIT"))
    ELSE [rs EXCEPT ![First(Encoding(rs, a))] =
            [@ EXCEPT !.trust = "TRUSTED", !.source = "HUMAN_EXPLICIT"]]

(* Mutant of BlessById: a yes to an offer blesses whatever the rule is now.*)
BlessStale(rs, id) ==
    IF id \notin DOMAIN rs THEN rs
    ELSE [rs EXCEPT ![id] =
            [@ EXCEPT !.trust = "TRUSTED", !.source = "HUMAN_EXPLICIT"]]

BlessById(rs, id) ==
    IF id \notin Eligible(rs) THEN rs
    ELSE [rs EXCEPT ![id].source = "HUMAN_EXPLICIT"]

Revoke(rs) ==
    [i \in DOMAIN rs |->
        IF rs[i].source = "HUMAN_EXPLICIT"
        THEN [rs[i] EXCEPT !.source = "LEARNED", !.trust = "CONFIRMED"]
        ELSE rs[i]]

(* Mutant of MarkOffered: the mark is not kept.                            *)
MarkForgotten(rs, id) == rs
MarkOffered(rs, id) == [rs EXCEPT ![id].offered = TRUE]

(* The gate opens only for exactly one blessed rule.                       *)
GateRule(rs) == IF Cardinality(Blessed(rs)) = 1 THEN First(Blessed(rs)) ELSE 0

(***************************************************************************)
(* A signal and what it folds to.                                          *)
(***************************************************************************)
Signal == [k: {"confirm", "bless"}, action: Actions]
            \cup [k: {"correct"}, prior: Nat, action: Actions]
            \cup [k: {"blessExisting"}, id: Nat \ {0}]
            \cup [k: {"revoke"}]

Folded(s) == CASE s.k = "confirm"       -> Confirm(rules, s.action)
               [] s.k = "correct"       -> Correct(rules, s.prior, s.action)
               [] s.k = "bless"         -> Bless(rules, s.action)
               [] s.k = "blessExisting" -> BlessById(rules, s.id)
               [] s.k = "revoke"        -> Revoke(rules)

(* The rules a signal demotes: their grants and their offers are void.     *)
Demoted(s) == CASE s.k = "correct" -> {s.prior}
                [] s.k = "revoke"  -> {i \in DOMAIN rules :
                                         rules[i].source = "HUMAN_EXPLICIT"}
                [] OTHER           -> {}

(* The rules a yes blesses: an offer's, only one that has earned its trust. *)
YesTo(s) ==
    CASE s.k = "bless" ->
           {IF Encoding(rules, s.action) = {} THEN Len(rules) + 1
            ELSE First(Encoding(rules, s.action))}
      [] s.k = "blessExisting" -> {s.id} \cap Eligible(rules)
      [] OTHER -> {}

(* What a yes grants when it is given: a command's, the category it names; *)
(* an offer's, the rule as it is, if that is what the owner was asked about*)
(* and it has not been demoted since.                                      *)
Grants(s) ==
    CASE s.k = "bless" -> {[id |-> i, action |-> s.action] : i \in YesTo(s)}
      [] s.k = "blessExisting" ->
           {p \in asked : p.id = s.id /\ rules[p.id].action = p.action}
      [] OTHER -> {}

(* A signal is folded; fresh is what it grants, given for the first time.  *)
Fold(s, fresh) ==
    /\ rules'   = Folded(s)
    /\ asked'   = {p \in asked : p.id \notin Demoted(s)}
    /\ granted' = {p \in granted : p.id \notin Demoted(s)} \cup fresh
    /\ reused'  = (reused \ Demoted(s))
                     \cup (YesTo(s) \ {p.id : p \in fresh})

(* A signal reaches the registry; if the completion of the activity that   *)
(* sent it is lost, the activity sends it again.                           *)
Send(s, kinds) ==
    /\ Fold(s, Grants(s))
    /\ \/ Spend(kinds) /\ UNCHANGED again
       \/ Spend(kinds \cup {"lost"}) /\ again' = again \cup {s}

Init ==
    /\ rules = <<>> /\ granted = {} /\ reused = {} /\ asked = {}
    /\ driver = "idle" /\ offering = 0 /\ wanted = None /\ offers = {}
    /\ commands = {} /\ autos = {} /\ confirmed = [a \in Actions |-> 0]
    /\ again = {} /\ left = Bounds

(***************************************************************************)
(* What W2 feeds, and the gate.                                            *)
(***************************************************************************)
OwnerConfirms(a) ==
    /\ Send([k |-> "confirm", action |-> a], {"confirm"})
    /\ confirmed' = [confirmed EXCEPT ![a] = @ + 1]
    /\ UNCHANGED <<offer, commands, autos>>

(* A decision no rule drove is overturned.                                 *)
OwnerCorrects(a) ==
    /\ Send([k |-> "correct", prior |-> 0, action |-> a], {"correct"})
    /\ UNCHANGED <<offer, others>>

CorrectAuto(d, a) ==
    /\ a # d.action
    /\ Send([k |-> "correct", prior |-> d.rule, action |-> a], {"correct"})
    /\ autos' = autos \ {d}
    /\ UNCHANGED <<offer, commands, confirmed>>

AutoApply ==
    /\ GateRule(rules) # 0
    /\ Spend({"auto"})
    /\ autos' = autos \cup {[rule |-> GateRule(rules), n |-> left["auto"],
                             action |-> rules[GateRule(rules)].action]}
    /\ UNCHANGED <<table, offer, commands, confirmed, again>>

Redeliver ==
    /\ \E s \in again : Fold(s, {}) /\ again' = again \ {s}
    /\ UNCHANGED <<offer, others, left>>

(***************************************************************************)
(* The driver (run and _offer) and the offer workflows.                    *)
(***************************************************************************)
DecideOffer ==
    /\ driver = "idle" /\ Pending(rules) # {}
    /\ driver' = "starting"
    /\ offering' = First(Pending(rules))
    /\ wanted' = rules[First(Pending(rules))].action
    /\ UNCHANGED <<table, offers, others, again, left>>

(* start_autonomy_offer, REJECT_DUPLICATE: a run of that id, open or       *)
(* closed, makes it a no-op.  The offer workflow emails the owner, unless  *)
(* the mailbox still holds an older offer of the rule (ConsentThread).     *)
StartOffer ==
    /\ driver = "starting"
    /\ LET new == IF \E x \in offers : x.id = offering THEN {}
                  ELSE {[id |-> offering, action |-> wanted, open |-> TRUE]}
       IN  /\ offers' = offers \cup new
           /\ asked' = asked \cup {[id |-> o.id, action |-> o.action] :
                                      o \in new}
    /\ \/ driver' = "marking" /\ UNCHANGED left
       \/ UNCHANGED driver /\ Spend({"retry"})
    /\ UNCHANGED <<rules, granted, reused, offering, wanted, others, again>>

(* A terminal failure is alerted, and the rule is marked all the same.     *)
StartFails ==
    /\ driver = "starting" /\ Spend({"fail"})
    /\ driver' = "marking"
    /\ UNCHANGED <<table, offering, wanted, offers, others, again>>

Mark ==
    /\ driver = "marking"
    /\ rules' = MarkOffered(rules, offering)
    /\ driver' = "idle" /\ offering' = 0 /\ wanted' = None
    /\ UNCHANGED <<granted, reused, asked, offers, others, again, left>>

Closed(o) == (offers \ {o}) \cup {[o EXCEPT !.open = FALSE]}

AcceptOffer(o) ==
    /\ o.open
    /\ Send([k |-> "blessExisting", id |-> o.id], {})
    /\ offers' = Closed(o)
    /\ UNCHANGED <<driver, offering, wanted, others>>

(* Declined, or the patience window passed, or the offer run failed.       *)
EndOffer(o) ==
    /\ o.open
    /\ offers' = Closed(o)
    /\ UNCHANGED <<table, driver, offering, wanted, others, again, left>>

(* A closed run leaves the namespace once its retention is over; that is   *)
(* days, which the retries of its start never last.                        *)
ForgetOffer(o) ==
    /\ ~o.open
    /\ ~(driver = "starting" /\ offering = o.id)
    /\ offers' = offers \ {o}
    /\ UNCHANGED <<table, driver, offering, wanted, others, again, left>>

(***************************************************************************)
(* Standing commands.                                                      *)
(***************************************************************************)
Command(a) ==
    /\ a \notin commands   \* a resend while one is pending is a no-op
    /\ Spend({"command"})
    /\ commands' = commands \cup {a}
    /\ UNCHANGED <<table, offer, autos, confirmed, again>>

AcceptCommand(a) ==
    /\ a \in commands
    /\ Send([k |-> "bless", action |-> a], {})
    /\ commands' = commands \ {a}
    /\ UNCHANGED <<offer, autos, confirmed>>

EndCommand(a) ==
    /\ a \in commands
    /\ commands' = commands \ {a}
    /\ UNCHANGED <<table, offer, autos, confirmed, again, left>>

(* "stop": nothing is sent when no rule is blessed.                        *)
RevokeCommand ==
    /\ \E i \in DOMAIN rules : rules[i].source = "HUMAN_EXPLICIT"
    /\ Send([k |-> "revoke"], {"revoke"})
    /\ UNCHANGED <<offer, others>>

Next ==
    \/ \E a \in Actions :
         \/ OwnerConfirms(a) \/ OwnerCorrects(a)
         \/ Command(a) \/ AcceptCommand(a) \/ EndCommand(a)
         \/ \E d \in autos : CorrectAuto(d, a)
    \/ \E o \in offers : AcceptOffer(o) \/ EndOffer(o) \/ ForgetOffer(o)
    \/ AutoApply \/ Redeliver \/ RevokeCommand
    \/ DecideOffer \/ StartOffer \/ StartFails \/ Mark

Spec == Init /\ [][Next]_vars

(***************************************************************************)
(* Properties.                                                             *)
(***************************************************************************)
Pair == [id: Nat \ {0}, action: Actions]

TypeOK ==
    /\ rules \in Seq(Rule)
    /\ driver \in {"idle", "starting", "marking"}
    /\ offering \in Nat /\ wanted \in Actions \cup {None}
    /\ offers \subseteq [id: Nat \ {0}, action: Actions, open: BOOLEAN]
    /\ commands \subseteq Actions
    /\ autos \subseteq [rule: Nat \ {0}, n: Nat, action: Actions]
    /\ again \subseteq Signal
    /\ left \in [Kinds -> Nat]
    /\ confirmed \in [Actions -> Nat]
    /\ granted \subseteq Pair /\ asked \subseteq Pair
    /\ reused \subseteq Nat \ {0}

Redelivered == Bounds["lost"] - left["lost"]

(* Autonomy is granted, never taken (learn/registry.py:19-21,              *)
(* policy/gate.py:98-99): a rule is blessed only on a yes that the owner   *)
(* gave about it, for the category it files under, since it was last       *)
(* corrected or revoked.  Excused is the very rule that an older yes has   *)
(* blessed since: one delivered once more, or given to an offer that was   *)
(* made before the rule was demoted.  Even so an offer's yes must have     *)
(* found the rule trusted anew ("a stale acceptance can never resurrect    *)
(* it", registry_workflow.py:147).                                         *)
GrantedNotTaken ==
    \A i \in Blessed(rules) :
        \/ [id |-> i, action |-> rules[i].action] \in granted
        \/ i \in reused

(* Eligibility is earned: K decisions of the owner stand behind it, or one *)
(* less for each of them that was delivered twice.                         *)
EarnedByConfirms ==
    \A i \in Eligible(rules) :
        confirmed[rules[i].action] + Redelivered >= K

(* With nothing excused (learn/transitions.py:9).                          *)
ConsentNotReused ==
    \A i \in Blessed(rules) : \E p \in granted : p.id = i
HitsAreConfirms ==
    \A i \in Eligible(rules) : confirmed[rules[i].action] >= K

(* The owner is asked about a rule once, until it is demoted, although     *)
(* starting an offer may be retried and closed runs are forgotten.         *)
AskedOnce ==
    [][\A o \in offers' \ offers :
         o.open => [id |-> o.id, action |-> o.action] \notin asked]_vars

(* -- Statements of the documentation the code does not keep -------------- *)

(* "offered_at is cleared so a re-earned eligibility re-offers"            *)
(* (learn/transitions.py:215-216); "and a fresh opt-in offer"              *)
(* (learn/registry.py:217-218).                                            *)
OfferedMeansAsked ==
    \A i \in Eligible(rules) :
        rules[i].offered /\ driver = "idle" =>
            [id |-> i, action |-> rules[i].action] \in asked

(* "grants autonomy to exactly the offered rule", "a stale acceptance can  *)
(* never resurrect it" (registry_workflow.py:145-147): the category the    *)
(* owner said yes to.                                                      *)
ConsentNamesAction ==
    \A i \in Blessed(rules) :
        [id |-> i, action |-> rules[i].action] \in granted

(* "a correction of any auto-action demotes the rule and drops the payee   *)
(* back to Observe" (SPEC.md:777-778).                                     *)
CorrectionDropsToObserve ==
    [][\A a \in Actions : \A d \in autos :
         CorrectAuto(d, a) => GateRule(rules') = 0]_vars

(* "I'll auto-handle {payee} as {category} from now on" (compose.py:123),  *)
(* the answer to a confirmed standing command.                             *)
CommandTakesEffect ==
    [][\A a \in Actions :
         AcceptCommand(a) => /\ GateRule(rules') # 0
                             /\ rules'[GateRule(rules')].action = a]_vars
=============================================================================
