----------------------------- MODULE AlertRules ------------------------------
(***************************************************************************)
(* The rules of alert/ledger.py: whether an alert may go out, and what is  *)
(* remembered of one that did.  Time is counted in hours, and what is      *)
(* remembered is a set of keys with the hours since, where nth counts      *)
(* those that are otherwise the same.                                      *)
(***************************************************************************)
EXTENDS Integers, FiniteSets

CONSTANTS Cooldown,   \* how long a key stays quiet
          Window,     \* the rolling window of the rate cap
          Cap         \* alerts per window

ASSUME AlertAssumption ==
    /\ Cooldown \in Nat \ {0} /\ Window \in Nat \ {0} /\ Cap \in Nat \ {0}
    /\ Window <= Cooldown

Alike(state, key, age) == {e \in state : e.key = key /\ e.age = age}
Entry(state, key) ==
    [key |-> key, age |-> 0, nth |-> Cardinality(Alike(state, key, 0))]
Quiet(state, key) == \A e \in state : e.key = key => e.age >= Cooldown
Recent(state)     == {e \in state : e.age < Window}

(* Mutant of ShouldNotify: the cap counts all that is remembered.          *)
NotifyUnderAll(state, key) ==
    Quiet(state, key) /\ Cardinality(state) < Cap
ShouldNotify(state, key) ==
    Quiet(state, key) /\ Cardinality(Recent(state)) < Cap

With(state, key)       == state \cup {Entry(state, key)}
Kept(state, retention) == {e \in state : e.age < retention}
Record(state, key)     == With(Kept(state, Cooldown), key)

(* An hour passes; what is older than any rule looks back is all one age.  *)
Older(state) ==
    {IF e.age + 1 < Cooldown THEN [e EXCEPT !.age = @ + 1]
     ELSE [e EXCEPT !.age = Cooldown,
                    !.nth = IF e.age = Cooldown THEN @ ELSE
                        @ + Cardinality(Alike(state, e.key, Cooldown))] :
        e \in state}
==============================================================================
