------------------------------ MODULE MCMonitor -------------------------------
(* Bounds of the run of OverspendMonitor.                                     *)
EXTENDS OverspendMonitor

OneCat  == <<"a">>
TwoCats == <<"a", "b">>
Even    == [c \in Categories |-> 4]
Rent    == {[category |-> "a", amount |-> -4, due |-> 2]}

Bound(change, months, lost, outage, fault) ==
    [change |-> change, month |-> months, lost |-> lost, outage |-> outage,
     fault |-> fault]

(* Two environments in one run: within a month things fail, or nothing     *)
(* fails across two months in which the owner leaves one category alone.   *)
Failing == Bound(2, 0, 1, 1, 1)
Healthy == Bound(2, 1, 1, 0, 0)
Either  == Bound(2, 1, 1, 1, 1)

Within(b) == \A k \in Kinds : Bounds[k] - left[k] <= b[k]

Scoped == \/ Within(Failing)
          \/ /\ Within(Healthy)
             /\ figures["b"].activity = 0 /\ figures["b"].budgeted = Even["b"]

ScopedSpec == Init /\ [][Next /\ Scoped']_vars /\ Fairness

(* Environments in which a statement of OverspendMonitor fails.            *)
Flapping   == Bound(5, 0, 0, 0, 0)
Unanswered == Bound(2, 0, 0, 1, 0)
===============================================================================
