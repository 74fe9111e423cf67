------------------------------ MODULE MCAlerts -------------------------------
(* Bounds of the run of AlertLedger.                                          *)
EXTENDS AlertLedger

Bound(breaks, more, outage, refused, dropped, lost, crowd) ==
    [breaks |-> breaks, more |-> more, outage |-> outage,
     refused |-> refused, dropped |-> dropped, lost |-> lost,
     crowd |-> crowd]

(* Four environments in one run: the ledger is not reached; an attempt     *)
(* dies; a push is refused and a record lost while things break and mend; a*)
(* sender writes more than once while the slots are full.                  *)
Unasked == Bound(0, 0, 1, 0, 0, 0, 0)
Dying   == Bound(0, 0, 0, 0, 0, 1, 0)
Losing  == Bound(1, 0, 0, 1, 1, 0, 0)
Crowded == Bound(0, 1, 0, 0, 0, 0, 1)
Either  == Bound(1, 1, 1, 1, 1, 1, 1)

Within(b) == \A k \in Kinds : Used(k) <= b[k]
OneEach   == \A s, t \in Slots : s # t /\ Idle \notin {act[s], act[t]}
                                   => act[s].key # act[t].key

Scoped == \/ (\E b \in {Unasked, Dying, Losing} : Within(b)) /\ OneEach
          \/ Within(Crowded)

ScopedSpec == Init /\ [][Next /\ Scoped']_vars /\ Fairness

(* Without any failure, RateCapHolds does not hold.                        *)
Healthy == Bound(0, 0, 0, 0, 0, 0, 0)
==============================================================================
