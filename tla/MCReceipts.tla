------------------------------ MODULE MCReceipts ------------------------------
(* The instance of ReceiptJoin that TLC checks: two environments in one run.  *)
EXTENDS ReceiptJoin, TLC

Three == {1, 2, 3}
Two   == {1, 2}

(* Receipts arrive in the order of their numbers, each once the one before *)
(* is routed, and charges are posted in the order of theirs.               *)
InOrder ==
    /\ \A r, q \in Receipts : q < r /\ route[r] # "unsent" => route[q] = "done"
    /\ \A t, u \in Txns : u < t /\ t \in posted => u \in posted

(* More receipts than the ledger holds, a charge that belongs to the second*)
(* one, and no mishap.                                                     *)
Crowded ==
    /\ mishaps = {} /\ posted \subseteq {1}
    /\ \A r \in Receipts \ {2} : delivered[r] = {}

(* One receipt, two charges and every mishap.                              *)
Alone == \A r \in Receipts \ {1} : route[r] = "unsent"

Scoped == InOrder /\ (Crowded \/ Alone)

ScopedSpec == Init /\ [][Next /\ Scoped']_vars /\ Fairness
==============================================================================
