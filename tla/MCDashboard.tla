----------------------------- MODULE MCDashboard -----------------------------
(* Bounds of the run of Dashboard.                                            *)
EXTENDS Dashboard

CONSTANTS Other, Offered  \* a transaction and an offer for the queue alone

Once(kinds) == [k \in Kinds |-> IF k \in kinds THEN 1 ELSE 0]
Within(kinds) == \A k \in Kinds \ kinds : Used(k) = 0
Each == Once(Kinds)

(* Two views in one run: a loop that ticks and stops with little to show,  *)
(* and a full queue under a loop that does not move.                       *)
TheLoop == /\ state[Other] = "open" /\ Other \notin approved
           /\ Offered \notin offers
           /\ Within({"unread", "unresolved", "stop"})
TheQueue == /\ Len(runs) = 1 /\ dispatched = {}
            /\ Within({"unread", "unanswered", "unresolved"})

Scoped == TheLoop \/ TheQueue

ScopedSpec == Init /\ [][Next /\ Scoped']_vars

(* Environments in which a statement of Dashboard fails.                   *)
Silent  == Once({"unanswered"})
Unread  == Once({"unread"})
Nothing == Once({})
==============================================================================
