------------------------------- MODULE MCTxn -------------------------------
(* Instances of the per-transaction workflow for TLC.                      *)
EXTENDS TxnProperties, TLC

Upto(bounds) == bounds @@ [k \in Kinds |-> IF k = "run" THEN 1 ELSE 0]

(* -- The environments of the passing runs -------------------------------- *)
Faults  == Upto([reply |-> 1, receipt |-> 1, edit |-> 1, delete |-> 1,
                 lost |-> 1, fault |-> 1, run |-> 2])
Signals == Upto([reply |-> 1, receipt |-> 2, delete |-> 1, reask |-> 1])

(* -- The environments in which a statement of TxnProperties fails -------- *)

OneReceipt == Upto([receipt |-> 1])
OneReply   == Upto([reply |-> 1])
TwoReplies == Upto([reply |-> 2])
OneEdit    == Upto([edit |-> 1])
ReplyEdit  == Upto([reply |-> 1, edit |-> 1])
LateReply  == Upto([reply |-> 1, edit |-> 1, run |-> 2])
Restart    == Upto([reply |-> 1, fault |-> 1, run |-> 2])
Reask      == Upto([reply |-> 1, reask |-> 1])
=============================================================================
