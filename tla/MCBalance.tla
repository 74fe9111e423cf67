------------------------------ MODULE MCBalance -------------------------------
(* Bounds of the runs of Balance.                                             *)
EXTENDS Balance

CatsOrder == <<"a", "b">>

(* Two replies, one of everything else.                                       *)
OneEach == [k \in Kinds |-> IF k = "reply" THEN 2 ELSE 1]
(* A reply to a budget that stands still.                                     *)
OneReply == [k \in Kinds |-> IF k = "reply" THEN 1 ELSE 0]
==============================================================================
