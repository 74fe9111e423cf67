------------------------------ MODULE MCConsent -------------------------------
(* Bounds of the runs of ConsentThread.                                       *)
EXTENDS ConsentThread

Long == [ask |-> 2, reply |-> 2, again |-> 2, lost |-> 1, fail |-> 1]
Two == [k \in MishapKinds |-> IF k = "ask" THEN 2 ELSE 0]
Tried == [ask |-> 1, reply |-> 1, again |-> 0, lost |-> 1, fail |-> 0]
Late == [ask |-> 2, reply |-> 1, again |-> 1, lost |-> 0, fail |-> 0]
Fast == [ask |-> 1, reply |-> 2, again |-> 0, lost |-> 0, fail |-> 0]
==============================================================================
