------------------------------ MODULE Converge ------------------------------
(***************************************************************************)
(* The pure convergence policy of a transaction (policy/converge.py) and   *)
(* the data it compares: what YNAB holds, what a decision asks for, and    *)
(* the verdict of comparing the two.                                       *)
(*                                                                         *)
(* An amount, a payee and a date never change in a transaction's life, so  *)
(* they are left out.  A whole-category allocation is its category; every  *)
(* split is the one value Split (its lines always sum to the total).       *)
(* A memo is the set of the fragments it is made of: {} is the absent (or, *)
(* in a decision, the "leave it alone") memo, "append, never clobber" is   *)
(* set union and "clobber" is replacement.                                 *)
(***************************************************************************)
EXTENDS Naturals

CONSTANTS Categories,   \* the budget's categories
          MemoParts     \* the fragments a memo can contain

Split   == "split"
NoAlloc == "none"
Missing == "missing"

ASSUME CategoriesAssumption ==
    Categories # {} /\ {Split, NoAlloc, Missing} \cap Categories = {}

Allocs == Categories \cup {Split}
Memos  == SUBSET MemoParts

(* What YNAB holds for the transaction; a YnabSnapshot is a copy of it.    *)
(* alloc = NoAlloc is the uncategorised transaction.                       *)
Snapshot == [alloc: Allocs \cup {NoAlloc}, memo: Memos,
             approved: BOOLEAN, reconciled: BOOLEAN]
NoSnap   == [alloc |-> Missing, memo |-> {},
             approved |-> FALSE, reconciled |-> FALSE]

(* The `categorized` property: a split parent has no category_id.          *)
Categorized(s) == s.alloc \in Categories

(* A Decision.  by = "RULE" is the agent's decision that carries a rule_id,*)
(* "AGENT" an agent decision with none (the receipt fold).                 *)
Authors    == {"RULE", "AGENT", "HUMAN"}
Decision   == [alloc: Allocs, memo: Memos, approved: BOOLEAN, by: Authors]
NoDecision == [alloc |-> NoAlloc, memo |-> {}, approved |-> FALSE,
               by |-> "HUMAN"]

(* An end state to reach or to compare; NoTarget is a read that found none.*)
TargetState == [alloc: Allocs, memo: Memos, approved: BOOLEAN]
NoTarget    == [alloc |-> NoAlloc, memo |-> {}, approved |-> FALSE]

TargetOf(d) == [alloc |-> d.alloc, memo |-> d.memo, approved |-> d.approved]

(* The read-back: nothing to confirm for an uncategorised transaction.     *)
ToTarget(s) == IF s.alloc \in Allocs THEN TargetOf(s) ELSE NoTarget

(* Mutant of Patched: a write always approves.                             *)
AlwaysApproves(s, d) ==
    [s EXCEPT !.alloc = d.alloc, !.approved = TRUE,
              !.memo  = IF d.memo = {} THEN @ ELSE d.memo]

(* A PATCH: an absent memo is not sent, so it leaves YNAB's memo alone.    *)
Patched(s, d) ==
    [s EXCEPT !.alloc = d.alloc, !.approved = d.approved,
              !.memo  = IF d.memo = {} THEN @ ELSE d.memo]

NeedsWrite(current, target) == current # target

(* Mutants of ClassifyVerify: the category is not compared; an absent memo *)
(* is.                                                                     *)
VerifyApprovalOnly(read, target) ==
    IF read = NoTarget THEN "COULD_NOT_CONFIRM"
    ELSE IF read.approved = target.approved THEN "MATCH" ELSE "DIVERGED"

VerifyAbsentMemo(read, target) ==
    IF read = NoTarget THEN "COULD_NOT_CONFIRM"
    ELSE IF read = target THEN "MATCH" ELSE "DIVERGED"

(* A target with no memo has no memo intent: the memo is not compared.     *)
ClassifyVerify(read, target) ==
    IF read = NoTarget THEN "COULD_NOT_CONFIRM"
    ELSE IF [read EXCEPT !.memo = IF target.memo = {} THEN {} ELSE @] = target
         THEN "MATCH"
         ELSE "DIVERGED"

(* month_closed is a field no reader of YNAB ever sets, so only the        *)
(* reconciled half of the guard can be true.                               *)
ReconciliationBlocks(s) == s.reconciled

PrecommitActions == {"WRITE", "NO_CHANGE", "ALREADY_TARGET", "DIVERGED"}

(* prior = NoTarget when the agent never applied a decision.               *)
PrecommitAction(current, target, prior) ==
    IF ~NeedsWrite(current, target)
    THEN IF current # NoTarget /\ prior # NoTarget /\ current = prior
         THEN "NO_CHANGE" ELSE "ALREADY_TARGET"
    ELSE IF current # NoTarget /\ prior # NoTarget
                /\ current.alloc # prior.alloc
         THEN "DIVERGED" ELSE "WRITE"
=============================================================================
