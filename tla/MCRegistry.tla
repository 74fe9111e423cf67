----------------------------- MODULE MCRegistry -----------------------------
(* Instances of the rule registry for TLC.                                 *)
EXTENDS RuleRegistry, TLC

ActionSymmetry == Permutations(Actions)

(* One signal is delivered twice; an offer start is retried, one fails.    *)
Mixed    == [confirm |-> 3, correct |-> 1, auto |-> 1, command |-> 1,
             revoke |-> 1, lost |-> 1, retry |-> 1, fail |-> 1]

(* One payee whose rule is revoked and earns its way back.                 *)
Revoked  == [confirm |-> 4, correct |-> 0, auto |-> 0, command |-> 0,
             revoke |-> 1, lost |-> 0, retry |-> 0, fail |-> 0]

(* A rule blessed by a command is corrected and earns its way back.        *)
Stale    == [confirm |-> 4, correct |-> 1, auto |-> 1, command |-> 1,
             revoke |-> 0, lost |-> 0, retry |-> 0, fail |-> 0]
=============================================================================
