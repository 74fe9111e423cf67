----------------------------- MODULE MCBreaker -----------------------------
(* Instances of the circuit breaker for TLC.                               *)
EXTENDS AutoBreaker, TLC

TxnSymmetry == Permutations(Txns)
=============================================================================
