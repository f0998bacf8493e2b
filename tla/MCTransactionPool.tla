-------------------------- MODULE MCTransactionPool --------------------------
(***************************************************************************)
(* Instances of TransactionPool for TLC: the transfer r1 has two messages, *)
(* the transfer r2 has one.                                                *)
(***************************************************************************)
EXTENDS TransactionPool

CONSTANTS r1, r2      \* model values

TwoAndOne == [r \in Request |-> IF r = r1 THEN 2 ELSE 1]
=============================================================================
