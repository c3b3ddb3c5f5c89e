--------------------------- MODULE MCTransactions ---------------------------
(* Small instances of Transactions for TLC. *)
EXTENDS Transactions, TLC

Symmetry ==
    UNION {Permutations(S) : S \in {Proc, QuerySet, Compiler, Tx, Row}}
=============================================================================
