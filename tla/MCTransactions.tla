---- MODULE MCTransactions ----
(* Small instances of Transactions for TLC. *)
EXTENDS Transactions, TLC
CONSTANTS k1, k2, v1, v2
ValsSymmetry == Permutations(Vals)
====
