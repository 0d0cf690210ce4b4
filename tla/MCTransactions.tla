--------------------------- MODULE MCTransactions ---------------------------
(* Small instances of Transactions. *)
EXTENDS Transactions, TLC

Symmetry == Permutations(Subtrees) \cup Permutations(Keys) \cup Permutations(Writers)

=============================================================================
