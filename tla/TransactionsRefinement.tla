----------------------- MODULE TransactionsRefinement -----------------------
(* The statements of commit_transaction, with their row locks, implement a *)
(* store whose Commit is one validated, atomic step.                       *)
EXTENDS Transactions

Occ == INSTANCE OccStore WITH
         Requests <- Batches \cup {<<>>},
         rows <- [d \in Docs |-> [version |-> doc[d].version, live |-> doc[d].live]],
         outcome <- [c \in Calls |-> IF phase[c] \in {"expire", "open"}
                                     THEN "pending" ELSE phase[c]],
         writes <- batch,
         seen <- rset

\* commit_transaction and the standalone writes, however their statements
\* interleave, fail or wait, show nothing but the steps of OccStore: a commit
\* takes effect whole, at one moment at which its present reads and its
\* MustExist and UpdateTime preconditions hold, and a failed one not at all.
ImplementsOccStore == Occ!Spec
=============================================================================
