--------------------------- MODULE MCTransactions ---------------------------
(* Instances of Transactions for TLC.                                      *)
EXTENDS TransactionsRefinement, TLC

W(o, d, p, s) == [op |-> o, doc |-> d, pre |-> p, stamp |-> s]

\* Opposite lock orders, preconditions, increments with and without a row,
\* and two deletes of one document, of which neither, the second or both may
\* find it.
BatchesMixed ==
  {<<W("delete", 1, "none", 0), W("delete", 1, "none", 0), W("updateInc", 2, "exists", 0)>>,
   <<W("update", 1, "time", 1), W("transform", 2, "none", 0)>>}

\* Contention on one document.
BatchesSingle ==
  {<<W("update", 1, "none", 0)>>, <<W("delete", 1, "exists", 0)>>,
   <<W("transform", 1, "none", 0)>>, <<W("update", 1, "absent", 0)>>,
   <<W("update", 1, "time", 1)>>}

\* Calls are interchangeable: nothing names one and none is CHOOSEn.
CallSymmetry == Permutations(Calls)
=============================================================================
