------------------------------ MODULE OccStore ------------------------------
(***************************************************************************)
(* What BackendAdapter promises of Commit (embyr-core/src/storage/         *)
(* backend_adapter.rs): a document store in which a commit is one step.    *)
(* At that step the documents read as present are unchanged and the        *)
(* MustExist and UpdateTime preconditions hold; then all of its writes     *)
(* take effect, in order, or none does.  There are no locks, statements or *)
(* SQL transactions here; Transactions has them and implements this.       *)
(***************************************************************************)
EXTENDS Integers, FiniteSets, Sequences

CONSTANTS
  Docs, Calls,
  Requests      \* the write lists a Commit may carry, <<>> included

VARIABLES
  rows,     \* [version, live] of every document; version 0: never written
  outcome,  \* per Commit call: "idle", "pending", or how it returned
  writes,   \* per pending call: its writes
  seen      \* per pending call: the versions its transaction has read

vars == <<rows, outcome, writes, seen>>

Committed == {"ok", "ackLost"}
Failed == {"aborted", "notFound", "unavailable", "invalid"}

Init ==
  /\ rows \in [Docs -> {[version |-> 0, live |-> FALSE], [version |-> 1, live |-> TRUE]}]
  /\ outcome = [c \in Calls |-> "idle"]
  /\ writes = [c \in Calls |-> <<>>]
  /\ \A c \in Calls, d \in Docs : seen[c][d] < 0

Others(c) ==
  \A x \in Calls \ {c} : writes'[x] = writes[x] /\ seen'[x] = seen[x]

\* A Commit call arrives with its writes and the reads of its transaction.
Submit(c) ==
  /\ outcome[c] = "idle"
  /\ outcome' = [outcome EXCEPT ![c] = "pending"]
  /\ writes'[c] \in Requests
  /\ Others(c)
  /\ UNCHANGED rows

\* A call fails, before or after it was pending, and leaves no trace.
Fail(c) ==
  /\ outcome[c] \in {"idle", "pending"}
  /\ \E r \in Failed : outcome' = [outcome EXCEPT ![c] = r]
  /\ Others(c)
  /\ UNCHANGED rows

\* The indices of the writes of b that change d, if the row of d is there for
\* those from `from` on: before, a delete changes nothing, and any other write
\* makes the row.
Effective(b, d, from) ==
  {i \in DOMAIN b :
     /\ b[i].doc = d
     /\ i >= from \/ \E j \in 1..i : b[j].doc = d /\ b[j].op # "delete"}

LastOf(S) == CHOOSE i \in S : \A j \in S : j <= i

Changed(b, d, S) ==
  IF S = {} THEN rows[d]
  ELSE [version |-> rows[d].version + Cardinality(S),
        live |-> b[LastOf(S)].op # "delete"]

\* What d may be once b has taken effect.  Absence is not locked: deletes may
\* have found nothing although somebody has created d by now, even between two
\* deletes of the same document.
After(b, d) ==
  {Changed(b, d, Effective(b, d, from)) :
     from \in IF rows[d].version = 0 THEN {Len(b) + 1} ELSE 1..(Len(b) + 1)}

Unchanged(c, d) == seen[c][d] > 0 => rows[d].live /\ rows[d].version = seen[c][d]

Holds(w) ==
  w.op # "transform" =>
    /\ w.pre = "exists" => rows[w.doc].live
    /\ w.pre = "time" => rows[w.doc].live /\ rows[w.doc].version = w.stamp

Commit(c) ==
  /\ outcome[c] = "pending"
  /\ \A d \in Docs : Unchanged(c, d)
  /\ \A i \in DOMAIN writes[c] : Holds(writes[c][i])
  /\ DOMAIN rows' = Docs
  /\ \A d \in Docs : rows'[d] \in After(writes[c], d)
  /\ \E r \in Committed : outcome' = [outcome EXCEPT ![c] = r]
  /\ Others(c)

\* A standalone create, update or delete.
Write(d) ==
  /\ \E l \in BOOLEAN :
       rows' = [rows EXCEPT ![d] = [version |-> @.version + 1, live |-> l]]
  /\ UNCHANGED <<outcome, writes, seen>>

Next ==
  \/ \E c \in Calls : Submit(c) \/ Fail(c) \/ Commit(c)
  \/ \E d \in Docs : Write(d)

Spec == Init /\ [][Next]_vars
=============================================================================
