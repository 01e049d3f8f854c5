---------------------------- MODULE Transactions ----------------------------
(***************************************************************************)
(* Optimistic transactions of a project's customer database: the           *)
(* `documents` and `transactions` tables and the calls of                  *)
(* PostgresBackendAdapter that touch them.                                 *)
(*                                                                         *)
(* commit_transaction is a straight-line list of SQL statements inside one *)
(* READ COMMITTED transaction.  The model keeps, for every call, the set   *)
(* `todo` of the statements it still has to run and runs them in the       *)
(* order of the code; statements of different calls interleave, and row    *)
(* locks are the only thing that orders them.                              *)
(*                                                                         *)
(* A row is [version, live, val]: version 0 means that there is no row,    *)
(* live is NOT deleted, val is the one integer field that transforms work  *)
(* on.  The update_time of a row is represented by its version: every      *)
(* write of the row changes both.                                          *)
(***************************************************************************)
EXTENDS Integers, FiniteSets, Sequences

CONSTANTS
  NumDocs,      \* documents are 1..NumDocs, numbered in the order of their keys
  Txns,         \* transaction ids
  Calls,        \* Commit calls; each is made once
  Nobody,       \* holder of a free row lock
  MaxBatch,     \* longest write list of a Commit
  Batches,      \* the write lists that Commits carry
  ReadDocs,     \* the documents that transactional reads touch
  WriteDocs,    \* the documents that standalone writes touch
  Ending,       \* the transactions that may be rolled back or grow old
  MaxVersion,   \* standalone writes stop at this version (a bound of the model)
  MaxInt        \* stands for i64::MAX

Docs == 1..NumDocs

Row == [version : Nat, live : BOOLEAN, val : 0..MaxInt]

NoRow == [version |-> 0, live |-> FALSE, val |-> 0]

(* Write::Update without and with update_transforms, Write::Delete and     *)
(* Write::Transform, with their precondition; stamp is the update_time of  *)
(* an UpdateTime precondition.                                             *)
Write == [op : {"update", "updateInc", "delete", "transform"}, doc : Docs,
          pre : {"none", "exists", "absent", "time"}, stamp : Nat]

ASSUME DocsAssumption ==
  NumDocs \in Nat /\ ReadDocs \subseteq Docs /\ WriteDocs \subseteq Docs
ASSUME EndingAssumption == Ending \subseteq Txns
ASSUME TxnsAssumption == Txns # {}
ASSUME NobodyAssumption == Nobody \notin Calls
ASSUME MaxBatchAssumption == MaxBatch \in Nat
ASSUME MaxIntAssumption == MaxInt \in Nat \ {0}
WriteLists == {b \in Seq(Write) : Len(b) \in 0..MaxBatch}

ASSUME BatchesAssumption == \A b \in Batches : b \in WriteLists

VARIABLES
  doc,     \* the committed documents table
  status,  \* the transactions table: the status column,
  aged,    \* whether started_at is more than 60 seconds ago,
  reads,   \* and the reads column
  reading, \* per transaction: a transactional read between its two statements
  phase,   \* per call: where it is, or how it ended
  stx,     \* per call: its transaction id
  batch,   \* per call: its writes
  rset,    \* per call: the read set it loaded
  todo,    \* per call: the statements it has still to run
  base,    \* per call: locked_fields, by index of the write
  buf,     \* per call: the rows its SQL transaction has written
  dirty,   \* per call: the documents whose row is in buf
  lock     \* row locks of the documents table

txnVars == <<status, aged, reads, reading>>

vars == <<doc, status, aged, reads, reading, phase, stx, batch, rset,
          todo, base, buf, dirty, lock>>

callVars == <<phase, stx, batch, rset, todo, base, buf, dirty, lock>>

Indices == 1..MaxBatch

\* Values of the `reads` map: the version, Absent for JSON null, NotRead when
\* the map has no such key.
Absent == 0
NotRead == -1

\* locked_fields holds no persisted value (no live row was found).
NoFields == -1

Status == {"none", "active", "committed", "expired", "rolled_back", "purged"}

Returned == {"ok", "ackLost", "aborted", "notFound", "unavailable", "invalid"}

Phases == {"idle", "expire", "open"} \cup Returned

NoReads == [d \in Docs |-> NotRead]

NoReading == <<0, Absent>>

-----------------------------------------------------------------------------
(* The statements of commit_transaction.  A statement is a pair of its     *)
(* position in the function and its write index, or the document whose     *)
(* read it verifies.                                                       *)

TimeStmt   == 1   \* UpdateTime preconditions
ExistsStmt == 2   \* MustExist and MustNotExist preconditions
ReadStmt   == 3   \* verify_reads
FieldsStmt == 4   \* lock and read `fields` for writes with transforms
ApplyStmt  == 5   \* the upsert or the soft delete

HasTransforms(w) == w.op \in {"updateInc", "transform"}

\* Write::Transform has no precondition field: the translation drops it.
PreOf(w) == IF w.op = "transform" THEN "none" ELSE w.pre

\* Mutant of Program: the version of a read document is not verified when the
\* commit also writes it.
ProgramWrittenUnverified(b, r) ==
  {<<TimeStmt, i>> : i \in {j \in DOMAIN b : PreOf(b[j]) = "time"}}
    \cup {<<ExistsStmt, i>> :
            i \in {j \in DOMAIN b : PreOf(b[j]) \in {"exists", "absent"}}}
    \cup {<<ReadStmt, d>> : d \in {e \in Docs : /\ r[e] # NotRead
                                              /\ \A i \in DOMAIN b : b[i].doc # e}}
    \cup {<<FieldsStmt, i>> : i \in {j \in DOMAIN b : HasTransforms(b[j])}}
    \cup {<<ApplyStmt, i>> : i \in DOMAIN b}

\* The statements a commit of writes b with read set r runs.  verify_versions
\* runs none: every caller leaves Write.version at None.
Program(b, r) ==
  {<<TimeStmt, i>> : i \in {j \in DOMAIN b : PreOf(b[j]) = "time"}}
    \cup {<<ExistsStmt, i>> :
            i \in {j \in DOMAIN b : PreOf(b[j]) \in {"exists", "absent"}}}
    \cup {<<ReadStmt, d>> : d \in {e \in Docs : r[e] # NotRead}}
    \cup {<<FieldsStmt, i>> : i \in {j \in DOMAIN b : HasTransforms(b[j])}}
    \cup {<<ApplyStmt, i>> : i \in DOMAIN b}

\* Statement <<k, i>> is the one that call c runs next.
IsNext(c, k, i) ==
  /\ phase[c] = "open"
  /\ <<k, i>> \in todo[c]
  /\ \A q \in todo[c] : k < q[1] \/ (k = q[1] /\ i <= q[2])

\* What c's own SQL transaction sees of document d.
View(c, d) == IF d \in dirty[c] THEN buf[c][d] ELSE doc[d]

\* No other SQL transaction holds the row of d.
Available(c, d) == lock[d] \in {c, Nobody}

\* SELECT ... AND NOT deleted FOR UPDATE waits for, and locks, a live row
\* only: an absent or soft-deleted row is not selected, whoever is writing it.
ForUpdateWaits(c, d) == doc[d].live /\ ~Available(c, d)

\* Mutant of ForUpdateLock: SELECT without FOR UPDATE.
PlainSelect(c, d) == UNCHANGED lock

ForUpdateLock(c, d) ==
  lock' = IF doc[d].live THEN [lock EXCEPT ![d] = c] ELSE lock

Done(c, k, i) == todo' = [todo EXCEPT ![c] = @ \ {<<k, i>>}]

NoBase == [i \in Indices |-> NoFields]
NoBuf == [d \in Docs |-> NoRow]

\* Mutant of Finish: an early return gives the connection back to the pool with
\* its SQL transaction still open.
FinishLeaking(c, result) ==
  /\ phase' = [phase EXCEPT ![c] = result]
  /\ IF result \in {"ok", "ackLost"}
     THEN lock' = [d \in Docs |-> IF lock[d] = c THEN Nobody ELSE lock[d]]
     ELSE UNCHANGED lock
  /\ todo' = [todo EXCEPT ![c] = {}]
  /\ dirty' = [dirty EXCEPT ![c] = {}]
  /\ batch' = [batch EXCEPT ![c] = <<>>]
  /\ rset' = [rset EXCEPT ![c] = NoReads]
  /\ base' = [base EXCEPT ![c] = NoBase]
  /\ buf' = [buf EXCEPT ![c] = NoBuf]

\* The SQL transaction ends, its row locks are released and the locals of the
\* call are gone.
Finish(c, result) ==
  /\ phase' = [phase EXCEPT ![c] = result]
  /\ lock' = [d \in Docs |-> IF lock[d] = c THEN Nobody ELSE lock[d]]
  /\ todo' = [todo EXCEPT ![c] = {}]
  /\ dirty' = [dirty EXCEPT ![c] = {}]
  /\ batch' = [batch EXCEPT ![c] = <<>>]
  /\ rset' = [rset EXCEPT ![c] = NoReads]
  /\ base' = [base EXCEPT ![c] = NoBase]
  /\ buf' = [buf EXCEPT ![c] = NoBuf]

\* Mutant of RollBack: what the batch has written so far stays.
RollBackApplied(c, result) ==
  /\ Finish(c, result)
  /\ doc' = [d \in Docs |-> View(c, d)]
  /\ UNCHANGED <<txnVars, stx>>

\* pg_txn is dropped without COMMIT: an early return, or a lost connection.
RollBack(c, result) ==
  /\ Finish(c, result)
  /\ UNCHANGED <<doc, txnVars, stx>>

-----------------------------------------------------------------------------
Init ==
  /\ doc \in [Docs -> {NoRow, [version |-> 1, live |-> TRUE, val |-> 0]}]
  /\ status = [t \in Txns |-> "none"]
  /\ aged = [t \in Txns |-> FALSE]
  /\ reads = [t \in Txns |-> NoReads]
  /\ reading = [t \in Txns |-> NoReading]
  /\ phase = [c \in Calls |-> "idle"]
  /\ stx = [c \in Calls |-> CHOOSE t \in Txns : TRUE]
  /\ batch = [c \in Calls |-> <<>>]
  /\ rset = [c \in Calls |-> NoReads]
  /\ todo = [c \in Calls |-> {}]
  /\ base = [c \in Calls |-> NoBase]
  /\ buf = [c \in Calls |-> NoBuf]
  /\ dirty = [c \in Calls |-> {}]
  /\ lock = [d \in Docs |-> Nobody]

-----------------------------------------------------------------------------
(* The transaction record: begin, reads, rollback, expiry and sweeping.    *)

\* begin_transaction
Begin(t) ==
  /\ status[t] = "none"
  /\ status' = [status EXCEPT ![t] = "active"]
  /\ UNCHANGED <<doc, aged, reads, reading, callVars>>

\* get_document in a transaction, first statement: SELECT ... AND NOT deleted.
\* A read that starts after the end of the transaction changes nothing.
ReadSelect(t, d) ==
  /\ status[t] = "active"
  /\ reading[t] = NoReading
  /\ reading' = [reading EXCEPT
                   ![t] = <<d, IF doc[d].live THEN doc[d].version ELSE Absent>>]
  /\ UNCHANGED <<doc, status, aged, reads, callVars>>

\* get_document, second statement: record_read.  A second read of the same
\* document replaces the entry of the first (reads || jsonb_build_object).
RecordRead(t) ==
  /\ reading[t] # NoReading
  /\ reading' = [reading EXCEPT ![t] = NoReading]
  /\ IF status[t] = "active" /\ ~aged[t]
     THEN reads' = [reads EXCEPT ![t][reading[t][1]] = reading[t][2]]
     ELSE UNCHANGED reads
  /\ UNCHANGED <<doc, status, aged, callVars>>

\* rollback_transaction; any other status answers TransactionNotFound.
RollbackTransaction(t) ==
  /\ status[t] = "active"
  /\ status' = [status EXCEPT ![t] = "rolled_back"]
  /\ UNCHANGED <<doc, aged, reads, reading, callVars>>

\* Sixty seconds have passed since started_at.
Age(t) ==
  /\ status[t] # "none"
  /\ ~aged[t]
  /\ aged' = [aged EXCEPT ![t] = TRUE]
  /\ UNCHANGED <<doc, status, reads, reading, callVars>>

\* TransactionSweeper, reclaim statement, for one transaction.
SweepExpire(t) ==
  /\ status[t] = "active"
  /\ aged[t]
  /\ status' = [status EXCEPT ![t] = "expired"]
  /\ UNCHANGED <<doc, aged, reads, reading, callVars>>

\* TransactionSweeper, purge statement, after the retention period.
SweepPurge(t) ==
  /\ status[t] \in {"committed", "expired"}
  /\ aged[t]
  /\ status' = [status EXCEPT ![t] = "purged"]
  /\ UNCHANGED <<doc, aged, reads, reading, callVars>>

-----------------------------------------------------------------------------
(* Standalone writes: one autocommit statement each.  A statement that      *)
(* matches no row changes nothing and is not an action.                     *)

Put(d, row) ==
  /\ lock[d] = Nobody
  /\ doc[d].version < MaxVersion
  /\ doc' = [doc EXCEPT ![d] = row]
  /\ UNCHANGED <<txnVars, callVars>>

Written(d) == [version |-> doc[d].version + 1, live |-> TRUE, val |-> 0]

\* create_document, and update_document with MustNotExist: a plain INSERT,
\* refused by the primary key when a row is there, soft-deleted or not.
CreateDocument(d) == doc[d].version = 0 /\ Put(d, Written(d))

\* update_document without precondition: the upsert.
UpdateDocument(d) == Put(d, Written(d))

\* update_document with MustExist, or with an UpdateTime that matches.
UpdateExisting(d) == doc[d].live /\ Put(d, Written(d))

\* delete_document: the soft delete of a live row.
DeleteDocument(d) ==
  /\ doc[d].live
  /\ Put(d, [version |-> doc[d].version + 1, live |-> FALSE, val |-> doc[d].val])

-----------------------------------------------------------------------------
(* commit_transaction                                                      *)

\* The status, age and read set are loaded before the SQL transaction opens.
Load(c, t, b) ==
  /\ phase[c] = "idle"
  /\ status[t] # "none"
  /\ stx' = [stx EXCEPT ![c] = t]
  /\ IF status[t] = "active" /\ ~aged[t]
     THEN /\ phase' = [phase EXCEPT ![c] = "open"]
          /\ batch' = [batch EXCEPT ![c] = b]
          /\ rset' = [rset EXCEPT ![c] = reads[t]]
          /\ todo' = [todo EXCEPT ![c] = Program(b, reads[t])]
     ELSE /\ phase' = [phase EXCEPT ![c] =
                          IF status[t] = "active" THEN "expire" ELSE "notFound"]
          /\ UNCHANGED <<batch, rset, todo>>
  /\ UNCHANGED <<doc, txnVars, base, buf, dirty, lock>>

\* UPDATE transactions SET status = ... WHERE transaction_id = ...: whatever the
\* status is by now, as long as the row is there.
Mark(t, s) == status' = [status EXCEPT ![t] = IF @ = "purged" THEN @ ELSE s]

\* The expiry found by Load is written down; an error of that UPDATE is
\* ignored.
MarkExpired(c) ==
  /\ phase[c] = "expire"
  /\ phase' = [phase EXCEPT ![c] = "notFound"]
  /\ Mark(stx[c], "expired") \/ UNCHANGED status
  /\ UNCHANGED <<doc, aged, reads, reading, stx, batch, rset, todo, base,
                 buf, dirty, lock>>

\* A locking SELECT of document d whose answer is checked against ok.
LockingCheck(c, k, i, d, ok) ==
  /\ IsNext(c, k, i)
  /\ ~ForUpdateWaits(c, d)
  /\ IF ok
     THEN /\ ForUpdateLock(c, d)
          /\ Done(c, k, i)
          /\ UNCHANGED <<doc, txnVars, phase, stx, batch, rset, base,
                         buf, dirty>>
     ELSE RollBack(c, "aborted")

\* Mutant of CheckUpdateTime: the row is read without FOR UPDATE.
CheckUpdateTimeUnlocked(c, i) ==
  LET w == batch[c][i] IN
  /\ IsNext(c, TimeStmt, i)
  /\ IF doc[w.doc].live /\ doc[w.doc].version = w.stamp
     THEN /\ Done(c, TimeStmt, i)
          /\ UNCHANGED <<doc, txnVars, phase, stx, batch, rset, base, buf,
                         dirty, lock>>
     ELSE RollBack(c, "aborted")

CheckUpdateTime(c, i) ==
  LET w == batch[c][i] IN
  LockingCheck(c, TimeStmt, i, w.doc,
               doc[w.doc].live /\ doc[w.doc].version = w.stamp)

CheckExists(c, i) ==
  LET w == batch[c][i] IN
  LockingCheck(c, ExistsStmt, i, w.doc, doc[w.doc].live <=> w.pre = "exists")

VerifyRead(c, d) ==
  LockingCheck(c, ReadStmt, d, d,
               IF doc[d].live THEN rset[c][d] = doc[d].version
                              ELSE rset[c][d] = Absent)

\* Mutant of LockFields: the fields are read without FOR UPDATE.
LockFieldsUnlocked(c, i) ==
  LET d == batch[c][i].doc IN
  /\ IsNext(c, FieldsStmt, i)
  /\ base' = [base EXCEPT ![c][i] = IF doc[d].live THEN doc[d].val ELSE NoFields]
  /\ Done(c, FieldsStmt, i)
  /\ UNCHANGED <<doc, txnVars, phase, stx, batch, rset, buf, dirty, lock>>

\* The persisted fields are read once per write with transforms, before any
\* write of the batch is applied.
LockFields(c, i) ==
  LET d == batch[c][i].doc IN
  /\ IsNext(c, FieldsStmt, i)
  /\ ~ForUpdateWaits(c, d)
  /\ ForUpdateLock(c, d)
  /\ base' = [base EXCEPT ![c][i] = IF doc[d].live THEN doc[d].val ELSE NoFields]
  /\ Done(c, FieldsStmt, i)
  /\ UNCHANGED <<doc, txnVars, phase, stx, batch, rset, buf, dirty>>

\* The field after increment(1): a missing field counts as 0.
Incremented(v) == IF v = NoFields THEN 1 ELSE v + 1

\* Mutant of Overflows: the addition is not checked.
OverflowsUnchecked(c, i) == FALSE

\* apply_field_transform refuses an increment that overflows.
Overflows(c, i) ==
  /\ HasTransforms(batch[c][i])
  /\ Incremented(base[c][i]) > MaxInt

\* Mutant of NewRow: a soft delete keeps the version.
NewRowKeepingVersion(w, v, b) ==
  CASE w.op = "delete" -> [version |-> v.version, live |-> FALSE, val |-> v.val]
    [] w.op = "update" -> [version |-> v.version + 1, live |-> TRUE, val |-> 0]
    [] OTHER -> [version |-> v.version + 1, live |-> TRUE, val |-> Incremented(b)]

\* The row that write w of call c leaves, where v is what it sees.
NewRow(w, v, b) ==
  CASE w.op = "delete" -> [version |-> v.version + 1, live |-> FALSE, val |-> v.val]
    [] w.op = "update" -> [version |-> v.version + 1, live |-> TRUE, val |-> 0]
    [] OTHER -> [version |-> v.version + 1, live |-> TRUE, val |-> Incremented(b)]

\* A delete that sees no row updates none.  Every other write locks its row,
\* or waits for whoever inserts, updates or locks it.
Apply(c, i) ==
  LET w == batch[c][i]
      d == w.doc IN
  /\ IsNext(c, ApplyStmt, i)
  /\ ~Overflows(c, i)
  /\ Done(c, ApplyStmt, i)
  /\ IF w.op = "delete" /\ View(c, d).version = 0
     THEN UNCHANGED <<buf, dirty, lock>>
     ELSE /\ Available(c, d)
          /\ lock' = [lock EXCEPT ![d] = c]
          /\ buf' = [buf EXCEPT ![c][d] = NewRow(w, View(c, d), base[c][i])]
          /\ dirty' = [dirty EXCEPT ![c] = @ \cup {d}]
  /\ UNCHANGED <<doc, txnVars, phase, stx, batch, rset, base>>

\* apply_field_transform fails: InvalidArgument, nothing of the batch stays.
ApplyRefused(c, i) ==
  /\ IsNext(c, ApplyStmt, i)
  /\ Overflows(c, i)
  /\ RollBack(c, "invalid")

\* The transaction is marked committed and the SQL transaction commits.  The answer
\* may be lost on the way to the client.
CommitTransaction(c, result) ==
  /\ phase[c] = "open"
  /\ todo[c] = {}
  /\ doc' = [d \in Docs |-> View(c, d)]
  /\ Mark(stx[c], "committed")
  /\ Finish(c, result)
  /\ UNCHANGED <<aged, reads, reading, stx>>

\* The connection or the pool fails: BackendUnavailable.
Unavailable(c) ==
  /\ phase[c] = "open"
  /\ RollBack(c, "unavailable")

\* The row that the next statement of c needs and somebody else holds.
BlockedOn(c, d) ==
  /\ ~Available(c, d)
  /\ \/ \E k \in {TimeStmt, ExistsStmt, FieldsStmt}, i \in DOMAIN batch[c] :
          IsNext(c, k, i) /\ batch[c][i].doc = d /\ doc[d].live
     \/ IsNext(c, ReadStmt, d) /\ doc[d].live
     \/ \E i \in DOMAIN batch[c] :
          /\ IsNext(c, ApplyStmt, i)
          /\ ~Overflows(c, i)
          /\ batch[c][i].doc = d
          /\ ~(batch[c][i].op = "delete" /\ View(c, d).version = 0)

\* Postgres ends a cycle of waiting transactions by failing one of them.
DeadlockDetected(c) ==
  /\ \E S \in SUBSET Calls :
       /\ c \in S
       /\ \A x \in S : \E y \in S, d \in Docs : BlockedOn(x, d) /\ lock[d] = y
  /\ RollBack(c, "unavailable")

-----------------------------------------------------------------------------
CallStep(c) ==
  \/ MarkExpired(c)
  \/ \E i \in DOMAIN batch[c] :
       CheckUpdateTime(c, i) \/ CheckExists(c, i) \/ LockFields(c, i)
         \/ Apply(c, i) \/ ApplyRefused(c, i)
  \/ \E d \in Docs : VerifyRead(c, d)
  \/ \E result \in {"ok", "ackLost"} : CommitTransaction(c, result)
  \/ DeadlockDetected(c)

TxnStep(t) ==
  \/ Begin(t)
  \/ \E d \in ReadDocs : ReadSelect(t, d)
  \/ RecordRead(t)

EndStep(t) ==
  RollbackTransaction(t) \/ Age(t) \/ SweepExpire(t) \/ SweepPurge(t)

DocStep(d) ==
  CreateDocument(d) \/ UpdateDocument(d) \/ UpdateExisting(d) \/ DeleteDocument(d)

Next ==
  \/ \E t \in Txns : TxnStep(t)
  \/ \E t \in Ending : EndStep(t)
  \/ \E d \in WriteDocs : DocStep(d)
  \/ \E c \in Calls, t \in Txns, b \in Batches : Load(c, t, b)
  \/ \E c \in Calls : CallStep(c) \/ Unavailable(c)

Spec == Init /\ [][Next]_vars

\* Postgres answers every statement that is not waiting for a lock, and the
\* task of a call runs on.
FairSpec == Spec /\ \A c \in Calls : WF_vars(CallStep(c))

-----------------------------------------------------------------------------
(* Properties                                                              *)

TypeOK ==
  /\ doc \in [Docs -> Row]
  /\ status \in [Txns -> Status]
  /\ aged \in [Txns -> BOOLEAN]
  /\ reads \in [Txns -> [Docs -> Nat \cup {NotRead}]]
  /\ reading \in [Txns -> {NoReading} \cup (Docs \X Nat)]
  /\ phase \in [Calls -> Phases]
  /\ stx \in [Calls -> Txns]
  /\ batch \in [Calls -> WriteLists]
  /\ rset \in [Calls -> [Docs -> Nat \cup {NotRead}]]
  /\ todo \in [Calls -> SUBSET ((1..5) \X Nat)]
  /\ base \in [Calls -> [Indices -> (0..MaxInt) \cup {NoFields}]]
  /\ buf \in [Calls -> [Docs -> Row]]
  /\ dirty \in [Calls -> SUBSET Docs]
  /\ lock \in [Docs -> Calls \cup {Nobody}]

\* Call c's SQL transaction commits in this step.
Committing(c) == phase[c] = "open" /\ phase'[c] \in {"ok", "ackLost"}

\* verify_reads: when a commit takes effect, every document that the loaded read
\* set holds as present is still live at the version that was read, whatever
\* the other calls did between the verification and the COMMIT.
ReadsHoldAtCommit ==
  [][\A c \in Calls : Committing(c) =>
       \A d \in Docs : rset[c][d] \in Nat \ {Absent} =>
         doc[d].live /\ doc[d].version = rset[c][d]]_vars

\* The precondition loops: an UpdateTime or a MustExist precondition still holds
\* of the committed table at the moment the batch takes effect.
PreconditionsHoldAtCommit ==
  [][\A c \in Calls : Committing(c) =>
       \A i \in DOMAIN batch[c] :
         LET w == batch[c][i] IN
         /\ PreOf(w) = "exists" => doc[w.doc].live
         /\ PreOf(w) = "time" => doc[w.doc].live /\ doc[w.doc].version = w.stamp]_vars

\* Field transforms: a persisted value that was read under FOR UPDATE is still
\* the persisted value when the increment computed from it takes effect.
LockedFieldsCurrent ==
  [][\A c \in Calls : Committing(c) =>
       \A i \in DOMAIN batch[c] :
         LET w == batch[c][i] IN
         HasTransforms(w) /\ base[c][i] # NoFields =>
           doc[w.doc].live /\ doc[w.doc].val = base[c][i]]_vars

\* The version of a row is the token of optimistic concurrency: no step changes
\* a row without raising its version, deletes and re-creations included, so a
\* version is never reused for other contents.
VersionsIncrease ==
  [][\A d \in Docs : doc'[d] # doc[d] => doc'[d].version > doc[d].version]_vars

\* Every Commit call returns, in spite of lock waits and lock cycles.
CallsReturn ==
  \A c \in Calls : phase[c] \in {"expire", "open"} ~> phase[c] \in Returned

\* What occ.rs and commit_transaction say of a document that was found absent, by a
\* read, by a MustNotExist precondition or by the fields lookup of a transform:
\* a concurrent create is caught, and the document is still absent when the
\* batch takes effect, so that no increment is lost.
AbsenceHoldsAtCommit ==
  [][\A c \in Calls : Committing(c) =>
       /\ \A d \in Docs : rset[c][d] = Absent => ~doc[d].live
       /\ \A i \in DOMAIN batch[c] :
            LET w == batch[c][i] IN
            PreOf(w) = "absent" \/ (HasTransforms(w) /\ base[c][i] = NoFields)
              => ~doc[w.doc].live]_vars

-----------------------------------------------------------------------------
(* The inductive invariant behind the properties of CommitTransaction: what *)
(* a statement has found out stays true until the SQL transaction ends,     *)
(* because the row it is about is locked by the call.                       *)

Pinned(c, d) == lock[d] = c /\ doc[d].live

\* Row locks belong to open SQL transactions, and so do uncommitted rows.
LockInv(c) ==
  /\ \A d \in Docs : lock[d] = c => phase[c] = "open"
  /\ \A d \in dirty[c] : lock[d] = c /\ buf[c][d].version > doc[d].version

\* A verified read of a present document stays verified.
ReadInv(c) ==
  \A d \in Docs :
    phase[c] = "open" /\ rset[c][d] \in Nat \ {Absent} /\ <<ReadStmt, d>> \notin todo[c]
      => Pinned(c, d) /\ doc[d].version = rset[c][d]

\* A checked UpdateTime or MustExist precondition stays as it was found.
PreInv(c) ==
  \A i \in DOMAIN batch[c] :
    LET w == batch[c][i] IN
    phase[c] = "open" =>
      /\ PreOf(w) = "time" /\ <<TimeStmt, i>> \notin todo[c]
           => Pinned(c, w.doc) /\ doc[w.doc].version = w.stamp
      /\ PreOf(w) = "exists" /\ <<ExistsStmt, i>> \notin todo[c] => Pinned(c, w.doc)

\* The persisted fields read for a transform stay the persisted fields.
FieldsInv(c) ==
  \A i \in DOMAIN batch[c] :
    LET w == batch[c][i] IN
    phase[c] = "open" /\ HasTransforms(w) /\ <<FieldsStmt, i>> \notin todo[c]
        /\ base[c][i] # NoFields
      => Pinned(c, w.doc) /\ doc[w.doc].val = base[c][i]

CallInv(c) == LockInv(c) /\ ReadInv(c) /\ PreInv(c) /\ FieldsInv(c)

\* Whatever an open Commit call has verified is still true of the table: reads,
\* preconditions, locked fields, and the versions its own writes start from.
CommitInv == \A c \in Calls : CallInv(c)
=============================================================================
