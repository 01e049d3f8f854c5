------------------------- MODULE TransactionsProofs -------------------------
(***************************************************************************)
(* Proofs about Transactions, for any number of documents, transactions,   *)
(* concurrent Commit calls and any write lists.                            *)
(***************************************************************************)
EXTENDS TransactionsRefinement, FiniteSetTheorems, TLAPS

-----------------------------------------------------------------------------
(* Facts about the operators that the actions are built from               *)

\* A function updated at one argument, or at one argument of one of its values,
\* keeps its type.
LEMMA ExceptType ==
  ASSUME NEW S, NEW T, NEW f \in [S -> T], NEW x \in S, NEW v \in T
  PROVE  [f EXCEPT ![x] = v] \in [S -> T]
OBVIOUS

\* The same one level down.
LEMMA ExceptType2 ==
  ASSUME NEW S, NEW R, NEW T, NEW f \in [S -> [R -> T]], NEW x \in S, NEW y \in R,
         NEW v \in T
  PROVE  [f EXCEPT ![x][y] = v] \in [S -> [R -> T]]
OBVIOUS

\* The statements of a commit are pairs of a position and an index.
LEMMA ProgramType ==
  ASSUME NEW b \in WriteLists, NEW r
  PROVE  Program(b, r) \subseteq (1..5) \X Nat
<1>1. DOMAIN b \subseteq Nat
  BY DEF WriteLists
<1>2. Docs \subseteq Nat
  BY DocsAssumption DEF Docs
<1> QED
  BY <1>1, <1>2 DEF Program, TimeStmt, ExistsStmt, ReadStmt, FieldsStmt, ApplyStmt

\* Row values survive what a write makes of them.
LEMMA NewRowType ==
  ASSUME NEW w \in Write, NEW v \in Row, NEW b \in (0..MaxInt) \cup {NoFields},
         HasTransforms(w) => Incremented(b) <= MaxInt
  PROVE  /\ NewRow(w, v, b) \in Row
         /\ NewRow(w, v, b).version = v.version + 1
<1>1. CASE w.op = "delete"
  BY <1>1 DEF NewRow, Row
<1>2. CASE w.op = "update"
  BY <1>2, MaxIntAssumption DEF NewRow, Row
<1>3. CASE w.op \in {"updateInc", "transform"}
  BY <1>3, MaxIntAssumption DEF NewRow, Row, HasTransforms, Incremented, NoFields
<1> QED
  BY <1>1, <1>2, <1>3 DEF Write

\* A statement that has run leaves the program.
LEMMA DoneType ==
  ASSUME NEW c \in Calls, NEW k, NEW i, Done(c, k, i),
         todo \in [Calls -> SUBSET ((1..5) \X Nat)]
  PROVE  todo' \in [Calls -> SUBSET ((1..5) \X Nat)]
<1>1. todo[c] \ {<<k, i>>} \in SUBSET ((1..5) \X Nat)
  OBVIOUS
<1>2. todo' = [todo EXCEPT ![c] = todo[c] \ {<<k, i>>}]
  BY DEF Done
<1> QED
  BY <1>1, <1>2, ExceptType, Zenon

\* Ending the SQL transaction of a call keeps the types of the call's state.
LEMMA FinishType ==
  ASSUME TypeOK, NEW c \in Calls, NEW result \in Returned, Finish(c, result)
  PROVE  /\ phase' \in [Calls -> Phases]
         /\ batch' \in [Calls -> WriteLists]
         /\ rset' \in [Calls -> [Docs -> Nat \cup {NotRead}]]
         /\ todo' \in [Calls -> SUBSET ((1..5) \X Nat)]
         /\ base' \in [Calls -> [Indices -> (0..MaxInt) \cup {NoFields}]]
         /\ buf' \in [Calls -> [Docs -> Row]]
         /\ dirty' \in [Calls -> SUBSET Docs]
         /\ lock' \in [Docs -> Calls \cup {Nobody}]
<1>1. NoReads \in [Docs -> Nat \cup {NotRead}]
  BY DEF NoReads
<1>2. NoBase \in [Indices -> (0..MaxInt) \cup {NoFields}]
  BY DEF NoBase
<1>3. NoBuf \in [Docs -> Row]
  BY MaxIntAssumption DEF NoBuf, NoRow, Row
<1>4. <<>> \in WriteLists
  BY MaxBatchAssumption DEF WriteLists
<1> QED
  BY <1>1, <1>2, <1>3, <1>4 DEF Finish, TypeOK, Phases

\* The writes of a call are writes, and their indices are within MaxBatch.
LEMMA BatchType ==
  ASSUME TypeOK, NEW c \in Calls, NEW i \in DOMAIN batch[c]
  PROVE  batch[c][i] \in Write /\ batch[c][i].doc \in Docs /\ i \in Indices
<1>1. batch[c] \in Seq(Write) /\ Len(batch[c]) \in 0..MaxBatch
  BY DEF TypeOK, WriteLists
<1>2. i \in 1..Len(batch[c])
  BY <1>1
<1>3. batch[c][i] \in Write
  BY <1>1, <1>2
<1> QED
  BY <1>1, <1>2, <1>3, MaxBatchAssumption DEF Write, Indices

\* A rollback keeps the types.
LEMMA RollBackType ==
  ASSUME TypeOK, NEW c \in Calls, NEW result \in Returned, RollBack(c, result)
  PROVE  TypeOK'
<1>1. Finish(c, result)
  BY DEF RollBack
<1> QED
  BY <1>1, FinishType DEF RollBack, TypeOK, txnVars

\* A statement removed from the program, and a row lock taken, keep the types.
LEMMA LockingCheckType ==
  ASSUME TypeOK, NEW c \in Calls, NEW k, NEW i, NEW d \in Docs, NEW ok,
         LockingCheck(c, k, i, d, ok)
  PROVE  TypeOK'
<1>1. CASE ok
  <2>1. lock' \in [Docs -> Calls \cup {Nobody}]
    BY <1>1 DEF LockingCheck, ForUpdateLock, TypeOK
  <2>2. todo' \in [Calls -> SUBSET ((1..5) \X Nat)]
    BY <1>1, DoneType DEF LockingCheck, TypeOK
  <2> QED
    BY <1>1, <2>1, <2>2 DEF LockingCheck, TypeOK, txnVars
<1>2. CASE ~ok
  BY <1>2, RollBackType DEF LockingCheck, Returned
<1> QED
  BY <1>1, <1>2

\* The standalone writes keep the types.
LEMMA PutType ==
  ASSUME TypeOK, NEW d \in Docs, NEW row \in Row, Put(d, row)
  PROVE  TypeOK'
BY DEF Put, TypeOK, callVars, txnVars

-----------------------------------------------------------------------------
(* Every variable keeps its type in every behaviour of the adapter: the    *)
(* tables, the read sets and the state of each Commit call.                *)
THEOREM TypeCorrect == Spec => []TypeOK
<1>1. Init => TypeOK
  <2> SUFFICES ASSUME Init PROVE TypeOK
    OBVIOUS
  <2>1. NoRow \in Row /\ [version |-> 1, live |-> TRUE, val |-> 0] \in Row
    BY MaxIntAssumption DEF NoRow, Row
  <2>2. (CHOOSE t \in Txns : TRUE) \in Txns
    BY TxnsAssumption
  <2>4. <<>> \in WriteLists
    BY MaxBatchAssumption DEF WriteLists
  <2> QED
    BY <2>1, <2>2, <2>4
    DEF Init, TypeOK, NoReads, Status, Phases, NoBase, NoBuf
<1>2. TypeOK /\ [Next]_vars => TypeOK'
  <2> SUFFICES ASSUME TypeOK, [Next]_vars PROVE TypeOK'
    OBVIOUS
  <2>1. ASSUME NEW t \in Txns, TxnStep(t) PROVE TypeOK'
    <3>1. CASE Begin(t)
      BY <3>1 DEF Begin, TypeOK, callVars, Status
    <3>2. ASSUME NEW d \in ReadDocs, ReadSelect(t, d) PROVE TypeOK'
      <4>1. d \in Docs
        BY DocsAssumption
      <4> QED
        BY <3>2, <4>1 DEF ReadSelect, TypeOK, callVars, Row, Absent
    <3>3. CASE RecordRead(t)
      <4>1. CASE status[t] = "active" /\ ~aged[t]
        <5> DEFINE d == reading[t][1]
                   v == reading[t][2]
        <5>1. reading[t] \in Docs \X Nat
          BY <3>3 DEF RecordRead, TypeOK
        <5>2. d \in Docs /\ v \in Nat
          BY <5>1
        <5>5. reads' \in [Txns -> [Docs -> Nat \cup {NotRead}]]
          <6>1. reads' = [reads EXCEPT ![t][d] = v]
            BY <3>3, <4>1 DEF RecordRead
          <6>2. reads \in [Txns -> [Docs -> Nat \cup {NotRead}]]
            BY DEF TypeOK
          <6>3. v \in Nat \cup {NotRead}
            BY <5>2
          <6> QED
            BY <5>2, <6>1, <6>2, <6>3, ExceptType2, Zenon
        <5> QED
          BY <3>3, <5>5 DEF RecordRead, TypeOK, callVars
      <4>2. CASE ~(status[t] = "active" /\ ~aged[t])
        BY <3>3, <4>2 DEF RecordRead, TypeOK, callVars
      <4> QED
        BY <4>1, <4>2
    <3> QED
      BY <2>1, <3>1, <3>2, <3>3 DEF TxnStep
  <2>2. ASSUME NEW t \in Ending, EndStep(t) PROVE TypeOK'
    <3>1. t \in Txns
      BY EndingAssumption
    <3>2. CASE RollbackTransaction(t)
      BY <3>1, <3>2 DEF RollbackTransaction, TypeOK, callVars, Status
    <3>3. CASE Age(t)
      BY <3>1, <3>3 DEF Age, TypeOK, callVars
    <3>4. CASE SweepExpire(t)
      BY <3>1, <3>4 DEF SweepExpire, TypeOK, callVars, Status
    <3>5. CASE SweepPurge(t)
      BY <3>1, <3>5 DEF SweepPurge, TypeOK, callVars, Status
    <3> QED
      BY <2>2, <3>2, <3>3, <3>4, <3>5 DEF EndStep
  <2>3. ASSUME NEW d \in WriteDocs, DocStep(d) PROVE TypeOK'
    <3>1. d \in Docs
      BY DocsAssumption
    <3>2. Written(d) \in Row
      BY <3>1, MaxIntAssumption DEF Written, TypeOK, Row
    <3>3. [version |-> doc[d].version + 1, live |-> FALSE, val |-> doc[d].val] \in Row
      BY <3>1 DEF TypeOK, Row
    <3> QED
      BY <2>3, <3>1, <3>2, <3>3, PutType
      DEF DocStep, CreateDocument, UpdateDocument, UpdateExisting, DeleteDocument
  <2>4. ASSUME NEW c \in Calls, NEW t \in Txns, NEW b \in Batches, Load(c, t, b)
        PROVE  TypeOK'
    <3>1. b \in WriteLists
      BY BatchesAssumption
    <3>2. Program(b, reads[t]) \subseteq (1..5) \X Nat
      BY <3>1, ProgramType
    <3>3. "open" \in Phases /\ "expire" \in Phases /\ "notFound" \in Phases
      BY DEF Phases, Returned
    <3>4. phase' \in [Calls -> Phases]
      BY <2>4, <3>3 DEF Load, TypeOK
    <3>5. batch' \in [Calls -> WriteLists]
      BY <2>4, <3>1 DEF Load, TypeOK
    <3>6. todo' \in [Calls -> SUBSET ((1..5) \X Nat)]
      <4>1. \/ todo' = [todo EXCEPT ![c] = Program(b, reads[t])]
            \/ todo' = todo
        BY <2>4 DEF Load
      <4>2. todo \in [Calls -> SUBSET ((1..5) \X Nat)]
        BY DEF TypeOK
      <4>3. Program(b, reads[t]) \in SUBSET ((1..5) \X Nat)
        BY <3>2
      <4> QED
        BY <4>1, <4>2, <4>3, ExceptType, Zenon
    <3>7. rset' \in [Calls -> [Docs -> Nat \cup {NotRead}]]
      <4>1. rset' = [rset EXCEPT ![c] = reads[t]] \/ rset' = rset
        BY <2>4 DEF Load
      <4>2. /\ rset \in [Calls -> [Docs -> Nat \cup {NotRead}]]
            /\ reads[t] \in [Docs -> Nat \cup {NotRead}]
        BY DEF TypeOK
      <4> QED
        BY <4>1, <4>2, ExceptType, Zenon
    <3>8. stx' \in [Calls -> Txns]
      BY <2>4 DEF Load, TypeOK
    <3> QED
      BY <2>4, <3>4, <3>5, <3>6, <3>7, <3>8 DEF Load, TypeOK, txnVars
  <2>5. ASSUME NEW c \in Calls, CallStep(c) PROVE TypeOK'
    <3>1. CASE MarkExpired(c)
      <4>1. status' \in [Txns -> Status]
        BY <3>1 DEF MarkExpired, Mark, TypeOK, Status
      <4>2. phase' \in [Calls -> Phases]
        BY <3>1 DEF MarkExpired, TypeOK, Phases, Returned
      <4> QED
        BY <3>1, <4>1, <4>2 DEF MarkExpired, TypeOK
    <3>2. ASSUME NEW i \in DOMAIN batch[c],
                 \/ CheckUpdateTime(c, i) \/ CheckExists(c, i) \/ LockFields(c, i)
                 \/ Apply(c, i) \/ ApplyRefused(c, i)
          PROVE  TypeOK'
      <4> DEFINE w == batch[c][i]
      <4>1. w \in Write /\ w.doc \in Docs /\ i \in Indices
        BY BatchType
      <4>2. CASE CheckUpdateTime(c, i)
        BY <4>1, <4>2, LockingCheckType DEF CheckUpdateTime
      <4>3. CASE CheckExists(c, i)
        BY <4>1, <4>3, LockingCheckType DEF CheckExists
      <4>4. CASE LockFields(c, i)
        <5>1. lock' \in [Docs -> Calls \cup {Nobody}]
          BY <4>1, <4>4 DEF LockFields, ForUpdateLock, TypeOK
        <5>2. todo' \in [Calls -> SUBSET ((1..5) \X Nat)]
          BY <4>4 DEF LockFields, Done, TypeOK
        <5>3. doc[w.doc].val \in 0..MaxInt
          BY <4>1 DEF TypeOK, Row
        <5>4. base' \in [Calls -> [Indices -> (0..MaxInt) \cup {NoFields}]]
          BY <4>1, <4>4, <5>3 DEF LockFields, TypeOK
        <5> QED
          BY <4>4, <5>1, <5>2, <5>4 DEF LockFields, TypeOK, txnVars
      <4>5. CASE Apply(c, i)
        <5>1. todo' \in [Calls -> SUBSET ((1..5) \X Nat)]
          BY <4>5 DEF Apply, Done, TypeOK
        <5>2. CASE w.op = "delete" /\ View(c, w.doc).version = 0
          BY <4>5, <5>1, <5>2 DEF Apply, TypeOK, txnVars
        <5>3. CASE ~(w.op = "delete" /\ View(c, w.doc).version = 0)
          <6>1. View(c, w.doc) \in Row
            BY <4>1 DEF View, TypeOK
          <6>2. base[c][i] \in (0..MaxInt) \cup {NoFields}
            BY <4>1 DEF TypeOK
          <6>3. NewRow(w, View(c, w.doc), base[c][i]) \in Row
            BY <4>1, <4>5, <6>1, <6>2, NewRowType, MaxIntAssumption
            DEF Apply, Overflows, Incremented, NoFields
          <6> QED
            <7>1. lock' \in [Docs -> Calls \cup {Nobody}]
              BY <4>1, <4>5, <5>3 DEF Apply, TypeOK
            <7>2. buf' \in [Calls -> [Docs -> Row]]
              <8>1. buf' = [buf EXCEPT ![c][w.doc] =
                              NewRow(w, View(c, w.doc), base[c][i])]
                BY <4>5, <5>3 DEF Apply
              <8>2. buf \in [Calls -> [Docs -> Row]]
                BY DEF TypeOK
              <8> QED
                BY <4>1, <6>3, <8>1, <8>2, ExceptType2, Zenon
            <7>3. dirty' \in [Calls -> SUBSET Docs]
              <8>1. dirty' = [dirty EXCEPT ![c] = dirty[c] \cup {w.doc}]
                BY <4>5, <5>3 DEF Apply
              <8>2. dirty \in [Calls -> SUBSET Docs]
                BY DEF TypeOK
              <8>3. dirty[c] \cup {w.doc} \in SUBSET Docs
                BY <4>1, <8>2
              <8> QED
                BY <8>1, <8>2, <8>3, ExceptType, Zenon
            <7> QED
              BY <4>5, <5>1, <7>1, <7>2, <7>3 DEF Apply, TypeOK, txnVars
        <5> QED
          BY <5>2, <5>3
      <4>6. CASE ApplyRefused(c, i)
        BY <4>6, RollBackType DEF ApplyRefused, Returned
      <4> QED
        BY <3>2, <4>2, <4>3, <4>4, <4>5, <4>6
    <3>3. ASSUME NEW d \in Docs, VerifyRead(c, d) PROVE TypeOK'
      BY <3>3, LockingCheckType DEF VerifyRead
    <3>4. ASSUME NEW result \in {"ok", "ackLost"}, CommitTransaction(c, result)
          PROVE  TypeOK'
      <4>1. doc' \in [Docs -> Row]
        BY <3>4 DEF CommitTransaction, View, TypeOK
      <4>2. status' \in [Txns -> Status]
        BY <3>4 DEF CommitTransaction, Mark, TypeOK, Status
      <4>3. result \in Returned /\ Finish(c, result)
        BY <3>4 DEF CommitTransaction, Returned
      <4> QED
        BY <3>4, <4>1, <4>2, <4>3, FinishType DEF CommitTransaction, TypeOK
    <3>5. CASE DeadlockDetected(c)
      BY <3>5, RollBackType DEF DeadlockDetected, Returned
    <3> QED
      BY <2>5, <3>1, <3>2, <3>3, <3>4, <3>5 DEF CallStep
  <2>6. ASSUME NEW c \in Calls, Unavailable(c) PROVE TypeOK'
    BY <2>6, RollBackType DEF Unavailable, Returned
  <2>7. CASE UNCHANGED vars
    BY <2>7 DEF vars, TypeOK
  <2> QED
    BY <2>1, <2>2, <2>3, <2>4, <2>5, <2>6, <2>7 DEF Next
<1> QED
  BY <1>1, <1>2, PTL DEF Spec

-----------------------------------------------------------------------------
(* What a call has verified survives the steps of everybody else: they     *)
(* leave its locals alone, its row locks, and the rows under these locks.  *)

Untouched(c) ==
  /\ phase'[c] = phase[c] /\ batch'[c] = batch[c] /\ rset'[c] = rset[c]
  /\ todo'[c] = todo[c] /\ base'[c] = base[c]
  /\ buf'[c] = buf[c] /\ dirty'[c] = dirty[c]
  /\ \A d \in Docs : lock'[d] = c <=> lock[d] = c
  /\ \A d \in Docs : lock[d] = c => doc'[d] = doc[d]

\* The invariant of a call that a step leaves untouched holds after it.
LEMMA Frame ==
  ASSUME TypeOK, NEW c \in Calls, CallInv(c), Untouched(c)
  PROVE  CallInv(c)'
<1>0. \A i \in DOMAIN batch[c] : batch[c][i].doc \in Docs
  BY BatchType
<1>1. LockInv(c)'
  <2>1. dirty[c] \subseteq Docs
    BY DEF TypeOK
  <2> QED
    BY <2>1 DEF CallInv, LockInv, Untouched
<1>2. ReadInv(c)'
  BY DEF CallInv, ReadInv, Untouched, Pinned
<1>3. PreInv(c)'
  BY <1>0 DEF CallInv, PreInv, Untouched, Pinned
<1>4. FieldsInv(c)'
  BY <1>0 DEF CallInv, FieldsInv, Untouched, Pinned
<1> QED
  BY <1>1, <1>2, <1>3, <1>4 DEF CallInv

\* A call that is not open holds no lock and has written nothing.
LEMMA NotOpen ==
  ASSUME TypeOK, NEW c \in Calls, LockInv(c), phase[c] # "open"
  PROVE  dirty[c] = {} /\ \A d \in Docs : lock[d] # c
BY DEF LockInv, TypeOK

\* A call that has returned has nothing left to keep.
LEMMA Released ==
  ASSUME NEW c \in Calls, phase'[c] # "open", dirty'[c] = {},
         \A d \in Docs : lock'[d] # c
  PROVE  CallInv(c)'
BY DEF CallInv, LockInv, ReadInv, PreInv, FieldsInv

\* The end of an SQL transaction keeps CommitInv,
LEMMA FinishInv ==
  ASSUME TypeOK, CommitInv, NEW c \in Calls, NEW result \in Returned,
         Finish(c, result), \A d \in Docs : lock[d] # c => doc'[d] = doc[d]
  PROVE  CommitInv'
<1>1. CallInv(c)'
  <2>1. phase'[c] # "open" /\ dirty'[c] = {}
    BY DEF Finish, TypeOK, Returned
  <2>2. \A d \in Docs : lock'[d] # c
    BY NobodyAssumption DEF Finish
  <2> QED
    BY <2>1, <2>2, Released
<1>2. ASSUME NEW e \in Calls, e # c PROVE CallInv(e)'
  <2>1. Untouched(e)
    BY <1>2, NobodyAssumption DEF Finish, TypeOK, Untouched
  <2> QED
    BY <2>1, Frame DEF CommitInv
<1> QED
  BY <1>1, <1>2 DEF CommitInv

\* and so does a rollback.
LEMMA RollBackInv ==
  ASSUME TypeOK, CommitInv, NEW c \in Calls, NEW result \in Returned,
         RollBack(c, result)
  PROVE  CommitInv'
BY FinishInv DEF RollBack

-----------------------------------------------------------------------------
(* The statements of a call keep CommitInv.                                 *)

\* Taking the lock of an available row leaves the other calls alone.
LEMMA OthersUntouched ==
  ASSUME TypeOK, CommitInv, NEW c \in Calls, NEW d \in Docs,
         doc' = doc, lock' = lock \/ (Available(c, d) /\ lock' = [lock EXCEPT ![d] = c]),
         NEW e \in Calls, e # c,
         phase'[e] = phase[e] /\ batch'[e] = batch[e] /\ rset'[e] = rset[e],
         todo'[e] = todo[e] /\ base'[e] = base[e] /\ buf'[e] = buf[e],
         dirty'[e] = dirty[e]
  PROVE  CallInv(e)'
<1>1. \A x \in Docs : lock'[x] = e <=> lock[x] = e
  BY NobodyAssumption DEF TypeOK, Available
<1> QED
  BY <1>1, Frame DEF Untouched, CommitInv

\* A locking check that succeeds: the call learns the fact that it checked, and
\* keeps those it already had.
LEMMA LockingCheckInv ==
  ASSUME TypeOK, CommitInv, NEW c \in Calls, NEW k, NEW i, NEW d \in Docs, NEW ok,
         LockingCheck(c, k, i, d, ok),
         ok /\ k = ReadStmt =>
           /\ i = d
           /\ rset[c][d] \in Nat \ {Absent} => doc[d].live /\ doc[d].version = rset[c][d],
         ok /\ k \in {TimeStmt, ExistsStmt} =>
           /\ i \in DOMAIN batch[c]
           /\ d = batch[c][i].doc
           /\ k = TimeStmt => doc[d].live /\ doc[d].version = batch[c][i].stamp
           /\ k = ExistsStmt /\ PreOf(batch[c][i]) = "exists" => doc[d].live,
         k # FieldsStmt
  PROVE  CommitInv'
<1>1. CASE ok
  <2>1. /\ doc' = doc /\ phase' = phase /\ batch' = batch /\ rset' = rset
        /\ base' = base /\ buf' = buf /\ dirty' = dirty
        /\ todo' = [todo EXCEPT ![c] = @ \ {<<k, i>>}]
        /\ lock' = IF doc[d].live THEN [lock EXCEPT ![d] = c] ELSE lock
        /\ phase[c] = "open"
        /\ doc[d].live => Available(c, d)
    BY <1>1 DEF LockingCheck, ForUpdateLock, Done, ForUpdateWaits, IsNext
  <2>2. ASSUME NEW e \in Calls, e # c PROVE CallInv(e)'
    <3>1. todo'[e] = todo[e]
      BY <2>1, <2>2 DEF TypeOK
    <3>2. lock' = lock \/ (Available(c, d) /\ lock' = [lock EXCEPT ![d] = c])
      BY <2>1
    <3> QED
      BY <2>1, <2>2, <3>1, <3>2, OthersUntouched
  <2>3. /\ todo'[c] = todo[c] \ {<<k, i>>}
        /\ \A x \in Docs : lock[x] = c => lock'[x] = c
        /\ \A x \in Docs : lock'[x] = c => lock[x] = c \/ x = d
        /\ doc[d].live => lock'[d] = c
    BY <2>1 DEF TypeOK
  <2>4. CallInv(c)
    BY DEF CommitInv
  <2>5. LockInv(c)'
    <3>1. dirty[c] \subseteq Docs
      BY DEF TypeOK
    <3> QED
      BY <2>1, <2>3, <2>4, <3>1 DEF CallInv, LockInv
  <2>6. ReadInv(c)'
    <3> SUFFICES ASSUME NEW x \in Docs, rset[c][x] \in Nat \ {Absent},
                        <<ReadStmt, x>> \notin todo'[c]
                 PROVE  lock'[x] = c /\ doc[x].live /\ doc[x].version = rset[c][x]
      BY <2>1 DEF ReadInv, Pinned
    <3>1. CASE <<ReadStmt, x>> \notin todo[c]
      BY <2>1, <2>3, <2>4, <3>1 DEF CallInv, ReadInv, Pinned
    <3>2. CASE <<ReadStmt, x>> \in todo[c]
      <4>1. k = ReadStmt /\ i = x
        BY <2>3, <3>2
      <4> QED
        BY <1>1, <2>3, <4>1
    <3> QED
      BY <3>1, <3>2
  <2>7. PreInv(c)'
    <3> SUFFICES ASSUME NEW j \in DOMAIN batch[c]
                 PROVE  /\ PreOf(batch[c][j]) = "time" /\ <<TimeStmt, j>> \notin todo'[c]
                             => /\ lock'[batch[c][j].doc] = c /\ doc[batch[c][j].doc].live
                                /\ doc[batch[c][j].doc].version = batch[c][j].stamp
                        /\ PreOf(batch[c][j]) = "exists" /\ <<ExistsStmt, j>> \notin todo'[c]
                             => lock'[batch[c][j].doc] = c /\ doc[batch[c][j].doc].live
      BY <2>1 DEF PreInv, Pinned
    <3>0. batch[c][j].doc \in Docs
      BY BatchType
    <3>1. ASSUME PreOf(batch[c][j]) = "time", <<TimeStmt, j>> \notin todo'[c]
          PROVE  /\ lock'[batch[c][j].doc] = c /\ doc[batch[c][j].doc].live
                 /\ doc[batch[c][j].doc].version = batch[c][j].stamp
      <4>1. CASE <<TimeStmt, j>> \notin todo[c]
        BY <2>1, <2>3, <2>4, <3>0, <3>1, <4>1 DEF CallInv, PreInv, Pinned
      <4>2. CASE <<TimeStmt, j>> \in todo[c]
        <5>1. k = TimeStmt /\ i = j
          BY <2>3, <3>1, <4>2
        <5> QED
          BY <1>1, <2>3, <5>1
      <4> QED
        BY <4>1, <4>2
    <3>2. ASSUME PreOf(batch[c][j]) = "exists", <<ExistsStmt, j>> \notin todo'[c]
          PROVE  lock'[batch[c][j].doc] = c /\ doc[batch[c][j].doc].live
      <4>1. CASE <<ExistsStmt, j>> \notin todo[c]
        BY <2>1, <2>3, <2>4, <3>0, <3>2, <4>1 DEF CallInv, PreInv, Pinned
      <4>2. CASE <<ExistsStmt, j>> \in todo[c]
        <5>1. k = ExistsStmt /\ i = j
          BY <2>3, <3>2, <4>2
        <5> QED
          BY <1>1, <2>3, <3>2, <5>1
      <4> QED
        BY <4>1, <4>2
    <3> QED
      BY <3>1, <3>2
  <2>8. FieldsInv(c)'
    <3> SUFFICES ASSUME NEW j \in DOMAIN batch[c], HasTransforms(batch[c][j]),
                        <<FieldsStmt, j>> \notin todo'[c], base[c][j] # NoFields
                 PROVE  /\ lock'[batch[c][j].doc] = c /\ doc[batch[c][j].doc].live
                        /\ doc[batch[c][j].doc].val = base[c][j]
      BY <2>1 DEF FieldsInv, Pinned
    <3>0. batch[c][j].doc \in Docs
      BY BatchType
    <3>1. <<FieldsStmt, j>> \notin todo[c]
      BY <2>3
    <3> QED
      BY <2>1, <2>3, <2>4, <3>0, <3>1 DEF CallInv, FieldsInv, Pinned
  <2>9. CallInv(c)'
    BY <2>5, <2>6, <2>7, <2>8 DEF CallInv
  <2> QED
    BY <2>2, <2>9 DEF CommitInv
<1>2. CASE ~ok
  BY <1>2, RollBackInv DEF LockingCheck, Returned
<1> QED
  BY <1>1, <1>2

\* Reading the fields under FOR UPDATE keeps CommitInv,
LEMMA LockFieldsInv ==
  ASSUME TypeOK, CommitInv, NEW c \in Calls, NEW i \in DOMAIN batch[c], LockFields(c, i)
  PROVE  CommitInv'
<1> DEFINE d == batch[c][i].doc
<1>0. d \in Docs /\ i \in Indices
  BY BatchType
<1>1. /\ doc' = doc /\ phase' = phase /\ batch' = batch /\ rset' = rset
      /\ buf' = buf /\ dirty' = dirty
      /\ todo' = [todo EXCEPT ![c] = @ \ {<<FieldsStmt, i>>}]
      /\ base' = [base EXCEPT ![c][i] = IF doc[d].live THEN doc[d].val ELSE NoFields]
      /\ lock' = IF doc[d].live THEN [lock EXCEPT ![d] = c] ELSE lock
      /\ phase[c] = "open"
      /\ doc[d].live => Available(c, d)
  BY DEF LockFields, ForUpdateLock, Done, ForUpdateWaits, IsNext
<1>2. ASSUME NEW e \in Calls, e # c PROVE CallInv(e)'
  <2>1. todo'[e] = todo[e] /\ base'[e] = base[e]
    BY <1>1, <1>2 DEF TypeOK
  <2>2. lock' = lock \/ (Available(c, d) /\ lock' = [lock EXCEPT ![d] = c])
    BY <1>1
  <2> QED
    BY <1>0, <1>1, <1>2, <2>1, <2>2, OthersUntouched
<1>3. /\ todo'[c] = todo[c] \ {<<FieldsStmt, i>>}
      /\ \A x \in Docs : lock[x] = c => lock'[x] = c
      /\ \A x \in Docs : lock'[x] = c => lock[x] = c \/ x = d
      /\ doc[d].live => lock'[d] = c
  BY <1>0, <1>1 DEF TypeOK
<1>4. CallInv(c)
  BY DEF CommitInv
<1>5. LockInv(c)'
  <2>1. dirty[c] \subseteq Docs
    BY DEF TypeOK
  <2> QED
    BY <1>1, <1>3, <1>4, <2>1 DEF CallInv, LockInv
<1>6. ReadInv(c)'
  <2>1. \A x \in Docs : <<ReadStmt, x>> \notin todo'[c] => <<ReadStmt, x>> \notin todo[c]
    BY <1>3 DEF ReadStmt, FieldsStmt
  <2> QED
    BY <1>1, <1>3, <1>4, <2>1 DEF CallInv, ReadInv, Pinned
<1>7. PreInv(c)'
  <2>1. \A j : /\ <<TimeStmt, j>> \notin todo'[c] => <<TimeStmt, j>> \notin todo[c]
               /\ <<ExistsStmt, j>> \notin todo'[c] => <<ExistsStmt, j>> \notin todo[c]
    BY <1>3 DEF TimeStmt, ExistsStmt, FieldsStmt
  <2>2. \A j \in DOMAIN batch[c] : batch[c][j].doc \in Docs
    BY BatchType
  <2> QED
    BY <1>1, <1>3, <1>4, <2>1, <2>2 DEF CallInv, PreInv, Pinned
<1>8. FieldsInv(c)'
  <2> SUFFICES ASSUME NEW j \in DOMAIN batch[c], HasTransforms(batch[c][j]),
                      <<FieldsStmt, j>> \notin todo'[c], base'[c][j] # NoFields
               PROVE  /\ lock'[batch[c][j].doc] = c /\ doc[batch[c][j].doc].live
                      /\ doc[batch[c][j].doc].val = base'[c][j]
    BY <1>1 DEF FieldsInv, Pinned
  <2>0. batch[c][j].doc \in Docs /\ j \in Indices
    BY BatchType
  <2>1. CASE j = i
    <3>1. base'[c][i] = IF doc[d].live THEN doc[d].val ELSE NoFields
      BY <1>0, <1>1 DEF TypeOK
    <3> QED
      BY <1>3, <2>1, <3>1
  <2>2. CASE j # i
    <3>1. base'[c][j] = base[c][j]
      BY <1>0, <1>1, <2>0, <2>2 DEF TypeOK
    <3>2. <<FieldsStmt, j>> \notin todo[c]
      BY <1>3, <2>2
    <3> QED
      BY <1>1, <1>3, <1>4, <2>0, <3>1, <3>2 DEF CallInv, FieldsInv, Pinned
  <2> QED
    BY <2>1, <2>2
<1> QED
  BY <1>2, <1>5, <1>6, <1>7, <1>8 DEF CallInv, CommitInv

\* and so does a write.
LEMMA ApplyInv ==
  ASSUME TypeOK, CommitInv, NEW c \in Calls, NEW i \in DOMAIN batch[c], Apply(c, i)
  PROVE  CommitInv'
<1> DEFINE w == batch[c][i]
           d == w.doc
<1>0. w \in Write /\ d \in Docs /\ i \in Indices
  BY BatchType
<1>1. /\ doc' = doc /\ phase' = phase /\ batch' = batch /\ rset' = rset /\ base' = base
      /\ todo' = [todo EXCEPT ![c] = @ \ {<<ApplyStmt, i>>}]
      /\ phase[c] = "open"
  BY DEF Apply, Done, IsNext
<1>2. \/ buf' = buf /\ dirty' = dirty /\ lock' = lock
      \/ /\ Available(c, d)
         /\ lock' = [lock EXCEPT ![d] = c]
         /\ buf' = [buf EXCEPT ![c][d] = NewRow(w, View(c, d), base[c][i])]
         /\ dirty' = [dirty EXCEPT ![c] = @ \cup {d}]
  BY DEF Apply
<1>3. ASSUME NEW e \in Calls, e # c PROVE CallInv(e)'
  <2>1. todo'[e] = todo[e] /\ buf'[e] = buf[e] /\ dirty'[e] = dirty[e]
    BY <1>1, <1>2, <1>3 DEF TypeOK
  <2>2. lock' = lock \/ (Available(c, d) /\ lock' = [lock EXCEPT ![d] = c])
    BY <1>2
  <2> QED
    BY <1>0, <1>1, <1>3, <2>1, <2>2, OthersUntouched
<1>4. /\ todo'[c] = todo[c] \ {<<ApplyStmt, i>>}
      /\ \A x \in Docs : lock[x] = c => lock'[x] = c
  BY <1>0, <1>1, <1>2 DEF TypeOK
<1>5. CallInv(c)
  BY DEF CommitInv
<1>6. LockInv(c)'
  <2>1. CASE buf' = buf /\ dirty' = dirty /\ lock' = lock
    BY <1>1, <1>5, <2>1 DEF CallInv, LockInv
  <2>2. CASE /\ Available(c, d)
             /\ lock' = [lock EXCEPT ![d] = c]
             /\ buf' = [buf EXCEPT ![c][d] = NewRow(w, View(c, d), base[c][i])]
             /\ dirty' = [dirty EXCEPT ![c] = @ \cup {d}]
    <3>1. /\ dirty'[c] = dirty[c] \cup {d}
          /\ lock'[d] = c
          /\ \A x \in Docs : x # d => lock'[x] = lock[x] /\ buf'[c][x] = buf[c][x]
          /\ buf'[c][d] = NewRow(w, View(c, d), base[c][i])
      BY <1>0, <2>2 DEF TypeOK
    <3>2. View(c, d) \in Row /\ View(c, d).version >= doc[d].version
      BY <1>0, <1>5 DEF View, TypeOK, CallInv, LockInv, Row
    <3>3. base[c][i] \in (0..MaxInt) \cup {NoFields}
      BY <1>0 DEF TypeOK
    <3>4. buf'[c][d].version = View(c, d).version + 1
      BY <1>0, <3>1, <3>2, <3>3, NewRowType, MaxIntAssumption
      DEF Apply, Overflows, Incremented, NoFields
    <3>5. buf'[c][d].version > doc[d].version
      <4>1. doc[d].version \in Nat /\ View(c, d).version \in Nat
        BY <1>0, <3>2 DEF TypeOK, Row
      <4> QED
        BY <3>2, <3>4, <4>1
    <3>6. dirty[c] \subseteq Docs
      BY DEF TypeOK
    <3>7. \A x \in Docs : lock'[x] = c => phase'[c] = "open"
      BY <1>1
    <3>8. \A x \in dirty'[c] : lock'[x] = c /\ buf'[c][x].version > doc'[x].version
      BY <1>0, <1>1, <1>5, <3>1, <3>5, <3>6 DEF CallInv, LockInv
    <3> QED
      BY <3>7, <3>8 DEF LockInv
  <2> QED
    BY <1>2, <2>1, <2>2
<1>7. ReadInv(c)'
  <2>1. \A x \in Docs : <<ReadStmt, x>> \notin todo'[c] => <<ReadStmt, x>> \notin todo[c]
    BY <1>4 DEF ReadStmt, ApplyStmt
  <2> QED
    BY <1>1, <1>4, <1>5, <2>1 DEF CallInv, ReadInv, Pinned
<1>8. PreInv(c)'
  <2>1. \A j : /\ <<TimeStmt, j>> \notin todo'[c] => <<TimeStmt, j>> \notin todo[c]
               /\ <<ExistsStmt, j>> \notin todo'[c] => <<ExistsStmt, j>> \notin todo[c]
    BY <1>4 DEF TimeStmt, ExistsStmt, ApplyStmt
  <2>2. \A j \in DOMAIN batch[c] : batch[c][j].doc \in Docs
    BY BatchType
  <2> QED
    BY <1>1, <1>4, <1>5, <2>1, <2>2 DEF CallInv, PreInv, Pinned
<1>9. FieldsInv(c)'
  <2>1. \A j : <<FieldsStmt, j>> \notin todo'[c] => <<FieldsStmt, j>> \notin todo[c]
    BY <1>4 DEF FieldsStmt, ApplyStmt
  <2>2. \A j \in DOMAIN batch[c] : batch[c][j].doc \in Docs
    BY BatchType
  <2> QED
    BY <1>1, <1>4, <1>5, <2>1, <2>2 DEF CallInv, FieldsInv, Pinned
<1> QED
  BY <1>3, <1>6, <1>7, <1>8, <1>9 DEF CallInv, CommitInv

\* A call that opens has verified nothing yet: everything is in its program.
LEMMA LoadInv ==
  ASSUME TypeOK, CommitInv, NEW c \in Calls, NEW t \in Txns, NEW b \in Batches,
         Load(c, t, b)
  PROVE  CommitInv'
<1>1. ASSUME NEW e \in Calls, e # c PROVE CallInv(e)'
  <2>1. Untouched(e)
    BY <1>1 DEF Load, TypeOK, Untouched
  <2> QED
    BY <2>1, Frame DEF CommitInv
<1>2. dirty[c] = {} /\ \A d \in Docs : lock[d] # c
  BY NotOpen DEF Load, CommitInv, CallInv
<1>3. CASE status[t] = "active" /\ ~aged[t]
  <2>1. /\ phase'[c] = "open" /\ batch'[c] = b /\ rset'[c] = reads[t]
        /\ todo'[c] = Program(b, reads[t])
        /\ dirty' = dirty /\ lock' = lock
    BY <1>3 DEF Load, TypeOK
  <2>2. LockInv(c)'
    BY <1>2, <2>1 DEF LockInv
  <2>3. ReadInv(c)'
    <3>1. \A d \in Docs : reads[t][d] \in Nat \ {Absent}
                            => <<ReadStmt, d>> \in Program(b, reads[t])
      BY DEF Program, NotRead
    <3> QED
      BY <2>1, <3>1 DEF ReadInv
  <2>4. PreInv(c)'
    <3>1. \A i \in DOMAIN b :
            /\ PreOf(b[i]) = "time" => <<TimeStmt, i>> \in Program(b, reads[t])
            /\ PreOf(b[i]) = "exists" => <<ExistsStmt, i>> \in Program(b, reads[t])
      BY DEF Program
    <3> QED
      BY <2>1, <3>1 DEF PreInv
  <2>5. FieldsInv(c)'
    <3>1. \A i \in DOMAIN b :
            HasTransforms(b[i]) => <<FieldsStmt, i>> \in Program(b, reads[t])
      BY DEF Program
    <3> QED
      BY <2>1, <3>1 DEF FieldsInv
  <2> QED
    BY <1>1, <2>2, <2>3, <2>4, <2>5 DEF CommitInv, CallInv
<1>4. CASE ~(status[t] = "active" /\ ~aged[t])
  <2>1. phase'[c] # "open" /\ dirty' = dirty /\ lock' = lock
    BY <1>4 DEF Load, TypeOK
  <2>2. CallInv(c)'
    BY <1>2, <2>1, Released
  <2> QED
    BY <1>1, <2>2 DEF CommitInv
<1> QED
  BY <1>3, <1>4

\* A commit changes the rows that its call has written, all of them locked.
LEMMA CommitRows ==
  ASSUME TypeOK, CommitInv, NEW c \in Calls, NEW result,
         CommitTransaction(c, result), NEW d \in Docs
  PROVE  /\ lock[d] # c => doc'[d] = doc[d]
         /\ doc'[d] # doc[d] => doc'[d].version > doc[d].version
<1>1. doc'[d] = View(c, d)
  BY DEF CommitTransaction
<1>2. LockInv(c)
  BY DEF CommitInv, CallInv
<1> QED
  BY <1>1, <1>2 DEF View, LockInv

-----------------------------------------------------------------------------
(* Whatever an open Commit call has verified stays true until its SQL      *)
(* transaction ends: read versions, UpdateTime and MustExist preconditions *)
(* and the persisted values of transforms, however many calls run.         *)
THEOREM CommitInvariant == Spec => []CommitInv
<1>1. Init => CommitInv
  BY NobodyAssumption DEF Init, CommitInv, CallInv, LockInv, ReadInv, PreInv, FieldsInv
<1>2. TypeOK /\ CommitInv /\ [Next]_vars => CommitInv'
  <2> SUFFICES ASSUME TypeOK, CommitInv, [Next]_vars PROVE CommitInv'
    OBVIOUS
  <2>0. ASSUME doc' = doc, UNCHANGED callVars PROVE CommitInv'
    <3>1. ASSUME NEW e \in Calls PROVE Untouched(e)
      BY <2>0 DEF Untouched, callVars
    <3> QED
      BY <3>1, Frame DEF CommitInv
  <2>1. ASSUME NEW t \in Txns, TxnStep(t) PROVE CommitInv'
    <3>1. doc' = doc /\ UNCHANGED callVars
      BY <2>1 DEF TxnStep, Begin, ReadSelect, RecordRead
    <3> QED
      BY <2>0, <3>1
  <2>2. ASSUME NEW t \in Ending, EndStep(t) PROVE CommitInv'
    <3>1. doc' = doc /\ UNCHANGED callVars
      BY <2>2 DEF EndStep, RollbackTransaction, Age, SweepExpire, SweepPurge
    <3> QED
      BY <2>0, <3>1
  <2>3. ASSUME NEW d \in WriteDocs, DocStep(d) PROVE CommitInv'
    <3>1. PICK row : Put(d, row)
      BY <2>3
      DEF DocStep, CreateDocument, UpdateDocument, UpdateExisting, DeleteDocument
    <3>2. ASSUME NEW e \in Calls PROVE Untouched(e)
      <4>1. UNCHANGED callVars
        BY <3>1 DEF Put
      <4>2. \A x \in Docs : lock[x] = e => doc'[x] = doc[x]
        BY <3>1, NobodyAssumption DEF Put, TypeOK
      <4> QED
        BY <4>1, <4>2 DEF Untouched, callVars
    <3> QED
      BY <3>2, Frame DEF CommitInv
  <2>4. ASSUME NEW c \in Calls, NEW t \in Txns, NEW b \in Batches, Load(c, t, b)
        PROVE  CommitInv'
    BY <2>4, LoadInv
  <2>5. ASSUME NEW c \in Calls, CallStep(c) PROVE CommitInv'
    <3>1. CASE MarkExpired(c)
      <4>1. dirty[c] = {} /\ \A d \in Docs : lock[d] # c
        BY <3>1, NotOpen DEF MarkExpired, CommitInv, CallInv
      <4>2. CallInv(c)'
        <5>1. phase'[c] # "open" /\ dirty' = dirty /\ lock' = lock
          BY <3>1 DEF MarkExpired, TypeOK
        <5> QED
          BY <4>1, <5>1, Released
      <4>3. ASSUME NEW e \in Calls, e # c PROVE CallInv(e)'
        <5>1. Untouched(e)
          BY <3>1, <4>3 DEF MarkExpired, TypeOK, Untouched
        <5> QED
          BY <5>1, Frame DEF CommitInv
      <4> QED
        BY <4>2, <4>3 DEF CommitInv
    <3>2. ASSUME NEW i \in DOMAIN batch[c],
                 \/ CheckUpdateTime(c, i) \/ CheckExists(c, i) \/ LockFields(c, i)
                 \/ Apply(c, i) \/ ApplyRefused(c, i)
          PROVE  CommitInv'
      <4>0. batch[c][i].doc \in Docs
        BY BatchType
      <4>1. CASE CheckUpdateTime(c, i)
        <5> DEFINE d == batch[c][i].doc
                   ok == doc[d].live /\ doc[d].version = batch[c][i].stamp
        <5>1. LockingCheck(c, TimeStmt, i, d, ok)
          BY <4>1 DEF CheckUpdateTime
        <5>2. TimeStmt # ReadStmt /\ TimeStmt # FieldsStmt /\ TimeStmt # ExistsStmt
          BY DEF TimeStmt, ReadStmt, FieldsStmt, ExistsStmt
        <5>3. ok => doc[d].live /\ doc[d].version = batch[c][i].stamp
          OBVIOUS
        <5> HIDE DEF ok
        <5> QED
          BY <4>0, <5>1, <5>2, <5>3, LockingCheckInv
      <4>2. CASE CheckExists(c, i)
        <5> DEFINE d == batch[c][i].doc
                   ok == doc[d].live <=> batch[c][i].pre = "exists"
        <5>1. LockingCheck(c, ExistsStmt, i, d, ok)
          BY <4>2 DEF CheckExists
        <5>2. ExistsStmt # ReadStmt /\ ExistsStmt # FieldsStmt /\ ExistsStmt # TimeStmt
          BY DEF TimeStmt, ReadStmt, FieldsStmt, ExistsStmt
        <5>3. ok /\ PreOf(batch[c][i]) = "exists" => doc[d].live
          BY DEF PreOf
        <5> HIDE DEF ok
        <5> QED
          BY <4>0, <5>1, <5>2, <5>3, LockingCheckInv
      <4>3. CASE LockFields(c, i)
        BY <4>3, LockFieldsInv
      <4>4. CASE Apply(c, i)
        BY <4>4, ApplyInv
      <4>5. CASE ApplyRefused(c, i)
        BY <4>5, RollBackInv DEF ApplyRefused, Returned
      <4> QED
        BY <3>2, <4>1, <4>2, <4>3, <4>4, <4>5
    <3>3. ASSUME NEW d \in Docs, VerifyRead(c, d) PROVE CommitInv'
      <4> DEFINE ok == IF doc[d].live THEN rset[c][d] = doc[d].version
                                      ELSE rset[c][d] = Absent
      <4>1. LockingCheck(c, ReadStmt, d, d, ok)
        BY <3>3 DEF VerifyRead
      <4>2. ReadStmt # TimeStmt /\ ReadStmt # FieldsStmt /\ ReadStmt # ExistsStmt
        BY DEF TimeStmt, ReadStmt, FieldsStmt, ExistsStmt
      <4>3. ok /\ rset[c][d] \in Nat \ {Absent}
              => doc[d].live /\ doc[d].version = rset[c][d]
        OBVIOUS
      <4> HIDE DEF ok
      <4> QED
        BY <4>1, <4>2, <4>3, LockingCheckInv
    <3>4. ASSUME NEW result \in {"ok", "ackLost"}, CommitTransaction(c, result)
          PROVE  CommitInv'
      <4>1. result \in Returned /\ Finish(c, result)
        BY <3>4 DEF CommitTransaction, Returned
      <4>2. \A d \in Docs : lock[d] # c => doc'[d] = doc[d]
        BY <3>4, CommitRows
      <4> QED
        BY <4>1, <4>2, FinishInv
    <3>5. CASE DeadlockDetected(c)
      BY <3>5, RollBackInv DEF DeadlockDetected, Returned
    <3> QED
      BY <2>5, <3>1, <3>2, <3>3, <3>4, <3>5 DEF CallStep
  <2>6. ASSUME NEW c \in Calls, Unavailable(c) PROVE CommitInv'
    BY <2>6, RollBackInv DEF Unavailable, Returned
  <2>7. CASE UNCHANGED vars
    BY <2>0, <2>7 DEF vars, callVars
  <2> QED
    BY <2>1, <2>2, <2>3, <2>4, <2>5, <2>6, <2>7 DEF Next
<1> QED
  BY <1>1, <1>2, TypeCorrect, PTL DEF Spec

\* A step in which a call commits is that call's CommitTransaction.
LEMMA OnlyCommitCommits ==
  ASSUME TypeOK, [Next]_vars, NEW c \in Calls, Committing(c)
  PROVE  todo[c] = {}
<1>1. CASE UNCHANGED vars
  BY <1>1 DEF vars, Committing
<1>2. ASSUME NEW t \in Txns, TxnStep(t) PROVE FALSE
  BY <1>2 DEF TxnStep, Begin, ReadSelect, RecordRead, callVars, Committing
<1>3. ASSUME NEW t \in Ending, EndStep(t) PROVE FALSE
  BY <1>3
  DEF EndStep, RollbackTransaction, Age, SweepExpire, SweepPurge, callVars, Committing
<1>4. ASSUME NEW d \in WriteDocs, DocStep(d) PROVE FALSE
  BY <1>4 DEF DocStep, CreateDocument, UpdateDocument, UpdateExisting, DeleteDocument,
              Put, callVars, Committing
<1>5. ASSUME NEW e \in Calls, NEW t \in Txns, NEW b \in Batches, Load(e, t, b)
      PROVE  FALSE
  BY <1>5 DEF Load, TypeOK, Committing
<1>6. ASSUME NEW e \in Calls, NEW result, RollBack(e, result),
             result \notin {"ok", "ackLost"}
      PROVE  FALSE
  BY <1>6 DEF RollBack, Finish, TypeOK, Committing
<1>7. ASSUME NEW e \in Calls, CallStep(e) PROVE todo[c] = {}
  <2>1. CASE MarkExpired(e)
    BY <2>1 DEF MarkExpired, TypeOK, Committing
  <2>2. ASSUME NEW k, NEW i, NEW d, NEW ok, LockingCheck(e, k, i, d, ok) PROVE FALSE
    BY <1>6, <2>2 DEF LockingCheck, Committing
  <2>3. ASSUME NEW i \in DOMAIN batch[e],
               \/ CheckUpdateTime(e, i) \/ CheckExists(e, i) \/ LockFields(e, i)
               \/ Apply(e, i) \/ ApplyRefused(e, i)
        PROVE  FALSE
    <3>1. CASE CheckUpdateTime(e, i)
      BY <2>2, <3>1 DEF CheckUpdateTime
    <3>2. CASE CheckExists(e, i)
      BY <2>2, <3>2 DEF CheckExists
    <3>3. CASE LockFields(e, i) \/ Apply(e, i)
      BY <3>3 DEF LockFields, Apply, Committing
    <3>4. CASE ApplyRefused(e, i)
      BY <1>6, <3>4 DEF ApplyRefused
    <3> QED
      BY <2>3, <3>1, <3>2, <3>3, <3>4
  <2>4. ASSUME NEW d \in Docs, VerifyRead(e, d) PROVE FALSE
    BY <2>2, <2>4 DEF VerifyRead
  <2>5. ASSUME NEW result \in {"ok", "ackLost"}, CommitTransaction(e, result)
        PROVE  todo[c] = {}
    BY <2>5 DEF CommitTransaction, Finish, TypeOK, Committing
  <2>6. CASE DeadlockDetected(e)
    BY <1>6, <2>6 DEF DeadlockDetected
  <2> QED
    BY <1>7, <2>1, <2>3, <2>4, <2>5, <2>6 DEF CallStep
<1>8. ASSUME NEW e \in Calls, Unavailable(e) PROVE FALSE
  BY <1>6, <1>8 DEF Unavailable
<1> QED
  BY <1>1, <1>2, <1>3, <1>4, <1>5, <1>7, <1>8 DEF Next

(* Optimistic concurrency control is sound for documents that were read    *)
(* as present: they are unchanged at the instant the commit takes effect.  *)
THEOREM ReadsHold == Spec => ReadsHoldAtCommit
<1>1. TypeOK /\ CommitInv /\ [Next]_vars =>
        [\A c \in Calls : Committing(c) =>
           \A d \in Docs : rset[c][d] \in Nat \ {Absent} =>
             doc[d].live /\ doc[d].version = rset[c][d]]_vars
  <2> SUFFICES ASSUME TypeOK, CommitInv, [Next]_vars, NEW c \in Calls, Committing(c),
                      NEW d \in Docs, rset[c][d] \in Nat \ {Absent}
               PROVE  doc[d].live /\ doc[d].version = rset[c][d]
    OBVIOUS
  <2>1. todo[c] = {} /\ phase[c] = "open"
    BY OnlyCommitCommits DEF Committing
  <2> QED
    BY <2>1 DEF CommitInv, CallInv, ReadInv, Pinned
<1> QED
  BY <1>1, TypeCorrect, CommitInvariant, PTL DEF Spec, ReadsHoldAtCommit

(* UpdateTime and MustExist preconditions hold at the instant the commit   *)
(* takes effect, not only when their loop checked them.                    *)
THEOREM PreconditionsHold == Spec => PreconditionsHoldAtCommit
<1>1. TypeOK /\ CommitInv /\ [Next]_vars =>
        [\A c \in Calls : Committing(c) =>
           \A i \in DOMAIN batch[c] :
             LET w == batch[c][i] IN
             /\ PreOf(w) = "exists" => doc[w.doc].live
             /\ PreOf(w) = "time" =>
                  doc[w.doc].live /\ doc[w.doc].version = w.stamp]_vars
  <2> SUFFICES ASSUME TypeOK, CommitInv, [Next]_vars, NEW c \in Calls, Committing(c),
                      NEW i \in DOMAIN batch[c]
               PROVE  /\ PreOf(batch[c][i]) = "exists" => doc[batch[c][i].doc].live
                      /\ PreOf(batch[c][i]) = "time" =>
                           /\ doc[batch[c][i].doc].live
                           /\ doc[batch[c][i].doc].version = batch[c][i].stamp
    OBVIOUS
  <2>1. todo[c] = {} /\ phase[c] = "open"
    BY OnlyCommitCommits DEF Committing
  <2> QED
    BY <2>1 DEF CommitInv, CallInv, PreInv, Pinned
<1> QED
  BY <1>1, TypeCorrect, CommitInvariant, PTL DEF Spec, PreconditionsHoldAtCommit

(* An increment computed from a persisted value takes effect on that same  *)
(* value: increments of present documents are never lost.                  *)
THEOREM LockedFieldsHold == Spec => LockedFieldsCurrent
<1>1. TypeOK /\ CommitInv /\ [Next]_vars =>
        [\A c \in Calls : Committing(c) =>
           \A i \in DOMAIN batch[c] :
             LET w == batch[c][i] IN
             HasTransforms(w) /\ base[c][i] # NoFields =>
               doc[w.doc].live /\ doc[w.doc].val = base[c][i]]_vars
  <2> SUFFICES ASSUME TypeOK, CommitInv, [Next]_vars, NEW c \in Calls, Committing(c),
                      NEW i \in DOMAIN batch[c], HasTransforms(batch[c][i]),
                      base[c][i] # NoFields
               PROVE  /\ doc[batch[c][i].doc].live
                      /\ doc[batch[c][i].doc].val = base[c][i]
    OBVIOUS
  <2>1. todo[c] = {} /\ phase[c] = "open"
    BY OnlyCommitCommits DEF Committing
  <2> QED
    BY <2>1 DEF CommitInv, CallInv, FieldsInv, Pinned
<1> QED
  BY <1>1, TypeCorrect, CommitInvariant, PTL DEF Spec, LockedFieldsCurrent

(* No step changes a row without raising its version, so equal versions    *)
(* mean equal contents: the token that optimistic concurrency relies on.   *)
THEOREM VersionsNeverReused == Spec => VersionsIncrease
<1>1. TypeOK /\ CommitInv /\ [Next]_vars =>
        [\A d \in Docs : doc'[d] # doc[d] => doc'[d].version > doc[d].version]_vars
  <2> SUFFICES ASSUME TypeOK, CommitInv, [Next]_vars, NEW x \in Docs, doc'[x] # doc[x]
               PROVE  doc'[x].version > doc[x].version
    OBVIOUS
  <2>0. doc[x].version \in Nat
    BY DEF TypeOK, Row
  <2>1. ASSUME NEW d \in WriteDocs, DocStep(d) PROVE doc'[x].version > doc[x].version
    <3>1. \/ Put(d, Written(d))
          \/ Put(d, [version |-> doc[d].version + 1, live |-> FALSE, val |-> doc[d].val])
      BY <2>1
      DEF DocStep, CreateDocument, UpdateDocument, UpdateExisting, DeleteDocument
    <3>2. d \in Docs
      BY DocsAssumption
    <3>3. doc'[x].version = doc[x].version + 1
      BY <3>1, <3>2 DEF Put, Written, TypeOK
    <3> QED
      BY <2>0, <3>3
  <2>2. ASSUME NEW c \in Calls, NEW result, CommitTransaction(c, result)
        PROVE  doc'[x].version > doc[x].version
    BY <2>2, CommitRows
  <2>3. ASSUME NEW c \in Calls, CallStep(c) PROVE doc'[x].version > doc[x].version
    <3>1. ~MarkExpired(c)
      BY DEF MarkExpired
    <3>2. ASSUME NEW result PROVE ~RollBack(c, result)
      BY DEF RollBack
    <3>3. ASSUME NEW k, NEW i, NEW d, NEW ok PROVE ~LockingCheck(c, k, i, d, ok)
      BY <3>2 DEF LockingCheck
    <3>4. ASSUME NEW i
          PROVE  /\ ~CheckUpdateTime(c, i) /\ ~CheckExists(c, i) /\ ~LockFields(c, i)
                 /\ ~Apply(c, i) /\ ~ApplyRefused(c, i) /\ ~VerifyRead(c, i)
      <4>1. ~CheckUpdateTime(c, i)
        BY <3>3 DEF CheckUpdateTime
      <4>2. ~CheckExists(c, i)
        BY <3>3 DEF CheckExists
      <4>3. ~VerifyRead(c, i)
        BY <3>3 DEF VerifyRead
      <4> QED
        BY <3>2, <4>1, <4>2, <4>3 DEF LockFields, Apply, ApplyRefused
    <3>5. ~DeadlockDetected(c)
      BY <3>2 DEF DeadlockDetected
    <3> QED
      BY <2>2, <2>3, <3>1, <3>4, <3>5 DEF CallStep
  <2>4. ASSUME NEW c \in Calls PROVE ~Unavailable(c)
    BY DEF Unavailable, RollBack
  <2>5. ASSUME NEW t PROVE ~TxnStep(t) /\ ~EndStep(t)
    BY DEF TxnStep, Begin, ReadSelect, RecordRead, EndStep, RollbackTransaction, Age,
           SweepExpire, SweepPurge
  <2>6. ASSUME NEW c, NEW t, NEW b PROVE ~Load(c, t, b)
    BY DEF Load
  <2>7. ~UNCHANGED vars
    BY DEF vars
  <2> QED
    BY <2>1, <2>3, <2>4, <2>5, <2>6, <2>7 DEF Next
<1> QED
  BY <1>1, TypeCorrect, CommitInvariant, PTL DEF Spec, VersionsIncrease

-----------------------------------------------------------------------------
(* The rows that a call has written so far.  They are those that its       *)
(* applied writes make of the table, in order, where deletes that came     *)
(* before the row was there have changed nothing.                          *)

\* The writes of b to d that have taken effect when the statements `left` are
\* still to run and the row of d is there for those from `from` on.
Applied(b, left, d, from) ==
  {i \in Occ!Effective(b, d, from) : <<ApplyStmt, i>> \notin left}

\* Row `new` is what these writes make of row `old`.
Makes(b, S, old, new) ==
  /\ S # {}
  /\ new.version = old.version + Cardinality(S)
  /\ new.live = (b[Occ!LastOf(S)].op # "delete")

\* The writes of b that are not in `left` have been applied, in order, to the
\* rows in D, and have made rows `new` of rows `old`.
Progress(b, left, D, old, new) ==
  /\ \A i, j \in DOMAIN b :
       <<ApplyStmt, i>> \in left /\ <<ApplyStmt, j>> \notin left => j < i
  /\ \A d \in Docs \ D : Applied(b, left, d, Len(b) + 1) = {}
  /\ \A d \in D : \E from \in 1..(Len(b) + 1) :
       /\ from <= Len(b) => old[d].version > 0
       /\ Makes(b, Applied(b, left, d, from), old[d], new[d])

RowInv(c) ==
  /\ phase[c] = "open" => Progress(batch[c], todo[c], dirty[c], doc, buf[c])
  /\ phase[c] # "open" => batch[c] = <<>>

RowsInv == \A c \in Calls : RowInv(c)

\* What it means that write i of b has taken effect on d.
LEMMA AppliedIs ==
  ASSUME NEW b, NEW left, NEW d, NEW from, NEW i
  PROVE  i \in Applied(b, left, d, from) <=>
           /\ i \in DOMAIN b /\ b[i].doc = d /\ <<ApplyStmt, i>> \notin left
           /\ i >= from \/ \E j \in 1..i : b[j].doc = d /\ b[j].op # "delete"
BY DEF Applied, Occ!Effective

\* A write has no effect on the other documents.
LEMMA AppliedOthers ==
  ASSUME NEW b, NEW left, NEW i, NEW x, x # b[i].doc, NEW f
  PROVE  Applied(b, left \ {<<ApplyStmt, i>>}, x, f) = Applied(b, left, x, f)
<1> DEFINE new == left \ {<<ApplyStmt, i>>}
<1>1. ASSUME NEW j PROVE j \in Applied(b, new, x, f) <=> j \in Applied(b, left, x, f)
  <2>1. b[j].doc = x => (<<ApplyStmt, j>> \in new <=> <<ApplyStmt, j>> \in left)
    OBVIOUS
  <2>2. j \in Applied(b, left, x, f) <=>
          /\ j \in DOMAIN b /\ b[j].doc = x /\ <<ApplyStmt, j>> \notin left
          /\ j >= f \/ \E m \in 1..j : b[m].doc = x /\ b[m].op # "delete"
    BY AppliedIs
  <2> HIDE DEF new
  <2>3. j \in Applied(b, new, x, f) <=>
          /\ j \in DOMAIN b /\ b[j].doc = x /\ <<ApplyStmt, j>> \notin new
          /\ j >= f \/ \E m \in 1..j : b[m].doc = x /\ b[m].op # "delete"
    BY AppliedIs
  <2> QED
    BY <2>1, <2>2, <2>3
<1> HIDE DEF new
<1>2. Applied(b, new, x, f) = Applied(b, left, x, f)
  BY <1>1 DEF Applied
<1> QED
  BY <1>2 DEF new

\* The writes before i have been applied, the others have not.
UpTo(b, left, i) ==
  /\ \A j \in DOMAIN b : <<ApplyStmt, j>> \in left => i <= j
  /\ \A j \in DOMAIN b : <<ApplyStmt, j>> \notin left => j < i

\* One write more: what it adds to the writes that have taken effect.
LEMMA AppliedNext ==
  ASSUME NEW b \in WriteLists, NEW left, NEW i \in DOMAIN b, UpTo(b, left, i)
  PROVE  /\ b[i].op = "delete" /\ Applied(b, left, b[i].doc, Len(b) + 1) = {} =>
              /\ Applied(b, left \ {<<ApplyStmt, i>>}, b[i].doc, Len(b) + 1) = {}
              /\ Applied(b, left \ {<<ApplyStmt, i>>}, b[i].doc, i) = {i}
         /\ b[i].op # "delete" /\ Applied(b, left, b[i].doc, Len(b) + 1) = {} =>
              Applied(b, left \ {<<ApplyStmt, i>>}, b[i].doc, Len(b) + 1) = {i}
         /\ \A f \in 1..(Len(b) + 1) :
              /\ Applied(b, left, b[i].doc, f) # {} =>
                   Applied(b, left \ {<<ApplyStmt, i>>}, b[i].doc, f)
                     = Applied(b, left, b[i].doc, f) \cup {i}
              /\ \A a \in Applied(b, left, b[i].doc, f) : a < i
<1> DEFINE new == left \ {<<ApplyStmt, i>>}
           d == b[i].doc
           n == Len(b) + 1
           Old(f) == Applied(b, left, d, f)
           New(f) == Applied(b, new, d, f)
           Made(j) == \E m \in 1..j : b[m].doc = d /\ b[m].op # "delete"
<1>0. DOMAIN b = 1..Len(b) /\ Len(b) \in Nat /\ DOMAIN b \subseteq Nat
  BY DEF WriteLists
<1>1. \A j : <<ApplyStmt, j>> \in new <=> <<ApplyStmt, j>> \in left /\ j # i
  OBVIOUS
<1>2. \A f : \A j : j \in Old(f) <=> /\ j \in DOMAIN b /\ b[j].doc = d /\ <<ApplyStmt, j>> \notin left
                                     /\ j >= f \/ Made(j)
  BY AppliedIs
<1>3. \A f : \A j : j \in New(f) <=> /\ j \in DOMAIN b /\ b[j].doc = d
                                     /\ <<ApplyStmt, j>> \notin left \/ j = i
                                     /\ j >= f \/ Made(j)
  BY <1>1, AppliedIs
<1>5. \A f : \A a \in Old(f) : a < i /\ a \in Nat
  BY <1>0, <1>2 DEF UpTo
<1>6. ASSUME NEW j \in DOMAIN b, Made(j), j <= i, Old(n) = {} PROVE j = i /\ b[i].op # "delete"
  <2>1. PICK m \in 1..j : b[m].doc = d /\ b[m].op # "delete"
    BY <1>6
  <2>2. m \in DOMAIN b /\ m <= i /\ m \in Nat /\ i \in Nat /\ j \in Nat
    BY <1>0, <1>6
  <2>3. Made(m)
    BY <2>1, <2>2
  <2>4. <<ApplyStmt, m>> \in left
    BY <1>2, <1>6, <2>1, <2>2, <2>3
  <2>5. i <= m
    BY <2>2, <2>4 DEF UpTo
  <2>6. m = i /\ j = i
    BY <1>6, <2>2, <2>5
  <2> QED
    BY <2>1, <2>6
<1>7. ASSUME NEW f, NEW j \in New(f) PROVE j \in DOMAIN b /\ j <= i /\ (j >= f \/ Made(j))
  <2>1. /\ j \in DOMAIN b /\ (<<ApplyStmt, j>> \notin left \/ j = i)
        /\ j >= f \/ Made(j)
    BY <1>3, <1>7
  <2>2. j \in Nat /\ i \in Nat
    BY <1>0, <2>1
  <2> QED
    BY <2>1, <2>2 DEF UpTo
<1>8. ASSUME b[i].op = "delete", Old(n) = {} PROVE New(n) = {} /\ New(i) = {i}
  <2>1. ASSUME NEW j \in New(n) PROVE FALSE
    <3>1. j \in DOMAIN b /\ j <= i /\ (j >= n \/ Made(j))
      BY <1>7
    <3>2. ~(j >= n)
      BY <1>0, <3>1
    <3> QED
      BY <1>6, <1>8, <3>1, <3>2
  <2>2. i \in New(i)
    <3>1. i >= i
      BY <1>0
    <3> HIDE DEF New, Made
    <3> QED
      BY <1>3, <3>1
  <2>3. ASSUME NEW j \in New(i) PROVE j = i
    <3>1. j \in DOMAIN b /\ j <= i /\ (j >= i \/ Made(j))
      BY <1>7
    <3>2. j \in Nat /\ i \in Nat
      BY <1>0, <3>1
    <3> QED
      BY <1>6, <1>8, <3>1, <3>2
  <2> QED
    BY <2>1, <2>2, <2>3
<1>9. ASSUME b[i].op # "delete", Old(n) = {} PROVE New(n) = {i}
  <2>1. Made(i)
    BY <1>0, <1>9
  <2>2. i \in New(n)
    BY <1>3, <2>1
  <2>3. ASSUME NEW j \in New(n) PROVE j = i
    <3>1. j \in DOMAIN b /\ j <= i /\ (j >= n \/ Made(j))
      BY <1>7
    <3>2. ~(j >= n)
      BY <1>0, <3>1
    <3> QED
      BY <1>6, <1>9, <3>1, <3>2
  <2> QED
    BY <2>2, <2>3
<1>10. ASSUME NEW f \in 1..n, Old(f) # {} PROVE New(f) = Old(f) \cup {i}
  <2>1. PICK a : a \in Old(f)
    BY <1>10
  <2>2. a < i /\ a \in Nat /\ i \in Nat /\ (a >= f \/ Made(a)) /\ f \in Nat
    <3>1. a >= f \/ Made(a)
      BY <1>2, <2>1
    <3>2. a < i /\ a \in Nat
      BY <1>5, <2>1
    <3> QED
      BY <1>0, <3>1, <3>2
  <2>3. i >= f \/ Made(i)
    BY <2>2
  <2>4. i \in New(f)
    BY <1>3, <2>3
  <2> HIDE DEF Made
  <2>5. \A j : j \in New(f) <=> j \in Old(f) \/ j = i
    BY <1>2, <1>3, <2>4
  <2> HIDE DEF New, Old
  <2> QED
    BY <2>5
<1> QED
  BY <1>5, <1>8, <1>9, <1>10

\* The first write of a row that takes effect, and another after it.
LEMMA LastIs ==
  ASSUME NEW S, S \subseteq Nat, NEW i \in S, \A a \in S : a <= i
  PROVE  Occ!LastOf(S) = i
<1> DEFINE Top(k) == \A a \in S : a <= k
           c == CHOOSE k \in S : Top(k)
<1>1. Top(i)
  OBVIOUS
<1>2. c \in S /\ Top(c)
  BY <1>1, Zenon
<1>3. c <= i /\ i <= c /\ c \in Nat /\ i \in Nat
  BY <1>2
<1>4. Occ!LastOf(S) = c
  BY DEF Occ!LastOf
<1> HIDE DEF c
<1> QED
  BY <1>3, <1>4

\* The first write of a row that takes effect makes the row.
LEMMA MakesFirst ==
  ASSUME NEW b, NEW i \in Nat, NEW old, NEW new, old.version \in Nat,
         new.version = old.version + 1, new.live = (b[i].op # "delete")
  PROVE  Makes(b, {i}, old, new)
<1>1. Occ!LastOf({i}) = i
  BY LastIs
<1>2. Cardinality({i}) = 1
  BY FS_Singleton
<1> QED
  BY <1>1, <1>2 DEF Makes

\* The same with the writes before it.
LEMMA MakesMore ==
  ASSUME NEW b, NEW S, S \subseteq Nat, IsFiniteSet(S), NEW i \in Nat, \A a \in S : a < i,
         NEW old, NEW mid, NEW new, old.version \in Nat, Makes(b, S, old, mid),
         new.version = mid.version + 1, new.live = (b[i].op # "delete")
  PROVE  Makes(b, S \cup {i}, old, new)
<1>0. \A a \in S \cup {i} : a <= i /\ a \in Nat
  OBVIOUS
<1>1. Occ!LastOf(S \cup {i}) = i
  BY <1>0, LastIs
<1>2. i \notin S
  OBVIOUS
<1>3. Cardinality(S \cup {i}) = Cardinality(S) + 1 /\ Cardinality(S) \in Nat
  BY <1>2, FS_AddElement, FS_CardinalityType
<1>4. mid.version = old.version + Cardinality(S)
  BY DEF Makes
<1>5. new.version = old.version + Cardinality(S \cup {i})
  BY <1>3, <1>4
<1> QED
  BY <1>1, <1>5 DEF Makes

\* The writes that have taken effect are finitely many.
LEMMA AppliedType ==
  ASSUME NEW b \in WriteLists, NEW left, NEW d, NEW from
  PROVE  Applied(b, left, d, from) \subseteq Nat /\ IsFiniteSet(Applied(b, left, d, from))
<1>1. DOMAIN b = 1..Len(b) /\ Len(b) \in Nat
  BY DEF WriteLists
<1>2. Applied(b, left, d, from) \subseteq 1..Len(b)
  BY <1>1 DEF Applied, Occ!Effective
<1>3. IsFiniteSet(1..Len(b))
  BY <1>1, FS_Interval
<1> QED
  BY <1>1, <1>2, <1>3, FS_Subset

-----------------------------------------------------------------------------
(* The steps of everybody else leave a call and its rows alone.            *)

OwnStep(c) ==
  \/ \E t \in Txns, b \in Batches : Load(c, t, b)
  \/ CallStep(c) \/ Unavailable(c)

\* A step that is not a step of call e leaves it untouched.
LEMMA StepUntouched ==
  ASSUME TypeOK, CommitInv, [Next]_vars, NEW e \in Calls, ~OwnStep(e)
  PROVE  Untouched(e)
<1>0. ASSUME doc' = doc, UNCHANGED callVars PROVE Untouched(e)
  BY <1>0 DEF Untouched, callVars
<1>1. ASSUME NEW t, TxnStep(t) \/ EndStep(t) PROVE Untouched(e)
  BY <1>0, <1>1 DEF TxnStep, Begin, ReadSelect, RecordRead, EndStep, RollbackTransaction, Age,
                    SweepExpire, SweepPurge
<1>2. ASSUME NEW d \in WriteDocs, DocStep(d) PROVE Untouched(e)
  <2>1. PICK row : Put(d, row)
    BY <1>2 DEF DocStep, CreateDocument, UpdateDocument, UpdateExisting, DeleteDocument
  <2>2. \A x \in Docs : lock[x] = e => doc'[x] = doc[x]
    BY <2>1, NobodyAssumption DEF Put, TypeOK
  <2> QED
    BY <2>1, <2>2 DEF Put, Untouched, callVars
<1>3. ASSUME NEW c \in Calls, NEW t \in Txns, NEW b \in Batches, Load(c, t, b) PROVE Untouched(e)
  <2>1. c # e
    BY <1>3 DEF OwnStep
  <2> QED
    BY <1>3, <2>1 DEF Load, Untouched, TypeOK
<1>4. ASSUME NEW c \in Calls, c # e, NEW result, Finish(c, result),
             \A d \in Docs : lock[d] # c => doc'[d] = doc[d]
      PROVE  Untouched(e)
  BY <1>4, NobodyAssumption DEF Finish, TypeOK, Untouched
<1>5. ASSUME NEW c \in Calls, c # e, NEW result, RollBack(c, result) PROVE Untouched(e)
  BY <1>4, <1>5 DEF RollBack
<1>6. ASSUME NEW c \in Calls, c # e, NEW d \in Docs, doc' = doc,
             lock' = lock \/ (Available(c, d) /\ lock' = [lock EXCEPT ![d] = c]),
             UNCHANGED <<phase, batch, rset>>, todo'[e] = todo[e], base'[e] = base[e],
             buf'[e] = buf[e], dirty'[e] = dirty[e]
      PROVE  Untouched(e)
  <2>1. \A x \in Docs : lock'[x] = e <=> lock[x] = e
    BY <1>6, NobodyAssumption DEF TypeOK, Available
  <2> QED
    BY <1>6, <2>1 DEF Untouched
<1>7. ASSUME NEW c \in Calls, c # e, NEW k, NEW i, NEW d \in Docs, NEW ok, LockingCheck(c, k, i, d, ok)
      PROVE  Untouched(e)
  <2>1. CASE ok
    <3>1. lock' = lock \/ (Available(c, d) /\ lock' = [lock EXCEPT ![d] = c])
      BY <1>7, <2>1 DEF LockingCheck, ForUpdateLock, ForUpdateWaits
    <3>2. /\ doc' = doc /\ UNCHANGED <<phase, batch, rset>> /\ todo'[e] = todo[e]
          /\ base'[e] = base[e] /\ buf'[e] = buf[e] /\ dirty'[e] = dirty[e]
      BY <1>7, <2>1 DEF LockingCheck, Done, TypeOK
    <3> QED
      BY <1>6, <1>7, <3>1, <3>2
  <2>2. CASE ~ok
    BY <1>5, <1>7, <2>2 DEF LockingCheck
  <2> QED
    BY <2>1, <2>2
<1>8. ASSUME NEW c \in Calls, c # e, CallStep(c) PROVE Untouched(e)
  <2>1. CASE MarkExpired(c)
    BY <1>8, <2>1 DEF MarkExpired, TypeOK, Untouched
  <2>2. ASSUME NEW i \in DOMAIN batch[c],
               \/ CheckUpdateTime(c, i) \/ CheckExists(c, i) \/ LockFields(c, i)
               \/ Apply(c, i) \/ ApplyRefused(c, i)
        PROVE  Untouched(e)
    <3> DEFINE d == batch[c][i].doc
    <3>0. d \in Docs
      BY BatchType
    <3>1. CASE CheckUpdateTime(c, i)
      BY <1>7, <1>8, <3>0, <3>1 DEF CheckUpdateTime
    <3>2. CASE CheckExists(c, i)
      BY <1>7, <1>8, <3>0, <3>2 DEF CheckExists
    <3>3. CASE LockFields(c, i)
      <4>1. lock' = lock \/ (Available(c, d) /\ lock' = [lock EXCEPT ![d] = c])
        BY <3>3 DEF LockFields, ForUpdateLock, ForUpdateWaits
      <4>2. /\ doc' = doc /\ UNCHANGED <<phase, batch, rset>> /\ todo'[e] = todo[e]
            /\ base'[e] = base[e] /\ buf'[e] = buf[e] /\ dirty'[e] = dirty[e]
        BY <1>8, <3>3 DEF LockFields, Done, TypeOK
      <4> HIDE DEF d
      <4> QED
        BY <1>6, <1>8, <3>0, <4>1, <4>2
    <3>4. CASE Apply(c, i)
      <4>1. lock' = lock \/ (Available(c, d) /\ lock' = [lock EXCEPT ![d] = c])
        BY <3>4 DEF Apply
      <4>2. /\ doc' = doc /\ UNCHANGED <<phase, batch, rset>> /\ todo'[e] = todo[e]
            /\ base'[e] = base[e] /\ buf'[e] = buf[e] /\ dirty'[e] = dirty[e]
        BY <1>8, <3>4 DEF Apply, Done, TypeOK
      <4> HIDE DEF d
      <4> QED
        BY <1>6, <1>8, <3>0, <4>1, <4>2
    <3>5. CASE ApplyRefused(c, i)
      BY <1>5, <1>8, <3>5 DEF ApplyRefused
    <3> QED
      BY <2>2, <3>1, <3>2, <3>3, <3>4, <3>5
  <2>3. ASSUME NEW d \in Docs, VerifyRead(c, d) PROVE Untouched(e)
    BY <1>7, <1>8, <2>3 DEF VerifyRead
  <2>4. ASSUME NEW result, CommitTransaction(c, result) PROVE Untouched(e)
    <3>1. \A d \in Docs : lock[d] # c => doc'[d] = doc[d]
      BY <2>4, CommitRows
    <3> QED
      BY <1>4, <1>8, <2>4, <3>1 DEF CommitTransaction
  <2>5. CASE DeadlockDetected(c)
    BY <1>5, <1>8, <2>5 DEF DeadlockDetected
  <2> QED
    BY <1>8, <2>1, <2>2, <2>3, <2>4, <2>5 DEF CallStep
<1>9. ASSUME NEW c \in Calls, c # e, Unavailable(c) PROVE Untouched(e)
  BY <1>5, <1>9 DEF Unavailable
<1>10. CASE UNCHANGED vars
  BY <1>0, <1>10 DEF vars, callVars
<1> QED
  BY <1>1, <1>2, <1>3, <1>8, <1>9, <1>10 DEF Next, OwnStep

-----------------------------------------------------------------------------
(* Every step keeps what the uncommitted rows of a call say of its writes.  *)

\* Only the statements that apply writes, and the rows written, matter.
LEMMA ProgressFrame ==
  ASSUME NEW b, NEW left, NEW more, NEW D, NEW old, NEW now, NEW new,
         \A j : <<ApplyStmt, j>> \in more <=> <<ApplyStmt, j>> \in left,
         \A d \in D : now[d] = old[d], Progress(b, left, D, old, new)
  PROVE  Progress(b, more, D, now, new)
<1>1. ASSUME NEW d, NEW from PROVE Applied(b, more, d, from) = Applied(b, left, d, from)
  BY DEF Applied
<1>2. \A i, j \in DOMAIN b :
        <<ApplyStmt, i>> \in more /\ <<ApplyStmt, j>> \notin more => j < i
  BY DEF Progress
<1>3. \A d \in Docs \ D : Applied(b, more, d, Len(b) + 1) = {}
  BY <1>1 DEF Progress
<1>4. ASSUME NEW d \in D
      PROVE  \E from \in 1..(Len(b) + 1) :
               /\ from <= Len(b) => now[d].version > 0
               /\ Makes(b, Applied(b, more, d, from), now[d], new[d])
  BY <1>1 DEF Progress
<1> QED
  BY <1>2, <1>3, <1>4 DEF Progress

\* A call whose batch is all still to be applied has made nothing.
LEMMA ProgressStart ==
  ASSUME NEW b, NEW left, NEW old, NEW new, \A i \in DOMAIN b : <<ApplyStmt, i>> \in left
  PROVE  Progress(b, left, {}, old, new)
<1>1. ASSUME NEW d PROVE Applied(b, left, d, Len(b) + 1) = {}
  BY DEF Applied, Occ!Effective
<1> QED
  BY <1>1 DEF Progress

\* A delete that finds no row has no effect.
LEMMA ProgressSkip ==
  ASSUME NEW b \in WriteLists, NEW left, NEW D, NEW old, NEW new, NEW i \in DOMAIN b,
         \A j \in DOMAIN b : <<ApplyStmt, j>> \in left => i <= j,
         <<ApplyStmt, i>> \in left, b[i].doc \in Docs \ D, b[i].op = "delete",
         D \subseteq Docs, Progress(b, left, D, old, new)
  PROVE  Progress(b, left \ {<<ApplyStmt, i>>}, D, old, new)
<1> DEFINE d == b[i].doc
           n == Len(b) + 1
           less == left \ {<<ApplyStmt, i>>}
<1>0. DOMAIN b = 1..Len(b) /\ Len(b) \in Nat /\ i \in Nat /\ n \in 1..n
  BY DEF WriteLists
<1>1. \A j \in DOMAIN b : <<ApplyStmt, j>> \notin left => j < i
  BY DEF Progress
<1>2. Applied(b, left, d, n) = {}
  BY DEF Progress
<1>3. /\ \A x \in Docs \ {d} : \A f \in 1..n : Applied(b, less, x, f) = Applied(b, left, x, f)
      /\ Applied(b, less, d, n) = {}
  <2>1. UpTo(b, left, i)
    BY <1>1 DEF UpTo
  <2>2. \A x \in Docs \ {d} : \A f \in 1..n : Applied(b, less, x, f) = Applied(b, left, x, f)
    BY AppliedOthers
  <2>3. b[i].op = "delete" /\ Applied(b, left, d, n) = {} => Applied(b, less, d, n) = {}
    BY <2>1, AppliedNext
  <2> QED
    BY <1>2, <2>2, <2>3
<1>4. \A k, j \in DOMAIN b : <<ApplyStmt, k>> \in less /\ <<ApplyStmt, j>> \notin less => j < k
  <2> SUFFICES ASSUME NEW k \in DOMAIN b, NEW j \in DOMAIN b, <<ApplyStmt, k>> \in less,
                      <<ApplyStmt, j>> \notin less
               PROVE  j < k
    OBVIOUS
  <2>1. i <= k /\ k # i /\ (j < i \/ j = i)
    BY <1>1
  <2> QED
    BY <1>0, <2>1
<1> HIDE DEF less
<1>5. \A x \in Docs \ D : Applied(b, less, x, n) = {}
  BY <1>0, <1>3 DEF Progress
<1>6. ASSUME NEW x \in D
      PROVE  \E from \in 1..n :
               /\ from <= Len(b) => old[x].version > 0
               /\ Makes(b, Applied(b, less, x, from), old[x], new[x])
  <2>1. PICK from \in 1..n : /\ from <= Len(b) => old[x].version > 0
                             /\ Makes(b, Applied(b, left, x, from), old[x], new[x])
    BY DEF Progress
  <2>2. Applied(b, less, x, from) = Applied(b, left, x, from)
    BY <1>3
  <2> QED
    BY <2>1, <2>2
<1>7. Progress(b, less, D, old, new)
  BY <1>4, <1>5, <1>6 DEF Progress
<1> QED
  BY <1>7 DEF less

\* A write that finds its row, or makes it, raises the version of what it sees.
LEMMA ProgressWrite ==
  ASSUME NEW b \in WriteLists, NEW left, NEW D, NEW old, NEW new, NEW now, NEW i \in DOMAIN b,
         \A j \in DOMAIN b : <<ApplyStmt, j>> \in left => i <= j,
         <<ApplyStmt, i>> \in left, NEW d \in Docs, b[i].doc = d, D \subseteq Docs,
         old[d].version \in Nat, Progress(b, left, D, old, new),
         NEW seen, seen = IF d \in D THEN new[d] ELSE old[d],
         b[i].op = "delete" => seen.version # 0,
         now[d].version = seen.version + 1, now[d].live = (b[i].op # "delete"),
         \A x \in D \ {d} : now[x] = new[x]
  PROVE  Progress(b, left \ {<<ApplyStmt, i>>}, D \cup {d}, old, now)
<1> DEFINE n == Len(b) + 1
           less == left \ {<<ApplyStmt, i>>}
           Case(x, from) == /\ from <= Len(b) => old[x].version > 0
                            /\ Makes(b, Applied(b, less, x, from), old[x], now[x])
<1>0. DOMAIN b = 1..Len(b) /\ Len(b) \in Nat /\ i \in Nat /\ n \in 1..n /\ i \in 1..n
  BY DEF WriteLists
<1>1. \A j \in DOMAIN b : <<ApplyStmt, j>> \notin left => j < i
  BY DEF Progress
<1>2. UpTo(b, left, i)
  BY <1>1 DEF UpTo
<1>3. \A x \in Docs \ {d} : \A f \in 1..n : Applied(b, less, x, f) = Applied(b, left, x, f)
  BY AppliedOthers
<1>4. \A k, j \in DOMAIN b : <<ApplyStmt, k>> \in less /\ <<ApplyStmt, j>> \notin less => j < k
  <2> SUFFICES ASSUME NEW k \in DOMAIN b, NEW j \in DOMAIN b, <<ApplyStmt, k>> \in less,
                      <<ApplyStmt, j>> \notin less
               PROVE  j < k
    OBVIOUS
  <2>1. i <= k /\ k # i /\ (j < i \/ j = i)
    BY <1>1
  <2> QED
    BY <1>0, <2>1
<1>5. b[i].op = "delete" /\ Applied(b, left, d, n) = {} => Applied(b, less, d, i) = {i}
  BY <1>2, AppliedNext
<1>6. b[i].op # "delete" /\ Applied(b, left, d, n) = {} => Applied(b, less, d, n) = {i}
  BY <1>2, AppliedNext
<1>7. ASSUME NEW f \in 1..n
      PROVE  /\ Applied(b, left, d, f) # {} => Applied(b, less, d, f) = Applied(b, left, d, f) \cup {i}
             /\ \A a \in Applied(b, left, d, f) : a < i
  <2>1. \A g \in 1..(Len(b) + 1) :
          /\ Applied(b, left, b[i].doc, g) # {} =>
               Applied(b, left \ {<<ApplyStmt, i>>}, b[i].doc, g)
                 = Applied(b, left, b[i].doc, g) \cup {i}
          /\ \A a \in Applied(b, left, b[i].doc, g) : a < i
    BY <1>2, AppliedNext, Zenon
  <2> QED
    BY <2>1
<1> HIDE DEF less
<1>8. \A x \in Docs \ (D \cup {d}) : Applied(b, less, x, n) = {}
  BY <1>0, <1>3 DEF Progress
<1>9. ASSUME NEW x \in D \ {d} PROVE \E from \in 1..n : Case(x, from)
  <2>1. PICK from \in 1..n : /\ from <= Len(b) => old[x].version > 0
                             /\ Makes(b, Applied(b, left, x, from), old[x], new[x])
    BY DEF Progress
  <2>2. Applied(b, less, x, from) = Applied(b, left, x, from)
    BY <1>3
  <2>3. now[x] = new[x]
    OBVIOUS
  <2> QED
    BY <2>1, <2>2, <2>3
<1>10. \E from \in 1..n : Case(d, from)
  <2>1. CASE d \notin D
    <3>1. Applied(b, left, d, n) = {}
      BY <2>1 DEF Progress
    <3>2. Makes(b, {i}, old[d], now[d])
      BY <1>0, <2>1, MakesFirst
    <3>3. CASE b[i].op = "delete"
      <4>1. old[d].version > 0
        BY <2>1, <3>3
      <4>2. Case(d, i)
        BY <1>5, <3>1, <3>2, <3>3, <4>1
      <4> QED
        BY <1>0, <4>2
    <3>4. CASE b[i].op # "delete"
      <4>1. ~(n <= Len(b))
        BY <1>0
      <4>2. Case(d, n)
        BY <1>6, <3>1, <3>2, <3>4, <4>1
      <4> QED
        BY <1>0, <4>2
    <3> QED
      BY <3>3, <3>4
  <2>2. CASE d \in D
    <3>1. PICK from \in 1..n : /\ from <= Len(b) => old[d].version > 0
                               /\ Makes(b, Applied(b, left, d, from), old[d], new[d])
      BY <2>2 DEF Progress
    <3> DEFINE S == Applied(b, left, d, from)
    <3>2. S # {}
      BY <3>1 DEF Makes
    <3>3. Applied(b, less, d, from) = S \cup {i} /\ \A a \in S : a < i
      BY <1>7, <3>2
    <3>4. S \subseteq Nat /\ IsFiniteSet(S)
      BY AppliedType
    <3>5. now[d].version = new[d].version + 1 /\ now[d].live = (b[i].op # "delete")
      BY <2>2
    <3> HIDE DEF S
    <3>6. Makes(b, S, old[d], new[d])
      BY <3>1 DEF S
    <3>7. Makes(b, S \cup {i}, old[d], now[d])
      BY <1>0, <3>3, <3>4, <3>5, <3>6, MakesMore
    <3> QED
      BY <3>1, <3>3, <3>7
  <2> QED
    BY <2>1, <2>2
<1>11. \A x \in D \cup {d} : \E from \in 1..n : Case(x, from)
  BY <1>9, <1>10
<1>12. Progress(b, less, D \cup {d}, old, now)
  BY <1>4, <1>8, <1>11 DEF Progress
<1> QED
  BY <1>12 DEF less

\* The write that a call applies next: all those before it have been applied.
LEMMA NextWrite ==
  ASSUME TypeOK, NEW c \in Calls, NEW i, IsNext(c, ApplyStmt, i)
  PROVE  /\ phase[c] = "open" /\ <<ApplyStmt, i>> \in todo[c]
         /\ \A j \in DOMAIN batch[c] : <<ApplyStmt, j>> \in todo[c] => i <= j
<1>1. \A q \in todo[c] : ApplyStmt < q[1] \/ (ApplyStmt = q[1] /\ i <= q[2])
  BY DEF IsNext
<1>2. ASSUME NEW j, <<ApplyStmt, j>> \in todo[c] PROVE i <= j
  <2>1. ApplyStmt < ApplyStmt \/ (ApplyStmt = ApplyStmt /\ i <= j)
    BY <1>1, <1>2
  <2> QED
    BY <2>1 DEF ApplyStmt
<1> QED
  BY <1>2 DEF IsNext

\* A statement of another kind applies no write.
LEMMA OtherStatement ==
  ASSUME TypeOK, NEW c \in Calls, RowInv(c), NEW k, k # ApplyStmt, NEW i,
         Done(c, k, i), phase[c] = "open", UNCHANGED <<doc, phase, batch, buf, dirty>>
  PROVE  RowInv(c)'
<1>1. todo'[c] = todo[c] \ {<<k, i>>}
  BY DEF Done, TypeOK
<1>2. \A j : <<ApplyStmt, j>> \in todo'[c] <=> <<ApplyStmt, j>> \in todo[c]
  BY <1>1
<1>3. Progress(batch[c], todo[c], dirty[c], doc, buf[c])
  BY DEF RowInv
<1>4. Progress(batch[c], todo'[c], dirty[c], doc, buf[c])
  BY <1>2, <1>3, ProgressFrame
<1> QED
  BY <1>4 DEF RowInv

\* A write keeps RowInv,
LEMMA ApplyRow ==
  ASSUME TypeOK, NEW c \in Calls, LockInv(c), RowInv(c), NEW i \in DOMAIN batch[c], Apply(c, i)
  PROVE  RowInv(c)'
<1> DEFINE b == batch[c]
           w == b[i]
           d == w.doc
           D == dirty[c]
<1>0. b \in WriteLists /\ w \in Write /\ d \in Docs /\ D \subseteq Docs /\ i \in Indices
  BY BatchType DEF TypeOK
<1>1. /\ IsNext(c, ApplyStmt, i) /\ doc' = doc /\ phase' = phase /\ batch' = batch
      /\ todo'[c] = todo[c] \ {<<ApplyStmt, i>>}
  BY DEF Apply, Done, TypeOK
<1>2. /\ phase[c] = "open" /\ <<ApplyStmt, i>> \in todo[c]
      /\ \A j \in DOMAIN b : <<ApplyStmt, j>> \in todo[c] => i <= j
  BY <1>1, NextWrite
<1>3. Progress(b, todo[c], D, doc, buf[c])
  BY <1>2 DEF RowInv
<1>4. CASE w.op = "delete" /\ View(c, d).version = 0
  <2>1. dirty' = dirty /\ buf' = buf
    BY <1>4 DEF Apply
  <2>2. d \notin D
    BY <1>0, <1>4 DEF LockInv, View, TypeOK, Row
  <2>3. Progress(b, todo[c] \ {<<ApplyStmt, i>>}, D, doc, buf[c])
    BY <1>0, <1>2, <1>3, <1>4, <2>2, ProgressSkip
  <2> QED
    BY <1>1, <1>2, <2>1, <2>3 DEF RowInv
<1>5. CASE ~(w.op = "delete" /\ View(c, d).version = 0)
  <2> DEFINE row == NewRow(w, View(c, d), base[c][i])
  <2>1. /\ dirty' = [dirty EXCEPT ![c] = dirty[c] \cup {d}]
        /\ buf' = [buf EXCEPT ![c][d] = row] /\ ~Overflows(c, i)
    BY <1>5 DEF Apply
  <2>2. View(c, d) \in Row /\ base[c][i] \in (0..MaxInt) \cup {NoFields}
    BY <1>0 DEF View, TypeOK
  <2>3. HasTransforms(w) => Incremented(base[c][i]) <= MaxInt
    BY <2>1, <2>2, MaxIntAssumption DEF Overflows, Incremented, NoFields
  <2>4. row.version = View(c, d).version + 1
    BY <1>0, <2>2, <2>3, NewRowType
  <2>5. row.live = (w.op # "delete")
    BY <1>0 DEF NewRow, Write
  <2> HIDE DEF row
  <2>6. dirty'[c] = D \cup {d} /\ buf'[c][d] = row /\ \A x \in D \ {d} : buf'[c][x] = buf[c][x]
    BY <1>0, <2>1 DEF TypeOK
  <2>7. doc[d].version \in Nat
    BY <1>0 DEF TypeOK, Row
  <2>8. View(c, d) = IF d \in D THEN buf[c][d] ELSE doc[d]
    BY DEF View
  <2>9. w.op = "delete" => View(c, d).version # 0
    BY <1>5
  <2>10. Progress(b, todo[c] \ {<<ApplyStmt, i>>}, D \cup {d}, doc, buf'[c])
    BY <1>0, <1>2, <1>3, <2>4, <2>5, <2>6, <2>7, <2>8, <2>9, ProgressWrite
  <2> QED
    BY <1>1, <1>2, <2>6, <2>10 DEF RowInv
<1> QED
  BY <1>4, <1>5

\* so does the end of the SQL transaction,
LEMMA FinishRow ==
  ASSUME TypeOK, NEW c \in Calls, NEW result \in Returned, Finish(c, result)
  PROVE  RowInv(c)'
BY DEF Finish, TypeOK, Returned, RowInv

\* a locking check,
LEMMA LockingCheckRow ==
  ASSUME TypeOK, NEW c \in Calls, RowInv(c), NEW k, k # ApplyStmt, NEW i, NEW d, NEW ok,
         LockingCheck(c, k, i, d, ok)
  PROVE  RowInv(c)'
<1>1. CASE ok
  BY <1>1, OtherStatement DEF LockingCheck, IsNext
<1>2. CASE ~ok
  BY <1>2, FinishRow DEF LockingCheck, RollBack, Returned
<1> QED
  BY <1>1, <1>2

\* the start of the call,
LEMMA LoadRow ==
  ASSUME TypeOK, NEW c \in Calls, LockInv(c), RowInv(c), NEW t \in Txns, NEW b \in Batches,
         Load(c, t, b)
  PROVE  RowInv(c)'
<1>1. phase[c] = "idle" /\ dirty[c] = {} /\ dirty' = dirty /\ buf' = buf /\ doc' = doc
  BY NotOpen DEF Load
<1>2. CASE status[t] = "active" /\ ~aged[t]
  <2>1. /\ phase'[c] = "open" /\ batch'[c] = b /\ todo'[c] = Program(b, reads[t])
    BY <1>2 DEF Load, TypeOK
  <2>2. \A i \in DOMAIN b : <<ApplyStmt, i>> \in Program(b, reads[t])
    BY DEF Program
  <2>3. Progress(b, Program(b, reads[t]), {}, doc, buf[c])
    BY <2>2, ProgressStart
  <2> QED
    BY <1>1, <2>1, <2>3 DEF RowInv
<1>3. CASE ~(status[t] = "active" /\ ~aged[t])
  <2>1. phase'[c] # "open" /\ batch' = batch
    BY <1>3 DEF Load, TypeOK
  <2> QED
    BY <1>1, <2>1 DEF RowInv
<1> QED
  BY <1>2, <1>3

\* and thus every step of the call.
LEMMA OwnRow ==
  ASSUME TypeOK, NEW c \in Calls, LockInv(c), RowInv(c), OwnStep(c)
  PROVE  RowInv(c)'
<1>1. ASSUME NEW t \in Txns, NEW b \in Batches, Load(c, t, b) PROVE RowInv(c)'
  BY <1>1, LoadRow
<1>2. CASE MarkExpired(c)
  BY <1>2 DEF MarkExpired, TypeOK, RowInv
<1>3. ASSUME NEW i \in DOMAIN batch[c], CheckUpdateTime(c, i) \/ CheckExists(c, i)
      PROVE  RowInv(c)'
  BY <1>3, LockingCheckRow DEF CheckUpdateTime, CheckExists, TimeStmt, ExistsStmt, ApplyStmt
<1>4. ASSUME NEW i \in DOMAIN batch[c], LockFields(c, i) PROVE RowInv(c)'
  BY <1>4, OtherStatement DEF LockFields, IsNext, FieldsStmt, ApplyStmt
<1>5. ASSUME NEW i \in DOMAIN batch[c], Apply(c, i) PROVE RowInv(c)'
  BY <1>5, ApplyRow
<1>6. ASSUME NEW i \in DOMAIN batch[c], ApplyRefused(c, i) PROVE RowInv(c)'
  BY <1>6, FinishRow DEF ApplyRefused, RollBack, Returned
<1>7. ASSUME NEW d \in Docs, VerifyRead(c, d) PROVE RowInv(c)'
  BY <1>7, LockingCheckRow DEF VerifyRead, ReadStmt, ApplyStmt
<1>8. ASSUME NEW result \in {"ok", "ackLost"}, CommitTransaction(c, result) PROVE RowInv(c)'
  BY <1>8, FinishRow DEF CommitTransaction, Returned
<1>9. CASE DeadlockDetected(c) \/ Unavailable(c)
  BY <1>9, FinishRow DEF DeadlockDetected, Unavailable, RollBack, Returned
<1> QED
  BY <1>1, <1>2, <1>3, <1>4, <1>5, <1>6, <1>7, <1>8, <1>9 DEF OwnStep, CallStep

\* The uncommitted rows of a call are what its applied writes make of the
\* committed ones, in every behaviour.
LEMMA RowsInvariant == Spec => []RowsInv
<1>1. Init => RowsInv
  BY DEF Init, RowsInv, RowInv
<1>2. TypeOK /\ CommitInv /\ RowsInv /\ [Next]_vars => RowsInv'
  <2> SUFFICES ASSUME TypeOK, CommitInv, RowsInv, [Next]_vars, NEW c \in Calls
               PROVE  RowInv(c)'
    BY DEF RowsInv
  <2>1. LockInv(c) /\ RowInv(c)
    BY DEF CommitInv, CallInv, RowsInv
  <2>2. CASE OwnStep(c)
    BY <2>1, <2>2, OwnRow
  <2>3. CASE ~OwnStep(c)
    <3>1. Untouched(c)
      BY <2>3, StepUntouched
    <3>2. /\ phase'[c] = phase[c] /\ batch'[c] = batch[c] /\ todo'[c] = todo[c]
          /\ dirty'[c] = dirty[c] /\ buf'[c] = buf[c]
      BY <3>1 DEF Untouched
    <3>3. \A d \in dirty[c] : doc'[d] = doc[d]
      BY <2>1, <3>1 DEF LockInv, Untouched, TypeOK
    <3>4. Progress(batch[c], todo[c], dirty[c], doc, buf[c])
            => Progress(batch[c], todo[c], dirty[c], doc', buf[c])
      BY <3>3, ProgressFrame
    <3> QED
      BY <2>1, <3>2, <3>4 DEF RowInv
  <2> QED
    BY <2>2, <2>3
<1> QED
  BY <1>1, <1>2, TypeCorrect, CommitInvariant, PTL DEF Spec

-----------------------------------------------------------------------------
(* The refinement, step by step.                                           *)

\* What a document and a call look like in OccStore.
RowOf(d) == [version |-> doc[d].version, live |-> doc[d].live]
OutcomeOf(c) == IF phase[c] \in {"expire", "open"} THEN "pending" ELSE phase[c]
OccRows == [d \in Docs |-> RowOf(d)]
OccOutcome == [c \in Calls |-> OutcomeOf(c)]

\* Statements, and the steps of the transactions table, show nothing.
LEMMA OccStutter ==
  ASSUME doc' = doc, phase' = phase, batch' = batch, rset' = rset
  PROVE  UNCHANGED Occ!vars
BY DEF Occ!vars

\* A standalone write is one in OccStore.
LEMMA OccWrite ==
  ASSUME TypeOK, NEW d \in Docs, NEW row \in Row, Put(d, row), row.version = doc[d].version + 1
  PROVE  Occ!Write(d)
<1>1. /\ doc' = [doc EXCEPT ![d] = row] /\ UNCHANGED <<phase, batch, rset>>
  BY DEF Put, callVars
<1>2. OccRows' = [OccRows EXCEPT ![d] = [version |-> OccRows[d].version + 1, live |-> row.live]]
  BY <1>1 DEF OccRows, RowOf, TypeOK
<1>3. row.live \in BOOLEAN
  BY DEF Row
<1> QED
  BY <1>1, <1>2, <1>3 DEF Occ!Write, OccRows, RowOf

\* The locals of the other calls stay.
LEMMA OccOthers ==
  ASSUME NEW c \in Calls, \A x \in Calls \ {c} : batch'[x] = batch[x] /\ rset'[x] = rset[x]
  PROVE  Occ!Others(c)
BY DEF Occ!Others

\* A call that changes its phase changes no other outcome.
LEMMA OccOutcomes ==
  ASSUME TypeOK, NEW c \in Calls, NEW p, phase' = [phase EXCEPT ![c] = p]
  PROVE  OccOutcome' = [OccOutcome EXCEPT ![c] = IF p \in {"expire", "open"} THEN "pending" ELSE p]
BY DEF OccOutcome, OutcomeOf, TypeOK

\* A call that ends with an error fails in OccStore,
LEMMA OccFail ==
  ASSUME TypeOK, NEW c \in Calls, phase[c] \in {"idle", "expire", "open"},
         NEW r \in {"aborted", "notFound", "unavailable", "invalid"},
         phase' = [phase EXCEPT ![c] = r], doc' = doc,
         \A x \in Calls \ {c} : batch'[x] = batch[x] /\ rset'[x] = rset[x]
  PROVE  Occ!Fail(c)
<1>1. OccOutcome' = [OccOutcome EXCEPT ![c] = r]
  BY OccOutcomes
<1>2. OccOutcome[c] \in {"idle", "pending"}
  BY DEF OccOutcome, OutcomeOf
<1>3. Occ!Others(c)
  BY OccOthers
<1> QED
  BY <1>1, <1>2, <1>3 DEF Occ!Fail, Occ!Failed, OccOutcome, OutcomeOf

\* and so does a rollback.
LEMMA OccRollBack ==
  ASSUME TypeOK, NEW c \in Calls, phase[c] = "open",
         NEW r \in {"aborted", "unavailable", "invalid"}, RollBack(c, r)
  PROVE  Occ!Fail(c)
<1>1. \A x \in Calls \ {c} : batch'[x] = batch[x] /\ rset'[x] = rset[x]
  BY DEF RollBack, Finish, TypeOK
<1> QED
  BY <1>1, OccFail DEF RollBack, Finish

\* A call that starts is submitted, or fails at once.
LEMMA OccLoad ==
  ASSUME TypeOK, NEW c \in Calls, RowInv(c), NEW t \in Txns, NEW b \in Batches, Load(c, t, b)
  PROVE  Occ!Submit(c) \/ Occ!Fail(c)
<1>1. phase[c] = "idle" /\ doc' = doc
  BY DEF Load
<1>2. \A x \in Calls \ {c} : batch'[x] = batch[x] /\ rset'[x] = rset[x]
  BY DEF Load, TypeOK
<1>3. ASSUME NEW p \in {"expire", "open"}, phase' = [phase EXCEPT ![c] = p],
             batch'[c] \in Batches \cup {<<>>}
      PROVE  Occ!Submit(c)
  <2>1. OccOutcome' = [OccOutcome EXCEPT ![c] = "pending"]
    BY <1>3, OccOutcomes
  <2>2. OccOutcome[c] = "idle"
    BY <1>1 DEF OccOutcome, OutcomeOf
  <2>3. Occ!Others(c)
    BY <1>2, OccOthers
  <2> QED
    BY <1>1, <1>3, <2>1, <2>2, <2>3 DEF Occ!Submit, OccOutcome, OutcomeOf
<1>4. CASE status[t] = "active" /\ ~aged[t]
  BY <1>3, <1>4 DEF Load, TypeOK
<1>5. CASE status[t] = "active" /\ aged[t]
  <2>1. batch' = batch /\ batch[c] = <<>> /\ phase' = [phase EXCEPT ![c] = "expire"]
    BY <1>1, <1>5 DEF Load, RowInv
  <2> QED
    BY <1>3, <2>1
<1>6. CASE status[t] # "active"
  BY <1>1, <1>2, <1>6, OccFail DEF Load
<1> QED
  BY <1>4, <1>5, <1>6

\* The commit shows a table that its writes, in order, may make of the old one.
LEMMA OccAfter ==
  ASSUME TypeOK, NEW c \in Calls, RowInv(c), phase[c] = "open", todo[c] = {}, NEW d \in Docs,
         NEW row, row = View(c, d)
  PROVE  [version |-> row.version, live |-> row.live] \in Occ!After(batch[c], d)
<1> DEFINE b == batch[c]
           n == Len(b) + 1
           Froms == IF OccRows[d].version = 0 THEN {n} ELSE 1..n
           Eff(f) == Occ!Effective(b, d, f)
<1>0. Len(b) \in Nat /\ doc[d].version \in Nat /\ OccRows[d] = RowOf(d)
  BY DEF TypeOK, WriteLists, Row, OccRows
<1>1. \A f : Applied(b, todo[c], d, f) = Eff(f)
  BY DEF Applied
<1>2. Progress(b, todo[c], dirty[c], doc, buf[c])
  BY DEF RowInv
<1>3. \A f \in Froms : Occ!Changed(b, d, Eff(f)) \in Occ!After(b, d)
  BY DEF Occ!After, OccRows, RowOf
<1>4. CASE d \notin dirty[c]
  <2>1. Eff(n) = {}
    BY <1>1, <1>2, <1>4 DEF Progress
  <2>2. Occ!Changed(b, d, Eff(n)) = OccRows[d]
    BY <2>1 DEF Occ!Changed, OccRows, RowOf
  <2>3. n \in Froms
    BY <1>0
  <2>4. row = doc[d]
    BY <1>4 DEF View
  <2> QED
    BY <1>0, <1>3, <2>2, <2>3, <2>4 DEF RowOf
<1>5. CASE d \in dirty[c]
  <2>1. PICK f \in 1..n : /\ f <= Len(b) => doc[d].version > 0
                          /\ Makes(b, Applied(b, todo[c], d, f), doc[d], buf[c][d])
    BY <1>2, <1>5 DEF Progress
  <2>2. Makes(b, Eff(f), doc[d], buf[c][d])
    BY <1>1, <2>1
  <2>3. f \in Froms
    BY <1>0, <2>1 DEF RowOf
  <2>4. row = buf[c][d]
    BY <1>5 DEF View
  <2> HIDE DEF Eff
  <2>5. Occ!Changed(b, d, Eff(f)) = [version |-> row.version, live |-> row.live]
    <3>1. Eff(f) # {} /\ row.version = doc[d].version + Cardinality(Eff(f))
            /\ row.live = (b[Occ!LastOf(Eff(f))].op # "delete")
      BY <2>2, <2>4 DEF Makes
    <3>2. Occ!Cardinality(Eff(f)) = Cardinality(Eff(f))
      BY DEF Occ!Cardinality, Cardinality
    <3>3. doc[d].version = OccRows[d].version
      BY DEF OccRows, RowOf
    <3> QED
      BY <3>1, <3>2, <3>3 DEF Occ!Changed, OccRows, RowOf
  <2> QED
    BY <1>3, <2>3, <2>5
<1> QED
  BY <1>4, <1>5

\* The COMMIT statement is the atomic commit of OccStore.
LEMMA OccCommit ==
  ASSUME TypeOK, NEW c \in Calls, CallInv(c), RowInv(c), NEW r \in {"ok", "ackLost"},
         CommitTransaction(c, r)
  PROVE  Occ!Commit(c)
<1>0. /\ phase[c] = "open" /\ todo[c] = {} /\ doc' = [d \in Docs |-> View(c, d)]
      /\ phase' = [phase EXCEPT ![c] = r]
  BY DEF CommitTransaction, Finish
<1>1. OccOutcome[c] = "pending" /\ OccOutcome' = [OccOutcome EXCEPT ![c] = r]
  BY <1>0, OccOutcomes DEF OccOutcome, OutcomeOf
<1>2. ASSUME NEW d \in Docs PROVE Occ!Unchanged(c, d)
  <2>1. rset[c][d] > 0 => rset[c][d] \in Nat \ {Absent}
    BY DEF TypeOK, NotRead, Absent
  <2>2. rset[c][d] > 0 => doc[d].live /\ doc[d].version = rset[c][d]
    BY <1>0, <2>1 DEF CallInv, ReadInv, Pinned
  <2> QED
    BY <2>2 DEF Occ!Unchanged
<1>3. ASSUME NEW i \in DOMAIN batch[c] PROVE Occ!Holds(batch[c][i])
  <2> DEFINE w == batch[c][i]
  <2>1. w.doc \in Docs
    BY BatchType
  <2>2. /\ PreOf(w) = "time" => doc[w.doc].live /\ doc[w.doc].version = w.stamp
        /\ PreOf(w) = "exists" => doc[w.doc].live
    BY <1>0 DEF CallInv, PreInv, Pinned
  <2> HIDE DEF w
  <2> QED
    BY <2>1, <2>2 DEF Occ!Holds, PreOf, w
<1>4. ASSUME NEW d \in Docs PROVE OccRows'[d] \in Occ!After(batch[c], d)
  <2>1. OccRows'[d] = [version |-> View(c, d).version, live |-> View(c, d).live]
    BY <1>0 DEF OccRows, RowOf
  <2>2. [version |-> View(c, d).version, live |-> View(c, d).live] \in Occ!After(batch[c], d)
    BY <1>0, OccAfter
  <2> QED
    BY <2>1, <2>2
<1>5. Occ!Others(c)
  <2>1. \A x \in Calls \ {c} : batch'[x] = batch[x] /\ rset'[x] = rset[x]
    BY DEF CommitTransaction, Finish, TypeOK
  <2> QED
    BY <2>1, OccOthers
<1>6. DOMAIN OccRows' = Docs
  BY DEF OccRows
<1> QED
  BY <1>1, <1>2, <1>3, <1>4, <1>5, <1>6
  DEF Occ!Commit, Occ!Committed, OccRows, RowOf, OccOutcome, OutcomeOf

\* Every statement is a step of OccStore, or shows nothing.
LEMMA OccCallStep ==
  ASSUME TypeOK, NEW c \in Calls, CallInv(c), RowInv(c), CallStep(c) \/ Unavailable(c)
  PROVE  Occ!Fail(c) \/ Occ!Commit(c) \/ UNCHANGED Occ!vars
<1>1. CASE MarkExpired(c)
  <2>1. Occ!Fail(c)
    BY <1>1, OccFail DEF MarkExpired
  <2> QED
    BY <2>1
<1>2. ASSUME NEW k, NEW i, NEW d, NEW ok, LockingCheck(c, k, i, d, ok)
      PROVE  Occ!Fail(c) \/ UNCHANGED Occ!vars
  <2>1. CASE ok
    BY <1>2, <2>1, OccStutter DEF LockingCheck
  <2>2. CASE ~ok
    BY <1>2, <2>2, OccRollBack DEF LockingCheck, IsNext
  <2> QED
    BY <2>1, <2>2
<1>3. ASSUME NEW i \in DOMAIN batch[c], CheckUpdateTime(c, i) \/ CheckExists(c, i)
      PROVE  Occ!Fail(c) \/ UNCHANGED Occ!vars
  BY <1>2, <1>3 DEF CheckUpdateTime, CheckExists
<1>4. ASSUME NEW i \in DOMAIN batch[c], LockFields(c, i) \/ Apply(c, i)
      PROVE  UNCHANGED Occ!vars
  BY <1>4, OccStutter DEF LockFields, Apply
<1>5. ASSUME NEW i \in DOMAIN batch[c], ApplyRefused(c, i) PROVE Occ!Fail(c)
  BY <1>5, OccRollBack DEF ApplyRefused, IsNext
<1>6. ASSUME NEW d \in Docs, VerifyRead(c, d) PROVE Occ!Fail(c) \/ UNCHANGED Occ!vars
  BY <1>2, <1>6 DEF VerifyRead
<1>7. ASSUME NEW r \in {"ok", "ackLost"}, CommitTransaction(c, r) PROVE Occ!Commit(c)
  BY <1>7, OccCommit
<1>8. CASE DeadlockDetected(c)
  <2>1. phase[c] = "open"
    BY <1>8 DEF DeadlockDetected, BlockedOn, IsNext
  <2>2. Occ!Fail(c)
    BY <1>8, <2>1, OccRollBack DEF DeadlockDetected
  <2> QED
    BY <2>2
<1>9. CASE Unavailable(c)
  <2>1. Occ!Fail(c)
    BY <1>9, OccRollBack DEF Unavailable
  <2> QED
    BY <2>1
<1> QED
  BY <1>1, <1>3, <1>4, <1>5, <1>6, <1>7, <1>8, <1>9 DEF CallStep

\* Commits are atomic and validated, for every number of documents, calls and
\* transactions and every write list: whatever the statements of concurrent
\* calls, their lock waits, deadlocks, rollbacks and the standalone writes do,
\* an observer sees only steps of OccStore.
THEOREM CommitsAreAtomic == Spec => ImplementsOccStore
<1>1. Init => Occ!Init
  <2> SUFFICES ASSUME Init PROVE Occ!Init
    OBVIOUS
  <2>1. OccRows \in [Docs -> {[version |-> 0, live |-> FALSE], [version |-> 1, live |-> TRUE]}]
    <3>1. ASSUME NEW d \in Docs
          PROVE  RowOf(d) \in {[version |-> 0, live |-> FALSE], [version |-> 1, live |-> TRUE]}
      <4>1. doc[d] \in {NoRow, [version |-> 1, live |-> TRUE, val |-> 0]}
        BY DEF Init
      <4>2. CASE doc[d] = NoRow
        <5>1. doc[d].version = 0 /\ doc[d].live = FALSE
          BY <4>2 DEF NoRow
        <5> QED
          BY <5>1 DEF RowOf
      <4>3. CASE doc[d] = [version |-> 1, live |-> TRUE, val |-> 0]
        <5>1. doc[d].version = 1 /\ doc[d].live = TRUE
          BY <4>3
        <5> QED
          BY <5>1 DEF RowOf
      <4> QED
        BY <4>1, <4>2, <4>3
    <3> QED
      BY <3>1 DEF OccRows
  <2>2. OccOutcome = [c \in Calls |-> "idle"]
    BY DEF Init, OccOutcome, OutcomeOf
  <2>3. \A c \in Calls, d \in Docs : rset[c][d] < 0
    BY DEF Init, NoReads, NotRead
  <2> QED
    BY <2>1, <2>2, <2>3 DEF Init, Occ!Init, OccRows, RowOf, OccOutcome, OutcomeOf
<1>2. TypeOK /\ CommitInv /\ RowsInv /\ [Next]_vars => [Occ!Next]_(Occ!vars)
  <2> SUFFICES ASSUME TypeOK, CommitInv, RowsInv, [Next]_vars
               PROVE  [Occ!Next]_(Occ!vars)
    OBVIOUS
  <2>1. ASSUME NEW t, TxnStep(t) \/ EndStep(t) PROVE UNCHANGED Occ!vars
    BY <2>1, OccStutter DEF TxnStep, Begin, ReadSelect, RecordRead, EndStep, RollbackTransaction,
                            Age, SweepExpire, SweepPurge, callVars
  <2>2. ASSUME NEW d \in WriteDocs, DocStep(d) PROVE Occ!Next
    <3>1. d \in Docs
      BY DocsAssumption
    <3>2. doc[d] \in Row
      BY <3>1 DEF TypeOK
    <3>3. PICK row \in Row : Put(d, row) /\ row.version = doc[d].version + 1
      <4>1. Written(d) \in Row /\ Written(d).version = doc[d].version + 1
        BY <3>2, MaxIntAssumption DEF Written, Row
      <4> DEFINE gone == [version |-> doc[d].version + 1, live |-> FALSE, val |-> doc[d].val]
      <4>2. gone \in Row /\ gone.version = doc[d].version + 1
        BY <3>2 DEF Row
      <4>3. Put(d, Written(d)) \/ Put(d, gone)
        BY <2>2 DEF DocStep, CreateDocument, UpdateDocument, UpdateExisting, DeleteDocument
      <4> QED
        BY <4>1, <4>2, <4>3
    <3>4. Occ!Write(d)
      BY <3>1, <3>3, OccWrite
    <3> QED
      BY <3>1, <3>4 DEF Occ!Next
  <2>3. ASSUME NEW c \in Calls, NEW t \in Txns, NEW b \in Batches, Load(c, t, b) PROVE Occ!Next
    <3>1. Occ!Submit(c) \/ Occ!Fail(c)
      BY <2>3, OccLoad DEF RowsInv
    <3> QED
      BY <3>1 DEF Occ!Next
  <2>4. ASSUME NEW c \in Calls, CallStep(c) \/ Unavailable(c)
        PROVE  Occ!Next \/ UNCHANGED Occ!vars
    <3>1. Occ!Fail(c) \/ Occ!Commit(c) \/ UNCHANGED Occ!vars
      BY <2>4, OccCallStep DEF RowsInv, CommitInv
    <3> QED
      BY <3>1 DEF Occ!Next
  <2>5. CASE UNCHANGED vars
    BY <2>5, OccStutter DEF vars
  <2> QED
    BY <2>1, <2>2, <2>3, <2>4, <2>5 DEF Next
<1> QED
  BY <1>1, <1>2, TypeCorrect, CommitInvariant, RowsInvariant, PTL
  DEF Spec, ImplementsOccStore, Occ!Spec
=============================================================================
