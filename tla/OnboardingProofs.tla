-------------------------- MODULE OnboardingProofs --------------------------
(***************************************************************************)
(* Proofs about Onboarding, for any number of workers, documents and       *)
(* indexes, any capacity of the buckets, and any number of calls, faults   *)
(* and ticks.                                                              *)
(***************************************************************************)
EXTENDS Onboarding, SequenceTheorems, TLAPS

-----------------------------------------------------------------------------
(* What the tables and the workers are made of                             *)

StepNames == {"insert", "answer", "migrate", "verify", "backfill", "grant", "create", "finish",
              "validate", "drop", "query", "resolve", "status", "dropReal", "delete", "exists", "default"}

Steps == [op : StepNames, on : Names \union {Nobody, "available", "unavailable"}]

Arg == [key : Nat, mode : {"agent", "secret", "direct_pg"}, role : {"owner", "dml"}]

TypeOK ==
    /\ project \in Project \union {Absent}
    /\ row \in IndexRow \union {Absent}
    /\ schema \in 0 .. Current
    /\ cid \in [Docs -> {"none", "null", "set"}]
    /\ pg \in [Names -> {"none", "invalid", "valid"}]
    /\ todo \in [Workers -> Seq(Steps)]
    /\ arg \in [Workers -> Arg]
    /\ ok \in [Workers -> BOOLEAN]
    /\ calls \in Nat

\* Everything of TypeOK but the plans and the locals of the workers.
tables == <<project, row, schema, cid, pg>>

\* The steps of plans are steps.
LEMMA StepType ==
    /\ \A o \in StepNames : Step(o) \in Steps
    /\ \A o \in StepNames, i \in Names \union {"available", "unavailable"} : On(o, i) \in Steps
    /\ \A o \in StepNames, s \in Steps : On(o, s.on) \in Steps
BY DEF Step, On, Steps

\* What the actions make of a plan is a plan.
LEMMA TailType ==
    ASSUME NEW s \in Seq(Steps), s # <<>>
    PROVE  /\ Head(s) \in Steps
           /\ Tail(s) \in Seq(Steps)
           /\ \A x \in Steps : <<x>> \o Tail(s) \in Seq(Steps)
<1>1. Head(s) \in Steps /\ Tail(s) \in Seq(Steps)
  BY HeadTailProperties
<1>2. \A x \in Steps : <<x>> \in Seq(Steps)
  OBVIOUS
<1> QED
  BY <1>1, <1>2, ConcatProperties

\* The plans of the requests are plans.
LEMMA PlanTypes ==
    /\ EnsureIndexes \in Seq(Steps)
    /\ \A m \in {"agent", "secret", "direct_pg"} : ProvisionPlan(m) \in Seq(Steps)
    /\ <<Step("insert"), Step("answer")>> \in Seq(Steps)
    /\ <<Step("insert"), Step("migrate")>> \o EnsureIndexes
          \o <<Step("answer"), Step("backfill")>> \in Seq(Steps)
    /\ <<Step("migrate")>> \o EnsureIndexes \o EnsureIndexes
          \o <<Step("backfill"), Step("grant")>> \in Seq(Steps)
<1>1. /\ Step("insert") \in Steps /\ Step("answer") \in Steps /\ Step("migrate") \in Steps
      /\ Step("backfill") \in Steps /\ Step("grant") \in Steps /\ Step("verify") \in Steps
      /\ On("create", "group") \in Steps /\ On("create", "pending") \in Steps
  BY StepType DEF StepNames, Names
<1>2. /\ EnsureIndexes \in Seq(Steps) /\ <<Step("insert"), Step("answer")>> \in Seq(Steps)
      /\ <<Step("insert"), Step("migrate")>> \in Seq(Steps) /\ <<Step("answer"), Step("backfill")>> \in Seq(Steps)
      /\ <<Step("migrate")>> \in Seq(Steps) /\ <<Step("backfill"), Step("grant")>> \in Seq(Steps)
      /\ <<Step("verify")>> \in Seq(Steps)
  BY <1>1 DEF EnsureIndexes
<1>3. /\ <<Step("migrate")>> \o EnsureIndexes \in Seq(Steps)
      /\ <<Step("insert"), Step("migrate")>> \o EnsureIndexes \in Seq(Steps)
  BY <1>2, ConcatProperties
<1>4. <<Step("migrate")>> \o EnsureIndexes \o EnsureIndexes \in Seq(Steps)
  BY <1>2, <1>3, ConcatProperties
<1>5. /\ <<Step("migrate")>> \o EnsureIndexes \o <<Step("insert"), Step("answer")>> \in Seq(Steps)
      /\ <<Step("insert"), Step("migrate")>> \o EnsureIndexes
            \o <<Step("answer"), Step("backfill")>> \in Seq(Steps)
      /\ <<Step("migrate")>> \o EnsureIndexes \o EnsureIndexes
            \o <<Step("backfill"), Step("grant")>> \in Seq(Steps)
  BY <1>2, <1>3, <1>4, ConcatProperties
<1> QED
  BY <1>2, <1>5 DEF ProvisionPlan

\* A step of a worker gives it a new plan and leaves those of the others.
LEMMA PlanStep ==
    ASSUME TypeOK, NEW w \in Workers, NEW s \in Seq(Steps), Then(w, s)
    PROVE  /\ todo' \in [Workers -> Seq(Steps)] /\ todo'[w] = s
           /\ \A v \in Workers \ {w} : todo'[v] = todo[v]
BY DEF TypeOK, Then

\* A statement that has run leaves a plan.
LEMMA NextPlan ==
    ASSUME TypeOK, NEW w \in Workers, todo[w] # <<>>, Next1(w)
    PROVE  Tail(todo[w]) \in Seq(Steps) /\ Then(w, Tail(todo[w]))
BY TailType DEF TypeOK, Next1, Then

\* The plan of a worker at some step.
LEMMA AtStep ==
    ASSUME TypeOK, NEW w \in Workers, NEW o, At(w, o)
    PROVE  /\ todo[w] \in Seq(Steps) /\ todo[w] # <<>> /\ Head(todo[w]) \in Steps /\ Tail(todo[w]) \in Seq(Steps)
           /\ \A n \in StepNames : <<On(n, Index(w))>> \o Tail(todo[w]) \in Seq(Steps)
<1>1. todo[w] \in Seq(Steps) /\ todo[w] # <<>>
  BY DEF TypeOK, At
<1>2. \A n \in StepNames : On(n, Index(w)) \in Steps
  BY <1>1, TailType, StepType DEF Index
<1> QED
  BY <1>1, <1>2, TailType

\* The initial state is well typed.
LEMMA TypeInit == Init => TypeOK
<1> SUFFICES ASSUME Init PROVE TypeOK
  OBVIOUS
<1>1. NoArg \in Arg
  BY DEF NoArg, Arg
<1>2. <<>> \in Seq(Steps)
  BY EmptySeq
<1>3. project \in Project \union {Absent} /\ schema \in 0 .. Current /\ cid \in [Docs -> {"none", "null", "set"}]
  <2>1. PICK p \in {Absent} \union [key : {0}, mode : {"secret", "direct_pg"}, dsn : {FALSE}],
             v \in 0 .. Current - 1 :
          /\ project = p /\ schema = v
          /\ cid = [d \in Docs |-> IF v >= 1 /\ d \in Old THEN "null" ELSE "none"]
    BY DEF Init
  <2>2. p = Absent \/ p \in Project
    <3>1. {0} \subseteq Nat /\ {FALSE} \subseteq BOOLEAN
      OBVIOUS
    <3> QED
      BY <2>1, <3>1, Zenon DEF Project
  <2>3. v \in 0 .. Current
    BY <2>1, SchemaAssumption
  <2> QED
    BY <2>1, <2>2, <2>3
<1> QED
  BY <1>1, <1>2, <1>3 DEF Init, TypeOK

\* The row that a provisioning call inserts.
LEMMA NewProject ==
    ASSUME TypeOK, NEW w \in Workers
    PROVE  /\ [key |-> arg[w].key, mode |-> arg[w].mode, dsn |-> FALSE] \in Project
           /\ [key |-> arg[w].key, mode |-> arg[w].mode, dsn |-> FALSE] # Absent
<1>1. arg[w].key \in Nat /\ arg[w].mode \in {"agent", "secret", "direct_pg"}
  BY DEF TypeOK, Arg
<1>2. [key |-> arg[w].key, mode |-> arg[w].mode, dsn |-> FALSE] \in Project
  BY <1>1, Zenon DEF Project
<1> QED
  BY <1>2, AbsentAssumption

\* Steps of provisioning and of embyr-db-prep.
LEMMA ProvisioningType ==
    ASSUME TypeOK, NEW w \in Workers,
           \/ \E m \in {"agent", "secret", "direct_pg"}, r \in {"owner", "dml"} : Provision(w, m, r)
           \/ VerifySchemaReadiness(w) \/ InsertProject(w) \/ AnswerProvision(w)
           \/ Migrate(w) \/ MigrateFails(w) \/ DbPrep(w) \/ GrantRead(w)
    PROVE  TypeOK'
<1>0. <<>> \in Seq(Steps)
  BY EmptySeq
<1>1. ASSUME NEW m \in {"agent", "secret", "direct_pg"}, NEW r \in {"owner", "dml"}, Provision(w, m, r)
      PROVE  TypeOK'
  <2>1. UNCHANGED tables /\ UNCHANGED ok /\ calls' = calls + 1
    BY <1>1 DEF Provision, Call, tables, system, customer
  <2>2. todo' \in [Workers -> Seq(Steps)]
    BY <1>1, PlanTypes, PlanStep DEF Provision
  <2>3. arg' \in [Workers -> Arg]
    BY <1>1 DEF Provision, TypeOK, Arg
  <2> QED
    BY <2>1, <2>2, <2>3 DEF TypeOK, tables
<1>2. CASE VerifySchemaReadiness(w)
  <2>1. UNCHANGED tables /\ UNCHANGED <<arg, ok, calls>>
    BY <1>2 DEF VerifySchemaReadiness, tables, system, customer, bounds
  <2>2. todo' \in [Workers -> Seq(Steps)]
    BY <1>2, PlanTypes, PlanStep DEF VerifySchemaReadiness
  <2> QED
    BY <2>1, <2>2 DEF TypeOK, tables
<1>3. CASE InsertProject(w)
  <2>1. UNCHANGED <<row, schema, cid, pg, arg, ok, calls>>
    BY <1>3 DEF InsertProject, customer, bounds
  <2>2. project' \in Project \union {Absent}
    BY <1>3, NewProject DEF InsertProject, TypeOK
  <2>3. todo' \in [Workers -> Seq(Steps)]
    BY <1>0, <1>3, AtStep, NextPlan, PlanStep DEF InsertProject, Stop
  <2> QED
    BY <2>1, <2>2, <2>3 DEF TypeOK
<1>4. CASE AnswerProvision(w) \/ GrantRead(w)
  <2>1. UNCHANGED tables /\ UNCHANGED <<arg, ok, calls>>
    BY <1>4 DEF AnswerProvision, GrantRead, tables, system, customer, bounds
  <2>2. todo' \in [Workers -> Seq(Steps)]
    BY <1>4, AtStep, NextPlan, PlanStep DEF AnswerProvision, GrantRead
  <2> QED
    BY <2>1, <2>2 DEF TypeOK, tables
<1>5. CASE Migrate(w) \/ MigrateFails(w)
  <2>1. UNCHANGED <<project, row, cid, pg, arg, ok, calls>>
    BY <1>5 DEF Migrate, MigrateFails, system, bounds
  <2>2. schema' \in 0 .. Current
    BY <1>5, SchemaAssumption DEF Migrate, MigrateFails, TypeOK
  <2>3. todo' \in [Workers -> Seq(Steps)]
    BY <1>0, <1>5, AtStep, NextPlan, PlanStep DEF Migrate, MigrateFails, Stop
  <2> QED
    BY <2>1, <2>2, <2>3 DEF TypeOK
<1>6. CASE DbPrep(w)
  <2>1. UNCHANGED tables /\ UNCHANGED ok /\ calls' = calls + 1
    BY <1>6 DEF DbPrep, Call, tables, system, customer
  <2>2. todo' \in [Workers -> Seq(Steps)]
    BY <1>6, PlanTypes, PlanStep DEF DbPrep
  <2>3. arg' \in [Workers -> Arg]
    BY <1>6 DEF DbPrep, TypeOK, Arg, NoArg
  <2> QED
    BY <2>1, <2>2, <2>3 DEF TypeOK, tables
<1> QED
  BY <1>1, <1>2, <1>3, <1>4, <1>5, <1>6

\* Steps of index builds and of the composite indexes.
LEMMA IndexType ==
    ASSUME TypeOK, NEW w \in Workers,
           \/ CreateIndex(w) \/ FinishIndex(w) \/ CreateRefused(w) \/ Validate(w) \/ DropIndex(w)
           \/ CreateCompositeIndex(w) \/ ResolveDsn(w) \/ WriteStatus(w)
           \/ DeleteCompositeIndex(w) \/ DropRealIndex(w) \/ DeleteRow(w)
    PROVE  TypeOK'
<1>0. <<>> \in Seq(Steps) /\ {"create", "finish", "validate", "drop", "resolve", "status", "dropReal", "delete"} \subseteq StepNames
  BY EmptySeq DEF StepNames
<1>1. ASSUME \/ CreateIndex(w) \/ FinishIndex(w) \/ CreateRefused(w) \/ Validate(w) \/ DropIndex(w)
             \/ ResolveDsn(w) \/ DropRealIndex(w)
      PROVE  TypeOK'
  <2>1. UNCHANGED <<project, row, schema, cid, arg, calls>>
    BY <1>1 DEF CreateIndex, FinishIndex, CreateRefused, Validate, DropIndex, ResolveDsn, DropRealIndex,
                system, customer, bounds
  <2>2. pg' \in [Names -> {"none", "invalid", "valid"}] /\ ok' \in [Workers -> BOOLEAN]
    BY <1>1 DEF CreateIndex, FinishIndex, CreateRefused, Validate, DropIndex, ResolveDsn, DropRealIndex,
                customer, TypeOK
  <2>3. todo[w] # <<>> /\ Tail(todo[w]) \in Seq(Steps)
        /\ \A n \in StepNames : <<On(n, Index(w))>> \o Tail(todo[w]) \in Seq(Steps)
    BY <1>1, AtStep DEF CreateIndex, FinishIndex, CreateRefused, Validate, DropIndex, ResolveDsn, DropRealIndex
  <2>4. \E s \in Seq(Steps) : Then(w, s)
    <3>1. CASE CreateIndex(w)
      BY <1>0, <2>3, <3>1 DEF CreateIndex
    <3>2. CASE FinishIndex(w) \/ CreateRefused(w)
      BY <1>0, <2>3, <3>2 DEF FinishIndex, CreateRefused
    <3>3. CASE Validate(w)
      BY <1>0, <2>3, <3>3, NextPlan DEF Validate
    <3>4. CASE DropIndex(w)
      BY <1>0, <2>3, <3>4 DEF DropIndex, AfterDrop
    <3>5. CASE ResolveDsn(w)
      BY <1>0, <2>3, <3>5, NextPlan DEF ResolveDsn
    <3>6. CASE DropRealIndex(w)
      BY <1>0, <2>3, <3>6, NextPlan DEF DropRealIndex, Stop
    <3> QED
      BY <1>1, <3>1, <3>2, <3>3, <3>4, <3>5, <3>6
  <2>5. todo' \in [Workers -> Seq(Steps)]
    BY <2>4, PlanStep
  <2> QED
    BY <2>1, <2>2, <2>5 DEF TypeOK
<1>2. CASE WriteStatus(w) \/ DeleteRow(w)
  <2>1. UNCHANGED <<project, schema, cid, pg, arg, ok, calls>>
    BY <1>2 DEF WriteStatus, DeleteRow, customer, bounds
  <2>2. row' \in IndexRow \union {Absent}
    BY <1>2 DEF WriteStatus, DeleteRow, TypeOK, IndexRow
  <2>3. todo' \in [Workers -> Seq(Steps)]
    BY <1>2, AtStep, NextPlan, PlanStep DEF WriteStatus, DeleteRow
  <2> QED
    BY <2>1, <2>2, <2>3 DEF TypeOK
<1>3. CASE CreateCompositeIndex(w)
  <2>1. UNCHANGED <<project, schema, cid, pg, arg>> /\ calls' = calls + 1
    BY <1>3 DEF CreateCompositeIndex, Call, customer
  <2>2. PICK i \in IF row = Absent THEN Ids \ usedIds ELSE {row.id} :
          /\ row' = [id |-> i,
                     status |-> IF row # Absent /\ row.status = "ready"
                                THEN "ready" ELSE "building"]
          /\ Then(w, IF row'.status = "building"
                     THEN <<On("resolve", i), On("status", i)>> ELSE <<>>)
    BY <1>3 DEF CreateCompositeIndex
  <2>3. i \in Ids
    BY <2>2 DEF TypeOK, IndexRow
  <2>4. row' \in IndexRow
    BY <2>2, <2>3 DEF IndexRow
  <2>5. On("resolve", i) \in Steps /\ On("status", i) \in Steps
    BY <1>0, <2>3, StepType DEF Names
  <2>6. <<On("resolve", i), On("status", i)>> \in Seq(Steps)
    BY <2>5
  <2>7. todo' \in [Workers -> Seq(Steps)]
    BY <1>0, <2>2, <2>6, PlanStep
  <2>8. ok' \in [Workers -> BOOLEAN]
    BY <1>3 DEF CreateCompositeIndex, TypeOK
  <2> QED
    BY <2>1, <2>4, <2>7, <2>8 DEF TypeOK
<1>4. CASE DeleteCompositeIndex(w)
  <2>1. UNCHANGED tables /\ UNCHANGED arg /\ calls' = calls + 1
    BY <1>4 DEF DeleteCompositeIndex, Call, tables, system, customer
  <2>2. row.id \in Ids /\ Then(w, <<On("dropReal", row.id), On("delete", row.id)>>)
    BY <1>4 DEF DeleteCompositeIndex, TypeOK, IndexRow
  <2>3. On("dropReal", row.id) \in Steps /\ On("delete", row.id) \in Steps
    BY <1>0, <2>2, StepType DEF Names
  <2>4. <<On("dropReal", row.id), On("delete", row.id)>> \in Seq(Steps)
    BY <2>3
  <2>5. todo' \in [Workers -> Seq(Steps)]
    BY <2>2, <2>4, PlanStep
  <2>6. ok' \in [Workers -> BOOLEAN]
    BY <1>4 DEF DeleteCompositeIndex, TypeOK
  <2> QED
    BY <2>1, <2>5, <2>6 DEF TypeOK, tables
<1> QED
  BY <1>1, <1>2, <1>3, <1>4

\* The other steps.
LEMMA ServingType ==
    ASSUME TypeOK, NEW w \in Workers,
           \/ BackfillBatch(w) \/ BackfillCommit(w) \/ SchemaCapability(w) \/ GroupQuery(w)
           \/ RateCheck(w) \/ RateExists(w) \/ RateDefault(w) \/ RateTimeout(w)
           \/ SigninCheck(w) \/ SigninTimeout(w)
           \/ \E d \in Docs : CreateDocument(w, d)
           \/ PatchProject(w) \/ Abort(w)
    PROVE  TypeOK'
<1>0. <<>> \in Seq(Steps) /\ <<Step("exists")>> \in Seq(Steps) /\ <<Step("default")>> \in Seq(Steps)
  <2>1. Step("exists") \in Steps /\ Step("default") \in Steps
    BY StepType DEF StepNames
  <2> QED
    BY <2>1, EmptySeq
<1>1. CASE BackfillBatch(w) \/ GroupQuery(w) \/ RateExists(w) \/ RateDefault(w) \/ Abort(w)
  <2>1. UNCHANGED tables /\ UNCHANGED <<arg, ok, calls>>
    BY <1>1 DEF BackfillBatch, GroupQuery, RateExists, RateDefault, Abort, tables, system, customer, bounds
  <2>2. todo' \in [Workers -> Seq(Steps)]
    <3>1. CASE BackfillBatch(w)
      BY <3>1, AtStep, NextPlan, PlanStep DEF BackfillBatch, TypeOK
    <3>2. CASE GroupQuery(w) \/ RateExists(w) \/ RateDefault(w) \/ Abort(w)
      BY <1>0, <3>2, PlanStep DEF GroupQuery, RateExists, RateDefault, Abort, Stop
    <3> QED
      BY <1>1, <3>1, <3>2
  <2> QED
    BY <2>1, <2>2 DEF TypeOK, tables
<1>2. CASE BackfillCommit(w)
  BY <1>2 DEF BackfillCommit, TypeOK, system, control, bounds
<1>3. ASSUME NEW d \in Docs, CreateDocument(w, d)
      PROVE  TypeOK'
  BY <1>3 DEF CreateDocument, Call, TypeOK, system, control
<1>4. CASE PatchProject(w)
  <2>1. project' \in Project \union {Absent}
    BY <1>4 DEF PatchProject, TypeOK, Project
  <2> QED
    BY <1>4, <2>1 DEF PatchProject, Call, TypeOK, customer, control
<1>5. CASE SigninCheck(w) \/ SigninTimeout(w)
  BY <1>5 DEF SigninCheck, SigninTimeout, Call, TypeOK, system, customer, control
<1>6. CASE RateCheck(w) \/ RateTimeout(w)
  <2>1. UNCHANGED tables /\ UNCHANGED <<arg, ok>> /\ calls' \in Nat
    BY <1>6 DEF RateCheck, RateTimeout, Call, tables, customer, bounds, TypeOK
  <2>2. todo' \in [Workers -> Seq(Steps)]
    BY <1>0, <1>6, PlanStep DEF RateCheck, RateTimeout, Stop, TypeOK
  <2> QED
    BY <2>1, <2>2 DEF TypeOK, tables
<1>7. CASE SchemaCapability(w)
  <2>1. UNCHANGED tables /\ UNCHANGED <<arg, ok>> /\ calls' = calls + 1
    BY <1>7 DEF SchemaCapability, Call, tables, system, customer
  <2>2. capability' \in {"available", "unavailable"} /\ Then(w, <<On("query", capability')>>)
    BY <1>7 DEF SchemaCapability
  <2>3. On("query", capability') \in Steps
    BY <2>2, StepType DEF StepNames
  <2>4. <<On("query", capability')>> \in Seq(Steps)
    BY <2>3
  <2>5. todo' \in [Workers -> Seq(Steps)]
    BY <2>2, <2>4, PlanStep
  <2> QED
    BY <2>1, <2>5 DEF TypeOK, tables
<1> QED
  BY <1>1, <1>2, <1>3, <1>4, <1>5, <1>6, <1>7

\* Every step keeps the types.
LEMMA TypeStep ==
    ASSUME TypeOK, [Next]_vars
    PROVE  TypeOK'
<1>1. CASE UNCHANGED vars \/ SweepSignin \/ Tick
  BY <1>1 DEF vars, SweepSignin, Tick, TypeOK, system, customer, control, bounds
<1> QED
  BY <1>1, ProvisioningType, IndexType, ServingType DEF Next

\* Every variable keeps its type in every behaviour.
LEMMA TypesSound == Spec => []TypeOK
<1>1. TypeOK /\ [Next]_vars => TypeOK'
  BY TypeStep
<1> QED
  BY <1>1, TypeInit, PTL DEF Spec

-----------------------------------------------------------------------------
(* The rate limiters                                                       *)

\* The rows and counters that admission is about.
rates == <<project, bucket, fallback, signin, drawn, ticks>>

\* The requests a shared bucket has admitted and the tokens it still has come
\* from the first filling and from time.  A bucket that is not there yet has
\* admitted nothing.
SharedInv ==
    /\ bucket \in Nat \union {Absent}
    /\ project = Absent => bucket = Absent
    /\ bucket = Absent => drawn[<<"rate", "shared">>] = 0
    /\ bucket # Absent => drawn[<<"rate", "shared">>] + bucket <= Capacity + ticks

\* The same for the buckets in the processes.
OwnInv ==
    /\ fallback \in [Workers -> Nat]
    /\ \A w \in Workers : drawn[<<"rate", w>>] + fallback[w] <= Capacity + ticks

\* The row of an address may be swept.  It has then been idle for so long that it
\* is full again, so the new row it gets later gives away nothing.
SigninInv ==
    /\ signin \in [row : SigninRow \union {Absent}, own : [Workers -> Nat]]
    /\ \A w \in Workers : drawn[<<"signin", w>>] + signin.own[w] <= Capacity + ticks
    /\ signin.row = Absent => drawn[<<"signin", "shared">>] <= ticks
    /\ signin.row # Absent =>
          /\ drawn[<<"signin", "shared">>] + signin.row.tokens <= Capacity + ticks
          /\ signin.row.tokens <= Capacity
          /\ signin.row.tokens = Capacity \/ signin.row.tokens >= signin.row.idle

RateInv ==
    /\ drawn \in [{"rate", "signin", "conflict", "failed"} \X (Workers \union {"shared"}) -> Nat]
    /\ ticks \in Nat
    /\ SharedInv /\ OwnInv /\ SigninInv

\* Admission is decided by seven actions and the clock.
LEMMA RatesLeftAlone ==
    ASSUME NEW w \in Workers,
           \/ \E m \in {"agent", "secret", "direct_pg"}, r \in {"owner", "dml"} : Provision(w, m, r)
           \/ VerifySchemaReadiness(w) \/ AnswerProvision(w)
           \/ Migrate(w) \/ MigrateFails(w) \/ DbPrep(w) \/ GrantRead(w)
           \/ CreateIndex(w) \/ FinishIndex(w) \/ CreateRefused(w) \/ Validate(w) \/ DropIndex(w)
           \/ BackfillBatch(w) \/ BackfillCommit(w) \/ SchemaCapability(w) \/ GroupQuery(w)
           \/ CreateCompositeIndex(w) \/ ResolveDsn(w) \/ WriteStatus(w)
           \/ DeleteCompositeIndex(w) \/ DropRealIndex(w) \/ DeleteRow(w)
           \/ RateExists(w) \/ \E d \in Docs : CreateDocument(w, d)
           \/ Abort(w)
    PROVE  UNCHANGED rates
BY DEF rates, Provision, VerifySchemaReadiness, AnswerProvision, Migrate, MigrateFails, DbPrep, GrantRead,
       CreateIndex, FinishIndex, CreateRefused, Validate, DropIndex, BackfillBatch, BackfillCommit,
       SchemaCapability, GroupQuery, CreateCompositeIndex, ResolveDsn, WriteStatus, DeleteCompositeIndex,
       DropRealIndex, DeleteRow, RateExists, CreateDocument, Abort,
       Call, system, server, bounds, ghosts

\* An admission draws one token of one bucket.
LEMMA Admitted ==
    ASSUME RateInv, NEW limiter \in {"rate", "signin", "conflict", "failed"}, NEW b \in Workers \union {"shared"}, Admit(limiter, b)
    PROVE  /\ drawn' \in [{"rate", "signin", "conflict", "failed"} \X (Workers \union {"shared"}) -> Nat]
           /\ drawn'[<<limiter, b>>] = drawn[<<limiter, b>>] + 1
           /\ \A l \in {"rate", "signin", "conflict", "failed"}, c \in Workers \union {"shared"} :
                <<l, c>> # <<limiter, b>> => drawn'[<<l, c>>] = drawn[<<l, c>>]
BY DEF Admit, RateInv

LEMMA AdmittedForToken ==
    ASSUME RateInv, NEW limiter \in {"rate", "signin"}, NEW b \in Workers \union {"shared"}, Admit(limiter, b)
    PROVE  /\ drawn' \in [{"rate", "signin", "conflict", "failed"} \X (Workers \union {"shared"}) -> Nat]
           /\ drawn'[<<limiter, b>>] = drawn[<<limiter, b>>] + 1
           /\ \A l \in {"rate", "signin"}, c \in Workers \union {"shared"} :
                <<l, c>> # <<limiter, b>> => drawn'[<<l, c>>] = drawn[<<l, c>>]
BY DEF Admit, RateInv

\* Every step keeps the tokens drawn within what the buckets were given.
LEMMA RateStep ==
    ASSUME TypeOK, RateInv, [Next]_vars
    PROVE  RateInv'
<1>0. /\ drawn \in [{"rate", "signin", "conflict", "failed"} \X (Workers \union {"shared"}) -> Nat] /\ ticks \in Nat
      /\ Capacity \in Nat \ {0} /\ Retention \in Nat /\ Retention >= Capacity
      /\ Absent \notin Nat /\ Absent \notin SigninRow /\ "shared" \notin Workers
  BY BucketAssumption, AbsentAssumption, WorkersAssumption DEF RateInv
<1>1. CASE UNCHANGED rates
  BY <1>1 DEF rates, RateInv, SharedInv, OwnInv, SigninInv
<1>2. ASSUME NEW w \in Workers, InsertProject(w) \/ PatchProject(w)
      PROVE  RateInv'
  <2>1. UNCHANGED <<drawn, ticks, fallback, signin>>
    BY <1>2 DEF InsertProject, PatchProject, Call, server, bounds, ghosts
  <2>2. CASE InsertProject(w) /\ project = Absent
    <3>1. bucket' = Capacity /\ project' # Absent
      BY <2>2, NewProject DEF InsertProject
    <3>2. SharedInv'
      BY <1>0, <2>1, <2>2, <3>1 DEF RateInv, SharedInv
    <3> QED
      BY <2>1, <3>2 DEF RateInv, OwnInv, SigninInv
  <2>3. CASE InsertProject(w) /\ project # Absent
    BY <1>1, <2>1, <2>3 DEF InsertProject, rates
  <2>4. CASE PatchProject(w)
    <3>1. UNCHANGED bucket /\ project # Absent
      BY <2>4 DEF PatchProject
    <3>2. [project EXCEPT !.dsn = TRUE] \in Project
      BY <3>1 DEF TypeOK, Project
    <3>3. project' # Absent
      BY <2>4, <3>2, AbsentAssumption DEF PatchProject
    <3>4. SharedInv'
      BY <2>1, <3>1, <3>3 DEF RateInv, SharedInv
    <3> QED
      BY <2>1, <3>4 DEF RateInv, OwnInv, SigninInv
  <2> QED
    BY <1>2, <2>2, <2>3, <2>4
<1>3. ASSUME NEW w \in Workers, RateCheck(w) \/ RateDefault(w)
      PROVE  RateInv'
  <2>1. UNCHANGED <<project, ticks, fallback, signin>>
    BY <1>3 DEF RateCheck, RateDefault, Call, server
  <2>2. CASE UNCHANGED <<bucket, drawn>>
    BY <1>1, <2>1, <2>2 DEF rates
  <2>3. CASE Admit("rate", "shared") /\ bucket # Absent /\ bucket >= 1 /\ bucket' = bucket - 1
    <3>1. /\ drawn' \in [{"rate", "signin", "conflict", "failed"} \X (Workers \union {"shared"}) -> Nat]
          /\ drawn'[<<"rate", "shared">>] = drawn[<<"rate", "shared">>] + 1
          /\ drawn'[<<"signin", "shared">>] = drawn[<<"signin", "shared">>]
          /\ \A v \in Workers : /\ drawn'[<<"rate", v>>] = drawn[<<"rate", v>>]
                                /\ drawn'[<<"signin", v>>] = drawn[<<"signin", v>>]
      BY <1>0, <2>3, AdmittedForToken
    <3>2. SharedInv'
      BY <1>0, <2>1, <2>3, <3>1 DEF RateInv, SharedInv
    <3> QED
      BY <2>1, <3>1, <3>2 DEF RateInv, OwnInv, SigninInv
  <2>4. CASE Admit("rate", "shared") /\ project # Absent /\ bucket = Absent /\ bucket' = Capacity - 1
    <3>1. /\ drawn' \in [{"rate", "signin", "conflict", "failed"} \X (Workers \union {"shared"}) -> Nat]
          /\ drawn'[<<"rate", "shared">>] = drawn[<<"rate", "shared">>] + 1
          /\ drawn'[<<"signin", "shared">>] = drawn[<<"signin", "shared">>]
          /\ \A v \in Workers : /\ drawn'[<<"rate", v>>] = drawn[<<"rate", v>>]
                                /\ drawn'[<<"signin", v>>] = drawn[<<"signin", v>>]
      BY <1>0, <2>4, AdmittedForToken
    <3>2. SharedInv'
      BY <1>0, <2>1, <2>4, <3>1 DEF RateInv, SharedInv
    <3> QED
      BY <2>1, <3>1, <3>2 DEF RateInv, OwnInv, SigninInv
  <2>5. ASSUME NEW l \in {"conflict", "failed"}, NEW b \in Workers \union {"shared"}, Admit(l, b), UNCHANGED bucket,
               project # Absent, l = "failed" \/ bucket # Absent
        PROVE  RateInv'
    <3>1. /\ drawn' \in [{"rate", "signin", "conflict", "failed"} \X (Workers \union {"shared"}) -> Nat]
          /\ drawn'[<<"rate", "shared">>] = drawn[<<"rate", "shared">>]
          /\ drawn'[<<"signin", "shared">>] = drawn[<<"signin", "shared">>]
          /\ \A v \in Workers : /\ drawn'[<<"rate", v>>] = drawn[<<"rate", v>>]
                                /\ drawn'[<<"signin", v>>] = drawn[<<"signin", v>>]
      BY <1>0, <2>5, Admitted
    <3>2. SharedInv'
      BY <2>1, <2>5, <3>1 DEF RateInv, SharedInv
    <3> QED
      BY <2>1, <3>1, <3>2 DEF RateInv, OwnInv, SigninInv
  <2> QED
    BY <1>3, <2>2, <2>3, <2>4, <2>5 DEF RateCheck, RateDefault
<1>4. ASSUME NEW w \in Workers, RateTimeout(w)
      PROVE  RateInv'
  <2>1. UNCHANGED <<project, ticks, signin>> /\ CheckInProcess(w)
    BY <1>4 DEF RateTimeout, Call, bounds
  <2>2. bucket' = bucket \/ (bucket # Absent /\ bucket >= 1 /\ bucket' = bucket - 1)
    BY <1>4 DEF RateTimeout
  <2>3. CASE UNCHANGED <<fallback, drawn>>
    <3>1. SharedInv'
      BY <1>0, <2>1, <2>2, <2>3 DEF RateInv, SharedInv
    <3> QED
      BY <2>1, <2>3, <3>1 DEF RateInv, OwnInv, SigninInv
  <2>4. CASE fallback[w] >= 1 /\ fallback' = [fallback EXCEPT ![w] = @ - 1] /\ Admit("rate", w)
    <3>1. /\ drawn' \in [{"rate", "signin", "conflict", "failed"} \X (Workers \union {"shared"}) -> Nat]
          /\ drawn'[<<"rate", w>>] = drawn[<<"rate", w>>] + 1
          /\ drawn'[<<"rate", "shared">>] = drawn[<<"rate", "shared">>]
          /\ drawn'[<<"signin", "shared">>] = drawn[<<"signin", "shared">>]
          /\ \A v \in Workers \ {w} : drawn'[<<"rate", v>>] = drawn[<<"rate", v>>]
          /\ \A v \in Workers : drawn'[<<"signin", v>>] = drawn[<<"signin", v>>]
      BY <1>0, <2>4, AdmittedForToken
    <3>2. SharedInv'
      BY <1>0, <2>1, <2>2, <3>1 DEF RateInv, SharedInv
    <3>3. OwnInv'
      BY <1>0, <2>1, <2>4, <3>1 DEF RateInv, OwnInv
    <3> QED
      BY <2>1, <3>1, <3>2, <3>3 DEF RateInv, SigninInv
  <2> QED
    BY <2>1, <2>3, <2>4 DEF CheckInProcess
<1>5. ASSUME NEW r \in {signin.row, TakeSignin}
      PROVE  /\ r \in SigninRow \union {Absent}
             /\ r = Absent => signin.row = Absent
             /\ r # Absent => r.tokens <= Capacity /\ (r.tokens = Capacity \/ r.tokens >= r.idle)
             /\ r # Absent => drawn[<<"signin", "shared">>] + r.tokens <= Capacity + ticks
             /\ r # signin.row => r # Absent /\ drawn[<<"signin", "shared">>] + r.tokens + 1 <= Capacity + ticks
  <2>1. CASE r = signin.row
    BY <2>1 DEF RateInv, SigninInv
  <2>2. CASE r # signin.row
    <3>1. CASE signin.row = Absent
      <4>1. r = [tokens |-> Capacity - 1, idle |-> 0] /\ drawn[<<"signin", "shared">>] <= ticks
        BY <1>5, <2>2, <3>1 DEF TakeSignin, RateInv, SigninInv
      <4> QED
        BY <1>0, <3>1, <4>1 DEF SigninRow
    <3>2. CASE signin.row # Absent
      <4>1. signin.row \in SigninRow
        BY <3>2 DEF RateInv, SigninInv
      <4>2. r = [tokens |-> signin.row.tokens - 1, idle |-> 0] /\ signin.row.tokens >= 1
        BY <1>5, <2>2, <3>2 DEF TakeSignin
      <4>3. /\ drawn[<<"signin", "shared">>] + signin.row.tokens <= Capacity + ticks
            /\ signin.row.tokens <= Capacity
        BY <3>2 DEF RateInv, SigninInv
      <4>4. signin.row.tokens \in Nat /\ drawn[<<"signin", "shared">>] \in Nat
        BY <1>0, <4>1 DEF SigninRow
      <4>5. r.tokens = signin.row.tokens - 1 /\ r.idle = 0 /\ r \in SigninRow
        BY <4>2, <4>4 DEF SigninRow
      <4> QED
        BY <1>0, <3>2, <4>2, <4>3, <4>4, <4>5
    <3> QED
      BY <3>1, <3>2
  <2> QED
    BY <2>1, <2>2
<1>6. ASSUME NEW w \in Workers, SigninCheck(w)
      PROVE  RateInv'
  <2>1. UNCHANGED <<project, ticks, bucket, fallback>>
    BY <1>6 DEF SigninCheck, Call, system
  <2>2. /\ signin'.row = TakeSignin /\ signin'.own = signin.own
        /\ signin' \in [row : SigninRow \union {Absent}, own : [Workers -> Nat]]
    BY <1>5, <1>6 DEF SigninCheck, RateInv, SigninInv
  <2>3. CASE TakeSignin = signin.row
    <3>1. UNCHANGED drawn
      BY <1>6, <2>3 DEF SigninCheck
    <3> QED
      BY <2>1, <2>2, <2>3, <3>1 DEF RateInv, SharedInv, OwnInv, SigninInv
  <2>4. CASE TakeSignin # signin.row
    <3>1. Admit("signin", "shared")
      BY <1>6, <2>4 DEF SigninCheck
    <3>2. /\ drawn' \in [{"rate", "signin", "conflict", "failed"} \X (Workers \union {"shared"}) -> Nat]
          /\ drawn'[<<"signin", "shared">>] = drawn[<<"signin", "shared">>] + 1
          /\ drawn'[<<"rate", "shared">>] = drawn[<<"rate", "shared">>]
          /\ \A v \in Workers : /\ drawn'[<<"rate", v>>] = drawn[<<"rate", v>>]
                                /\ drawn'[<<"signin", v>>] = drawn[<<"signin", v>>]
      BY <1>0, <3>1, AdmittedForToken
    <3>3. TakeSignin # Absent /\ TakeSignin \in SigninRow
      BY <1>5, <2>4
    <3>4. drawn'[<<"signin", "shared">>] + TakeSignin.tokens <= Capacity + ticks
      <4>1. TakeSignin.tokens \in Nat /\ drawn[<<"signin", "shared">>] \in Nat
        BY <1>0, <3>3 DEF SigninRow
      <4> QED
        BY <1>0, <1>5, <2>4, <3>2, <4>1
    <3>5. SigninInv'
      BY <1>5, <2>1, <2>2, <3>2, <3>3, <3>4 DEF RateInv, SigninInv
    <3> QED
      BY <2>1, <3>2, <3>5 DEF RateInv, SharedInv, OwnInv
  <2> QED
    BY <2>3, <2>4
<1>7. ASSUME NEW w \in Workers, SigninTimeout(w)
      PROVE  RateInv'
  <2>1. UNCHANGED <<project, ticks, bucket, fallback>>
    BY <1>7 DEF SigninTimeout, Call, system
  <2>2. PICK r \in {signin.row, TakeSignin} :
          IF signin.own[w] >= 1
          THEN signin' = [row |-> r, own |-> [signin.own EXCEPT ![w] = @ - 1]] /\ Admit("signin", w)
          ELSE signin' = [signin EXCEPT !.row = r] /\ UNCHANGED drawn
    BY <1>7 DEF SigninTimeout
  <2>3. CASE signin.own[w] >= 1
    <3>1. signin'.row = r /\ signin'.own = [signin.own EXCEPT ![w] = @ - 1]
          /\ signin' \in [row : SigninRow \union {Absent}, own : [Workers -> Nat]]
      BY <1>5, <2>2, <2>3 DEF RateInv, SigninInv
    <3>2. /\ drawn' \in [{"rate", "signin", "conflict", "failed"} \X (Workers \union {"shared"}) -> Nat]
          /\ drawn'[<<"signin", w>>] = drawn[<<"signin", w>>] + 1
          /\ drawn'[<<"rate", "shared">>] = drawn[<<"rate", "shared">>]
          /\ drawn'[<<"signin", "shared">>] = drawn[<<"signin", "shared">>]
          /\ \A v \in Workers \ {w} : drawn'[<<"signin", v>>] = drawn[<<"signin", v>>]
          /\ \A v \in Workers : drawn'[<<"rate", v>>] = drawn[<<"rate", v>>]
      BY <1>0, <2>2, <2>3, AdmittedForToken
    <3>3. \A v \in Workers : drawn'[<<"signin", v>>] + signin'.own[v] <= Capacity + ticks
      <4>1. \A v \in Workers : /\ signin.own[v] \in Nat /\ drawn[<<"signin", v>>] \in Nat
                               /\ drawn[<<"signin", v>>] + signin.own[v] <= Capacity + ticks
        BY <1>0 DEF RateInv, SigninInv
      <4>2. signin'.own[w] = signin.own[w] - 1 /\ \A v \in Workers \ {w} : signin'.own[v] = signin.own[v]
        BY <3>1 DEF RateInv, SigninInv
      <4>3. ASSUME NEW v \in Workers PROVE drawn'[<<"signin", v>>] + signin'.own[v] <= Capacity + ticks
        <5>1. /\ signin.own[v] \in Nat /\ drawn[<<"signin", v>>] \in Nat
              /\ drawn[<<"signin", v>>] + signin.own[v] <= Capacity + ticks
          BY <4>1
        <5>2. CASE v = w
          BY <1>0, <3>2, <4>2, <5>1, <5>2
        <5>3. CASE v # w
          BY <3>2, <4>2, <5>1, <5>3
        <5> QED
          BY <5>2, <5>3
      <4> QED
        BY <4>3
    <3>4. SigninInv'
      BY <1>5, <2>1, <3>1, <3>2, <3>3 DEF RateInv, SigninInv
    <3> QED
      BY <2>1, <3>2, <3>4 DEF RateInv, SharedInv, OwnInv
  <2>4. CASE ~(signin.own[w] >= 1)
    <3>1. signin'.row = r /\ signin'.own = signin.own /\ UNCHANGED drawn
          /\ signin' \in [row : SigninRow \union {Absent}, own : [Workers -> Nat]]
      BY <1>5, <2>2, <2>4 DEF RateInv, SigninInv
    <3>2. SigninInv'
      BY <1>5, <2>1, <3>1 DEF RateInv, SigninInv
    <3> QED
      BY <2>1, <3>1, <3>2 DEF RateInv, SharedInv, OwnInv
  <2> QED
    BY <2>3, <2>4
<1>8. CASE SweepSignin
  <2>1. UNCHANGED <<project, ticks, bucket, fallback, drawn>>
    BY <1>8 DEF SweepSignin, system, bounds, ghosts
  <2>2. /\ signin'.row = Absent /\ signin'.own = signin.own
        /\ signin' \in [row : SigninRow \union {Absent}, own : [Workers -> Nat]]
    BY <1>8 DEF SweepSignin, RateInv, SigninInv
  <2>3. drawn[<<"signin", "shared">>] <= ticks
    <3>1. signin.row \in SigninRow /\ signin.row.idle >= Retention
      BY <1>8 DEF SweepSignin, RateInv, SigninInv
    <3>2. signin.row.tokens \in Nat /\ signin.row.idle \in Nat /\ drawn[<<"signin", "shared">>] \in Nat
      BY <1>0, <3>1 DEF SigninRow
    <3>3. /\ drawn[<<"signin", "shared">>] + signin.row.tokens <= Capacity + ticks
          /\ signin.row.tokens = Capacity \/ signin.row.tokens >= signin.row.idle
      BY <1>8 DEF SweepSignin, RateInv, SigninInv
    <3> QED
      BY <1>0, <3>1, <3>2, <3>3
  <2> QED
    BY <2>1, <2>2, <2>3 DEF RateInv, SharedInv, OwnInv, SigninInv
<1>9. CASE Tick
  <2>1. UNCHANGED <<project, drawn>> /\ ticks' = ticks + 1
    BY <1>9 DEF Tick, ghosts
  <2>2. \A n \in Nat : Refilled(n) \in Nat /\ Refilled(n) <= n + 1 /\ n <= Refilled(n)
                       /\ (n <= Capacity => Refilled(n) <= Capacity /\ (Refilled(n) = n + 1 \/ Refilled(n) = Capacity))
    BY <1>0 DEF Refilled
  <2>3. bucket' = IF bucket = Absent THEN Absent ELSE Refilled(bucket)
    BY <1>9 DEF Tick
  <2>4. fallback' = [w \in Workers |-> Refilled(fallback[w])]
    BY <1>9 DEF Tick
  <2>5. signin' = [own |-> [w \in Workers |-> Refilled(signin.own[w])],
                   row |-> IF signin.row = Absent THEN Absent
                           ELSE [tokens |-> Refilled(signin.row.tokens),
                                 idle |-> IF signin.row.idle < Retention THEN signin.row.idle + 1
                                          ELSE Retention]]
    BY <1>9 DEF Tick
  <2>6. SharedInv'
    BY <1>0, <2>1, <2>2, <2>3 DEF RateInv, SharedInv
  <2>7. OwnInv'
    BY <1>0, <2>1, <2>2, <2>4 DEF RateInv, OwnInv
  <2>8. SigninInv'
    <3>1. signin'.own = [w \in Workers |-> Refilled(signin.own[w])] /\ signin'.own \in [Workers -> Nat]
      BY <2>2, <2>5 DEF RateInv, SigninInv
    <3>2. \A w \in Workers : drawn'[<<"signin", w>>] + signin'.own[w] <= Capacity + ticks'
      <4>1. \A w \in Workers : /\ signin.own[w] \in Nat /\ drawn[<<"signin", w>>] \in Nat
                               /\ drawn[<<"signin", w>>] + signin.own[w] <= Capacity + ticks
        BY <1>0 DEF RateInv, SigninInv
      <4>2. \A w \in Workers : signin'.own[w] \in Nat /\ signin'.own[w] <= signin.own[w] + 1
        BY <2>2, <3>1, <4>1
      <4>3. ASSUME NEW w \in Workers PROVE drawn'[<<"signin", w>>] + signin'.own[w] <= Capacity + ticks'
        BY <1>0, <2>1, <4>1, <4>2
      <4> QED
        BY <4>3
    <3>3. CASE signin.row = Absent
      <4>1. signin'.row = Absent /\ drawn[<<"signin", "shared">>] <= ticks
        BY <2>5, <3>3 DEF RateInv, SigninInv
      <4> QED
        BY <1>0, <2>1, <2>5, <3>1, <3>2, <4>1 DEF SigninInv
    <3>4. CASE signin.row # Absent
      <4>1. /\ signin.row \in SigninRow /\ signin.row.tokens \in Nat /\ signin.row.idle \in Nat
            /\ drawn[<<"signin", "shared">>] \in Nat
        BY <1>0, <3>4 DEF RateInv, SigninInv, SigninRow
      <4>2. /\ drawn[<<"signin", "shared">>] + signin.row.tokens <= Capacity + ticks
            /\ signin.row.tokens <= Capacity
            /\ signin.row.tokens = Capacity \/ signin.row.tokens >= signin.row.idle
        BY <3>4 DEF RateInv, SigninInv
      <4> DEFINE t == Refilled(signin.row.tokens)
                 i == IF signin.row.idle < Retention THEN signin.row.idle + 1 ELSE Retention
      <4>3. signin'.row = [tokens |-> t, idle |-> i]
        BY <2>5, <3>4
      <4>4. t \in Nat /\ i \in Nat /\ t <= Capacity /\ t <= signin.row.tokens + 1 /\ i <= signin.row.idle + 1
            /\ (t = signin.row.tokens + 1 \/ t = Capacity) /\ signin.row.tokens <= t
        BY <1>0, <2>2, <4>1, <4>2
      <4> HIDE DEF t, i
      <4>5. signin'.row \in SigninRow /\ signin'.row # Absent /\ signin'.row.tokens = t /\ signin'.row.idle = i
        BY <1>0, <4>3, <4>4 DEF SigninRow
      <4>6. t = Capacity \/ t >= i
        BY <1>0, <4>1, <4>2, <4>4
      <4>7. drawn[<<"signin", "shared">>] + t <= Capacity + ticks'
        BY <1>0, <2>1, <4>1, <4>2, <4>4
      <4>8. signin' \in [row : SigninRow \union {Absent}, own : [Workers -> Nat]]
        BY <2>5, <3>1, <4>5
      <4> QED
        BY <2>1, <3>2, <4>4, <4>5, <4>6, <4>7, <4>8 DEF SigninInv
    <3> QED
      BY <3>3, <3>4
  <2> QED
    BY <1>0, <2>1, <2>6, <2>7, <2>8 DEF RateInv
<1>10. CASE UNCHANGED vars
  BY <1>1, <1>10 DEF vars, rates, system, server, bounds, ghosts
<1> QED
  BY <1>1, <1>2, <1>3, <1>4, <1>6, <1>7, <1>8, <1>9, <1>10, RatesLeftAlone DEF Next

\* That holds in every behaviour.
LEMMA RatesSound == Spec => []RateInv
<1>1. Init => RateInv
  <2> SUFFICES ASSUME Init PROVE RateInv
    OBVIOUS
  <2>1. /\ drawn = [b \in {"rate", "signin", "conflict", "failed"} \X (Workers \union {"shared"}) |-> 0] /\ ticks = 0
        /\ bucket = Absent /\ fallback = [w \in Workers |-> Capacity]
        /\ signin = [row |-> Absent, own |-> [w \in Workers |-> Capacity]]
    BY DEF Init, Ledger
  <2>2. Capacity \in Nat
    BY BucketAssumption
  <2>3. SharedInv /\ OwnInv
    BY <2>1, <2>2 DEF SharedInv, OwnInv
  <2>4. SigninInv
    BY <2>1, <2>2 DEF SigninInv
  <2> QED
    BY <2>1, <2>3, <2>4 DEF RateInv
<1>2. TypeOK /\ RateInv /\ [Next]_vars => RateInv'
  BY RateStep
<1> QED
  BY <1>1, <1>2, TypesSound, PTL DEF Spec

-----------------------------------------------------------------------------
(* Plans as sequences: the steps in a plan, and their order                *)

Ops(s) == {s[n].op : n \in DOMAIN s}

Ends == {"answer", "backfill"}

\* Nothing is inserted or migrated after the answer or the backfill.
AnswerLast(s) ==
    \A m, n \in DOMAIN s : m < n /\ s[m].op \in Ends => s[n].op \notin {"insert", "migrate"}

\* The statements of a plan whose first has run,
LEMMA OpsTail ==
    ASSUME NEW s \in Seq(Steps), s # <<>>
    PROVE  /\ Ops(s) = {Head(s).op} \union Ops(Tail(s))
           /\ AnswerLast(s) => AnswerLast(Tail(s))
           /\ AnswerLast(s) /\ Head(s).op \in Ends => Ops(s) \cap {"insert", "migrate"} = {}
<1>1. /\ Len(s) \in Nat \ {0} /\ DOMAIN s = 1 .. Len(s) /\ Head(s) = s[1]
      /\ DOMAIN Tail(s) = 1 .. Len(s) - 1
      /\ \A i \in 1 .. Len(s) - 1 : Tail(s)[i] = s[i + 1]
  BY EmptySeq, LenProperties, HeadTailProperties
<1>2. Ops(s) = {Head(s).op} \union Ops(Tail(s))
  <2>1. ASSUME NEW n \in DOMAIN s PROVE s[n].op \in {Head(s).op} \union Ops(Tail(s))
    <3>1. CASE n = 1
      BY <1>1, <3>1
    <3>2. CASE n # 1
      <4>1. n - 1 \in 1 .. Len(s) - 1 /\ Tail(s)[n - 1] = s[n]
        BY <1>1, <3>2
      <4> QED
        BY <1>1, <4>1 DEF Ops
    <3> QED
      BY <3>1, <3>2
  <2>2. ASSUME NEW n \in DOMAIN Tail(s) PROVE Tail(s)[n].op \in Ops(s)
    <3>1. n + 1 \in DOMAIN s /\ Tail(s)[n] = s[n + 1]
      BY <1>1
    <3> QED
      BY <3>1 DEF Ops
  <2>3. Head(s).op \in Ops(s)
    BY <1>1 DEF Ops
  <2>4. Ops(s) \subseteq {Head(s).op} \union Ops(Tail(s))
    BY <2>1 DEF Ops
  <2>5. Ops(Tail(s)) \subseteq Ops(s)
    BY <2>2 DEF Ops
  <2> QED
    BY <2>3, <2>4, <2>5
<1>3. AnswerLast(s) => AnswerLast(Tail(s))
  <2> SUFFICES ASSUME AnswerLast(s), NEW m \in DOMAIN Tail(s), NEW n \in DOMAIN Tail(s),
                      m < n, Tail(s)[m].op \in Ends
               PROVE  Tail(s)[n].op \notin {"insert", "migrate"}
    BY DEF AnswerLast
  <2>1. m + 1 \in DOMAIN s /\ n + 1 \in DOMAIN s /\ m + 1 < n + 1 /\ Tail(s)[m] = s[m + 1] /\ Tail(s)[n] = s[n + 1]
    BY <1>1
  <2> QED
    BY <2>1 DEF AnswerLast
<1>4. AnswerLast(s) /\ Head(s).op \in Ends => Ops(s) \cap {"insert", "migrate"} = {}
  <2> SUFFICES ASSUME AnswerLast(s), Head(s).op \in Ends, NEW n \in DOMAIN s
               PROVE  s[n].op \notin {"insert", "migrate"}
    BY DEF Ops
  <2>1. CASE n = 1
    BY <1>1, <2>1 DEF Ends
  <2>2. CASE n # 1
    <3>1. 1 \in DOMAIN s /\ 1 < n /\ s[1].op \in Ends
      BY <1>1, <2>2
    <3> QED
      BY <3>1 DEF AnswerLast
  <2> QED
    BY <2>1, <2>2
<1> QED
  BY <1>2, <1>3, <1>4

\* of two plans one after the other,
LEMMA OpsConcat ==
    ASSUME NEW s \in Seq(Steps), NEW t \in Seq(Steps)
    PROVE  /\ Ops(s \o t) = Ops(s) \union Ops(t)
           /\ AnswerLast(s) /\ AnswerLast(t) /\ (Ops(s) \cap Ends # {} => Ops(t) \cap {"insert", "migrate"} = {})
                => AnswerLast(s \o t)
<1>1. /\ Len(s) \in Nat /\ DOMAIN s = 1 .. Len(s) /\ Len(t) \in Nat /\ DOMAIN t = 1 .. Len(t)
      /\ DOMAIN (s \o t) = 1 .. Len(s) + Len(t)
      /\ \A i \in 1 .. Len(s) + Len(t) : (s \o t)[i] = IF i <= Len(s) THEN s[i] ELSE t[i - Len(s)]
  BY LenProperties, ConcatProperties
<1> DEFINE u == s \o t
<1>2. /\ \A i \in DOMAIN s : i \in DOMAIN u /\ u[i] = s[i]
      /\ \A j \in DOMAIN t : Len(s) + j \in DOMAIN u /\ u[Len(s) + j] = t[j]
      /\ \A i \in DOMAIN u : i \notin DOMAIN s => i - Len(s) \in DOMAIN t /\ u[i] = t[i - Len(s)]
  BY <1>1
<1> HIDE DEF u
<1>3. Ops(u) = Ops(s) \union Ops(t)
  BY <1>2 DEF Ops
<1>4. AnswerLast(s) /\ AnswerLast(t) /\ (Ops(s) \cap Ends # {} => Ops(t) \cap {"insert", "migrate"} = {})
        => AnswerLast(u)
  <2> SUFFICES ASSUME AnswerLast(s), AnswerLast(t),
                      Ops(s) \cap Ends # {} => Ops(t) \cap {"insert", "migrate"} = {},
                      NEW m \in DOMAIN u, NEW n \in DOMAIN u, m < n, u[m].op \in Ends
               PROVE  u[n].op \notin {"insert", "migrate"}
    BY DEF AnswerLast
  <2>0. m \in Int /\ n \in Int /\ Len(s) \in Nat
    BY <1>1 DEF u
  <2>1. CASE n \in DOMAIN s
    <3>1. m \in DOMAIN s
      BY <1>1, <2>0, <2>1 DEF u
    <3> QED
      BY <1>2, <2>1, <3>1 DEF AnswerLast
  <2>2. CASE n \notin DOMAIN s /\ m \in DOMAIN s
    <3>1. Ops(s) \cap Ends # {} /\ u[n].op \in Ops(t)
      BY <1>2, <2>2 DEF Ops
    <3> QED
      BY <3>1
  <2>3. CASE n \notin DOMAIN s /\ m \notin DOMAIN s
    <3>1. m - Len(s) \in DOMAIN t /\ n - Len(s) \in DOMAIN t /\ u[m] = t[m - Len(s)] /\ u[n] = t[n - Len(s)]
      BY <1>2, <2>3
    <3>2. m - Len(s) < n - Len(s)
      BY <2>0
    <3> QED
      BY <3>1, <3>2 DEF AnswerLast
  <2> QED
    BY <2>1, <2>2, <2>3
<1> QED
  BY <1>3, <1>4 DEF u

\* and of the shortest plans.
LEMMA OpsShort ==
    /\ Ops(<<>>) = {} /\ AnswerLast(<<>>)
    /\ \A x : Ops(<<x>>) = {x.op} /\ AnswerLast(<<x>>)
    /\ \A x, y : Ops(<<x, y>>) = {x.op, y.op}
    /\ \A x, y : (x.op \in Ends => y.op \notin {"insert", "migrate"}) => AnswerLast(<<x, y>>)
<1>1. Ops(<<>>) = {} /\ AnswerLast(<<>>)
  BY DEF Ops, AnswerLast
<1>2. \A x : Ops(<<x>>) = {x.op} /\ AnswerLast(<<x>>)
  BY DEF Ops, AnswerLast
<1>3. ASSUME NEW x, NEW y PROVE Ops(<<x, y>>) = {x.op, y.op}
  <2>1. DOMAIN <<x, y>> = {1, 2} /\ <<x, y>>[1] = x /\ <<x, y>>[2] = y
    OBVIOUS
  <2> QED
    BY <2>1 DEF Ops
<1>4. ASSUME NEW x, NEW y, x.op \in Ends => y.op \notin {"insert", "migrate"}
      PROVE  AnswerLast(<<x, y>>)
  <2>1. DOMAIN <<x, y>> = {1, 2} /\ <<x, y>>[1] = x /\ <<x, y>>[2] = y
    OBVIOUS
  <2> QED
    BY <1>4, <2>1 DEF AnswerLast
<1> QED
  BY <1>1, <1>2, <1>3, <1>4

-----------------------------------------------------------------------------
(* Provisioning                                                            *)

\* A worker that still has to answer for a project has the project's row,
\* unless the insert is still to come, and its migrations are done or to come;
\* so are those of a backfill.  A query that uses the column comes after them, and
\* a thread that was let in beside a row that another made is not again.
Owes(w) ==
    /\ AnswerLast(todo[w])
    /\ "answer" \in Ops(todo[w]) =>
          /\ arg[w].mode # "agent" => Ready(schema) \/ "migrate" \in Ops(todo[w])
          /\ "insert" \notin Ops(todo[w]) =>
                /\ project # Absent /\ bucket # Absent
                /\ project.key = arg[w].key /\ project.mode = arg[w].mode
    /\ "backfill" \in Ops(todo[w]) => Ready(schema) \/ "migrate" \in Ops(todo[w])
    /\ "query" \in Ops(todo[w]) => Ready(schema) \/ todo[w] = <<On("query", "unavailable")>>
    /\ drawn[<<"conflict", w>>] # 0 =>
          drawn[<<"conflict", w>>] = 1 /\ bucket # Absent /\ "default" \notin Ops(todo[w])

Cached == capability = "available" => Ready(schema)

ProvisionInv == KeyOpensProject /\ Cached /\ \A w \in Workers : Owes(w)

\* The migrations applied, and who applies them.
LEMMA SchemaKept ==
    ASSUME [Next]_vars, ~\E w \in Workers : Migrate(w) \/ MigrateFails(w)
    PROVE  UNCHANGED schema
<1>1. CASE UNCHANGED vars \/ SweepSignin \/ Tick
  BY <1>1 DEF vars, SweepSignin, Tick, customer
<1>2. ASSUME NEW w \in Workers,
             \/ \E m \in {"agent", "secret", "direct_pg"}, r \in {"owner", "dml"} : Provision(w, m, r)
             \/ VerifySchemaReadiness(w) \/ InsertProject(w) \/ AnswerProvision(w)
             \/ DbPrep(w) \/ GrantRead(w)
             \/ CreateIndex(w) \/ FinishIndex(w) \/ CreateRefused(w) \/ Validate(w) \/ DropIndex(w)
             \/ BackfillBatch(w) \/ BackfillCommit(w) \/ SchemaCapability(w) \/ GroupQuery(w)
      PROVE  UNCHANGED schema
  BY <1>2 DEF Provision, VerifySchemaReadiness, InsertProject, AnswerProvision, DbPrep,
              GrantRead, CreateIndex, FinishIndex, CreateRefused, Validate, DropIndex, BackfillBatch,
              BackfillCommit, SchemaCapability, GroupQuery, customer
<1>3. ASSUME NEW w \in Workers,
             \/ CreateCompositeIndex(w) \/ ResolveDsn(w) \/ WriteStatus(w)
             \/ DeleteCompositeIndex(w) \/ DropRealIndex(w) \/ DeleteRow(w)
             \/ RateCheck(w) \/ RateExists(w) \/ RateDefault(w) \/ RateTimeout(w)
             \/ SigninCheck(w) \/ SigninTimeout(w)
             \/ \E d \in Docs : CreateDocument(w, d)
             \/ PatchProject(w) \/ Abort(w)
      PROVE  UNCHANGED schema
  BY <1>3 DEF CreateCompositeIndex, ResolveDsn, WriteStatus, DeleteCompositeIndex, DropRealIndex, DeleteRow,
              RateCheck, RateExists, RateDefault, RateTimeout, SigninCheck, SigninTimeout, CreateDocument,
              PatchProject, Abort, customer
<1> QED
  BY <1>1, <1>2, <1>3 DEF Next

\* A project keeps its key and its mode, a bucket stays, and no migration is
\* taken back.
LEMMA ProjectStays ==
    ASSUME TypeOK, RateInv, [Next]_vars
    PROVE  /\ project # Absent => project' # Absent /\ project'.key = project.key /\ project'.mode = project.mode
           /\ bucket # Absent => bucket' # Absent
           /\ Ready(schema) => Ready(schema')
<1>0. Absent \notin Nat /\ Absent \notin Project /\ Capacity \in Nat \ {0} /\ bucket \in Nat \union {Absent}
  BY AbsentAssumption, BucketAssumption DEF RateInv, SharedInv
<1>1. Ready(schema) => Ready(schema')
  <2>1. CASE UNCHANGED schema
    BY <2>1
  <2>2. ASSUME NEW w \in Workers, Migrate(w) \/ MigrateFails(w) PROVE Ready(schema) => Ready(schema')
    BY <2>2, SchemaAssumption DEF Migrate, MigrateFails, TypeOK, Ready
  <2> QED
    BY <2>1, <2>2, SchemaKept
<1> DEFINE Stays == /\ project # Absent => project' # Absent /\ project'.key = project.key /\ project'.mode = project.mode
                    /\ bucket # Absent => bucket' # Absent
<1>2. ASSUME UNCHANGED <<project, bucket>> PROVE Stays
  BY <1>2
<1>3. ASSUME NEW w \in Workers, InsertProject(w) PROVE Stays
  <2>1. CASE project # Absent
    BY <1>3, <2>1 DEF InsertProject
  <2>2. CASE project = Absent
    <3>1. bucket' = Capacity
      BY <1>3, <2>2 DEF InsertProject
    <3> QED
      BY <1>0, <2>2, <3>1
  <2> QED
    BY <2>1, <2>2
<1>4. ASSUME NEW w \in Workers, PatchProject(w) PROVE Stays
  <2>1. project \in Project /\ UNCHANGED bucket /\ project' = [project EXCEPT !.dsn = TRUE]
    BY <1>4 DEF PatchProject, TypeOK
  <2>2. project' \in Project /\ project'.key = project.key /\ project'.mode = project.mode
    BY <2>1 DEF Project
  <2> QED
    BY <1>0, <2>1, <2>2
<1>5. ASSUME NEW w \in Workers, RateCheck(w) \/ RateDefault(w) \/ RateTimeout(w) PROVE Stays
  BY <1>0, <1>5 DEF RateCheck, RateDefault, RateTimeout
<1>6. ASSUME NEW w \in Workers, SigninCheck(w) \/ SigninTimeout(w) PROVE UNCHANGED <<project, bucket>>
  BY <1>6 DEF SigninCheck, SigninTimeout, system
<1>7. ASSUME Tick PROVE Stays
  <2>1. UNCHANGED project /\ bucket' = IF bucket = Absent THEN Absent ELSE Refilled(bucket)
    BY <1>7 DEF Tick
  <2>2. bucket \in Nat => Refilled(bucket) \in Nat
    BY <1>0 DEF Refilled
  <2> QED
    BY <1>0, <2>1, <2>2
<1>8. ASSUME UNCHANGED vars \/ SweepSignin PROVE Stays
  BY <1>2, <1>8 DEF vars, SweepSignin, system
<1>9. Stays
  BY <1>2, <1>3, <1>4, <1>5, <1>6, <1>7, <1>8, RatesLeftAlone DEF Next, rates
<1> QED
  BY <1>1, <1>9

\* The steps of a plan that is left: no answer, or the one that was in it, with
\* the insert and the migration that were in it.
Keeps(w, s) ==
    /\ AnswerLast(s)
    /\ "answer" \in Ops(s) => /\ "answer" \in Ops(todo[w]) /\ arg'[w] = arg[w]
                              /\ Ops(todo[w]) \cap {"insert", "migrate"} \subseteq Ops(s)
    /\ "backfill" \in Ops(s) =>
          "migrate" \in Ops(s) \/ ("backfill" \in Ops(todo[w]) /\ "migrate" \notin Ops(todo[w]))
    /\ "query" \in Ops(s) => Ready(schema) \/ s = <<On("query", "unavailable")>>
    /\ "default" \in Ops(s) => "default" \in Ops(todo[w]) \/ bucket = Absent

\* The statements that a plan must not have, to keep to any other.
Bound == {"answer", "backfill", "query", "default"}

\* A plan that has none of them keeps to that.
LEMMA NoAnswer ==
    ASSUME NEW w, NEW s, Ops(s) \cap Bound = {}
    PROVE  Keeps(w, s)
<1>1. \A n \in DOMAIN s : s[n].op \notin Bound
  BY DEF Ops
<1>2. AnswerLast(s)
  BY <1>1 DEF AnswerLast, Ends, Bound
<1> QED
  BY <1>2 DEF Keeps, Bound

\* A worker that keeps to its plan goes on owing what it owes.
LEMMA SamePlan ==
    ASSUME TypeOK, RateInv, [Next]_vars, NEW w \in Workers, Owes(w), Keeps(w, todo'[w]),
           drawn'[<<"conflict", w>>] = drawn[<<"conflict", w>>]
    PROVE  Owes(w)'
<1>1. /\ AnswerLast(todo'[w])
      /\ "answer" \in Ops(todo'[w]) =>
            /\ arg'[w].mode # "agent" => Ready(schema') \/ "migrate" \in Ops(todo'[w])
            /\ "insert" \notin Ops(todo'[w]) =>
                  /\ project' # Absent /\ bucket' # Absent
                  /\ project'.key = arg'[w].key /\ project'.mode = arg'[w].mode
  BY ProjectStays DEF Owes, Keeps
<1>2. "backfill" \in Ops(todo'[w]) => Ready(schema') \/ "migrate" \in Ops(todo'[w])
  BY ProjectStays DEF Owes, Keeps
<1>3. "query" \in Ops(todo'[w]) => Ready(schema') \/ todo'[w] = <<On("query", "unavailable")>>
  BY ProjectStays DEF Keeps
<1>4. drawn'[<<"conflict", w>>] # 0 =>
         drawn'[<<"conflict", w>>] = 1 /\ bucket' # Absent /\ "default" \notin Ops(todo'[w])
  BY ProjectStays DEF Owes, Keeps
<1> QED
  BY <1>1, <1>2, <1>3, <1>4 DEF Owes

\* What the steps that neither insert nor migrate make of a plan.
LEMMA AtKeeps ==
    ASSUME TypeOK, NEW w \in Workers, Owes(w), NEW o \in StepNames \ {"insert", "migrate", "query"}, At(w, o),
           arg'[w] = arg[w]
    PROVE  /\ Keeps(w, Tail(todo[w]))
           /\ \A n \in StepNames \ Bound : Keeps(w, <<On(n, Index(w))>> \o Tail(todo[w]))
           /\ Keeps(w, <<>>)
<1>1. todo[w] \in Seq(Steps) /\ todo[w] # <<>> /\ Head(todo[w]) \in Steps /\ Tail(todo[w]) \in Seq(Steps)
  BY AtStep
<1>2. Ops(todo[w]) = {o} \union Ops(Tail(todo[w])) /\ AnswerLast(Tail(todo[w]))
  BY <1>1, OpsTail DEF At, Owes
<1>4. "query" \in Ops(Tail(todo[w])) => Ready(schema)
  <2>1. todo[w] # <<On("query", "unavailable")>>
    BY DEF At, On
  <2> QED
    BY <1>2, <2>1 DEF Owes
<1>3. ASSUME NEW n \in StepNames \ Bound
      PROVE  Keeps(w, <<On(n, Index(w))>> \o Tail(todo[w]))
  <2> DEFINE x == On(n, Index(w))
             u == <<x>> \o Tail(todo[w])
  <2>1. x \in Steps /\ x.op = n
    BY <1>1, StepType DEF Index, On
  <2>2. <<x>> \in Seq(Steps)
    BY <2>1
  <2> HIDE DEF x
  <2>3. Ops(<<x>>) = {n} /\ AnswerLast(<<x>>)
    BY <2>1, OpsShort
  <2>6. Ops(<<x>>) \cap Ends = {}
    BY <2>3 DEF Ends, Bound
  <2>4. Ops(u) = {n} \union Ops(Tail(todo[w])) /\ AnswerLast(u)
    BY <1>1, <1>2, <2>2, <2>3, <2>6, OpsConcat
  <2> HIDE DEF u
  <2>5. Keeps(w, u)
    BY <1>2, <1>4, <2>4 DEF Keeps, Bound
  <2> QED
    BY <2>5 DEF u, x
<1>5. Keeps(w, Tail(todo[w]))
  BY <1>2, <1>4 DEF Keeps
<1> QED
  BY <1>3, <1>5, NoAnswer, OpsShort

\* A plan that has no answer in it.
LEMMA ThenKeeps ==
    ASSUME TypeOK, NEW w \in Workers, NEW s \in Seq(Steps), Then(w, s), Keeps(w, s)
    PROVE  Keeps(w, todo'[w]) /\ \A v \in Workers \ {w} : todo'[v] = todo[v]
BY PlanStep

\* A request that stops keeps to that,
LEMMA StopKeeps ==
    ASSUME TypeOK, NEW w \in Workers, Stop(w)
    PROVE  Keeps(w, todo'[w]) /\ \A v \in Workers \ {w} : todo'[v] = todo[v]
<1>1. <<>> \in Seq(Steps) /\ Keeps(w, <<>>)
  BY EmptySeq, NoAnswer, OpsShort
<1> QED
  BY <1>1, ThenKeeps DEF Stop

\* So all steps but those of provisioning itself keep what a worker owes.
LEMMA IndexKeeps ==
    ASSUME TypeOK, NEW w \in Workers, Owes(w),
           \/ AnswerProvision(w) \/ GrantRead(w)
           \/ CreateIndex(w) \/ FinishIndex(w) \/ CreateRefused(w) \/ Validate(w) \/ DropIndex(w)
           \/ ResolveDsn(w) \/ WriteStatus(w) \/ DropRealIndex(w) \/ DeleteRow(w)
    PROVE  /\ Keeps(w, todo'[w]) /\ arg' = arg
           /\ \A v \in Workers \ {w} : todo'[v] = todo[v]
<1>1. arg' = arg
  BY DEF AnswerProvision, GrantRead, CreateIndex, FinishIndex, CreateRefused, Validate, DropIndex, ResolveDsn,
         WriteStatus, DropRealIndex, DeleteRow
<1>2. PICK o \in StepNames \ {"insert", "migrate", "query"} : At(w, o)
  BY DEF AnswerProvision, GrantRead, CreateIndex, FinishIndex, CreateRefused, Validate, DropIndex, ResolveDsn,
         WriteStatus, DropRealIndex, DeleteRow, StepNames
<1>3. /\ Keeps(w, Tail(todo[w])) /\ Tail(todo[w]) \in Seq(Steps)
      /\ \A n \in StepNames \ Bound : Keeps(w, <<On(n, Index(w))>> \o Tail(todo[w]))
      /\ \A n \in StepNames : <<On(n, Index(w))>> \o Tail(todo[w]) \in Seq(Steps)
      /\ Keeps(w, <<>>) /\ <<>> \in Seq(Steps) /\ todo[w] # <<>>
  BY <1>1, <1>2, AtKeeps, AtStep, EmptySeq
<1>4. {"create", "finish", "validate", "drop"} \subseteq StepNames \ Bound
  BY DEF StepNames, Bound
<1>5. \E s \in Seq(Steps) : Then(w, s) /\ Keeps(w, s)
  <2>1. CASE AnswerProvision(w) \/ GrantRead(w) \/ WriteStatus(w) \/ DeleteRow(w)
    BY <1>3, <2>1, NextPlan DEF AnswerProvision, GrantRead, WriteStatus, DeleteRow
  <2>2. CASE CreateIndex(w) \/ FinishIndex(w) \/ CreateRefused(w)
    BY <1>3, <1>4, <2>2 DEF CreateIndex, FinishIndex, CreateRefused
  <2>3. CASE Validate(w)
    BY <1>3, <1>4, <2>3, NextPlan DEF Validate
  <2>4. CASE DropIndex(w)
    BY <1>3, <2>4 DEF DropIndex, AfterDrop
  <2>5. CASE ResolveDsn(w)
    BY <1>3, <1>4, <2>5, NextPlan DEF ResolveDsn
  <2>6. CASE DropRealIndex(w)
    BY <1>3, <2>6, NextPlan DEF DropRealIndex, Stop
  <2> QED
    BY <2>1, <2>2, <2>3, <2>4, <2>5, <2>6
<1> QED
  BY <1>1, <1>5, ThenKeeps

\* and so do the requests that provision nothing.
LEMMA ServingKeeps ==
    ASSUME TypeOK, Cached, NEW w \in Workers, Owes(w),
           \/ DbPrep(w) \/ CreateCompositeIndex(w) \/ DeleteCompositeIndex(w)
           \/ BackfillBatch(w) \/ BackfillCommit(w) \/ SchemaCapability(w) \/ GroupQuery(w)
           \/ RateCheck(w) \/ RateExists(w) \/ RateDefault(w) \/ RateTimeout(w)
           \/ SigninCheck(w) \/ SigninTimeout(w)
           \/ \E d \in Docs : CreateDocument(w, d)
           \/ PatchProject(w) \/ Abort(w)
    PROVE  /\ Keeps(w, todo'[w])
           /\ \A v \in Workers \ {w} : todo'[v] = todo[v] /\ arg'[v] = arg[v]
<1>1. \A v \in Workers \ {w} : arg'[v] = arg[v]
  BY DEF TypeOK, DbPrep, CreateCompositeIndex, DeleteCompositeIndex, BackfillBatch, BackfillCommit, SchemaCapability,
         GroupQuery, RateCheck, RateExists, RateDefault, RateTimeout, SigninCheck, SigninTimeout, CreateDocument,
         PatchProject, Abort, control
<1>2. ASSUME UNCHANGED <<todo, arg>> PROVE Keeps(w, todo'[w]) /\ \A v \in Workers \ {w} : todo'[v] = todo[v]
  <2>1. Keeps(w, todo[w])
    BY <1>2 DEF Keeps, Owes
  <2> QED
    BY <1>2, <2>1
<1>3. CASE BackfillCommit(w) \/ SigninCheck(w) \/ SigninTimeout(w) \/ PatchProject(w) \/ \E d \in Docs : CreateDocument(w, d)
  BY <1>1, <1>2, <1>3 DEF BackfillCommit, SigninCheck, SigninTimeout, PatchProject, CreateDocument, control
<1>4. CASE GroupQuery(w) \/ RateDefault(w) \/ RateTimeout(w) \/ Abort(w)
  BY <1>1, <1>4, StopKeeps DEF GroupQuery, RateDefault, RateTimeout, Abort
<1>5. CASE BackfillBatch(w)
  <2>1. UNCHANGED arg /\ At(w, "backfill") /\ (Next1(w) \/ UNCHANGED todo)
    BY <1>5 DEF BackfillBatch
  <2>2. CASE Next1(w)
    <3>1. Keeps(w, Tail(todo[w])) /\ Tail(todo[w]) \in Seq(Steps) /\ todo[w] # <<>>
      BY <2>1, AtKeeps, AtStep DEF StepNames
    <3> QED
      BY <1>1, <2>2, <3>1, NextPlan, ThenKeeps
  <2> QED
    BY <1>1, <1>2, <2>1, <2>2
<1>6. CASE RateCheck(w) \/ RateExists(w)
  <2>1. UNCHANGED arg
    BY <1>6 DEF RateCheck, RateExists
  <2>2. \A n \in {"exists", "default"} : <<Step(n)>> \in Seq(Steps) /\ Ops(<<Step(n)>>) = {n}
    <3>1. \A n \in {"exists", "default"} : Step(n) \in Steps /\ Step(n).op = n
      BY StepType DEF StepNames, Step
    <3> QED
      BY <3>1, OpsShort
  <2>3. <<>> \in Seq(Steps) /\ Keeps(w, <<>>) /\ Keeps(w, <<Step("exists")>>)
    BY <2>2, EmptySeq, NoAnswer, OpsShort DEF Bound
  <2>5. bucket = Absent => Keeps(w, <<Step("default")>>)
    BY <2>2, OpsShort DEF Keeps
  <2>4. UNCHANGED todo \/ \E s \in Seq(Steps) : Then(w, s) /\ Keeps(w, s)
    BY <1>6, <2>2, <2>3, <2>5 DEF RateCheck, RateExists
  <2> QED
    BY <1>1, <1>2, <2>1, <2>4, ThenKeeps
<1>7. CASE SchemaCapability(w)
  <2>1. capability' \in {"available", "unavailable"} /\ Then(w, <<On("query", capability')>>)
    BY <1>7 DEF SchemaCapability
  <2>2. On("query", capability') \in Steps /\ On("query", capability').op = "query"
    BY <2>1, StepType DEF StepNames, On
  <2>3. <<On("query", capability')>> \in Seq(Steps) /\ Ops(<<On("query", capability')>>) = {"query"}
    BY <2>2, OpsShort
  <2>5. capability' = "available" => Ready(schema)
    BY <1>7, SchemaAssumption DEF SchemaCapability, Cached, Ready, TypeOK
  <2>6. AnswerLast(<<On("query", capability')>>)
    BY OpsShort
  <2>4. Keeps(w, <<On("query", capability')>>)
    BY <2>1, <2>3, <2>5, <2>6 DEF Keeps
  <2> QED
    BY <1>1, <2>1, <2>3, <2>4, ThenKeeps
<1>8. ASSUME NEW a \in StepNames \ Bound, NEW b \in StepNames \ Bound, NEW i \in Ids,
             Then(w, <<On(a, i), On(b, i)>>)
      PROVE  Keeps(w, todo'[w]) /\ \A v \in Workers \ {w} : todo'[v] = todo[v]
  <2> DEFINE x == On(a, i)
             y == On(b, i)
  <2>1. x \in Steps /\ y \in Steps /\ x.op = a /\ y.op = b
    BY StepType DEF On, Names
  <2> HIDE DEF x, y
  <2>2. <<x, y>> \in Seq(Steps) /\ Ops(<<x, y>>) \cap Bound = {}
    BY <2>1, OpsShort
  <2>3. Then(w, <<x, y>>) /\ Keeps(w, <<x, y>>)
    BY <1>8, <2>2, NoAnswer DEF x, y
  <2> QED
    BY <2>2, <2>3, ThenKeeps
<1>9. CASE CreateCompositeIndex(w) \/ DeleteCompositeIndex(w)
  <2>1. {"resolve", "status", "dropReal", "delete"} \subseteq StepNames \ Bound
    BY DEF StepNames, Bound
  <2>2. CASE CreateCompositeIndex(w)
    <3>1. PICK i \in IF row = Absent THEN Ids \ usedIds ELSE {row.id} :
            Then(w, IF row'.status = "building" THEN <<On("resolve", i), On("status", i)>> ELSE <<>>)
      BY <2>2 DEF CreateCompositeIndex
    <3>2. i \in Ids
      BY <3>1 DEF TypeOK, IndexRow
    <3>3. Then(w, <<On("resolve", i), On("status", i)>>) \/ Stop(w)
      BY <3>1 DEF Stop
    <3> QED
      BY <1>1, <1>8, <2>1, <3>2, <3>3, StopKeeps
  <2>3. CASE DeleteCompositeIndex(w)
    <3>1. row.id \in Ids /\ Then(w, <<On("dropReal", row.id), On("delete", row.id)>>)
      BY <2>3 DEF DeleteCompositeIndex, TypeOK, IndexRow
    <3> QED
      BY <1>1, <1>8, <2>1, <3>1
  <2> QED
    BY <1>9, <2>2, <2>3
<1>10. CASE DbPrep(w)
  <2> DEFINE a == <<Step("migrate")>>
             z == <<Step("backfill"), Step("grant")>>
             e == EnsureIndexes
  <2>1. /\ Step("migrate") \in Steps /\ Step("migrate").op = "migrate"
        /\ Step("backfill") \in Steps /\ Step("backfill").op = "backfill"
        /\ Step("grant") \in Steps /\ Step("grant").op = "grant"
        /\ On("create", "group") \in Steps /\ On("create", "group").op = "create"
        /\ On("create", "pending") \in Steps /\ On("create", "pending").op = "create"
    BY StepType DEF StepNames, Step, On, Names
  <2>2. a \in Seq(Steps) /\ z \in Seq(Steps) /\ e \in Seq(Steps)
    BY <2>1 DEF EnsureIndexes
  <2>3. Ops(a) = {"migrate"} /\ Ops(z) = {"backfill", "grant"} /\ Ops(e) = {"create"}
    BY <2>1, OpsShort DEF EnsureIndexes
  <2>4. Then(w, a \o e \o e \o z)
    BY <1>10 DEF DbPrep
  <2> HIDE DEF a, z, e
  <2>5. a \o e \in Seq(Steps) /\ Ops(a \o e) = {"migrate", "create"}
    BY <2>2, <2>3, OpsConcat, ConcatProperties
  <2> DEFINE c == a \o e
  <2>a. c \in Seq(Steps) /\ Ops(c) = {"migrate", "create"}
    BY <2>5
  <2> HIDE DEF c
  <2>d. c \o e \in Seq(Steps) /\ Ops(c \o e) = {"migrate", "create"}
    BY <2>2, <2>3, <2>a, OpsConcat, ConcatProperties
  <2> DEFINE b == c \o e
  <2>b. b \in Seq(Steps) /\ Ops(b) = {"migrate", "create"}
    BY <2>d
  <2> HIDE DEF b
  <2>6. b \o z \in Seq(Steps)
    BY <2>2, <2>b, ConcatProperties
  <2>7. Ops(b \o z) = {"migrate", "create", "backfill", "grant"}
    BY <2>2, <2>3, <2>b, OpsConcat
  <2>8. AnswerLast(b \o z)
    <3>1. AnswerLast(b)
      BY <2>b DEF Ops, AnswerLast, Ends
    <3>2. AnswerLast(z)
      BY <2>1, OpsShort DEF z
    <3>3. Ops(b) \cap Ends = {}
      BY <2>b DEF Ends
    <3> QED
      BY <2>2, <2>b, <3>1, <3>2, <3>3, OpsConcat
  <2>9. Keeps(w, b \o z)
    BY <2>7, <2>8 DEF Keeps
  <2>10. Then(w, b \o z)
    BY <2>4 DEF b, c
  <2> QED
    BY <1>1, <2>6, <2>9, <2>10, ThenKeeps
<1> QED
  BY <1>3, <1>4, <1>5, <1>6, <1>7, <1>9, <1>10

\* What the plans of provisioning have in them, and in which order.
LEMMA PlanOps ==
    /\ AnswerLast(ProvisionPlan("agent")) /\ Ops(ProvisionPlan("agent")) = {"insert", "answer"}
    /\ AnswerLast(ProvisionPlan("secret"))
    /\ Ops(ProvisionPlan("secret")) = {"migrate", "create", "insert", "answer"}
    /\ AnswerLast(ProvisionPlan("direct_pg")) /\ Ops(ProvisionPlan("direct_pg")) = {"verify"}
    /\ AnswerLast(<<Step("insert"), Step("answer")>>) /\ Ops(<<Step("insert"), Step("answer")>>) = {"insert", "answer"}
    /\ AnswerLast(<<Step("insert"), Step("migrate")>> \o EnsureIndexes \o <<Step("answer"), Step("backfill")>>)
    /\ Ops(<<Step("insert"), Step("migrate")>> \o EnsureIndexes \o <<Step("answer"), Step("backfill")>>)
          = {"insert", "migrate", "create", "answer", "backfill"}
<1> DEFINE a == <<Step("migrate")>>
           b == <<Step("insert"), Step("answer")>>
           c == <<Step("insert"), Step("migrate")>>
           d == <<Step("answer"), Step("backfill")>>
           e == EnsureIndexes
<1>1. /\ \A o \in StepNames : Step(o) \in Steps /\ Step(o).op = o
      /\ On("create", "group") \in Steps /\ On("create", "group").op = "create"
      /\ On("create", "pending") \in Steps /\ On("create", "pending").op = "create"
  BY StepType DEF StepNames, Step, On, Names
<1>2. /\ Step("insert") \in Steps /\ Step("insert").op = "insert"
      /\ Step("answer") \in Steps /\ Step("answer").op = "answer"
      /\ Step("migrate") \in Steps /\ Step("migrate").op = "migrate"
      /\ Step("backfill") \in Steps /\ Step("backfill").op = "backfill"
      /\ Step("verify") \in Steps /\ Step("verify").op = "verify"
  BY <1>1 DEF StepNames
<1>3. a \in Seq(Steps) /\ b \in Seq(Steps) /\ c \in Seq(Steps) /\ d \in Seq(Steps) /\ e \in Seq(Steps)
  BY <1>1, <1>2 DEF EnsureIndexes
<1>4. /\ Ops(a) = {"migrate"} /\ Ops(b) = {"insert", "answer"} /\ Ops(c) = {"insert", "migrate"}
      /\ Ops(d) = {"answer", "backfill"} /\ Ops(e) = {"create"} /\ Ops(<<Step("verify")>>) = {"verify"}
  BY <1>1, <1>2, OpsShort DEF EnsureIndexes
<1>5. /\ AnswerLast(a) /\ AnswerLast(b) /\ AnswerLast(c) /\ AnswerLast(d) /\ AnswerLast(e)
      /\ AnswerLast(<<Step("verify")>>)
  BY <1>1, <1>2, OpsShort DEF EnsureIndexes, Ends
<1>6. /\ ProvisionPlan("agent") = b /\ ProvisionPlan("secret") = a \o e \o b
      /\ ProvisionPlan("direct_pg") = <<Step("verify")>>
  BY DEF ProvisionPlan
<1> HIDE DEF a, b, c, d, e
<1>7. ASSUME NEW s \in Seq(Steps), NEW t \in Seq(Steps), AnswerLast(s), AnswerLast(t), Ops(s) \cap Ends = {}
      PROVE  AnswerLast(s \o t) /\ Ops(s \o t) = Ops(s) \union Ops(t) /\ s \o t \in Seq(Steps)
  <2>1. s \o t \in Seq(Steps)
    BY ConcatProperties
  <2> QED
    BY <1>7, <2>1, OpsConcat
<1>8. AnswerLast(a \o e) /\ Ops(a \o e) = Ops(a) \union Ops(e) /\ a \o e \in Seq(Steps)
  BY <1>3, <1>4, <1>5, <1>7 DEF Ends
<1>9. AnswerLast(c \o e) /\ Ops(c \o e) = Ops(c) \union Ops(e) /\ c \o e \in Seq(Steps)
  BY <1>3, <1>4, <1>5, <1>7 DEF Ends
<1>10. AnswerLast((a \o e) \o b) /\ Ops((a \o e) \o b) = Ops(a \o e) \union Ops(b)
  <2>1. Ops(a \o e) \cap Ends = {}
    BY <1>4, <1>8 DEF Ends
  <2> QED
    BY <1>3, <1>5, <1>7, <1>8, <2>1
<1>11. AnswerLast((c \o e) \o d) /\ Ops((c \o e) \o d) = Ops(c \o e) \union Ops(d)
  <2>1. Ops(c \o e) \cap Ends = {}
    BY <1>4, <1>9 DEF Ends
  <2> QED
    BY <1>3, <1>5, <1>7, <1>9, <2>1
<1>12. AnswerLast(a \o e \o b) /\ Ops(a \o e \o b) = {"migrate", "create", "insert", "answer"}
  BY <1>4, <1>8, <1>10
<1>13. AnswerLast(c \o e \o d) /\ Ops(c \o e \o d) = {"insert", "migrate", "create", "answer", "backfill"}
  BY <1>4, <1>9, <1>11
<1> QED
  BY <1>4, <1>5, <1>6, <1>12, <1>13 DEF b, c, d, e

\* Only a default row that is there already lets a thread in beside it.
LEMMA ConflictsKept ==
    ASSUME RateInv, [Next]_vars, NEW v \in Workers, ~RateDefault(v)
    PROVE  drawn'[<<"conflict", v>>] = drawn[<<"conflict", v>>]
<1> DEFINE Same == drawn'[<<"conflict", v>>] = drawn[<<"conflict", v>>]
<1>1. ASSUME NEW l \in {"rate", "signin", "conflict", "failed"}, NEW b \in Workers \union {"shared"}, Admit(l, b),
             l # "conflict" \/ b # v
      PROVE  Same
  <2>1. <<"conflict", v>> # <<l, b>>
    BY <1>1
  <2> QED
    BY <1>1, <2>1, Admitted
<1>2. ASSUME UNCHANGED drawn PROVE Same
  BY <1>2
<1>3. ASSUME NEW w \in Workers, RateCheck(w) \/ RateDefault(w) \/ RateTimeout(w) \/ SigninCheck(w) \/ SigninTimeout(w)
      PROVE  Same
  <2>1. \/ UNCHANGED drawn \/ Admit("rate", "shared") \/ Admit("rate", w) \/ Admit("signin", "shared")
        \/ Admit("signin", w) \/ Admit("failed", "shared") \/ (Admit("conflict", w) /\ RateDefault(w))
    BY <1>3 DEF RateCheck, RateDefault, RateTimeout, CheckInProcess, SigninCheck, SigninTimeout
  <2> QED
    BY <1>1, <1>2, <2>1
<1>4. ASSUME NEW w \in Workers, InsertProject(w) \/ PatchProject(w) PROVE UNCHANGED drawn
  BY <1>4 DEF InsertProject, PatchProject, ghosts
<1>5. CASE UNCHANGED vars \/ SweepSignin \/ Tick
  BY <1>5 DEF vars, SweepSignin, Tick, ghosts
<1> QED
  BY <1>2, <1>3, <1>4, <1>5, RatesLeftAlone DEF Next, rates

\* A worker that does not move owes what it owed.
LEMMA OthersOwe ==
    ASSUME TypeOK, RateInv, [Next]_vars, NEW v \in Workers, Owes(v), todo'[v] = todo[v], arg'[v] = arg[v],
           ~RateDefault(v)
    PROVE  Owes(v)'
BY ProjectStays, ConflictsKept DEF Owes

\* The thread that is let in has not been before, and it has nothing left to do.
LEMMA DefaultOwes ==
    ASSUME TypeOK, RateInv, [Next]_vars, NEW w \in Workers, RateDefault(w), Owes(w)
    PROVE  Owes(w)' /\ \A v \in Workers \ {w} : todo'[v] = todo[v] /\ arg'[v] = arg[v]
<1>1. Then(w, <<>>) /\ UNCHANGED arg /\ At(w, "default") /\ <<>> \in Seq(Steps)
  BY EmptySeq DEF RateDefault, Stop
<1>2. todo'[w] = <<>> /\ \A v \in Workers \ {w} : todo'[v] = todo[v]
  BY <1>1, PlanStep
<1>3. todo[w] \in Seq(Steps) /\ todo[w] # <<>>
  BY <1>1, AtStep
<1>4. "default" \in Ops(todo[w])
  BY <1>1, <1>3, OpsTail DEF At
<1>5. drawn[<<"conflict", w>>] = 0
  BY <1>4 DEF Owes
<1>6. drawn'[<<"conflict", w>>] = 0 \/ (drawn'[<<"conflict", w>>] = 1 /\ bucket' # Absent)
  <2>1. \/ UNCHANGED drawn \/ Admit("rate", "shared") \/ Admit("failed", "shared")
        \/ (Admit("conflict", w) /\ bucket # Absent /\ UNCHANGED bucket)
    BY DEF RateDefault
  <2>2. ASSUME NEW l \in {"rate", "failed"}, Admit(l, "shared")
        PROVE  drawn'[<<"conflict", w>>] = drawn[<<"conflict", w>>]
    <3>1. <<"conflict", w>> # <<l, "shared">>
      BY <2>2
    <3> QED
      BY <2>2, <3>1, Admitted
  <2>3. Admit("conflict", w) => drawn'[<<"conflict", w>>] = drawn[<<"conflict", w>>] + 1
    BY Admitted
  <2> QED
    BY <1>5, <2>1, <2>2, <2>3
<1> QED
  BY <1>1, <1>2, <1>6, OpsShort DEF Owes

\* The steps of provisioning itself.
LEMMA ProvisioningOwes ==
    ASSUME TypeOK, RateInv, [Next]_vars, NEW w \in Workers, \A v \in Workers : Owes(v),
           \/ \E m \in {"agent", "secret", "direct_pg"}, r \in {"owner", "dml"} : Provision(w, m, r)
           \/ VerifySchemaReadiness(w) \/ InsertProject(w) \/ Migrate(w) \/ MigrateFails(w)
    PROVE  \A v \in Workers : Owes(v)'
<1>z. UNCHANGED drawn
  BY DEF Provision, VerifySchemaReadiness, InsertProject, Migrate, MigrateFails, ghosts
<1>0. \A v \in Workers : ~RateDefault(v)
  <2>1. At(w, "verify") \/ At(w, "insert") \/ At(w, "migrate") \/ Idle(w)
    BY DEF Provision, VerifySchemaReadiness, InsertProject, Migrate, MigrateFails, Call
  <2>2. ~RateDefault(w)
    BY <2>1 DEF RateDefault, At, Idle
  <2>3. ASSUME NEW v \in Workers \ {w}, RateDefault(v) PROVE FALSE
    <3>1. todo'[v] = <<>> /\ todo[v] # <<>>
      BY <2>3 DEF RateDefault, Stop, Then, At, TypeOK
    <3>2. \E s : Then(w, s)
      BY DEF Provision, VerifySchemaReadiness, InsertProject, Migrate, MigrateFails, Next1, Stop, Then
    <3>3. todo'[v] = todo[v]
      BY <3>2 DEF Then, TypeOK
    <3> QED
      BY <3>1, <3>3
  <2> QED
    BY <2>2, <2>3
<1>1. ASSUME NEW s \in Seq(Steps), Then(w, s), \A v \in Workers \ {w} : arg'[v] = arg[v],
             todo'[w] = s => Owes(w)'
      PROVE  \A v \in Workers : Owes(v)'
  BY <1>0, <1>1, PlanStep, OthersOwe
<1>2. ASSUME NEW m \in {"agent", "secret", "direct_pg"}, NEW r \in {"owner", "dml"}, Provision(w, m, r)
      PROVE  \A v \in Workers : Owes(v)'
  <2>1. /\ ProvisionPlan(m) \in Seq(Steps) /\ Then(w, ProvisionPlan(m))
        /\ \A v \in Workers \ {w} : arg'[v] = arg[v]
        /\ arg'[w].mode = m
    BY <1>2, PlanTypes DEF Provision, TypeOK
  <2>2. ASSUME todo'[w] = ProvisionPlan(m) PROVE Owes(w)'
    <3>1. AnswerLast(todo'[w])
      BY <2>2, PlanOps
    <3>2. "answer" \in Ops(todo'[w]) => "insert" \in Ops(todo'[w])
      BY <2>2, PlanOps
    <3>3. "answer" \in Ops(todo'[w]) => m = "agent" \/ "migrate" \in Ops(todo'[w])
      BY <2>2, PlanOps
    <3>4. Ops(todo'[w]) \cap {"backfill", "query", "default"} = {}
      BY <2>2, PlanOps
    <3>5. drawn'[<<"conflict", w>>] # 0 => drawn'[<<"conflict", w>>] = 1 /\ bucket' # Absent
      BY <1>z, <1>2 DEF Provision, system, Owes
    <3> QED
      BY <2>1, <3>1, <3>2, <3>3, <3>4, <3>5 DEF Owes
  <2> QED
    BY <1>1, <2>1, <2>2
<1>3. CASE VerifySchemaReadiness(w)
  <2> DEFINE s == <<Step("insert"), Step("answer")>>
             t == <<Step("insert"), Step("migrate")>> \o EnsureIndexes \o <<Step("answer"), Step("backfill")>>
  <2>1. UNCHANGED <<arg, schema, bucket, drawn>> /\ s \in Seq(Steps) /\ t \in Seq(Steps)
    BY <1>z, <1>3, PlanTypes DEF VerifySchemaReadiness, customer, system
  <2>2. Then(w, IF Ready(FoundVersion(w)) THEN s ELSE t)
    BY <1>3 DEF VerifySchemaReadiness
  <2>3. /\ AnswerLast(s) /\ Ops(s) = {"insert", "answer"}
        /\ AnswerLast(t) /\ Ops(t) = {"insert", "migrate", "create", "answer", "backfill"}
    BY PlanOps
  <2> HIDE DEF s, t
  <2>4. CASE Ready(FoundVersion(w))
    <3>1. Ready(schema')
      BY <2>1, <2>4, SchemaAssumption DEF Ready, FoundVersion
    <3>2. todo'[w] = s => Owes(w)'
      BY <2>1, <2>3, <3>1 DEF Owes
    <3> QED
      BY <1>1, <2>1, <2>2, <2>4, <3>2
  <2>5. CASE ~Ready(FoundVersion(w))
    <3>1. todo'[w] = t => Owes(w)'
      BY <2>1, <2>3 DEF Owes
    <3> QED
      BY <1>1, <2>1, <2>2, <2>5, <3>1
  <2> QED
    BY <2>4, <2>5
<1>4. ASSUME Stop(w), UNCHANGED arg PROVE \A v \in Workers : Owes(v)'
  <2>1. Owes(w)'
    BY <1>z, <1>4, StopKeeps, SamePlan
  <2> QED
    BY <1>0, <1>4, <2>1, StopKeeps, OthersOwe
<1>5. ASSUME NEW o \in StepNames \ {"answer"}, At(w, o)
      PROVE  /\ Tail(todo[w]) \in Seq(Steps) /\ todo[w] # <<>>
             /\ AnswerLast(Tail(todo[w])) /\ Ops(todo[w]) = {o} \union Ops(Tail(todo[w]))
             /\ Next1(w) => Then(w, Tail(todo[w]))
  BY <1>5, AtStep, OpsTail, NextPlan DEF At, Owes
<1>6. CASE InsertProject(w) /\ project = Absent
  <2>1. /\ UNCHANGED <<arg, schema>> /\ Next1(w) /\ At(w, "insert")
        /\ project' = [key |-> arg[w].key, mode |-> arg[w].mode, dsn |-> FALSE]
        /\ bucket' = Capacity
    BY <1>6 DEF InsertProject, customer
  <2>2. project' # Absent /\ bucket' # Absent /\ project'.key = arg'[w].key /\ project'.mode = arg'[w].mode
    BY <2>1, NewProject, BucketAssumption, AbsentAssumption
  <2>3. /\ Tail(todo[w]) \in Seq(Steps) /\ Then(w, Tail(todo[w]))
        /\ AnswerLast(Tail(todo[w])) /\ Ops(todo[w]) = {"insert"} \union Ops(Tail(todo[w]))
    BY <1>5, <2>1 DEF StepNames
  <2>4. "answer" \in Ops(Tail(todo[w])) /\ arg[w].mode # "agent" =>
           Ready(schema') \/ "migrate" \in Ops(Tail(todo[w]))
    BY <2>1, <2>3 DEF Owes
  <2>6. /\ "backfill" \in Ops(Tail(todo[w])) => Ready(schema') \/ "migrate" \in Ops(Tail(todo[w]))
        /\ drawn'[<<"conflict", w>>] # 0 =>
              drawn'[<<"conflict", w>>] = 1 /\ "default" \notin Ops(Tail(todo[w]))
    BY <1>z, <2>1, <2>3 DEF Owes
  <2>7. "query" \in Ops(Tail(todo[w])) => Ready(schema')
    <3>1. todo[w] # <<On("query", "unavailable")>>
      BY <2>1 DEF At, On
    <3> QED
      BY <2>1, <2>3, <3>1 DEF Owes
  <2>5. todo'[w] = Tail(todo[w]) => Owes(w)'
    BY <2>1, <2>2, <2>3, <2>4, <2>6, <2>7 DEF Owes
  <2> QED
    BY <1>1, <2>1, <2>3, <2>5
<1>7. CASE InsertProject(w) /\ project # Absent
  BY <1>4, <1>7 DEF InsertProject
<1>8. CASE Migrate(w) /\ arg[w].role = "owner"
  <2>1. UNCHANGED <<arg, project, bucket>> /\ Next1(w) /\ At(w, "migrate") /\ schema' = Current
    BY <1>8 DEF Migrate, system
  <2>2. Ready(schema')
    BY <2>1, SchemaAssumption DEF Ready
  <2>3. /\ Tail(todo[w]) \in Seq(Steps) /\ Then(w, Tail(todo[w]))
        /\ AnswerLast(Tail(todo[w])) /\ Ops(todo[w]) = {"migrate"} \union Ops(Tail(todo[w]))
    BY <1>5, <2>1 DEF StepNames
  <2>4. todo'[w] = Tail(todo[w]) => Owes(w)'
    BY <1>z, <2>1, <2>2, <2>3 DEF Owes
  <2> QED
    BY <1>1, <2>1, <2>3, <2>4
<1>9. CASE (Migrate(w) /\ arg[w].role # "owner") \/ MigrateFails(w)
  BY <1>4, <1>9 DEF Migrate, MigrateFails
<1> QED
  BY <1>2, <1>3, <1>6, <1>7, <1>8, <1>9

\* Every step keeps what the workers owe before they answer with a key.
LEMMA AllOwe ==
    ASSUME TypeOK, RateInv, Cached, [Next]_vars, \A v \in Workers : Owes(v)
    PROVE  \A v \in Workers : Owes(v)'
<1>6. ASSUME NEW v \in Workers, todo'[v] = todo[v] PROVE ~RateDefault(v)
  BY <1>6 DEF RateDefault, Stop, Then, At, TypeOK
<1>1. CASE UNCHANGED vars \/ SweepSignin \/ Tick
  <2>1. UNCHANGED <<todo, arg>>
    BY <1>1 DEF vars, SweepSignin, Tick, control
  <2> QED
    BY <1>6, <2>1, OthersOwe
<1>5. ASSUME NEW w \in Workers, RateDefault(w) PROVE \A v \in Workers : Owes(v)'
  BY <1>5, <1>6, DefaultOwes, OthersOwe
<1>2. ASSUME NEW w \in Workers, Keeps(w, todo'[w]), \A v \in Workers \ {w} : todo'[v] = todo[v] /\ arg'[v] = arg[v]
      PROVE  \A v \in Workers : Owes(v)'
  <2>1. CASE RateDefault(w)
    BY <1>5, <2>1
  <2>2. CASE ~RateDefault(w)
    BY <1>2, <1>6, <2>2, SamePlan, OthersOwe, ConflictsKept
  <2> QED
    BY <2>1, <2>2
<1>3. ASSUME NEW w \in Workers,
             \/ AnswerProvision(w) \/ GrantRead(w)
             \/ CreateIndex(w) \/ FinishIndex(w) \/ CreateRefused(w) \/ Validate(w) \/ DropIndex(w)
             \/ ResolveDsn(w) \/ WriteStatus(w) \/ DropRealIndex(w) \/ DeleteRow(w)
      PROVE  \A v \in Workers : Owes(v)'
  BY <1>2, <1>3, IndexKeeps
<1>4. ASSUME NEW w \in Workers,
             \/ DbPrep(w) \/ CreateCompositeIndex(w) \/ DeleteCompositeIndex(w)
             \/ BackfillBatch(w) \/ BackfillCommit(w) \/ SchemaCapability(w) \/ GroupQuery(w)
             \/ RateCheck(w) \/ RateExists(w) \/ RateDefault(w) \/ RateTimeout(w)
             \/ SigninCheck(w) \/ SigninTimeout(w)
             \/ \E d \in Docs : CreateDocument(w, d)
             \/ PatchProject(w) \/ Abort(w)
      PROVE  \A v \in Workers : Owes(v)'
  BY <1>2, <1>4, ServingKeeps
<1> QED
  BY <1>1, <1>3, <1>4, ProvisioningOwes DEF Next

\* A key is answered by one action only.
LEMMA OnlyAnswersAnswer ==
    ASSUME [Next]_vars, ~\E w \in Workers : AnswerProvision(w)
    PROVE  UNCHANGED answered
<1>1. CASE UNCHANGED vars \/ SweepSignin \/ Tick
  BY <1>1 DEF vars, SweepSignin, Tick, ghosts
<1>2. ASSUME NEW w \in Workers,
             \/ \E m \in {"agent", "secret", "direct_pg"}, r \in {"owner", "dml"} : Provision(w, m, r)
             \/ VerifySchemaReadiness(w) \/ InsertProject(w) \/ GroupQuery(w)
             \/ Migrate(w) \/ MigrateFails(w) \/ DbPrep(w) \/ GrantRead(w)
             \/ CreateIndex(w) \/ FinishIndex(w) \/ CreateRefused(w) \/ Validate(w) \/ DropIndex(w)
             \/ BackfillBatch(w) \/ BackfillCommit(w) \/ SchemaCapability(w)
      PROVE  UNCHANGED answered
  BY <1>2 DEF Provision, VerifySchemaReadiness, InsertProject, GroupQuery, Migrate, MigrateFails, DbPrep,
              GrantRead, CreateIndex, FinishIndex, CreateRefused, Validate, DropIndex, BackfillBatch,
              BackfillCommit, SchemaCapability, ghosts
<1>3. ASSUME NEW w \in Workers,
             \/ CreateCompositeIndex(w) \/ ResolveDsn(w) \/ WriteStatus(w)
             \/ DeleteCompositeIndex(w) \/ DropRealIndex(w) \/ DeleteRow(w)
             \/ RateCheck(w) \/ RateExists(w) \/ RateDefault(w) \/ RateTimeout(w)
             \/ SigninCheck(w) \/ SigninTimeout(w)
             \/ \E d \in Docs : CreateDocument(w, d)
             \/ PatchProject(w) \/ Abort(w)
      PROVE  UNCHANGED answered
  BY <1>3 DEF CreateCompositeIndex, ResolveDsn, WriteStatus, DeleteCompositeIndex, DropRealIndex, DeleteRow,
              RateCheck, RateExists, RateDefault, RateTimeout, SigninCheck, SigninTimeout, CreateDocument,
              PatchProject, Abort, ghosts
<1> QED
  BY <1>1, <1>2, <1>3 DEF Next

\* The capability is cached by one action, and it is right when it is.
LEMMA CachedStays ==
    ASSUME TypeOK, RateInv, Cached, [Next]_vars
    PROVE  Cached'
<1>1. ASSUME UNCHANGED capability PROVE Cached'
  BY <1>1, ProjectStays DEF Cached
<1>2. CASE UNCHANGED vars \/ SweepSignin \/ Tick
  BY <1>1, <1>2 DEF vars, SweepSignin, Tick, server
<1>3. ASSUME NEW w \in Workers, SchemaCapability(w) PROVE Cached'
  <2>1. capability' = "available" => Ready(schema)
    BY <1>3, SchemaAssumption DEF SchemaCapability, Cached, Ready, TypeOK
  <2> QED
    BY <2>1, ProjectStays DEF Cached
<1>4. ASSUME NEW w \in Workers,
             \/ \E m \in {"agent", "secret", "direct_pg"}, r \in {"owner", "dml"} : Provision(w, m, r)
             \/ VerifySchemaReadiness(w) \/ InsertProject(w) \/ AnswerProvision(w)
             \/ Migrate(w) \/ MigrateFails(w) \/ DbPrep(w) \/ GrantRead(w)
             \/ CreateIndex(w) \/ FinishIndex(w) \/ CreateRefused(w) \/ Validate(w) \/ DropIndex(w)
             \/ BackfillBatch(w) \/ BackfillCommit(w) \/ GroupQuery(w)
      PROVE  UNCHANGED capability
  BY <1>4 DEF Provision, VerifySchemaReadiness, InsertProject, AnswerProvision, Migrate, MigrateFails, DbPrep,
              GrantRead, CreateIndex, FinishIndex, CreateRefused, Validate, DropIndex, BackfillBatch,
              BackfillCommit, GroupQuery, server
<1>5. ASSUME NEW w \in Workers,
             \/ CreateCompositeIndex(w) \/ ResolveDsn(w) \/ WriteStatus(w)
             \/ DeleteCompositeIndex(w) \/ DropRealIndex(w) \/ DeleteRow(w)
             \/ RateCheck(w) \/ RateExists(w) \/ RateDefault(w) \/ RateTimeout(w)
             \/ SigninCheck(w) \/ SigninTimeout(w)
             \/ \E d \in Docs : CreateDocument(w, d)
             \/ PatchProject(w) \/ Abort(w)
      PROVE  UNCHANGED capability
  BY <1>5 DEF CreateCompositeIndex, ResolveDsn, WriteStatus, DeleteCompositeIndex, DropRealIndex, DeleteRow,
              RateCheck, RateExists, RateDefault, RateTimeout, SigninCheck, SigninTimeout, CreateDocument,
              PatchProject, Abort, server
<1> QED
  BY <1>1, <1>2, <1>3, <1>4, <1>5 DEF Next

\* That holds in every behaviour.
LEMMA PlansSound == Spec => []ProvisionInv
<1>1. Init => ProvisionInv
  <2> SUFFICES ASSUME Init PROVE ProvisionInv
    OBVIOUS
  <2>1. \A w \in Workers : todo[w] = <<>> /\ drawn[<<"conflict", w>>] = 0
    BY DEF Init, Ledger
  <2>2. answered = {} /\ capability = "unknown"
    BY DEF Init
  <2> QED
    BY <2>1, <2>2, OpsShort DEF ProvisionInv, KeyOpensProject, Owes, Cached
<1>2. TypeOK /\ RateInv /\ ProvisionInv /\ [Next]_vars => ProvisionInv'
  <2> SUFFICES ASSUME TypeOK, RateInv, ProvisionInv, [Next]_vars PROVE ProvisionInv'
    OBVIOUS
  <2>1. Cached' /\ \A v \in Workers : Owes(v)'
    BY AllOwe, CachedStays DEF ProvisionInv
  <2>2. ASSUME NEW k \in answered
        PROVE  /\ project' # Absent /\ project'.key = k /\ bucket' # Absent
               /\ project'.mode # "agent" => Ready(schema')
    BY ProjectStays DEF ProvisionInv, KeyOpensProject
  <2>3. CASE UNCHANGED answered
    BY <2>1, <2>2, <2>3 DEF ProvisionInv, KeyOpensProject
  <2>4. ASSUME NEW w \in Workers, AnswerProvision(w) PROVE KeyOpensProject'
    <3>1. /\ answered' = answered \union {arg[w].key} /\ UNCHANGED <<project, bucket, schema, arg>>
          /\ todo[w] \in Seq(Steps) /\ todo[w] # <<>> /\ Head(todo[w]).op = "answer"
      BY <2>4, AtStep DEF AnswerProvision, system, customer, At
    <3>2. Ops(todo[w]) \cap {"insert", "migrate"} = {} /\ "answer" \in Ops(todo[w])
      BY <3>1, OpsTail DEF ProvisionInv, Owes, Ends
    <3>3. /\ project # Absent /\ bucket # Absent /\ project.key = arg[w].key
          /\ project.mode # "agent" => Ready(schema)
      BY <3>2 DEF ProvisionInv, Owes
    <3> QED
      BY <2>2, <3>1, <3>3 DEF KeyOpensProject
  <2> QED
    BY <2>1, <2>3, <2>4, OnlyAnswersAnswer DEF ProvisionInv
<1> QED
  BY <1>1, <1>2, TypesSound, RatesSound, PTL DEF Spec

(* provision: a key that was answered with 201 is the key of the project's *)
(* row, the project has its bucket, and its customer database has every    *)
(* migration, whatever other calls, migrations, failures and crashes came  *)
(* in between; a second key is never answered.                             *)
THEOREM AnsweredKeysOpen == Spec => []KeyOpensProject
<1>1. ProvisionInv => KeyOpensProject
  BY DEF ProvisionInv
<1> QED
  BY <1>1, PlansSound, PTL

-----------------------------------------------------------------------------
(* What the rate limiters admit                                            *)

\* Failures are counted, and an INSERT that failed is one of them.
LEMMA FaultsGrow ==
    ASSUME [Next]_vars, faults \in Nat
    PROVE  faults' \in Nat /\ faults' >= faults
<1>1. CASE UNCHANGED vars \/ SweepSignin \/ Tick
  BY <1>1 DEF vars, SweepSignin, Tick, bounds
<1>2. ASSUME NEW w \in Workers,
             \/ \E m \in {"agent", "secret", "direct_pg"}, r \in {"owner", "dml"} : Provision(w, m, r)
             \/ VerifySchemaReadiness(w) \/ InsertProject(w) \/ AnswerProvision(w)
             \/ Migrate(w) \/ MigrateFails(w) \/ DbPrep(w) \/ GrantRead(w)
             \/ CreateIndex(w) \/ FinishIndex(w) \/ CreateRefused(w) \/ Validate(w) \/ DropIndex(w)
             \/ BackfillBatch(w) \/ BackfillCommit(w) \/ SchemaCapability(w) \/ GroupQuery(w)
      PROVE  faults' \in {faults, faults + 1}
  BY <1>2 DEF Provision, VerifySchemaReadiness, InsertProject, AnswerProvision, Migrate, MigrateFails, DbPrep,
              GrantRead, CreateIndex, FinishIndex, CreateRefused, Validate, DropIndex, BackfillBatch,
              BackfillCommit, SchemaCapability, GroupQuery, bounds, Call, MayFail
<1>3. ASSUME NEW w \in Workers,
             \/ CreateCompositeIndex(w) \/ ResolveDsn(w) \/ WriteStatus(w)
             \/ DeleteCompositeIndex(w) \/ DropRealIndex(w) \/ DeleteRow(w)
             \/ RateCheck(w) \/ RateExists(w) \/ RateDefault(w) \/ RateTimeout(w)
             \/ SigninCheck(w) \/ SigninTimeout(w)
             \/ \E d \in Docs : CreateDocument(w, d)
             \/ PatchProject(w) \/ Abort(w)
      PROVE  faults' \in {faults, faults + 1}
  BY <1>3 DEF CreateCompositeIndex, ResolveDsn, WriteStatus, DeleteCompositeIndex, DropRealIndex, DeleteRow,
              RateCheck, RateExists, RateDefault, RateTimeout, SigninCheck, SigninTimeout, CreateDocument,
              PatchProject, Abort, bounds, Call, MayFail
<1>4. faults' \in {faults, faults + 1} => faults' \in Nat /\ faults' >= faults
  OBVIOUS
<1> QED
  BY <1>1, <1>2, <1>3, <1>4 DEF Next

FailedInv == faults \in Nat /\ drawn[<<"failed", "shared">>] <= faults

LEMMA FailedStep ==
    ASSUME RateInv, FailedInv, [Next]_vars
    PROVE  FailedInv'
<1>0. faults' \in Nat /\ faults' >= faults /\ drawn[<<"failed", "shared">>] \in Nat /\ faults \in Nat
  BY FaultsGrow DEF FailedInv, RateInv
<1>1. ASSUME drawn'[<<"failed", "shared">>] = drawn[<<"failed", "shared">>] PROVE FailedInv'
  BY <1>0, <1>1 DEF FailedInv
<1>2. ASSUME NEW l \in {"rate", "signin", "conflict"}, NEW b \in Workers \union {"shared"}, Admit(l, b)
      PROVE  FailedInv'
  <2>1. <<"failed", "shared">> # <<l, b>>
    OBVIOUS
  <2> QED
    BY <1>1, <1>2, <2>1, Admitted
<1>3. ASSUME NEW w \in Workers, RateCheck(w) \/ RateDefault(w) \/ RateTimeout(w) \/ SigninCheck(w) \/ SigninTimeout(w)
      PROVE  FailedInv'
  <2>1. \/ UNCHANGED drawn \/ Admit("rate", "shared") \/ Admit("rate", w) \/ Admit("signin", "shared")
        \/ Admit("signin", w) \/ Admit("conflict", w) \/ (Admit("failed", "shared") /\ faults' = faults + 1)
    BY <1>3 DEF RateCheck, RateDefault, RateTimeout, CheckInProcess, SigninCheck, SigninTimeout, MayFail
  <2>2. ASSUME Admit("failed", "shared"), faults' = faults + 1 PROVE FailedInv'
    <3>1. drawn'[<<"failed", "shared">>] = drawn[<<"failed", "shared">>] + 1
      BY <2>2, Admitted
    <3> QED
      BY <1>0, <2>2, <3>1 DEF FailedInv
  <2> QED
    BY <1>1, <1>2, <2>1, <2>2
<1>4. ASSUME NEW w \in Workers, InsertProject(w) \/ PatchProject(w) PROVE UNCHANGED drawn
  BY <1>4 DEF InsertProject, PatchProject, ghosts
<1>5. CASE UNCHANGED vars \/ SweepSignin \/ Tick
  BY <1>1, <1>5 DEF vars, SweepSignin, Tick, ghosts
<1> QED
  BY <1>1, <1>3, <1>4, <1>5, RatesLeftAlone DEF Next, rates

(* check_pg, check_in_process, the sign-in limiter and its sweeper: no     *)
(* bucket, shared or in a process, admits more than one full bucket and    *)
(* what time has refilled, although statements are abandoned after they    *)
(* took a token and rows of idle addresses are deleted and made again; a   *)
(* thread is let in beside a default row that another made at most once,   *)
(* and otherwise only by an INSERT that failed.                            *)
THEOREM AdmissionIsBounded == Spec => []AdmissionBounded
<1>1. RateInv /\ FailedInv /\ ProvisionInv => AdmissionBounded
  <2> SUFFICES ASSUME RateInv, FailedInv, ProvisionInv PROVE AdmissionBounded
    OBVIOUS
  <2>1. ASSUME NEW l \in {"rate", "signin"}, NEW b \in Workers \union {"shared"}
        PROVE  drawn[<<l, b>>] <= Capacity + ticks
    <3>1. drawn[<<l, b>>] \in Nat /\ ticks \in Nat /\ Capacity \in Nat
      BY BucketAssumption DEF RateInv
    <3>2. CASE l = "rate" /\ b = "shared"
      BY <3>1, <3>2 DEF RateInv, SharedInv
    <3>3. CASE l = "rate" /\ b \in Workers
      BY <3>1, <3>3 DEF RateInv, OwnInv
    <3>4. CASE l = "signin" /\ b = "shared"
      BY <3>1, <3>4 DEF RateInv, SigninInv, SigninRow
    <3>5. CASE l = "signin" /\ b \in Workers
      BY <3>1, <3>5 DEF RateInv, SigninInv
    <3> QED
      BY <3>2, <3>3, <3>4, <3>5
  <2>2. ASSUME NEW w \in Workers PROVE drawn[<<"conflict", w>>] <= 1
    <3>1. drawn[<<"conflict", w>>] \in Nat
      BY DEF RateInv
    <3>2. drawn[<<"conflict", w>>] # 0 => drawn[<<"conflict", w>>] = 1
      BY DEF ProvisionInv, Owes
    <3> QED
      BY <3>1, <3>2
  <2> QED
    BY <2>1, <2>2 DEF AdmissionBounded, FailedInv
<1>2. Init => FailedInv
  BY DEF Init, Ledger, FailedInv
<1> QED
  BY <1>1, <1>2, FailedStep, RatesSound, PlansSound, PTL DEF Spec

-----------------------------------------------------------------------------
(* Collection-group queries                                                *)

\* A query misses or adds only what it may: with the column and no row left to
\* fill nothing, otherwise what the path pattern takes wrongly.
LEMMA PredicateRight ==
    ASSUME TypeOK, NEW available \in BOOLEAN, filled => \A d \in Docs : cid[d] # "null"
    PROVE  /\ {d \in Group : cid[d] # "none"} \ GroupPredicate(available) \subseteq Excused(available)
           /\ GroupPredicate(available) \ {d \in Group : cid[d] # "none"} \subseteq Excused(available)
<1>1. \A d \in Docs : cid[d] \in {"none", "null", "set"}
  BY DEF TypeOK
<1>2. CASE available /\ filled
  BY <1>1, <1>2, DocsAssumption DEF GroupPredicate, Excused
<1>3. CASE ~(available /\ filled)
  BY <1>1, <1>3, DocsAssumption DEF GroupPredicate, PathMatches, Excused
<1> QED
  BY <1>2, <1>3

\* Nothing but a collection-group query can be answered wrongly.
LEMMA OnlyQueriesFail ==
    ASSUME [Next]_vars, ~\E w \in Workers : GroupQuery(w)
    PROVE  UNCHANGED wrong
<1>1. CASE UNCHANGED vars \/ SweepSignin \/ Tick
  BY <1>1 DEF vars, SweepSignin, Tick, ghosts
<1>2. ASSUME NEW w \in Workers,
             \/ \E m \in {"agent", "secret", "direct_pg"}, r \in {"owner", "dml"} : Provision(w, m, r)
             \/ VerifySchemaReadiness(w) \/ InsertProject(w) \/ AnswerProvision(w)
             \/ Migrate(w) \/ MigrateFails(w) \/ DbPrep(w) \/ GrantRead(w)
             \/ CreateIndex(w) \/ FinishIndex(w) \/ CreateRefused(w) \/ Validate(w) \/ DropIndex(w)
             \/ BackfillBatch(w) \/ BackfillCommit(w) \/ SchemaCapability(w)
      PROVE  UNCHANGED wrong
  BY <1>2 DEF Provision, VerifySchemaReadiness, InsertProject, AnswerProvision, Migrate, MigrateFails, DbPrep,
              GrantRead, CreateIndex, FinishIndex, CreateRefused, Validate, DropIndex, BackfillBatch,
              BackfillCommit, SchemaCapability, ghosts
<1>3. ASSUME NEW w \in Workers,
             \/ CreateCompositeIndex(w) \/ ResolveDsn(w) \/ WriteStatus(w)
             \/ DeleteCompositeIndex(w) \/ DropRealIndex(w) \/ DeleteRow(w)
             \/ RateCheck(w) \/ RateExists(w) \/ RateDefault(w) \/ RateTimeout(w)
             \/ SigninCheck(w) \/ SigninTimeout(w)
             \/ \E d \in Docs : CreateDocument(w, d)
             \/ PatchProject(w) \/ Abort(w)
      PROVE  UNCHANGED wrong
  BY <1>3 DEF CreateCompositeIndex, ResolveDsn, WriteStatus, DeleteCompositeIndex, DropRealIndex, DeleteRow,
              RateCheck, RateExists, RateDefault, RateTimeout, SigninCheck, SigninTimeout, CreateDocument,
              PatchProject, Abort, ghosts
<1> QED
  BY <1>1, <1>2, <1>3 DEF Next

\* A backfill ends after the migrations, and then no document without a
\* collection_id comes to be.
FillInv == filled => Ready(schema) /\ \A d \in Docs : cid[d] # "null"

NoneWrong == wrong = {}

LEMMA FillStep ==
    ASSUME TypeOK, RateInv, ProvisionInv, FillInv, [Next]_vars
    PROVE  FillInv'
<1>0. Ready(schema) => Ready(schema')
  BY ProjectStays
<1>1. ASSUME UNCHANGED <<filled, cid>> PROVE FillInv'
  BY <1>0, <1>1 DEF FillInv
<1>2. CASE UNCHANGED vars \/ SweepSignin \/ Tick
  BY <1>1, <1>2 DEF vars, SweepSignin, Tick, ghosts, customer
<1>3. ASSUME NEW w \in Workers, BackfillBatch(w) PROVE FillInv'
  <2>1. UNCHANGED <<schema, cid>> /\ At(w, "backfill")
    BY <1>3 DEF BackfillBatch
  <2>2. todo[w] \in Seq(Steps) /\ todo[w] # <<>> /\ Head(todo[w]).op = "backfill"
    BY <2>1, AtStep DEF At
  <2>3. "backfill" \in Ops(todo[w]) /\ "migrate" \notin Ops(todo[w])
    BY <2>2, OpsTail DEF ProvisionInv, Owes, Ends
  <2>4. Ready(schema)
    BY <2>3 DEF ProvisionInv, Owes
  <2>5. filled' => filled \/ \A d \in Docs : cid[d] # "null"
    BY <1>3 DEF BackfillBatch
  <2> QED
    BY <2>1, <2>4, <2>5 DEF FillInv
<1>4. ASSUME NEW w \in Workers, BackfillCommit(w) PROVE FillInv'
  <2>1. UNCHANGED <<schema, filled>> /\ \A d \in Docs : cid'[d] \in {cid[d], "set"}
    BY <1>4 DEF BackfillCommit, ghosts
  <2> QED
    BY <2>1 DEF FillInv
<1>5. ASSUME NEW w \in Workers, NEW d \in Docs, CreateDocument(w, d) PROVE FillInv'
  <2>1. UNCHANGED <<schema, filled>> /\ cid' = [cid EXCEPT ![d] = IF schema = Current THEN "set" ELSE "null"]
    BY <1>5 DEF CreateDocument, ghosts
  <2>2. Ready(schema) => schema = Current
    BY SchemaAssumption DEF Ready, TypeOK
  <2> QED
    BY <2>1, <2>2 DEF FillInv, TypeOK
<1>6. ASSUME NEW w \in Workers,
             \/ \E m \in {"agent", "secret", "direct_pg"}, r \in {"owner", "dml"} : Provision(w, m, r)
             \/ VerifySchemaReadiness(w) \/ InsertProject(w) \/ AnswerProvision(w)
             \/ Migrate(w) \/ MigrateFails(w) \/ DbPrep(w) \/ GrantRead(w)
             \/ CreateIndex(w) \/ FinishIndex(w) \/ CreateRefused(w) \/ Validate(w) \/ DropIndex(w)
             \/ SchemaCapability(w) \/ GroupQuery(w)
      PROVE  UNCHANGED <<filled, cid>>
  BY <1>6 DEF Provision, VerifySchemaReadiness, InsertProject, AnswerProvision, Migrate, MigrateFails, DbPrep,
              GrantRead, CreateIndex, FinishIndex, CreateRefused, Validate, DropIndex,
              SchemaCapability, GroupQuery, ghosts, customer
<1>7. ASSUME NEW w \in Workers,
             \/ CreateCompositeIndex(w) \/ ResolveDsn(w) \/ WriteStatus(w)
             \/ DeleteCompositeIndex(w) \/ DropRealIndex(w) \/ DeleteRow(w)
             \/ RateCheck(w) \/ RateExists(w) \/ RateDefault(w) \/ RateTimeout(w)
             \/ SigninCheck(w) \/ SigninTimeout(w)
             \/ PatchProject(w) \/ Abort(w)
      PROVE  UNCHANGED <<filled, cid>>
  BY <1>7 DEF CreateCompositeIndex, ResolveDsn, WriteStatus, DeleteCompositeIndex, DropRealIndex, DeleteRow,
              RateCheck, RateExists, RateDefault, RateTimeout, SigninCheck, SigninTimeout,
              PatchProject, Abort, ghosts, customer
<1> QED
  BY <1>1, <1>2, <1>3, <1>4, <1>5, <1>6, <1>7 DEF Next

(* push_all_descendants_predicate, schema_capability and the backfill: a   *)
(* collection-group query finds the column it was told of, and once a      *)
(* backfill has found no row to fill it returns the documents of the group *)
(* and no others, whatever is written, migrated and rolled back before and *)
(* after and however old the capability it was given; before that it is    *)
(* wrong only about paths that the unescaped LIKE pattern takes wrongly.   *)
THEOREM GroupsComplete == Spec => []GroupComplete
<1>1. Init => FillInv /\ NoneWrong
  BY DEF Init, FillInv, NoneWrong
<1>2. TypeOK /\ FillInv /\ NoneWrong /\ [Next]_vars => NoneWrong'
  <2> SUFFICES ASSUME TypeOK, FillInv, NoneWrong, [Next]_vars PROVE NoneWrong'
    OBVIOUS
  <2>1. ASSUME NEW w \in Workers, GroupQuery(w) PROVE NoneWrong'
    <3>1. (Index(w) = "available") \in BOOLEAN
      OBVIOUS
    <3> QED
      BY <2>1, <3>1, PredicateRight DEF GroupQuery, FillInv, NoneWrong
  <2> QED
    BY <2>1, OnlyQueriesFail DEF NoneWrong
<1>3. TypeOK /\ ProvisionInv /\ NoneWrong => GroupComplete
  <2> SUFFICES ASSUME TypeOK, ProvisionInv, NoneWrong, NEW w \in Workers, At(w, "query"), Index(w) = "available"
               PROVE  Ready(schema)
    BY DEF GroupComplete, NoneWrong
  <2>1. todo[w] \in Seq(Steps) /\ todo[w] # <<>> /\ Head(todo[w]).op = "query"
    BY AtStep DEF At
  <2>2. "query" \in Ops(todo[w])
    BY <2>1, OpsTail
  <2>3. todo[w] # <<On("query", "unavailable")>>
    BY DEF Index, On
  <2> QED
    BY <2>2, <2>3 DEF ProvisionInv, Owes
<1>4. TypeOK /\ RateInv /\ ProvisionInv /\ FillInv /\ [Next]_vars => FillInv'
  BY FillStep
<1> QED
  BY <1>1, <1>2, <1>3, <1>4, TypesSound, RatesSound, PlansSound, PTL DEF Spec

-----------------------------------------------------------------------------
(* Composite indexes                                                       *)

\* What the steps of a plan are.
Items(s) == {s[n] : n \in DOMAIN s}

BuildSteps == {"resolve", "create", "finish", "validate", "drop"}

\* The plans of a background build, of a delete, and of everybody else, who
\* builds the two indexes of migrate at most.
IsBuild(s, i) ==
    \/ s = <<On("status", i)>>
    \/ \E x \in BuildSteps : s = <<On(x, i), On("status", i)>>

IsDelete(s, i) ==
    \/ s = <<On("delete", i)>>
    \/ s = <<On("dropReal", i), On("delete", i)>>

PlainStep(x) ==
    /\ x.op \notin {"resolve", "status", "dropReal", "delete"}
    /\ x.op \in BuildSteps => x.on \in {"group", "pending"}

Plain(s) == \A x \in Items(s) : PlainStep(x)

\* One build of an index that nobody disturbs: the row says so, and the index
\* is valid before the row will say so.
Alone(w, i) ==
    /\ row # Absent /\ row.id = i => row.status = "building"
    /\ Head(todo[w]).op \in {"resolve", "drop"} => ~ok[w]
    /\ Head(todo[w]).op = "status" /\ ok[w] => pg[i] = "valid"
    /\ \A v \in Workers \ {w} : ~IsBuild(todo[v], i)

Shape(w) ==
    \/ Plain(todo[w])
    \/ \E i \in Ids : IsBuild(todo[w], i) /\ i \in usedIds /\ (i \notin disturbed => Alone(w, i))
    \/ \E i \in Ids : IsDelete(todo[w], i) /\ i \in disturbed

RowInv ==
    row # Absent =>
       /\ row.id \in usedIds
       /\ row.id \notin disturbed =>
             /\ row.status = "ready" => pg[row.id] = "valid"
             /\ row.status = "building" =>
                   row.id \in orphaned \/ \E w \in Workers : IsBuild(todo[w], row.id)

BuildInv == RowInv /\ \A w \in Workers : Shape(w)

\* The steps of a plan whose first has run,
LEMMA ItemsTail ==
    ASSUME NEW s \in Seq(Steps), s # <<>>
    PROVE  Items(s) = {Head(s)} \union Items(Tail(s)) /\ Head(s) \in Items(s)
<1>1. /\ Len(s) \in Nat /\ Len(s) >= 1 /\ DOMAIN s = 1 .. Len(s) /\ Head(s) = s[1]
      /\ Tail(s) \in Seq(Steps) /\ Len(Tail(s)) = Len(s) - 1
      /\ \A i \in 1 .. Len(Tail(s)) : Tail(s)[i] = s[i + 1]
  BY HeadTailProperties, EmptySeq, LenProperties
<1>2. DOMAIN Tail(s) = 1 .. Len(s) - 1
  BY <1>1, LenProperties
<1>3. Items(s) \subseteq {Head(s)} \union Items(Tail(s))
  <2> SUFFICES ASSUME NEW n \in DOMAIN s PROVE s[n] \in {Head(s)} \union Items(Tail(s))
    BY DEF Items
  <2>1. CASE n = 1
    BY <1>1, <2>1
  <2>2. CASE n # 1
    <3>1. n - 1 \in DOMAIN Tail(s) /\ Tail(s)[n - 1] = s[n]
      BY <1>1, <1>2, <2>2
    <3> QED
      BY <3>1 DEF Items
  <2> QED
    BY <2>1, <2>2
<1>4. Head(s) \in Items(s)
  BY <1>1 DEF Items
<1>5. ASSUME NEW n \in DOMAIN Tail(s) PROVE Tail(s)[n] \in Items(s)
  <2>1. n + 1 \in DOMAIN s /\ Tail(s)[n] = s[n + 1]
    BY <1>1, <1>2
  <2> QED
    BY <2>1 DEF Items
<1> QED
  BY <1>3, <1>4, <1>5 DEF Items

\* of two plans one after the other,
LEMMA ItemsConcat ==
    ASSUME NEW s \in Seq(Steps), NEW t \in Seq(Steps)
    PROVE  Items(s \o t) \subseteq Items(s) \union Items(t)
<1>1. /\ Len(s) \in Nat /\ DOMAIN s = 1 .. Len(s) /\ Len(t) \in Nat /\ DOMAIN t = 1 .. Len(t)
      /\ DOMAIN (s \o t) = 1 .. Len(s) + Len(t)
      /\ \A i \in 1 .. Len(s) + Len(t) : (s \o t)[i] = IF i <= Len(s) THEN s[i] ELSE t[i - Len(s)]
  BY LenProperties, ConcatProperties
<1> DEFINE u == s \o t
<1>2. \A i \in DOMAIN u : \/ i \in DOMAIN s /\ u[i] = s[i]
                          \/ i - Len(s) \in DOMAIN t /\ u[i] = t[i - Len(s)]
  BY <1>1
<1> HIDE DEF u
<1>3. Items(u) \subseteq Items(s) \union Items(t)
  BY <1>2 DEF Items
<1> QED
  BY <1>3 DEF u

\* and of the shortest plans.
LEMMA ItemsShort ==
    /\ Items(<<>>) = {}
    /\ \A x : Items(<<x>>) = {x}
    /\ \A x, y : Items(<<x, y>>) = {x, y}
<1>1. Items(<<>>) = {} /\ \A x : Items(<<x>>) = {x}
  BY DEF Items
<1>2. ASSUME NEW x, NEW y PROVE Items(<<x, y>>) = {x, y}
  <2>1. DOMAIN <<x, y>> = {1, 2} /\ <<x, y>>[1] = x /\ <<x, y>>[2] = y
    OBVIOUS
  <2> QED
    BY <2>1 DEF Items
<1> QED
  BY <1>1, <1>2

\* Plain plans stay plain.
LEMMA PlainTail ==
    ASSUME NEW s \in Seq(Steps), s # <<>>, Plain(s)
    PROVE  PlainStep(Head(s)) /\ Plain(Tail(s)) /\ \A x \in Steps : PlainStep(x) => Plain(<<x>> \o Tail(s))
<1>1. PlainStep(Head(s)) /\ Plain(Tail(s))
  BY ItemsTail DEF Plain
<1>2. ASSUME NEW x \in Steps, PlainStep(x) PROVE Plain(<<x>> \o Tail(s))
  <2>1. <<x>> \in Seq(Steps) /\ Tail(s) \in Seq(Steps)
    BY TailType
  <2>2. Items(<<x>>) = {x}
    BY ItemsShort
  <2>3. Items(<<x>> \o Tail(s)) \subseteq {x} \union Items(Tail(s))
    BY <2>1, <2>2, ItemsConcat
  <2> QED
    BY <1>1, <1>2, <2>3 DEF Plain
<1> QED
  BY <1>1, <1>2

\* The plans of builds and deletes, step by step.
LEMMA ShortPlans ==
    ASSUME NEW x, NEW y, NEW z
    PROVE  /\ Head(<<x>>) = x /\ Tail(<<x>>) = <<>>
           /\ Head(<<x, y>>) = x /\ Tail(<<x, y>>) = <<y>>
           /\ <<z>> \o <<y>> = <<z, y>>
           /\ <<x>> # <<>> /\ <<x, y>> # <<>> /\ <<x>> # <<y, z>>
<1>1. Head(<<x>>) = x /\ Head(<<x, y>>) = x
  OBVIOUS
<1>2. Tail(<<x>>) = <<>>
  OBVIOUS
<1>3. Tail(<<x, y>>) = <<y>>
  OBVIOUS
<1>4. <<z>> \o <<y>> = <<z, y>>
  <2> DEFINE S == {y, z}
             s == <<z>>
             t == <<y>>
             u == <<z, y>>
  <2>1. /\ s \in Seq(S) /\ t \in Seq(S) /\ u \in Seq(S) /\ Len(s) = 1 /\ Len(t) = 1 /\ Len(u) = 2
        /\ s[1] = z /\ t[1] = y /\ u[1] = z /\ u[2] = y
    OBVIOUS
  <2> HIDE DEF S, s, t, u
  <2>2. /\ s \o t \in Seq(S) /\ Len(s \o t) = 2
        /\ \A i \in 1 .. 2 : (s \o t)[i] = IF i <= 1 THEN s[i] ELSE t[i - 1]
    BY <2>1, ConcatProperties
  <2>3. \A i \in 1 .. 2 : (s \o t)[i] = u[i]
    BY <2>1, <2>2
  <2>4. s \o t = u
    BY <2>1, <2>2, <2>3, SeqEqual
  <2> QED
    BY <2>4 DEF s, t, u
<1>5. <<x>> # <<>> /\ <<x, y>> # <<>>
  OBVIOUS
<1>6. <<x>> # <<y, z>>
  OBVIOUS
<1> QED
  BY <1>1, <1>2, <1>3, <1>4, <1>5, <1>6

\* What a plan that builds index i looks like.
LEMMA IsBuildPlan ==
    ASSUME NEW s, NEW i, IsBuild(s, i)
    PROVE  /\ s # <<>> /\ Head(s).on = i /\ Head(s) = On(Head(s).op, i) /\ Head(s).op \in BuildSteps \union {"status"}
           /\ Head(s).op = "status" => s = <<On("status", i)>> /\ Tail(s) = <<>>
           /\ Head(s).op \in BuildSteps => s = <<On(Head(s).op, i), On("status", i)>> /\ Tail(s) = <<On("status", i)>>
           /\ On("status", i) \in Items(s)
           /\ \A j : On("status", j) \in Items(s) => j = i
           /\ \A j : IsBuild(s, j) => j = i
           /\ ~Plain(s)
<1>1. \A x, y, a, b : On(x, a) = On(y, b) <=> x = y /\ a = b
  <2>1. \A x, a : On(x, a).op = x /\ On(x, a).on = a
    BY DEF On
  <2> QED
    BY <2>1
<1>2. \A x, a : On(x, a).op = x /\ On(x, a).on = a
  BY DEF On
<1>3. ASSUME NEW j, NEW t, IsBuild(t, j)
      PROVE  /\ t # <<>> /\ Head(t).on = j /\ Head(t) = On(Head(t).op, j) /\ Head(t).op \in BuildSteps \union {"status"}
             /\ Head(t).op = "status" => t = <<On("status", j)>> /\ Tail(t) = <<>>
             /\ Head(t).op \in BuildSteps => t = <<On(Head(t).op, j), On("status", j)>> /\ Tail(t) = <<On("status", j)>>
             /\ On("status", j) \in Items(t) /\ \A k : On("status", k) \in Items(t) => k = j
  <2>1. "status" \notin BuildSteps
    BY DEF BuildSteps
  <2>2. CASE t = <<On("status", j)>>
    <3>1. Items(t) = {On("status", j)}
      BY <2>2, ItemsShort
    <3>2. Head(t) = On("status", j) /\ Tail(t) = <<>> /\ t # <<>>
      BY <2>2, ShortPlans
    <3> QED
      BY <1>1, <1>2, <2>1, <2>2, <3>1, <3>2
  <2>3. ASSUME NEW x \in BuildSteps, t = <<On(x, j), On("status", j)>>
        PROVE  /\ t # <<>> /\ Head(t) = On(x, j) /\ Head(t).op = x /\ Tail(t) = <<On("status", j)>>
               /\ Items(t) = {On(x, j), On("status", j)}
    BY <1>2, <2>3, ItemsShort, ShortPlans
  <2> QED
    BY <1>1, <1>2, <1>3, <2>1, <2>2, <2>3 DEF IsBuild
<1>4. ~Plain(s)
  <2>1. ~PlainStep(On("status", i))
    BY <1>2 DEF PlainStep
  <2> QED
    BY <1>3, <2>1 DEF Plain
<1> QED
  BY <1>3, <1>4

\* What a plan that deletes index i looks like.
LEMMA IsDeletePlan ==
    ASSUME NEW s, NEW i, IsDelete(s, i)
    PROVE  /\ s # <<>> /\ Head(s).on = i /\ Head(s).op \in {"dropReal", "delete"}
           /\ Head(s).op = "delete" => Tail(s) = <<>>
           /\ Head(s).op = "dropReal" => Tail(s) = <<On("delete", i)>>
           /\ \A j : On("status", j) \notin Items(s)
<1>1. \A x, a : On(x, a).op = x /\ On(x, a).on = a
  BY DEF On
<1>2. CASE s = <<On("delete", i)>>
  <2>1. Items(s) = {On("delete", i)} /\ Head(s) = On("delete", i) /\ Tail(s) = <<>> /\ s # <<>>
    BY <1>2, ItemsShort, ShortPlans
  <2>2. \A j : On("status", j) # On("delete", i)
    BY <1>1
  <2> QED
    BY <1>1, <2>1, <2>2
<1>3. CASE s = <<On("dropReal", i), On("delete", i)>>
  <2>1. /\ Items(s) = {On("dropReal", i), On("delete", i)} /\ Head(s) = On("dropReal", i)
        /\ Tail(s) = <<On("delete", i)>> /\ s # <<>>
    BY <1>3, ItemsShort, ShortPlans
  <2>2. \A j : On("status", j) # On("delete", i) /\ On("status", j) # On("dropReal", i)
    BY <1>1
  <2> QED
    BY <1>1, <2>1, <2>2
<1> QED
  BY <1>2, <1>3 DEF IsDelete

\* A build is of an index that was created, and has it to itself unless it was
\* disturbed.
LEMMA BuildFacts ==
    ASSUME BuildInv, NEW v \in Workers, NEW i \in Ids, IsBuild(todo[v], i)
    PROVE  i \in usedIds /\ (i \notin disturbed => Alone(v, i))
<1>1. ~Plain(todo[v]) /\ \A j : IsBuild(todo[v], j) => j = i
  BY IsBuildPlan
<1>2. \A j : ~IsDelete(todo[v], j)
  BY IsBuildPlan, IsDeletePlan
<1> QED
  BY <1>1, <1>2 DEF BuildInv, Shape

\* A build is under way exactly when some worker has its plan.
LEMMA BuildingIsBuild ==
    ASSUME TypeOK, BuildInv, NEW i \in Ids
    PROVE  Building(i) <=> \E w \in Workers : IsBuild(todo[w], i)
<1>1. ASSUME NEW w \in Workers
      PROVE  On("status", i) \in Items(todo[w]) <=> \E n \in 1 .. Len(todo[w]) : todo[w][n] = On("status", i)
  <2>1. DOMAIN todo[w] = 1 .. Len(todo[w])
    BY LenProperties DEF TypeOK
  <2> QED
    BY <2>1 DEF Items
<1>2. ASSUME NEW w \in Workers, On("status", i) \in Items(todo[w]) PROVE IsBuild(todo[w], i)
  <2>1. ~Plain(todo[w])
    BY <1>2 DEF Plain, PlainStep, On
  <2>2. \A j : ~IsDelete(todo[w], j)
    BY <1>2, IsDeletePlan
  <2>3. PICK j \in Ids : IsBuild(todo[w], j)
    BY <2>1, <2>2 DEF BuildInv, Shape
  <2> QED
    BY <1>2, <2>3, IsBuildPlan
<1> QED
  BY <1>1, <1>2, IsBuildPlan DEF Building

\* What a worker is about to do tells what its plan is.
LEMMA AtPlan ==
    ASSUME TypeOK, BuildInv, NEW w \in Workers, NEW o, At(w, o)
    PROVE  /\ \/ Plain(todo[w])
              \/ \E i \in Ids : IsBuild(todo[w], i) /\ Index(w) = i
              \/ \E i \in Ids : IsDelete(todo[w], i) /\ Index(w) = i
           /\ o \notin BuildSteps \union {"status", "dropReal", "delete"} => Plain(todo[w])
           /\ o \in {"resolve", "status"} => Index(w) \in Ids /\ IsBuild(todo[w], Index(w))
           /\ o \in BuildSteps =>
                 \/ Plain(todo[w]) /\ Index(w) \in {"group", "pending"} /\ Index(w) \notin Ids
                 \/ Index(w) \in Ids /\ IsBuild(todo[w], Index(w))
           /\ o \in {"dropReal", "delete"} => Index(w) \in Ids /\ IsDelete(todo[w], Index(w)) /\ Index(w) \in disturbed
<1>1. todo[w] \in Seq(Steps) /\ todo[w] # <<>> /\ Head(todo[w]).op = o
  BY AtStep DEF At
<1>2. CASE Plain(todo[w])
  <2>1. PlainStep(Head(todo[w]))
    BY <1>1, <1>2, PlainTail
  <2> QED
    BY <1>1, <1>2, <2>1, IdsAssumption DEF PlainStep, Index, BuildSteps
<1>3. ASSUME NEW i \in Ids, IsBuild(todo[w], i)
      PROVE  Index(w) = i /\ o \in BuildSteps \union {"status"} /\ o \notin {"dropReal", "delete"}
  BY <1>1, <1>3, IsBuildPlan DEF Index, BuildSteps
<1>4. ASSUME NEW i \in Ids, IsDelete(todo[w], i)
      PROVE  Index(w) = i /\ o \in {"dropReal", "delete"} /\ o \notin BuildSteps \union {"status"}
  BY <1>1, <1>4, IsDeletePlan DEF Index, BuildSteps
<1>5. CASE \E i \in Ids : IsBuild(todo[w], i)
  BY <1>3, <1>5
<1>6. CASE \E i \in Ids : IsDelete(todo[w], i) /\ i \in disturbed
  BY <1>4, <1>6 DEF BuildSteps
<1> QED
  BY <1>2, <1>5, <1>6 DEF BuildInv, Shape

\* A worker whose plan and answer are left alone.
LEMMA OtherShape ==
    ASSUME BuildInv, NEW v \in Workers, todo'[v] = todo[v], ok'[v] = ok[v],
           usedIds \subseteq usedIds', disturbed \subseteq disturbed',
           \A i \in Ids \ disturbed' : IsBuild(todo[v], i) =>
              /\ pg'[i] = pg[i]
              /\ row' # Absent /\ row'.id = i => row'.status = "building"
              /\ \A u \in Workers \ {v} : ~IsBuild(todo'[u], i)
    PROVE  Shape(v)'
<1>1. CASE Plain(todo[v])
  BY <1>1 DEF Shape
<1>2. CASE \E i \in Ids : IsDelete(todo[v], i) /\ i \in disturbed
  BY <1>2 DEF Shape
<1>3. ASSUME NEW i \in Ids, IsBuild(todo[v], i) PROVE Shape(v)'
  <2>1. i \in usedIds' /\ IsBuild(todo'[v], i)
    BY <1>3, BuildFacts
  <2>2. i \notin disturbed' => Alone(v, i)'
    <3> SUFFICES ASSUME i \notin disturbed' PROVE Alone(v, i)'
      OBVIOUS
    <3>1. Alone(v, i)
      BY <1>3, BuildFacts
    <3>2. /\ pg'[i] = pg[i] /\ (row' # Absent /\ row'.id = i => row'.status = "building")
          /\ \A u \in Workers \ {v} : ~IsBuild(todo'[u], i)
      BY <1>3
    <3> QED
      BY <3>1, <3>2 DEF Alone
  <2> QED
    BY <2>1, <2>2 DEF Shape
<1> QED
  BY <1>1, <1>2, <1>3 DEF BuildInv, Shape

\* Work that is not a composite index's touches none of them.
LEMMA PlainKeeps ==
    ASSUME TypeOK, BuildInv, NEW w \in Workers, Plain(todo[w]), Plain(todo'[w]),
           \A v \in Workers \ {w} : todo'[v] = todo[v] /\ ok'[v] = ok[v],
           UNCHANGED <<row, usedIds, disturbed>>, orphaned \subseteq orphaned',
           \A i \in Ids : pg'[i] = pg[i]
    PROVE  BuildInv'
<1>1. \A i : ~IsBuild(todo[w], i) /\ ~IsBuild(todo'[w], i)
  BY IsBuildPlan
<1>2. \A v \in Workers : \A i : IsBuild(todo[v], i) <=> IsBuild(todo'[v], i)
  BY <1>1
<1>3. ASSUME NEW v \in Workers \ {w} PROVE Shape(v)'
  <2>1. ASSUME NEW i \in Ids, i \notin disturbed, IsBuild(todo[v], i)
        PROVE  /\ row # Absent /\ row.id = i => row.status = "building"
               /\ \A u \in Workers \ {v} : ~IsBuild(todo'[u], i)
    BY <1>2, <2>1, BuildFacts DEF Alone
  <2> QED
    BY <2>1, OtherShape
<1>4. Shape(w)'
  BY DEF Shape
<1>5. RowInv'
  <2>1. row # Absent => row.id \in Ids
    BY DEF TypeOK, IndexRow
  <2> QED
    BY <1>2, <2>1 DEF BuildInv, RowInv
<1> QED
  BY <1>3, <1>4, <1>5 DEF BuildInv

\* A step of a build that goes on.
LEMMA BuilderKeeps ==
    ASSUME TypeOK, BuildInv, NEW w \in Workers, NEW i \in Ids, IsBuild(todo[w], i), IsBuild(todo'[w], i),
           \A v \in Workers \ {w} : todo'[v] = todo[v] /\ ok'[v] = ok[v],
           UNCHANGED <<row, usedIds, disturbed, orphaned>>,
           \A j \in Ids \ {i} : pg'[j] = pg[j],
           i \notin disturbed =>
              /\ Head(todo'[w]).op \in {"resolve", "drop"} => ~ok'[w]
              /\ Head(todo'[w]).op = "status" /\ ok'[w] => pg'[i] = "valid"
    PROVE  BuildInv'
<1>1. \A j : (IsBuild(todo[w], j) <=> j = i) /\ (IsBuild(todo'[w], j) <=> j = i)
  BY IsBuildPlan
<1>2. \A v \in Workers : \A j : IsBuild(todo[v], j) <=> IsBuild(todo'[v], j)
  BY <1>1
<1>3. ASSUME NEW v \in Workers \ {w} PROVE Shape(v)'
  <2>1. ASSUME NEW j \in Ids, j \notin disturbed, IsBuild(todo[v], j)
        PROVE  /\ pg'[j] = pg[j]
               /\ row # Absent /\ row.id = j => row.status = "building"
               /\ \A u \in Workers \ {v} : ~IsBuild(todo'[u], j)
    <3>1. Alone(v, j)
      BY <2>1, BuildFacts
    <3>2. j # i
      BY <1>1, <3>1 DEF Alone
    <3> QED
      BY <1>2, <3>1, <3>2 DEF Alone
  <2> QED
    BY <2>1, OtherShape
<1>4. i \in usedIds /\ (i \notin disturbed => Alone(w, i))
  BY BuildFacts
<1>5. Shape(w)'
  <2>1. i \notin disturbed' => Alone(w, i)'
    BY <1>2, <1>4 DEF Alone
  <2> QED
    BY <1>4, <2>1 DEF Shape
<1>6. RowInv'
  <2>1. row # Absent => row.id \in Ids
    BY DEF TypeOK, IndexRow
  <2>2. CASE row # Absent /\ row.id = i
    BY <1>4, <2>2 DEF BuildInv, RowInv, Alone
  <2>3. CASE row # Absent /\ row.id # i
    BY <1>2, <2>1, <2>3 DEF BuildInv, RowInv
  <2>4. CASE row = Absent
    BY <2>4 DEF RowInv
  <2> QED
    BY <2>2, <2>3, <2>4
<1> QED
  BY <1>3, <1>5, <1>6 DEF BuildInv

\* The other workers, when one starts no build.
LEMMA OthersKeep ==
    ASSUME BuildInv, NEW w \in Workers, \A i \in Ids : ~IsBuild(todo'[w], i),
           \A v \in Workers \ {w} : todo'[v] = todo[v] /\ ok'[v] = ok[v],
           UNCHANGED usedIds, disturbed \subseteq disturbed',
           \A i \in Ids \ disturbed' : pg'[i] = pg[i],
           \A v \in Workers \ {w}, i \in Ids \ disturbed' :
              IsBuild(todo[v], i) /\ row' # Absent /\ row'.id = i => row'.status = "building"
    PROVE  \A v \in Workers \ {w} : Shape(v)'
<1> SUFFICES ASSUME NEW v \in Workers \ {w} PROVE Shape(v)'
  OBVIOUS
<1>1. ASSUME NEW i \in Ids, i \notin disturbed', IsBuild(todo[v], i)
      PROVE  /\ pg'[i] = pg[i]
             /\ row' # Absent /\ row'.id = i => row'.status = "building"
             /\ \A u \in Workers \ {v} : ~IsBuild(todo'[u], i)
  <2>1. Alone(v, i)
    BY <1>1, BuildFacts
  <2> QED
    BY <1>1, <2>1 DEF Alone
<1> QED
  BY <1>1, OtherShape

\* The plans that neither build nor delete an index.
LEMMA PlainPlans ==
    /\ Plain(<<>>)
    /\ \A m \in {"agent", "secret", "direct_pg"} : Plain(ProvisionPlan(m))
    /\ Plain(<<Step("insert"), Step("answer")>>)
    /\ Plain(<<Step("insert"), Step("migrate")>> \o EnsureIndexes \o <<Step("answer"), Step("backfill")>>)
    /\ Plain(<<Step("migrate")>> \o EnsureIndexes \o EnsureIndexes \o <<Step("backfill"), Step("grant")>>)
    /\ Plain(<<Step("exists")>>) /\ Plain(<<Step("default")>>)
    /\ \A c : Plain(<<On("query", c)>>)
<1> DEFINE a == <<Step("migrate")>>
           b == <<Step("insert"), Step("answer")>>
           c == <<Step("insert"), Step("migrate")>>
           d == <<Step("answer"), Step("backfill")>>
           e == EnsureIndexes
           f == <<Step("backfill"), Step("grant")>>
<1>1. \A o \in {"migrate", "insert", "answer", "backfill", "grant", "verify", "exists", "default"} :
         Step(o) \in Steps /\ PlainStep(Step(o))
  BY StepType DEF PlainStep, Step, BuildSteps, StepNames
<1>2. \A o \in {"group", "pending"} : On("create", o) \in Steps /\ PlainStep(On("create", o))
  BY StepType DEF PlainStep, On, BuildSteps, StepNames, Names
<1>3. \A x : PlainStep(x) => Plain(<<x>>)
  BY ItemsShort DEF Plain
<1>4. \A x, y : PlainStep(x) /\ PlainStep(y) => Plain(<<x, y>>)
  BY ItemsShort DEF Plain
<1>5. \A i : PlainStep(On("query", i))
  BY DEF PlainStep, On, BuildSteps
<1>6. ASSUME NEW s \in Seq(Steps), NEW t \in Seq(Steps), Plain(s), Plain(t)
      PROVE  s \o t \in Seq(Steps) /\ Plain(s \o t)
  <2>1. s \o t \in Seq(Steps)
    BY ConcatProperties
  <2>2. Items(s \o t) \subseteq Items(s) \union Items(t)
    BY ItemsConcat
  <2> QED
    BY <1>6, <2>1, <2>2 DEF Plain
<1>7. /\ a \in Seq(Steps) /\ b \in Seq(Steps) /\ c \in Seq(Steps) /\ d \in Seq(Steps) /\ e \in Seq(Steps)
      /\ f \in Seq(Steps)
  BY <1>1, <1>2 DEF EnsureIndexes
<1>8. Plain(a) /\ Plain(b) /\ Plain(c) /\ Plain(d) /\ Plain(e) /\ Plain(f) /\ Plain(<<>>) /\ Plain(<<Step("verify")>>)
  BY <1>1, <1>2, <1>3, <1>4, ItemsShort DEF EnsureIndexes, Plain
<1>9. ProvisionPlan("agent") = b /\ ProvisionPlan("secret") = a \o e \o b /\ ProvisionPlan("direct_pg") = <<Step("verify")>>
  BY DEF ProvisionPlan
<1> HIDE DEF a, b, c, d, e, f
<1>10. a \o e \in Seq(Steps) /\ Plain(a \o e) /\ c \o e \in Seq(Steps) /\ Plain(c \o e)
  BY <1>6, <1>7, <1>8
<1>11. Plain((a \o e) \o b) /\ Plain((c \o e) \o d) /\ (a \o e) \o e \in Seq(Steps) /\ Plain((a \o e) \o e)
  BY <1>6, <1>7, <1>8, <1>10
<1>12. Plain(((a \o e) \o e) \o f)
  BY <1>6, <1>7, <1>8, <1>11
<1>13. Plain(<<Step("exists")>>) /\ Plain(<<Step("default")>>)
  BY <1>1, <1>3
<1> QED
  BY <1>3, <1>5, <1>8, <1>9, <1>11, <1>12, <1>13 DEF a, b, c, d, e, f

\* Everything but the work on composite indexes.
LEMMA PlainActions ==
    ASSUME TypeOK, BuildInv, NEW w \in Workers,
           \/ \E m \in {"agent", "secret", "direct_pg"}, r \in {"owner", "dml"} : Provision(w, m, r)
           \/ VerifySchemaReadiness(w) \/ InsertProject(w) \/ AnswerProvision(w)
           \/ Migrate(w) \/ MigrateFails(w) \/ DbPrep(w) \/ GrantRead(w)
           \/ BackfillBatch(w) \/ BackfillCommit(w) \/ SchemaCapability(w) \/ GroupQuery(w)
           \/ RateCheck(w) \/ RateExists(w) \/ RateDefault(w) \/ RateTimeout(w)
           \/ SigninCheck(w) \/ SigninTimeout(w)
           \/ \E d \in Docs : CreateDocument(w, d)
           \/ PatchProject(w)
    PROVE  BuildInv'
<1>1. UNCHANGED <<row, usedIds, disturbed, orphaned, pg, ok>>
  <2>1. CASE \/ \E m \in {"agent", "secret", "direct_pg"}, r \in {"owner", "dml"} : Provision(w, m, r)
             \/ VerifySchemaReadiness(w) \/ InsertProject(w) \/ AnswerProvision(w)
             \/ Migrate(w) \/ MigrateFails(w) \/ DbPrep(w) \/ GrantRead(w)
    BY <2>1 DEF Provision, VerifySchemaReadiness, InsertProject, AnswerProvision, Migrate, MigrateFails, DbPrep,
                GrantRead, system, customer, ghosts
  <2>2. CASE \/ BackfillBatch(w) \/ BackfillCommit(w) \/ SchemaCapability(w) \/ GroupQuery(w)
             \/ RateCheck(w) \/ RateExists(w) \/ RateDefault(w) \/ RateTimeout(w)
             \/ SigninCheck(w) \/ SigninTimeout(w)
             \/ \E d \in Docs : CreateDocument(w, d)
             \/ PatchProject(w)
    BY <2>2 DEF BackfillBatch, BackfillCommit, SchemaCapability, GroupQuery, RateCheck, RateExists, RateDefault,
                RateTimeout, SigninCheck, SigninTimeout, CreateDocument, PatchProject, system, customer, control, ghosts
  <2> QED
    BY <2>1, <2>2
<1>2. ASSUME NEW s \in Seq(Steps), Plain(todo[w]), Plain(s), Then(w, s) PROVE BuildInv'
  <2>1. todo'[w] = s /\ \A v \in Workers \ {w} : todo'[v] = todo[v]
    BY <1>2, PlanStep
  <2> QED
    BY <1>1, <1>2, <2>1, PlainKeeps
<1>3. ASSUME Plain(todo[w]), UNCHANGED todo PROVE BuildInv'
  BY <1>1, <1>3, PlainKeeps
<1>4. /\ Idle(w) => Plain(todo[w])
      /\ \A o : At(w, o) /\ o \notin BuildSteps \union {"status", "dropReal", "delete"} => Plain(todo[w])
  BY AtPlan, PlainPlans DEF Idle
<1>5. ASSUME Plain(todo[w]), Stop(w) PROVE BuildInv'
  BY <1>2, <1>5, EmptySeq, PlainPlans DEF Stop
<1>6. ASSUME NEW o, At(w, o), o \notin BuildSteps \union {"status", "dropReal", "delete"}, Next1(w)
      PROVE  BuildInv'
  <2>1. todo[w] \in Seq(Steps) /\ todo[w] # <<>> /\ Tail(todo[w]) \in Seq(Steps) /\ Then(w, Tail(todo[w]))
    BY <1>6, AtStep, NextPlan
  <2>2. Plain(todo[w]) /\ Plain(Tail(todo[w]))
    BY <1>4, <1>6, <2>1, PlainTail
  <2> QED
    BY <1>2, <2>1, <2>2
<1>7. CASE \E m \in {"agent", "secret", "direct_pg"}, r \in {"owner", "dml"} : Provision(w, m, r)
  BY <1>2, <1>4, <1>7, PlanTypes, PlainPlans DEF Provision, Call
<1>8. CASE VerifySchemaReadiness(w)
  BY <1>2, <1>4, <1>8, PlanTypes, PlainPlans DEF VerifySchemaReadiness, BuildSteps
<1>9. CASE InsertProject(w) \/ Migrate(w)
  BY <1>4, <1>5, <1>6, <1>9 DEF InsertProject, Migrate, BuildSteps
<1>10. CASE AnswerProvision(w) \/ GrantRead(w)
  BY <1>6, <1>10 DEF AnswerProvision, GrantRead, BuildSteps
<1>11. CASE MigrateFails(w) \/ GroupQuery(w) \/ RateDefault(w)
  BY <1>4, <1>5, <1>11 DEF MigrateFails, GroupQuery, RateDefault, BuildSteps
<1>12. CASE DbPrep(w)
  BY <1>2, <1>4, <1>12, PlanTypes, PlainPlans DEF DbPrep, Call
<1>13. CASE BackfillBatch(w)
  <2>1. At(w, "backfill") /\ (Next1(w) \/ UNCHANGED todo)
    BY <1>13 DEF BackfillBatch
  <2> QED
    BY <1>3, <1>4, <1>6, <2>1 DEF BuildSteps
<1>14. CASE BackfillCommit(w)
  BY <1>3, <1>4, <1>14 DEF BackfillCommit, BuildSteps, control
<1>15. CASE SchemaCapability(w)
  <2>1. capability' \in {"available", "unavailable"} /\ Then(w, <<On("query", capability')>>) /\ Idle(w)
    BY <1>15 DEF SchemaCapability, Call
  <2>2. On("query", capability') \in Steps
    BY <2>1, StepType DEF StepNames
  <2>3. <<On("query", capability')>> \in Seq(Steps)
    BY <2>2
  <2> QED
    BY <1>2, <1>4, <2>1, <2>3, PlainPlans
<1>16. CASE RateCheck(w) \/ RateExists(w)
  <2>1. Step("exists") \in Steps /\ Step("default") \in Steps
    BY StepType DEF StepNames
  <2>2. <<Step("exists")>> \in Seq(Steps) /\ <<Step("default")>> \in Seq(Steps) /\ <<>> \in Seq(Steps)
    BY <2>1
  <2>3. Plain(todo[w])
    BY <1>4, <1>16 DEF RateCheck, RateExists, Call, BuildSteps
  <2>4. UNCHANGED todo \/ Then(w, <<Step("exists")>>) \/ Then(w, <<Step("default")>>) \/ Then(w, <<>>)
    BY <1>16 DEF RateCheck, RateExists
  <2> QED
    BY <1>2, <1>3, <2>2, <2>3, <2>4, PlainPlans
<1>17. CASE RateTimeout(w)
  BY <1>4, <1>5, <1>17 DEF RateTimeout, Call, BuildSteps
<1>18. CASE SigninCheck(w) \/ SigninTimeout(w) \/ PatchProject(w) \/ \E d \in Docs : CreateDocument(w, d)
  BY <1>3, <1>4, <1>18 DEF SigninCheck, SigninTimeout, PatchProject, CreateDocument, Call, control
<1> QED
  BY <1>7, <1>8, <1>9, <1>10, <1>11, <1>12, <1>13, <1>14, <1>15, <1>16, <1>17, <1>18

\* Steps of a build of either kind.
LEMMA BuildActions ==
    ASSUME TypeOK, BuildInv, NEW w \in Workers,
           CreateIndex(w) \/ FinishIndex(w) \/ CreateRefused(w) \/ Validate(w) \/ DropIndex(w) \/ ResolveDsn(w)
    PROVE  BuildInv'
<1> DEFINE i == Index(w)
<1>1. /\ UNCHANGED <<row, usedIds, disturbed, orphaned>>
      /\ \A j \in Names \ {i} : pg'[j] = pg[j]
      /\ \A v \in Workers \ {w} : ok'[v] = ok[v]
  BY DEF CreateIndex, FinishIndex, CreateRefused, Validate, DropIndex, ResolveDsn, system, customer, ghosts, TypeOK
<1>2. PICK o \in BuildSteps : At(w, o)
  BY DEF CreateIndex, FinishIndex, CreateRefused, Validate, DropIndex, ResolveDsn, BuildSteps
<1>3. /\ todo[w] \in Seq(Steps) /\ todo[w] # <<>> /\ Tail(todo[w]) \in Seq(Steps) /\ Head(todo[w]).op = o
      /\ \A n \in StepNames : On(n, i) \in Steps /\ <<On(n, i)>> \o Tail(todo[w]) \in Seq(Steps)
  BY <1>2, AtStep, StepType DEF At, Index
<1>4. BuildSteps \subseteq StepNames
  BY DEF BuildSteps, StepNames
<1>5. \/ \E n \in BuildSteps \ {"resolve"} : Then(w, <<On(n, i)>> \o Tail(todo[w]))
      \/ Then(w, Tail(todo[w])) \/ (i \notin Ids /\ Stop(w))
  <2>1. CASE CreateIndex(w) \/ FinishIndex(w) \/ CreateRefused(w)
    BY <2>1 DEF CreateIndex, FinishIndex, CreateRefused, BuildSteps
  <2>2. CASE Validate(w)
    BY <1>3, <2>2, NextPlan DEF Validate, BuildSteps
  <2>3. CASE DropIndex(w)
    BY <2>3 DEF DropIndex, AfterDrop, Stop
  <2>4. CASE ResolveDsn(w)
    BY <1>3, <2>4, NextPlan DEF ResolveDsn, BuildSteps
  <2> QED
    BY <2>1, <2>2, <2>3, <2>4
<1>6. ASSUME NEW s \in Seq(Steps), Then(w, s)
      PROVE  todo'[w] = s /\ \A v \in Workers \ {w} : todo'[v] = todo[v]
  BY <1>6, PlanStep
<1>7. CASE Plain(todo[w]) /\ i \in {"group", "pending"} /\ i \notin Ids
  <2>1. \A n \in BuildSteps : n # "resolve" => PlainStep(On(n, i))
    BY <1>7 DEF PlainStep, On, BuildSteps
  <2>2. Plain(Tail(todo[w])) /\ \A n \in BuildSteps : n # "resolve" => Plain(<<On(n, i)>> \o Tail(todo[w]))
    BY <1>3, <1>4, <1>7, <2>1, PlainTail
  <2>3. PICK s \in Seq(Steps) : Then(w, s) /\ Plain(s)
    BY <1>3, <1>4, <1>5, <2>2, EmptySeq, PlainPlans DEF Stop
  <2>4. \A j \in Ids : pg'[j] = pg[j]
    BY <1>1, <1>7 DEF Names
  <2> QED
    BY <1>1, <1>6, <1>7, <2>3, <2>4, PlainKeeps
<1>8. CASE i \in Ids /\ IsBuild(todo[w], i)
  <2>1. todo[w] = <<On(o, i), On("status", i)>> /\ Tail(todo[w]) = <<On("status", i)>>
    BY <1>2, <1>3, <1>8, IsBuildPlan
  <2>2. \A n \in BuildSteps : <<On(n, i)>> \o Tail(todo[w]) = <<On(n, i), On("status", i)>>
    BY <2>1, ShortPlans
  <2>3. \A n \in BuildSteps : Head(<<On(n, i), On("status", i)>>).op = n
    BY ShortPlans DEF On
  <2>4. Head(<<On("status", i)>>).op = "status"
    BY ShortPlans DEF On
  <2>5. /\ \/ \E n \in BuildSteps : todo'[w] = <<On(n, i), On("status", i)>>
           \/ todo'[w] = <<On("status", i)>>
        /\ \A v \in Workers \ {w} : todo'[v] = todo[v]
    BY <1>3, <1>4, <1>5, <1>6, <1>8, <2>1, <2>2
  <2>6. IsBuild(todo'[w], i)
    BY <2>5 DEF IsBuild
  <2>7. i \notin disturbed => /\ o \in {"resolve", "drop"} => ~ok[w]
                              /\ o = "status" /\ ok[w] => pg[i] = "valid"
    BY <1>3, <1>8, BuildFacts DEF Alone
  <2>8. i \notin disturbed => /\ Head(todo'[w]).op \in {"resolve", "drop"} => ~ok'[w]
                              /\ Head(todo'[w]).op = "status" /\ ok'[w] => pg'[i] = "valid"
    <3> SUFFICES ASSUME i \notin disturbed
                 PROVE  /\ Head(todo'[w]).op \in {"resolve", "drop"} => ~ok'[w]
                        /\ Head(todo'[w]).op = "status" /\ ok'[w] => pg'[i] = "valid"
      OBVIOUS
    <3>1. ASSUME NEW n \in BuildSteps, Then(w, <<On(n, i)>> \o Tail(todo[w]))
          PROVE  Head(todo'[w]).op = n
      BY <1>3, <1>4, <1>6, <2>2, <2>3, <3>1
    <3>2. ASSUME Then(w, Tail(todo[w])) PROVE Head(todo'[w]).op = "status"
      BY <1>3, <1>6, <2>1, <2>4, <3>2
    <3>3. CASE CreateIndex(w)
      <4>1. PICK n \in {"finish", "validate"} : Then(w, <<On(n, i)>> \o Tail(todo[w]))
        BY <3>3 DEF CreateIndex
      <4> QED
        BY <3>1, <4>1 DEF BuildSteps
    <3>4. CASE FinishIndex(w) \/ CreateRefused(w)
      <4>1. Then(w, <<On("validate", i)>> \o Tail(todo[w]))
        BY <3>4 DEF FinishIndex, CreateRefused
      <4> QED
        BY <3>1, <4>1 DEF BuildSteps
    <3>5. CASE Validate(w) /\ BuildSucceeded(ok[w], pg[i] = "valid")
      <4>1. Next1(w) /\ pg' = pg /\ pg[i] = "valid"
        BY <3>5 DEF Validate, BuildSucceeded, customer
      <4>2. Head(todo'[w]).op = "status"
        BY <1>3, <3>2, <4>1, NextPlan
      <4> QED
        BY <4>1, <4>2
    <3>6. CASE Validate(w) /\ ~BuildSucceeded(ok[w], pg[i] = "valid")
      <4>1. Then(w, <<On("drop", i)>> \o Tail(todo[w])) /\ ok' = [ok EXCEPT ![w] = FALSE]
        BY <3>6 DEF Validate
      <4>2. Head(todo'[w]).op = "drop" /\ ok'[w] = FALSE
        BY <3>1, <4>1 DEF BuildSteps, TypeOK
      <4> QED
        BY <4>2
    <3>7. CASE DropIndex(w)
      <4>1. At(w, "drop") /\ Then(w, Tail(todo[w])) /\ UNCHANGED ok
        BY <1>8, <3>7 DEF DropIndex, AfterDrop
      <4>2. o = "drop"
        BY <1>3, <4>1 DEF At
      <4> QED
        BY <2>7, <3>2, <4>1, <4>2
    <3>8. CASE ResolveDsn(w)
      <4>1. At(w, "resolve") /\ UNCHANGED ok /\ (Then(w, <<On("create", i)>> \o Tail(todo[w])) \/ Next1(w))
        BY <3>8 DEF ResolveDsn
      <4>2. o = "resolve"
        BY <1>3, <4>1 DEF At
      <4>3. Head(todo'[w]).op \in {"create", "status"}
        BY <1>3, <3>1, <3>2, <4>1, NextPlan DEF BuildSteps
      <4> QED
        BY <2>7, <4>1, <4>2, <4>3
    <3> QED
      BY <3>3, <3>4, <3>5, <3>6, <3>7, <3>8
  <2>9. \A j \in Ids \ {i} : pg'[j] = pg[j]
    BY <1>1 DEF Names
  <2> QED
    BY <1>1, <1>8, <2>5, <2>6, <2>8, <2>9, BuilderKeeps
<1> QED
  BY <1>2, <1>7, <1>8, AtPlan

\* The end of a build, and the steps of a delete.
LEMMA EndActions ==
    ASSUME TypeOK, BuildInv, NEW w \in Workers, WriteStatus(w) \/ DropRealIndex(w) \/ DeleteRow(w)
    PROVE  BuildInv'
<1> DEFINE i == Index(w)
<1>1. UNCHANGED <<usedIds, disturbed, orphaned, ok>>
  BY DEF WriteStatus, DropRealIndex, DeleteRow, system, customer, ghosts
<1>2. PICK o \in {"status", "dropReal", "delete"} : At(w, o)
  BY DEF WriteStatus, DropRealIndex, DeleteRow
<1>3. todo[w] # <<>> /\ Tail(todo[w]) \in Seq(Steps) /\ <<>> \in Seq(Steps) /\ Head(todo[w]).op = o
  BY <1>2, AtStep, EmptySeq DEF At
<1>4. /\ Next1(w) => todo'[w] = Tail(todo[w]) /\ \A v \in Workers \ {w} : todo'[v] = todo[v]
      /\ Stop(w) => todo'[w] = <<>> /\ \A v \in Workers \ {w} : todo'[v] = todo[v]
  BY <1>3, NextPlan, PlanStep DEF Stop
<1>5. Plain(<<>>) /\ \A j : ~IsBuild(<<>>, j)
  BY PlainPlans, IsBuildPlan
<1>6. row # Absent => row.id \in Ids
  BY DEF TypeOK, IndexRow
<1>7. CASE WriteStatus(w)
  <2>1. /\ UNCHANGED pg /\ Next1(w) /\ At(w, "status")
        /\ row' = IF row # Absent /\ row.id = i
                  THEN [row EXCEPT !.status = IF ok[w] THEN "ready" ELSE "failed"]
                  ELSE row
    BY <1>7 DEF WriteStatus, customer
  <2>2. i \in Ids /\ IsBuild(todo[w], i) /\ o = "status"
    BY <1>3, <2>1, AtPlan DEF At
  <2>3. todo'[w] = <<>> /\ \A v \in Workers \ {w} : todo'[v] = todo[v]
    BY <1>3, <1>4, <2>1, <2>2, IsBuildPlan
  <2>4. i \notin disturbed /\ ok[w] => pg[i] = "valid"
    BY <1>3, <2>2, BuildFacts DEF Alone
  <2>5. ASSUME NEW v \in Workers \ {w}, NEW j \in Ids \ disturbed', IsBuild(todo[v], j), row' # Absent, row'.id = j
        PROVE  row'.status = "building"
    <3>1. Alone(v, j)
      BY <1>1, <2>5, BuildFacts
    <3>2. j # i
      BY <2>2, <3>1 DEF Alone
    <3>3. row' = row
      BY <2>1, <2>5, <3>2
    <3> QED
      BY <2>5, <3>1, <3>3 DEF Alone
  <2>6. \A v \in Workers \ {w} : Shape(v)'
    BY <1>1, <1>5, <2>1, <2>3, <2>5, OthersKeep
  <2>7. Shape(w)'
    BY <1>5, <2>3 DEF Shape
  <2>8. RowInv'
    <3>1. CASE row # Absent /\ row.id = i
      <4>1. row'.id = i /\ row'.status = (IF ok[w] THEN "ready" ELSE "failed") /\ i \in usedIds
        BY <2>1, <2>2, <3>1, BuildFacts DEF TypeOK, IndexRow
      <4> QED
        BY <1>1, <2>1, <2>4, <4>1 DEF RowInv
    <3>2. CASE row # Absent /\ row.id # i
      <4>1. row' = row /\ \A v \in Workers : IsBuild(todo[v], row.id) => IsBuild(todo'[v], row.id)
        BY <2>1, <2>2, <2>3, <3>2, IsBuildPlan
      <4> QED
        BY <1>1, <2>1, <4>1 DEF BuildInv, RowInv
    <3>3. CASE row = Absent
      BY <2>1, <3>3 DEF RowInv
    <3> QED
      BY <3>1, <3>2, <3>3
  <2> QED
    BY <2>6, <2>7, <2>8 DEF BuildInv
<1>8. CASE DropRealIndex(w) \/ DeleteRow(w)
  <2>1. At(w, o) /\ o \in {"dropReal", "delete"}
    BY <1>2, <1>3, <1>8 DEF DropRealIndex, DeleteRow, At
  <2>2. i \in Ids /\ IsDelete(todo[w], i) /\ i \in disturbed
    BY <2>1, AtPlan
  <2>3. /\ \A j \in Ids \ {i} : pg'[j] = pg[j]
        /\ row' = row \/ row' = Absent
        /\ Next1(w) \/ Stop(w)
    BY <1>8 DEF DropRealIndex, DeleteRow, system, customer, TypeOK, Names
  <2>4. /\ todo'[w] = <<>> \/ todo'[w] = <<On("delete", i)>>
        /\ \A v \in Workers \ {w} : todo'[v] = todo[v]
    BY <1>3, <1>4, <2>1, <2>2, <2>3, IsDeletePlan
  <2>5. \A j : ~IsBuild(todo[w], j)
    BY <2>2, IsBuildPlan, IsDeletePlan DEF BuildSteps
  <2>6. \A j : ~IsBuild(todo'[w], j)
    <3>1. IsDelete(<<On("delete", i)>>, i)
      BY DEF IsDelete
    <3>2. \A j : ~IsBuild(<<On("delete", i)>>, j)
      BY <3>1, IsBuildPlan, IsDeletePlan DEF BuildSteps
    <3> QED
      BY <1>5, <2>4, <3>2
  <2>7. Shape(w)'
    BY <1>1, <1>5, <2>2, <2>4 DEF Shape, IsDelete
  <2>8. ASSUME NEW v \in Workers \ {w}, NEW j \in Ids \ disturbed', IsBuild(todo[v], j), row' # Absent, row'.id = j
        PROVE  row'.status = "building"
    BY <1>1, <2>3, <2>8, BuildFacts DEF Alone
  <2>9. \A v \in Workers \ {w} : Shape(v)'
    BY <1>1, <2>2, <2>3, <2>4, <2>6, <2>8, OthersKeep
  <2>10. RowInv'
    <3>1. CASE row' = Absent
      BY <3>1 DEF RowInv
    <3>2. CASE row' = row /\ row # Absent
      <4>1. row.id \notin disturbed => pg'[row.id] = pg[row.id]
        BY <1>6, <2>2, <2>3, <3>2
      <4>2. \A v \in Workers : IsBuild(todo[v], row.id) => IsBuild(todo'[v], row.id)
        BY <2>4, <2>5
      <4> QED
        BY <1>1, <3>2, <4>1, <4>2 DEF BuildInv, RowInv
    <3> QED
      BY <2>3, <3>1, <3>2
  <2> QED
    BY <2>7, <2>9, <2>10 DEF BuildInv
<1> QED
  BY <1>7, <1>8

\* A build or a delete begins.
LEMMA BeginActions ==
    ASSUME TypeOK, BuildInv, NEW w \in Workers, CreateCompositeIndex(w) \/ DeleteCompositeIndex(w)
    PROVE  BuildInv'
<1>1. /\ UNCHANGED <<orphaned, pg>> /\ todo[w] = <<>> /\ disturbed \subseteq disturbed'
      /\ \A v \in Workers \ {w} : ok'[v] = ok[v]
  BY DEF CreateCompositeIndex, DeleteCompositeIndex, Call, Idle, customer, TypeOK
<1>2. \A j : ~IsBuild(todo[w], j)
  BY <1>1, IsBuildPlan
<1>3. \A j \in {"resolve", "status", "dropReal", "delete"}, k \in Ids : On(j, k) \in Steps
  BY StepType DEF StepNames, Names
<1>4. \A j, k \in {"resolve", "status", "dropReal", "delete"}, l \in Ids : <<On(j, l), On(k, l)>> \in Seq(Steps)
  BY <1>3
<1>5. <<>> \in Seq(Steps) /\ Plain(<<>>) /\ \A j : ~IsBuild(<<>>, j)
  BY EmptySeq, PlainPlans, IsBuildPlan
<1>6. CASE CreateCompositeIndex(w)
  <2>1. PICK i \in IF row = Absent THEN Ids \ usedIds ELSE {row.id} :
          /\ usedIds' = usedIds \union {i}
          /\ row' = [id |-> i,
                     status |-> IF row # Absent /\ row.status = "ready"
                                THEN "ready" ELSE "building"]
          /\ Then(w, IF row'.status = "building"
                     THEN <<On("resolve", i), On("status", i)>> ELSE <<>>)
          /\ disturbed' = IF Building(i) THEN disturbed \union {i} ELSE disturbed
    BY <1>6 DEF CreateCompositeIndex
  <2>2. i \in Ids /\ ok'[w] = FALSE
    BY <1>6, <2>1 DEF CreateCompositeIndex, TypeOK, IndexRow
  <2>3. row' \in IndexRow /\ row' # Absent /\ row'.id = i /\ row'.status \in {"ready", "building"}
    BY <2>1, <2>2, AbsentAssumption DEF IndexRow
  <2>4. /\ row'.status = "building" => todo'[w] = <<On("resolve", i), On("status", i)>>
        /\ row'.status # "building" => todo'[w] = <<>>
        /\ \A v \in Workers \ {w} : todo'[v] = todo[v]
    BY <1>4, <1>5, <2>1, <2>2, PlanStep
  <2>5. row'.status = "building" => IsBuild(todo'[w], i) /\ Head(todo'[w]).op = "resolve"
    BY <2>4, ShortPlans DEF IsBuild, BuildSteps, On
  <2>6. \A j : IsBuild(todo'[w], j) => j = i
    BY <1>5, <2>3, <2>4, <2>5, IsBuildPlan
  <2>7. i \notin disturbed' => \A v \in Workers : ~IsBuild(todo[v], i)
    BY <2>1, <2>2, BuildingIsBuild
  <2>8. ASSUME NEW v \in Workers \ {w} PROVE Shape(v)'
    <3>1. ASSUME NEW j \in Ids, j \notin disturbed', IsBuild(todo[v], j)
          PROVE  /\ pg'[j] = pg[j]
                 /\ row' # Absent /\ row'.id = j => row'.status = "building"
                 /\ \A u \in Workers \ {v} : ~IsBuild(todo'[u], j)
      <4>1. j # i /\ Alone(v, j)
        BY <1>1, <2>7, <3>1, BuildFacts
      <4> QED
        BY <1>1, <2>3, <2>4, <2>6, <4>1 DEF Alone
    <3> QED
      BY <1>1, <2>1, <2>4, <3>1, OtherShape
  <2>9. Shape(w)'
    <3>1. CASE row'.status = "building"
      <4>1. i \notin disturbed' => Alone(w, i)'
        BY <2>2, <2>3, <2>4, <2>5, <2>7, <3>1 DEF Alone
      <4>2. i \in usedIds'
        BY <2>1
      <4> QED
        BY <2>2, <2>5, <3>1, <4>1, <4>2 DEF Shape
    <3>2. CASE row'.status # "building"
      BY <1>5, <2>4, <3>2 DEF Shape
    <3> QED
      BY <3>1, <3>2
  <2>10. RowInv'
    <3>1. CASE row'.status = "building"
      BY <2>1, <2>3, <2>5, <3>1 DEF RowInv
    <3>2. CASE row'.status = "ready"
      <4>1. row # Absent /\ row.status = "ready" /\ row.id = i
        BY <2>1, <3>2
      <4>2. i \notin disturbed => pg[i] = "valid"
        BY <4>1 DEF BuildInv, RowInv
      <4> QED
        BY <1>1, <2>1, <2>3, <3>2, <4>2 DEF RowInv
    <3> QED
      BY <2>3, <3>1, <3>2
  <2> QED
    BY <2>8, <2>9, <2>10 DEF BuildInv
<1>7. CASE DeleteCompositeIndex(w)
  <2> DEFINE i == row.id
  <2>1. /\ row # Absent /\ i \in Ids /\ UNCHANGED <<row, usedIds>>
        /\ disturbed' = disturbed \union {i}
        /\ Then(w, <<On("dropReal", i), On("delete", i)>>)
    BY <1>7 DEF DeleteCompositeIndex, TypeOK, IndexRow, system
  <2> HIDE DEF i
  <2>2. todo'[w] = <<On("dropReal", i), On("delete", i)>> /\ \A v \in Workers \ {w} : todo'[v] = todo[v]
    BY <1>4, <2>1, PlanStep
  <2>3. IsDelete(todo'[w], i)
    BY <2>2 DEF IsDelete
  <2>4. \A j : ~IsBuild(todo'[w], j)
    BY <2>3, IsBuildPlan, IsDeletePlan DEF BuildSteps
  <2>5. ASSUME NEW v \in Workers \ {w}, NEW j \in Ids \ disturbed', IsBuild(todo[v], j), row' # Absent, row'.id = j
        PROVE  row'.status = "building"
    BY <2>1, <2>5 DEF i
  <2>6. \A v \in Workers \ {w} : Shape(v)'
    BY <1>1, <2>1, <2>2, <2>4, <2>5, OthersKeep
  <2>7. Shape(w)'
    BY <2>1, <2>3 DEF Shape
  <2>8. RowInv'
    BY <2>1 DEF BuildInv, RowInv, i
  <2> QED
    BY <2>6, <2>7, <2>8 DEF BuildInv
<1> QED
  BY <1>6, <1>7

\* A worker dies.
LEMMA AbortKeeps ==
    ASSUME TypeOK, BuildInv, NEW w \in Workers, Abort(w)
    PROVE  BuildInv'
<1>1. /\ UNCHANGED <<row, usedIds, disturbed, pg, ok>> /\ Stop(w)
      /\ orphaned' = orphaned \union {i \in Ids : \E n \in 1 .. Len(todo[w]) : todo[w][n] = On("status", i)}
  BY DEF Abort, system
<1>2. todo'[w] = <<>> /\ \A v \in Workers \ {w} : todo'[v] = todo[v]
  BY <1>1, EmptySeq, PlanStep DEF Stop
<1>3. Plain(<<>>) /\ \A j : ~IsBuild(<<>>, j)
  BY PlainPlans, IsBuildPlan
<1>4. \A v \in Workers \ {w} : Shape(v)'
  <2>1. ASSUME NEW v \in Workers \ {w}, NEW j \in Ids \ disturbed', IsBuild(todo[v], j), row' # Absent, row'.id = j
        PROVE  row'.status = "building"
    BY <1>1, <2>1, BuildFacts DEF Alone
  <2> QED
    BY <1>1, <1>2, <1>3, <2>1, OthersKeep
<1>5. Shape(w)'
  BY <1>2, <1>3 DEF Shape
<1>6. RowInv'
  <2>1. ASSUME row # Absent, IsBuild(todo[w], row.id) PROVE row.id \in orphaned'
    <3>1. row.id \in Ids /\ On("status", row.id) \in Items(todo[w])
      BY <2>1, IsBuildPlan DEF TypeOK, IndexRow
    <3>2. DOMAIN todo[w] = 1 .. Len(todo[w])
      BY LenProperties DEF TypeOK
    <3> QED
      BY <1>1, <3>1, <3>2 DEF Items
  <2> QED
    BY <1>1, <1>2, <2>1 DEF BuildInv, RowInv
<1> QED
  BY <1>4, <1>5, <1>6 DEF BuildInv

(* composite_index_builder.rs, composite_indexes.rs: a 'ready' composite   *)
(* index is a valid index of the customer database, and a 'building' one   *)
(* has a build under way, unless two builds of it met, its builder died or *)
(* it is being deleted.                                                    *)
THEOREM StatusIsHonest == Spec => []StatusHonest
<1>1. Init => BuildInv
  BY PlainPlans DEF Init, BuildInv, RowInv, Shape
<1>2. TypeOK /\ BuildInv /\ [Next]_vars => BuildInv'
  <2> SUFFICES ASSUME TypeOK, BuildInv, [Next]_vars PROVE BuildInv'
    OBVIOUS
  <2>1. CASE UNCHANGED vars \/ SweepSignin \/ Tick
    <3>1. UNCHANGED <<row, usedIds, disturbed, orphaned, pg, ok, todo>>
      BY <2>1 DEF vars, SweepSignin, Tick, system, customer, control, ghosts
    <3> QED
      BY <3>1 DEF BuildInv, RowInv, Shape, Alone
  <2> QED
    BY <2>1, PlainActions, BuildActions, EndActions, BeginActions, AbortKeeps DEF Next
<1>3. TypeOK /\ BuildInv => StatusHonest
  <2> SUFFICES ASSUME TypeOK, BuildInv, row # Absent PROVE row.id \notin disturbed =>
         /\ row.status = "ready" => pg[row.id] = "valid"
         /\ row.status = "building" => Building(row.id) \/ row.id \in orphaned
    BY DEF StatusHonest
  <2>1. row.id \in Ids
    BY DEF TypeOK, IndexRow
  <2> QED
    BY <2>1, BuildingIsBuild DEF BuildInv, RowInv
<1> QED
  BY <1>1, <1>2, <1>3, TypesSound, PTL DEF Spec
=============================================================================
