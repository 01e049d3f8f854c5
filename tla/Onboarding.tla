----------------------------- MODULE Onboarding -----------------------------
(***************************************************************************)
(* How a project comes to life and gets its storage ready: provisioning    *)
(* (admin/handlers/provision.rs), the database-preparation tool            *)
(* (embyr-db-prep), customer migrations, the backfill of collection_id and *)
(* the collection-group queries that must not depend on its progress       *)
(* (embyr-pg-storage), the composite indexes and their background builds   *)
(* (composite_indexes.rs, composite_index_builder.rs), and the rate        *)
(* limiters: the bucket every request of the project draws on              *)
(* (middleware/rate_limit.rs) and the one of an address that signs in to   *)
(* the console (middleware/signin_rate_limit.rs and its sweeper).          *)
(*                                                                         *)
(* One project and one customer database.  A worker is a thread of control *)
(* of some server (or one run of embyr-db-prep); what it still has to do   *)
(* is todo[w], a sequence of steps [op, on] whose head is the next         *)
(* statement it sends to a database.                                       *)
(***************************************************************************)
EXTENDS Naturals, Sequences, FiniteSets

CONSTANTS
    Workers,        \* concurrent calls, background tasks, db-prep runs
    Docs,           \* documents of the customer database
    Group,          \* those whose collection has the queried last segment
    Unlike,         \* those of Group its LIKE pattern misses: nested, '\' in the segment
    Alike,          \* other documents whose path matches its LIKE pattern
    Old,            \* those written before the collection_id migration
    Ids,            \* UUIDs of composite index rows
    Current,        \* highest embedded customer migration
    Capacity,       \* tokens of a full rate bucket
    Retention,      \* ticks after which an idle sign-in bucket is swept
    BatchSize,      \* rows per backfill batch
    Absent, Nobody,
    MaxCalls, MaxFaults, MaxTicks

\* Rows of projects, composite_indexes and signin_rate_limits.
Project   == [key : Nat, mode : {"agent", "secret", "direct_pg"}, dsn : BOOLEAN]
IndexRow  == [id : Ids, status : {"building", "ready", "failed"}]
SigninRow == [tokens : Nat, idle : Nat]

ASSUME SchemaAssumption == Current \in Nat /\ Current >= 2
ASSUME BucketAssumption ==
    Capacity \in Nat \ {0} /\ Retention \in Nat /\ Retention >= Capacity
ASSUME WorkersAssumption == "shared" \notin Workers /\ Nobody \notin Workers
ASSUME DocsAssumption == Group \union Alike \subseteq Docs /\ Unlike \subseteq Group
ASSUME IdsAssumption == Ids \cap {"group", "pending"} = {}
ASSUME AbsentAssumption == Absent \notin Nat \union Project \union IndexRow \union SigninRow

VARIABLES
    project,    \* row of projects: [key, mode, dsn] or Absent
    bucket,     \* row of rate_buckets: its tokens, or Absent
    row,        \* row of composite_indexes: [id, status] or Absent
    usedIds,
    schema,     \* highest migration applied (0: never prepared)
    granted,    \* may the DML role read _sqlx_migrations
    cid,        \* collection_id of each document: "none" (no row), "null", "set"
    pg,         \* state of each real index
    ddl,        \* holder of the CREATE/DROP INDEX CONCURRENTLY lock on documents
    locked,     \* rows each backfill transaction holds
    capability, \* schema_capability_cache of the serving adapter
    fallback,   \* in-process bucket of each server
    signin,     \* row of signin_rate_limits of one address, and each server's own bucket
    todo, arg, ok,
    calls, faults, ticks,
    answered,   \* keys returned with 201
    wrong,      \* documents a group query missed, or returned without reason
    filled,     \* has a backfill run ended with no row left to fill
    disturbed,  \* index ids built twice at once, or being deleted
    orphaned,   \* index ids whose builder died
    drawn       \* requests admitted, by limiter and by the bucket that let them in

system   == <<project, bucket, row, usedIds>>
customer == <<schema, granted, cid, pg, ddl, locked>>
server   == <<capability, fallback, signin>>
control  == <<todo, arg, ok>>
bounds   == <<calls, faults, ticks>>
ghosts   == <<answered, wrong, filled, disturbed, orphaned, drawn>>
vars     == <<system, customer, server, control, bounds, ghosts>>

Step(op)   == [op |-> op, on |-> Nobody]
On(op, i)  == [op |-> op, on |-> i]
Names      == {"group", "pending"} \union Ids
NoArg      == [key |-> 0, mode |-> "agent", role |-> "owner"]
Idle(w)    == todo[w] = <<>>
At(w, op)  == todo[w] # <<>> /\ Head(todo[w]).op = op
Index(w)   == Head(todo[w]).on
Next1(w)   == todo' = [todo EXCEPT ![w] = Tail(@)]
Then(w, s) == todo' = [todo EXCEPT ![w] = s]
Stop(w)    == Then(w, <<>>)
MayFail    == faults < MaxFaults /\ faults' = faults + 1

\* A new call of a worker that has nothing to do.
Call(w) ==
    /\ Idle(w)
    /\ calls < MaxCalls
    /\ calls' = calls + 1
    /\ UNCHANGED <<faults, ticks>>

------------------------------------------------------------------------------
(* Provisioning *)

EnsureIndexes == <<On("create", "group"), On("create", "pending")>>

\* The steps left of a provisioning call, per backend mode.  Secret modes
\* migrate first and insert last; agent mode touches no customer database.
ProvisionPlan(m) ==
    CASE m = "agent"     -> <<Step("insert"), Step("answer")>>
      [] m = "secret"    -> <<Step("migrate")>> \o EnsureIndexes
                               \o <<Step("insert"), Step("answer")>>
      [] m = "direct_pg" -> <<Step("verify")>>

\* provision: the duplicate check passes, a key is drawn, the DSN answers.
Provision(w, m, r) ==
    /\ Call(w)
    /\ project = Absent
    /\ arg' = [arg EXCEPT ![w] = [key |-> calls + 1, mode |-> m, role |-> r]]
    /\ Then(w, ProvisionPlan(m))
    /\ UNCHANGED <<system, customer, server, ok, ghosts>>

\* classify: Ready iff the version read is at least the embedded one.
Ready(found) == found >= Current

\* What _sqlx_migrations shows this role: nothing without the grant.
FoundVersion(w) == IF arg[w].role = "owner" \/ granted THEN schema ELSE 0

\* Direct mode: a ready database is never migrated, any other one is
\* migrated after the project's row has been committed.
VerifySchemaReadiness(w) ==
    /\ At(w, "verify")
    /\ Then(w, IF Ready(FoundVersion(w))
               THEN <<Step("insert"), Step("answer")>>
               ELSE <<Step("insert"), Step("migrate")>> \o EnsureIndexes
                      \o <<Step("answer"), Step("backfill")>>)
    /\ UNCHANGED <<system, customer, server, arg, ok, bounds, ghosts>>

\* Mutant: the row of an earlier call is overwritten.
InsertProjectOver(w) ==
    /\ At(w, "insert")
    /\ project' = [key |-> arg[w].key, mode |-> arg[w].mode, dsn |-> FALSE]
    /\ bucket' = Capacity
    /\ Next1(w)
    /\ UNCHANGED <<row, usedIds, customer, server, arg, ok, bounds, ghosts>>

\* One transaction inserts the project and its bucket; the primary key
\* refuses the loser of two calls that both passed the duplicate check.
InsertProject(w) ==
    /\ At(w, "insert")
    /\ IF project = Absent
       THEN /\ project' = [key |-> arg[w].key, mode |-> arg[w].mode, dsn |-> FALSE]
            /\ bucket' = Capacity
            /\ Next1(w)
       ELSE Stop(w) /\ UNCHANGED <<project, bucket>>
    /\ UNCHANGED <<row, usedIds, customer, server, arg, ok, bounds, ghosts>>

\* MIGRATOR.run under sqlx's own lock: all migrations for a role that owns
\* the schema; the DML role is refused.
Migrate(w) ==
    /\ At(w, "migrate")
    /\ IF arg[w].role = "owner"
       THEN schema' = Current /\ Next1(w)
       ELSE Stop(w) /\ UNCHANGED schema
    /\ UNCHANGED <<system, granted, cid, pg, ddl, locked, server, arg, ok, bounds, ghosts>>

\* It fails part of the way: each migration is its own transaction.
MigrateFails(w) ==
    /\ At(w, "migrate")
    /\ arg[w].role = "owner"
    /\ MayFail
    /\ schema' \in {v \in schema .. Current : v < Current}
    /\ Stop(w)
    /\ UNCHANGED <<system, granted, cid, pg, ddl, locked, server, arg, ok, calls, ticks, ghosts>>

\* 201 with the key.
AnswerProvision(w) ==
    /\ At(w, "answer")
    /\ answered' = answered \union {arg[w].key}
    /\ Next1(w)
    /\ UNCHANGED <<system, customer, server, arg, ok, bounds, wrong, filled, disturbed, orphaned, drawn>>

\* One run of embyr-db-prep: migrate (which builds the indexes), build them
\* again, backfill, grant.
DbPrep(w) ==
    /\ Call(w)
    /\ arg' = [arg EXCEPT ![w] = NoArg]
    /\ Then(w, <<Step("migrate")>> \o EnsureIndexes \o EnsureIndexes
                 \o <<Step("backfill"), Step("grant")>>)
    /\ UNCHANGED <<system, customer, server, ok, ghosts>>

\* GRANT SELECT ON _sqlx_migrations, when the DML role's DSN was given.
GrantRead(w) ==
    /\ At(w, "grant")
    /\ granted' \in {granted, TRUE}
    /\ Next1(w)
    /\ UNCHANGED <<system, schema, cid, pg, ddl, locked, server, arg, ok, bounds, ghosts>>

------------------------------------------------------------------------------
(* CREATE INDEX CONCURRENTLY, on behalf of migrate or of a composite index. *)
(* The table lock admits one CREATE or DROP at a time.                      *)

\* IF NOT EXISTS: any index of that name, valid or not, makes it a no-op.
CreateIndex(w) ==
    /\ At(w, "create")
    /\ ddl = Nobody
    /\ LET i == Index(w) IN
       IF pg[i] = "none"
       THEN /\ pg' = [pg EXCEPT ![i] = "invalid"]
            /\ ddl' = w
            /\ Then(w, <<On("finish", i)>> \o Tail(todo[w]))
            /\ UNCHANGED ok
       ELSE /\ Then(w, <<On("validate", i)>> \o Tail(todo[w]))
            /\ ok' = [ok EXCEPT ![w] = TRUE]
            /\ UNCHANGED <<pg, ddl>>
    /\ UNCHANGED <<system, schema, granted, cid, locked, server, arg, bounds, ghosts>>

\* The build ends: the index is valid, or an invalid one is left behind.
FinishIndex(w) ==
    /\ At(w, "finish")
    /\ ddl' = Nobody
    /\ Then(w, <<On("validate", Index(w))>> \o Tail(todo[w]))
    /\ \/ /\ pg' = [pg EXCEPT ![Index(w)] = "valid"]
          /\ ok' = [ok EXCEPT ![w] = TRUE]
          /\ UNCHANGED faults
       \/ /\ MayFail
          /\ ok' = [ok EXCEPT ![w] = FALSE]
          /\ UNCHANGED pg
    /\ UNCHANGED <<system, schema, granted, cid, locked, server, arg, calls, ticks, ghosts>>

\* CREATE itself is refused (deadlock, lost connection) and changes nothing.
CreateRefused(w) ==
    /\ At(w, "create")
    /\ MayFail
    /\ ok' = [ok EXCEPT ![w] = FALSE]
    /\ Then(w, <<On("validate", Index(w))>> \o Tail(todo[w]))
    /\ UNCHANGED <<system, customer, server, arg, calls, ticks, ghosts>>

\* Mutant: the answer of CREATE is trusted.
BuildSucceededUnchecked(created, valid) == created

\* build_succeeded, index_build_succeeded.
BuildSucceeded(created, valid) == created /\ valid

\* The indisvalid re-check; after a failure the name is freed.
Validate(w) ==
    /\ At(w, "validate")
    /\ LET i == Index(w) IN
       IF BuildSucceeded(ok[w], pg[i] = "valid")
       THEN Next1(w) /\ ok' = [ok EXCEPT ![w] = TRUE]
       ELSE /\ Then(w, <<On("drop", i)>> \o Tail(todo[w]))
            /\ ok' = [ok EXCEPT ![w] = FALSE]
    /\ UNCHANGED <<system, customer, server, arg, bounds, ghosts>>

\* After a failed build of a collection-group index migrate returns the
\* error; a composite build goes on to write 'failed', a delete goes on.
AfterDrop(w) == Then(w, IF Index(w) \in Ids THEN Tail(todo[w]) ELSE <<>>)

\* DROP INDEX CONCURRENTLY IF EXISTS.
DropIndex(w) ==
    /\ At(w, "drop")
    /\ \/ /\ ddl = Nobody
          /\ pg' = [pg EXCEPT ![Index(w)] = "none"]
          /\ AfterDrop(w)
          /\ UNCHANGED <<ok, faults>>
       \/ /\ MayFail
          /\ AfterDrop(w)
          /\ UNCHANGED <<pg, ok>>
    /\ UNCHANGED <<system, schema, granted, cid, ddl, locked, server, arg, calls, ticks, ghosts>>

------------------------------------------------------------------------------
(* Documents, the backfill and collection-group queries *)

\* An INSERT: the trigger of migration 6 sets collection_id.
CreateDocument(w, d) ==
    /\ Call(w)
    /\ project # Absent
    /\ schema >= 1
    /\ cid[d] = "none"
    /\ cid' = [cid EXCEPT ![d] = IF schema = Current THEN "set" ELSE "null"]
    /\ UNCHANGED <<system, schema, granted, pg, ddl, locked, server, control, ghosts>>

\* Rows a batch can take: FOR UPDATE SKIP LOCKED.
Fillable == {d \in Docs : cid[d] = "null"} \ UNION {locked[v] : v \in Workers}

\* backfill_collection_id: one batch's UPDATE, in its own transaction; a
\* batch of no rows ends the run, also when it skipped rows others hold.
BackfillBatch(w) ==
    /\ At(w, "backfill")
    /\ locked[w] = {}
    /\ IF Fillable = {}
       THEN /\ Next1(w)
            /\ filled' = (filled \/ \A d \in Docs : cid[d] # "null")
            /\ UNCHANGED locked
       ELSE /\ \E b \in SUBSET Fillable :
                  /\ Cardinality(b) = IF Cardinality(Fillable) < BatchSize
                                      THEN Cardinality(Fillable) ELSE BatchSize
                  /\ locked' = [locked EXCEPT ![w] = b]
            /\ UNCHANGED <<todo, filled>>
    /\ UNCHANGED <<system, schema, granted, cid, pg, ddl, server, arg, ok, bounds, answered, wrong, disturbed, orphaned, drawn>>

BackfillCommit(w) ==
    /\ At(w, "backfill")
    /\ locked[w] # {}
    /\ cid' = [d \in Docs |-> IF d \in locked[w] THEN "set" ELSE cid[d]]
    /\ locked' = [locked EXCEPT ![w] = {}]
    /\ UNCHANGED <<system, schema, granted, pg, ddl, server, control, bounds, ghosts>>

\* schema_capability: Available is kept for good, Unavailable until its TTL
\* ends (at any time), and a failed probe counts as Unavailable.
SchemaCapability(w) ==
    /\ Call(w)
    /\ project # Absent
    /\ schema >= 1
    /\ capability' \in
         IF capability = "available" THEN {"available"}
         ELSE {"unavailable"} \union (IF schema = Current THEN {"available"} ELSE {})
    /\ Then(w, <<On("query", capability')>>)
    /\ UNCHANGED <<system, customer, fallback, signin, arg, ok, ghosts>>

\* collection_path = id OR collection_path LIKE '%/id': the id is not escaped,
\* so its '_' and '%' match other paths, and its '\' makes it miss its own.
PathMatches(d) == d \in (Group \ Unlike) \union Alike

\* Mutant: a row without a collection_id is not looked at.
GroupPredicateIndexed(available) ==
    {d \in Docs : \/ available /\ cid[d] = "set" /\ d \in Group
                  \/ ~available /\ cid[d] # "none" /\ PathMatches(d)}

\* push_all_descendants_predicate: collection_id where the column and its value
\* are there, the path where they are not.
GroupPredicate(available) ==
    {d \in Docs : \/ available /\ cid[d] = "set" /\ d \in Group
                  \/ available /\ cid[d] = "null" /\ PathMatches(d)
                  \/ ~available /\ cid[d] # "none" /\ PathMatches(d)}

\* What a group query may miss or return beside the group: nothing once a
\* backfill has found no row to fill and the query uses the column, before that
\* what the path pattern misses or takes for the group.
Excused(available) == IF available /\ filled THEN {} ELSE Unlike \union Alike

\* run_query on a collection group, with the predicate chosen before.
GroupQuery(w) ==
    /\ At(w, "query")
    /\ LET got  == GroupPredicate(Index(w) = "available")
           want == {d \in Group : cid[d] # "none"}
       IN wrong' = wrong \union
                     (((want \ got) \union (got \ want)) \ Excused(Index(w) = "available"))
    /\ Stop(w)
    /\ UNCHANGED <<system, customer, server, arg, ok, bounds, answered, filled, disturbed, orphaned, drawn>>

------------------------------------------------------------------------------
(* Composite indexes *)

\* patch_project storing the customer DSN under the server's own key.
PatchProject(w) ==
    /\ Call(w)
    /\ project # Absent
    /\ ~project.dsn
    /\ project' = [project EXCEPT !.dsn = TRUE]
    /\ UNCHANGED <<bucket, row, usedIds, customer, server, control, ghosts>>

Building(i) ==
    \E w \in Workers : \E n \in 1 .. Len(todo[w]) : todo[w][n] = On("status", i)

\* create_composite_index: a new row, a failed one again, or the one there
\* is; a row that is 'building' gets a background build, also when another
\* build of it is under way.
CreateCompositeIndex(w) ==
    /\ Call(w)
    /\ project # Absent
    /\ \E i \in IF row = Absent THEN Ids \ usedIds ELSE {row.id} :
          /\ usedIds' = usedIds \union {i}
          /\ row' = [id |-> i,
                     status |-> IF row # Absent /\ row.status = "ready"
                                THEN "ready" ELSE "building"]
          /\ Then(w, IF row'.status = "building"
                     THEN <<On("resolve", i), On("status", i)>> ELSE <<>>)
          /\ disturbed' = IF Building(i) THEN disturbed \union {i} ELSE disturbed
    /\ ok' = [ok EXCEPT ![w] = FALSE]
    /\ UNCHANGED <<project, bucket, customer, server, arg, answered, wrong, filled, orphaned, drawn>>

\* resolve_dsn_without_api_key and connect.
Reachable == project.mode = "secret" \/ (project.mode = "direct_pg" /\ project.dsn)

\* run_build up to the CREATE; without a DSN or a connection it is 'failed'.
ResolveDsn(w) ==
    /\ At(w, "resolve")
    /\ LET i == Index(w) IN
       \/ /\ Reachable /\ schema >= 1
          /\ Then(w, <<On("create", i)>> \o Tail(todo[w]))
          /\ UNCHANGED faults
       \/ /\ ~(Reachable /\ schema >= 1)
          /\ Next1(w)
          /\ UNCHANGED faults
       \/ MayFail /\ Next1(w)
    /\ UNCHANGED <<system, customer, server, arg, ok, calls, ticks, ghosts>>

\* update_composite_index_status: by id, so nothing once the row is gone.
WriteStatus(w) ==
    /\ At(w, "status")
    /\ row' = IF row # Absent /\ row.id = Index(w)
              THEN [row EXCEPT !.status = IF ok[w] THEN "ready" ELSE "failed"]
              ELSE row
    /\ Next1(w)
    /\ UNCHANGED <<project, bucket, usedIds, customer, server, arg, ok, bounds, ghosts>>

\* delete_composite_index: reads the status, then drops the real index.
\* ok[w] says whether the delete may go on when the drop fails.
DeleteCompositeIndex(w) ==
    /\ Call(w)
    /\ project # Absent
    /\ row # Absent
    /\ ok' = [ok EXCEPT ![w] = row.status # "ready"]
    /\ disturbed' = disturbed \union {row.id}
    /\ Then(w, <<On("dropReal", row.id), On("delete", row.id)>>)
    /\ UNCHANGED <<system, customer, server, arg, answered, wrong, filled, orphaned, drawn>>

\* drop_real_index: a failure stops the delete of a ready index.
DropRealIndex(w) ==
    /\ At(w, "dropReal")
    /\ \/ /\ Reachable /\ ddl = Nobody
          /\ pg' = [pg EXCEPT ![Index(w)] = "none"]
          /\ Next1(w)
          /\ UNCHANGED faults
       \/ /\ ~Reachable
          /\ IF ok[w] THEN Next1(w) ELSE Stop(w)
          /\ UNCHANGED <<pg, faults>>
       \/ /\ MayFail
          /\ IF ok[w] THEN Next1(w) ELSE Stop(w)
          /\ UNCHANGED pg
    /\ UNCHANGED <<system, schema, granted, cid, ddl, locked, server, arg, ok, calls, ticks, ghosts>>

DeleteRow(w) ==
    /\ At(w, "delete")
    /\ row' = IF row # Absent /\ row.id = Index(w) THEN Absent ELSE row
    /\ Next1(w)
    /\ UNCHANGED <<project, bucket, usedIds, customer, server, arg, ok, bounds, ghosts>>

------------------------------------------------------------------------------
(* The rate limiter *)

Ledger == {"rate", "signin", "conflict", "failed"} \X (Workers \union {"shared"})

Admit(limiter, b) == drawn' = [drawn EXCEPT ![<<limiter, b>>] = @ + 1]

\* check_pg's atomic UPDATE: one token, if there is one.
RateCheck(w) ==
    /\ Call(w)
    /\ IF bucket # Absent /\ bucket >= 1
       THEN bucket' = bucket - 1 /\ Admit("rate", "shared") /\ UNCHANGED todo
       ELSE Then(w, <<Step("exists")>>) /\ UNCHANGED <<bucket, drawn>>
    /\ UNCHANGED <<project, row, usedIds, customer, server, arg, ok, answered, wrong, filled, disturbed, orphaned>>

\* Mutant: a request that got no token is let in by a default row.
RateExistsUnchecked(w) ==
    /\ At(w, "exists")
    /\ Then(w, <<Step("default")>>)
    /\ UNCHANGED <<system, customer, server, arg, ok, bounds, ghosts>>

\* No row updated: a bucket there is makes it a 429, none a default row.
RateExists(w) ==
    /\ At(w, "exists")
    /\ Then(w, IF bucket = Absent THEN <<Step("default")>> ELSE <<>>)
    /\ UNCHANGED <<system, customer, server, arg, ok, bounds, ghosts>>

\* The default row.  ON CONFLICT keeps a row another request has made, the error
\* of a failed INSERT is dropped, and the request is let in whatever it did.
\* (Without a project the foreign key refuses the row, and the request goes on to
\* an authentication that refuses it.)
RateDefault(w) ==
    /\ At(w, "default")
    /\ \/ /\ project # Absent
          /\ IF bucket = Absent
             THEN bucket' = Capacity - 1 /\ Admit("rate", "shared")
             ELSE UNCHANGED bucket /\ Admit("conflict", w)
          /\ UNCHANGED faults
       \/ project = Absent /\ UNCHANGED <<bucket, drawn, faults>>
       \/ project # Absent /\ MayFail /\ Admit("failed", "shared") /\ UNCHANGED bucket
    /\ Stop(w)
    /\ UNCHANGED <<project, row, usedIds, customer, server, arg, ok, calls, ticks, answered, wrong, filled, disturbed, orphaned>>

\* check_in_process.
CheckInProcess(w) ==
    IF fallback[w] >= 1
    THEN fallback' = [fallback EXCEPT ![w] = @ - 1] /\ Admit("rate", w)
    ELSE UNCHANGED <<fallback, drawn>>

\* Any of the statements fails or outlives RATE_LIMIT_PG_TIMEOUT_MS; the
\* abandoned UPDATE may have taken its token.
RateTimeout(w) ==
    /\ \/ /\ Call(w)
          /\ bucket' \in {bucket} \union (IF bucket # Absent /\ bucket >= 1
                                          THEN {bucket - 1} ELSE {})
       \/ /\ At(w, "exists") \/ At(w, "default")
          /\ UNCHANGED <<bucket, bounds>>
    /\ Stop(w)
    /\ CheckInProcess(w)
    /\ UNCHANGED <<project, row, usedIds, customer, capability, signin, arg, ok, answered, wrong, filled, disturbed, orphaned>>

\* signin_rate_limits: one INSERT ... ON CONFLICT DO UPDATE ... WHERE; a row
\* without a token is left alone and the attempt refused.
TakeSignin ==
    IF signin.row = Absent THEN [tokens |-> Capacity - 1, idle |-> 0]
    ELSE IF signin.row.tokens >= 1 THEN [tokens |-> signin.row.tokens - 1, idle |-> 0]
    ELSE signin.row

SigninCheck(w) ==
    /\ Call(w)
    /\ signin' = [signin EXCEPT !.row = TakeSignin]
    /\ IF TakeSignin # signin.row THEN Admit("signin", "shared") ELSE UNCHANGED drawn
    /\ UNCHANGED <<system, customer, capability, fallback, control, answered, wrong, filled, disturbed, orphaned>>

\* The database does not answer in time: the bucket in the process decides, and
\* the abandoned statement may have taken a token.
SigninTimeout(w) ==
    /\ Call(w)
    /\ \E r \in {signin.row, TakeSignin} :
          IF signin.own[w] >= 1
          THEN signin' = [row |-> r, own |-> [signin.own EXCEPT ![w] = @ - 1]] /\ Admit("signin", w)
          ELSE signin' = [signin EXCEPT !.row = r] /\ UNCHANGED drawn
    /\ UNCHANGED <<system, customer, capability, fallback, control, answered, wrong, filled, disturbed, orphaned>>

\* The sweeper deletes a row whose last refill is long ago; under its advisory
\* lock it is one DELETE.
SweepSignin ==
    /\ signin.row # Absent /\ signin.row.idle >= Retention
    /\ signin' = [signin EXCEPT !.row = Absent]
    /\ UNCHANGED <<system, customer, capability, fallback, control, bounds, ghosts>>

Refilled(n) == IF n < Capacity THEN n + 1 ELSE n

\* Time for one token.
Tick ==
    /\ ticks < MaxTicks
    /\ ticks' = ticks + 1
    /\ bucket' = IF bucket = Absent THEN Absent ELSE Refilled(bucket)
    /\ fallback' = [w \in Workers |-> Refilled(fallback[w])]
    /\ signin' = [own |-> [w \in Workers |-> Refilled(signin.own[w])],
                  row |-> IF signin.row = Absent THEN Absent
                          ELSE [tokens |-> Refilled(signin.row.tokens),
                                idle |-> IF signin.row.idle < Retention THEN signin.row.idle + 1
                                         ELSE Retention]]
    /\ UNCHANGED <<project, row, usedIds, customer, capability, control, calls, faults, ghosts>>

------------------------------------------------------------------------------
\* A call ends with an error, or its process dies: the open transaction is
\* rolled back, a half-built index stays, a build's row stays 'building'.
Abort(w) ==
    /\ ~Idle(w)
    /\ MayFail
    /\ Stop(w)
    /\ locked' = [locked EXCEPT ![w] = {}]
    /\ ddl' = IF ddl = w THEN Nobody ELSE ddl
    /\ orphaned' = orphaned \union
         {i \in Ids : \E n \in 1 .. Len(todo[w]) : todo[w][n] = On("status", i)}
    /\ UNCHANGED <<system, schema, granted, cid, pg, server, arg, ok, calls, ticks, answered, wrong, filled, disturbed, drawn>>

\* A database nobody prepared, one from an older release, or a project from
\* before rate_buckets that lives on one.
Init ==
    /\ \E p \in {Absent} \union [key : {0}, mode : {"secret", "direct_pg"}, dsn : {FALSE}],
          v \in 0 .. Current - 1 :
          /\ p # Absent => v >= 1
          /\ project = p
          /\ schema = v
          /\ cid = [d \in Docs |-> IF v >= 1 /\ d \in Old THEN "null" ELSE "none"]
    /\ bucket = Absent
    /\ row = Absent
    /\ usedIds = {}
    /\ granted = FALSE
    /\ pg = [i \in Names |-> "none"]
    /\ ddl = Nobody
    /\ locked = [w \in Workers |-> {}]
    /\ capability = "unknown"
    /\ fallback = [w \in Workers |-> Capacity]
    /\ signin = [row |-> Absent, own |-> [w \in Workers |-> Capacity]]
    /\ todo = [w \in Workers |-> <<>>]
    /\ arg = [w \in Workers |-> NoArg]
    /\ ok = [w \in Workers |-> FALSE]
    /\ calls = 0 /\ faults = 0 /\ ticks = 0
    /\ answered = {} /\ wrong = {} /\ disturbed = {} /\ orphaned = {}
    /\ drawn = [b \in Ledger |-> 0]
    /\ filled = FALSE

Next ==
    \/ \E w \in Workers :
          \/ \E m \in {"agent", "secret", "direct_pg"}, r \in {"owner", "dml"} : Provision(w, m, r)
          \/ VerifySchemaReadiness(w) \/ InsertProject(w) \/ AnswerProvision(w)
          \/ Migrate(w) \/ MigrateFails(w) \/ DbPrep(w) \/ GrantRead(w)
          \/ CreateIndex(w) \/ FinishIndex(w) \/ CreateRefused(w) \/ Validate(w) \/ DropIndex(w)
          \/ BackfillBatch(w) \/ BackfillCommit(w) \/ SchemaCapability(w) \/ GroupQuery(w)
          \/ CreateCompositeIndex(w) \/ ResolveDsn(w) \/ WriteStatus(w)
          \/ DeleteCompositeIndex(w) \/ DropRealIndex(w) \/ DeleteRow(w)
          \/ RateCheck(w) \/ RateExists(w) \/ RateDefault(w) \/ RateTimeout(w)
          \/ SigninCheck(w) \/ SigninTimeout(w)
          \/ \E d \in Docs : CreateDocument(w, d)
          \/ PatchProject(w)
          \/ Abort(w)
    \/ SweepSignin
    \/ Tick

Spec == Init /\ [][Next]_vars

------------------------------------------------------------------------------
(* Properties *)

\* A key that was answered with 201 is the key of the project's row, the
\* project has its rate bucket, and its customer database (unless an agent
\* holds it) has every migration - whatever other provisioning calls,
\* failures and db-prep runs came in between (provision.rs).
KeyOpensProject ==
    \A k \in answered :
       /\ project # Absent
       /\ project.key = k
       /\ bucket # Absent
       /\ project.mode # "agent" => Ready(schema)

\* A collection-group query finds the column it relies on, and it returns the
\* documents of the group and nothing else once a backfill run has ended with no
\* row left to fill - whatever was written, migrated or rolled back by others
\* before and after.  Until then, and for a query that was told there is no
\* column, the only documents it may miss or add are those whose path the LIKE
\* pattern takes wrongly, because the queried name is not escaped in it
\* (push_all_descendants_predicate, schema_capability, backfill_collection_id).
GroupComplete ==
    /\ wrong = {}
    /\ \A w \in Workers : At(w, "query") /\ Index(w) = "available" => Ready(schema)

\* A 'ready' composite index is a valid index of the customer database, and
\* a 'building' one has a build under way, unless the row's build was
\* started twice, its builder died, or it is being deleted
\* (composite_index_builder.rs, composite_indexes.rs).
StatusHonest ==
    row # Absent /\ row.id \notin disturbed =>
       /\ row.status = "ready" => pg[row.id] = "valid"
       /\ row.status = "building" => Building(row.id) \/ row.id \in orphaned

\* The requests admitted for a token of the shared bucket, and those admitted by
\* each server while the database does not answer, never exceed one full bucket
\* and what time has refilled; so do the sign-ins of an address, although its row
\* is swept and made again.  The default row of a project that has none lets in
\* without a token, of each thread, at most the one request that had found no row
\* before another made it, and one request for each INSERT that failed
\* (check_pg, check_in_process, run_cycle of signin_rate_limit_sweeper.rs).
AdmissionBounded ==
    /\ \A l \in {"rate", "signin"}, b \in Workers \union {"shared"} :
          drawn[<<l, b>>] <= Capacity + ticks
    /\ \A w \in Workers : drawn[<<"conflict", w>>] <= 1
    /\ drawn[<<"failed", "shared">>] <= faults
==============================================================================
