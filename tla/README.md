# A verification project for embyr-rs

embyr-rs speaks the Firestore gRPC protocol and stores every project's documents
in a Postgres database of the customer. This directory holds TLA+ models of its
parts, the TLC configurations that check them on small instances, and TLAPS proofs
about them. Paths below are relative to `src/crates/` unless they start with
`docs/`.

## The system: inventory

| Component | State it keeps | Operations | What makes it correct |
|---|---|---|---|
| **Transactions** (`embyr-pg-storage/src/backend_adapter.rs`, `transactions/occ.rs`, `embyr-server/src/sweepers/transaction_sweeper.rs`) | tables `documents` and `transactions` of the customer database | begin, transactional read, Commit, Rollback, standalone create, update and delete, sweep | what a Commit verified is still true when it takes effect; versions are never reused; every Commit returns |
| **Real-time delivery** (`embyr-server/src/realtime/`, `adapters/postgres_notify_listener.rs`) | listener connection, `ListenRegistry`, a subscriber channel and a response channel per stream, resume tokens | notify, fetch, fan out, register, snapshot, event, keepalive, reset, resume | no announced change is lost between row and client; a dropped subscriber is told; a client catches up |
| **Tenancy** (`adapters/credential_cache.rs`, `grpc/handler.rs::authenticate`, `admin/handlers/lifecycle.rs`, `projects.rs`, `webhooks_stripe.rs`, `billing_subscription.rs`, `sweepers/cap_usage_refresher.rs`) | `projects.status`, `subscriptions`, `processed_webhook_events`, a credential cache per instance, an advisory lock | authenticate, suspend, activate, delete, PATCH, Stripe events, plan change, usage cap | suspension and deletion reach the cache; deletion is final; the cap is enforced |
| **Condition language** (`embyr-core/src/access_control/mod.rs`, functions and path variables of `rules_file.rs`) | none: pure | parse, evaluate, discover the documents read, check a query | a condition means what was written; what is missing never helps, except in a negated `in`; an admitted query shows only what the rule allows |
| **Access rules and request gating** (`access_control/path_routing.rs`, `rules_file.rs`, `admin/handlers/access_rules.rs`, `grpc/handler.rs`, `grpc/write_stream.rs`) | rules per collection, for reads, writes and groups, and `access_rule_patterns` | define, import, simulate; get, create, update, delete, list, batchGet, query, aggregate, group query, Commit, BatchWrite, Write stream | a request does only what the governing rule permits, where its handler looks for it; one pattern rules a path; an import stores what the file says |
| **Admin plane** (`admin/handlers/auth.rs`, `members.rs`, `admin_keys.rs`, `service_accounts.rs`, `oidc_providers.rs`, `admin/middleware/`) | users' counters and codes, sessions, members, keys, service accounts, OIDC provider | sign-in, sign-out, role change, removal, creation and revocation of keys | an owner remains unless owners change under a request; nobody below makes one; codes are spent once; the removed stay out |
| **End-user identity** (`rest/`, `client_identity`, `hosted_identity`, `oauth_identity`, `adapters/google_jwks_cache.rs`) | credentials, signing keys, accounts, reset tokens, JWKS cache | enable, register, rotate, sign up, sign in by password, Google or anonymously, reset, verify | handed-out tokens verify until they expire; one user per address; one use per reset token |
| **Agent** (`embyr-agent`, `adapters/agent_backend.rs`) | the customer's documents and open transactions, two tasks and two channels per Subscribe | every adapter operation by RPC, change stream, probe and shutdown | the same contract as the Postgres adapter; nothing announced is forgotten |
| **Onboarding** (`admin/handlers/provision.rs`, `embyr-db-prep`, migrations and backfill of `embyr-pg-storage`, `composite_indexes.rs`, `composite_index_builder.rs`) | the project row, schema version, `collection_id` of documents, capability cache, index rows and real indexes | provision, prepare, migrate, backfill, group query, create, build and delete an index | an answered key works; group queries are right after a backfill, and before it as right as LIKE; statuses tell the truth |
| **Rate limiters** (`middleware/rate_limit.rs`, `signin_rate_limit.rs`, its sweeper) | `rate_buckets` and `signin_rate_limits` rows shared by instances, an in-process bucket per instance | check in Postgres, fall back in process, refill, sweep | at most burst plus refill, per instance during a fallback, beside what a missing row lets in |
| **Queries** (`encoding/query.rs`, `domain/query.rs`) | none | filter, order, cursor, aggregate | the SQL finds what the query says |

How they interact: a request passes `authenticate` (credential cache, else system
database), the rate limiter, the access rules, and then calls a `BackendAdapter`
(Postgres or agent). Standalone writes end with `pg_notify`; one listener task per
project receives, reads the row again and fans the event out to the streams of
that project. Administrative calls, Stripe webhooks and background tasks change
the system database and evict the credential cache of **their own** instance.

Hard behaviours: statements of concurrent SQL transactions under READ COMMITTED,
where only row locks order them; handlers that look up, check and act in separate
statements; a snapshot and a live stream of events that meet in the handler; channels
of bounded capacity with slow consumers; connections that break; clients that come
back with a token; several server instances with a cache each; background tasks that
die half-way. `PROJECT.json` lists them as hazards, each at its line.

## Modules

| Module | Content |
|---|---|
| `OccStore` | the abstract store: a Commit is one validated, atomic step |
| `Transactions` | documents and transactions of one customer database, Commit statement by statement |
| `TransactionsRefinement` | the refinement mapping from `Transactions` to `OccStore` |
| `Listen` | writers, NOTIFY, listener task, registry, stream handlers, clients |
| `Tenancy` | project status, credential caches, Stripe events, plan and usage cap |
| `Conditions` | parser, evaluator, query compliance and discovery of conditions, as operators |
| `RulePatterns` | path patterns, and the decomposition of the blocks of a rules file, as operators |
| `RulesFiles` | reading nested match blocks; apart because it is recursive, and used by the instance only |
| `AccessRules` | composes `RulePatterns` with the rule tables, the admins and the handlers |
| `AdminAuth` | sign-in, sessions, members, keys and service accounts of one account |
| `Identity` | end users of one project and their tokens |
| `Agent` | the server's adapter, the agent's handlers, a Subscribe stream |
| `AgentQueries` | filters and queries through both conversions; apart from `Agent` because they are recursive |
| `Onboarding` | provisioning, preparation, backfill, indexes, rate limiters |
| `MC...` | the instances: values of the constants, and symmetry |
| `TransactionsProofs`, `ListenProofs`, `TenancyProofs`, `AdminAuthProofs`, `IdentityProofs`, `AgentProofs`, `OnboardingProofs`, `AccessRulesProofs` | the theorems about each component, and their proofs |

### Transactions

`doc` is the committed `documents` table, `status`, `aged` and `reads` the columns
of `transactions`; every other variable is a local of a running call or a row
lock. `commit_transaction` loads status, age and read set on a pool connection
(`Load`), opens a SQL transaction, and runs five groups of statements in order:
UpdateTime preconditions, MustExist/MustNotExist preconditions, `verify_reads`,
the locking read of `fields` for transforms, and the apply loop. `Program` is the
set of statements of one call, `IsNext` the order of the code, and each statement
is one action, so statements of different calls interleave freely. Postgres is
modelled from how the code uses it: `SELECT ... AND NOT deleted FOR UPDATE` waits
for and locks a *live* row and touches nothing when there is none
(`ForUpdateWaits`, `ForUpdateLock`); a cycle of waits is ended by failing one
member (`DeadlockDetected`); dropping the transaction rolls it back (`RollBack`).

Abstractions: a row has a version, the live flag and one integer field; the
update time is represented by the version, because every statement that changes
one changes both. The age of a transaction is a flag, set at any time after begin.
Standalone writes that match no row are not actions. The path of a document is its number, in the order
of keys that `verify_reads` iterates in.

`OccStore` has no statements and no locks: its `Commit` checks the reads and
preconditions and changes the documents in one step, and `Fail` changes nothing.
`TransactionsRefinement` maps an open call to a pending one; a Commit takes effect
for `OccStore` when its SQL transaction commits. A delete that found nothing is not
protected, since there was no row to lock: somebody may create the row before the
COMMIT, and in a batch with two deletes of one document even between them, so that
the first does nothing and the second deletes. `OccStore!After` allows exactly that: the
row of a document may be there from any index of the batch on. (An earlier form of it
had all deletes of a batch find the row or none; the attempt to prove the refinement
showed that this is wrong, TLC confirmed it, and the instance now has such a batch.)

### Listen

One project on one server. A change goes from `doc` through `owed` (the writer is
between its statement and `send_notify`), `pgq` (notifications on the listener's
connection), `inhand` (between `fetch_event` and `fan_out`), `queue` (subscriber
channel), `plan` (what the handler has decided to send), `out` (response channel)
to `seen` (what the client holds). `snap` is the part of a snapshot that is not
sent yet. `missed` is a history variable: the documents with a change that no
notification announces (a Commit, a failed `pg_notify`, a broken or absent
listener connection, a failed fetch); it says exactly which losses the code
accepts, and `Accounted` says there is no other. `resumed` is one as well: whether the
stream began with a token, because the delta of a resumed stream leaves out deletes.

Abstractions: a query filter is the set `Matching` of contents, the read rule the
set `Readable`; both channels of a stream have the capacity `Capacity` (64 in the
code); `Faults` selects which failures an instance has. The targets of a stream
are one target, as in the code (one `handle_add_target` per stream). Time is in
ticks; a token is the time plus one second, cut to seconds, as in
`resume_token.rs`.

### Tenancy

One account, its projects and its subscription row, on several instances. A process
is an admin or webhook call, or the refresher loop of an instance; `at` is where it
is, `job` its locals. Every statement and every access to a cache is an action of its
own, because the code awaits in between: `set_project_status` is the statement
(`SetProjectStatus`) and then the eviction on the process's own instance (`Evict`);
`suspend_account_projects` and `activate_account_projects` are a SELECT
(`ListProjects`) and that pair for each project; PATCH is a check and an UPDATE;
`post_subscription` reads the status, calls Stripe, and writes; a refresher cycle
takes the advisory lock, selects, sums, suspends and marks. `authenticate` is the
load of the row (`Load`) and, after the key verification, the insertion of what was
read (`Verify`); a cache hit changes nothing.

`excused` and `waived` are history variables: the cache entries a status change does
not reach by design (another instance, a PATCH without DSN, a request being verified
during the eviction), and the projects made active, or not suspended because of an
error, since they last were suspended. The properties say that there are no others.

Abstractions: an API key per project (the cache is keyed by project and key); usage is
"over a cap or not"; the events concern the account's subscription; Stripe refuses
the change to Free in this version, so a plan change is an upgrade, and the plan is
"pro" exactly when the subscription id is set. Left out: creation of projects and
billing customers, the display cache of the cap status, the revocation of SDK keys
when a project is deleted (authenticate does not read them), and the purge of
projects deleted long ago.

### Conditions

The state is a source typed token by token, as long as the parser does not refuse it, and
what the parser makes of it,
so the run visits every accepted source up to `MaxTokens` and checks each against all
`Contexts` and `Filters`. The brackets that close a source are not counted. The parser is the code's recursive descent, with positions.
The reference is `Meaning`, which splits a source at its operators of lowest
precedence and evaluates in three-valued logic; it shares only the atoms with the
parser. Functions are spliced in as parenthesised bodies before parsing, and a bare
path variable is rewritten, in the templates of `get` and `exists` too, as the importer does
on the text. `FailsClosed` names the one place where a missing value helps: an item of a list
under a negated `in` (`NegatedItemMissing`), since the `In` arm takes a missing item for one
that does not match. Integers have `IntWidth` bits.

### RulePatterns and AccessRules

A path is a sequence of names, a pattern a sequence of literals and wildcards, a
condition here a set of tests (the whole language is in `Conditions`). An admin call
reads, checks and upserts statement by statement, and may fail at each upsert. A file is
the sequence of its blocks with their full paths, which `RulesFiles!ParseMatchBlocks` makes
of the nested text; an import is their decomposition, overlap checks against the stored
patterns (`CheckFixed` for one fixed pattern at a time, `CheckRecursive` for the rest), and
one upsert per rule that is not current already. Every target has two places in `PutsOf`,
because a collection has a read and a write rule; an empty one is skipped (`PutFrom`). A request of any of the twelve kinds goes
through lookup (exact rule, then for document handlers the fixed and the recursive
patterns), fetching of what the condition needs, the check, and the act; queries are
checked by their filter. A caller may be without identity in each kind.
CreateDocument looks up the rule of its `collection_id` alone, as the handler does (`Created`).

`raced` and `overlapped` are history variables. A request is in `raced` from the moment
somebody else changes a thing that it *has read*: the rule or the patterns of a path, the
document, or the document that the rule asks for (`Overtaken`); what changes before it is
read is no excuse. An admin call is in `raced` when another admin changed a rule during it, and
`overlapped` tells whether two imports overlapped. `Unrouted` is the exception of the handlers
that never ask for patterns (Commit, BatchWrite, Write, list, batchGet, queries): a document
that only a pattern rules goes unchecked there. `Governing` is the rule after exact lookup *and*
routing, the same for all handlers, and `Followed`, in the proofs, what a handler goes by.

The simulation works on the segments as written and always splits the last one off, as the
code does (`SimulatedFixed`), and it looks at no stored exact rule; `Unforeseen` names the two
cases in which it is mistaken therefore.

Left out: field transforms in commits, the text of responses, and the fan-out of
ListDocuments over child collections when `collection_id` is empty (the listing of one
collection is modelled).

### AdminAuth

One account. A worker serves a request at a time; `Signin` reads the user's row, then
the code is found, spent or counted, the counters reset, the role read and the session
inserted, each a statement. `Authorized` is the middleware and `check_rbac`, for cookies
and keys; a member change loads, checks and applies. Removal is one SQL transaction that
commits at its end, so a key inserted after its UPDATE survives (`late`). `crossed` and
`stale` are history variables: the users with overlapping sign-ins, and the requests that
loaded the members before somebody else changed who the owners are. Nothing else excuses a
member change: two changes that overlap without touching the owners are not in `stale`.

### Identity

One project. Enabling a source is `INSERT ... ON CONFLICT DO NOTHING` of a fresh key; a
sign-in reads the key and signs with it later. `tokens` holds every token handed out.
The JWKS cache may be stale, fetched by two requests at once, and overwritten by the
older answer. Passwords are compared by identity. A token is its key, audience (the
project), subject, address and expiry, and the source that signed it as a history; `now` is the clock, which `Tick` moves, and `TokenTTL` the
hour. `Attach` accepts a token that the customer's keys or the key of a source verify; a lookup
that fails is like one without a row, so the request goes on without identity.

### Agent

Requests with their conversions on both sides (`DomainWrite`, `AgentPage`, and in
`AgentQueries` `ToAgentFilter`), the agent's life from the startup probe to the end of draining, and a
Subscribe call: the bridge task (LISTEN, RESET when the overflow flag is set,
translation, `try_send`), the filter task, the two channels and the client. A commit is
one step, because `Transactions` has its statements. `told` is the version a NOTIFY has
announced. A transform starts from the field of
the write it is part of, and from what is stored if the write has no such field (`Written`);
the preconditions are part of what a commit must get across. All ten field operators are
there. A collection-group query reaches the agent as a query of the collection at its path
(`all_descendants` is always false): `Unreached` are the documents it cannot find.
Only faults of statements, of the listener and lost answers are modelled;
gRPC itself delivers or fails.

### Onboarding

One project, one customer database. `todo[w]` is the list of statements a worker has
still to send; a call puts a list there and failures cut it short. Migrations, CREATE
INDEX CONCURRENTLY (with the invalid index a failure leaves), SKIP LOCKED batches of
the backfill, the capability that an adapter caches, and the status a build writes at
its end are steps. The limiters have a bucket in the database and one per server; a tick
refills a token. `Group` are the documents of the queried group; the LIKE pattern holds the
queried name unescaped, so that `_` and `%` in it take in others (`Alike`) and a backslash
misses some of the group (`Unlike`). `wrong` are documents that a group query missed or
added without that excuse, and `filled` says that a backfill run ended with no row left to
fill, after which there is no excuse for a query that uses the column. `drawn` counts every
request a limiter let in, by what let it in: a token, an INSERT of the default row that met
the row of another request ("conflict"), or one that failed ("failed"); `check_pg`
answers Ok after the INSERT whatever became of it.

## Runs

| Run | Kind | Properties | What it shows |
|---|---|---|---|
| `transactions` | pass | `TypeOK`, `CommitInv`, `ReadsHoldAtCommit`, `PreconditionsHoldAtCommit`, `LockedFieldsCurrent`, `VersionsIncrease`, `ImplementsOccStore`, `CallsReturn` | Two Commits with opposite lock orders, their transactional reads and standalone writes interleave statement by statement: whatever a Commit verified still holds when it takes effect, the calls act like a store that validates and applies in one step, and every Commit returns. |
| `listen` | pass | `Accounted`, `DroppedMeansReset`, `CatchesUp` | From row to client with every fault the code handles, disconnects and resume tokens: nothing announced is lost between the listener and the client, a dropped subscriber is told, and a served client catches up. |
| `tenancy` | pass | `CacheExplained`, `DeletedIsFinal` | Two instances with a cache each while projects are suspended, activated, deleted and patched: stale cache entries have exactly the listed causes, and no status change that raced a deletion undoes it. |
| `billing` | pass | `CappedMeansSuspended`, `CapEnforced` | Two refreshers, redelivered Stripe events and an upgrade, with a database error or a restart anywhere: an account is marked capped only after its projects are suspended, and the cap is enforced in the end. |
| `conditions` | pass | `ParserMeaning`, `FailsClosed`, `ComplianceSound`, `DiscoveryComplete` | Every source of up to five tokens and the brackets that close it: the parser gives it the meaning precedence says, missing values help in a negated `in` only, an admitted query returns only what the rule allows, and the documents a condition reads are all found beforehand. |
| `rules` | pass | `Unambiguous`, `ActsAsPermitted`, `SimulationForetells`, `ImportedAsWritten` | Two admins import rules files and define rules, with failures in between, while a request of any kind is served: routing stays unambiguous, a request does only what the governing rule permits unless its handler leaves patterns out, an import stores what the file says, and a simulation foretells it. |
| `admin` | pass | `OwnerRemains`, `OnlyOwnersMakeOwners`, `CodeSpentOnce`, `ThreeGuesses`, `RemovedStaysOut` | Sign-ins, member changes, keys and service accounts by two workers at a time: the account keeps an owner, nobody below becomes one, codes are spent once, guesses are counted, and the removed stay out. |
| `identity` | pass | `MintedTokensVerify`, `OneSubjectPerEmail`, `ResetOnce` | End users sign up, sign in and reset passwords while identity sources are enabled, keys rotated and tokens expire: handed-out tokens verify for their hour and no longer, an address has one user, a reset token works once. |
| `agent` | pass | `NothingForgotten`, `ConnectionGivenBack`, `QueriesAsAsked`, `ListsComplete`, `CommitsAsSent` | Requests forwarded to an agent and a Subscribe stream over two bounded channels: a slow client is told with RESET, a departed one is let go, and filters, pages and batches survive the conversions; a group query finds only the collection at its path. |
| `onboarding` | pass | `KeyOpensProject`, `GroupComplete`, `StatusHonest`, `AdmissionBounded` | Provisioning calls, db-prep, migrations, backfill, index builds and both rate limiters interleave with one failure anywhere: an answered key works, group queries are exact once a backfill is through and until then wrong only where LIKE is, statuses tell the truth, and admissions are bounded. |
| `absence` | violation | `AbsenceHoldsAtCommit` | Two Commits that both found a document absent both take effect: FOR UPDATE locks no absent row. |
| `commit_notify` | violation | `SettledMeansCurrent` | A document written by Commit never reaches a Listen client that is past its snapshot. |

Each property of a passing run has a mutant of the code's model that breaks it: the
operators commented "Mutant" next to the definition they change.

Bounds. *Transactions*: two Commits, whose write lists lock two documents in opposite
orders and hold one of each kind of precondition and transform, so that lock cycles
happen; one list deletes the same document twice, which is the least batch in which a
row can appear between two writes to it; `MaxVersion` only bounds standalone writes and `MaxInt = 1` makes the overflow of
an increment reachable. *Listen*:
capacity 1 makes both channels full after one message, so that lag, reset and the blocked
`send` all happen; one document written twice is the least with an overtaken event, and
the clock and disconnects give fresh and stale tokens. *Tenancy*: two projects (a batch
can be half done), two instances (a change made elsewhere, a lock held elsewhere), a cache
of one entry (entries are displaced) and two calls. *Conditions*: five tokens and
closing brackets reach `a && b || c`, `! a == b`, `(a || b)`, `! a in [ b ]` and a call with a
connective, which every precedence question and every use of a missing value needs. *AccessRules*: six files whose patterns contain, equal or
clash with one another, one of them with a fixed pattern of odd length, two imports and one
request of any kind, one failure. With a single request the rules change under it, the documents
do not; that case is covered by the theorem `RequestsPermitted`, and was checked by TLC on an
instance with two requests and one import, which with two imports is too large. *AdminAuth*: two owners
and an admin, three requests by two workers: every exception in the properties needs two
overlapping requests, every other violation fewer. *Identity*: five requests are a sign-up,
a reset and a sign-in with an enabling and a rotation, and the clock passes the expiry of the first token. *Agent*: `ChannelSize` and `PageMax`
are 1, so that every channel overflows and every listing has pages. *Onboarding*: two workers,
three calls, one failure: a migration under a cached capability, a build under a deletion.

Fairness. `Transactions!FairSpec` assumes that Postgres answers a statement that is
not waiting for a lock, that it detects deadlocks, and that the task of a call
runs on; nothing is assumed of clients, the sweeper or standalone writers.
`Listen!FairSpec` assumes that the listener task, the handler tasks and the client
run, and strong fairness for the event and reset arms: `tokio::select!` without
`biased` picks a ready branch at random, so a branch that is ready again and again
is taken. No fairness is assumed of `Keepalive`, of writers beginning a write or of
any fault. `Tenancy!FairSpec` assumes that
the loop of every refresher goes on (a tokio interval) and that its statements are
answered; errors and restarts are bounded by `MaxFaults`, that is, they stop.
The other modules have safety properties only and no fairness.

CHECK_DEADLOCK is off everywhere: the calls and streams of an instance are finitely
many and each ends.

## Proofs

TLAPS checks every theorem below for **all** values of the constants: any number of
documents, calls, workers, instances, sessions and faults, any write lists, any channel
size and page size. `PROJECT.json` lists the theorems with the property each states. Each
proof has the same shape: a type or request invariant first (each process's locals fit the
statement it is at), lemmas that say what the steps of the others leave alone, then for
each property the smallest inductive strengthening we found, with one case per action.

| Theorem | Property | Inductive invariant, and why the property alone is not enough |
|---|---|---|
| `TransactionsProofs!TypeCorrect` | `TypeOK` | itself |
| `CommitInvariant` | `CommitInv` | itself: what a statement found is still true because the row is locked |
| `ReadsHold`, `PreconditionsHold`, `LockedFieldsHold` | `ReadsHoldAtCommit`, `PreconditionsHoldAtCommit`, `LockedFieldsCurrent` | `CommitInv`: they speak of the moment of COMMIT, and nothing in them says why a fact found earlier still holds |
| `VersionsNeverReused` | `VersionsIncrease` | `LockInv`: a call's uncommitted row is newer than the table's |
| `CommitsAreAtomic` | `ImplementsOccStore` | `CommitInv` and `RowsInv`: uncommitted rows are what the applied writes make of the table |
| `ListenProofs!DroppedAreReset` | `DroppedMeansReset` | itself |
| `ChangesAccounted` | `Accounted` | `HandInv` (the event in the listener's hand is current or another is on its way), `StreamInv` (nothing is told before the snapshot), `ChannelInv` (the last event of a document in a channel is what its row says) |
| `TenancyProofs!DeletionIsFinal` | `DeletedIsFinal` | the request invariant |
| `CappedAreSuspended` | `CappedMeansSuspended` | `CapInv`: a refresher in its loop has yet to suspend just the projects of its list |
| `CacheIsExplained` | `CacheExplained` | `CacheInv`: an entry that a request is about to insert is explained as well |
| `AdminAuthProofs!AnOwnerRemains` | `OwnerRemains` | `OwnerInv`: a member change that was checked against owners who are still the owners leaves one of them; the property speaks of the write only, which looks at nothing |
| `OwnersMakeOwners` | `OnlyOwnersMakeOwners` | `NoOwnerInv`: without an act of an owner no request under way carries the role Owner or touches an owner |
| `OneSigninPerCode`, `NoFourthGuess` | `CodeSpentOnce`, `ThreeGuesses` | `GuessInv`: the count a sign-in read is the count in the row, unless sign-ins crossed |
| `RemovedAreOut` | `RemovedStaysOut` | `GoneInv`: what a removal under way has still to revoke, it has seen |
| `IdentityProofs!TokensVerify` | `MintedTokensVerify` | `KeyInv` (a request that will sign holds a stored key, and the key of every token is stored) and `FreshInv` (no two sources have one key, so no other source accepts the token) |
| `OneUserPerAddress` | `OneSubjectPerEmail` | `SubjectInv`: tokens and requests about to mint name the user of the row |
| `ResetsOnce` | `ResetOnce` | `ResetInv`: no two requests are past consuming the same token |
| `AgentProofs!CommitsSurviveTheWire` | `CommitsAsSent` | none: the round trip of every write with its precondition and transforms (`TransformsRoundTrip`, `RoundTrip`, `BatchRoundTrip`) |
| `ConnectionsComeBack` | `ConnectionGivenBack` | `BridgeInv`: where the bridge can be after each late notification |
| `ListingsAreComplete` | `ListsComplete` | `ListInv`: the pages so far are a prefix of the window, and the token is where they end |
| `NothingIsForgotten` | `NothingForgotten` | `KeptInv`: the newest word on a document is in the hand of a task, in a channel, or replaced by an overflow flag or a RESET behind which nothing older can arrive |
| `OnboardingProofs!AnsweredKeysOpen` | `KeyOpensProject` | `ProvisionInv`: what a worker must have done, or still has before it, when it answers |
| `GroupsComplete` | `GroupComplete` | `FillInv`: after a complete backfill no row is without its column again, because the schema that fills it is never undone; with `ProvisionInv` for the column a query relies on, and `PredicateRight` for what each predicate finds |
| `StatusIsHonest` | `StatusHonest` | `BuildInv`: an undisturbed build has its index to itself |
| `AdmissionIsBounded` | `AdmissionBounded` | `RateInv`: tokens drawn plus tokens left stay within capacity and ticks, a swept row was full; `ProvisionInv`: a thread that has met another's default row finds a bucket from then on; `FailedInv` counts the failed INSERTs |
| `AccessRulesProofs!TypesHold` | `TypeOK` of that module | itself: every stored pattern is what `decompose_block` made of an accepted block, and each call and request has the locals of the place it is at |
| `SimulationRight` | `SimulationForetells` | `TypeOK`: the simulation's three comparisons, on the segments as written (`AsStored`), against routing with the stored exact rules, for blocks of any length; the two cases of `Unforeseen` are excepted |
| `ImportsStoreTheirFile` | `ImportedAsWritten` | `KeptSoFar`: every row an import is done with is stored, or a later row of it has its key; the property speaks of the last step only |
| `RoutingUnambiguous` | `Unambiguous` | `KeptApart`: stored patterns are pairwise disjoint, those an import has compared are apart from the stored ones, and once it writes all of its patterns are apart from all rows; a single path does not tell why the next import cannot bring a clash |
| `RequestsPermitted` | `ActsAsPermitted` | `Trusted`: what a request that was not overtaken has looked up, fetched or cached is still so (`NotOvertaken`), and what it has granted is allowed on the present documents; the property speaks of the last step, which looks nothing up |

`CommitInv` per call: row locks are held by open calls only, a call's uncommitted rows are
locked by it and have a higher version than the table (`LockInv`), and every statement that
is no longer in `todo` has left its fact behind *together with the lock* that keeps it true
(`ReadInv`, `PreInv`, `FieldsInv`). Every step of another call or of a standalone writer
needs the lock of the row it changes, so it cannot disturb a pinned row. The fact about a
row found *absent* has no such part, because there is no row to lock: the run `absence`
shows that it is really not preserved.

The refinement. A call's phase maps to pending, and only `CommitTransaction` and the
standalone writes change the abstract rows. The step that needs work is the commit: its
validation is `CommitInv`, and its effect is `RowsInv`, per open call and document: the
writes are applied in order, a document that is not in `buf` has had no effective write,
and one that is holds the version of the table plus the number of effective writes, with
the live flag of the last one. Which deletes were effective is a choice (the index `from`
at which the row was there), made when the first one takes effect, and kept: the row is
locked from then on (`ProgressSkip`, `ProgressWrite`, `ProgressFrame`).

The access rules. `Unambiguous` rests on facts about patterns alone: two patterns that take
in one common path are compatible at every position of the shorter (`Compatible`), so that
`classify_prefix_relation` and `structurally_overlap` see the clash, unless one lies
within the other (`Covers`), where routing prefers the deeper one. Two things need care.
`BySkeleton` hands `CheckFixed` only the rows whose literal skeleton is that of the new
pattern, and the rows it leaves out cannot clash, because literals stand at the same
places in every accepted pattern of a length (`ApartBySkeleton`). And an upsert
replaces the row of the same text, which was apart from the others already. `Trusted` goes
through a request place by place: the rule found by the exact lookup, by the fixed or by
the recursive patterns is the governing one (`PermittedAs`: for a handler without routing unless
the path is `Unrouted`), the bindings are those of the row, the
`rule_cache` of a batchGet agrees with the table, and the documents seen are the stored
ones. Some handlers evaluate a condition without values that `Permitted` has (delete,
Commit, BatchWrite and the Write stream do not read the documents a condition refers to, list
and batchGet pass no value for the path variable); a condition that holds without them
holds with them (`EvaluateMore`).

Assumptions: the named ASSUMEs of the modules, and nothing else. They say what the types
of the code say (documents are numbered or finite, batches are lists of writes, "nobody" and
"absent" are not values), that users and service accounts have different ids, that the
schema has at least two migrations, that a document path is a sequence of names of even
length and a rules file a sequence of parsed blocks, and `BucketAssumption`: a bucket holds at least one
token and an idle sign-in row is swept only after the time in which it fills. The
configuration allows a bucket smaller than one token (`EMBYR_RATE_LIMIT_RPS` below 1), for which
nothing is claimed.

Only model-checked:
- liveness (`CallsReturn`, `CatchesUp`, `CapEnforced`), which is out of the prover's reach;
- `ParserMeaning`, `FailsClosed`, `ComplianceSound` and `DiscoveryComplete` of `Conditions`, and
  `QueriesAsAsked` of `AgentQueries`: they say what a recursion (a parser, an evaluator, nested
  filters) computes for every input, and that needs an induction over data which the provers
  cannot instantiate. For the same reason the theorems about `AccessRules` begin with the blocks
  of a file, and reading nested blocks (`RulesFiles`) is exercised by the run `rules` only.

## Disagreements between code and documentation

Each violation run checks one sentence of the repository's own documentation or
comments, quoted in `PROJECT.json` under findings, and TLC's counterexample shows
what the code does instead.

Also noticed while reading and modelling, without a run of their own. The properties that pass say how far
these go: where one is a reachable state of a model, it is a named exception there.

Transactions and storage
- a document read twice is validated against its second read only (`occ.rs:88`);
- Rollback while a Commit of the same transaction is past its load does not stop it,
  and a second Commit that loaded in time applies as well;
- two transforms of one document in one Commit both start from the persisted fields;
- writes without operation are dropped from the results of Commit; deleting a missing
  document answers NotFound; `create_document` after a soft delete answers AlreadyExists;
  `delete_document` ignores the precondition; transactional queries do not record what
  they read; rolled-back rows are never purged.

Listen
- live events are checked against collection and read rule but not against the
  query filter (docs/SPEC.md:1003);
- RESET ends the handler but not the response stream, which ends when the client
  half-closes (`realtime/listen_handler.rs:481-484`);
- a resume token is a second ahead of the snapshot it stands for, and the delta of a
  resumed stream leaves out deletes (`backend_adapter.rs:900`, docs/SPEC.md:989-992);
- a failed `fetch_event` is delivered as a removal; notifications in the gap of a
  reconnect are lost and no RESET is sent.

Tenancy and billing
- PATCH checks the status and writes it in separate statements, and can revive a deleted
  project (`projects.rs:167`; docs/product/architecture/brief.md:570 calls Deleted
  terminal); a PATCH of the status evicts no cache;
- a request verified while its project is suspended inserts its entry after the
  eviction, and other instances are never told;
- the refresher may suspend the projects of an account that was upgraded after its SELECT
  (`cap_usage_refresher.rs:105`); an error while a project is suspended is never made good;
- a Stripe event is claimed before it is dispatched: if the dispatch fails, the
  redelivery is a no-op and the effect is lost;
- the rate limiter's timeout is 60 ms, the documents say 20 ms.

Access rules
- a path variable named `uid` also rewrites the end of `request.auth.uid`; `in` with a
  missing item is false (`mod.rs:1311-1322`), so `! request.auth.uid in [ resource.data.owner ]`
  allows when `owner` is missing, although the comment on `evaluate` (`mod.rs:1221-1235`) says that a
  missing field denies the whole evaluation; integer arithmetic wraps or panics although `evaluate` is called
  total; `&&` is not commutative when an operand is missing;
- Commit, BatchWrite and Write look up exact rules only (`grpc/handler.rs:919-926`): a document that
  only a stored pattern rules is written unchecked, while the comment at `grpc/handler.rs:894-899`
  and docs/evolution/2026-09-04-security-rules-cel-recursive-wildcards.md:75-77 and 141-142
  say that the same five-step routing applies there (`Unrouted` of `ActsAsPermitted`). List,
  batchGet and queries look up exact rules only too, which that document leaves out of its scope;
- CreateDocument looks up its rule by `collection_id` and ignores the parent's path
  (`grpc/handler.rs:1617-1621`);
- the simulation splits the last segment off every pattern (`access_rules.rs:1179`): a fixed pattern
  of odd length, which can be imported and routes, is answered with `no_matching_pattern`; it
  ignores stored exact rules, though its comments (`access_rules.rs:1265-1274`, 1321-1324) say
  that it composes as routing does (`Unforeseen` of `SimulationForetells`);
- the scan of recursive patterns
  has no ORDER BY; the simulation passes no path variable for stored patterns;
- an import is a series of upserts, partial after an error, and two imports at once check
  before either has stored.

Admin plane and identity
- invitations carry any role and nothing accepts them; `oidc_callback` asks for the role
  `owner` while `Owner` is stored; creating a key does not check that the member exists,
  and one inserted between a removal's revocation and its commit survives;
- lookup and marking of a recovery code, the TOTP counter, and member changes are
  read-check-write without a lock. Two owners who demote or remove each other at the same time
  leave none (`members.rs:298`, 364), although
  docs/scenarios/admin-api-v2/slice-B05-members-service-accounts-admin-keys.md:17-18 and 38 say
  409 "even under concurrent requests" (`stale` of `OwnerRemains`); `sdk_api_keys` is not consulted by `authenticate`;
- a reset token is consumed before the new password's strength is checked; the seed of
  hosted identity is encrypted under the API key, so a sign-up with a previous key inserts
  the account and then fails; overlapping JWKS fetches can store the older set.

Agent
- reads are not recorded, so there are no conflicts through the agent; `run_query` drops
  order, limit and cursor; it sends `all_descendants: false` always (`agent_backend.rs:500-502`), so
  a collection-group query is answered from the collection at its path, without refusal and
  without the rest, where docs/feature/embyr-agent/slices/slice-03a-query-operations.md:3 and 53
  promise query parity (`Unreached` of `QueriesAsAsked`); every error except NotFound on get becomes BackendUnavailable;
- a transform starts from the write's own field (`backend_adapter.rs:1515-1523`), where the comment
  at 1452-1457 says "never the write's own fields map";
- RESET is sent only with the next notification; the connection of a departed client is
  held until then; a failed query in `translate_payload` emits DELETE; a masked update is
  read-modify-write; `shutdown_timeout_secs` (`embyr-agent/src/config.rs:26`) is not used.

Onboarding
- direct mode commits the project row before it migrates: after a failed migration the
  key is never returned and a retry answers 409;
- LIKE is unescaped, so `_` and `%` in a name match more, and a backslash in one makes the pattern miss
  documents of its own group (`query.rs:410`, 416), until the backfill is through;
- `check_pg` lets a request in when the INSERT of its default row meets another's row or fails
  (`rate_limit.rs:298-315`), without taking a token;
- re-POSTing an index that is
  building spawns a second build; a crash leaves `building` for good; a backfill that sees
  only locked rows ends early; an UPDATE abandoned after the timeout may take a token.

## State of the project

Modelled and checked: `Transactions` with `OccStore`, `Listen`, `Tenancy`, `Conditions`,
`RulePatterns` and `AccessRules`, `AdminAuth`, `Identity`, `Agent`, `Onboarding`.

Proved: every safety property that a run checks of `Transactions`, `Listen`, `Tenancy`,
`AccessRules`, `AdminAuth`, `Identity`, `Agent` and `Onboarding`, and the refinement of
`OccStore`; not proved are the properties listed above as only model-checked.

Worth adding when the code around them changes: order and cursors of queries, the
remaining field transforms, and the purge of deleted rows.

## Not modelled

Protocol buffers and encodings, cryptography, SQL text generation (order, cursors and
aggregates are the text of one statement), configuration, logging and metrics, the query
log, the purge of long-deleted projects, the secret fetchers, the framing of the browser
channel, and the browser user interface: they keep no shared state that a property could
be about, or are library calls. `PROJECT.json` gives the reason for each.
