------------------------------ MODULE Tenancy -------------------------------
(***************************************************************************)
(* The life cycle of one account's projects, on several server instances   *)
(* that share the system database: authenticate and the credential cache   *)
(* of every instance, the operator's suspend, activate and delete, PATCH   *)
(* of a project, Stripe's webhook events, the upgrade to Pro, and the      *)
(* CapUsageRefresher loop of every instance.                               *)
(*                                                                         *)
(* A process is an admin or webhook call, or the refresher of an instance  *)
(* (the process named like the instance).  Every await is a point where    *)
(* others run: each statement, and each access to a cache, is one action.  *)
(*                                                                         *)
(* The status of a project is a free string of which PATCH refuses only    *)
(* "deleted"; Other stands for all that no code tests for.  The Stripe     *)
(* subscription id of the account is set by the statement that sets the    *)
(* plan to Pro, and nothing sets the plan back: events match the account   *)
(* just when the plan is "pro".                                            *)
(***************************************************************************)
EXTENDS Naturals, FiniteSets

CONSTANTS
  Projects,    \* the projects of the account
  Instances,   \* server instances
  Requests,    \* SDK requests under way
  Calls,       \* admin and webhook calls; each is made once
  Events,      \* Stripe events, a subset of EventTypes; each may come again
  Nothing,     \* no project, no instance
  CacheSize,   \* capacity of a credential cache, in projects
  Offered,     \* which kinds of calls are made
  Faults,      \* which of the things in FaultKinds happen
  MaxFaults    \* how many errors and restarts there are (a bound)

EventTypes == {"failed", "succeeded", "updated", "canceled"}
CallKinds == {"operator", "delete", "patch", "upgrade"}

\* An error of the system database, the restart of an instance, and usage that
\* reaches the cap.  Errors and restarts stop after a while.
FaultKinds == {"db", "restart", "usage"}

ASSUME ProcsAssumption == Calls \cap Instances = {}
ASSUME NothingAssumption == Nothing \notin Projects \cup Instances
ASSUME BoundsAssumption == CacheSize \in Nat \ {0} /\ MaxFaults \in Nat
ASSUME OfferedAssumption ==
  Events \subseteq EventTypes /\ Offered \subseteq CallKinds /\ Faults \subseteq FaultKinds

VARIABLES
  status,    \* projects.status
  plan,      \* subscriptions.plan
  billing,   \* subscriptions.status
  over,      \* this month's usage has reached a cap of the Free plan
  processed, \* processed_webhook_events
  cache,     \* per instance: the projects in its credential cache
  req,       \* per request: what authenticate is verifying, between load and insert
  at,        \* per process: where it is
  job,       \* per process: its locals
  faults,    \* how many errors and restarts there have been
  guard,     \* who holds the advisory lock of the refreshers
  excused,   \* history: instances whose cache a status change does not reach
  waived     \* history: projects made active, or not suspended, since they last were

procVars == <<at, job>>
billVars == <<plan, billing, over, processed, faults>>
vars == <<status, plan, billing, over, processed, cache, req, at, job, faults, guard,
          excused, waived>>

Procs == Calls \cup Instances

Other == "other"
ProjectStatus == {"active", "suspended", "deleted", Other}
Keep == "keep"
PatchStatus == (ProjectStatus \ {"deleted"}) \cup {Keep}
BillingStatus == {"active", "past_due", "free_cap_exceeded", "canceled"}

\* authenticate refuses suspended and deleted projects only.
Servable(s) == s \notin {"suspended", "deleted"}

\* A request that authenticate is not verifying.
NoRequest == [inst |-> Nothing, proj |-> Nothing]

NoJob == [kind |-> "none", inst |-> Nothing, proj |-> Nothing, goal |-> "none",
          saw |-> "none", todo |-> {}, evict |-> Nothing]

\* The instance that process p runs on.
Where(p) == IF p \in Instances THEN p ELSE job[p].inst

-----------------------------------------------------------------------------
Init ==
  /\ status = [j \in Projects |-> "active"]
  /\ plan \in {"free", "pro"}
  /\ billing = "active"
  /\ over = FALSE
  /\ processed = {}
  /\ cache = [i \in Instances |-> {}]
  /\ req = [r \in Requests |-> NoRequest]
  /\ at = [p \in Procs |-> "idle"]
  /\ job = [p \in Procs |-> NoJob]
  /\ faults = 0
  /\ guard = Nothing
  /\ excused = {}
  /\ waived = {}

-----------------------------------------------------------------------------
(* authenticate                                                            *)

\* A cache hit grants the request without a look at the system database and
\* changes nothing: no entry is inserted with a status that it would refuse.
\* After a miss the row is loaded; a suspended or deleted project is refused,
\* which changes nothing either, and any other goes on to be verified.
Load(r, i, j) ==
  /\ req[r] = NoRequest
  /\ j \notin cache[i]
  /\ Servable(status[j])
  /\ req' = [req EXCEPT ![r] = [inst |-> i, proj |-> j]]
  /\ UNCHANGED <<status, billVars, cache, procVars, guard, excused, waived>>

\* What a cache holding S may hold after inserting j: the least recently used
\* entry makes room.
AfterInsert(S, j) ==
  IF j \in S \/ Cardinality(S) < CacheSize
  THEN {S \cup {j}} ELSE {(S \ {k}) \cup {j} : k \in S}

\* The key is verified and the adapter built; the entry is inserted with the
\* status that Load saw.
Verify(r) ==
  LET i == req[r].inst
      j == req[r].proj IN
  /\ req[r] # NoRequest
  /\ \E S \in AfterInsert(cache[i], j) : cache' = [cache EXCEPT ![i] = S]
  /\ req' = [req EXCEPT ![r] = NoRequest]
  /\ UNCHANGED <<status, billVars, procVars, guard, excused, waived>>

\* A wrong key, or a backend that cannot be reached.
Reject(r) ==
  /\ req[r] # NoRequest
  /\ req' = [req EXCEPT ![r] = NoRequest]
  /\ UNCHANGED <<status, billVars, cache, procVars, guard, excused, waived>>

-----------------------------------------------------------------------------
(* Changes of a project's status                                           *)

\* Process p ends; a refresher goes on to give its lock back.
Finish(p) ==
  /\ at' = [at EXCEPT ![p] = IF p \in Instances THEN "unlock" ELSE "done"]
  /\ job' = [job EXCEPT ![p] = NoJob]

\* Call c starts at place a, with locals l.
Start(c, a, l) ==
  /\ at[c] = "idle"
  /\ at' = [at EXCEPT ![c] = a]
  /\ job' = [job EXCEPT ![c] = l]

\* The status of j becomes s.  History: the change is announced at instances I
\* only, and j becomes active or stops being so.
SetStatus(j, s, I) ==
  /\ status' = [status EXCEPT ![j] = s]
  /\ excused' = IF Servable(status[j]) /\ ~Servable(s)
                THEN excused \cup ((Instances \ I) \X {j}) ELSE excused
  /\ waived' = IF s # "active" THEN waived \ {j}
               ELSE IF status[j] = "active" THEN waived ELSE waived \cup {j}

\* suspend_project, activate_project: set_project_status for one project.
OperatorStatus(c, i, j, s) ==
  /\ "operator" \in Offered
  /\ Start(c, "loop", [NoJob EXCEPT !.kind = "operator", !.inst = i, !.goal = s, !.todo = {j}])
  /\ UNCHANGED <<status, billVars, cache, req, guard, excused, waived>>

\* Mutant of SetProjectStatus: the statement has no condition on the status.
SetProjectStatusUnguarded(p, j) ==
  LET s == job[p].goal IN
  /\ at[p] = "loop"
  /\ job[p].evict = Nothing
  /\ SetStatus(j, s, {Where(p)})
  /\ job' = [job EXCEPT ![p].todo = @ \ {j}, ![p].evict = j]
  /\ UNCHANGED <<billVars, cache, req, at, guard>>

\* Mutant of SetProjectStatus: nothing is evicted.
SetProjectStatusCached(p, j) ==
  LET s == job[p].goal IN
  /\ at[p] = "loop"
  /\ job[p].evict = Nothing
  /\ job' = [job EXCEPT ![p].todo = @ \ {j}]
  /\ IF status[j] \in {"active", "suspended"}
     THEN SetStatus(j, s, {Where(p)})
     ELSE UNCHANGED <<status, excused, waived>>
  /\ UNCHANGED <<billVars, cache, req, at, guard>>

\* set_project_status, its statement: a project that is neither active nor
\* suspended is left alone.  The eviction follows.
SetProjectStatus(p, j) ==
  LET s == job[p].goal IN
  /\ at[p] = "loop"
  /\ job[p].evict = Nothing
  /\ IF status[j] \in {"active", "suspended"}
     THEN /\ SetStatus(j, s, {Where(p)})
          /\ job' = [job EXCEPT ![p].todo = @ \ {j}, ![p].evict = j]
     ELSE /\ job' = [job EXCEPT ![p].todo = @ \ {j}]
          /\ UNCHANGED <<status, excused, waived>>
  /\ UNCHANGED <<billVars, cache, req, at, guard>>

\* An error or a restart, as long as there are any.
Fault(kind) == kind \in Faults /\ faults < MaxFaults /\ faults' = faults + 1

\* The statement fails: the loop goes on with the next project.
SetStatusFails(p, j) ==
  /\ Fault("db")
  /\ at[p] = "loop"
  /\ job[p].evict = Nothing
  /\ job' = [job EXCEPT ![p].todo = @ \ {j}]
  /\ waived' = waived \cup {j}
  /\ UNCHANGED <<status, plan, billing, over, processed, cache, req, at, guard, excused>>

\* A request for j on instance i that has read the row and not inserted yet.
Verifying(i, j) == \E r \in Requests : req[r] = [inst |-> i, proj |-> j]

\* evict_project, on the process's own instance.  A request that is being
\* verified there inserts its entry later.
Evict(p) ==
  LET i == Where(p)
      j == job[p].evict IN
  /\ j # Nothing
  /\ cache' = [cache EXCEPT ![i] = @ \ {j}]
  /\ excused' = IF Verifying(i, j) THEN excused \cup {<<i, j>>} ELSE excused \ {<<i, j>>}
  /\ job' = [job EXCEPT ![p].evict = Nothing]
  /\ UNCHANGED <<status, billVars, req, at, guard, waived>>

\* All projects of process p are done.
LoopDone(p) == at[p] = "loop" /\ job[p].todo = {} /\ job[p].evict = Nothing

\* A call with nothing more to do answers.
Answer(c) ==
  /\ LoopDone(c)
  /\ job[c].kind \in {"operator", "delete", "patch", "upgrade"}
  /\ Finish(c)
  /\ UNCHANGED <<status, billVars, cache, req, guard, excused, waived>>

\* delete_project: any project that is not deleted yet.
DeleteProject(c, i, j) ==
  /\ "delete" \in Offered
  /\ status[j] # "deleted"
  /\ SetStatus(j, "deleted", {i})
  /\ Start(c, "loop", [NoJob EXCEPT !.kind = "delete", !.inst = i, !.evict = j])
  /\ UNCHANGED <<billVars, cache, req, guard>>

\* patch_project, its check of the row.  The body has a status or not (Keep),
\* and a new DSN or not.
PatchCheck(c, i, j, s, dsn) ==
  /\ "patch" \in Offered
  /\ status[j] # "deleted"
  /\ Start(c, "patch", [NoJob EXCEPT !.kind = IF dsn THEN "patch" ELSE "patchNoDsn",
                                    !.inst = i, !.proj = j, !.goal = s])
  /\ UNCHANGED <<status, billVars, cache, req, guard, excused, waived>>

\* patch_project, its UPDATE: by id, whatever the status is now.  The cache is
\* evicted only for a new DSN.
Patch(c) ==
  LET j == job[c].proj
      s == IF job[c].goal = Keep THEN status[j] ELSE job[c].goal
      dsn == job[c].kind = "patch" IN
  /\ at[c] = "patch"
  /\ SetStatus(j, s, IF dsn THEN {Where(c)} ELSE {})
  /\ at' = [at EXCEPT ![c] = IF dsn THEN "loop" ELSE "done"]
  /\ job' = [job EXCEPT ![c] = IF dsn THEN [@ EXCEPT !.evict = j] ELSE NoJob]
  /\ UNCHANGED <<billVars, cache, req, guard>>

-----------------------------------------------------------------------------
(* Stripe's webhook events, and the upgrade                                *)

PlaceOf(e) == IF e \in {"failed", "succeeded"} THEN "list" ELSE "sync"

\* stripe_webhook_handler: the INSERT of the event id decides who dispatches.
\* A redelivery is answered and does nothing.  A payment that will be tried again
\* does nothing either: "failed" is the last attempt.
Deliver(c, i, e) ==
  /\ processed' = processed \cup {e}
  /\ IF e \in processed
     THEN Start(c, "done", NoJob)
     ELSE Start(c, PlaceOf(e), [NoJob EXCEPT !.kind = e, !.inst = i,
             !.goal = IF e = "failed" THEN "suspended" ELSE "active"])
  /\ UNCHANGED <<status, plan, billing, over, faults, cache, req, guard, excused, waived>>

\* sync_subscription_updated and sync_subscription_deleted.  An update stores the
\* status that Stripe reports; the CHECK of the table refuses the ones it does not
\* know (unpaid, trialing, ...), and the row stays as it is.
Sync(c, b) ==
  /\ at[c] = "sync"
  /\ b \in IF job[c].kind = "canceled" THEN {"canceled"} ELSE {"active", "past_due", "canceled", billing}
  /\ billing' = IF plan = "pro" THEN b ELSE billing
  /\ Finish(c)
  /\ UNCHANGED <<status, plan, over, processed, faults, cache, req, guard, excused, waived>>

IsEvent(p) == job[p].kind \in EventTypes

\* The SELECT of suspend_account_projects or activate_account_projects.  An
\* invoice event first finds the account by the subscription id.
ListProjects(p) ==
  /\ at[p] = "list"
  /\ IF IsEvent(p) /\ plan # "pro"
     THEN Finish(p)
     ELSE /\ at' = [at EXCEPT ![p] = "loop"]
          /\ job' = [job EXCEPT ![p].todo =
               {j \in Projects : status[j] = IF job[p].goal = "active"
                                            THEN "suspended" ELSE "active"}]
  /\ UNCHANGED <<status, billVars, cache, req, guard, excused, waived>>

\* After the loop of an invoice event: past_due, or active.
MarkInvoice(c) ==
  /\ LoopDone(c)
  /\ IsEvent(c)
  /\ billing' = IF job[c].kind = "failed" THEN "past_due" ELSE "active"
  /\ Finish(c)
  /\ UNCHANGED <<status, plan, over, processed, faults, cache, req, guard, excused, waived>>

\* post_subscription reads the status, and asks Stripe.
UpgradeRead(c, i) ==
  /\ "upgrade" \in Offered
  /\ Start(c, "persist", [NoJob EXCEPT !.kind = "upgrade", !.inst = i, !.saw = billing])
  /\ UNCHANGED <<status, billVars, cache, req, guard, excused, waived>>

\* Stripe fails: nothing has been written.
StripeFails(c) ==
  /\ at[c] = "persist"
  /\ Finish(c)
  /\ UNCHANGED <<status, billVars, cache, req, guard, excused, waived>>

\* post_subscription writes the plan, and the status it read before the call;
\* out of free_cap_exceeded it goes on to activate the projects.
UpgradePersist(c) ==
  LET capped == job[c].saw = "free_cap_exceeded" IN
  /\ at[c] = "persist"
  /\ plan' = "pro"
  /\ billing' = IF capped THEN "active" ELSE job[c].saw
  /\ IF capped
     THEN /\ at' = [at EXCEPT ![c] = "list"]
          /\ job' = [job EXCEPT ![c].goal = "active", ![c].saw = "none"]
     ELSE Finish(c)
  /\ UNCHANGED <<status, over, processed, faults, cache, req, guard, excused, waived>>

-----------------------------------------------------------------------------
(* CapUsageRefresher                                                       *)

\* pg_try_advisory_lock, and the SELECT of Free accounts.
StartCycle(i) ==
  /\ at[i] = "idle"
  /\ guard = Nothing
  /\ guard' = i
  /\ IF plan = "free" /\ billing \in {"active", "free_cap_exceeded"}
     THEN /\ at' = [at EXCEPT ![i] = "sum"]
          /\ job' = [job EXCEPT ![i] = [NoJob EXCEPT !.kind = "refresh", !.saw = billing,
                                                    !.goal = "suspended"]]
     ELSE Finish(i)
  /\ UNCHANGED <<status, billVars, cache, req, excused, waived>>

\* Mutant of SumUsage: the subscription is marked before the projects are
\* suspended.
SumUsageMarking(i) ==
  /\ at[i] = "sum"
  /\ IF over /\ job[i].saw # "free_cap_exceeded"
     THEN at' = [at EXCEPT ![i] = "list"] /\ billing' = "free_cap_exceeded" /\ UNCHANGED job
     ELSE Finish(i) /\ UNCHANGED billing
  /\ UNCHANGED <<status, plan, over, processed, faults, cache, req, guard, excused, waived>>

\* The usage of the month is summed; a cap reached for the first time has the
\* projects suspended.
SumUsage(i) ==
  /\ at[i] = "sum"
  /\ IF over /\ job[i].saw # "free_cap_exceeded"
     THEN at' = [at EXCEPT ![i] = "list"] /\ UNCHANGED job
     ELSE Finish(i)
  /\ UNCHANGED <<status, billVars, cache, req, guard, excused, waived>>

\* After the loop: UPDATE subscriptions by account, whatever the plan is now.
MarkCapped(i) ==
  /\ LoopDone(i)
  /\ billing' = "free_cap_exceeded"
  /\ Finish(i)
  /\ UNCHANGED <<status, plan, over, processed, faults, cache, req, guard, excused, waived>>

\* Mutant of Unlock: pg_advisory_unlock runs on another connection of the pool.
UnlockElsewhere(i) ==
  /\ at[i] = "unlock"
  /\ at' = [at EXCEPT ![i] = "idle"]
  /\ UNCHANGED <<status, billVars, cache, req, job, guard, excused, waived>>

\* pg_advisory_unlock on the connection that took the lock.
Unlock(i) ==
  /\ at[i] = "unlock"
  /\ at' = [at EXCEPT ![i] = "idle"]
  /\ guard' = Nothing
  /\ UNCHANGED <<status, billVars, cache, req, job, excused, waived>>

\* Usage reaches the cap; a new month begins.
Meter(b) ==
  /\ "usage" \in Faults
  /\ over # b
  /\ over' = b
  /\ UNCHANGED <<status, plan, billing, processed, faults, cache, req, procVars, guard,
                 excused, waived>>

-----------------------------------------------------------------------------
(* Failures                                                                *)

\* The next statement of p fails: an error is answered, and what was done stays
\* done.  An event that was claimed stays claimed.
StatementFails(p) ==
  /\ Fault("db")
  /\ at[p] \in {"list", "sync", "patch", "sum"} \/ (LoopDone(p) /\ (p \in Instances \/ IsEvent(p)))
  /\ Finish(p)
  /\ UNCHANGED <<status, plan, billing, over, processed, cache, req, guard, excused, waived>>

\* Instance i restarts: its cache, its calls and its session lock are gone.
Restart(i) ==
  LET mine == {p \in Procs : p = i \/ job[p].inst = i} IN
  /\ Fault("restart")
  /\ cache' = [cache EXCEPT ![i] = {}]
  /\ req' = [r \in Requests |-> IF req[r].inst = i THEN NoRequest ELSE req[r]]
  /\ at' = [p \in Procs |-> IF p = i THEN "idle" ELSE IF p \in mine THEN "done" ELSE at[p]]
  /\ job' = [p \in Procs |-> IF p \in mine THEN NoJob ELSE job[p]]
  /\ guard' = IF guard = i THEN Nothing ELSE guard
  /\ excused' = {x \in excused : x[1] # i}
  /\ UNCHANGED <<status, plan, billing, over, processed, waived>>

-----------------------------------------------------------------------------
RequestStep(r) ==
  \/ \E i \in Instances, j \in Projects : Load(r, i, j)
  \/ Verify(r)
  \/ Reject(r)

CallStart(c, i) ==
  \/ \E j \in Projects, s \in {"active", "suspended"} : OperatorStatus(c, i, j, s)
  \/ \E j \in Projects : DeleteProject(c, i, j)
  \/ \E j \in Projects, s \in PatchStatus, dsn \in BOOLEAN : PatchCheck(c, i, j, s, dsn)
  \/ \E e \in Events : Deliver(c, i, e)
  \/ UpgradeRead(c, i)

ProcStep(p) ==
  \/ \E j \in job[p].todo : SetProjectStatus(p, j)
  \/ Evict(p)
  \/ ListProjects(p)

FaultStep(p) == StatementFails(p) \/ \E j \in job[p].todo : SetStatusFails(p, j)

CallStep(c) ==
  \/ Answer(c) \/ Patch(c) \/ MarkInvoice(c) \/ StripeFails(c) \/ UpgradePersist(c)
  \/ \E b \in BillingStatus : Sync(c, b)

RefresherStep(i) == StartCycle(i) \/ SumUsage(i) \/ MarkCapped(i) \/ Unlock(i)

Next ==
  \/ \E r \in Requests : RequestStep(r)
  \/ \E c \in Calls, i \in Instances : CallStart(c, i)
  \/ \E p \in Procs : ProcStep(p) \/ FaultStep(p)
  \/ \E c \in Calls : CallStep(c)
  \/ \E i \in Instances : RefresherStep(i) \/ Restart(i)
  \/ \E b \in BOOLEAN : Meter(b)

Spec == Init /\ [][Next]_vars

\* The refreshers' timers go off again and again and the statements of a cycle
\* are answered.
FairSpec ==
  Spec /\ \A i \in Instances : WF_vars(ProcStep(i) \/ RefresherStep(i))

-----------------------------------------------------------------------------
(* Properties                                                              *)

\* The eviction of j on instance i is still to come.
EvictionPending(i, j) == \E p \in Procs : job[p].evict = j /\ Where(p) = i

\* credential_cache.rs: an instance keeps a suspended or deleted project in its
\* cache only until the process that changed the status there evicts it, with
\* exactly these exceptions: the change was made on another instance, or by a
\* PATCH without a DSN, or a request was being verified during the eviction.
CacheExplained ==
  \A i \in Instances : \A j \in cache[i] :
    Servable(status[j]) \/ EvictionPending(i, j) \/ <<i, j>> \in excused

\* lifecycle.rs: no suspend or activate, of an operator, an event, an upgrade
\* or a refresher that listed the project before its deletion, brings a
\* deleted project back; only a PATCH that checked before the deletion can.
DeletedIsFinal ==
  [][\A j \in Projects : status[j] = "deleted" /\ status'[j] # "deleted" =>
       \E c \in Calls : at[c] = "patch" /\ job[c].proj = j /\ at'[c] # "patch"]_vars

\* run_cycle: the subscription is marked free_cap_exceeded only after the projects
\* are suspended, whatever fails or restarts in between, so an active project
\* of a capped account has been made active since, or its suspension failed.
CappedMeansSuspended ==
  billing = "free_cap_exceeded" =>
    \A j \in Projects : status[j] = "active" => j \in waived

\* CapUsageRefresher: a Free account that is over its cap and active is
\* eventually capped, or is no longer over, Free and active.
CapEnforced ==
  (over /\ plan = "free" /\ billing = "active") ~>
    (~over \/ plan = "pro" \/ billing # "active")
=============================================================================
