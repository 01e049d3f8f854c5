---------------------------- MODULE TenancyProofs ----------------------------
(***************************************************************************)
(* Proofs about Tenancy, for any number of projects, instances, requests   *)
(* and calls, any capacity of the caches and any number of faults.         *)
(***************************************************************************)
EXTENDS Tenancy, TLAPS

Places == {"idle", "loop", "patch", "list", "sync", "persist", "sum", "unlock", "done"}

Job == [kind : {"none", "refresh", "patchNoDsn"} \cup CallKinds \cup EventTypes,
        inst : Instances \cup {Nothing}, proj : Projects \cup {Nothing},
        goal : ProjectStatus \cup {Keep, "none"}, saw : BillingStatus \cup {"none"},
        todo : SUBSET Projects, evict : Projects \cup {Nothing}]

Verification == {NoRequest} \cup [inst : Instances, proj : Projects]

\* What the tables, the caches and the processes are made of.
TypeOK ==
  /\ status \in [Projects -> ProjectStatus]
  /\ billing \in BillingStatus
  /\ cache \in [Instances -> SUBSET Projects]
  /\ req \in [Requests -> Verification]
  /\ at \in [Procs -> Places]
  /\ job \in [Procs -> Job]

\* What a process holds at each place, as its steps before left it.  An eviction
\* is pending only in the loop, so nothing that ends a process forgets one.
Carries(p) ==
  /\ job[p].evict # Nothing => at[p] = "loop"
  /\ p \in Instances => /\ job[p].inst = Nothing
                        /\ at[p] \in {"sum", "list", "loop"} =>
                             job[p].goal = "suspended" /\ job[p].kind = "refresh"
                        /\ at[p] \notin {"patch", "sync", "persist"}
  /\ p \in Calls /\ at[p] \notin {"idle", "done"} => job[p].inst \in Instances
  /\ p \in Calls => at[p] \notin {"sum", "unlock"}
  /\ at[p] = "patch" => job[p].proj \in Projects /\ job[p].goal \in PatchStatus /\ job[p].todo = {}
  /\ at[p] = "persist" => job[p].saw \in BillingStatus
  /\ at[p] = "list" \/ (at[p] = "loop" /\ job[p].todo # {}) => job[p].goal \in {"active", "suspended"}

ProcInv == TypeOK /\ \A p \in Procs : Carries(p)

-----------------------------------------------------------------------------
(* Facts about processes                                                   *)

\* The locals of an idle process are locals.
LEMMA NoJobType == NoJob \in Job
BY DEF NoJob, Job

\* A process that changes its place and its locals leaves the others alone.
LEMMA Others ==
  ASSUME ProcInv, NEW p \in Procs, NEW a \in Places, NEW l \in Job,
         at' = [at EXCEPT ![p] = a], job' = [job EXCEPT ![p] = l]
  PROVE  /\ at' \in [Procs -> Places] /\ job' \in [Procs -> Job]
         /\ at'[p] = a /\ job'[p] = l
         /\ \A q \in Procs \ {p} : at'[q] = at[q] /\ job'[q] = job[q] /\ Carries(q)'
BY DEF ProcInv, TypeOK, Carries

\* A process that finishes leaves the others alone.
LEMMA FinishProc ==
  ASSUME ProcInv, NEW p \in Procs, Finish(p)
  PROVE  /\ at' \in [Procs -> Places] /\ job' \in [Procs -> Job]
         /\ at'[p] = (IF p \in Instances THEN "unlock" ELSE "done") /\ job'[p] = NoJob
         /\ \A q \in Procs \ {p} : at'[q] = at[q] /\ job'[q] = job[q]
         /\ \A q \in Procs : Carries(q)'
<1> DEFINE a == IF p \in Instances THEN "unlock" ELSE "done"
<1>1. /\ at' = [at EXCEPT ![p] = a] /\ job' = [job EXCEPT ![p] = NoJob]
      /\ a \in Places /\ NoJob \in Job
  BY NoJobType DEF Finish, Places
<1>2. Carries(p)'
  <2>1. at'[p] = a /\ job'[p] = NoJob
    BY <1>1, Others
  <2>2. CASE p \in Instances
    BY <2>1, <2>2, ProcsAssumption DEF Carries, NoJob
  <2>3. CASE p \notin Instances
    BY <2>1, <2>3 DEF Carries, NoJob
  <2> QED
    BY <2>2, <2>3
<1> QED
  BY <1>1, <1>2, Others

\* A call starts at a place with the locals it needs there.
LEMMA StartCall ==
  ASSUME ProcInv, NEW c \in Calls, NEW a \in Places \ {"sum", "unlock"}, NEW l \in Job, Start(c, a, l),
         a # "loop" => l.evict = Nothing,
         a \notin {"idle", "done"} => l.inst \in Instances,
         a = "patch" => l.proj \in Projects /\ l.goal \in PatchStatus /\ l.todo = {},
         a = "persist" => l.saw \in BillingStatus,
         a = "list" \/ (a = "loop" /\ l.todo # {}) => l.goal \in {"active", "suspended"}
  PROVE  /\ at' \in [Procs -> Places] /\ job' \in [Procs -> Job]
         /\ at[c] = "idle" /\ at'[c] = a /\ job'[c] = l /\ job[c].evict = Nothing
         /\ \A q \in Procs \ {c} : at'[q] = at[q] /\ job'[q] = job[q]
         /\ \A q \in Procs : Carries(q)'
<1>1. /\ at' = [at EXCEPT ![c] = a] /\ job' = [job EXCEPT ![c] = l] /\ at[c] = "idle" /\ c \in Procs
      /\ c \notin Instances
  BY ProcsAssumption DEF Start, Procs
<1>2. job[c].evict = Nothing
  BY <1>1 DEF ProcInv, Carries
<1>3. at'[c] = a /\ job'[c] = l
  BY <1>1, Others
<1>4. Carries(c)'
  BY <1>1, <1>3 DEF Carries
<1> QED
  BY <1>1, <1>2, <1>3, <1>4, Others

\* Another loop variable, another eviction: the place stays "loop".
LEMMA LoopOn ==
  ASSUME ProcInv, NEW p \in Procs, NEW l \in Job, at[p] = "loop", UNCHANGED at,
         job' = [job EXCEPT ![p] = l],
         l.inst = job[p].inst, l.goal = job[p].goal, l.kind = job[p].kind, l.todo \subseteq job[p].todo
  PROVE  /\ job' \in [Procs -> Job] /\ job'[p] = l
         /\ \A q \in Procs \ {p} : job'[q] = job[q]
         /\ \A q \in Procs : Carries(q)'
<1>1. job' \in [Procs -> Job] /\ job'[p] = l /\ \A q \in Procs \ {p} : job'[q] = job[q]
  BY DEF ProcInv, TypeOK
<1>2. Carries(p)'
  BY <1>1 DEF ProcInv, Carries
<1>3. \A q \in Procs \ {p} : Carries(q)'
  BY <1>1 DEF ProcInv, Carries
<1> QED
  BY <1>1, <1>2, <1>3

-----------------------------------------------------------------------------
(* Every process carries what its next statement needs: ProcInv is         *)
(* inductive.                                                              *)

\* Initially no process runs.
LEMMA ProcInit == Init => ProcInv
<1> SUFFICES ASSUME Init PROVE ProcInv
  OBVIOUS
<1>1. TypeOK
  BY NoJobType DEF Init, TypeOK, ProjectStatus, BillingStatus, Verification, Places
<1>2. \A p \in Procs : Carries(p)
  BY DEF Init, Carries, NoJob
<1> QED
  BY <1>1, <1>2 DEF ProcInv

\* A status change leaves statuses.
LEMMA SetStatusType ==
  ASSUME ProcInv, NEW j \in Projects, NEW s \in ProjectStatus, NEW I, SetStatus(j, s, I)
  PROVE  status' \in [Projects -> ProjectStatus]
BY DEF SetStatus, ProcInv, TypeOK

\* A call starts with locals that fit its first statement.
LEMMA CallsStart ==
  ASSUME ProcInv, NEW c \in Calls, NEW i \in Instances, CallStart(c, i)
  PROVE  ProcInv'
<1>1. ASSUME NEW j \in Projects, NEW s \in {"active", "suspended"}, OperatorStatus(c, i, j, s)
      PROVE  ProcInv'
  <2> DEFINE l == [NoJob EXCEPT !.kind = "operator", !.inst = i, !.goal = s, !.todo = {j}]
  <2>1. l \in Job /\ l.inst = i /\ l.goal = s /\ l.evict = Nothing
    BY DEF Job, NoJob, CallKinds, ProjectStatus
  <2>2. Start(c, "loop", l) /\ "loop" \in Places \ {"sum", "unlock"}
    BY <1>1 DEF OperatorStatus, Places
  <2> HIDE DEF l
  <2> QED
    BY <1>1, <2>1, <2>2, StartCall DEF OperatorStatus, ProcInv, TypeOK, billVars
<1>2. ASSUME NEW j \in Projects, DeleteProject(c, i, j)
      PROVE  ProcInv'
  <2> DEFINE l == [NoJob EXCEPT !.kind = "delete", !.inst = i, !.evict = j]
  <2>1. l \in Job /\ l.inst = i /\ l.todo = {}
    BY DEF Job, NoJob, CallKinds
  <2>2. Start(c, "loop", l) /\ "loop" \in Places \ {"sum", "unlock"}
    BY <1>2 DEF DeleteProject, Places
  <2> HIDE DEF l
  <2>3. status' \in [Projects -> ProjectStatus]
    BY <1>2, SetStatusType DEF DeleteProject, ProjectStatus
  <2> QED
    BY <1>2, <2>1, <2>2, <2>3, StartCall DEF DeleteProject, ProcInv, TypeOK, billVars
<1>3. ASSUME NEW j \in Projects, NEW s \in PatchStatus, NEW dsn \in BOOLEAN, PatchCheck(c, i, j, s, dsn)
      PROVE  ProcInv'
  <2> DEFINE l == [NoJob EXCEPT !.kind = IF dsn THEN "patch" ELSE "patchNoDsn",
                                !.inst = i, !.proj = j, !.goal = s]
  <2>1. l \in Job /\ l.inst = i /\ l.proj = j /\ l.goal = s /\ l.evict = Nothing /\ l.todo = {}
    BY DEF Job, NoJob, CallKinds, PatchStatus, ProjectStatus, Keep
  <2>2. Start(c, "patch", l) /\ "patch" \in Places \ {"sum", "unlock"}
    BY <1>3 DEF PatchCheck, Places
  <2> HIDE DEF l
  <2> QED
    BY <1>3, <2>1, <2>2, StartCall DEF PatchCheck, ProcInv, TypeOK, billVars
<1>4. ASSUME NEW e \in Events, Deliver(c, i, e)
      PROVE  ProcInv'
  <2> DEFINE g == IF e = "failed" THEN "suspended" ELSE "active"
             l == [NoJob EXCEPT !.kind = e, !.inst = i, !.goal = g]
  <2>1. e \in EventTypes /\ g \in {"active", "suspended"} /\ PlaceOf(e) \in {"list", "sync"}
    BY OfferedAssumption DEF PlaceOf
  <2>2. Start(c, "done", NoJob) \/ Start(c, PlaceOf(e), l)
    BY <1>4 DEF Deliver
  <2> HIDE DEF g
  <2>3. l \in Job /\ l.inst = i /\ l.goal = g /\ l.evict = Nothing
    BY <2>1 DEF Job, NoJob, ProjectStatus
  <2> HIDE DEF l
  <2>4. {"done", "list", "sync"} \subseteq Places \ {"sum", "unlock"} /\ NoJob.evict = Nothing
    BY DEF Places, NoJob
  <2>5. /\ at' \in [Procs -> Places] /\ job' \in [Procs -> Job]
        /\ \A q \in Procs : Carries(q)'
    <3>1. CASE Start(c, "done", NoJob)
      BY <2>4, <3>1, NoJobType, StartCall
    <3>2. CASE Start(c, PlaceOf(e), l)
      BY <2>1, <2>3, <2>4, <3>2, StartCall
    <3> QED
      BY <2>2, <3>1, <3>2
  <2> QED
    BY <1>4, <2>5 DEF Deliver, ProcInv, TypeOK
<1>5. CASE UpgradeRead(c, i)
  <2> DEFINE l == [NoJob EXCEPT !.kind = "upgrade", !.inst = i, !.saw = billing]
  <2>1. l \in Job /\ l.inst = i /\ l.evict = Nothing /\ l.saw \in BillingStatus
    BY DEF Job, NoJob, CallKinds, ProcInv, TypeOK
  <2>2. Start(c, "persist", l) /\ "persist" \in Places \ {"sum", "unlock"}
    BY <1>5 DEF UpgradeRead, Places
  <2> HIDE DEF l
  <2> QED
    BY <1>5, <2>1, <2>2, StartCall DEF UpgradeRead, ProcInv, TypeOK, billVars
<1> QED
  BY <1>1, <1>2, <1>3, <1>4, <1>5 DEF CallStart

\* The steps of calls and refreshers, their failures included,
LEMMA ProcsStep ==
  ASSUME ProcInv, NEW p \in Procs, ProcStep(p) \/ FaultStep(p)
  PROVE  ProcInv'
<1>1. job[p] \in Job
  BY DEF ProcInv, TypeOK
<1>2. ASSUME NEW j \in job[p].todo, SetProjectStatus(p, j)
      PROVE  ProcInv'
  <2>1. j \in Projects /\ job[p].goal \in ProjectStatus /\ at[p] = "loop"
    BY <1>1, <1>2 DEF SetProjectStatus, Job, ProcInv, Carries, ProjectStatus
  <2>2. status' \in [Projects -> ProjectStatus]
    BY <1>2, <2>1, SetStatusType DEF SetProjectStatus, ProcInv, TypeOK
  <2> DEFINE l == [job[p] EXCEPT !.todo = job[p].todo \ {j}, !.evict = j]
             m == [job[p] EXCEPT !.todo = job[p].todo \ {j}]
  <2>3. /\ l \in Job /\ l.inst = job[p].inst /\ l.goal = job[p].goal
        /\ l.kind = job[p].kind /\ l.todo \subseteq job[p].todo
    BY <1>1, <2>1 DEF Job
  <2>4. /\ m \in Job /\ m.inst = job[p].inst /\ m.goal = job[p].goal
        /\ m.kind = job[p].kind /\ m.todo \subseteq job[p].todo
    BY <1>1 DEF Job
  <2>5. job' = [job EXCEPT ![p] = l] \/ job' = [job EXCEPT ![p] = m]
    BY <1>2 DEF SetProjectStatus
  <2>6. UNCHANGED at
    BY <1>2 DEF SetProjectStatus
  <2> HIDE DEF l, m
  <2>7. job' \in [Procs -> Job] /\ \A q \in Procs : Carries(q)'
    BY <2>1, <2>3, <2>4, <2>5, <2>6, LoopOn
  <2> QED
    BY <1>2, <2>2, <2>7 DEF SetProjectStatus, ProcInv, TypeOK, billVars
<1>3. CASE Evict(p)
  <2> DEFINE l == [job[p] EXCEPT !.evict = Nothing]
  <2>1. /\ l \in Job /\ l.inst = job[p].inst /\ l.goal = job[p].goal
        /\ l.kind = job[p].kind /\ l.todo = job[p].todo
    BY <1>1 DEF Job
  <2>2. job' = [job EXCEPT ![p] = l] /\ UNCHANGED at /\ at[p] = "loop"
    BY <1>3 DEF Evict, ProcInv, Carries
  <2> HIDE DEF l
  <2>3. cache' \in [Instances -> SUBSET Projects]
    BY <1>3 DEF Evict, ProcInv, TypeOK
  <2>4. job' \in [Procs -> Job] /\ \A q \in Procs : Carries(q)'
    BY <2>1, <2>2, LoopOn
  <2> QED
    BY <1>3, <2>3, <2>4 DEF Evict, ProcInv, TypeOK, billVars
<1>4. CASE ListProjects(p)
  <2>1. CASE Finish(p)
    BY <1>4, <2>1, FinishProc DEF ListProjects, ProcInv, TypeOK, billVars
  <2>2. CASE ~Finish(p)
    <3> DEFINE S == {j \in Projects : status[j] = IF job[p].goal = "active" THEN "suspended" ELSE "active"}
               l == [job[p] EXCEPT !.todo = S]
    <3>1. /\ l \in Job /\ l.inst = job[p].inst /\ l.goal = job[p].goal
          /\ l.kind = job[p].kind /\ l.evict = job[p].evict
      BY <1>1 DEF Job
    <3>2. /\ at' = [at EXCEPT ![p] = "loop"] /\ job' = [job EXCEPT ![p] = l]
          /\ at[p] = "list" /\ "loop" \in Places
      BY <1>4, <2>2 DEF ListProjects, Places
    <3> HIDE DEF l
    <3>3. at'[p] = "loop" /\ job'[p] = l
      BY <3>1, <3>2, Others
    <3>4. Carries(p)'
      BY <3>1, <3>2, <3>3 DEF ProcInv, Carries
    <3> QED
      BY <1>4, <3>1, <3>2, <3>4, Others DEF ListProjects, ProcInv, TypeOK, billVars
  <2> QED
    BY <2>1, <2>2
<1>5. CASE StatementFails(p)
  BY <1>5, FinishProc DEF StatementFails, ProcInv, TypeOK
<1>6. ASSUME NEW j \in job[p].todo, SetStatusFails(p, j)
      PROVE  ProcInv'
  <2> DEFINE m == [job[p] EXCEPT !.todo = job[p].todo \ {j}]
  <2>1. /\ m \in Job /\ m.inst = job[p].inst /\ m.goal = job[p].goal
        /\ m.kind = job[p].kind /\ m.todo \subseteq job[p].todo
    BY <1>1 DEF Job
  <2>2. job' = [job EXCEPT ![p] = m] /\ UNCHANGED at /\ at[p] = "loop"
    BY <1>6 DEF SetStatusFails
  <2> HIDE DEF m
  <2>3. job' \in [Procs -> Job] /\ \A q \in Procs : Carries(q)'
    BY <2>1, <2>2, LoopOn
  <2> QED
    BY <1>6, <2>3 DEF SetStatusFails, ProcInv, TypeOK
<1> QED
  BY <1>2, <1>3, <1>4, <1>5, <1>6 DEF ProcStep, FaultStep

\* those that only a call takes,
LEMMA CallsStep ==
  ASSUME ProcInv, NEW c \in Calls, CallStep(c)
  PROVE  ProcInv'
<1>1. job[c] \in Job /\ c \in Procs /\ c \notin Instances
  BY ProcsAssumption DEF ProcInv, TypeOK, Procs
<1>2. CASE Answer(c) \/ StripeFails(c)
  BY <1>1, <1>2, FinishProc DEF Answer, StripeFails, ProcInv, TypeOK, billVars
<1>3. CASE MarkInvoice(c) \/ \E b \in BillingStatus : Sync(c, b)
  BY <1>1, <1>3, FinishProc DEF MarkInvoice, Sync, ProcInv, TypeOK, BillingStatus
<1>4. CASE Patch(c)
  <2> DEFINE j == job[c].proj
  <2>1. j \in Projects /\ job[c].goal \in PatchStatus /\ job[c].inst \in Instances /\ job[c].todo = {}
    BY <1>1, <1>4 DEF Patch, ProcInv, Carries
  <2>2. status' \in [Projects -> ProjectStatus]
    BY <1>4, <2>1, SetStatusType DEF Patch, ProcInv, TypeOK, PatchStatus
  <2>3. at' \in [Procs -> Places] /\ job' \in [Procs -> Job] /\ \A q \in Procs : Carries(q)'
    <3>1. CASE job[c].kind = "patch"
      <4> DEFINE l == [job[c] EXCEPT !.evict = j]
      <4>1. l \in Job /\ l.inst = job[c].inst /\ l.todo = {} /\ "loop" \in Places
        BY <1>1, <2>1 DEF Job, Places
      <4>2. at' = [at EXCEPT ![c] = "loop"] /\ job' = [job EXCEPT ![c] = l]
        BY <1>4, <3>1 DEF Patch
      <4> HIDE DEF l
      <4>3. at'[c] = "loop" /\ job'[c] = l
        BY <1>1, <4>1, <4>2, Others
      <4>4. Carries(c)'
        BY <1>1, <2>1, <4>1, <4>3 DEF Carries
      <4> QED
        BY <1>1, <4>1, <4>2, <4>4, Others
    <3>2. CASE job[c].kind # "patch"
      <4>1. Finish(c)
        BY <1>1, <1>4, <3>2 DEF Patch, Finish
      <4> QED
        BY <1>1, <4>1, FinishProc
    <3> QED
      BY <3>1, <3>2
  <2> QED
    BY <1>4, <2>2, <2>3 DEF Patch, ProcInv, TypeOK, billVars
<1>5. CASE UpgradePersist(c)
  <2>1. /\ billing' \in BillingStatus /\ job[c].inst \in Instances /\ job[c].evict = Nothing
        /\ at[c] = "persist"
    BY <1>1, <1>5 DEF UpgradePersist, ProcInv, Carries, BillingStatus
  <2>2. at' \in [Procs -> Places] /\ job' \in [Procs -> Job] /\ \A q \in Procs : Carries(q)'
    <3>1. CASE job[c].saw = "free_cap_exceeded"
      <4> DEFINE l == [job[c] EXCEPT !.goal = "active", !.saw = "none"]
      <4>1. l \in Job /\ l.inst = job[c].inst /\ l.goal = "active" /\ l.evict = Nothing /\ "list" \in Places
        BY <1>1, <2>1 DEF Job, Places, ProjectStatus
      <4>2. at' = [at EXCEPT ![c] = "list"] /\ job' = [job EXCEPT ![c] = l]
        BY <1>5, <3>1 DEF UpgradePersist
      <4> HIDE DEF l
      <4>3. at'[c] = "list" /\ job'[c] = l
        BY <1>1, <4>1, <4>2, Others
      <4>4. Carries(c)'
        BY <1>1, <2>1, <4>1, <4>3 DEF Carries
      <4> QED
        BY <1>1, <4>1, <4>2, <4>4, Others
    <3>2. CASE job[c].saw # "free_cap_exceeded"
      BY <1>1, <1>5, <3>2, FinishProc DEF UpgradePersist
    <3> QED
      BY <3>1, <3>2
  <2> QED
    BY <1>5, <2>1, <2>2 DEF UpgradePersist, ProcInv, TypeOK
<1> QED
  BY <1>2, <1>3, <1>4, <1>5 DEF CallStep

\* the refresher's ticks and the restarts,
LEMMA RefreshersStep ==
  ASSUME ProcInv, NEW i \in Instances, RefresherStep(i) \/ Restart(i)
  PROVE  ProcInv'
<1>1. job[i] \in Job /\ i \in Procs /\ i \notin Calls
  BY ProcsAssumption DEF ProcInv, TypeOK, Procs
<1>2. CASE StartCycle(i)
  <2>1. CASE Finish(i)
    BY <1>1, <1>2, <2>1, FinishProc DEF StartCycle, ProcInv, TypeOK, billVars
  <2>2. CASE ~Finish(i)
    <3> DEFINE l == [NoJob EXCEPT !.kind = "refresh", !.saw = billing, !.goal = "suspended"]
    <3>1. /\ l \in Job /\ l.kind = "refresh" /\ l.goal = "suspended" /\ l.evict = Nothing
          /\ l.inst = Nothing /\ "sum" \in Places
      BY DEF Job, NoJob, ProcInv, TypeOK, ProjectStatus, Places
    <3>2. at' = [at EXCEPT ![i] = "sum"] /\ job' = [job EXCEPT ![i] = l]
      BY <1>2, <2>2 DEF StartCycle
    <3> HIDE DEF l
    <3>3. at'[i] = "sum" /\ job'[i] = l
      BY <1>1, <3>1, <3>2, Others
    <3>4. Carries(i)'
      BY <1>1, <3>1, <3>3 DEF Carries
    <3> QED
      BY <1>1, <1>2, <3>1, <3>2, <3>4, Others DEF StartCycle, ProcInv, TypeOK, billVars
  <2> QED
    BY <2>1, <2>2
<1>3. CASE SumUsage(i)
  <2>1. CASE Finish(i)
    BY <1>1, <1>3, <2>1, FinishProc DEF SumUsage, ProcInv, TypeOK, billVars
  <2>2. CASE ~Finish(i)
    <3>1. at' = [at EXCEPT ![i] = "list"] /\ job' = job /\ at[i] = "sum" /\ "list" \in Places
      BY <1>3, <2>2 DEF SumUsage, Places
    <3>2. \A q \in Procs : Carries(q)'
      BY <1>1, <3>1 DEF ProcInv, TypeOK, Carries
    <3> QED
      BY <1>3, <3>1, <3>2 DEF SumUsage, ProcInv, TypeOK, billVars
  <2> QED
    BY <2>1, <2>2
<1>4. CASE MarkCapped(i)
  BY <1>1, <1>4, FinishProc DEF MarkCapped, ProcInv, TypeOK, BillingStatus
<1>5. CASE Unlock(i)
  <2>1. at' = [at EXCEPT ![i] = "idle"] /\ job' = job /\ at[i] = "unlock" /\ "idle" \in Places
    BY <1>5 DEF Unlock, Places
  <2>2. \A q \in Procs : Carries(q)'
    BY <1>1, <2>1 DEF ProcInv, TypeOK, Carries
  <2> QED
    BY <1>5, <2>1, <2>2 DEF Unlock, ProcInv, TypeOK, billVars
<1>6. CASE Restart(i)
  <2>1. /\ at' \in [Procs -> Places] /\ job' \in [Procs -> Job]
        /\ req' \in [Requests -> Verification] /\ cache' \in [Instances -> SUBSET Projects]
    BY <1>6, NoJobType DEF Restart, ProcInv, TypeOK, Places, Verification
  <2>2. ASSUME NEW q \in Procs
        PROVE  Carries(q)'
    <3>1. CASE q = i \/ job[q].inst = i
      <4>1. job'[q] = NoJob /\ (q = i => at'[q] = "idle") /\ (q # i => at'[q] = "done")
        BY <1>6, <3>1 DEF Restart
      <4>2. q # i => q \in Calls /\ q \notin Instances
        BY <3>1, NothingAssumption, ProcsAssumption DEF ProcInv, Carries, Procs
      <4> QED
        BY <1>1, <4>1, <4>2 DEF Carries, NoJob
    <3>2. CASE ~(q = i \/ job[q].inst = i)
      BY <1>6, <3>2 DEF Restart, ProcInv, Carries
    <3> QED
      BY <3>1, <3>2
  <2> QED
    BY <1>6, <2>1, <2>2 DEF Restart, ProcInv, TypeOK
<1> QED
  BY <1>2, <1>3, <1>4, <1>5, <1>6 DEF RefresherStep

\* The entry that authenticate inserts is the one it has loaded.
LEMMA AfterInsertBounds ==
  ASSUME NEW S, NEW j, NEW T \in AfterInsert(S, j)
  PROVE  T \subseteq S \cup {j}
BY DEF AfterInsert

\* and the requests leave every process with locals that fit.
LEMMA RequestsStep ==
  ASSUME ProcInv, NEW r \in Requests, RequestStep(r)
  PROVE  ProcInv'
<1>1. UNCHANGED <<status, billing, at, job>>
  BY DEF RequestStep, Load, Verify, Reject, billVars, procVars
<1>2. \A q \in Procs : Carries(q)'
  BY <1>1 DEF ProcInv, Carries
<1>3. req' \in [Requests -> Verification]
  BY DEF RequestStep, Load, Verify, Reject, ProcInv, TypeOK, Verification
<1>4. cache' \in [Instances -> SUBSET Projects]
  <2>1. CASE Verify(r)
    <3>1. req[r].inst \in Instances /\ req[r].proj \in Projects
      BY <2>1 DEF Verify, ProcInv, TypeOK, Verification
    <3>2. PICK S \in AfterInsert(cache[req[r].inst], req[r].proj) : cache' = [cache EXCEPT ![req[r].inst] = S]
      BY <2>1 DEF Verify
    <3>3. S \in SUBSET Projects
      BY <3>1, <3>2, AfterInsertBounds DEF ProcInv, TypeOK
    <3> QED
      BY <3>2, <3>3 DEF ProcInv, TypeOK
  <2>2. CASE ~Verify(r)
    BY <2>2 DEF RequestStep, Load, Reject, ProcInv, TypeOK
  <2> QED
    BY <2>1, <2>2
<1> QED
  BY <1>1, <1>2, <1>3, <1>4 DEF ProcInv, TypeOK

\* The same of every step.
LEMMA ProcInvStep == ProcInv /\ [Next]_vars => ProcInv'
<1> SUFFICES ASSUME ProcInv, [Next]_vars PROVE ProcInv'
  OBVIOUS
<1>1. CASE UNCHANGED vars \/ \E b \in BOOLEAN : Meter(b)
  <2>1. UNCHANGED <<status, billing, cache, req, at, job>>
    BY <1>1 DEF vars, Meter, procVars
  <2> QED
    BY <2>1 DEF ProcInv, TypeOK, Carries
<1> QED
  BY <1>1, RequestsStep, CallsStart, ProcsStep, CallsStep, RefreshersStep DEF Next

\* Processes are sound in every behaviour.
LEMMA ProcsSound == Spec => []ProcInv
BY ProcInit, ProcInvStep, PTL DEF Spec

-----------------------------------------------------------------------------
(* What changes a status                                                   *)

\* Three actions write the status of a project.
LEMMA StatusWritten ==
  ASSUME [Next]_vars,
         ~\E p \in Procs : \E j \in job[p].todo : SetProjectStatus(p, j),
         ~\E c \in Calls, i \in Instances, j \in Projects : DeleteProject(c, i, j),
         ~\E c \in Calls : Patch(c)
  PROVE  /\ UNCHANGED status
         /\ waived \subseteq waived'
<1>1. CASE UNCHANGED vars \/ \E b \in BOOLEAN : Meter(b)
  BY <1>1 DEF vars, Meter
<1>2. ASSUME NEW r \in Requests, RequestStep(r) PROVE UNCHANGED <<status, waived>>
  BY <1>2 DEF RequestStep, Load, Verify, Reject
<1>3. ASSUME NEW c \in Calls, NEW i \in Instances, CallStart(c, i) PROVE UNCHANGED <<status, waived>>
  BY <1>3 DEF CallStart, OperatorStatus, PatchCheck, Deliver, UpgradeRead
<1>4. ASSUME NEW p \in Procs, ProcStep(p) \/ FaultStep(p)
      PROVE  UNCHANGED status /\ waived \subseteq waived'
  BY <1>4 DEF ProcStep, FaultStep, Evict, ListProjects, StatementFails, SetStatusFails
<1>5. ASSUME NEW c \in Calls, CallStep(c) PROVE UNCHANGED <<status, waived>>
  BY <1>5 DEF CallStep, Answer, MarkInvoice, StripeFails, UpgradePersist, Sync
<1>6. ASSUME NEW i \in Instances, RefresherStep(i) \/ Restart(i) PROVE UNCHANGED <<status, waived>>
  BY <1>6 DEF RefresherStep, StartCycle, SumUsage, MarkCapped, Unlock, Restart
<1> QED
  BY <1>1, <1>2, <1>3, <1>4, <1>5, <1>6 DEF Next

(* A deleted project stays deleted: set_project_status has the condition   *)
(* status IN ('active', 'suspended'), so an operator, an event, an upgrade *)
(* or a refresher that listed the project before its deletion changes      *)
(* nothing; only a PATCH that checked before it can.                       *)
THEOREM DeletionIsFinal == Spec => DeletedIsFinal
<1>1. ProcInv /\ [Next]_vars =>
        [\A j \in Projects : status[j] = "deleted" /\ status'[j] # "deleted" =>
           \E c \in Calls : at[c] = "patch" /\ job[c].proj = j /\ at'[c] # "patch"]_vars
  <2> SUFFICES ASSUME ProcInv, [Next]_vars, NEW j \in Projects, status[j] = "deleted", status'[j] # "deleted"
               PROVE  \E c \in Calls : at[c] = "patch" /\ job[c].proj = j /\ at'[c] # "patch"
    OBVIOUS
  <2>1. ASSUME NEW p \in Procs, NEW k \in job[p].todo, SetProjectStatus(p, k)
        PROVE  FALSE
    BY <2>1 DEF SetProjectStatus, SetStatus, ProcInv, TypeOK
  <2>2. ASSUME NEW c \in Calls, NEW i \in Instances, NEW k \in Projects, DeleteProject(c, i, k)
        PROVE  FALSE
    BY <2>2 DEF DeleteProject, SetStatus, ProcInv, TypeOK
  <2>3. PICK c \in Calls : Patch(c)
    BY <2>1, <2>2, StatusWritten
  <2>4. at[c] = "patch" /\ at'[c] # "patch"
    BY <2>3 DEF Patch, ProcInv, TypeOK, Procs
  <2>5. job[c].proj = j
    BY <2>3 DEF Patch, SetStatus, ProcInv, TypeOK
  <2> QED
    BY <2>4, <2>5
<1> QED
  BY <1>1, ProcsSound, PTL DEF Spec, DeletedIsFinal

-----------------------------------------------------------------------------
(* A capped account's projects are suspended                               *)

\* Every active project has been made active, or not been suspended, since the
\* account was capped, or is in X.
SuspendedBut(X) == \A j \in Projects : status[j] = "active" => j \in waived \cup X

\* A refresher in its loop has yet to suspend just the projects of its list.
CapInv ==
  /\ billing = "free_cap_exceeded" => SuspendedBut({})
  /\ \A i \in Instances : at[i] = "loop" => SuspendedBut(job[i].todo)

\* Whoever changes a status leaves SuspendedBut as it was.
LEMMA SuspendedStays ==
  ASSUME ProcInv, [Next]_vars, NEW X, SuspendedBut(X)
  PROVE  \A j \in Projects : status'[j] = "active" => j \in waived' \cup X
<1>1. ASSUME NEW k, NEW s, NEW I, SetStatus(k, s, I)
      PROVE  \A j \in Projects : status'[j] = "active" => j \in waived' \cup X
  BY <1>1 DEF SetStatus, SuspendedBut, ProcInv, TypeOK
<1>2. ASSUME NEW p \in Procs, NEW k \in job[p].todo, SetProjectStatus(p, k)
      PROVE  \A j \in Projects : status'[j] = "active" => j \in waived' \cup X
  BY <1>1, <1>2 DEF SetProjectStatus, SuspendedBut
<1>3. ASSUME NEW c \in Calls, NEW i \in Instances, NEW k \in Projects, DeleteProject(c, i, k)
      PROVE  \A j \in Projects : status'[j] = "active" => j \in waived' \cup X
  BY <1>1, <1>3 DEF DeleteProject
<1>4. ASSUME NEW c \in Calls, Patch(c)
      PROVE  \A j \in Projects : status'[j] = "active" => j \in waived' \cup X
  BY <1>1, <1>4 DEF Patch
<1>5. CASE UNCHANGED status /\ waived \subseteq waived'
  BY <1>5 DEF SuspendedBut
<1> QED
  BY <1>2, <1>3, <1>4, <1>5, StatusWritten

\* Only the end of a refresher's loop marks the account.
LEMMA OnlyRefreshersCap ==
  ASSUME ProcInv, [Next]_vars, billing' = "free_cap_exceeded", billing # "free_cap_exceeded"
  PROVE  \E i \in Instances : MarkCapped(i)
<1>1. CASE UNCHANGED vars \/ \E b \in BOOLEAN : Meter(b)
  BY <1>1 DEF vars, Meter
<1>2. ASSUME NEW r \in Requests, RequestStep(r) PROVE FALSE
  BY <1>2 DEF RequestStep, Load, Verify, Reject, billVars
<1>3. ASSUME NEW c \in Calls, NEW i \in Instances, CallStart(c, i) PROVE FALSE
  BY <1>3 DEF CallStart, OperatorStatus, DeleteProject, PatchCheck, Deliver, UpgradeRead, billVars
<1>4. ASSUME NEW p \in Procs, ProcStep(p) \/ FaultStep(p) PROVE FALSE
  BY <1>4
     DEF ProcStep, FaultStep, SetProjectStatus, Evict, ListProjects, StatementFails, SetStatusFails, billVars
<1>5. ASSUME NEW c \in Calls, CallStep(c) PROVE FALSE
  BY <1>5 DEF CallStep, Answer, Patch, MarkInvoice, StripeFails, UpgradePersist, Sync, billVars
<1>6. ASSUME NEW i \in Instances, RefresherStep(i) \/ Restart(i) PROVE MarkCapped(i)
  BY <1>6 DEF RefresherStep, StartCycle, SumUsage, Unlock, Restart, billVars
<1> QED
  BY <1>1, <1>2, <1>3, <1>4, <1>5, <1>6 DEF Next

\* A refresher's list is its own: it is read by ListProjects and shrinks with
\* its own statements.
LEMMA ListKept ==
  ASSUME ProcInv, [Next]_vars, NEW i \in Instances, at'[i] = "loop", ~ListProjects(i),
         ~\E j \in job[i].todo : SetProjectStatus(i, j) \/ SetStatusFails(i, j)
  PROVE  at[i] = "loop" /\ job'[i].todo = job[i].todo
<1> DEFINE Goal == at[i] = "loop" /\ job'[i].todo = job[i].todo
<1>0. /\ i \in Procs /\ i \notin Calls /\ at \in [Procs -> Places] /\ job \in [Procs -> Job]
      /\ \A c \in Calls : c \in Procs /\ c # i
  BY ProcsAssumption DEF Procs, ProcInv, TypeOK
<1>1. CASE UNCHANGED vars \/ \E b \in BOOLEAN : Meter(b)
  BY <1>1 DEF vars, Meter, procVars
<1>2. ASSUME NEW r \in Requests, RequestStep(r) PROVE Goal
  BY <1>2 DEF RequestStep, Load, Verify, Reject, procVars
<1>3. ASSUME NEW c \in Calls, NEW k \in Instances, CallStart(c, k) PROVE Goal
  BY <1>0, <1>3 DEF CallStart, OperatorStatus, DeleteProject, PatchCheck, Deliver, UpgradeRead, Start
<1>4. ASSUME NEW p \in Procs, ProcStep(p) \/ FaultStep(p) PROVE Goal
  <2>1. CASE p # i
    BY <1>0, <1>4, <2>1
       DEF ProcStep, FaultStep, SetProjectStatus, Evict, ListProjects, StatementFails, SetStatusFails, Finish
  <2>2. CASE p = i
    <3>1. Evict(i) \/ StatementFails(i)
      BY <1>4, <2>2 DEF ProcStep, FaultStep
    <3>2. job[i] \in Job
      BY <1>0
    <3> QED
      BY <1>0, <3>1, <3>2 DEF Evict, StatementFails, Finish, Job
  <2> QED
    BY <2>1, <2>2
<1>5. ASSUME NEW c \in Calls, CallStep(c) PROVE Goal
  BY <1>0, <1>5 DEF CallStep, Answer, Patch, MarkInvoice, StripeFails, UpgradePersist, Sync, Finish
<1>6. ASSUME NEW k \in Instances, RefresherStep(k) PROVE Goal
  BY <1>0, <1>6 DEF RefresherStep, StartCycle, SumUsage, MarkCapped, Unlock, Finish
<1>7. ASSUME NEW k \in Instances, Restart(k) PROVE Goal
  <2>1. job[i].inst = Nothing
    BY <1>0 DEF ProcInv, Carries
  <2> QED
    BY <1>0, <1>7, <2>1, NothingAssumption DEF Restart
<1> QED
  BY <1>1, <1>2, <1>3, <1>4, <1>5, <1>6, <1>7 DEF Next

\* Every step keeps that a capped project is suspended, or is being suspended.
LEMMA CapStep ==
  ASSUME ProcInv, CapInv, [Next]_vars
  PROVE  CapInv'
<1>1. ASSUME billing' = "free_cap_exceeded"
      PROVE  SuspendedBut({})'
  <2>1. SuspendedBut({})
    <3>1. CASE billing = "free_cap_exceeded"
      BY <3>1 DEF CapInv
    <3>2. CASE billing # "free_cap_exceeded"
      BY <1>1, <3>2, OnlyRefreshersCap DEF MarkCapped, LoopDone, CapInv
    <3> QED
      BY <3>1, <3>2
  <2> QED
    BY <2>1, SuspendedStays DEF SuspendedBut
<1>2. ASSUME NEW i \in Instances, at'[i] = "loop"
      PROVE  SuspendedBut(job[i].todo)'
  <2>0. i \in Procs /\ job[i] \in Job /\ job \in [Procs -> Job] /\ status \in [Projects -> ProjectStatus]
    BY DEF Procs, ProcInv, TypeOK
  <2>1. CASE at[i] = "loop" /\ job'[i].todo = job[i].todo
    BY <2>1, SuspendedStays DEF SuspendedBut, CapInv
  <2>2. CASE ListProjects(i)
    <3>1. job[i].goal = "suspended" /\ job[i].kind = "refresh"
      BY <2>0, <2>2 DEF ListProjects, ProcInv, Carries
    <3>2. UNCHANGED status /\ job'[i].todo = {j \in Projects : status[j] = "active"}
      BY <2>0, <2>2, <3>1 DEF ListProjects, IsEvent, EventTypes, Job
    <3> QED
      BY <3>2 DEF SuspendedBut
  <2>3. ASSUME NEW k \in job[i].todo, SetProjectStatus(i, k)
        PROVE  SuspendedBut(job[i].todo)'
    <3>1. at[i] = "loop" /\ job[i].goal = "suspended" /\ k \in Projects
      BY <2>0, <2>3 DEF SetProjectStatus, ProcInv, Carries, Job
    <3>2. status'[k] # "active" /\ job'[i].todo = job[i].todo \ {k}
      BY <2>0, <2>3, <3>1 DEF SetProjectStatus, SetStatus, Job
    <3>3. \A j \in Projects : status'[j] = "active" => j \in waived' \cup job[i].todo
      BY <3>1, SuspendedStays DEF CapInv
    <3> QED
      BY <3>2, <3>3 DEF SuspendedBut
  <2>4. ASSUME NEW k \in job[i].todo, SetStatusFails(i, k)
        PROVE  SuspendedBut(job[i].todo)'
    <3>1. at[i] = "loop" /\ k \in waived' /\ job'[i].todo = job[i].todo \ {k}
      BY <2>0, <2>4 DEF SetStatusFails, Job
    <3>2. \A j \in Projects : status'[j] = "active" => j \in waived' \cup job[i].todo
      BY <3>1, SuspendedStays DEF CapInv
    <3> QED
      BY <3>1, <3>2 DEF SuspendedBut
  <2> QED
    BY <1>2, <2>1, <2>2, <2>3, <2>4, ListKept
<1> QED
  BY <1>1, <1>2 DEF CapInv

(* run_cycle suspends the projects first and marks the subscription last:  *)
(* in a capped account an active project has been made active since, or    *)
(* its suspension failed, whatever operators, events, upgrades and the     *)
(* other instances' refreshers did in between.                             *)
THEOREM CappedAreSuspended == Spec => []CappedMeansSuspended
<1>1. Init => CapInv
  BY DEF Init, CapInv, Procs
<1>2. CapInv => CappedMeansSuspended
  BY DEF CapInv, SuspendedBut, CappedMeansSuspended
<1>3. ProcInv /\ CapInv /\ [Next]_vars => CapInv'
  BY CapStep
<1> QED
  BY <1>1, <1>2, <1>3, ProcsSound, PTL DEF Spec

-----------------------------------------------------------------------------
(* What a credential cache holds                                           *)

\* Why instance i may hold a project, or be about to insert it.
Explained(i, j) == Servable(status[j]) \/ EvictionPending(i, j) \/ <<i, j>> \in excused

\* Project j is in the cache of instance i, or on its way there.
Held(i, j) == j \in cache[i] \/ Verifying(i, j)

\* CacheExplained says it of the entries; an entry that a request is about to
\* insert must be explained as well.
CacheInv == \A i \in Instances, j \in Projects : Held(i, j) => Explained(i, j)

\* Process p carries out its eviction of j on instance i.
EvictsThere(i, j) == \E p \in Procs : Evict(p) /\ Where(p) = i /\ job[p].evict = j

\* No step but the eviction itself, or a restart, forgets a pending eviction.
LEMMA EvictionsKept ==
  ASSUME ProcInv, [Next]_vars, NEW p \in Procs, job[p].evict # Nothing,
         ~Evict(p), ~\E i \in Instances : Restart(i) /\ Where(p) = i
  PROVE  job'[p] = job[p]
<1> DEFINE Goal == job'[p] = job[p]
<1>0. /\ at \in [Procs -> Places] /\ job \in [Procs -> Job] /\ at[p] = "loop"
      /\ \A c \in Calls : c \in Procs
      /\ \A i \in Instances : i \in Procs
  BY DEF Procs, ProcInv, TypeOK, Carries
<1>1. CASE UNCHANGED vars \/ \E b \in BOOLEAN : Meter(b)
  BY <1>1 DEF vars, Meter, procVars
<1>2. ASSUME NEW r \in Requests, RequestStep(r) PROVE Goal
  BY <1>2 DEF RequestStep, Load, Verify, Reject, procVars
<1>3. ASSUME NEW c \in Calls, NEW k \in Instances, CallStart(c, k) PROVE Goal
  BY <1>0, <1>3 DEF CallStart, OperatorStatus, DeleteProject, PatchCheck, Deliver, UpgradeRead, Start
<1>4. ASSUME NEW q \in Procs, ProcStep(q) \/ FaultStep(q) PROVE Goal
  BY <1>0, <1>4
     DEF ProcStep, FaultStep, SetProjectStatus, Evict, ListProjects, StatementFails, SetStatusFails,
         LoopDone, Finish
<1>5. ASSUME NEW c \in Calls, CallStep(c) PROVE Goal
  BY <1>0, <1>5 DEF CallStep, Answer, Patch, MarkInvoice, StripeFails, UpgradePersist, Sync, LoopDone, Finish
<1>6. ASSUME NEW k \in Instances, RefresherStep(k) PROVE Goal
  BY <1>0, <1>6 DEF RefresherStep, StartCycle, SumUsage, MarkCapped, Unlock, LoopDone, Finish
<1>7. ASSUME NEW k \in Instances, Restart(k) PROVE Goal
  <2>1. p # k /\ job[p].inst # k
    BY <1>0, <1>7, NothingAssumption DEF Where, ProcInv, Carries
  <2> QED
    BY <1>0, <1>7, <2>1 DEF Restart
<1> QED
  BY <1>1, <1>2, <1>3, <1>4, <1>5, <1>6, <1>7 DEF Next

\* So the eviction stays pending, on the instance where it was.
LEMMA PendingKept ==
  ASSUME ProcInv, [Next]_vars, NEW i \in Instances, NEW j \in Projects, EvictionPending(i, j),
         ~EvictsThere(i, j), ~Restart(i)
  PROVE  EvictionPending(i, j)'
<1>1. PICK p \in Procs : job[p].evict = j /\ Where(p) = i
  BY DEF EvictionPending
<1>2. job'[p] = job[p]
  BY <1>1, EvictionsKept, NothingAssumption DEF EvictsThere
<1> QED
  BY <1>1, <1>2 DEF EvictionPending, Where

\* A statement that makes a project unservable is followed by an eviction on
\* the instances it does not excuse.
LEMMA ChangeAnnounced ==
  ASSUME ProcInv, [Next]_vars, NEW i \in Instances, NEW j \in Projects,
         Servable(status[j]), ~Servable(status'[j])
  PROVE  EvictionPending(i, j)' \/ <<i, j>> \in excused'
<1> DEFINE Goal == EvictionPending(i, j)' \/ <<i, j>> \in excused'
<1>0. /\ at \in [Procs -> Places] /\ job \in [Procs -> Job] /\ status \in [Projects -> ProjectStatus]
      /\ \A c \in Calls : c \in Procs /\ c \notin Instances
  BY ProcsAssumption DEF Procs, ProcInv, TypeOK
<1>1. ASSUME NEW k, NEW s, NEW I, SetStatus(k, s, I)
      PROVE  k = j /\ (i \notin I => <<i, j>> \in excused')
  BY <1>0, <1>1 DEF SetStatus
<1>2. ASSUME NEW p \in Procs, NEW k \in job[p].todo, SetProjectStatus(p, k)
      PROVE  Goal
  <2>1. SetStatus(k, job[p].goal, {Where(p)}) /\ job' = [job EXCEPT ![p].todo = @ \ {k}, ![p].evict = k]
    BY <1>2 DEF SetProjectStatus
  <2>2. job[p] \in Job
    BY <1>0
  <2>3. job'[p].evict = k /\ job'[p].inst = job[p].inst
    BY <1>0, <2>1, <2>2 DEF Job
  <2>4. k = j /\ (i # Where(p) => <<i, j>> \in excused')
    BY <1>1, <2>1
  <2>5. Where(p)' = Where(p)
    BY <2>3 DEF Where
  <2>6. i = Where(p) => EvictionPending(i, j)'
    BY <2>3, <2>4, <2>5 DEF EvictionPending
  <2> QED
    BY <2>4, <2>6
<1>3. ASSUME NEW c \in Calls, NEW x \in Instances, NEW k \in Projects, DeleteProject(c, x, k)
      PROVE  Goal
  <2>1. SetStatus(k, "deleted", {x}) /\ job'[c].evict = k /\ job'[c].inst = x
    BY <1>0, <1>3 DEF DeleteProject, Start, NoJob
  <2> QED
    BY <1>0, <1>1, <2>1 DEF EvictionPending, Where
<1>4. ASSUME NEW c \in Calls, Patch(c)
      PROVE  Goal
  <2> DEFINE k == job[c].proj
             s == IF job[c].goal = Keep THEN status[k] ELSE job[c].goal
  <2>1. CASE job[c].kind = "patch"
    <3>1. job[c] \in Job
      BY <1>0
    <3>2. SetStatus(k, s, {Where(c)}) /\ job'[c].evict = k /\ job'[c].inst = job[c].inst
      BY <1>0, <1>4, <2>1, <3>1 DEF Patch, Job
    <3> HIDE DEF k, s
    <3> QED
      BY <1>0, <1>1, <3>2 DEF EvictionPending, Where
  <2>2. CASE job[c].kind # "patch"
    <3>1. SetStatus(k, s, {})
      BY <1>4, <2>2 DEF Patch
    <3> QED
      BY <1>1, <3>1
  <2> QED
    BY <2>1, <2>2
<1> QED
  BY <1>2, <1>3, <1>4, StatusWritten

\* Only an eviction and a restart take an excuse back.
LEMMA ExcusesKept ==
  ASSUME ProcInv, [Next]_vars, NEW i \in Instances, NEW j \in Projects, <<i, j>> \in excused,
         ~EvictsThere(i, j), ~Restart(i)
  PROVE  <<i, j>> \in excused'
<1> DEFINE Goal == <<i, j>> \in excused'
<1>1. CASE UNCHANGED vars \/ \E b \in BOOLEAN : Meter(b)
  BY <1>1 DEF vars, Meter
<1>2. ASSUME NEW r \in Requests, RequestStep(r) PROVE Goal
  BY <1>2 DEF RequestStep, Load, Verify, Reject
<1>3. ASSUME NEW c \in Calls, NEW k \in Instances, CallStart(c, k) PROVE Goal
  BY <1>3 DEF CallStart, OperatorStatus, DeleteProject, SetStatus, PatchCheck, Deliver, UpgradeRead
<1>4. ASSUME NEW q \in Procs, ProcStep(q) \/ FaultStep(q) PROVE Goal
  <2>1. CASE Evict(q)
    BY <2>1 DEF Evict, EvictsThere
  <2>2. CASE ~Evict(q)
    BY <1>4, <2>2 DEF ProcStep, FaultStep, SetProjectStatus, SetStatus, ListProjects, StatementFails, SetStatusFails
  <2> QED
    BY <2>1, <2>2
<1>5. ASSUME NEW c \in Calls, CallStep(c) PROVE Goal
  BY <1>5 DEF CallStep, Answer, Patch, SetStatus, MarkInvoice, StripeFails, UpgradePersist, Sync
<1>6. ASSUME NEW k \in Instances, RefresherStep(k) PROVE Goal
  BY <1>6 DEF RefresherStep, StartCycle, SumUsage, MarkCapped, Unlock
<1>7. ASSUME NEW k \in Instances, Restart(k) PROVE Goal
  BY <1>7 DEF Restart
<1> QED
  BY <1>1, <1>2, <1>3, <1>4, <1>5, <1>6, <1>7 DEF Next

\* A project comes to a cache by a request that has seen it servable.
LEMMA HeldFrom ==
  ASSUME ProcInv, [Next]_vars, NEW i \in Instances, NEW j \in Projects, Held(i, j)', ~Held(i, j)
  PROVE  Servable(status[j]) /\ UNCHANGED status
<1> DEFINE Goal == Servable(status[j]) /\ UNCHANGED status
<1>0. req \in [Requests -> Verification] /\ cache \in [Instances -> SUBSET Projects]
  BY DEF ProcInv, TypeOK
<1>1. CASE UNCHANGED <<cache, req>>
  BY <1>1 DEF Held, Verifying
<1>2. ASSUME NEW r \in Requests, NEW x \in Instances, NEW k \in Projects, Load(r, x, k) PROVE Goal
  <2>1. \A q \in Requests \ {r} : req'[q] = req[q]
    BY <1>0, <1>2 DEF Load
  <2>2. req'[r] = [inst |-> x, proj |-> k] /\ UNCHANGED <<cache, status>> /\ Servable(status[k])
    BY <1>0, <1>2 DEF Load
  <2>3. req'[r] = [inst |-> i, proj |-> j]
    BY <2>1, <2>2 DEF Held, Verifying
  <2>4. k = j
    BY <2>2, <2>3
  <2> QED
    BY <2>2, <2>4
<1>3. ASSUME NEW r \in Requests, Verify(r) PROVE Goal
  <2>1. req[r] # NoRequest /\ req[r] \in [inst : Instances, proj : Projects]
    BY <1>0, <1>3 DEF Verify, Verification
  <2>2. PICK S \in AfterInsert(cache[req[r].inst], req[r].proj) : cache' = [cache EXCEPT ![req[r].inst] = S]
    BY <1>3 DEF Verify
  <2>3. S \subseteq cache[req[r].inst] \cup {req[r].proj}
    BY <2>2, AfterInsertBounds
  <2>4. \A q \in Requests \ {r} : req'[q] = req[q]
    BY <1>0, <1>3 DEF Verify
  <2>5. req'[r] = NoRequest /\ [inst |-> i, proj |-> j] # NoRequest
    BY <1>0, <1>3, NothingAssumption DEF Verify, NoRequest
  <2>6. ~Verifying(i, j)'
    BY <2>4, <2>5 DEF Held, Verifying
  <2>7. j \in cache'[i] /\ j \notin cache[i]
    BY <2>6 DEF Held
  <2>8. req[r].inst = i /\ req[r].proj = j
    BY <1>0, <2>1, <2>2, <2>3, <2>7
  <2>9. req[r] = [inst |-> i, proj |-> j]
    BY <2>1, <2>8
  <2> QED
    BY <2>9 DEF Held, Verifying
<1>4. ASSUME NEW r \in Requests, Reject(r) PROVE Goal
  <2>1. \A q \in Requests \ {r} : req'[q] = req[q]
    BY <1>0, <1>4 DEF Reject
  <2>2. req'[r] = NoRequest /\ [inst |-> i, proj |-> j] # NoRequest /\ UNCHANGED cache
    BY <1>0, <1>4, NothingAssumption DEF Reject, NoRequest
  <2> QED
    BY <2>1, <2>2 DEF Held, Verifying
<1>5. ASSUME NEW p \in Procs, Evict(p) PROVE Goal
  <2>1. UNCHANGED req /\ j \notin cache[i] /\ ~Verifying(i, j)
    BY <1>5 DEF Evict, Held
  <2>2. j \notin cache'[i]
    BY <1>0, <1>5, <2>1 DEF Evict
  <2> QED
    BY <2>1, <2>2 DEF Held, Verifying
<1>6. ASSUME NEW k \in Instances, Restart(k) PROVE Goal
  <2>1. j \notin cache'[i]
    BY <1>0, <1>6 DEF Restart, Held
  <2>2. ASSUME NEW q \in Requests PROVE req'[q] # [inst |-> i, proj |-> j]
    <3>1. req'[q] = NoRequest \/ req'[q] = req[q]
      BY <1>0, <1>6 DEF Restart
    <3>2. [inst |-> i, proj |-> j] # NoRequest
      BY NothingAssumption DEF NoRequest
    <3> QED
      BY <3>1, <3>2 DEF Held, Verifying
  <2> QED
    BY <2>1, <2>2 DEF Held, Verifying
<1>7. ASSUME NEW p \in Procs, ProcStep(p) \/ FaultStep(p), ~Evict(p) PROVE UNCHANGED <<cache, req>>
  BY <1>7 DEF ProcStep, FaultStep, SetProjectStatus, ListProjects, StatementFails, SetStatusFails
<1>8. ASSUME NEW c \in Calls, NEW k \in Instances, CallStart(c, k) PROVE UNCHANGED <<cache, req>>
  BY <1>8 DEF CallStart, OperatorStatus, DeleteProject, PatchCheck, Deliver, UpgradeRead
<1>9. ASSUME NEW c \in Calls, CallStep(c) PROVE UNCHANGED <<cache, req>>
  BY <1>9 DEF CallStep, Answer, Patch, MarkInvoice, StripeFails, UpgradePersist, Sync
<1>10. ASSUME NEW k \in Instances, RefresherStep(k) PROVE UNCHANGED <<cache, req>>
  BY <1>10 DEF RefresherStep, StartCycle, SumUsage, MarkCapped, Unlock
<1>11. CASE UNCHANGED vars \/ \E b \in BOOLEAN : Meter(b)
  BY <1>1, <1>11 DEF vars, Meter
<1> QED
  BY <1>1, <1>2, <1>3, <1>4, <1>5, <1>6, <1>7, <1>8, <1>9, <1>10, <1>11 DEF Next, RequestStep

\* Every step keeps every cached credential explained.
LEMMA CacheStep ==
  ASSUME ProcInv, CacheInv, [Next]_vars
  PROVE  CacheInv'
<1> SUFFICES ASSUME NEW i \in Instances, NEW j \in Projects, Held(i, j)'
             PROVE  Explained(i, j)'
  BY DEF CacheInv
<1>0. req \in [Requests -> Verification] /\ cache \in [Instances -> SUBSET Projects]
  BY DEF ProcInv, TypeOK
<1>1. CASE EvictsThere(i, j)
  <2>1. PICK p \in Procs : Evict(p) /\ Where(p) = i /\ job[p].evict = j
    BY <1>1 DEF EvictsThere
  <2>2. j \notin cache'[i] /\ UNCHANGED req
    BY <1>0, <2>1 DEF Evict
  <2>3. Verifying(i, j)
    BY <2>2 DEF Held, Verifying
  <2> QED
    BY <2>1, <2>3 DEF Evict, Explained
<1>2. CASE Restart(i)
  <2>1. j \notin cache'[i]
    BY <1>0, <1>2 DEF Restart
  <2>2. ASSUME NEW q \in Requests, req'[q] = [inst |-> i, proj |-> j] PROVE FALSE
    <3>1. CASE req[q].inst = i
      BY <1>2, <2>2, <3>1, NothingAssumption DEF Restart, NoRequest
    <3>2. CASE req[q].inst # i
      BY <1>2, <2>2, <3>2 DEF Restart
    <3> QED
      BY <3>1, <3>2
  <2> QED
    BY <2>1, <2>2 DEF Held, Verifying
<1>3. CASE ~EvictsThere(i, j) /\ ~Restart(i)
  <2>1. CASE ~Held(i, j)
    BY <2>1, HeldFrom DEF Explained
  <2>2. CASE Held(i, j)
    <3>1. CASE Servable(status[j])
      BY <3>1, ChangeAnnounced DEF Explained
    <3>2. CASE EvictionPending(i, j) \/ <<i, j>> \in excused
      BY <1>3, <3>2, PendingKept, ExcusesKept DEF Explained
    <3> QED
      BY <2>2, <3>1, <3>2 DEF CacheInv, Explained
  <2> QED
    BY <2>1, <2>2
<1> QED
  BY <1>1, <1>2, <1>3

(* authenticate, evict_project: an instance has a suspended or deleted     *)
(* project in its cache only while the process that changed the status     *)
(* there still has to evict it, or for one of the three excuses.           *)
THEOREM CacheIsExplained == Spec => []CacheExplained
<1>1. Init => CacheInv
  <2>1. ASSUME NEW i \in Instances, NEW j \in Projects, Init PROVE ~Held(i, j)
    BY <2>1, NothingAssumption DEF Init, Held, Verifying, NoRequest
  <2> QED
    BY <2>1 DEF CacheInv
<1>2. ProcInv /\ CacheInv => CacheExplained
  BY DEF CacheInv, Held, Explained, CacheExplained, ProcInv, TypeOK
<1>3. ProcInv /\ CacheInv /\ [Next]_vars => CacheInv'
  BY CacheStep
<1> QED
  BY <1>1, <1>2, <1>3, ProcsSound, PTL DEF Spec
=============================================================================
