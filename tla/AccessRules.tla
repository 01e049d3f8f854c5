----------------------------- MODULE AccessRules -----------------------------
(***************************************************************************)
(* The access rules of one project and the requests they gate: defining a  *)
(* rule, importing a rules file (admin/handlers/access_rules.rs), and the  *)
(* gRPC handlers that look a rule up, read what it needs, evaluate it and  *)
(* only then read or write documents (grpc/handler.rs, write_stream.rs).   *)
(*                                                                         *)
(* Every statement against the system database or the backend is a step    *)
(* of its own: rules and documents change between the steps of a request.  *)
(* The rate limiter, authenticate and the suspended check come before the  *)
(* first step and change nothing here (modules Onboarding and Tenancy); a  *)
(* request they refuse never starts.                                       *)
(***************************************************************************)
EXTENDS RulePatterns

CONSTANTS
    Files,       \* the rules files there are to import: the blocks of each
    Conds,       \* conditions an admin defines directly
    Importers,   \* admin calls; each is made once
    Requests,    \* SDK requests; each is made once, or is a Write stream
    Users,       \* end users
    Kinds,       \* which handlers each request calls
    Docs,        \* the documents requests are about: paths, as sequences of names
    InitDocs,    \* the documents there are at first
    Batches,     \* the sets of documents that batched requests are about
    Probes,      \* the paths the properties ask about
    MaxFaults,   \* how many statements fail (a bound)
    MaxBatches   \* how many batches a Write stream sends (a bound)

Handlers == {"get", "create", "update", "delete", "list", "batchGet", "query",
             "aggregate", "group", "commit", "batchWrite", "stream"}

ASSUME KindsAssumption == Kinds \in [Requests -> SUBSET Handlers]
ASSUME ProcsAssumption == Importers \cap Requests = {}
ASSUME PathsAssumption ==
    \A p \in Docs \cup Probes : p \in Seq(STRING) /\ Len(p) % 2 = 0 /\ p # << >>
ASSUME FilesAssumption == Files \subseteq Seq(Blocks)
ASSUME DocsAssumption ==
    InitDocs \subseteq [Docs -> {Absent} \cup Users] /\ Batches \subseteq SUBSET Docs
ASSUME FaultsAssumption == MaxFaults \in Nat /\ MaxBatches \in Nat

VARIABLES
    exact,     \* access_rules, write_access_rules, group rules: table -> collection -> {} or {c}
    patterns,  \* access_rule_patterns
    docs,      \* the owner field of every document, or Absent
    at,        \* per admin call and request: where it is
    job,       \* per admin call: its locals
    req,       \* per request: its locals
    faults,    \* how many statements have failed
    raced,     \* history: requests of which something they had read was changed by
               \* another one, and calls during which another one changed a rule
    overlapped \* history: two imports were under way at the same time

vars == <<exact, patterns, docs, at, job, req, faults, raced, overlapped>>
stores == <<exact, patterns, docs>>

Procs == Importers \cup Requests
Tables == {"read", "write", "group"}
Collection(p) == Front(p)
Collections == {Collection(p) : p \in Docs}
\* The names of collections, for rules about collection groups.
Groups == {<<Last(c)>> : c \in Collections}
\* The collections that the files have rules for.
Named == {<<b.segs[1][2]>> : b \in {x \in UNION {Range(file) : file \in Files} :
                                       x.segs # << >> /\ x.segs[1][1] = "lit"}}
RuleKeys == Collections \cup Groups \cup Named

UnderWay(x) == at[x] \notin {"idle", "done"}

NoJob == [file |-> << >>, targets |-> << >>, n |-> 1]
NoReq == [kind |-> "none", user |-> Absent, owner |-> Absent, todo |-> {}, path |-> << >>,
          rule |-> {}, routed |-> FALSE, bind |-> << >>, doc |-> Absent,
          cache |-> << >>, seen |-> << >>, granted |-> {}, filter |-> {}, sent |-> 0]

Init ==
    /\ exact = [t \in Tables |-> [c \in RuleKeys |-> {}]]
    /\ patterns = {}
    /\ docs \in InitDocs
    /\ at = [x \in Procs |-> "idle"]
    /\ job = [i \in Importers |-> NoJob]
    /\ req = [r \in Requests |-> NoReq]
    /\ faults = 0
    /\ raced = {}
    /\ overlapped = FALSE

\* A process ends; its locals are gone.
EndCall(i) == at' = [at EXCEPT ![i] = "done"] /\ job' = [job EXCEPT ![i] = NoJob]
EndRequest(r) == at' = [at EXCEPT ![r] = "done"] /\ req' = [req EXCEPT ![r] = NoReq]

-----------------------------------------------------------------------------
(* What a request goes by                                                  *)

WriteKinds == {"create", "update", "delete", "commit", "batchWrite", "stream"}
BatchKinds == {"commit", "batchWrite", "stream"}
QueryKinds == {"query", "aggregate", "group"}
\* The handlers that go on to the patterns when a collection has no rule.
RoutedKinds == {"get", "create", "update", "delete"}

GetAccessRule(p) == exact["read"][Collection(p)]
GetWriteAccessRule(p) == exact["write"][Collection(p)]
GetGroupAccessRule(p) == exact["group"][<<Last(Collection(p))>>]

\* The exact rule that the handler looks up for a document, in its table.
RuleOf(r, p) ==
    CASE req[r].kind \in WriteKinds -> GetWriteAccessRule(p)
      [] req[r].kind = "group" -> GetGroupAccessRule(p)
      [] OTHER -> GetAccessRule(p)

Longest(rows) == {row \in rows : \A other \in rows : Len(other.segs) <= Len(row.segs)}

\* The rows of a set that rule path p: the fixed patterns, or else the deepest
\* recursive ones.
Ruling(rows, p) ==
    LET fixed == {row \in rows : ~row.rec /\ BindAncestor(row.segs, Collection(p))} IN
    IF fixed # {} THEN fixed
    ELSE Longest({row \in rows : row.rec /\ BindRecursivePrefix(row.segs, p)})

\* The document that a cross-document read asks for: the user's own, in the
\* first collection.
MemberDoc(u) == <<"a", u>>

\* Where a request has a document in hand that it has not decided about.
Looking == {"route", "recursive", "fetch", "check"}

\* History: the documents whose collection's rule a request has looked up, those
\* for which it has looked for a pattern, and those that it has read, the ones
\* its rule asks for included.
RulesRead(r) == req[r].granted \cup (IF at[r] \in Looking THEN {req[r].path} ELSE {})

PatternsRead(r) ==
    IF req[r].kind \notin RoutedKinds THEN {}
    ELSE req[r].granted
           \cup (IF at[r] \in {"recursive", "check"} \/ (at[r] = "fetch" /\ req[r].kind # "get")
                 THEN {req[r].path} ELSE {})

DocsRead(r) ==
    (CASE at[r] = "filter" -> req[r].todo
       [] at[r] = "check" \/ (at[r] \in Looking \ {"fetch"} /\ req[r].kind = "get") -> {req[r].path}
       [] OTHER -> {})
      \cup (IF req[r].kind \in QueryKinds THEN {} ELSE req[r].granted)
      \cup (IF req[r].kind \in {"get", "create", "update"} /\ req[r].granted # {}
            THEN {MemberDoc(req[r].user)} \cap Docs ELSE {})

\* A step of somebody else changes something that request r has read.
Overtaken(r) ==
    \/ \E p \in RulesRead(r) : RuleOf(r, p)' # RuleOf(r, p)
    \/ \E c \in DOMAIN req[r].cache : exact'["read"][c] # exact["read"][c]
    \/ \E p \in PatternsRead(r) : RuleOf(r, p) = {} /\ Ruling(patterns, p)' # Ruling(patterns, p)
    \/ \E p \in DocsRead(r) : docs'[p] # docs[p]

\* Process x changes rules or documents.
Overtakes(x) == {r \in Requests \ {x} : Overtaken(r)}

\* Admin call i changes a rule.
Disturb(i) == raced' = raced \cup Overtakes(i) \cup {k \in Importers \ {i} : UnderWay(k)}

-----------------------------------------------------------------------------
(* Defining rules                                                          *)

\* One upsert of a rule, with its history entry, in one transaction; a condition
\* that does not parse never gets there.
DefineRule(i, t, c, cond) ==
    /\ at[i] = "idle"
    /\ ParseCondition(cond)
    /\ exact' = [exact EXCEPT ![t][c] = {cond}]
    /\ at' = [at EXCEPT ![i] = "done"]
    /\ UNCHANGED <<patterns, docs, job, req, faults, overlapped>>
    /\ Disturb(i)

DefineAccessRule(i, c, cond) == c \in Collections /\ DefineRule(i, "read", c, cond)
DefineWriteAccessRule(i, c, cond) == c \in Collections /\ DefineRule(i, "write", c, cond)
\* validate_bare_collection_id
DefineGroupAccessRule(i, c, cond) == c \in Groups /\ DefineRule(i, "group", c, cond)

\* The rows an import writes, in order, two for each block: a collection's read
\* and write rule, or one row for a pattern; the value {} is nothing to write.
PutsOf(targets) ==
    [n \in 1 .. 2 * Len(targets) |->
       LET t == targets[(n + 1) \div 2]
           first == n % 2 = 1 IN
       IF SingleCollection(t)
       THEN [table |-> IF first THEN "read" ELSE "write", key |-> <<t.segs[1][2]>>,
             value |-> IF first THEN t.read ELSE t.write]
       ELSE [table |-> "pattern", key |-> t.segs, value |-> IF first THEN {t} ELSE {}]]

Puts(i) == PutsOf(job[i].targets)

\* The file is parsed and decomposed, and its patterns are compared with each
\* other, before anything is read from or written to the database.
ImportRulesFile(i, file) ==
    LET d == Decompose(file) IN
    /\ at[i] = "idle"
    /\ IF d.ok /\ ~IntraFileOverlap(d.targets)
       THEN /\ at' = [at EXCEPT ![i] = "fixed"]
            /\ job' = [job EXCEPT ![i] = [NoJob EXCEPT !.file = file, !.targets = d.targets]]
       ELSE EndCall(i)
    /\ overlapped' = (overlapped \/ \E k \in Importers \ {i} : UnderWay(k))
    /\ UNCHANGED <<stores, req, faults, raced>>

\* list_access_rule_patterns_by_skeleton
BySkeleton(segs) ==
    {row \in patterns : /\ ~row.rec
                        /\ Len(row.segs) = Len(segs)
                        /\ LiteralSkeleton(row.segs) = LiteralSkeleton(segs)}

FixedTarget(t) == ~t.rec /\ ~SingleCollection(t)

\* The fixed patterns against the stored ones, one query for each of them.
CheckFixed(i) ==
    /\ at[i] = "fixed"
    /\ \E k \in job[i].n .. Len(job[i].targets) :
         LET t == job[i].targets[k] IN
         /\ FixedTarget(t) /\ \A j \in job[i].n .. k - 1 : ~FixedTarget(job[i].targets[j])
         /\ IF ClashesWithStored(t, BySkeleton(t.segs)) THEN EndCall(i)
            ELSE at' = at /\ job' = [job EXCEPT ![i].n = k + 1]
    /\ UNCHANGED <<stores, req, faults, raced, overlapped>>

\* The next row to write is the first one from n on with a value; without one
\* the import is done.
PutFrom(i, n) ==
    \/ /\ \A k \in n .. Len(Puts(i)) : Puts(i)[k].value = {}
       /\ EndCall(i)
    \/ \E k \in n .. Len(Puts(i)) :
         /\ Puts(i)[k].value # {} /\ \A j \in n .. k - 1 : Puts(i)[j].value = {}
         /\ at' = [at EXCEPT ![i] = "get"] /\ job' = [job EXCEPT ![i].n = k]

NextPut(i) == PutFrom(i, job[i].n + 1)

\* One query for all stored patterns: the new recursive ones against all of
\* them, and the new fixed ones against the recursive ones.
CheckRecursive(i) ==
    LET targets == job[i].targets
        new == {k \in DOMAIN targets : ~SingleCollection(targets[k])}
        clash == \E k \in new :
                    ClashesWithStored(targets[k], {row \in patterns : targets[k].rec \/ row.rec})
    IN
    /\ at[i] = "fixed"
    /\ \A k \in job[i].n .. Len(targets) : ~FixedTarget(targets[k])
    /\ IF clash THEN EndCall(i) ELSE PutFrom(i, 1)
    /\ UNCHANGED <<stores, req, faults, raced, overlapped>>

\* Mutant of AlreadyCurrent: the write condition is not compared.
AlreadyCurrentByRead(put) ==
    IF put.table = "pattern"
    THEN \A t \in put.value : \E row \in patterns : SameText(row, t) /\ row.read = t.read
    ELSE exact[put.table][put.key] = put.value

\* What is stored under the key of a put is what the file says.
AlreadyCurrent(put) ==
    IF put.table = "pattern" THEN put.value \subseteq patterns
    ELSE exact[put.table][put.key] = put.value

\* The stored row is read; the same condition is not stored again.
ImportGet(i) ==
    LET put == Puts(i)[job[i].n] IN
    /\ at[i] = "get"
    /\ IF AlreadyCurrent(put) THEN NextPut(i)
       ELSE at' = [at EXCEPT ![i] = "put"] /\ job' = job
    /\ UNCHANGED <<stores, req, faults, raced, overlapped>>

\* The upsert, in a transaction of its own.
ImportPut(i) ==
    LET put == Puts(i)[job[i].n] IN
    /\ at[i] = "put"
    /\ IF put.table = "pattern"
       THEN /\ patterns' = {row \in patterns : \A t \in put.value : ~SameText(row, t)} \cup put.value
            /\ exact' = exact
       ELSE /\ exact' = [exact EXCEPT ![put.table][put.key] = put.value]
            /\ patterns' = patterns
    /\ NextPut(i)
    /\ UNCHANGED <<docs, req, faults, overlapped>>
    /\ Disturb(i)

\* A statement fails: the call ends where it is, and what it stored stays.
ImportFails(i) ==
    /\ UnderWay(i)
    /\ faults < MaxFaults
    /\ faults' = faults + 1
    /\ EndCall(i)
    /\ UNCHANGED <<stores, req, raced, overlapped>>

-----------------------------------------------------------------------------
(* Evaluation and routing                                                  *)

\* One test of a condition: on an absent user or value it fails.
Test(t, x) ==
    /\ x.user # Absent
    /\ CASE t[1] = "auth" -> TRUE
         [] t[1] = "owner" -> x.doc = x.user
         [] t[1] = "req" -> x.owner = x.user
         [] t[1] = "member" -> x.member
         [] t[1] = "path" -> x.user = (IF t[2] \in DOMAIN x.bind THEN x.bind[t[2]] ELSE x.leaf)
         [] OTHER -> FALSE

Evaluate(c, x) == \A t \in c : Test(t, x)

IsMember(u) == MemberDoc(u) \in Docs /\ docs[MemberDoc(u)] # Absent
Crosses(c) == <<"member">> \in c

FixedMatches(coll) == {row \in BySkeleton(Concrete(coll)) : BindAncestor(row.segs, coll)}
RecursiveMatches(p) == {row \in patterns : row.rec /\ BindRecursivePrefix(row.segs, p)}

\* Two rows of the same length; the scan sees the tie unless a longer row came
\* first, and the rows come in no order.
Tied(rows) == \E a, b \in rows : a # b /\ Len(a.segs) = Len(b.segs)

\* The rows that the scan of the recursive patterns may choose; two at once
\* stand for a refusal.
RecursiveOutcomes(rows) ==
    LET best == Longest(rows) IN
    (IF Cardinality(best) <= 1 THEN {best} ELSE {})
        \cup (IF Tied(rows) THEN {{a, b} : a \in rows, b \in rows} \ {{a} : a \in rows} ELSE {})

\* The static check of a query: a user, and for the owner test a filter on the
\* user's own name.
Complies(c, filter, u) ==
    \A t \in c : u # Absent /\ (t[1] = "auth" \/ (t[1] = "owner" /\ filter = {u}))

-----------------------------------------------------------------------------
(* The steps of a request                                                  *)

\* The request has passed the limiter and authentication, and its end user is
\* known or none (attach_client_identity_if_present never refuses).
Enter(r, kind, P, u, o, f) ==
    /\ at[r] = "idle" /\ kind \in Kinds[r]
    /\ req' = [req EXCEPT ![r] = [NoReq EXCEPT !.kind = kind, !.user = u, !.owner = o,
                                               !.todo = P, !.filter = f]]
    /\ at' = [at EXCEPT ![r] = CASE kind = "stream" -> "open"
                                 [] kind = "list" -> "scan"
                                 [] OTHER -> "lookup"]
    /\ UNCHANGED <<stores, job, faults, raced, overlapped>>

GetDocument(r, p, u) == Enter(r, "get", {p}, u, Absent, {})

\* The collection is the request's collection_id alone, whatever document its
\* parent names.
Created(p) == <<Last(Collection(p)), Last(p)>>
CreateDocument(r, p, u, o) == Created(p) \in Docs /\ Enter(r, "create", {Created(p)}, u, o, {})

UpdateDocument(r, p, u, o) == Enter(r, "update", {p}, u, o, {})
DeleteDocument(r, p, u) == Enter(r, "delete", {p}, u, Absent, {})
BatchGetDocuments(r, P, u) == P # {} /\ Enter(r, "batchGet", P, u, Absent, {})
Commit(r, P, u, o) == Enter(r, "commit", P, u, o, {})
BatchWrite(r, P, u, o) == P # {} /\ Enter(r, "batchWrite", P, u, o, {})
Write(r, u) == Enter(r, "stream", {}, u, Absent, {})

ListDocuments(r, c, u) == Enter(r, "list", {p \in Docs : Collection(p) = c}, u, Absent, {})

\* RunQuery and RunAggregationQuery check the query against the rule and read
\* the documents after; both of them over one collection or a collection group.
RunQuery(r, c, u, f) == Enter(r, "query", {p \in Docs : Collection(p) = c}, u, Absent, f)
RunAggregationQuery(r, c, u, f) ==
    Enter(r, "aggregate", {p \in Docs : Collection(p) = c}, u, Absent, f)
RunGroupQuery(r, c, u, f) == Enter(r, "group", {p \in Docs : Last(Collection(p)) = c[1]}, u, Absent, f)

\* A message of the Write stream, under the user of the handshake.
WriteMessage(r, P, o) ==
    /\ at[r] = "open"
    /\ req[r].sent < MaxBatches
    /\ req' = [req EXCEPT ![r].todo = P, ![r].owner = o, ![r].sent = @ + 1, ![r].granted = {}]
    /\ at' = [at EXCEPT ![r] = "lookup"]
    /\ UNCHANGED <<stores, job, faults, raced, overlapped>>

\* A stale stream token, or the client hangs up.
StreamEnds(r) ==
    /\ at[r] = "open"
    /\ EndRequest(r)
    /\ UNCHANGED <<stores, job, faults, raced, overlapped>>

\* ListDocuments reads the documents of the collection first ...
Scan(r) ==
    /\ at[r] = "scan"
    /\ req' = [req EXCEPT ![r].seen = [p \in req[r].todo |-> docs[p]]]
    /\ at' = [at EXCEPT ![r] = "filter"]
    /\ UNCHANGED <<stores, job, faults, raced, overlapped>>

\* ... and its rule after, which has no path variable and no other documents.
FilterList(r) ==
    LET Shown(p) ==
          /\ req[r].seen[p] # Absent
          /\ \A c \in RuleOf(r, p) :
               Evaluate(c, [user |-> req[r].user, doc |-> req[r].seen[p], owner |-> Absent,
                            bind |-> << >>, leaf |-> Absent, member |-> FALSE]) IN
    /\ at[r] = "filter"
    /\ req' = [req EXCEPT ![r].granted = {p \in req[r].todo : Shown(p)}]
    /\ at' = [at EXCEPT ![r] = "act"]
    /\ UNCHANGED <<stores, job, faults, raced, overlapped>>

\* Where a request goes once it knows its rule: a document is read only for a
\* rule to look at, but always by a read.
RuleKnown(r, rule) ==
    IF req[r].kind = "batchGet" \/ (rule # {} /\ req[r].kind # "create")
    THEN "fetch" ELSE "check"

\* The rule of a document's collection; batchGet looks it up once for all
\* documents of the collection.
Lookup(r, p) ==
    LET c == Collection(p)
        caches == req[r].kind = "batchGet"
        rule == IF caches /\ c \in DOMAIN req[r].cache THEN req[r].cache[c] ELSE RuleOf(r, p)
    IN
    /\ at[r] = "lookup" /\ p \in req[r].todo /\ req[r].kind \notin QueryKinds
    /\ req' = [req EXCEPT
         ![r].path = p, ![r].rule = rule, ![r].routed = FALSE, ![r].bind = << >>,
         ![r].cache = IF caches
                      THEN [d \in DOMAIN @ \cup {c} |-> IF d = c THEN rule ELSE req[r].cache[d]]
                      ELSE @]
    /\ at' = [at EXCEPT ![r] =
                CASE req[r].kind = "get" -> "fetch"
                  [] rule = {} /\ req[r].kind \in {"create", "update", "delete"} -> "route"
                  [] OTHER -> RuleKnown(r, rule)]
    /\ UNCHANGED <<stores, job, faults, raced, overlapped>>

\* The one row of a set.
TheRow(rows) == CHOOSE row \in rows : TRUE

\* The condition of the one row that matches, if there is one.
Rowed(r, rows) ==
    LET row == TheRow(rows)
        rule == IF req[r].kind = "get" THEN row.read ELSE row.write IN
    /\ req' = [req EXCEPT ![r].rule = rule, ![r].routed = TRUE,
                          ![r].bind = Bindings(row.segs, req[r].path)]
    /\ at' = [at EXCEPT ![r] = IF req[r].kind = "get" THEN "check" ELSE RuleKnown(r, rule)]

\* resolve_access_rule_pattern, the fixed patterns: two matches are a refusal.
RouteFixed(r) ==
    LET rows == FixedMatches(Collection(req[r].path)) IN
    /\ at[r] = "route"
    /\ CASE rows = {} -> req' = req /\ at' = [at EXCEPT ![r] = "recursive"]
         [] Cardinality(rows) = 1 -> Rowed(r, rows)
         [] OTHER -> EndRequest(r)
    /\ UNCHANGED <<stores, job, faults, raced, overlapped>>

\* resolve_access_rule_pattern, the recursive patterns: no match leaves the
\* request unrestricted.
RouteRecursive(r) ==
    /\ at[r] = "recursive"
    /\ \E rows \in RecursiveOutcomes(RecursiveMatches(req[r].path)) :
         CASE rows = {} -> req' = req /\ at' = [at EXCEPT ![r] = "check"]
           [] Cardinality(rows) = 1 -> Rowed(r, rows)
           [] OTHER -> EndRequest(r)
    /\ UNCHANGED <<stores, job, faults, raced, overlapped>>

\* The document is read for the evaluation.  get reads it before it looks for a
\* pattern.
Fetch(r) ==
    /\ at[r] = "fetch"
    /\ req' = [req EXCEPT ![r].doc = docs[req[r].path]]
    /\ at' = [at EXCEPT ![r] = IF req[r].kind = "get" /\ req[r].rule = {}
                               THEN "route" ELSE "check"]
    /\ UNCHANGED <<stores, job, faults, raced, overlapped>>

\* What the handlers evaluate a condition on.  The document's id is the value of
\* the path variable, and the document of a write is the one proposed.
PlainContext(r) ==
    [user |-> req[r].user, doc |-> req[r].doc, owner |-> req[r].owner, bind |-> req[r].bind,
     leaf |-> Last(req[r].path), member |-> FALSE]

\* get fetches the documents that the condition asks for.
GetContext(r) == [PlainContext(r) EXCEPT !.member = IsMember(req[r].user)]

\* create has no stored document to show; a pattern's condition gets no others.
CreateContext(r) ==
    [PlainContext(r) EXCEPT !.doc = Absent, !.member = ~req[r].routed /\ IsMember(req[r].user)]

UpdateContext(r) ==
    [PlainContext(r) EXCEPT !.member = ~req[r].routed /\ IsMember(req[r].user)]

DeleteContext(r) == PlainContext(r)

\* batchGet has no value for the path variable.
BatchGetContext(r) == [PlainContext(r) EXCEPT !.leaf = Absent]

\* evaluate_write_rule_for_commit
CommitContext(r) == PlainContext(r)

Context(r) ==
    CASE req[r].kind = "get" -> GetContext(r)
      [] req[r].kind = "create" -> CreateContext(r)
      [] req[r].kind = "update" -> UpdateContext(r)
      [] req[r].kind = "delete" -> DeleteContext(r)
      [] req[r].kind = "batchGet" -> BatchGetContext(r)
      [] OTHER -> CommitContext(r)

\* The condition is evaluated, the documents it asks for being read just now.
\* A write that is denied ends the request, except in a BatchWrite.
Check(r) ==
    LET ok == \A c \in req[r].rule : Evaluate(c, Context(r))
        rest == req[r].todo \ {req[r].path} IN
    /\ at[r] = "check"
    /\ IF ~ok /\ req[r].kind \in WriteKinds \ {"batchWrite"} THEN EndRequest(r)
       ELSE /\ req' = [req EXCEPT ![r].todo = rest,
                                  ![r].granted = IF ok THEN @ \cup {req[r].path} ELSE @]
            /\ at' = [at EXCEPT ![r] = IF rest = {} THEN "act" ELSE "lookup"]
    /\ UNCHANGED <<stores, job, faults, raced, overlapped>>

\* Mutant of CheckQuery: a group query without a rule is unrestricted.
CheckQueryOpen(r) ==
    /\ at[r] = "lookup" /\ req[r].kind \in QueryKinds
    /\ req' = [req EXCEPT ![r].granted = {p \in req[r].todo :
                  \A c \in RuleOf(r, p) : Complies(c, req[r].filter, req[r].user)}]
    /\ at' = [at EXCEPT ![r] = "act"]
    /\ UNCHANGED <<stores, job, faults, raced, overlapped>>

\* The check of a query.  A group query needs a rule; without an exact rule any
\* other query is unrestricted.
CheckQuery(r) ==
    LET Admits(p) == /\ req[r].kind = "group" => RuleOf(r, p) # {}
                     /\ \A c \in RuleOf(r, p) : Complies(c, req[r].filter, req[r].user) IN
    /\ at[r] = "lookup" /\ req[r].kind \in QueryKinds
    /\ req' = [req EXCEPT ![r].granted = {p \in req[r].todo : Admits(p)}]
    /\ at' = [at EXCEPT ![r] = "act"]
    /\ UNCHANGED <<stores, job, faults, raced, overlapped>>

-----------------------------------------------------------------------------
(* What a request does once it is allowed                                  *)

\* The documents in P are written in one statement; a delete proposes nothing.
Store(r, P) ==
    /\ docs' = [p \in Docs |-> IF p \in P THEN req[r].owner ELSE docs[p]]
    /\ UNCHANGED <<exact, patterns, job, faults, overlapped>>
    /\ raced' = raced \cup Overtakes(r)

\* The documents that a request shows or writes: a query runs only now.
Concerned(r) ==
    IF req[r].kind \notin QueryKinds THEN req[r].granted
    ELSE {p \in req[r].granted : docs[p] # Absent /\ \A o \in req[r].filter : docs[p] = o}

\* A read answers with those documents.
Answer(r) ==
    /\ at[r] = "act" /\ EndRequest(r)
    /\ UNCHANGED <<stores, job, faults, raced, overlapped>>

AnswerRead(r) == req[r].kind \in {"get", "list", "batchGet"} /\ Answer(r)
AnswerQuery(r) == req[r].kind \in QueryKinds /\ Answer(r)

\* create is refused if the document is there.
ApplyCreate(r) ==
    /\ req[r].kind = "create" /\ at[r] = "act" /\ EndRequest(r)
    /\ IF docs[req[r].path] # Absent THEN UNCHANGED <<stores, job, faults, raced, overlapped>>
       ELSE Store(r, req[r].granted)

\* update without a precondition creates the document as well.
ApplyUpdate(r) ==
    /\ req[r].kind = "update" /\ at[r] = "act" /\ EndRequest(r)
    /\ Store(r, req[r].granted)

ApplyDelete(r) ==
    /\ req[r].kind = "delete" /\ at[r] = "act" /\ EndRequest(r)
    /\ Store(r, req[r].granted)

\* Commit: all writes in one transaction.
ApplyCommit(r) ==
    /\ req[r].kind = "commit"
    /\ at[r] = "act" /\ EndRequest(r)
    /\ Store(r, req[r].granted)

\* A batch of the Write stream is a transaction too; the stream goes on.
ApplyBatch(r) ==
    /\ req[r].kind = "stream" /\ at[r] = "act"
    /\ at' = [at EXCEPT ![r] = "open"]
    /\ req' = [req EXCEPT ![r] = [NoReq EXCEPT !.kind = "stream", !.user = req[r].user,
                                               !.sent = req[r].sent]]
    /\ Store(r, req[r].granted)

\* BatchWrite: every write in a transaction of its own, whatever became of the
\* others.
ApplyNext(r) ==
    /\ req[r].kind = "batchWrite" /\ at[r] = "act"
    /\ IF req[r].granted = {}
       THEN EndRequest(r) /\ UNCHANGED <<stores, job, faults, raced, overlapped>>
       ELSE \E p \in req[r].granted :
              /\ req' = [req EXCEPT ![r].granted = @ \ {p}]
              /\ at' = at
              /\ Store(r, {p})

\* An empty list of documents, an empty Commit, or a batch with nothing in it.
NothingToCheck(r) ==
    /\ at[r] = "lookup" /\ req[r].todo = {} /\ req[r].kind \notin QueryKinds
    /\ at' = [at EXCEPT ![r] = "act"]
    /\ UNCHANGED <<stores, job, req, faults, raced, overlapped>>

Call(i) ==
    \/ \E c \in Collections \cup Groups, cond \in Conds :
         \/ DefineAccessRule(i, c, cond) \/ DefineWriteAccessRule(i, c, cond)
         \/ DefineGroupAccessRule(i, c, cond)
    \/ \E file \in Files : ImportRulesFile(i, file)
    \/ CheckFixed(i) \/ CheckRecursive(i) \/ ImportGet(i) \/ ImportPut(i)

Serve(r) ==
    \/ \E p \in Docs, u \in Users \cup {Absent} :
         \/ GetDocument(r, p, u) \/ DeleteDocument(r, p, u)
         \/ \E o \in Users : CreateDocument(r, p, u, o) \/ UpdateDocument(r, p, u, o)
    \/ \E P \in Batches, u \in Users \cup {Absent} :
         \/ BatchGetDocuments(r, P, u)
         \/ \E o \in Users \cup {Absent} : Commit(r, P, u, o) \/ BatchWrite(r, P, u, o)
    \/ \E u \in Users \cup {Absent} : Write(r, u)
    \/ \E c \in Collections, u \in Users \cup {Absent} :
         \/ ListDocuments(r, c, u)
         \/ \E f \in {{}} \cup {{o} : o \in Users} :
               RunQuery(r, c, u, f) \/ RunAggregationQuery(r, c, u, f)
    \/ \E c \in Groups, u \in Users \cup {Absent}, f \in {{}} \cup {{o} : o \in Users} :
         RunGroupQuery(r, c, u, f)
    \/ \E P \in Batches, o \in Users \cup {Absent} : WriteMessage(r, P, o)
    \/ StreamEnds(r)
    \/ Scan(r) \/ FilterList(r) \/ \E p \in Docs : Lookup(r, p)
    \/ RouteFixed(r) \/ RouteRecursive(r) \/ Fetch(r) \/ Check(r) \/ CheckQuery(r)
    \/ AnswerRead(r) \/ AnswerQuery(r) \/ ApplyCreate(r) \/ ApplyUpdate(r) \/ ApplyDelete(r)
    \/ ApplyCommit(r) \/ ApplyBatch(r) \/ ApplyNext(r)
    \/ NothingToCheck(r)

Next == (\E i \in Importers : Call(i) \/ ImportFails(i)) \/ (\E r \in Requests : Serve(r))

Spec == Init /\ [][Next]_vars

-----------------------------------------------------------------------------
(* Simulation of a pattern before it is imported                           *)

\* A fixed candidate is only matched against the path; its last segment is
\* taken for the leaf, whatever it is.
SimulatedFixed(segs, p) == IF BindAncestor(Front(segs), Collection(p)) THEN "candidate" ELSE "none"

\* Mutant of SimulatedRecursive: the stored fixed patterns are not asked.
SimulatedAmongRecursive(prefix, p) ==
    CASE ~BindRecursivePrefix(prefix, p) -> "none"
      [] \E row \in RecursiveMatches(p) : Len(row.segs) >= Len(prefix) -> "stored"
      [] OTHER -> "candidate"

\* simulate_recursive_wildcard_candidate: a stored fixed pattern, or a recursive
\* one that reaches as deep, rules the path before the candidate does.
SimulatedRecursive(prefix, p) ==
    CASE ~BindRecursivePrefix(prefix, p) -> "none"
      [] /\ BindRecursivePrefix(prefix, p)
         /\ \/ FixedMatches(Collection(p)) # {}
            \/ \E row \in RecursiveMatches(p) : Len(row.segs) >= Len(prefix) -> "stored"
      [] OTHER -> "candidate"

\* simulate_routed_access_rule: which pattern it says would rule path p, were
\* one with the segments segs, as they are written, stored.
SimulatedWinner(segs, p) ==
    CASE Last(segs) = Rec -> SimulatedRecursive(Front(segs), p)
      [] Last(segs) # Rec /\ Len(segs) < 2 -> "refused"
      [] OTHER -> SimulatedFixed(segs, p)

-----------------------------------------------------------------------------
(* Properties                                                              *)

\* Whatever was imported, in part or twice, no path is ruled by two patterns,
\* so that routing never refuses a request for ambiguity: only two imports under
\* way at the same time, whose checks miss each other, can bring that about.
Unambiguous == ~overlapped => \A p \in Probes : Cardinality(Ruling(patterns, p)) <= 1

\* The condition that governs what request r does to document p: its
\* collection's rule, or else the pattern's that rules it.
Governing(r, p) ==
    LET rows == Ruling(patterns, p) IN
    IF RuleOf(r, p) # {} \/ rows = {} THEN RuleOf(r, p)
    ELSE IF req[r].kind \in WriteKinds THEN TheRow(rows).write ELSE TheRow(rows).read

Permitted(r, p) ==
    LET rows == Ruling(patterns, p)
        routed == RuleOf(r, p) = {} /\ rows # {}
        x == [user |-> req[r].user, doc |-> IF req[r].kind = "create" THEN Absent ELSE docs[p],
              owner |-> req[r].owner, leaf |-> Last(p), member |-> IsMember(req[r].user),
              bind |-> IF routed THEN Bindings(TheRow(rows).segs, p) ELSE << >>]
    IN  /\ req[r].kind = "group" => RuleOf(r, p) # {}
        /\ \A c \in Governing(r, p) : Evaluate(c, x)

\* The handlers that never ask for patterns, on a document that one of them
\* rules: it goes unchecked.
Unrouted(r, p) ==
    /\ req[r].kind \notin RoutedKinds \cup {"group"}
    /\ RuleOf(r, p) = {} /\ Ruling(patterns, p) # {}

\* A handler looks up its rule, the document and the documents the rule reads
\* in separate statements, with any steps of others in between.  Unless one of
\* them changed something that the request had read by then, every document it
\* shows or writes is one that the governing rule allows, evaluated on the
\* present documents; a group query without a rule shows nothing.  Only a
\* document that a pattern rules and no rule of its collection does is shown or
\* written unchecked by the handlers that leave patterns out.
ActsAsPermitted ==
    [][\A r \in Requests \ raced :
         at[r] = "act" /\ (at'[r] # "act" \/ docs' # docs) =>
             \A p \in Concerned(r) : Permitted(r, p) \/ Unrouted(r, p)]_vars

\* What is stored under the key of a put.
Holds(put, rows, rules) ==
    IF put.table = "pattern" THEN put.value \subseteq rows
    ELSE put.value = {} \/ rules[put.table][put.key] = put.value

\* An import that reports success has stored what every block of its file says
\* (the last of two blocks for a collection), rules it found unchanged and did
\* not store included, unless another admin changed rules meanwhile.
ImportedAsWritten ==
    [][\A i \in Importers \ raced :
         at[i] \in {"get", "put"} /\ at'[i] = "done" /\ faults' = faults =>
            LET blocks == job[i].file
                puts == PutsOf([k \in DOMAIN blocks |-> DecomposeBlock(blocks[k])]) IN
            \A k \in DOMAIN puts :
                \/ Holds(puts[k], patterns', exact')
                \/ \E l \in DOMAIN puts : /\ l > k /\ puts[l].value # {}
                                         /\ puts[l].table = puts[k].table
                                         /\ puts[l].key = puts[k].key]_vars

\* The rule of a path's collection, which is looked up before any pattern.
ExactRule(p) == IF Collection(p) \in RuleKeys THEN GetAccessRule(p) ELSE {}

\* What rules path p once pattern t is stored.
RoutedTo(t, p) ==
    CASE ExactRule(p) # {} -> "exact"
      [] ExactRule(p) = {} /\ t \in Ruling(patterns \cup {t}, p) -> "candidate"
      [] OTHER -> IF t.rec /\ BindRecursivePrefix(t.segs, p) THEN "stored" ELSE "none"

\* Where the simulation is mistaken: a block without a leaf, of which it takes
\* the last collection for one, and a path whose collection has a rule.
Unforeseen(block, p) ==
    (Len(block.segs) % 2 = 1 /\ ~Recursive(block)) \/ ExactRule(p) # {}

\* While nobody else is at work, what the simulation says of a pattern that
\* could be imported is what routing does once it is: the candidate rules a
\* path when the simulation says so.
SimulationForetells ==
    (\A x \in Procs : ~UnderWay(x)) => \A file \in Files :
        LET targets == Decompose(file).targets IN
        \A k \in DOMAIN targets :
            (/\ ~SingleCollection(targets[k])
             /\ ~ClashesWithStored(targets[k], patterns)
             /\ \A row \in patterns : ~SameText(row, targets[k])) =>
               \A p \in Probes :
                   \/ SimulatedWinner(file[k].segs, p) = RoutedTo(targets[k], p)
                   \/ Unforeseen(file[k], p)
=============================================================================
