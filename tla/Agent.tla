------------------------------- MODULE Agent -------------------------------
(***************************************************************************)
(* A project whose documents stay in the customer's network: embyr-server  *)
(* talks to embyr-agent over gRPC.  The server's adapter                   *)
(* (adapters/agent_backend.rs) turns writes, filters and page requests     *)
(* into the agent's messages; the agent (embyr-agent/src/server.rs) turns  *)
(* them back and runs them on its Postgres, statement by statement.  A     *)
(* Subscribe stream is fed by two tasks (notify_bridge.rs and the filter   *)
(* task of subscribe), each with a channel of bounded size behind it.      *)
(*                                                                         *)
(* What commit_transaction does inside its SQL transaction is the subject  *)
(* of the module Transactions; here it is one step.  Queries, which change *)
(* nothing, are in the module AgentQueries.                                *)
(***************************************************************************)
EXTENDS Integers, Sequences, FiniteSets, SequencesExt

CONSTANTS
    Docs,         \* documents, each in a collection of its own, in name order
    Wanted,       \* the documents of the collection that is subscribed to
    Passed,       \* the documents whose name contains that collection's path
    Fields,       \* field names
    Absent,       \* no field, or no document
    InitDocs,     \* what is in the database when the agent starts
    Commits,      \* the batches of writes that are committed
    Workers,      \* requests that the server forwards at the same time
    Subs,         \* Subscribe calls
    ChannelSize,  \* 64
    PageMax,      \* 100
    Menu,         \* what the first request may be, the second, ... (a bound)
    MaxFaults     \* how often a statement or a connection fails (a bound)

\* The fields of a document, a precondition, the requests and the writes, as
\* their types allow them: only an update has fields, a transform has no
\* precondition and a delete no transforms.  The transforms of a write are the
\* fields that it increments.
Stored == [Fields -> Int \cup {Absent}]
Contents == Stored \cup {Absent}
Preconditions == {<<"none">>, <<"exists">>, <<"absent">>} \cup ({"time"} \X Nat)
Requests ==
    {r \in [kind : {"create", "update", "delete", "list", "begin"}, doc : Docs \cup {Absent},
            fields : Contents, mask : SUBSET Fields, pre : Preconditions,
            limit : Nat, offset : Nat, ids : {<< >>}, token : {0}] :
        /\ r.kind \in {"create", "update", "delete"} => r.doc \in Docs
        /\ r.kind \in {"create", "update"} => r.fields \in Stored}
Writes ==
    [op : {"update"}, doc : Docs, fields : Stored, pre : Preconditions, inc : SUBSET Fields]
      \cup [op : {"delete"}, doc : Docs, fields : {Absent}, pre : Preconditions, inc : {{}}]
      \cup [op : {"transform"}, doc : Docs, fields : {Absent}, pre : {<<"none">>}, inc : SUBSET Fields]

ASSUME DocsAssumption ==
    /\ Docs \subseteq Nat /\ IsFiniteSet(Docs)
    /\ Wanted \subseteq Passed /\ Passed \subseteq Docs
ASSUME DataAssumption ==
    /\ InitDocs \subseteq [Docs -> Contents]
    /\ \A batch \in Commits : batch \subseteq Writes
    /\ Menu \in Seq(SUBSET Requests)
ASSUME SizeAssumption == {ChannelSize, PageMax} \subseteq Nat \ {0}
ASSUME BoundAssumption == MaxFaults \in Nat

VARIABLES
    docs,    \* documents: the fields, or Absent
    ver,     \* documents.version
    txn,     \* transactions: the status of the one that is open
    life,    \* of the agent: probing, up, draining, exited
    at,      \* per worker: the next step of its request
    call,    \* per worker: the locals of its request
    calls,   \* how many requests were sent
    faults,  \* how many failures there were
    told,    \* the version of a document at its last NOTIFY
    raced,   \* history: workers whose document or listing changed under them
    sub      \* per Subscribe call: its two tasks, its channels and its client

vars == <<docs, ver, txn, life, at, call, calls, faults, told, raced, sub>>

NoCall == [kind |-> "none", doc |-> Absent, fields |-> Absent, mask |-> {}, pre |-> <<"none">>,
           limit |-> 0, offset |-> 0, ids |-> << >>, token |-> 0]

\* The tasks of a subscription: bridge and filter say what they do next, queue
\* is what Postgres has for the listener, mid and out are the channels, item is
\* the change in the bridge's hands and held the one in the filter's.
NoSub == [bridge |-> "off", filter |-> "off", client |-> "off", queue |-> << >>, mid |-> << >>,
          out |-> << >>, item |-> Absent, held |-> Absent, overflow |-> FALSE,
          seen |-> [p \in Docs |-> 0], late |-> 0]

Reset == <<"reset">>
Change(p, v) == <<"change", p, v>>

Init ==
    /\ docs \in InitDocs
    /\ ver = [p \in Docs |-> IF docs[p] = Absent THEN 0 ELSE 1]
    /\ told = ver
    /\ txn = "none"
    /\ life = "probing"
    /\ at = [w \in Workers |-> "idle"]
    /\ call = [w \in Workers |-> NoCall]
    /\ calls = 0 /\ faults = 0 /\ raced = {}
    /\ sub = [s \in Subs |-> NoSub]

-----------------------------------------------------------------------------
(* The agent's life                                                        *)

\* StartupProbe: Postgres answers, a NOTIFY comes back, the certificate is good
\* for a day; the port is bound only after that.
StartupProbe(ok) ==
    /\ life = "probing"
    /\ life' = IF ok THEN "up" ELSE "failed"
    /\ UNCHANGED <<docs, ver, txn, at, call, calls, faults, told, raced, sub>>

\* SIGTERM: no new requests; those under way go on.
Sigterm ==
    /\ life = "up"
    /\ life' = "draining"
    /\ UNCHANGED <<docs, ver, txn, at, call, calls, faults, told, raced, sub>>

\* serve_with_incoming_shutdown returns when every response has ended.
ShutdownComplete ==
    /\ life = "draining"
    /\ \A w \in Workers : at[w] = "idle"
    /\ \A s \in Subs : sub[s].client \in {"off", "gone", "ended"}
    /\ life' = "exited"
    /\ sub' = [s \in Subs |-> NoSub]
    /\ UNCHANGED <<docs, ver, txn, at, call, calls, faults, told, raced>>

-----------------------------------------------------------------------------
(* Requests about documents                                                *)

Goto(w, step) == at' = [at EXCEPT ![w] = step]

\* Whatever the agent answers but NotFound to a get, the adapter reports as
\* BackendUnavailable; the answer may get lost as well.  The locals are gone.
Answer(w) == Goto(w, "idle") /\ call' = [call EXCEPT ![w] = NoCall]

Begin(w, step, request) ==
    /\ life = "up" /\ at[w] = "idle"
    /\ calls < Len(Menu)
    /\ calls' = calls + 1
    /\ Goto(w, step)
    /\ call' = [call EXCEPT ![w] = request]
    /\ raced' = raced \ {w}
    /\ UNCHANGED <<docs, ver, txn, life, faults, told, sub>>

CreateDocument(w, request) == request.kind = "create" /\ Begin(w, "insert", request)

\* The server sends no mask; the agent's own clients may.
UpdateDocument(w, request) ==
    /\ request.kind = "update"
    /\ Begin(w, IF request.mask = {} THEN "insert" ELSE "merge", request)

DeleteDocument(w, request) == request.kind = "delete" /\ Begin(w, "delete", request)

\* The fields of the mask as the request has them, gone when it has none.
Merged(current, f, mask) == [x \in Fields |-> IF x \in mask THEN f[x] ELSE current[x]]

\* The document is read, merged and written back in a later statement.
MergeMask(w) ==
    LET c == call[w] IN
    /\ at[w] = "merge"
    /\ IF docs[c.doc] = Absent THEN Answer(w)
       ELSE /\ Goto(w, "insert")
            /\ call' = [call EXCEPT ![w].fields = Merged(docs[c.doc], c.fields, c.mask)]
    /\ UNCHANGED <<docs, ver, txn, life, calls, faults, told, raced, sub>>

\* Document p gets the fields f; others at work on it are overtaken.
Store(w, p, f) ==
    /\ docs' = [docs EXCEPT ![p] = f]
    /\ ver' = [ver EXCEPT ![p] = @ + 1]
    /\ raced' = raced \cup {x \in Workers \ {w} : call[x].doc = p \/ call[x].kind = "list"}

\* The precondition of a write, on the rows that are not deleted.
Satisfied(pre, p) ==
    CASE pre[1] = "exists" -> docs[p] # Absent
      [] pre[1] = "absent" -> docs[p] = Absent
      [] pre[1] = "time" -> docs[p] # Absent /\ ver[p] = pre[2]
      [] OTHER -> TRUE

\* A row that was deleted is in the way of an INSERT of its key.
Insertable(pre, p) == pre[1] = "absent" => ver[p] = 0

WriteDocument(w) ==
    LET c == call[w] IN
    /\ at[w] = "insert"
    /\ IF Satisfied(c.pre, c.doc) /\ Insertable(c.pre, c.doc)
       THEN Store(w, c.doc, c.fields) /\ Goto(w, "notify") /\ call' = call
       ELSE Answer(w) /\ UNCHANGED <<docs, ver, raced>>
    /\ UNCHANGED <<txn, life, calls, faults, told, sub>>

\* delete_document does not look at the precondition; the answer to an absent
\* document does.
DeleteRow(w) ==
    LET c == call[w] IN
    /\ at[w] = "delete"
    /\ IF docs[c.doc] # Absent
       THEN Store(w, c.doc, Absent) /\ Goto(w, "notify") /\ call' = call
       ELSE Answer(w) /\ UNCHANGED <<docs, ver, raced>>
    /\ UNCHANGED <<txn, life, calls, faults, told, sub>>

\* send_notify: a statement of its own, for every session that listens.  The
\* document is read once more for the answer, which changes nothing.
SendNotify(w) ==
    LET p == call[w].doc IN
    /\ at[w] = "notify"
    /\ told' = [told EXCEPT ![p] = ver[p]]
    /\ sub' = [s \in Subs |-> IF sub[s].bridge \in {"off", "ended"} THEN sub[s]
                              ELSE [sub[s] EXCEPT !.queue = Append(@, p)]]
    /\ Answer(w)
    /\ UNCHANGED <<docs, ver, txn, life, calls, faults, raced>>

\* A failed NOTIFY is not an error.
NotifyFails(w) ==
    /\ at[w] = "notify" /\ faults < MaxFaults
    /\ faults' = faults + 1
    /\ Answer(w)
    /\ UNCHANGED <<docs, ver, txn, life, calls, told, raced, sub>>

-----------------------------------------------------------------------------
(* Transactions                                                            *)

BeginTransaction(w, request) ==
    /\ request.kind = "begin" /\ txn = "none"
    /\ Begin(w, "begin", request)

InsertTransaction(w) ==
    /\ at[w] = "begin"
    /\ txn' = "active"
    /\ Answer(w)
    /\ UNCHANGED <<docs, ver, life, calls, faults, told, raced, sub>>

\* field_transform_to_agent and translate_field_transforms
AgentTransforms(w) == {[fieldPath |-> x, type |-> "increment"] : x \in w.inc}
DomainTransforms(a) == {t.fieldPath : t \in a}

\* Write -> AgentWrite: the operation, its precondition and its transforms.
AgentWrite(w) ==
    CASE w.op = "update" -> [operation |-> "update", document |-> <<w.doc, w.fields>>,
                             current |-> w.pre, transforms |-> AgentTransforms(w)]
      [] w.op = "delete" -> [operation |-> "delete", document |-> <<w.doc>>,
                             current |-> w.pre, transforms |-> {}]
      [] OTHER -> [operation |-> "transform", document |-> <<w.doc>>,
                   current |-> <<"none">>, transforms |-> AgentTransforms(w)]

\* Mutant of DomainWrite: the precondition of a write is forgotten.
DomainWriteUnchecked(a) ==
    [op |-> a.operation, doc |-> a.document[1], pre |-> <<"none">>,
     fields |-> IF a.operation = "update" THEN a.document[2] ELSE Absent,
     inc |-> DomainTransforms(a.transforms)]

\* proto_write_to_domain
DomainWrite(a) ==
    [op |-> a.operation, doc |-> a.document[1], pre |-> a.current,
     fields |-> IF a.operation = "update" THEN a.document[2] ELSE Absent,
     inc |-> DomainTransforms(a.transforms)]

Empty == [x \in Fields |-> Absent]

\* What a write leaves of its document.  A transform starts from the fields of the
\* update it is part of, and from what is stored if that has no such field.
Written(w, before) ==
    LET stored == IF before = Absent THEN Empty ELSE before
        seeded == [x \in Fields |->
                     IF w.op = "update" /\ (x \notin w.inc \/ w.fields[x] # Absent)
                     THEN w.fields[x] ELSE stored[x]]
        Up(v) == IF v = Absent THEN 1 ELSE v + 1 IN
    IF w.op = "delete" THEN Absent
    ELSE [x \in Fields |-> IF x \in w.inc THEN Up(seeded[x]) ELSE seeded[x]]

\* The documents after a batch, at most one write for each.
Committed(batch, before) ==
    [p \in Docs |-> IF \E w \in batch : w.doc = p
                    THEN Written(CHOOSE w \in batch : w.doc = p, before[p]) ELSE before[p]]

\* Commit sends no NOTIFY.  Reads of the transaction were not recorded: the
\* agent's messages carry no transaction for them.
Commit(batch) ==
    LET writes == {DomainWrite(AgentWrite(w)) : w \in batch} IN
    /\ life = "up" /\ txn = "active"
    /\ \A w \in writes : Satisfied(w.pre, w.doc)
    /\ docs' = Committed(writes, docs)
    /\ ver' = [p \in Docs |-> IF \E w \in writes : w.doc = p /\ (w.op # "delete" \/ ver[p] > 0)
                              THEN ver[p] + 1 ELSE ver[p]]
    /\ raced' = raced \cup Workers
    /\ txn' = "committed"
    /\ UNCHANGED <<life, at, call, calls, faults, told, sub>>

\* rollback_transaction, or AgentTransactionSweeper after a minute: the row is
\* gone or no longer active.
EndTransaction ==
    /\ txn = "active"
    /\ txn' = "ended"
    /\ UNCHANGED <<docs, ver, life, at, call, calls, faults, told, raced, sub>>

-----------------------------------------------------------------------------
(* Listings                                                                *)

\* A listing reads page after page of the agent until there is no more or
\* there are enough.
ListCollectionIds(w, request) ==
    request.kind = "list" /\ Begin(w, "page", [request EXCEPT !.token = request.offset])

\* The members of S in ascending order: the i-th is the one that i are not above.
Ascending(S) ==
    [i \in 1..Cardinality(S) |-> CHOOSE p \in S : Cardinality({q \in S : q <= p}) = i]

CollectionIds == Ascending({p \in Docs : docs[p] # Absent})

\* ORDER BY child_id LIMIT limit OFFSET offset
Rows(limit, offset) ==
    SubSeq(CollectionIds, offset + 1,
           IF offset + limit < Len(CollectionIds) THEN offset + limit ELSE Len(CollectionIds))

\* Mutant of AgentPage: no row is fetched beyond the page.
AgentPageExact(token) ==
    [ids |-> Rows(PageMax, token), next |-> IF Len(Rows(PageMax, token)) > PageMax THEN token + PageMax ELSE 0]

\* list_collection_ids of the agent: one row more than the page tells whether
\* there is another.
AgentPage(token) ==
    LET rows == Rows(PageMax + 1, token) IN
    IF Len(rows) > PageMax THEN [ids |-> SubSeq(rows, 1, PageMax), next |-> token + PageMax]
    ELSE [ids |-> rows, next |-> 0]

FetchPage(w) ==
    LET c == call[w]
        page == AgentPage(c.token)
        collected == c.ids \o page.ids IN
    /\ at[w] = "page"
    /\ call' = [call EXCEPT ![w].ids = collected, ![w].token = page.next]
    /\ Goto(w, IF page.next = 0 \/ Len(collected) >= c.limit THEN "listed" ELSE "page")
    /\ UNCHANGED <<docs, ver, txn, life, calls, faults, told, raced, sub>>

Truncated(ids, limit) == SubSeq(ids, 1, IF limit < Len(ids) THEN limit ELSE Len(ids))

AnswerListing(w) ==
    /\ at[w] = "listed"
    /\ Answer(w)
    /\ UNCHANGED <<docs, ver, txn, life, calls, faults, told, raced, sub>>

\* The connection between server and agent breaks: the server reports an
\* error and never tries again, the agent drops the handler where it is.
CallLost(w) ==
    /\ at[w] # "idle" /\ faults < MaxFaults
    /\ faults' = faults + 1
    /\ Answer(w)
    /\ UNCHANGED <<docs, ver, txn, life, calls, told, raced, sub>>

-----------------------------------------------------------------------------
(* Subscribe                                                               *)

Set(s, r) ==
    /\ sub' = [sub EXCEPT ![s] = r]
    /\ UNCHANGED <<docs, ver, txn, life, at, call, calls, told, raced>>

\* LISTEN comes first, then the two tasks start and the client reads what it
\* wants to know about.
Subscribe(s) ==
    /\ life = "up" /\ sub[s].client = "off"
    /\ Set(s, [NoSub EXCEPT !.bridge = "recv", !.filter = "recv", !.client = "reading", !.seen = ver])
    /\ UNCHANGED faults

\* The task takes a notification; after an overflow a RESET goes first.
BridgeReceive(s) ==
    LET b == sub[s] IN
    /\ b.bridge = "recv" /\ b.queue # << >>
    /\ Set(s, [b EXCEPT !.bridge = IF b.overflow THEN "reset" ELSE "translate",
                        !.overflow = FALSE,
                        !.late = IF b.filter = "ended" THEN @ + 1 ELSE @])
    /\ UNCHANGED faults

\* Mutant of BridgeReset: the task does not wait for room and does not look
\* whether anybody still receives.
BridgeResetTried(s) ==
    LET b == sub[s] IN
    /\ b.bridge = "reset"
    /\ Set(s, [b EXCEPT !.bridge = "translate",
                        !.mid = IF b.filter # "ended" /\ Len(@) < ChannelSize
                                THEN Append(@, Reset) ELSE @])
    /\ UNCHANGED faults

\* send waits for room; without a receiver the task ends.
BridgeReset(s) ==
    LET b == sub[s] IN
    /\ b.bridge = "reset"
    /\ \/ b.filter = "ended" /\ Set(s, [b EXCEPT !.bridge = "ended", !.queue = << >>])
       \/ /\ b.filter # "ended" /\ Len(b.mid) < ChannelSize
          /\ Set(s, [b EXCEPT !.bridge = "translate", !.mid = Append(@, Reset)])
    /\ UNCHANGED faults

\* translate_payload: the document as it is by now.
Translate(s) ==
    LET b == sub[s]
        p == Head(b.queue) IN
    /\ b.bridge = "translate"
    /\ Set(s, [b EXCEPT !.bridge = "send", !.queue = Tail(@), !.item = Change(p, ver[p])])
    /\ UNCHANGED faults

\* The query fails: a DELETE is sent, for whatever is there.
TranslateFails(s) ==
    LET b == sub[s]
        p == Head(b.queue) IN
    /\ b.bridge = "translate" /\ faults < MaxFaults
    /\ faults' = faults + 1
    /\ Set(s, [b EXCEPT !.bridge = "send", !.queue = Tail(@), !.item = Change(p, 0)])

\* Mutant of TrySend: a change that finds the channel full is dropped.
TrySendDropping(s) ==
    LET b == sub[s] IN
    /\ b.bridge = "send"
    /\ Set(s, [b EXCEPT !.bridge = "recv", !.item = Absent,
                        !.mid = IF b.filter # "ended" /\ Len(@) < ChannelSize
                                THEN Append(@, b.item) ELSE @])
    /\ UNCHANGED faults

\* try_send fails when the channel is full and when nobody receives.
TrySend(s) ==
    LET b == sub[s]
        room == b.filter # "ended" /\ Len(b.mid) < ChannelSize IN
    /\ b.bridge = "send"
    /\ Set(s, [b EXCEPT !.bridge = "recv", !.item = Absent, !.overflow = ~room,
                        !.mid = IF room THEN Append(@, b.item) ELSE @])
    /\ UNCHANGED faults

\* PgListener fails: the task ends.
ListenerFails(s) ==
    /\ sub[s].bridge = "recv" /\ faults < MaxFaults
    /\ faults' = faults + 1
    /\ Set(s, [sub[s] EXCEPT !.bridge = "ended", !.queue = << >>])

Passes(item) == item = Reset \/ item[2] \in Passed

\* The filter task takes a change and lets go of what does not concern it.
FilterReceive(s) ==
    LET b == sub[s] IN
    /\ b.filter = "recv" /\ b.mid # << >>
    /\ Set(s, IF Passes(Head(b.mid))
              THEN [b EXCEPT !.mid = Tail(@), !.held = Head(b.mid), !.filter = "send"]
              ELSE [b EXCEPT !.mid = Tail(@)])
    /\ UNCHANGED faults

\* send waits for room; when the client is gone the task ends.
FilterSend(s) ==
    LET b == sub[s] IN
    /\ b.filter = "send"
    /\ \/ /\ b.client = "gone"
          /\ Set(s, [b EXCEPT !.filter = "ended", !.held = Absent, !.mid = << >>])
       \/ /\ b.client # "gone" /\ Len(b.out) < ChannelSize
          /\ Set(s, [b EXCEPT !.filter = "recv", !.held = Absent, !.out = Append(@, b.held)])
    /\ UNCHANGED faults

\* The bridge is gone and its channel empty: the task and the stream end.
FilterEnds(s) ==
    LET b == sub[s] IN
    /\ b.filter = "recv" /\ b.bridge = "ended" /\ b.mid = << >>
    /\ Set(s, [b EXCEPT !.filter = "ended"])
    /\ UNCHANGED faults

\* The client takes a change; after a RESET it reads everything again.
ClientReceives(s) ==
    LET b == sub[s]
        item == Head(b.out) IN
    /\ b.client = "reading" /\ b.out # << >>
    /\ Set(s, [b EXCEPT !.out = Tail(@),
                        !.seen = IF item = Reset THEN ver ELSE [@ EXCEPT ![item[2]] = item[3]]])
    /\ UNCHANGED faults

\* The stream has ended; the client knows.
ClientSeesEnd(s) ==
    /\ sub[s].client = "reading" /\ sub[s].filter = "ended" /\ sub[s].out = << >>
    /\ Set(s, [sub[s] EXCEPT !.client = "ended"])
    /\ UNCHANGED faults

\* The client hangs up; no task notices before it has something to send.
ClientLeaves(s) ==
    /\ sub[s].client = "reading"
    /\ Set(s, [sub[s] EXCEPT !.client = "gone", !.out = << >>])
    /\ UNCHANGED faults

-----------------------------------------------------------------------------

Request(w, r) ==
    \/ CreateDocument(w, r) \/ UpdateDocument(w, r) \/ DeleteDocument(w, r)
    \/ ListCollectionIds(w, r) \/ BeginTransaction(w, r)

Step(w) ==
    \/ MergeMask(w) \/ WriteDocument(w) \/ DeleteRow(w) \/ SendNotify(w)
    \/ FetchPage(w) \/ AnswerListing(w) \/ InsertTransaction(w)

Stream(s) ==
    \/ BridgeReceive(s) \/ BridgeReset(s) \/ Translate(s) \/ TrySend(s)
    \/ FilterReceive(s) \/ FilterSend(s) \/ FilterEnds(s)
    \/ ClientReceives(s) \/ ClientSeesEnd(s)

Next ==
    \/ \E ok \in BOOLEAN : StartupProbe(ok)
    \/ Sigterm \/ ShutdownComplete
    \/ \E w \in Workers : Step(w) \/ NotifyFails(w) \/ CallLost(w)
    \/ calls < Len(Menu) /\ \E w \in Workers, r \in Menu[calls + 1] : Request(w, r)
    \/ EndTransaction \/ \E batch \in Commits : Commit(batch)
    \/ \E s \in Subs : Subscribe(s) \/ Stream(s) \/ ClientLeaves(s)
                         \/ TranslateFails(s) \/ ListenerFails(s)

Spec == Init /\ [][Next]_vars

-----------------------------------------------------------------------------
(* Properties                                                              *)

\* A change of document p, or a RESET, is still on its way to the client.
OnTheWay(s, p) ==
    LET b == sub[s]
        hope == {Reset} \cup {Change(p, v) : v \in told[p]..ver[p]} IN
    \/ p \in ToSet(b.queue) \/ b.overflow \/ b.bridge = "reset"
    \/ b.item \in hope \/ b.held \in hope
    \/ ToSet(b.mid) \cap hope # {} \/ ToSet(b.out) \cap hope # {}

\* Every change of a wanted document that was announced has reached a client
\* that still reads, or is in one of the two channels, or a RESET is due,
\* however the bridge, the filter and a slow client interleave.  A failed query
\* (it makes a DELETE) and a failed connection (it ends the stream) apart.
NothingForgotten ==
    \A s \in Subs, p \in Wanted :
        sub[s].client = "reading" /\ sub[s].bridge # "ended" /\ faults = 0
            => sub[s].seen[p] >= told[p] \/ OnTheWay(s, p)

\* The LISTEN connection of a client that left is given back after at most
\* two notifications more than the filter task needed to notice.
ConnectionGivenBack == \A s \in Subs : sub[s].late <= 2

\* A commit through the agent is a batch of the server whose preconditions hold,
\* and leaves the documents as that batch says: its operations, preconditions and
\* transforms survive both conversions.
CommitsAsSent ==
    [][txn = "active" /\ txn' = "committed" =>
         \E batch \in Commits : /\ \A w \in batch : Satisfied(w.pre, w.doc)
                                /\ docs' = Committed(batch, docs)]_vars

\* A listing that no write overtook is the same as one statement would give,
\* wherever its limit falls between the agent's pages.
ListsComplete ==
    \A w \in Workers \ raced :
        at[w] = "listed" => Truncated(call[w].ids, call[w].limit) = Rows(call[w].limit, call[w].offset)
=============================================================================
