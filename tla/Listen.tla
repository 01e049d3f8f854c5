------------------------------- MODULE Listen -------------------------------
(***************************************************************************)
(* Real-time delivery for one project on one server: writers and their     *)
(* NOTIFY, the project's PostgresNotifyListener task, the ListenRegistry,  *)
(* and the handle_add_target task of every Listen stream.                  *)
(*                                                                         *)
(* A change travels through a chain of asynchronous places:                *)
(*                                                                         *)
(*   documents row -> send_notify -> listener connection -> fetch_event    *)
(*     -> fan_out -> subscriber channel -> handler -> response channel     *)
(*     -> client                                                           *)
(*                                                                         *)
(* and the initial snapshot goes from the row to the handler directly.     *)
(* Every place is a variable here, so that the model has every order in    *)
(* which the two can meet.                                                 *)
(*                                                                         *)
(* Time is counted in ticks of a fraction of a second: update_time has     *)
(* that precision, resume tokens have whole seconds.                       *)
(***************************************************************************)
EXTENDS Integers, Sequences, FiniteSets, Functions

CONSTANTS
  Docs,        \* the documents of the project
  Watched,     \* those in the collection of the Listen targets
  Bodies,      \* contents of a document
  NoBody,      \* no fields
  Matching,    \* the contents that the query filter of the targets accepts
  Readable,    \* the contents that the read rule of the collection allows
  Sessions,    \* Listen streams; a stream is opened once
  Capacity,    \* stands for 64, the capacity of both channels of a stream
  Second,      \* ticks per second
  StaleAfter,  \* stands for 24 hours, in ticks
  Faults,      \* which of the things in FaultKinds happen
  MaxVersion,  \* per document: writers stop at this version (a bound)
  MaxTime      \* the clock stops at this tick (a bound)

\* A write made by a Commit, a NOTIFY that fails, a listener connection that
\* breaks, a fetch that fails, a rule lookup or snapshot that fails, a client
\* that goes away, the clock moving on, and the keepalive timer.
FaultKinds == {"commit", "notify", "link", "fetch", "query", "gone", "clock",
               "keepalive"}

ASSUME DocsAssumption == Watched \subseteq Docs /\ IsFiniteSet(Docs) /\ "none" \notin Docs
ASSUME BodiesAssumption ==
  NoBody \notin Bodies /\ Matching \subseteq Bodies
    /\ Readable \subseteq Bodies \cup {NoBody}
ASSUME BoundsAssumption ==
  /\ Capacity \in Nat \ {0} /\ Second \in Nat \ {0} /\ StaleAfter \in Nat
  /\ MaxVersion \in [Docs -> Nat] /\ MaxTime \in Nat
ASSUME FaultsAssumption == Faults \subseteq FaultKinds

VARIABLES
  doc,     \* the documents table
  now,     \* the clock
  owed,    \* per document: writers between their statement and send_notify
  link,    \* the listener's connection: "off" until the first stream
  pgq,     \* notifications sent to that connection and not received yet
  inhand,  \* the event between fetch_event and fan_out
  phase,   \* per stream: where handle_add_target is
  entry,   \* per stream: its sender is in the registry
  reset,   \* per stream: reset_notify has been fired
  queue,   \* per stream: the subscriber channel
  since,   \* per stream: since_update_time of its snapshot query
  stamp,   \* per stream: snapshot_ts
  snap,    \* per stream: the snapshot documents that have still to be sent
  plan,    \* per stream: the messages after those, to be sent before select!
  out,     \* per stream: the response channel
  gone,    \* per stream: the client has left
  seen,    \* per client: the version it holds of each document, 0 for none
  token,   \* per client: the last resume token it was given
  resumed, \* history, per stream: it began with what another had left its client
  missed   \* history, per stream: documents with a change nobody announced

rowVars == <<doc, now, owed>>
listenerVars == <<link, pgq, inhand>>
sessionVars == <<phase, entry, reset, queue, since, stamp, snap, plan>>
clientVars == <<out, gone, seen, token, resumed>>

vars == <<doc, now, owed, link, pgq, inhand, phase, entry, reset, queue, since,
          stamp, snap, plan, out, gone, seen, token, resumed, missed>>

NoToken == -1
None == "none"

Row == [version : Nat, live : BOOLEAN, body : Bodies \cup {NoBody}, time : Nat]
NoRow == [version |-> 0, live |-> FALSE, body |-> NoBody, time |-> 0]

\* ListenEvent
Event == [doc : Docs, kind : {"changed", "removed"}, version : Nat,
          body : Bodies \cup {NoBody}]
NoEvent == [doc |-> None, kind |-> None, version |-> 0, body |-> NoBody]

\* ListenResponse: n is the version of a document or the time of a token.
Message(type, d, n) == [type |-> type, doc |-> d, n |-> n]
Messages == [type : {"change", "delete"}, doc : Docs, n : Nat]
              \cup [type : {"current", "token", "reset", "error"}, doc : {None}, n : Nat]

Phases == {"idle", "opening", "registered", "live", "closing", "done", "closed"}

\* event_rx has not been dropped.
Receiving(s) == phase[s] \in {"registered", "live"}

\* resume_token: now + 1 s, cut to whole seconds.
TokenAt(t) == ((t + Second) \div Second) * Second
IsStale(t) == now - t > StaleAfter

-----------------------------------------------------------------------------
Init ==
  /\ doc = [d \in Docs |-> NoRow]
  /\ now = 0
  /\ owed = [d \in Docs |-> 0]
  /\ link = "off"
  /\ pgq = <<>>
  /\ inhand = NoEvent
  /\ phase = [s \in Sessions |-> "idle"]
  /\ entry = [s \in Sessions |-> FALSE]
  /\ reset = [s \in Sessions |-> FALSE]
  /\ queue = [s \in Sessions |-> <<>>]
  /\ since = [s \in Sessions |-> NoToken]
  /\ stamp = [s \in Sessions |-> 0]
  /\ snap = [s \in Sessions |-> {}]
  /\ plan = [s \in Sessions |-> <<>>]
  /\ out = [s \in Sessions |-> <<>>]
  /\ gone = [s \in Sessions |-> FALSE]
  /\ seen = [s \in Sessions |-> [d \in Docs |-> 0]]
  /\ token = [s \in Sessions |-> NoToken]
  /\ resumed = [s \in Sessions |-> FALSE]
  /\ missed = [s \in Sessions |-> {}]

Tick ==
  /\ "clock" \in Faults
  /\ now < MaxTime
  /\ now' = now + 1
  /\ UNCHANGED <<doc, owed, listenerVars, sessionVars, clientVars, missed>>

-----------------------------------------------------------------------------
(* Writers                                                                 *)

\* The row after a write (a body) or a delete (NoBody: the fields stay).
RowAfter(d, body) ==
  [version |-> doc[d].version + 1, live |-> body # NoBody,
   body |-> IF body = NoBody THEN doc[d].body ELSE body, time |-> now]

\* The statement of a standalone create, update or delete, before send_notify.
WriteRow(d, body) ==
  /\ doc[d].version < MaxVersion[d]
  /\ body = NoBody => doc[d].live
  /\ doc' = [doc EXCEPT ![d] = RowAfter(d, body)]
  /\ owed' = [owed EXCEPT ![d] = @ + 1]
  /\ UNCHANGED <<now, listenerVars, sessionVars, clientVars, missed>>

\* Documents D changed and no stream will hear of it.
Miss(D) == missed' = [s \in Sessions |-> missed[s] \cup D]

\* A write applied by commit_transaction: there is no send_notify.
CommitWrite(d, body) ==
  /\ "commit" \in Faults
  /\ doc[d].version < MaxVersion[d]
  /\ body = NoBody => doc[d].live
  /\ doc' = [doc EXCEPT ![d] = RowAfter(d, body)]
  /\ Miss({d})
  /\ UNCHANGED <<now, owed, listenerVars, sessionVars, clientVars>>

\* send_notify: Postgres hands a notification to the connections that LISTEN.
SendNotify(d) ==
  /\ owed[d] > 0
  /\ owed' = [owed EXCEPT ![d] = @ - 1]
  /\ IF link = "up"
     THEN /\ pgq' = Append(pgq, d)
          /\ missed' = [s \in Sessions |-> missed[s] \ {d}]
     ELSE Miss({d}) /\ UNCHANGED pgq
  /\ UNCHANGED <<doc, now, link, inhand, sessionVars, clientVars>>

\* An error of pg_notify is ignored.
NotifyFails(d) ==
  /\ "notify" \in Faults
  /\ owed[d] > 0
  /\ owed' = [owed EXCEPT ![d] = @ - 1]
  /\ Miss({d})
  /\ UNCHANGED <<doc, now, listenerVars, sessionVars, clientVars>>

-----------------------------------------------------------------------------
(* PostgresNotifyListener                                                  *)

\* recv and fetch_event: the row is read now, whatever the notified write was.
FetchEvent ==
  /\ link = "up"
  /\ pgq # <<>>
  /\ inhand = NoEvent
  /\ pgq' = Tail(pgq)
  /\ LET d == Head(pgq) IN
     inhand' = [doc |-> d, kind |-> IF doc[d].live THEN "changed" ELSE "removed",
                version |-> doc[d].version, body |-> doc[d].body]
  /\ UNCHANGED <<rowVars, link, sessionVars, clientVars, missed>>

\* A failed query is answered like an absent row: Removed, without fields.
FetchFails ==
  /\ "fetch" \in Faults
  /\ link = "up"
  /\ pgq # <<>>
  /\ inhand = NoEvent
  /\ pgq' = Tail(pgq)
  /\ inhand' = [doc |-> Head(pgq), kind |-> "removed", version |-> 0, body |-> NoBody]
  /\ Miss({Head(pgq)})
  /\ UNCHANGED <<rowVars, link, sessionVars, clientVars>>

Full(s) == Len(queue[s]) >= Capacity

\* Mutant of FanOut: an event for a full channel is dropped and the subscriber kept.
FanOutLossy ==
  /\ inhand # NoEvent
  /\ inhand' = NoEvent
  /\ entry' = [s \in Sessions |-> entry[s] /\ Receiving(s)]
  /\ queue' = [s \in Sessions |-> IF entry[s] /\ ~Full(s) /\ Receiving(s)
                                 THEN Append(queue[s], inhand) ELSE queue[s]]
  /\ UNCHANGED <<rowVars, link, pgq, phase, reset, since, stamp, snap, plan,
                 clientVars, missed>>

\* Mutant of FanOut: a full channel's sender is removed like a dead one.
FanOutSilent ==
  /\ inhand # NoEvent
  /\ inhand' = NoEvent
  /\ entry' = [s \in Sessions |-> entry[s] /\ ~Full(s) /\ Receiving(s)]
  /\ queue' = [s \in Sessions |-> IF entry'[s] THEN Append(queue[s], inhand)
                                             ELSE queue[s]]
  /\ UNCHANGED <<rowVars, link, pgq, phase, reset, since, stamp, snap, plan,
                 clientVars, missed>>

\* ListenRegistry::fan_out: a full channel fires reset_notify, and its sender is
\* removed like that of a dropped receiver.
FanOut ==
  /\ inhand # NoEvent
  /\ inhand' = NoEvent
  /\ entry' = [s \in Sessions |-> entry[s] /\ ~Full(s) /\ Receiving(s)]
  /\ reset' = [s \in Sessions |-> reset[s] \/ (entry[s] /\ Full(s))]
  /\ queue' = [s \in Sessions |->
                 IF entry[s] /\ ~Full(s) /\ Receiving(s)
                 THEN Append(queue[s], inhand) ELSE queue[s]]
  /\ UNCHANGED <<rowVars, link, pgq, phase, since, stamp, snap, plan, clientVars, missed>>

\* recv fails: what was on its way is lost, and nobody is told.
LinkBreaks ==
  /\ "link" \in Faults
  /\ link = "up"
  /\ link' = "down"
  /\ pgq' = <<>>
  /\ Miss(Range(pgq))
  /\ UNCHANGED <<rowVars, inhand, sessionVars, clientVars>>

\* reconnect_pg_listener succeeds; the task is not in the middle of an event.
Reconnect ==
  /\ link = "down"
  /\ inhand = NoEvent
  /\ link' = "up"
  /\ UNCHANGED <<rowVars, pgq, inhand, sessionVars, clientVars, missed>>

-----------------------------------------------------------------------------
(* handle_listen and handle_add_target                                     *)

\* The listener is started before the stream is served.  A client that lost
\* stream r may come back with the token and the documents it has.
Open(s, r) ==
  /\ phase[s] = "idle"
  /\ phase' = [phase EXCEPT ![s] = "opening"]
  /\ link' = IF link = "off" THEN "up" ELSE link
  /\ \/ r = s /\ UNCHANGED <<seen, token, resumed>>
     \/ /\ gone[r] /\ token[r] # NoToken
        /\ resumed' = [resumed EXCEPT ![s] = TRUE]
        /\ seen' = [seen EXCEPT ![s] = seen[r]]
        /\ token' = [token EXCEPT ![s] = token[r]]
  /\ UNCHANGED <<rowVars, pgq, inhand, entry, reset, queue, since, stamp, snap,
                 plan, out, gone, missed>>

\* The listener's pool or connection cannot be made: the call fails.
OpenFails(s) ==
  /\ "query" \in Faults
  /\ phase[s] = "idle"
  /\ phase' = [phase EXCEPT ![s] = "closed"]
  /\ UNCHANGED <<rowVars, listenerVars, entry, reset, queue, since, stamp, snap,
                 plan, clientVars, missed>>

\* The token is decoded, snapshot_ts is taken, and the subscriber registered,
\* all before the snapshot query.
Register(s) ==
  /\ phase[s] = "opening"
  /\ phase' = [phase EXCEPT ![s] = "registered"]
  /\ since' = [since EXCEPT ![s] = IF token[s] = NoToken \/ IsStale(token[s])
                                   THEN NoToken ELSE token[s]]
  /\ stamp' = [stamp EXCEPT ![s] = TokenAt(now)]
  /\ entry' = [entry EXCEPT ![s] = TRUE]
  /\ UNCHANGED <<rowVars, listenerVars, reset, queue, snap, plan, clientVars, missed>>

\* The rows that the snapshot query of s returns.
SnapshotRows(s) ==
  {d \in Watched : doc[d].live /\ doc[d].body \in Matching /\ doc[d].time > since[s]}

\* A change of d that nobody announced is not made good by the snapshot when an
\* older event of d follows it, or when a resume query leaves out a delete.
Overtaken(s, d) ==
  \/ inhand.doc = d
  \/ \E i \in DOMAIN queue[s] : queue[s][i].doc = d
  \/ resumed[s] /\ ~doc[d].live

\* run_query; its documents are sent, then CURRENT, then NO_CHANGE with a token.
Snapshot(s) ==
  /\ phase[s] = "registered"
  /\ phase' = [phase EXCEPT ![s] = "live"]
  /\ snap' = [snap EXCEPT ![s] =
                {Message("change", d, doc[d].version) : d \in SnapshotRows(s)}]
  /\ plan' = [plan EXCEPT ![s] =
                <<Message("current", None, 0), Message("token", None, stamp[s])>>]
  /\ missed' = [missed EXCEPT ![s] = {d \in @ : Overtaken(s, d)}]
  /\ UNCHANGED <<rowVars, listenerVars, entry, reset, queue, since, stamp, clientVars>>

\* handle_add_target returns an error: the receiver is dropped, the status sent.
Fail(s) ==
  /\ phase' = [phase EXCEPT ![s] = "closing"]
  /\ plan' = [plan EXCEPT ![s] = <<Message("error", None, 0)>>]
  /\ queue' = [queue EXCEPT ![s] = <<>>]
  /\ UNCHANGED <<rowVars, listenerVars, entry, reset, since, stamp, snap, clientVars, missed>>

\* The rules refuse the query or cannot be read, before anything is registered,
\* or the snapshot query fails after that.
SnapshotFails(s) ==
  "query" \in Faults /\ phase[s] \in {"opening", "registered"} /\ Fail(s)

Sending(s) == snap[s] # {} \/ plan[s] # <<>>

\* tx.send, which waits while the response channel is full.
Send(s) ==
  /\ Sending(s)
  /\ ~gone[s]
  /\ Len(out[s]) < Capacity
  /\ IF snap[s] # {}
     THEN \E m \in snap[s] :
            /\ out' = [out EXCEPT ![s] = Append(@, m)]
            /\ snap' = [snap EXCEPT ![s] = @ \ {m}]
            /\ UNCHANGED <<plan, phase>>
     ELSE /\ out' = [out EXCEPT ![s] = Append(@, Head(plan[s]))]
          /\ plan' = [plan EXCEPT ![s] = Tail(@)]
          /\ phase' = [phase EXCEPT ![s] = IF @ = "closing" THEN "done" ELSE @]
          /\ UNCHANGED snap
  /\ UNCHANGED <<rowVars, listenerVars, entry, reset, queue, since, stamp, gone,
                 seen, token, resumed, missed>>

\* The task returns without a word: the receiver is dropped.
Return(s) ==
  /\ phase' = [phase EXCEPT ![s] = "done"]
  /\ snap' = [snap EXCEPT ![s] = {}]
  /\ plan' = [plan EXCEPT ![s] = <<>>]
  /\ queue' = [queue EXCEPT ![s] = <<>>]
  /\ UNCHANGED <<rowVars, listenerVars, entry, reset, since, stamp, clientVars, missed>>

\* tx.send fails because the client has left.
SendFails(s) == Sending(s) /\ gone[s] /\ Return(s)

\* The task is at select!.
Selecting(s) == phase[s] = "live" /\ ~Sending(s)

\* Events of other collections, and those the read rule denies, are withheld.
Passes(e) == e.doc \in Watched /\ e.body \in Readable

Wire(e) == IF e.kind = "changed" THEN Message("change", e.doc, e.version)
                                 ELSE Message("delete", e.doc, 0)

\* Mutant of TakeEvent: try_send instead of send on the response channel.
TakeEventTrySend(s) ==
  /\ Selecting(s)
  /\ queue[s] # <<>>
  /\ queue' = [queue EXCEPT ![s] = Tail(@)]
  /\ plan' = [plan EXCEPT ![s] =
                IF Passes(Head(queue[s])) /\ Len(out[s]) < Capacity
                THEN <<Wire(Head(queue[s]))>> ELSE <<>>]
  /\ UNCHANGED <<rowVars, listenerVars, phase, entry, reset, since, stamp, snap,
                 clientVars, missed>>

TakeEvent(s) ==
  /\ Selecting(s)
  /\ queue[s] # <<>>
  /\ queue' = [queue EXCEPT ![s] = Tail(@)]
  /\ plan' = [plan EXCEPT ![s] = IF Passes(Head(queue[s]))
                                 THEN <<Wire(Head(queue[s]))>> ELSE <<>>]
  /\ UNCHANGED <<rowVars, listenerVars, phase, entry, reset, since, stamp, snap,
                 clientVars, missed>>

\* The rule of an event's document has to be looked up, and that fails.
RecheckFails(s) ==
  /\ "query" \in Faults
  /\ Selecting(s)
  /\ queue[s] # <<>>
  /\ Head(queue[s]).doc \in Watched
  /\ Fail(s)

\* The keepalive carries a token of its own, whatever the channel still holds.
Keepalive(s) ==
  /\ "keepalive" \in Faults
  /\ Selecting(s)
  /\ plan' = [plan EXCEPT ![s] = <<Message("token", None, TokenAt(now))>>]
  /\ UNCHANGED <<rowVars, listenerVars, phase, entry, reset, queue, since, stamp,
                 snap, clientVars, missed>>

\* reset_notify: RESET is sent and the loop is left.
TakeReset(s) ==
  /\ Selecting(s)
  /\ reset[s]
  /\ phase' = [phase EXCEPT ![s] = "closing"]
  /\ plan' = [plan EXCEPT ![s] = <<Message("reset", None, 0)>>]
  /\ queue' = [queue EXCEPT ![s] = <<>>]
  /\ UNCHANGED <<rowVars, listenerVars, entry, reset, since, stamp, snap, clientVars, missed>>

\* recv answers None: the sender is gone and the channel is empty.
ChannelClosed(s) == Selecting(s) /\ queue[s] = <<>> /\ ~entry[s] /\ Return(s)

\* After the handler the task drains the request stream, and only then drops
\* the response sender, which ends the response stream.
EndStream(s) ==
  /\ phase[s] = "done"
  /\ gone[s]
  /\ phase' = [phase EXCEPT ![s] = "closed"]
  /\ UNCHANGED <<rowVars, listenerVars, entry, reset, queue, since, stamp, snap,
                 plan, clientVars, missed>>

-----------------------------------------------------------------------------
(* The client                                                              *)

Receive(s) ==
  /\ ~gone[s]
  /\ out[s] # <<>>
  /\ out' = [out EXCEPT ![s] = Tail(@)]
  /\ LET m == Head(out[s]) IN
     /\ seen' = IF m.type \in {"change", "delete"}
                THEN [seen EXCEPT ![s][m.doc] = m.n] ELSE seen
     /\ token' = IF m.type = "token" THEN [token EXCEPT ![s] = m.n] ELSE token
  /\ UNCHANGED <<rowVars, listenerVars, sessionVars, gone, resumed, missed>>

Disconnect(s) ==
  /\ "gone" \in Faults
  /\ phase[s] \notin {"idle", "closed"}
  /\ ~gone[s]
  /\ gone' = [gone EXCEPT ![s] = TRUE]
  /\ out' = [out EXCEPT ![s] = <<>>]
  /\ UNCHANGED <<rowVars, listenerVars, sessionVars, seen, token, resumed, missed>>

-----------------------------------------------------------------------------
WriterStep(d) ==
  \/ \E body \in Bodies \cup {NoBody} : WriteRow(d, body) \/ CommitWrite(d, body)
  \/ SendNotify(d)
  \/ NotifyFails(d)

ListenerStep == FetchEvent \/ FetchFails \/ FanOut \/ Reconnect

HandlerStep(s) ==
  \/ Register(s) \/ Snapshot(s) \/ SnapshotFails(s) \/ Send(s) \/ SendFails(s)
  \/ TakeEvent(s) \/ RecheckFails(s) \/ TakeReset(s) \/ ChannelClosed(s) \/ EndStream(s)

ClientStep(s) ==
  \/ \E r \in Sessions : Open(s, r)
  \/ OpenFails(s)
  \/ Receive(s)
  \/ Disconnect(s)

Next ==
  \/ Tick
  \/ \E d \in Docs : WriterStep(d)
  \/ ListenerStep
  \/ LinkBreaks
  \/ \E s \in Sessions : HandlerStep(s) \/ Keepalive(s) \/ ClientStep(s)

Spec == Init /\ [][Next]_vars

\* Writers finish, the listener and the handlers run, the client reads.  select!
\* chooses among its ready branches at random, so none of them is passed over
\* for ever.
FairSpec ==
  /\ Spec
  /\ \A d \in Docs : WF_vars(SendNotify(d) \/ NotifyFails(d))
  /\ WF_vars(ListenerStep)
  /\ \A s \in Sessions :
       /\ WF_vars(HandlerStep(s))
       /\ SF_vars(TakeEvent(s) \/ TakeReset(s))
       /\ WF_vars(Receive(s))

-----------------------------------------------------------------------------
(* Properties                                                              *)

\* What stands at the last of the positions I of q.
LastOf(q, I) == q[CHOOSE i \in I : \A j \in I : j <= i]

\* The positions of q that speak of document d.
About(q, d) == {i \in DOMAIN q : q[i].doc = d}

LastWord(q, d) == LastOf(q, About(q, d))

\* The events of d in the subscriber channel that the handler will pass on.
Deliverable(s, d) == {i \in About(queue[s], d) : Passes(queue[s][i])}

\* What the client of s will hold of d when everything that is on its way has
\* arrived: the last word is in the subscriber channel, the handler, the
\* response channel, or with the client already.
Says(s, d) ==
  IF Deliverable(s, d) # {} THEN Wire(LastOf(queue[s], Deliverable(s, d))).n
  ELSE IF About(plan[s], d) # {} THEN LastWord(plan[s], d).n
  ELSE IF \E m \in snap[s] : m.doc = d THEN (CHOOSE m \in snap[s] : m.doc = d).n
  ELSE IF About(out[s], d) # {} THEN LastWord(out[s], d).n
  ELSE seen[s][d]

\* A notification of d that has not been fanned out.
Pending(d) ==
  \/ owed[d] > 0
  \/ d \in Range(pgq)
  \/ inhand.doc = d /\ inhand.version = doc[d].version

\* The stream is served: past its snapshot, in the registry, its client there.
Served(s) == phase[s] = "live" /\ entry[s] /\ ~gone[s]

Shown(d) == doc[d].live /\ doc[d].body \in Matching \cap Readable
Removed(d) == doc[d].version > 0 /\ ~doc[d].live /\ doc[d].body \in Readable

\* The chain from the row to the client loses nothing by itself: while a stream
\* is served, what its client will hold of a document is the current state of
\* the row, or a notification is still to be fanned out.  Excepted are changes
\* that were never announced (missed), and on a resumed stream what the resume
\* query leaves out.  The order register, then snapshot, is what makes it true.
Accounted ==
  \A s \in Sessions, d \in Watched :
    Served(s) /\ d \notin missed[s] /\ ~Pending(d) =>
      /\ Shown(d) /\ doc[d].time > since[s] => Says(s, d) = doc[d].version
      /\ Removed(d) /\ ~resumed[s] => Says(s, d) = 0

\* fan_out: a subscriber that is still receiving is dropped from the registry only
\* when reset_notify has been fired for it.
DroppedMeansReset ==
  \A s \in Sessions : Receiving(s) /\ ~entry[s] => reset[s]

\* The client of s is behind on d.
Behind(s, d) == Shown(d) /\ doc[d].time > since[s] /\ seen[s][d] # doc[d].version

\* A served client that is behind catches up, or its stream ends, or the change
\* is one that nobody announced.
CatchesUp ==
  \A s \in Sessions, d \in Watched :
    (Served(s) /\ Behind(s, d)) ~> (~Served(s) \/ ~Behind(s, d) \/ d \in missed[s])

\* Nothing is on its way to the client of s.
Settled(s) ==
  /\ inhand = NoEvent /\ pgq = <<>> /\ \A d \in Docs : owed[d] = 0
  /\ queue[s] = <<>> /\ ~Sending(s) /\ out[s] = <<>>

\* What the specification says of change notification: every change of a row is
\* notified, so a client to whom nothing is on its way is up to date.
SettledMeansCurrent ==
  \A s \in Sessions : Served(s) /\ Settled(s) =>
    \A d \in Watched : ~Behind(s, d) /\ (Removed(d) => seen[s][d] = 0)
=============================================================================
