---------------------------- MODULE AgentProofs ----------------------------
(***************************************************************************)
(* Proofs about Agent, for any documents, requests, batches and Subscribe  *)
(* calls, channels and pages of any size and any number of faults.         *)
(***************************************************************************)
EXTENDS Agent, SequenceTheorems, FiniteSetTheorems, TLAPS

-----------------------------------------------------------------------------
(* Queues                                                                  *)

\* A queue to which an element is added is a queue.
LEMMA AppendType ==
    ASSUME NEW S, NEW q \in Seq(S), NEW x \in S
    PROVE  Append(q, x) \in Seq(S)
OBVIOUS

\* The first element of a queue and what is behind it.
LEMMA TailHead ==
    ASSUME NEW S, NEW q \in Seq(S), q # <<>>
    PROVE  Head(q) \in S /\ Tail(q) \in Seq(S)
BY HeadTailProperties

-----------------------------------------------------------------------------
(* What the tables, the requests and the streams hold                      *)

\* What travels through the channels of a Subscribe call.
Items == {Reset} \cup {Change(p, v) : p \in Docs, v \in Nat}

Calls == [kind : {"none", "create", "update", "delete", "list", "begin"}, doc : Docs \cup {Absent},
          fields : Contents, mask : SUBSET Fields, pre : Preconditions,
          limit : Nat, offset : Nat, ids : Seq(Docs), token : Nat]

Streams == [bridge : {"off", "recv", "reset", "translate", "send", "ended"},
            filter : {"off", "recv", "send", "ended"},
            client : {"off", "reading", "gone", "ended"},
            queue : Seq(Docs), mid : Seq(Items), out : Seq(Items),
            item : Items \cup {Absent}, held : Items \cup {Absent}, overflow : BOOLEAN,
            seen : [Docs -> Nat], late : Nat]

\* A worker's request is of the kind its next step is for.
StepFits(w) ==
    /\ at[w] \in {"insert", "merge"} => call[w].kind \in {"create", "update"}
    /\ at[w] = "delete" => call[w].kind = "delete"
    /\ at[w] = "notify" => call[w].kind \in {"create", "update", "delete"}
    /\ at[w] \in {"page", "listed"} => call[w].kind = "list"
    /\ call[w].kind \in {"create", "update", "delete"} => call[w].doc \in Docs
    /\ call[w].kind \in {"create", "update"} => call[w].fields \in Stored

\* The bridge is in the middle of a notification, which is still the first of its
\* queue until it is translated; an overflow is remembered only between two.  A
\* task has something in its hands while it sends it.
StreamFits(b) ==
    /\ b.bridge \in {"reset", "translate"} => b.queue # << >>
    /\ b.bridge \in {"reset", "translate", "send"} => ~b.overflow
    /\ b.bridge = "send" => b.item \in Items
    /\ b.filter = "send" => b.held \in Items
    /\ b.client = "reading" => b.bridge # "off"

Steps == {"idle", "insert", "merge", "delete", "notify", "page", "listed", "begin"}

TypeOK ==
    /\ docs \in [Docs -> Contents]
    /\ ver \in [Docs -> Nat]
    /\ told \in [Docs -> Nat]
    /\ at \in [Workers -> Steps]
    /\ call \in [Workers -> Calls]
    /\ calls \in Nat
    /\ faults \in Nat
    /\ sub \in [Subs -> Streams]
    /\ \A w \in Workers : StepFits(w)
    /\ \A s \in Subs : StreamFits(sub[s])

-----------------------------------------------------------------------------
(* What the subscriptions do to everything else, and the rest to them      *)

\* The steps of a subscription touch neither the documents nor the calls.
LEMMA StreamLeavesAlone ==
    ASSUME NEW s \in Subs,
           Subscribe(s) \/ Stream(s) \/ ClientLeaves(s) \/ TranslateFails(s) \/ ListenerFails(s)
    PROVE  UNCHANGED <<docs, ver, txn, life, at, call, calls, told, raced>>
BY DEF Subscribe, Stream, ClientLeaves, TranslateFails, ListenerFails, BridgeReceive, BridgeReset,
       Translate, TrySend, FilterReceive, FilterSend, FilterEnds, ClientReceives, ClientSeesEnd, Set

\* A stream that is not open is one.
LEMMA NoSubType == NoSub \in Streams /\ StreamFits(NoSub)
<1>1. << >> \in Seq(Docs) /\ << >> \in Seq(Items) /\ [p \in Docs |-> 0] \in [Docs -> Nat] /\ 0 \in Nat
  OBVIOUS
<1>2. Absent \in Items \cup {Absent} /\ FALSE \in BOOLEAN
  OBVIOUS
<1>3. NoSub \in Streams
  BY <1>1, <1>2, Zenon DEF NoSub, Streams
<1>4. StreamFits(NoSub)
  BY DEF NoSub, StreamFits
<1> QED
  BY <1>3, <1>4

\* Every record that the tasks of a stream write.
LEMMA StreamType ==
    ASSUME TypeOK, NEW s \in Subs,
           Subscribe(s) \/ Stream(s) \/ ClientLeaves(s) \/ TranslateFails(s) \/ ListenerFails(s)
    PROVE  \E r \in Streams : StreamFits(r) /\ sub' = [sub EXCEPT ![s] = r]
<1> DEFINE b == sub[s]
<1>0. b \in Streams /\ StreamFits(b) /\ sub \in [Subs -> Streams]
  BY DEF TypeOK
<1>1. Reset \in Items /\ \A p \in Docs, v \in Nat : Change(p, v) \in Items
  BY DEF Items
<1>2. ASSUME Subscribe(s)
      PROVE  \E r \in Streams : StreamFits(r) /\ sub' = [sub EXCEPT ![s] = r]
  <2> DEFINE r == [NoSub EXCEPT !.bridge = "recv", !.filter = "recv", !.client = "reading", !.seen = ver]
  <2>1. sub' = [sub EXCEPT ![s] = r]
    BY <1>2 DEF Subscribe, Set
  <2>2. NoSub \in Streams
    BY NoSubType
  <2>3. r \in Streams
    <3>1. ver \in [Docs -> Nat]
      BY DEF TypeOK
    <3> QED
      BY <2>2, <3>1, Zenon DEF Streams
  <2>4. StreamFits(r)
    BY DEF NoSub, StreamFits
  <2> QED
    BY <2>1, <2>3, <2>4
<1>3. ASSUME BridgeReceive(s)
      PROVE  \E r \in Streams : StreamFits(r) /\ sub' = [sub EXCEPT ![s] = r]
  <2> DEFINE r == [b EXCEPT !.bridge = IF b.overflow THEN "reset" ELSE "translate",
                            !.overflow = FALSE,
                            !.late = IF b.filter = "ended" THEN @ + 1 ELSE @]
  <2>1. sub' = [sub EXCEPT ![s] = r] /\ b.queue # << >>
    BY <1>3 DEF BridgeReceive, Set
  <2> HIDE DEF b
  <2>2. /\ (IF b.overflow THEN "reset" ELSE "translate") \in {"reset", "translate"}
        /\ (IF b.filter = "ended" THEN b.late + 1 ELSE b.late) \in Nat
    BY <1>0 DEF Streams
  <2>3. r \in Streams
    BY <1>0, <2>2, Zenon DEF Streams
  <2>4. StreamFits(r)
    BY <1>0, <1>1, <2>1, <2>2 DEF Streams, StreamFits
  <2> QED
    BY <2>1, <2>3, <2>4
<1>4. ASSUME BridgeReset(s), b.filter = "ended"
      PROVE  \E r \in Streams : StreamFits(r) /\ sub' = [sub EXCEPT ![s] = r]
  <2> DEFINE r == [b EXCEPT !.bridge = "ended", !.queue = << >>]
  <2>1. sub' = [sub EXCEPT ![s] = r]
    BY <1>4 DEF BridgeReset, Set
  <2> HIDE DEF b
  <2>2. << >> \in Seq(Docs)
    BY EmptySeq
  <2>3. r \in Streams
    BY <1>0, <2>2, Zenon DEF Streams
  <2>4. StreamFits(r)
    BY <1>0, <1>1, <2>1, <2>2 DEF Streams, StreamFits
  <2> QED
    BY <2>1, <2>3, <2>4
<1>5. ASSUME BridgeReset(s), b.filter # "ended"
      PROVE  \E r \in Streams : StreamFits(r) /\ sub' = [sub EXCEPT ![s] = r]
  <2> DEFINE r == [b EXCEPT !.bridge = "translate", !.mid = Append(@, Reset)]
  <2>1. sub' = [sub EXCEPT ![s] = r] /\ b.bridge = "reset"
    BY <1>5 DEF BridgeReset, Set
  <2> HIDE DEF b
  <2>2. Append(b.mid, Reset) \in Seq(Items)
    BY <1>0, <1>1, AppendType DEF Streams
  <2>3. r \in Streams
    BY <1>0, <2>2, Zenon DEF Streams
  <2>4. StreamFits(r)
    BY <1>0, <1>1, <2>1, <2>2 DEF Streams, StreamFits
  <2> QED
    BY <2>1, <2>3, <2>4
<1>6. ASSUME Translate(s)
      PROVE  \E r \in Streams : StreamFits(r) /\ sub' = [sub EXCEPT ![s] = r]
  <2> DEFINE r == [b EXCEPT !.bridge = "send", !.queue = Tail(@), !.item = Change(Head(b.queue), ver[Head(b.queue)])]
  <2>1. sub' = [sub EXCEPT ![s] = r] /\ b.bridge = "translate"
    BY <1>6 DEF Translate, Set
  <2> HIDE DEF b
  <2>2. Tail(b.queue) \in Seq(Docs) /\ Change(Head(b.queue), ver[Head(b.queue)]) \in Items
    BY <1>0, <1>1, <2>1, TailHead DEF Streams, StreamFits, TypeOK
  <2>3. r \in Streams
    BY <1>0, <2>2, Zenon DEF Streams
  <2>4. StreamFits(r)
    BY <1>0, <1>1, <2>1, <2>2 DEF Streams, StreamFits
  <2> QED
    BY <2>1, <2>3, <2>4
<1>7. ASSUME TranslateFails(s)
      PROVE  \E r \in Streams : StreamFits(r) /\ sub' = [sub EXCEPT ![s] = r]
  <2> DEFINE r == [b EXCEPT !.bridge = "send", !.queue = Tail(@), !.item = Change(Head(b.queue), 0)]
  <2>1. sub' = [sub EXCEPT ![s] = r] /\ b.bridge = "translate"
    BY <1>7 DEF TranslateFails, Set
  <2> HIDE DEF b
  <2>2. Tail(b.queue) \in Seq(Docs) /\ Change(Head(b.queue), 0) \in Items
    BY <1>0, <1>1, <2>1, TailHead DEF Streams, StreamFits
  <2>3. r \in Streams
    BY <1>0, <2>2, Zenon DEF Streams
  <2>4. StreamFits(r)
    BY <1>0, <1>1, <2>1, <2>2 DEF Streams, StreamFits
  <2> QED
    BY <2>1, <2>3, <2>4
<1>8. ASSUME TrySend(s)
      PROVE  \E r \in Streams : StreamFits(r) /\ sub' = [sub EXCEPT ![s] = r]
  <2> DEFINE room == b.filter # "ended" /\ Len(b.mid) < ChannelSize
             r == [b EXCEPT !.bridge = "recv", !.item = Absent, !.overflow = ~room,
                            !.mid = IF room THEN Append(@, b.item) ELSE @]
  <2>1. sub' = [sub EXCEPT ![s] = r] /\ b.bridge = "send"
    BY <1>8 DEF TrySend, Set
  <2> HIDE DEF b
  <2>2. (IF room THEN Append(b.mid, b.item) ELSE b.mid) \in Seq(Items)
    <3>1. b.mid \in Seq(Items) /\ b.item \in Items
      BY <1>0, <2>1 DEF Streams, StreamFits
    <3> QED
      BY <3>1, AppendType
  <2>3. (~room) \in BOOLEAN /\ Absent \in Items \cup {Absent}
    OBVIOUS
  <2> HIDE DEF room
  <2>4. r \in Streams
    BY <1>0, <2>2, <2>3, Zenon DEF Streams
  <2>5. StreamFits(r)
    BY <1>0, <2>1 DEF Streams, StreamFits
  <2> QED
    BY <2>1, <2>4, <2>5
<1>9. ASSUME ListenerFails(s)
      PROVE  \E r \in Streams : StreamFits(r) /\ sub' = [sub EXCEPT ![s] = r]
  <2> DEFINE r == [b EXCEPT !.bridge = "ended", !.queue = << >>]
  <2>1. sub' = [sub EXCEPT ![s] = r]
    BY <1>9 DEF ListenerFails, Set
  <2> HIDE DEF b
  <2>2. << >> \in Seq(Docs)
    BY EmptySeq
  <2>3. r \in Streams
    BY <1>0, <2>2, Zenon DEF Streams
  <2>4. StreamFits(r)
    BY <1>0, <1>1, <2>1, <2>2 DEF Streams, StreamFits
  <2> QED
    BY <2>1, <2>3, <2>4
<1>10. ASSUME FilterReceive(s), Passes(Head(b.mid))
      PROVE  \E r \in Streams : StreamFits(r) /\ sub' = [sub EXCEPT ![s] = r]
  <2> DEFINE r == [b EXCEPT !.mid = Tail(@), !.held = Head(b.mid), !.filter = "send"]
  <2>1. sub' = [sub EXCEPT ![s] = r] /\ b.mid # << >>
    BY <1>10 DEF FilterReceive, Set
  <2> HIDE DEF b
  <2>2. Tail(b.mid) \in Seq(Items) /\ Head(b.mid) \in Items
    BY <1>0, <2>1, TailHead DEF Streams
  <2>3. r \in Streams
    BY <1>0, <2>2, Zenon DEF Streams
  <2>4. StreamFits(r)
    BY <1>0, <1>1, <2>1, <2>2 DEF Streams, StreamFits
  <2> QED
    BY <2>1, <2>3, <2>4
<1>11. ASSUME FilterReceive(s), ~Passes(Head(b.mid))
      PROVE  \E r \in Streams : StreamFits(r) /\ sub' = [sub EXCEPT ![s] = r]
  <2> DEFINE r == [b EXCEPT !.mid = Tail(@)]
  <2>1. sub' = [sub EXCEPT ![s] = r] /\ b.mid # << >>
    BY <1>11 DEF FilterReceive, Set
  <2> HIDE DEF b
  <2>2. Tail(b.mid) \in Seq(Items)
    BY <1>0, <2>1, TailHead DEF Streams
  <2>3. r \in Streams
    BY <1>0, <2>2, Zenon DEF Streams
  <2>4. StreamFits(r)
    BY <1>0, <1>1, <2>1, <2>2 DEF Streams, StreamFits
  <2> QED
    BY <2>1, <2>3, <2>4
<1>12. ASSUME FilterSend(s), b.client = "gone"
      PROVE  \E r \in Streams : StreamFits(r) /\ sub' = [sub EXCEPT ![s] = r]
  <2> DEFINE r == [b EXCEPT !.filter = "ended", !.held = Absent, !.mid = << >>]
  <2>1. sub' = [sub EXCEPT ![s] = r]
    BY <1>12 DEF FilterSend, Set
  <2> HIDE DEF b
  <2>2. << >> \in Seq(Items)
    BY EmptySeq
  <2>3. r \in Streams
    BY <1>0, <2>2, Zenon DEF Streams
  <2>4. StreamFits(r)
    BY <1>0, <1>1, <2>1, <2>2 DEF Streams, StreamFits
  <2> QED
    BY <2>1, <2>3, <2>4
<1>13. ASSUME FilterSend(s), b.client # "gone"
      PROVE  \E r \in Streams : StreamFits(r) /\ sub' = [sub EXCEPT ![s] = r]
  <2> DEFINE r == [b EXCEPT !.filter = "recv", !.held = Absent, !.out = Append(@, b.held)]
  <2>1. sub' = [sub EXCEPT ![s] = r] /\ b.filter = "send"
    BY <1>13 DEF FilterSend, Set
  <2> HIDE DEF b
  <2>2. Append(b.out, b.held) \in Seq(Items)
    BY <1>0, <2>1, AppendType DEF Streams, StreamFits
  <2>3. r \in Streams
    BY <1>0, <2>2, Zenon DEF Streams
  <2>4. StreamFits(r)
    BY <1>0, <1>1, <2>1, <2>2 DEF Streams, StreamFits
  <2> QED
    BY <2>1, <2>3, <2>4
<1>14. ASSUME FilterEnds(s)
      PROVE  \E r \in Streams : StreamFits(r) /\ sub' = [sub EXCEPT ![s] = r]
  <2> DEFINE r == [b EXCEPT !.filter = "ended"]
  <2>1. sub' = [sub EXCEPT ![s] = r]
    BY <1>14 DEF FilterEnds, Set
  <2> HIDE DEF b
  <2>3. r \in Streams
    BY <1>0, Zenon DEF Streams
  <2>4. StreamFits(r)
    BY <1>0, <1>1, <2>1 DEF Streams, StreamFits
  <2> QED
    BY <2>1, <2>3, <2>4
<1>15. ASSUME ClientReceives(s)
      PROVE  \E r \in Streams : StreamFits(r) /\ sub' = [sub EXCEPT ![s] = r]
  <2> DEFINE item == Head(b.out)
             known == IF item = Reset THEN ver ELSE [b.seen EXCEPT ![item[2]] = item[3]]
             r == [b EXCEPT !.out = Tail(@), !.seen = known]
  <2>1. sub' = [sub EXCEPT ![s] = r] /\ b.out # << >>
    BY <1>15 DEF ClientReceives, Set
  <2> HIDE DEF b
  <2>2. item \in Items /\ Tail(b.out) \in Seq(Items)
    BY <1>0, <2>1, TailHead DEF Streams
  <2> HIDE DEF item
  <2>3. known \in [Docs -> Nat]
    <3>1. b.seen \in [Docs -> Nat] /\ ver \in [Docs -> Nat]
      BY <1>0 DEF Streams, TypeOK
    <3>2. item # Reset => item[2] \in Docs /\ item[3] \in Nat
      BY <2>2 DEF Items, Change
    <3> QED
      BY <3>1, <3>2
  <2> HIDE DEF known
  <2>4. r \in Streams
    BY <1>0, <2>2, <2>3, Zenon DEF Streams
  <2>5. StreamFits(r)
    BY <1>0 DEF Streams, StreamFits
  <2> QED
    BY <2>1, <2>4, <2>5
<1>16. ASSUME ClientSeesEnd(s)
      PROVE  \E r \in Streams : StreamFits(r) /\ sub' = [sub EXCEPT ![s] = r]
  <2> DEFINE r == [b EXCEPT !.client = "ended"]
  <2>1. sub' = [sub EXCEPT ![s] = r]
    BY <1>16 DEF ClientSeesEnd, Set
  <2> HIDE DEF b
  <2>3. r \in Streams
    BY <1>0, Zenon DEF Streams
  <2>4. StreamFits(r)
    BY <1>0, <1>1, <2>1 DEF Streams, StreamFits
  <2> QED
    BY <2>1, <2>3, <2>4
<1>17. ASSUME ClientLeaves(s)
      PROVE  \E r \in Streams : StreamFits(r) /\ sub' = [sub EXCEPT ![s] = r]
  <2> DEFINE r == [b EXCEPT !.client = "gone", !.out = << >>]
  <2>1. sub' = [sub EXCEPT ![s] = r]
    BY <1>17 DEF ClientLeaves, Set
  <2> HIDE DEF b
  <2>2. << >> \in Seq(Items)
    BY EmptySeq
  <2>3. r \in Streams
    BY <1>0, <2>2, Zenon DEF Streams
  <2>4. StreamFits(r)
    BY <1>0, <1>1, <2>1, <2>2 DEF Streams, StreamFits
  <2> QED
    BY <2>1, <2>3, <2>4
<1> QED
  BY <1>2, <1>3, <1>4, <1>5, <1>6, <1>7, <1>8, <1>9, <1>10, <1>11, <1>12, <1>13, <1>14, <1>15, <1>16, <1>17 DEF Stream, BridgeReset, FilterSend

-----------------------------------------------------------------------------
(* Type correctness                                                        *)

\* A worker moves: what is left is its own next step and its own locals.
LEMMA WorkerMoves ==
    ASSUME TypeOK, NEW w \in Workers, NEW step \in Steps, NEW c \in Calls,
           at' = [at EXCEPT ![w] = step], call' = [call EXCEPT ![w] = c],
           step \in {"insert", "merge"} => c.kind \in {"create", "update"},
           step = "delete" => c.kind = "delete",
           step = "notify" => c.kind \in {"create", "update", "delete"},
           step \in {"page", "listed"} => c.kind = "list",
           c.kind \in {"create", "update", "delete"} => c.doc \in Docs,
           c.kind \in {"create", "update"} => c.fields \in Stored
    PROVE  at' \in [Workers -> Steps] /\ call' \in [Workers -> Calls] /\ \A x \in Workers : StepFits(x)'
<1>1. at' \in [Workers -> Steps] /\ call' \in [Workers -> Calls]
  BY DEF TypeOK
<1>2. ASSUME NEW x \in Workers PROVE StepFits(x)'
  <2>1. CASE x = w
    <3>1. at'[x] = step /\ call'[x] = c
      BY <2>1 DEF TypeOK
    <3> QED
      BY <3>1 DEF StepFits
  <2>2. CASE x # w
    <3>1. at'[x] = at[x] /\ call'[x] = call[x] /\ StepFits(x)
      BY <2>2 DEF TypeOK
    <3> QED
      BY <3>1 DEF StepFits
  <2> QED
    BY <2>1, <2>2
<1> QED
  BY <1>1, <1>2

\* The locals of an idle worker are locals.
LEMMA NoCallType == NoCall \in Calls
<1>1. << >> \in Seq(Docs) /\ 0 \in Nat /\ {} \in SUBSET Fields /\ Absent \in Docs \cup {Absent}
  OBVIOUS
<1>2. Absent \in Contents /\ <<"none">> \in Preconditions
  BY DEF Contents, Preconditions
<1> QED
  BY <1>1, <1>2, Zenon DEF NoCall, Calls

\* An answered call leaves its worker idle.
LEMMA AnswerType ==
    ASSUME TypeOK, NEW w \in Workers, Answer(w)
    PROVE  at' \in [Workers -> Steps] /\ call' \in [Workers -> Calls] /\ \A x \in Workers : StepFits(x)'
<1>1. NoCall.kind = "none" /\ NoCall \in Calls /\ "idle" \in Steps
  BY NoCallType DEF NoCall, Steps
<1>2. at' = [at EXCEPT ![w] = "idle"] /\ call' = [call EXCEPT ![w] = NoCall]
  BY DEF Answer, Goto
<1> HIDE DEF NoCall
<1> QED
  BY <1>1, <1>2, WorkerMoves, Zenon

\* A request arrives.
LEMMA RequestType ==
    ASSUME TypeOK, NEW w \in Workers, NEW r \in Requests, Request(w, r)
    PROVE  TypeOK'
<1>1. r \in Calls
  <2>1. << >> \in Seq(Docs) /\ 0 \in Nat
    OBVIOUS
  <2> QED
    BY <2>1 DEF Requests, Calls
<1>2. /\ r.kind \in {"create", "update", "delete"} => r.doc \in Docs
      /\ r.kind \in {"create", "update"} => r.fields \in Stored
      /\ r.offset \in Nat
  BY DEF Requests
<1>3. ASSUME NEW step \in Steps, NEW c \in Calls, Begin(w, step, c),
             at' \in [Workers -> Steps], call' \in [Workers -> Calls], \A x \in Workers : StepFits(x)'
      PROVE  TypeOK'
  BY <1>3 DEF Begin, TypeOK
<1>4. ASSUME NEW step \in {"insert", "merge", "delete", "begin"}, Begin(w, step, r),
             step \in {"insert", "merge"} => r.kind \in {"create", "update"},
             step = "delete" => r.kind = "delete"
      PROVE  TypeOK'
  <2>1. at' = [at EXCEPT ![w] = step] /\ call' = [call EXCEPT ![w] = r] /\ step \in Steps
    BY <1>4 DEF Begin, Goto, Steps
  <2>2. at' \in [Workers -> Steps] /\ call' \in [Workers -> Calls] /\ \A x \in Workers : StepFits(x)'
    BY <1>1, <1>2, <1>4, <2>1, WorkerMoves
  <2> QED
    BY <1>1, <1>3, <1>4, <2>1, <2>2
<1>5. CASE CreateDocument(w, r) \/ UpdateDocument(w, r) \/ DeleteDocument(w, r) \/ BeginTransaction(w, r)
  BY <1>4, <1>5 DEF CreateDocument, UpdateDocument, DeleteDocument, BeginTransaction
<1>6. CASE ListCollectionIds(w, r)
  <2> DEFINE c == [r EXCEPT !.token = r.offset]
  <2>1. r.kind = "list" /\ Begin(w, "page", c)
    BY <1>6 DEF ListCollectionIds
  <2>2. c \in Calls
    BY <1>1, <1>2, Zenon DEF Calls
  <2>3. c.kind = r.kind
    BY <1>1 DEF Calls
  <2> HIDE DEF c
  <2>4. at' = [at EXCEPT ![w] = "page"] /\ call' = [call EXCEPT ![w] = c] /\ "page" \in Steps
    BY <2>1 DEF Begin, Goto, Steps
  <2>5. at' \in [Workers -> Steps] /\ call' \in [Workers -> Calls] /\ \A x \in Workers : StepFits(x)'
    BY <2>1, <2>2, <2>3, <2>4, WorkerMoves
  <2> QED
    BY <1>3, <2>1, <2>2, <2>4, <2>5
<1> QED
  BY <1>5, <1>6 DEF Request

\* ORDER BY: every position has a member, and they ascend.
LEMMA AscendingMembers ==
    ASSUME NEW S, S \subseteq Nat, IsFiniteSet(S)
    PROVE  Ascending(S) \in Seq(S)
<1> DEFINE Upto(p) == {q \in S : q <= p}
           n == Cardinality(S)
           rank == [p \in S |-> Cardinality(Upto(p))]
<1>1. n \in Nat
  BY FS_CardinalityType
<1>2. ASSUME NEW p \in S
      PROVE  /\ IsFiniteSet(Upto(p)) /\ Cardinality(Upto(p)) \in 1..n
  <2>1. Upto(p) \in SUBSET S /\ p \in Upto(p)
    OBVIOUS
  <2>2. IsFiniteSet(Upto(p)) /\ Cardinality(Upto(p)) <= n
    BY <2>1, FS_Subset
  <2>3. Cardinality(Upto(p)) \in Nat /\ Cardinality(Upto(p)) # 0
    BY <2>1, <2>2, FS_CardinalityType, FS_EmptySet
  <2> QED
    BY <1>1, <2>2, <2>3
<1>3. ASSUME NEW p \in S, NEW q \in S, p < q PROVE rank[p] # rank[q]
  <2>0. ASSUME NEW x \in S, x <= p PROVE x <= q
    <3>1. x \in Nat /\ p \in Nat /\ q \in Nat
      OBVIOUS
    <3> QED
      BY <1>3, <2>0, <3>1
  <2>1. Upto(p) \in SUBSET Upto(q)
    BY <2>0
  <2>2. q \in Upto(q) /\ q \notin Upto(p)
    BY <1>3
  <2>3. IsFiniteSet(Upto(q))
    BY <1>2
  <2> HIDE DEF Upto
  <2>4. Cardinality(Upto(p)) # Cardinality(Upto(q))
    BY <2>1, <2>2, <2>3, FS_Subset
  <2> QED
    BY <2>4
<1>4. rank \in Injection(S, 1..n)
  <2>1. rank \in [S -> 1..n]
    BY <1>2
  <2>2. ASSUME NEW p \in S, NEW q \in S, rank[p] = rank[q] PROVE p = q
    <3>1. p \in Nat /\ q \in Nat
      OBVIOUS
    <3> HIDE DEF rank
    <3> QED
      BY <1>3, <2>2, <3>1
  <2> HIDE DEF rank
  <2> QED
    BY <2>1, <2>2 DEF Injection, IsInjective
<1>5. IsFiniteSet(1..n) /\ Cardinality(1..n) = n
  BY <1>1, FS_Interval
<1>6. rank \in Surjection(S, 1..n)
  BY <1>4, <1>5, FS_Injection
<1>7. ASSUME NEW i \in 1..n PROVE Ascending(S)[i] \in S
  <2>1. \E p \in S : Cardinality(Upto(p)) = i
    BY <1>6 DEF Surjection
  <2>2. (CHOOSE p \in S : Cardinality(Upto(p)) = i) \in S
    BY <2>1
  <2> QED
    BY <2>2 DEF Ascending
<1>8. Ascending(S) \in [1..n -> S]
  BY <1>7 DEF Ascending
<1> HIDE DEF n
<1> QED
  BY <1>1, <1>8, SeqDef

\* A page is a piece of the names in the database.
LEMMA CollectionIdsType == CollectionIds \in Seq(Docs)
<1> DEFINE S == {p \in Docs : docs[p] # Absent}
<1>1. IsFiniteSet(S) /\ S \subseteq Nat /\ S \subseteq Docs
  <2>1. S \in SUBSET Docs
    OBVIOUS
  <2> HIDE DEF S
  <2> QED
    BY <2>1, FS_Subset, DocsAssumption
<1> HIDE DEF S
<1>2. Ascending(S) \in Seq(S)
  BY <1>1, AscendingMembers
<1>3. Ascending(S) \in Seq(Docs)
  <2> DEFINE q == Ascending(S)
  <2>1. q \in [1..Len(q) -> S] /\ Len(q) \in Nat
    BY <1>2, LenProperties
  <2> HIDE DEF q
  <2>2. q \in [1..Len(q) -> Docs]
    BY <1>1, <2>1
  <2>3. q \in Seq(Docs)
    BY <2>1, <2>2, SeqDef
  <2> QED
    BY <2>3 DEF q
<1> QED
  BY <1>3 DEF CollectionIds, S

-----------------------------------------------------------------------------
(* Writes and pages on their way through the agent's messages              *)

\* The transforms of a write come out as they went in.
LEMMA TransformsRoundTrip ==
    ASSUME NEW w, w.inc \in SUBSET Fields
    PROVE  DomainTransforms(AgentTransforms(w)) = w.inc
<1> DEFINE T(x) == [fieldPath |-> x, type |-> "increment"]
<1>1. \A x : T(x).fieldPath = x
  OBVIOUS
<1>2. AgentTransforms(w) = {T(x) : x \in w.inc}
  BY DEF AgentTransforms
<1> HIDE DEF T
<1>3. ASSUME NEW t \in {T(x) : x \in w.inc} PROVE t.fieldPath \in w.inc
  <2>1. PICK x \in w.inc : t = T(x)
    OBVIOUS
  <2> QED
    BY <1>1, <2>1
<1>4. ASSUME NEW x \in w.inc PROVE \E t \in {T(y) : y \in w.inc} : x = t.fieldPath
  <2>1. T(x) \in {T(y) : y \in w.inc}
    OBVIOUS
  <2>2. x = T(x).fieldPath
    BY <1>1
  <2> QED
    BY <2>1, <2>2
<1>5. {t.fieldPath : t \in {T(x) : x \in w.inc}} = w.inc
  <2> DEFINE S == {T(x) : x \in w.inc}
  <2>1. \A t \in S : t.fieldPath \in w.inc
    BY <1>3
  <2>2. \A x \in w.inc : \E t \in S : x = t.fieldPath
    BY <1>4
  <2> HIDE DEF S
  <2>3. {t.fieldPath : t \in S} = w.inc
    BY <2>1, <2>2
  <2> QED
    BY <2>3 DEF S
<1> QED
  BY <1>2, <1>5 DEF DomainTransforms

\* A write comes out of the two conversions as it went in.
LEMMA RoundTrip ==
    ASSUME NEW w \in Writes
    PROVE  DomainWrite(AgentWrite(w)) = w
<1>1. CASE w \in [op : {"update"}, doc : Docs, fields : Stored, pre : Preconditions, inc : SUBSET Fields]
  <2>1. AgentWrite(w) = [operation |-> "update", document |-> <<w.doc, w.fields>>,
                         current |-> w.pre, transforms |-> AgentTransforms(w)]
    BY <1>1 DEF AgentWrite
  <2>2. DomainTransforms(AgentTransforms(w)) = w.inc
    <3>1. w.inc \in SUBSET Fields
      BY <1>1
    <3> QED
      BY <3>1, TransformsRoundTrip
  <2>3. DomainWrite(AgentWrite(w)) = [op |-> "update", doc |-> w.doc, pre |-> w.pre,
                                      fields |-> w.fields, inc |-> w.inc]
    BY <2>1, <2>2 DEF DomainWrite
  <2> QED
    BY <1>1, <2>3
<1>2. CASE w \in [op : {"delete"}, doc : Docs, fields : {Absent}, pre : Preconditions, inc : {{}}]
  <2>1. AgentWrite(w) = [operation |-> "delete", document |-> <<w.doc>>,
                         current |-> w.pre, transforms |-> {}]
    BY <1>2 DEF AgentWrite
  <2>2. DomainTransforms({}) = {}
    BY DEF DomainTransforms
  <2>3. DomainWrite(AgentWrite(w)) = [op |-> "delete", doc |-> w.doc, pre |-> w.pre,
                                      fields |-> Absent, inc |-> {}]
    <3> DEFINE a == [operation |-> "delete", document |-> <<w.doc>>, current |-> w.pre, transforms |-> {}]
    <3>1. a.operation = "delete" /\ a.document[1] = w.doc /\ a.current = w.pre /\ a.transforms = {}
      OBVIOUS
    <3> HIDE DEF a
    <3>2. DomainWrite(a) = [op |-> "delete", doc |-> w.doc, pre |-> w.pre, fields |-> Absent, inc |-> {}]
      BY <2>2, <3>1, Zenon DEF DomainWrite
    <3> QED
      BY <2>1, <3>2 DEF a
  <2> QED
    BY <1>2, <2>3
<1>3. CASE w \in [op : {"transform"}, doc : Docs, fields : {Absent}, pre : {<<"none">>}, inc : SUBSET Fields]
  <2>1. AgentWrite(w) = [operation |-> "transform", document |-> <<w.doc>>,
                         current |-> <<"none">>, transforms |-> AgentTransforms(w)]
    BY <1>3 DEF AgentWrite
  <2>2. DomainTransforms(AgentTransforms(w)) = w.inc
    <3>1. w.inc \in SUBSET Fields
      BY <1>3
    <3> QED
      BY <3>1, TransformsRoundTrip
  <2>3. DomainWrite(AgentWrite(w)) = [op |-> "transform", doc |-> w.doc, pre |-> <<"none">>,
                                      fields |-> Absent, inc |-> w.inc]
    BY <2>1, <2>2 DEF DomainWrite
  <2> QED
    BY <1>3, <2>3
<1> QED
  BY <1>1, <1>2, <1>3 DEF Writes

\* So does a whole batch.
LEMMA BatchRoundTrip ==
    ASSUME NEW batch \in Commits
    PROVE  {DomainWrite(AgentWrite(w)) : w \in batch} = batch
<1>1. \A w \in batch : DomainWrite(AgentWrite(w)) = w
  BY RoundTrip, DataAssumption
<1> HIDE DEF DomainWrite, AgentWrite
<1> QED
  BY <1>1

\* A write leaves contents.
LEMMA WrittenType ==
    ASSUME NEW w \in Writes, NEW before \in Contents
    PROVE  Written(w, before) \in Contents
<1> DEFINE stored == IF before = Absent THEN Empty ELSE before
           seeded == [x \in Fields |->
                        IF w.op = "update" /\ (x \notin w.inc \/ w.fields[x] # Absent)
                        THEN w.fields[x] ELSE stored[x]]
           Up(v) == IF v = Absent THEN 1 ELSE v + 1
<1>1. stored \in Stored
  BY DEF Empty, Stored, Contents
<1>2. seeded \in Stored
  <2>1. w.op = "update" => w.fields \in Stored
    BY DEF Writes
  <2> HIDE DEF stored
  <2> QED
    BY <1>1, <2>1 DEF Stored
<1>3. [x \in Fields |-> IF x \in w.inc THEN Up(seeded[x]) ELSE seeded[x]] \in Stored
  <2> HIDE DEF seeded
  <2>1. ASSUME NEW x \in Fields PROVE Up(seeded[x]) \in Int \cup {Absent} /\ seeded[x] \in Int \cup {Absent}
    BY <1>2 DEF Stored
  <2> HIDE DEF Up
  <2> QED
    BY <2>1 DEF Stored
<1>4. Written(w, before) = IF w.op = "delete" THEN Absent
                           ELSE [x \in Fields |-> IF x \in w.inc THEN Up(seeded[x]) ELSE seeded[x]]
  BY DEF Written
<1> HIDE DEF stored, seeded, Up
<1> QED
  BY <1>3, <1>4 DEF Contents

\* So does a whole batch, on every document.
LEMMA CommittedType ==
    ASSUME NEW batch \in Commits, NEW before \in [Docs -> Contents]
    PROVE  Committed(batch, before) \in [Docs -> Contents]
<1>1. ASSUME NEW p \in Docs, \E w \in batch : w.doc = p
      PROVE  Written(CHOOSE w \in batch : w.doc = p, before[p]) \in Contents
  <2> DEFINE c == CHOOSE w \in batch : w.doc = p
  <2>1. c \in batch
    BY <1>1
  <2> HIDE DEF c
  <2>2. c \in Writes /\ before[p] \in Contents
    BY <2>1, DataAssumption
  <2>3. Written(c, before[p]) \in Contents
    BY <2>2, WrittenType
  <2> QED
    BY <2>3 DEF c
<1> QED
  BY <1>1 DEF Committed

\* A page is the names from its offset on, as many as asked for and as there are.
LEMMA RowsAre ==
    ASSUME NEW limit \in Nat, NEW offset \in Nat
    PROVE  LET rows == Rows(limit, offset)
               n == Len(CollectionIds) IN
           /\ n \in Nat
           /\ rows \in Seq(Docs)
           /\ Len(rows) = IF offset >= n THEN 0 ELSE IF offset + limit < n THEN limit ELSE n - offset
           /\ \A i \in 1..Len(rows) : rows[i] = CollectionIds[offset + i]
<1> DEFINE C == CollectionIds
           n == Len(C)
           last == IF offset + limit < n THEN offset + limit ELSE n
           first == offset + 1
           rows == SubSeq(C, first, last)
<1>1. C \in Seq(Docs)
  BY CollectionIdsType
<1> HIDE DEF C
<1>2. n \in Nat /\ C \in [1..n -> Docs]
  BY <1>1, LenProperties
<1> HIDE DEF n
<1>3. last \in Int /\ first \in Int /\ last <= n
  BY <1>2
<1>4. \A i \in first..last : C[i] \in Docs
  BY <1>2, <1>3
<1> HIDE DEF last, first
<1>5. /\ rows \in Seq(Docs)
      /\ Len(rows) = IF first <= last THEN last - first + 1 ELSE 0
      /\ \A i \in 1..(last - first + 1) : rows[i] = C[first + i - 1]
  BY <1>3, <1>4, SubSeqProperties
<1> HIDE DEF rows
<1>6. Len(rows) = IF offset >= n THEN 0 ELSE IF offset + limit < n THEN limit ELSE n - offset
  BY <1>2, <1>5 DEF last, first
<1>7. ASSUME NEW i \in 1..Len(rows) PROVE rows[i] = C[offset + i]
  <2>1. i \in 1..(last - first + 1) /\ first + i - 1 = offset + i
    BY <1>3, <1>5 DEF first
  <2>2. rows[i] = C[first + i - 1]
    BY <1>5, <2>1
  <2> QED
    BY <2>1, <2>2
<1>8. Rows(limit, offset) = rows
  BY DEF Rows, rows, last, first, n, C
<1> QED
  BY <1>2, <1>5, <1>6, <1>7, <1>8 DEF n, C

\* What the agent answers for a page, and whether it says there is another.
LEMMA PageIs ==
    ASSUME NEW token \in Nat
    PROVE  LET page == AgentPage(token)
               n == Len(CollectionIds) IN
           /\ n \in Nat /\ page.ids \in Seq(Docs) /\ page.next \in Nat
           /\ \A i \in 1..Len(page.ids) : page.ids[i] = CollectionIds[token + i]
           /\ page.next = 0 => Len(page.ids) = IF token >= n THEN 0 ELSE n - token
           /\ page.next # 0 => /\ page.next = token + PageMax /\ Len(page.ids) = PageMax
                               /\ token + PageMax < n
<1> DEFINE n == Len(CollectionIds)
           rows == Rows(PageMax + 1, token)
           page == AgentPage(token)
<1>0. PageMax \in Nat /\ PageMax > 0 /\ PageMax + 1 \in Nat
  BY SizeAssumption
<1>1. /\ n \in Nat /\ rows \in Seq(Docs)
      /\ Len(rows) = IF token >= n THEN 0 ELSE IF token + (PageMax + 1) < n THEN PageMax + 1 ELSE n - token
      /\ \A i \in 1..Len(rows) : rows[i] = CollectionIds[token + i]
  BY <1>0, RowsAre
<1>2. Len(rows) > PageMax =>
        page.ids = SubSeq(rows, 1, PageMax) /\ page.next = token + PageMax
  BY DEF AgentPage
<1>3. ~(Len(rows) > PageMax) => page.ids = rows /\ page.next = 0
  BY DEF AgentPage
<1> HIDE DEF rows, page, n
<1>4. rows \in [1..Len(rows) -> Docs] /\ Len(rows) \in Nat
  BY <1>1, LenProperties
<1>5. CASE Len(rows) > PageMax
  <2>1. \A i \in 1..PageMax : rows[i] \in Docs
    BY <1>0, <1>4, <1>5
  <2>2. /\ SubSeq(rows, 1, PageMax) \in Seq(Docs)
        /\ Len(SubSeq(rows, 1, PageMax)) = IF 1 <= PageMax THEN PageMax - 1 + 1 ELSE 0
        /\ \A i \in 1..(PageMax - 1 + 1) : SubSeq(rows, 1, PageMax)[i] = rows[1 + i - 1]
    BY <1>0, <2>1, SubSeqProperties
  <2>3. Len(page.ids) = PageMax /\ page.ids \in Seq(Docs)
    BY <1>0, <1>2, <1>5, <2>2
  <2>4. ASSUME NEW i \in 1..PageMax PROVE page.ids[i] = CollectionIds[token + i]
    <3>1. i \in 1..(PageMax - 1 + 1) /\ 1 + i - 1 = i /\ i \in 1..Len(rows)
      BY <1>0, <1>4, <1>5
    <3> QED
      BY <1>1, <1>2, <1>5, <2>2, <3>1
  <2>5. page.next = token + PageMax /\ page.next \in Nat /\ page.next # 0 /\ token + PageMax < n
    BY <1>0, <1>1, <1>2, <1>5
  <2> QED
    BY <1>1, <2>3, <2>4, <2>5 DEF page, n
<1>6. CASE ~(Len(rows) > PageMax)
  <2>1. Len(rows) = IF token >= n THEN 0 ELSE n - token
    BY <1>0, <1>1, <1>6
  <2>2. page.ids = rows /\ page.next = 0 /\ page.next \in Nat
    BY <1>3, <1>6
  <2>3. \A i \in 1..Len(page.ids) : page.ids[i] = CollectionIds[token + i]
    BY <1>1, <2>2
  <2> QED
    BY <1>1, <2>1, <2>2, <2>3 DEF page, n
<1> QED
  BY <1>5, <1>6

-----------------------------------------------------------------------------
(* Type correctness of the remaining steps                                 *)

\* Only the request of the worker changes, or nothing but a document with it.
LEMMA StoreType ==
    ASSUME TypeOK, NEW w \in Workers, NEW p \in Docs, NEW f \in Contents, Store(w, p, f)
    PROVE  docs' \in [Docs -> Contents] /\ ver' \in [Docs -> Nat]
BY DEF TypeOK, Store

\* The steps of a call keep the types.
LEMMA StepType ==
    ASSUME TypeOK, NEW w \in Workers, Step(w) \/ NotifyFails(w) \/ CallLost(w)
    PROVE  TypeOK'
<1> DEFINE c == call[w]
<1>0. c \in Calls /\ StepFits(w) /\ at[w] \in Steps
  BY DEF TypeOK
<1>1. ASSUME Answer(w), UNCHANGED <<docs, ver, told, calls, sub>>, faults' \in Nat
      PROVE  TypeOK'
  <2>1. at' \in [Workers -> Steps] /\ call' \in [Workers -> Calls] /\ \A x \in Workers : StepFits(x)'
    BY <1>1, AnswerType
  <2> QED
    BY <1>1, <2>1 DEF TypeOK
<1>2. CASE NotifyFails(w) \/ CallLost(w) \/ AnswerListing(w) \/ InsertTransaction(w)
  <2>1. faults' \in Nat /\ Answer(w) /\ UNCHANGED <<docs, ver, told, calls, sub>>
    BY <1>2 DEF NotifyFails, CallLost, AnswerListing, InsertTransaction, TypeOK
  <2> QED
    BY <1>1, <2>1
<1>3. CASE MergeMask(w)
  <2>1. CASE docs[c.doc] = Absent
    BY <1>1, <1>3, <2>1 DEF MergeMask, TypeOK
  <2>2. CASE docs[c.doc] # Absent
    <3> DEFINE d == [c EXCEPT !.fields = Merged(docs[c.doc], c.fields, c.mask)]
    <3>1. at' = [at EXCEPT ![w] = "insert"] /\ call' = [call EXCEPT ![w] = d] /\ "insert" \in Steps
      BY <1>3, <2>2 DEF MergeMask, Goto, TypeOK, Steps
    <3>2. c.kind \in {"create", "update"} /\ c.doc \in Docs /\ c.fields \in Stored
      BY <1>0, <1>3 DEF StepFits, MergeMask
    <3>3. docs[c.doc] \in Stored
      BY <2>2, <3>2 DEF TypeOK, Contents
    <3>4. Merged(docs[c.doc], c.fields, c.mask) \in Stored
      BY <3>2, <3>3 DEF Merged, Stored
    <3>5. d.kind = c.kind /\ d.doc = c.doc /\ d.fields \in Stored
      BY <1>0, <3>4 DEF Calls
    <3>6. d \in Calls
      <4> HIDE DEF c
      <4>1. Merged(docs[c.doc], c.fields, c.mask) \in Contents
        BY <3>4 DEF Contents
      <4> QED
        BY <1>0, <4>1, Zenon DEF Calls
    <3> HIDE DEF d
    <3>7. at' \in [Workers -> Steps] /\ call' \in [Workers -> Calls] /\ \A x \in Workers : StepFits(x)'
      BY <3>1, <3>2, <3>5, <3>6, WorkerMoves
    <3> QED
      BY <1>3, <3>7 DEF TypeOK, MergeMask
  <2> QED
    BY <2>1, <2>2
<1>4. ASSUME NEW f \in Contents, Store(w, c.doc, f), Goto(w, "notify"), call' = call,
             c.kind \in {"create", "update", "delete"},
             UNCHANGED <<calls, faults, told, sub>>
      PROVE  TypeOK'
  <2>1. c.doc \in Docs /\ (c.kind \in {"create", "update"} => c.fields \in Stored)
    BY <1>0, <1>4 DEF StepFits
  <2>2. docs' \in [Docs -> Contents] /\ ver' \in [Docs -> Nat]
    BY <1>4, <2>1, StoreType
  <2>3. at' = [at EXCEPT ![w] = "notify"] /\ call' = [call EXCEPT ![w] = c] /\ "notify" \in Steps
    BY <1>4 DEF Goto, TypeOK, Steps
  <2> HIDE DEF c
  <2>4. at' \in [Workers -> Steps] /\ call' \in [Workers -> Calls] /\ \A x \in Workers : StepFits(x)'
    BY <1>0, <1>4, <2>1, <2>3, WorkerMoves
  <2> QED
    BY <1>4, <2>2, <2>4 DEF TypeOK
<1>5. CASE WriteDocument(w)
  <2>1. CASE Satisfied(c.pre, c.doc) /\ Insertable(c.pre, c.doc)
    <3>1. c.kind \in {"create", "update"} /\ c.fields \in Contents
      BY <1>0, <1>5 DEF WriteDocument, StepFits, Contents
    <3> QED
      BY <1>4, <1>5, <2>1, <3>1 DEF WriteDocument
  <2>2. CASE ~(Satisfied(c.pre, c.doc) /\ Insertable(c.pre, c.doc))
    BY <1>1, <1>5, <2>2 DEF WriteDocument, TypeOK
  <2> QED
    BY <2>1, <2>2
<1>6. CASE DeleteRow(w)
  <2>1. CASE docs[c.doc] # Absent
    <3>1. c.kind = "delete" /\ Absent \in Contents
      BY <1>0, <1>6 DEF DeleteRow, StepFits, Contents
    <3> QED
      BY <1>4, <1>6, <2>1, <3>1 DEF DeleteRow
  <2>2. CASE docs[c.doc] = Absent
    BY <1>1, <1>6, <2>2 DEF DeleteRow, TypeOK
  <2> QED
    BY <2>1, <2>2
<1>7. CASE SendNotify(w)
  <2> DEFINE p == c.doc
             New(s) == IF sub[s].bridge \in {"off", "ended"} THEN sub[s]
                       ELSE [sub[s] EXCEPT !.queue = Append(@, p)]
  <2>1. p \in Docs
    BY <1>0, <1>7 DEF SendNotify, StepFits
  <2>2. at' \in [Workers -> Steps] /\ call' \in [Workers -> Calls] /\ \A x \in Workers : StepFits(x)'
    BY <1>7, AnswerType DEF SendNotify
  <2>3. told' \in [Docs -> Nat]
    BY <1>7, <2>1 DEF SendNotify, TypeOK
  <2>4. sub' = [s \in Subs |-> New(s)]
    BY <1>7 DEF SendNotify
  <2> HIDE DEF p
  <2>5. ASSUME NEW s \in Subs PROVE New(s) \in Streams /\ StreamFits(New(s))
    <3> DEFINE b == sub[s]
               r == [b EXCEPT !.queue = Append(@, p)]
    <3>1. b \in Streams /\ StreamFits(b)
      BY DEF TypeOK
    <3> HIDE DEF b
    <3>2. Append(b.queue, p) \in Seq(Docs) /\ Append(b.queue, p) # << >>
      <4>1. b.queue \in Seq(Docs)
        BY <3>1 DEF Streams
      <4> QED
        BY <2>1, <4>1, AppendProperties
    <3>3. r \in Streams
      BY <3>1, <3>2, Zenon DEF Streams
    <3>4. StreamFits(r)
      BY <3>1, <3>2 DEF Streams, StreamFits
    <3> QED
      BY <3>1, <3>3, <3>4 DEF b
  <2> HIDE DEF New
  <2>6. sub' \in [Subs -> Streams] /\ \A s \in Subs : StreamFits(sub'[s])
    BY <2>4, <2>5
  <2> QED
    BY <1>7, <2>2, <2>3, <2>6 DEF SendNotify, TypeOK
<1>8. CASE FetchPage(w)
  <2> DEFINE page == AgentPage(c.token)
             collected == c.ids \o page.ids
             d == [c EXCEPT !.ids = collected, !.token = page.next]
             step == IF page.next = 0 \/ Len(collected) >= c.limit THEN "listed" ELSE "page"
  <2>1. at' = [at EXCEPT ![w] = step] /\ call' = [call EXCEPT ![w] = d] /\ step \in Steps
    BY <1>8 DEF FetchPage, Goto, TypeOK, Steps
  <2>2. c.kind = "list"
    BY <1>0, <1>8 DEF FetchPage, StepFits
  <2>3. c.token \in Nat /\ c.ids \in Seq(Docs)
    BY <1>0 DEF Calls
  <2>4. page.ids \in Seq(Docs) /\ page.next \in Nat
    BY <2>3, PageIs
  <2> HIDE DEF page, c
  <2>5. collected \in Seq(Docs)
    BY <2>3, <2>4, ConcatProperties
  <2> HIDE DEF collected
  <2>6. d \in Calls /\ d.kind = c.kind
    <3>1. d \in Calls
      BY <1>0, <2>4, <2>5, Zenon DEF Calls
    <3> QED
      BY <1>0, <3>1 DEF Calls
  <2>7. step \in {"page", "listed"}
    OBVIOUS
  <2> HIDE DEF d, step
  <2>8. at' \in [Workers -> Steps] /\ call' \in [Workers -> Calls] /\ \A x \in Workers : StepFits(x)'
    BY <2>1, <2>2, <2>6, <2>7, WorkerMoves
  <2> QED
    BY <1>8, <2>8 DEF FetchPage, TypeOK
<1> QED
  BY <1>2, <1>3, <1>5, <1>6, <1>7, <1>8 DEF Step

\* The initial state is well typed.
LEMMA InitType == Init => TypeOK
<1> SUFFICES ASSUME Init PROVE TypeOK
  OBVIOUS
<1>1. docs \in [Docs -> Contents]
  BY DataAssumption DEF Init
<1>2. ver \in [Docs -> Nat] /\ told \in [Docs -> Nat]
  BY DEF Init
<1>3. at \in [Workers -> Steps] /\ calls \in Nat /\ faults \in Nat
  BY DEF Init, Steps
<1>4. call \in [Workers -> Calls] /\ \A w \in Workers : StepFits(w)
  <2>1. NoCall.kind = "none"
    BY DEF NoCall
  <2> HIDE DEF NoCall
  <2> QED
    BY <2>1, NoCallType DEF Init, StepFits
<1>5. NoSub \in Streams /\ StreamFits(NoSub)
  BY NoSubType
<1>6. sub \in [Subs -> Streams] /\ \A s \in Subs : StreamFits(sub[s])
  BY <1>5 DEF Init
<1> QED
  BY <1>1, <1>2, <1>3, <1>4, <1>6 DEF TypeOK

\* A commit made directly at the agent keeps the types.
LEMMA CommitType ==
    ASSUME TypeOK, NEW batch \in Commits, Commit(batch)
    PROVE  TypeOK'
<1> DEFINE writes == {DomainWrite(AgentWrite(w)) : w \in batch}
<1>1. writes = batch
  BY BatchRoundTrip
<1>2. /\ docs' = Committed(writes, docs)
      /\ ver' = [p \in Docs |-> IF \E w \in writes : w.doc = p /\ (w.op # "delete" \/ ver[p] > 0)
                                THEN ver[p] + 1 ELSE ver[p]]
      /\ UNCHANGED <<at, call, calls, faults, told, sub>>
  BY DEF Commit
<1> HIDE DEF writes
<1>3. docs' \in [Docs -> Contents]
  BY <1>1, <1>2, CommittedType DEF TypeOK
<1>4. ver' \in [Docs -> Nat]
  BY <1>2 DEF TypeOK
<1>5. \A w \in Workers : StepFits(w)'
  BY <1>2 DEF TypeOK, StepFits
<1> QED
  BY <1>2, <1>3, <1>4, <1>5 DEF TypeOK

\* Every step keeps the types.
LEMMA NextType == TypeOK /\ [Next]_vars => TypeOK'
<1> SUFFICES ASSUME TypeOK, [Next]_vars PROVE TypeOK'
  OBVIOUS
<1>1. ASSUME UNCHANGED <<docs, ver, at, call, calls, faults, told, sub>> PROVE TypeOK'
  BY <1>1 DEF TypeOK, StepFits
<1>2. CASE UNCHANGED vars
  BY <1>1, <1>2 DEF vars
<1>3. CASE \/ \E ok \in BOOLEAN : StartupProbe(ok)
           \/ Sigterm \/ EndTransaction
  BY <1>1, <1>3 DEF StartupProbe, Sigterm, EndTransaction
<1>4. CASE ShutdownComplete
  <2>1. NoSub \in Streams /\ StreamFits(NoSub)
    BY NoSubType
  <2>2. sub' \in [Subs -> Streams] /\ \A s \in Subs : StreamFits(sub'[s])
    BY <1>4, <2>1 DEF ShutdownComplete
  <2>3. \A w \in Workers : StepFits(w)'
    BY <1>4 DEF TypeOK, StepFits, ShutdownComplete
  <2> QED
    BY <1>4, <2>2, <2>3 DEF TypeOK, ShutdownComplete
<1>5. ASSUME NEW w \in Workers, Step(w) \/ NotifyFails(w) \/ CallLost(w) PROVE TypeOK'
  BY <1>5, StepType
<1>6. ASSUME calls < Len(Menu), NEW w \in Workers, NEW r \in Menu[calls + 1], Request(w, r)
      PROVE  TypeOK'
  <2>1. Len(Menu) \in Nat /\ Menu \in [1..Len(Menu) -> SUBSET Requests]
    BY DataAssumption, LenProperties
  <2>2. calls + 1 \in 1..Len(Menu)
    BY <1>6, <2>1 DEF TypeOK
  <2>3. r \in Requests
    BY <1>6, <2>1, <2>2
  <2> QED
    BY <1>6, <2>3, RequestType
<1>7. ASSUME NEW batch \in Commits, Commit(batch) PROVE TypeOK'
  BY <1>7, CommitType
<1>8. ASSUME NEW s \in Subs,
             Subscribe(s) \/ Stream(s) \/ ClientLeaves(s) \/ TranslateFails(s) \/ ListenerFails(s)
      PROVE  TypeOK'
  <2>1. UNCHANGED <<docs, ver, txn, life, at, call, calls, told, raced>>
    BY <1>8, StreamLeavesAlone
  <2>2. PICK r \in Streams : StreamFits(r) /\ sub' = [sub EXCEPT ![s] = r]
    BY <1>8, StreamType
  <2>3. sub' \in [Subs -> Streams] /\ \A x \in Subs : StreamFits(sub'[x])
    BY <2>2 DEF TypeOK
  <2>4. faults' \in Nat
    BY <1>8 DEF TypeOK, Subscribe, Stream, ClientLeaves, TranslateFails, ListenerFails, BridgeReceive,
                BridgeReset, Translate, TrySend, FilterReceive, FilterSend, FilterEnds, ClientReceives,
                ClientSeesEnd
  <2>5. \A w \in Workers : StepFits(w)'
    BY <2>1 DEF TypeOK, StepFits
  <2> QED
    BY <2>1, <2>3, <2>4, <2>5 DEF TypeOK
<1> QED
  BY <1>2, <1>3, <1>4, <1>5, <1>6, <1>7, <1>8 DEF Next

\* The tables, every worker's request and every stream stay what the code takes
\* them for, whatever fails.
THEOREM TypesSound == Spec => []TypeOK
<1>1. Init => TypeOK
  BY InitType
<1>2. TypeOK /\ [Next]_vars => TypeOK'
  BY NextType
<1> QED
  BY <1>1, <1>2, PTL DEF Spec

-----------------------------------------------------------------------------
(* Commits through the agent                                               *)

\* proto_write_to_domain undoes what the adapter did to a write, so a commit is
\* made only if the preconditions of the server's own batch hold, and the documents
\* after it are the ones that batch describes.
THEOREM CommitsSurviveTheWire == Spec => CommitsAsSent
<1> DEFINE AsSent(batch) == /\ \A w \in batch : Satisfied(w.pre, w.doc)
                            /\ docs' = Committed(batch, docs)
<1>1. ASSUME [Next]_vars, txn = "active", txn' = "committed"
      PROVE  \E batch \in Commits : AsSent(batch)
  <2>1. ASSUME NEW batch \in Commits, Commit(batch) PROVE AsSent(batch)
    BY <2>1, BatchRoundTrip DEF Commit
  <2>2. CASE \E batch \in Commits : Commit(batch)
    BY <2>1, <2>2
  <2>3. CASE \E s \in Subs : Subscribe(s) \/ Stream(s) \/ ClientLeaves(s)
                               \/ TranslateFails(s) \/ ListenerFails(s)
    BY <1>1, <2>3, StreamLeavesAlone
  <2>4. CASE \/ \E ok \in BOOLEAN : StartupProbe(ok)
             \/ Sigterm \/ ShutdownComplete \/ EndTransaction
    BY <1>1, <2>4 DEF StartupProbe, Sigterm, ShutdownComplete, EndTransaction
  <2>5. CASE \E w \in Workers : Step(w) \/ NotifyFails(w) \/ CallLost(w)
    BY <1>1, <2>5 DEF Step, NotifyFails, CallLost, MergeMask, WriteDocument, DeleteRow, SendNotify,
                      FetchPage, AnswerListing, InsertTransaction
  <2>6. CASE calls < Len(Menu) /\ \E w \in Workers, r \in Menu[calls + 1] : Request(w, r)
    BY <1>1, <2>6 DEF Request, CreateDocument, UpdateDocument, DeleteDocument, ListCollectionIds,
                      BeginTransaction, Begin
  <2>7. CASE UNCHANGED vars
    BY <1>1, <2>7 DEF vars
  <2> QED
    BY <1>1, <2>2, <2>3, <2>4, <2>5, <2>6, <2>7 DEF Next
<1>2. [Next]_vars => [txn = "active" /\ txn' = "committed" =>
                        \E batch \in Commits : AsSent(batch)]_vars
  BY <1>1
<1> QED
  BY <1>2, PTL DEF Spec, CommitsAsSent

-----------------------------------------------------------------------------
(* The LISTEN connection of a client that left                             *)

\* A notification that the bridge takes when nobody receives makes an overflow,
\* the next one a RESET, which cannot be sent: that ends the task.
BridgeInv(b) ==
    /\ b.filter # "ended" => b.late = 0
    /\ b.late = 1 => \/ b.bridge \in {"reset", "translate", "send", "ended"}
                     \/ b.bridge = "recv" /\ b.overflow
    /\ b.late > 1 => b.late = 2 /\ b.bridge \in {"reset", "ended"}

\* Every step keeps the bridge of a stream that nobody receives near its end.
LEMMA BridgeStep ==
    ASSUME TypeOK, \A s \in Subs : BridgeInv(sub[s]), [Next]_vars
    PROVE  \A s \in Subs : BridgeInv(sub'[s])
<1>1. ASSUME sub' = sub PROVE \A s \in Subs : BridgeInv(sub'[s])
  BY <1>1
<1>2. BridgeInv(NoSub)
  BY DEF BridgeInv, NoSub
<1>3. ASSUME NEW s \in Subs,
             Subscribe(s) \/ Stream(s) \/ ClientLeaves(s) \/ TranslateFails(s) \/ ListenerFails(s)
      PROVE  \A x \in Subs : BridgeInv(sub'[x])
  <2> DEFINE b == sub[s]
  <2>0. b \in Streams /\ StreamFits(b) /\ BridgeInv(b) /\ sub \in [Subs -> Streams]
    BY DEF TypeOK
  <2>1. b.late \in Nat /\ b.overflow \in BOOLEAN
    BY <2>0 DEF Streams
  <2>2. ASSUME NEW r, BridgeInv(r), sub' = [sub EXCEPT ![s] = r]
        PROVE  \A x \in Subs : BridgeInv(sub'[x])
    BY <2>0, <2>2
  <2>3. ASSUME Subscribe(s) PROVE \A x \in Subs : BridgeInv(sub'[x])
    <3> DEFINE r == [NoSub EXCEPT !.bridge = "recv", !.filter = "recv", !.client = "reading", !.seen = ver]
    <3>1. sub' = [sub EXCEPT ![s] = r]
      BY <2>3 DEF Subscribe, Set
    <3> HIDE DEF b
    <3>2. BridgeInv(r)
      BY <2>0, <2>1, <2>3, <3>1 DEF BridgeInv, StreamFits, Streams, NoSub
    <3> QED
      BY <2>2, <3>1, <3>2
  <2>4. ASSUME ClientLeaves(s) PROVE \A x \in Subs : BridgeInv(sub'[x])
    <3> DEFINE r == [b EXCEPT !.client = "gone", !.out = << >>]
    <3>1. sub' = [sub EXCEPT ![s] = r]
      BY <2>4 DEF ClientLeaves, Set
    <3> HIDE DEF b
    <3>2. BridgeInv(r)
      BY <2>0, <2>1, <2>4, <3>1 DEF BridgeInv, StreamFits, Streams
    <3> QED
      BY <2>2, <3>1, <3>2
  <2>5. ASSUME TranslateFails(s) PROVE \A x \in Subs : BridgeInv(sub'[x])
    <3> DEFINE r == [b EXCEPT !.bridge = "send", !.queue = Tail(@), !.item = Change(Head(b.queue), 0)]
    <3>1. sub' = [sub EXCEPT ![s] = r] /\ b.bridge = "translate"
      BY <2>5 DEF TranslateFails, Set
    <3> HIDE DEF b
    <3>2. BridgeInv(r)
      BY <2>0, <2>1, <2>5, <3>1 DEF BridgeInv, StreamFits, Streams
    <3> QED
      BY <2>2, <3>1, <3>2
  <2>6. ASSUME ListenerFails(s) PROVE \A x \in Subs : BridgeInv(sub'[x])
    <3> DEFINE r == [b EXCEPT !.bridge = "ended", !.queue = << >>]
    <3>1. sub' = [sub EXCEPT ![s] = r] /\ b.bridge = "recv"
      BY <2>6 DEF ListenerFails, Set
    <3> HIDE DEF b
    <3>2. BridgeInv(r)
      BY <2>0, <2>1, <2>6, <3>1 DEF BridgeInv, StreamFits, Streams
    <3> QED
      BY <2>2, <3>1, <3>2
  <2>7. ASSUME BridgeReceive(s) PROVE \A x \in Subs : BridgeInv(sub'[x])
    <3> DEFINE r == [b EXCEPT !.bridge = IF b.overflow THEN "reset" ELSE "translate",
                              !.overflow = FALSE,
                              !.late = IF b.filter = "ended" THEN @ + 1 ELSE @]
    <3>1. sub' = [sub EXCEPT ![s] = r] /\ b.bridge = "recv"
      BY <2>7 DEF BridgeReceive, Set
    <3> HIDE DEF b
    <3>2. BridgeInv(r)
      BY <2>0, <2>1, <2>7, <3>1 DEF BridgeInv, StreamFits, Streams
    <3> QED
      BY <2>2, <3>1, <3>2
  <2>8. ASSUME BridgeReset(s), b.filter = "ended" PROVE \A x \in Subs : BridgeInv(sub'[x])
    <3> DEFINE r == [b EXCEPT !.bridge = "ended", !.queue = << >>]
    <3>1. sub' = [sub EXCEPT ![s] = r] /\ b.bridge = "reset"
      BY <2>8 DEF BridgeReset, Set
    <3> HIDE DEF b
    <3>2. BridgeInv(r)
      BY <2>0, <2>1, <2>8, <3>1 DEF BridgeInv, StreamFits, Streams
    <3> QED
      BY <2>2, <3>1, <3>2
  <2>9. ASSUME BridgeReset(s), b.filter # "ended" PROVE \A x \in Subs : BridgeInv(sub'[x])
    <3> DEFINE r == [b EXCEPT !.bridge = "translate", !.mid = Append(@, Reset)]
    <3>1. sub' = [sub EXCEPT ![s] = r] /\ b.bridge = "reset"
      BY <2>9 DEF BridgeReset, Set
    <3> HIDE DEF b
    <3>2. BridgeInv(r)
      BY <2>0, <2>1, <2>9, <3>1 DEF BridgeInv, StreamFits, Streams
    <3> QED
      BY <2>2, <3>1, <3>2
  <2>10. ASSUME Translate(s) PROVE \A x \in Subs : BridgeInv(sub'[x])
    <3> DEFINE r == [b EXCEPT !.bridge = "send", !.queue = Tail(@),
                              !.item = Change(Head(b.queue), ver[Head(b.queue)])]
    <3>1. sub' = [sub EXCEPT ![s] = r] /\ b.bridge = "translate"
      BY <2>10 DEF Translate, Set
    <3> HIDE DEF b
    <3>2. BridgeInv(r)
      BY <2>0, <2>1, <2>10, <3>1 DEF BridgeInv, StreamFits, Streams
    <3> QED
      BY <2>2, <3>1, <3>2
  <2>11. ASSUME TrySend(s), b.filter # "ended" /\ Len(b.mid) < ChannelSize PROVE \A x \in Subs : BridgeInv(sub'[x])
    <3> DEFINE r == [b EXCEPT !.bridge = "recv", !.item = Absent, !.overflow = FALSE, !.mid = Append(@, b.item)]
    <3>1. sub' = [sub EXCEPT ![s] = r] /\ b.bridge = "send"
      BY <2>11 DEF TrySend, Set
    <3> HIDE DEF b
    <3>2. BridgeInv(r)
      BY <2>0, <2>1, <2>11, <3>1 DEF BridgeInv, StreamFits, Streams
    <3> QED
      BY <2>2, <3>1, <3>2
  <2>12. ASSUME TrySend(s), ~(b.filter # "ended" /\ Len(b.mid) < ChannelSize) PROVE \A x \in Subs : BridgeInv(sub'[x])
    <3> DEFINE r == [b EXCEPT !.bridge = "recv", !.item = Absent, !.overflow = TRUE]
    <3>1. sub' = [sub EXCEPT ![s] = r] /\ b.bridge = "send"
      BY <2>12 DEF TrySend, Set
    <3> HIDE DEF b
    <3>2. BridgeInv(r)
      BY <2>0, <2>1, <2>12, <3>1 DEF BridgeInv, StreamFits, Streams
    <3> QED
      BY <2>2, <3>1, <3>2
  <2>13. ASSUME FilterReceive(s), Passes(Head(b.mid)) PROVE \A x \in Subs : BridgeInv(sub'[x])
    <3> DEFINE r == [b EXCEPT !.mid = Tail(@), !.held = Head(b.mid), !.filter = "send"]
    <3>1. sub' = [sub EXCEPT ![s] = r] /\ b.filter = "recv"
      BY <2>13 DEF FilterReceive, Set
    <3> HIDE DEF b
    <3>2. BridgeInv(r)
      BY <2>0, <2>1, <2>13, <3>1 DEF BridgeInv, StreamFits, Streams
    <3> QED
      BY <2>2, <3>1, <3>2
  <2>14. ASSUME FilterReceive(s), ~Passes(Head(b.mid)) PROVE \A x \in Subs : BridgeInv(sub'[x])
    <3> DEFINE r == [b EXCEPT !.mid = Tail(@)]
    <3>1. sub' = [sub EXCEPT ![s] = r] /\ b.filter = "recv"
      BY <2>14 DEF FilterReceive, Set
    <3> HIDE DEF b
    <3>2. BridgeInv(r)
      BY <2>0, <2>1, <2>14, <3>1 DEF BridgeInv, StreamFits, Streams
    <3> QED
      BY <2>2, <3>1, <3>2
  <2>15. ASSUME FilterSend(s), b.client = "gone" PROVE \A x \in Subs : BridgeInv(sub'[x])
    <3> DEFINE r == [b EXCEPT !.filter = "ended", !.held = Absent, !.mid = << >>]
    <3>1. sub' = [sub EXCEPT ![s] = r] /\ b.filter = "send"
      BY <2>15 DEF FilterSend, Set
    <3> HIDE DEF b
    <3>2. BridgeInv(r)
      BY <2>0, <2>1, <2>15, <3>1 DEF BridgeInv, StreamFits, Streams
    <3> QED
      BY <2>2, <3>1, <3>2
  <2>16. ASSUME FilterSend(s), b.client # "gone" PROVE \A x \in Subs : BridgeInv(sub'[x])
    <3> DEFINE r == [b EXCEPT !.filter = "recv", !.held = Absent, !.out = Append(@, b.held)]
    <3>1. sub' = [sub EXCEPT ![s] = r] /\ b.filter = "send"
      BY <2>16 DEF FilterSend, Set
    <3> HIDE DEF b
    <3>2. BridgeInv(r)
      BY <2>0, <2>1, <2>16, <3>1 DEF BridgeInv, StreamFits, Streams
    <3> QED
      BY <2>2, <3>1, <3>2
  <2>17. ASSUME FilterEnds(s) PROVE \A x \in Subs : BridgeInv(sub'[x])
    <3> DEFINE r == [b EXCEPT !.filter = "ended"]
    <3>1. sub' = [sub EXCEPT ![s] = r] /\ b.filter = "recv"
      BY <2>17 DEF FilterEnds, Set
    <3> HIDE DEF b
    <3>2. BridgeInv(r)
      BY <2>0, <2>1, <2>17, <3>1 DEF BridgeInv, StreamFits, Streams
    <3> QED
      BY <2>2, <3>1, <3>2
  <2>18. ASSUME ClientReceives(s) PROVE \A x \in Subs : BridgeInv(sub'[x])
    <3> DEFINE r == [b EXCEPT !.out = Tail(@),
                              !.seen = IF Head(b.out) = Reset THEN ver
                                       ELSE [@ EXCEPT ![Head(b.out)[2]] = Head(b.out)[3]]]
    <3>1. sub' = [sub EXCEPT ![s] = r]
      BY <2>18 DEF ClientReceives, Set
    <3> HIDE DEF b
    <3>2. BridgeInv(r)
      BY <2>0, <2>1, <2>18, <3>1 DEF BridgeInv, StreamFits, Streams
    <3> QED
      BY <2>2, <3>1, <3>2
  <2>19. ASSUME ClientSeesEnd(s) PROVE \A x \in Subs : BridgeInv(sub'[x])
    <3> DEFINE r == [b EXCEPT !.client = "ended"]
    <3>1. sub' = [sub EXCEPT ![s] = r]
      BY <2>19 DEF ClientSeesEnd, Set
    <3> HIDE DEF b
    <3>2. BridgeInv(r)
      BY <2>0, <2>1, <2>19, <3>1 DEF BridgeInv, StreamFits, Streams
    <3> QED
      BY <2>2, <3>1, <3>2
  <2> QED
    BY <1>3, <2>3, <2>4, <2>5, <2>6, <2>7, <2>8, <2>9, <2>10, <2>11, <2>12, <2>13, <2>14, <2>15, <2>16, <2>17, <2>18, <2>19 DEF Stream
<1>4. CASE ShutdownComplete
  BY <1>2, <1>4 DEF ShutdownComplete
<1>5. ASSUME NEW w \in Workers, SendNotify(w) PROVE \A s \in Subs : BridgeInv(sub'[s])
  BY <1>5 DEF SendNotify, BridgeInv, TypeOK, Streams
<1>6. ASSUME NEW w \in Workers, Step(w) \/ NotifyFails(w) \/ CallLost(w), ~SendNotify(w)
      PROVE  sub' = sub
  BY <1>6 DEF Step, NotifyFails, CallLost, MergeMask, WriteDocument, DeleteRow,
              FetchPage, AnswerListing, InsertTransaction
<1>7. ASSUME NEW w \in Workers, NEW r, Request(w, r) PROVE sub' = sub
  BY <1>7 DEF Request, CreateDocument, UpdateDocument, DeleteDocument, ListCollectionIds,
              BeginTransaction, Begin
<1>8. CASE \/ \E ok \in BOOLEAN : StartupProbe(ok)
           \/ Sigterm \/ EndTransaction \/ \E batch \in Commits : Commit(batch)
           \/ UNCHANGED vars
  BY <1>1, <1>8 DEF StartupProbe, Sigterm, EndTransaction, Commit, vars
<1> QED
  BY <1>1, <1>3, <1>4, <1>5, <1>6, <1>7, <1>8 DEF Next

\* The bridge of a client that left takes at most two more notifications after
\* the filter has noticed, and so gives its connection back, for channels of any
\* size.
THEOREM ConnectionsComeBack == Spec => []ConnectionGivenBack
<1>1. Init => \A s \in Subs : BridgeInv(sub[s])
  BY DEF Init, BridgeInv, NoSub
<1>2. TypeOK /\ (\A s \in Subs : BridgeInv(sub[s])) /\ [Next]_vars => (\A s \in Subs : BridgeInv(sub[s]))'
  BY BridgeStep
<1>3. TypeOK /\ (\A s \in Subs : BridgeInv(sub[s])) => ConnectionGivenBack
  <2> SUFFICES ASSUME TypeOK, NEW s \in Subs, BridgeInv(sub[s]) PROVE sub[s].late <= 2
    BY DEF ConnectionGivenBack
  <2>1. sub[s].late \in Nat
    BY DEF TypeOK, Streams
  <2> QED
    BY <2>1 DEF BridgeInv
<1> QED
  BY <1>1, <1>2, <1>3, TypesSound, PTL DEF Spec

-----------------------------------------------------------------------------
(* Listings, page by page                                                  *)

\* The locals c of a listing that no write overtook, before its next step, when C
\* are the names in the database: what it has is a piece of C from the offset
\* asked for, the next token is where that piece ends, and it stops only when it
\* has enough or all of them.
ListFits(step, c, C) ==
    /\ step \in {"page", "listed"} =>
         /\ \A i \in 1..Len(c.ids) : c.ids[i] = C[c.offset + i]
         /\ Len(c.ids) = 0 \/ c.offset + Len(c.ids) <= Len(C)
    /\ step = "page" => c.token = c.offset + Len(c.ids)
    /\ step = "listed" =>
         \/ Len(c.ids) >= c.limit
         \/ Len(c.ids) = IF c.offset >= Len(C) THEN 0 ELSE Len(C) - c.offset

ListInv == \A w \in Workers \ raced : ListFits(at[w], call[w], CollectionIds)

\* A page more.
LEMMA FetchKeepsPiece ==
    ASSUME TypeOK, NEW w \in Workers, FetchPage(w), ListFits(at[w], call[w], CollectionIds)
    PROVE  ListFits(at'[w], call'[w], CollectionIds)
<1> DEFINE c == call[w]
           C == CollectionIds
           n == Len(C)
           k == Len(c.ids)
           page == AgentPage(c.token)
           more == Len(page.ids)
           collected == c.ids \o page.ids
           d == call'[w]
<1>0. c \in Calls /\ call \in [Workers -> Calls] /\ at \in [Workers -> Steps]
  BY DEF TypeOK
<1>1. c.ids \in Seq(Docs) /\ c.token \in Nat /\ c.offset \in Nat /\ c.limit \in Nat /\ k \in Nat
  BY <1>0, LenProperties DEF Calls
<1>2. /\ \A i \in 1..k : c.ids[i] = C[c.offset + i]
      /\ k = 0 \/ c.offset + k <= n
      /\ c.token = c.offset + k
  BY DEF ListFits, FetchPage
<1>3. /\ n \in Nat /\ page.ids \in Seq(Docs) /\ page.next \in Nat
      /\ \A i \in 1..more : page.ids[i] = C[c.token + i]
      /\ page.next = 0 => more = IF c.token >= n THEN 0 ELSE n - c.token
      /\ page.next # 0 => page.next = c.token + PageMax /\ more = PageMax /\ c.token + PageMax < n
  BY <1>1, PageIs
<1>4. /\ d.ids = collected /\ d.token = page.next /\ d.offset = c.offset /\ d.limit = c.limit
      /\ at'[w] = IF page.next = 0 \/ Len(collected) >= c.limit THEN "listed" ELSE "page"
  BY <1>0 DEF FetchPage, Goto, Calls
<1> HIDE DEF c, C, n, page, d
<1>5. /\ collected \in Seq(Docs) /\ Len(collected) = k + more
      /\ \A i \in 1..(k + more) : collected[i] = IF i <= k THEN c.ids[i] ELSE page.ids[i - k]
  BY <1>1, <1>3, ConcatProperties
<1>6. more \in Nat /\ PageMax \in Nat /\ PageMax > 0
  BY <1>3, LenProperties, SizeAssumption
<1> HIDE DEF collected, k, more
<1>7. ASSUME NEW i \in 1..(k + more) PROVE collected[i] = C[c.offset + i]
  <2>1. CASE i <= k
    BY <1>1, <1>2, <1>5, <2>1
  <2>2. CASE ~(i <= k)
    <3>1. i - k \in 1..more /\ c.token + (i - k) = c.offset + i
      BY <1>1, <1>2, <1>6, <2>2
    <3>2. collected[i] = page.ids[i - k]
      BY <1>5, <2>2
    <3> QED
      BY <1>3, <3>1, <3>2
  <2> QED
    BY <2>1, <2>2
<1>8. k + more = 0 \/ c.offset + (k + more) <= n
  BY <1>1, <1>2, <1>3, <1>6
<1>9. page.next = 0 => k + more = IF c.offset >= n THEN 0 ELSE n - c.offset
  BY <1>1, <1>2, <1>3, <1>6
<1>10. page.next # 0 => page.next = c.offset + (k + more)
  BY <1>1, <1>2, <1>3, <1>6
<1>11. /\ \A i \in 1..Len(d.ids) : d.ids[i] = C[d.offset + i]
       /\ Len(d.ids) = 0 \/ d.offset + Len(d.ids) <= n
  BY <1>4, <1>5, <1>7, <1>8
<1>12. at'[w] = "page" => d.token = d.offset + Len(d.ids)
  BY <1>4, <1>5, <1>10
<1>13. at'[w] = "listed" =>
         Len(d.ids) >= d.limit \/ Len(d.ids) = IF d.offset >= n THEN 0 ELSE n - d.offset
  BY <1>4, <1>5, <1>9
<1> QED
  BY <1>11, <1>12, <1>13 DEF ListFits, d, n, C

\* Every step keeps what a paged listing has and has still to fetch.
LEMMA ListStep ==
    ASSUME TypeOK, ListInv, [Next]_vars
    PROVE  ListInv'
<1> SUFFICES ASSUME NEW x \in Workers, x \notin raced'
             PROVE  ListFits(at'[x], call'[x], CollectionIds')
  BY DEF ListInv
<1>0. at \in [Workers -> Steps] /\ call \in [Workers -> Calls] /\ StepFits(x)
  BY DEF TypeOK
<1>1. x \notin raced => ListFits(at[x], call[x], CollectionIds)
  BY DEF ListInv
<1>2. ASSUME at'[x] \notin {"page", "listed"} PROVE ListFits(at'[x], call'[x], CollectionIds')
  BY <1>2 DEF ListFits
<1>3. ASSUME x \notin raced, at'[x] = at[x], call'[x] = call[x], docs' = docs
      PROVE  ListFits(at'[x], call'[x], CollectionIds')
  <2>1. CollectionIds' = CollectionIds
    BY <1>3 DEF CollectionIds
  <2> QED
    BY <1>1, <1>3, <2>1
<1>4. CASE \/ \E ok \in BOOLEAN : StartupProbe(ok)
           \/ Sigterm \/ ShutdownComplete \/ EndTransaction \/ UNCHANGED vars
  BY <1>3, <1>4 DEF StartupProbe, Sigterm, ShutdownComplete, EndTransaction, vars
<1>5. CASE \E s \in Subs : Subscribe(s) \/ Stream(s) \/ ClientLeaves(s)
                             \/ TranslateFails(s) \/ ListenerFails(s)
  <2>1. UNCHANGED <<docs, at, call, raced>>
    BY <1>5, StreamLeavesAlone
  <2> QED
    BY <1>3, <2>1
<1>6. CASE \E batch \in Commits : Commit(batch)
  BY <1>6 DEF Commit
<1>7. ASSUME NEW w \in Workers, Answer(w), docs' = docs, raced' = raced
      PROVE  ListFits(at'[x], call'[x], CollectionIds')
  <2>1. CASE x = w
    BY <1>0, <1>2, <1>7, <2>1 DEF Answer, Goto
  <2>2. CASE x # w
    BY <1>0, <1>3, <1>7, <2>2 DEF Answer, Goto
  <2> QED
    BY <2>1, <2>2
<1>8. ASSUME NEW w \in Workers, NEW f, Store(w, call[w].doc, f), Goto(w, "notify"), call' = call
      PROVE  ListFits(at'[x], call'[x], CollectionIds')
  <2>1. CASE x = w
    BY <1>0, <1>2, <1>8, <2>1 DEF Goto
  <2>2. CASE x # w
    <3>1. call[x].kind # "list" /\ at'[x] = at[x]
      BY <1>0, <1>8, <2>2 DEF Store, Goto
    <3>2. at[x] \notin {"page", "listed"}
      BY <1>0, <3>1 DEF StepFits
    <3> QED
      BY <1>2, <3>1, <3>2
  <2> QED
    BY <2>1, <2>2
<1>9. ASSUME NEW w \in Workers, Step(w) \/ NotifyFails(w) \/ CallLost(w)
      PROVE  ListFits(at'[x], call'[x], CollectionIds')
  <2>1. CASE NotifyFails(w) \/ CallLost(w) \/ AnswerListing(w) \/ InsertTransaction(w) \/ SendNotify(w)
    BY <1>7, <2>1 DEF NotifyFails, CallLost, AnswerListing, InsertTransaction, SendNotify
  <2>2. CASE MergeMask(w)
    <3>1. CASE docs[call[w].doc] = Absent
      BY <1>7, <2>2, <3>1 DEF MergeMask
    <3>2. CASE docs[call[w].doc] # Absent /\ x = w
      BY <1>0, <1>2, <2>2, <3>2 DEF MergeMask, Goto
    <3>3. CASE docs[call[w].doc] # Absent /\ x # w
      BY <1>0, <1>3, <2>2, <3>3 DEF MergeMask, Goto
    <3> QED
      BY <3>1, <3>2, <3>3
  <2>3. CASE WriteDocument(w)
    BY <1>7, <1>8, <2>3 DEF WriteDocument
  <2>4. CASE DeleteRow(w)
    BY <1>7, <1>8, <2>4 DEF DeleteRow
  <2>5. CASE FetchPage(w)
    <3>1. CASE x = w
      <4>1. CollectionIds' = CollectionIds
        BY <2>5 DEF FetchPage, CollectionIds
      <4>2. ListFits(at[w], call[w], CollectionIds)
        BY <1>1, <2>5, <3>1 DEF FetchPage
      <4> QED
        BY <2>5, <3>1, <4>1, <4>2, FetchKeepsPiece
    <3>2. CASE x # w
      BY <1>0, <1>3, <2>5, <3>2 DEF FetchPage, Goto
    <3> QED
      BY <3>1, <3>2
  <2> QED
    BY <1>9, <2>1, <2>2, <2>3, <2>4, <2>5 DEF Step
<1>10. ASSUME calls < Len(Menu), NEW w \in Workers, NEW r \in Menu[calls + 1], Request(w, r)
       PROVE  ListFits(at'[x], call'[x], CollectionIds')
  <2>0. ASSUME NEW step, NEW c, Begin(w, step, c), x # w
        PROVE  ListFits(at'[x], call'[x], CollectionIds')
    BY <1>0, <1>3, <2>0 DEF Begin, Goto
  <2>1. ASSUME NEW step \in {"insert", "merge", "delete", "begin"}, NEW c, Begin(w, step, c)
        PROVE  ListFits(at'[x], call'[x], CollectionIds')
    <3>1. CASE x = w
      BY <1>0, <1>2, <2>1, <3>1 DEF Begin, Goto
    <3> QED
      BY <2>0, <2>1, <3>1
  <2>2. CASE CreateDocument(w, r) \/ UpdateDocument(w, r) \/ DeleteDocument(w, r) \/ BeginTransaction(w, r)
    BY <2>1, <2>2 DEF CreateDocument, UpdateDocument, DeleteDocument, BeginTransaction
  <2>3. CASE ListCollectionIds(w, r) /\ x = w
    <3> DEFINE c == [r EXCEPT !.token = r.offset]
    <3>1. r \in Requests
      <4>1. Len(Menu) \in Nat /\ Menu \in [1..Len(Menu) -> SUBSET Requests]
        BY DataAssumption, LenProperties
      <4>2. calls + 1 \in 1..Len(Menu)
        BY <1>10, <4>1 DEF TypeOK
      <4> QED
        BY <1>10, <4>1, <4>2
    <3>2. at'[x] = "page" /\ call'[x] = c
      BY <1>0, <2>3 DEF ListCollectionIds, Begin, Goto
    <3>3. c.ids = << >> /\ c.token = c.offset /\ c.offset \in Nat
      BY <3>1 DEF Requests
    <3>4. Len(c.ids) = 0 /\ c.offset + Len(c.ids) = c.offset
      BY <3>3
    <3> HIDE DEF c
    <3> QED
      BY <3>2, <3>3, <3>4 DEF ListFits
  <2>4. CASE ListCollectionIds(w, r) /\ x # w
    BY <2>0, <2>4 DEF ListCollectionIds
  <2> QED
    BY <1>10, <2>2, <2>3, <2>4 DEF Request
<1> QED
  BY <1>4, <1>5, <1>6, <1>9, <1>10 DEF Next

\* However the pages fall, a listing that no write overtook answers what one
\* statement with its limit and offset would, for pages of any size.
THEOREM ListingsAreComplete == Spec => []ListsComplete
<1>1. Init => ListInv
  BY DEF Init, ListInv, ListFits
<1>2. TypeOK /\ ListInv /\ [Next]_vars => ListInv'
  BY ListStep
<1>3. TypeOK /\ ListInv => ListsComplete
  <2> SUFFICES ASSUME TypeOK, ListInv, NEW w \in Workers \ raced, at[w] = "listed"
               PROVE  Truncated(call[w].ids, call[w].limit) = Rows(call[w].limit, call[w].offset)
    BY DEF ListsComplete
  <2> DEFINE c == call[w]
             C == CollectionIds
             n == Len(C)
             k == Len(c.ids)
             rows == Rows(c.limit, c.offset)
             last == IF c.limit < k THEN c.limit ELSE k
             cut == SubSeq(c.ids, 1, last)
  <2>1. c.ids \in Seq(Docs) /\ c.offset \in Nat /\ c.limit \in Nat /\ k \in Nat
    BY LenProperties DEF TypeOK, Calls
  <2>2. /\ \A i \in 1..k : c.ids[i] = C[c.offset + i]
        /\ k = 0 \/ c.offset + k <= n
        /\ k >= c.limit \/ k = IF c.offset >= n THEN 0 ELSE n - c.offset
    BY DEF ListInv, ListFits
  <2>3. /\ n \in Nat /\ rows \in Seq(Docs)
        /\ Len(rows) = IF c.offset >= n THEN 0 ELSE IF c.offset + c.limit < n THEN c.limit ELSE n - c.offset
        /\ \A i \in 1..Len(rows) : rows[i] = C[c.offset + i]
    BY <2>1, RowsAre
  <2>4. Truncated(c.ids, c.limit) = cut
    BY DEF Truncated
  <2> HIDE DEF c, C, n, rows
  <2>5. last \in Nat /\ last <= k /\ c.ids \in [1..k -> Docs]
    BY <2>1, LenProperties
  <2> HIDE DEF k
  <2>6. last = Len(rows)
    BY <2>1, <2>2, <2>3
  <2> HIDE DEF last
  <2>7. \A i \in 1..last : c.ids[i] \in Docs
    BY <2>1, <2>5
  <2>8. /\ cut \in Seq(Docs) /\ Len(cut) = IF 1 <= last THEN last - 1 + 1 ELSE 0
        /\ \A i \in 1..(last - 1 + 1) : cut[i] = c.ids[1 + i - 1]
    BY <2>5, <2>7, SubSeqProperties
  <2> HIDE DEF cut
  <2>9. Len(cut) = Len(rows)
    BY <2>5, <2>6, <2>8
  <2>10. ASSUME NEW i \in 1..Len(cut) PROVE cut[i] = rows[i]
    <3>1. i \in 1..(last - 1 + 1) /\ 1 + i - 1 = i /\ i \in 1..k /\ i \in 1..Len(rows)
      BY <2>1, <2>5, <2>6, <2>9
    <3> QED
      BY <2>2, <2>3, <2>8, <3>1
  <2>11. cut = rows
    BY <2>3, <2>8, <2>9, <2>10, SeqEqual
  <2> QED
    BY <2>4, <2>11 DEF c, rows
<1> QED
  BY <1>1, <1>2, <1>3, TypesSound, PTL DEF Spec

-----------------------------------------------------------------------------
(* What is on its way to a client                                          *)

\* What travels about document p, and what of it the client may still hope for
\* when the version that was announced last is lo and the one stored is hi.
About(p) == {Reset} \cup {Change(p, v) : v \in Nat}
Hope(p, lo, hi) == {Reset} \cup {Change(p, v) : v \in lo..hi}

\* The last word about p, in hand or in a channel, is one of F, or there is none
\* and rest holds of what lies behind it.
One(x, p, F, rest) ==
    \/ x \in About(p) /\ x \in F
    \/ x \notin About(p) /\ rest
Behind(q, p, F, rest) ==
    \/ \E i \in DOMAIN q : /\ q[i] \in About(p) /\ q[i] \in F
                           /\ \A j \in DOMAIN q : j > i => q[j] \notin About(p)
    \/ (\A i \in DOMAIN q : q[i] \notin About(p)) /\ rest

\* The newest word about p between the bridge and the client, or what the client
\* knows when there is none, is as new as the last NOTIFY.
InOut(b, p, F, lo) == Behind(b.out, p, F, b.seen[p] >= lo)
InHeld(b, p, F, lo) ==
    \/ b.filter = "send" /\ One(b.held, p, F, InOut(b, p, F, lo))
    \/ b.filter # "send" /\ InOut(b, p, F, lo)
InMid(b, p, F, lo) == Behind(b.mid, p, F, InHeld(b, p, F, lo))
InHand(b, p, F, lo) ==
    \/ b.bridge = "send" /\ One(b.item, p, F, InMid(b, p, F, lo))
    \/ b.bridge # "send" /\ InMid(b, p, F, lo)

Kept(b, p, lo, hi) ==
    b.client = "reading" /\ b.bridge # "ended" =>
        \/ p \in ToSet(b.queue) \/ b.overflow \/ b.bridge = "reset"
        \/ InHand(b, p, Hope(p, lo, hi), lo)

KeptInv ==
    /\ \A p \in Docs : told[p] <= ver[p]
    /\ faults = 0 => \A s \in Subs, p \in Wanted : Kept(sub[s], p, told[p], ver[p])

\* What is behind a queue once an item has joined it,
LEMMA BehindAppend ==
    ASSUME NEW q \in Seq(Items), NEW x \in Items, NEW p, NEW F, NEW rest \in BOOLEAN
    PROVE  Behind(Append(q, x), p, F, rest) <=> One(x, p, F, Behind(q, p, F, rest))
<1> DEFINE T == About(p)
           a == Append(q, x)
           n == Len(q)
<1>1. /\ n \in Nat /\ DOMAIN q = 1..n /\ DOMAIN a = 1..n + 1
      /\ a[n + 1] = x /\ \A i \in 1..n : a[i] = q[i]
  BY AppendProperties, LenProperties
<1> HIDE DEF T, a, n
<1>2. \A i \in 1..n + 1 : i = n + 1 \/ i \in 1..n
  BY <1>1
<1>3. n + 1 \in 1..n + 1 /\ \A i \in 1..n : i \in 1..n + 1 /\ n + 1 > i
  BY <1>1
<1>4. \A i \in 1..n + 1 : ~(i > n + 1)
  BY <1>1
<1>5. CASE x \in T
  <2>1. Behind(a, p, F, rest) => x \in F
    BY <1>1, <1>2, <1>3, <1>5 DEF Behind, T
  <2>2. x \in F => Behind(a, p, F, rest)
    BY <1>1, <1>3, <1>4, <1>5 DEF Behind, T
  <2> QED
    BY <1>5, <2>1, <2>2 DEF One, T, a
<1>6. CASE x \notin T
  <2>1. Behind(a, p, F, rest) => Behind(q, p, F, rest)
    BY <1>1, <1>2, <1>3, <1>6 DEF Behind, T
  <2>2. Behind(q, p, F, rest) => Behind(a, p, F, rest)
    BY <1>1, <1>2, <1>3, <1>6 DEF Behind, T
  <2> QED
    BY <1>6, <2>1, <2>2 DEF One, T, a
<1> QED
  BY <1>5, <1>6

\* once its first item has been taken,
LEMMA BehindTail ==
    ASSUME NEW q \in Seq(Items), q # << >>, NEW p, NEW F, NEW rest \in BOOLEAN
    PROVE  Behind(q, p, F, rest) <=> Behind(Tail(q), p, F, One(Head(q), p, F, rest))
<1> DEFINE T == About(p)
           a == Tail(q)
           h == Head(q)
           n == Len(q)
<1>1. /\ n \in Nat /\ n >= 1 /\ DOMAIN q = 1..n /\ DOMAIN a = 1..n - 1
      /\ \A i \in 1..n - 1 : a[i] = q[i + 1]
      /\ h = q[1]
  BY HeadTailProperties, EmptySeq, LenProperties
<1> HIDE DEF T, a, h, n
<1>2. /\ 1 \in 1..n
      /\ \A i \in 1..n - 1 : i + 1 \in 1..n /\ i + 1 > 1
      /\ \A i \in 1..n : i = 1 \/ (i - 1 \in 1..n - 1 /\ q[i] = a[i - 1])
  BY <1>1
<1>3. /\ \A i, j \in 1..n - 1 : j > i <=> j + 1 > i + 1
      /\ \A i, j \in 1..n : j > i <=> j - 1 > i - 1
      /\ \A i \in 1..n : ~(1 > i)
  BY <1>1
<1>4. Behind(q, p, F, rest) => Behind(a, p, F, One(h, p, F, rest))
  <2>1. ASSUME NEW i \in 1..n, q[i] \in T, q[i] \in F, \A j \in 1..n : j > i => q[j] \notin T
        PROVE  Behind(a, p, F, One(h, p, F, rest))
    <3>1. \A j \in 1..n - 1 : j + 1 > i => a[j] \notin T
      BY <1>1, <1>2, <2>1
    <3>2. CASE i = 1
      <4>1. \A j \in 1..n - 1 : a[j] \notin T
        BY <1>2, <3>1, <3>2
      <4> QED
        BY <1>1, <2>1, <3>2, <4>1 DEF Behind, One, T
    <3>3. CASE i - 1 \in 1..n - 1 /\ q[i] = a[i - 1]
      <4>1. \A j \in 1..n - 1 : j > i - 1 => a[j] \notin T
        BY <3>1
      <4> QED
        BY <1>1, <2>1, <3>3, <4>1 DEF Behind, T
    <3> QED
      BY <1>2, <3>2, <3>3
  <2>2. ASSUME \A i \in 1..n : q[i] \notin T, rest PROVE Behind(a, p, F, One(h, p, F, rest))
    BY <1>1, <1>2, <2>2 DEF Behind, One, T
  <2> QED
    BY <1>1, <2>1, <2>2 DEF Behind, T
<1>5. Behind(a, p, F, One(h, p, F, rest)) => Behind(q, p, F, rest)
  <2>1. ASSUME NEW i \in 1..n - 1, a[i] \in T, a[i] \in F, \A j \in 1..n - 1 : j > i => a[j] \notin T
        PROVE  Behind(q, p, F, rest)
    <3>1. i + 1 \in 1..n /\ q[i + 1] = a[i]
      BY <1>1, <1>2
    <3>2. ASSUME NEW j \in 1..n, j > i + 1 PROVE q[j] \notin T
      <4>1. j # 1 /\ j - 1 > i
        BY <3>2
      <4> QED
        BY <1>2, <2>1, <4>1
    <3> QED
      BY <1>1, <2>1, <3>1, <3>2 DEF Behind, T
  <2>2. ASSUME \A i \in 1..n - 1 : a[i] \notin T, One(h, p, F, rest) PROVE Behind(q, p, F, rest)
    <3>1. \A j \in 1..n : j > 1 => q[j] \notin T
      BY <1>2, <2>2
    <3>2. CASE h \in T
      BY <1>1, <1>2, <2>2, <3>1, <3>2 DEF Behind, One, T
    <3>3. CASE h \notin T
      <4>1. rest /\ \A j \in 1..n : q[j] \notin T
        BY <1>1, <1>2, <2>2, <3>3 DEF One, T
      <4> QED
        BY <1>1, <4>1 DEF Behind, T
    <3> QED
      BY <3>2, <3>3
  <2> QED
    BY <1>1, <2>1, <2>2 DEF Behind, T
<1> QED
  BY <1>4, <1>5 DEF a, h

\* and when it is empty.
LEMMA BehindEmpty ==
    ASSUME NEW p, NEW F, NEW rest \in BOOLEAN
    PROVE  Behind(<< >>, p, F, rest) <=> rest
BY DEF Behind

\* More to hope for, and something newer behind it.
LEMMA BehindMore ==
    ASSUME NEW q, NEW p, NEW F, NEW G, F \subseteq G, NEW rest \in BOOLEAN, NEW new \in BOOLEAN,
           rest => new, Behind(q, p, F, rest)
    PROVE  Behind(q, p, G, new)
BY DEF Behind

\* What is kept stays kept when the newest version grows.
LEMMA KeptMore ==
    ASSUME NEW b, NEW p, NEW lo \in Nat, NEW hi \in Nat, NEW new \in Nat, hi <= new, Kept(b, p, lo, hi)
    PROVE  Kept(b, p, lo, new)
<1> DEFINE F == Hope(p, lo, hi)
           G == Hope(p, lo, new)
<1>1. F \subseteq G
  BY DEF Hope
<1> HIDE DEF F, G
<1>2. InOut(b, p, F, lo) => InOut(b, p, G, lo)
  BY <1>1 DEF InOut, Behind
<1>3. InHeld(b, p, F, lo) => InHeld(b, p, G, lo)
  BY <1>1, <1>2 DEF InHeld, One
<1>4. InMid(b, p, F, lo) => InMid(b, p, G, lo)
  BY <1>1, <1>3 DEF InMid, Behind
<1>5. InHand(b, p, F, lo) => InHand(b, p, G, lo)
  BY <1>1, <1>4 DEF InHand, One
<1> QED
  BY <1>5 DEF Kept, F, G

\* A NOTIFY is in the queue of the connection until the bridge takes it.
LEMMA QueueSteps ==
    ASSUME NEW q \in Seq(Docs)
    PROVE  /\ \A p \in Docs : ToSet(Append(q, p)) = ToSet(q) \cup {p}
           /\ q # << >> => ToSet(q) = ToSet(Tail(q)) \cup {Head(q)}
<1>1. ASSUME NEW x \in Docs PROVE ToSet(Append(q, x)) = ToSet(q) \cup {x}
  <2> DEFINE a == Append(q, x)
             n == Len(q)
  <2>1. /\ n \in Nat /\ DOMAIN q = 1..n /\ DOMAIN a = 1..n + 1
        /\ a[n + 1] = x /\ \A i \in 1..n : a[i] = q[i]
    BY AppendProperties, LenProperties
  <2> HIDE DEF a, n
  <2>2. /\ \A i \in 1..n + 1 : i = n + 1 \/ i \in 1..n
        /\ n + 1 \in 1..n + 1 /\ \A i \in 1..n : i \in 1..n + 1
    BY <2>1
  <2>3. ToSet(a) \subseteq ToSet(q) \cup {x}
    BY <2>1, <2>2 DEF ToSet
  <2>4. ToSet(q) \cup {x} \subseteq ToSet(a)
    BY <2>1, <2>2 DEF ToSet
  <2> QED
    BY <2>3, <2>4 DEF a
<1>2. ASSUME q # << >> PROVE ToSet(q) = ToSet(Tail(q)) \cup {Head(q)}
  <2> DEFINE a == Tail(q)
             n == Len(q)
  <2>1. /\ n \in Nat /\ n >= 1 /\ DOMAIN q = 1..n /\ DOMAIN a = 1..n - 1
        /\ \A i \in 1..n - 1 : a[i] = q[i + 1]
        /\ Head(q) = q[1]
    BY <1>2, HeadTailProperties, EmptySeq, LenProperties
  <2> HIDE DEF a, n
  <2>2. /\ 1 \in 1..n
        /\ \A i \in 1..n - 1 : i + 1 \in 1..n
        /\ \A i \in 1..n : i = 1 \/ (i - 1 \in 1..n - 1 /\ q[i] = a[i - 1])
    BY <2>1
  <2>3. ToSet(q) \subseteq ToSet(a) \cup {Head(q)}
    BY <2>1, <2>2 DEF ToSet
  <2>4. ASSUME NEW i \in 1..n - 1 PROVE a[i] \in ToSet(q)
    BY <2>1, <2>2 DEF ToSet
  <2>5. Head(q) \in ToSet(q) /\ \A x \in ToSet(a) : x \in ToSet(q)
    BY <2>1, <2>2, <2>4 DEF ToSet
  <2> QED
    BY <2>3, <2>5 DEF a
<1> QED
  BY <1>1, <1>2

\* The tasks of a stream hand on the newest word about a document, or remember
\* that a RESET is due.
LEMMA StreamKeeps ==
    ASSUME TypeOK, NEW s \in Subs, NEW p \in Wanted, told[p] <= ver[p], faults = 0, faults' = 0,
           Kept(sub[s], p, told[p], ver[p]),
           Subscribe(s) \/ Stream(s) \/ ClientLeaves(s) \/ TranslateFails(s) \/ ListenerFails(s)
    PROVE  Kept(sub'[s], p, told[p], ver[p])
<1> DEFINE b == sub[s]
           lo == told[p]
           hi == ver[p]
           F == Hope(p, lo, hi)
<1>0. p \in Docs /\ p \in Passed
  BY DocsAssumption
<1>1. b \in Streams /\ StreamFits(b) /\ sub \in [Subs -> Streams]
  BY DEF TypeOK
<1>2. lo \in Nat /\ hi \in Nat /\ lo <= hi
  BY <1>0 DEF TypeOK
<1>3. /\ b.queue \in Seq(Docs) /\ b.mid \in Seq(Items) /\ b.out \in Seq(Items)
      /\ b.seen \in [Docs -> Nat] /\ b.overflow \in BOOLEAN
  BY <1>1 DEF Streams
<1>4. Reset \in F /\ Reset \in Items /\ Reset \in About(p) /\ Change(p, hi) \in F
  BY <1>2 DEF Hope, Items, About
<1>5. ASSUME NEW v, Change(p, v) \in F PROVE v \in Nat /\ v >= lo
  BY <1>2, <1>5 DEF Hope, Change, Reset
<1>6. ASSUME NEW x \in Items, x \in About(p), x # Reset PROVE x[2] = p /\ x = Change(p, x[3])
  BY <1>6 DEF About, Change
<1>7. \A q \in Docs \ {p}, v \in Nat : Change(q, v) \notin About(p)
  BY DEF About, Change, Reset
<1>8. Kept(b, p, lo, hi)
  OBVIOUS
<1>9. ASSUME NEW r, sub' = [sub EXCEPT ![s] = r] PROVE sub'[s] = r
  BY <1>1, <1>9
<1>10. ASSUME NEW r, r.client # "reading" \/ r.bridge = "ended" PROVE Kept(r, p, lo, hi)
  BY <1>10 DEF Kept
<1>11. ASSUME NEW r, r.client = b.client, b.bridge # "ended", ToSet(b.queue) \subseteq ToSet(r.queue),
              b.overflow \/ b.bridge = "reset" => r.overflow \/ r.bridge = "reset",
              InHand(b, p, F, lo) => InHand(r, p, F, lo)
       PROVE  Kept(r, p, lo, hi)
  BY <1>8, <1>11 DEF Kept
<1>12. CASE Subscribe(s)
  <2> DEFINE r == [NoSub EXCEPT !.bridge = "recv", !.filter = "recv", !.client = "reading", !.seen = ver]
  <2>1. sub'[s] = r
    BY <1>9, <1>12 DEF Subscribe, Set
  <2>2. r.out = << >> /\ r.mid = << >> /\ r.filter = "recv" /\ r.bridge = "recv" /\ r.seen[p] = hi
    BY DEF NoSub
  <2> HIDE DEF r, F, lo, hi
  <2>3. InOut(r, p, F, lo)
    BY <1>2, <2>2, BehindEmpty DEF InOut
  <2>4. InMid(r, p, F, lo)
    BY <2>2, <2>3, BehindEmpty DEF InMid, InHeld
  <2>5. InHand(r, p, F, lo)
    BY <2>2, <2>4 DEF InHand
  <2> QED
    BY <2>1, <2>5 DEF Kept, F, lo, hi
<1>13. CASE ClientLeaves(s)
  <2> DEFINE r == [b EXCEPT !.client = "gone", !.out = << >>]
  <2>1. sub'[s] = r
    BY <1>9, <1>13 DEF ClientLeaves, Set
  <2>2. r.client # "reading"
    BY <1>1 DEF Streams
  <2> QED
    BY <1>10, <2>1, <2>2
<1>14. CASE TranslateFails(s) \/ ListenerFails(s)
  BY <1>14 DEF TranslateFails, ListenerFails
<1>15. CASE BridgeReceive(s)
  <2> DEFINE r == [b EXCEPT !.bridge = IF b.overflow THEN "reset" ELSE "translate",
                            !.overflow = FALSE,
                            !.late = IF b.filter = "ended" THEN @ + 1 ELSE @]
  <2>1. sub'[s] = r /\ b.bridge = "recv"
    BY <1>9, <1>15 DEF BridgeReceive, Set
  <2> HIDE DEF b
  <2>2. /\ r.bridge = (IF b.overflow THEN "reset" ELSE "translate") /\ r.client = b.client
        /\ r.queue = b.queue /\ r.mid = b.mid /\ r.out = b.out /\ r.held = b.held
        /\ r.filter = b.filter /\ r.seen = b.seen
    BY <1>1 DEF Streams
  <2> HIDE DEF r, F, lo, hi
  <2>3. InHand(b, p, F, lo) => InHand(r, p, F, lo)
    BY <2>1, <2>2 DEF InHand, InMid, InHeld, InOut
  <2> QED
    BY <1>11, <2>1, <2>2, <2>3 DEF lo, hi
<1>16. CASE BridgeReset(s) /\ b.filter = "ended"
  <2> DEFINE r == [b EXCEPT !.bridge = "ended", !.queue = << >>]
  <2>1. sub'[s] = r
    BY <1>9, <1>16 DEF BridgeReset, Set
  <2>2. r.bridge = "ended"
    BY <1>1 DEF Streams
  <2> QED
    BY <1>10, <2>1, <2>2
<1>17. CASE BridgeReset(s) /\ b.filter # "ended"
  <2> DEFINE r == [b EXCEPT !.bridge = "translate", !.mid = Append(@, Reset)]
  <2>1. sub'[s] = r /\ b.bridge = "reset"
    BY <1>9, <1>17 DEF BridgeReset, Set
  <2> HIDE DEF b
  <2>2. r.bridge = "translate" /\ r.mid = Append(b.mid, Reset)
    BY <1>1 DEF Streams
  <2> HIDE DEF r, F, lo, hi
  <2> DEFINE rest == InHeld(r, p, F, lo)
  <2>3. rest \in BOOLEAN
    BY DEF InHeld, InOut, One, Behind
  <2> HIDE DEF rest
  <2>4. Behind(Append(b.mid, Reset), p, F, rest)
    <3>1. One(Reset, p, F, Behind(b.mid, p, F, rest))
      BY <1>4, Zenon DEF One
    <3> QED
      BY <1>3, <1>4, <2>3, <3>1, BehindAppend, Zenon
  <2>5. InHand(r, p, F, lo)
    BY <2>2, <2>4 DEF InHand, InMid, rest
  <2> QED
    BY <2>1, <2>5 DEF Kept, F, lo, hi
<1>18. CASE Translate(s)
  <2> DEFINE h == Head(b.queue)
             r == [b EXCEPT !.bridge = "send", !.queue = Tail(@), !.item = Change(h, ver[h])]
  <2>1. sub'[s] = r /\ b.bridge = "translate" /\ b.queue # << >> /\ ~b.overflow
    BY <1>1, <1>9, <1>18 DEF Translate, Set, StreamFits
  <2>2. h \in Docs /\ ver[h] \in Nat
    BY <1>3, <2>1, TailHead DEF TypeOK
  <2>3. ToSet(b.queue) = ToSet(Tail(b.queue)) \cup {h}
    BY <1>3, <2>1, QueueSteps
  <2> HIDE DEF b, h
  <2>4. /\ r.bridge = "send" /\ r.item = Change(h, ver[h]) /\ r.client = b.client
        /\ r.queue = Tail(b.queue) /\ r.mid = b.mid /\ r.out = b.out /\ r.held = b.held
        /\ r.filter = b.filter /\ r.seen = b.seen /\ r.overflow = b.overflow
    BY <1>1 DEF Streams
  <2> HIDE DEF r
  <2>5. CASE h = p
    <3>0. r.item \in F /\ r.item \in About(p) /\ r.bridge = "send"
      BY <1>2, <1>4, <2>4, <2>5 DEF About
    <3>1. InHand(r, p, F, lo)
      BY <3>0, Zenon DEF InHand, One
    <3> QED
      BY <2>1, <3>1 DEF Kept
  <2>6. CASE h # p
    <3>1. r.item \notin About(p)
      BY <1>7, <2>2, <2>4, <2>6
    <3> HIDE DEF F, lo, hi
    <3>2. InMid(r, p, F, lo) <=> InMid(b, p, F, lo)
      BY <2>4 DEF InMid, InHeld, InOut
    <3>3. InHand(b, p, F, lo) => InHand(r, p, F, lo)
      BY <2>1, <2>4, <3>1, <3>2 DEF InHand, One
    <3>4. p \in ToSet(b.queue) => p \in ToSet(r.queue)
      BY <2>3, <2>4, <2>6
    <3>5. Kept(r, p, lo, hi)
      BY <1>8, <2>1, <2>4, <3>3, <3>4 DEF Kept, F
    <3> QED
      BY <2>1, <3>5 DEF lo, hi
  <2> QED
    BY <2>5, <2>6
<1>19. CASE TrySend(s) /\ ~(b.filter # "ended" /\ Len(b.mid) < ChannelSize)
  <2> DEFINE r == [b EXCEPT !.bridge = "recv", !.item = Absent, !.overflow = TRUE]
  <2>1. sub'[s] = r
    BY <1>9, <1>19 DEF TrySend, Set
  <2>2. r.overflow
    BY <1>1 DEF Streams
  <2> QED
    BY <2>1, <2>2 DEF Kept
<1>20. CASE TrySend(s) /\ b.filter # "ended" /\ Len(b.mid) < ChannelSize
  <2> DEFINE r == [b EXCEPT !.bridge = "recv", !.item = Absent, !.overflow = FALSE, !.mid = Append(@, b.item)]
  <2>1. sub'[s] = r /\ b.bridge = "send" /\ ~b.overflow /\ b.item \in Items
    BY <1>1, <1>9, <1>20 DEF TrySend, Set, StreamFits
  <2> HIDE DEF b
  <2>2. /\ r.bridge = "recv" /\ r.mid = Append(b.mid, b.item) /\ r.client = b.client
        /\ r.queue = b.queue /\ r.out = b.out /\ r.held = b.held
        /\ r.filter = b.filter /\ r.seen = b.seen
    BY <1>1 DEF Streams
  <2> HIDE DEF r, F, lo, hi
  <2> DEFINE rest == InHeld(b, p, F, lo)
  <2>3. rest \in BOOLEAN /\ (InHeld(r, p, F, lo) <=> rest)
    BY <2>2 DEF InHeld, InOut, One, Behind
  <2> HIDE DEF rest
  <2>4. Behind(Append(b.mid, b.item), p, F, rest) <=> One(b.item, p, F, Behind(b.mid, p, F, rest))
    BY <1>3, <2>1, <2>3, BehindAppend
  <2>5. InMid(r, p, F, lo) <=> Behind(Append(b.mid, b.item), p, F, rest)
    BY <2>2, <2>3 DEF InMid, Behind
  <2>6. InHand(b, p, F, lo) => InHand(r, p, F, lo)
    BY <2>1, <2>2, <2>4, <2>5 DEF InHand, InMid, rest
  <2> QED
    BY <1>11, <2>1, <2>2, <2>6 DEF lo, hi
<1>21. CASE FilterReceive(s) /\ Passes(Head(b.mid))
  <2> DEFINE h == Head(b.mid)
             r == [b EXCEPT !.mid = Tail(@), !.held = h, !.filter = "send"]
  <2>1. sub'[s] = r /\ b.filter = "recv" /\ b.mid # << >>
    BY <1>9, <1>21 DEF FilterReceive, Set
  <2> HIDE DEF b
  <2>2. /\ r.mid = Tail(b.mid) /\ r.held = h /\ r.filter = "send" /\ r.client = b.client
        /\ r.queue = b.queue /\ r.out = b.out /\ r.bridge = b.bridge /\ r.item = b.item
        /\ r.seen = b.seen /\ r.overflow = b.overflow
    BY <1>1 DEF Streams
  <2> HIDE DEF r, F, lo, hi
  <2> DEFINE rest == InOut(b, p, F, lo)
  <2>3. rest \in BOOLEAN /\ (InOut(r, p, F, lo) <=> rest)
    BY <2>2 DEF InOut, Behind
  <2>4. InHeld(b, p, F, lo) <=> rest
    BY <2>1 DEF InHeld
  <2> HIDE DEF rest
  <2>5. Behind(b.mid, p, F, rest) <=> Behind(Tail(b.mid), p, F, One(h, p, F, rest))
    BY <1>3, <2>1, <2>3, BehindTail
  <2>6. InMid(b, p, F, lo) <=> Behind(b.mid, p, F, rest)
    BY <2>4 DEF InMid, Behind
  <2>7. InMid(r, p, F, lo) <=> Behind(Tail(b.mid), p, F, One(h, p, F, rest))
    BY <2>2, <2>3 DEF InMid, InHeld, Behind, One
  <2>8. InHand(b, p, F, lo) => InHand(r, p, F, lo)
    BY <2>2, <2>5, <2>6, <2>7 DEF InHand, One
  <2> QED
    BY <1>8, <1>10, <1>11, <2>1, <2>2, <2>8 DEF lo, hi
<1>22. CASE FilterReceive(s) /\ ~Passes(Head(b.mid))
  <2> DEFINE h == Head(b.mid)
             r == [b EXCEPT !.mid = Tail(@)]
  <2>1. sub'[s] = r /\ b.filter = "recv" /\ b.mid # << >>
    BY <1>9, <1>22 DEF FilterReceive, Set
  <2>2. h \notin About(p)
    <3>1. h \in Items
      BY <1>3, <2>1, TailHead
    <3> QED
      BY <1>0, <1>6, <1>22, <3>1 DEF Passes
  <2> HIDE DEF b
  <2>3. /\ r.mid = Tail(b.mid) /\ r.held = b.held /\ r.filter = b.filter /\ r.client = b.client
        /\ r.queue = b.queue /\ r.out = b.out /\ r.bridge = b.bridge /\ r.item = b.item
        /\ r.seen = b.seen /\ r.overflow = b.overflow
    BY <1>1 DEF Streams
  <2> HIDE DEF r, F, lo, hi, h
  <2> DEFINE rest == InHeld(b, p, F, lo)
  <2>4. rest \in BOOLEAN /\ (InHeld(r, p, F, lo) <=> rest)
    BY <2>3 DEF InHeld, InOut, One, Behind
  <2> HIDE DEF rest
  <2>5. Behind(b.mid, p, F, rest) <=> Behind(Tail(b.mid), p, F, One(h, p, F, rest))
    BY <1>3, <2>1, <2>4, BehindTail DEF h
  <2>6. InMid(r, p, F, lo) <=> Behind(Tail(b.mid), p, F, One(h, p, F, rest))
    BY <2>2, <2>3, <2>4 DEF InMid, Behind, One
  <2>7. InHand(b, p, F, lo) => InHand(r, p, F, lo)
    BY <2>3, <2>5, <2>6 DEF InHand, InMid, One, rest
  <2> QED
    BY <1>8, <1>10, <1>11, <2>1, <2>3, <2>7 DEF lo, hi
<1>23. CASE FilterSend(s) /\ b.client = "gone"
  <2> DEFINE r == [b EXCEPT !.filter = "ended", !.held = Absent, !.mid = << >>]
  <2>1. sub'[s] = r
    BY <1>9, <1>23 DEF FilterSend, Set
  <2>2. r.client # "reading"
    BY <1>1, <1>23 DEF Streams
  <2> QED
    BY <1>10, <2>1, <2>2
<1>24. CASE FilterSend(s) /\ b.client # "gone"
  <2> DEFINE r == [b EXCEPT !.filter = "recv", !.held = Absent, !.out = Append(@, b.held)]
  <2>1. sub'[s] = r /\ b.filter = "send" /\ b.held \in Items
    BY <1>1, <1>9, <1>24 DEF FilterSend, Set, StreamFits
  <2> HIDE DEF b
  <2>2. /\ r.out = Append(b.out, b.held) /\ r.filter = "recv" /\ r.client = b.client
        /\ r.queue = b.queue /\ r.mid = b.mid /\ r.bridge = b.bridge /\ r.item = b.item
        /\ r.seen = b.seen /\ r.overflow = b.overflow
    BY <1>1 DEF Streams
  <2> HIDE DEF r, F, lo, hi
  <2> DEFINE rest == (b.seen[p] >= lo)
  <2>3. rest \in BOOLEAN
    OBVIOUS
  <2>4. (InOut(r, p, F, lo) <=> Behind(Append(b.out, b.held), p, F, rest))
        /\ (InOut(b, p, F, lo) <=> Behind(b.out, p, F, rest))
    BY <2>2 DEF InOut
  <2> HIDE DEF rest
  <2>5. Behind(Append(b.out, b.held), p, F, rest) <=> One(b.held, p, F, Behind(b.out, p, F, rest))
    BY <1>3, <2>1, <2>3, BehindAppend
  <2>6. InHeld(r, p, F, lo) <=> InHeld(b, p, F, lo)
    BY <2>1, <2>2, <2>4, <2>5 DEF InHeld, One
  <2>7. InHand(b, p, F, lo) => InHand(r, p, F, lo)
    BY <2>2, <2>6 DEF InHand, InMid, One, Behind
  <2> QED
    BY <1>8, <1>10, <1>11, <2>1, <2>2, <2>7 DEF lo, hi
<1>25. CASE FilterEnds(s)
  <2> DEFINE r == [b EXCEPT !.filter = "ended"]
  <2>1. sub'[s] = r
    BY <1>9, <1>25 DEF FilterEnds, Set
  <2>2. r.bridge = "ended"
    BY <1>1, <1>25 DEF Streams, FilterEnds
  <2> QED
    BY <1>10, <2>1, <2>2
<1>26. CASE ClientReceives(s)
  <2> DEFINE h == Head(b.out)
             known == IF h = Reset THEN ver ELSE [b.seen EXCEPT ![h[2]] = h[3]]
             r == [b EXCEPT !.out = Tail(@), !.seen = known]
  <2>1. sub'[s] = r /\ b.out # << >>
    BY <1>9, <1>26 DEF ClientReceives, Set
  <2>2. h \in Items
    BY <1>3, <2>1, TailHead
  <2>3. One(h, p, F, b.seen[p] >= lo) => known[p] >= lo
    <3>1. CASE h = Reset
      BY <1>2, <3>1
    <3>2. CASE h # Reset /\ h \in About(p)
      <4>1. h[2] = p /\ h = Change(p, h[3])
        BY <1>6, <2>2, <3>2
      <4> HIDE DEF F, h
      <4>2. h \in F => h[3] >= lo
        BY <1>5, <4>1
      <4>3. known[p] = h[3]
        BY <1>0, <1>3, <3>2, <4>1
      <4> QED
        BY <3>2, <4>2, <4>3 DEF One
    <3>3. CASE h # Reset /\ h \notin About(p)
      <4>1. h[2] # p
        BY <2>2, <3>3 DEF Items, About, Change
      <4>2. known[p] = b.seen[p]
        BY <1>0, <1>3, <3>3, <4>1
      <4> HIDE DEF known, h
      <4> QED
        BY <3>3, <4>2 DEF One
    <3> QED
      BY <3>1, <3>2, <3>3
  <2> HIDE DEF b, h, known
  <2>4. /\ r.out = Tail(b.out) /\ r.seen = known /\ r.client = b.client /\ r.filter = b.filter
        /\ r.queue = b.queue /\ r.mid = b.mid /\ r.bridge = b.bridge /\ r.item = b.item
        /\ r.held = b.held /\ r.overflow = b.overflow
    BY <1>1 DEF Streams
  <2> HIDE DEF r, F, lo, hi
  <2> DEFINE old == (b.seen[p] >= lo)
             new == (known[p] >= lo)
  <2>5. /\ old \in BOOLEAN /\ new \in BOOLEAN /\ One(h, p, F, old) \in BOOLEAN
        /\ (One(h, p, F, old) => new)
    BY <2>3 DEF One
  <2>6. (InOut(r, p, F, lo) <=> Behind(Tail(b.out), p, F, new)) /\ (InOut(b, p, F, lo) <=> Behind(b.out, p, F, old))
    BY <2>4 DEF InOut
  <2> HIDE DEF old, new
  <2>7. Behind(b.out, p, F, old) <=> Behind(Tail(b.out), p, F, One(h, p, F, old))
    BY <1>3, <2>1, <2>5, BehindTail DEF h
  <2>8. Behind(Tail(b.out), p, F, One(h, p, F, old)) => Behind(Tail(b.out), p, F, new)
    BY <2>5, BehindMore
  <2>9. InOut(b, p, F, lo) => InOut(r, p, F, lo)
    BY <2>6, <2>7, <2>8
  <2>10. InHand(b, p, F, lo) => InHand(r, p, F, lo)
    BY <2>4, <2>9 DEF InHand, InMid, InHeld, One, Behind
  <2> QED
    BY <1>8, <1>10, <1>11, <2>1, <2>4, <2>10 DEF lo, hi
<1>27. CASE ClientSeesEnd(s)
  <2> DEFINE r == [b EXCEPT !.client = "ended"]
  <2>1. sub'[s] = r
    BY <1>9, <1>27 DEF ClientSeesEnd, Set
  <2>2. r.client # "reading"
    BY <1>1 DEF Streams
  <2> QED
    BY <1>10, <2>1, <2>2
<1> QED
  BY <1>12, <1>13, <1>14, <1>15, <1>16, <1>17, <1>18, <1>19, <1>20, <1>21, <1>22, <1>23, <1>24, <1>25,
     <1>26, <1>27 DEF Stream

\* A step that leaves the streams and the NOTIFYs alone.
LEMMA WriteKeeps ==
    ASSUME TypeOK, KeptInv, ver' \in [Docs -> Nat], \A p \in Docs : ver[p] <= ver'[p],
           told' = told, sub' = sub, faults' = 0 => faults = 0
    PROVE  KeptInv'
<1>1. ASSUME NEW p \in Docs PROVE told'[p] <= ver'[p]
  <2>1. told[p] \in Nat /\ ver[p] \in Nat /\ ver'[p] \in Nat /\ told[p] <= ver[p] /\ ver[p] <= ver'[p]
    BY DEF TypeOK, KeptInv
  <2> QED
    BY <2>1
<1>2. ASSUME faults' = 0, NEW s \in Subs, NEW p \in Wanted PROVE Kept(sub'[s], p, told'[p], ver'[p])
  <2>1. p \in Docs
    BY DocsAssumption
  <2>2. told[p] \in Nat /\ ver[p] \in Nat /\ ver'[p] \in Nat /\ ver[p] <= ver'[p]
    BY <2>1 DEF TypeOK
  <2>3. Kept(sub[s], p, told[p], ver[p])
    BY <1>2 DEF KeptInv
  <2>4. Kept(sub[s], p, told[p], ver'[p])
    BY <2>2, <2>3, KeptMore
  <2> QED
    BY <2>4
<1> QED
  BY <1>1, <1>2 DEF KeptInv

\* A NOTIFY waits in the queue of every stream that it concerns.
LEMMA NotifyKeeps ==
    ASSUME TypeOK, KeptInv, NEW w \in Workers, SendNotify(w)
    PROVE  KeptInv'
<1> DEFINE d == call[w].doc
           New(s) == IF sub[s].bridge \in {"off", "ended"} THEN sub[s]
                     ELSE [sub[s] EXCEPT !.queue = Append(@, d)]
<1>1. d \in Docs
  BY DEF TypeOK, StepFits, SendNotify
<1>2. told' = [told EXCEPT ![d] = ver[d]] /\ ver' = ver /\ faults' = faults /\ sub' = [s \in Subs |-> New(s)]
  BY DEF SendNotify
<1> HIDE DEF d
<1>3. told \in [Docs -> Nat] /\ ver \in [Docs -> Nat] /\ \A p \in Docs : told[p] <= ver[p]
  BY DEF TypeOK, KeptInv
<1>4. \A p \in Docs : told'[p] <= ver'[p]
  BY <1>1, <1>2, <1>3
<1>5. ASSUME faults' = 0, NEW s \in Subs, NEW p \in Wanted PROVE Kept(sub'[s], p, told'[p], ver'[p])
  <2> DEFINE b == sub[s]
             r == [b EXCEPT !.queue = Append(@, d)]
             lo == told[p]
             F == Hope(p, lo, ver[p])
  <2>0. p \in Docs
    BY DocsAssumption
  <2>1. b \in Streams /\ StreamFits(b) /\ Kept(b, p, told[p], ver[p])
    BY <1>2, <1>5 DEF TypeOK, KeptInv
  <2>2. sub'[s] = New(s)
    BY <1>2
  <2> HIDE DEF b
  <2>3. CASE b.bridge \in {"off", "ended"}
    <3>1. sub'[s] = b
      BY <2>2, <2>3 DEF b
    <3>2. b.client = "reading" => b.bridge = "ended"
      BY <2>1, <2>3 DEF StreamFits
    <3> QED
      BY <3>1, <3>2 DEF Kept
  <2>4. CASE b.bridge \notin {"off", "ended"}
    <3>1. sub'[s] = r
      BY <2>2, <2>4 DEF b
    <3>2. b.queue \in Seq(Docs)
      BY <2>1 DEF Streams
    <3>3. ToSet(Append(b.queue, d)) = ToSet(b.queue) \cup {d}
      BY <1>1, <3>2, QueueSteps
    <3>4. /\ r.queue = Append(b.queue, d) /\ r.client = b.client /\ r.bridge = b.bridge
          /\ r.overflow = b.overflow /\ r.item = b.item /\ r.mid = b.mid /\ r.filter = b.filter
          /\ r.held = b.held /\ r.out = b.out /\ r.seen = b.seen
      BY <2>1 DEF Streams
    <3> HIDE DEF r
    <3>5. CASE p = d
      BY <3>1, <3>3, <3>4, <3>5 DEF Kept
    <3>6. CASE p # d
      <4>1. told'[p] = lo /\ ver'[p] = ver[p]
        BY <1>1, <1>2, <1>3, <2>0, <3>6
      <4> HIDE DEF F, lo
      <4>2. InHand(r, p, F, lo) <=> InHand(b, p, F, lo)
        BY <3>4 DEF InHand, InMid, InHeld, InOut
      <4>3. Kept(r, p, lo, ver[p])
        BY <2>1, <3>3, <3>4, <4>2 DEF Kept, F, lo
      <4> QED
        BY <3>1, <4>1, <4>3
    <3> QED
      BY <3>5, <3>6
  <2> QED
    BY <2>3, <2>4
<1> QED
  BY <1>4, <1>5 DEF KeptInv

\* Every step keeps the newest word on every document on its way.
LEMMA KeptStep ==
    ASSUME TypeOK, KeptInv, [Next]_vars
    PROVE  KeptInv'
<1>0. ver \in [Docs -> Nat] /\ told \in [Docs -> Nat] /\ sub \in [Subs -> Streams] /\ faults \in Nat
  BY DEF TypeOK
<1>1. ASSUME UNCHANGED <<ver, told, sub>>, faults' = 0 => faults = 0 PROVE KeptInv'
  <2>1. \A p \in Docs : ver[p] <= ver'[p]
    BY <1>0, <1>1
  <2> QED
    BY <1>0, <1>1, <2>1, WriteKeeps
<1>2. CASE \/ \E ok \in BOOLEAN : StartupProbe(ok)
           \/ Sigterm \/ EndTransaction \/ UNCHANGED vars
  BY <1>1, <1>2 DEF StartupProbe, Sigterm, EndTransaction, vars
<1>3. CASE ShutdownComplete
  <2>1. UNCHANGED <<ver, told>> /\ \A s \in Subs : sub'[s].client = "off"
    BY <1>3 DEF ShutdownComplete, NoSub
  <2>2. \A s \in Subs, p \in Wanted : Kept(sub'[s], p, told'[p], ver'[p])
    BY <2>1 DEF Kept
  <2> QED
    BY <2>1, <2>2 DEF KeptInv
<1>4. ASSUME NEW w \in Workers, Step(w) \/ NotifyFails(w) \/ CallLost(w) PROVE KeptInv'
  <2>1. CASE SendNotify(w)
    BY <2>1, NotifyKeeps
  <2>2. CASE NotifyFails(w) \/ CallLost(w)
    <3>1. UNCHANGED <<ver, told, sub>> /\ faults' = faults + 1
      BY <2>2 DEF NotifyFails, CallLost
    <3> QED
      BY <1>0, <1>1, <3>1
  <2>3. CASE MergeMask(w) \/ FetchPage(w) \/ AnswerListing(w) \/ InsertTransaction(w)
    BY <1>1, <2>3 DEF MergeMask, FetchPage, AnswerListing, InsertTransaction
  <2>4. CASE WriteDocument(w) \/ DeleteRow(w)
    <3>1. UNCHANGED <<told, sub, faults>>
      BY <2>4 DEF WriteDocument, DeleteRow
    <3>2. ver' = ver \/ ver' = [ver EXCEPT ![call[w].doc] = @ + 1]
      BY <2>4 DEF WriteDocument, DeleteRow, Store
    <3>3. ver' \in [Docs -> Nat] /\ \A p \in Docs : ver[p] <= ver'[p]
      BY <1>0, <3>2
    <3> QED
      BY <3>1, <3>3, WriteKeeps
  <2> QED
    BY <1>4, <2>1, <2>2, <2>3, <2>4 DEF Step
<1>5. ASSUME NEW w \in Workers, NEW r, Request(w, r) PROVE KeptInv'
  BY <1>1, <1>5 DEF Request, CreateDocument, UpdateDocument, DeleteDocument, ListCollectionIds,
                    BeginTransaction, Begin
<1>6. ASSUME NEW batch \in Commits, Commit(batch) PROVE KeptInv'
  <2> DEFINE writes == {DomainWrite(AgentWrite(w)) : w \in batch}
  <2>1. /\ UNCHANGED <<told, sub, faults>>
        /\ ver' = [p \in Docs |-> IF \E w \in writes : w.doc = p /\ (w.op # "delete" \/ ver[p] > 0)
                                  THEN ver[p] + 1 ELSE ver[p]]
    BY <1>6 DEF Commit
  <2> HIDE DEF writes
  <2>2. ver' \in [Docs -> Nat] /\ \A p \in Docs : ver[p] <= ver'[p]
    BY <1>0, <2>1
  <2> QED
    BY <2>1, <2>2, WriteKeeps
<1>7. ASSUME NEW s \in Subs,
             Subscribe(s) \/ Stream(s) \/ ClientLeaves(s) \/ TranslateFails(s) \/ ListenerFails(s)
      PROVE  KeptInv'
  <2>1. UNCHANGED <<ver, told>>
    BY <1>7, StreamLeavesAlone
  <2>2. PICK r \in Streams : sub' = [sub EXCEPT ![s] = r]
    BY <1>7, StreamType
  <2>3. faults' = faults \/ faults' = faults + 1
    BY <1>7 DEF Subscribe, Stream, ClientLeaves, TranslateFails, ListenerFails, BridgeReceive,
                BridgeReset, Translate, TrySend, FilterReceive, FilterSend, FilterEnds, ClientReceives,
                ClientSeesEnd
  <2>4. faults' = 0 => faults = 0
    BY <1>0, <2>3
  <2>5. ASSUME faults' = 0, NEW x \in Subs, NEW p \in Wanted PROVE Kept(sub'[x], p, told'[p], ver'[p])
    <3>1. p \in Docs /\ told[p] <= ver[p] /\ Kept(sub[x], p, told[p], ver[p])
      BY <2>4, <2>5, DocsAssumption DEF KeptInv
    <3>2. CASE x = s
      <4>1. Kept(sub'[s], p, told[p], ver[p])
        BY <1>7, <2>4, <2>5, <3>1, <3>2, StreamKeeps
      <4> QED
        BY <2>1, <3>2, <4>1
    <3>3. CASE x # s
      <4>1. sub'[x] = sub[x]
        BY <1>0, <2>2, <3>3
      <4> QED
        BY <2>1, <3>1, <4>1
    <3> QED
      BY <3>2, <3>3
  <2> QED
    BY <2>1, <2>5 DEF KeptInv
<1> QED
  BY <1>2, <1>3, <1>4, <1>5, <1>6, <1>7 DEF Next

\* A client that still reads has, or is about to get, every change of a wanted
\* document that was announced, or a RESET: the two tasks lose nothing between
\* them, for channels of any size, any number of streams and a client of any
\* speed.
THEOREM NothingIsForgotten == Spec => []NothingForgotten
<1>1. Init => KeptInv
  <2> SUFFICES ASSUME Init PROVE KeptInv
    OBVIOUS
  <2>1. ver \in [Docs -> Nat] /\ told = ver
    BY InitType DEF Init, TypeOK
  <2>2. \A s \in Subs : sub[s].client = "off"
    BY DEF Init, NoSub
  <2>3. \A s \in Subs, p \in Wanted : Kept(sub[s], p, told[p], ver[p])
    BY <2>2 DEF Kept
  <2>4. \A p \in Docs : told[p] <= ver[p]
    BY <2>1
  <2> QED
    BY <2>3, <2>4 DEF KeptInv
<1>2. TypeOK /\ KeptInv /\ [Next]_vars => KeptInv'
  BY KeptStep
<1>3. TypeOK /\ KeptInv => NothingForgotten
  <2> SUFFICES ASSUME TypeOK, KeptInv, NEW s \in Subs, NEW p \in Wanted,
                      sub[s].client = "reading", sub[s].bridge # "ended", faults = 0
               PROVE  sub[s].seen[p] >= told[p] \/ OnTheWay(s, p)
    BY DEF NothingForgotten
  <2> DEFINE b == sub[s]
             lo == told[p]
             F == Hope(p, lo, ver[p])
  <2>1. b \in Streams /\ Kept(b, p, lo, ver[p])
    BY DEF TypeOK, KeptInv
  <2>3. \A q, i : i \in DOMAIN q /\ q[i] \in F => ToSet(q) \cap F # {}
    BY DEF ToSet
  <2>4. OnTheWay(s, p) <=> \/ p \in ToSet(b.queue) \/ b.overflow \/ b.bridge = "reset"
                           \/ b.item \in F \/ b.held \in F
                           \/ ToSet(b.mid) \cap F # {} \/ ToSet(b.out) \cap F # {}
    BY DEF OnTheWay, Hope
  <2>5. \/ p \in ToSet(b.queue) \/ b.overflow \/ b.bridge = "reset"
        \/ InHand(b, p, F, lo)
    BY <2>1 DEF Kept
  <2> HIDE DEF b, F, lo
  <2>6. InOut(b, p, F, lo) => b.seen[p] >= lo \/ ToSet(b.out) \cap F # {}
    BY <2>3 DEF InOut, Behind
  <2>7. InHeld(b, p, F, lo) => InOut(b, p, F, lo) \/ b.held \in F
    BY DEF InHeld, One
  <2>8. InMid(b, p, F, lo) => InHeld(b, p, F, lo) \/ ToSet(b.mid) \cap F # {}
    BY <2>3 DEF InMid, Behind
  <2>9. InHand(b, p, F, lo) => InMid(b, p, F, lo) \/ b.item \in F
    BY DEF InHand, One
  <2> QED
    BY <2>4, <2>5, <2>6, <2>7, <2>8, <2>9 DEF b, lo
<1> QED
  BY <1>1, <1>2, <1>3, TypesSound, PTL DEF Spec
=============================================================================
