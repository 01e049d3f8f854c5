---------------------------- MODULE ListenProofs ----------------------------
(***************************************************************************)
(* Proofs about Listen, for any documents and streams, channels of any     *)
(* capacity, and any number of writes and ticks.                           *)
(***************************************************************************)
EXTENDS Listen, SequenceTheorems, NaturalsInduction, WellFoundedInduction, TLAPS

-----------------------------------------------------------------------------
(* What becomes of the last word, and of the elements, of a channel        *)

\* The positions of q with an element of T.
Pos(q, T) == {i \in DOMAIN q : q[i] \in T}

\* A queue to which an element is added is a queue.
LEMMA AppendType ==
    ASSUME NEW S, NEW q \in Seq(S), NEW x \in S
    PROVE  Append(q, x) \in Seq(S)
OBVIOUS

\* The first element of a queue and what is behind it.
LEMMA TailHead ==
    ASSUME NEW S, NEW q \in Seq(S), q # <<>>
    PROVE  Head(q) \in S /\ Tail(q) \in Seq(S)
BY HeadTailProperties

\* < on the natural numbers, as a set of pairs.
Less == {ss \in Nat \X Nat : ss[1] < ss[2]}

\* A set of numbers that is not empty has a least element,
LEMMA LeastExists ==
    ASSUME NEW T, T \subseteq Nat, T # {}
    PROVE  \E x \in T : \A y \in T : x <= y
<1>1. IsWellFoundedOn(Less, Nat)
  BY NatLessThanWellFounded DEF OpToRel, Less
<1>2. PICK x \in T : \A y \in T : ~(<<y, x>> \in Less)
  BY <1>1, WFMin
<1>3. ASSUME NEW y \in T PROVE x <= y
  <2>1. x \in Nat /\ y \in Nat
    OBVIOUS
  <2>2. y < x => <<y, x>> \in Less
    BY <2>1 DEF Less
  <2> QED
    BY <1>2, <2>1, <2>2
<1> QED
  BY <1>3

\* and a greatest one, when it is bounded.
LEMMA MaxExists ==
    ASSUME NEW n \in Nat, NEW I, I \subseteq 1 .. n, I # {}
    PROVE  \E m \in I : \A j \in I : j <= m
<1> DEFINE T == {n - i : i \in I}
<1>1. \A i \in I : i \in Int /\ n - i \in Nat
  OBVIOUS
<1>2. T \subseteq Nat /\ T # {}
  BY <1>1
<1> HIDE DEF T
<1>3. PICK x \in T : \A y \in T : x <= y
  BY <1>2, LeastExists
<1>4. PICK m \in I : x = n - m
  BY <1>3 DEF T
<1>5. ASSUME NEW j \in I PROVE j <= m
  <2>1. n - m <= n - j
    BY <1>3, <1>4 DEF T
  <2> QED
    BY <1>1, <2>1
<1> QED
  BY <1>5

\* LastOf is the element at the greatest position.
LEMMA LastOfMax ==
    ASSUME NEW q, NEW n \in Nat, NEW I, I \subseteq 1 .. n
    PROVE  /\ \A m \in I : (\A j \in I : j <= m) => LastOf(q, I) = q[m]
           /\ I # {} => \E m \in I : (\A j \in I : j <= m) /\ LastOf(q, I) = q[m]
<1>1. ASSUME NEW m \in I, \A j \in I : j <= m PROVE LastOf(q, I) = q[m]
  <2> DEFINE P(i) == \A j \in I : j <= i
             c == CHOOSE i \in I : P(i)
  <2>0. P(m)
    BY <1>1
  <2>1. c \in I /\ P(c)
    BY <2>0, Zenon
  <2> HIDE DEF c
  <2>2. c <= m /\ m <= c /\ c \in Int /\ m \in Int
    BY <1>1, <2>1
  <2>3. c = m
    BY <2>2
  <2> QED
    BY <2>3 DEF LastOf, c
<1>2. I # {} => \E m \in I : \A j \in I : j <= m
  BY MaxExists
<1> QED
  BY <1>1, <1>2

\* An element is added at the end, or taken from the front.
LEMMA LastAppend ==
    ASSUME NEW S, NEW q \in Seq(S), NEW x \in S, NEW T
    PROVE  LET p == Append(q, x) IN
           /\ x \in T => Pos(p, T) # {} /\ LastOf(p, Pos(p, T)) = x
           /\ x \notin T => Pos(p, T) = Pos(q, T)
           /\ x \notin T /\ Pos(q, T) # {} => LastOf(p, Pos(p, T)) = LastOf(q, Pos(q, T))
<1> DEFINE p == Append(q, x)
           n == Len(q)
<1>1. /\ n \in Nat /\ DOMAIN q = 1 .. n /\ DOMAIN p = 1 .. n + 1
      /\ p[n + 1] = x /\ \A i \in 1 .. n : p[i] = q[i]
  BY AppendProperties, LenProperties
<1> HIDE DEF p, n
<1>2. ASSUME x \in T PROVE Pos(p, T) # {} /\ LastOf(p, Pos(p, T)) = x
  <2>1. n + 1 \in Pos(p, T) /\ Pos(p, T) \subseteq 1 .. n + 1 /\ n + 1 \in Nat
    BY <1>1, <1>2 DEF Pos
  <2>2. \A j \in Pos(p, T) : j <= n + 1
    BY <1>1, <2>1
  <2> QED
    BY <1>1, <2>1, <2>2, LastOfMax
<1>3. ASSUME x \notin T PROVE Pos(p, T) = Pos(q, T)
  BY <1>1, <1>3 DEF Pos
<1>4. ASSUME x \notin T, Pos(q, T) # {} PROVE LastOf(p, Pos(p, T)) = LastOf(q, Pos(q, T))
  <2>1. Pos(q, T) \subseteq 1 .. n /\ Pos(p, T) = Pos(q, T)
    BY <1>1, <1>3, <1>4 DEF Pos
  <2>2. PICK m \in Pos(q, T) : (\A j \in Pos(q, T) : j <= m) /\ LastOf(q, Pos(q, T)) = q[m]
    BY <1>1, <1>4, <2>1, LastOfMax
  <2>3. LastOf(p, Pos(q, T)) = p[m]
    BY <1>1, <2>1, <2>2, LastOfMax
  <2>4. p[m] = q[m]
    BY <1>1, <2>1
  <2> QED
    BY <2>1, <2>2, <2>3, <2>4
<1> QED
  BY <1>2, <1>3, <1>4 DEF p

\* Taking the first element keeps the last word, unless that was it.
LEMMA LastTail ==
    ASSUME NEW S, NEW q \in Seq(S), q # <<>>, NEW T
    PROVE  LET p == Tail(q) IN
           /\ Pos(p, T) # {} => Pos(q, T) # {} /\ LastOf(p, Pos(p, T)) = LastOf(q, Pos(q, T))
           /\ Pos(q, T) # {} /\ Pos(p, T) = {} => Head(q) \in T /\ LastOf(q, Pos(q, T)) = Head(q)
           /\ Head(q) \in T => Pos(q, T) # {}
<1> DEFINE p == Tail(q)
           n == Len(q)
<1>1. /\ n \in Nat /\ n >= 1 /\ DOMAIN q = 1 .. n /\ DOMAIN p = 1 .. n - 1
      /\ \A i \in 1 .. n - 1 : p[i] = q[i + 1]
      /\ Head(q) = q[1]
  BY HeadTailProperties, EmptySeq, LenProperties
<1> HIDE DEF p, n
<1>2. /\ \A i \in Pos(p, T) : i + 1 \in Pos(q, T)
      /\ \A i \in Pos(q, T) : i = 1 \/ i - 1 \in Pos(p, T)
      /\ Pos(q, T) \subseteq 1 .. n /\ Pos(p, T) \subseteq 1 .. n - 1
  BY <1>1 DEF Pos
<1>3. ASSUME Pos(p, T) # {} PROVE Pos(q, T) # {} /\ LastOf(p, Pos(p, T)) = LastOf(q, Pos(q, T))
  <2>1. PICK m \in Pos(p, T) : (\A j \in Pos(p, T) : j <= m) /\ LastOf(p, Pos(p, T)) = p[m]
    <3>1. n - 1 \in Nat
      BY <1>1
    <3> QED
      BY <1>2, <1>3, <3>1, LastOfMax
  <2>2. m + 1 \in Pos(q, T) /\ m \in Nat /\ m >= 1
    BY <1>1, <1>2, <2>1
  <2>3. ASSUME NEW j \in Pos(q, T) PROVE j <= m + 1
    <3>1. j \in Nat
      BY <1>2
    <3>2. CASE j = 1
      BY <2>2, <3>2
    <3>3. CASE j - 1 \in Pos(p, T)
      <4>1. j - 1 <= m
        BY <2>1, <3>3
      <4> QED
        BY <2>2, <3>1, <4>1
    <3> QED
      BY <1>2, <3>2, <3>3
  <2>4. LastOf(q, Pos(q, T)) = q[m + 1]
    BY <1>1, <1>2, <2>2, <2>3, LastOfMax
  <2>5. p[m] = q[m + 1]
    BY <1>1, <1>2
  <2> QED
    BY <2>1, <2>2, <2>4, <2>5
<1>4. ASSUME Pos(q, T) # {}, Pos(p, T) = {} PROVE Head(q) \in T /\ LastOf(q, Pos(q, T)) = Head(q)
  <2>1. Pos(q, T) = {1}
    BY <1>2, <1>4
  <2>2. LastOf(q, Pos(q, T)) = q[1]
    BY <1>1, <1>2, <2>1, LastOfMax
  <2> QED
    BY <1>1, <2>1, <2>2 DEF Pos
<1>5. Head(q) \in T => Pos(q, T) # {}
  BY <1>1 DEF Pos
<1> QED
  BY <1>3, <1>4, <1>5 DEF p

\* The last word among U that is one of T is the last word among T.
LEMMA LastSub ==
    ASSUME NEW S, NEW q \in Seq(S), NEW T, NEW U, T \subseteq U, Pos(q, U) # {}, LastOf(q, Pos(q, U)) \in T
    PROVE  Pos(q, T) # {} /\ LastOf(q, Pos(q, T)) = LastOf(q, Pos(q, U))
<1>1. Len(q) \in Nat /\ DOMAIN q = 1 .. Len(q)
  BY LenProperties
<1>2. Pos(q, T) \subseteq Pos(q, U) /\ Pos(q, U) \subseteq 1 .. Len(q)
  BY <1>1 DEF Pos
<1>3. PICK m \in Pos(q, U) : (\A j \in Pos(q, U) : j <= m) /\ LastOf(q, Pos(q, U)) = q[m]
  BY <1>1, <1>2, LastOfMax
<1>4. m \in Pos(q, T)
  BY <1>3 DEF Pos
<1>5. \A j \in Pos(q, T) : j <= m
  BY <1>2, <1>3
<1>6. LastOf(q, Pos(q, T)) = q[m] /\ Pos(q, T) \subseteq 1 .. Len(q)
  BY <1>1, <1>2, <1>4, <1>5, LastOfMax
<1> QED
  BY <1>3, <1>4, <1>6

\* What a connection still holds when a notification arrives or is taken.
LEMMA RangeSteps ==
    ASSUME NEW S, NEW q \in Seq(S)
    PROVE  /\ \A x \in S : Range(Append(q, x)) = Range(q) \cup {x}
           /\ q # <<>> => Range(q) = Range(Tail(q)) \cup {Head(q)}
<1>1. ASSUME NEW x \in S PROVE Range(Append(q, x)) = Range(q) \cup {x}
  <2> DEFINE p == Append(q, x)
             n == Len(q)
  <2>1. /\ n \in Nat /\ DOMAIN q = 1 .. n /\ DOMAIN p = 1 .. n + 1
        /\ p[n + 1] = x /\ \A i \in 1 .. n : p[i] = q[i]
    BY AppendProperties, LenProperties
  <2> HIDE DEF p, n
  <2>2. \A i \in 1 .. n + 1 : i = n + 1 \/ i \in 1 .. n
    BY <2>1
  <2>3. n + 1 \in 1 .. n + 1 /\ 1 .. n \subseteq 1 .. n + 1
    BY <2>1
  <2>4. Range(p) \subseteq Range(q) \cup {x}
    BY <2>1, <2>2 DEF Range
  <2>5. Range(q) \cup {x} \subseteq Range(p)
    BY <2>1, <2>3 DEF Range
  <2> QED
    BY <2>4, <2>5 DEF p
<1>2. ASSUME q # <<>> PROVE Range(q) = Range(Tail(q)) \cup {Head(q)}
  <2> DEFINE p == Tail(q)
             n == Len(q)
  <2>1. /\ n \in Nat /\ n >= 1 /\ DOMAIN q = 1 .. n /\ DOMAIN p = 1 .. n - 1
        /\ \A i \in 1 .. n - 1 : p[i] = q[i + 1]
        /\ Head(q) = q[1]
    BY <1>2, HeadTailProperties, EmptySeq, LenProperties
  <2> HIDE DEF p, n
  <2>2. ASSUME NEW i \in 1 .. n PROVE q[i] \in Range(p) \cup {Head(q)}
    <3>1. CASE i = 1
      BY <2>1, <3>1
    <3>2. CASE i # 1
      <4>1. i - 1 \in 1 .. n - 1 /\ (i - 1) + 1 = i
        BY <2>1, <3>2
      <4>2. p[i - 1] = q[i]
        BY <2>1, <4>1
      <4> QED
        BY <2>1, <4>1, <4>2 DEF Range
    <3> QED
      BY <3>1, <3>2
  <2>3. ASSUME NEW i \in 1 .. n - 1 PROVE p[i] \in Range(q)
    <3>1. i + 1 \in 1 .. n
      BY <2>1
    <3> QED
      BY <2>1, <3>1 DEF Range
  <2>4. 1 \in 1 .. n
    BY <2>1
  <2>5. Range(q) \subseteq Range(p) \cup {Head(q)}
    BY <2>1, <2>2 DEF Range
  <2>6. Range(p) \cup {Head(q)} \subseteq Range(q)
    BY <2>1, <2>3, <2>4 DEF Range
  <2> QED
    BY <2>5, <2>6 DEF p
<1> QED
  BY <1>1, <1>2

-----------------------------------------------------------------------------
(* What the tables, the channels and the clients hold                      *)

TypeOK ==
    /\ doc \in [Docs -> Row]
    /\ now \in Nat
    /\ owed \in [Docs -> Nat]
    /\ pgq \in Seq(Docs)
    /\ inhand \in Event \cup {NoEvent}
    /\ phase \in [Sessions -> Phases]
    /\ entry \in [Sessions -> BOOLEAN]
    /\ queue \in [Sessions -> Seq(Event)]
    /\ stamp \in [Sessions -> Nat]
    /\ snap \in [Sessions -> SUBSET Messages]
    /\ plan \in [Sessions -> Seq(Messages)]
    /\ out \in [Sessions -> Seq(Messages)]
    /\ since \in [Sessions -> Int]
    /\ gone \in [Sessions -> BOOLEAN]
    /\ seen \in [Sessions -> [Docs -> Nat]]
    /\ token \in [Sessions -> Int]
    /\ resumed \in [Sessions -> BOOLEAN]
    /\ missed \in [Sessions -> SUBSET Docs]

\* A resume token names a moment.
LEMMA TokenType ==
    ASSUME NEW t \in Nat
    PROVE  TokenAt(t) \in Nat
<1>1. (t + Second) \div Second \in Nat /\ Second \in Nat
  BY BoundsAssumption
<1>2. \A a, b \in Nat : a * b \in Nat
  OBVIOUS
<1> QED
  BY <1>1, <1>2 DEF TokenAt

\* What the actions put on the wire is a message.
LEMMA MessageTypes ==
    /\ \A t \in {"current", "token", "reset", "error"}, n \in Nat : Message(t, None, n) \in Messages
    /\ \A t \in {"change", "delete"}, d \in Docs, n \in Nat : Message(t, d, n) \in Messages
    /\ \A e \in Event : Wire(e) \in Messages
<1>1. \A t \in {"current", "token", "reset", "error"}, n \in Nat : Message(t, None, n) \in Messages
  BY DEF Messages, Message
<1>2. \A t \in {"change", "delete"}, d \in Docs, n \in Nat : Message(t, d, n) \in Messages
  BY DEF Messages, Message
<1>3. ASSUME NEW e \in Event PROVE Wire(e) \in Messages
  <2>1. e.doc \in Docs /\ e.version \in Nat /\ 0 \in Nat
    BY DEF Event
  <2> QED
    BY <1>2, <2>1 DEF Wire
<1> QED
  BY <1>1, <1>2, <1>3

\* A write leaves a row.
LEMMA RowType ==
    ASSUME TypeOK, NEW d \in Docs, NEW body \in Bodies \cup {NoBody}
    PROVE  RowAfter(d, body) \in Row
<1>1. doc[d].version + 1 \in Nat /\ doc[d].body \in Bodies \cup {NoBody} /\ now \in Nat
  BY DEF TypeOK, Row
<1>2. (body # NoBody) \in BOOLEAN
  OBVIOUS
<1>3. (IF body = NoBody THEN doc[d].body ELSE body) \in Bodies \cup {NoBody}
  BY <1>1
<1> QED
  BY <1>1, <1>2, <1>3, Zenon DEF RowAfter, Row

\* What sessions missed are documents.
LEMMA MissType ==
    ASSUME TypeOK, NEW D, D \subseteq Docs, Miss(D)
    PROVE  missed' \in [Sessions -> SUBSET Docs]
<1>1. \A s \in Sessions : missed[s] \cup D \in SUBSET Docs
  BY DEF TypeOK
<1> QED
  BY <1>1 DEF Miss

\* The initial state is well typed.
LEMMA TypeInit == Init => TypeOK
<1>1. 0 \in Nat /\ FALSE \in BOOLEAN /\ NoBody \in Bodies \cup {NoBody}
  OBVIOUS
<1>2. NoRow \in Row
  BY <1>1, Zenon DEF NoRow, Row
<1> SUFFICES ASSUME Init PROVE TypeOK
  OBVIOUS
<1>3. since \in [Sessions -> Int] /\ token \in [Sessions -> Int] /\ gone \in [Sessions -> BOOLEAN]
  BY DEF Init, NoToken
<1> QED
  BY <1>2, <1>3 DEF Init, TypeOK, Phases

\* Writers and the clock.
LEMMA WriterType ==
    ASSUME TypeOK, NEW d \in Docs, WriterStep(d)
    PROVE  TypeOK'
<1>1. ASSUME NEW body \in Bodies \cup {NoBody}, WriteRow(d, body) \/ CommitWrite(d, body)
      PROVE  TypeOK'
  <2>1. UNCHANGED <<now, listenerVars, sessionVars, clientVars>>
    BY <1>1 DEF WriteRow, CommitWrite
  <2>2. doc' \in [Docs -> Row]
    <3>1. doc' = [doc EXCEPT ![d] = RowAfter(d, body)]
      BY <1>1 DEF WriteRow, CommitWrite
    <3> QED
      BY <3>1, RowType DEF TypeOK
  <2>3. owed' \in [Docs -> Nat]
    <3>1. owed[d] + 1 \in Nat
      BY DEF TypeOK
    <3> QED
      BY <1>1, <3>1 DEF WriteRow, CommitWrite, TypeOK
  <2>4. missed' \in [Sessions -> SUBSET Docs]
    <3>1. {d} \subseteq Docs
      OBVIOUS
    <3> QED
      BY <1>1, <3>1, MissType DEF WriteRow, CommitWrite, TypeOK
  <2> QED
    BY <2>1, <2>2, <2>3, <2>4 DEF TypeOK, listenerVars, sessionVars, clientVars
<1>2. CASE SendNotify(d) \/ NotifyFails(d)
  <2>1. UNCHANGED <<doc, now, link, inhand, sessionVars, clientVars>>
    BY <1>2 DEF SendNotify, NotifyFails, listenerVars
  <2>2. owed' \in [Docs -> Nat]
    <3>1. owed[d] - 1 \in Nat
      BY <1>2 DEF SendNotify, NotifyFails, TypeOK
    <3> QED
      BY <1>2, <3>1 DEF SendNotify, NotifyFails, TypeOK
  <2>3. missed' \in [Sessions -> SUBSET Docs]
    <3>1. {d} \subseteq Docs /\ \A s \in Sessions : missed[s] \ {d} \in SUBSET Docs
      BY DEF TypeOK
    <3>2. Miss({d}) \/ missed' = [s \in Sessions |-> missed[s] \ {d}]
      BY <1>2 DEF SendNotify, NotifyFails
    <3> QED
      BY <3>1, <3>2, MissType
  <2>4. pgq' \in Seq(Docs)
    <3>1. pgq' = Append(pgq, d) \/ pgq' = pgq
      BY <1>2 DEF SendNotify, NotifyFails, listenerVars
    <3>2. pgq \in Seq(Docs)
      BY DEF TypeOK
    <3> QED
      BY <3>1, <3>2, AppendType
  <2> QED
    BY <2>1, <2>2, <2>3, <2>4 DEF TypeOK, sessionVars, clientVars
<1> QED
  BY <1>1, <1>2 DEF WriterStep

\* The listener task.
LEMMA ListenerType ==
    ASSUME TypeOK, Tick \/ ListenerStep \/ LinkBreaks
    PROVE  TypeOK'
<1>1. CASE Tick
  BY <1>1 DEF Tick, TypeOK, listenerVars, sessionVars, clientVars
<1>2. CASE FetchEvent \/ FetchFails
  <2>1. UNCHANGED <<rowVars, link, sessionVars, clientVars>> /\ pgq # <<>> /\ pgq' = Tail(pgq)
    BY <1>2 DEF FetchEvent, FetchFails
  <2>2. Head(pgq) \in Docs /\ Tail(pgq) \in Seq(Docs)
    BY <2>1, TailHead DEF TypeOK
  <2>3. inhand' \in Event
    <3>1. doc[Head(pgq)].version \in Nat /\ doc[Head(pgq)].body \in Bodies \cup {NoBody}
      BY <2>2 DEF TypeOK, Row
    <3> QED
      BY <1>2, <2>2, <3>1 DEF FetchEvent, FetchFails, Event
  <2>4. missed' \in [Sessions -> SUBSET Docs]
    <3>1. {Head(pgq)} \subseteq Docs
      BY <2>2
    <3> QED
      BY <1>2, <3>1, MissType DEF FetchEvent, FetchFails, TypeOK
  <2> QED
    BY <2>1, <2>2, <2>3, <2>4 DEF TypeOK, rowVars, sessionVars, clientVars
<1>3. CASE FanOut
  <2>1. /\ UNCHANGED <<rowVars, link, pgq, phase, since, stamp, snap, plan, clientVars, missed>>
        /\ inhand' = NoEvent /\ inhand \in Event
    BY <1>3 DEF FanOut, TypeOK
  <2>2. queue' \in [Sessions -> Seq(Event)]
    <3>1. \A s \in Sessions : Append(queue[s], inhand) \in Seq(Event) /\ queue[s] \in Seq(Event)
      BY <2>1, AppendType DEF TypeOK
    <3> QED
      BY <1>3, <3>1 DEF FanOut
  <2>3. entry' \in [Sessions -> BOOLEAN]
    <3>1. \A s \in Sessions : (entry[s] /\ ~Full(s) /\ Receiving(s)) \in BOOLEAN
      OBVIOUS
    <3> QED
      BY <1>3, <3>1 DEF FanOut
  <2> QED
    BY <2>1, <2>2, <2>3 DEF TypeOK, rowVars, clientVars
<1>4. CASE Reconnect
  BY <1>4 DEF Reconnect, TypeOK, rowVars, sessionVars, clientVars
<1>5. CASE LinkBreaks
  <2>1. Range(pgq) \subseteq Docs
    BY RangeOfSeq DEF TypeOK
  <2>2. missed' \in [Sessions -> SUBSET Docs] /\ pgq' \in Seq(Docs)
    BY <1>5, <2>1, MissType DEF LinkBreaks
  <2> QED
    BY <1>5, <2>2 DEF LinkBreaks, TypeOK, rowVars, sessionVars, clientVars
<1> QED
  BY <1>1, <1>2, <1>3, <1>4, <1>5 DEF ListenerStep

\* The handlers.
LEMMA SendingType ==
    ASSUME TypeOK, NEW s \in Sessions, Send(s)
    PROVE  TypeOK'
<1>1. UNCHANGED <<rowVars, listenerVars, entry, reset, queue, since, stamp, gone, seen, token, resumed, missed>>
  BY DEF Send
<1>2. ASSUME NEW m \in Messages PROVE [out EXCEPT ![s] = Append(@, m)] \in [Sessions -> Seq(Messages)]
  <2>1. Append(out[s], m) \in Seq(Messages)
    BY AppendType DEF TypeOK
  <2> QED
    BY <2>1 DEF TypeOK
<1>3. CASE snap[s] # {}
  <2>1. PICK m \in snap[s] : /\ out' = [out EXCEPT ![s] = Append(@, m)]
                             /\ snap' = [snap EXCEPT ![s] = @ \ {m}] /\ UNCHANGED <<plan, phase>>
    BY <1>3 DEF Send
  <2>2. m \in Messages /\ snap[s] \ {m} \in SUBSET Messages
    BY <2>1 DEF TypeOK
  <2>3. out' \in [Sessions -> Seq(Messages)]
    BY <1>2, <2>1, <2>2
  <2>4. snap' \in [Sessions -> SUBSET Messages]
    BY <2>1, <2>2 DEF TypeOK
  <2> QED
    BY <1>1, <2>1, <2>3, <2>4 DEF TypeOK, rowVars, listenerVars
<1>4. CASE snap[s] = {}
  <2>1. /\ plan[s] # <<>> /\ out' = [out EXCEPT ![s] = Append(@, Head(plan[s]))]
        /\ plan' = [plan EXCEPT ![s] = Tail(@)] /\ UNCHANGED snap
        /\ phase' = [phase EXCEPT ![s] = IF @ = "closing" THEN "done" ELSE @]
    BY <1>4 DEF Send, Sending
  <2>2. Head(plan[s]) \in Messages /\ Tail(plan[s]) \in Seq(Messages)
    BY <2>1, TailHead DEF TypeOK
  <2>3. out' \in [Sessions -> Seq(Messages)]
    BY <1>2, <2>1, <2>2
  <2>4. plan' \in [Sessions -> Seq(Messages)]
    BY <2>1, <2>2 DEF TypeOK
  <2>5. phase' \in [Sessions -> Phases]
    BY <2>1 DEF TypeOK, Phases
  <2> QED
    BY <1>1, <2>1, <2>3, <2>4, <2>5 DEF TypeOK, rowVars, listenerVars
<1> QED
  BY <1>3, <1>4

\* The steps of a Listen handler keep the types.
LEMMA HandlerType ==
    ASSUME TypeOK, NEW s \in Sessions, HandlerStep(s) \/ Keepalive(s)
    PROVE  TypeOK'
<1>0. /\ \A t \in {"current", "token", "reset", "error"}, n \in Nat : Message(t, None, n) \in Messages
      /\ 0 \in Nat
  BY MessageTypes
<1>1. CASE Register(s)
  <2>1. TokenAt(now) \in Nat
    BY TokenType DEF TypeOK
  <2>2. since' \in [Sessions -> Int]
    BY <1>1 DEF Register, TypeOK, NoToken
  <2> QED
    BY <1>1, <2>1, <2>2 DEF Register, TypeOK, Phases, rowVars, listenerVars, clientVars
<1>2. CASE Snapshot(s)
  <2>1. {Message("change", d, doc[d].version) : d \in SnapshotRows(s)} \in SUBSET Messages
    BY MessageTypes, DocsAssumption DEF SnapshotRows, TypeOK, Row
  <2>2. <<Message("current", None, 0), Message("token", None, stamp[s])>> \in Seq(Messages)
    <3>1. Message("current", None, 0) \in Messages /\ Message("token", None, stamp[s]) \in Messages
      BY <1>0 DEF TypeOK
    <3> QED
      BY <3>1
  <2>3. snap' \in [Sessions -> SUBSET Messages] /\ plan' \in [Sessions -> Seq(Messages)]
    BY <1>2, <2>1, <2>2 DEF Snapshot, TypeOK
  <2>4. missed' \in [Sessions -> SUBSET Docs]
    <3> DEFINE D == {d \in missed[s] : Overtaken(s, d)}
    <3>1. D \in SUBSET Docs
      BY DEF TypeOK
    <3>2. missed' = [missed EXCEPT ![s] = D]
      BY <1>2 DEF Snapshot
    <3> HIDE DEF D
    <3> QED
      BY <3>1, <3>2 DEF TypeOK
  <2>5. phase' \in [Sessions -> Phases]
    BY <1>2 DEF Snapshot, TypeOK, Phases
  <2> QED
    BY <1>2, <2>3, <2>4, <2>5 DEF Snapshot, TypeOK, rowVars, listenerVars, clientVars
<1>3. ASSUME NEW q \in Seq(Messages), Fail(s) \/ TakeReset(s) \/ Return(s) \/ Keepalive(s) \/ TakeEvent(s),
             plan' = [plan EXCEPT ![s] = q]
      PROVE  TypeOK'
  <2>1. plan' \in [Sessions -> Seq(Messages)]
    BY <1>3 DEF TypeOK
  <2>2. queue' \in [Sessions -> Seq(Event)]
    <3>1. queue[s] # <<>> => Tail(queue[s]) \in Seq(Event)
      BY TailHead DEF TypeOK
    <3>2. \/ queue' = [queue EXCEPT ![s] = <<>>] \/ UNCHANGED queue
          \/ queue[s] # <<>> /\ queue' = [queue EXCEPT ![s] = Tail(@)]
      BY <1>3 DEF Fail, TakeReset, Return, Keepalive, TakeEvent
    <3>3. queue \in [Sessions -> Seq(Event)] /\ <<>> \in Seq(Event)
      BY EmptySeq DEF TypeOK
    <3>4. CASE queue[s] # <<>> /\ queue' = [queue EXCEPT ![s] = Tail(@)]
      BY <3>1, <3>3, <3>4
    <3>5. CASE queue' = [queue EXCEPT ![s] = <<>>]
      BY <3>3, <3>5
    <3> QED
      BY <3>2, <3>3, <3>4, <3>5
  <2>3. snap' \in [Sessions -> SUBSET Messages]
    BY <1>3 DEF Fail, TakeReset, Return, Keepalive, TakeEvent, TypeOK
  <2>4. phase' \in [Sessions -> Phases]
    BY <1>3 DEF Fail, TakeReset, Return, Keepalive, TakeEvent, TypeOK, Phases
  <2>5. UNCHANGED <<rowVars, listenerVars, entry, since, stamp, clientVars, missed>>
    BY <1>3 DEF Fail, TakeReset, Return, Keepalive, TakeEvent
  <2> QED
    BY <2>1, <2>2, <2>3, <2>4, <2>5 DEF TypeOK, rowVars, listenerVars, clientVars
<1>4. CASE SnapshotFails(s) \/ RecheckFails(s)
  <2>1. Message("error", None, 0) \in Messages
    BY <1>0
  <2>2. <<Message("error", None, 0)>> \in Seq(Messages)
    BY <2>1
  <2> QED
    BY <1>3, <1>4, <2>2 DEF SnapshotFails, RecheckFails, Fail
<1>5. CASE SendFails(s) \/ ChannelClosed(s)
  BY <1>3, <1>5, EmptySeq DEF SendFails, ChannelClosed, Return
<1>6. CASE TakeEvent(s)
  <2>1. Head(queue[s]) \in Event
    BY <1>6, TailHead DEF TakeEvent, TypeOK
  <2>2. Wire(Head(queue[s])) \in Messages
    BY <2>1, MessageTypes
  <2>3. <<Wire(Head(queue[s]))>> \in Seq(Messages) /\ <<>> \in Seq(Messages)
    BY <2>2
  <2> QED
    BY <1>3, <1>6, <2>3 DEF TakeEvent
<1>7. CASE Keepalive(s) \/ TakeReset(s)
  <2>1. Message("token", None, TokenAt(now)) \in Messages /\ Message("reset", None, 0) \in Messages
    BY <1>0, TokenType DEF TypeOK
  <2>2. <<Message("token", None, TokenAt(now))>> \in Seq(Messages) /\ <<Message("reset", None, 0)>> \in Seq(Messages)
    BY <2>1
  <2> QED
    BY <1>3, <1>7, <2>2 DEF Keepalive, TakeReset
<1>8. CASE EndStream(s)
  BY <1>8 DEF EndStream, TypeOK, Phases, rowVars, listenerVars, clientVars
<1> QED
  BY <1>1, <1>2, <1>4, <1>5, <1>6, <1>7, <1>8, SendingType DEF HandlerStep

\* The clients.
LEMMA ClientType ==
    ASSUME TypeOK, NEW s \in Sessions, ClientStep(s)
    PROVE  TypeOK'
<1>1. ASSUME NEW r \in Sessions, Open(s, r) PROVE TypeOK'
  <2>1. UNCHANGED <<rowVars, pgq, inhand, entry, queue, since, stamp, snap, plan, out, gone, missed>>
    BY <1>1 DEF Open
  <2>2. phase' \in [Sessions -> Phases]
    BY <1>1 DEF Open, TypeOK, Phases
  <2>3. seen' \in [Sessions -> [Docs -> Nat]] /\ resumed' \in [Sessions -> BOOLEAN]
        /\ token' \in [Sessions -> Int]
    BY <1>1 DEF Open, TypeOK
  <2> QED
    BY <2>1, <2>2, <2>3 DEF TypeOK, rowVars
<1>2. CASE OpenFails(s)
  BY <1>2 DEF OpenFails, TypeOK, Phases, rowVars, listenerVars, clientVars
<1>3. CASE Receive(s)
  <2>1. UNCHANGED <<rowVars, listenerVars, sessionVars, gone, resumed, missed>>
    BY <1>3 DEF Receive
  <2>2. Head(out[s]) \in Messages /\ Tail(out[s]) \in Seq(Messages)
    BY <1>3, TailHead DEF Receive, TypeOK
  <2>3. out' \in [Sessions -> Seq(Messages)]
    BY <1>3, <2>2 DEF Receive, TypeOK
  <2>4. seen' \in [Sessions -> [Docs -> Nat]]
    <3> DEFINE m == Head(out[s])
    <3>1. seen' = IF m.type \in {"change", "delete"} THEN [seen EXCEPT ![s][m.doc] = m.n] ELSE seen
      BY <1>3 DEF Receive
    <3>2. m.type \in {"change", "delete"} => m.doc \in Docs /\ m.n \in Nat
      BY <2>2 DEF Messages
    <3> HIDE DEF m
    <3> QED
      BY <3>1, <3>2 DEF TypeOK
  <2>5. token' \in [Sessions -> Int]
    <3>1. Head(out[s]).n \in Int
      BY <2>2 DEF Messages
    <3> QED
      BY <1>3, <3>1 DEF Receive, TypeOK
  <2> QED
    BY <2>1, <2>3, <2>4, <2>5 DEF TypeOK, rowVars, listenerVars, sessionVars
<1>4. CASE Disconnect(s)
  BY <1>4, EmptySeq DEF Disconnect, TypeOK, rowVars, listenerVars, sessionVars
<1> QED
  BY <1>1, <1>2, <1>3, <1>4 DEF ClientStep

\* Every variable keeps its type in every behaviour.
LEMMA TypesSound == Spec => []TypeOK
<1>1. TypeOK /\ [Next]_vars => TypeOK'
  <2>1. TypeOK /\ UNCHANGED vars => TypeOK'
    BY DEF TypeOK, vars
  <2> QED
    BY <2>1, WriterType, ListenerType, HandlerType, ClientType DEF Next
<1> QED
  BY <1>1, TypeInit, PTL DEF Spec

-----------------------------------------------------------------------------
(* fan_out and its reset_notify                                            *)

\* Every step keeps that a session that lost events is marked for a reset.
LEMMA DroppedStep ==
    ASSUME TypeOK, DroppedMeansReset, [Next]_vars
    PROVE  DroppedMeansReset'
<1>1. ASSUME UNCHANGED <<entry, reset>>, \A s \in Sessions : Receiving(s)' => Receiving(s)
      PROVE  DroppedMeansReset'
  BY <1>1 DEF DroppedMeansReset
<1>2. CASE UNCHANGED vars \/ Tick \/ LinkBreaks \/ Reconnect \/ FetchEvent \/ FetchFails
  BY <1>1, <1>2 DEF vars, Tick, LinkBreaks, Reconnect, FetchEvent, FetchFails, sessionVars, Receiving
<1>3. ASSUME NEW d \in Docs, WriterStep(d) PROVE DroppedMeansReset'
  BY <1>1, <1>3 DEF WriterStep, WriteRow, CommitWrite, SendNotify, NotifyFails, sessionVars, Receiving
<1>4. CASE FanOut
  BY <1>4 DEF FanOut, DroppedMeansReset, Receiving
<1>5. ASSUME NEW s \in Sessions, Register(s) PROVE DroppedMeansReset'
  BY <1>5 DEF Register, DroppedMeansReset, Receiving, TypeOK
<1>6. ASSUME NEW s \in Sessions, HandlerStep(s) \/ Keepalive(s), ~Register(s) PROVE DroppedMeansReset'
  <2>1. CASE Snapshot(s) \/ SnapshotFails(s)
    BY <1>1, <2>1 DEF Snapshot, SnapshotFails, Fail, Receiving, TypeOK
  <2>2. CASE Send(s) \/ SendFails(s)
    BY <1>1, <2>2 DEF Send, SendFails, Return, Receiving, TypeOK
  <2>3. CASE TakeEvent(s) \/ RecheckFails(s)
    BY <1>1, <2>3 DEF TakeEvent, RecheckFails, Fail, Receiving, TypeOK, Selecting
  <2>4. CASE TakeReset(s) \/ ChannelClosed(s) \/ EndStream(s) \/ Keepalive(s)
    BY <1>1, <2>4 DEF TakeReset, ChannelClosed, EndStream, Return, Keepalive, Receiving, TypeOK, Selecting
  <2> QED
    BY <1>6, <2>1, <2>2, <2>3, <2>4 DEF HandlerStep
<1>7. ASSUME NEW s \in Sessions, ClientStep(s) PROVE DroppedMeansReset'
  BY <1>1, <1>7 DEF ClientStep, Open, OpenFails, Receive, Disconnect, sessionVars, Receiving, TypeOK
<1> QED
  BY <1>2, <1>3, <1>4, <1>5, <1>6, <1>7 DEF Next, ListenerStep

(* ListenRegistry::fan_out: a stream whose handler still receives is out   *)
(* of the registry only when reset_notify has been fired for it, so its    *)
(* client is told to start over and never waits for events that nobody     *)
(* will send.                                                              *)
THEOREM DroppedAreReset == Spec => []DroppedMeansReset
<1>1. Init => DroppedMeansReset
  BY DEF Init, DroppedMeansReset, Receiving
<1>2. TypeOK /\ DroppedMeansReset /\ [Next]_vars => DroppedMeansReset'
  BY DroppedStep
<1> QED
  BY <1>1, <1>2, TypesSound, PTL DEF Spec

-----------------------------------------------------------------------------
(* What is on its way                                                      *)

\* An event that says what its document's row says now.
Current(e) ==
  /\ e.version = doc[e.doc].version
  /\ e.kind = IF doc[e.doc].live THEN "changed" ELSE "removed"
  /\ e.body = doc[e.doc].body

\* The event in hand was read from the row; when the row has moved on since, a
\* later notification is on its way, or the change was never announced.
HandInv ==
  /\ \A d \in Docs : doc[d].version = 0 => ~doc[d].live /\ doc[d].body = NoBody
  /\ inhand.doc \in Docs =>
       /\ inhand.version <= doc[inhand.doc].version
       /\ inhand.version = doc[inhand.doc].version => Current(inhand)
  /\ \A s \in Sessions, d \in Docs :
       d \notin missed[s] /\ inhand.doc = d /\ inhand.version # doc[d].version =>
         owed[d] > 0 \/ d \in Range(pgq)

\* Before its snapshot a stream has told its client nothing, and before it is
\* registered nothing is in its channel; the snapshot has a row once.
StreamInv ==
  \A s \in Sessions :
    /\ phase[s] \in {"idle", "opening"} => queue[s] = <<>>
    /\ phase[s] \in {"idle", "opening", "registered"} =>
         /\ out[s] = <<>> /\ plan[s] = <<>> /\ snap[s] = {}
         /\ ~resumed[s] => \A d \in Docs : seen[s][d] = 0
    /\ \A m, n \in snap[s] : m.doc = n.doc => m = n

\* The events of d.
Events(d) == {e \in Event : e.doc = d}

\* The last event of d in the channel of a registered stream is what the row says.
ChannelInv ==
  \A s \in Sessions, d \in Docs :
    Receiving(s) /\ entry[s] /\ d \notin missed[s] /\ ~Pending(d)
      /\ Pos(queue[s], Events(d)) # {} =>
        Current(LastOf(queue[s], Pos(queue[s], Events(d))))

\* A notification that is on its way stays on its way, or is in hand, or is lost
\* with the streams' histories saying so: what is settled after a step of the
\* writers, the clock or the listener's connection was settled before it.
BackgroundStep ==
  \/ Tick \/ LinkBreaks \/ FetchEvent \/ FetchFails \/ Reconnect
  \/ \E d \in Docs : WriterStep(d)

\* A background step settles no document: what is settled after it was
\* settled before, with the same row.
LEMMA SettledBefore ==
    ASSUME TypeOK, BackgroundStep, NEW s \in Sessions, NEW d \in Docs,
           d \notin missed'[s], ~Pending(d)'
    PROVE  d \notin missed[s] /\ ~Pending(d) /\ doc'[d] = doc[d]
<1>0. d # None
  BY DocsAssumption DEF None
<1>1. CASE Tick \/ Reconnect
  BY <1>1 DEF Tick, Reconnect, rowVars, listenerVars, Pending
<1>2. CASE LinkBreaks
  BY <1>2 DEF LinkBreaks, Miss, rowVars, Pending, TypeOK
<1>3. CASE FetchEvent \/ FetchFails
  <2>1. /\ UNCHANGED <<rowVars>> /\ pgq # <<>> /\ inhand = NoEvent /\ pgq' = Tail(pgq)
        /\ inhand'.doc = Head(pgq)
        /\ \/ inhand'.version = doc[Head(pgq)].version /\ missed' = missed
           \/ Miss({Head(pgq)})
    BY <1>3 DEF FetchEvent, FetchFails
  <2>2. d # Head(pgq)
    <3>1. CASE inhand'.version = doc[Head(pgq)].version
      BY <2>1, <3>1 DEF Pending, rowVars
    <3>2. CASE Miss({Head(pgq)})
      BY <3>2 DEF Miss
    <3> QED
      BY <2>1, <3>1, <3>2
  <2>3. d \notin missed[s]
    BY <2>1 DEF Miss
  <2>4. Range(pgq) = Range(Tail(pgq)) \cup {Head(pgq)}
    BY <2>1, RangeSteps DEF TypeOK
  <2> QED
    BY <1>0, <2>1, <2>2, <2>3, <2>4 DEF Pending, NoEvent, rowVars
<1>4. ASSUME NEW e \in Docs, WriterStep(e) PROVE d \notin missed[s] /\ ~Pending(d) /\ doc'[d] = doc[d]
  <2>1. ASSUME NEW body \in Bodies \cup {NoBody}, WriteRow(e, body)
        PROVE  d \notin missed[s] /\ ~Pending(d) /\ doc'[d] = doc[d]
    <3>1. d # e
      <4>1. owed'[e] > 0
        BY <2>1 DEF WriteRow, TypeOK
      <4> QED
        BY <4>1 DEF Pending
    <3> QED
      BY <2>1, <3>1 DEF WriteRow, Pending, listenerVars, TypeOK
  <2>2. ASSUME NEW body \in Bodies \cup {NoBody}, CommitWrite(e, body)
        PROVE  d \notin missed[s] /\ ~Pending(d) /\ doc'[d] = doc[d]
    BY <2>2 DEF CommitWrite, Miss, Pending, listenerVars, TypeOK
  <2>3. CASE NotifyFails(e)
    BY <2>3 DEF NotifyFails, Miss, Pending, listenerVars, TypeOK
  <2>4. CASE SendNotify(e)
    <3>1. CASE link = "up"
      <4>1. Range(pgq') = Range(pgq) \cup {e}
        <5>1. pgq' = Append(pgq, e) /\ pgq \in Seq(Docs)
          BY <2>4, <3>1 DEF SendNotify, TypeOK
        <5> QED
          BY <5>1, RangeSteps
      <4>2. d # e
        BY <4>1 DEF Pending
      <4>3. owed'[d] = owed[d] /\ UNCHANGED <<doc, inhand>>
        BY <2>4, <4>2 DEF SendNotify, TypeOK
      <4>4. d \notin missed[s]
        BY <2>4, <3>1, <4>2 DEF SendNotify, TypeOK
      <4> QED
        BY <4>1, <4>3, <4>4 DEF Pending
    <3>2. CASE link # "up"
      BY <2>4, <3>2 DEF SendNotify, Miss, Pending, TypeOK
    <3> QED
      BY <3>1, <3>2
  <2> QED
    BY <1>4, <2>1, <2>2, <2>3, <2>4 DEF WriterStep
<1> QED
  BY <1>1, <1>2, <1>3, <1>4 DEF BackgroundStep

\* The handlers and the clients leave the rows and the notifications alone, and
\* only a snapshot touches the history.
LEMMA StreamsLeaveAlone ==
    ASSUME NEW s \in Sessions, HandlerStep(s) \/ Keepalive(s) \/ ClientStep(s)
    PROVE  UNCHANGED <<doc, owed, pgq, inhand>> /\ (Snapshot(s) \/ missed' = missed)
BY DEF HandlerStep, ClientStep, Keepalive, Register, Snapshot, SnapshotFails, Fail, Send, SendFails,
       Return, TakeEvent, RecheckFails, TakeReset, ChannelClosed, EndStream, Open, OpenFails, Receive,
       Disconnect, rowVars, listenerVars

\* Every step keeps what a handler holds between its statements.
LEMMA HandStep ==
    ASSUME TypeOK, HandInv, [Next]_vars
    PROVE  HandInv'
<1>0. None \notin Docs
  BY DocsAssumption DEF None
<1>1. ASSUME UNCHANGED <<doc, owed, pgq, inhand, missed>> PROVE HandInv'
  BY <1>1 DEF HandInv, Current
<1>2. CASE UNCHANGED vars \/ Tick \/ Reconnect
  BY <1>1, <1>2 DEF vars, Tick, Reconnect, rowVars, listenerVars
<1>3. CASE FanOut
  <2>1. UNCHANGED <<doc, owed, pgq, missed>> /\ inhand' = NoEvent
    BY <1>3 DEF FanOut, rowVars
  <2> QED
    BY <1>0, <2>1 DEF HandInv, NoEvent
<1>4. CASE LinkBreaks
  <2>1. UNCHANGED <<doc, owed, inhand>> /\ Miss(Range(pgq))
    BY <1>4 DEF LinkBreaks, rowVars
  <2> QED
    BY <2>1 DEF HandInv, Current, Miss
<1>5. CASE FetchEvent
  <2>1. UNCHANGED <<doc, owed, missed>> /\ Head(pgq) \in Docs
    BY <1>5, TailHead DEF FetchEvent, rowVars, TypeOK
  <2>2. /\ inhand'.doc = Head(pgq) /\ inhand'.version = doc[Head(pgq)].version
        /\ inhand'.kind = (IF doc[Head(pgq)].live THEN "changed" ELSE "removed")
        /\ inhand'.body = doc[Head(pgq)].body
    BY <1>5 DEF FetchEvent
  <2>3. doc[Head(pgq)].version \in Nat
    BY <2>1 DEF TypeOK, Row
  <2> QED
    BY <2>1, <2>2, <2>3 DEF HandInv, Current
<1>6. CASE FetchFails
  <2>1. UNCHANGED <<doc, owed>> /\ Miss({Head(pgq)}) /\ Head(pgq) \in Docs
    BY <1>6, TailHead DEF FetchFails, rowVars, TypeOK
  <2>2. /\ inhand'.doc = Head(pgq) /\ inhand'.version = 0
        /\ inhand'.kind = "removed" /\ inhand'.body = NoBody
    BY <1>6 DEF FetchFails
  <2>3. doc[Head(pgq)].version \in Nat
    BY <2>1 DEF TypeOK, Row
  <2> QED
    BY <2>1, <2>2, <2>3 DEF HandInv, Current, Miss
<1>7. ASSUME NEW e \in Docs, WriterStep(e) PROVE HandInv'
  <2>1. ASSUME NEW body \in Bodies \cup {NoBody}, WriteRow(e, body) \/ CommitWrite(e, body)
        PROVE  HandInv'
    <3>1. UNCHANGED <<pgq, inhand>> /\ doc' = [doc EXCEPT ![e] = RowAfter(e, body)]
      BY <2>1 DEF WriteRow, CommitWrite, listenerVars
    <3>2. doc'[e].version = doc[e].version + 1 /\ doc[e].version \in Nat
      BY <3>1 DEF RowAfter, TypeOK, Row
    <3>3. \A d \in Docs : d # e => doc'[d] = doc[d]
      BY <3>1 DEF TypeOK
    <3>4. \A d \in Docs : doc'[d].version = 0 => ~doc'[d].live /\ doc'[d].body = NoBody
      BY <3>2, <3>3 DEF HandInv
    <3>5. inhand.doc \in Docs =>
            /\ inhand.version <= doc'[inhand.doc].version
            /\ inhand.version = doc'[inhand.doc].version => inhand.doc # e
      <4>1. inhand.doc \in Docs => inhand.version \in Nat
        BY <1>0 DEF TypeOK, Event, NoEvent
      <4> QED
        BY <3>2, <3>3, <4>1 DEF HandInv
    <3>6. inhand.doc \in Docs /\ inhand.version = doc'[inhand.doc].version => Current(inhand)'
      BY <3>1, <3>3, <3>5 DEF HandInv, Current
    <3>7. \A d \in Docs : d # e => owed'[d] = owed[d]
      BY <2>1 DEF WriteRow, CommitWrite, TypeOK
    <3>8. \/ owed'[e] > 0 /\ missed' = missed
          \/ \A s \in Sessions : missed'[s] = missed[s] \cup {e}
      BY <2>1 DEF WriteRow, CommitWrite, Miss, TypeOK
    <3>9. ASSUME NEW s \in Sessions, NEW d \in Docs,
                 d \notin missed'[s], inhand.doc = d, inhand.version # doc'[d].version
          PROVE  owed'[d] > 0 \/ d \in Range(pgq)
      BY <3>3, <3>7, <3>8, <3>9 DEF HandInv
    <3> QED
      BY <3>1, <3>4, <3>5, <3>6, <3>9 DEF HandInv
  <2>2. CASE NotifyFails(e)
    <3>1. UNCHANGED <<doc, pgq, inhand>> /\ Miss({e}) /\ \A d \in Docs : d # e => owed'[d] = owed[d]
      BY <2>2 DEF NotifyFails, listenerVars, TypeOK
    <3> QED
      BY <3>1 DEF HandInv, Current, Miss
  <2>3. CASE SendNotify(e)
    <3>1. UNCHANGED <<doc, inhand>> /\ \A d \in Docs : d # e => owed'[d] = owed[d]
      BY <2>3 DEF SendNotify, TypeOK
    <3>2. CASE link = "up"
      <4>1. pgq' = Append(pgq, e) /\ pgq \in Seq(Docs)
        BY <2>3, <3>2 DEF SendNotify, TypeOK
      <4>2. Range(pgq') = Range(pgq) \cup {e}
        BY <4>1, RangeSteps
      <4>3. \A s \in Sessions : missed'[s] = missed[s] \ {e}
        BY <2>3, <3>2 DEF SendNotify
      <4> QED
        BY <3>1, <4>2, <4>3 DEF HandInv, Current
    <3>3. CASE link # "up"
      <4>1. Miss({e}) /\ pgq' = pgq
        BY <2>3, <3>3 DEF SendNotify
      <4> QED
        BY <3>1, <4>1 DEF HandInv, Current, Miss
    <3> QED
      BY <3>2, <3>3
  <2> QED
    BY <1>7, <2>1, <2>2, <2>3 DEF WriterStep
<1>8. ASSUME NEW s \in Sessions, HandlerStep(s) \/ Keepalive(s) \/ ClientStep(s) PROVE HandInv'
  <2>1. UNCHANGED <<doc, owed, pgq, inhand>> /\ (Snapshot(s) \/ missed' = missed)
    BY <1>8, StreamsLeaveAlone
  <2>2. CASE Snapshot(s)
    <3>1. \A r \in Sessions : r # s => missed'[r] = missed[r]
      BY <2>2 DEF Snapshot, TypeOK
    <3>2. missed'[s] = {d \in missed[s] : Overtaken(s, d)}
      BY <2>2 DEF Snapshot, TypeOK
    <3>3. \A r \in Sessions, d \in Docs : d \notin missed'[r] /\ inhand.doc = d => d \notin missed[r]
      BY <3>1, <3>2 DEF Overtaken
    <3> QED
      BY <2>1, <3>3 DEF HandInv, Current
  <2> QED
    BY <1>1, <2>1, <2>2
<1> QED
  BY <1>2, <1>3, <1>4, <1>5, <1>6, <1>7, <1>8 DEF Next, ListenerStep

\* That holds in every behaviour.
LEMMA HandSound == Spec => []HandInv
<1>1. Init => HandInv
  <2> SUFFICES ASSUME Init PROVE HandInv
    OBVIOUS
  <2>1. \A d \in Docs : doc[d] = NoRow
    BY DEF Init
  <2>2. inhand.doc \notin Docs
    BY DocsAssumption DEF Init, NoEvent, None
  <2> QED
    BY <2>1, <2>2 DEF HandInv, NoRow
<1>2. TypeOK /\ HandInv /\ [Next]_vars => HandInv'
  BY HandStep
<1> QED
  BY <1>1, <1>2, TypesSound, PTL DEF Spec

\* Every step keeps what the stream of a session has been told.
LEMMA StreamStep ==
    ASSUME TypeOK, StreamInv, [Next]_vars
    PROVE  StreamInv'
<1>1. ASSUME UNCHANGED <<phase, queue, out, plan, snap, resumed, seen>> PROVE StreamInv'
  BY <1>1 DEF StreamInv
<1>2. CASE UNCHANGED vars \/ Tick \/ LinkBreaks \/ FetchEvent \/ FetchFails \/ Reconnect
  BY <1>1, <1>2 DEF vars, Tick, LinkBreaks, FetchEvent, FetchFails, Reconnect, sessionVars, clientVars
<1>3. ASSUME NEW d \in Docs, WriterStep(d) PROVE StreamInv'
  BY <1>1, <1>3 DEF WriterStep, WriteRow, CommitWrite, SendNotify, NotifyFails, sessionVars, clientVars
<1>4. CASE FanOut
  <2>1. UNCHANGED <<phase, out, plan, snap, resumed, seen>>
    BY <1>4 DEF FanOut, clientVars
  <2>2. \A s \in Sessions : phase[s] \in {"idle", "opening"} => queue'[s] = queue[s]
    BY <1>4 DEF FanOut, Receiving
  <2> QED
    BY <2>1, <2>2 DEF StreamInv
\* A step of stream s, in which only what is of s changes.
<1>5. ASSUME NEW s \in Sessions,
             \A r \in Sessions : r # s => /\ phase'[r] = phase[r] /\ queue'[r] = queue[r] /\ out'[r] = out[r]
                                          /\ plan'[r] = plan[r] /\ snap'[r] = snap[r]
                                          /\ resumed'[r] = resumed[r] /\ seen'[r] = seen[r],
             phase'[s] \in {"idle", "opening"} => queue'[s] = <<>>,
             phase'[s] \in {"idle", "opening", "registered"} =>
               /\ out'[s] = <<>> /\ plan'[s] = <<>> /\ snap'[s] = {}
               /\ ~resumed'[s] => \A d \in Docs : seen'[s][d] = 0,
             \A m, n \in snap'[s] : m.doc = n.doc => m = n
      PROVE  StreamInv'
  BY <1>5 DEF StreamInv
<1>6. ASSUME NEW s \in Sessions, HandlerStep(s) \/ Keepalive(s) PROVE StreamInv'
  <2>1. CASE Register(s)
    BY <1>5, <2>1 DEF Register, StreamInv, TypeOK, clientVars
  <2>2. CASE Snapshot(s)
    <3>1. phase'[s] = "live" /\ snap'[s] = {Message("change", d, doc[d].version) : d \in SnapshotRows(s)}
      BY <2>2 DEF Snapshot, TypeOK
    <3>2. \A m, n \in snap'[s] : m.doc = n.doc => m = n
      BY <3>1 DEF Message
    <3>3. UNCHANGED <<queue, out, resumed, seen>>
      BY <2>2 DEF Snapshot, clientVars
    <3>4. \A r \in Sessions : r # s => phase'[r] = phase[r] /\ plan'[r] = plan[r] /\ snap'[r] = snap[r]
      BY <2>2 DEF Snapshot, TypeOK
    <3> QED
      BY <1>5, <3>1, <3>2, <3>3, <3>4
  <2>3. CASE SnapshotFails(s) \/ RecheckFails(s)
    BY <1>5, <2>3 DEF SnapshotFails, RecheckFails, Fail, StreamInv, TypeOK, clientVars
  <2>4. CASE Send(s)
    <3>1. phase[s] \notin {"idle", "opening", "registered"}
      BY <2>4 DEF Send, Sending, StreamInv
    <3>2. phase'[s] \notin {"idle", "opening", "registered"} /\ snap'[s] \subseteq snap[s]
      BY <2>4, <3>1 DEF Send, TypeOK
    <3>3. UNCHANGED <<queue, resumed, seen>>
      BY <2>4 DEF Send
    <3>4. \A r \in Sessions : r # s => phase'[r] = phase[r] /\ plan'[r] = plan[r] /\ snap'[r] = snap[r]
                                         /\ out'[r] = out[r]
      BY <2>4 DEF Send, TypeOK
    <3>5. \A m, n \in snap'[s] : m.doc = n.doc => m = n
      BY <3>2 DEF StreamInv
    <3> QED
      BY <1>5, <3>2, <3>3, <3>4, <3>5
  <2>5. CASE SendFails(s) \/ ChannelClosed(s)
    BY <1>5, <2>5 DEF SendFails, ChannelClosed, Return, StreamInv, TypeOK, clientVars
  <2>6. CASE TakeEvent(s) \/ Keepalive(s)
    <3>1. /\ phase[s] = "live"
          /\ UNCHANGED <<phase, snap, out, resumed, seen>>
          /\ \A r \in Sessions : r # s => queue'[r] = queue[r] /\ plan'[r] = plan[r]
      BY <2>6 DEF TakeEvent, Keepalive, Selecting, TypeOK, clientVars
    <3>2. \A m, n \in snap'[s] : m.doc = n.doc => m = n
      BY <3>1 DEF StreamInv
    <3> QED
      BY <1>5, <3>1, <3>2
  <2>7. CASE TakeReset(s)
    BY <1>5, <2>7 DEF TakeReset, StreamInv, TypeOK, clientVars
  <2>8. CASE EndStream(s)
    BY <1>5, <2>8 DEF EndStream, StreamInv, TypeOK, clientVars
  <2> QED
    BY <1>6, <2>1, <2>2, <2>3, <2>4, <2>5, <2>6, <2>7, <2>8 DEF HandlerStep
<1>7. ASSUME NEW s \in Sessions, ClientStep(s) PROVE StreamInv'
  <2>1. ASSUME NEW r \in Sessions, Open(s, r) PROVE StreamInv'
    <3>1. /\ phase[s] = "idle" /\ phase'[s] = "opening" /\ UNCHANGED <<queue, snap, plan, out>>
          /\ \A x \in Sessions : x # s => phase'[x] = phase[x] /\ resumed'[x] = resumed[x] /\ seen'[x] = seen[x]
      BY <2>1 DEF Open, TypeOK
    <3>2. resumed'[s] \/ (resumed'[s] = resumed[s] /\ seen'[s] = seen[s])
      BY <2>1 DEF Open, TypeOK
    <3> QED
      BY <1>5, <3>1, <3>2 DEF StreamInv
  <2>2. CASE OpenFails(s)
    BY <1>5, <2>2 DEF OpenFails, StreamInv, TypeOK, clientVars
  <2>3. CASE Receive(s)
    <3>1. phase[s] \notin {"idle", "opening", "registered"}
      BY <2>3 DEF Receive, StreamInv
    <3>2. UNCHANGED <<phase, queue, snap, plan, resumed>>
      BY <2>3 DEF Receive, sessionVars
    <3>3. \A x \in Sessions : x # s => out'[x] = out[x] /\ seen'[x] = seen[x]
      BY <2>3 DEF Receive, TypeOK
    <3> QED
      BY <1>5, <3>1, <3>2, <3>3 DEF StreamInv
  <2>4. CASE Disconnect(s)
    BY <1>5, <2>4 DEF Disconnect, StreamInv, TypeOK, sessionVars
  <2> QED
    BY <1>7, <2>1, <2>2, <2>3, <2>4 DEF ClientStep
<1> QED
  BY <1>2, <1>3, <1>4, <1>6, <1>7 DEF Next, ListenerStep

\* That holds in every behaviour.
LEMMA StreamSound == Spec => []StreamInv
<1>1. Init => StreamInv
  BY DEF Init, StreamInv
<1>2. TypeOK /\ StreamInv /\ [Next]_vars => StreamInv'
  BY StreamStep
<1> QED
  BY <1>1, <1>2, TypesSound, PTL DEF Spec

\* The event that fan_out sends is what the row says, unless more is to come.
LEMMA FannedOutIsCurrent ==
    ASSUME TypeOK, HandInv, FanOut, NEW s \in Sessions, NEW d \in Docs, inhand.doc = d,
           d \notin missed'[s], ~Pending(d)'
    PROVE  Current(inhand)
<1>1. UNCHANGED <<doc, owed, pgq, missed>>
  BY DEF FanOut, rowVars
<1>2. ~(owed[d] > 0) /\ d \notin Range(pgq)
  BY <1>1 DEF Pending
<1>3. inhand.version = doc[d].version
  BY <1>1, <1>2 DEF HandInv
<1> QED
  BY <1>3 DEF HandInv

\* Every step keeps the order of the events in the channels.
LEMMA ChannelStep ==
    ASSUME TypeOK, HandInv, StreamInv, ChannelInv, [Next]_vars
    PROVE  ChannelInv'
<1>0. None \notin Docs
  BY DocsAssumption DEF None
\* For one stream and document: it is enough that the channel keeps its last
\* event, and that what is settled was settled before.
<1>1. ASSUME NEW s \in Sessions, NEW d \in Docs,
             Receiving(s), entry[s], d \notin missed[s], ~Pending(d), doc'[d] = doc[d],
             Pos(queue[s], Events(d)) # {},
             LastOf(queue'[s], Pos(queue'[s], Events(d))) = LastOf(queue[s], Pos(queue[s], Events(d)))
      PROVE  Current(LastOf(queue[s], Pos(queue[s], Events(d))))'
  <2> DEFINE e == LastOf(queue[s], Pos(queue[s], Events(d)))
  <2>1. Current(e)
    BY <1>1 DEF ChannelInv
  <2>2. e.doc = d
    <3>1. Pos(queue[s], Events(d)) \subseteq 1 .. Len(queue[s]) /\ Len(queue[s]) \in Nat
      BY LenProperties DEF Pos, TypeOK
    <3>2. PICK m \in Pos(queue[s], Events(d)) : e = queue[s][m]
      BY <1>1, <3>1, LastOfMax
    <3> QED
      BY <3>2 DEF Pos, Events
  <2>3. LastOf(queue'[s], Pos(queue'[s], Events(d))) = e
    BY <1>1
  <2> HIDE DEF e
  <2> QED
    BY <1>1, <2>1, <2>2, <2>3 DEF Current
<1>2. CASE BackgroundStep
  <2>1. UNCHANGED <<phase, entry, queue>>
    BY <1>2 DEF BackgroundStep, Tick, LinkBreaks, FetchEvent, FetchFails, Reconnect, WriterStep, WriteRow,
                CommitWrite, SendNotify, NotifyFails, sessionVars
  <2>2. ASSUME NEW s \in Sessions, NEW d \in Docs, Receiving(s)', entry'[s], d \notin missed'[s], ~Pending(d)',
               Pos(queue'[s], Events(d)) # {}
        PROVE  Current(LastOf(queue[s], Pos(queue[s], Events(d))))'
    <3>1. d \notin missed[s] /\ ~Pending(d) /\ doc'[d] = doc[d]
      BY <1>2, <2>2, SettledBefore
    <3> QED
      BY <1>1, <2>1, <2>2, <3>1 DEF Receiving
  <2> QED
    BY <2>2 DEF ChannelInv
<1>3. CASE FanOut
  <2>1. UNCHANGED <<doc, owed, pgq, phase, missed>> /\ inhand # NoEvent /\ inhand' = NoEvent
    BY <1>3 DEF FanOut, rowVars
  <2>2. inhand \in Event
    BY <2>1 DEF TypeOK
  <2>3. ASSUME NEW s \in Sessions, NEW d \in Docs, Receiving(s)', entry'[s], d \notin missed'[s], ~Pending(d)',
               Pos(queue'[s], Events(d)) # {}
        PROVE  Current(LastOf(queue[s], Pos(queue[s], Events(d))))'
    <3>1. entry[s] /\ Receiving(s) /\ queue'[s] = Append(queue[s], inhand)
      BY <1>3, <2>3 DEF FanOut, TypeOK
    <3>2. queue[s] \in Seq(Event)
      BY DEF TypeOK
    <3>3. CASE inhand.doc = d
      <4>1. Current(inhand)
        BY <1>3, <2>3, <3>3, FannedOutIsCurrent
      <4>2. inhand \in Events(d)
        BY <2>2, <3>3 DEF Events
      <4>3. LastOf(queue'[s], Pos(queue'[s], Events(d))) = inhand
        BY <2>2, <3>1, <3>2, <4>2, LastAppend
      <4> QED
        BY <2>1, <4>1, <4>3 DEF Current
    <3>4. CASE inhand.doc # d
      <4>1. inhand \notin Events(d)
        BY <3>4 DEF Events
      <4>2. Pos(queue'[s], Events(d)) = Pos(queue[s], Events(d))
        BY <2>2, <3>1, <3>2, <4>1, LastAppend
      <4>3. Pos(queue[s], Events(d)) # {}
        BY <2>3, <4>2
      <4>4. LastOf(queue'[s], Pos(queue'[s], Events(d))) = LastOf(queue[s], Pos(queue[s], Events(d)))
        BY <2>2, <3>1, <3>2, <4>1, <4>3, LastAppend
      <4>5. ~Pending(d)
        BY <2>1, <2>3, <3>4 DEF Pending
      <4> QED
        BY <1>1, <2>1, <2>3, <3>1, <4>3, <4>4, <4>5
    <3> QED
      BY <3>3, <3>4
  <2> QED
    BY <2>3 DEF ChannelInv
<1>4. ASSUME NEW r \in Sessions, HandlerStep(r) \/ Keepalive(r) \/ ClientStep(r) PROVE ChannelInv'
  <2>1. UNCHANGED <<doc, owed, pgq, inhand>> /\ (Snapshot(r) \/ missed' = missed)
    BY <1>4, StreamsLeaveAlone
  <2>2. \A d \in Docs : Pending(d)' = Pending(d)
    BY <2>1 DEF Pending
  <2>3. ASSUME NEW s \in Sessions, NEW d \in Docs, Receiving(s)', entry'[s], d \notin missed'[s], ~Pending(d)',
               Pos(queue'[s], Events(d)) # {}
        PROVE  Current(LastOf(queue[s], Pos(queue[s], Events(d))))'
    <3>1. CASE TakeEvent(r)
      <4>1. UNCHANGED <<phase, entry>> /\ missed' = missed
        BY <3>1 DEF TakeEvent
      <4>2. CASE s = r
        <5>1. queue[s] \in Seq(Event) /\ queue[s] # <<>> /\ queue'[s] = Tail(queue[s])
          BY <3>1, <4>2 DEF TakeEvent, TypeOK
        <5>2. /\ Pos(queue[s], Events(d)) # {}
              /\ LastOf(queue'[s], Pos(queue'[s], Events(d))) = LastOf(queue[s], Pos(queue[s], Events(d)))
          BY <2>3, <5>1, LastTail
        <5> QED
          BY <1>1, <2>1, <2>2, <2>3, <4>1, <5>2 DEF Receiving
      <4>3. CASE s # r
        <5>1. queue'[s] = queue[s]
          BY <3>1, <4>3 DEF TakeEvent, TypeOK
        <5> QED
          BY <1>1, <2>1, <2>2, <2>3, <4>1, <5>1 DEF Receiving
      <4> QED
        BY <4>2, <4>3
    <3>2. CASE Snapshot(r)
      <4>1. UNCHANGED <<entry, queue>> /\ Receiving(s)
        BY <2>3, <3>2 DEF Snapshot, Receiving, TypeOK
      <4>2. d \notin missed[s]
        <5>1. CASE s # r
          BY <2>3, <3>2, <5>1 DEF Snapshot, TypeOK
        <5>2. CASE s = r
          <6>1. PICK i \in DOMAIN queue[s] : queue[s][i].doc = d
            BY <2>3, <4>1 DEF Pos, Events
          <6>2. Overtaken(s, d)
            BY <6>1 DEF Overtaken
          <6>3. missed'[s] = {x \in missed[s] : Overtaken(s, x)}
            BY <3>2, <5>2 DEF Snapshot, TypeOK
          <6> QED
            BY <2>3, <6>2, <6>3
        <5> QED
          BY <5>1, <5>2
      <4> QED
        BY <1>1, <2>1, <2>2, <2>3, <4>1, <4>2
    <3>3. CASE ~TakeEvent(r) /\ ~Snapshot(r)
      <4>1. missed' = missed
        BY <2>1, <3>3
      <4>2. queue'[s] = queue[s] \/ queue'[s] = <<>>
        BY <1>4, <3>3 DEF HandlerStep, ClientStep, Keepalive, Register, SnapshotFails, Fail, Send, SendFails,
             Return, RecheckFails, TakeReset, ChannelClosed, EndStream, Open, OpenFails, Receive,
             Disconnect, sessionVars, TypeOK
      <4>3. queue'[s] = queue[s]
        BY <2>3, <4>2 DEF Pos
      <4>4. ~Register(r) \/ s # r
        BY <2>3, <4>3 DEF Register, StreamInv, Pos
      <4>5. Receiving(s) /\ entry[s]
        <5>1. phase \in [Sessions -> Phases] /\ entry \in [Sessions -> BOOLEAN]
          BY DEF TypeOK
        <5> QED
          BY <1>4, <2>3, <3>3, <4>4, <5>1 DEF HandlerStep, ClientStep, Keepalive, Register, SnapshotFails, Fail, Send,
             SendFails, Return, RecheckFails, TakeReset, ChannelClosed, EndStream, Open, OpenFails, Receive,
             Disconnect, sessionVars, Receiving
      <4> QED
        BY <1>1, <2>1, <2>2, <2>3, <4>1, <4>3, <4>5
    <3> QED
      BY <3>1, <3>2, <3>3
  <2> QED
    BY <2>3 DEF ChannelInv
<1>5. CASE UNCHANGED vars
  BY <1>5 DEF vars, ChannelInv, Receiving, Pending, Current
<1> QED
  BY <1>2, <1>3, <1>4, <1>5 DEF Next, ListenerStep, BackgroundStep

\* That holds in every behaviour.
LEMMA ChannelSound == Spec => []ChannelInv
<1>1. Init => ChannelInv
  BY DEF Init, ChannelInv, Receiving
<1>2. TypeOK /\ HandInv /\ StreamInv /\ ChannelInv /\ [Next]_vars => ChannelInv'
  BY ChannelStep
<1> QED
  BY <1>1, <1>2, TypesSound, HandSound, StreamSound, PTL DEF Spec

-----------------------------------------------------------------------------
(* What the client will hold                                               *)

Msgs(d) == {m \in Messages : m.doc = d}
Passing(d) == {e \in Events(d) : Passes(e)}

\* What is held of d once the messages q, the snapshot documents S or the events
\* q have arrived, when n was held before.
LastN(q, d, n) == IF Pos(q, Msgs(d)) # {} THEN LastOf(q, Pos(q, Msgs(d))).n ELSE n
SnapN(S, d, n) == IF \E m \in S : m.doc = d THEN (CHOOSE m \in S : m.doc = d).n ELSE n
ChanN(q, d, n) == IF Pos(q, Passing(d)) # {} THEN Wire(LastOf(q, Pos(q, Passing(d)))).n ELSE n

\* The last word of a queue of messages about d: a message more, one less, none.
LEMMA LastNSteps ==
    ASSUME NEW q \in Seq(Messages), NEW d, NEW n
    PROVE  /\ \A m \in Messages : LastN(Append(q, m), d, n) = IF m.doc = d THEN m.n ELSE LastN(q, d, n)
           /\ q # <<>> => LastN(q, d, n) = LastN(Tail(q), d, IF Head(q).doc = d THEN Head(q).n ELSE n)
           /\ LastN(<<>>, d, n) = n
<1>1. ASSUME NEW m \in Messages
      PROVE  LastN(Append(q, m), d, n) = IF m.doc = d THEN m.n ELSE LastN(q, d, n)
  <2>1. m \in Msgs(d) <=> m.doc = d
    BY DEF Msgs
  <2>2. CASE m \in Msgs(d)
    BY <2>1, <2>2, LastAppend DEF LastN
  <2>3. CASE m \notin Msgs(d)
    <3>1. /\ Pos(Append(q, m), Msgs(d)) = Pos(q, Msgs(d))
          /\ Pos(q, Msgs(d)) # {} =>
               LastOf(Append(q, m), Pos(Append(q, m), Msgs(d))) = LastOf(q, Pos(q, Msgs(d)))
      BY <2>3, LastAppend
    <3> QED
      BY <2>1, <2>3, <3>1 DEF LastN
  <2> QED
    BY <2>2, <2>3
<1>2. ASSUME q # <<>>
      PROVE  LastN(q, d, n) = LastN(Tail(q), d, IF Head(q).doc = d THEN Head(q).n ELSE n)
  <2>1. Head(q) \in Msgs(d) <=> Head(q).doc = d
    BY <1>2, TailHead DEF Msgs
  <2>2. /\ Pos(Tail(q), Msgs(d)) # {} =>
             /\ Pos(q, Msgs(d)) # {}
             /\ LastOf(Tail(q), Pos(Tail(q), Msgs(d))) = LastOf(q, Pos(q, Msgs(d)))
        /\ Pos(q, Msgs(d)) # {} /\ Pos(Tail(q), Msgs(d)) = {} =>
             Head(q) \in Msgs(d) /\ LastOf(q, Pos(q, Msgs(d))) = Head(q)
        /\ Head(q) \in Msgs(d) => Pos(q, Msgs(d)) # {}
    BY <1>2, LastTail
  <2> QED
    BY <2>1, <2>2 DEF LastN
<1>3. LastN(<<>>, d, n) = n
  BY DEF LastN, Pos
<1> QED
  BY <1>1, <1>2, <1>3

\* The last word of a single message.
LEMMA LastNOne ==
    ASSUME NEW m \in Messages, NEW d, NEW n
    PROVE  LastN(<<m>>, d, n) = IF m.doc = d THEN m.n ELSE n
<1>0. <<>> \in Seq(Messages)
  OBVIOUS
<1>1. PICK q \in Seq(Messages) : q = <<>>
  BY <1>0, Zenon
<1>2. <<m>> = Append(q, m)
  BY <1>1
<1>3. LastN(q, d, n) = n
  BY <1>1 DEF LastN, Pos
<1>4. LastN(Append(q, m), d, n) = IF m.doc = d THEN m.n ELSE LastN(q, d, n)
  BY LastNSteps
<1> QED
  BY <1>2, <1>3, <1>4

\* The last word of a channel of events, of which only some reach the wire.
LEMMA ChanNSteps ==
    ASSUME NEW q \in Seq(Event), NEW d, NEW n
    PROVE  /\ \A e \in Event : ChanN(Append(q, e), d, n) =
                IF e.doc = d /\ Passes(e) THEN Wire(e).n ELSE ChanN(q, d, n)
           /\ q # <<>> => ChanN(q, d, n) =
                ChanN(Tail(q), d, IF Head(q).doc = d /\ Passes(Head(q)) THEN Wire(Head(q)).n ELSE n)
<1>1. ASSUME NEW e \in Event
      PROVE  ChanN(Append(q, e), d, n) = IF e.doc = d /\ Passes(e) THEN Wire(e).n ELSE ChanN(q, d, n)
  <2>1. e \in Passing(d) <=> e.doc = d /\ Passes(e)
    BY DEF Passing, Events
  <2>2. CASE e \in Passing(d)
    <3>1. Pos(Append(q, e), Passing(d)) # {} /\ LastOf(Append(q, e), Pos(Append(q, e), Passing(d))) = e
      BY <2>2, LastAppend
    <3> QED
      BY <2>1, <2>2, <3>1 DEF ChanN
  <2>3. CASE e \notin Passing(d)
    <3>1. /\ Pos(Append(q, e), Passing(d)) = Pos(q, Passing(d))
          /\ Pos(q, Passing(d)) # {} =>
               LastOf(Append(q, e), Pos(Append(q, e), Passing(d))) = LastOf(q, Pos(q, Passing(d)))
      BY <2>3, LastAppend
    <3> QED
      BY <2>1, <2>3, <3>1 DEF ChanN
  <2> QED
    BY <2>2, <2>3
<1>2. ASSUME q # <<>>
      PROVE  ChanN(q, d, n) =
               ChanN(Tail(q), d, IF Head(q).doc = d /\ Passes(Head(q)) THEN Wire(Head(q)).n ELSE n)
  <2>1. Head(q) \in Passing(d) <=> Head(q).doc = d /\ Passes(Head(q))
    BY <1>2, TailHead DEF Passing, Events
  <2>2. /\ Pos(Tail(q), Passing(d)) # {} =>
             /\ Pos(q, Passing(d)) # {}
             /\ LastOf(Tail(q), Pos(Tail(q), Passing(d))) = LastOf(q, Pos(q, Passing(d)))
        /\ Pos(q, Passing(d)) # {} /\ Pos(Tail(q), Passing(d)) = {} =>
             Head(q) \in Passing(d) /\ LastOf(q, Pos(q, Passing(d))) = Head(q)
        /\ Head(q) \in Passing(d) => Pos(q, Passing(d)) # {}
    BY <1>2, LastTail
  <2> QED
    BY <2>1, <2>2 DEF ChanN
<1> QED
  BY <1>1, <1>2

\* A snapshot document is sent: it is the only one of its row.
LEMMA SnapNStep ==
    ASSUME NEW S, \A m, k \in S : m.doc = k.doc => m = k, NEW x \in S, NEW d, NEW n
    PROVE  SnapN(S, d, n) = SnapN(S \ {x}, d, IF x.doc = d THEN x.n ELSE n)
<1>1. CASE x.doc = d
  <2>1. ~\E m \in S \ {x} : m.doc = d
    BY <1>1
  <2>2. (CHOOSE m \in S : m.doc = d) = x
    <3> DEFINE c == CHOOSE m \in S : m.doc = d
    <3>1. c \in S /\ c.doc = d
      BY <1>1
    <3> QED
      BY <1>1, <3>1
  <2> QED
    BY <1>1, <2>1, <2>2 DEF SnapN
<1>2. CASE x.doc # d
  <2>1. CASE \E m \in S : m.doc = d
    <3>1. PICK k \in S : k.doc = d
      BY <2>1
    <3>2. k \in S \ {x}
      BY <1>2, <3>1
    <3>3. (CHOOSE m \in S : m.doc = d) = k
      <4> DEFINE c == CHOOSE m \in S : m.doc = d
      <4>1. c \in S /\ c.doc = d
        BY <3>1
      <4> QED
        BY <3>1, <4>1
    <3>4. (CHOOSE m \in S \ {x} : m.doc = d) = k
      <4> DEFINE c == CHOOSE m \in S \ {x} : m.doc = d
      <4>1. c \in S \ {x} /\ c.doc = d
        BY <3>1, <3>2
      <4> QED
        BY <3>1, <4>1
    <3>5. \E m \in S \ {x} : m.doc = d
      BY <3>1, <3>2
    <3> QED
      BY <1>2, <2>1, <3>3, <3>4, <3>5 DEF SnapN
  <2>2. CASE ~\E m \in S : m.doc = d
    BY <1>2, <2>2 DEF SnapN
  <2> QED
    BY <2>1, <2>2
<1> QED
  BY <1>1, <1>2

\* The positions that are about d are those of a set of elements.
LEMMA PosAbout ==
    ASSUME NEW d
    PROVE  /\ \A q \in Seq(Messages) : About(q, d) = Pos(q, Msgs(d))
           /\ \A q \in Seq(Event) : {i \in About(q, d) : Passes(q[i])} = Pos(q, Passing(d))
<1>1. ASSUME NEW q \in Seq(Messages) PROVE About(q, d) = Pos(q, Msgs(d))
  <2>1. \A i \in DOMAIN q : q[i] \in Messages
    BY ElementOfSeq, LenProperties
  <2> QED
    BY <2>1 DEF About, Pos, Msgs
<1>2. ASSUME NEW q \in Seq(Event) PROVE {i \in About(q, d) : Passes(q[i])} = Pos(q, Passing(d))
  <2>1. \A i \in DOMAIN q : q[i] \in Event
    BY ElementOfSeq, LenProperties
  <2> QED
    BY <2>1 DEF About, Pos, Passing, Events
<1> QED
  BY <1>1, <1>2

\* What the handler, the response channel and the client have of d.
Told(s, d) == LastN(plan[s], d, SnapN(snap[s], d, LastN(out[s], d, seen[s][d])))

\* Says, as the chain of the places it is on its way through.
LEMMA SaysChain ==
    ASSUME TypeOK, TypeOK', NEW s \in Sessions, NEW d \in Docs
    PROVE  Says(s, d) = ChanN(queue[s], d, Told(s, d)) /\ Says(s, d)' = ChanN(queue'[s], d, Told(s, d)')
<1>1. /\ Deliverable(s, d) = Pos(queue[s], Passing(d))
      /\ About(plan[s], d) = Pos(plan[s], Msgs(d)) /\ About(out[s], d) = Pos(out[s], Msgs(d))
  <2>1. queue[s] \in Seq(Event) /\ plan[s] \in Seq(Messages) /\ out[s] \in Seq(Messages)
    BY DEF TypeOK
  <2> QED
    BY <2>1, PosAbout DEF Deliverable
<1>2. /\ Deliverable(s, d)' = Pos(queue'[s], Passing(d))
      /\ About(plan'[s], d) = Pos(plan'[s], Msgs(d)) /\ About(out'[s], d) = Pos(out'[s], Msgs(d))
  <2>1. queue'[s] \in Seq(Event) /\ plan'[s] \in Seq(Messages) /\ out'[s] \in Seq(Messages)
    BY DEF TypeOK
  <2> QED
    BY <2>1, PosAbout DEF Deliverable
<1>3. Says(s, d) = ChanN(queue[s], d, Told(s, d))
  BY <1>1 DEF Says, Told, LastWord, ChanN, SnapN, LastN
<1>4. Says(s, d)' = ChanN(queue'[s], d, Told(s, d)')
  BY <1>2 DEF Says, Told, LastWord, ChanN, SnapN, LastN
<1> QED
  BY <1>3, <1>4

\* Handing a message on from one place to the next changes nothing.
LEMMA HandedOn ==
    ASSUME TypeOK, TypeOK', StreamInv, NEW s \in Sessions, NEW d \in Docs,
           Send(s) \/ Receive(s) \/ TakeEvent(s) \/ Keepalive(s)
    PROVE  Says(s, d)' = Says(s, d)
<1>0. d # None
  BY DocsAssumption DEF None
<1>1. /\ queue[s] \in Seq(Event) /\ plan[s] \in Seq(Messages) /\ out[s] \in Seq(Messages)
      /\ seen[s] \in [Docs -> Nat] /\ snap[s] \subseteq Messages
  BY DEF TypeOK
<1>2. CASE Send(s)
  <2>1. queue'[s] = queue[s] /\ seen'[s] = seen[s]
    BY <1>2 DEF Send
  <2>2. CASE snap[s] # {}
    <3>1. PICK m \in snap[s] : /\ out' = [out EXCEPT ![s] = Append(@, m)]
                               /\ snap' = [snap EXCEPT ![s] = @ \ {m}] /\ plan' = plan
      BY <1>2, <2>2 DEF Send
    <3>2. out'[s] = Append(out[s], m) /\ snap'[s] = snap[s] \ {m} /\ plan'[s] = plan[s] /\ m \in Messages
      BY <1>1, <3>1 DEF TypeOK
    <3>3. LastN(out'[s], d, seen[s][d]) = IF m.doc = d THEN m.n ELSE LastN(out[s], d, seen[s][d])
      BY <1>1, <3>2, LastNSteps
    <3>4. \A k, l \in snap[s] : k.doc = l.doc => k = l
      BY DEF StreamInv
    <3>5. SnapN(snap[s], d, LastN(out[s], d, seen[s][d])) = SnapN(snap'[s], d, LastN(out'[s], d, seen[s][d]))
      <4>1. \A n : SnapN(snap[s], d, n) = SnapN(snap[s] \ {m}, d, IF m.doc = d THEN m.n ELSE n)
        BY <3>4, SnapNStep
      <4> QED
        BY <3>2, <3>3, <4>1
    <3>6. Told(s, d)' = Told(s, d)
      BY <2>1, <3>2, <3>5 DEF Told
    <3> QED
      BY <2>1, <3>6, SaysChain
  <2>3. CASE snap[s] = {}
    <3>1. /\ out'[s] = Append(out[s], Head(plan[s])) /\ plan'[s] = Tail(plan[s]) /\ snap'[s] = {}
          /\ plan[s] # <<>>
      BY <1>2, <2>3 DEF Send, Sending, TypeOK
    <3>2. Head(plan[s]) \in Messages
      BY <1>1, <3>1, TailHead
    <3> DEFINE m == Head(plan[s])
               h == LastN(out[s], d, seen[s][d])
    <3>3. LastN(out'[s], d, seen[s][d]) = IF m.doc = d THEN m.n ELSE h
      BY <1>1, <3>1, <3>2, LastNSteps
    <3>4. LastN(plan[s], d, h) = LastN(plan'[s], d, IF m.doc = d THEN m.n ELSE h)
      BY <1>1, <3>1, LastNSteps
    <3>5. \A n : SnapN({}, d, n) = n
      BY DEF SnapN
    <3>6. Told(s, d) = LastN(plan[s], d, h)
      BY <2>3, <3>5 DEF Told
    <3>7. Told(s, d)' = LastN(plan'[s], d, LastN(out'[s], d, seen[s][d]))
      BY <2>1, <3>1, <3>5 DEF Told
    <3>8. Told(s, d)' = Told(s, d)
      BY <3>3, <3>4, <3>6, <3>7
    <3> QED
      BY <2>1, <3>8, SaysChain
  <2> QED
    BY <2>2, <2>3
<1>3. CASE Receive(s)
  <2> DEFINE m == Head(out[s])
  <2>1. /\ UNCHANGED <<queue, plan, snap>> /\ out[s] # <<>> /\ out'[s] = Tail(out[s])
        /\ seen' = IF m.type \in {"change", "delete"} THEN [seen EXCEPT ![s][m.doc] = m.n] ELSE seen
    BY <1>3 DEF Receive, sessionVars, TypeOK
  <2>2. m \in Messages
    BY <1>1, <2>1, TailHead
  <2> HIDE DEF m
  <2>3. seen'[s][d] = IF m.doc = d THEN m.n ELSE seen[s][d]
    <3>1. CASE m.type \in {"change", "delete"}
      <4>1. m.doc \in Docs /\ seen' = [seen EXCEPT ![s][m.doc] = m.n]
        BY <2>1, <2>2, <3>1 DEF Messages
      <4> QED
        BY <1>1, <4>1 DEF TypeOK
    <3>2. CASE m.type \notin {"change", "delete"}
      <4>1. m.doc = None
        BY <2>2, <3>2 DEF Messages
      <4> QED
        BY <1>0, <2>1, <3>2, <4>1
    <3> QED
      BY <3>1, <3>2
  <2>4. LastN(out[s], d, seen[s][d]) = LastN(out'[s], d, seen'[s][d])
    BY <1>1, <2>1, <2>3, LastNSteps DEF m
  <2>5. Told(s, d)' = Told(s, d)
    BY <2>1, <2>4 DEF Told
  <2> QED
    BY <2>1, <2>5, SaysChain
<1>4. CASE TakeEvent(s)
  <2> DEFINE e == Head(queue[s])
             h == SnapN(snap[s], d, LastN(out[s], d, seen[s][d]))
  <2>1. /\ UNCHANGED <<out, seen, snap>> /\ queue[s] # <<>> /\ queue'[s] = Tail(queue[s])
        /\ plan[s] = <<>> /\ plan'[s] = IF Passes(e) THEN <<Wire(e)>> ELSE <<>>
    BY <1>4 DEF TakeEvent, Selecting, Sending, clientVars, TypeOK
  <2>2. e \in Event
    BY <1>1, <2>1, TailHead
  <2>3. Wire(e) \in Messages /\ Wire(e).doc = e.doc
    BY <2>2, MessageTypes DEF Wire, Message
  <2> HIDE DEF e, h
  <2>4. \A n : LastN(<<>>, d, n) = n
    BY <1>1, LastNSteps
  <2>5. LastN(<<Wire(e)>>, d, h) = IF e.doc = d THEN Wire(e).n ELSE h
    BY <2>3, LastNOne
  <2>6. Told(s, d) = h
    BY <2>1, <2>4 DEF Told, h
  <2>7. Told(s, d)' = IF e.doc = d /\ Passes(e) THEN Wire(e).n ELSE h
    BY <2>1, <2>4, <2>5 DEF Told, h
  <2>8. ChanN(queue[s], d, h) = ChanN(queue'[s], d, IF e.doc = d /\ Passes(e) THEN Wire(e).n ELSE h)
    BY <1>1, <2>1, ChanNSteps DEF e
  <2> QED
    BY <2>6, <2>7, <2>8, SaysChain
<1>5. CASE Keepalive(s)
  <2> DEFINE m == Message("token", None, TokenAt(now))
             h == SnapN(snap[s], d, LastN(out[s], d, seen[s][d]))
  <2>1. UNCHANGED <<out, seen, snap, queue>> /\ plan[s] = <<>> /\ plan'[s] = <<m>>
    BY <1>5 DEF Keepalive, Selecting, Sending, clientVars, TypeOK
  <2>2. m \in Messages /\ m.doc # d
    <3>1. TokenAt(now) \in Nat
      BY TokenType DEF TypeOK
    <3> QED
      BY <1>0, <3>1, MessageTypes DEF Message
  <2> HIDE DEF m, h
  <2>3. LastN(<<>>, d, h) = h
    BY <1>1, LastNSteps
  <2>4. LastN(<<m>>, d, h) = h
    BY <2>2, LastNOne
  <2>5. Told(s, d)' = Told(s, d)
    BY <2>1, <2>3, <2>4 DEF Told, h
  <2> QED
    BY <2>1, <2>5, SaysChain
<1> QED
  BY <1>2, <1>3, <1>4, <1>5

\* What a current event of a shown or removed document says.
LEMMA CurrentSays ==
    ASSUME NEW e \in Event, NEW d \in Watched, e.doc = d, Current(e)
    PROVE  /\ Shown(d) => Passes(e) /\ Wire(e).n = doc[d].version
           /\ Removed(d) => Passes(e) /\ Wire(e).n = 0
BY DEF Current, Shown, Removed, Passes, Wire, Message

\* What Accounted says of one stream and document.
UpToDate(s, d) ==
  /\ Shown(d) /\ doc[d].time > since[s] => Says(s, d) = doc[d].version
  /\ Removed(d) /\ ~resumed[s] => Says(s, d) = 0

\* fan_out adds the current event, or one of another document.
LEMMA FanOutAccounts ==
    ASSUME TypeOK, TypeOK', HandInv, Accounted, FanOut, NEW s \in Sessions, NEW d \in Watched,
           Served(s)', d \notin missed'[s], ~Pending(d)'
    PROVE  UpToDate(s, d)'
<1>0. d \in Docs
  BY DocsAssumption
<1>1. /\ UNCHANGED <<doc, owed, pgq, phase, since, snap, plan, out, gone, seen, resumed, missed>>
      /\ inhand # NoEvent
  BY DEF FanOut, rowVars, clientVars
<1>2. inhand \in Event /\ queue[s] \in Seq(Event)
  BY <1>1 DEF TypeOK
<1>3. entry[s] /\ queue'[s] = Append(queue[s], inhand)
  BY DEF FanOut, Served
<1>4. Told(s, d)' = Told(s, d)
  BY <1>1 DEF Told
<1>5. Says(s, d)' = IF inhand.doc = d /\ Passes(inhand) THEN Wire(inhand).n ELSE Says(s, d)
  <2>1. \A n : ChanN(Append(queue[s], inhand), d, n) =
                 IF inhand.doc = d /\ Passes(inhand) THEN Wire(inhand).n ELSE ChanN(queue[s], d, n)
    BY <1>2, ChanNSteps
  <2>2. Says(s, d) = ChanN(queue[s], d, Told(s, d)) /\ Says(s, d)' = ChanN(queue'[s], d, Told(s, d)')
    BY <1>0, SaysChain
  <2> QED
    BY <1>3, <1>4, <2>1, <2>2
<1>6. CASE inhand.doc = d
  <2>1. Current(inhand)
    BY <1>0, <1>6, FannedOutIsCurrent
  <2>2. /\ Shown(d) => Passes(inhand) /\ Wire(inhand).n = doc[d].version
        /\ Removed(d) => Passes(inhand) /\ Wire(inhand).n = 0
    BY <1>2, <1>6, <2>1, CurrentSays
  <2>3. Shown(d)' = Shown(d) /\ Removed(d)' = Removed(d)
    BY <1>1 DEF Shown, Removed
  <2> QED
    BY <1>1, <1>5, <1>6, <2>2, <2>3 DEF UpToDate
<1>7. CASE inhand.doc # d
  <2>1. ~Pending(d)
    BY <1>1, <1>7 DEF Pending
  <2>2. Served(s)
    BY <1>1, <1>3 DEF Served
  <2>3. UpToDate(s, d)
    BY <1>1, <2>1, <2>2 DEF Accounted, UpToDate
  <2>4. Shown(d)' = Shown(d) /\ Removed(d)' = Removed(d)
    BY <1>1 DEF Shown, Removed
  <2> QED
    BY <1>1, <1>5, <1>7, <2>3, <2>4 DEF UpToDate
<1> QED
  BY <1>6, <1>7

\* The snapshot has the row, or the channel already has a newer event of it.
LEMMA SnapshotAccounts ==
    ASSUME TypeOK, TypeOK', StreamInv, ChannelInv, NEW s \in Sessions, Snapshot(s), NEW d \in Watched,
           Served(s)', d \notin missed'[s], ~Pending(d)'
    PROVE  UpToDate(s, d)'
<1>0. d \in Docs /\ d # None
  BY DocsAssumption DEF None
<1>1. /\ UNCHANGED <<doc, owed, pgq, inhand, entry, queue, since, out, gone, seen, resumed>>
      /\ phase[s] = "registered"
      /\ snap'[s] = {Message("change", x, doc[x].version) : x \in SnapshotRows(s)}
      /\ plan'[s] = <<Message("current", None, 0), Message("token", None, stamp[s])>>
      /\ missed'[s] = {x \in missed[s] : Overtaken(s, x)}
  BY DEF Snapshot, rowVars, listenerVars, clientVars, TypeOK
<1>2. queue[s] \in Seq(Event)
  BY DEF TypeOK
<1>3. Shown(d)' = Shown(d) /\ Removed(d)' = Removed(d) /\ Pending(d)' = Pending(d)
  BY <1>1 DEF Shown, Removed, Pending
<1>4. CASE Pos(queue[s], Events(d)) = {}
  <2>1. Pos(queue[s], Passing(d)) = {}
    BY <1>4 DEF Pos, Passing
  <2>2. Says(s, d)' = Told(s, d)'
    BY <1>0, <1>1, <2>1, SaysChain DEF ChanN
  <2>3. \A n : LastN(plan'[s], d, n) = n
    <3> DEFINE p == plan'[s]
    <3>1. DOMAIN p = 1 .. 2 /\ p[1].doc = None /\ p[2].doc = None
      BY <1>1 DEF Message
    <3> HIDE DEF p
    <3>2. Pos(p, Msgs(d)) = {}
      <4>1. \A i \in 1 .. 2 : i = 1 \/ i = 2
        OBVIOUS
      <4> QED
        BY <1>0, <3>1, <4>1 DEF Pos, Msgs
    <3> QED
      BY <3>2 DEF LastN, p
  <2>4. out[s] = <<>> /\ (~resumed[s] => seen[s][d] = 0)
    BY <1>0, <1>1 DEF StreamInv
  <2>5. LastN(out[s], d, seen[s][d]) = seen[s][d]
    BY <2>4 DEF LastN, Pos
  <2>6. Told(s, d)' = SnapN(snap'[s], d, seen[s][d])
    BY <1>1, <2>3, <2>5 DEF Told
  <2>7. ASSUME d \in SnapshotRows(s) PROVE SnapN(snap'[s], d, seen[s][d]) = doc[d].version
    <3> DEFINE c == CHOOSE m \in snap'[s] : m.doc = d
    <3>1. Message("change", d, doc[d].version) \in snap'[s] /\ Message("change", d, doc[d].version).doc = d
      BY <1>1, <2>7 DEF Message
    <3>2. c \in snap'[s] /\ c.doc = d
      BY <3>1
    <3>3. \A m \in snap'[s] : m.doc = d => m.n = doc[d].version
      BY <1>1 DEF Message
    <3> HIDE DEF c
    <3>4. c.n = doc[d].version
      BY <3>2, <3>3
    <3>5. \E m \in snap'[s] : m.doc = d
      BY <3>1
    <3> QED
      BY <3>4, <3>5 DEF SnapN, c
  <2>8. ASSUME d \notin SnapshotRows(s) PROVE SnapN(snap'[s], d, seen[s][d]) = seen[s][d]
    <3>1. \A m \in snap'[s] : m.doc # d
      BY <1>1, <2>8 DEF Message
    <3> QED
      BY <3>1 DEF SnapN
  <2>9. Shown(d) /\ doc[d].time > since[s] => d \in SnapshotRows(s)
    BY DEF Shown, SnapshotRows
  <2>10. Removed(d) => d \notin SnapshotRows(s)
    BY DEF Removed, SnapshotRows
  <2> QED
    BY <1>1, <1>3, <2>2, <2>4, <2>6, <2>7, <2>8, <2>9, <2>10 DEF UpToDate
<1>5. CASE Pos(queue[s], Events(d)) # {}
  <2> DEFINE e == LastOf(queue[s], Pos(queue[s], Events(d)))
  <2>1. d \notin missed[s]
    <3>1. PICK i \in DOMAIN queue[s] : queue[s][i].doc = d
      BY <1>5 DEF Pos, Events
    <3>2. Overtaken(s, d)
      BY <3>1 DEF Overtaken
    <3> QED
      BY <1>1, <3>2
  <2>2. Current(e)
    BY <1>0, <1>1, <1>3, <1>5, <2>1 DEF ChannelInv, Receiving, Served
  <2>3. e \in Event /\ e.doc = d
    <3>1. Pos(queue[s], Events(d)) \subseteq 1 .. Len(queue[s]) /\ Len(queue[s]) \in Nat
      BY <1>2, LenProperties DEF Pos
    <3>2. PICK m \in Pos(queue[s], Events(d)) : e = queue[s][m]
      BY <1>5, <3>1, LastOfMax
    <3> QED
      BY <3>2 DEF Pos, Events
  <2>4. Passes(e) => Says(s, d)' = Wire(e).n
    <3>1. ASSUME Passes(e) PROVE Says(s, d)' = Wire(e).n
      <4>1. Passing(d) \subseteq Events(d) /\ e \in Passing(d)
        BY <2>3, <3>1 DEF Passing, Events
      <4>2. Pos(queue[s], Passing(d)) # {} /\ LastOf(queue[s], Pos(queue[s], Passing(d))) = e
        BY <1>2, <1>5, <4>1, LastSub
      <4> QED
        BY <1>0, <1>1, <4>2, SaysChain DEF ChanN
    <3> QED
      BY <3>1
  <2> HIDE DEF e
  <2>5. /\ Shown(d) => Passes(e) /\ Wire(e).n = doc[d].version
        /\ Removed(d) => Passes(e) /\ Wire(e).n = 0
    BY <2>2, <2>3, CurrentSays
  <2> QED
    BY <1>1, <1>3, <2>4, <2>5 DEF UpToDate
<1> QED
  BY <1>4, <1>5

\* Nothing of stream s changes.
SameFor(s) ==
  /\ phase'[s] = phase[s] /\ entry'[s] = entry[s] /\ gone'[s] = gone[s]
  /\ since'[s] = since[s] /\ resumed'[s] = resumed[s] /\ queue'[s] = queue[s]
  /\ plan'[s] = plan[s] /\ snap'[s] = snap[s] /\ out'[s] = out[s] /\ seen'[s] = seen[s]

\* A handler and a client work on their own stream.
LEMMA OthersLeaveAlone ==
    ASSUME TypeOK, NEW r \in Sessions, HandlerStep(r) \/ Keepalive(r) \/ ClientStep(r),
           NEW s \in Sessions, r # s
    PROVE  SameFor(s)
<1>1. CASE Register(r) \/ Snapshot(r) \/ EndStream(r) \/ OpenFails(r) \/ Disconnect(r)
  BY <1>1 DEF Register, Snapshot, EndStream, OpenFails, Disconnect, sessionVars, clientVars, SameFor, TypeOK
<1>2. CASE SnapshotFails(r) \/ RecheckFails(r) \/ TakeReset(r)
  BY <1>2 DEF SnapshotFails, RecheckFails, TakeReset, Fail, clientVars, SameFor, TypeOK
<1>3. CASE SendFails(r) \/ ChannelClosed(r)
  BY <1>3 DEF SendFails, ChannelClosed, Return, clientVars, SameFor, TypeOK
<1>4. CASE TakeEvent(r) \/ Keepalive(r)
  BY <1>4 DEF TakeEvent, Keepalive, clientVars, SameFor, TypeOK
<1>5. CASE Send(r)
  BY <1>5 DEF Send, SameFor, TypeOK
<1>6. ASSUME NEW x \in Sessions, Open(r, x) PROVE SameFor(s)
  BY <1>6 DEF Open, SameFor, TypeOK
<1>7. CASE Receive(r)
  <2>1. seen'[s] = seen[s]
    BY <1>7 DEF Receive, TypeOK
  <2> QED
    BY <1>7, <2>1 DEF Receive, sessionVars, SameFor, TypeOK
<1> QED
  BY <1>1, <1>2, <1>3, <1>4, <1>5, <1>6, <1>7 DEF HandlerStep, ClientStep

\* Every step keeps every change accounted for.
LEMMA AccountedStep ==
    ASSUME TypeOK, TypeOK', HandInv, StreamInv, ChannelInv, Accounted, [Next]_vars
    PROVE  Accounted'
<1> SUFFICES ASSUME NEW s \in Sessions, NEW d \in Watched, Served(s)', d \notin missed'[s], ~Pending(d)'
             PROVE  UpToDate(s, d)'
  BY DEF Accounted, UpToDate
<1>0. d \in Docs
  BY DocsAssumption
<1>1. ASSUME Served(s), d \notin missed[s], ~Pending(d), doc'[d] = doc[d], since'[s] = since[s],
             resumed'[s] = resumed[s], Says(s, d)' = Says(s, d)
      PROVE  UpToDate(s, d)'
  <2>1. UpToDate(s, d)
    BY <1>1 DEF Accounted, UpToDate
  <2>2. Shown(d)' = Shown(d) /\ Removed(d)' = Removed(d)
    BY <1>1 DEF Shown, Removed
  <2> QED
    BY <1>1, <2>1, <2>2 DEF UpToDate
<1>2. ASSUME queue'[s] = queue[s], plan'[s] = plan[s], snap'[s] = snap[s], out'[s] = out[s], seen'[s] = seen[s]
      PROVE  Says(s, d)' = Says(s, d)
  <2>1. Told(s, d)' = Told(s, d)
    BY <1>2 DEF Told
  <2> QED
    BY <1>0, <1>2, <2>1, SaysChain
<1>3. CASE BackgroundStep
  <2>1. UNCHANGED <<phase, entry, queue, since, snap, plan, out, gone, seen, resumed>>
    BY <1>3 DEF BackgroundStep, Tick, LinkBreaks, FetchEvent, FetchFails, Reconnect, WriterStep, WriteRow,
                CommitWrite, SendNotify, NotifyFails, sessionVars, clientVars
  <2>2. d \notin missed[s] /\ ~Pending(d) /\ doc'[d] = doc[d]
    BY <1>0, <1>3, SettledBefore
  <2>3. Served(s)
    BY <2>1 DEF Served
  <2> QED
    BY <1>1, <1>2, <2>1, <2>2, <2>3
<1>4. CASE FanOut
  BY <1>4, FanOutAccounts
<1>5. ASSUME NEW r \in Sessions, HandlerStep(r) \/ Keepalive(r) \/ ClientStep(r) PROVE UpToDate(s, d)'
  <2>1. UNCHANGED <<doc, owed, pgq, inhand>> /\ (Snapshot(r) \/ missed' = missed)
    BY <1>5, StreamsLeaveAlone
  <2>2. ~Pending(d)
    BY <2>1 DEF Pending
  <2>3. CASE r # s
    <3>1. SameFor(s)
      BY <1>5, <2>3, OthersLeaveAlone
    <3>3. d \notin missed[s]
      BY <2>1, <2>3 DEF Snapshot, TypeOK
    <3> QED
      BY <1>1, <1>2, <2>1, <2>2, <3>1, <3>3 DEF Served, SameFor
  <2>4. CASE r = s /\ Snapshot(s)
    BY <2>4, SnapshotAccounts
  <2>5. CASE r = s /\ (Send(s) \/ Receive(s) \/ TakeEvent(s) \/ Keepalive(s))
    <3>0. phase'[s] = "live" => phase[s] = "live"
      BY <2>5 DEF Send, Receive, TakeEvent, Keepalive, sessionVars, TypeOK
    <3>1. UNCHANGED <<entry, gone, since, resumed, missed>>
      BY <2>5 DEF Send, Receive, TakeEvent, Keepalive, clientVars, sessionVars
    <3>2. Says(s, d)' = Says(s, d)
      BY <1>0, <2>5, HandedOn
    <3> QED
      BY <1>1, <2>1, <2>2, <3>0, <3>1, <3>2 DEF Served
  <2>6. CASE r = s /\ ~Snapshot(s) /\ ~(Send(s) \/ Receive(s) \/ TakeEvent(s) \/ Keepalive(s))
    <3>1. phase'[s] # "live" \/ gone'[s]
      BY <1>5, <2>6 DEF HandlerStep, ClientStep, Register, SnapshotFails, Fail, SendFails,
           Return, RecheckFails, TakeReset, ChannelClosed, EndStream, Open, OpenFails, Disconnect, TypeOK
    <3> QED
      BY <3>1 DEF Served
  <2> QED
    BY <1>5, <2>3, <2>4, <2>5, <2>6
<1>6. CASE UNCHANGED vars
  <2>1. /\ UNCHANGED <<doc, owed, pgq, inhand, missed, since, resumed>>
        /\ UNCHANGED <<phase, entry, gone, queue, plan, snap, out, seen>>
    BY <1>6 DEF vars
  <2>2. Served(s) /\ ~Pending(d)
    BY <2>1 DEF Served, Pending
  <2> QED
    BY <1>1, <1>2, <2>1, <2>2
<1> QED
  BY <1>3, <1>4, <1>5, <1>6 DEF Next, ListenerStep, BackgroundStep

(* The chain from WriteRow through send_notify, fetch_event, fan_out and   *)
(* handle_add_target to the client loses nothing by itself, and the        *)
(* snapshot and the events that were queued while it was taken never       *)
(* leave the client with an older document: for any number of documents,   *)
(* streams and writes and channels of any capacity.                        *)
THEOREM ChangesAccounted == Spec => []Accounted
<1>1. Init => Accounted
  BY DEF Init, Accounted, Served
<1>2. TypeOK /\ TypeOK' /\ HandInv /\ StreamInv /\ ChannelInv /\ Accounted /\ [Next]_vars => Accounted'
  BY AccountedStep
<1> QED
  BY <1>1, <1>2, TypesSound, HandSound, StreamSound, ChannelSound, PTL DEF Spec
=============================================================================
