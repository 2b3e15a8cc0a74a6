----------------------------- MODULE ProxyProofs -----------------------------
(***************************************************************************)
(* The relay loses, repeats and reorders nothing, for any number of        *)
(* connections, any buffers and whatever the peers do: what a peer reads   *)
(* is a prefix of what the other has written, and all of it when the       *)
(* stream ends first.                                                      *)
(***************************************************************************)
EXTENDS Proxy, Integers, SequenceTheorems, TLAPS

Bytes == Streams \X Nat
Texts == Seq(Bytes)

(***************************************************************************)
(* Moving bytes between sequences.                                         *)
(***************************************************************************)
LEMMA EmptyText == <<>> \in Texts
  BY EmptySeq DEF Texts

LEMMA Joined ==
  ASSUME NEW p \in Texts, NEW q \in Texts
  PROVE  p \o q \in Texts /\ Len(p \o q) = Len(p) + Len(q) /\ Len(p) \in Nat /\ Len(q) \in Nat
  BY ConcatProperties, LenProperties DEF Texts

LEMMA Regrouped ==
  ASSUME NEW p \in Texts, NEW q \in Texts, NEW r \in Texts
  PROVE  (p \o q) \o r = p \o (q \o r)
  BY ConcatAssociative DEF Texts

\* What moves over one boundary.
LEMMA MoveMiddle ==
  ASSUME NEW g \in Texts, NEW o \in Texts, NEW h \in Texts, NEW i \in Texts
  PROVE  (g \o o) \o (h \o i) = (g \o (o \o h)) \o i
<1>1. PICK x \in Texts : x = g \o o
  BY Joined
<1>2. (x \o h) \o i = x \o (h \o i)
  BY Regrouped
<1>3. (g \o o) \o h = g \o (o \o h)
  BY Regrouped
<1> QED BY <1>1, <1>2, <1>3

LEMMA PutLast ==
  ASSUME NEW p \in Texts, NEW q \in Texts, NEW b \in Bytes
  PROVE  p \o Append(q, b) = Append(p \o q, b)
<1>1. Append(q, b) = q \o <<b>> /\ Append(p \o q, b) = (p \o q) \o <<b>>
  BY AppendIsConcat, ConcatProperties DEF Texts
<1>2. <<b>> \in Texts
  BY DEF Texts
<1> QED BY <1>1, <1>2, ConcatAssociative DEF Texts

LEMMA MoveFirst ==
  ASSUME NEW p \in Texts, NEW q \in Texts, q # <<>>
  PROVE  /\ Append(p, Head(q)) \o Tail(q) = p \o q
         /\ Append(p, Head(q)) \in Texts /\ Tail(q) \in Texts
         /\ Len(Tail(q)) <= Len(q)
<1>1. Len(q) \in Nat \ {0} /\ Head(q) = q[1] /\ q[1] \in Bytes
  BY EmptySeq, LenProperties, ElementOfSeq DEF Texts
<1>2. Tail(q) = SubSeq(q, 2, Len(q)) /\ Tail(q) \in Texts /\ Len(Tail(q)) = Len(q) - 1
  BY TailIsSubSeq, HeadTailProperties DEF Texts
<1>3. q = <<Head(q)>> \o Tail(q)
  BY <1>1, <1>2, SubSeqRecursiveFirst, SubSeqFull DEF Texts
<1>4. Append(p, Head(q)) = p \o <<Head(q)>> /\ <<Head(q)>> \in Texts
  BY <1>1, AppendIsConcat DEF Texts
<1>5. Append(p, Head(q)) \in Texts
  BY <1>1, AppendProperties DEF Texts
<1> QED BY <1>1, <1>2, <1>3, <1>4, <1>5, ConcatAssociative DEF Texts

LEMMA Split ==
  ASSUME NEW q \in Texts, NEW n \in 0..Len(q)
  PROVE  /\ SubSeq(q, 1, n) \in Texts /\ Len(SubSeq(q, 1, n)) = n
         /\ SubSeq(q, n + 1, Len(q)) \in Texts
         /\ SubSeq(q, 1, n) \o SubSeq(q, n + 1, Len(q)) = q
<1>1. Len(q) \in Nat /\ \A i \in 1..Len(q) : q[i] \in Bytes
  BY LenProperties, ElementOfSeq DEF Texts
<1>2. SubSeq(q, 1, n) \in Texts /\ Len(SubSeq(q, 1, n)) = n
  BY <1>1, SubSeqProperties DEF Texts
<1>3. SubSeq(q, n + 1, Len(q)) \in Texts
  BY <1>1, SubSeqProperties DEF Texts
<1>4. SubSeq(q, 1, n) \o SubSeq(q, n + 1, Len(q)) = SubSeq(q, 1, Len(q))
  <2>1. 1 \in 1..(Len(q) + 1) /\ n \in (1 - 1)..Len(q) /\ Len(q) \in n..Len(q)
    BY <1>1
  <2> QED BY <2>1, ConcatAdjacentSubSeq DEF Texts
<1> QED BY <1>2, <1>3, <1>4, SubSeqFull DEF Texts

LEMMA PrefixOfConcat ==
  ASSUME NEW p \in Texts, NEW q \in Texts
  PROVE  IsPrefixOf(p, p \o q)
<1>1. /\ p \o q \in Texts /\ Len(p \o q) = Len(p) + Len(q)
      /\ \A i \in 1..Len(p) : (p \o q)[i] = p[i]
  BY ConcatProperties, LenProperties DEF Texts
<1>2. Len(p) \in Nat /\ Len(q) \in Nat
  BY LenProperties DEF Texts
<1>3. Len(p) \in 0..Len(p \o q)
  BY <1>1, <1>2
<1>4. SubSeq(p \o q, 1, Len(p)) \in Texts /\ Len(SubSeq(p \o q, 1, Len(p))) = Len(p)
  BY <1>1, <1>3, Split
<1>5. \A i \in 1..Len(p) : SubSeq(p \o q, 1, Len(p))[i] = (p \o q)[i]
  BY <1>1, <1>2, SubSeqProperties, ElementOfSeq DEF Texts
<1>6. p = SubSeq(p \o q, 1, Len(p))
  BY <1>1, <1>4, <1>5, SeqEqual DEF Texts
<1> QED BY <1>1, <1>2, <1>6 DEF IsPrefixOf

(***************************************************************************)
(* The invariant.                                                          *)
(***************************************************************************)
States == {"none", "queued", "connecting", "select", "handle", "send", "closed"}

ControlType ==
  /\ main \in SUBSET Conns
  /\ state \in [Conns -> States]
  /\ events \in [Conns -> SUBSET Streams]
  /\ ended \subseteq Streams /\ broken \subseteq Streams

\* A connection is in the backlog once, and only until it is accepted.
Queue ==
  /\ backlog \in Seq(Conns)
  /\ \A i \in 1..Len(backlog) : state[backlog[i]] = "queued"
  /\ \A i, j \in 1..Len(backlog) : backlog[i] = backlog[j] => i = j

DataType ==
  /\ source \in [Conns -> Streams] /\ data \in [Conns -> Texts]
  /\ sent \in [Streams -> Texts] /\ inbox \in [Streams -> Texts]
  /\ outbox \in [Streams -> Texts] /\ got \in [Streams -> Texts]

Bounded ==
  /\ \A k \in Conns : Len(data[k]) <= BufferSize
  /\ \A s \in Streams : Len(outbox[s]) <= Capacity

\* A thread serves its own connection and holds data only while it sends.
Serving ==
  \A k \in Conns : source[k][1] = k /\ (state[k] # "send" => data[k] = <<>>)

\* Until a connection is closed all of a stream is somewhere on its way; after
\* that what is on its way is still the beginning of it.
Whole(s) ==
  state[s[1]] # "closed" => sent[s] = (got[s] \o outbox[s]) \o (Held(s) \o inbox[s])

Intact(s) == \E rest \in Texts : sent[s] = (got[s] \o outbox[s]) \o rest

Flow == \A s \in Streams : Whole(s) /\ Intact(s)

IInv == ControlType /\ Queue /\ DataType /\ Bounded /\ Serving /\ Flow

LEMMA Parts ==
  ASSUME DataType, NEW s \in Streams
  PROVE  /\ s[1] \in Conns /\ s[2] \in Dirs /\ s = <<s[1], s[2]>>
         /\ Reverse(s) \in Streams
         /\ sent[s] \in Texts /\ inbox[s] \in Texts /\ outbox[s] \in Texts /\ got[s] \in Texts
         /\ Held(s) \in Texts /\ got[s] \o outbox[s] \in Texts /\ Held(s) \o inbox[s] \in Texts
<1>1. s[1] \in Conns /\ s[2] \in Dirs /\ s = <<s[1], s[2]>> /\ Reverse(s) \in Streams
  BY DEF Streams, Dirs, Reverse
<1>2. sent[s] \in Texts /\ inbox[s] \in Texts /\ outbox[s] \in Texts /\ got[s] \in Texts
  BY DEF DataType
<1>3. Held(s) \in Texts
  BY <1>1, EmptyText DEF DataType, Held
<1> QED BY <1>1, <1>2, <1>3, ConcatProperties DEF Texts

\* What is whole is intact.
LEMMA WholeIsIntact ==
  ASSUME DataType, NEW s \in Streams, Whole(s), state[s[1]] # "closed"
  PROVE  Intact(s)
  BY Parts DEF Whole, Intact

LEMMA InitIInv == Init => IInv
<1> SUFFICES ASSUME Init PROVE IInv
  OBVIOUS
<1>1. ControlType
  BY DEF Init, ControlType, States
<1>5. Queue
  BY EmptySeq DEF Init, Queue
<1>2. DataType
  BY EmptyText DEF Init, DataType, Streams, Dirs
<1>3. Bounded /\ Serving
  BY ProxyAssumption, EmptySeq DEF Init, Bounded, Serving
<1>4. ASSUME NEW s \in Streams PROVE Whole(s) /\ Intact(s)
  <2>1. sent[s] = <<>> /\ got[s] = <<>> /\ outbox[s] = <<>> /\ inbox[s] = <<>> /\ Held(s) = <<>>
    BY <1>2, Parts DEF Init, Held
  <2>2. <<>> \o <<>> = <<>>
    BY EmptyText, ConcatEmptySeq DEF Texts
  <2> QED BY <2>1, <2>2, EmptyText DEF Whole, Intact
<1> QED BY <1>1, <1>2, <1>3, <1>4, <1>5 DEF IInv, Flow

(***************************************************************************)
(* Streams that a step does not touch.                                     *)
(***************************************************************************)
Untouched(s) ==
  /\ sent'[s] = sent[s] /\ got'[s] = got[s] /\ outbox'[s] = outbox[s]
  /\ state'[s[1]] # "closed" =>
       state[s[1]] # "closed" /\ Held(s)' = Held(s) /\ inbox'[s] = inbox[s]

LEMMA UntouchedFlow ==
  ASSUME Flow, NEW s \in Streams, Untouched(s)
  PROVE  Whole(s)' /\ Intact(s)'
<1>1. PICK rest \in Texts : sent[s] = (got[s] \o outbox[s]) \o rest
  BY DEF Flow, Intact
<1>2. sent'[s] = (got'[s] \o outbox'[s]) \o rest
  BY <1>1 DEF Untouched
<1> QED BY <1>2 DEF Flow, Untouched, Whole, Intact

LEMMA QueueKept ==
  ASSUME Queue, UNCHANGED backlog,
         \A k \in Conns : state[k] = "queued" => state'[k] = "queued"
  PROVE  Queue'
  BY ElementOfSeq DEF Queue

\* Steps that move no data.
LEMMA ControlStep ==
  ASSUME IInv, UNCHANGED <<source, data, sent, inbox, outbox, got>>,
         ControlType', Queue',
         \A k \in Conns : \/ state'[k] = state[k]
                          \/ {state[k], state'[k]} \cap {"send", "closed"} = {}
  PROVE  IInv'
<1> USE DEF IInv
<1>1. DataType' /\ Bounded'
  BY DEF DataType, Bounded
<1>2. Serving'
  BY DEF Serving
<1>3. ASSUME NEW s \in Streams PROVE Untouched(s)
  BY Parts DEF Untouched, Held
<1> QED BY <1>1, <1>2, <1>3, UntouchedFlow DEF Flow

LEMMA AcceptStep ==
  ASSUME IInv, Accept
  PROVE  IInv'
<1> DEFINE k == Head(backlog)
<1>1. /\ k \in Conns /\ k = backlog[1] /\ Len(backlog) \in Nat \ {0}
      /\ Tail(backlog) \in Seq(Conns) /\ Len(Tail(backlog)) = Len(backlog) - 1
      /\ \A i \in 1..Len(Tail(backlog)) : Tail(backlog)[i] = backlog[i + 1]
  BY HeadTailProperties, EmptySeq DEF Accept, IInv, Queue
<1>2. state[k] = "queued"
  BY <1>1 DEF IInv, Queue
<1>3. state' = [state EXCEPT ![k] = "connecting"] /\ backlog' = Tail(backlog) /\ main' = {k}
  BY DEF Accept, Goto
<1>4. UNCHANGED <<events, source, data, sent, inbox, outbox, got, ended, broken>>
  BY DEF Accept, threadVars, socketVars
<1> HIDE DEF k
<1>5. Queue'
  <2>1. ASSUME NEW i \in 1..Len(backlog') PROVE backlog'[i] # k /\ backlog'[i] \in Conns
    BY <1>1, <1>3, <2>1, ElementOfSeq DEF IInv, Queue
  <2>2. \A i \in 1..Len(backlog') : state'[backlog'[i]] = "queued"
    BY <1>1, <1>3, <2>1 DEF IInv, Queue, ControlType
  <2>3. \A i, j \in 1..Len(backlog') : backlog'[i] = backlog'[j] => i = j
    BY <1>1, <1>3 DEF IInv, Queue
  <2> QED BY <1>1, <1>3, <2>2, <2>3 DEF Queue
<1>6. ControlType'
  BY <1>1, <1>3, <1>4 DEF IInv, ControlType, States
<1> QED BY <1>2, <1>3, <1>4, <1>5, <1>6, ControlStep DEF IInv, ControlType

LEMMA ConnectsStep ==
  ASSUME IInv, NEW k \in Conns, ClientConnects(k)
  PROVE  IInv'
<1>1. /\ state[k] = "none" /\ state' = [state EXCEPT ![k] = "queued"]
      /\ backlog' = Append(backlog, k)
      /\ UNCHANGED <<main, events, source, data, sent, inbox, outbox, got, ended, broken>>
  BY DEF ClientConnects, Goto, threadVars, socketVars
<1>2. /\ backlog' \in Seq(Conns) /\ Len(backlog') = Len(backlog) + 1 /\ Len(backlog) \in Nat
      /\ \A i \in 1..Len(backlog) : backlog'[i] = backlog[i]
      /\ backlog'[Len(backlog) + 1] = k
  BY <1>1, AppendProperties, LenProperties DEF IInv, Queue
<1>3. \A i \in 1..Len(backlog) : backlog[i] # k /\ backlog[i] \in Conns
  BY <1>1, ElementOfSeq DEF IInv, Queue
<1>4. Queue'
  <2>1. \A i \in 1..Len(backlog') : state'[backlog'[i]] = "queued"
    BY <1>1, <1>2, <1>3 DEF IInv, Queue, ControlType
  <2>2. \A i, j \in 1..Len(backlog') : backlog'[i] = backlog'[j] => i = j
    BY <1>2, <1>3 DEF IInv, Queue
  <2> QED BY <1>2, <2>1, <2>2 DEF Queue
<1>5. ControlType'
  BY <1>1 DEF IInv, ControlType, States
<1> QED BY <1>1, <1>4, <1>5, ControlStep DEF IInv, ControlType

LEMMA ConnectStep ==
  ASSUME IInv, NEW k \in Conns, Connect(k) \/ Select(k)
  PROVE  IInv'
<1>1. UNCHANGED <<backlog, source, data, sent, inbox, outbox, got, ended, broken>>
  BY DEF Connect, Select, mainVars, threadVars, socketVars
<1>2. /\ \E l \in {"select", "handle"} : state' = [state EXCEPT ![k] = l]
      /\ state[k] \in {"connecting", "select"}
  BY DEF Connect, Select, Goto
<1>3. main' \in SUBSET Conns /\ events' \in [Conns -> SUBSET Streams]
  BY DEF Connect, Select, IInv, ControlType, Streams, mainVars, threadVars
<1>4. ControlType'
  BY <1>1, <1>2, <1>3 DEF IInv, ControlType, States
<1>5. Queue'
  BY <1>1, <1>2, QueueKept DEF IInv, ControlType
<1> QED BY <1>1, <1>2, <1>4, <1>5, ControlStep DEF IInv, ControlType

LEMMA EndingStep ==
  ASSUME IInv, NEW s \in Streams, Shutdown(s) \/ Reset(s)
  PROVE  IInv'
<1>1. /\ UNCHANGED <<mainVars, state, threadVars, sent, inbox, outbox, got>>
      /\ ended' \subseteq Streams /\ broken' \subseteq Streams
  BY DEF Shutdown, Reset, IInv, ControlType
<1>2. ControlType' /\ Queue'
  BY <1>1 DEF IInv, ControlType, Queue, mainVars, threadVars
<1> QED BY <1>1, <1>2, ControlStep DEF threadVars

\* A refused client is closed, and what it has sent is dropped.
LEMMA RefusedStep ==
  ASSUME IInv, NEW k \in Conns, ConnectFails(k)
  PROVE  IInv'
<1>1. /\ state[k] = "connecting" /\ state' = [state EXCEPT ![k] = "closed"] /\ main' = {}
      /\ inbox' = [inbox EXCEPT ![<<k, "up">>] = <<>>]
      /\ UNCHANGED <<backlog, events, source, data, sent, outbox, got, ended, broken>>
  BY DEF ConnectFails, Goto, threadVars
<1>2. ControlType' /\ Bounded' /\ Serving'
  BY <1>1 DEF IInv, ControlType, Bounded, Serving, States
<1>3. Queue'
  BY <1>1, QueueKept DEF IInv, ControlType
<1>4. DataType'
  BY <1>1, EmptyText DEF IInv, DataType
<1>5. ASSUME NEW s \in Streams PROVE Untouched(s)
  <2>1. s[1] \in Conns /\ (s = <<k, "up">> => s[1] = k)
    BY DEF Streams
  <2>2. CASE s[1] = k
    BY <1>1, <2>2 DEF Untouched, IInv, ControlType
  <2>3. CASE s[1] # k
    BY <1>1, <2>1, <2>3 DEF Untouched, Held, IInv, ControlType, DataType
  <2> QED BY <2>2, <2>3
<1> QED BY <1>2, <1>3, <1>4, <1>5, UntouchedFlow DEF IInv, Flow

(***************************************************************************)
(* The peers.                                                              *)
(***************************************************************************)
LEMMA WriteStep ==
  ASSUME IInv, NEW t \in Streams, Write(t)
  PROVE  IInv'
<1> USE DEF IInv
<1> DEFINE b == <<t, Len(sent[t]) + 1>>
<1>1. b \in Bytes
  BY Parts, LenProperties DEF Bytes, Texts
<1>2. /\ sent' = [sent EXCEPT ![t] = Append(@, b)]
      /\ inbox' = [inbox EXCEPT ![t] = Append(@, b)]
      /\ UNCHANGED <<mainVars, state, threadVars, outbox, got, ended, broken>>
      /\ Open(t)
  BY DEF Write
<1> HIDE DEF b
<1>3. Append(sent[t], b) \in Texts /\ Append(inbox[t], b) \in Texts
  BY <1>1, Parts, AppendProperties DEF Texts
<1>4. DataType'
  BY <1>2, <1>3 DEF DataType, threadVars
<1>5. ControlType' /\ Queue' /\ Bounded' /\ Serving'
  BY <1>2 DEF ControlType, Queue, Bounded, Serving, mainVars, threadVars
<1>6. ASSUME NEW s \in Streams, s # t PROVE Whole(s)' /\ Intact(s)'
  <2>1. Untouched(s)
    BY <1>2, <1>6 DEF Untouched, Held, DataType, threadVars
  <2> QED BY <2>1, UntouchedFlow
<1>7. Whole(t)' /\ Intact(t)'
  <2>1. state[t[1]] # "closed"
    BY <1>2 DEF Open, Relaying
  <2>2. sent[t] = (got[t] \o outbox[t]) \o (Held(t) \o inbox[t])
    BY <2>1 DEF Flow, Whole
  <2>3. sent'[t] = Append(sent[t], b) /\ inbox'[t] = Append(inbox[t], b)
    BY <1>2 DEF DataType
  <2>4. Held(t)' = Held(t) /\ got'[t] = got[t] /\ outbox'[t] = outbox[t]
    BY <1>2 DEF Held, threadVars
  <2>5. Held(t) \o Append(inbox[t], b) = Append(Held(t) \o inbox[t], b)
    BY <1>1, Parts, PutLast
  <2>6. sent'[t] = (got[t] \o outbox[t]) \o Append(Held(t) \o inbox[t], b)
    <3>1. got[t] \o outbox[t] \in Texts /\ Held(t) \o inbox[t] \in Texts
      BY Parts
    <3> QED BY <1>1, <2>2, <2>3, <3>1, PutLast
  <2>7. Whole(t)'
    BY <2>3, <2>4, <2>5, <2>6 DEF Whole
  <2>8. Append(Held(t) \o inbox[t], b) \in Texts
    BY <1>1, Parts, AppendProperties DEF Texts
  <2> QED BY <2>4, <2>6, <2>7, <2>8 DEF Intact
<1> QED BY <1>4, <1>5, <1>6, <1>7 DEF Flow

LEMMA ReadStep ==
  ASSUME IInv, NEW t \in Streams, Read(t)
  PROVE  IInv'
<1> USE DEF IInv
<1>1. /\ outbox[t] # <<>>
      /\ got' = [got EXCEPT ![t] = Append(@, Head(outbox[t]))]
      /\ outbox' = [outbox EXCEPT ![t] = Tail(@)]
      /\ UNCHANGED <<mainVars, state, threadVars, sent, inbox, ended, broken>>
  BY DEF Read
<1>2. /\ Append(got[t], Head(outbox[t])) \o Tail(outbox[t]) = got[t] \o outbox[t]
      /\ Append(got[t], Head(outbox[t])) \in Texts /\ Tail(outbox[t]) \in Texts
      /\ Len(Tail(outbox[t])) <= Len(outbox[t])
  BY <1>1, Parts, MoveFirst
<1>3. DataType'
  BY <1>1, <1>2 DEF DataType, threadVars
<1>4. ControlType' /\ Queue' /\ Serving'
  BY <1>1 DEF ControlType, Queue, Serving, mainVars, threadVars
<1>5. Bounded'
  <2>1. Len(Tail(outbox[t])) <= Capacity
    BY <1>2, Parts, LenProperties, ProxyAssumption DEF Bounded, Texts
  <2> QED BY <1>1, <2>1 DEF Bounded, DataType, threadVars
<1>6. ASSUME NEW s \in Streams PROVE Whole(s)' /\ Intact(s)'
  <2>1. got'[s] \o outbox'[s] = got[s] \o outbox[s]
    BY <1>1, <1>2 DEF DataType
  <2>2. sent'[s] = sent[s] /\ Held(s)' = Held(s) /\ inbox'[s] = inbox[s] /\ state' = state
    BY <1>1 DEF Held, threadVars
  <2>3. Whole(s) /\ Intact(s)
    BY DEF Flow
  <2> QED BY <2>1, <2>2, <2>3 DEF Whole, Intact
<1> QED BY <1>3, <1>4, <1>5, <1>6 DEF Flow

(***************************************************************************)
(* The threads.                                                            *)
(***************************************************************************)
LEMMA RecvStep ==
  ASSUME IInv, NEW k \in Conns, NEW d \in Dirs, Recv(k, <<k, d>>)
  PROVE  IInv'
<1> DEFINE t == <<k, d>>
           n == Shorter(BufferSize, Len(inbox[t]))
<1> USE DEF IInv
<1>1. t \in Streams /\ t[1] = k
  BY DEF Streams
<1>2. /\ state[k] = "handle" /\ state' = [state EXCEPT ![k] = "send"]
      /\ source' = [source EXCEPT ![k] = t]
      /\ data' = [data EXCEPT ![k] = SubSeq(inbox[t], 1, n)]
      /\ inbox' = [inbox EXCEPT ![t] = SubSeq(inbox[t], n + 1, Len(inbox[t]))]
      /\ events' = [events EXCEPT ![k] = @ \ {t}]
      /\ UNCHANGED <<main, backlog, sent, outbox, got, ended, broken>>
  BY <1>1 DEF Recv, Goto, mainVars, DataType
<1>3. n \in 0..Len(inbox[t]) /\ n <= BufferSize
  BY <1>1, Parts, LenProperties, ProxyAssumption DEF Shorter, Texts
<1> HIDE DEF t, n
<1>4. /\ SubSeq(inbox[t], 1, n) \in Texts /\ Len(SubSeq(inbox[t], 1, n)) = n
      /\ SubSeq(inbox[t], n + 1, Len(inbox[t])) \in Texts
      /\ SubSeq(inbox[t], 1, n) \o SubSeq(inbox[t], n + 1, Len(inbox[t])) = inbox[t]
  BY <1>1, <1>3, Parts, Split
<1>5. ControlType'
  BY <1>1, <1>2 DEF ControlType, States
<1>6. Queue'
  BY <1>2, QueueKept DEF ControlType
<1>7. DataType'
  BY <1>1, <1>2, <1>4 DEF DataType
<1>8. Bounded'
  BY <1>1, <1>2, <1>3, <1>4 DEF Bounded, DataType
<1>9. Serving'
  BY <1>1, <1>2 DEF Serving, DataType, ControlType
<1>10. ASSUME NEW s \in Streams, s # t PROVE Whole(s)' /\ Intact(s)'
  <2>1. s[1] = k => Held(s) = <<>> /\ Held(s)' = <<>>
    BY <1>2, <1>10 DEF Held, Serving, DataType
  <2>2. s[1] # k => Held(s)' = Held(s)
    BY <1>2, Parts DEF Held, DataType
  <2>3. Untouched(s)
    BY <1>2, <1>10, <2>1, <2>2, Parts DEF Untouched, DataType, ControlType
  <2> QED BY <2>3, UntouchedFlow
<1>11. Whole(t)' /\ Intact(t)'
  <2>1. Held(t) = <<>> /\ Held(t)' = SubSeq(inbox[t], 1, n)
    BY <1>1, <1>2 DEF Held, Serving, DataType
  <2>2. Held(t) \o inbox[t] = inbox[t]
    BY <1>1, <2>1, Parts, ConcatEmptySeq DEF Texts
  <2>3. inbox'[t] = SubSeq(inbox[t], n + 1, Len(inbox[t]))
    BY <1>1, <1>2 DEF DataType
  <2>4. Held(t)' \o inbox'[t] = Held(t) \o inbox[t]
    BY <1>4, <2>1, <2>2, <2>3
  <2>5. Whole(t) /\ Intact(t) /\ state[t[1]] # "closed"
    BY <1>1, <1>2 DEF Flow
  <2> QED BY <1>2, <2>4, <2>5 DEF Whole, Intact
<1> QED BY <1>5, <1>6, <1>7, <1>8, <1>9, <1>10, <1>11 DEF Flow

LEMMA SendStep ==
  ASSUME IInv, NEW k \in Conns, Send(k)
  PROVE  IInv'
<1>1. PICK t \in Streams : t[1] = k /\ t = source[k]
  BY DEF IInv, DataType, Serving
<1>2. ControlType /\ Queue /\ DataType /\ Bounded /\ Serving /\ Flow
  BY DEF IInv
<1>3. state[k] = "send" /\ Len(data[k]) <= Capacity - Len(outbox[t])
  BY <1>1 DEF Send, Room
<1>4. /\ \E l \in {"select", "handle"} : state' = [state EXCEPT ![k] = l]
      /\ outbox' = [outbox EXCEPT ![t] = outbox[t] \o data[k]]
      /\ data' = [data EXCEPT ![k] = <<>>]
  BY <1>1, <1>2 DEF Send, Goto, DataType
<1>5. UNCHANGED <<main, backlog, events, source, sent, inbox, got, ended, broken>>
  BY DEF Send, mainVars
<1>6. data[k] \in Texts /\ outbox[t] \in Texts /\ inbox[t] \in Texts /\ got[t] \in Texts
  BY <1>1, <1>2 DEF DataType
<1>7. /\ outbox[t] \o data[k] \in Texts
      /\ Len(outbox[t] \o data[k]) = Len(outbox[t]) + Len(data[k])
      /\ Len(outbox[t]) \in Nat /\ Len(data[k]) \in Nat
  BY <1>6, Joined
<1>8. ControlType'
  BY <1>2, <1>4, <1>5 DEF ControlType, States
<1>9. Queue'
  <2>1. \A l \in Conns : state[l] = "queued" => state'[l] = "queued"
    BY <1>2, <1>3, <1>4 DEF ControlType
  <2> QED BY <1>2, <1>5, <2>1, QueueKept
<1>10. DataType'
  BY <1>1, <1>2, <1>4, <1>5, <1>7, EmptyText DEF DataType
<1>11. Bounded'
  <2>1. Len(<<>>) = 0 /\ 0 <= BufferSize
    BY ProxyAssumption, EmptySeq
  <2>2. Capacity \in Nat
    BY ProxyAssumption
  <2>3. Len(outbox[t] \o data[k]) <= Capacity
    <3>1. PICK m \in Nat : m = Len(outbox[t])
      BY <1>7
    <3>2. PICK n \in Nat : n = Len(data[k])
      BY <1>7
    <3>3. n <= Capacity - m
      BY <1>3, <3>1, <3>2, Zenon
    <3>4. m + n <= Capacity
      BY <2>2, <3>3
    <3>5. Len(outbox[t] \o data[k]) = m + n
      BY <1>7, <3>1, <3>2, Zenon
    <3>6. Len(outbox[t] \o data[k]) <= Capacity
      BY <3>4, <3>5, Zenon
    <3> QED BY <3>6
  <2>4. \A l \in Conns : Len(data'[l]) <= BufferSize
    BY <1>2, <1>4, <2>1 DEF Bounded, DataType
  <2>5. \A s \in Streams : Len(outbox'[s]) <= Capacity
    BY <1>2, <1>4, <2>3 DEF Bounded, DataType
  <2> QED BY <2>4, <2>5 DEF Bounded
<1>12. Serving'
  BY <1>2, <1>3, <1>4, <1>5 DEF Serving, DataType, ControlType
<1>13. ASSUME NEW s \in Streams, s # t PROVE Whole(s)' /\ Intact(s)'
  <2>1. Held(s)' = Held(s)
    <3>1. s[1] \in Conns /\ (s[1] = k => source[s[1]] # s)
      BY <1>1, <1>2, <1>13, Parts
    <3>2. s[1] # k => data'[s[1]] = data[s[1]]
      BY <1>2, <1>4, <3>1 DEF DataType
    <3> QED BY <1>5, <3>1, <3>2 DEF Held
  <2>2. s[1] \in Conns /\ outbox'[s] = outbox[s]
    BY <1>1, <1>2, <1>4, <1>13, Parts DEF DataType
  <2>3. state[s[1]] = "closed" => state'[s[1]] = "closed"
    BY <1>2, <1>3, <1>4, <2>2 DEF ControlType
  <2>4. Untouched(s)
    BY <1>5, <2>1, <2>2, <2>3 DEF Untouched
  <2> QED BY <1>2, <2>4, UntouchedFlow
<1>14. Whole(t)' /\ Intact(t)'
  <2>1. Held(t) = data[k] /\ state[t[1]] # "closed"
    BY <1>1, <1>3 DEF Held
  <2>2. sent[t] = (got[t] \o outbox[t]) \o (data[k] \o inbox[t])
    BY <1>1, <1>2, <2>1 DEF Flow, Whole
  <2>3. sent[t] = (got[t] \o (outbox[t] \o data[k])) \o inbox[t]
    <3>1. PICK g \in Texts, o \in Texts, h \in Texts, i \in Texts :
            g = got[t] /\ o = outbox[t] /\ h = data[k] /\ i = inbox[t]
      BY <1>6
    <3>2. (g \o o) \o (h \o i) = (g \o (o \o h)) \o i
      BY MoveMiddle, SMTT(60)
    <3> QED BY <2>2, <3>1, <3>2
  <2>4. <<>> \o inbox[t] = inbox[t]
    BY <1>6, ConcatEmptySeq DEF Texts
  <2>5. outbox'[t] = outbox[t] \o data[k]
    BY <1>1, <1>2, <1>4 DEF DataType
  <2>6. Held(t)' = <<>>
    BY <1>1, <1>2, <1>4, <1>5 DEF Held, DataType
  <2>7. sent'[t] = sent[t] /\ got'[t] = got[t] /\ inbox'[t] = inbox[t]
    BY <1>5
  <2>8. sent'[t] = (got'[t] \o outbox'[t]) \o inbox'[t]
    BY <2>3, <2>5, <2>7
  <2>9. Whole(t)'
    BY <2>4, <2>6, <2>7, <2>8 DEF Whole
  <2>10. Intact(t)'
    BY <1>6, <2>7, <2>8 DEF Intact
  <2> QED BY <2>9, <2>10
<1>15. \A s \in Streams : Whole(s)' /\ Intact(s)'
  BY <1>13, <1>14
<1>16. Flow'
  BY <1>15 DEF Flow
<1> QED BY <1>8, <1>9, <1>10, <1>11, <1>12, <1>16 DEF IInv

\* Closing a connection keeps the beginning of what is on its way.
LEMMA CloseStep ==
  ASSUME IInv, NEW k \in Conns, state[k] \in {"handle", "send"},
         NEW out \in [Streams -> Texts], Close(k, out),
         \A s \in Streams : Len(out[s]) <= Capacity /\ (s[1] # k => out[s] = outbox[s]),
         \A s \in Streams : \E rest \in Texts : sent[s] = (got[s] \o out[s]) \o rest,
         UNCHANGED <<mainVars, source, sent, got, ended, broken>>
  PROVE  IInv'
<1> USE DEF IInv
<1> DEFINE u == <<k, "up">>
           d == <<k, "down">>
<1>1. u \in Streams /\ d \in Streams /\ u # d /\ u[1] = k /\ d[1] = k
  BY DEF Streams, Dirs
<1>2. PICK up \in Prefixes(out[u]), down \in Prefixes(out[d]) :
        outbox' = [out EXCEPT ![u] = up, ![d] = down]
  BY DEF Close
<1>3. /\ state' = [state EXCEPT ![k] = "closed"]
      /\ inbox' = [inbox EXCEPT ![u] = <<>>, ![d] = <<>>]
      /\ data' = [data EXCEPT ![k] = <<>>] /\ events' = [events EXCEPT ![k] = {}]
  BY DEF Close, Goto
<1>4. \A s \in Streams : s[1] = k => s \in {u, d}
  BY DEF Streams, Dirs
<1> HIDE DEF u, d
<1>5. ASSUME NEW q \in Texts, NEW p \in Prefixes(q)
      PROVE  p \in Texts /\ Len(p) <= Len(q) /\ \E r \in Texts : q = p \o r
  <2>1. PICK n \in 0..Len(q) : p = SubSeq(q, 1, n)
    BY <1>5 DEF Prefixes
  <2>2. SubSeq(q, n + 1, Len(q)) \in Texts
    BY Split
  <2>3. p \in Texts /\ Len(p) = n /\ q = p \o SubSeq(q, n + 1, Len(q))
    BY <2>1, Split
  <2>4. n <= Len(q)
    BY Joined
  <2> QED BY <2>2, <2>3, <2>4
<1>6. ASSUME NEW s \in Streams
      PROVE  outbox'[s] \in Prefixes(out[s]) \/ (s[1] # k /\ outbox'[s] = outbox[s])
  <2>1. s \notin {u, d} => outbox'[s] = out[s]
    BY <1>2
  <2>2. outbox'[u] = up /\ outbox'[d] = down
    BY <1>1, <1>2
  <2> QED BY <1>2, <1>4, <2>1, <2>2
<1>7. \A s \in Streams : outbox'[s] \in Texts /\ Len(outbox'[s]) <= Capacity
  <2> TAKE s \in Streams
  <2>1. CASE outbox'[s] = outbox[s]
    BY <2>1 DEF DataType, Bounded
  <2>2. CASE outbox'[s] \in Prefixes(out[s])
    <3>1. outbox'[s] \in Texts /\ Len(outbox'[s]) <= Len(out[s])
      BY <1>5, <2>2
    <3> QED BY <3>1, LenProperties, ProxyAssumption DEF Texts
  <2> QED BY <1>6, <2>1, <2>2
<1>8. DataType'
  <2>1. outbox' \in [Streams -> Texts]
    BY <1>2, <1>7
  <2> QED BY <1>1, <1>3, <2>1, EmptyText DEF DataType
<1>9. ControlType'
  BY <1>3 DEF ControlType, States, mainVars
<1>10. Queue'
  BY <1>3, QueueKept DEF ControlType, mainVars
<1>11. Bounded'
  <2>1. Len(<<>>) <= BufferSize
    BY ProxyAssumption, EmptySeq
  <2> QED BY <1>3, <1>7, <2>1 DEF Bounded, DataType
<1>12. Serving'
  BY <1>3 DEF Serving, DataType, ControlType
<1>13. ASSUME NEW s \in Streams, s[1] # k PROVE Whole(s)' /\ Intact(s)'
  <2>1. outbox'[s] = outbox[s] /\ inbox'[s] = inbox[s]
    BY <1>1, <1>2, <1>3, <1>13 DEF DataType
  <2>2. Held(s)' = Held(s)
    BY <1>3, <1>13, Parts DEF Held, DataType
  <2>3. Untouched(s)
    BY <1>3, <1>13, <2>1, <2>2, Parts DEF Untouched, ControlType
  <2> QED BY <2>3, UntouchedFlow
<1>14. ASSUME NEW s \in Streams, s[1] = k PROVE Whole(s)' /\ Intact(s)'
  <2>1. PICK rest \in Texts : sent[s] = (got[s] \o out[s]) \o rest
    OBVIOUS
  <2>2. outbox'[s] \in Prefixes(out[s])
    BY <1>6, <1>14
  <2>3. PICK r \in Texts : out[s] = outbox'[s] \o r
    <3>1. out[s] \in Texts
      OBVIOUS
    <3> QED BY <1>5, <2>2, <3>1
  <2>4. got[s] \in Texts /\ outbox'[s] \in Texts /\ r \o rest \in Texts
        /\ got[s] \o outbox'[s] \in Texts
    BY <1>7, <2>1, <2>3, Parts, Joined
  <2>5. sent[s] = (got[s] \o (outbox'[s] \o r)) \o rest
    BY <2>1, <2>3
  <2>6. sent[s] = (got[s] \o outbox'[s]) \o (r \o rest)
    <3>1. PICK g \in Texts, o \in Texts : g = got[s] /\ o = outbox'[s]
      BY <2>4
    <3>2. PICK x \in Texts : x = g \o o
      BY Joined
    <3>3. (g \o o) \o r = g \o (o \o r)
      BY Regrouped
    <3>4. (x \o r) \o rest = x \o (r \o rest)
      BY Regrouped
    <3> QED BY <2>5, <3>1, <3>2, <3>3, <3>4
  <2>7. Intact(s)'
    BY <2>4, <2>6 DEF Intact
  <2>8. state'[s[1]] = "closed"
    BY <1>3, <1>14 DEF ControlType
  <2> QED BY <2>7, <2>8 DEF Whole
<1> QED BY <1>8, <1>9, <1>10, <1>11, <1>12, <1>13, <1>14 DEF Flow

LEMMA RecvEndsStep ==
  ASSUME IInv, NEW k \in Conns, NEW s \in Streams, RecvEnds(k, s)
  PROVE  IInv'
  BY CloseStep DEF RecvEnds, IInv, DataType, Bounded, Flow, Intact

LEMMA SendRaisesStep ==
  ASSUME IInv, NEW k \in Conns, SendRaises(k)
  PROVE  IInv'
<1> DEFINE t == source[k]
           part == SubSeq(data[k], 1, Room(t))
           out == [outbox EXCEPT ![t] = outbox[t] \o part]
<1> USE DEF IInv
<1>1. state[k] = "send" /\ UNCHANGED <<mainVars, source, sent, got, ended, broken>>
  BY DEF SendRaises
<1>2. CASE Close(k, outbox)
  BY <1>1, <1>2, CloseStep DEF DataType, Bounded, Flow, Intact
<1>3. CASE Len(data[k]) > Room(t) /\ Close(k, out)
  <2>1. t \in Streams /\ t[1] = k /\ t = source[k]
    BY DEF DataType, Serving
  <2>2. data[k] \in Texts /\ outbox[t] \in Texts /\ got[t] \in Texts /\ inbox[t] \in Texts
    BY <2>1 DEF DataType
  <2>3. Room(t) \in 0..Len(data[k]) /\ Len(outbox[t]) \in Nat /\ Room(t) = Capacity - Len(outbox[t])
    <3>1. Len(outbox[t]) \in Nat /\ Len(data[k]) \in Nat /\ Capacity \in Nat
      BY <2>2, Joined, ProxyAssumption
    <3>2. Len(outbox[t]) <= Capacity
      BY <2>1 DEF Bounded
    <3>3. Room(t) = Capacity - Len(outbox[t]) /\ Len(data[k]) > Room(t)
      BY <1>3 DEF Room
    <3> QED BY <3>1, <3>2, <3>3
  <2> DEFINE rest == SubSeq(data[k], Room(t) + 1, Len(data[k]))
  <2>4. part \in Texts /\ Len(part) = Room(t) /\ rest \in Texts /\ part \o rest = data[k]
    BY <2>2, <2>3, Split
  <2>5. outbox[t] \o part \in Texts /\ Len(outbox[t] \o part) = Capacity
    <3>1. Len(outbox[t] \o part) = Len(outbox[t]) + Len(part) /\ outbox[t] \o part \in Texts
      BY <2>2, <2>4, Joined
    <3>2. PICK n \in Nat : n = Len(outbox[t])
      BY <2>3
    <3>3. Len(part) = Capacity - n
      BY <2>3, <2>4, <3>2
    <3>4. n + (Capacity - n) = Capacity
      BY ProxyAssumption
    <3> QED BY <3>1, <3>2, <3>3, <3>4
  <2>6. out \in [Streams -> Texts] /\ out[t] = outbox[t] \o part
    BY <2>1, <2>5 DEF DataType
  <2>7. \A s \in Streams : s # t => out[s] = outbox[s]
    BY DEF DataType
  <2> HIDE DEF part, rest, out
  <2>8. \A s \in Streams : Len(out[s]) <= Capacity /\ (s[1] # k => out[s] = outbox[s])
    BY <2>1, <2>5, <2>6, <2>7, ProxyAssumption DEF Bounded
  <2>9. sent[t] = (got[t] \o out[t]) \o (rest \o inbox[t]) /\ rest \o inbox[t] \in Texts
    <3>1. sent[t] = (got[t] \o outbox[t]) \o (data[k] \o inbox[t])
      BY <1>1, <2>1 DEF Flow, Whole, Held
    <3>2. sent[t] = (got[t] \o outbox[t]) \o ((part \o rest) \o inbox[t])
      BY <2>4, <3>1
    <3>3. sent[t] = (got[t] \o (outbox[t] \o part)) \o (rest \o inbox[t])
      <4>1. PICK g \in Texts, o \in Texts, h \in Texts, i \in Texts, r \in Texts :
              g = got[t] /\ o = outbox[t] /\ h = part /\ i = inbox[t] /\ r = rest
        BY <2>2, <2>4
      <4>2. PICK y \in Texts : y = r \o i
        BY Joined
      <4>3. (h \o r) \o i = h \o (r \o i)
        BY Regrouped
      <4>4. (g \o o) \o (h \o y) = (g \o (o \o h)) \o y
        BY MoveMiddle, SMTT(60)
      <4> QED BY <3>2, <4>1, <4>2, <4>3, <4>4
    <3>4. rest \o inbox[t] \in Texts
      BY <2>2, <2>4, Joined
    <3> QED BY <2>6, <3>3, <3>4
  <2>10. ASSUME NEW s \in Streams PROVE \E r \in Texts : sent[s] = (got[s] \o out[s]) \o r
    <3>1. CASE s = t
      BY <2>9, <3>1
    <3>2. CASE s # t
      BY <2>7, <3>2 DEF Flow, Intact
    <3> QED BY <3>1, <3>2
  <2> QED BY <1>1, <1>3, <2>6, <2>8, <2>10, CloseStep
<1> QED BY <1>2, <1>3 DEF SendRaises, DataType

LEMMA NextIInv == IInv /\ [Next]_vars => IInv'
<1> SUFFICES ASSUME IInv, [Next]_vars PROVE IInv'
  OBVIOUS
<1>1. CASE Main
  BY <1>1, AcceptStep, ConnectStep, RefusedStep DEF Main
<1>2. CASE Peers
  BY <1>2, ConnectsStep, WriteStep, EndingStep, ReadStep DEF Peers
<1>3. ASSUME NEW k \in Conns, Thread(k) PROVE IInv'
  <2>1. \A d \in Dirs : <<k, d>> \in Streams
    BY DEF Streams
  <2> QED BY <1>3, <2>1, ConnectStep, SendStep, SendRaisesStep, RecvStep, RecvEndsStep DEF Thread
<1>4. CASE UNCHANGED vars
  BY <1>4 DEF IInv, ControlType, Queue, DataType, Bounded, Serving, Flow, Whole, Intact, Held,
              vars, mainVars, threadVars, socketVars
<1> QED BY <1>1, <1>2, <1>3, <1>4 DEF Next

(***************************************************************************)
(* The theorems.                                                           *)
(***************************************************************************)
LEMMA Invariance == Spec => []IInv
  BY InitIInv, NextIInv, PTL DEF Spec

\* Every variable of Proxy keeps its type, and no buffer overflows.
THEOREM TypeCorrect == Spec => []TypeOK
<1>1. IInv => TypeOK
  BY DEF IInv, ControlType, DataType, Bounded, TypeOK, States
<1> QED BY <1>1, Invariance, PTL

\* proxy_connection: while a connection is relayed, what a peer has written is
\* what the other has read, what is on its way, and nothing else.
THEOREM NothingIsLost == Spec => []NothingLost
<1>1. ASSUME IInv PROVE NothingLost
  <2> SUFFICES ASSUME NEW s \in Streams, state[s[1]] # "closed"
               PROVE  sent[s] = got[s] \o outbox[s] \o Held(s) \o inbox[s]
    BY DEF NothingLost
  <2>1. sent[s] = (got[s] \o outbox[s]) \o (Held(s) \o inbox[s])
    BY <1>1 DEF IInv, Flow, Whole
  <2>2. got[s] \o outbox[s] \in Texts /\ Held(s) \in Texts /\ inbox[s] \in Texts
    BY <1>1, Parts DEF IInv
  <2> QED BY <2>1, <2>2, Regrouped
<1> QED BY <1>1, Invariance, PTL

\* proxy_connection: a peer reads a prefix of what the other has written,
\* however the connection ends.
THEOREM PrefixesRead == Spec => []ReadsPrefix
<1>1. ASSUME IInv PROVE ReadsPrefix
  <2> SUFFICES ASSUME NEW s \in Streams PROVE IsPrefixOf(got[s], sent[s])
    BY DEF ReadsPrefix
  <2>1. PICK rest \in Texts : sent[s] = (got[s] \o outbox[s]) \o rest
    BY <1>1 DEF IInv, Flow, Intact
  <2>2. got[s] \in Texts /\ outbox[s] \in Texts /\ outbox[s] \o rest \in Texts
    BY <1>1, Parts, Joined DEF IInv
  <2>3. sent[s] = got[s] \o (outbox[s] \o rest)
    BY <2>1, <2>2, Regrouped
  <2> QED BY <2>2, <2>3, PrefixOfConcat
<1> QED BY <1>1, Invariance, PTL

\* proxy_connection: a stream that ends first gets through completely.
THEOREM EndsDelivered == Spec => EndDelivers
<1>1. ASSUME IInv, NEW s \in Streams, RecvEnds(s[1], s), {s, Reverse(s)} \cap broken = {},
             inbox[Reverse(s)] = <<>>
      PROVE  sent[s] = got'[s] \o outbox'[s]
  <2>1. /\ s[1] \in Conns /\ s = <<s[1], s[2]>> /\ s[2] \in Dirs
        /\ got[s] \in Texts /\ outbox[s] \in Texts /\ got[s] \o outbox[s] \in Texts
    BY <1>1, Parts DEF IInv
  <2>2. state[s[1]] = "handle" /\ inbox[s] = <<>>
    BY <1>1 DEF RecvEnds
  <2>3. Held(s) = <<>>
    BY <1>1, <2>1, <2>2 DEF Held, IInv, Serving
  <2>4. Held(s) \o inbox[s] = <<>>
    BY <2>2, <2>3, EmptyText, ConcatEmptySeq DEF Texts
  <2>5. sent[s] = got[s] \o outbox[s]
    <3>1. sent[s] = (got[s] \o outbox[s]) \o (Held(s) \o inbox[s])
      BY <1>1, <2>2 DEF IInv, Flow, Whole
    <3> QED BY <2>1, <2>4, <3>1, ConcatEmptySeq DEF Texts
  <2>6. s \notin Lost(s[1])
    BY <1>1 DEF Lost
  <2>7. outbox'[s] = outbox[s] /\ got' = got
    <3>1. s = <<s[1], "up">> \/ s = <<s[1], "down">>
      BY <2>1 DEF Dirs
    <3>2. Close(s[1], outbox) /\ got' = got
      BY <1>1 DEF RecvEnds
    <3> QED BY <1>1, <2>6, <3>1, <3>2 DEF Close, IInv, DataType
  <2> QED BY <2>5, <2>7
<1>2. IInv => [\A s \in Streams :
                 RecvEnds(s[1], s) /\ {s, Reverse(s)} \cap broken = {} /\ inbox[Reverse(s)] = <<>> =>
                   sent[s] = got'[s] \o outbox'[s]]_vars
  BY <1>1
<1> QED BY <1>2, Invariance, PTL DEF EndDelivers

=============================================================================
