------------------------------- MODULE Proxy --------------------------------
(***************************************************************************)
(* src/axis/proxy.py: the process behind a published port.  main accepts   *)
(* the clients one by one and connects to the container for each; a thread *)
(* per connection relays both ways between two non-blocking sockets.       *)
(***************************************************************************)
EXTENDS Naturals, Sequences

CONSTANTS
  Conns,    \* the connections clients open
  MaxSent,  \* bound on what a peer writes: a number for each stream
  Leavers,  \* the streams whose writer may end or reset them
  BufferSize, \* BUFFER_SIZE: what one recv takes at most
  Capacity  \* what a socket can buffer for a peer that does not read

\* "up" goes from the client (left) to the container (right).
Dirs == {"up", "down"}
Streams == Conns \X Dirs
Reverse(s) == <<s[1], IF s[2] = "up" THEN "down" ELSE "up">>

ASSUME ProxyAssumption ==
  /\ MaxSent \in [Streams -> Nat]
  /\ BufferSize \in Nat \ {0}
  /\ Capacity \in Nat \ {0}

VARIABLES
  main,     \* the connection main is busy with, {} in accept
  backlog,  \* connections the kernel holds for accept, in order
  state,    \* of each connection: "none", "queued", "connecting", "select",
            \* "handle", "send", "closed"
  events,   \* what is left of the result of select
  source,   \* the stream proxy_connection is serving
  data,     \* what it has received and not sent yet
  sent,     \* of each stream: everything its writer has written
  inbox,    \* what the proxy has not received yet
  outbox,   \* what the proxy has sent and its reader has not read
  got,      \* what its reader has read
  ended,    \* streams whose writer has closed its end
  broken    \* streams whose writer has reset its connection

mainVars == <<main, backlog>>
threadVars == <<events, source, data>>
socketVars == <<sent, inbox, outbox, got, ended, broken>>
vars == <<mainVars, state, threadVars, socketVars>>

Init ==
  /\ main = {} /\ backlog = <<>>
  /\ state = [k \in Conns |-> "none"]
  /\ events = [k \in Conns |-> {}]
  /\ source = [k \in Conns |-> <<k, "up">>]
  /\ data = [k \in Conns |-> <<>>]
  /\ sent = [s \in Streams |-> <<>>] /\ inbox = sent /\ outbox = sent /\ got = sent
  /\ ended = {} /\ broken = {}

Goto(k, label) == state' = [state EXCEPT ![k] = label]

Relaying(k) == state[k] \in {"select", "handle", "send"}

(***************************************************************************)
(* The peers.  A client may write as soon as the kernel has taken its      *)
(* connection; the container when the proxy has connected to it.           *)
(***************************************************************************)
ClientConnects(k) ==
  /\ state[k] = "none"
  /\ Goto(k, "queued")
  /\ backlog' = Append(backlog, k)
  /\ UNCHANGED <<main, threadVars, socketVars>>

Open(s) == Relaying(s[1]) \/ (s[2] = "up" /\ state[s[1]] \in {"queued", "connecting"})

Write(s) ==
  /\ Open(s) /\ s \notin ended \cup broken
  /\ Len(sent[s]) < MaxSent[s]
  /\ LET byte == <<s, Len(sent[s]) + 1>> IN
       /\ sent' = [sent EXCEPT ![s] = Append(@, byte)]
       /\ inbox' = [inbox EXCEPT ![s] = Append(@, byte)]
  /\ UNCHANGED <<mainVars, state, threadVars, outbox, got, ended, broken>>

Shutdown(s) ==
  /\ s \in Leavers \ (ended \cup broken) /\ Open(s)
  /\ ended' = ended \cup {s}
  /\ UNCHANGED <<mainVars, state, threadVars, sent, inbox, outbox, got, broken>>

Read(s) ==
  /\ outbox[s] # <<>> /\ Reverse(s) \notin broken
  /\ got' = [got EXCEPT ![s] = Append(@, Head(outbox[s]))]
  /\ outbox' = [outbox EXCEPT ![s] = Tail(@)]
  /\ UNCHANGED <<mainVars, state, threadVars, sent, inbox, ended, broken>>

Reset(s) ==
  /\ s \in Leavers \ broken /\ Open(s)
  /\ broken' = broken \cup {s}
  /\ UNCHANGED <<mainVars, state, threadVars, sent, inbox, outbox, got, ended>>

(***************************************************************************)
(* main.                                                                   *)
(***************************************************************************)
Accept ==
  /\ main = {} /\ backlog # <<>>
  /\ main' = {Head(backlog)}
  /\ backlog' = Tail(backlog)
  /\ Goto(Head(backlog), "connecting")
  /\ UNCHANGED <<threadVars, socketVars>>

Connect(k) ==
  /\ main = {k} /\ state[k] = "connecting"
  /\ main' = {}
  /\ Goto(k, "select")
  /\ UNCHANGED <<backlog, threadVars, socketVars>>

ConnectStops(k) ==
  /\ main = {k} /\ state[k] = "connecting"
  /\ Goto(k, "closed")
  /\ inbox' = [inbox EXCEPT ![<<k, "up">>] = <<>>]
  /\ UNCHANGED <<main, backlog, threadVars, sent, outbox, got, ended, broken>>

\* create_connection raises OSError: close the client and accept the next.
ConnectFails(k) ==
  /\ main = {k} /\ state[k] = "connecting"
  /\ main' = {}
  /\ Goto(k, "closed")
  /\ inbox' = [inbox EXCEPT ![<<k, "up">>] = <<>>]
  /\ UNCHANGED <<backlog, threadVars, sent, outbox, got, ended, broken>>

(***************************************************************************)
(* proxy_connection.                                                       *)
(***************************************************************************)
Readable(s) == inbox[s] # <<>> \/ s \in ended \cup broken

Select(k) ==
  /\ state[k] = "select"
  /\ \E d \in Dirs : Readable(<<k, d>>)
  /\ events' = [events EXCEPT ![k] = {s \in {k} \X Dirs : Readable(s)}]
  /\ Goto(k, "handle")
  /\ UNCHANGED <<mainVars, source, data, socketVars>>

\* return: both sockets are closed and what they have received is dropped.  A
\* socket closed with something unread resets its connection, and what was
\* still to be sent on it may be lost; otherwise the kernel goes on sending.
Lost(k) ==
  {s \in {k} \X Dirs : inbox[Reverse(s)] # <<>> \/ Reverse(s) \in broken}

Prefixes(q) == {SubSeq(q, 1, n) : n \in 0..Len(q)}

Close(k, out) ==
  /\ Goto(k, "closed")
  /\ \E up \in Prefixes(out[<<k, "up">>]), down \in Prefixes(out[<<k, "down">>]) :
       /\ <<k, "up">> \notin Lost(k) => up = out[<<k, "up">>]
       /\ <<k, "down">> \notin Lost(k) => down = out[<<k, "down">>]
       /\ outbox' = [out EXCEPT ![<<k, "up">>] = up, ![<<k, "down">>] = down]
  /\ inbox' = [inbox EXCEPT ![<<k, "up">>] = <<>>, ![<<k, "down">>] = <<>>]
  /\ data' = [data EXCEPT ![k] = <<>>]
  /\ events' = [events EXCEPT ![k] = {}]

Shorter(m, n) == IF m <= n THEN m ELSE n

RecvWhole(k, s) ==
  /\ state[k] = "handle" /\ s \in events[k]
  /\ inbox[s] # <<>>
  /\ source' = [source EXCEPT ![k] = s]
  /\ data' = [data EXCEPT ![k] = inbox[s]]
  /\ inbox' = [inbox EXCEPT ![s] = <<>>]
  /\ events' = [events EXCEPT ![k] = @ \ {s}]
  /\ Goto(k, "send")
  /\ UNCHANGED <<mainVars, sent, outbox, got, ended, broken>>

Recv(k, s) ==
  /\ state[k] = "handle" /\ s \in events[k]
  /\ inbox[s] # <<>>
  /\ source' = [source EXCEPT ![k] = s]
  /\ LET n == Shorter(BufferSize, Len(inbox[s])) IN
       /\ data' = [data EXCEPT ![k] = SubSeq(inbox[s], 1, n)]
       /\ inbox' = [inbox EXCEPT ![s] = SubSeq(@, n + 1, Len(@))]
  /\ events' = [events EXCEPT ![k] = @ \ {s}]
  /\ Goto(k, "send")
  /\ UNCHANGED <<mainVars, sent, outbox, got, ended, broken>>

RecvEndsEarly(k, s) ==
  /\ state[k] = "handle" /\ s \in events[k]
  /\ s \in ended \cup broken
  /\ Close(k, outbox)
  /\ UNCHANGED <<mainVars, source, sent, got, ended, broken>>

RecvEndsContinues(k, s) ==
  /\ state[k] = "handle" /\ s \in events[k]
  /\ s \in broken \/ inbox[s] = <<>>
  /\ events' = [events EXCEPT ![k] = @ \ {s}]
  /\ Goto(k, IF events'[k] = {} THEN "select" ELSE "handle")
  /\ UNCHANGED <<mainVars, source, data, socketVars>>

RecvEnds(k, s) ==
  /\ state[k] = "handle" /\ s \in events[k]
  /\ s \in broken \/ inbox[s] = <<>>
  /\ Close(k, outbox)
  /\ UNCHANGED <<mainVars, source, sent, got, ended, broken>>

Room(s) == Capacity - Len(outbox[s])

SendOnce(k) ==
  /\ state[k] = "send"
  /\ Reverse(source[k]) \notin broken /\ Room(source[k]) > 0
  /\ outbox' = [outbox EXCEPT ![source[k]] =
                  @ \o SubSeq(data[k], 1, Shorter(Len(data[k]), Room(source[k])))]
  /\ data' = [data EXCEPT ![k] = <<>>]
  /\ Goto(k, IF events[k] = {} THEN "select" ELSE "handle")
  /\ UNCHANGED <<mainVars, events, source, sent, inbox, got, ended, broken>>

Send(k) ==
  /\ state[k] = "send"
  /\ Reverse(source[k]) \notin broken /\ Len(data[k]) <= Room(source[k])
  /\ outbox' = [outbox EXCEPT ![source[k]] = @ \o data[k]]
  /\ data' = [data EXCEPT ![k] = <<>>]
  /\ Goto(k, IF events[k] = {} THEN "select" ELSE "handle")
  /\ UNCHANGED <<mainVars, events, source, sent, inbox, got, ended, broken>>

SendRaisesIgnored(k) ==
  /\ state[k] = "send"
  /\ Reverse(source[k]) \in broken \/ Len(data[k]) > Room(source[k])
  /\ data' = [data EXCEPT ![k] = <<>>]
  /\ Goto(k, IF events[k] = {} THEN "select" ELSE "handle")
  /\ UNCHANGED <<mainVars, events, source, socketVars>>

\* sendall on a non-blocking socket raises once the buffer is full, after it
\* has sent a part.
SendRaises(k) ==
  /\ state[k] = "send"
  /\ \/ Reverse(source[k]) \in broken /\ Close(k, outbox)
     \/ /\ Reverse(source[k]) \notin broken /\ Len(data[k]) > Room(source[k])
        /\ Close(k, [outbox EXCEPT ![source[k]] =
                       @ \o SubSeq(data[k], 1, Room(source[k]))])
  /\ UNCHANGED <<mainVars, source, sent, got, ended, broken>>

Thread(k) ==
  \/ Select(k) \/ Send(k) \/ SendRaises(k)
  \/ \E d \in Dirs : Recv(k, <<k, d>>) \/ RecvEnds(k, <<k, d>>)

Main == Accept \/ \E k \in Conns : Connect(k) \/ ConnectFails(k)

Peers ==
  \/ \E k \in Conns : ClientConnects(k)
  \/ \E s \in Streams : Write(s) \/ Shutdown(s) \/ Reset(s) \/ Read(s)

Next == Main \/ Peers \/ \E k \in Conns : Thread(k)

Spec == Init /\ [][Next]_vars

\* The scheduler runs main and the threads, and a connection attempt returns;
\* no peer need write, read, close or connect.
FairSpec == Spec /\ WF_vars(Main) /\ \A k \in Conns : WF_vars(Thread(k))

(***************************************************************************)
(* Properties.                                                             *)
(***************************************************************************)
IsPrefixOf(p, q) == Len(p) <= Len(q) /\ p = SubSeq(q, 1, Len(p))

\* Every variable keeps the kind of value the code gives it, and the buffers
\* their bounds.
TypeOK ==
  /\ main \in SUBSET Conns
  /\ state \in [Conns -> {"none", "queued", "connecting", "select", "handle", "send", "closed"}]
  /\ events \in [Conns -> SUBSET Streams]
  /\ source \in [Conns -> Streams]
  /\ \A k \in Conns : Len(data[k]) <= BufferSize
  /\ \A s \in Streams : Len(outbox[s]) <= Capacity
  /\ ended \subseteq Streams /\ broken \subseteq Streams

\* A peer reads what the other peer of its own connection has written, in
\* order and without a gap, whatever is closed, reset or full.
ReadsPrefix == \A s \in Streams : IsPrefixOf(got[s], sent[s])

\* As long as a connection is relayed nothing is lost in it.
Held(s) == IF source[s[1]] = s THEN data[s[1]] ELSE <<>>

NothingLost ==
  \A s \in Streams :
    state[s[1]] # "closed" => sent[s] = got[s] \o outbox[s] \o Held(s) \o inbox[s]

\* When a peer ends its stream and the proxy closes for that reason, all of
\* that stream gets through, unless the other peer was still sending.
EndDelivers ==
  [][\A s \in Streams :
       RecvEnds(s[1], s) /\ {s, Reverse(s)} \cap broken = {} /\ inbox[Reverse(s)] = <<>> =>
         sent[s] = got'[s] \o outbox'[s]]_vars

\* Every client is accepted or turned away: a container that refuses does not
\* stop the listener.
ClientsServed == \A k \in Conns : state[k] = "queued" ~> state[k] # "queued"

\* A connection does not outlive its peers: once one ends its stream or is
\* gone, the thread ends, whatever the other still sends.
ThreadsEnd ==
  \A s \in Streams : Relaying(s[1]) /\ s \in ended \cup broken ~> state[s[1]] = "closed"

=============================================================================
