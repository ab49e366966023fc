------------------------------- MODULE WebPush -------------------------------
(***************************************************************************)
(* The two handlers of ESPAsyncWebSrv that keep a connection after its     *)
(* response and send on it unasked: AsyncWebSocket and AsyncEventSource,   *)
(* with the clients they serve.  A behaviour is that of one of the two.    *)
(*                                                                         *)
(* The calls come from callbacks of the async_tcp task, so that each runs  *)
(* to its end; lwIP takes bytes, gives room back as they are acknowledged  *)
(* and loses connections at any time, and the task learns of it by events. *)
(* A client's number is its id; the list of clients is in that order.  A   *)
(* text sent to all is one buffer, which lives while a message has it.     *)
(***************************************************************************)
EXTENDS Integers, Sequences, FiniteSets, SequencesExt, FiniteSetsExt

CONSTANTS Kind,       \* "socket", "events"
          SndBuf, ShortLen, MaxQueued, MaxEvents, SizeT, Gone,
          MaxClients, \* bound: clients
          MaxCalls,   \* bound: calls of the application
          MaxWork,    \* bound: calls and frames, each client counting for two
          Length,     \* lengths of the texts it sends
          Printed,    \* lengths of those it prints
          CloseLen,   \* lengths of a close frame's data
          MaxFrames,  \* bound: frames a browser sends
          FrameLen,   \* bound: their length
          MaxAcks,    \* bound: acknowledgements the task has yet to learn of
          AckLen,     \* what an acknowledgement may cover short of all in flight
          HeadLeft    \* bytes of the response's head still in the window

ASSUME PushAssumption ==
  /\ Kind \subseteq {"socket", "events"}
  /\ MaxClients \in Nat /\ MaxCalls \in Nat /\ MaxWork \in Nat
  /\ SndBuf \in Nat /\ ShortLen \in Nat \ {0} /\ MaxQueued \in Nat \ {0}
  /\ MaxEvents \in Nat \ {0} /\ SizeT \in Nat \ {0}
  /\ MaxFrames \in Nat /\ FrameLen \in Nat /\ MaxAcks \in Nat
  /\ AckLen \subseteq Nat /\ Length \subseteq Nat /\ Printed \subseteq Nat /\ CloseLen \subseteq Nat /\ HeadLeft \subseteq 0..SndBuf

\* The longest control frame fits an empty window, and a text, which is in the memory
\* of the controller, is so short that its bytes and the heads of its frames are
\* counted without wrapping.
ASSUME WindowAssumption ==
  /\ SndBuf > ShortLen + 8
  /\ \A len \in Length \cup Printed : 5 * (len + 1) < SizeT

VARIABLES
  kind,     \* the handler
  made,     \* clients so far: _cNextId - 1
  clients,  \* the clients, by number
  calls,    \* calls so far
  buffers,  \* _buffers, by the calls that made them, in that order
  astray    \* _onData has left its segment, or its client: what it does then is undefined

vars == <<kind, made, clients, calls, buffers, astray>>

Socket == INSTANCE WebSocketClient
Source == INSTANCE EventSourceClient

Id == 1..MaxClients
Client == {id \in 1..made : clients[id] # Gone}

Frames == IF kind = "socket" THEN MapThenSumSet(LAMBDA id : clients[id].frames, Client) ELSE 0
Work(n) == 2 * made + calls + Frames + n <= MaxWork

Faults(c) ==
  IF kind = "socket" THEN IF c.crossed THEN {"none"} ELSE Socket!Fault
  ELSE IF c.passed THEN {"none"} ELSE {"none", "data"}

Init ==
  /\ kind \in Kind /\ made = 0 /\ clients = [id \in Id |-> Gone] /\ calls = 0 /\ buffers = {}
  /\ astray = FALSE

-----------------------------------------------------------------------------
(* Buffers: _count is the number of messages that have one *)

Uses(c, b) == c # Gone /\ \E i \in DOMAIN c.messages :
                 c.messages[i].kind = "multi" /\ c.messages[i].body = b

CanDelete(cs, b) == \A id \in Id : ~Uses(cs[id], b)

MakeBuffer(bs, b) == bs \cup {b}

\* _cleanBuffers deletes what its loop stands on: the loop goes on to the next
\* buffer or ends there.
CleanBuffers(cs, bs) ==
  LET dead == {b \in bs : CanDelete(cs, b)}
  IN IF dead = {} THEN {bs} ELSE {bs \ {b \in dead : b <= last} : last \in dead}

-----------------------------------------------------------------------------
(* The connections *)

Update(id, c) == clients' = [clients EXCEPT ![id] = c]

\* AsyncWebSocketResponse::_ack and the client's constructor.
ConnectSocket ==
  /\ kind = "socket" /\ made < MaxClients /\ Work(2) /\ made' = made + 1
  /\ \E left \in HeadLeft : Update(made', Socket!NewClient(left))
  /\ UNCHANGED <<kind, calls, buffers>>

\* AsyncEventSourceResponse::_ack and the client's constructor.
ConnectSource ==
  /\ kind = "events" /\ made < MaxClients /\ Work(2) /\ made' = made + 1
  /\ \E left \in HeadLeft : Update(made', Source!NewClient(left))
  /\ UNCHANGED <<kind, calls, buffers>>

\* The browser acknowledges; the task will hear of it.
Acknowledge(id) ==
  LET c == clients[id] IN
  /\ c.open /\ c.unacked > 0 /\ Len(c.acks) < MaxAcks
  /\ \E n \in {k \in 1..c.unacked : k = c.unacked \/ k \in AckLen} :
       Update(id, [c EXCEPT !.unacked = @ - n, !.acks = Append(@, n)])
  /\ UNCHANGED <<kind, made, calls, buffers>>

\* The connection is lost.
Lose(id) ==
  /\ clients[id].open
  /\ Update(id, [clients[id] EXCEPT !.open = FALSE])
  /\ UNCHANGED <<kind, made, calls, buffers>>

\* AsyncClient::_sent.  The buffers are cleaned before the queue runs, so that those
\* of the messages it drops are kept, and not at all by a client that leaves.
Acked(id) ==
  LET c == clients[id]
      d == [c EXCEPT !.acks = Tail(@)]
  IN
  /\ c.acks # <<>>
  /\ \E fault \in Faults(c) :
       Update(id, IF kind = "socket" THEN Socket!OnAck(d, Head(c.acks), fault)
                  ELSE Source!OnAck(d, Head(c.acks), fault))
  /\ IF kind = "socket" /\ ~Socket!Leaves(d) THEN buffers' \in CleanBuffers(clients, buffers)
     ELSE UNCHANGED buffers
  /\ UNCHANGED <<kind, made, calls>>

\* AsyncClient::_poll of a connection that lwIP still has.
Polled(id) ==
  LET c == clients[id] IN
  /\ c.open
  /\ \E fault \in Faults(c), keepAlive \in BOOLEAN :
       /\ keepAlive => calls < MaxCalls /\ Work(1)
       /\ Update(id, IF kind = "socket" THEN Socket!OnPoll(c, keepAlive, 2, fault)
                     ELSE Source!OnPoll(c, fault))
       /\ calls' = IF keepAlive THEN calls + 1 ELSE calls
  /\ UNCHANGED <<kind, made, buffers>>

\* _onTimeout: what was sent has not been acknowledged for too long.
TimedOut(id) ==
  LET c == clients[id] IN
  /\ c.open /\ c.unacked > 0
  /\ Update(id, Source!Close(c))
  /\ UNCHANGED <<kind, made, calls, buffers>>

\* _onDisconnect, which deletes the client.
Disconnected(id) ==
  /\ ~clients[id].open
  /\ Update(id, Gone)
  /\ UNCHANGED <<kind, made, calls, buffers>>

\* The part of a frame that a segment may hold next: some of the frame under way, or
\* the head of a new one and some of its bytes.
Pieces(c) ==
  LET left == c.frame.len - c.frame.at
      new == [n : {c.frames + 1}, op : {"text", "close", "ping", "pong"}, len : 0..FrameLen, at : {0}]
  IN IF left > 0 THEN [frame : {c.frame}, take : 1..left]
     ELSE IF c.frames < MaxFrames
       THEN {p \in [frame : new, take : 0..FrameLen] : p.take <= p.frame.len}
     ELSE {}

\* A turn of the loop in _onData; what the browser said is kept beside what was heard.
Turn(c, frame, take, fault) ==
  LET d == Socket!OnData(c, frame, take, fault)
      bytes == [i \in 1..take |-> <<frame.n, frame.at + i>>]
  IN IF d = Gone THEN Gone
     ELSE [d EXCEPT !.frame = [frame EXCEPT !.at = @ + take], !.frames = frame.n,
                    !.said = IF frame.op = "text" THEN @ \o bytes ELSE @]

\* AsyncClient::_recv: a segment of the browser with parts of one frame or of two, the
\* first of them to its end.  A segment with more is another step right after.
Data(id) ==
  LET c == clients[id] IN
  /\ kind = "socket" /\ c.open
  /\ \E p \in Pieces(c) :
       /\ Work(p.frame.n - c.frames)
       /\ \E fault \in Faults(c) : \E d \in {Turn(c, p.frame, p.take, fault)} :
            \/ Update(id, d)
            \/ /\ d # Gone /\ ~d.refused /\ d.frame.at = d.frame.len /\ Work(d.frames + 1 - c.frames)
               /\ \E q \in Pieces(d), again \in Faults(d) : Update(id, Turn(d, q.frame, q.take, again))
  /\ UNCHANGED <<kind, made, calls, buffers>>

\* A segment that ends inside the head of a frame, which is read all the same, so that
\* plen wraps; or that goes on behind the close frame which deletes the client.  Of the
\* client nothing is known from then on.
Stray(id) ==
  LET c == clients[id] IN
  /\ kind = "socket" /\ c.open
  /\ \/ c.frame.at = c.frame.len /\ c.frames < MaxFrames
     \/ c.status = "disconnecting" /\ \E p \in Pieces(c) : Turn(c, p.frame, p.take, "none") = Gone
  /\ Update(id, Gone) /\ astray' = TRUE
  /\ UNCHANGED <<kind, made, calls, buffers>>

-----------------------------------------------------------------------------
(* AsyncWebSocket *)

Call == calls < MaxCalls /\ Work(1) /\ calls' = calls + 1

IsConnected(id) == clients[id].status = "connected"
Count == Cardinality({id \in Client : IsConnected(id)})

\* text(id, ..) and binary(id, ..)
Text(id) ==
  /\ kind = "socket" /\ Call /\ IsConnected(id)
  /\ \E len \in Length, fault \in Faults(clients[id]) :
       Update(id, Socket!QueueMessage(clients[id], Socket!BasicMessage(calls', len), fault))
  /\ UNCHANGED <<kind, made, buffers>>

ToConnected(Op(_)) ==
  clients' = [id \in Id |-> IF id \in Client /\ IsConnected(id) THEN Op(clients[id])
                            ELSE clients[id]]

FaultsOfAll(faults) == {fault \in faults : \A id \in Client : fault \in Faults(clients[id])}

\* textAll(buffer): the buffer is locked until every client has it.
TextBuffer(len, fault) ==
  /\ ToConnected(LAMBDA c : Socket!QueueMessage(c, Socket!MultiMessage(calls', len), fault))
  /\ buffers' \in CleanBuffers(clients', MakeBuffer(buffers, calls'))
  /\ UNCHANGED <<kind, made>>

\* textAll and binaryAll of a text
TextAll ==
  /\ kind = "socket" /\ Call
  /\ \E len \in Length, fault \in FaultsOfAll(Socket!Fault) : TextBuffer(len, fault)

\* printfAll: a buffer of the length printed.
PrintAll ==
  /\ kind = "socket" /\ Call
  /\ \E len \in Printed, fault \in FaultsOfAll(Socket!Fault) : TextBuffer(len, fault)

\* printfAll_P: the buffer has the final NUL as well, and it is sent.
PrintAllInFlash ==
  /\ kind = "socket" /\ Call
  /\ \E len \in Printed, fault \in FaultsOfAll(Socket!Fault) : TextBuffer(len + 1, fault)

\* textAll and binaryAll of a text in flash, which every client copies.
TextEach ==
  /\ kind = "socket" /\ Call
  /\ \E len \in Length, fault \in FaultsOfAll(Socket!Fault) :
       ToConnected(LAMBDA c : Socket!QueueMessage(c, Socket!BasicMessage(calls', len), fault))
  /\ UNCHANGED <<kind, made, buffers>>

Ping(id) ==
  /\ kind = "socket" /\ Call /\ IsConnected(id)
  /\ Update(id, Socket!Ping(clients[id], 0, "none"))
  /\ UNCHANGED <<kind, made, buffers>>

PingAll ==
  /\ kind = "socket" /\ Call
  /\ ToConnected(LAMBDA c : Socket!Ping(c, 0, "none"))
  /\ UNCHANGED <<kind, made, buffers>>

Close(id) ==
  /\ kind = "socket" /\ Call /\ IsConnected(id)
  /\ \E len \in CloseLen : Update(id, Socket!Close(clients[id], len, "none"))
  /\ UNCHANGED <<kind, made, buffers>>

CloseAll ==
  /\ kind = "socket" /\ Call
  /\ \E len \in CloseLen : ToConnected(LAMBDA c : Socket!Close(c, len, "none"))
  /\ UNCHANGED <<kind, made, buffers>>

\* cleanupClients closes the client that came first, connected or not.
CleanupClients ==
  LET front == CHOOSE id \in Client : \A other \in Client : id <= other IN
  /\ kind = "socket" /\ Call
  /\ \E max \in 0..MaxClients : Count > max /\ Update(front, Socket!Close(clients[front], 0, "none"))
  /\ UNCHANGED <<kind, made, buffers>>

-----------------------------------------------------------------------------
(* AsyncEventSource *)

\* AsyncEventSourceClient::send and write
SendEvent(id) ==
  /\ kind = "events" /\ Call
  /\ \E len \in Length \ {0}, fault \in Faults(clients[id]) :
       Update(id, Source!QueueMessage(clients[id], Source!Event(calls', len), fault))
  /\ UNCHANGED <<kind, made, buffers>>

SendAll ==
  /\ kind = "events" /\ Call
  /\ \E len \in Length \ {0}, fault \in FaultsOfAll({"none", "data"}) :
       clients' = [id \in Id |->
         IF id \in Client THEN Source!QueueMessage(clients[id], Source!Event(calls', len), fault)
         ELSE clients[id]]
  /\ UNCHANGED <<kind, made, buffers>>

\* close deletes the client its loop stands on: the loop goes on or ends there.
CloseSource ==
  LET open == {id \in Client : Source!Connected(clients[id])} IN
  /\ kind = "events" /\ Call /\ open # {}
  /\ \E last \in open :
       clients' = [id \in Id |-> IF id \in open /\ id <= last THEN Source!Close(clients[id])
                                 ELSE clients[id]]
  /\ UNCHANGED <<kind, made, buffers>>

-----------------------------------------------------------------------------

\* A behaviour ends where lwIP takes only a part of a frame, or all of one that the
\* client then counts as not sent, and where _onData goes astray.
Next ==
  /\ ~astray /\ \A id \in Client : kind = "socket" => ~clients[id].refused
  /\ \/ /\ \/ ConnectSocket \/ ConnectSource \/ TextAll \/ PrintAll \/ PrintAllInFlash \/ TextEach
           \/ PingAll \/ CloseAll \/ SendAll \/ CloseSource
           \/ Client # {} /\ CleanupClients
           \/ \E id \in Client :
             \/ Acknowledge(id) \/ Lose(id) \/ Acked(id) \/ Polled(id) \/ TimedOut(id)
             \/ Disconnected(id) \/ Data(id) \/ Text(id) \/ Ping(id) \/ Close(id) \/ SendEvent(id)
        /\ UNCHANGED astray
     \/ \E id \in Client : Stray(id)

Spec == Init /\ [][Next]_vars

-----------------------------------------------------------------------------
(* Properties *)

Message == [kind : {"basic", "multi"}, body : 1..MaxCalls, len : Nat, sent : Nat, ack : Nat,
            acked : 0..SizeT, status : {"sending", "sent"}]

SocketClient(c) ==
  /\ c.status \in {"connected", "disconnecting", "disconnected"} /\ c.open \in BOOLEAN
  /\ c.messages \in Seq(Message) /\ Len(c.messages) <= MaxQueued
  /\ \A i \in DOMAIN c.messages : c.messages[i].sent <= c.messages[i].len

EventClient(c) ==
  /\ c.messages \in Seq([body : 1..MaxCalls, len : Nat, sent : Nat, acked : Nat])
  /\ Len(c.messages) <= MaxEvents
  /\ \A i \in DOMAIN c.messages : c.messages[i].acked <= c.messages[i].len

\* What the queues of a client hold, and that its window is not overfilled.
TypeOK ==
  /\ kind \in Kind /\ made \in 0..MaxClients /\ calls \in 0..MaxCalls
  /\ buffers \subseteq 1..MaxCalls /\ astray \in BOOLEAN
  /\ \A id \in Client :
       /\ clients[id].unacked \in 0..SndBuf /\ clients[id].acks \in Seq(1..SndBuf)
       /\ IF kind = "socket" THEN SocketClient(clients[id]) ELSE EventClient(clients[id])

IsNext(f, g) ==
  IF f.final THEN g.body > f.body /\ g.from = 0 /\ g.op = "text"
  ELSE g.body = f.body /\ g.from = f.from + f.len /\ g.op = "continuation"

\* The browser of a web socket gets the messages taken for it in order, each in
\* frames that follow one another, the first with its opcode and only the last
\* final; a message that has left the queue was sent to its end.  A message whose
\* head lwIP took and whose data it refused is the exception.
MessagesInOrder(c) ==
  LET queued == {c.messages[i].body : i \in DOMAIN c.messages}
  IN c.refused \/
     /\ \A i \in DOMAIN c.wire : c.wire[i].carried = c.wire[i].len
     /\ Len(c.wire) = 1 => c.wire[1].from = 0 /\ c.wire[1].op = "text"
     /\ Len(c.wire) = 2 => IsNext(c.wire[1], c.wire[2])
     /\ c.taken \ queued \subseteq c.whole

\* The browser of an event source gets the events taken for it in order, none left
\* out, as long as none had to let another pass.
EventsInOrder(c) ==
  LET queued == {c.messages[i].body : i \in DOMAIN c.messages}
  IN c.passed \/
     /\ \A i \in 1..(Len(c.wire) - 1) : c.wire[i] < c.wire[i + 1]
     /\ c.taken \ queued \subseteq ToSet(c.wire)

\* What goes out is in order and complete, and the buffer of a message in a queue
\* has not been deleted.
SentInOrder ==
  \A id \in Client :
    IF kind = "socket"
      THEN /\ MessagesInOrder(clients[id])
           /\ \A b \in 1..calls : Uses(clients[id], b) => b \in buffers
      ELSE EventsInOrder(clients[id])

\* The text of an event has the lines of its message and no others: the characters
\* between the breaks in order, and one empty line, at the end.
EventTexts == UNION {[1..n -> {"a", "cr", "lf"}] : n \in 0..4}
ASSUME EventTextAssumption ==
  \A text \in EventTexts :
    LET lines == Source!EventText(text)
        data == FlattenSeq([i \in 1..(Len(lines) - 1) |-> lines[i][2]])
    IN /\ \A i \in DOMAIN lines : (lines[i] = <<"end">>) <=> (i = Len(lines))
       /\ data = SelectSeq(text, LAMBDA ch : ch = "a")

\* The handler of a web socket hears the bytes of the browser's messages, unmasked
\* and in order, wherever segments cut a frame's bytes, with several frames in one
\* segment and control frames between them.  This needs each head to come whole: once
\* a segment has ended inside one, nothing is promised.  Of the bytes of a control
\* frame it says nothing: those of one in parts reach the handler too.
HeardInOrder ==
  kind = "socket" /\ ~astray =>
    \A id \in Client : clients[id].heard["text"] = clients[id].said

\* Nothing gets stuck: when all that a client sent has been acknowledged, the next
\* poll sends or drops what waits in its queues.  The exceptions: lwIP refused a
\* frame, or a control frame was sent again while its acknowledgement was on its
\* way; the second one is then counted for the message behind, which never finishes.
NeverStuck ==
  \A id \in Client :
    LET c == clients[id]
        idle == c.open /\ c.unacked = 0 /\ c.acks = <<>>
    IN IF kind = "socket"
         THEN idle /\ ~c.crossed /\ ~c.refused /\ (c.controls # <<>> \/ c.messages # <<>>)
                => Socket!OnPoll(c, FALSE, 0, "none") # c
         ELSE idle /\ ~c.passed /\ c.messages # <<>> => Source!OnPoll(c, "none") # c
=============================================================================
