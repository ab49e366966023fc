--------------------------- MODULE WebSocketClient ---------------------------
(***************************************************************************)
(* One AsyncWebSocketClient: its queues of control frames and of messages, *)
(* the frames it puts into the send window of its connection, the          *)
(* acknowledgements it counts against them, and the frames it takes apart. *)
(*                                                                         *)
(* A client is a record, Gone once deleted.  The bytes of a message are    *)
(* numbered; of a frame on the wire its opcode, its final bit and the      *)
(* bytes it announces and carries are kept.  Frames out are unmasked, as   *)
(* text() and binary() make them, and those in are masked.  Extended       *)
(* lengths are those of 16 bits.  lwIP may refuse a frame: its head, its   *)
(* data when the head is already queued, or the tcp_output of both.        *)
(***************************************************************************)
EXTENDS Integers, Sequences, SequencesExt

CONSTANTS SndBuf,    \* TCP_SND_BUF
          ShortLen,  \* 126: payloads from here on need an extended length
          MaxQueued, \* WS_MAX_QUEUED_MESSAGES
          SizeT,     \* 2^32: size_t wraps
          Gone       \* no client, or one deleted

Fault == {"none", "head", "data", "output"}

Least(m, n) == IF m < n THEN m ELSE n

-----------------------------------------------------------------------------
(* The connection *)

\* AsyncClient::space and canSend: nothing fits a connection that is not
\* established any more.
Space(c) == IF c.open THEN SndBuf - c.unacked ELSE 0
CanSend(c) == Space(c) > 0

FrameWindow(c) == IF Space(c) < 9 THEN 0 ELSE Space(c) - 8

HeadLen(len) == IF len < ShortLen THEN 2 ELSE 4

\* A frame, with the bytes it announces and carries once it is sent.
Frame(op, final, body, from) ==
  [op |-> op, final |-> final, body |-> body, from |-> from, len |-> 0, carried |-> 0]

\* The wire is kept as its last two frames of messages and what they complete.
Record(c, frame) ==
  IF frame.body = 0 THEN c
  ELSE [c EXCEPT !.wire = Append(IF @ = <<>> THEN @ ELSE <<Last(@)>>, frame),
                 !.whole = IF frame.final THEN @ \cup {frame.body} ELSE @]

\* webSocketSendFrame: the client, and how many bytes of data it reports sent.
SendFrame(c, frame, len, fault) ==
  LET head == HeadLen(len)
      n == Least(len, Space(c) - head)
      Put(carried) == [Record(c, [frame EXCEPT !.len = n, !.carried = carried])
                         EXCEPT !.unacked = @ + head + carried]
  IN CASE Space(c) < head -> [c |-> c, n |-> 0]
       [] Space(c) >= head /\ fault = "none" -> [c |-> Put(n), n |-> n]
       [] Space(c) >= head /\ fault = "head" -> [c |-> [c EXCEPT !.crossed = TRUE], n |-> 0]
       [] Space(c) >= head /\ fault = "data" ->
            [c |-> [Put(0) EXCEPT !.refused = TRUE], n |-> 0]
       [] OTHER -> [c |-> [Put(n) EXCEPT !.refused = TRUE], n |-> 0]

-----------------------------------------------------------------------------
(* Messages: "basic" with bytes of its own, "multi" with those of a buffer *)

Message(kind, body, len) ==
  [kind |-> kind, body |-> body, len |-> len, sent |-> 0, ack |-> 0, acked |-> 0,
   status |-> "sending"]

\* A text is copied; of a buffer the message has the address, and its count.
BasicMessage(body, len) == Message("basic", body, len)
MultiMessage(buffer, len) == Message("multi", buffer, len)

BetweenFrames(m) == m.acked = m.ack
Finished(m) == m.status # "sending"

\* AsyncWebSocketBasicMessage::ack
AckBasic(m, len) ==
  LET acked == (m.acked + len) % SizeT
  IN [m EXCEPT !.acked = acked,
               !.status = IF m.sent = m.len /\ acked = m.ack THEN "sent" ELSE @]

\* AsyncWebSocketMultiMessage::ack
AckMulti(m, len) ==
  LET acked == (m.acked + len) % SizeT
  IN [m EXCEPT !.acked = acked,
               !.status = IF m.sent >= m.len /\ acked >= m.ack THEN "sent" ELSE @]

AckMessage(m, len) == IF m.kind = "basic" THEN AckBasic(m, len) ELSE AckMulti(m, len)

\* Mutant: the frame that is cut short is counted whole.
SendNextWhole(c, fault) ==
  LET m == Head(c.messages)
      toSend == Least(m.len - m.sent, FrameWindow(c))
      r == SendFrame(c, Frame(IF m.sent = 0 THEN "text" ELSE "continuation",
                              m.sent + toSend = m.len, m.body, m.sent),
                     toSend, fault)
  IN [r.c EXCEPT !.messages[1].sent = m.len, !.messages[1].ack = @ + r.n + HeadLen(toSend)]

\* The next frame of the message at the front of the queue, as much as the window
\* takes.  What was not sent is taken back from _sent and _ack, the head is not.
SendNext(c, fault) ==
  LET m == Head(c.messages)
      toSend == Least(m.len - m.sent, FrameWindow(c))
      r == SendFrame(c, Frame(IF m.sent = 0 THEN "text" ELSE "continuation",
                              m.sent + toSend = m.len, m.body, m.sent),
                     toSend, fault)
  IN [r.c EXCEPT !.messages[1].sent = @ + r.n, !.messages[1].ack = @ + r.n + HeadLen(toSend)]

\* AsyncWebSocketBasicMessage::send
SendBasic(c, fault) ==
  LET m == Head(c.messages)
  IN CASE Finished(m) \/ m.acked < m.ack -> c
       [] ~Finished(m) /\ m.acked >= m.ack /\ m.sent < m.len -> SendNext(c, fault)
       [] OTHER -> [c EXCEPT !.messages[1].status = IF m.acked = m.ack THEN "sent" ELSE @]

\* AsyncWebSocketMultiMessage::send
SendMulti(c, fault) ==
  LET m == Head(c.messages)
  IN CASE Finished(m) \/ m.acked < m.ack -> c
       [] ~Finished(m) /\ m.acked >= m.ack /\ m.sent < m.len -> SendNext(c, fault)
       [] OTHER -> [c EXCEPT !.messages[1].status = "sent"]

SendMessage(c, fault) ==
  IF Head(c.messages).kind = "basic" THEN SendBasic(c, fault) ELSE SendMulti(c, fault)

-----------------------------------------------------------------------------
(* Control frames *)

\* AsyncWebSocketControl: at most 125 bytes of data.
Control(op, len) == [op |-> op, len |-> Least(len, ShortLen - 1), finished |-> FALSE]
ControlLen(control) == control.len + 2

\* Sent once more while it waits for its acknowledgement: crossed.
SendControl(c, fault) ==
  LET control == Head(c.controls)
  IN [SendFrame(c, Frame(control.op, TRUE, 0, 0), control.len, fault).c EXCEPT
        !.controls[1].finished = TRUE, !.crossed = @ \/ control.finished]

-----------------------------------------------------------------------------
(* The queues *)

DropFinished(c) ==
  LET first == SelectInSeq(c.messages, LAMBDA m : ~Finished(m))
  IN [c EXCEPT !.messages = IF first = 0 THEN <<>> ELSE SubSeq(@, first, Len(@))]

\* A control frame goes first, but never between the frames of a message in flight.
RunQueue(client, fault) ==
  LET c == DropFinished(client)
      clear == c.messages = <<>> \/ BetweenFrames(Head(c.messages))
  IN CASE c.controls # <<>> /\ clear /\ FrameWindow(c) > ControlLen(Head(c.controls)) - 1 ->
            SendControl(c, fault)
       [] ~(c.controls # <<>> /\ clear /\ FrameWindow(c) > ControlLen(Head(c.controls)) - 1)
          /\ c.messages # <<>> /\ clear /\ FrameWindow(c) > 0 -> SendMessage(c, fault)
       [] OTHER -> c

RunIfCanSend(c, fault) == IF CanSend(c) THEN RunQueue(c, fault) ELSE c

\* Mutant: one message more than the queue holds.
QueueMessageOneMore(c, m, fault) ==
  IF c.status # "connected" THEN c
  ELSE RunIfCanSend(IF Len(c.messages) > MaxQueued THEN c
                    ELSE [c EXCEPT !.messages = Append(@, m)], fault)

\* _queueMessage: a message too many is deleted; an empty one is queued and never
\* sent.
QueueMessage(c, m, fault) ==
  LET queued == [c EXCEPT !.messages = Append(@, m),
                          !.taken = IF m.len = 0 THEN @ ELSE @ \cup {m.body}]
  IN IF c.status # "connected" THEN c
     ELSE RunIfCanSend(IF Len(c.messages) >= MaxQueued THEN c ELSE queued, fault)

QueueControl(c, control, fault) ==
  RunIfCanSend([c EXCEPT !.controls = Append(@, control)], fault)

\* close() leaves the status as it is.
Close(c, len, fault) ==
  IF c.status # "connected" THEN c ELSE QueueControl(c, Control("close", len), fault)

Ping(c, len, fault) ==
  IF c.status # "connected" THEN c ELSE QueueControl(c, Control("ping", len), fault)

-----------------------------------------------------------------------------
(* The callbacks *)

\* AsyncClient::close: the client is deleted by the callback within, or later,
\* by that of a connection which has gone already.
CloseConnection(c) == IF c.open THEN Gone ELSE c

\* Mutant: what acknowledges the control frame counts for the message as well.
OnAckBoth(client, len, fault) ==
  LET control == Head(client.controls)
      answered == client.controls # <<>> /\ control.finished
      c == IF answered THEN [client EXCEPT !.controls = Tail(@)] ELSE client
  IN IF answered /\ client.status = "disconnecting" /\ control.op = "close"
       THEN CloseConnection([c EXCEPT !.status = "disconnected"])
       ELSE RunQueue(IF c.messages # <<>> THEN [c EXCEPT !.messages[1] = AckMessage(@, len)]
                     ELSE c, fault)

\* The close frame of a client on its way out is acknowledged.
Leaves(c) ==
  /\ c.controls # <<>> /\ Head(c.controls).finished
  /\ c.status = "disconnecting" /\ Head(c.controls).op = "close"

\* _onAck: a control frame in flight takes its length of what is acknowledged, all
\* of it or not; the message in front takes the rest.
OnAck(client, len, fault) ==
  LET control == Head(client.controls)
      answered == client.controls # <<>> /\ control.finished
      rest == IF answered THEN len - ControlLen(control) ELSE len
      c == IF answered THEN [client EXCEPT !.controls = Tail(@), !.crossed = @ \/ rest < 0]
           ELSE client
  IN IF Leaves(client) THEN CloseConnection([c EXCEPT !.status = "disconnected"])
       ELSE RunQueue(IF rest # 0 /\ c.messages # <<>>
                       THEN [c EXCEPT !.messages[1] = AckMessage(@, rest)] ELSE c, fault)

\* _onPoll; keepAlive holds when the period is set and has passed.
OnPoll(c, keepAlive, pingLen, fault) ==
  IF CanSend(c) /\ (c.controls # <<>> \/ c.messages # <<>>) THEN RunQueue(c, fault)
  ELSE IF keepAlive /\ c.controls = <<>> /\ c.messages = <<>> THEN Ping(c, pingLen, fault)
  ELSE c

\* Mutant: a piece is unmasked as if it were the first of its frame.
UnmaskFromStart(index, i) == i % 4

\* The byte of the mask for byte i of a piece.
Unmask(index, i) == (index + i) % 4

\* One turn of the loop in _onData: the bytes of a frame that a segment brings, with
\* the whole head if they are the first.  Byte j of a frame was masked with byte
\* j % 4 of the mask.  A frame in parts goes to the handler whatever its opcode.
OnData(client, frame, take, fault) ==
  LET info == IF client.parsing THEN client.info
              ELSE [n |-> frame.n, op |-> frame.op, len |-> frame.len, index |-> 0]
      n == Least(info.len - info.index, take)
      bytes == [i \in 1..n |->
                 IF Unmask(info.index, i - 1) = (frame.at + i - 1) % 4
                   THEN <<frame.n, frame.at + i>> ELSE <<frame.n, 0>>]
      hear == [client EXCEPT !.heard[info.op] = @ \o bytes,
                             !.info = [info EXCEPT !.index = @ + n]]
      quiet == [client EXCEPT !.info = info, !.parsing = FALSE]
  IN CASE n + info.index < info.len -> [hear EXCEPT !.parsing = TRUE]
       [] n + info.index >= info.len /\ info.op = "close" /\ client.status = "disconnecting" ->
            CloseConnection([quiet EXCEPT !.status = "disconnected"])
       [] n + info.index >= info.len /\ info.op = "close" /\ client.status # "disconnecting" ->
            QueueControl([quiet EXCEPT !.status = "disconnecting"], Control("close", n), fault)
       [] n + info.index >= info.len /\ info.op = "ping" ->
            QueueControl(quiet, Control("pong", n), fault)
       [] n + info.index >= info.len /\ info.op = "pong" -> quiet
       [] OTHER -> [hear EXCEPT !.info = info, !.parsing = FALSE]

-----------------------------------------------------------------------------
(* The constructor: the acknowledgement of the response that makes a client     *)
(* may leave a part of its head in the window                                   *)

NoFrame == [n |-> 0, op |-> "text", len |-> 0, index |-> 0]

NewClient(left) ==
  [status |-> "connected", open |-> TRUE, unacked |-> left, acks |-> <<>>, wire |-> <<>>, whole |-> {},
   controls |-> <<>>, messages |-> <<>>, taken |-> {},
   frames |-> 0, frame |-> [n |-> 0, op |-> "text", len |-> 0, at |-> 0],
   info |-> NoFrame, parsing |-> FALSE, said |-> <<>>,
   heard |-> [op \in {"text", "close", "ping", "pong"} |-> <<>>],
   crossed |-> left > 0, refused |-> FALSE]
=============================================================================
