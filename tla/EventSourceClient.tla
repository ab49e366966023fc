-------------------------- MODULE EventSourceClient --------------------------
(***************************************************************************)
(* One AsyncEventSourceClient: the events queued for a browser, which go   *)
(* whole into the send window of its connection, and the acknowledgements  *)
(* counted against them, front first; and the text of an event.            *)
(*                                                                         *)
(* A client is a record, Gone once deleted.  The wire is the sequence of   *)
(* events lwIP took; the text of a message is a sequence over "cr", "lf"   *)
(* and other characters.                                                   *)
(***************************************************************************)
EXTENDS Integers, Sequences, SequencesExt

CONSTANTS SndBuf,    \* TCP_SND_BUF
          MaxEvents, \* SSE_MAX_QUEUED_MESSAGES
          Gone       \* no client, or one deleted

\* AsyncClient::space, canSend and connected.
Space(c) == IF c.open THEN SndBuf - c.unacked ELSE 0
CanSend(c) == Space(c) > 0
Connected(c) == c.open

-----------------------------------------------------------------------------
(* AsyncEventSourceMessage *)

Event(body, len) == [body |-> body, len |-> len, sent |-> 0, acked |-> 0]
Finished(m) == m.acked = m.len
Sent(m) == m.sent = m.len

\* ack: what is left for the events behind.
Ack(m, len) ==
  IF m.acked + len > m.len THEN [m |-> [m EXCEPT !.acked = m.len], extra |-> m.acked + len - m.len]
  ELSE [m |-> [m EXCEPT !.acked = @ + len], extra |-> 0]

\* send: all of it or nothing.  An event that has to wait lets those behind pass.
Send(c, i, fault) ==
  LET m == c.messages[i]
      len == m.len - m.sent
      add == len > 0 /\ fault # "data"
  IN IF Space(c) < len THEN [c EXCEPT !.passed = TRUE]
     ELSE [c EXCEPT !.messages[i].sent = IF add THEN @ + len ELSE @,
                    !.unacked = IF add THEN @ + len ELSE @,
                    !.wire = IF add THEN Append(@, m.body) ELSE @,
                    !.passed = @ \/ ~add]

-----------------------------------------------------------------------------
(* The queue *)

DropFinished(c) ==
  LET first == SelectInSeq(c.messages, LAMBDA m : ~Finished(m))
  IN [c EXCEPT !.messages = IF first = 0 THEN <<>> ELSE SubSeq(@, first, Len(@))]

SendUpTo(c, fault) ==
  LET After[i \in 0..Len(c.messages)] ==
        IF i = 0 THEN c
        ELSE IF Sent(After[i - 1].messages[i]) THEN After[i - 1] ELSE Send(After[i - 1], i, fault)
  IN After

RunQueue(c, fault) == LET d == DropFinished(c) IN SendUpTo(d, fault)[Len(d.messages)]

\* _queueMessage: an event too many is deleted.
QueueMessage(c, m, fault) ==
  LET queued == [c EXCEPT !.messages = Append(@, m), !.taken = @ \cup {m.body}]
      d == IF Len(c.messages) >= MaxEvents THEN c ELSE queued
  IN IF ~Connected(c) THEN c ELSE IF CanSend(d) THEN RunQueue(d, fault) ELSE d

\* What is left of an acknowledgement, and of the queue, when n events have had
\* their part.
CreditUpTo(c, len) ==
  LET After[n \in 0..Len(c.messages)] ==
        LET queue == After[n - 1].queue
            r == Ack(Head(queue), After[n - 1].len)
        IN IF n = 0 THEN [queue |-> c.messages, len |-> len]
           ELSE IF After[n - 1].len = 0 \/ queue = <<>> THEN After[n - 1]
           ELSE [queue |-> IF Finished(r.m) THEN Tail(queue) ELSE [queue EXCEPT ![1] = r.m],
                 len |-> r.extra]
  IN After

Credit(c, len) == [c EXCEPT !.messages = CreditUpTo(c, len)[Len(c.messages)].queue]

OnAck(c, len, fault) == RunQueue(Credit(c, len), fault)

OnPoll(c, fault) == IF c.messages # <<>> THEN RunQueue(c, fault) ELSE c

\* close(): the callback of AsyncClient::close deletes the client, or has yet to.
Close(c) == IF c.open THEN Gone ELSE c

NewClient(left) ==
  [open |-> TRUE, unacked |-> left, acks |-> <<>>, wire |-> <<>>, messages |-> <<>>,
   taken |-> {}, passed |-> left > 0]

-----------------------------------------------------------------------------
(* The text of an event *)

Breaks == {"cr", "lf"}

\* Where the line that starts at i ends, and where the next one starts: the two
\* break characters in a row, in either order, are one break.
LineEnd(text, i) ==
  LET breaks == {j \in i..Len(text) : text[j] \in Breaks}
  IN CHOOSE j \in breaks : \A k \in breaks : j <= k

NextLine(text, i) ==
  LET end == LineEnd(text, i)
      other == {j \in i..Len(text) : text[j] \in Breaks \ {text[end]}}
  IN IF end + 1 \in other THEN end + 2 ELSE end + 1

\* generateEventMessage for the message of an event: one "data" line for each of
\* its lines, and the empty line that ends the event.
EventText(text) ==
  LET DataLines[i \in 1..(Len(text) + 1)] ==
        IF \A j \in i..Len(text) : text[j] \notin Breaks
          THEN << <<"data", SubSeq(text, i, Len(text))>>, <<"end">> >>
        ELSE LET line == << <<"data", SubSeq(text, i, LineEnd(text, i) - 1)>> >>
                 next == NextLine(text, i)
             IN line \o (IF next > Len(text) THEN << <<"end">> >> ELSE DataLines[next])
  IN DataLines[1]
=============================================================================
