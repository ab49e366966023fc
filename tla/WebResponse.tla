------------------------------ MODULE WebResponse ------------------------------
(***************************************************************************)
(* A response of ESPAsyncWebSrv on its way through the send window of one  *)
(* connection: AsyncBasicResponse, which every page of the application is, *)
(* and AsyncAbstractResponse with the sources it reads from.               *)
(*                                                                         *)
(* lwIP takes what fits the window and gives the room back as the browser  *)
(* acknowledges; the async_tcp task learns of an acknowledgement later, by *)
(* an event, and is polled besides.  What is sent is a sequence of bytes;  *)
(* one unit of length stands for the 8 bytes of a chunk's framing.         *)
(*                                                                         *)
(* The kinds: "basic"; "progmem", a source that has everything; "stream",  *)
(* one of known length that gives what it has; "printed", an               *)
(* AsyncResponseStream the sketch prints to; "json", a document written    *)
(* anew for every buffer; "callback", a function that may answer           *)
(* RESPONSE_TRY_AGAIN; "unknown", the same without a length; "chunked";    *)
(* "template", a file in chunks whose names are replaced.                  *)
(* Sources stay valid and malloc succeeds.                                 *)
(***************************************************************************)
EXTENDS Templates

CONSTANTS Kind,        \* the kinds of response
          HeadLen,     \* length of the head
          MaxContent,  \* bound: length of the content
          MaxWindow,   \* bound: TCP_SND_BUF, at least two units
          Texts,       \* the files of templates
          TextWindows, \* bound: TCP_SND_BUF for them
          MaxEvents    \* bound: acknowledgements the task has yet to learn of

ASSUME KindAssumption == Kind \subseteq 
  {"basic", "progmem", "stream", "printed", "json", "callback", "unknown", "chunked", "template"}
ASSUME BoundAssumption ==
  /\ HeadLen \in Nat \ {0} /\ MaxContent \in Nat /\ MaxWindow \in Nat /\ MaxEvents \in Nat
  /\ TextWindows \subseteq Nat
ASSUME TextAssumption == \A t \in DOMAIN Texts : Texts[t] \in Seq(Character)

VARIABLES
  kind, size,    \* the response and the length of its content, or which file it is
  state,         \* _state
  head,          \* _head, what is left of it
  content,       \* _content, or what the source has not given yet
  ready,         \* what of it the source has at hand
  contentLength, sentLength, ackedLength, writtenLength,
  window,        \* TCP_SND_BUF
  unacked,       \* bytes in the window
  wire,          \* the bytes of the response lwIP has taken
  events,        \* acknowledgements on their way to the task
  up,            \* the connection, and with it the request, exists
  met            \* what happened on the way: see Met

responseVars == <<kind, size, state, head, content, ready, contentLength, sentLength,
                  ackedLength, writtenLength>>
vars == <<responseVars, window, unacked, wire, events, up, met>>

FullHead == [i \in 1..HeadLen |-> <<"head", i>>]
Body == IF kind = "template" THEN Texts[size] ELSE [i \in 1..size |-> <<"body", i>>]

\* A function that gives a length gives one above 0, and so does a document.
Sizes(k) ==
  CASE k = "template" -> DOMAIN Texts
    [] k = "callback" -> 1..MaxContent
    [] k = "json" -> 1..MaxContent
    [] OTHER -> 0..MaxContent
Windows(k) == IF k = "template" THEN TextWindows ELSE 2..MaxWindow
Byte == {"head", "body", "chunk"} \X Nat

\* A write lwIP refused; a head kept back when its content was not ready; a
\* content asked for with no room; two percent signs divided by the end of a
\* buffer, a value cut short, and a name longer than names may be.
Met == {"refused", "held", "full"} \cup Spoilt

\* With templates the length of a file is not known.
Templated == kind = "template"
Chunked == Templated \/ kind = "chunked"
SendContentLength == ~Chunked /\ kind # "unknown"

TypeOK ==
  /\ kind \in Kind /\ size \in Sizes(kind)
  /\ state \in {"setup", "headers", "content", "wait_ack", "end", "deleted"}
  /\ head \in Seq(Byte) /\ content \in Seq(Byte)
  /\ ready \in 0..Len(content)
  /\ contentLength \in 0..(HeadLen + MaxContent)
  /\ sentLength \in IF kind = "template" THEN Nat ELSE 0..MaxContent + HeadLen
  /\ ackedLength \in Nat /\ writtenLength \in 0..Len(wire)
  /\ window \in Windows(kind) /\ unacked \in 0..window
  /\ wire \in Seq(Byte)
  /\ events \in Seq(1..window) /\ Len(events) <= MaxEvents
  /\ up \in BOOLEAN /\ met \subseteq Met

\* The window may still hold the "100 Continue" of the request.
Init ==
  /\ kind \in Kind /\ size \in IF kind = "printed" THEN {0} ELSE Sizes(kind)
  /\ state = "setup" /\ head = FullHead /\ content = Body
  /\ ready \in CASE kind \in {"basic", "template", "printed"} -> {0}
                  [] kind \in {"progmem", "json"} -> {size}
                  [] OTHER -> 0..size
  /\ contentLength = IF SendContentLength THEN size ELSE 0
  /\ sentLength = 0 /\ ackedLength = 0 /\ writtenLength = 0
  /\ window \in Windows(kind) /\ unacked \in 0..window
  /\ wire = <<>> /\ events = <<>> /\ up = TRUE /\ met = {}

-----------------------------------------------------------------------------
(* The connection *)

Space == window - unacked

\* Bound: a file of templates meets no refused write, and its acknowledgements
\* are of one byte or of all.
MayFail == kind # "template"
Acknowledged == IF kind = "template" THEN {1, unacked} ELSE 1..unacked

\* AsyncClient::write: tcp_write may refuse for want of memory, and tcp_output
\* may fail after tcp_write has taken the bytes.
Write(bytes, more) ==
  LET n == Least(Space, Len(bytes))
      taken == wire' = wire \o Upto(bytes, n) /\ unacked' = unacked + n
  IN
  \/ taken /\ writtenLength' = writtenLength + n /\ met' = met \cup more
  \/ n > 0 /\ MayFail /\ taken /\ met' = met \cup more /\ UNCHANGED writtenLength
  \/ n > 0 /\ MayFail /\ met' = met \cup more \cup {"refused"} /\ UNCHANGED <<wire, unacked, writtenLength>>

\* The browser acknowledges; the task will hear of it.
Acknowledge ==
  /\ up /\ unacked > 0 /\ Len(events) < MaxEvents
  /\ \E n \in Acknowledged : unacked' = unacked - n /\ events' = Append(events, n)
  /\ UNCHANGED <<responseVars, window, wire, up, met>>

\* The connection goes, and with it the request and its response.
Disconnect ==
  /\ up /\ up' = FALSE
  /\ state' = "setup" /\ head' = <<>> /\ content' = <<>> /\ ready' = 0
  /\ contentLength' = 0 /\ sentLength' = 0 /\ ackedLength' = 0 /\ writtenLength' = 0
  /\ unacked' = 0 /\ wire' = <<>> /\ events' = <<>> /\ met' = {}
  /\ UNCHANGED <<kind, size, window>>

\* The source of a stream or of a callback gets more to send.
Supply ==
  /\ up /\ kind \in {"stream", "callback", "unknown", "chunked"} /\ ready < Len(content)
  /\ ready' = ready + 1
  /\ UNCHANGED <<kind, size, state, head, content, contentLength, sentLength, ackedLength,
                 writtenLength, window, unacked, wire, events, up, met>>

\* The sketch prints n bytes; once the response is under way it prints in vain.
PrintTo(n) ==
  /\ up /\ kind = "printed" /\ state = "setup" /\ size + n <= MaxContent
  /\ size' = size + n /\ contentLength' = contentLength + n
  /\ content' = content \o [i \in 1..n |-> <<"body", size + i>>] /\ ready' = ready + n
  /\ UNCHANGED <<kind, state, head, sentLength, ackedLength, writtenLength,
                 window, unacked, wire, events, up, met>>

-----------------------------------------------------------------------------
(* AsyncBasicResponse *)

\* _respond, by the room there is: for all, for a part of the head, for the head
\* and a part of the content; with none, or just enough for the head, it waits.
RespondBasic ==
  LET all == FullHead \o content
      shift == Space - HeadLen
  IN
  \/ /\ Space >= HeadLen + contentLength
     /\ Write(all, {}) /\ state' = "wait_ack"
     /\ UNCHANGED <<content, contentLength, sentLength>>
  \/ /\ Space \in 1..(HeadLen - 1)
     /\ Write(Upto(all, Space), {}) /\ state' = "content"
     /\ content' = From(all, Space) /\ contentLength' = contentLength + HeadLen - Space
     /\ UNCHANGED sentLength
  \/ /\ Space \in (HeadLen + 1)..(HeadLen + contentLength - 1)
     /\ Write(Upto(all, Space), {}) /\ state' = "content"
     /\ content' = From(content, shift) /\ sentLength' = sentLength + shift
     /\ UNCHANGED contentLength
  \/ /\ Space \in {0, HeadLen} /\ Space < HeadLen + contentLength
     /\ state' = "content" /\ content' = all /\ contentLength' = contentLength + HeadLen
     /\ UNCHANGED <<sentLength, writtenLength, unacked, wire, met>>

\* What fits is taken from the content whether lwIP takes it or not.
SendRest(available) ==
  /\ Write(Upto(content, available), {})
  /\ content' = <<>> /\ state' = "wait_ack"
  /\ UNCHANGED sentLength

\* Mutant: the length sent counts the whole window.
FillWindowCounted ==
  /\ Write(Upto(content, Space), {})
  /\ content' = From(content, Space) /\ sentLength' = sentLength + window
  /\ UNCHANGED state

\* Mutant: the bytes sent stay in the content.
FillWindowRepeats ==
  /\ Write(Upto(content, Space), {})
  /\ sentLength' = sentLength + Space
  /\ UNCHANGED <<state, content>>

FillWindow ==
  /\ Write(Upto(content, Space), {})
  /\ content' = From(content, Space) /\ sentLength' = sentLength + Space
  /\ UNCHANGED state

\* Mutant: more has to be acknowledged than was written.
AllAckedStrictly == ackedLength' > writtenLength

AllAcked == ackedLength' >= writtenLength

\* _ack
AckBasic ==
  LET available == contentLength - sentLength IN
  IF state = "content"
  THEN IF Space > available THEN SendRest(available) ELSE FillWindow
  ELSE /\ state' = IF AllAcked THEN "end" ELSE state
       /\ UNCHANGED <<content, sentLength, writtenLength, unacked, wire, met>>

-----------------------------------------------------------------------------
(* AsyncAbstractResponse *)

\* The room for content: while _state is RESPONSE_HEADERS the head's share is
\* set apart.
Room(phase) == IF phase = "headers" THEN Space - Len(head) ELSE Space

\* What the source is asked for, and whether it puts the answer off.
Asked(phase) ==
  CASE Chunked -> Room(phase) - 1
    [] kind = "unknown" -> Room(phase)
    [] SendContentLength -> Least(contentLength - sentLength, Room(phase))
TryAgain == kind \in {"callback", "unknown", "chunked"} /\ ready = 0 /\ content # <<>>

HeadPart ==
  /\ Write(Upto(head, Space), {}) /\ head' = From(head, Space) /\ state' = "headers"
  /\ UNCHANGED <<content, ready, sentLength, up>>

\* Too little room for a chunk, or nothing to send yet.
PutOff ==
  /\ state' = "content"
  /\ met' = IF head # <<>> THEN met \cup {"held"} ELSE met
  /\ UNCHANGED <<head, content, ready, sentLength, writtenLength, unacked, wire, up>>

\* What the source gives: bytes, what is left of it and what went wrong.
GivenByMemory(n) ==
  IF Len(content) > n THEN Buffer(Upto(content, n), From(content, n), {}) ELSE Buffer(content, <<>>, {})

GivenByStream(n) == LET k == Least(n, ready) IN Buffer(Upto(content, k), From(content, k), {})

\* ChunkPrint: of the whole document, written again, the part behind what was sent.
WriteChunk(text, from, len) == [i \in 1..Least(len, Len(text) - from) |-> text[from + i]]

GivenByJson(n) == Buffer(WriteChunk(Body, sentLength, n), From(content, n), {})

Given(n) ==
  CASE kind = "template" -> FillTemplates(content, n)
    [] kind \in {"progmem", "printed"} -> GivenByMemory(n)
    [] kind = "json" -> GivenByJson(n)
    [] OTHER -> GivenByStream(n)

Fill(phase) ==
  \E given \in {Given(Asked(phase))} :
    LET n == Len(given.data)
        frame == IF Chunked THEN <<<<"chunk", n>>>> ELSE <<>>
        out == head \o frame \o given.data
        last == \/ Chunked /\ n = 0
                \/ ~SendContentLength /\ out = <<>>
                \/ ~Chunked /\ sentLength + n = contentLength
    IN
    /\ head' = <<>> /\ content' = given.rest /\ ready' = IF kind = "template" THEN 0 ELSE ready - n
    /\ sentLength' = sentLength + n
    /\ state' = IF last THEN "wait_ack" ELSE "content"
    /\ Write(out, (IF Room(phase) = 0 THEN {"full"} ELSE {}) \cup given.met)
    /\ UNCHANGED up

\* A response without a length ends by closing the connection.
AwaitAck ==
  LET ends == ~SendContentLength \/ AllAcked IN
  /\ state' = IF ends THEN "end" ELSE state
  /\ up' = ~(ends /\ kind = "unknown")
  /\ UNCHANGED <<head, content, ready, sentLength, writtenLength, unacked, wire, met>>

\* _ack
AckAbstract(phase) ==
  IF phase = "wait_ack" THEN AwaitAck
  ELSE IF phase = "headers" /\ Space < Len(head) THEN HeadPart
  ELSE IF (Chunked /\ Room(phase) <= 1) \/ TryAgain THEN PutOff
  ELSE Fill(phase)

-----------------------------------------------------------------------------
(* The request *)

\* send: _respond of either class; that of AsyncAbstractResponse ends in _ack.
Respond ==
  /\ up /\ state = "setup"
  /\ IF kind = "basic" THEN RespondBasic /\ UNCHANGED <<head, ready, up>>
     ELSE AckAbstract("headers") /\ UNCHANGED contentLength
  /\ UNCHANGED <<kind, size, ackedLength, window, events>>

Ack(len) ==
  /\ ackedLength' = ackedLength + len
  /\ IF kind = "basic" THEN AckBasic /\ UNCHANGED <<head, ready, up>> ELSE AckAbstract(state)
  /\ UNCHANGED <<kind, size, contentLength, window>>

Finished == state \in {"end", "deleted"}

\* _onAck
OnAck ==
  /\ up /\ events # <<>> /\ state # "setup" /\ ~Finished
  /\ Ack(Head(events)) /\ events' = Tail(events)

OnAckFinished ==
  /\ up /\ events # <<>> /\ Finished
  /\ state' = "deleted" /\ events' = Tail(events)
  /\ UNCHANGED <<kind, size, head, content, ready, contentLength, sentLength, ackedLength,
                 writtenLength, window, unacked, wire, up, met>>

\* _onPoll
OnPoll ==
  /\ up /\ state # "setup" /\ ~Finished /\ Space > 0
  /\ Ack(0) /\ UNCHANGED events

Next ==
  \/ Acknowledge \/ Disconnect \/ Supply \/ \E n \in 1..MaxContent : PrintTo(n)
  \/ Respond \/ OnAck \/ OnAckFinished \/ OnPoll

Spec == Init /\ [][Next]_vars

\* The browser acknowledges and the source delivers; AsyncTCP delivers events
\* and polls.
Fairness == WF_vars(Acknowledge) /\ WF_vars(Supply) /\ WF_vars(Respond)
            /\ WF_vars(OnAck) /\ WF_vars(OnPoll)
FairSpec == Spec /\ Fairness

-----------------------------------------------------------------------------
(* Properties *)

\* The chunks of the wire are each followed by what they announce, and the
\* content begins with one.
Framed ==
  /\ Len(wire) > HeadLen => wire[HeadLen + 1][1] = "chunk"
  /\ \A i \in DOMAIN wire : wire[i][1] = "chunk" =>
       LET next == i + wire[i][2] + 1 IN
       /\ next <= Len(wire) + 1
       /\ \A j \in (i + 1)..(next - 1) : wire[j][1] = "body"
       /\ next <= Len(wire) => wire[next][1] = "chunk"

\* What the browser puts together: the bytes without the chunks' framing.
Plain(bytes) ==
  LET plain[n \in 0..Len(bytes)] ==
        IF n = 0 THEN <<>>
        ELSE IF bytes[n][1] = "chunk" THEN plain[n - 1] ELSE Append(plain[n - 1], bytes[n])
  IN plain[Len(bytes)]

Told == IF kind = "template" THEN Expanded[Body] ELSE Body

\* Head and content reach lwIP in order, each byte once, however the window
\* cuts them, and all of them before the response waits for its last
\* acknowledgement; the templates of a file are replaced, whole, wherever the
\* buffers divide them.  Some things spoil it: a write lwIP refuses; a head held
\* back until its content is ready, whose length is forgotten when content is asked
\* for; without a length, content asked for with the window full, which is taken
\* for the end of the source; a doubled percent sign at the end of a buffer; a
\* value that neither fits nor has anything behind it; a name beyond the limit.
StreamIntact ==
  LET plain == Plain(wire) IN
  met \subseteq (IF kind = "unknown" THEN {} ELSE {"full"}) =>
    /\ IsPrefix(plain, FullHead \o Told)
    /\ Chunked => Framed
    /\ state \in {"wait_ack", "end", "deleted"} => plain = FullHead \o Told

\* A response that was begun ends, unless the browser goes: no acknowledgement
\* it waits for was counted away, and a full window does not stop it.
ResponseEnds == (up /\ state # "setup") ~> (~up \/ Finished)
=============================================================================
