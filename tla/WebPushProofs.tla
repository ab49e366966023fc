---------------------------- MODULE WebPushProofs ----------------------------
(****************************************************************************)
(* Proofs about the push channels of the web server: WebPush over           *)
(* WebSocketClient and EventSourceClient.                                   *)
(*                                                                          *)
(* The handlers walk their queues in loops, which the model writes as       *)
(* functions over 0..N.  LEMMA Recursion shows that such a function exists  *)
(* and unfolds, LEMMA Induction carries a property along it.                *)
(*                                                                          *)
(* A socket (Good): what went onto the wire, followed by what is still to   *)
(* be sent of the message in front, is what the queued messages say, in the *)
(* order of their calls, each byte once.  What is heard of a text is what   *)
(* was said of it (HeardOK).  Its books are even (Paid, Even): unless it is *)
(* in trouble, what is in the window and what is acknowledged but not yet   *)
(* heard of are what the front message and the control frame in front of    *)
(* the queue have not been credited with, so that an idle client never      *)
(* waits for an acknowledgement that will not come (SocketGoesOn).          *)
(*                                                                          *)
(* An event source: the bytes handed to the connection are those that were  *)
(* queued (Told), and the acknowledgements credited to the queue and those  *)
(* still under way make up what was sent of it (Flow, AckSum).              *)
(*                                                                          *)
(* IInv puts the two together for every client; there is one Step lemma per *)
(* action of Next.                                                          *)
(****************************************************************************)
EXTENDS WebPush, SequenceTheorems, NaturalsInduction, WellFoundedInduction, TLAPS

(* Induction and recursion over 0..N *)

LEMMA Induction ==
  ASSUME NEW N \in Nat, NEW S, 0 \in S, \A k \in 1..N : k - 1 \in S => k \in S
  PROVE  \A k \in 0..N : k \in S
<1> DEFINE R == OpToRel(<, Nat)
           T == {k \in 0..N : k \notin S}
<1>1. IsWellFoundedOn(R, Nat)
  BY NatLessThanWellFounded
<1>2. \A x, y \in Nat : <<x, y>> \in R <=> x < y
  BY DEF OpToRel
<1>3. T \subseteq Nat
  BY DEF T
<1> HIDE DEF R, T
<1>4. CASE T # {}
  <2>1. PICK x \in T : \A y \in T : <<y, x>> \notin R
    BY <1>1, <1>3, <1>4, WFMin
  <2>2. x \in 1..N /\ x - 1 \in 0..N /\ x \notin S
    BY DEF T
  <2>3. x - 1 \in T
    BY <2>2 DEF T
  <2>4. x \in Nat /\ x - 1 \in Nat /\ x - 1 < x
    BY <2>2
  <2>5. <<x - 1, x>> \in R
    BY <1>2, <2>4
  <2> QED BY <2>1, <2>3, <2>5
<1> QED BY <1>4 DEF T

IsStep(step, N, V) == step \in [(1..N) \X V -> V]
IsIteration(h, N, V, base, step) ==
  h \in [0..N -> V] /\ h[0] = base /\ \A k \in 1..N : h[k] = step[<<k, h[k - 1]>>]

LEMMA Recursion ==
  ASSUME NEW V, NEW N \in Nat, NEW base \in V, NEW step, IsStep(step, N, V)
  PROVE  \E h : IsIteration(h, N, V, base, step)
<1>0. step \in [(1..N) \X V -> V]
  BY DEF IsStep
<1> DEFINE S == {n \in Nat : \E h \in [0..n -> V] :
                   h[0] = base /\ \A k \in 1..n : h[k] = step[<<k, h[k - 1]>>]}
<1>1. 0 \in S
  <2> DEFINE g == [k \in 0..0 |-> base]
  <2>1. g \in [0..0 -> V] /\ g[0] = base /\ \A k \in 1..0 : g[k] = step[<<k, g[k - 1]>>]
    OBVIOUS
  <2> QED BY <2>1
<1>2. ASSUME NEW k \in 1..N, k - 1 \in S PROVE k \in S
  <2>1. PICK h \in [0..(k - 1) -> V] :
          h[0] = base /\ \A j \in 1..(k - 1) : h[j] = step[<<j, h[j - 1]>>]
    BY <1>2
  <2> DEFINE g == [j \in 0..k |-> IF j = k THEN step[<<k, h[k - 1]>>] ELSE h[j]]
  <2>2. step[<<k, h[k - 1]>>] \in V
    <3>1. h[k - 1] \in V
      OBVIOUS
    <3> QED BY <1>0, <3>1
  <2>3. g \in [0..k -> V]
    BY <2>2
  <2>4. g[0] = base /\ g[k] = step[<<k, g[k - 1]>>]
    <3>1. g[0] = h[0] /\ g[k - 1] = h[k - 1] /\ g[k] = step[<<k, h[k - 1]>>]
      OBVIOUS
    <3> QED BY <2>1, <3>1
  <2>5. ASSUME NEW j \in 1..k, j # k PROVE g[j] = step[<<j, g[j - 1]>>]
    <3>1. j \in 1..(k - 1) /\ j \in 0..k /\ j - 1 \in 0..k /\ j - 1 # k
      BY <2>5
    <3>2. g[j] = h[j] /\ g[j - 1] = h[j - 1]
      BY <3>1
    <3> QED BY <2>1, <3>1, <3>2
  <2> HIDE DEF g
  <2>6. \A j \in 1..k : g[j] = step[<<j, g[j - 1]>>]
    BY <2>4, <2>5
  <2>7. \E f \in [0..k -> V] : f[0] = base /\ \A j \in 1..k : f[j] = step[<<j, f[j - 1]>>]
    BY <2>3, <2>4, <2>6
  <2> QED BY <2>7
<1> HIDE DEF S
<1>3. \A k \in 0..N : k \in S
  BY <1>1, <1>2, Induction
<1>4. N \in S
  BY <1>3
<1> QED BY <1>4 DEF S, IsIteration
-----------------------------------------------------------------------------
\* Sequences of one and of two.
LEMMA One ==
  ASSUME NEW x
  PROVE  Len(<<x>>) = 1 /\ DOMAIN <<x>> = {1} /\ <<x>>[1] = x /\ <<x>> # <<>>
<1>1. Len(<<x>>) = 1
  OBVIOUS
<1>2. <<x>>[1] = x
  OBVIOUS
<1>3. DOMAIN <<x>> = 1..1
  OBVIOUS
<1>4. <<x>> # <<>>
  OBVIOUS
<1> QED BY <1>1, <1>2, <1>3, <1>4

LEMMA Two ==
  ASSUME NEW x, NEW y
  PROVE  /\ Append(<<x>>, y) = <<x, y>>
         /\ Len(<<x, y>>) = 2 /\ DOMAIN <<x, y>> = {1, 2}
         /\ <<x, y>>[1] = x /\ <<x, y>>[2] = y /\ <<x, y>> # <<>>
<1>1. Len(<<x, y>>) = 2
  OBVIOUS
<1>2. <<x, y>>[1] = x /\ <<x, y>>[2] = y
  OBVIOUS
<1>3. DOMAIN <<x, y>> = 1..2
  OBVIOUS
<1>4. <<x, y>> # <<>>
  OBVIOUS
<1>5. Append(<<x>>, y) = <<x, y>>
  <2>1. <<x>> \in Seq({x, y}) /\ <<x, y>> \in Seq({x, y})
    OBVIOUS
  <2> DEFINE s == Append(<<x>>, y)
             t == <<x, y>>
  <2>2. s \in Seq({x, y}) /\ Len(s) = 2 /\ s[1] = x /\ s[2] = y
    BY <2>1, AppendProperties
  <2>3. t \in Seq({x, y}) /\ Len(t) = 2 /\ t[1] = x /\ t[2] = y
    BY <1>1, <1>2, <2>1
  <2> HIDE DEF s, t
  <2>4. Len(s) = Len(t) /\ \A i \in 1..Len(s) : s[i] = t[i]
    BY <2>2, <2>3
  <2>5. s = t
    BY <2>2, <2>3, <2>4, SeqEqual
  <2> QED BY <2>5 DEF s, t
<1> QED BY <1>1, <1>2, <1>3, <1>4, <1>5

\* The fields of a message.
LEMMA MessageHas ==
  ASSUME NEW m \in Message
  PROVE  /\ m.kind \in {"basic", "multi"} /\ m.status \in {"sending", "sent"}
         /\ m.body \in Nat /\ m.body # 0 /\ m.len \in Nat /\ m.sent \in Nat /\ m.ack \in Nat /\ m.acked \in 0..SizeT
BY PushAssumption DEF Message

Op == {"text", "close", "ping", "pong"}
FrameType == [op : Op \cup {"continuation"}, final : BOOLEAN, body : Nat, from : Nat, len : Nat, carried : Nat]
ControlType == [op : Op, len : Nat, finished : BOOLEAN]
PieceType == [n : Nat, op : Op, len : Nat, at : Nat]
InfoType == [n : Nat, op : Op, len : Nat, index : Nat]
Bytes == Seq(Nat \X Nat)

SocketType ==
  [status : {"connected", "disconnecting", "disconnected"}, open : BOOLEAN, unacked : 0..SndBuf,
   acks : Seq(1..SndBuf), wire : Seq(FrameType), whole : SUBSET Nat,
   controls : Seq(ControlType), messages : Seq(Message), taken : SUBSET Nat,
   frames : Nat, frame : PieceType, info : InfoType, parsing : BOOLEAN,
   said : Bytes, heard : [Op -> Bytes], crossed : BOOLEAN, refused : BOOLEAN]

\* What sending leaves alone.
Idle(c, d) ==
  /\ d.open = c.open /\ d.acks = c.acks /\ d.frames = c.frames /\ d.frame = c.frame /\ d.info = c.info
  /\ d.parsing = c.parsing /\ d.said = c.said /\ d.heard = c.heard

\* What putting a frame into the window leaves alone.
Quiet(c, d) ==
  /\ Idle(c, d) /\ d.messages = c.messages /\ d.controls = c.controls
  /\ d.status = c.status /\ d.taken = c.taken

\* A frame of a message is on the wire; a control frame is not kept.
OnWire(c, d, f) ==
  /\ f.body = 0 => (d.wire = c.wire /\ d.whole = c.whole)
  /\ f.body # 0 => (d.wire = Append(IF c.wire = <<>> THEN c.wire ELSE <<Socket!Last(c.wire)>>, f))
  /\ f.body # 0 => (d.whole = IF f.final THEN c.whole \cup {f.body} ELSE c.whole)

\* Keeping a frame changes nothing but the wire.
LEMMA RecordType ==
  ASSUME NEW c \in SocketType, NEW f \in FrameType, NEW d, d = Socket!Record(c, f)
  PROVE  /\ d \in SocketType /\ Quiet(c, d) /\ OnWire(c, d, f)
         /\ d.refused = c.refused /\ d.crossed = c.crossed /\ d.unacked = c.unacked
<1> DEFINE w == Append(IF c.wire = <<>> THEN c.wire ELSE <<Socket!Last(c.wire)>>, f)
           h == IF f.final THEN c.whole \cup {f.body} ELSE c.whole
<1>1. w \in Seq(FrameType)
  <2>1. c.wire \in Seq(FrameType)
    BY DEF SocketType
  <2>2. CASE c.wire = <<>>
    BY <2>1, <2>2
  <2>3. CASE c.wire # <<>>
    <3>1. Socket!Last(c.wire) \in FrameType
      BY <2>1, <2>3 DEF Socket!Last
    <3> QED BY <2>3, <3>1
  <2> QED BY <2>2, <2>3
<1>2. h \in SUBSET Nat
  <2>1. f.body \in Nat /\ c.whole \in SUBSET Nat
    BY DEF SocketType, FrameType
  <2> QED BY <2>1
<1>3. d = IF f.body = 0 THEN c ELSE [c EXCEPT !.wire = w, !.whole = h]
  BY DEF Socket!Record
<1> HIDE DEF w, h
<1>4. d \in SocketType
  BY <1>1, <1>2, <1>3 DEF SocketType
<1>5. Quiet(c, d) /\ d.refused = c.refused /\ d.crossed = c.crossed /\ d.unacked = c.unacked
  BY <1>3 DEF SocketType, Idle, Quiet
<1>6. (f.body = 0 => d = c) /\ (f.body # 0 => d.wire = w /\ d.whole = h)
  BY <1>3 DEF SocketType
<1> QED BY <1>4, <1>5, <1>6 DEF w, h, OnWire

\* What webSocketSendFrame does to a client: the frame is on the wire with the n
\* bytes it could take, or the client is as it was, or lwIP has refused a part.
Wrote(c, d, f, n, head) ==
  /\ d.unacked = c.unacked + head + n /\ d.crossed = c.crossed /\ d.refused = c.refused
  /\ OnWire(c, d, [f EXCEPT !.len = n, !.carried = n])
Unwritten(c, d) ==
  d.unacked = c.unacked /\ d.wire = c.wire /\ d.whole = c.whole /\ d.refused = c.refused

LEMMA SendFrameType ==
  ASSUME NEW c \in SocketType, NEW f \in FrameType, NEW len \in Nat, NEW fault \in Socket!Fault,
         NEW r, r = Socket!SendFrame(c, f, len, fault),
         NEW head, head = Socket!HeadLen(len), NEW n, n = Socket!Least(len, Socket!Space(c) - head)
  PROVE  /\ r.c \in SocketType /\ Quiet(c, r.c) /\ r.n \in 0..len
         /\ \/ Wrote(c, r.c, f, n, head) /\ r.n = n /\ Socket!Space(c) >= head
            \/ Unwritten(c, r.c) /\ r.n = 0 /\ (r.c.crossed \/ (r.c = c /\ Socket!Space(c) < head))
            \/ r.c.refused
<1>1. head \in {2, 4}
  BY DEF Socket!HeadLen
<1>2. SndBuf \in Nat /\ c.unacked \in 0..SndBuf /\ Socket!Space(c) \in 0..SndBuf /\ Socket!Space(c) <= SndBuf - c.unacked
  <2>1. c.unacked \in 0..SndBuf /\ SndBuf \in Nat
    BY PushAssumption DEF SocketType
  <2> QED BY <2>1 DEF Socket!Space
<1> DEFINE Put(k) == [Socket!Record(c, [f EXCEPT !.len = n, !.carried = k]) EXCEPT !.unacked = @ + head + k]
<1>3. r = CASE Socket!Space(c) < head -> [c |-> c, n |-> 0]
            [] Socket!Space(c) >= head /\ fault = "none" -> [c |-> Put(n), n |-> n]
            [] Socket!Space(c) >= head /\ fault = "head" -> [c |-> [c EXCEPT !.crossed = TRUE], n |-> 0]
            [] Socket!Space(c) >= head /\ fault = "data" ->
                 [c |-> [Put(0) EXCEPT !.refused = TRUE], n |-> 0]
            [] OTHER -> [c |-> [Put(n) EXCEPT !.refused = TRUE], n |-> 0]
  BY DEF Socket!SendFrame
<1>4. CASE Socket!Space(c) < head
  <2>1. r = [c |-> c, n |-> 0]
    BY <1>1, <1>2, <1>3, <1>4
  <2> QED BY <1>4, <2>1 DEF Idle, Quiet, Unwritten
<1>5. CASE Socket!Space(c) >= head
  <2>1. n \in 0..len /\ head + n <= Socket!Space(c) /\ n \in Nat /\ head \in Nat
    BY <1>1, <1>2, <1>5 DEF Socket!Least
  <2>2. ASSUME NEW k \in {0, n}
        PROVE  Put(k) \in SocketType /\ Quiet(c, Put(k)) /\ (k = n => Wrote(c, Put(k), f, n, head))
    <3> DEFINE g == [f EXCEPT !.len = n, !.carried = k]
               e == Socket!Record(c, g)
               d == [e EXCEPT !.unacked = c.unacked + head + k]
    <3>0. k \in Nat /\ k <= n
      BY <2>1, <2>2
    <3>1. g \in FrameType
      BY <2>1, <3>0 DEF FrameType
    <3>2. /\ e \in SocketType /\ Quiet(c, e) /\ OnWire(c, e, g)
          /\ e.refused = c.refused /\ e.crossed = c.crossed /\ e.unacked = c.unacked
      <4> HIDE DEF g
      <4> QED BY <3>1, RecordType
    <3>3. c.unacked + head + k \in 0..SndBuf
      BY <1>2, <2>1, <3>0
    <3>4. Put(k) = d
      <4>1. e.unacked = c.unacked
        BY <3>2
      <4> QED BY <4>1
    <3>5. k = n => g = [f EXCEPT !.len = n, !.carried = n]
      OBVIOUS
    <3> HIDE DEF g, e, Put
    <3>6. d \in SocketType
      BY <3>2, <3>3 DEF SocketType
    <3>7. d.unacked = c.unacked + head + k
      BY <3>2 DEF SocketType
    <3>8. Quiet(e, d) /\ d.refused = e.refused /\ d.crossed = e.crossed /\ d.wire = e.wire /\ d.whole = e.whole
      BY <3>2 DEF SocketType, Idle, Quiet
    <3> HIDE DEF d
    <3>9. Quiet(c, d)
      BY <3>2, <3>8 DEF Idle, Quiet
    <3>10. OnWire(c, d, g)
      BY <3>2, <3>8 DEF OnWire
    <3>11. k = n => Wrote(c, d, f, n, head)
      BY <3>2, <3>5, <3>7, <3>8, <3>10 DEF Wrote
    <3> QED BY <3>4, <3>6, <3>9, <3>11
  <2> HIDE DEF Put
  <2>3. CASE fault = "none"
    <3>1. r = [c |-> Put(n), n |-> n]
      BY <1>1, <1>2, <1>3, <1>5, <2>3
    <3> QED BY <1>5, <2>1, <2>2, <3>1
  <2>4. CASE fault = "head"
    <3> DEFINE d == [c EXCEPT !.crossed = TRUE]
    <3>1. r = [c |-> d, n |-> 0]
      BY <1>1, <1>2, <1>3, <1>5, <2>4
    <3>2. d \in SocketType /\ d.crossed
      BY DEF SocketType
    <3>3. Quiet(c, d) /\ Unwritten(c, d)
      BY DEF SocketType, Idle, Quiet, Unwritten
    <3> HIDE DEF d
    <3> QED BY <3>1, <3>2, <3>3
  <2>5. CASE fault \in {"data", "output"}
    <3> DEFINE e == Put(IF fault = "data" THEN 0 ELSE n)
               d == [e EXCEPT !.refused = TRUE]
    <3>1. r = [c |-> d, n |-> 0]
      <4>1. fault = "data" => r = [c |-> [Put(0) EXCEPT !.refused = TRUE], n |-> 0]
        BY <1>1, <1>2, <1>3, <1>5
      <4>2. fault = "output" => r = [c |-> [Put(n) EXCEPT !.refused = TRUE], n |-> 0]
        BY <1>1, <1>2, <1>3, <1>5
      <4> QED BY <2>5, <4>1, <4>2
    <3>2. e \in SocketType /\ Quiet(c, e)
      BY <2>2
    <3> HIDE DEF e
    <3>3. d \in SocketType /\ d.refused
      BY <3>2 DEF SocketType
    <3>4. Quiet(e, d)
      BY <3>2 DEF SocketType, Idle, Quiet
    <3> HIDE DEF d
    <3>5. Quiet(c, d)
      BY <3>2, <3>4 DEF Idle, Quiet
    <3> QED BY <3>1, <3>3, <3>5
  <2> QED BY <2>3, <2>4, <2>5 DEF Socket!Fault
<1> QED BY <1>1, <1>2, <1>4, <1>5

-----------------------------------------------------------------------------
(* The queue of messages and the wire *)

\* The messages queued are in the order of their calls; only the front one has
\* begun, and it is finished only when all of it was sent.
QueueOK(messages, taken, k) ==
  /\ Len(messages) <= MaxQueued /\ taken \subseteq 1..k
  /\ \A i \in DOMAIN messages :
       /\ messages[i].sent <= messages[i].len /\ messages[i].body <= k
       /\ messages[i].len = 0 => messages[i].body \notin taken
       /\ messages[i].status = "sent" => (i = 1 /\ messages[i].sent = messages[i].len)
       /\ i # 1 => messages[i].sent = 0
  /\ \A i, j \in DOMAIN messages : i < j => messages[i].body < messages[j].body

Bodies(messages) == {messages[i].body : i \in DOMAIN messages}

\* The last frame is where the front message is.
Reached(f, m) ==
  IF m.sent = 0 THEN f.final /\ f.body < m.body
  ELSE f.body = m.body /\ f.from + f.len = m.sent /\ (f.final <=> m.sent = m.len)

WireOK(wire, whole, messages, taken, k) ==
  /\ \A i \in DOMAIN wire : wire[i].carried = wire[i].len
  /\ Len(wire) <= 2
  /\ Len(wire) = 1 => (wire[1].from = 0 /\ wire[1].op = "text")
  /\ Len(wire) = 2 => IsNext(wire[1], wire[2])
  /\ wire # <<>> =>
       /\ wire[Len(wire)].body <= k
       /\ wire[Len(wire)].final => wire[Len(wire)].body \in whole
       /\ messages = <<>> => wire[Len(wire)].final
       /\ messages # <<>> => Reached(wire[Len(wire)], messages[1])
  /\ wire = <<>> /\ messages # <<>> => messages[1].sent = 0
  /\ taken \ Bodies(messages) \subseteq whole

Good(c, k) ==
  /\ c \in SocketType /\ QueueOK(c.messages, c.taken, k)
  /\ c.refused \/ WireOK(c.wire, c.whole, c.messages, c.taken, k)

\* The messages of one queue come from another.
From(p, q) ==
  \A i \in DOMAIN q : \E j \in DOMAIN p : q[i].kind = p[j].kind /\ q[i].body = p[j].body

\* The books of a client: unless it is in trouble, what is in the window, with the s
\* bytes whose acknowledgement is on its way, is what the front message has not had
\* acknowledged and the control frame that waits for its answer.
Settled(m) ==
  /\ m.acked <= m.ack /\ m.ack <= 5 * m.sent /\ 5 * m.len < SizeT
  /\ m.status = "sent" => m.acked = m.ack
Owes(m) == m.ack - m.acked
Outstanding(q) == IF q = <<>> THEN 0 ELSE Owes(q[1])
Waiting(p) == \A i \in DOMAIN p : p[i].len < ShortLen /\ (i # 1 => ~p[i].finished)
Answer(p) == IF p # <<>> /\ p[1].finished THEN p[1].len + 2 ELSE 0

AllSettled(q) == \A i \in DOMAIN q : Settled(q[i])
Even(c, s) ==
  AllSettled(c.messages) /\ Waiting(c.controls) /\ c.unacked + s = Outstanding(c.messages) + Answer(c.controls)
Troubled(c) == ~c.open \/ c.crossed \/ c.refused
Level(c, s) == Troubled(c) \/ Even(c, s)
Levels(c, d) == \A s \in Nat : Level(c, s) => Level(d, s)

SameBooks(c, d) ==
  /\ d.open = c.open /\ d.crossed = c.crossed /\ d.refused = c.refused /\ d.unacked = c.unacked
  /\ d.messages = c.messages /\ d.controls = c.controls

LEMMA SameLevels ==
  ASSUME NEW c, NEW d, SameBooks(c, d)
  PROVE  Levels(c, d)
BY DEF SameBooks, Levels, Level, Even, Troubled

LEMMA LevelsAfter ==
  ASSUME NEW c, NEW d, NEW e, Levels(c, d), Levels(d, e)
  PROVE  Levels(c, e)
BY DEF Levels

Balanced(c, t, m, d, s, m2) == d.unacked + s - Owes(m2) = c.unacked + t - Owes(m)

LEMMA OwesInt ==
  ASSUME NEW m \in Message
  PROVE  Owes(m) \in Int
<1>1. m.ack \in Int /\ m.acked \in Int
  BY MessageHas, PushAssumption
<1> QED BY <1>1 DEF Owes

\* The front message changed: the books stay even when the window does with what it owes.
LEMMA FrontEven ==
  ASSUME NEW c \in SocketType, c.messages # <<>>, NEW m2 \in Message, Settled(m2), NEW t \in Nat, Even(c, t),
         NEW d, d.messages = [c.messages EXCEPT ![1] = m2], d.controls = c.controls, NEW s \in Nat,
         Balanced(c, t, c.messages[1], d, s, m2), d.unacked \in Nat
  PROVE  Even(d, s)
<1> DEFINE q == c.messages
           p == d.messages
<1>1. q \in Seq(Message) /\ 1 \in DOMAIN q /\ c.unacked \in Int /\ c.controls \in Seq(ControlType)
  BY DEF SocketType
<1>2. p # <<>> /\ p[1] = m2 /\ DOMAIN p = DOMAIN q /\ \A i \in DOMAIN p : i # 1 => p[i] = q[i]
  BY <1>1
<1>3. AllSettled(p)
  BY <1>2 DEF Even, AllSettled
<1>4. Owes(m2) \in Int /\ Owes(q[1]) \in Int
  <2>1. q[1] \in Message
    BY <1>1
  <2> QED BY <2>1, OwesInt
<1>5. Answer(c.controls) \in Int
  <2>1. c.controls # <<>> => c.controls[1] \in ControlType
    BY <1>1
  <2> QED BY <2>1 DEF Answer, ControlType
<1>6. Outstanding(q) = Owes(q[1]) /\ Outstanding(p) = Owes(m2)
  BY <1>2 DEF Outstanding
<1>7. c.unacked + t = Outstanding(q) + Answer(c.controls) /\ Waiting(c.controls)
  BY DEF Even
<1>8. d.unacked + s = Outstanding(p) + Answer(c.controls)
  <2> DEFINE x == Owes(m2)
             y == Owes(q[1])
             a == Answer(c.controls)
             u == d.unacked
             v == c.unacked
  <2>1. u + s - x = v + t - y /\ v + t = y + a
    BY <1>6, <1>7 DEF Balanced
  <2>2. x \in Int /\ y \in Int /\ a \in Int /\ u \in Int /\ v \in Int
    BY <1>1, <1>4, <1>5
  <2> HIDE DEF x, y, a, u, v
  <2>3. u + s = x + a
    BY <2>1, <2>2
  <2> QED BY <1>6, <2>3 DEF x, a, u
<1> QED BY <1>3, <1>7, <1>8 DEF Even

\* What every send does to a client.
Stays(c, d) == Idle(c, d) /\ d.status = c.status /\ From(c.messages, d.messages)
Sends(c, d) == Stays(c, d) /\ Levels(c, d)

LEMMA FromOther ==
  ASSUME NEW p, NEW q, NEW r, From(p, q), From(q, r)
  PROVE  From(p, r)
BY DEF From

LEMMA SendsAfter ==
  ASSUME NEW c, NEW d, NEW e, Sends(c, d), Sends(d, e)
  PROVE  Sends(c, e)
BY FromOther, LevelsAfter DEF Sends, Stays, Idle

LEMMA SendsNothing ==
  ASSUME NEW c
  PROVE  Sends(c, c)
BY DEF Sends, Stays, Levels, Idle, From

\* All of a client but its messages.
Rest(c, d) ==
  /\ Idle(c, d) /\ d.controls = c.controls /\ d.status = c.status /\ d.taken = c.taken
  /\ d.wire = c.wire /\ d.whole = c.whole /\ d.refused = c.refused /\ d.crossed = c.crossed
  /\ d.unacked = c.unacked

LEMMA WithMessages ==
  ASSUME NEW c \in SocketType, NEW q \in Seq(Message), NEW d, d = [c EXCEPT !.messages = q]
  PROVE  d \in SocketType /\ d.messages = q /\ Rest(c, d)
<1>1. d \in SocketType
  BY DEF SocketType
<1>2. d.messages = q
  BY DEF SocketType
<1>3. Rest(c, d)
  BY DEF SocketType, Rest, Idle
<1> QED BY <1>1, <1>2, <1>3

\* The front message changed.
LEMMA WithFront ==
  ASSUME NEW q \in Seq(Message), q # <<>>, NEW m \in Message, NEW p, p = [q EXCEPT ![1] = m],
         m.kind = q[1].kind, m.body = q[1].body
  PROVE  /\ p \in Seq(Message) /\ p # <<>> /\ Len(p) = Len(q) /\ DOMAIN p = DOMAIN q /\ p[1] = m
         /\ \A i \in DOMAIN p : i # 1 => p[i] = q[i]
         /\ From(q, p) /\ Bodies(p) = Bodies(q)
<1>1. /\ p \in Seq(Message) /\ p # <<>> /\ Len(p) = Len(q) /\ DOMAIN p = DOMAIN q /\ p[1] = m
      /\ \A i \in DOMAIN p : i # 1 => p[i] = q[i]
  OBVIOUS
<1>2. \A i \in DOMAIN p : p[i].kind = q[i].kind /\ p[i].body = q[i].body
  BY <1>1
<1>3. From(q, p)
  BY <1>1, <1>2 DEF From
<1>4. Bodies(p) = Bodies(q)
  BY <1>1, <1>2 DEF Bodies
<1> QED BY <1>1, <1>3, <1>4

\* A queue stays one when its front message goes on.
LEMMA FrontQueueOK ==
  ASSUME NEW q \in Seq(Message), NEW taken, NEW k \in Nat, QueueOK(q, taken, k), q # <<>>,
         NEW m \in Message, NEW p, p = [q EXCEPT ![1] = m],
         m.kind = q[1].kind, m.body = q[1].body, m.len = q[1].len, m.sent <= m.len,
         m.status = "sent" => m.sent = m.len
  PROVE  QueueOK(p, taken, k)
<1>1. /\ Len(p) = Len(q) /\ DOMAIN p = DOMAIN q /\ p[1] = m /\ 1 \in DOMAIN q
      /\ \A i \in DOMAIN p : i # 1 => p[i] = q[i]
  BY WithFront
<1>2. \A i \in DOMAIN p : p[i].body = q[i].body /\ p[i].len = q[i].len
  BY <1>1
<1>3. ASSUME NEW i \in DOMAIN p
      PROVE  /\ p[i].sent <= p[i].len /\ p[i].body <= k
             /\ p[i].len = 0 => p[i].body \notin taken
             /\ p[i].status = "sent" => (i = 1 /\ p[i].sent = p[i].len)
             /\ i # 1 => p[i].sent = 0
  <2>1. CASE i = 1
    BY <1>1, <2>1 DEF QueueOK
  <2>2. CASE i # 1
    BY <1>1, <1>3, <2>2 DEF QueueOK
  <2> QED BY <2>1, <2>2
<1>4. \A i, j \in DOMAIN p : i < j => p[i].body < p[j].body
  BY <1>1, <1>2 DEF QueueOK
<1> QED BY <1>1, <1>3, <1>4 DEF QueueOK

LEMMA DropFinishedIs ==
  ASSUME NEW c \in SocketType, NEW k \in Nat, QueueOK(c.messages, c.taken, k)
  PROVE  Socket!DropFinished(c) =
           [c EXCEPT !.messages = IF c.messages # <<>> /\ c.messages[1].status = "sent"
                                    THEN Tail(c.messages) ELSE c.messages]
<1> DEFINE q == c.messages
           I == {i \in 1..Len(q) : ~Socket!Finished(q[i])}
           first == Socket!SelectInSeq(q, LAMBDA m : ~Socket!Finished(m))
<1>1. q \in Seq(Message)
  BY DEF SocketType
<1>2. \A i \in 1..Len(q) : q[i].status \in {"sending", "sent"} /\ (i # 1 => q[i].status = "sending")
  <2> TAKE i \in 1..Len(q)
  <2>1. q[i] \in Message /\ i \in DOMAIN q
    BY <1>1
  <2> QED BY <1>1, <2>1 DEF QueueOK, Message
<1>3. first = IF I # {} THEN CHOOSE i \in I : \A j \in I : i <= j ELSE 0
  BY DEF Socket!SelectInSeq, Socket!Min
<1>4. Socket!DropFinished(c) = [c EXCEPT !.messages = IF first = 0 THEN <<>> ELSE SubSeq(q, first, Len(q))]
  BY DEF Socket!DropFinished
<1> HIDE DEF first
<1>5. CASE q = <<>>
  <2>1. I = {}
    BY <1>5
  <2> QED BY <1>3, <1>4, <1>5, <2>1
<1>6. CASE q # <<>> /\ q[1].status = "sending"
  <2>1. 1 \in I /\ \A j \in I : 1 <= j
    BY <1>1, <1>6 DEF Socket!Finished
  <2>2. first = 1
    <3>1. first \in I /\ \A j \in I : first <= j
      BY <1>3, <2>1
    <3> QED BY <2>1, <3>1
  <2>3. SubSeq(q, 1, Len(q)) = q
    BY <1>1
  <2> QED BY <1>4, <1>6, <2>2, <2>3
<1>7. CASE q # <<>> /\ q[1].status = "sent" /\ Len(q) = 1
  <2>1. I = {}
    BY <1>7 DEF Socket!Finished
  <2>2. Tail(q) = <<>>
    <3>1. Tail(q) \in Seq(Message) /\ Len(Tail(q)) = 0
      <4> HIDE DEF q
      <4> QED BY <1>1, <1>7, HeadTailProperties
    <3> QED BY <3>1, EmptySeq
  <2> QED BY <1>3, <1>4, <1>7, <2>1, <2>2
<1>8. CASE q # <<>> /\ q[1].status = "sent" /\ Len(q) > 1
  <2>1. 2 \in I /\ \A j \in I : 2 <= j
    <3>1. Len(q) \in Nat /\ Len(q) >= 2
      <4>1. Len(q) \in Nat /\ Len(q) # 0
        BY <1>1, <1>8, EmptySeq
      <4>2. Len(q) > 1
        BY <1>8
      <4> HIDE DEF q
      <4> QED BY <4>1, <4>2
    <3>2. q[2].status = "sending"
      BY <1>2, <3>1
    <3> QED BY <1>8, <3>1, <3>2 DEF Socket!Finished
  <2>2. first = 2
    <3>1. first \in I /\ \A j \in I : first <= j
      BY <1>3, <2>1
    <3> QED BY <2>1, <3>1
  <2>3. SubSeq(q, 2, Len(q)) = Tail(q)
    BY <1>1, <1>8
  <2>4. Socket!DropFinished(c) = [c EXCEPT !.messages = SubSeq(q, 2, Len(q))]
    BY <1>4, <2>2
  <2> QED BY <1>8, <2>3, <2>4
<1>9. q # <<>> => q[1].status \in {"sending", "sent"}
  <2> HIDE DEF q
  <2> HAVE q # <<>>
  <2>1. 1 \in 1..Len(q)
    BY <1>1
  <2> QED BY <1>2, <2>1
<1>11. q # <<>> => Len(q) = 1 \/ Len(q) > 1
  <2>1. Len(q) \in Nat /\ (q # <<>> => Len(q) >= 1)
    BY <1>1, EmptySeq
  <2>2. \A n \in Nat : n >= 1 => n = 1 \/ n > 1
    OBVIOUS
  <2> QED BY <2>1, <2>2
<1>10. \/ q = <<>>
       \/ q # <<>> /\ q[1].status = "sending"
       \/ q # <<>> /\ q[1].status = "sent" /\ Len(q) = 1
       \/ q # <<>> /\ q[1].status = "sent" /\ Len(q) > 1
  BY <1>9, <1>11
<1> HIDE DEF I
<1> QED BY <1>5, <1>6, <1>7, <1>8, <1>10, Zenon

\* What _runQueue drops was sent to its end.
LEMMA DropFinishedOK ==
  ASSUME NEW c, NEW k \in Nat, Good(c, k), NEW d, d = Socket!DropFinished(c)
  PROVE  /\ Good(d, k) /\ Sends(c, d)
         /\ d.messages # <<>> => d.messages[1].status = "sending"
<1> DEFINE q == c.messages
<1>1. c \in SocketType /\ q \in Seq(Message) /\ QueueOK(q, c.taken, k)
  BY DEF Good, SocketType
<1>2. d = [c EXCEPT !.messages = IF q # <<>> /\ q[1].status = "sent" THEN Tail(q) ELSE q]
  BY <1>1, DropFinishedIs
<1>3. CASE q = <<>> \/ q[1].status = "sending"
  <2>1. d = [c EXCEPT !.messages = q]
    BY <1>2, <1>3
  <2>2. d \in SocketType /\ d.messages = q /\ Rest(c, d)
    BY <1>1, <2>1, WithMessages
  <2>3. Good(d, k)
    BY <1>1, <2>2 DEF Good, Rest
  <2>a. Levels(c, d)
    <3>1. SameBooks(c, d)
      BY <2>2 DEF SameBooks, Rest, Idle
    <3> QED BY <3>1, SameLevels
  <2>4. Sends(c, d)
    BY <2>2, <2>a DEF Sends, Stays, Rest, From
  <2> QED BY <1>3, <2>2, <2>3, <2>4
<1>4. CASE q # <<>> /\ q[1].status = "sent"
  <2> DEFINE p == Tail(q)
  <2>1. p \in Seq(Message) /\ Len(p) = Len(q) - 1 /\ \A i \in DOMAIN p : p[i] = q[i + 1] /\ i + 1 \in DOMAIN q
    BY <1>1, <1>4
  <2>2. d = [c EXCEPT !.messages = p]
    BY <1>2, <1>4
  <2> HIDE DEF p
  <2>3. d \in SocketType /\ d.messages = p /\ Rest(c, d)
    BY <1>1, <2>1, <2>2, WithMessages
  <2>4. \A i \in DOMAIN p : /\ p[i].sent = 0 /\ p[i].status = "sending" /\ p[i].body <= k
                            /\ p[i].sent <= p[i].len /\ q[1].body < p[i].body
                            /\ p[i].len = 0 => p[i].body \notin c.taken
    <3>1. ASSUME NEW i \in DOMAIN p
          PROVE  /\ p[i].sent = 0 /\ p[i].status = "sending" /\ p[i].body <= k
                 /\ p[i].sent <= p[i].len /\ q[1].body < p[i].body
                 /\ p[i].len = 0 => p[i].body \notin c.taken
      <4>1. i \in Nat /\ i > 0 /\ i + 1 \in DOMAIN q /\ p[i] = q[i + 1] /\ i + 1 # 1 /\ 1 \in DOMAIN q
        BY <1>4, <2>1, <3>1
      <4>2. q[i + 1] \in Message
        BY <1>1, <4>1
      <4>3. q[i + 1].sent = 0 /\ q[i + 1].body <= k /\ q[i + 1].sent <= q[i + 1].len
            /\ (q[i + 1].len = 0 => q[i + 1].body \notin c.taken) /\ q[i + 1].status # "sent"
        BY <1>1, <4>1 DEF QueueOK
      <4>4. q[1].body < q[i + 1].body
        BY <1>1, <4>1 DEF QueueOK
      <4>5. q[i + 1].status \in {"sending", "sent"}
        BY <4>2 DEF Message
      <4> HIDE DEF q
      <4> QED BY <4>1, <4>3, <4>4, <4>5
    <3> QED BY <3>1
  <2>5. QueueOK(p, d.taken, k)
    <3>1. Len(p) <= MaxQueued /\ d.taken \subseteq 1..k
      BY <1>1, <2>1, <2>3, PushAssumption DEF QueueOK, Rest
    <3>2. \A i, j \in DOMAIN p : i < j => p[i].body < p[j].body
      <4> TAKE i, j \in DOMAIN p
      <4>1. i \in Nat /\ j \in Nat /\ p[i] = q[i + 1] /\ p[j] = q[j + 1] /\ i + 1 \in DOMAIN q /\ j + 1 \in DOMAIN q
        BY <2>1
      <4>2. i < j => q[i + 1].body < q[j + 1].body
        BY <1>1, <4>1 DEF QueueOK
      <4> HIDE DEF q
      <4> QED BY <4>1, <4>2
    <3> QED BY <2>3, <2>4, <3>1, <3>2 DEF QueueOK, Rest
  <2>6. ~d.refused => WireOK(d.wire, d.whole, d.messages, d.taken, k)
    <3> HAVE ~d.refused
    <3> DEFINE w == c.wire
               f == w[Len(w)]
               m == q[1]
    <3>1. WireOK(w, c.whole, q, c.taken, k) /\ d.wire = w /\ d.whole = c.whole /\ d.taken = c.taken
      BY <2>3 DEF Good, Rest
    <3>2. m \in Message /\ 1 \in DOMAIN q /\ m.sent = m.len /\ (m.len = 0 => m.body \notin c.taken)
      BY <1>1, <1>4 DEF QueueOK
    <3>3. w \in Seq(FrameType)
      BY <1>1 DEF SocketType
    <3>4. w # <<>> => f \in FrameType /\ f.final /\ f.body <= m.body /\ f.body \in c.whole
      <4> HAVE w # <<>>
      <4>1. f \in FrameType
        BY <3>3
      <4>2. Reached(f, m)
        BY <1>4, <3>1 DEF WireOK
      <4>3. f.final /\ f.body <= m.body
        BY <3>2, <4>1, <4>2 DEF Reached, FrameType, Message
      <4> QED BY <3>1, <4>1, <4>3 DEF WireOK
    <3>5. m.body \in c.taken => m.body \in c.whole
      <4> HAVE m.body \in c.taken
      <4>1. m.len # 0 /\ m.sent # 0 /\ m.sent > 0
        BY <3>2 DEF Message
      <4>2. w # <<>>
        BY <1>4, <3>1, <4>1 DEF WireOK
      <4>3. f.body = m.body
        BY <1>4, <3>1, <4>1, <4>2 DEF WireOK, Reached
      <4> QED BY <3>4, <4>2, <4>3
    <3>6. d.taken \ Bodies(p) \subseteq d.whole
      <4>1. \A i \in DOMAIN q : i = 1 \/ q[i].body \in Bodies(p)
        <5> TAKE i \in DOMAIN q
        <5>1. i # 1 => i - 1 \in DOMAIN p /\ p[i - 1] = q[i]
          BY <1>1, <2>1
        <5> QED BY <5>1 DEF Bodies
      <4>2. Bodies(q) \subseteq Bodies(p) \cup {m.body}
        BY <4>1 DEF Bodies
      <4>3. c.taken \ Bodies(q) \subseteq c.whole
        BY <3>1 DEF WireOK
      <4> QED BY <3>1, <3>5, <4>2, <4>3
    <3>7. w # <<>> /\ p # <<>> => Reached(f, p[1])
      <4> HAVE w # <<>> /\ p # <<>>
      <4>1. 1 \in DOMAIN p /\ p[1] \in Message
        BY <2>1
      <4>2. p[1].sent = 0 /\ m.body < p[1].body
        BY <2>4, <4>1
      <4>3. f.body \in Nat /\ f.final /\ f.body <= m.body
        BY <3>4 DEF FrameType
      <4>4. m.body \in Nat /\ p[1].body \in Nat
        BY <3>2, <4>1, PushAssumption DEF Message
      <4>5. f.body < p[1].body
        BY <4>2, <4>3, <4>4
      <4> QED BY <4>2, <4>3, <4>5 DEF Reached
    <3>8. p # <<>> => p[1].sent = 0
      BY <2>1, <2>4
    <3> HIDE DEF w
    <3> QED BY <2>3, <3>1, <3>4, <3>6, <3>7, <3>8 DEF WireOK
  <2>a. Levels(c, d)
    <3> SUFFICES ASSUME NEW s \in Nat, Even(c, s) PROVE Even(d, s)
      BY <2>3 DEF Levels, Level, Troubled, Rest, Idle
    <3>1. AllSettled(q) /\ 1 \in DOMAIN q
      BY <1>1, <1>4 DEF Even
    <3>2. AllSettled(p)
      BY <2>1, <3>1 DEF AllSettled
    <3>3. Outstanding(q) = 0
      <4>1. q[1] \in Message /\ q[1].acked = q[1].ack
        BY <1>1, <1>4, <3>1 DEF AllSettled, Settled
      <4>2. q[1].ack \in Int
        BY <4>1, MessageHas
      <4>3. Owes(q[1]) = 0
        BY <4>1, <4>2 DEF Owes
      <4> QED BY <1>4, <4>3 DEF Outstanding
    <3>4. Outstanding(p) = 0
      <4>1. CASE p = <<>>
        BY <4>1 DEF Outstanding
      <4>2. CASE p # <<>>
        <5>1. 1 \in DOMAIN p /\ p[1] \in Message
          BY <2>1, <4>2
        <5>2. Settled(p[1]) /\ p[1].sent = 0
          BY <2>4, <3>2, <5>1 DEF AllSettled
        <5>3. p[1].ack \in Nat /\ p[1].acked \in Nat /\ p[1].acked <= p[1].ack /\ p[1].ack <= 5 * 0
          BY <5>1, <5>2, MessageHas, PushAssumption DEF Settled
        <5>4. Owes(p[1]) = 0
          BY <5>3 DEF Owes
        <5> QED BY <4>2, <5>4 DEF Outstanding
      <4> QED BY <4>1, <4>2
    <3>5. d.controls = c.controls /\ d.unacked = c.unacked
      BY <2>3 DEF Rest
    <3> QED BY <2>3, <3>2, <3>3, <3>4, <3>5 DEF Even
  <2>7. Sends(c, d)
    BY <2>1, <2>3, <2>a DEF Sends, Stays, Rest, From
  <2>8. p # <<>> => p[1].status = "sending"
    BY <2>1, <2>4
  <2> QED BY <2>3, <2>5, <2>6, <2>7, <2>8 DEF Good
<1>5. q # <<>> => q[1].status \in {"sending", "sent"}
  <2> HAVE q # <<>>
  <2>1. q[1] \in Message
    BY <1>1
  <2> QED BY <2>1 DEF Message
<1> QED BY <1>3, <1>4, <1>5

\* What the wire has to be depends on the messages only as far as they were sent.
LEMMA SameWireOK ==
  ASSUME NEW q \in Seq(Message), q # <<>>, NEW p, p \in Seq(Message), p # <<>>, Bodies(p) = Bodies(q),
         p[1].sent = q[1].sent, p[1].len = q[1].len, p[1].body = q[1].body,
         NEW wire, NEW whole, NEW taken, NEW k, WireOK(wire, whole, q, taken, k)
  PROVE  WireOK(wire, whole, p, taken, k)
<1>1. \A f : Reached(f, q[1]) => Reached(f, p[1])
  BY DEF Reached
<1> QED BY <1>1 DEF WireOK

\* A frame of the front message goes where the last one ended.
LEMMA NextFrameOK ==
  ASSUME NEW q \in Seq(Message), q # <<>>, NEW m, m = q[1], NEW p, p \in Seq(Message), p # <<>>, Bodies(p) = Bodies(q),
         NEW n \in Nat, n > 0, m.sent + n <= m.len,
         p[1].sent = m.sent + n, p[1].len = m.len, p[1].body = m.body,
         NEW wire \in Seq(FrameType), NEW whole, NEW taken, NEW k \in Nat, WireOK(wire, whole, q, taken, k), m.body <= k,
         NEW g \in FrameType, g.op = (IF m.sent = 0 THEN "text" ELSE "continuation"),
         g.final <=> (m.sent + n = m.len), g.body = m.body, g.from = m.sent, g.len = n, g.carried = n
  PROVE  WireOK(Append(IF wire = <<>> THEN wire ELSE <<Socket!Last(wire)>>, g),
                IF g.final THEN whole \cup {g.body} ELSE whole, p, taken, k)
<1> DEFINE f == wire[Len(wire)]
           new == Append(IF wire = <<>> THEN wire ELSE <<Socket!Last(wire)>>, g)
           more == IF g.final THEN whole \cup {g.body} ELSE whole
<1>1. m \in Message /\ m.sent \in Nat /\ m.len \in Nat /\ m.body \in Nat
  <2>1. m \in Message
    OBVIOUS
  <2> QED BY <2>1, MessageHas
<1>2. Reached(g, p[1])
  <2>1. p[1].sent # 0
    BY <1>1
  <2> QED BY <2>1, <1>1 DEF Reached
<1>3. taken \ Bodies(p) \subseteq more
  BY DEF WireOK
<1>4. g.final => g.body \in more
  OBVIOUS
<1>5. CASE wire = <<>>
  <2>1. new = <<g>> /\ new \in Seq(FrameType)
    BY <1>5
  <2>2. m.sent = 0
    BY <1>5 DEF WireOK
  <2>3. Len(new) = 1 /\ DOMAIN new = {1} /\ new[1] = g /\ new # <<>>
    <3> HIDE DEF new
    <3> QED BY <2>1, One
  <2> HIDE DEF new, more
  <2>4. WireOK(new, more, p, taken, k)
    BY <1>1, <1>2, <1>3, <1>4, <2>2, <2>3 DEF WireOK
  <2> QED BY <2>4 DEF new, more
<1>6. CASE wire # <<>>
  <2>1. f \in FrameType /\ f.carried = f.len
    BY <1>6 DEF WireOK
  <2>2. new = <<f, g>>
    <3>1. new = Append(<<f>>, g)
      BY <1>6 DEF Socket!Last
    <3> HIDE DEF new, f
    <3> QED BY <3>1, Two
  <2>3. IsNext(f, g)
    <3>1. Reached(f, m)
      BY <1>6 DEF WireOK
    <3>2. CASE m.sent = 0
      <4>1. f.final /\ f.body < m.body
        BY <3>1, <3>2 DEF Reached
      <4> QED BY <3>2, <4>1 DEF IsNext
    <3>3. CASE m.sent # 0
      <4>1. f.body = m.body /\ f.from + f.len = m.sent /\ (f.final <=> m.sent = m.len)
        BY <3>1, <3>3 DEF Reached
      <4>2. ~f.final
        BY <1>1, <4>1
      <4> QED BY <3>3, <4>1, <4>2 DEF IsNext
    <3> QED BY <3>2, <3>3
  <2>4. Len(new) = 2 /\ DOMAIN new = {1, 2} /\ new[1] = f /\ new[2] = g /\ new # <<>>
    <3> HIDE DEF new, f
    <3> QED BY <2>2, Two
  <2> HIDE DEF new, more, f
  <2>5. WireOK(new, more, p, taken, k)
    BY <1>1, <1>2, <1>3, <1>4, <2>1, <2>3, <2>4 DEF WireOK
  <2> QED BY <2>5 DEF new, more
<1> QED BY <1>5, <1>6

\* The front message sends its next frame, as AsyncWebSocketBasicMessage::send and
\* that of a multi message do.
GoneOn(c, d, n, head) ==
  /\ d.unacked = c.unacked + head + n
  /\ d.messages = [c.messages EXCEPT ![1] = [c.messages[1] EXCEPT !.sent = c.messages[1].sent + n,
                                                                  !.ack = c.messages[1].ack + n + head]]
Advances(c, d) ==
  /\ d.controls = c.controls /\ (Troubled(c) => Troubled(d))
  /\ Troubled(d) \/ \E n \in Nat \ {0}, head \in {2, 4} : GoneOn(c, d, n, head)

\* A frame counts for the window and for what the message is owed, head and data alike.
LEMMA AdvancesLevels ==
  ASSUME NEW c \in SocketType, c.messages # <<>>, NEW d \in SocketType, Advances(c, d),
         c.messages[1].status = "sending"
  PROVE  Levels(c, d)
<1> SUFFICES ASSUME ~Troubled(c), ~Troubled(d), NEW s \in Nat, Even(c, s) PROVE Even(d, s)
  BY DEF Advances, Levels, Level
<1> DEFINE m == c.messages[1]
<1>1. PICK n \in Nat \ {0}, head \in {2, 4} : GoneOn(c, d, n, head)
  BY DEF Advances
<1> DEFINE m2 == [m EXCEPT !.sent = m.sent + n, !.ack = m.ack + n + head]
<1>2. c.messages \in Seq(Message) /\ 1 \in DOMAIN c.messages /\ m \in Message
  BY DEF SocketType
<1>3. m.sent \in Nat /\ m.ack \in Nat /\ m.acked \in Nat /\ m.len \in Nat /\ m.sent + n \in Nat /\ m.ack + n + head \in Nat
  <2>1. m.sent \in Nat /\ m.ack \in Nat /\ m.acked \in Nat /\ m.len \in Nat
    <3> HIDE DEF m
    <3> QED BY <1>2, MessageHas, PushAssumption
  <2> HIDE DEF m
  <2> QED BY <2>1
<1>4. /\ m2 \in Message /\ m2.sent = m.sent + n /\ m2.ack = m.ack + n + head /\ m2.acked = m.acked
      /\ m2.len = m.len /\ m2.status = "sending"
  BY <1>2, <1>3 DEF Message
<1>5. Settled(m2)
  <2>1. Settled(m)
    BY <1>2 DEF Even, AllSettled
  <2> HIDE DEF m2, m
  <2>2. m.acked <= m.ack /\ m.ack <= 5 * m.sent /\ 5 * m.len < SizeT
    BY <2>1 DEF Settled
  <2>3. m.acked <= m.ack + n + head
    BY <1>3, <2>2
  <2>4. m.ack + n + head <= 5 * (m.sent + n)
    <3> DEFINE a == m.ack
               b == m.sent
    <3>1. a \in Nat /\ b \in Nat /\ a <= 5 * b
      BY <1>3, <2>2
    <3> HIDE DEF a, b
    <3>2. n \in Nat /\ n >= 1 /\ head \in Nat /\ head <= 4
      OBVIOUS
    <3>3. a + n + head <= 5 * (b + n)
      BY <3>1, <3>2
    <3> QED BY <3>3 DEF a, b
  <2> QED BY <1>4, <2>2, <2>3, <2>4 DEF Settled
<1>6. d.messages = [c.messages EXCEPT ![1] = m2] /\ d.unacked = c.unacked + head + n
  BY <1>1 DEF GoneOn
<1>7. d.unacked \in Nat /\ c.unacked \in Nat
  BY PushAssumption DEF SocketType
<1>8. Balanced(c, s, m, d, s, m2)
  <2> HIDE DEF m2, m
  <2> DEFINE u == c.unacked
             a == m.ack
             b == m.acked
  <2>5. m2.ack = a + n + head /\ m2.acked = b /\ d.unacked = u + head + n
    BY <1>4, <1>6
  <2>6. Owes(m2) = m2.ack - m2.acked /\ Owes(m) = a - b
    BY DEF Owes
  <2>2. a \in Nat /\ b \in Nat /\ u \in Nat
    BY <1>3, <1>7
  <2> HIDE DEF a, b, u
  <2>4. n \in Nat /\ head \in Nat /\ a + n + head \in Nat
    BY <2>2
  <2>1. Owes(m2) = a + n + head - b
    BY <2>2, <2>4, <2>5, <2>6
  <2>3. u + head + n + s - (a + n + head - b) = u + s - (a - b)
    BY <2>2, <2>4
  <2> QED BY <2>1, <2>3, <2>5, <2>6 DEF Balanced, u
<1>9. d.controls = c.controls
  BY DEF Advances
<1> HIDE DEF m2
<1> QED BY <1>4, <1>5, <1>6, <1>7, <1>8, <1>9, FrontEven

LEMMA SendNextOK ==
  ASSUME NEW c, NEW k \in Nat, Good(c, k), c.messages # <<>>, NEW m, m = c.messages[1],
         m.status = "sending", m.sent < m.len, Socket!FrameWindow(c) > 0,
         NEW fault \in Socket!Fault, NEW d, d = Socket!SendNext(c, fault)
  PROVE  Good(d, k) /\ Sends(c, d) /\ Advances(c, d)
<1> DEFINE q == c.messages
           n == Socket!Least(m.len - m.sent, Socket!FrameWindow(c))
           head == Socket!HeadLen(n)
           f == Socket!Frame(IF m.sent = 0 THEN "text" ELSE "continuation", m.sent + n = m.len, m.body, m.sent)
           r == Socket!SendFrame(c, f, n, fault)
           m2 == [m EXCEPT !.sent = @ + r.n, !.ack = @ + r.n + head]
<1>1. c \in SocketType /\ q \in Seq(Message) /\ QueueOK(q, c.taken, k) /\ 1 \in DOMAIN q
  BY DEF Good, SocketType
<1>2. m \in Message /\ m.sent \in Nat /\ m.len \in Nat /\ m.ack \in Nat /\ m.body \in Nat /\ m.body # 0 /\ m.body <= k
  <2>1. m \in Message
    BY <1>1
  <2>2. m.body <= k
    BY <1>1 DEF QueueOK
  <2>3. m.sent \in Nat /\ m.len \in Nat /\ m.ack \in Nat /\ m.body \in Nat /\ m.body # 0
    BY <2>1, MessageHas
  <2> QED BY <2>1, <2>2, <2>3
<1>3. /\ n \in Nat /\ n > 0 /\ m.sent + n <= m.len /\ head \in Nat /\ head \in {2, 4}
      /\ n = Socket!Least(n, Socket!Space(c) - head) /\ Socket!Space(c) >= head
  <2>1. Socket!Space(c) \in Nat
    <3>1. c.unacked \in 0..SndBuf /\ SndBuf \in Nat
      BY <1>1, PushAssumption DEF SocketType
    <3> QED BY <3>1 DEF Socket!Space
  <2>2. Socket!FrameWindow(c) = Socket!Space(c) - 8
    BY <2>1 DEF Socket!FrameWindow
  <2>3. n \in Nat /\ n > 0 /\ m.sent + n <= m.len /\ n <= Socket!FrameWindow(c)
    <3>1. m.len - m.sent \in Nat /\ m.len - m.sent > 0 /\ Socket!FrameWindow(c) \in Nat
      BY <1>2, <2>1, <2>2
    <3>2. n = m.len - m.sent \/ n = Socket!FrameWindow(c)
      BY DEF Socket!Least
    <3>3. n <= m.len - m.sent /\ n <= Socket!FrameWindow(c)
      BY <3>1 DEF Socket!Least
    <3> HIDE DEF n
    <3> QED BY <1>2, <3>1, <3>2, <3>3
  <2>4. head \in {2, 4}
    BY DEF Socket!HeadLen
  <2> HIDE DEF n, head
  <2> QED BY <2>1, <2>2, <2>3, <2>4 DEF Socket!Least
<1>4. f \in FrameType /\ f.op = (IF m.sent = 0 THEN "text" ELSE "continuation")
      /\ f.final = (m.sent + n = m.len) /\ f.body = m.body /\ f.from = m.sent
  <2> HIDE DEF n
  <2> QED BY <1>2, <1>3 DEF Socket!Frame, FrameType, Op
<1>5. d = [r.c EXCEPT !.messages[1].sent = @ + r.n, !.messages[1].ack = @ + r.n + head]
  <2>1. Head(q) = m
    BY <1>1
  <2> QED BY <2>1 DEF Socket!SendNext
<1> HIDE DEF f, n, head
<1>6. /\ r.c \in SocketType /\ Quiet(c, r.c) /\ r.n \in 0..n
      /\ \/ Wrote(c, r.c, f, n, head) /\ r.n = n
         \/ Unwritten(c, r.c) /\ r.n = 0 /\ r.c.crossed
         \/ r.c.refused
  <2>1. Socket!HeadLen(n) = head
    BY DEF head
  <2> HIDE DEF r
  <2>2. r = Socket!SendFrame(c, f, n, fault)
    BY DEF r
  <2>3. /\ r.c \in SocketType /\ Quiet(c, r.c) /\ r.n \in 0..n
        /\ \/ Wrote(c, r.c, f, n, head) /\ r.n = n /\ Socket!Space(c) >= head
           \/ Unwritten(c, r.c) /\ r.n = 0 /\ (r.c.crossed \/ (r.c = c /\ Socket!Space(c) < head))
           \/ r.c.refused
    BY <1>1, <1>3, <1>4, <2>1, <2>2, SendFrameType
  <2>4. ~(Socket!Space(c) < head)
    <3>1. Socket!Space(c) \in Int
      BY <1>1, PushAssumption DEF SocketType, Socket!Space
    <3> QED BY <1>3, <3>1
  <2> QED BY <2>3, <2>4
<1> HIDE DEF r
<1>7. m2 \in Message /\ m2.sent = m.sent + r.n /\ m2.len = m.len /\ m2.body = m.body /\ m2.kind = m.kind
      /\ m2.status = m.status
  <2>1. r.n \in Nat /\ m.sent + r.n \in Nat /\ m.ack + r.n + head \in Nat
    <3>1. r.n \in Nat
      BY <1>3, <1>6
    <3>2. m.sent \in Nat /\ m.ack \in Nat
      BY <1>2
    <3>3. head \in Nat
      BY <1>3
    <3> QED BY <3>1, <3>2, <3>3
  <2>2. m2 \in Message
    BY <1>2, <2>1 DEF Message
  <2> QED BY <1>2, <2>2 DEF Message
<1>8. d = [r.c EXCEPT !.messages = [q EXCEPT ![1] = m2]]
  <2>1. r.c.messages = q
    BY <1>6 DEF Quiet
  <2>2. d = [r.c EXCEPT !.messages = [r.c.messages EXCEPT ![1] = [r.c.messages[1] EXCEPT !.sent = @ + r.n, !.ack = @ + r.n + head]]]
    BY <1>1, <1>5, <1>6, <2>1 DEF SocketType, Message
  <2> QED BY <2>1, <2>2
<1> HIDE DEF m2
<1> DEFINE p == [q EXCEPT ![1] = m2]
<1>9. /\ p \in Seq(Message) /\ p # <<>> /\ DOMAIN p = DOMAIN q /\ p[1] = m2
      /\ From(q, p) /\ Bodies(p) = Bodies(q)
  <2> HIDE DEF q
  <2> QED BY <1>1, <1>7, WithFront DEF q
<1>10. QueueOK(p, c.taken, k)
  <2>1. m2.sent <= m2.len
    BY <1>2, <1>3, <1>6, <1>7
  <2> HIDE DEF q
  <2> QED BY <1>1, <1>7, <2>1, FrontQueueOK DEF q
<1> HIDE DEF p
<1>11. d \in SocketType /\ d.messages = p /\ Rest(r.c, d)
  <2>1. d = [r.c EXCEPT !.messages = p]
    BY <1>8 DEF p
  <2> QED BY <1>6, <1>9, <2>1, WithMessages
<1>12. Stays(c, d)
  BY <1>6, <1>9, <1>11 DEF Stays, Rest, Quiet, Idle
<1>13. d.taken = c.taken /\ d.wire = r.c.wire /\ d.whole = r.c.whole /\ d.refused = r.c.refused
  BY <1>6, <1>11 DEF Rest, Quiet
<1>14. ~d.refused => WireOK(d.wire, d.whole, p, c.taken, k)
  <2>1. CASE Unwritten(c, r.c) /\ r.n = 0
    <3>1. m2.sent = m.sent
      BY <1>2, <1>7, <2>1
    <3>2. ~d.refused => WireOK(c.wire, c.whole, q, c.taken, k)
      BY <1>13, <2>1 DEF Good, Unwritten
    <3>3. d.wire = c.wire /\ d.whole = c.whole
      BY <1>13, <2>1 DEF Unwritten
    <3> HIDE DEF q
    <3> QED BY <1>1, <1>7, <1>9, <3>1, <3>2, <3>3, SameWireOK DEF q
  <2>2. CASE Wrote(c, r.c, f, n, head) /\ r.n = n
    <3> DEFINE g == [f EXCEPT !.len = n, !.carried = n]
    <3>1. g \in FrameType /\ g.op = f.op /\ g.final = f.final /\ g.body = f.body /\ g.from = f.from
          /\ g.len = n /\ g.carried = n
      BY <1>3, <1>4 DEF FrameType
    <3>2. OnWire(c, r.c, g)
      BY <2>2 DEF Wrote
    <3>3. c.wire \in Seq(FrameType)
      BY <1>1 DEF SocketType
    <3> HIDE DEF g, q
    <3>4. d.wire = Append(IF c.wire = <<>> THEN c.wire ELSE <<Socket!Last(c.wire)>>, g)
          /\ d.whole = IF g.final THEN c.whole \cup {g.body} ELSE c.whole
      BY <1>2, <1>4, <1>13, <3>1, <3>2 DEF OnWire
    <3>5. ~d.refused => WireOK(c.wire, c.whole, q, c.taken, k)
      BY <1>13, <2>2 DEF Good, Wrote, q
    <3>6. p[1].sent = m.sent + n
      BY <1>7, <1>9, <2>2
    <3>7. q # <<>> /\ m = q[1]
      BY DEF q
    <3>8. g.final <=> (m.sent + n = m.len)
      BY <1>4, <3>1
    <3>9. g.op = (IF m.sent = 0 THEN "text" ELSE "continuation") /\ g.body = m.body /\ g.from = m.sent
      BY <1>4, <3>1
    <3>10. p[1].len = m.len /\ p[1].body = m.body
      BY <1>7, <1>9
    <3> HAVE ~d.refused
    <3>11. WireOK(c.wire, c.whole, q, c.taken, k)
      BY <3>5
    <3>12. WireOK(Append(IF c.wire = <<>> THEN c.wire ELSE <<Socket!Last(c.wire)>>, g),
                  IF g.final THEN c.whole \cup {g.body} ELSE c.whole, p, c.taken, k)
      BY <1>1, <1>2, <1>3, <1>9, <3>1, <3>3, <3>6, <3>7, <3>8, <3>9, <3>10, <3>11, NextFrameOK
    <3> QED BY <3>4, <3>12
  <2> QED BY <1>6, <1>13, <2>1, <2>2
<1>15. Advances(c, d)
  <2>1. d.open = c.open /\ d.controls = c.controls /\ d.crossed = r.c.crossed /\ d.refused = r.c.refused
        /\ d.unacked = r.c.unacked
    BY <1>6, <1>11 DEF Rest, Idle, Quiet
  <2>2. CASE Wrote(c, r.c, f, n, head) /\ r.n = n
    <3>1. Troubled(c) => Troubled(d)
      BY <2>1, <2>2 DEF Wrote, Troubled
    <3>2. GoneOn(c, d, n, head)
      BY <1>11, <2>1, <2>2 DEF Wrote, GoneOn, p, m2, q
    <3>3. n \in Nat \ {0} /\ head \in {2, 4}
      BY <1>3
    <3> QED BY <2>1, <3>1, <3>2, <3>3 DEF Advances
  <2>3. CASE r.c.crossed \/ r.c.refused
    BY <2>1, <2>3 DEF Advances, Troubled
  <2> QED BY <1>6, <2>2, <2>3
<1>16. Levels(c, d)
  <2>1. m.sent <= m.len
    BY <1>2
  <2>2. d \in SocketType
    BY <1>11
  <2> HIDE DEF q, p, r
  <2> QED BY <1>1, <1>15, <2>1, <2>2, AdvancesLevels
<1> QED BY <1>10, <1>11, <1>12, <1>13, <1>14, <1>15, <1>16 DEF Good, Sends

\* The front message counts or finishes, and nothing else changes.
LEMMA FrontOnly ==
  ASSUME NEW c, NEW k \in Nat, Good(c, k), c.messages # <<>>, NEW m, m = c.messages[1],
         NEW m2 \in Message, m2.kind = m.kind, m2.body = m.body, m2.len = m.len, m2.sent = m.sent,
         m2.status = "sent" => m2.sent = m2.len,
         NEW d, d = [c EXCEPT !.messages = [c.messages EXCEPT ![1] = m2]]
  PROVE  Good(d, k) /\ Stays(c, d) /\ Rest(c, d)
<1> DEFINE q == c.messages
           p == [q EXCEPT ![1] = m2]
<1>1. c \in SocketType /\ q \in Seq(Message) /\ QueueOK(q, c.taken, k) /\ 1 \in DOMAIN q /\ q # <<>>
  BY DEF Good, SocketType
<1>2. m \in Message /\ m = q[1]
  BY <1>1
<1> HIDE DEF q
<1>3. m2.sent <= m2.len
  BY <1>1, <1>2 DEF QueueOK
<1>4. p \in Seq(Message) /\ p # <<>> /\ p[1] = m2 /\ From(q, p) /\ Bodies(p) = Bodies(q)
  BY <1>1, <1>2, WithFront
<1>5. QueueOK(p, c.taken, k)
  BY <1>1, <1>2, <1>3, FrontQueueOK
<1>6. d = [c EXCEPT !.messages = p]
  BY DEF q
<1> HIDE DEF p
<1>7. d \in SocketType /\ d.messages = p /\ Rest(c, d)
  BY <1>1, <1>4, <1>6, WithMessages
<1>8. Stays(c, d)
  BY <1>4, <1>7 DEF Stays, Rest, q
<1>9. d.refused \/ WireOK(d.wire, d.whole, p, c.taken, k)
  <2> SUFFICES ASSUME ~d.refused PROVE WireOK(d.wire, d.whole, p, c.taken, k)
    OBVIOUS
  <2>1. WireOK(c.wire, c.whole, q, c.taken, k)
    BY <1>7 DEF Good, Rest, q
  <2>2. WireOK(c.wire, c.whole, p, c.taken, k)
    BY <1>1, <1>2, <1>4, <2>1, SameWireOK
  <2> QED BY <1>7, <2>2 DEF Rest
<1> QED BY <1>5, <1>7, <1>8, <1>9 DEF Good, Rest

\* What the front message does when it is to send: it waits, sends, or finishes.
Finishes(c, d, status) == d = [c EXCEPT !.messages = [c.messages EXCEPT ![1] = [c.messages[1] EXCEPT !.status = status]]]

LEMMA SendMessageIs ==
  ASSUME NEW c, NEW k \in Nat, Good(c, k), c.messages # <<>>, NEW m, m = c.messages[1], m.status = "sending",
         NEW fault, NEW d, d = Socket!SendMessage(c, fault)
  PROVE  \/ m.acked < m.ack /\ d = c
         \/ m.sent < m.len /\ d = Socket!SendNext(c, fault)
         \/ /\ m.sent = m.len /\ m.acked >= m.ack
            /\ \E status \in {"sending", "sent"} : Finishes(c, d, status) /\ (m.acked = m.ack => status = "sent")
<1> DEFINE q == c.messages
<1>1. q \in Seq(Message) /\ 1 \in DOMAIN q /\ Head(q) = m
  BY DEF Good, SocketType
<1>2. m.sent \in Nat /\ m.len \in Nat /\ m.acked \in Nat /\ m.ack \in Nat /\ m.sent <= m.len
  <2>1. m \in Message
    BY <1>1
  <2>2. m.sent <= m.len
    BY <1>1 DEF Good, QueueOK
  <2> QED BY <2>1, <2>2, MessageHas, PushAssumption
<1>3. CASE m.acked < m.ack
  BY <1>1, <1>3 DEF Socket!SendMessage, Socket!SendBasic, Socket!SendMulti
<1>4. CASE ~(m.acked < m.ack) /\ m.sent < m.len
  <2>1. m.acked >= m.ack
    BY <1>2, <1>4
  <2> QED BY <1>1, <1>4, <2>1 DEF Socket!SendMessage, Socket!SendBasic, Socket!SendMulti, Socket!Finished
<1>5. CASE ~(m.acked < m.ack) /\ ~(m.sent < m.len)
  <2>1. m.sent = m.len /\ m.acked >= m.ack
    BY <1>2, <1>5
  <2>2. d = [c EXCEPT !.messages[1].status = "sent"]
        \/ d = [c EXCEPT !.messages[1].status = IF m.acked = m.ack THEN "sent" ELSE @]
    BY <1>1, <1>5 DEF Socket!SendMessage, Socket!SendBasic, Socket!SendMulti, Socket!Finished
  <2>3. \/ d = [c EXCEPT !.messages[1].status = "sent"]
        \/ m.acked # m.ack /\ d = [c EXCEPT !.messages[1].status = "sending"]
    BY <2>2
  <2> QED BY <2>1, <2>3 DEF Finishes
<1> QED BY <1>3, <1>4, <1>5

LEMMA SendMessageOK ==
  ASSUME NEW c, NEW k \in Nat, Good(c, k), c.messages # <<>>, c.messages[1].status = "sending",
         Socket!FrameWindow(c) > 0, NEW fault \in Socket!Fault, NEW d, d = Socket!SendMessage(c, fault)
  PROVE  Good(d, k) /\ Sends(c, d)
<1> DEFINE q == c.messages
           m == q[1]
<1>1. q \in Seq(Message) /\ 1 \in DOMAIN q
  BY DEF Good, SocketType
<1>2. m \in Message
  BY <1>1
<1>3. \/ d = c
      \/ m.sent < m.len /\ d = Socket!SendNext(c, fault)
      \/ /\ m.sent = m.len /\ m.acked >= m.ack
         /\ \E status \in {"sending", "sent"} : Finishes(c, d, status)
  <2> HIDE DEF m
  <2>1. m = c.messages[1]
    BY DEF m
  <2> QED BY <2>1, SendMessageIs
<1>4. CASE d = c
  BY <1>4, SendsNothing
<1>5. CASE m.sent < m.len /\ d = Socket!SendNext(c, fault)
  BY <1>5, SendNextOK
<1>6. ASSUME m.sent = m.len, m.acked >= m.ack, NEW status \in {"sending", "sent"}, Finishes(c, d, status)
      PROVE  Good(d, k) /\ Sends(c, d)
  <2> DEFINE m2 == [m EXCEPT !.status = status]
  <2>1. m2 \in Message /\ m2.kind = m.kind /\ m2.body = m.body /\ m2.len = m.len /\ m2.sent = m.sent
    BY <1>2, <1>6 DEF Message
  <2>2. d = [c EXCEPT !.messages = [q EXCEPT ![1] = m2]]
    BY <1>6 DEF Finishes
  <2>3. m2.status = "sent" => m2.sent = m2.len
    BY <1>6, <2>1
  <2>4. m2.acked = m.acked /\ m2.ack = m.ack
    BY <1>2 DEF Message
  <2> HIDE DEF m2
  <2>5. Good(d, k) /\ Stays(c, d) /\ Rest(c, d)
    BY <2>1, <2>2, <2>3, FrontOnly
  <2>7. d.messages = [q EXCEPT ![1] = m2]
    BY <2>2 DEF Good, SocketType
  <2>6. Levels(c, d)
    <3> SUFFICES ASSUME NEW s \in Nat, Even(c, s) PROVE Even(d, s)
      BY <2>5 DEF Levels, Level, Troubled, Rest, Idle
    <3>1. c \in SocketType /\ d.unacked = c.unacked /\ c.unacked \in Nat /\ d.controls = c.controls
      BY <2>5, PushAssumption DEF Good, SocketType, Rest
    <3>2. Settled(m2)
      <4>1. Settled(m)
        BY <1>1 DEF Even, AllSettled
      <4>2. m.acked \in Int /\ m.ack \in Int
        BY <1>2, MessageHas, PushAssumption
      <4>3. m.acked = m.ack
        BY <1>6, <4>1, <4>2 DEF Settled
      <4> HIDE DEF m
      <4> QED BY <2>1, <2>4, <4>1, <4>3 DEF Settled
    <3>3. Owes(m2) = Owes(m)
      BY <2>4 DEF Owes
    <3>4. Balanced(c, s, m, d, s, m2)
      BY <3>1, <3>3 DEF Balanced
    <3> QED BY <2>1, <2>7, <3>1, <3>2, <3>4, FrontEven
  <2> QED BY <2>5, <2>6 DEF Sends
<1> QED BY <1>3, <1>4, <1>5, <1>6

\* A client with other control frames.
Controlled(c, q, crossed) == [c EXCEPT !.controls = q, !.crossed = crossed]

LEMMA WithControls ==
  ASSUME NEW c \in SocketType, NEW q \in Seq(ControlType), NEW crossed \in BOOLEAN,
         NEW d, d = Controlled(c, q, crossed)
  PROVE  /\ d \in SocketType /\ Idle(c, d) /\ d.messages = c.messages /\ d.status = c.status /\ d.taken = c.taken
         /\ d.wire = c.wire /\ d.whole = c.whole /\ d.refused = c.refused /\ d.unacked = c.unacked
         /\ d.controls = q /\ d.crossed = crossed
<1> USE DEF Controlled
<1>1. d \in SocketType
  BY DEF SocketType
<1>2. /\ Idle(c, d) /\ d.messages = c.messages /\ d.status = c.status /\ d.taken = c.taken
      /\ d.wire = c.wire /\ d.whole = c.whole /\ d.refused = c.refused /\ d.unacked = c.unacked
  BY DEF SocketType, Idle
<1>3. d.controls = q /\ d.crossed = crossed
  BY DEF SocketType
<1> QED BY <1>1, <1>2, <1>3

\* A control frame that fits is sent whole; the books wait for its answer, and one
\* that was sent before crosses it.
Asks(c, d) ==
  /\ d.messages = c.messages /\ (Troubled(c) => Troubled(d))
  /\ \/ Troubled(d)
     \/ /\ ~c.controls[1].finished
        /\ d.controls = [c.controls EXCEPT ![1] = [c.controls[1] EXCEPT !.finished = TRUE]]
        /\ c.controls[1].len < ShortLen => d.unacked = c.unacked + c.controls[1].len + 2

LEMMA AsksLevels ==
  ASSUME NEW c \in SocketType, c.controls # <<>>, NEW d \in SocketType, Asks(c, d)
  PROVE  Levels(c, d)
<1> SUFFICES ASSUME ~Troubled(c), ~Troubled(d), NEW s \in Nat, Even(c, s) PROVE Even(d, s)
  BY DEF Asks, Levels, Level
<1> DEFINE p == c.controls
           r == d.controls
           x == p[1]
           y == [x EXCEPT !.finished = TRUE]
           v == c.unacked
           n == x.len
           o == Outstanding(c.messages)
<1>1. p \in Seq(ControlType) /\ 1 \in DOMAIN p /\ x \in ControlType /\ n \in Nat /\ v \in Int
  <2>1. p \in Seq(ControlType) /\ 1 \in DOMAIN p /\ x \in ControlType
    BY DEF SocketType
  <2> QED BY <2>1, PushAssumption DEF ControlType, SocketType
<1>2. Waiting(p) /\ n < ShortLen /\ v + s = o + Answer(p)
  BY <1>1 DEF Even, Waiting
<1>3. ~x.finished /\ r = [p EXCEPT ![1] = y] /\ d.unacked = v + n + 2 /\ d.messages = c.messages
  BY <1>2 DEF Asks
<1>4. y \in ControlType /\ y.len = n /\ y.finished
  BY <1>1 DEF ControlType
<1>5. r # <<>> /\ r[1] = y /\ DOMAIN r = DOMAIN p /\ \A i \in DOMAIN r : i # 1 => r[i] = p[i]
  BY <1>1, <1>3
<1>6. Answer(p) = 0 /\ Answer(r) = n + 2
  BY <1>3, <1>4, <1>5 DEF Answer
<1>7. Waiting(r)
  <2> SUFFICES ASSUME NEW i \in DOMAIN r PROVE r[i].len < ShortLen /\ (i # 1 => ~r[i].finished)
    BY DEF Waiting
  <2>1. CASE i = 1
    BY <1>2, <1>4, <1>5, <2>1
  <2>2. CASE i # 1
    BY <1>2, <1>5, <2>2 DEF Waiting
  <2> QED BY <2>1, <2>2
<1>8. o \in Int
  <2>1. c.messages # <<>> => c.messages[1] \in Message
    BY DEF SocketType
  <2> QED BY <2>1, OwesInt DEF Outstanding
<1>9. d.unacked + s = o + Answer(r)
  <2> HIDE DEF v, n, o
  <2> QED BY <1>1, <1>2, <1>3, <1>6, <1>8
<1> QED BY <1>3, <1>7, <1>9 DEF Even

\* A control frame is not in the way of the messages.
LEMMA SendControlOK ==
  ASSUME NEW c, NEW k \in Nat, Good(c, k), c.controls # <<>>,
         Socket!FrameWindow(c) > Socket!ControlLen(c.controls[1]) - 1,
         NEW fault \in Socket!Fault, NEW d, d = Socket!SendControl(c, fault)
  PROVE  Good(d, k) /\ Sends(c, d) /\ Asks(c, d)
<1> DEFINE control == Head(c.controls)
           f == Socket!Frame(control.op, TRUE, 0, 0)
           len == control.len
           e == Socket!SendFrame(c, f, len, fault).c
           done == [control EXCEPT !.finished = TRUE]
           more == [c.controls EXCEPT ![1] = done]
<1>1. c \in SocketType /\ c.controls \in Seq(ControlType) /\ 1 \in DOMAIN c.controls
      /\ control \in ControlType /\ control = c.controls[1]
  BY DEF Good, SocketType
<1>2. f \in FrameType /\ f.body = 0
  BY <1>1 DEF Socket!Frame, FrameType, ControlType
<1>3. len \in Nat /\ control.finished \in BOOLEAN
  BY <1>1 DEF ControlType
<1> HIDE DEF f, len
<1>4. /\ e \in SocketType /\ Quiet(c, e)
      /\ e.refused \/ (e.wire = c.wire /\ e.whole = c.whole /\ e.refused = c.refused)
      /\ c.crossed => (e.crossed \/ e.refused)
      /\ e.crossed \/ e.refused \/ (len < ShortLen => e.unacked = c.unacked + len + 2)
  <2> DEFINE r == Socket!SendFrame(c, f, len, fault)
             head == Socket!HeadLen(len)
             n == Socket!Least(len, Socket!Space(c) - head)
  <2>1. r = Socket!SendFrame(c, f, len, fault) /\ head = Socket!HeadLen(len) /\ n = Socket!Least(len, Socket!Space(c) - head)
    OBVIOUS
  <2>2. e = r.c
    OBVIOUS
  <2> HIDE DEF r, head, n
  <2>3. /\ r.c \in SocketType /\ Quiet(c, r.c)
        /\ \/ Wrote(c, r.c, f, n, head)
           \/ Unwritten(c, r.c) /\ (r.c.crossed \/ (r.c = c /\ Socket!Space(c) < head))
           \/ r.c.refused
    BY <1>1, <1>2, <1>3, <2>1, SendFrameType
  <2>5. ~(Socket!Space(c) < head) /\ (len < ShortLen => head + n = len + 2)
    <3>1. Socket!Space(c) \in Int
      BY <1>1, PushAssumption DEF SocketType, Socket!Space
    <3>2. Socket!FrameWindow(c) > len + 1
      BY <1>1, <1>3 DEF Socket!ControlLen, len
    <3>3. Socket!Space(c) - 8 > len + 1 /\ head \in {2, 4}
      BY <1>3, <2>1, <3>1, <3>2 DEF Socket!FrameWindow, Socket!HeadLen
    <3>4. ~(Socket!Space(c) < head)
      BY <1>3, <3>1, <3>3
    <3>5. ASSUME len < ShortLen PROVE head + n = len + 2
      <4>1. head = 2
        BY <2>1, <3>5 DEF Socket!HeadLen
      <4>2. n = len
        BY <1>3, <2>1, <3>1, <3>3, <4>1 DEF Socket!Least
      <4> QED BY <1>3, <4>1, <4>2
    <3> QED BY <3>4, <3>5
  <2>6. /\ c.crossed => (r.c.crossed \/ r.c.refused)
        /\ r.c.crossed \/ r.c.refused \/ (len < ShortLen => r.c.unacked = c.unacked + len + 2)
    <3>1. ASSUME Wrote(c, r.c, f, n, head), len < ShortLen PROVE r.c.unacked = c.unacked + len + 2
      <4>1. r.c.unacked = c.unacked + head + n /\ c.unacked \in Int
        BY <1>1, <3>1, PushAssumption DEF Wrote, SocketType
      <4>2. head \in Int /\ n \in Int
        <5>1. Socket!Space(c) \in Int
          BY <1>1, PushAssumption DEF SocketType, Socket!Space
        <5>2. head \in Int
          BY <2>1 DEF Socket!HeadLen
        <5> QED BY <1>3, <2>1, <5>1, <5>2 DEF Socket!Least
      <4> QED BY <1>3, <2>5, <3>1, <4>1, <4>2
    <3>2. Wrote(c, r.c, f, n, head) => r.c.crossed = c.crossed
      BY DEF Wrote
    <3> QED BY <2>3, <2>5, <3>1, <3>2
  <2>4. Wrote(c, r.c, f, n, head) => (r.c.wire = c.wire /\ r.c.whole = c.whole /\ r.c.refused = c.refused)
    <3>1. [f EXCEPT !.len = n, !.carried = n].body = 0
      BY <1>2 DEF FrameType
    <3> QED BY <3>1 DEF Wrote, OnWire
  <2> QED BY <2>2, <2>3, <2>4, <2>6 DEF Unwritten
<1>5. done \in ControlType /\ more \in Seq(ControlType)
  <2>1. done \in ControlType
    BY <1>1 DEF ControlType
  <2> HIDE DEF done
  <2> QED BY <1>1, <2>1
<1>6. d = [e EXCEPT !.controls[1].finished = TRUE, !.crossed = @ \/ control.finished]
  BY DEF Socket!SendControl, f, len
<1> HIDE DEF e
<1>7. d = [e EXCEPT !.controls = more, !.crossed = e.crossed \/ control.finished]
  <2>1. e.controls = c.controls
    BY <1>4 DEF Quiet
  <2>2. d = [e EXCEPT !.controls = [e.controls EXCEPT ![1] = [e.controls[1] EXCEPT !.finished = TRUE]],
                      !.crossed = e.crossed \/ control.finished]
    BY <1>6
  <2> QED BY <1>1, <2>1, <2>2
<1>8. (e.crossed \/ control.finished) \in BOOLEAN
  OBVIOUS
<1> HIDE DEF more, done
<1>9. /\ d \in SocketType /\ Idle(e, d) /\ d.messages = e.messages /\ d.status = e.status /\ d.taken = e.taken
      /\ d.wire = e.wire /\ d.whole = e.whole /\ d.refused = e.refused /\ d.unacked = e.unacked /\ d.controls = more
      /\ d.crossed <=> (e.crossed \/ control.finished)
  <2>1. PICK crossed \in BOOLEAN : d = Controlled(e, more, crossed)
    BY <1>7 DEF Controlled
  <2>2. e \in SocketType /\ more \in Seq(ControlType)
    BY <1>4, <1>5
  <2>3. /\ d \in SocketType /\ Idle(e, d) /\ d.messages = e.messages /\ d.status = e.status /\ d.taken = e.taken
        /\ d.wire = e.wire /\ d.whole = e.whole /\ d.refused = e.refused /\ d.unacked = e.unacked
        /\ d.controls = more /\ d.crossed = crossed
    BY <2>1, <2>2, WithControls
  <2>4. d.crossed <=> (e.crossed \/ control.finished)
    BY <1>4, <1>7 DEF SocketType
  <2> QED BY <2>3, <2>4
<1>10. Stays(c, d)
  BY <1>4, <1>9 DEF Stays, Quiet, Idle, From
<1>12. Asks(c, d)
  <2>1. d.open = c.open /\ e.open = c.open
    BY <1>4, <1>9 DEF Quiet, Idle
  <2>2. Troubled(c) => Troubled(d)
    BY <1>4, <1>9, <2>1 DEF Troubled
  <2>3. Troubled(d) \/ (~control.finished /\ (len < ShortLen => d.unacked = c.unacked + len + 2))
    BY <1>4, <1>9, <2>1 DEF Troubled
  <2> QED BY <1>1, <1>4, <1>9, <2>2, <2>3 DEF Asks, Quiet, more, done, len
<1>13. Levels(c, d)
  BY <1>1, <1>9, <1>12, AsksLevels
<1>11. d.messages = c.messages /\ d.taken = c.taken
       /\ (d.refused \/ (d.wire = c.wire /\ d.whole = c.whole /\ d.refused = c.refused))
  BY <1>4, <1>9 DEF Quiet
<1> QED BY <1>9, <1>10, <1>11, <1>12, <1>13 DEF Good, Sends

\* _runQueue
LEMMA RunQueueOK ==
  ASSUME NEW c, NEW k \in Nat, Good(c, k), NEW fault \in Socket!Fault, NEW d, d = Socket!RunQueue(c, fault)
  PROVE  /\ Good(d, k) /\ Sends(c, d)
         /\ From(Socket!DropFinished(c).messages, d.messages)
<1> DEFINE e == Socket!DropFinished(c)
           clear == e.messages = <<>> \/ Socket!BetweenFrames(Head(e.messages))
           first == e.controls # <<>> /\ clear /\ Socket!FrameWindow(e) > Socket!ControlLen(Head(e.controls)) - 1
<1>1. Good(e, k) /\ Sends(c, e) /\ (e.messages # <<>> => e.messages[1].status = "sending")
  BY DropFinishedOK
<1>2. d = CASE first -> Socket!SendControl(e, fault)
            [] ~first /\ e.messages # <<>> /\ clear /\ Socket!FrameWindow(e) > 0 -> Socket!SendMessage(e, fault)
            [] OTHER -> e
  BY DEF Socket!RunQueue
<1>3. \/ first /\ d = Socket!SendControl(e, fault)
      \/ e.messages # <<>> /\ Socket!FrameWindow(e) > 0 /\ d = Socket!SendMessage(e, fault)
      \/ d = e
  <2> HIDE DEF clear, e
  <2>1. CASE first
    BY <1>2, <2>1
  <2>2. CASE ~first /\ e.messages # <<>> /\ clear /\ Socket!FrameWindow(e) > 0
    BY <1>2, <2>2
  <2>3. CASE ~first /\ ~(e.messages # <<>> /\ clear /\ Socket!FrameWindow(e) > 0)
    BY <1>2, <2>3
  <2> QED BY <2>1, <2>2, <2>3
<1>4. first => (e.controls # <<>> /\ Socket!FrameWindow(e) > Socket!ControlLen(e.controls[1]) - 1)
  OBVIOUS
<1> HIDE DEF e, first
<1>5. Good(d, k) /\ (d = e \/ Sends(e, d))
  BY <1>1, <1>3, <1>4, SendControlOK, SendMessageOK
<1>6. From(e.messages, d.messages)
  BY <1>5, SendsNothing DEF Sends, Stays
<1> QED BY <1>1, <1>5, <1>6, SendsAfter DEF e

LEMMA RunIfCanSendOK ==
  ASSUME NEW c, NEW k \in Nat, Good(c, k), NEW fault \in Socket!Fault, NEW d, d = Socket!RunIfCanSend(c, fault)
  PROVE  Good(d, k) /\ Sends(c, d)
<1>1. Sends(c, c)
  BY SendsNothing
<1> QED BY <1>1, RunQueueOK DEF Socket!RunIfCanSend

\* A front message that has been paid for sends its next frame or is finished.
LEMMA FrontGoesOn ==
  ASSUME NEW c, NEW k \in Nat, Good(c, k), c.messages # <<>>, c.messages[1].status = "sending",
         c.messages[1].acked = c.messages[1].ack, Socket!FrameWindow(c) > 0,
         NEW d, d = Socket!SendMessage(c, "none")
  PROVE  Advances(c, d) \/ Finishes(c, d, "sent")
<1> DEFINE m == c.messages[1]
<1>1. m = c.messages[1] /\ m.acked = m.ack /\ m.status = "sending"
  OBVIOUS
<1>2. m.ack \in Nat
  <2>1. m \in Message
    BY DEF Good, SocketType
  <2> HIDE DEF m
  <2> QED BY <2>1, MessageHas
<1> HIDE DEF m
<1>3. \/ m.acked < m.ack
      \/ m.sent < m.len /\ d = Socket!SendNext(c, "none")
      \/ \E status \in {"sending", "sent"} : Finishes(c, d, status) /\ (m.acked = m.ack => status = "sent")
  BY <1>1, SendMessageIs
<1>4. ~(m.acked < m.ack)
  <2> DEFINE a == m.ack
  <2>1. a \in Nat /\ m.acked = a
    BY <1>1, <1>2
  <2> HIDE DEF a
  <2>2. ~(a < a)
    BY <2>1
  <2> QED BY <2>1, <2>2 DEF a
<1>5. CASE m.sent < m.len /\ d = Socket!SendNext(c, "none")
  <2>1. "none" \in Socket!Fault
    BY DEF Socket!Fault
  <2> QED BY <1>1, <1>5, <2>1, SendNextOK
<1> QED BY <1>1, <1>3, <1>4, <1>5

\* The queue of a client with even books and an empty window goes on.
LEMMA SocketGoesOn ==
  ASSUME NEW c, NEW k \in Nat, Good(c, k), Even(c, 0), ~Troubled(c), c.unacked = 0,
         c.messages # <<>> \/ c.controls # <<>>,
         NEW d, d = Socket!OnPoll(c, FALSE, 0, "none")
  PROVE  d # c
<1> SUFFICES ASSUME d = c PROVE FALSE
  OBVIOUS
<1> DEFINE q == c.messages
           p == c.controls
<1>1. /\ c \in SocketType /\ q \in Seq(Message) /\ QueueOK(q, c.taken, k) /\ p \in Seq(ControlType)
      /\ c.open /\ AllSettled(q) /\ Waiting(p) /\ c.unacked + 0 = Outstanding(q) + Answer(p)
  BY DEF Good, SocketType, Troubled, Even
<1>2. q # <<>> => (1 \in DOMAIN q /\ q[1] \in Message /\ Settled(q[1]))
  BY <1>1 DEF AllSettled
<1>3. p # <<>> => (1 \in DOMAIN p /\ p[1] \in ControlType /\ p[1].len \in Nat /\ p[1].len < ShortLen)
  <2> HAVE p # <<>>
  <2>1. 1 \in DOMAIN p /\ p[1] \in ControlType
    BY <1>1
  <2> QED BY <1>1, <2>1 DEF Waiting, ControlType
<1>4. Socket!Space(c) = SndBuf /\ Socket!FrameWindow(c) = SndBuf - 8 /\ SndBuf - 8 > ShortLen /\ Socket!CanSend(c)
  <2>1. SndBuf \in Nat /\ ShortLen \in Nat /\ SndBuf > ShortLen + 8
    BY PushAssumption, WindowAssumption
  <2>2. Socket!Space(c) = SndBuf
    BY <1>1, <2>1 DEF Socket!Space
  <2>3. SndBuf - 8 > ShortLen /\ SndBuf > 0 /\ ~(SndBuf < 9)
    BY <2>1
  <2> QED BY <2>2, <2>3 DEF Socket!FrameWindow, Socket!CanSend
<1>5. d = Socket!RunQueue(c, "none")
  BY <1>4 DEF Socket!OnPoll
<1>6. Outstanding(q) = 0 /\ Answer(p) = 0
  <2>1. Outstanding(q) \in Nat
    <3>1. CASE q = <<>>
      BY <3>1 DEF Outstanding
    <3>2. CASE q # <<>>
      <4>1. q[1].ack \in Nat /\ q[1].acked \in Nat /\ q[1].acked <= q[1].ack
        BY <1>2, <3>2, MessageHas, PushAssumption DEF Settled
      <4>2. Owes(q[1]) \in Nat
        BY <4>1 DEF Owes
      <4> QED BY <3>2, <4>2 DEF Outstanding
    <3> QED BY <3>1, <3>2
  <2>2. Answer(p) \in Nat
    BY <1>3 DEF Answer
  <2> QED BY <1>1, <2>1, <2>2
<1>7. p # <<>> => ~p[1].finished
  <2> HAVE p # <<>>
  <2>1. p[1].finished => Answer(p) = p[1].len + 2
    BY DEF Answer
  <2>2. p[1].len + 2 # 0
    BY <1>3
  <2> QED BY <1>6, <2>1, <2>2
<1>8. q # <<>> => q[1].acked = q[1].ack
  <2> HAVE q # <<>>
  <2>1. Owes(q[1]) = 0
    BY <1>6 DEF Outstanding
  <2>2. q[1].ack \in Int /\ q[1].acked \in Int
    BY <1>2, MessageHas, PushAssumption
  <2> QED BY <2>1, <2>2 DEF Owes
<1> DEFINE e == Socket!DropFinished(c)
<1>9. e = [c EXCEPT !.messages = IF q # <<>> /\ q[1].status = "sent" THEN Tail(q) ELSE q]
  BY <1>1, DropFinishedIs
<1>10. From(e.messages, q)
  <2>1. From(e.messages, d.messages)
    <3> HIDE DEF q, p
    <3>1. "none" \in Socket!Fault
      BY DEF Socket!Fault
    <3> QED BY <1>5, <3>1, RunQueueOK
  <2> QED BY <2>1
<1>11. ~(q # <<>> /\ q[1].status = "sent")
  <2> SUFFICES ASSUME q # <<>>, q[1].status = "sent" PROVE FALSE
    OBVIOUS
  <2> DEFINE rest == Tail(q)
  <2>1. e.messages = rest
    BY <1>1, <1>9 DEF SocketType
  <2>2. \A j \in DOMAIN rest : rest[j] = q[j + 1] /\ j + 1 \in DOMAIN q /\ j \in Nat /\ 1 < j + 1
    BY <1>1
  <2> HIDE DEF q, e, rest
  <2>3. PICK j \in DOMAIN rest : q[1].body = rest[j].body
    BY <1>2, <1>10, <2>1 DEF From
  <2>4. q[1].body < q[j + 1].body /\ q[j + 1].body = q[1].body
    BY <1>1, <1>2, <2>2, <2>3 DEF QueueOK
  <2>5. q[1].body \in Nat
    BY <1>2, MessageHas
  <2> QED BY <2>4, <2>5
<1>12. e = c
  BY <1>1, <1>9, <1>11 DEF SocketType
<1>13. q = <<>> \/ Socket!BetweenFrames(Head(q))
  BY <1>1, <1>8 DEF Socket!BetweenFrames
<1>14. p # <<>> => Socket!FrameWindow(c) > Socket!ControlLen(Head(p)) - 1 /\ Head(p) = p[1]
  <2> HAVE p # <<>>
  <2> DEFINE control == Head(p)
             window == Socket!FrameWindow(c)
  <2>1. control = p[1]
    BY <1>1
  <2>2. SndBuf \in Nat /\ ShortLen \in Nat
    BY PushAssumption
  <2>3. window = SndBuf - 8 /\ SndBuf - 8 > ShortLen
    BY <1>4
  <2>4. control.len \in Nat /\ control.len < ShortLen
    BY <1>3, <2>1
  <2> HIDE DEF control, window
  <2>5. window > Socket!ControlLen(control) - 1
    BY <2>2, <2>3, <2>4 DEF Socket!ControlLen
  <2> QED BY <2>1, <2>5 DEF control, window
<1>15. CASE p # <<>>
  <2>1. d = Socket!SendControl(c, "none")
    <3> HIDE DEF e
    <3> QED BY <1>5, <1>12, <1>13, <1>14, <1>15 DEF Socket!RunQueue, e
  <2>2. "none" \in Socket!Fault /\ Socket!FrameWindow(c) > Socket!ControlLen(p[1]) - 1
    BY <1>14, <1>15 DEF Socket!Fault
  <2>3. Asks(c, d)
    BY <1>15, <2>1, <2>2, SendControlOK
  <2>4. p = [p EXCEPT ![1] = [p[1] EXCEPT !.finished = TRUE]]
    BY <2>3 DEF Asks
  <2>5. [p[1] EXCEPT !.finished = TRUE].finished
    BY <1>3, <1>15 DEF ControlType
  <2>6. p[1].finished
    BY <1>1, <1>3, <1>15, <2>4, <2>5
  <2> QED BY <1>7, <1>15, <2>6
<1>16. CASE p = <<>>
  <2> DEFINE m == q[1]
  <2>1. q # <<>> /\ m \in Message /\ m.status = "sending" /\ m.acked = m.ack /\ m.ack \in Nat
    <3>1. q # <<>> /\ m \in Message /\ m.acked = m.ack
      BY <1>2, <1>8, <1>16
    <3>2. m.status \in {"sending", "sent"} /\ m.ack \in Nat
      BY <3>1, MessageHas
    <3> QED BY <1>11, <3>1, <3>2
  <2>2. Socket!FrameWindow(c) > 0
    BY <1>4, PushAssumption
  <2>3. d = Socket!SendMessage(c, "none")
    <3> HIDE DEF e
    <3> QED BY <1>5, <1>12, <1>13, <1>16, <2>1, <2>2 DEF Socket!RunQueue, e
  <2> HIDE DEF m
  <2>4. m = c.messages[1]
    BY DEF m
  <2>5. Advances(c, d) \/ Finishes(c, d, "sent")
    BY <2>1, <2>2, <2>3, <2>4, FrontGoesOn
  <2>6. CASE Advances(c, d)
    <3>1. PICK n \in Nat \ {0}, head \in {2, 4} : GoneOn(c, d, n, head)
      BY <2>6 DEF Advances
    <3>2. c.unacked = c.unacked + head + n
      BY <3>1 DEF GoneOn
    <3> QED BY <3>2
  <2>7. CASE Finishes(c, d, "sent")
    <3>1. q = [q EXCEPT ![1] = [m EXCEPT !.status = "sent"]]
      <4>1. c = [c EXCEPT !.messages = [q EXCEPT ![1] = [m EXCEPT !.status = "sent"]]]
        BY <2>4, <2>7 DEF Finishes
      <4>2. [c EXCEPT !.messages = [q EXCEPT ![1] = [m EXCEPT !.status = "sent"]]].messages
              = [q EXCEPT ![1] = [m EXCEPT !.status = "sent"]]
        BY <1>1 DEF SocketType
      <4> QED BY <4>1, <4>2
    <3>2. [m EXCEPT !.status = "sent"].status = "sent"
      BY <2>1 DEF Message
    <3>3. m.status = "sent"
      BY <1>1, <1>2, <2>1, <2>4, <3>1, <3>2
    <3> QED BY <2>1, <3>3
  <2> QED BY <2>1, <2>5, <2>6, <2>7
<1> QED BY <1>15, <1>16

\* A later call changes nothing for a client it does not reach.
LEMMA LaterOK ==
  ASSUME NEW c, NEW k \in Nat, Good(c, k)
  PROVE  Good(c, k + 1)
<1>1. QueueOK(c.messages, c.taken, k) => QueueOK(c.messages, c.taken, k + 1)
  <2>1. 1..k \subseteq 1..(k + 1)
    OBVIOUS
  <2>2. \A n \in Nat : n <= k => n <= k + 1
    OBVIOUS
  <2>3. c.messages \in Seq(Message)
    BY DEF Good, SocketType
  <2>4. \A i \in DOMAIN c.messages : c.messages[i].body \in Nat
    BY <2>3, MessageHas
  <2> QED BY <2>1, <2>2, <2>4 DEF QueueOK
<1>2. WireOK(c.wire, c.whole, c.messages, c.taken, k) => WireOK(c.wire, c.whole, c.messages, c.taken, k + 1)
  <2>1. c.wire \in Seq(FrameType)
    BY DEF Good, SocketType
  <2>2. c.wire # <<>> => c.wire[Len(c.wire)].body \in Nat
    <3> HAVE c.wire # <<>>
    <3>1. c.wire[Len(c.wire)] \in FrameType
      BY <2>1
    <3> QED BY <3>1 DEF FrameType
  <2>3. \A n \in Nat : n <= k => n <= k + 1
    OBVIOUS
  <2> QED BY <2>2, <2>3 DEF WireOK
<1> QED BY <1>1, <1>2 DEF Good

\* A message queued is of this call, or was queued before.
Queues(c, d, m) ==
  /\ Idle(c, d) /\ d.status = c.status /\ Levels(c, d)
  /\ \A i \in DOMAIN d.messages :
       \/ d.messages[i].kind = m.kind /\ d.messages[i].body = m.body
       \/ \E j \in DOMAIN c.messages : d.messages[i].kind = c.messages[j].kind /\ d.messages[i].body = c.messages[j].body

\* A message waits behind those of earlier calls.
Queued(c, m) ==
  [c EXCEPT !.messages = Append(@, m), !.taken = IF m.len = 0 THEN @ ELSE @ \cup {m.body}]

Fresh(m) == m.sent = 0 /\ m.ack = 0 /\ m.acked = 0 /\ m.status = "sending" /\ 5 * m.len < SizeT

LEMMA AppendOK ==
  ASSUME NEW c, NEW k \in Nat, Good(c, k), Len(c.messages) < MaxQueued,
         NEW m \in Message, m.body = k + 1, Fresh(m), NEW d, d = Queued(c, m)
  PROVE  Good(d, k + 1) /\ Idle(c, d) /\ d.status = c.status /\ d.messages = Append(c.messages, m) /\ Levels(c, d)
<1>0. m.sent = 0 /\ m.status = "sending"
  BY DEF Fresh
<1> DEFINE q == c.messages
           p == Append(q, m)
           taken == IF m.len = 0 THEN c.taken ELSE c.taken \cup {m.body}
<1>1. c \in SocketType /\ q \in Seq(Message) /\ QueueOK(q, c.taken, k) /\ c.taken \subseteq 1..k /\ Len(q) \in Nat
  <2>1. c \in SocketType /\ q \in Seq(Message) /\ QueueOK(q, c.taken, k)
    BY DEF Good, SocketType
  <2>2. Len(q) \in Nat
    <3> HIDE DEF q
    <3> QED BY <2>1
  <2> QED BY <2>1, <2>2 DEF QueueOK
<1>2. m.body \in Nat /\ m.len \in Nat /\ m.sent = 0 /\ m.status = "sending" /\ m.sent <= m.len
  BY <1>0, MessageHas
<1>3. taken \in SUBSET Nat /\ taken \subseteq 1..(k + 1) /\ (m.len = 0 => m.body \notin taken)
      /\ \A b \in 1..k : b \in taken <=> b \in c.taken
  BY <1>1, <1>2
<1>4. /\ p \in Seq(Message) /\ Len(p) = Len(q) + 1 /\ p # <<>>
      /\ \A i \in 1..Len(q) : p[i] = q[i]
      /\ p[Len(q) + 1] = m
  <2> HIDE DEF q
  <2> QED BY <1>1, AppendProperties
<1>5. d = [c EXCEPT !.messages = p, !.taken = taken]
  BY DEF Queued
<1> HIDE DEF p, taken, q
<1>6. d \in SocketType /\ d.messages = p /\ d.taken = taken
  BY <1>1, <1>3, <1>4, <1>5 DEF SocketType
<1>7. Idle(c, d) /\ d.status = c.status /\ d.wire = c.wire /\ d.whole = c.whole /\ d.refused = c.refused
  BY <1>1, <1>5 DEF SocketType, Idle
<1>8. DOMAIN p = 1..(Len(q) + 1) /\ DOMAIN q = 1..Len(q)
  BY <1>1, <1>4
<1>9. \A i \in DOMAIN q : q[i] \in Message /\ q[i].body \in Nat /\ q[i].body # 0 /\ q[i].sent \in Nat /\ q[i].len \in Nat
  <2> TAKE i \in DOMAIN q
  <2>1. q[i] \in Message
    BY <1>1
  <2> QED BY <2>1, MessageHas
<1>10. \A i \in DOMAIN q : q[i].body <= k
  BY <1>1 DEF QueueOK
<1>11. QueueOK(p, taken, k + 1)
  <2>1. Len(p) <= MaxQueued
    BY <1>1, <1>4, PushAssumption DEF q
  <2>2. ASSUME NEW i \in DOMAIN p
        PROVE  /\ p[i].sent <= p[i].len /\ p[i].body <= k + 1
               /\ p[i].len = 0 => p[i].body \notin taken
               /\ p[i].status = "sent" => (i = 1 /\ p[i].sent = p[i].len)
               /\ i # 1 => p[i].sent = 0
    <3>1. CASE i \in DOMAIN q
      <4>1. p[i] = q[i]
        BY <1>4, <1>8, <3>1
      <4>2. /\ q[i].sent <= q[i].len /\ q[i].body <= k
            /\ q[i].len = 0 => q[i].body \notin c.taken
            /\ q[i].status = "sent" => (i = 1 /\ q[i].sent = q[i].len)
            /\ i # 1 => q[i].sent = 0
        BY <1>1, <3>1 DEF QueueOK
      <4>3. q[i].body \in 1..k /\ q[i].body <= k + 1
        BY <1>9, <3>1, <4>2
      <4> QED BY <1>3, <4>1, <4>2, <4>3
    <3>2. CASE i = Len(q) + 1
      BY <1>2, <1>3, <1>4, <3>2
    <3> QED BY <1>1, <1>8, <3>1, <3>2
  <2>3. ASSUME NEW i \in DOMAIN p, NEW j \in DOMAIN p, i < j
        PROVE  p[i].body < p[j].body
    <3>1. i \in DOMAIN q /\ p[i] = q[i]
      BY <1>1, <1>4, <1>8, <2>3
    <3>2. CASE j \in DOMAIN q
      BY <1>1, <1>4, <1>8, <2>3, <3>1, <3>2 DEF QueueOK
    <3>3. CASE j = Len(q) + 1
      <4>1. q[i].body <= k /\ q[i].body \in Nat /\ p[j].body = k + 1
        BY <1>4, <1>9, <1>10, <3>1, <3>3
      <4> QED BY <3>1, <4>1
    <3> QED BY <1>1, <1>8, <3>2, <3>3
  <2> QED BY <1>3, <2>1, <2>2, <2>3 DEF QueueOK
<1>12. d.refused \/ WireOK(d.wire, d.whole, p, taken, k + 1)
  <2> SUFFICES ASSUME ~d.refused PROVE WireOK(c.wire, c.whole, p, taken, k + 1)
    BY <1>7
  <2> DEFINE w == c.wire
             f == w[Len(w)]
  <2>1. WireOK(w, c.whole, q, c.taken, k)
    BY <1>7 DEF Good, q
  <2>2. w # <<>> => f \in FrameType /\ f.body \in Nat /\ f.body <= k
    <3> HAVE w # <<>>
    <3>1. w \in Seq(FrameType)
      BY <1>1 DEF SocketType
    <3>2. f \in FrameType
      BY <3>1
    <3> QED BY <2>1, <3>2 DEF FrameType, WireOK
  <2>3. w # <<>> => f.body <= k + 1
    BY <2>2
  <2>4. w # <<>> => Reached(f, p[1])
    <3> HAVE w # <<>>
    <3>1. CASE q = <<>>
      <4>1. p[1] = m
        <5>1. Len(q) = 0
          BY <3>1
        <5> QED BY <1>4, <5>1
      <4>2. f.final
        BY <2>1, <3>1 DEF WireOK
      <4>3. f.body < m.body
        BY <2>2
      <4> QED BY <1>2, <4>1, <4>2, <4>3 DEF Reached
    <3>2. CASE q # <<>>
      <4>1. p[1] = q[1]
        BY <1>1, <1>4, <3>2
      <4> QED BY <2>1, <3>2, <4>1 DEF WireOK
    <3> QED BY <3>1, <3>2
  <2>5. w = <<>> => p[1].sent = 0
    <3>1. CASE q = <<>>
      <4>1. Len(q) = 0
        BY <3>1
      <4>2. p[1] = m
        BY <1>4, <4>1
      <4> QED BY <1>2, <4>2
    <3>2. CASE q # <<>>
      <4>1. p[1] = q[1]
        BY <1>1, <1>4, <3>2
      <4> QED BY <2>1, <3>2, <4>1 DEF WireOK
    <3> QED BY <3>1, <3>2
  <2>6. taken \ Bodies(p) \subseteq c.whole
    <3>1. \A i \in DOMAIN q : q[i].body \in Bodies(p)
      <4> TAKE i \in DOMAIN q
      <4>1. i \in DOMAIN p /\ p[i] = q[i]
        BY <1>1, <1>4, <1>8
      <4> QED BY <4>1 DEF Bodies
    <3>2. m.body \in Bodies(p)
      <4>1. Len(q) + 1 \in DOMAIN p
        BY <1>1, <1>8
      <4> QED BY <1>4, <4>1 DEF Bodies
    <3>3. Bodies(q) \subseteq Bodies(p)
      BY <3>1 DEF Bodies
    <3>4. c.taken \ Bodies(q) \subseteq c.whole
      BY <2>1 DEF WireOK
    <3> QED BY <3>2, <3>3, <3>4 DEF taken
  <2> HIDE DEF w
  <2> QED BY <1>4, <2>1, <2>3, <2>4, <2>5, <2>6 DEF WireOK, w
<1>13. Levels(c, d)
  <2> SUFFICES ASSUME NEW s \in Nat, Even(c, s) PROVE Even(d, s)
    BY <1>1, <1>5, <1>7 DEF Levels, Level, Troubled, Idle, SocketType
  <2>1. d.unacked = c.unacked /\ d.controls = c.controls
    BY <1>1, <1>5 DEF SocketType
  <2>2. Settled(m) /\ Owes(m) = 0
    BY DEF Fresh, Settled, Owes
  <2>3. AllSettled(p)
    <3> SUFFICES ASSUME NEW i \in DOMAIN p PROVE Settled(p[i])
      BY DEF AllSettled
    <3>1. i \in DOMAIN q \/ i = Len(q) + 1
      BY <1>1, <1>8
    <3>2. i \in DOMAIN q => p[i] = q[i] /\ Settled(q[i])
      BY <1>4, <1>8 DEF Even, AllSettled, q
    <3> QED BY <1>4, <2>2, <3>1, <3>2
  <2>4. Outstanding(p) = Outstanding(q)
    <3>1. CASE q = <<>>
      <4>1. Len(q) = 0
        BY <3>1
      <4>2. p[1] = m
        BY <1>4, <4>1
      <4> QED BY <1>4, <2>2, <3>1, <4>2 DEF Outstanding
    <3>2. CASE q # <<>>
      <4>1. p[1] = q[1]
        BY <1>1, <1>4, <3>2
      <4> QED BY <1>4, <3>2, <4>1 DEF Outstanding
    <3> QED BY <3>1, <3>2
  <2> QED BY <1>6, <2>1, <2>3, <2>4 DEF Even, q
<1> QED BY <1>6, <1>7, <1>11, <1>12, <1>13 DEF Good, p, q

LEMMA QueueMessageOK ==
  ASSUME NEW c, NEW k \in Nat, Good(c, k), NEW m \in Message, m.body = k + 1, Fresh(m),
         NEW fault \in Socket!Fault, NEW d, d = Socket!QueueMessage(c, m, fault)
  PROVE  Good(d, k + 1) /\ Queues(c, d, m)
<1> DEFINE e == Queued(c, m)
<1>1. \/ d = c
      \/ d = Socket!RunIfCanSend(c, fault)
      \/ Len(c.messages) < MaxQueued /\ d = Socket!RunIfCanSend(e, fault)
  <2>1. Len(c.messages) >= MaxQueued \/ Len(c.messages) < MaxQueued
    <3>1. c.messages \in Seq(Message)
      BY DEF Good, SocketType
    <3>2. Len(c.messages) \in Nat /\ MaxQueued \in Nat
      BY <3>1, PushAssumption
    <3>3. \A n \in Nat : n >= MaxQueued \/ n < MaxQueued
      BY <3>2
    <3> QED BY <3>2, <3>3
  <2> QED BY <2>1 DEF Socket!QueueMessage, Queued
<1>2. Good(c, k + 1) /\ Sends(c, c)
  BY LaterOK, SendsNothing
<1>3. \A x : Sends(c, x) => Queues(c, x, m)
  BY DEF Sends, Stays, Queues, From
<1>4. CASE d = c
  BY <1>2, <1>3, <1>4
<1>5. CASE d = Socket!RunIfCanSend(c, fault)
  <2>1. Good(d, k + 1) /\ Sends(c, d)
    BY <1>2, <1>5, RunIfCanSendOK
  <2> QED BY <1>3, <2>1
<1>6. CASE Len(c.messages) < MaxQueued /\ d = Socket!RunIfCanSend(e, fault)
  <2>1. Good(e, k + 1) /\ Idle(c, e) /\ e.status = c.status /\ e.messages = Append(c.messages, m) /\ Levels(c, e)
    BY <1>6, AppendOK
  <2> HIDE DEF e
  <2>2. Good(d, k + 1) /\ Sends(e, d)
    BY <1>6, <2>1, RunIfCanSendOK
  <2>3. Idle(c, d) /\ d.status = c.status /\ Levels(c, d)
    BY <2>1, <2>2, LevelsAfter DEF Sends, Stays, Idle
  <2>4. \A i \in DOMAIN e.messages : e.messages[i] = m \/ \E j \in DOMAIN c.messages : e.messages[i] = c.messages[j]
    <3>1. c.messages \in Seq(Message)
      BY DEF Good, SocketType
    <3> TAKE i \in DOMAIN e.messages
    <3>2. i \in 1..(Len(c.messages) + 1) /\ Len(c.messages) \in Nat
      BY <2>1, <3>1
    <3>3. CASE i = Len(c.messages) + 1
      BY <2>1, <3>1, <3>3
    <3>4. CASE i \in 1..Len(c.messages)
      BY <2>1, <3>1, <3>4
    <3> QED BY <3>2, <3>3, <3>4
  <2> QED BY <2>2, <2>3, <2>4 DEF Sends, Stays, From, Queues
<1> QED BY <1>1, <1>4, <1>5, <1>6

\* A control frame that is new.
Short(control) == control.len < ShortLen /\ ~control.finished

LEMMA AppendControl ==
  ASSUME NEW p \in Seq(ControlType), NEW control \in ControlType, Short(control), NEW r, r = Append(p, control), Waiting(p)
  PROVE  Waiting(r) /\ Answer(r) = Answer(p)
<1>1. /\ r \in Seq(ControlType) /\ Len(r) = Len(p) + 1 /\ r # <<>> /\ Len(p) \in Nat
      /\ \A i \in 1..Len(p) : r[i] = p[i]
      /\ r[Len(p) + 1] = control
  BY AppendProperties
<1>2. DOMAIN r = 1..(Len(p) + 1) /\ DOMAIN p = 1..Len(p)
  BY <1>1
<1>3. Waiting(r)
  <2> SUFFICES ASSUME NEW i \in DOMAIN r PROVE r[i].len < ShortLen /\ (i # 1 => ~r[i].finished)
    BY DEF Waiting
  <2>1. i \in DOMAIN p \/ i = Len(p) + 1
    BY <1>1, <1>2
  <2>2. i \in DOMAIN p => r[i] = p[i] /\ p[i].len < ShortLen /\ (i # 1 => ~p[i].finished)
    BY <1>1, <1>2 DEF Waiting
  <2> QED BY <1>1, <2>1, <2>2 DEF Short
<1>4. CASE p = <<>>
  <2>1. Len(p) = 0
    BY <1>4
  <2>2. r[1] = control
    BY <1>1, <2>1
  <2> QED BY <1>3, <1>4, <2>2 DEF Answer, Short
<1>5. CASE p # <<>>
  <2>1. r[1] = p[1]
    BY <1>1, <1>5, EmptySeq
  <2> QED BY <1>1, <1>3, <1>5, <2>1 DEF Answer
<1> QED BY <1>4, <1>5

LEMMA QueueControlOK ==
  ASSUME NEW c, NEW k \in Nat, Good(c, k), NEW control \in ControlType, Short(control),
         NEW fault \in Socket!Fault, NEW d, d = Socket!QueueControl(c, control, fault)
  PROVE  Good(d, k) /\ Sends(c, d)
<1> DEFINE e == [c EXCEPT !.controls = Append(@, control)]
           more == Append(c.controls, control)
<1>1. c \in SocketType /\ more \in Seq(ControlType) /\ c.crossed \in BOOLEAN
  BY DEF Good, SocketType
<1>2. e = Controlled(c, more, c.crossed)
  BY <1>1 DEF Controlled, SocketType
<1>3. d = Socket!RunIfCanSend(e, fault)
  BY DEF Socket!QueueControl
<1> HIDE DEF e, more
<1>4. /\ e \in SocketType /\ Idle(c, e) /\ e.messages = c.messages /\ e.status = c.status /\ e.taken = c.taken
      /\ e.wire = c.wire /\ e.whole = c.whole /\ e.refused = c.refused /\ e.unacked = c.unacked
      /\ e.controls = more
  BY <1>1, <1>2, WithControls
<1>7. e.crossed = c.crossed
  BY <1>1, <1>2 DEF Controlled, SocketType
<1>8. Levels(c, e)
  <2> SUFFICES ASSUME NEW s \in Nat, Even(c, s) PROVE Even(e, s)
    BY <1>4, <1>7 DEF Levels, Level, Troubled, Idle
  <2>1. c.controls \in Seq(ControlType) /\ Waiting(c.controls)
    BY <1>1 DEF SocketType, Even
  <2>2. more = Append(c.controls, control)
    BY DEF more
  <2>3. Waiting(more) /\ Answer(more) = Answer(c.controls)
    BY <2>1, <2>2, AppendControl
  <2> QED BY <1>4, <2>3 DEF Even
<1>5. Good(e, k) /\ Sends(c, e)
  BY <1>4, <1>8 DEF Good, Sends, Stays, From
<1>6. Good(d, k) /\ Sends(e, d)
  BY <1>3, <1>5, RunIfCanSendOK
<1> QED BY <1>5, <1>6, SendsAfter

LEMMA ControlType1 ==
  ASSUME NEW op \in Op, NEW len \in Nat
  PROVE  Socket!Control(op, len) \in ControlType /\ Short(Socket!Control(op, len))
<1>1. Socket!Least(len, ShortLen - 1) \in Nat /\ Socket!Least(len, ShortLen - 1) < ShortLen
  BY PushAssumption DEF Socket!Least
<1> QED BY <1>1 DEF Socket!Control, ControlType, Short

LEMMA CloseOrPingOK ==
  ASSUME NEW c, NEW k \in Nat, Good(c, k), NEW len \in Nat, NEW fault \in Socket!Fault, NEW d,
         d = Socket!Close(c, len, fault) \/ d = Socket!Ping(c, len, fault)
  PROVE  Good(d, k) /\ Sends(c, d)
<1>1. Sends(c, c)
  BY SendsNothing
<1>2. /\ Socket!Control("close", len) \in ControlType /\ Socket!Control("ping", len) \in ControlType
      /\ Short(Socket!Control("close", len)) /\ Short(Socket!Control("ping", len))
  BY ControlType1 DEF Op
<1>3. \/ d = c
      \/ d = Socket!QueueControl(c, Socket!Control("close", len), fault)
      \/ d = Socket!QueueControl(c, Socket!Control("ping", len), fault)
  BY DEF Socket!Close, Socket!Ping
<1> QED BY <1>1, <1>2, <1>3, QueueControlOK

\* The acknowledgement of what the front message sent.
LEMMA AckMessageOK ==
  ASSUME NEW m \in Message, NEW len \in Int, NEW m2, m2 = Socket!AckMessage(m, len), m.sent <= m.len
  PROVE  /\ m2 \in Message /\ m2.kind = m.kind /\ m2.body = m.body /\ m2.len = m.len /\ m2.sent = m.sent
         /\ m2.status = "sent" => (m.status = "sent" \/ m.sent = m.len)
<1> DEFINE acked == (m.acked + len) % SizeT
<1>1. acked \in 0..SizeT
  <2>1. m.acked + len \in Int /\ SizeT \in Nat /\ SizeT > 0
    BY MessageHas, PushAssumption
  <2>2. \A x \in Int : x % SizeT \in 0..(SizeT - 1)
    BY <2>1
  <2> QED BY <2>1, <2>2
<1> HIDE DEF acked
<1>2. m.sent \in Nat /\ m.len \in Nat /\ m.status \in {"sending", "sent"}
  BY MessageHas
<1>3. PICK status \in {"sending", "sent"} :
        /\ m2 = [m EXCEPT !.acked = acked, !.status = status]
        /\ status = "sent" => (m.status = "sent" \/ m.sent >= m.len)
  <2>1. CASE m.kind = "basic"
    <3>1. m2 = [m EXCEPT !.acked = acked, !.status = IF m.sent = m.len /\ acked = m.ack THEN "sent" ELSE m.status]
      BY <2>1 DEF Socket!AckMessage, Socket!AckBasic, acked
    <3>2. m.sent = m.len => m.sent >= m.len
      BY <1>2
    <3> QED BY <1>2, <3>1, <3>2
  <2>2. CASE m.kind # "basic"
    <3>1. m2 = [m EXCEPT !.acked = acked, !.status = IF m.sent >= m.len /\ acked >= m.ack THEN "sent" ELSE m.status]
      BY <2>2 DEF Socket!AckMessage, Socket!AckMulti, acked
    <3> QED BY <1>2, <3>1
  <2> QED BY <2>1, <2>2
<1>4. m2 \in Message
  BY <1>1, <1>3 DEF Message
<1>5. m2.kind = m.kind /\ m2.body = m.body /\ m2.len = m.len /\ m2.sent = m.sent /\ m2.status = status
  BY <1>3 DEF Message
<1>6. m.sent >= m.len => m.sent = m.len
  BY <1>2
<1> QED BY <1>3, <1>4, <1>5, <1>6

\* What is acknowledged of a message is less than what it has sent, and the count of
\* it does not wrap.
Pays(m, m2, len) == Owes(m2) = Owes(m) - len

LEMMA AckedSettled ==
  ASSUME NEW m \in Message, Settled(m), m.sent <= m.len, NEW len \in Nat, len <= Owes(m),
         NEW m2, m2 = Socket!AckMessage(m, len)
  PROVE  Settled(m2) /\ Pays(m, m2, len)
<1> DEFINE acked == (m.acked + len) % SizeT
           x == m.acked
           y == m.ack
           u == m.sent
           v == m.len
<1>1. x \in Nat /\ y \in Nat /\ u \in Nat /\ v \in Nat /\ SizeT \in Nat /\ m.status \in {"sending", "sent"}
  BY MessageHas, PushAssumption
<1>2. len <= y - x /\ x <= y /\ y <= 5 * u /\ 5 * v < SizeT /\ u <= v /\ (m.status = "sent" => x = y)
  BY DEF Settled, Owes
<1>3. acked = x + len
  <2>1. x + len \in Nat /\ x + len < SizeT
    <3> HIDE DEF x, y, u, v
    <3> QED BY <1>1, <1>2
  <2>2. \A n \in Nat : n < SizeT => n % SizeT = n
    BY <1>1
  <2> QED BY <2>1, <2>2
<1> HIDE DEF acked
<1>4. PICK status \in {"sending", "sent"} :
        /\ m2 = [m EXCEPT !.acked = acked, !.status = status]
        /\ status = "sent" => (m.status = "sent" \/ acked = y \/ acked >= y)
  <2>1. CASE m.kind = "basic"
    <3>1. m2 = [m EXCEPT !.acked = acked, !.status = IF m.sent = m.len /\ acked = m.ack THEN "sent" ELSE m.status]
      BY <2>1 DEF Socket!AckMessage, Socket!AckBasic, acked
    <3> QED BY <1>1, <3>1
  <2>2. CASE m.kind # "basic"
    <3>1. m2 = [m EXCEPT !.acked = acked, !.status = IF m.sent >= m.len /\ acked >= m.ack THEN "sent" ELSE m.status]
      BY <2>2 DEF Socket!AckMessage, Socket!AckMulti, acked
    <3> QED BY <1>1, <3>1
  <2> QED BY <2>1, <2>2
<1>5. m2.acked = acked /\ m2.ack = y /\ m2.sent = u /\ m2.len = v /\ m2.status = status
  BY <1>4 DEF Message
<1> HIDE DEF x, y, u, v
<1>6. acked <= y /\ (status = "sent" => acked = y) /\ y - acked = y - x - len
  BY <1>1, <1>2, <1>3, <1>4
<1>7. Settled(m2)
  BY <1>2, <1>5, <1>6 DEF Settled
<1>8. Owes(m) = y - x /\ Owes(m2) = y - acked
  BY <1>5 DEF Owes, x, y
<1> QED BY <1>6, <1>7, <1>8 DEF Pays

LEMMA WithStatus ==
  ASSUME NEW c \in SocketType, NEW status \in {"connected", "disconnecting", "disconnected"},
         NEW d, d = [c EXCEPT !.status = status]
  PROVE  /\ d \in SocketType /\ Idle(c, d) /\ d.messages = c.messages /\ d.taken = c.taken /\ d.status = status
         /\ d.wire = c.wire /\ d.whole = c.whole /\ d.refused = c.refused /\ SameBooks(c, d)
<1>1. d \in SocketType
  BY DEF SocketType
<1>2. /\ Idle(c, d) /\ d.messages = c.messages /\ d.taken = c.taken
      /\ d.wire = c.wire /\ d.whole = c.whole /\ d.refused = c.refused
  BY DEF SocketType, Idle
<1>3. d.status = status /\ SameBooks(c, d)
  BY DEF SocketType, SameBooks
<1> QED BY <1>1, <1>2, <1>3

\* What the callback of an acknowledgement leaves of a client, and of its books.
Counts(c, d, len) == \A s, t \in Nat : t = s + len /\ Level(c, t) => Level(d, s)
Kept(c, d, k, len) == d = Gone \/ (Good(d, k) /\ Idle(c, d) /\ From(c.messages, d.messages) /\ Counts(c, d, len))

\* A control frame that was answered has taken its part of len.
Leaves(c, e, len, rest) ==
  \A s, t \in Nat : t = s + len /\ Level(c, t) =>
    Troubled(e) \/ (rest \in Nat /\ Even(e, s + rest) /\ Answer(e.controls) = 0)

LEMMA NothingAnswered ==
  ASSUME NEW c, ~(c.controls # <<>> /\ c.controls[1].finished), NEW len \in Nat
  PROVE  Leaves(c, c, len, len)
<1>1. Answer(c.controls) = 0
  BY DEF Answer
<1> SUFFICES ASSUME NEW s \in Nat, NEW t \in Nat, t = s + len, Level(c, t), ~Troubled(c)
             PROVE  Even(c, s + len)
  BY <1>1 DEF Leaves
<1>2. Even(c, t)
  BY DEF Level
<1> QED BY <1>2

AnswerTaken(c, e, len, rest) ==
  /\ e.messages = c.messages /\ e.open = c.open /\ e.refused = c.refused /\ e.unacked = c.unacked
  /\ e.controls = Tail(c.controls) /\ (e.crossed <=> (c.crossed \/ rest < 0))
  /\ rest = len - (c.controls[1].len + 2)

LEMMA ControlAnswered ==
  ASSUME NEW c \in SocketType, c.controls # <<>>, c.controls[1].finished, NEW len \in Nat, NEW rest \in Int,
         NEW e, AnswerTaken(c, e, len, rest)
  PROVE  Leaves(c, e, len, rest)
<1> SUFFICES ASSUME NEW s \in Nat, NEW t \in Nat, t = s + len, Level(c, t), ~Troubled(e)
             PROVE  rest \in Nat /\ Even(e, s + rest) /\ Answer(e.controls) = 0
  BY DEF Leaves
<1> DEFINE p == c.controls
           r == Tail(p)
           n == p[1].len
           v == c.unacked
           o == Outstanding(c.messages)
<1>1. /\ e.messages = c.messages /\ e.unacked = v /\ e.controls = r /\ rest = len - (n + 2)
      /\ ~(rest < 0) /\ ~Troubled(c)
  BY DEF AnswerTaken, Troubled
<1>2. p \in Seq(ControlType) /\ n \in Nat /\ v \in Int /\ o \in Int
  <2>1. p \in Seq(ControlType) /\ p[1] \in ControlType /\ v \in Int
    BY PushAssumption DEF SocketType
  <2>2. c.messages # <<>> => c.messages[1] \in Message
    BY DEF SocketType
  <2> QED BY <2>1, <2>2, OwesInt DEF ControlType, Outstanding
<1>3. Even(c, t)
  BY <1>1 DEF Level
<1>4. v + t = o + (n + 2) /\ Waiting(p) /\ AllSettled(c.messages)
  <2>1. Answer(p) = n + 2
    BY DEF Answer
  <2> QED BY <1>3, <2>1 DEF Even
<1>5. \A i \in DOMAIN r : r[i] = p[i + 1] /\ i + 1 \in DOMAIN p /\ i + 1 # 1
  BY <1>2
<1>6. Waiting(r) /\ Answer(r) = 0
  <2>1. Waiting(r)
    BY <1>4, <1>5 DEF Waiting
  <2>2. r # <<>> => ~r[1].finished
    <3> HAVE r # <<>>
    <3>1. 1 \in DOMAIN r
      BY <1>2
    <3> QED BY <1>4, <1>5, <3>1 DEF Waiting
  <2> QED BY <2>1, <2>2 DEF Answer
<1> HIDE DEF p, r, n, v, o
<1>7. rest \in Nat /\ v + (s + rest) = o + 0
  BY <1>1, <1>2, <1>4
<1> QED BY <1>1, <1>4, <1>6, <1>7 DEF Even, o

\* The message in front takes what is left, which it sent and nobody else.
LEMMA RestCounted ==
  ASSUME NEW c, NEW e \in SocketType, NEW len \in Nat, NEW rest \in Int, Leaves(c, e, len, rest),
         e.messages = <<>> \/ rest = 0
  PROVE  Counts(c, e, len)
<1> SUFFICES ASSUME NEW s \in Nat, NEW t \in Nat, t = s + len, Level(c, t), ~Troubled(e)
             PROVE  Even(e, s)
  BY DEF Counts, Level
<1>1. rest \in Nat /\ Even(e, s + rest) /\ Answer(e.controls) = 0
  BY DEF Leaves
<1>2. rest = 0
  <2>1. CASE e.messages = <<>>
    <3>1. e.unacked \in Nat
      BY PushAssumption DEF SocketType
    <3>2. e.unacked + (s + rest) = 0
      BY <1>1, <2>1 DEF Even, Outstanding
    <3> QED BY <1>1, <3>1, <3>2
  <2> QED BY <2>1
<1>3. s + rest = s
  BY <1>2
<1> QED BY <1>1, <1>3

LEMMA MessageCounted ==
  ASSUME NEW c, NEW e \in SocketType, NEW len \in Nat, NEW rest \in Int, Leaves(c, e, len, rest),
         e.messages # <<>>, e.messages[1].sent <= e.messages[1].len,
         NEW m2 \in Message, m2 = Socket!AckMessage(e.messages[1], rest),
         NEW g \in SocketType, g.messages = [e.messages EXCEPT ![1] = m2], Rest(e, g)
  PROVE  Counts(c, g, len)
<1> SUFFICES ASSUME NEW s \in Nat, NEW t \in Nat, t = s + len, Level(c, t), ~Troubled(g)
             PROVE  Even(g, s)
  BY DEF Counts, Level
<1> DEFINE m == e.messages[1]
           v == e.unacked
<1>1. ~Troubled(e) /\ g.controls = e.controls /\ g.unacked = v
  BY DEF Troubled, Rest, Idle
<1>2. rest \in Nat /\ Even(e, s + rest) /\ Answer(e.controls) = 0
  BY <1>1 DEF Leaves
<1>3. m \in Message /\ 1 \in DOMAIN e.messages /\ v \in Nat
  <2>1. e.messages \in Seq(Message) /\ v \in 0..SndBuf
    BY DEF SocketType
  <2>2. m \in Message /\ 1 \in DOMAIN e.messages
    BY <2>1
  <2>3. v \in Nat
    BY <2>1, PushAssumption
  <2> QED BY <2>2, <2>3
<1>4. Settled(m) /\ v + (s + rest) = Owes(m) + 0
  BY <1>2, <1>3 DEF Even, AllSettled, Outstanding
<1>5. Owes(m) \in Int
  BY <1>3, OwesInt
<1>6. rest <= Owes(m)
  <2> HIDE DEF m, v
  <2> QED BY <1>2, <1>3, <1>4, <1>5
<1>7. Settled(m2) /\ Pays(m, m2, rest)
  BY <1>2, <1>3, <1>4, <1>6, AckedSettled
<1>8. Balanced(e, s + rest, m, g, s, m2)
  <2>1. Owes(m2) = Owes(m) - rest
    BY <1>7 DEF Pays
  <2>2. v + s - (Owes(m) - rest) = v + (s + rest) - Owes(m)
    <3> HIDE DEF m, v
    <3> QED BY <1>2, <1>3, <1>5
  <2> QED BY <1>1, <2>1, <2>2 DEF Balanced
<1>9. s + rest \in Nat /\ g.unacked \in Nat
  BY <1>1, <1>2, <1>3
<1> QED BY <1>1, <1>2, <1>7, <1>8, <1>9, FrontEven

LEMMA OnAckOK ==
  ASSUME NEW c, NEW k \in Nat, Good(c, k), NEW len \in Nat,
         NEW fault \in Socket!Fault, NEW d, d = Socket!OnAck(c, len, fault)
  PROVE  Kept(c, d, k, len)
<1> DEFINE control == Head(c.controls)
           answered == c.controls # <<>> /\ control.finished
           rest == IF answered THEN len - Socket!ControlLen(control) ELSE len
           e == IF answered THEN [c EXCEPT !.controls = Tail(@), !.crossed = @ \/ rest < 0] ELSE c
           g == IF rest # 0 /\ e.messages # <<>>
                  THEN [e EXCEPT !.messages[1] = Socket!AckMessage(@, rest)] ELSE e
<1>1. c \in SocketType /\ c.controls \in Seq(ControlType)
  BY DEF Good, SocketType
<1>2. rest \in Int
  <2>1. CASE answered
    <3>1. control \in ControlType
      BY <1>1, <2>1
    <3>2. control.len \in Nat
      BY <3>1 DEF ControlType
    <3> QED BY <2>1, <3>2 DEF Socket!ControlLen
  <2>2. CASE ~answered
    BY <2>2
  <2> QED BY <2>1, <2>2
<1>3. \/ d = Socket!CloseConnection([e EXCEPT !.status = "disconnected"])
      \/ d = Socket!RunQueue(g, fault)
  BY DEF Socket!OnAck, Socket!Leaves
<1>4. Good(e, k) /\ Idle(c, e) /\ e.messages = c.messages /\ Leaves(c, e, len, rest)
  <2>1. CASE ~answered
    <3>1. e = c /\ rest = len
      BY <2>1
    <3>2. ~(c.controls # <<>> /\ c.controls[1].finished)
      BY <2>1
    <3>3. Leaves(c, c, len, len)
      BY <3>2, NothingAnswered
    <3> HIDE DEF e, rest
    <3> QED BY <3>1, <3>3 DEF Idle
  <2>2. CASE answered
    <3>1. Tail(c.controls) \in Seq(ControlType)
      BY <1>1, <2>2
    <3>2. PICK crossed \in BOOLEAN : e = Controlled(c, Tail(c.controls), crossed)
      <4>1. (c.crossed \/ rest < 0) \in BOOLEAN
        OBVIOUS
      <4>2. e = Controlled(c, Tail(c.controls), c.crossed \/ rest < 0)
        BY <2>2 DEF Controlled
      <4> QED BY <4>1, <4>2
    <3> DEFINE left == Tail(c.controls)
    <3>5. e.crossed <=> (c.crossed \/ rest < 0)
      BY <1>1, <2>2 DEF SocketType
    <3>6. c.controls # <<>> /\ c.controls[1].finished /\ rest = len - (c.controls[1].len + 2)
      BY <2>2 DEF Socket!ControlLen
    <3> HIDE DEF e, g, left, rest
    <3>3. left \in Seq(ControlType) /\ e = Controlled(c, left, crossed)
      BY <3>1, <3>2 DEF left
    <3>4. /\ e \in SocketType /\ Idle(c, e) /\ e.messages = c.messages /\ e.taken = c.taken
          /\ e.wire = c.wire /\ e.whole = c.whole /\ e.refused = c.refused /\ e.unacked = c.unacked
          /\ e.controls = left
      BY <1>1, <3>2, <3>3, WithControls
    <3>7. AnswerTaken(c, e, len, rest)
      BY <3>4, <3>5, <3>6 DEF AnswerTaken, Idle, left
    <3>8. Leaves(c, e, len, rest)
      BY <1>1, <1>2, <3>6, <3>7, ControlAnswered
    <3> QED BY <3>4, <3>8 DEF Good
  <2> QED BY <2>1, <2>2
<1> HIDE DEF e, rest
<1>5. CASE d = Socket!CloseConnection([e EXCEPT !.status = "disconnected"])
  <2> DEFINE h == [e EXCEPT !.status = "disconnected"]
  <2>1. /\ h \in SocketType /\ Idle(e, h) /\ h.messages = e.messages /\ h.taken = e.taken
        /\ h.wire = e.wire /\ h.whole = e.whole /\ h.refused = e.refused
    BY <1>4, WithStatus DEF Good
  <2> HIDE DEF h
  <2>2. Good(h, k) /\ Idle(c, h) /\ From(c.messages, h.messages)
    BY <1>4, <2>1 DEF Good, Idle, From
  <2>3. d = Gone \/ (d = h /\ ~h.open)
    BY <1>5 DEF Socket!CloseConnection, h
  <2>4. ~h.open => Counts(c, h, len)
    BY DEF Counts, Level, Troubled
  <2> QED BY <2>2, <2>3, <2>4 DEF Kept
<1>6. CASE d = Socket!RunQueue(g, fault)
  <2>1. Good(g, k) /\ Stays(e, g) /\ Counts(c, g, len)
    <3>1. CASE ~(rest # 0 /\ e.messages # <<>>)
      <4>1. g = e
        BY <3>1
      <4>2. Counts(c, e, len)
        BY <1>2, <1>4, <3>1, RestCounted DEF Good
      <4> HIDE DEF g
      <4> QED BY <1>4, <4>1, <4>2 DEF Stays, Idle, From
    <3>2. CASE rest # 0 /\ e.messages # <<>>
      <4> DEFINE m == e.messages[1]
                 m2 == Socket!AckMessage(m, rest)
      <4>1. e.messages \in Seq(Message) /\ 1 \in DOMAIN e.messages /\ QueueOK(e.messages, e.taken, k)
        BY <1>4, <3>2 DEF Good, SocketType
      <4>2. m \in Message /\ m.sent <= m.len /\ (m.status = "sent" => m.sent = m.len)
        BY <4>1 DEF QueueOK
      <4>3. g = [e EXCEPT !.messages = [e.messages EXCEPT ![1] = m2]]
        BY <3>2
      <4>4. /\ m2 \in Message /\ m2.kind = m.kind /\ m2.body = m.body /\ m2.len = m.len /\ m2.sent = m.sent
            /\ m2.status = "sent" => (m.status = "sent" \/ m.sent = m.len)
        <5> HIDE DEF m
        <5> QED BY <1>2, <4>2, AckMessageOK
      <4>5. m2.status = "sent" => m2.sent = m2.len
        BY <4>2, <4>4
      <4>7. m2 = Socket!AckMessage(m, rest)
        OBVIOUS
      <4> HIDE DEF g, m2
      <4>8. Good(g, k) /\ Stays(e, g) /\ Rest(e, g)
        BY <1>4, <3>2, <4>3, <4>4, <4>5, FrontOnly
      <4>9. g.messages = [e.messages EXCEPT ![1] = m2]
        BY <1>4, <4>3 DEF Good, SocketType
      <4>10. Counts(c, g, len)
        BY <1>2, <1>4, <3>2, <4>2, <4>4, <4>7, <4>8, <4>9, MessageCounted DEF Good
      <4> QED BY <4>8, <4>10
    <3> QED BY <3>1, <3>2
  <2> HIDE DEF g
  <2>2. Good(d, k) /\ Sends(g, d)
    BY <1>6, <2>1, RunQueueOK
  <2>3. From(e.messages, d.messages)
    BY <2>1, <2>2, FromOther DEF Sends, Stays
  <2>4. Counts(c, d, len)
    BY <2>1, <2>2 DEF Counts, Sends, Levels
  <2> QED BY <1>4, <2>1, <2>2, <2>3, <2>4 DEF Kept, Sends, Stays, Idle
<1> QED BY <1>3, <1>5, <1>6

LEMMA OnPollOK ==
  ASSUME NEW c, NEW k \in Nat, Good(c, k), NEW keepAlive \in BOOLEAN, NEW len \in Nat,
         NEW fault \in Socket!Fault, NEW d, d = Socket!OnPoll(c, keepAlive, len, fault)
  PROVE  Good(d, k) /\ Sends(c, d)
<1>1. Sends(c, c)
  BY SendsNothing
<1>2. d = c \/ d = Socket!RunQueue(c, fault) \/ d = Socket!Ping(c, len, fault)
  BY DEF Socket!OnPoll
<1> QED BY <1>1, <1>2, RunQueueOK, CloseOrPingOK

-----------------------------------------------------------------------------
(* The frames a browser sends *)

\* The bytes of a piece.
Piece(frame, take) == [i \in 1..take |-> <<frame.n, frame.at + i>>]

\* What is heard of a text is what was said, and a frame being parsed has brought
\* the bytes counted.
HeardOK(c) ==
  /\ c.heard["text"] = c.said
  /\ IF c.parsing
       THEN /\ c.frame.at < c.frame.len
            /\ c.info = [n |-> c.frame.n, op |-> c.frame.op, len |-> c.frame.len, index |-> c.frame.at]
       ELSE c.frame.at = c.frame.len

\* A client that has heard something.
Hearing(c, heard, info, parsing) == [c EXCEPT !.heard = heard, !.info = info, !.parsing = parsing]

LEMMA WithHearing ==
  ASSUME NEW c, NEW k, Good(c, k), NEW heard \in [Op -> Bytes], NEW info \in InfoType, NEW parsing \in BOOLEAN,
         NEW d, d = Hearing(c, heard, info, parsing)
  PROVE  /\ Good(d, k) /\ d.messages = c.messages /\ d.said = c.said /\ d.open = c.open /\ d.status = c.status
         /\ d.acks = c.acks /\ d.heard = heard /\ d.info = info /\ d.parsing = parsing /\ Levels(c, d)
<1>1. c \in SocketType
  BY DEF Good
<1>2. d \in SocketType
  BY <1>1 DEF SocketType, Hearing
<1>3. /\ d.messages = c.messages /\ d.said = c.said /\ d.open = c.open /\ d.status = c.status /\ d.taken = c.taken
      /\ d.wire = c.wire /\ d.whole = c.whole /\ d.refused = c.refused /\ d.acks = c.acks
  BY <1>1 DEF SocketType, Hearing
<1>4. d.heard = heard /\ d.info = info /\ d.parsing = parsing
  BY <1>1 DEF SocketType, Hearing
<1>5. SameBooks(c, d)
  BY <1>1 DEF SocketType, Hearing, SameBooks
<1>6. Levels(c, d)
  BY <1>5, SameLevels
<1> QED BY <1>2, <1>3, <1>4, <1>6 DEF Good

\* What a piece leaves of a client.
Hears(c, d, frame, take, k) ==
  /\ Good(d, k) /\ From(c.messages, d.messages) /\ d.said = c.said /\ d.open = c.open /\ d.acks = c.acks
  /\ Levels(c, d)
  /\ d.heard["text"] = IF frame.op = "text" THEN c.heard["text"] \o Piece(frame, take) ELSE c.heard["text"]
  /\ IF frame.at + take < frame.len
       THEN /\ d.parsing
            /\ d.info = [n |-> frame.n, op |-> frame.op, len |-> frame.len, index |-> frame.at + take]
       ELSE ~d.parsing

LEMMA PieceType1 ==
  ASSUME NEW frame \in PieceType, NEW take \in Nat
  PROVE  Piece(frame, take) \in Bytes
<1>1. frame.n \in Nat /\ frame.at \in Nat
  BY DEF PieceType
<1>2. \A i \in 1..take : <<frame.n, frame.at + i>> \in Nat \X Nat
  BY <1>1
<1> QED BY <1>2 DEF Piece, Bytes

LEMMA OnDataOK ==
  ASSUME NEW c, NEW k \in Nat, Good(c, k), HeardOK(c), NEW frame \in PieceType, NEW take \in Nat,
         frame.at + take <= frame.len, c.parsing => frame = c.frame, ~c.parsing => frame.at = 0,
         NEW fault \in Socket!Fault, NEW d, d = Socket!OnData(c, frame, take, fault)
  PROVE  d = Gone \/ Hears(c, d, frame, take, k)
<1> DEFINE info == [n |-> frame.n, op |-> frame.op, len |-> frame.len, index |-> frame.at]
           next == [info EXCEPT !.index = @ + take]
           bytes == Piece(frame, take)
           heard == [c.heard EXCEPT ![frame.op] = @ \o bytes]
           done == ~(frame.at + take < frame.len)
           part == Hearing(c, heard, next, TRUE)
           whole == Hearing(c, heard, info, FALSE)
           quiet == Hearing(c, c.heard, info, FALSE)
           left == [quiet EXCEPT !.status = "disconnected"]
           leaving == [quiet EXCEPT !.status = "disconnecting"]
<1>1. /\ c \in SocketType /\ c.heard \in [Op -> Bytes] /\ c.parsing \in BOOLEAN
  BY DEF Good, SocketType
<1>2. frame.n \in Nat /\ frame.op \in Op /\ frame.len \in Nat /\ frame.at \in Nat
  BY DEF PieceType
<1>3. bytes \in Bytes /\ heard \in [Op -> Bytes]
  <2>1. bytes \in Bytes
    BY PieceType1
  <2> HIDE DEF bytes
  <2>2. c.heard[frame.op] \o bytes \in Bytes
    BY <1>1, <1>2, <2>1 DEF Bytes
  <2> QED BY <1>1, <2>1, <2>2
<1>4. info \in InfoType /\ next \in InfoType
      /\ next = [n |-> frame.n, op |-> frame.op, len |-> frame.len, index |-> frame.at + take]
  BY <1>2 DEF InfoType
<1>5. (IF c.parsing THEN c.info ELSE [n |-> frame.n, op |-> frame.op, len |-> frame.len, index |-> 0]) = info
  <2>1. CASE c.parsing
    BY <2>1 DEF HeardOK
  <2>2. CASE ~c.parsing
    BY <2>2
  <2> QED BY <1>1, <2>1, <2>2
<1>6. Socket!Least(frame.len - frame.at, take) = take
  <2>1. ~(frame.len - frame.at < take)
    BY <1>2
  <2>2. frame.len - frame.at < take \/ Socket!Least(frame.len - frame.at, take) = take
    BY DEF Socket!Least
  <2> QED BY <2>1, <2>2
<1>7. [i \in 1..take |-> IF Socket!Unmask(frame.at, i - 1) = (frame.at + i - 1) % 4
                           THEN <<frame.n, frame.at + i>> ELSE <<frame.n, 0>>] = bytes
  <2>1. \A i \in 1..take : Socket!Unmask(frame.at, i - 1) = (frame.at + i - 1) % 4
    <3> TAKE i \in 1..take
    <3>1. frame.at + (i - 1) = frame.at + i - 1
      BY <1>2
    <3> QED BY <3>1 DEF Socket!Unmask
  <2> QED BY <2>1 DEF Piece
<1>8. /\ take + frame.at < frame.len <=> frame.at + take < frame.len
      /\ take + frame.at >= frame.len <=> done
  BY <1>2
<1>9. \/ ~done /\ d = part
      \/ done /\ frame.op \in {"close", "ping", "pong"} /\ d = Socket!CloseConnection(left)
      \/ done /\ frame.op \in {"close", "ping", "pong"}
         /\ d = Socket!QueueControl(leaving, Socket!Control("close", take), fault)
      \/ done /\ frame.op \in {"close", "ping", "pong"}
         /\ d = Socket!QueueControl(quiet, Socket!Control("pong", take), fault)
      \/ done /\ frame.op \in {"close", "ping", "pong"} /\ d = quiet
      \/ done /\ frame.op = "text" /\ d = whole
  <2> DEFINE I == IF c.parsing THEN c.info ELSE [n |-> frame.n, op |-> frame.op, len |-> frame.len, index |-> 0]
             N == Socket!Least(I.len - I.index, take)
             B == [i \in 1..N |-> IF Socket!Unmask(I.index, i - 1) = (frame.at + i - 1) % 4
                                    THEN <<frame.n, frame.at + i>> ELSE <<frame.n, 0>>]
             Hear(J, n, bs) == [c EXCEPT !.heard[J.op] = @ \o bs, !.info = [J EXCEPT !.index = @ + n]]
             Silent(J) == [c EXCEPT !.info = J, !.parsing = FALSE]
             Result(J, n, bs) ==
               CASE n + J.index < J.len -> [Hear(J, n, bs) EXCEPT !.parsing = TRUE]
                 [] n + J.index >= J.len /\ J.op = "close" /\ c.status = "disconnecting" ->
                      Socket!CloseConnection([Silent(J) EXCEPT !.status = "disconnected"])
                 [] n + J.index >= J.len /\ J.op = "close" /\ c.status # "disconnecting" ->
                      Socket!QueueControl([Silent(J) EXCEPT !.status = "disconnecting"], Socket!Control("close", n), fault)
                 [] n + J.index >= J.len /\ J.op = "ping" ->
                      Socket!QueueControl(Silent(J), Socket!Control("pong", n), fault)
                 [] n + J.index >= J.len /\ J.op = "pong" -> Silent(J)
                 [] OTHER -> [Hear(J, n, bs) EXCEPT !.info = J, !.parsing = FALSE]
             hear == Hear(info, take, bytes)
             silent == Silent(info)
  <2>0. d = Result(I, N, B)
    BY DEF Socket!OnData
  <2>4. info.index = frame.at /\ info.len = frame.len /\ info.op = frame.op
    OBVIOUS
  <2>10. I = info /\ N = take /\ B = bytes
    <3>1. I = info
      BY <1>5
    <3> HIDE DEF I, info, bytes
    <3>2. N = take
      BY <1>6, <2>4, <3>1
    <3> HIDE DEF N
    <3> QED BY <1>7, <2>4, <3>1, <3>2
  <2>1. d = Result(info, take, bytes)
    <3> HIDE DEF I, N, B, Result
    <3> QED BY <2>0, <2>10
  <2>2. silent = quiet
    BY <1>1 DEF Hearing, SocketType
  <2>3. [hear EXCEPT !.parsing = TRUE] = part /\ [hear EXCEPT !.info = info, !.parsing = FALSE] = whole
    BY <1>1 DEF Hearing, SocketType
  <2> HIDE DEF I, N, B, info, bytes, part, whole, quiet, left, leaving, done
  <2>11. take + info.index < info.len <=> ~done
    BY <1>8, <2>4 DEF done
  <2>12. take + info.index >= info.len <=> done
    BY <1>8, <2>4
  <2>5. CASE ~done
    <3>1. d = [hear EXCEPT !.parsing = TRUE]
      <4>1. take + info.index < info.len /\ ~(take + info.index >= info.len)
        BY <2>5, <2>11, <2>12
      <4> HIDE DEF Hear, Silent
      <4> QED BY <2>1, <4>1
    <3> QED BY <2>3, <2>5, <3>1
  <2>6. CASE done /\ frame.op = "close"
    <3> HIDE DEF Silent
    <3>1. \/ d = Socket!CloseConnection([silent EXCEPT !.status = "disconnected"])
          \/ d = Socket!QueueControl([silent EXCEPT !.status = "disconnecting"], Socket!Control("close", take), fault)
      BY <2>1, <2>4, <2>6, <2>11, <2>12
    <3> QED BY <2>2, <2>6, <3>1 DEF left, leaving
  <2>7. CASE done /\ frame.op = "ping"
    <3>1. d = Socket!QueueControl(silent, Socket!Control("pong", take), fault)
      BY <2>1, <2>4, <2>7, <2>11, <2>12
    <3> QED BY <2>2, <2>7, <3>1
  <2>8. CASE done /\ frame.op = "pong"
    <3>1. d = silent
      BY <2>1, <2>4, <2>8, <2>11, <2>12
    <3> QED BY <2>2, <2>8, <3>1
  <2>9. CASE done /\ frame.op = "text"
    <3>1. d = [hear EXCEPT !.info = info, !.parsing = FALSE]
      BY <2>1, <2>4, <2>9, <2>11, <2>12
    <3> QED BY <2>3, <2>9, <3>1
  <2> QED BY <1>2, <2>5, <2>6, <2>7, <2>8, <2>9 DEF Op
<1> HIDE DEF bytes, heard, info, next, part, whole, quiet
<1>10. /\ Good(part, k) /\ part.messages = c.messages /\ part.said = c.said /\ part.open = c.open
       /\ part.acks = c.acks /\ part.heard = heard /\ part.info = next /\ part.parsing /\ Levels(c, part)
  <2>1. PICK parsing \in BOOLEAN : part = Hearing(c, heard, next, parsing)
    BY DEF part
  <2>2. heard \in [Op -> Bytes] /\ next \in InfoType
    BY <1>3, <1>4
  <2>3. /\ Good(part, k) /\ part.messages = c.messages /\ part.said = c.said /\ part.open = c.open
        /\ part.acks = c.acks /\ part.heard = heard /\ part.info = next /\ part.parsing = parsing /\ Levels(c, part)
    BY <2>1, <2>2, WithHearing
  <2>4. part.parsing
    BY <1>1 DEF part, Hearing, SocketType
  <2> QED BY <2>3, <2>4
<1>11. /\ Good(whole, k) /\ whole.messages = c.messages /\ whole.said = c.said /\ whole.open = c.open
       /\ whole.acks = c.acks /\ whole.heard = heard /\ ~whole.parsing /\ Levels(c, whole)
  <2>1. PICK parsing \in BOOLEAN : (parsing <=> FALSE) /\ whole = Hearing(c, heard, info, parsing)
    BY DEF whole
  <2>2. heard \in [Op -> Bytes] /\ info \in InfoType
    BY <1>3, <1>4
  <2>3. /\ Good(whole, k) /\ whole.messages = c.messages /\ whole.said = c.said /\ whole.open = c.open
        /\ whole.acks = c.acks /\ whole.heard = heard /\ whole.info = info /\ whole.parsing = parsing /\ Levels(c, whole)
    BY <2>1, <2>2, WithHearing
  <2> QED BY <2>1, <2>3
<1>12. /\ Good(quiet, k) /\ quiet.messages = c.messages /\ quiet.said = c.said /\ quiet.open = c.open
       /\ quiet.acks = c.acks /\ quiet.heard = c.heard /\ ~quiet.parsing /\ Levels(c, quiet)
  <2>1. PICK parsing \in BOOLEAN : (parsing <=> FALSE) /\ quiet = Hearing(c, c.heard, info, parsing)
    BY DEF quiet
  <2>2. c.heard \in [Op -> Bytes] /\ info \in InfoType
    BY <1>1, <1>4
  <2>3. /\ Good(quiet, k) /\ quiet.messages = c.messages /\ quiet.said = c.said /\ quiet.open = c.open
        /\ quiet.acks = c.acks /\ quiet.heard = c.heard /\ quiet.info = info /\ quiet.parsing = parsing /\ Levels(c, quiet)
    BY <2>1, <2>2, WithHearing
  <2> QED BY <2>1, <2>3
<1>13. heard["text"] = IF frame.op = "text" THEN c.heard["text"] \o bytes ELSE c.heard["text"]
  BY <1>1, <1>2 DEF heard, Op
<1>14. \A q : From(q, q)
  BY DEF From
<1>15. CASE ~done /\ d = part
  BY <1>4, <1>10, <1>13, <1>14, <1>15 DEF Hears, bytes
<1>16. CASE done /\ frame.op = "text" /\ d = whole
  BY <1>11, <1>13, <1>14, <1>16 DEF Hears, bytes
<1>17. ASSUME done, frame.op \in {"close", "ping", "pong"}, NEW e, Good(e, k), Idle(quiet, e), From(quiet.messages, e.messages),
             Levels(quiet, e)
       PROVE  Hears(c, e, frame, take, k)
  <2>1. Levels(c, e)
    BY <1>12, <1>17, LevelsAfter
  <2> QED BY <1>12, <1>17, <2>1 DEF Hears, Idle
<1>18. CASE done /\ frame.op \in {"close", "ping", "pong"} /\ d = quiet
  <2>1. Sends(quiet, quiet)
    BY SendsNothing
  <2> QED BY <1>12, <1>17, <1>18, <2>1 DEF Sends, Stays
<1>19. CASE done /\ frame.op \in {"close", "ping", "pong"} /\ d = Socket!QueueControl(quiet, Socket!Control("pong", take), fault)
  <2>1. Socket!Control("pong", take) \in ControlType /\ Short(Socket!Control("pong", take))
    BY ControlType1 DEF Op
  <2>2. Good(d, k) /\ Sends(quiet, d)
    BY <1>12, <1>19, <2>1, QueueControlOK
  <2> QED BY <1>17, <1>19, <2>2 DEF Sends, Stays
<1>20. ASSUME NEW status \in {"connected", "disconnecting", "disconnected"}, NEW e, e = [quiet EXCEPT !.status = status]
       PROVE  Good(e, k) /\ Idle(quiet, e) /\ e.messages = quiet.messages /\ Levels(quiet, e)
  <2>1. quiet \in SocketType
    BY <1>12 DEF Good
  <2>2. /\ e \in SocketType /\ Idle(quiet, e) /\ e.messages = quiet.messages /\ e.taken = quiet.taken
        /\ e.wire = quiet.wire /\ e.whole = quiet.whole /\ e.refused = quiet.refused /\ SameBooks(quiet, e)
    BY <1>20, <2>1, WithStatus
  <2> QED BY <1>12, <2>2, SameLevels DEF Good
<1>21. /\ Good(left, k) /\ Idle(quiet, left) /\ left.messages = quiet.messages /\ Levels(quiet, left)
       /\ Good(leaving, k) /\ Idle(quiet, leaving) /\ leaving.messages = quiet.messages /\ Levels(quiet, leaving)
  BY <1>20
<1> HIDE DEF left, leaving
<1>22. CASE done /\ frame.op \in {"close", "ping", "pong"} /\ d = Socket!CloseConnection(left)
  <2>1. d = Gone \/ d = left
    BY <1>22 DEF Socket!CloseConnection
  <2> QED BY <1>14, <1>17, <1>21, <1>22, <2>1
<1>23. CASE done /\ frame.op \in {"close", "ping", "pong"}
            /\ d = Socket!QueueControl(leaving, Socket!Control("close", take), fault)
  <2>1. Socket!Control("close", take) \in ControlType /\ Short(Socket!Control("close", take))
    BY ControlType1 DEF Op
  <2>2. Good(d, k) /\ Sends(leaving, d)
    BY <1>21, <1>23, <2>1, QueueControlOK
  <2>3. Idle(quiet, d) /\ From(quiet.messages, d.messages) /\ Levels(quiet, d)
    BY <1>21, <2>2, LevelsAfter DEF Sends, Stays, Idle
  <2> QED BY <1>17, <1>23, <2>2, <2>3
<1> QED BY <1>9, <1>15, <1>16, <1>18, <1>19, <1>22, <1>23

-----------------------------------------------------------------------------
(* The events queued for a browser *)

EventMessage == [body : 1..MaxCalls, len : Nat, sent : Nat, acked : Nat]

SourceType ==
  [open : BOOLEAN, unacked : 0..SndBuf, acks : Seq(1..SndBuf), wire : Seq(Nat),
   messages : Seq(EventMessage), taken : SUBSET Nat, passed : BOOLEAN]

\* The events queued are in the order of their calls; each was sent whole or not at
\* all, and none is finished.
LineOK(q, k) ==
  /\ \A i \in DOMAIN q : q[i].acked < q[i].len /\ q[i].sent \in {0, q[i].len} /\ q[i].body <= k
  /\ \A i, j \in DOMAIN q : i < j => q[i].body < q[j].body

\* Those sent come first; the browser gets them and those that left, in order.
Told(q, wire, taken, k) ==
  /\ \A i, j \in DOMAIN q : i < j /\ q[i].sent = 0 => q[j].sent = 0
  /\ \A i \in DOMAIN q : q[i].sent = 0 => \A x \in DOMAIN wire : wire[x] < q[i].body
  /\ \A i \in DOMAIN q : q[i].sent # 0 => q[i].body \in ToSet(wire)
  /\ \A i \in 1..(Len(wire) - 1) : wire[i] < wire[i + 1]
  /\ \A x \in DOMAIN wire : wire[x] <= k
  /\ taken \ Bodies(q) \subseteq ToSet(wire)

\* What the events sent have still to be acknowledged sums up to a total: P has the
\* sums up to each event.
IsFlow(P, q, total) ==
  /\ P \in [0..Len(q) -> Int] /\ P[0] = 0 /\ P[Len(q)] = total
  /\ \A i \in 1..Len(q) :
       /\ P[i] = P[i - 1] + q[i].sent - q[i].acked /\ q[i].acked <= q[i].sent /\ P[i] <= total
       /\ q[i].sent = 0 => P[i - 1] = total
Flow(q, total) == \E P : IsFlow(P, q, total)

\* The acknowledgements on their way sum up to a total.
IsAckSum(A, acks, total) ==
  /\ A \in [0..Len(acks) -> Int] /\ A[0] = 0 /\ A[Len(acks)] = total
  /\ \A i \in 1..Len(acks) : A[i] = A[i - 1] + acks[i] /\ A[i] <= total
AckSum(acks, total) == \E A : IsAckSum(A, acks, total)

\* The fields of an event.
LEMMA EventHas ==
  ASSUME NEW m \in EventMessage
  PROVE  m.body \in Nat /\ m.body # 0 /\ m.len \in Nat /\ m.sent \in Nat /\ m.acked \in Nat
BY PushAssumption DEF EventMessage

LEMMA AckSumEmpty ==
  /\ AckSum(<<>>, 0)
  /\ \A total : AckSum(<<>>, total) => total = 0
<1>1. IsAckSum([i \in 0..0 |-> 0], <<>>, 0)
  <2>1. Len(<<>>) = 0 /\ 1..0 = {}
    OBVIOUS
  <2> QED BY <2>1 DEF IsAckSum
<1>2. ASSUME NEW total, AckSum(<<>>, total) PROVE total = 0
  <2>1. PICK A : IsAckSum(A, <<>>, total)
    BY <1>2 DEF AckSum
  <2>2. Len(<<>>) = 0
    OBVIOUS
  <2> QED BY <2>1, <2>2 DEF IsAckSum
<1> QED BY <1>1, <1>2 DEF AckSum

LEMMA AckSumAppend ==
  ASSUME NEW acks \in Seq(1..SndBuf), NEW total \in Nat, AckSum(acks, total), NEW n \in 1..SndBuf
  PROVE  AckSum(Append(acks, n), total + n)
<1> DEFINE more == Append(acks, n)
           L == Len(acks)
<1>1. PICK A : IsAckSum(A, acks, total)
  BY DEF AckSum
<1> DEFINE B == [i \in 0..(L + 1) |-> IF i = L + 1 THEN total + n ELSE A[i]]
<1>2. L \in Nat /\ Len(more) = L + 1 /\ more[L + 1] = n /\ \A i \in 1..L : more[i] = acks[i] /\ acks[i] \in 1..SndBuf
  <2> DEFINE S == 1..SndBuf
  <2>1. acks \in Seq(S) /\ n \in S
    OBVIOUS
  <2> HIDE DEF S
  <2>2. L \in Nat /\ Len(more) = L + 1 /\ more[L + 1] = n /\ \A i \in 1..L : more[i] = acks[i] /\ acks[i] \in S
    BY <2>1, AppendProperties
  <2> QED BY <2>2 DEF S
<1>3. n \in Nat /\ n > 0
  BY PushAssumption
<1> HIDE DEF L, more
<1>4. A \in [0..L -> Int] /\ A[0] = 0 /\ A[L] = total
      /\ \A i \in 1..L : A[i] = A[i - 1] + acks[i] /\ A[i] <= total
  BY <1>1 DEF IsAckSum, L
<1>5. B \in [0..(L + 1) -> Int] /\ B[0] = 0 /\ B[L + 1] = total + n
  BY <1>2, <1>3, <1>4
<1>6. ASSUME NEW i \in 1..(L + 1) PROVE B[i] = B[i - 1] + more[i] /\ B[i] <= total + n
  <2>1. CASE i = L + 1
    <3>1. B[i] = total + n /\ B[i - 1] = total /\ more[i] = n
      BY <1>2, <1>4, <2>1
    <3> QED BY <1>3, <3>1
  <2>2. CASE i # L + 1
    <3>1. i \in 1..L /\ i - 1 \in 0..(L + 1) /\ i - 1 # L + 1 /\ i \in 0..(L + 1)
      BY <1>2, <2>2
    <3>2. B[i] = A[i] /\ B[i - 1] = A[i - 1] /\ more[i] = acks[i] /\ A[i] \in Int
      BY <1>2, <1>4, <2>2, <3>1
    <3> QED BY <1>3, <1>4, <3>1, <3>2
  <2> QED BY <2>1, <2>2
<1> HIDE DEF B
<1>7. IsAckSum(B, more, total + n)
  BY <1>2, <1>5, <1>6 DEF IsAckSum
<1> QED BY <1>7 DEF AckSum, more

LEMMA AckSumTail ==
  ASSUME NEW acks \in Seq(1..SndBuf), NEW total \in Nat, AckSum(acks, total), acks # <<>>
  PROVE  Head(acks) <= total /\ AckSum(Tail(acks), total - Head(acks))
<1> DEFINE less == Tail(acks)
           L == Len(acks)
           n == acks[1]
<1>1. PICK A : IsAckSum(A, acks, total)
  BY DEF AckSum
<1> DEFINE B == [i \in 0..(L - 1) |-> A[i + 1] - n]
<1>2. /\ L \in Nat /\ L > 0 /\ Len(less) = L - 1 /\ Head(acks) = n /\ n \in 1..SndBuf
      /\ \A i \in 1..(L - 1) : less[i] = acks[i + 1] /\ acks[i + 1] \in 1..SndBuf
  <2> DEFINE S == 1..SndBuf
  <2>1. acks \in Seq(S)
    OBVIOUS
  <2> HIDE DEF S
  <2>2. L \in Nat /\ L > 0 /\ Len(less) = L - 1 /\ Head(acks) = n /\ n \in S
    BY <2>1, HeadTailProperties, EmptySeq
  <2>3. \A i \in 1..(L - 1) : less[i] = acks[i + 1] /\ acks[i + 1] \in S
    BY <2>1, <2>2, HeadTailProperties
  <2> QED BY <2>2, <2>3 DEF S
<1>3. n \in Nat
  BY <1>2, PushAssumption
<1> HIDE DEF L, less
<1>4. A \in [0..L -> Int] /\ A[0] = 0 /\ A[L] = total
      /\ \A i \in 1..L : A[i] = A[i - 1] + acks[i] /\ A[i] <= total
  BY <1>1 DEF IsAckSum, L
<1>5. A[1] = n /\ n <= total
  <2>1. 1 \in 1..L /\ A[0] = 0
    BY <1>2, <1>4
  <2>2. A[1] = A[0] + n /\ A[1] <= total
    BY <1>4, <2>1
  <2> QED BY <1>3, <2>1, <2>2
<1> HIDE DEF n
<1>6. B \in [0..(L - 1) -> Int] /\ B[0] = 0 /\ B[L - 1] = total - n
  <2>1. \A i \in 0..(L - 1) : i + 1 \in 0..L /\ A[i + 1] \in Int
    BY <1>2, <1>4
  <2>2. B \in [0..(L - 1) -> Int]
    BY <1>3, <2>1
  <2>3. B[0] = A[1] - n
    BY <1>2
  <2>4. B[L - 1] = A[L] - n
    BY <1>2
  <2> QED BY <1>3, <1>4, <1>5, <2>2, <2>3, <2>4
<1>7. ASSUME NEW i \in 1..(L - 1) PROVE B[i] = B[i - 1] + less[i] /\ B[i] <= total - n
  <2>1. i + 1 \in 1..L /\ i \in 0..(L - 1) /\ i - 1 \in 0..(L - 1) /\ (i + 1) - 1 = i /\ (i - 1) + 1 = i /\ i \in 0..L /\ i + 1 \in 0..L
    BY <1>2
  <2>2. B[i] = A[i + 1] - n /\ B[i - 1] = A[i] - n
    BY <2>1
  <2>3. A[i + 1] = A[i] + acks[i + 1] /\ A[i + 1] <= total /\ A[i] \in Int /\ A[i + 1] \in Int
    BY <1>4, <2>1
  <2>4. less[i] = acks[i + 1] /\ acks[i + 1] \in Int
    <3>1. acks[i + 1] \in 1..SndBuf
      BY <1>2
    <3> QED BY <1>2, <3>1
  <2> QED BY <1>3, <2>2, <2>3, <2>4
<1> HIDE DEF B
<1>8. IsAckSum(B, less, total - n)
  BY <1>2, <1>6, <1>7 DEF IsAckSum
<1> QED BY <1>2, <1>5, <1>8 DEF AckSum, less

\* An event that waits adds nothing.
LEMMA FlowAppend ==
  ASSUME NEW q \in Seq(EventMessage), NEW total \in Int, Flow(q, total),
         NEW m \in EventMessage, m.sent = 0, m.acked = 0
  PROVE  Flow(Append(q, m), total)
<1> DEFINE p == Append(q, m)
           L == Len(q)
<1>1. PICK P : IsFlow(P, q, total)
  BY DEF Flow
<1>2. L \in Nat /\ Len(p) = L + 1 /\ p[L + 1] = m /\ \A i \in 1..L : p[i] = q[i]
  BY AppendProperties
<1> DEFINE Q == [i \in 0..(L + 1) |-> IF i = L + 1 THEN total ELSE P[i]]
<1>3. /\ P \in [0..L -> Int] /\ P[0] = 0 /\ P[L] = total
      /\ \A i \in 1..L : /\ P[i] = P[i - 1] + q[i].sent - q[i].acked /\ q[i].acked <= q[i].sent /\ P[i] <= total
                         /\ q[i].sent = 0 => P[i - 1] = total
  BY <1>1 DEF IsFlow
<1> HIDE DEF L, p
<1>4. Q \in [0..(L + 1) -> Int] /\ Q[0] = 0 /\ Q[L + 1] = total /\ Q[L] = total
  BY <1>2, <1>3
<1>5. ASSUME NEW i \in 1..(L + 1)
      PROVE  /\ Q[i] = Q[i - 1] + p[i].sent - p[i].acked /\ p[i].acked <= p[i].sent /\ Q[i] <= total
             /\ p[i].sent = 0 => Q[i - 1] = total
  <2>1. CASE i = L + 1
    <3>1. Q[i] = total /\ Q[i - 1] = total /\ p[i] = m
      BY <1>2, <1>4, <2>1
    <3> QED BY <3>1
  <2>2. CASE i # L + 1
    <3>1. i \in 1..L /\ i \in 0..(L + 1) /\ i - 1 \in 0..(L + 1) /\ i - 1 # L + 1
      BY <1>2, <2>2
    <3>2. Q[i] = P[i] /\ Q[i - 1] = P[i - 1] /\ p[i] = q[i]
      BY <1>2, <2>2, <3>1
    <3> QED BY <1>3, <3>1, <3>2
  <2> QED BY <2>1, <2>2
<1> HIDE DEF Q
<1>6. IsFlow(Q, p, total)
  BY <1>2, <1>4, <1>5 DEF IsFlow
<1> QED BY <1>6 DEF Flow, p

\* An event sent adds its length.
LEMMA FlowSent ==
  ASSUME NEW q \in Seq(EventMessage), NEW total \in Int, Flow(q, total),
         NEW i \in DOMAIN q, q[i].sent = 0, q[i].len # 0,
         \A j \in DOMAIN q : j < i => q[j].sent # 0,
         \A j \in DOMAIN q : i < j => q[j].sent = 0,
         NEW p \in Seq(EventMessage), DOMAIN p = DOMAIN q, Len(p) = Len(q), \A j \in DOMAIN q : j # i => p[j] = q[j],
         p[i].sent = q[i].len, p[i].acked = q[i].acked
  PROVE  Flow(p, total + q[i].len)
<1> DEFINE L == Len(q)
           n == q[i].len
<1>1. PICK P : IsFlow(P, q, total)
  BY DEF Flow
<1>2. L \in Nat /\ i \in 1..L /\ DOMAIN q = 1..L /\ \A j \in 1..L : q[j] \in EventMessage
  OBVIOUS
<1>3. n \in Nat /\ \A j \in 1..L : q[j].sent \in Nat /\ q[j].acked \in Nat
  BY <1>2, EventHas
<1>4. /\ P \in [0..L -> Int] /\ P[0] = 0 /\ P[L] = total
      /\ \A j \in 1..L : /\ P[j] = P[j - 1] + q[j].sent - q[j].acked /\ q[j].acked <= q[j].sent /\ P[j] <= total
                         /\ q[j].sent = 0 => P[j - 1] = total
  BY <1>1 DEF IsFlow
<1> DEFINE Q == [j \in 0..L |-> IF j < i THEN P[j] ELSE P[j] + n]
<1> HIDE DEF L, n
<1>5. Q \in [0..L -> Int] /\ Q[0] = 0 /\ Q[L] = total + n
  BY <1>2, <1>3, <1>4
<1>6. ASSUME NEW j \in 1..L
      PROVE  /\ Q[j] = Q[j - 1] + p[j].sent - p[j].acked /\ p[j].acked <= p[j].sent /\ Q[j] <= total + n
             /\ p[j].sent = 0 => Q[j - 1] = total + n
  <2>1. j \in 0..L /\ j - 1 \in 0..L /\ i \in Int /\ P[j] \in Int /\ P[j - 1] \in Int
    BY <1>2, <1>4
  <2>2. /\ P[j] = P[j - 1] + q[j].sent - q[j].acked /\ q[j].acked <= q[j].sent /\ P[j] <= total
        /\ q[j].sent = 0 => P[j - 1] = total
    BY <1>4
  <2>3. CASE j < i
    <3>1. p[j] = q[j] /\ q[j].sent # 0 /\ j - 1 < i
      BY <1>2, <2>1, <2>3
    <3>2. Q[j] = P[j] /\ Q[j - 1] = P[j - 1]
      BY <2>1, <2>3, <3>1
    <3> QED BY <1>3, <2>1, <2>2, <3>1, <3>2
  <2>4. CASE j = i
    <3>1. Q[j] = P[j] + n /\ Q[j - 1] = P[j - 1]
      BY <2>1, <2>4
    <3>2. q[j].sent = 0 /\ q[j].acked = 0 /\ p[j].sent = n /\ p[j].acked = 0 /\ n # 0 /\ P[j] = P[j - 1]
      BY <1>3, <2>1, <2>2, <2>4 DEF n
    <3> QED BY <1>3, <2>1, <2>2, <3>1, <3>2
  <2>5. CASE j > i
    <3>1. p[j] = q[j] /\ q[j].sent = 0 /\ ~(j < i) /\ ~(j - 1 < i)
      BY <1>2, <2>1, <2>5
    <3>2. Q[j] = P[j] + n /\ Q[j - 1] = P[j - 1] + n
      BY <2>1, <3>1
    <3> QED BY <1>3, <2>1, <2>2, <3>1, <3>2
  <2> QED BY <2>1, <2>3, <2>4, <2>5
<1> HIDE DEF Q
<1>7. Len(p) = L
  BY DEF L
<1>8. IsFlow(Q, p, total + n)
  BY <1>5, <1>6, <1>7 DEF IsFlow
<1> QED BY <1>8 DEF Flow, n

\* Sums from which the same is taken.
LEMMA SumsLess ==
  ASSUME NEW total \in Int, NEW n \in Int, NEW u \in Int, NEW v \in Int, NEW e \in Int, NEW f \in Int,
         v = u + e - f, v <= total
  PROVE  v - n = u - n + e - f /\ v - n <= total - n
OBVIOUS

\* The front event is acknowledged in part.
LEMMA FlowAcked ==
  ASSUME NEW q \in Seq(EventMessage), NEW total \in Int, Flow(q, total), q # <<>>,
         NEW n \in Nat, q[1].acked + n <= q[1].sent, q[1].sent # 0,
         NEW p \in Seq(EventMessage), DOMAIN p = DOMAIN q, Len(p) = Len(q), \A j \in DOMAIN q : j # 1 => p[j] = q[j],
         p[1].sent = q[1].sent, p[1].acked = q[1].acked + n
  PROVE  Flow(p, total - n)
<1> DEFINE L == Len(q)
<1>1. PICK P : IsFlow(P, q, total)
  BY DEF Flow
<1>2. L \in Nat /\ 1 \in 1..L /\ DOMAIN q = 1..L /\ \A j \in 1..L : q[j] \in EventMessage
  BY EmptySeq
<1>3. \A j \in 1..L : q[j].sent \in Nat /\ q[j].acked \in Nat
  BY <1>2, EventHas
<1>4. /\ P \in [0..L -> Int] /\ P[0] = 0 /\ P[L] = total
      /\ \A j \in 1..L : /\ P[j] = P[j - 1] + q[j].sent - q[j].acked /\ q[j].acked <= q[j].sent /\ P[j] <= total
                         /\ q[j].sent = 0 => P[j - 1] = total
  BY <1>1 DEF IsFlow
<1> DEFINE Q == [j \in 0..L |-> IF j = 0 THEN 0 ELSE P[j] - n]
<1> HIDE DEF L
<1>5. Q \in [0..L -> Int] /\ Q[0] = 0 /\ Q[L] = total - n
  BY <1>2, <1>4
<1>6. ASSUME NEW j \in 1..L
      PROVE  /\ Q[j] = Q[j - 1] + p[j].sent - p[j].acked /\ p[j].acked <= p[j].sent /\ Q[j] <= total - n
             /\ p[j].sent = 0 => Q[j - 1] = total - n
  <2>1. j \in 0..L /\ j - 1 \in 0..L /\ P[j] \in Int /\ P[j - 1] \in Int
    BY <1>2, <1>4
  <2>2. /\ P[j] = P[j - 1] + q[j].sent - q[j].acked /\ q[j].acked <= q[j].sent /\ P[j] <= total
        /\ q[j].sent = 0 => P[j - 1] = total
    BY <1>4
  <2>3. CASE j = 1
    <3>1. Q[j] = P[j] - n /\ Q[j - 1] = 0 /\ P[j - 1] = 0
      BY <1>4, <2>1, <2>3
    <3>2. p[j].sent = q[j].sent /\ p[j].acked = q[j].acked + n /\ q[j].acked + n <= q[j].sent /\ q[j].sent # 0
      BY <2>3
    <3>3. q[j].sent \in Nat /\ q[j].acked \in Nat
      BY <1>3
    <3>4. ASSUME NEW a \in Int, NEW b \in Int, NEW e \in Nat, NEW f \in Nat, b = a + e - f, a = 0, b <= total
          PROVE  b - n = 0 + e - (f + n) /\ b - n <= total - n
      BY <3>4
    <3>5. P[j] - n = 0 + q[j].sent - (q[j].acked + n) /\ P[j] - n <= total - n
      BY <2>1, <2>2, <3>1, <3>3, <3>4
    <3> QED BY <3>1, <3>2, <3>5
  <2>4. CASE j # 1
    <3>1. p[j] = q[j] /\ j # 0 /\ j - 1 # 0
      BY <1>2, <2>4
    <3>2. Q[j] = P[j] - n /\ Q[j - 1] = P[j - 1] - n
      BY <2>1, <3>1
    <3> DEFINE u == P[j - 1]
               v == P[j]
               e == q[j].sent
               f == q[j].acked
    <3>3. e \in Nat /\ f \in Nat /\ u \in Int /\ v \in Int
      BY <1>3, <2>1
    <3>4. v = u + e - f /\ f <= e /\ v <= total /\ (e = 0 => u = total)
      BY <2>2
    <3>5. Q[j] = v - n /\ Q[j - 1] = u - n /\ p[j].sent = e /\ p[j].acked = f
      BY <3>1, <3>2
    <3> HIDE DEF u, v, e, f
    <3>6. v - n = u - n + e - f /\ v - n <= total - n
      <4>1. n \in Int /\ e \in Int /\ f \in Int
        BY <3>3
      <4> QED BY <3>3, <3>4, <4>1, SumsLess
    <3> QED BY <3>4, <3>5, <3>6
  <2> QED BY <2>3, <2>4
<1> HIDE DEF Q
<1>7. Len(p) = L
  BY DEF L
<1>8. IsFlow(Q, p, total - n)
  BY <1>5, <1>6, <1>7 DEF IsFlow
<1> QED BY <1>8 DEF Flow

\* The front event leaves with all that it had to be acknowledged.
LEMMA FlowLeft ==
  ASSUME NEW q \in Seq(EventMessage), NEW total \in Int, Flow(q, total), q # <<>>
  PROVE  Flow(Tail(q), total - (q[1].sent - q[1].acked))
<1> DEFINE L == Len(q)
           p == Tail(q)
           n == q[1].sent - q[1].acked
<1>1. PICK P : IsFlow(P, q, total)
  BY DEF Flow
<1>2. L \in Nat /\ 1 \in 1..L /\ DOMAIN q = 1..L /\ \A j \in 1..L : q[j] \in EventMessage
  BY EmptySeq
<1>3. \A j \in 1..L : q[j].sent \in Nat /\ q[j].acked \in Nat
  BY <1>2, EventHas
<1>4. /\ P \in [0..L -> Int] /\ P[0] = 0 /\ P[L] = total
      /\ \A j \in 1..L : /\ P[j] = P[j - 1] + q[j].sent - q[j].acked /\ q[j].acked <= q[j].sent /\ P[j] <= total
                         /\ q[j].sent = 0 => P[j - 1] = total
  BY <1>1 DEF IsFlow
<1>5. Len(p) = L - 1 /\ \A j \in 1..(L - 1) : p[j] = q[j + 1]
  BY HeadTailProperties
<1> DEFINE Q == [j \in 0..(L - 1) |-> P[j + 1] - n]
<1> HIDE DEF L, p
<1>6. n \in Int /\ P[1] = n
  <2>1. n \in Int
    BY <1>2, <1>3
  <2>2. P[1] = P[0] + q[1].sent - q[1].acked
    BY <1>2, <1>4
  <2> QED BY <1>2, <1>3, <1>4, <2>1, <2>2
<1> HIDE DEF n
<1>7. Q \in [0..(L - 1) -> Int] /\ Q[0] = 0 /\ Q[L - 1] = total - n
  <2>1. \A j \in 0..(L - 1) : j + 1 \in 0..L /\ P[j + 1] \in Int
    BY <1>2, <1>4
  <2>2. Q \in [0..(L - 1) -> Int]
    BY <1>6, <2>1
  <2>3. Q[0] = P[1] - n /\ Q[L - 1] = P[L] - n
    BY <1>2
  <2> QED BY <1>4, <1>6, <2>2, <2>3
<1>8. ASSUME NEW j \in 1..(L - 1)
      PROVE  /\ Q[j] = Q[j - 1] + p[j].sent - p[j].acked /\ p[j].acked <= p[j].sent /\ Q[j] <= total - n
             /\ p[j].sent = 0 => Q[j - 1] = total - n
  <2>1. /\ j + 1 \in 1..L /\ j \in 0..(L - 1) /\ j - 1 \in 0..(L - 1) /\ (j + 1) - 1 = j /\ (j - 1) + 1 = j
        /\ j \in 0..L /\ j + 1 \in 0..L
    BY <1>2
  <2>2. Q[j] = P[j + 1] - n /\ Q[j - 1] = P[j] - n /\ P[j] \in Int /\ P[j + 1] \in Int
    BY <1>4, <2>1
  <2>3. /\ P[j + 1] = P[j] + q[j + 1].sent - q[j + 1].acked /\ q[j + 1].acked <= q[j + 1].sent /\ P[j + 1] <= total
        /\ q[j + 1].sent = 0 => P[j] = total
    BY <1>4, <2>1
  <2>4. p[j] = q[j + 1] /\ q[j + 1].sent \in Nat /\ q[j + 1].acked \in Nat
    BY <1>3, <1>5, <2>1
  <2>5. ASSUME NEW a \in Int, NEW b \in Int, NEW e \in Nat, NEW f \in Nat, b = a + e - f, b <= total
        PROVE  b - n = a - n + e - f /\ b - n <= total - n /\ (a = total => a - n = total - n)
    BY <1>6, <2>5
  <2>6. /\ P[j + 1] - n = P[j] - n + q[j + 1].sent - q[j + 1].acked /\ P[j + 1] - n <= total - n
        /\ P[j] = total => P[j] - n = total - n
    BY <2>2, <2>3, <2>4, <2>5
  <2> QED BY <2>2, <2>3, <2>4, <2>6
<1> HIDE DEF Q
<1>9. IsFlow(Q, p, total - n)
  BY <1>5, <1>7, <1>8 DEF IsFlow
<1> QED BY <1>9 DEF Flow, n, p

\* What is acknowledged of a queue was sent by the event in front.
LEMMA FlowFront ==
  ASSUME NEW q \in Seq(EventMessage), NEW total \in Int, Flow(q, total)
  PROVE  /\ q = <<>> => total = 0
         /\ q # <<>> => (q[1].acked <= q[1].sent /\ q[1].sent - q[1].acked <= total /\ (total > 0 => q[1].sent # 0))
<1>1. PICK P : IsFlow(P, q, total)
  BY DEF Flow
<1>2. CASE q = <<>>
  BY <1>1, <1>2 DEF IsFlow
<1>3. CASE q # <<>>
  <2>1. 1 \in 1..Len(q) /\ q[1] \in EventMessage
    BY <1>3, EmptySeq
  <2>2. q[1].sent \in Nat /\ q[1].acked \in Nat
    BY <2>1, EventHas
  <2>3. /\ P[0] = 0 /\ P[1] = P[0] + q[1].sent - q[1].acked /\ q[1].acked <= q[1].sent /\ P[1] <= total
        /\ q[1].sent = 0 => P[0] = total
    BY <1>1, <2>1 DEF IsFlow
  <2> QED BY <1>3, <2>2, <2>3
<1> QED BY <1>2, <1>3

-----------------------------------------------------------------------------
(* An event source client *)

SourceOK(c, k, s) ==
  /\ c \in SourceType /\ Len(c.messages) <= MaxEvents /\ LineOK(c.messages, k)
  /\ c.passed \/ (Told(c.messages, c.wire, c.taken, k) /\ Flow(c.messages, c.unacked + s))

SameLink(c, d) == d.open = c.open /\ d.acks = c.acks

\* One event changed.
LEMMA ChangedEvent ==
  ASSUME NEW q \in Seq(EventMessage), NEW i \in DOMAIN q, NEW m \in EventMessage, NEW p, p = [q EXCEPT ![i] = m],
         m.body = q[i].body
  PROVE  /\ p \in Seq(EventMessage) /\ Len(p) = Len(q) /\ DOMAIN p = DOMAIN q /\ p[i] = m
         /\ \A j \in DOMAIN q : j # i => p[j] = q[j]
         /\ \A j \in DOMAIN q : p[j].body = q[j].body
         /\ Bodies(p) = Bodies(q)
<1>1. p \in Seq(EventMessage) /\ Len(p) = Len(q) /\ DOMAIN p = DOMAIN q /\ p[i] = m
      /\ \A j \in DOMAIN q : j # i => p[j] = q[j]
  BY ExceptSeq
<1>2. \A j \in DOMAIN q : p[j].body = q[j].body
  BY <1>1
<1> QED BY <1>1, <1>2 DEF Bodies

\* An event that waits, and one that goes out.
Waits(c) == [c EXCEPT !.passed = TRUE]
GoesOut(c, i) ==
  [c EXCEPT !.messages = [c.messages EXCEPT ![i] = [c.messages[i] EXCEPT !.sent = c.messages[i].len]],
            !.unacked = c.unacked + (c.messages[i].len - c.messages[i].sent),
            !.wire = Append(c.wire, c.messages[i].body)]

LEMMA SendIs ==
  ASSUME NEW c \in SourceType, NEW i \in DOMAIN c.messages, NEW fault,
         NEW d, d = Source!Send(c, i, fault)
  PROVE  \/ d = Waits(c)
         \/ /\ c.open /\ c.unacked + (c.messages[i].len - c.messages[i].sent) <= SndBuf
            /\ c.messages[i].len - c.messages[i].sent > 0
            /\ d = GoesOut(c, i)
<1> DEFINE m == c.messages[i]
           len == m.len - m.sent
           add == len > 0 /\ fault # "data"
<1>1. c.messages \in Seq(EventMessage) /\ c.unacked \in Nat /\ c.open \in BOOLEAN /\ c.passed \in BOOLEAN
  BY PushAssumption DEF SourceType
<1>2. m \in EventMessage
  BY <1>1
<1>3. m.len \in Nat /\ m.sent \in Nat
  BY <1>2, EventHas
<1>4. CASE Source!Space(c) < len
  BY <1>4 DEF Source!Send, Waits
<1>5. CASE ~(Source!Space(c) < len) /\ ~add
  <2>1. d = [c EXCEPT !.messages[i].sent = @, !.unacked = @, !.wire = @, !.passed = TRUE]
    BY <1>1, <1>5 DEF Source!Send
  <2>2. [m EXCEPT !.sent = @] = m
    BY <1>2 DEF EventMessage
  <2> DEFINE p == [c.messages EXCEPT ![i] = [m EXCEPT !.sent = @]]
  <2>3. p = c.messages
    BY <1>1, <2>2
  <2>4. d = [c EXCEPT !.messages = p, !.passed = TRUE]
    BY <2>1 DEF SourceType
  <2> HIDE DEF p
  <2> QED BY <2>3, <2>4 DEF SourceType, Waits
<1>6. CASE ~(Source!Space(c) < len) /\ add
  <2>1. c.open /\ c.unacked + len <= SndBuf /\ len > 0
    <3>1. len > 0 /\ len \in Int
      BY <1>3, <1>6
    <3>2. Source!Space(c) = IF c.open THEN SndBuf - c.unacked ELSE 0
      BY DEF Source!Space
    <3> HIDE DEF len
    <3>3. c.open
      BY <1>6, <3>1, <3>2
    <3>4. SndBuf - c.unacked >= len
      BY <1>1, <1>6, <3>1, <3>2, <3>3, PushAssumption
    <3> QED BY <1>1, <3>1, <3>3, <3>4, PushAssumption
  <2>2. d = [c EXCEPT !.messages[i].sent = @ + len, !.unacked = @ + len, !.wire = Append(@, m.body), !.passed = @]
    BY <1>1, <1>6 DEF Source!Send
  <2>3. m.sent + len = m.len
    BY <1>3
  <2> QED BY <2>1, <2>2, <2>3 DEF SourceType, GoesOut
<1> QED BY <1>4, <1>5, <1>6

WaitsOrWent(c, d, i) ==
  \/ d.passed /\ d.messages = c.messages
  \/ /\ d.passed = c.passed
     /\ d.unacked = c.unacked + (c.messages[i].len - c.messages[i].sent)
     /\ d.wire = Append(c.wire, c.messages[i].body)
     /\ d.messages = [c.messages EXCEPT ![i] = [c.messages[i] EXCEPT !.sent = c.messages[i].len]]

LEMMA SendType ==
  ASSUME NEW c \in SourceType, NEW i \in DOMAIN c.messages, NEW fault,
         NEW d, d = Source!Send(c, i, fault)
  PROVE  /\ d \in SourceType /\ Len(d.messages) = Len(c.messages) /\ SameLink(c, d) /\ d.taken = c.taken
         /\ WaitsOrWent(c, d, i)
<1>0. \/ d = Waits(c)
      \/ /\ c.open /\ c.unacked + (c.messages[i].len - c.messages[i].sent) <= SndBuf
         /\ c.messages[i].len - c.messages[i].sent > 0
         /\ d = GoesOut(c, i)
  BY SendIs
<1> DEFINE m == c.messages[i]
           n == [m EXCEPT !.sent = m.len]
           len == m.len - m.sent
           q == [c.messages EXCEPT ![i] = n]
<1>1. c.messages \in Seq(EventMessage) /\ c.unacked \in Nat /\ m \in EventMessage
  BY PushAssumption DEF SourceType
<1>2. n \in EventMessage /\ n.body = m.body /\ m.body \in Nat
  BY <1>1, EventHas DEF EventMessage
<1>3. m.len \in Nat /\ m.sent \in Nat
  BY <1>1, EventHas
<1>4. q \in Seq(EventMessage) /\ Len(q) = Len(c.messages)
  BY <1>1, <1>2, ChangedEvent
<1>5. Append(c.wire, m.body) \in Seq(Nat)
  BY <1>2 DEF SourceType
<1>6. CASE d = Waits(c)
  BY <1>6 DEF SourceType, SameLink, Waits, WaitsOrWent
<1>7. CASE d # Waits(c)
  <2>1. /\ c.unacked + len <= SndBuf /\ len > 0
        /\ d = [c EXCEPT !.messages = q, !.unacked = c.unacked + len, !.wire = Append(c.wire, m.body)]
    BY <1>0, <1>7 DEF GoesOut
  <2>2. c.unacked + len \in 0..SndBuf
    <3>1. len \in Int
      BY <1>3
    <3> HIDE DEF q, len, m
    <3> QED BY <1>1, <2>1, <3>1, PushAssumption
  <2> HIDE DEF q, len, m
  <2>3. d \in SourceType
    BY <1>4, <1>5, <2>1, <2>2 DEF SourceType
  <2>4. /\ d.messages = q /\ d.unacked = c.unacked + len /\ d.wire = Append(c.wire, m.body)
        /\ SameLink(c, d) /\ d.taken = c.taken /\ d.passed = c.passed
    BY <2>1 DEF SourceType, SameLink
  <2>5. WaitsOrWent(c, d, i)
    BY <2>4 DEF q, len, m, WaitsOrWent
  <2> QED BY <1>4, <2>3, <2>4, <2>5
<1> QED BY <1>6, <1>7

\* The events up to one were sent, or one had to let another pass.
AllSent(c, i) == c.passed \/ \A j \in DOMAIN c.messages : j <= i => c.messages[j].sent # 0

\* The next event goes out behind the others.
LEMMA ToldSent ==
  ASSUME NEW q \in Seq(EventMessage), NEW wire \in Seq(Nat), NEW taken, NEW k \in Nat,
         LineOK(q, k), Told(q, wire, taken, k),
         NEW i \in DOMAIN q, q[i].sent = 0, \A j \in DOMAIN q : j < i => q[j].sent # 0,
         NEW p \in Seq(EventMessage), DOMAIN p = DOMAIN q, Bodies(p) = Bodies(q),
         p[i].sent # 0, \A j \in DOMAIN q : p[j].body = q[j].body, \A j \in DOMAIN q : j # i => p[j] = q[j]
  PROVE  Told(p, Append(wire, q[i].body), taken, k)
<1> DEFINE b == q[i].body
           more == Append(wire, b)
           L == Len(wire)
<1>1. /\ \A j \in DOMAIN q : q[j] \in EventMessage /\ j \in Int /\ q[j].body \in Nat /\ q[j].body <= k
      /\ \A j, l \in DOMAIN q : j < l => q[j].body < q[l].body
  <2>1. \A j \in DOMAIN q : q[j] \in EventMessage /\ j \in Int
    OBVIOUS
  <2> QED BY <2>1, EventHas DEF LineOK
<1>2. b \in Nat
  BY <1>1
<1>3. L \in Nat /\ Len(more) = L + 1 /\ more[L + 1] = b /\ \A x \in 1..L : more[x] = wire[x]
  BY <1>2, AppendProperties
<1>4. DOMAIN wire = 1..L /\ DOMAIN more = 1..(L + 1) /\ \A x \in 1..L : wire[x] \in Nat
  <2>1. more \in Seq(Nat)
    BY <1>2
  <2> QED BY <1>3, <2>1
<1>5. \A j \in DOMAIN q : q[j].sent = 0 => \A x \in 1..L : wire[x] < q[j].body
  BY <1>4 DEF Told
<1> HIDE DEF more, b, L
<1>6. \A j \in DOMAIN p : p[j].sent = 0 => j > i /\ q[j].sent = 0
  <2> TAKE j \in DOMAIN p
  <2> HAVE p[j].sent = 0
  <2>1. j # i /\ q[j].sent = 0
    OBVIOUS
  <2> QED BY <1>1, <2>1
<1>7. ASSUME NEW j \in DOMAIN p, NEW l \in DOMAIN p, j < l, p[j].sent = 0 PROVE p[l].sent = 0
  <2>1. j > i /\ q[j].sent = 0
    BY <1>6, <1>7
  <2>2. q[l].sent = 0
    BY <1>7, <2>1 DEF Told
  <2>3. l # i
    BY <1>1, <1>7, <2>1
  <2> QED BY <2>2, <2>3
<1>8. ASSUME NEW j \in DOMAIN p, p[j].sent = 0, NEW x \in DOMAIN more PROVE more[x] < p[j].body
  <2>1. j > i /\ q[j].sent = 0 /\ p[j].body = q[j].body
    BY <1>6, <1>8
  <2>2. CASE x \in 1..L
    BY <1>3, <1>5, <2>1, <2>2
  <2>3. CASE x = L + 1
    BY <1>1, <1>3, <2>1, <2>3 DEF b
  <2> QED BY <1>3, <1>4, <1>8, <2>2, <2>3
<1>9. ToSet(more) = ToSet(wire) \cup {b}
  <2>1. ToSet(more) = {more[x] : x \in 1..(L + 1)} /\ ToSet(wire) = {wire[x] : x \in 1..L}
    BY <1>4 DEF ToSet
  <2> QED BY <1>3, <2>1
<1>10. ASSUME NEW j \in DOMAIN p, p[j].sent # 0 PROVE p[j].body \in ToSet(more)
  <2>1. CASE j = i
    BY <1>9, <2>1 DEF b
  <2>2. CASE j # i
    <3>1. q[j].sent # 0 /\ p[j].body = q[j].body
      BY <1>10, <2>2
    <3>2. q[j].body \in ToSet(wire)
      BY <3>1 DEF Told
    <3> QED BY <1>9, <3>1, <3>2
  <2> QED BY <2>1, <2>2
<1>11. ASSUME NEW x \in 1..(Len(more) - 1) PROVE more[x] < more[x + 1]
  <2>1. x \in 1..L /\ (x = L \/ x \in 1..(L - 1))
    BY <1>3
  <2>2. CASE x = L
    <3>1. more[x] = wire[x] /\ more[x + 1] = b
      BY <1>3, <2>1, <2>2
    <3>2. wire[x] < b
      BY <1>5, <2>1 DEF b
    <3> QED BY <3>1, <3>2
  <2>3. CASE x \in 1..(L - 1)
    <3>1. x + 1 \in 1..L /\ wire[x] < wire[x + 1]
      BY <1>3, <2>3 DEF Told, L
    <3> QED BY <1>3, <2>1, <3>1
  <2> QED BY <2>1, <2>2, <2>3
<1>12. ASSUME NEW x \in DOMAIN more PROVE more[x] <= k
  <2>1. CASE x \in 1..L
    BY <1>3, <1>4, <2>1 DEF Told
  <2>2. CASE x = L + 1
    BY <1>1, <1>3, <2>2 DEF b
  <2> QED BY <1>3, <1>4, <1>12, <2>1, <2>2
<1>13. taken \ Bodies(p) \subseteq ToSet(more)
  BY <1>9 DEF Told
<1>14. Told(p, more, taken, k)
  BY <1>7, <1>8, <1>10, <1>11, <1>12, <1>13 DEF Told
<1> QED BY <1>14 DEF more, b

LEMMA SendEventOK ==
  ASSUME NEW c, NEW k \in Nat, NEW s \in Nat, SourceOK(c, k, s), NEW i \in DOMAIN c.messages,
         c.messages[i].sent = 0, AllSent(c, i - 1), NEW fault, NEW d, d = Source!Send(c, i, fault)
  PROVE  SourceOK(d, k, s) /\ SameLink(c, d) /\ Len(d.messages) = Len(c.messages) /\ AllSent(d, i)
<1> DEFINE q == c.messages
           m == q[i]
           m2 == [m EXCEPT !.sent = m.len]
           p == [q EXCEPT ![i] = m2]
<1>1. c \in SourceType /\ q \in Seq(EventMessage) /\ m \in EventMessage /\ LineOK(q, k) /\ Len(q) <= MaxEvents
  BY DEF SourceOK, SourceType
<1>2. /\ d \in SourceType /\ Len(d.messages) = Len(q) /\ SameLink(c, d) /\ d.taken = c.taken
      /\ \/ /\ d.passed /\ d.messages = q
         \/ /\ d.passed = c.passed
            /\ d.unacked = c.unacked + (m.len - m.sent)
            /\ d.wire = Append(c.wire, m.body)
            /\ d.messages = p
  <2>1. /\ d \in SourceType /\ Len(d.messages) = Len(q) /\ SameLink(c, d) /\ d.taken = c.taken
        /\ WaitsOrWent(c, d, i)
    BY <1>1, SendType
  <2> QED BY <2>1 DEF WaitsOrWent
<1>3. CASE d.passed /\ d.messages = q
  BY <1>1, <1>2, <1>3 DEF SourceOK, AllSent
<1>4. CASE ~(d.passed /\ d.messages = q)
  <2>1. /\ d.passed = c.passed /\ d.unacked = c.unacked + (m.len - m.sent)
        /\ d.wire = Append(c.wire, m.body) /\ d.messages = p
    BY <1>2, <1>4
  <2>2. m.len \in Nat /\ m.acked < m.len /\ m.acked \in Nat /\ m.body \in Nat
    BY <1>1, EventHas DEF LineOK
  <2>3. m2 \in EventMessage /\ m2.body = m.body /\ m2.sent = m.len /\ m2.len = m.len /\ m2.acked = m.acked
    BY <1>1, <2>2 DEF EventMessage
  <2>4. m.len # 0 /\ d.unacked = c.unacked + m.len
    BY <2>1, <2>2, <1>1
  <2> HIDE DEF m2
  <2>5. /\ p \in Seq(EventMessage) /\ Len(p) = Len(q) /\ DOMAIN p = DOMAIN q /\ p[i] = m2
        /\ \A j \in DOMAIN q : j # i => p[j] = q[j]
        /\ \A j \in DOMAIN q : p[j].body = q[j].body
        /\ Bodies(p) = Bodies(q)
    BY <1>1, <2>3, ChangedEvent
  <2> HIDE DEF p
  <2>6. LineOK(p, k)
    <3>1. ASSUME NEW j \in DOMAIN p
          PROVE p[j].acked < p[j].len /\ p[j].sent \in {0, p[j].len} /\ p[j].body <= k
      <4>1. CASE j = i
        BY <1>1, <2>2, <2>3, <2>5, <4>1 DEF LineOK
      <4>2. CASE j # i
        BY <1>1, <2>5, <4>2 DEF LineOK
      <4> QED BY <4>1, <4>2
    <3>2. \A j, l \in DOMAIN p : j < l => p[j].body < p[l].body
      BY <1>1, <2>5 DEF LineOK
    <3> QED BY <3>1, <3>2 DEF LineOK
  <2>7. ASSUME ~c.passed
        PROVE  Told(p, d.wire, d.taken, k) /\ Flow(p, d.unacked + s) /\ \A j \in DOMAIN p : j <= i => p[j].sent # 0
    <3>1. Told(q, c.wire, c.taken, k) /\ Flow(q, c.unacked + s) /\ c.wire \in Seq(Nat) /\ c.unacked \in Nat
      BY <1>1, <2>7, PushAssumption DEF SourceOK, SourceType
    <3>2. \A j \in DOMAIN q : j < i => q[j].sent # 0
      <4>1. \A j \in DOMAIN q : j \in Int /\ i \in Int
        BY <1>1
      <4>2. \A j \in DOMAIN q : j <= i - 1 => q[j].sent # 0
        BY <2>7 DEF AllSent
      <4> QED BY <4>1, <4>2
    <3>3. \A j \in DOMAIN q : i < j => q[j].sent = 0
      BY <3>1 DEF Told
    <3>4. p[i].sent # 0 /\ q[i].sent = 0 /\ p[i].sent = q[i].len /\ p[i].acked = q[i].acked /\ i \in DOMAIN q /\ q[i].len # 0
      BY <2>3, <2>4, <2>5
    <3> HIDE DEF q
    <3>5. Told(p, Append(c.wire, q[i].body), c.taken, k)
      BY <1>1, <2>5, <3>1, <3>2, <3>4, ToldSent
    <3>6. c.unacked + s \in Int
      BY <3>1
    <3>7. Flow(p, c.unacked + s + q[i].len)
      BY <1>1, <2>5, <3>1, <3>2, <3>3, <3>4, <3>6, FlowSent
    <3>8. c.unacked + s + q[i].len = d.unacked + s
      BY <2>2, <2>4, <3>1
    <3>9. \A j \in DOMAIN p : j <= i => p[j].sent # 0
      <4> TAKE j \in DOMAIN p
      <4>1. j \in Int /\ i \in Int
        BY <1>1, <2>5 DEF q
      <4> HAVE j <= i
      <4>2. CASE j = i
        BY <3>4, <4>2
      <4>3. CASE j # i
        <5>1. j < i /\ j \in DOMAIN q
          BY <2>5, <4>1, <4>3
        <5> QED BY <2>5, <3>2, <4>3, <5>1
      <4> QED BY <4>2, <4>3
    <3> QED BY <1>2, <2>1, <3>5, <3>7, <3>8, <3>9
  <2> HIDE DEF q
  <2>8. SourceOK(d, k, s)
    BY <1>1, <1>2, <2>1, <2>5, <2>6, <2>7 DEF SourceOK
  <2> QED BY <1>2, <2>1, <2>7, <2>8 DEF AllSent, q
<1> QED BY <1>3, <1>4

\* One round of the loop over the queue.
Goes(x, i, fault) == IF Source!Sent(x.messages[i]) THEN x ELSE Source!Send(x, i, fault)

SameLength(x, d) == Len(d.messages) = Len(x.messages)
SentBefore(x, i) == x.passed \/ \A j \in DOMAIN x.messages : j < i => x.messages[j].sent # 0

LEMMA GoesOK ==
  ASSUME NEW x, NEW k \in Nat, NEW s \in Nat, SourceOK(x, k, s), NEW i \in DOMAIN x.messages,
         SentBefore(x, i), NEW fault, NEW d, d = Goes(x, i, fault)
  PROVE  SourceOK(d, k, s) /\ SameLink(x, d) /\ SameLength(x, d) /\ AllSent(d, i)
<1> DEFINE m == x.messages[i]
<1>1. /\ x \in SourceType /\ x.messages \in Seq(EventMessage) /\ m \in EventMessage /\ LineOK(x.messages, k)
      /\ DOMAIN x.messages \subseteq Int
  BY DEF SourceOK, SourceType
<1>2. m.len \in Nat /\ m.len # 0 /\ m.sent \in {0, m.len}
  <2>1. m.len \in Nat /\ m.acked \in Nat
    BY <1>1, EventHas
  <2>2. m.acked < m.len /\ m.sent \in {0, m.len}
    BY <1>1 DEF LineOK
  <2> QED BY <2>1, <2>2
<1>3. CASE m.sent = m.len
  <2>1. d = x
    BY <1>3 DEF Goes, Source!Sent
  <2>2. AllSent(x, i)
    <3> SUFFICES ASSUME ~x.passed, NEW j \in DOMAIN x.messages, j <= i PROVE x.messages[j].sent # 0
      BY DEF AllSent
    <3>1. CASE j = i
      BY <1>2, <1>3, <3>1
    <3>2. CASE j # i
      <4>1. j < i
        BY <1>1, <3>2
      <4> QED BY <4>1 DEF SentBefore
    <3> QED BY <3>1, <3>2
  <2> QED BY <2>1, <2>2 DEF SameLink, SameLength
<1>4. CASE m.sent # m.len
  <2>1. m.sent = 0 /\ d = Source!Send(x, i, fault)
    BY <1>2, <1>4 DEF Goes, Source!Sent
  <2>2. AllSent(x, i - 1)
    BY <1>1 DEF AllSent, SentBefore
  <2> QED BY <2>1, <2>2, SendEventOK DEF SameLength
<1> QED BY <1>3, <1>4

LEMMA GoesType ==
  ASSUME NEW x \in SourceType, NEW i \in DOMAIN x.messages, NEW fault, NEW d, d = Goes(x, i, fault)
  PROVE  d \in SourceType /\ Len(d.messages) = Len(x.messages)
<1>1. CASE Source!Sent(x.messages[i])
  BY <1>1 DEF Goes
<1>2. CASE ~Source!Sent(x.messages[i])
  <2>1. d = Source!Send(x, i, fault)
    BY <1>2 DEF Goes
  <2> QED BY <2>1, SendType
<1> QED BY <1>1, <1>2

LEMMA SendUpToOK ==
  ASSUME NEW c, NEW k \in Nat, NEW s \in Nat, SourceOK(c, k, s), NEW fault,
         NEW d, d = Source!SendUpTo(c, fault)[Len(c.messages)]
  PROVE  SourceOK(d, k, s) /\ SameLink(c, d) /\ AllSent(d, Len(c.messages))
<1> DEFINE N == Len(c.messages)
           V == {x \in SourceType : Len(x.messages) = N}
           step == [x \in (1..N) \X V |-> Goes(x[2], x[1], fault)]
           Eq(f) == f = [i \in 0..N |->
                      IF i = 0 THEN c
                      ELSE IF Source!Sent(f[i - 1].messages[i]) THEN f[i - 1]
                      ELSE Source!Send(f[i - 1], i, fault)]
           after == CHOOSE f : Eq(f)
<1>1. c \in SourceType /\ c.messages \in Seq(EventMessage)
  BY DEF SourceOK, SourceType
<1>2. N \in Nat /\ c \in V
  BY <1>1
<1>3. d = after[N]
  BY DEF Source!SendUpTo
<1>4. ASSUME NEW i \in 1..N, NEW x \in V PROVE Goes(x, i, fault) \in V
  <2>1. x \in SourceType /\ Len(x.messages) = N /\ i \in DOMAIN x.messages
    BY <1>2 DEF SourceType
  <2> DEFINE went == Goes(x, i, fault)
  <2> HIDE DEF V
  <2>2. went \in SourceType /\ Len(went.messages) = Len(x.messages)
    BY <2>1, GoesType
  <2> HIDE DEF went
  <2>3. went \in V
    BY <2>1, <2>2 DEF V
  <2> QED BY <2>3 DEF went
<1>5. IsStep(step, N, V)
  <2> HIDE DEF V, N
  <2>1. ASSUME NEW x \in (1..N) \X V PROVE Goes(x[2], x[1], fault) \in V
    <3>1. x[1] \in 1..N /\ x[2] \in V
      OBVIOUS
    <3> QED BY <1>4, <3>1
  <2> QED BY <2>1 DEF IsStep
<1>6. \A i \in 1..N, x \in V : step[<<i, x>>] = Goes(x, i, fault)
  <2> HIDE DEF V, N
  <2> QED OBVIOUS
<1> HIDE DEF N, V, step, after
<1>7. PICK h : IsIteration(h, N, V, c, step)
  BY <1>2, <1>5, Recursion
<1>8. h \in [0..N -> V] /\ h[0] = c
  BY <1>7 DEF IsIteration
<1>9. ASSUME NEW i \in 1..N PROVE h[i] = Goes(h[i - 1], i, fault)
  <2>1. i - 1 \in 0..N /\ h[i] = step[<<i, h[i - 1]>>]
    BY <1>2, <1>7 DEF IsIteration
  <2>2. h[i - 1] \in V
    BY <1>8, <2>1
  <2> QED BY <1>6, <2>1, <2>2
<1>10. Eq(h)
  <2>1. ASSUME NEW i \in 0..N
        PROVE  h[i] = IF i = 0 THEN c
                      ELSE IF Source!Sent(h[i - 1].messages[i]) THEN h[i - 1]
                      ELSE Source!Send(h[i - 1], i, fault)
    <3>1. CASE i = 0
      BY <1>8, <3>1
    <3>2. CASE i # 0
      <4>1. i \in 1..N
        BY <1>2, <3>2
      <4>2. h[i] = Goes(h[i - 1], i, fault)
        BY <1>9, <4>1
      <4> QED BY <3>2, <4>2 DEF Goes
    <3> QED BY <3>1, <3>2
  <2> QED BY <1>8, <2>1
<1>11. Eq(after)
  <2> HIDE DEF Eq
  <2> QED BY <1>10 DEF after
<1>12. after[0] = c
  BY <1>2, <1>11
<1>13. ASSUME NEW i \in 1..N PROVE after[i] = Goes(after[i - 1], i, fault)
  <2>1. i \in 0..N /\ i # 0
    BY <1>2
  <2>2. after[i] = IF Source!Sent(after[i - 1].messages[i]) THEN after[i - 1]
                   ELSE Source!Send(after[i - 1], i, fault)
    BY <1>11, <2>1
  <2> QED BY <2>2 DEF Goes
<1> HIDE DEF Eq
<1> DEFINE Fine(x, i) == SourceOK(x, k, s) /\ SameLink(c, x) /\ Len(x.messages) = N /\ AllSent(x, i)
           S == {i \in 0..N : Fine(after[i], i)}
<1>14. 0 \in S
  <2>1. \A j \in DOMAIN c.messages : ~(j <= 0)
    BY <1>1
  <2>2. Fine(c, 0)
    BY <2>1 DEF AllSent, SameLink, N
  <2> QED BY <1>2, <1>12, <2>2
<1>15. ASSUME NEW i \in 1..N, i - 1 \in S PROVE i \in S
  <2> DEFINE x == after[i - 1]
             y == after[i]
  <2>1. SourceOK(x, k, s) /\ SameLink(c, x) /\ Len(x.messages) = N /\ AllSent(x, i - 1) /\ i \in 0..N
    BY <1>2, <1>15
  <2>2. y = Goes(x, i, fault)
    BY <1>13
  <2>3. i \in DOMAIN x.messages
    <3>1. x.messages \in Seq(EventMessage)
      BY <2>1 DEF SourceOK, SourceType
    <3> QED BY <2>1, <3>1
  <2>a. SentBefore(x, i)
    <3> HIDE DEF x
    <3>1. DOMAIN x.messages \subseteq Int
      BY <2>1 DEF SourceOK, SourceType
    <3>2. \A j \in DOMAIN x.messages : j < i => j <= i - 1
      BY <1>2, <3>1
    <3> QED BY <2>1, <3>2 DEF AllSent, SentBefore
  <2> HIDE DEF x, y
  <2>4. SourceOK(y, k, s) /\ SameLink(x, y) /\ Len(y.messages) = N /\ AllSent(y, i)
    <3>1. SourceOK(x, k, s)
      BY <2>1
    <3>2. SourceOK(y, k, s) /\ SameLink(x, y) /\ SameLength(x, y) /\ AllSent(y, i)
      BY <3>1, <2>2, <2>3, <2>a, GoesOK
    <3> QED BY <2>1, <3>2 DEF SameLength
  <2>5. Fine(y, i)
    BY <2>1, <2>4 DEF SameLink
  <2> QED BY <2>1, <2>5 DEF y
<1>16. \A i \in 0..N : i \in S
  <2> HIDE DEF S
  <2> QED BY <1>2, <1>14, <1>15, Induction
<1>17. Fine(after[N], N)
  BY <1>2, <1>16
<1> QED BY <1>3, <1>17 DEF N

\* No event that is queued is finished.
LEMMA SourceDropsNone ==
  ASSUME NEW c, NEW k \in Nat, NEW s \in Nat, SourceOK(c, k, s)
  PROVE  Source!DropFinished(c) = c
<1> DEFINE q == c.messages
           I == {i \in 1..Len(q) : ~Source!Finished(q[i])}
           first == Source!SelectInSeq(q, LAMBDA m : ~Source!Finished(m))
<1>1. c \in SourceType /\ q \in Seq(EventMessage)
  BY DEF SourceOK, SourceType
<1>2. \A i \in 1..Len(q) : ~Source!Finished(q[i])
  <2> TAKE i \in 1..Len(q)
  <2>1. q[i] \in EventMessage /\ i \in DOMAIN q
    BY <1>1
  <2>2. q[i].acked \in Nat /\ q[i].len \in Nat /\ q[i].acked < q[i].len
    BY <2>1, EventHas DEF SourceOK, LineOK
  <2> QED BY <2>2 DEF Source!Finished
<1>3. first = IF I # {} THEN CHOOSE i \in I : \A j \in I : i <= j ELSE 0
  BY DEF Source!SelectInSeq, Source!Min
<1>4. Source!DropFinished(c) = [c EXCEPT !.messages = IF first = 0 THEN <<>> ELSE SubSeq(q, first, Len(q))]
  BY DEF Source!DropFinished
<1> HIDE DEF first
<1>5. CASE q = <<>>
  <2>1. I = {}
    BY <1>5
  <2>2. Source!DropFinished(c) = [c EXCEPT !.messages = <<>>]
    BY <1>3, <1>4, <2>1
  <2> QED BY <1>1, <1>5, <2>2 DEF SourceType
<1>6. CASE q # <<>>
  <2>1. 1 \in I /\ \A j \in I : 1 <= j
    BY <1>1, <1>2, <1>6
  <2>2. first = 1
    <3>1. first \in I /\ \A j \in I : first <= j
      BY <1>3, <2>1
    <3> QED BY <2>1, <3>1
  <2>3. SubSeq(q, 1, Len(q)) = q
    BY <1>1
  <2>4. Source!DropFinished(c) = [c EXCEPT !.messages = q]
    BY <1>4, <2>2, <2>3
  <2> QED BY <1>1, <2>4 DEF SourceType
<1> QED BY <1>5, <1>6

LEMMA SourceRunOK ==
  ASSUME NEW c, NEW k \in Nat, NEW s \in Nat, SourceOK(c, k, s), NEW fault, NEW d, d = Source!RunQueue(c, fault)
  PROVE  SourceOK(d, k, s) /\ SameLink(c, d) /\ AllSent(d, Len(c.messages))
<1>1. d = Source!SendUpTo(c, fault)[Len(c.messages)]
  <2>1. Source!DropFinished(c) = c
    BY SourceDropsNone
  <2> QED BY <2>1 DEF Source!RunQueue
<1> QED BY <1>1, SendUpToOK

-----------------------------------------------------------------------------
(* What an acknowledgement takes off the queue of an event source client *)

LEMMA AckIs ==
  ASSUME NEW m \in EventMessage, NEW len \in Nat, NEW a, a = Source!Ack(m, len)
  PROVE  /\ a.m \in EventMessage /\ a.m.body = m.body /\ a.m.len = m.len /\ a.m.sent = m.sent /\ a.extra \in Nat
         /\ m.acked + len > m.len => (a.m.acked = m.len /\ a.extra = m.acked + len - m.len)
         /\ ~(m.acked + len > m.len) => (a.m.acked = m.acked + len /\ a.extra = 0)
<1>1. m.len \in Nat /\ m.acked \in Nat
  BY EventHas
<1>2. CASE m.acked + len > m.len
  <2> DEFINE n == [m EXCEPT !.acked = m.len]
             x == m.acked + len - m.len
  <2>1. a = [m |-> n, extra |-> x]
    BY <1>2 DEF Source!Ack
  <2>2. n \in EventMessage /\ n.body = m.body /\ n.len = m.len /\ n.sent = m.sent /\ n.acked = m.len
    BY <1>1 DEF EventMessage
  <2>3. x \in Nat
    BY <1>1, <1>2
  <2> HIDE DEF n
  <2>4. a.m = n /\ a.extra = x
    BY <2>1
  <2> QED BY <1>2, <2>2, <2>3, <2>4
<1>3. CASE ~(m.acked + len > m.len)
  <2> DEFINE n == [m EXCEPT !.acked = m.acked + len]
  <2>1. a = [m |-> n, extra |-> 0]
    BY <1>3 DEF Source!Ack
  <2>2. m.acked + len \in Nat
    BY <1>1
  <2>3. n \in EventMessage /\ n.body = m.body /\ n.len = m.len /\ n.sent = m.sent /\ n.acked = m.acked + len
    BY <2>2 DEF EventMessage
  <2> HIDE DEF n
  <2>4. a.m = n /\ a.extra = 0
    BY <2>1
  <2> QED BY <1>3, <2>3, <2>4
<1> QED BY <1>2, <1>3

LEMMA LineTail ==
  ASSUME NEW q \in Seq(EventMessage), NEW k \in Nat, q # <<>>, LineOK(q, k)
  PROVE  LineOK(Tail(q), k)
<1> DEFINE p == Tail(q)
           L == Len(q)
<1>1. p \in Seq(EventMessage) /\ Len(p) = L - 1 /\ L \in Nat /\ \A j \in 1..(L - 1) : p[j] = q[j + 1]
  BY HeadTailProperties
<1>2. DOMAIN p = 1..(L - 1) /\ DOMAIN q = 1..L
  BY <1>1
<1> HIDE DEF p, L
<1>3. \A j \in DOMAIN p : p[j] = q[j + 1] /\ j + 1 \in DOMAIN q /\ j \in Int
  BY <1>1, <1>2
<1>4. \A j \in DOMAIN p : p[j].acked < p[j].len /\ p[j].sent \in {0, p[j].len} /\ p[j].body <= k
  BY <1>3 DEF LineOK
<1>5. ASSUME NEW i \in DOMAIN p, NEW j \in DOMAIN p, i < j PROVE p[i].body < p[j].body
  <2>1. i + 1 < j + 1
    BY <1>3, <1>5
  <2> QED BY <1>3, <2>1 DEF LineOK
<1> QED BY <1>4, <1>5 DEF LineOK, p

LEMMA ToldTail ==
  ASSUME NEW q \in Seq(EventMessage), NEW wire, NEW taken, NEW k \in Nat, q # <<>>,
         Told(q, wire, taken, k), q[1].sent # 0
  PROVE  Told(Tail(q), wire, taken, k)
<1> DEFINE p == Tail(q)
           L == Len(q)
<1>1. p \in Seq(EventMessage) /\ Len(p) = L - 1 /\ L \in Nat /\ L # 0 /\ \A j \in 1..(L - 1) : p[j] = q[j + 1]
  BY HeadTailProperties, EmptySeq
<1>2. DOMAIN p = 1..(L - 1) /\ DOMAIN q = 1..L
  BY <1>1
<1> HIDE DEF p, L
<1>3. \A j \in DOMAIN p : p[j] = q[j + 1] /\ j + 1 \in DOMAIN q /\ j \in Int
  BY <1>1, <1>2
<1>4. \A i \in DOMAIN q : i = 1 \/ (i - 1 \in DOMAIN p /\ p[i - 1] = q[i])
  <2> TAKE i \in DOMAIN q
  <2>1. i \in 1..L
    BY <1>2
  <2>2. CASE i # 1
    <3>1. i - 1 \in 1..(L - 1) /\ (i - 1) + 1 = i
      BY <1>1, <2>1, <2>2
    <3> QED BY <1>1, <1>2, <3>1
  <2> QED BY <2>2
<1>5. ASSUME NEW i \in DOMAIN p, NEW j \in DOMAIN p, i < j, p[i].sent = 0 PROVE p[j].sent = 0
  <2>1. i + 1 < j + 1
    BY <1>3, <1>5
  <2> QED BY <1>3, <1>5, <2>1 DEF Told
<1>6. \A i \in DOMAIN p : /\ p[i].sent = 0 => \A x \in DOMAIN wire : wire[x] < p[i].body
                          /\ p[i].sent # 0 => p[i].body \in ToSet(wire)
  BY <1>3 DEF Told
<1>7. taken \ Bodies(p) \subseteq ToSet(wire)
  <2>1. 1 \in DOMAIN q
    BY <1>1, <1>2
  <2>2. q[1].body \in ToSet(wire)
    BY <2>1 DEF Told
  <2>3. Bodies(q) \subseteq Bodies(p) \cup {q[1].body}
    <3> SUFFICES ASSUME NEW i \in DOMAIN q PROVE q[i].body \in Bodies(p) \cup {q[1].body}
      BY DEF Bodies
    <3>1. CASE i = 1
      BY <3>1
    <3>2. CASE i # 1
      BY <1>4, <3>2 DEF Bodies
    <3> QED BY <3>1, <3>2
  <2>4. taken \ Bodies(q) \subseteq ToSet(wire)
    BY DEF Told
  <2> QED BY <2>2, <2>3, <2>4
<1>8. Told(p, wire, taken, k)
  BY <1>5, <1>6, <1>7 DEF Told
<1> QED BY <1>8 DEF p

LEMMA ToldSame ==
  ASSUME NEW q, NEW wire, NEW taken, NEW k, Told(q, wire, taken, k), NEW p, DOMAIN p = DOMAIN q,
         \A j \in DOMAIN q : p[j].sent = q[j].sent /\ p[j].body = q[j].body
  PROVE  Told(p, wire, taken, k)
<1>1. Bodies(p) = Bodies(q)
  BY DEF Bodies
<1> QED BY <1>1 DEF Told

\* A queue and what is left of an acknowledgement.
CreditType == [queue : Seq(EventMessage), len : Nat]

Credited(c, r, k, s) ==
  /\ r \in CreditType /\ LineOK(r.queue, k)
  /\ c.passed \/ (Told(r.queue, c.wire, c.taken, k) /\ Flow(r.queue, c.unacked + s + r.len))

\* One round of the loop.
Round(r) ==
  LET a == Source!Ack(Head(r.queue), r.len)
  IN IF r.len = 0 \/ r.queue = <<>> THEN r
     ELSE [queue |-> IF Source!Finished(a.m) THEN Tail(r.queue) ELSE [r.queue EXCEPT ![1] = a.m], len |-> a.extra]

LEMMA RoundType ==
  ASSUME NEW r \in CreditType
  PROVE  Round(r) \in CreditType
<1> DEFINE a == Source!Ack(Head(r.queue), r.len)
           q == IF Source!Finished(a.m) THEN Tail(r.queue) ELSE [r.queue EXCEPT ![1] = a.m]
<1>1. CASE r.len = 0 \/ r.queue = <<>>
  BY <1>1 DEF Round
<1>2. CASE ~(r.len = 0 \/ r.queue = <<>>)
  <2>1. Round(r) = [queue |-> q, len |-> a.extra]
    BY <1>2 DEF Round
  <2>2. r.queue \in Seq(EventMessage) /\ r.len \in Nat
    BY DEF CreditType
  <2>3. Head(r.queue) \in EventMessage
    BY <1>2, <2>2
  <2>4. a.m \in EventMessage /\ a.extra \in Nat
    BY <2>2, <2>3, AckIs
  <2> HIDE DEF a
  <2>5. Tail(r.queue) \in Seq(EventMessage)
    BY <1>2, <2>2
  <2>6. [r.queue EXCEPT ![1] = a.m] \in Seq(EventMessage)
    <3>1. 1 \in 1..Len(r.queue)
      BY <1>2, <2>2
    <3> QED BY <2>2, <2>4, <3>1, ExceptSeq
  <2>7. q \in Seq(EventMessage)
    BY <2>5, <2>6
  <2> HIDE DEF q
  <2> QED BY <2>1, <2>4, <2>7 DEF CreditType
<1> QED BY <1>1, <1>2

LEMMA RoundOK ==
  ASSUME NEW c \in SourceType, NEW r, NEW k \in Nat, NEW s \in Nat, Credited(c, r, k, s), NEW e, e = Round(r)
  PROVE  /\ Credited(c, e, k, s) /\ Len(e.queue) <= Len(r.queue)
         /\ e.len = 0 \/ e.queue = <<>> \/ Len(e.queue) < Len(r.queue)
         /\ (r.len = 0 \/ r.queue = <<>>) => e = r
<1> DEFINE q == r.queue
           len == r.len
           m == q[1]
           a == Source!Ack(m, len)
           p == [q EXCEPT ![1] = a.m]
<1>1. r \in CreditType /\ q \in Seq(EventMessage) /\ len \in Nat /\ LineOK(q, k) /\ Len(q) \in Nat
  BY DEF Credited, CreditType
<1>2. e \in CreditType
  BY <1>1, RoundType
<1>3. CASE len = 0 \/ q = <<>>
  BY <1>1, <1>3 DEF Round
<1>4. CASE ~(len = 0 \/ q = <<>>)
  <2>1. e = [queue |-> IF Source!Finished(a.m) THEN Tail(q) ELSE p, len |-> a.extra]
    <3>1. Head(q) = m
      BY <1>1, <1>4
    <3> QED BY <1>4, <3>1 DEF Round
  <2>2. 1 \in DOMAIN q /\ m \in EventMessage
    BY <1>1, <1>4
  <2>3. m.len \in Nat /\ m.acked \in Nat /\ m.acked < m.len /\ m.sent \in {0, m.len}
    BY <1>1, <2>2, EventHas DEF LineOK
  <2>4. /\ a.m \in EventMessage /\ a.m.body = m.body /\ a.m.len = m.len /\ a.m.sent = m.sent /\ a.extra \in Nat
        /\ m.acked + len > m.len => (a.m.acked = m.len /\ a.extra = m.acked + len - m.len)
        /\ ~(m.acked + len > m.len) => (a.m.acked = m.acked + len /\ a.extra = 0)
    BY <1>1, <2>2, AckIs
  <2>5. c.unacked \in Nat
    BY PushAssumption DEF SourceType
  <2>6. ~c.passed => (Told(q, c.wire, c.taken, k) /\ Flow(q, c.unacked + s + len))
    BY DEF Credited
  <2> DEFINE total == c.unacked + s + len
  <2>7. total \in Int /\ total > 0
    BY <1>1, <1>4, <2>5
  <2>8. ~c.passed => m.sent = m.len /\ m.sent # 0
    <3>1. ~c.passed => m.sent # 0
      <4> HIDE DEF q, total
      <4> QED BY <1>1, <1>4, <2>6, <2>7, FlowFront DEF total
    <3> QED BY <2>3, <3>1
  <2> HIDE DEF a
  <2>9. CASE Source!Finished(a.m)
    <3>1. a.m.acked = m.len
      BY <2>4, <2>9 DEF Source!Finished
    <3>2. a.extra = len - (m.len - m.acked)
      <4> DEFINE x == m.len
                 y == m.acked
      <4>1. x \in Nat /\ y \in Nat /\ len \in Nat
        BY <1>1, <2>3
      <4>2. /\ y + len > x => a.extra = y + len - x
            /\ ~(y + len > x) => x = y + len /\ a.extra = 0
        BY <2>4, <3>1
      <4>3. a.extra \in Nat
        BY <2>4
      <4> HIDE DEF x, y, len
      <4>4. a.extra = len - (x - y)
        BY <4>1, <4>2, <4>3
      <4> QED BY <4>4 DEF x, y
    <3>3. e.queue = Tail(q) /\ e.len = a.extra
      BY <2>1, <2>9
    <3>4. Len(Tail(q)) = Len(q) - 1
      <4> HIDE DEF q
      <4> QED BY <1>1, <1>4, HeadTailProperties
    <3>5. LineOK(Tail(q), k)
      <4> HIDE DEF q
      <4> QED BY <1>1, <1>4, LineTail
    <3>6. ASSUME ~c.passed PROVE Told(Tail(q), c.wire, c.taken, k) /\ Flow(Tail(q), c.unacked + s + e.len)
      <4>1. Told(Tail(q), c.wire, c.taken, k)
        <5>1. q[1].sent # 0
          BY <2>8, <3>6
        <5> HIDE DEF q
        <5> QED BY <1>1, <1>4, <2>6, <3>6, <5>1, ToldTail
      <4>2. Flow(Tail(q), total - (m.sent - m.acked))
        <5>1. Flow(q, total)
          BY <2>6, <3>6
        <5> HIDE DEF q, total
        <5> QED BY <1>1, <1>4, <2>7, <5>1, FlowLeft
      <4>3. total - (m.sent - m.acked) = c.unacked + s + e.len
        <5>1. m.sent = m.len
          BY <2>8, <3>6
        <5> HIDE DEF m, q, len
        <5> QED BY <1>1, <2>3, <2>5, <3>2, <3>3, <5>1
      <4> QED BY <4>1, <4>2, <4>3
    <3>7. Credited(c, e, k, s)
      <4> HIDE DEF q
      <4> QED BY <1>2, <3>3, <3>5, <3>6 DEF Credited
    <3>8. Len(e.queue) = Len(q) - 1
      BY <3>3, <3>4
    <3> QED BY <1>1, <1>4, <3>7, <3>8
  <2>10. CASE ~Source!Finished(a.m)
    <3>1. a.m.acked = m.acked + len /\ a.extra = 0 /\ m.acked + len < m.len
      <4>1. ~(m.acked + len > m.len)
        BY <2>4, <2>10 DEF Source!Finished
      <4>2. m.acked + len # m.len
        BY <2>4, <2>10, <4>1 DEF Source!Finished
      <4> HIDE DEF m, len
      <4> QED BY <1>1, <2>3, <2>4, <4>1, <4>2
    <3>2. e.queue = p /\ e.len = 0
      BY <2>1, <2>10, <3>1
    <3>3. /\ p \in Seq(EventMessage) /\ Len(p) = Len(q) /\ DOMAIN p = DOMAIN q /\ p[1] = a.m
          /\ \A j \in DOMAIN q : j # 1 => p[j] = q[j]
          /\ \A j \in DOMAIN q : p[j].body = q[j].body
          /\ Bodies(p) = Bodies(q)
      <4>1. a.m.body = q[1].body
        BY <2>4
      <4> HIDE DEF q, m
      <4> QED BY <1>1, <2>2, <2>4, <4>1, ChangedEvent
    <3> HIDE DEF p
    <3>4. LineOK(p, k)
      <4>1. ASSUME NEW j \in DOMAIN p
            PROVE p[j].acked < p[j].len /\ p[j].sent \in {0, p[j].len} /\ p[j].body <= k
        <5>1. CASE j = 1
          <6>1. p[j].acked = m.acked + len /\ p[j].len = m.len /\ p[j].sent = m.sent /\ p[j].body = m.body
            BY <2>4, <3>1, <3>3, <5>1
          <6>2. m.body <= k
            BY <1>1, <2>2 DEF LineOK
          <6> QED BY <2>3, <3>1, <6>1, <6>2
        <5>2. CASE j # 1
          BY <1>1, <3>3, <5>2 DEF LineOK
        <5> QED BY <5>1, <5>2
      <4>2. \A j, l \in DOMAIN p : j < l => p[j].body < p[l].body
        BY <1>1, <3>3 DEF LineOK
      <4> QED BY <4>1, <4>2 DEF LineOK
    <3>5. ASSUME ~c.passed PROVE Told(p, c.wire, c.taken, k) /\ Flow(p, c.unacked + s + e.len)
      <4>1. \A j \in DOMAIN q : p[j].sent = q[j].sent /\ p[j].body = q[j].body
        BY <2>4, <3>3
      <4>2. Told(p, c.wire, c.taken, k)
        <5> HIDE DEF q
        <5> QED BY <2>6, <3>3, <3>5, <4>1, ToldSame
      <4>3. /\ q[1].acked + len <= q[1].sent /\ q[1].sent # 0 /\ p[1].sent = q[1].sent
            /\ p[1].acked = q[1].acked + len
        BY <1>1, <2>3, <2>4, <2>8, <3>1, <3>3, <3>5
      <4>4. Flow(p, total - len)
        <5>1. Flow(q, total)
          BY <2>6, <3>5
        <5> HIDE DEF q, total, len
        <5> QED BY <1>1, <1>4, <2>7, <3>3, <4>3, <5>1, FlowAcked
      <4>5. total - len = c.unacked + s + e.len
        <5> HIDE DEF len
        <5> QED BY <1>1, <2>5, <3>2
      <4> QED BY <4>2, <4>4, <4>5
    <3>6. Credited(c, e, k, s)
      BY <1>2, <3>2, <3>4, <3>5 DEF Credited
    <3>7. Len(e.queue) = Len(q)
      BY <3>2, <3>3
    <3> QED BY <1>1, <1>4, <3>2, <3>6, <3>7
  <2> QED BY <2>9, <2>10
<1> QED BY <1>3, <1>4

Spent(r) == r.len = 0 \/ r.queue = <<>>

LEMMA CreditUpToOK ==
  ASSUME NEW c, NEW k \in Nat, NEW s \in Nat, NEW len \in Nat, NEW t \in Nat, t = s + len, SourceOK(c, k, t),
         NEW r, r = Source!CreditUpTo(c, len)[Len(c.messages)]
  PROVE  Credited(c, r, k, s) /\ Len(r.queue) <= Len(c.messages) /\ Spent(r)
<1> DEFINE N == Len(c.messages)
           base == [queue |-> c.messages, len |-> len]
           step == [x \in (1..N) \X CreditType |-> Round(x[2])]
           Eq(f) == f = [n \in 0..N |->
                      LET queue == f[n - 1].queue
                          a == Source!Ack(Head(queue), f[n - 1].len)
                      IN IF n = 0 THEN [queue |-> c.messages, len |-> len]
                         ELSE IF f[n - 1].len = 0 \/ queue = <<>> THEN f[n - 1]
                         ELSE [queue |-> IF Source!Finished(a.m) THEN Tail(queue) ELSE [queue EXCEPT ![1] = a.m],
                               len |-> a.extra]]
           after == CHOOSE f : Eq(f)
<1>1. c \in SourceType /\ c.messages \in Seq(EventMessage) /\ LineOK(c.messages, k) /\ c.unacked \in Nat
  BY PushAssumption DEF SourceOK, SourceType
<1>2. N \in Nat /\ base \in CreditType /\ base.queue = c.messages /\ base.len = len
  BY <1>1 DEF CreditType
<1>3. r = after[N]
  BY DEF Source!CreditUpTo
<1>4. IsStep(step, N, CreditType)
  <2> HIDE DEF N
  <2>1. ASSUME NEW x \in (1..N) \X CreditType PROVE Round(x[2]) \in CreditType
    <3>1. x[2] \in CreditType
      OBVIOUS
    <3> QED BY <3>1, RoundType
  <2> QED BY <2>1 DEF IsStep
<1>5. \A i \in 1..N, x \in CreditType : step[<<i, x>>] = Round(x)
  <2> HIDE DEF N
  <2> QED OBVIOUS
<1> HIDE DEF N, step, after
<1>6. PICK h : IsIteration(h, N, CreditType, base, step)
  <2> HIDE DEF base
  <2> QED BY <1>2, <1>4, Recursion
<1>7. h \in [0..N -> CreditType] /\ h[0] = base
  BY <1>6 DEF IsIteration
<1>8. ASSUME NEW i \in 1..N PROVE h[i] = Round(h[i - 1])
  <2>1. i - 1 \in 0..N /\ h[i] = step[<<i, h[i - 1]>>]
    <3>1. i - 1 \in 0..N
      BY <1>2
    <3>2. h[i] = step[<<i, h[i - 1]>>]
      BY <1>6, Zenon DEF IsIteration
    <3> QED BY <3>1, <3>2
  <2>2. h[i - 1] \in CreditType
    BY <1>7, <2>1
  <2> QED BY <1>5, <2>1, <2>2
<1>9. Eq(h)
  <2> DEFINE g == [n \in 0..N |->
                      LET queue == h[n - 1].queue
                          a == Source!Ack(Head(queue), h[n - 1].len)
                      IN IF n = 0 THEN [queue |-> c.messages, len |-> len]
                         ELSE IF h[n - 1].len = 0 \/ queue = <<>> THEN h[n - 1]
                         ELSE [queue |-> IF Source!Finished(a.m) THEN Tail(queue) ELSE [queue EXCEPT ![1] = a.m],
                               len |-> a.extra]]
  <2>1. ASSUME NEW i \in 0..N PROVE h[i] = g[i]
    <3>1. CASE i = 0
      BY <1>7, <3>1
    <3>2. CASE i # 0
      <4>1. i \in 1..N
        BY <1>2, <3>2
      <4>2. h[i] = Round(h[i - 1])
        BY <1>8, <4>1
      <4>3. g[i] = Round(h[i - 1])
        BY <3>2 DEF Round
      <4> HIDE DEF g
      <4> QED BY <4>2, <4>3
    <3> QED BY <3>1, <3>2
  <2>2. g = [i \in 0..N |-> g[i]]
    OBVIOUS
  <2>3. h = [i \in 0..N |-> h[i]]
    BY <1>7
  <2>4. h = g
    <3> HIDE DEF g
    <3> QED BY <2>1, <2>2, <2>3
  <2> QED BY <2>4
<1>10. Eq(after)
  <2> HIDE DEF Eq
  <2> QED BY <1>9 DEF after
<1>11. after[0] = base
  BY <1>2, <1>10
<1>12. ASSUME NEW i \in 1..N PROVE after[i] = Round(after[i - 1])
  <2>1. i \in 0..N /\ i # 0
    BY <1>2
  <2> QED BY <1>10, <2>1 DEF Round
<1> HIDE DEF Eq
<1> DEFINE Fine(x, i) == /\ Credited(c, x, k, s) /\ Len(x.queue) <= N
                         /\ x.len = 0 \/ x.queue = <<>> \/ Len(x.queue) <= N - i
           S == {i \in 0..N : Fine(after[i], i)}
<1>13. 0 \in S
  <2>1. ~c.passed => Told(c.messages, c.wire, c.taken, k) /\ Flow(c.messages, c.unacked + t)
    BY DEF SourceOK
  <2>2. c.unacked + t = c.unacked + s + len
    BY <1>1
  <2>3. Credited(c, base, k, s)
    <3> HIDE DEF base
    <3> QED BY <1>1, <1>2, <2>1, <2>2 DEF Credited
  <2>4. Len(base.queue) <= N /\ Len(base.queue) <= N - 0
    BY <1>2 DEF N
  <2>5. Fine(base, 0)
    <3> HIDE DEF base
    <3> QED BY <2>3, <2>4
  <2> QED BY <1>2, <1>11, <2>5
<1>14. ASSUME NEW i \in 1..N, i - 1 \in S PROVE i \in S
  <2> DEFINE x == after[i - 1]
             y == after[i]
  <2>1. /\ Credited(c, x, k, s) /\ Len(x.queue) <= N /\ (x.len = 0 \/ x.queue = <<>> \/ Len(x.queue) <= N - (i - 1))
        /\ i \in 0..N
    BY <1>2, <1>14
  <2>2. y = Round(x)
    BY <1>12
  <2> HIDE DEF x, y
  <2>3. /\ Credited(c, y, k, s) /\ Len(y.queue) <= Len(x.queue)
        /\ y.len = 0 \/ y.queue = <<>> \/ Len(y.queue) < Len(x.queue)
        /\ (x.len = 0 \/ x.queue = <<>>) => y = x
    BY <1>1, <2>1, <2>2, RoundOK
  <2>4. Len(x.queue) \in Nat /\ Len(y.queue) \in Nat
    BY <2>1, <2>3 DEF Credited, CreditType
  <2>5. Len(y.queue) <= N
    BY <1>2, <2>1, <2>3, <2>4
  <2>6. y.len = 0 \/ y.queue = <<>> \/ Len(y.queue) <= N - i
    <3>1. CASE x.len = 0 \/ x.queue = <<>>
      BY <2>3, <3>1
    <3>2. CASE ~(x.len = 0 \/ x.queue = <<>>)
      <4>1. Len(x.queue) <= N - (i - 1)
        BY <2>1, <3>2
      <4>2. ASSUME Len(y.queue) < Len(x.queue) PROVE Len(y.queue) <= N - i
        BY <1>2, <2>4, <4>1, <4>2
      <4> QED BY <2>3, <4>2
    <3> QED BY <3>1, <3>2
  <2> QED BY <2>1, <2>3, <2>5, <2>6 DEF y
<1>15. \A i \in 0..N : i \in S
  <2> HIDE DEF S
  <2> QED BY <1>2, <1>13, <1>14, Induction
<1>16. Fine(r, N)
  BY <1>2, <1>3, <1>15
<1>17. r.len = 0 \/ r.queue = <<>>
  <2>1. Len(r.queue) <= N - N => r.queue = <<>>
    <3>1. r.queue \in Seq(EventMessage)
      BY <1>16 DEF Credited, CreditType
    <3> QED BY <1>2, <3>1
  <2> QED BY <1>16, <2>1
<1> QED BY <1>16, <1>17 DEF N, Spent

LEMMA WithEvents ==
  ASSUME NEW c \in SourceType, NEW q \in Seq(EventMessage), NEW d, d = [c EXCEPT !.messages = q]
  PROVE  /\ d \in SourceType /\ d.messages = q /\ SameLink(c, d) /\ d.passed = c.passed /\ d.wire = c.wire
         /\ d.taken = c.taken /\ d.unacked = c.unacked
BY DEF SourceType, SameLink

LEMMA CreditOK ==
  ASSUME NEW c, NEW k \in Nat, NEW s \in Nat, NEW len \in Nat, NEW t \in Nat, t = s + len, SourceOK(c, k, t),
         NEW d, d = Source!Credit(c, len)
  PROVE  SourceOK(d, k, s) /\ SameLink(c, d)
<1> DEFINE r == Source!CreditUpTo(c, len)[Len(c.messages)]
           q == r.queue
<1>1. d = [c EXCEPT !.messages = q]
  BY DEF Source!Credit
<1>2. Credited(c, r, k, s) /\ Len(q) <= Len(c.messages) /\ (r.len = 0 \/ q = <<>>)
  <2>1. r = Source!CreditUpTo(c, len)[Len(c.messages)]
    OBVIOUS
  <2> HIDE DEF r
  <2>2. Credited(c, r, k, s)
    BY <2>1, CreditUpToOK
  <2>3. Len(r.queue) <= Len(c.messages)
    BY <2>1, CreditUpToOK
  <2>4. Spent(r)
    BY <2>1, CreditUpToOK
  <2> QED BY <2>2, <2>3, <2>4 DEF Spent
<1> HIDE DEF r
<1>3. c \in SourceType /\ Len(c.messages) \in Nat /\ Len(c.messages) <= MaxEvents /\ c.unacked \in Nat
  BY PushAssumption DEF SourceOK, SourceType
<1>4. q \in Seq(EventMessage) /\ r.len \in Nat /\ LineOK(q, k)
  BY <1>2 DEF Credited, CreditType
<1>5. /\ d \in SourceType /\ d.messages = q /\ SameLink(c, d) /\ d.passed = c.passed /\ d.wire = c.wire
      /\ d.taken = c.taken /\ d.unacked = c.unacked
  <2> HIDE DEF q
  <2> QED BY <1>1, <1>3, <1>4, WithEvents
<1>6. Len(q) <= MaxEvents
  BY <1>2, <1>3, <1>4, PushAssumption
<1>7. ASSUME ~c.passed PROVE Told(q, c.wire, c.taken, k) /\ Flow(q, c.unacked + s)
  <2>1. Told(q, c.wire, c.taken, k) /\ Flow(q, c.unacked + s + r.len)
    BY <1>2, <1>7 DEF Credited
  <2>2. r.len = 0
    <3>1. CASE q = <<>>
      <4>1. c.unacked + s + r.len \in Int
        BY <1>3, <1>4
      <4>2. c.unacked + s + r.len = 0
        BY <1>4, <2>1, <3>1, <4>1, FlowFront
      <4> QED BY <1>3, <1>4, <4>2
    <3> QED BY <1>2, <3>1
  <2>3. c.unacked + s + r.len = c.unacked + s
    BY <1>3, <2>2
  <2> QED BY <2>1, <2>3
<1> HIDE DEF q
<1> QED BY <1>4, <1>5, <1>6, <1>7 DEF SourceOK

LEMMA SourceOnAckOK ==
  ASSUME NEW c, NEW k \in Nat, NEW s \in Nat, NEW len \in Nat, NEW t \in Nat, t = s + len, SourceOK(c, k, t), NEW fault,
         NEW d, d = Source!OnAck(c, len, fault)
  PROVE  SourceOK(d, k, s) /\ SameLink(c, d)
<1> DEFINE e == Source!Credit(c, len)
<1>1. SourceOK(e, k, s) /\ SameLink(c, e)
  BY CreditOK
<1>2. d = Source!RunQueue(e, fault)
  BY DEF Source!OnAck
<1> HIDE DEF e
<1>3. SourceOK(d, k, s) /\ SameLink(e, d)
  BY <1>1, <1>2, SourceRunOK
<1> QED BY <1>1, <1>3 DEF SameLink

LEMMA SourceOnPollOK ==
  ASSUME NEW c, NEW k \in Nat, NEW s \in Nat, SourceOK(c, k, s), NEW fault,
         NEW d, d = Source!OnPoll(c, fault)
  PROVE  SourceOK(d, k, s) /\ SameLink(c, d)
<1>1. CASE c.messages # <<>>
  <2>1. d = Source!RunQueue(c, fault)
    BY <1>1 DEF Source!OnPoll
  <2> QED BY <2>1, SourceRunOK
<1>2. CASE c.messages = <<>>
  BY <1>2 DEF Source!OnPoll, SameLink
<1> QED BY <1>1, <1>2

\* Events of which nothing is in flight are sent, or have to wait.
LEMMA SourceGoesOn ==
  ASSUME NEW c, NEW k \in Nat, SourceOK(c, k, 0), ~c.passed, c.unacked = 0, c.messages # <<>>,
         NEW d, d = Source!OnPoll(c, "none")
  PROVE  d # c
<1> DEFINE q == c.messages
           m == q[1]
<1>1. q \in Seq(EventMessage) /\ 1 \in DOMAIN q /\ 1 <= Len(q) /\ m \in EventMessage /\ LineOK(q, k)
  <2>1. q \in Seq(EventMessage)
    BY DEF SourceOK, SourceType
  <2> QED BY <2>1 DEF SourceOK
<1>2. Flow(q, 0)
  BY DEF SourceOK
<1>3. m.sent = 0
  <2> HIDE DEF q
  <2>1. m.acked <= m.sent /\ m.sent - m.acked <= 0
    BY <1>1, <1>2, FlowFront DEF q
  <2>2. m.acked < m.len /\ m.sent \in {0, m.len}
    BY <1>1 DEF LineOK
  <2>3. m.sent \in Nat /\ m.acked \in Nat /\ m.len \in Nat
    BY <1>1, EventHas
  <2> HIDE DEF m
  <2> QED BY <2>1, <2>2, <2>3
<1>4. d = Source!RunQueue(c, "none")
  BY DEF Source!OnPoll
<1>5. AllSent(d, Len(q))
  BY <1>4, SourceRunOK
<1> QED BY <1>1, <1>3, <1>5 DEF AllSent

LEMMA SourceLaterOK ==
  ASSUME NEW c, NEW k \in Nat, NEW s \in Nat, SourceOK(c, k, s)
  PROVE  SourceOK(c, k + 1, s)
<1>1. c \in SourceType /\ c.messages \in Seq(EventMessage) /\ c.wire \in Seq(Nat) /\ Len(c.messages) <= MaxEvents
  BY DEF SourceOK, SourceType
<1>2. LineOK(c.messages, k + 1)
  <2>1. \A i \in DOMAIN c.messages : c.messages[i].body \in Nat
    BY <1>1, EventHas
  <2> QED BY <2>1 DEF SourceOK, LineOK
<1>3. Told(c.messages, c.wire, c.taken, k) => Told(c.messages, c.wire, c.taken, k + 1)
  <2>1. \A x \in DOMAIN c.wire : c.wire[x] \in Nat
    BY <1>1
  <2> QED BY <2>1 DEF Told
<1> QED BY <1>1, <1>2, <1>3 DEF SourceOK

LEMMA SourceQueueOK ==
  ASSUME NEW c, NEW k \in Nat, NEW s \in Nat, SourceOK(c, k, s), k + 1 <= MaxCalls, NEW len \in Nat, len # 0,
         NEW fault, NEW d, d = Source!QueueMessage(c, Source!Event(k + 1, len), fault)
  PROVE  SourceOK(d, k + 1, s) /\ SameLink(c, d)
<1> DEFINE m == Source!Event(k + 1, len)
           q == c.messages
           p == Append(q, m)
           more == [c EXCEPT !.messages = p, !.taken = @ \cup {k + 1}]
           e == IF Len(c.messages) >= MaxEvents THEN c ELSE more
<1>1. SourceOK(c, k + 1, s)
  BY SourceLaterOK
<1>2. /\ c \in SourceType /\ q \in Seq(EventMessage) /\ Len(q) \in Nat /\ Len(q) <= MaxEvents /\ c.wire \in Seq(Nat)
      /\ c.unacked \in Nat /\ c.taken \in SUBSET Nat
  BY PushAssumption DEF SourceOK, SourceType
<1>3. m \in EventMessage /\ m.body = k + 1 /\ m.sent = 0 /\ m.acked = 0 /\ m.len = len
  <2>1. k + 1 \in 1..MaxCalls
    BY PushAssumption
  <2> QED BY <2>1 DEF Source!Event, EventMessage
<1>4. d = IF ~c.open THEN c ELSE IF Source!CanSend(e) THEN Source!RunQueue(e, fault) ELSE e
  BY <1>3 DEF Source!QueueMessage, Source!Connected
<1>5. ASSUME ~(Len(q) >= MaxEvents)
      PROVE  SourceOK(more, k + 1, s) /\ SameLink(c, more)
  <2> HIDE DEF m
  <2>1. /\ p \in Seq(EventMessage) /\ Len(p) = Len(q) + 1 /\ p[Len(q) + 1] = m /\ \A i \in 1..Len(q) : p[i] = q[i]
        /\ DOMAIN p = 1..(Len(q) + 1) /\ DOMAIN q = 1..Len(q)
    <3> HIDE DEF q
    <3>1. p \in Seq(EventMessage) /\ Len(p) = Len(q) + 1 /\ p[Len(q) + 1] = m /\ \A i \in 1..Len(q) : p[i] = q[i]
      BY <1>2, <1>3, AppendProperties
    <3> QED BY <1>2, <3>1
  <2>2. Flow(q, c.unacked + s) => Flow(p, c.unacked + s)
    <3>1. c.unacked + s \in Int
      BY <1>2
    <3> HIDE DEF q
    <3> QED BY <1>2, <1>3, <3>1, FlowAppend
  <2> HIDE DEF p
  <2>3. /\ more \in SourceType /\ more.messages = p /\ more.taken = c.taken \cup {k + 1} /\ more.wire = c.wire
        /\ more.passed = c.passed /\ more.unacked = c.unacked /\ SameLink(c, more)
    <3>1. c.taken \cup {k + 1} \in SUBSET Nat
      BY <1>2
    <3> QED BY <1>2, <2>1, <3>1 DEF SourceType, SameLink
  <2>4. Len(p) <= MaxEvents
    BY <1>2, <1>5, <2>1, PushAssumption
  <2>5. \A i \in 1..Len(q) : q[i] \in EventMessage /\ q[i].body \in Nat /\ q[i].body <= k
    <3>1. \A i \in 1..Len(q) : q[i] \in EventMessage /\ i \in DOMAIN q
      BY <1>2
    <3> QED BY <3>1, EventHas DEF SourceOK, LineOK
  <2>6. \A i \in DOMAIN p : (i \in 1..Len(q) /\ p[i] = q[i] /\ i \in DOMAIN q) \/ (i = Len(q) + 1 /\ p[i] = m)
    <3> TAKE i \in DOMAIN p
    <3>1. i \in 1..(Len(q) + 1)
      BY <2>1
    <3>2. i \in 1..Len(q) \/ i = Len(q) + 1
      <4> HIDE DEF q
      <4> QED BY <1>2, <3>1
    <3> QED BY <2>1, <3>2
  <2>7. LineOK(p, k + 1)
    <3>1. ASSUME NEW i \in DOMAIN p
          PROVE  p[i].acked < p[i].len /\ p[i].sent \in {0, p[i].len} /\ p[i].body <= k + 1
      <4>1. CASE i = Len(q) + 1 /\ p[i] = m
        BY <1>3, <4>1
      <4>2. CASE i \in DOMAIN q /\ p[i] = q[i]
        BY <1>1, <4>2 DEF SourceOK, LineOK
      <4> QED BY <2>6, <4>1, <4>2
    <3>2. ASSUME NEW i \in DOMAIN p, NEW j \in DOMAIN p, i < j PROVE p[i].body < p[j].body
      <4>1. i \in 1..Len(q) /\ p[i] = q[i] /\ i \in DOMAIN q
        BY <1>2, <2>1, <2>6, <3>2
      <4>2. CASE j = Len(q) + 1 /\ p[j] = m
        <5>1. q[i].body \in Nat /\ q[i].body <= k
          BY <2>5, <4>1
        <5> QED BY <1>3, <4>1, <4>2, <5>1
      <4>3. CASE j \in DOMAIN q /\ p[j] = q[j]
        BY <1>1, <3>2, <4>1, <4>3 DEF SourceOK, LineOK
      <4> QED BY <2>6, <4>2, <4>3
    <3> QED BY <3>1, <3>2 DEF LineOK
  <2>8. ASSUME ~c.passed PROVE Told(p, c.wire, c.taken \cup {k + 1}, k + 1)
    <3>1. Told(q, c.wire, c.taken, k) /\ Told(q, c.wire, c.taken, k + 1)
      BY <1>1, <2>8 DEF SourceOK
    <3>2. ASSUME NEW i \in DOMAIN p, NEW j \in DOMAIN p, i < j, p[i].sent = 0 PROVE p[j].sent = 0
      <4>1. i \in 1..Len(q) /\ p[i] = q[i] /\ i \in DOMAIN q
        BY <1>2, <2>1, <2>6, <3>2
      <4>2. CASE j = Len(q) + 1 /\ p[j] = m
        BY <1>3, <4>2
      <4>3. CASE j \in DOMAIN q /\ p[j] = q[j]
        BY <3>1, <3>2, <4>1, <4>3 DEF Told
      <4> QED BY <2>6, <4>2, <4>3
    <3>3. ASSUME NEW i \in DOMAIN p, p[i].sent = 0, NEW x \in DOMAIN c.wire PROVE c.wire[x] < p[i].body
      <4>1. CASE i = Len(q) + 1 /\ p[i] = m
        <5>1. c.wire[x] \in Nat /\ c.wire[x] <= k
          BY <1>2, <3>1 DEF Told
        <5> QED BY <1>3, <4>1, <5>1
      <4>2. CASE i \in DOMAIN q /\ p[i] = q[i]
        BY <3>1, <3>3, <4>2 DEF Told
      <4> QED BY <2>6, <4>1, <4>2
    <3>4. ASSUME NEW i \in DOMAIN p, p[i].sent # 0 PROVE p[i].body \in ToSet(c.wire)
      <4>1. CASE i = Len(q) + 1 /\ p[i] = m
        BY <1>3, <3>4, <4>1
      <4>2. CASE i \in DOMAIN q /\ p[i] = q[i]
        BY <3>1, <3>4, <4>2 DEF Told
      <4> QED BY <2>6, <4>1, <4>2
    <3>5. (c.taken \cup {k + 1}) \ Bodies(p) \subseteq ToSet(c.wire)
      <4>1. k + 1 \in Bodies(p)
        <5>1. Len(q) + 1 \in DOMAIN p /\ p[Len(q) + 1].body = k + 1
          BY <1>2, <1>3, <2>1
        <5> QED BY <5>1 DEF Bodies
      <4>2. Bodies(q) \subseteq Bodies(p)
        <5>1. \A i \in DOMAIN q : i \in DOMAIN p /\ p[i].body = q[i].body
          BY <1>2, <2>1
        <5> QED BY <5>1 DEF Bodies
      <4>3. c.taken \ Bodies(q) \subseteq ToSet(c.wire)
        BY <3>1 DEF Told
      <4> QED BY <4>1, <4>2, <4>3
    <3>6. /\ \A i \in 1..(Len(c.wire) - 1) : c.wire[i] < c.wire[i + 1]
          /\ \A x \in DOMAIN c.wire : c.wire[x] <= k + 1
      BY <3>1 DEF Told
    <3> QED BY <3>2, <3>3, <3>4, <3>5, <3>6 DEF Told
  <2>9. ~c.passed => Flow(p, c.unacked + s)
    BY <2>2 DEF SourceOK
  <2> HIDE DEF more
  <2> QED BY <2>3, <2>4, <2>7, <2>8, <2>9 DEF SourceOK
<1>6. SourceOK(e, k + 1, s) /\ SameLink(c, e)
  BY <1>1, <1>5 DEF SameLink
<1> HIDE DEF e
<1>7. CASE ~c.open
  BY <1>1, <1>4, <1>7 DEF SameLink
<1>8. CASE c.open /\ Source!CanSend(e)
  <2>1. d = Source!RunQueue(e, fault)
    BY <1>4, <1>8
  <2>2. k + 1 \in Nat
    OBVIOUS
  <2>3. SourceOK(d, k + 1, s) /\ SameLink(e, d)
    BY <1>6, <2>1, <2>2, SourceRunOK
  <2> QED BY <1>6, <2>3 DEF SameLink
<1>9. CASE c.open /\ ~Source!CanSend(e)
  BY <1>4, <1>6, <1>9
<1> QED BY <1>7, <1>8, <1>9

-----------------------------------------------------------------------------
(* The clients of a handler *)

\* The buffers of the messages queued have not been deleted.
Backed(c, bs) == \A i \in DOMAIN c.messages : c.messages[i].kind = "multi" => c.messages[i].body \in bs

\* The books of a client are even with the acknowledgements on their way.
Paid(c) == \E s \in Nat : AckSum(c.acks, s) /\ Level(c, s)

SocketFine(c, k, bs) == Good(c, k) /\ HeardOK(c) /\ Backed(c, bs) /\ Paid(c)
SourceFine(c, k) == \E s \in Nat : AckSum(c.acks, s) /\ SourceOK(c, k, s)
Fine(handler, c, k, bs) == IF handler = "socket" THEN SocketFine(c, k, bs) ELSE SourceFine(c, k)

\* Every client keeps what its own calls keep, and those to come are Gone.
IInv ==
  /\ kind \in Kind /\ made \in 0..MaxClients /\ calls \in 0..MaxCalls /\ buffers \subseteq 1..MaxCalls
  /\ clients = [id \in Id |-> clients[id]]
  /\ \A id \in Id : id > made => clients[id] = Gone
  /\ \A id \in Id : clients[id] = Gone \/ Fine(kind, clients[id], calls, buffers)

LEMMA LaterFine ==
  ASSUME NEW handler, NEW c, NEW k \in Nat, NEW bs, Fine(handler, c, k, bs)
  PROVE  Fine(handler, c, k + 1, bs)
<1>1. CASE handler = "socket"
  BY <1>1, LaterOK DEF Fine, SocketFine
<1>2. CASE handler # "socket"
  <2>1. PICK s \in Nat : AckSum(c.acks, s) /\ SourceOK(c, k, s)
    BY <1>2 DEF Fine, SourceFine
  <2>2. SourceOK(c, k + 1, s)
    BY <2>1, SourceLaterOK
  <2> QED BY <1>2, <2>1, <2>2 DEF Fine, SourceFine
<1> QED BY <1>1, <1>2

LEMMA BackedBy ==
  ASSUME NEW c, NEW d, NEW bs, Backed(c, bs), From(c.messages, d.messages)
  PROVE  Backed(d, bs)
BY DEF Backed, From

LEMMA PaidBy ==
  ASSUME NEW c, NEW d, Paid(c), Levels(c, d), d.acks = c.acks
  PROVE  Paid(d)
BY DEF Paid, Levels

LEMMA HeardAlone ==
  ASSUME NEW c, NEW d, HeardOK(c), Idle(c, d)
  PROVE  HeardOK(d)
BY DEF HeardOK, Idle

\* A step of some clients.
LEMMA ClientsStep ==
  ASSUME IInv, kind' = kind, made' = made, calls' = calls \/ (calls' = calls + 1 /\ calls < MaxCalls),
         buffers' \subseteq 1..MaxCalls, clients' = [id \in Id |-> clients'[id]],
         \A id \in Id : clients[id] = Gone => clients'[id] = Gone,
         \A id \in Id : clients[id] # Gone => clients'[id] = Gone \/ Fine(kind, clients'[id], calls', buffers')
  PROVE  IInv'
<1>1. calls' \in 0..MaxCalls
  BY PushAssumption DEF IInv
<1>2. \A id \in Id : id > made' => clients'[id] = Gone
  BY DEF IInv
<1>3. \A id \in Id : clients'[id] = Gone \/ Fine(kind', clients'[id], calls', buffers')
  OBVIOUS
<1> QED BY <1>1, <1>2, <1>3 DEF IInv

\* A step of one client.
LEMMA ClientStep ==
  ASSUME IInv, kind' = kind, made' = made, calls' = calls \/ (calls' = calls + 1 /\ calls < MaxCalls),
         buffers' = buffers, NEW id \in Client, NEW d, Update(id, d),
         d = Gone \/ Fine(kind, d, calls', buffers)
  PROVE  IInv'
<1>1. clients' = [clients EXCEPT ![id] = d] /\ clients = [i \in Id |-> clients[i]]
  BY DEF Update, IInv
<1>2. id \in Id /\ clients[id] # Gone
  BY PushAssumption DEF Client, Id, IInv
<1>3. clients' = [i \in Id |-> clients'[i]] /\ clients'[id] = d /\ \A i \in Id : i # id => clients'[i] = clients[i]
  BY <1>1, <1>2
<1>4. \A i \in Id : clients[i] = Gone => clients'[i] = Gone
  BY <1>2, <1>3
<1>5. ASSUME NEW i \in Id, clients[i] # Gone PROVE clients'[i] = Gone \/ Fine(kind, clients'[i], calls', buffers')
  <2>1. CASE i = id
    BY <1>3, <2>1
  <2>2. CASE i # id
    <3>1. clients'[i] = clients[i] /\ Fine(kind, clients[i], calls, buffers)
      BY <1>3, <1>5, <2>2 DEF IInv
    <3>2. calls \in Nat
      BY PushAssumption DEF IInv
    <3>3. Fine(kind, clients[i], calls + 1, buffers)
      BY <3>1, <3>2, LaterFine
    <3> QED BY <3>1, <3>3
  <2> QED BY <2>1, <2>2
<1>6. buffers' \subseteq 1..MaxCalls
  BY DEF IInv
<1> QED BY <1>3, <1>4, <1>5, <1>6, ClientsStep

\* A client is fine, and what it may do wrong is a fault.
LEMMA ClientFine ==
  ASSUME IInv, NEW id \in Client
  PROVE  /\ id \in Id /\ clients[id] # Gone /\ calls \in Nat /\ calls <= MaxCalls
         /\ kind = "socket" => SocketFine(clients[id], calls, buffers)
         /\ kind # "socket" => SourceFine(clients[id], calls)
         /\ kind = "socket" => Faults(clients[id]) \subseteq Socket!Fault
<1>1. id \in Id /\ clients[id] # Gone
  BY PushAssumption DEF Client, Id, IInv
<1>2. Fine(kind, clients[id], calls, buffers)
  BY <1>1 DEF IInv
<1>3. calls \in Nat /\ calls <= MaxCalls
  BY PushAssumption DEF IInv
<1> QED BY <1>1, <1>2, <1>3 DEF Fine, Faults, Socket!Fault

\* What cleaning leaves are the buffers in use at least.
LEMMA CleanBuffersIs ==
  ASSUME NEW cs, NEW bs, NEW left \in CleanBuffers(cs, bs)
  PROVE  left \subseteq bs /\ \A b \in bs : b \in left \/ CanDelete(cs, b)
BY DEF CleanBuffers

LEMMA BackedClean ==
  ASSUME NEW cs, NEW bs, NEW left \in CleanBuffers(cs, bs), NEW id \in Id, cs[id] # Gone, Backed(cs[id], bs)
  PROVE  Backed(cs[id], left)
<1> SUFFICES ASSUME NEW i \in DOMAIN cs[id].messages, cs[id].messages[i].kind = "multi"
             PROVE  cs[id].messages[i].body \in left
  BY DEF Backed
<1> DEFINE b == cs[id].messages[i].body
<1>1. b \in bs
  BY DEF Backed
<1>2. Uses(cs[id], b)
  BY DEF Uses
<1>3. ~CanDelete(cs, b)
  BY <1>2 DEF CanDelete
<1> HIDE DEF b
<1>4. b \in left
  BY <1>1, <1>3, CleanBuffersIs
<1> QED BY <1>4 DEF b

LEMMA NewSocketFine ==
  ASSUME NEW left \in HeadLeft, NEW k \in Nat, NEW bs
  PROVE  SocketFine(Socket!NewClient(left), k, bs)
<1> DEFINE c == Socket!NewClient(left)
<1>0. left \in 0..SndBuf
  BY PushAssumption
<1>1. <<>> \in Seq(1..SndBuf) /\ <<>> \in Seq(FrameType) /\ <<>> \in Seq(ControlType) /\ <<>> \in Seq(Message) /\ <<>> \in Bytes
  BY DEF Bytes
<1>2. [op \in {"text", "close", "ping", "pong"} |-> <<>>] \in [Op -> Bytes]
  BY <1>1 DEF Op
<1>3. [n |-> 0, op |-> "text", len |-> 0, at |-> 0] \in PieceType
  BY DEF PieceType, Op
<1>4. Socket!NoFrame \in InfoType
  BY DEF InfoType, Op, Socket!NoFrame
<1>5. c \in SocketType
  BY <1>0, <1>1, <1>2, <1>3, <1>4 DEF SocketType, Socket!NewClient
<1>6. /\ c.messages = <<>> /\ c.taken = {} /\ c.wire = <<>> /\ ~c.parsing /\ c.said = <<>>
      /\ c.heard["text"] = <<>> /\ c.frame.at = c.frame.len
  BY DEF Socket!NewClient
<1>9. c.controls = <<>> /\ c.acks = <<>> /\ c.unacked = left /\ (c.crossed <=> left > 0)
  BY DEF Socket!NewClient
<1> HIDE DEF c
<1>10. Paid(c)
  <2>1. ~c.crossed => left = 0
    BY <1>0, <1>9
  <2>2. left = 0 => Even(c, 0)
    <3>1. DOMAIN <<>> = {}
      OBVIOUS
    <3>2. AllSettled(c.messages) /\ Waiting(c.controls) /\ Outstanding(c.messages) = 0 /\ Answer(c.controls) = 0
      BY <1>6, <1>9, <3>1 DEF AllSettled, Waiting, Outstanding, Answer
    <3> QED BY <1>9, <3>2 DEF Even
  <2>3. Level(c, 0)
    BY <2>1, <2>2 DEF Level, Troubled
  <2>4. AckSum(c.acks, 0)
    BY <1>9, AckSumEmpty
  <2> QED BY <2>3, <2>4 DEF Paid
<1>7. Good(c, k)
  <2>1. DOMAIN <<>> = {} /\ Len(<<>>) = 0
    OBVIOUS
  <2>2. QueueOK(c.messages, c.taken, k)
    BY <1>6, <2>1, PushAssumption DEF QueueOK
  <2>3. WireOK(c.wire, c.whole, c.messages, c.taken, k)
    BY <1>6, <2>1 DEF WireOK
  <2> QED BY <1>5, <2>2, <2>3 DEF Good
<1>8. HeardOK(c) /\ Backed(c, bs)
  BY <1>6 DEF HeardOK, Backed
<1> QED BY <1>7, <1>8, <1>10 DEF SocketFine, c

LEMMA NewSourceFine ==
  ASSUME NEW left \in HeadLeft, NEW k \in Nat
  PROVE  SourceFine(Source!NewClient(left), k)
<1> DEFINE c == Source!NewClient(left)
<1>0. left \in 0..SndBuf
  BY PushAssumption
<1>1. <<>> \in Seq(1..SndBuf) /\ <<>> \in Seq(EventMessage) /\ <<>> \in Seq(Nat) /\ {} \in SUBSET Nat
  OBVIOUS
<1>2. c \in SourceType
  BY <1>0, <1>1 DEF SourceType, Source!NewClient
<1>3. /\ c.messages = <<>> /\ c.taken = {} /\ c.wire = <<>> /\ c.acks = <<>> /\ c.unacked = left
      /\ c.passed <=> left > 0
  BY DEF Source!NewClient
<1> HIDE DEF c
<1>4. DOMAIN <<>> = {} /\ Len(<<>>) = 0 /\ 1..(0 - 1) = {}
  OBVIOUS
<1>5. LineOK(c.messages, k) /\ Told(c.messages, c.wire, c.taken, k) /\ Len(c.messages) <= MaxEvents
  BY <1>3, <1>4, PushAssumption DEF LineOK, Told
<1>6. ~c.passed => Flow(c.messages, c.unacked + 0)
  <2> HAVE ~c.passed
  <2>1. left = 0
    BY <1>0, <1>3
  <2>2. IsFlow([i \in 0..0 |-> 0], <<>>, 0)
    <3>1. 1..0 = {}
      OBVIOUS
    <3> QED BY <1>4, <3>1 DEF IsFlow
  <2>3. Flow(<<>>, 0)
    BY <2>2 DEF Flow
  <2> QED BY <1>3, <2>1, <2>3
<1>7. SourceOK(c, k, 0)
  BY <1>2, <1>5, <1>6 DEF SourceOK
<1>8. AckSum(c.acks, 0)
  BY <1>3, AckSumEmpty
<1> QED BY <1>7, <1>8 DEF SourceFine, c

-----------------------------------------------------------------------------
(* The steps of the handler of a web socket *)

\* The bytes of a message that long are counted without wrapping.
Counted(len) == 5 * len < SizeT

LEMMA NewMessage ==
  ASSUME NEW how \in {"basic", "multi"}, NEW body \in 1..MaxCalls, NEW len \in Nat, Counted(len),
         NEW m, m = Socket!Message(how, body, len)
  PROVE  m \in Message /\ m.kind = how /\ m.body = body /\ Fresh(m)
<1>1. m \in Message /\ m.kind = how /\ m.body = body
  BY PushAssumption DEF Socket!Message, Message
<1>2. m.sent = 0 /\ m.ack = 0 /\ m.acked = 0 /\ m.status = "sending" /\ m.len = len
  BY DEF Socket!Message
<1> QED BY <1>1, <1>2 DEF Fresh, Counted

LEMMA LengthsCounted ==
  /\ \A len \in Length : len \in Nat /\ Counted(len)
  /\ \A len \in Printed : len \in Nat /\ Counted(len) /\ len + 1 \in Nat /\ Counted(len + 1)
<1>1. \A len \in Length \cup Printed : len \in Nat /\ 5 * (len + 1) < SizeT
  BY PushAssumption, WindowAssumption
<1>2. \A n \in Nat : 5 * (n + 1) < SizeT => 5 * n < SizeT
  BY PushAssumption
<1> QED BY <1>1, <1>2 DEF Counted

LEMMA QueueFine ==
  ASSUME NEW c, NEW k \in Nat, NEW bs, SocketFine(c, k, bs), NEW more, bs \subseteq more,
         NEW m \in Message, m.body = k + 1, Fresh(m), m.kind = "multi" => m.body \in more,
         NEW fault \in Socket!Fault, NEW d, d = Socket!QueueMessage(c, m, fault)
  PROVE  SocketFine(d, k + 1, more)
<1>1. Good(d, k + 1) /\ Queues(c, d, m)
  BY QueueMessageOK DEF SocketFine
<1>2. HeardOK(d)
  BY <1>1, HeardAlone DEF SocketFine, Queues
<1>3. Backed(d, more)
  BY <1>1 DEF SocketFine, Queues, Backed
<1>4. Paid(d)
  BY <1>1, PaidBy DEF SocketFine, Queues, Idle
<1> QED BY <1>1, <1>2, <1>3, <1>4 DEF SocketFine

LEMMA SendsFine ==
  ASSUME NEW c, NEW k \in Nat, NEW bs, SocketFine(c, k, bs), NEW d, Good(d, k), Sends(c, d)
  PROVE  SocketFine(d, k, bs)
<1>1. HeardOK(d)
  BY HeardAlone DEF SocketFine, Sends, Stays
<1>2. Backed(d, bs)
  BY BackedBy DEF SocketFine, Sends, Stays
<1>3. Paid(d)
  BY PaidBy DEF SocketFine, Sends, Stays, Idle
<1> QED BY <1>1, <1>2, <1>3 DEF SocketFine

LEMMA ControlFine ==
  ASSUME NEW c, NEW k \in Nat, NEW bs, SocketFine(c, k, bs), NEW len \in Nat, NEW d,
         d = Socket!Close(c, len, "none") \/ d = Socket!Ping(c, len, "none")
  PROVE  SocketFine(d, k + 1, bs)
<1>1. "none" \in Socket!Fault
  BY DEF Socket!Fault
<1>2. Good(d, k) /\ Sends(c, d)
  BY <1>1, CloseOrPingOK DEF SocketFine
<1>3. SocketFine(d, k, bs)
  BY <1>2, SendsFine
<1>4. Fine("socket", d, k, bs)
  BY <1>3 DEF Fine
<1>5. Fine("socket", d, k + 1, bs)
  BY <1>4, LaterFine
<1> QED BY <1>5 DEF Fine

\* One more call, for one client.
LEMMA SocketCall ==
  ASSUME IInv, kind = "socket", Call, UNCHANGED <<kind, made, buffers>>, NEW id \in Client, NEW d, Update(id, d),
         SocketFine(d, calls + 1, buffers)
  PROVE  IInv'
<1>1. calls < MaxCalls /\ calls' = calls + 1
  BY DEF Call
<1>2. Fine(kind, d, calls', buffers)
  BY <1>1 DEF Fine
<1> QED BY <1>1, <1>2, ClientStep

\* One more call, for all clients.
LEMMA SocketCallAll ==
  ASSUME IInv, kind = "socket", Call, UNCHANGED <<kind, made>>, buffers' \subseteq 1..MaxCalls,
         clients' = [id \in Id |-> clients'[id]],
         \A id \in Id : id \notin Client => clients'[id] = clients[id],
         \A id \in Client : SocketFine(clients'[id], calls + 1, buffers')
  PROVE  IInv'
<1>1. calls < MaxCalls /\ calls' = calls + 1
  BY DEF Call
<1>2. \A id \in Id : id \in Client <=> clients[id] # Gone
  BY PushAssumption DEF Client, Id, IInv
<1>3. \A id \in Id : clients[id] = Gone => clients'[id] = Gone
  BY <1>2
<1>4. \A id \in Id : clients[id] # Gone => Fine(kind, clients'[id], calls', buffers')
  BY <1>1, <1>2 DEF Fine
<1> QED BY <1>1, <1>3, <1>4, ClientsStep

LEMMA StepText ==
  ASSUME IInv, NEW id \in Client, Text(id)
  PROVE  IInv'
<1>1. kind = "socket" /\ Call /\ calls' = calls + 1 /\ calls < MaxCalls /\ UNCHANGED <<kind, made, buffers>>
  BY DEF Text, Call
<1>2. PICK len \in Length, fault \in Faults(clients[id]) :
        Update(id, Socket!QueueMessage(clients[id], Socket!BasicMessage(calls', len), fault))
  BY DEF Text
<1>3. SocketFine(clients[id], calls, buffers) /\ fault \in Socket!Fault /\ calls \in Nat
  BY <1>1, ClientFine
<1> DEFINE m == Socket!BasicMessage(calls', len)
           d == Socket!QueueMessage(clients[id], m, fault)
<1>4. m \in Message /\ m.kind = "basic" /\ m.body = calls + 1 /\ Fresh(m)
  <2>1. calls + 1 \in 1..MaxCalls /\ len \in Nat /\ Counted(len)
    BY <1>1, <1>3, PushAssumption, LengthsCounted
  <2> QED BY <1>1, <2>1, NewMessage DEF Socket!BasicMessage
<1>5. Update(id, d) /\ d = Socket!QueueMessage(clients[id], m, fault)
  BY <1>2
<1> HIDE DEF m, d
<1>6. SocketFine(d, calls + 1, buffers)
  BY <1>3, <1>4, <1>5, QueueFine
<1> QED BY <1>1, <1>5, <1>6, SocketCall

LEMMA StepPing ==
  ASSUME IInv, NEW id \in Client, Ping(id)
  PROVE  IInv'
<1> DEFINE d == Socket!Ping(clients[id], 0, "none")
<1>1. kind = "socket" /\ Call /\ UNCHANGED <<kind, made, buffers>> /\ Update(id, d)
  BY DEF Ping
<1>2. SocketFine(clients[id], calls, buffers) /\ calls \in Nat
  BY <1>1, ClientFine
<1>3. SocketFine(d, calls + 1, buffers)
  BY <1>2, ControlFine
<1> HIDE DEF d
<1> QED BY <1>1, <1>3, SocketCall

LEMMA StepClose ==
  ASSUME IInv, NEW id \in Client, Close(id)
  PROVE  IInv'
<1>1. kind = "socket" /\ Call /\ UNCHANGED <<kind, made, buffers>>
  BY DEF Close
<1>2. PICK len \in CloseLen : Update(id, Socket!Close(clients[id], len, "none"))
  BY DEF Close
<1> DEFINE d == Socket!Close(clients[id], len, "none")
<1>3. SocketFine(clients[id], calls, buffers) /\ calls \in Nat /\ len \in Nat
  BY <1>1, ClientFine, PushAssumption
<1>4. SocketFine(d, calls + 1, buffers)
  BY <1>3, ControlFine
<1>5. Update(id, d)
  BY <1>2
<1> HIDE DEF d
<1> QED BY <1>1, <1>4, <1>5, SocketCall

\* The client that came first is one.
LEMMA FirstClient ==
  ASSUME Client # {}
  PROVE  (CHOOSE id \in Client : \A other \in Client : id <= other) \in Client
<1> DEFINE R == OpToRel(<, Nat)
<1>1. IsWellFoundedOn(R, Nat)
  BY NatLessThanWellFounded
<1>2. \A x, y \in Nat : <<x, y>> \in R <=> x < y
  BY DEF OpToRel
<1>3. Client \subseteq Nat
  BY DEF Client
<1> HIDE DEF R
<1>4. PICK x \in Client : \A y \in Client : <<y, x>> \notin R
  BY <1>1, <1>3, WFMin
<1>5. \A y \in Client : x <= y
  <2> TAKE y \in Client
  <2>1. x \in Nat /\ y \in Nat
    BY <1>3
  <2>2. ~(y < x)
    BY <1>2, <1>4, <2>1
  <2> QED BY <2>1, <2>2
<1> QED BY <1>5

LEMMA StepCleanup ==
  ASSUME IInv, Client # {}, CleanupClients
  PROVE  IInv'
<1> DEFINE id == CHOOSE id \in Client : \A other \in Client : id <= other
           d == Socket!Close(clients[id], 0, "none")
<1>1. id \in Client
  BY FirstClient
<1>2. kind = "socket" /\ Call /\ UNCHANGED <<kind, made, buffers>> /\ Update(id, d)
  BY DEF CleanupClients
<1> HIDE DEF id
<1>3. SocketFine(clients[id], calls, buffers) /\ calls \in Nat
  BY <1>1, <1>2, ClientFine
<1>4. SocketFine(d, calls + 1, buffers)
  BY <1>3, ControlFine
<1> HIDE DEF d
<1> QED BY <1>1, <1>2, <1>4, SocketCall

\* A call that reaches every client which is connected: the others only see another
\* call pass.
LEMMA OthersFine ==
  ASSUME IInv, kind = "socket", NEW id \in Client
  PROVE  SocketFine(clients[id], calls + 1, buffers)
<1>1. Fine("socket", clients[id], calls, buffers) /\ calls \in Nat
  BY ClientFine DEF Fine
<1>2. Fine("socket", clients[id], calls + 1, buffers)
  BY <1>1, LaterFine
<1> QED BY <1>2 DEF Fine

LEMMA StepTextEach ==
  ASSUME IInv, TextEach
  PROVE  IInv'
<1>1. kind = "socket" /\ Call /\ calls' = calls + 1 /\ calls < MaxCalls /\ UNCHANGED <<kind, made, buffers>>
  BY DEF TextEach, Call
<1>2. PICK len \in Length, fault \in FaultsOfAll(Socket!Fault) :
        clients' = [id \in Id |->
          IF id \in Client /\ IsConnected(id)
            THEN Socket!QueueMessage(clients[id], Socket!BasicMessage(calls', len), fault) ELSE clients[id]]
  BY DEF TextEach, ToConnected
<1> DEFINE m == Socket!BasicMessage(calls', len)
<1>3. fault \in Socket!Fault
  BY DEF FaultsOfAll
<1>4. m \in Message /\ m.kind = "basic" /\ m.body = calls + 1 /\ Fresh(m)
  <2>1. calls + 1 \in 1..MaxCalls /\ len \in Nat /\ Counted(len)
    BY <1>1, PushAssumption, LengthsCounted DEF IInv
  <2> QED BY <1>1, <2>1, NewMessage DEF Socket!BasicMessage
<1> HIDE DEF m
<1>5. ASSUME NEW id \in Client PROVE SocketFine(clients'[id], calls + 1, buffers)
  <2>1. id \in Id /\ SocketFine(clients[id], calls, buffers) /\ calls \in Nat
    BY <1>1, <1>5, ClientFine
  <2>2. CASE IsConnected(id)
    <3> DEFINE d == Socket!QueueMessage(clients[id], m, fault)
    <3>1. clients'[id] = d
      BY <1>2, <1>5, <2>1, <2>2 DEF m
    <3>2. SocketFine(d, calls + 1, buffers)
      BY <1>3, <1>4, <2>1, QueueFine
    <3> QED BY <3>1, <3>2
  <2>3. CASE ~IsConnected(id)
    <3>1. clients'[id] = clients[id]
      BY <1>2, <2>1, <2>3
    <3> QED BY <1>1, <1>5, <3>1, OthersFine
  <2> QED BY <2>2, <2>3
<1>6. \A id \in Id : id \notin Client => clients'[id] = clients[id]
  BY <1>2
<1>7. clients' = [id \in Id |-> clients'[id]] /\ buffers' \subseteq 1..MaxCalls
  BY <1>1, <1>2 DEF IInv
<1> QED BY <1>1, <1>5, <1>6, <1>7, SocketCallAll

LEMMA StepPingAll ==
  ASSUME IInv, PingAll
  PROVE  IInv'
<1>1. kind = "socket" /\ Call /\ UNCHANGED <<kind, made, buffers>>
  BY DEF PingAll
<1>2. clients' = [id \in Id |->
          IF id \in Client /\ IsConnected(id) THEN Socket!Ping(clients[id], 0, "none") ELSE clients[id]]
  BY DEF PingAll, ToConnected
<1>5. ASSUME NEW id \in Client PROVE SocketFine(clients'[id], calls + 1, buffers)
  <2>1. id \in Id /\ SocketFine(clients[id], calls, buffers) /\ calls \in Nat
    BY <1>1, <1>5, ClientFine
  <2>2. CASE IsConnected(id)
    <3>1. clients'[id] = Socket!Ping(clients[id], 0, "none")
      BY <1>2, <1>5, <2>1, <2>2
    <3> QED BY <2>1, <3>1, ControlFine
  <2>3. CASE ~IsConnected(id)
    <3>1. clients'[id] = clients[id]
      BY <1>2, <2>1, <2>3
    <3> QED BY <1>1, <1>5, <3>1, OthersFine
  <2> QED BY <2>2, <2>3
<1>6. \A id \in Id : id \notin Client => clients'[id] = clients[id]
  BY <1>2
<1>7. clients' = [id \in Id |-> clients'[id]] /\ buffers' \subseteq 1..MaxCalls
  BY <1>1, <1>2 DEF IInv
<1> QED BY <1>1, <1>5, <1>6, <1>7, SocketCallAll

LEMMA StepCloseAll ==
  ASSUME IInv, CloseAll
  PROVE  IInv'
<1>1. kind = "socket" /\ Call /\ UNCHANGED <<kind, made, buffers>>
  BY DEF CloseAll
<1>2. PICK len \in CloseLen :
        clients' = [id \in Id |->
          IF id \in Client /\ IsConnected(id) THEN Socket!Close(clients[id], len, "none") ELSE clients[id]]
  BY DEF CloseAll, ToConnected
<1>5. ASSUME NEW id \in Client PROVE SocketFine(clients'[id], calls + 1, buffers)
  <2>1. id \in Id /\ SocketFine(clients[id], calls, buffers) /\ calls \in Nat /\ len \in Nat
    BY <1>1, <1>5, ClientFine, PushAssumption
  <2>2. CASE IsConnected(id)
    <3>1. clients'[id] = Socket!Close(clients[id], len, "none")
      BY <1>2, <1>5, <2>1, <2>2
    <3> QED BY <2>1, <3>1, ControlFine
  <2>3. CASE ~IsConnected(id)
    <3>1. clients'[id] = clients[id]
      BY <1>2, <2>1, <2>3
    <3> QED BY <1>1, <1>5, <3>1, OthersFine
  <2> QED BY <2>2, <2>3
<1>6. \A id \in Id : id \notin Client => clients'[id] = clients[id]
  BY <1>2
<1>7. clients' = [id \in Id |-> clients'[id]] /\ buffers' \subseteq 1..MaxCalls
  BY <1>1, <1>2 DEF IInv
<1> QED BY <1>1, <1>5, <1>6, <1>7, SocketCallAll

\* textAll of a buffer: it is there as long as a message has it.
LEMMA StepTextBuffer ==
  ASSUME IInv, kind = "socket", Call, NEW len \in Nat, Counted(len), NEW fault \in Socket!Fault,
         TextBuffer(len, fault)
  PROVE  IInv'
<1>1. calls' = calls + 1 /\ calls < MaxCalls /\ UNCHANGED <<kind, made>> /\ calls \in Nat
  BY PushAssumption DEF TextBuffer, Call, IInv
<1> DEFINE m == Socket!MultiMessage(calls', len)
           more == MakeBuffer(buffers, calls')
<1>2. clients' = [id \in Id |->
          IF id \in Client /\ IsConnected(id) THEN Socket!QueueMessage(clients[id], m, fault) ELSE clients[id]]
  BY DEF TextBuffer, ToConnected
<1>3. buffers' \in CleanBuffers(clients', more)
  BY DEF TextBuffer
<1>4. m \in Message /\ m.kind = "multi" /\ m.body = calls + 1 /\ Fresh(m)
  <2>1. calls + 1 \in 1..MaxCalls
    BY <1>1, PushAssumption
  <2> QED BY <1>1, <2>1, NewMessage DEF Socket!MultiMessage
<1>5. buffers \subseteq more /\ m.body \in more /\ more \subseteq 1..MaxCalls
  BY <1>1, <1>4, PushAssumption DEF IInv, MakeBuffer
<1> HIDE DEF m, more
<1>6. ASSUME NEW id \in Client PROVE clients'[id] = Gone \/ SocketFine(clients'[id], calls + 1, buffers')
  <2>1. id \in Id /\ SocketFine(clients[id], calls, buffers) /\ calls \in Nat
    BY <1>1, <1>6, ClientFine
  <2>2. SocketFine(clients'[id], calls + 1, more)
    <3>1. CASE IsConnected(id)
      <4> DEFINE d == Socket!QueueMessage(clients[id], m, fault)
      <4>1. clients'[id] = d
        BY <1>2, <1>6, <2>1, <3>1
      <4>2. SocketFine(d, calls + 1, more)
        BY <1>4, <1>5, <2>1, QueueFine
      <4> QED BY <4>1, <4>2
    <3>2. CASE ~IsConnected(id)
      <4>1. clients'[id] = clients[id]
        BY <1>2, <2>1, <3>2
      <4>2. SocketFine(clients[id], calls + 1, buffers)
        BY <1>6, OthersFine
      <4> QED BY <1>5, <4>1, <4>2 DEF SocketFine, Backed
    <3> QED BY <3>1, <3>2
  <2>3. CASE clients'[id] # Gone
    <3>1. Backed(clients'[id], buffers')
      BY <1>3, <2>1, <2>2, <2>3, BackedClean DEF SocketFine
    <3> QED BY <2>2, <3>1 DEF SocketFine
  <2> QED BY <2>3
<1>7. \A id \in Id : id \notin Client => clients'[id] = clients[id]
  BY <1>2
<1>8. clients' = [id \in Id |-> clients'[id]]
  BY <1>2
<1>9. buffers' \subseteq 1..MaxCalls
  BY <1>3, <1>5, CleanBuffersIs
<1>10. \A id \in Id : id \in Client <=> clients[id] # Gone
  BY PushAssumption DEF Client, Id, IInv
<1>11. \A id \in Id : clients[id] = Gone => clients'[id] = Gone
  BY <1>7, <1>10
<1>12. \A id \in Id : clients[id] # Gone => clients'[id] = Gone \/ Fine(kind, clients'[id], calls', buffers')
  BY <1>1, <1>6, <1>10 DEF Fine
<1> QED BY <1>1, <1>8, <1>9, <1>11, <1>12, ClientsStep

LEMMA StepTextAll ==
  ASSUME IInv, TextAll \/ PrintAll \/ PrintAllInFlash
  PROVE  IInv'
<1>1. kind = "socket" /\ Call
  BY DEF TextAll, PrintAll, PrintAllInFlash
<1>2. PICK len \in Nat, fault \in Socket!Fault : TextBuffer(len, fault) /\ Counted(len)
  <2>2. \A fault \in FaultsOfAll(Socket!Fault) : fault \in Socket!Fault
    BY DEF FaultsOfAll
  <2> QED BY <2>2, LengthsCounted DEF TextAll, PrintAll, PrintAllInFlash
<1> QED BY <1>1, <1>2, StepTextBuffer

-----------------------------------------------------------------------------
(* The steps of the handler of an event source *)

LEMMA StepSendEvent ==
  ASSUME IInv, NEW id \in Client, SendEvent(id)
  PROVE  IInv'
<1>1. kind = "events" /\ calls' = calls + 1 /\ calls < MaxCalls /\ UNCHANGED <<kind, made, buffers>>
  BY DEF SendEvent, Call
<1>2. PICK len \in Length \ {0}, fault \in Faults(clients[id]) :
        Update(id, Source!QueueMessage(clients[id], Source!Event(calls', len), fault))
  BY DEF SendEvent
<1>3. SourceFine(clients[id], calls) /\ calls \in Nat /\ len \in Nat /\ len # 0 /\ calls + 1 <= MaxCalls
  BY <1>1, ClientFine, PushAssumption
<1>4. PICK s \in Nat : AckSum(clients[id].acks, s) /\ SourceOK(clients[id], calls, s)
  BY <1>3 DEF SourceFine
<1> DEFINE d == Source!QueueMessage(clients[id], Source!Event(calls + 1, len), fault)
<1>5. SourceOK(d, calls + 1, s) /\ SameLink(clients[id], d)
  BY <1>3, <1>4, SourceQueueOK
<1>6. Update(id, d)
  BY <1>1, <1>2
<1> HIDE DEF d
<1>7. Fine(kind, d, calls', buffers)
  BY <1>1, <1>4, <1>5 DEF Fine, SourceFine, SameLink
<1> QED BY <1>1, <1>6, <1>7, ClientStep

LEMMA StepSendAll ==
  ASSUME IInv, SendAll
  PROVE  IInv'
<1>1. kind = "events" /\ calls' = calls + 1 /\ calls < MaxCalls /\ UNCHANGED <<kind, made, buffers>>
  BY DEF SendAll, Call
<1>2. PICK len \in Length \ {0}, fault \in FaultsOfAll({"none", "data"}) :
        clients' = [id \in Id |->
          IF id \in Client THEN Source!QueueMessage(clients[id], Source!Event(calls', len), fault) ELSE clients[id]]
  BY DEF SendAll
<1>3. \A id \in Id : id \in Client <=> clients[id] # Gone
  BY PushAssumption DEF Client, Id, IInv
<1>4. ASSUME NEW id \in Id, clients[id] # Gone PROVE Fine(kind, clients'[id], calls', buffers')
  <2>0. id \in Client
    BY <1>3, <1>4
  <2>1. SourceFine(clients[id], calls) /\ calls \in Nat /\ len \in Nat /\ len # 0 /\ calls + 1 <= MaxCalls
    BY <1>1, <2>0, ClientFine, PushAssumption
  <2>2. PICK s \in Nat : AckSum(clients[id].acks, s) /\ SourceOK(clients[id], calls, s)
    BY <2>1 DEF SourceFine
  <2> DEFINE d == Source!QueueMessage(clients[id], Source!Event(calls + 1, len), fault)
  <2>3. SourceOK(d, calls + 1, s) /\ SameLink(clients[id], d)
    BY <2>1, <2>2, SourceQueueOK
  <2>4. clients'[id] = d
    BY <1>1, <1>2, <2>0
  <2> HIDE DEF d
  <2> QED BY <1>1, <2>2, <2>3, <2>4 DEF Fine, SourceFine, SameLink
<1>5. \A id \in Id : clients[id] = Gone => clients'[id] = Gone
  BY <1>2, <1>3
<1>6. clients' = [id \in Id |-> clients'[id]] /\ buffers' \subseteq 1..MaxCalls
  BY <1>1, <1>2 DEF IInv
<1> QED BY <1>1, <1>4, <1>5, <1>6, ClientsStep

LEMMA StepCloseSource ==
  ASSUME IInv, CloseSource
  PROVE  IInv'
<1>1. kind = "events" /\ calls' = calls + 1 /\ calls < MaxCalls /\ UNCHANGED <<kind, made, buffers>>
  BY DEF CloseSource, Call
<1> DEFINE open == {id \in Client : Source!Connected(clients[id])}
<1>2. PICK last \in open :
        clients' = [id \in Id |-> IF id \in open /\ id <= last THEN Source!Close(clients[id]) ELSE clients[id]]
  BY DEF CloseSource
<1>3. \A id \in Id : id \in Client <=> clients[id] # Gone
  BY PushAssumption DEF Client, Id, IInv
<1>4. ASSUME NEW id \in Id, clients[id] # Gone PROVE clients'[id] = Gone \/ Fine(kind, clients'[id], calls', buffers')
  <2>1. clients'[id] = Gone \/ clients'[id] = clients[id]
    BY <1>2 DEF Source!Close
  <2>2. Fine(kind, clients[id], calls, buffers) /\ calls \in Nat
    BY <1>4, PushAssumption DEF IInv
  <2>3. Fine(kind, clients[id], calls + 1, buffers)
    BY <2>2, LaterFine
  <2> QED BY <1>1, <2>1, <2>3
<1>5. \A id \in Id : clients[id] = Gone => clients'[id] = Gone
  BY <1>2, <1>3
<1>6. clients' = [id \in Id |-> clients'[id]] /\ buffers' \subseteq 1..MaxCalls
  BY <1>1, <1>2 DEF IInv
<1> QED BY <1>1, <1>4, <1>5, <1>6, ClientsStep

-----------------------------------------------------------------------------
(* The steps of the connections *)

\* A connection that is new.
LEMMA StepConnect ==
  ASSUME IInv, ConnectSocket \/ ConnectSource
  PROVE  IInv'
<1> DEFINE d(left) == IF kind = "socket" THEN Socket!NewClient(left) ELSE Source!NewClient(left)
<1>1. made < MaxClients /\ made' = made + 1 /\ UNCHANGED <<kind, calls, buffers>>
  BY DEF ConnectSocket, ConnectSource
<1>2. PICK left \in HeadLeft : Update(made', d(left))
  BY DEF ConnectSocket, ConnectSource
<1>3. made \in Nat /\ made' \in Id /\ made' \in 0..MaxClients /\ calls \in Nat
  BY <1>1, PushAssumption DEF Id, IInv
<1>4. Fine(kind, d(left), calls, buffers)
  BY <1>3, NewSocketFine, NewSourceFine DEF Fine
<1> DEFINE c == d(left)
<1>5. clients' = [clients EXCEPT ![made'] = c] /\ clients = [i \in Id |-> clients[i]]
  BY <1>2 DEF Update, IInv
<1>6. Fine(kind, c, calls, buffers)
  BY <1>4
<1> HIDE DEF c, d
<1>7. clients' = [i \in Id |-> clients'[i]] /\ clients'[made'] = c /\ \A i \in Id : i # made' => clients'[i] = clients[i]
  BY <1>3, <1>5
<1>8. \A i \in Id : i > made' => clients'[i] = Gone
  <2> TAKE i \in Id
  <2> HAVE i > made'
  <2>1. i \in Nat /\ i > made /\ i # made'
    BY <1>1, <1>3 DEF Id
  <2> QED BY <1>7, <2>1 DEF IInv
<1>9. \A i \in Id : clients'[i] = Gone \/ Fine(kind, clients'[i], calls, buffers)
  BY <1>6, <1>7 DEF IInv
<1> QED BY <1>1, <1>3, <1>7, <1>8, <1>9 DEF IInv

\* A connection that is closed or lost.
LEMMA StepGone ==
  ASSUME IInv, NEW id \in Client, TimedOut(id) \/ Disconnected(id)
  PROVE  IInv'
<1>1. Update(id, Gone) /\ UNCHANGED <<kind, made, calls, buffers>>
  BY DEF TimedOut, Disconnected, Source!Close
<1> QED BY <1>1, ClientStep

Lost(c) == [c EXCEPT !.open = FALSE]
Known(c, n) == [c EXCEPT !.unacked = @ - n, !.acks = Append(@, n)]
Heard(c) == [c EXCEPT !.acks = Tail(@)]

LEMMA SocketLink ==
  ASSUME NEW c, NEW k, NEW bs, SocketFine(c, k, bs)
  PROVE  /\ SocketFine(Lost(c), k, bs)
         /\ \A n \in 1..c.unacked : SocketFine(Known(c, n), k, bs)
         /\ c.acks # <<>> =>
              /\ Head(c.acks) \in Nat /\ Good(Heard(c), k) /\ HeardOK(Heard(c)) /\ Backed(Heard(c), bs)
              /\ \E s, t \in Nat : s = t + Head(c.acks) /\ AckSum(Heard(c).acks, t) /\ Level(Heard(c), s)
<1>1. c \in SocketType /\ c.unacked \in 0..SndBuf /\ c.acks \in Seq(1..SndBuf)
  BY DEF SocketFine, Good, SocketType
<1>2. ASSUME NEW d, d \in SocketType, d.messages = c.messages, d.taken = c.taken, d.wire = c.wire, d.whole = c.whole,
             d.refused = c.refused, d.heard = c.heard, d.said = c.said, d.parsing = c.parsing, d.frame = c.frame,
             d.info = c.info
      PROVE  Good(d, k) /\ HeardOK(d) /\ Backed(d, bs)
  BY <1>2 DEF SocketFine, Good, HeardOK, Backed
<1>6. PICK s \in Nat : AckSum(c.acks, s) /\ Level(c, s)
  BY DEF SocketFine, Paid
<1>3. SocketFine(Lost(c), k, bs)
  <2> DEFINE d == Lost(c)
  <2>1. d \in SocketType
    BY <1>1 DEF SocketType, Lost
  <2>2. /\ d.messages = c.messages /\ d.taken = c.taken /\ d.wire = c.wire /\ d.whole = c.whole
        /\ d.refused = c.refused /\ d.heard = c.heard /\ d.said = c.said /\ d.parsing = c.parsing /\ d.frame = c.frame
        /\ d.info = c.info
    BY <1>1 DEF SocketType, Lost
  <2>4. d.acks = c.acks /\ ~d.open
    BY <1>1 DEF SocketType, Lost
  <2> HIDE DEF d
  <2>5. Paid(d)
    BY <1>6, <2>4 DEF Paid, Level, Troubled
  <2>3. SocketFine(d, k, bs)
    BY <1>2, <2>1, <2>2, <2>5 DEF SocketFine
  <2> QED BY <2>3 DEF d
<1>4. ASSUME NEW n \in 1..c.unacked PROVE SocketFine(Known(c, n), k, bs)
  <2> DEFINE d == Known(c, n)
             more == Append(c.acks, n)
  <2>1. c.unacked - n \in 0..SndBuf /\ n \in 1..SndBuf
    BY <1>1, PushAssumption
  <2>2. more \in Seq(1..SndBuf)
    <3> DEFINE T == 1..SndBuf
    <3>1. c.acks \in Seq(T) /\ n \in T
      BY <1>1, <2>1
    <3> HIDE DEF T
    <3>2. more \in Seq(T)
      BY <3>1
    <3> QED BY <3>2 DEF T
  <2>3. d = [c EXCEPT !.unacked = c.unacked - n, !.acks = more]
    BY DEF Known
  <2> HIDE DEF more, d
  <2>4. d \in SocketType
    BY <1>1, <2>1, <2>2, <2>3 DEF SocketType
  <2>5. /\ d.messages = c.messages /\ d.taken = c.taken /\ d.wire = c.wire /\ d.whole = c.whole
        /\ d.refused = c.refused /\ d.heard = c.heard /\ d.said = c.said /\ d.parsing = c.parsing /\ d.frame = c.frame
        /\ d.info = c.info
    BY <1>1, <2>3 DEF SocketType
  <2>7. d.open = c.open /\ d.crossed = c.crossed /\ d.controls = c.controls /\ d.acks = more /\ d.unacked = c.unacked - n
    BY <1>1, <2>3 DEF SocketType
  <2>8. AckSum(more, s + n) /\ s + n \in Nat /\ d.unacked + (s + n) = c.unacked + s
    BY <1>1, <1>6, <2>1, <2>7, AckSumAppend DEF more
  <2>9. Level(d, s + n)
    <3> DEFINE t == s + n
    <3>1. d.unacked + t = c.unacked + s
      BY <2>8
    <3> HIDE DEF t
    <3>2. Even(c, s) => Even(d, t)
      BY <2>5, <2>7, <3>1 DEF Even
    <3>3. Level(d, t)
      BY <1>6, <2>5, <2>7, <3>2 DEF Level, Troubled
    <3> QED BY <3>3 DEF t
  <2>10. Paid(d)
    <3> DEFINE t == s + n
    <3>1. t \in Nat /\ AckSum(d.acks, t) /\ Level(d, t)
      BY <2>7, <2>8, <2>9
    <3> HIDE DEF t
    <3> QED BY <3>1 DEF Paid
  <2>6. SocketFine(d, k, bs)
    BY <1>2, <2>4, <2>5, <2>10 DEF SocketFine
  <2> QED BY <2>6 DEF d
<1>5. ASSUME c.acks # <<>>
      PROVE  /\ Head(c.acks) \in Nat /\ Good(Heard(c), k) /\ HeardOK(Heard(c)) /\ Backed(Heard(c), bs)
             /\ \E u, t \in Nat : u = t + Head(c.acks) /\ AckSum(Heard(c).acks, t) /\ Level(Heard(c), u)
  <2> DEFINE d == Heard(c)
             less == Tail(c.acks)
             n == Head(c.acks)
  <2>1. less \in Seq(1..SndBuf) /\ n \in 1..SndBuf
    <3> DEFINE T == 1..SndBuf
    <3>1. c.acks \in Seq(T)
      BY <1>1
    <3> HIDE DEF T
    <3>2. less \in Seq(T) /\ n \in T
      BY <1>5, <3>1
    <3> QED BY <3>2 DEF T
  <2>6. n <= s /\ AckSum(less, s - n)
    BY <1>1, <1>5, <1>6, AckSumTail
  <2>2. d = [c EXCEPT !.acks = less]
    BY DEF Heard
  <2> HIDE DEF less, d, n
  <2>3. d \in SocketType
    BY <1>1, <2>1, <2>2 DEF SocketType
  <2>4. /\ d.messages = c.messages /\ d.taken = c.taken /\ d.wire = c.wire /\ d.whole = c.whole
        /\ d.refused = c.refused /\ d.heard = c.heard /\ d.said = c.said /\ d.parsing = c.parsing /\ d.frame = c.frame
        /\ d.info = c.info
    BY <1>1, <2>2 DEF SocketType
  <2>5. Good(d, k) /\ HeardOK(d) /\ Backed(d, bs)
    BY <1>2, <2>3, <2>4
  <2>7. d.acks = less /\ SameBooks(c, d)
    BY <1>1, <2>2 DEF SocketType, SameBooks
  <2>8. Level(d, s)
    BY <1>6, <2>7, SameLevels DEF Levels
  <2> DEFINE v == s - n
  <2>9. n \in Nat /\ v \in Nat /\ s = v + n /\ AckSum(d.acks, v)
    BY <2>1, <2>6, <2>7, PushAssumption
  <2> HIDE DEF v
  <2>10. n \in Nat /\ \E u, t \in Nat : u = t + n /\ AckSum(d.acks, t) /\ Level(d, u)
    BY <2>8, <2>9
  <2> QED BY <2>5, <2>10 DEF d, n
<1> QED BY <1>3, <1>4, <1>5

LEMMA SourceLink ==
  ASSUME NEW c, NEW k \in Nat, NEW s \in Nat, AckSum(c.acks, s), SourceOK(c, k, s)
  PROVE  /\ SourceFine(Lost(c), k)
         /\ \A n \in 1..c.unacked : SourceFine(Known(c, n), k)
         /\ c.acks # <<>> =>
              /\ Head(c.acks) \in Nat
              /\ \E t \in Nat : s = t + Head(c.acks) /\ AckSum(Heard(c).acks, t) /\ SourceOK(Heard(c), k, s)
<1>1. c \in SourceType /\ c.unacked \in 0..SndBuf /\ c.unacked \in Nat /\ c.acks \in Seq(1..SndBuf)
  BY PushAssumption DEF SourceOK, SourceType
<1>2. ASSUME NEW d \in SourceType, NEW t \in Nat, d.messages = c.messages, d.taken = c.taken, d.wire = c.wire,
             d.passed = c.passed, d.unacked + t = c.unacked + s
      PROVE  SourceOK(d, k, t)
  BY <1>2 DEF SourceOK
<1>3. SourceFine(Lost(c), k)
  <2> DEFINE d == Lost(c)
  <2>1. /\ d \in SourceType /\ d.messages = c.messages /\ d.taken = c.taken /\ d.wire = c.wire
        /\ d.passed = c.passed /\ d.unacked = c.unacked /\ d.acks = c.acks
    BY <1>1 DEF SourceType, Lost
  <2> HIDE DEF d
  <2>2. SourceOK(d, k, s)
    BY <1>2, <2>1
  <2>3. SourceFine(d, k)
    BY <2>1, <2>2 DEF SourceFine
  <2> QED BY <2>3 DEF d
<1>4. ASSUME NEW n \in 1..c.unacked PROVE SourceFine(Known(c, n), k)
  <2> DEFINE d == Known(c, n)
             more == Append(c.acks, n)
  <2>1. c.unacked - n \in 0..SndBuf /\ n \in 1..SndBuf /\ s + n \in Nat /\ c.unacked - n + (s + n) = c.unacked + s
    BY <1>1, PushAssumption
  <2>2. more \in Seq(1..SndBuf)
    <3> DEFINE T == 1..SndBuf
    <3>1. c.acks \in Seq(T) /\ n \in T
      BY <1>1, <2>1
    <3> HIDE DEF T
    <3>2. more \in Seq(T)
      BY <3>1
    <3> QED BY <3>2 DEF T
  <2>3. AckSum(more, s + n)
    BY <1>1, <2>1, AckSumAppend
  <2>4. d = [c EXCEPT !.unacked = c.unacked - n, !.acks = more]
    BY DEF Known
  <2> HIDE DEF more, d
  <2>5. /\ d \in SourceType /\ d.messages = c.messages /\ d.taken = c.taken /\ d.wire = c.wire
        /\ d.passed = c.passed /\ d.unacked = c.unacked - n /\ d.acks = more
    BY <1>1, <2>1, <2>2, <2>4 DEF SourceType
  <2>6. SourceOK(d, k, s + n)
    <3> DEFINE t == s + n
    <3>1. t \in Nat /\ d.unacked + t = c.unacked + s
      BY <2>1, <2>5
    <3> HIDE DEF t
    <3>2. SourceOK(d, k, t)
      BY <1>2, <2>5, <3>1
    <3> QED BY <3>2 DEF t
  <2>7. SourceFine(d, k)
    <3> DEFINE t == s + n
    <3>1. t \in Nat /\ AckSum(d.acks, t) /\ SourceOK(d, k, t)
      BY <2>1, <2>3, <2>5, <2>6
    <3> HIDE DEF t
    <3> QED BY <3>1 DEF SourceFine
  <2> QED BY <2>7 DEF d
<1>5. ASSUME c.acks # <<>>
      PROVE  /\ Head(c.acks) \in Nat
             /\ \E t \in Nat : s = t + Head(c.acks) /\ AckSum(Heard(c).acks, t) /\ SourceOK(Heard(c), k, s)
  <2> DEFINE d == Heard(c)
             less == Tail(c.acks)
             n == Head(c.acks)
  <2>1. less \in Seq(1..SndBuf) /\ n \in 1..SndBuf
    <3> DEFINE T == 1..SndBuf
    <3>1. c.acks \in Seq(T)
      BY <1>1
    <3> HIDE DEF T
    <3>2. less \in Seq(T) /\ n \in T
      BY <1>5, <3>1
    <3> QED BY <3>2 DEF T
  <2>2. n <= s /\ AckSum(less, s - n)
    BY <1>1, <1>5, AckSumTail
  <2>3. d = [c EXCEPT !.acks = less]
    BY DEF Heard
  <2> HIDE DEF less, d, n
  <2>4. /\ d \in SourceType /\ d.messages = c.messages /\ d.taken = c.taken /\ d.wire = c.wire
        /\ d.passed = c.passed /\ d.unacked = c.unacked /\ d.acks = less
    BY <1>1, <2>1, <2>3 DEF SourceType
  <2>5. SourceOK(d, k, s)
    BY <1>2, <2>4
  <2> DEFINE t == s - n
  <2>6. n \in Nat /\ t \in Nat /\ s = t + n /\ AckSum(d.acks, t)
    BY <2>1, <2>2, <2>4, PushAssumption
  <2> HIDE DEF t
  <2>7. n \in Nat /\ \E u \in Nat : s = u + n /\ AckSum(d.acks, u) /\ SourceOK(d, k, s)
    BY <2>5, <2>6
  <2> QED BY <2>7 DEF d, n
<1> QED BY <1>3, <1>4, <1>5

LEMMA StepLose ==
  ASSUME IInv, NEW id \in Client, Lose(id)
  PROVE  IInv'
<1> DEFINE c == clients[id]
           d == Lost(c)
<1>1. Update(id, d) /\ UNCHANGED <<kind, made, calls, buffers>>
  BY DEF Lose, Lost
<1>2. calls \in Nat /\ (kind = "socket" => SocketFine(c, calls, buffers)) /\ (kind # "socket" => SourceFine(c, calls))
  BY ClientFine
<1> HIDE DEF c
<1>3. Fine(kind, d, calls, buffers)
  <2>1. CASE kind = "socket"
    BY <1>2, <2>1, SocketLink DEF Fine
  <2>2. CASE kind # "socket"
    <3>1. PICK s \in Nat : AckSum(c.acks, s) /\ SourceOK(c, calls, s)
      BY <1>2, <2>2 DEF SourceFine
    <3> QED BY <1>2, <2>2, <3>1, SourceLink DEF Fine
  <2> QED BY <2>1, <2>2
<1> HIDE DEF d
<1> QED BY <1>1, <1>3, ClientStep

LEMMA StepAcknowledge ==
  ASSUME IInv, NEW id \in Client, Acknowledge(id)
  PROVE  IInv'
<1> DEFINE c == clients[id]
<1>1. UNCHANGED <<kind, made, calls, buffers>>
  BY DEF Acknowledge
<1>2. PICK n \in 1..c.unacked : Update(id, Known(c, n))
  BY DEF Acknowledge, Known
<1>3. calls \in Nat /\ (kind = "socket" => SocketFine(c, calls, buffers)) /\ (kind # "socket" => SourceFine(c, calls))
  BY ClientFine
<1> HIDE DEF c
<1> DEFINE d == Known(c, n)
<1>4. Fine(kind, d, calls, buffers)
  <2>1. CASE kind = "socket"
    BY <1>3, <2>1, SocketLink DEF Fine
  <2>2. CASE kind # "socket"
    <3>1. PICK s \in Nat : AckSum(c.acks, s) /\ SourceOK(c, calls, s)
      BY <1>3, <2>2 DEF SourceFine
    <3> QED BY <1>3, <2>2, <3>1, SourceLink DEF Fine
  <2> QED BY <2>1, <2>2
<1>5. Update(id, d)
  BY <1>2
<1> HIDE DEF d
<1> QED BY <1>1, <1>4, <1>5, ClientStep

LEMMA StepPolled ==
  ASSUME IInv, NEW id \in Client, Polled(id)
  PROVE  IInv'
<1> DEFINE c == clients[id]
<1>1. UNCHANGED <<kind, made, buffers>>
  BY DEF Polled
<1>2. PICK fault \in Faults(c), keepAlive \in BOOLEAN :
        /\ keepAlive => calls < MaxCalls
        /\ Update(id, IF kind = "socket" THEN Socket!OnPoll(c, keepAlive, 2, fault) ELSE Source!OnPoll(c, fault))
        /\ calls' = IF keepAlive THEN calls + 1 ELSE calls
  BY DEF Polled
<1>3. /\ calls \in Nat /\ (kind = "socket" => SocketFine(c, calls, buffers)) /\ (kind # "socket" => SourceFine(c, calls))
      /\ kind = "socket" => fault \in Socket!Fault
  BY ClientFine
<1> HIDE DEF c
<1> DEFINE d == IF kind = "socket" THEN Socket!OnPoll(c, keepAlive, 2, fault) ELSE Source!OnPoll(c, fault)
<1>4. Fine(kind, d, calls, buffers)
  <2>1. CASE kind = "socket"
    <3> DEFINE e == Socket!OnPoll(c, keepAlive, 2, fault)
    <3>1. PICK x \in BOOLEAN : x = keepAlive
      OBVIOUS
    <3>2. e = Socket!OnPoll(c, x, 2, fault)
      BY <3>1
    <3> HIDE DEF e
    <3>3. Good(e, calls) /\ Sends(c, e)
      BY <1>3, <2>1, <3>2, OnPollOK DEF SocketFine
    <3>4. SocketFine(e, calls, buffers)
      BY <1>3, <2>1, <3>3, SendsFine
    <3>5. d = e
      BY <2>1 DEF e
    <3> QED BY <2>1, <3>4, <3>5 DEF Fine
  <2>2. CASE kind # "socket"
    <3>1. PICK s \in Nat : AckSum(c.acks, s) /\ SourceOK(c, calls, s)
      BY <1>3, <2>2 DEF SourceFine
    <3>2. d = Source!OnPoll(c, fault)
      BY <2>2
    <3> HIDE DEF d
    <3>3. SourceOK(d, calls, s) /\ SameLink(c, d)
      BY <1>3, <3>1, <3>2, SourceOnPollOK
    <3> QED BY <2>2, <3>1, <3>3 DEF Fine, SourceFine, SameLink
  <2> QED BY <2>1, <2>2
<1>5. Update(id, d)
  BY <1>2
<1> HIDE DEF d
<1>6. Fine(kind, d, calls + 1, buffers)
  BY <1>3, <1>4, LaterFine
<1>7. (calls' = calls \/ (calls' = calls + 1 /\ calls < MaxCalls)) /\ Fine(kind, d, calls', buffers)
  BY <1>2, <1>4, <1>6
<1> QED BY <1>1, <1>5, <1>7, ClientStep

LEMMA StepAcked ==
  ASSUME IInv, NEW id \in Client, Acked(id)
  PROVE  IInv'
<1> DEFINE c == clients[id]
           e == Heard(c)
<1>1. UNCHANGED <<kind, made, calls>> /\ c.acks # <<>>
  BY DEF Acked
<1>2. PICK fault \in Faults(c) :
        Update(id, IF kind = "socket" THEN Socket!OnAck(e, Head(c.acks), fault) ELSE Source!OnAck(e, Head(c.acks), fault))
  BY DEF Acked, Heard
<1>3. /\ calls \in Nat /\ (kind = "socket" => SocketFine(c, calls, buffers)) /\ (kind # "socket" => SourceFine(c, calls))
      /\ kind = "socket" => fault \in Socket!Fault
      /\ id \in Id /\ c # Gone
  BY ClientFine
<1>4. CASE kind # "socket"
  <2>1. buffers' = buffers
    BY <1>4 DEF Acked
  <2> HIDE DEF c
  <2>2. PICK s \in Nat : AckSum(c.acks, s) /\ SourceOK(c, calls, s)
    BY <1>3, <1>4 DEF SourceFine
  <2>3. Head(c.acks) \in Nat
    BY <1>1, <1>3, <2>2, SourceLink
  <2>4. PICK t \in Nat : s = t + Head(c.acks) /\ AckSum(e.acks, t) /\ SourceOK(e, calls, s)
    BY <1>1, <1>3, <2>2, SourceLink
  <2> DEFINE d == Source!OnAck(e, Head(c.acks), fault)
             n == Head(c.acks)
  <2>5. SourceOK(d, calls, t) /\ SameLink(e, d)
    <3>1. d = Source!OnAck(e, n, fault) /\ n \in Nat /\ s = t + n
      BY <2>3, <2>4
    <3> HIDE DEF n, d
    <3> QED BY <1>3, <2>2, <2>4, <3>1, SourceOnAckOK
  <2>6. Update(id, d)
    BY <1>2, <1>4
  <2> HIDE DEF d, e
  <2>7. Fine(kind, d, calls', buffers)
    BY <1>1, <1>4, <2>4, <2>5 DEF Fine, SourceFine, SameLink
  <2> QED BY <1>1, <2>1, <2>6, <2>7, ClientStep
<1>5. CASE kind = "socket"
  <2>1. buffers' \in CleanBuffers(clients, buffers) \/ buffers' = buffers
    BY <1>5 DEF Acked
  <2> DEFINE d == Socket!OnAck(e, Head(c.acks), fault)
  <2>2. Update(id, d)
    BY <1>2, <1>5
  <2>3. /\ Head(c.acks) \in Nat /\ Good(e, calls) /\ HeardOK(e) /\ Backed(e, buffers)
        /\ \E u, t \in Nat : u = t + Head(c.acks) /\ AckSum(e.acks, t) /\ Level(e, u)
    <3> HIDE DEF c
    <3> QED BY <1>1, <1>3, <1>5, SocketLink
  <2> HIDE DEF e
  <2> DEFINE n == Head(c.acks)
  <2>4. Kept(e, d, calls, n)
    <3>1. d = Socket!OnAck(e, n, fault) /\ n \in Nat
      BY <2>3
    <3> HIDE DEF n, d
    <3> QED BY <1>3, <1>5, <2>3, <3>1, OnAckOK
  <2>12. d = Gone \/ From(clients[id].messages, d.messages)
    BY <2>4 DEF Kept, c, e, Heard
  <2>11. PICK u \in Nat, t \in Nat : u = t + n /\ AckSum(e.acks, t) /\ Level(e, u)
    BY <2>3
  <2> HIDE DEF d, n
  <2>5. d = Gone \/ SocketFine(d, calls, buffers)
    <3> SUFFICES ASSUME Good(d, calls), Idle(e, d), From(e.messages, d.messages), Counts(e, d, n)
                 PROVE  SocketFine(d, calls, buffers)
      BY <2>4 DEF Kept
    <3>1. Level(d, t) /\ d.acks = e.acks
      BY <2>11 DEF Counts, Idle
    <3>2. Paid(d)
      BY <2>11, <3>1 DEF Paid
    <3> QED BY <2>3, <3>2, HeardAlone, BackedBy DEF SocketFine
  <2>6. clients' = [clients EXCEPT ![id] = d] /\ clients = [i \in Id |-> clients[i]]
    BY <2>2 DEF Update, IInv
  <2> HIDE DEF c
  <2>7. clients' = [i \in Id |-> clients'[i]] /\ clients'[id] = d /\ \A i \in Id : i # id => clients'[i] = clients[i]
    BY <1>3, <2>6
  <2>8. \A i \in Id : clients[i] = Gone => clients'[i] = Gone
    BY <1>3, <2>7 DEF c
  <2>9. ASSUME NEW i \in Id, clients[i] # Gone PROVE clients'[i] = Gone \/ Fine(kind, clients'[i], calls', buffers')
    <3>1. SocketFine(clients[i], calls, buffers)
      BY <1>5, <2>9 DEF IInv, Fine
    <3>2. Backed(clients[i], buffers')
      BY <2>1, <2>9, <3>1, BackedClean DEF SocketFine
    <3>3. CASE i = id /\ clients'[i] # Gone
      <4>1. SocketFine(clients'[i], calls, buffers) /\ From(clients[i].messages, clients'[i].messages)
        BY <2>5, <2>7, <2>12, <3>3
      <4>2. Backed(clients'[i], buffers')
        BY <3>2, <4>1, BackedBy
      <4> QED BY <1>1, <1>5, <4>1, <4>2 DEF Fine, SocketFine
    <3>4. CASE i # id
      BY <1>1, <1>5, <2>7, <3>1, <3>2, <3>4 DEF Fine, SocketFine
    <3> QED BY <3>3, <3>4
  <2>10. buffers' \subseteq 1..MaxCalls
    BY <2>1, CleanBuffersIs DEF IInv
  <2> QED BY <1>1, <2>7, <2>8, <2>9, <2>10, ClientsStep
<1> QED BY <1>4, <1>5

\* A client that has a part of a frame.
Taken(d, frame, take) ==
  [d EXCEPT !.frame = [frame EXCEPT !.at = @ + take], !.frames = frame.n,
            !.said = IF frame.op = "text" THEN @ \o Piece(frame, take) ELSE @]

LEMMA TakenFine ==
  ASSUME NEW c, NEW k \in Nat, NEW bs, SocketFine(c, k, bs), NEW frame \in PieceType, NEW take \in Nat,
         frame.at + take <= frame.len, NEW d, Hears(c, d, frame, take, k), NEW e, e = Taken(d, frame, take)
  PROVE  SocketFine(e, k, bs)
<1> DEFINE next == [frame EXCEPT !.at = @ + take]
           bytes == Piece(frame, take)
           said == IF frame.op = "text" THEN d.said \o bytes ELSE d.said
<1>1. frame.at \in Nat /\ frame.len \in Nat /\ frame.n \in Nat /\ frame.op \in Op
  BY DEF PieceType
<1>2. /\ next \in PieceType /\ next.n = frame.n /\ next.op = frame.op /\ next.len = frame.len
      /\ next.at = frame.at + take
  BY <1>1 DEF PieceType
<1>3. bytes \in Bytes
  BY PieceType1
<1>4. Good(d, k) /\ d \in SocketType /\ d.said \in Bytes /\ Levels(c, d) /\ d.acks = c.acks
  BY DEF Hears, Good, SocketType
<1>5. said \in Bytes
  BY <1>3, <1>4 DEF Bytes
<1>6. e = [d EXCEPT !.frame = next, !.frames = frame.n, !.said = said]
  BY <1>4 DEF Taken, SocketType
<1>7. d.heard["text"] = said
  BY DEF Hears, SocketFine, HeardOK
<1> HIDE DEF next, said
<1>8. e \in SocketType
  BY <1>1, <1>2, <1>4, <1>5, <1>6 DEF SocketType
<1>9. /\ e.messages = d.messages /\ e.taken = d.taken /\ e.wire = d.wire /\ e.whole = d.whole
      /\ e.refused = d.refused /\ e.heard = d.heard /\ e.said = said /\ e.parsing = d.parsing /\ e.frame = next
      /\ e.info = d.info
  BY <1>4, <1>6 DEF SocketType
<1>10. Good(e, k)
  BY <1>4, <1>8, <1>9 DEF Good
<1>11. HeardOK(e)
  <2>1. CASE frame.at + take < frame.len
    BY <1>2, <1>7, <1>9, <2>1 DEF HeardOK, Hears
  <2>2. CASE ~(frame.at + take < frame.len)
    <3>1. frame.at + take = frame.len
      BY <1>1, <2>2
    <3> QED BY <1>2, <1>7, <1>9, <2>2, <3>1 DEF HeardOK, Hears
  <2> QED BY <2>1, <2>2
<1>12. Backed(e, bs)
  <2>1. From(c.messages, e.messages)
    BY <1>9 DEF Hears
  <2> QED BY <2>1, BackedBy DEF SocketFine
<1>13. Paid(e)
  <2>1. SameBooks(d, e) /\ e.acks = d.acks
    BY <1>4, <1>6 DEF SocketType, SameBooks
  <2>2. Levels(c, e)
    BY <1>4, <2>1, SameLevels, LevelsAfter
  <2> QED BY <1>4, <2>1, <2>2, PaidBy DEF SocketFine
<1> QED BY <1>10, <1>11, <1>12, <1>13 DEF SocketFine

\* A part of a frame that may come next goes on where the last one ended.
LEMMA PieceNext ==
  ASSUME NEW c, NEW k, NEW bs, SocketFine(c, k, bs), NEW p \in Pieces(c)
  PROVE  /\ p.frame \in PieceType /\ p.take \in Nat /\ p.frame.at + p.take <= p.frame.len
         /\ (c.parsing => p.frame = c.frame) /\ (~c.parsing => p.frame.at = 0)
<1> DEFINE left == c.frame.len - c.frame.at
<1>1. c.frame \in PieceType /\ c.frames \in Nat /\ c.frame.at \in Nat /\ c.frame.len \in Nat
  BY DEF SocketFine, Good, SocketType, PieceType
<1>2. CASE left > 0
  <2>1. p \in [frame : {c.frame}, take : 1..left]
    BY <1>2 DEF Pieces
  <2>2. p.frame = c.frame /\ p.take \in 1..left
    BY <2>1
  <2>3. c.parsing
    BY <1>1, <1>2 DEF SocketFine, HeardOK
  <2>4. p.take \in Nat /\ c.frame.at + p.take <= c.frame.len
    BY <1>1, <2>2
  <2> QED BY <1>1, <2>2, <2>3, <2>4
<1>3. CASE ~(left > 0)
  <2> DEFINE new == [n : {c.frames + 1}, op : {"text", "close", "ping", "pong"}, len : 0..FrameLen, at : {0}]
  <2>1. p \in {q \in [frame : new, take : 0..FrameLen] : q.take <= q.frame.len}
    BY <1>3, Zenon DEF Pieces
  <2>2. p.frame \in new /\ p.take \in 0..FrameLen /\ p.take <= p.frame.len
    BY <2>1
  <2>3. p.frame \in PieceType /\ p.frame.at = 0 /\ p.frame.len \in Nat
    BY <1>1, <2>2, PushAssumption DEF PieceType, Op
  <2>4. ~c.parsing
    BY <1>1, <1>3 DEF SocketFine, HeardOK
  <2>5. p.take \in Nat
    BY <2>2, PushAssumption
  <2>6. p.frame.at + p.take <= p.frame.len
    BY <2>2, <2>3, <2>5
  <2> QED BY <2>3, <2>4, <2>5, <2>6
<1> QED BY <1>2, <1>3

\* A turn of the loop leaves a client fine.
LEMMA TurnFine ==
  ASSUME NEW c, NEW k \in Nat, NEW bs, SocketFine(c, k, bs), NEW p \in Pieces(c), NEW fault \in Socket!Fault,
         NEW e, e = Turn(c, p.frame, p.take, fault)
  PROVE  e = Gone \/ SocketFine(e, k, bs)
<1> DEFINE frame == p.frame
           take == p.take
           d == Socket!OnData(c, frame, take, fault)
<1>1. /\ frame \in PieceType /\ take \in Nat /\ frame.at + take <= frame.len
      /\ (c.parsing => frame = c.frame) /\ (~c.parsing => frame.at = 0)
  BY PieceNext
<1>2. e = IF d = Gone THEN Gone ELSE Taken(d, frame, take)
  BY DEF Turn, Taken, Piece
<1> HIDE DEF frame, take
<1>3. d = Gone \/ Hears(c, d, frame, take, k)
  BY <1>1, OnDataOK DEF SocketFine
<1> HIDE DEF d
<1> SUFFICES ASSUME d # Gone PROVE SocketFine(e, k, bs)
  BY <1>2
<1>4. e = Taken(d, frame, take)
  BY <1>2
<1> QED BY <1>1, <1>3, <1>4, TakenFine

LEMMA StepData ==
  ASSUME IInv, NEW id \in Client, Data(id)
  PROVE  IInv'
<1> DEFINE c == clients[id]
<1>1. kind = "socket" /\ UNCHANGED <<kind, made, calls, buffers>>
  BY DEF Data
<1>2. SocketFine(c, calls, buffers) /\ calls \in Nat /\ Faults(c) \subseteq Socket!Fault
  BY <1>1, ClientFine
<1>3. PICK p \in Pieces(c), fault \in Faults(c) : \E d \in {Turn(c, p.frame, p.take, fault)} :
        \/ Update(id, d)
        \/ /\ d # Gone
           /\ \E q \in Pieces(d), again \in Faults(d) : Update(id, Turn(d, q.frame, q.take, again))
  BY DEF Data
<1> DEFINE d == Turn(c, p.frame, p.take, fault)
<1>4. \/ Update(id, d)
      \/ d # Gone /\ \E q \in Pieces(d), again \in Faults(d) : Update(id, Turn(d, q.frame, q.take, again))
  BY <1>3
<1>5. d = Gone \/ SocketFine(d, calls, buffers)
  <2> HIDE DEF c
  <2> QED BY <1>2, TurnFine
<1> HIDE DEF c, d
<1>6. CASE Update(id, d)
  <2>1. d = Gone \/ Fine(kind, d, calls', buffers)
    BY <1>1, <1>5 DEF Fine
  <2> QED BY <1>1, <1>6, <2>1, ClientStep
<1>7. ASSUME d # Gone, NEW q \in Pieces(d), NEW again \in Faults(d), Update(id, Turn(d, q.frame, q.take, again))
      PROVE  IInv'
  <2> DEFINE e == Turn(d, q.frame, q.take, again)
  <2>1. again \in Socket!Fault
    BY <1>1, <1>7 DEF Faults, Socket!Fault
  <2>2. e = Gone \/ SocketFine(e, calls, buffers)
    BY <1>2, <1>5, <1>7, <2>1, TurnFine
  <2>3. Update(id, e)
    BY <1>7
  <2> HIDE DEF e
  <2>4. e = Gone \/ Fine(kind, e, calls', buffers)
    BY <1>1, <2>2 DEF Fine
  <2> QED BY <1>1, <2>3, <2>4, ClientStep
<1> QED BY <1>4, <1>6, <1>7

LEMMA StepStray ==
  ASSUME IInv, NEW id \in Client, Stray(id)
  PROVE  IInv'
<1>1. UNCHANGED <<kind, made, calls, buffers>> /\ Update(id, Gone)
  BY DEF Stray
<1> QED BY <1>1, ClientStep

-----------------------------------------------------------------------------
(* The behaviours *)

LEMMA Initial == Init => IInv
<1> SUFFICES ASSUME Init PROVE IInv
  OBVIOUS
<1>1. kind \in Kind /\ made = 0 /\ clients = [id \in Id |-> Gone] /\ calls = 0 /\ buffers = {}
  BY DEF Init
<1> QED BY <1>1, PushAssumption DEF IInv

LEMMA Unchanged == IInv /\ UNCHANGED vars => IInv'
BY DEF vars, IInv

LEMMA Inductive == IInv /\ [Next]_vars => IInv'
<1> SUFFICES ASSUME IInv, [Next]_vars PROVE IInv'
  OBVIOUS
<1>1. CASE UNCHANGED vars
  BY <1>1, Unchanged
<1>2. CASE ConnectSocket \/ ConnectSource
  BY <1>2, StepConnect
<1>3. CASE TextAll \/ PrintAll \/ PrintAllInFlash
  BY <1>3, StepTextAll
<1>4. CASE TextEach
  BY <1>4, StepTextEach
<1>5. CASE PingAll
  BY <1>5, StepPingAll
<1>6. CASE CloseAll
  BY <1>6, StepCloseAll
<1>7. CASE SendAll
  BY <1>7, StepSendAll
<1>8. CASE CloseSource
  BY <1>8, StepCloseSource
<1>9. CASE Client # {} /\ CleanupClients
  BY <1>9, StepCleanup
<1>10. ASSUME NEW id \in Client,
              \/ Acknowledge(id) \/ Lose(id) \/ Acked(id) \/ Polled(id) \/ TimedOut(id)
              \/ Disconnected(id) \/ Data(id) \/ Text(id) \/ Ping(id) \/ Close(id) \/ SendEvent(id)
       PROVE  IInv'
  <2>1. CASE Acknowledge(id)
    BY <2>1, StepAcknowledge
  <2>2. CASE Lose(id)
    BY <2>2, StepLose
  <2>3. CASE Acked(id)
    BY <2>3, StepAcked
  <2>4. CASE Polled(id)
    BY <2>4, StepPolled
  <2>5. CASE TimedOut(id) \/ Disconnected(id)
    BY <2>5, StepGone
  <2>6. CASE Data(id)
    BY <2>6, StepData
  <2>7. CASE Text(id)
    BY <2>7, StepText
  <2>8. CASE Ping(id)
    BY <2>8, StepPing
  <2>9. CASE Close(id)
    BY <2>9, StepClose
  <2>10. CASE SendEvent(id)
    BY <2>10, StepSendEvent
  <2> QED BY <1>10, <2>1, <2>2, <2>3, <2>4, <2>5, <2>6, <2>7, <2>8, <2>9, <2>10
<1>11. ASSUME NEW id \in Client, Stray(id) PROVE IInv'
  BY <1>11, StepStray
<1> QED BY <1>1, <1>2, <1>3, <1>4, <1>5, <1>6, <1>7, <1>8, <1>9, <1>10, <1>11 DEF Next

LEMMA Invariance == Spec => []IInv
BY Initial, Inductive, PTL DEF Spec

AstrayOK == astray \in BOOLEAN

LEMMA AstrayIsBoolean == Spec => []AstrayOK
<1>1. Init => AstrayOK
  BY DEF Init, AstrayOK
<1>2. AstrayOK /\ [Next]_vars => AstrayOK'
  BY DEF Next, Stray, vars, AstrayOK
<1> QED BY <1>1, <1>2, PTL DEF Spec

\* What the queues of a client hold is what they may hold, and its window is never
\* overfilled: for any buffers, lengths and clients.
THEOREM TypeCorrect == Spec => []TypeOK
<1>1. IInv /\ AstrayOK => TypeOK
  <2> SUFFICES ASSUME IInv, AstrayOK PROVE TypeOK
    OBVIOUS
  <2>1. ASSUME NEW id \in Client
        PROVE  /\ clients[id].unacked \in 0..SndBuf /\ clients[id].acks \in Seq(1..SndBuf)
               /\ kind = "socket" => SocketClient(clients[id])
               /\ kind # "socket" => EventClient(clients[id])
    <3>1. CASE kind = "socket"
      <4>1. SocketFine(clients[id], calls, buffers)
        BY <2>1, <3>1, ClientFine
      <4> QED BY <3>1, <4>1 DEF SocketFine, Good, SocketType, QueueOK, SocketClient
    <3>2. CASE kind # "socket"
      <4>1. SourceFine(clients[id], calls)
        BY <2>1, <3>2, ClientFine
      <4>2. clients[id] \in SourceType /\ Len(clients[id].messages) <= MaxEvents /\ LineOK(clients[id].messages, calls)
        BY <4>1 DEF SourceFine, SourceOK
      <4>3. \A i \in DOMAIN clients[id].messages : clients[id].messages[i].acked <= clients[id].messages[i].len
        <5>1. clients[id].messages \in Seq(EventMessage)
          BY <4>2 DEF SourceType
        <5>2. \A i \in DOMAIN clients[id].messages : clients[id].messages[i] \in EventMessage
          BY <5>1
        <5> QED BY <4>2, <5>2, EventHas DEF LineOK
      <4> QED BY <3>2, <4>2, <4>3 DEF SourceType, EventClient, EventMessage
    <3> QED BY <3>1, <3>2
  <2> QED BY <2>1 DEF TypeOK, IInv, AstrayOK
<1> QED BY <1>1, Invariance, AstrayIsBoolean, PTL

\* What goes out is in order and complete, in frames that follow one another and are
\* whole, and no message in a queue has lost its buffer.
THEOREM SentIsInOrder == Spec => []SentInOrder
<1>1. IInv => SentInOrder
  <2> SUFFICES ASSUME IInv, NEW id \in Id, clients[id] # Gone, id \in Client
               PROVE  IF kind = "socket"
                        THEN /\ MessagesInOrder(clients[id])
                             /\ \A b \in 1..calls : Uses(clients[id], b) => b \in buffers
                        ELSE EventsInOrder(clients[id])
    BY ClientFine DEF SentInOrder
  <2>1. CASE kind = "socket"
    <3>1. SocketFine(clients[id], calls, buffers)
      BY <2>1, ClientFine
    <3>2. MessagesInOrder(clients[id])
      BY <3>1 DEF SocketFine, Good, WireOK, MessagesInOrder, Bodies
    <3>3. \A b \in 1..calls : Uses(clients[id], b) => b \in buffers
      BY <3>1 DEF SocketFine, Backed, Uses
    <3> QED BY <2>1, <3>2, <3>3
  <2>2. CASE kind # "socket"
    <3>1. SourceFine(clients[id], calls)
      BY <2>2, ClientFine
    <3>2. EventsInOrder(clients[id])
      BY <3>1 DEF SourceFine, SourceOK, Told, EventsInOrder, Bodies
    <3> QED BY <2>2, <3>2
  <2> QED BY <2>1, <2>2
<1> QED BY <1>1, Invariance, PTL

\* The handler of a web socket hears the bytes of the browser's messages, in order
\* and unmasked, wherever segments cut the bytes of frames of any length, with one
\* frame in a segment or several, until one ends inside a frame's head.
THEOREM HeardIsInOrder == Spec => []HeardInOrder
<1>1. IInv => HeardInOrder
  BY ClientFine DEF HeardInOrder, SocketFine, HeardOK
<1> QED BY <1>1, Invariance, PTL

\* Nothing sticks in a queue: of a client whose connection is idle and whose books are
\* in order the next poll sends something, however the frames before it were cut.
THEOREM NothingSticks == Spec => []NeverStuck
<1>1. IInv => NeverStuck
  <2> SUFFICES ASSUME IInv, NEW id \in Client
               PROVE  LET c == clients[id]
                          idle == c.open /\ c.unacked = 0 /\ c.acks = <<>>
                      IN IF kind = "socket"
                           THEN idle /\ ~c.crossed /\ ~c.refused /\ (c.controls # <<>> \/ c.messages # <<>>)
                                  => Socket!OnPoll(c, FALSE, 0, "none") # c
                           ELSE idle /\ ~c.passed /\ c.messages # <<>> => Source!OnPoll(c, "none") # c
    BY DEF NeverStuck
  <2> DEFINE c == clients[id]
             idle == c.open /\ c.unacked = 0 /\ c.acks = <<>>
  <2>1. calls \in Nat
    BY PushAssumption DEF IInv
  <2>2. ASSUME kind = "socket", idle, ~c.crossed, ~c.refused, c.controls # <<>> \/ c.messages # <<>>
        PROVE  Socket!OnPoll(c, FALSE, 0, "none") # c
    <3>1. SocketFine(c, calls, buffers)
      BY <2>2, ClientFine
    <3>2. PICK s \in Nat : AckSum(c.acks, s) /\ Level(c, s)
      BY <3>1 DEF SocketFine, Paid
    <3>3. s = 0
      BY <2>2, <3>2, AckSumEmpty
    <3>4. Good(c, calls) /\ Even(c, 0) /\ ~Troubled(c)
      BY <2>2, <3>1, <3>2, <3>3 DEF SocketFine, Level, Troubled
    <3> HIDE DEF c
    <3> QED BY <2>1, <2>2, <3>4, SocketGoesOn
  <2>3. ASSUME kind # "socket", idle, ~c.passed, c.messages # <<>>
        PROVE  Source!OnPoll(c, "none") # c
    <3>1. SourceFine(c, calls)
      BY <2>3, ClientFine
    <3>2. PICK s \in Nat : AckSum(c.acks, s) /\ SourceOK(c, calls, s)
      BY <3>1 DEF SourceFine
    <3>3. s = 0
      BY <2>3, <3>2, AckSumEmpty
    <3> HIDE DEF c
    <3> QED BY <2>1, <2>3, <3>2, <3>3, SourceGoesOn
  <2> HIDE DEF c
  <2> QED BY <2>2, <2>3 DEF c
<1> QED BY <1>1, Invariance, PTL
=============================================================================
