-------------------------- MODULE MasterModbusProofs --------------------------
(***************************************************************************)
(* Proofs about ModbusRTUMaster and MasterModbus, for any clients and any  *)
(* requests.  No frame says which request it answers; what identifies it   *)
(* is that there is no other.  From a call on a quiet line until one ends  *)
(* in an error or two overlap, all that is on its way, in the receive      *)
(* buffer and in the caller's hands is at most one frame, of the one       *)
(* request outstanding, and nothing of it is left once the call has it.    *)
(***************************************************************************)
EXTENDS MasterModbus, FrameSizes, SequenceTheorems, TLAPS

\* A response that is no exception was preceded by its request's execution.
Truthful(p, done) == ~p.reply.exc => [n |-> p.reply.n, req |-> p.reply.req] \in done

RepliesTruthful ==
  /\ \A i \in DOMAIN rx : Truthful(rx[i], executed)
  /\ \A i \in DOMAIN replies : Truthful(replies[i], executed)
  /\ \A c \in Client : \A i \in DOMAIN buf[c] : Truthful(buf[c][i], executed)

ResultsTruthful ==
  \A c \in Client :
    /\ ret[c].code = "success" => Valid(ret[c].cur.req)
    /\ Succeeded(c) =>
         /\ [n |-> ret[c].reply.n, req |-> ret[c].reply.req] \in executed
         /\ Verdict(ret[c].cur.req, ret[c].reply) = "success"

Asking == \A c \in Client : pc[c] # "idle" => Valid(cur[c].req)

\* The line splits a frame where it is delivered.
Unsplit == \A i \in DOMAIN replies : replies[i].part \in {"whole", "tail"}

Alone == ~troubled => \A c, d \in Client : pc[c] # "idle" /\ pc[d] # "idle" => c = d

\* Requests that will be answered.
Travelling == {i \in DOMAIN line : line[i].req.id # 0}

Silence ==
  ~troubled /\ (\A c \in Client : pc[c] = "idle") =>
    Travelling = {} /\ rx = <<>> /\ replies = <<>>

\* A piece of c's request; two pieces are two halves.
Total(c) == Len(buf[c]) + Len(rx) + Len(replies)
Fits(p, asked, total) ==
  p.reply.n = asked.n /\ p.reply.req = asked.req /\ (total = 2 => p.part # "whole")

OneFrameOf(c) ==
  /\ Total(c) <= 2
  /\ \A i \in DOMAIN buf[c] : Fits(buf[c][i], cur[c], Total(c))
  /\ \A i \in DOMAIN rx : Fits(rx[i], cur[c], Total(c))
  /\ \A i \in DOMAIN replies : Fits(replies[i], cur[c], Total(c))
  /\ \A i \in Travelling :
       Total(c) = 0 /\ line[i] = cur[c] /\ \A j \in Travelling : i = j

OneFrame == ~troubled => \A c \in Client : pc[c] # "idle" => OneFrameOf(c)

ResultsOwn ==
  \A c \in Client : Succeeded(c) /\ ret[c].sure =>
    ret[c].reply.n = ret[c].cur.n /\ ret[c].reply.req = ret[c].cur.req

IInv ==
  /\ TypeOK
  /\ RepliesTruthful
  /\ ResultsTruthful
  /\ Asking
  /\ Unsplit
  /\ Alone
  /\ Silence
  /\ OneFrame
  /\ ResultsOwn

-----------------------------------------------------------------------------
(* Queues: what is at either end. *)

LEMMA TailElements ==
  ASSUME NEW S, NEW s \in Seq(S), s # <<>>
  PROVE  /\ Tail(s) \in Seq(S) /\ Len(Tail(s)) = Len(s) - 1 /\ Len(s) \in Nat
         /\ Head(s) = s[1] /\ Head(s) \in S /\ 1 \in DOMAIN s
         /\ \A i \in DOMAIN Tail(s) : i + 1 \in DOMAIN s /\ i \in Nat /\ Tail(s)[i] = s[i + 1]
OBVIOUS

LEMMA AppendElements ==
  ASSUME NEW S, NEW s \in Seq(S), NEW x \in S
  PROVE  /\ Append(s, x) \in Seq(S) /\ Len(Append(s, x)) = Len(s) + 1 /\ Len(s) \in Nat
         /\ \A i \in DOMAIN s : i \in DOMAIN Append(s, x) /\ Append(s, x)[i] = s[i]
         /\ \A i \in DOMAIN Append(s, x) :
              \/ i \in DOMAIN s /\ Append(s, x)[i] = s[i]
              \/ i = Len(s) + 1 /\ Append(s, x)[i] = x
OBVIOUS

LEMMA PrependFirst ==
  ASSUME NEW S, NEW s \in Seq(S), NEW x \in S
  PROVE  (<<x>> \o s)[1] = x
OBVIOUS

LEMMA HeadReplaced ==
  ASSUME NEW S, NEW s \in Seq(S), s # <<>>, NEW x \in S, NEW t, t = <<x>> \o Tail(s)
  PROVE  /\ t \in Seq(S) /\ Len(t) = Len(s) /\ Len(s) \in Nat
         /\ \A i \in DOMAIN t : t[i] = x \/ (i \in DOMAIN s /\ t[i] = s[i])
<1>1. t = <<x>> \o Tail(s) /\ <<x>> \in Seq(S) /\ Tail(s) \in Seq(S)
  OBVIOUS
<1>2. t \in Seq(S) /\ Len(t) = Len(s) /\ Len(s) \in Nat
  BY <1>1
<1>3. ASSUME NEW i \in DOMAIN t PROVE t[i] = x \/ (i \in DOMAIN s /\ t[i] = s[i])
  <2>1. CASE i = 1
    BY <1>1, <2>1, PrependFirst
  <2>2. CASE i # 1
    <3>1. i \in Nat /\ i >= 2 /\ i <= Len(s)
      BY <1>2, <2>2
    <3>2. t[i] = Tail(s)[i - 1]
      BY <1>1, <3>1
    <3>3. i - 1 \in DOMAIN Tail(s)
      BY <1>2, <3>1
    <3>4. Tail(s)[i - 1] = s[(i - 1) + 1] /\ (i - 1) + 1 = i
      BY <3>1, <3>3, TailElements
    <3> QED BY <1>2, <3>1, <3>2, <3>4
  <2> QED BY <2>1, <2>2
<1> QED BY <1>2, <1>3

LEMMA NoRequestIsSent == NoRequest \in Sent
BY RequestAssumption, BoundAssumption DEF NoRequest, Sent

LEMMA VerdictIsCode == \A r, f : Verdict(r, f) \in Code
BY DEF Verdict, Code

LEMMA ReturnType ==
  ASSUME TypeOK, NEW c \in Client, cur' \in [Client -> Sent], NEW code \in Code,
         NEW reply \in Reply \cup {NoRequest}, Return(c, code, reply)
  PROVE  /\ pc' \in [Client -> {"idle", "wait", "collect", "settle"}]
         /\ ret' \in [Client -> [cur : Sent, code : Code, reply : Reply \cup {NoRequest},
                                 sure : BOOLEAN]]
         /\ troubled' \in BOOLEAN
<1>1. [cur |-> cur'[c], code |-> code, reply |-> reply, sure |-> ~troubled]
        \in [cur : Sent, code : Code, reply : Reply \cup {NoRequest}, sure : BOOLEAN]
  OBVIOUS
<1> QED BY <1>1 DEF Return, TypeOK

LEMMA WholeIsReply ==
  ASSUME NEW ps \in Seq(Piece), NEW f \in Whole(ps)
  PROVE  f \in Reply /\ \E i \in DOMAIN ps : ps[i].reply = f
BY DEF Whole, Piece

LEMMA TypeStep == TypeOK /\ [Next]_vars => TypeOK'
<1> SUFFICES ASSUME TypeOK, [Next]_vars PROVE TypeOK'
  OBVIOUS
<1>1. ASSUME NEW c \in Client, NEW r \in Request, Refuse(c, r) PROVE TypeOK'
  <2>1. cur' \in [Client -> Sent]
    BY <1>1, BoundAssumption DEF Refuse, TypeOK, Sent
  <2>2. "invalid" \in Code
    BY DEF Code
  <2>3. UNCHANGED <<buf, rx, line, replies, executed, calls>> /\ Return(c, "invalid", NoRequest)
    BY <1>1 DEF Refuse, wire
  <2> QED BY <2>1, <2>2, <2>3, ReturnType DEF TypeOK
<1>2. ASSUME NEW c \in Client, NEW r \in Request, Send(c, r)
      PROVE  /\ cur' \in [Client -> Sent] /\ line' \in Seq(Asked) /\ calls' \in 0..MaxCalls
             /\ buf' \in [Client -> Seq(Piece)] /\ UNCHANGED <<rx, replies, executed>>
  <2>1. [n |-> calls + 1, req |-> r] \in Sent \cap Asked /\ calls + 1 \in 0..MaxCalls
    BY <1>2, BoundAssumption DEF Send, TypeOK, Sent, Asked
  <2> QED BY <1>2, <2>1, AppendElements DEF Send, TypeOK
<1>3. ASSUME NEW c \in Client, NEW r \in Request, Call(c, r) PROVE TypeOK'
  BY <1>2, <1>3 DEF Call, TypeOK
<1>4. ASSUME NEW c \in Client, NEW r \in Request, Broadcast(c, r) PROVE TypeOK'
  <2>1. "success" \in Code
    BY DEF Code
  <2> QED BY <1>2, <1>4, <2>1, ReturnType DEF Broadcast, TypeOK
<1>5. ASSUME NEW c \in Client, WaitTimeout(c) \/ FrameError(c) \/ CrcError(c) PROVE TypeOK'
  <2>1. {"timeout", "frame_error", "crc_error"} \subseteq Code
    BY DEF Code
  <2>2. /\ UNCHANGED <<cur, buf, rx, line, replies, executed, calls>>
        /\ \E code \in Code : Return(c, code, NoRequest)
    BY <1>5, <2>1 DEF WaitTimeout, FrameError, CrcError, wire
  <2> QED BY <2>2, ReturnType DEF TypeOK
<1>6. ASSUME NEW c \in Client, Accept(c) PROVE TypeOK'
  <2>1. PICK f \in Whole(buf[c]) : Return(c, Verdict(cur[c].req, f), f)
    BY <1>6 DEF Accept
  <2>2. f \in Reply
    BY <2>1, WholeIsReply DEF TypeOK
  <2> QED BY <1>6, <2>1, <2>2, VerdictIsCode, ReturnType DEF Accept, wire, TypeOK
<1>7. ASSUME NEW c \in Client, FirstByte(c) \/ CharGap(c) PROVE TypeOK'
  BY <1>7 DEF FirstByte, CharGap, wire, TypeOK
<1>8. ASSUME NEW c \in Client, Collect(c) PROVE TypeOK'
  <2>1. Tail(rx) \in Seq(Piece) /\ Head(rx) \in Piece
    BY <1>8, TailElements DEF Collect, TypeOK
  <2>2. Append(buf[c], Head(rx)) \in Seq(Piece)
    BY <2>1, AppendElements DEF TypeOK
  <2> QED BY <1>8, <2>1, <2>2 DEF Collect, wire, TypeOK
<1>9. CASE SlaveMisses
  BY <1>9, TailElements DEF SlaveMisses, TypeOK
<1>10. ASSUME NEW exc \in BOOLEAN, SlaveServes(exc) PROVE TypeOK'
  <2>1. Tail(line) \in Seq(Asked) /\ Head(line) \in Asked
    BY <1>10, TailElements DEF SlaveServes, TypeOK
  <2>2. [reply |-> [n |-> Head(line).n, req |-> Head(line).req, exc |-> exc],
         part |-> "whole"] \in Piece
    BY <2>1 DEF Asked, Piece, Reply
  <2> QED BY <1>10, <2>1, <2>2, AppendElements DEF SlaveServes, TypeOK
<1>11. ASSUME NEW part \in {"whole", "bad", "tail"}, Arrive(part) PROVE TypeOK'
  <2>1. Tail(replies) \in Seq(Piece) /\ Head(replies) \in Piece
    BY <1>11, TailElements DEF Arrive, TypeOK
  <2>2. [Head(replies) EXCEPT !.part = part] \in Piece
    BY <2>1 DEF Piece
  <2> QED BY <1>11, <2>1, <2>2, AppendElements DEF Arrive, TypeOK
<1>12. CASE ArriveHead
  <2>1. Tail(replies) \in Seq(Piece) /\ Head(replies) \in Piece
    BY <1>12, TailElements DEF ArriveHead, TypeOK
  <2>2. /\ [Head(replies) EXCEPT !.part = "head"] \in Piece
        /\ [Head(replies) EXCEPT !.part = "tail"] \in Piece
    BY <2>1 DEF Piece
  <2>3. <<[Head(replies) EXCEPT !.part = "tail"]>> \o Tail(replies) \in Seq(Piece)
    BY <2>1, <2>2, ConcatProperties
  <2> QED BY <1>12, <2>2, <2>3, AppendElements DEF ArriveHead, TypeOK
<1>13. CASE ReplyLost
  BY <1>13, TailElements DEF ReplyLost, TypeOK
<1>14. CASE UNCHANGED vars
  BY <1>14 DEF vars, TypeOK
<1> QED BY <1>1, <1>3, <1>4, <1>5, <1>6, <1>7, <1>8, <1>9, <1>10, <1>11, <1>12, <1>13, <1>14
  DEF Next, ReadAdu, Environment

LEMMA Initially == Init => IInv
<1> SUFFICES ASSUME Init PROVE IInv
  OBVIOUS
<1>1. TypeOK
  <2>1. [cur |-> NoRequest, code |-> "none", reply |-> NoRequest, sure |-> TRUE]
          \in [cur : Sent, code : Code, reply : Reply \cup {NoRequest}, sure : BOOLEAN]
    BY NoRequestIsSent DEF Code
  <2>2. troubled \in BOOLEAN
    BY DEF Init
  <2>3. calls \in 0..MaxCalls
    BY BoundAssumption DEF Init
  <2>4. /\ pc = [c \in Client |-> "idle"] /\ cur = [c \in Client |-> NoRequest]
        /\ buf = [c \in Client |-> <<>>] /\ rx = <<>> /\ line = <<>> /\ replies = <<>>
        /\ ret = [c \in Client |->
                    [cur |-> NoRequest, code |-> "none", reply |-> NoRequest, sure |-> TRUE]]
        /\ executed = {}
    BY DEF Init
  <2> QED BY <2>1, <2>2, <2>3, <2>4, NoRequestIsSent DEF TypeOK
<1>2. \A c \in Client : ret[c].code = "none" /\ pc[c] = "idle"
  BY DEF Init
<1> QED BY <1>1, <1>2 DEF Init, IInv, RepliesTruthful, ResultsTruthful, Succeeded, Asking,
  Unsplit, Alone, Silence, Travelling, OneFrame, OneFrameOf, ResultsOwn

-----------------------------------------------------------------------------
(* The steps of a call. *)

\* What a step of c leaves of the others.
LEMMA Settled ==
  ASSUME TypeOK, NEW c \in Client, NEW code, NEW reply, Return(c, code, reply),
         cur' \in [Client -> Sent]
  PROVE  /\ pc'[c] = "idle" /\ \A d \in Client \ {c} : pc'[d] = pc[d]
         /\ ret'[c].cur = cur'[c] /\ ret'[c].code = code /\ ret'[c].reply = reply
         /\ ret'[c].sure => ~troubled
         /\ \A d \in Client \ {c} : ret'[d] = ret[d]
BY DEF Return, TypeOK

LEMMA Trouble ==
  ASSUME NEW c \in Client, NEW code, NEW reply, Return(c, code, reply), ~troubled'
  PROVE  ~troubled /\ code \in {"success", "exception", "invalid"}
BY DEF Return

LEMMA ErrorStep ==
  ASSUME IInv, TypeOK', NEW c \in Client, WaitTimeout(c) \/ FrameError(c) \/ CrcError(c)
  PROVE  IInv'
<1> USE DEF IInv
<1>1. /\ UNCHANGED <<cur, buf, rx, line, replies, executed, calls>>
      /\ \E code \in {"timeout", "frame_error", "crc_error"} : Return(c, code, NoRequest)
  BY DEF WaitTimeout, FrameError, CrcError, wire
<1>2. /\ ret'[c].code \notin {"success", "exception", "invalid"} /\ pc'[c] = "idle"
      /\ \A d \in Client \ {c} : ret'[d] = ret[d] /\ pc'[d] = pc[d]
      /\ cur' \in [Client -> Sent]
  <2>1. cur' \in [Client -> Sent]
    BY <1>1 DEF TypeOK
  <2> QED BY <1>1, <2>1, Settled
<1>3. troubled'
  BY <1>1, Trouble
<1>4. RepliesTruthful' /\ Unsplit'
  BY <1>1 DEF RepliesTruthful, Truthful, Unsplit
<1>5. ResultsTruthful'
  BY <1>1, <1>2 DEF ResultsTruthful, Succeeded
<1>6. Asking'
  BY <1>1, <1>2 DEF Asking
<1>7. ResultsOwn'
  BY <1>2 DEF ResultsOwn, Succeeded
<1> QED BY <1>3, <1>4, <1>5, <1>6, <1>7 DEF Alone, Silence, OneFrame

LEMMA RefuseStep ==
  ASSUME IInv, TypeOK', NEW c \in Client, NEW r \in Request, Refuse(c, r)
  PROVE  IInv'
<1> USE DEF IInv
<1>1. /\ UNCHANGED <<buf, rx, line, replies, executed, calls>> /\ pc[c] = "idle"
      /\ Return(c, "invalid", NoRequest) /\ \A d \in Client \ {c} : cur'[d] = cur[d]
      /\ cur' \in [Client -> Sent]
  BY DEF Refuse, wire, TypeOK
<1>2. /\ ret'[c].code = "invalid" /\ \A d \in Client : pc'[d] = pc[d]
      /\ \A d \in Client \ {c} : ret'[d] = ret[d]
      /\ ~troubled' => ~troubled
  BY <1>1, Settled, Trouble
<1>3. RepliesTruthful' /\ Unsplit'
  BY <1>1 DEF RepliesTruthful, Truthful, Unsplit
<1>4. ResultsTruthful' /\ ResultsOwn'
  BY <1>1, <1>2 DEF ResultsTruthful, ResultsOwn, Succeeded
<1>5. Asking' /\ Alone' /\ Silence'
  BY <1>1, <1>2 DEF Asking, Alone, Silence, Travelling
<1>6. OneFrame'
  BY <1>1, <1>2 DEF OneFrame, OneFrameOf, Total, Travelling
<1> QED BY <1>3, <1>4, <1>5, <1>6

LEMMA CallStep ==
  ASSUME IInv, TypeOK', NEW c \in Client, NEW r \in Request, Call(c, r)
  PROVE  IInv'
<1> USE DEF IInv
<1> DEFINE asked == [n |-> calls + 1, req |-> r]
<1>1. /\ UNCHANGED <<rx, replies, executed, ret>>
      /\ pc[c] = "idle" /\ Valid(r) /\ r.id # 0
      /\ line' = Append(line, asked)
  BY DEF Call, Send
<1>2. /\ pc'[c] = "wait" /\ \A d \in Client \ {c} : pc'[d] = pc[d]
      /\ cur'[c] = asked /\ \A d \in Client \ {c} : cur'[d] = cur[d]
      /\ buf'[c] = <<>> /\ \A d \in Client \ {c} : buf'[d] = buf[d]
  BY DEF Call, Send, TypeOK
<1>3. ~troubled' => /\ \A d \in Client : pc[d] = "idle"
                    /\ Travelling = {} /\ rx = <<>> /\ replies = <<>>
  BY DEF Call, Quiet, Travelling, Silence
<1>4. RepliesTruthful' /\ Unsplit'
  BY <1>1, <1>2 DEF RepliesTruthful, Truthful, Unsplit
<1>5. ResultsTruthful' /\ ResultsOwn'
  BY <1>1, <1>3 DEF ResultsTruthful, ResultsOwn, Succeeded
<1>6. Asking' /\ Alone' /\ Silence'
  BY <1>1, <1>2, <1>3 DEF Asking, Alone, Silence
<1>7. OneFrame'
  <2> SUFFICES ASSUME ~troubled' PROVE OneFrame'
    BY DEF OneFrame
  <2>1. Travelling = {} /\ rx = <<>> /\ replies = <<>>
    BY <1>3
  <2>2. asked \in Asked
    BY BoundAssumption DEF Call, Send, TypeOK, Asked
  <2>3. \A i \in Travelling' : line'[i] = asked /\ i = Len(line) + 1
    BY <1>1, <2>1, <2>2, AppendElements DEF Travelling, TypeOK
  <2>4. Total(c)' = 0
    BY <1>1, <1>2, <2>1 DEF Total
  <2>5. \A d \in Client : pc'[d] # "idle" => d = c
    BY <1>2, <1>3
  <2> QED BY <1>1, <1>2, <2>1, <2>3, <2>4, <2>5 DEF OneFrame, OneFrameOf
<1> QED BY <1>4, <1>5, <1>6, <1>7

LEMMA BroadcastStep ==
  ASSUME IInv, TypeOK', NEW c \in Client, NEW r \in Request, Broadcast(c, r)
  PROVE  IInv'
<1> USE DEF IInv
<1> DEFINE asked == [n |-> calls + 1, req |-> r]
<1>0. UNCHANGED <<rx, replies, executed>>
  BY DEF Broadcast, Send
<1>1. /\ pc[c] = "idle" /\ Valid(r) /\ r.id = 0
      /\ line' = Append(line, asked) /\ asked \in Asked
      /\ Return(c, "success", NoRequest)
  BY BoundAssumption DEF Broadcast, Send, TypeOK, Asked
<1>2. /\ cur'[c] = asked /\ \A d \in Client \ {c} : cur'[d] = cur[d]
      /\ buf'[c] = <<>> /\ \A d \in Client \ {c} : buf'[d] = buf[d]
      /\ cur' \in [Client -> Sent]
  BY DEF Broadcast, Send, TypeOK
<1>3. /\ \A d \in Client : pc'[d] = pc[d]
      /\ ret'[c].cur.req = r
      /\ \A d \in Client \ {c} : ret'[d] = ret[d]
      /\ ~troubled' => ~troubled
  BY <1>1, <1>2, Settled, Trouble
<1>4. Travelling' = Travelling /\ \A i \in Travelling : line'[i] = line[i]
  <2>1. line \in Seq(Asked)
    BY DEF TypeOK
  <2>2. /\ \A i \in DOMAIN line : i \in DOMAIN line' /\ line'[i] = line[i]
        /\ \A i \in DOMAIN line' : i \in DOMAIN line \/ line'[i] = asked
    BY <1>1, <2>1, AppendElements
  <2>3. asked.req.id = 0
    BY <1>1
  <2> QED BY <2>2, <2>3 DEF Travelling
<1>5. RepliesTruthful' /\ Unsplit'
  BY <1>0, <1>2 DEF RepliesTruthful, Truthful, Unsplit
<1>6. ResultsTruthful' /\ ResultsOwn'
  BY <1>0, <1>1, <1>3 DEF ResultsTruthful, ResultsOwn, Succeeded
<1>7. Asking' /\ Alone'
  BY <1>1, <1>2, <1>3 DEF Asking, Alone
<1>9. Silence'
  BY <1>0, <1>3, <1>4 DEF Silence
<1>8. OneFrame'
  <2>1. \A d \in Client : pc'[d] # "idle" =>
          pc[d] # "idle" /\ cur'[d] = cur[d] /\ buf'[d] = buf[d]
    BY <1>1, <1>2, <1>3
  <2>2. \A d \in Client : pc'[d] # "idle" =>
          Total(d)' = Total(d) /\ cur'[d] = cur[d]
    BY <1>0, <2>1 DEF Total
  <2> QED BY <1>0, <1>3, <1>4, <2>1, <2>2 DEF OneFrame, OneFrameOf
<1> QED BY <1>5, <1>6, <1>7, <1>8, <1>9

LEMMA WaitStep ==
  ASSUME IInv, TypeOK', NEW c \in Client, FirstByte(c) \/ CharGap(c)
  PROVE  IInv'
<1> USE DEF IInv
<1>1. UNCHANGED <<cur, buf, ret, rx, calls, troubled, line, replies, executed>>
  BY DEF FirstByte, CharGap, wire
<1>2. /\ pc[c] # "idle" /\ pc'[c] # "idle" /\ \A d \in Client \ {c} : pc'[d] = pc[d]
  BY DEF FirstByte, CharGap, TypeOK
<1>3. RepliesTruthful' /\ Unsplit'
  BY <1>1 DEF RepliesTruthful, Truthful, Unsplit
<1>4. ResultsTruthful' /\ ResultsOwn'
  BY <1>1 DEF ResultsTruthful, ResultsOwn, Succeeded
<1>5. Asking' /\ Alone' /\ Silence'
  BY <1>1, <1>2 DEF Asking, Alone, Silence
<1>6. OneFrame'
  <2>1. Travelling' = Travelling
    BY <1>1 DEF Travelling
  <2>2. \A d \in Client : Total(d)' = Total(d) /\ cur'[d] = cur[d]
    BY <1>1 DEF Total
  <2> QED BY <1>1, <1>2, <2>1, <2>2 DEF OneFrame, OneFrameOf
<1> QED BY <1>3, <1>4, <1>5, <1>6

\* A piece goes from the receive buffer into the caller's.
LEMMA CollectStep ==
  ASSUME IInv, TypeOK', NEW c \in Client, Collect(c)
  PROVE  IInv'
<1> USE DEF IInv
<1>1. UNCHANGED <<pc, cur, ret, calls, troubled, line, replies, executed>>
  BY DEF Collect, wire
<1>2. pc[c] # "idle" /\ \A d \in Client \ {c} : buf'[d] = buf[d]
  BY DEF Collect, TypeOK
<1>3. /\ Len(rx') = Len(rx) - 1 /\ Len(rx) \in Nat /\ 1 \in DOMAIN rx
      /\ \A i \in DOMAIN rx' : i + 1 \in DOMAIN rx /\ rx'[i] = rx[i + 1]
  BY TailElements DEF Collect, TypeOK
<1>4. /\ Len(buf'[c]) = Len(buf[c]) + 1 /\ Len(buf[c]) \in Nat
      /\ \A i \in DOMAIN buf'[c] :
           (i \in DOMAIN buf[c] /\ buf'[c][i] = buf[c][i]) \/ buf'[c][i] = rx[1]
  <2>1. /\ buf[c] \in Seq(Piece) /\ Head(rx) \in Piece /\ Head(rx) = rx[1]
        /\ buf'[c] = Append(buf[c], Head(rx))
    BY TailElements DEF Collect, TypeOK
  <2> QED BY <2>1, AppendElements
<1>5. RepliesTruthful'
  <2>1. \A i \in DOMAIN rx' : Truthful(rx'[i], executed)
    BY <1>3 DEF RepliesTruthful
  <2>2. \A d \in Client : \A i \in DOMAIN buf'[d] : Truthful(buf'[d][i], executed)
    BY <1>2, <1>3, <1>4 DEF RepliesTruthful
  <2> QED BY <1>1, <2>1, <2>2 DEF RepliesTruthful, Truthful
<1>6. Unsplit' /\ ResultsTruthful' /\ ResultsOwn' /\ Asking' /\ Alone'
  BY <1>1 DEF Unsplit, ResultsTruthful, ResultsOwn, Succeeded, Asking, Alone
<1>7. Silence'
  BY <1>1, <1>2 DEF Silence
<1>8. OneFrame'
  <2> SUFFICES ASSUME ~troubled PROVE OneFrame'
    BY <1>1 DEF OneFrame
  <2>1. \A d \in Client : pc'[d] # "idle" => d = c
    BY <1>1, <1>2 DEF Alone
  <2>2. Total(c)' = Total(c) /\ cur'[c] = cur[c]
    <3>1. Len(replies) \in Nat
      BY DEF TypeOK
    <3>2. Total(c)' = Total(c)
      BY <1>1, <1>3, <1>4, <3>1 DEF Total
    <3> QED BY <1>1, <3>2
  <2>3. Travelling' = Travelling
    BY <1>1 DEF Travelling
  <2>4. /\ \A i \in DOMAIN buf'[c] : Fits(buf'[c][i], cur[c], Total(c))
        /\ \A i \in DOMAIN rx' : Fits(rx'[i], cur[c], Total(c))
    BY <1>2, <1>3, <1>4 DEF OneFrame, OneFrameOf
  <2> QED BY <1>1, <1>2, <2>1, <2>2, <2>3, <2>4 DEF OneFrame, OneFrameOf
<1> QED BY <1>5, <1>6, <1>7, <1>8

\* What a call takes for a frame is all there is.
LEMMA NothingLeft ==
  ASSUME IInv, NEW c \in Client, pc[c] # "idle", ~troubled, rx = <<>>,
         NEW f \in Whole(buf[c])
  PROVE  /\ replies = <<>> /\ Travelling = {}
         /\ f.n = cur[c].n /\ f.req = cur[c].req
<1> USE DEF IInv
<1>1. PICK i \in DOMAIN buf[c] : buf[c][i].reply = f
  BY WholeIsReply DEF TypeOK
<1>2. /\ Total(c) <= 2 /\ \A j \in DOMAIN buf[c] : Fits(buf[c][j], cur[c], Total(c))
      /\ \A j \in Travelling : Total(c) = 0
  BY DEF OneFrame, OneFrameOf
<1>3. Len(buf[c]) \in Nat /\ Len(replies) \in Nat /\ Len(rx) = 0
  BY DEF TypeOK
<1>4. Len(buf[c]) # 0
  BY <1>1, <1>3 DEF TypeOK
<1>5. Travelling = {}
  BY <1>2, <1>3, <1>4 DEF Total
<1>6. Len(replies) = 0
  <2>1. CASE buf[c] = <<[reply |-> f, part |-> "whole"]>>
    <3>1. Len(buf[c]) = 1 /\ buf[c][1].part = "whole" /\ 1 \in DOMAIN buf[c]
      BY <2>1
    <3>2. Total(c) # 2
      BY <1>2, <3>1 DEF Fits
    <3> QED BY <1>2, <1>3, <3>1, <3>2 DEF Total
  <2>2. CASE buf[c] = <<[reply |-> f, part |-> "head"], [reply |-> f, part |-> "tail"]>>
    <3>1. Len(buf[c]) = 2
      BY <2>2
    <3> QED BY <1>2, <1>3, <3>1 DEF Total
  <2> QED BY <2>1, <2>2 DEF Whole
<1>7. replies = <<>>
  BY <1>6 DEF TypeOK
<1> QED BY <1>1, <1>2, <1>5, <1>7 DEF Fits

LEMMA AcceptStep ==
  ASSUME IInv, TypeOK', NEW c \in Client, Accept(c)
  PROVE  IInv'
<1> USE DEF IInv
<1>1. PICK f \in Whole(buf[c]) : Return(c, Verdict(cur[c].req, f), f)
  BY DEF Accept
<1>2. UNCHANGED <<cur, buf, rx, line, replies, executed, calls>> /\ pc[c] # "idle" /\ rx = <<>>
  BY DEF Accept, wire
<1>3. /\ pc'[c] = "idle" /\ \A d \in Client \ {c} : pc'[d] = pc[d]
      /\ ret'[c].cur = cur[c] /\ ret'[c].code = Verdict(cur[c].req, f) /\ ret'[c].reply = f
      /\ ret'[c].sure => ~troubled
      /\ \A d \in Client \ {c} : ret'[d] = ret[d]
      /\ ~troubled' => ~troubled
  <2>1. cur' \in [Client -> Sent]
    BY <1>2 DEF TypeOK
  <2> QED BY <1>1, <1>2, <2>1, Settled, Trouble
<1>4. RepliesTruthful' /\ Unsplit'
  BY <1>2 DEF RepliesTruthful, Truthful, Unsplit
<1>5. ResultsTruthful'
  <2>1. ASSUME Verdict(cur[c].req, f) = "success"
        PROVE  [n |-> f.n, req |-> f.req] \in executed
    <3>1. PICK i \in DOMAIN buf[c] : buf[c][i].reply = f
      BY WholeIsReply DEF TypeOK
    <3>2. f \in Reply
      BY WholeIsReply DEF TypeOK
    <3>3. ~f.exc
      BY <2>1, <3>2 DEF Verdict, Reply
    <3> QED BY <3>1, <3>3 DEF RepliesTruthful, Truthful
  <2>2. Valid(cur[c].req)
    BY <1>2 DEF Asking
  <2> QED BY <1>2, <1>3, <2>1, <2>2 DEF ResultsTruthful, Succeeded
<1>6. Asking' /\ Alone'
  BY <1>2, <1>3 DEF Asking, Alone
<1>7. ResultsOwn'
  BY <1>2, <1>3, NothingLeft DEF ResultsOwn, Succeeded
<1>8. Silence'
  <2> SUFFICES ASSUME ~troubled' PROVE Travelling' = {} /\ rx' = <<>> /\ replies' = <<>>
    BY DEF Silence
  <2>1. replies = <<>> /\ Travelling = {}
    BY <1>2, <1>3, NothingLeft
  <2> QED BY <1>2, <2>1 DEF Travelling
<1>9. OneFrame'
  BY <1>2, <1>3 DEF OneFrame, Alone
<1> QED BY <1>4, <1>5, <1>6, <1>7, <1>8, <1>9

-----------------------------------------------------------------------------
(* The steps of the slave and the line: no call moves. *)

\* What holds of the calls in such a step.
LEMMA CallsKept ==
  ASSUME IInv, UNCHANGED <<pc, cur, buf, ret, troubled>>,
         \A e \in executed : e \in executed'
  PROVE  /\ ResultsTruthful' /\ Asking' /\ Alone' /\ ResultsOwn'
         /\ \A p : Truthful(p, executed) => Truthful(p, executed')
         /\ \A c \in Client : \A i \in DOMAIN buf'[c] : Truthful(buf'[c][i], executed')
<1> USE DEF IInv
<1>1. Asking' /\ Alone' /\ ResultsOwn'
  BY DEF Asking, Alone, ResultsOwn, Succeeded
<1>2. \A p : Truthful(p, executed) => Truthful(p, executed')
  BY DEF Truthful
<1>3. ResultsTruthful'
  BY DEF ResultsTruthful, Succeeded
<1>4. \A c \in Client : \A i \in DOMAIN buf'[c] : Truthful(buf'[c][i], executed')
  BY <1>2 DEF RepliesTruthful
<1> QED BY <1>1, <1>2, <1>3, <1>4

\* The slave takes the request at the head of the line.
LEMMA HeadTaken ==
  ASSUME TypeOK, line # <<>>, line' = Tail(line)
  PROVE  /\ 1 \in DOMAIN line /\ Head(line) = line[1] /\ Head(line) \in Asked
         /\ \A i \in Travelling' : i + 1 \in Travelling /\ line'[i] = line[i + 1] /\ i \in Nat \ {0}
<1>1. /\ line \in Seq(Asked)
      /\ \A i \in DOMAIN line' : i + 1 \in DOMAIN line /\ line'[i] = line[i + 1] /\ i \in Nat
      /\ 1 \in DOMAIN line /\ Head(line) = line[1] /\ Head(line) \in Asked
  BY TailElements DEF TypeOK
<1>2. \A i \in DOMAIN line' : i # 0
  BY <1>1 DEF TypeOK
<1> QED BY <1>1, <1>2 DEF Travelling

LEMMA SlaveMissesStep ==
  ASSUME IInv, TypeOK', SlaveMisses
  PROVE  IInv'
<1> USE DEF IInv
<1>1. /\ UNCHANGED <<pc, cur, buf, ret, rx, replies, executed, calls, troubled>>
      /\ line # <<>> /\ line' = Tail(line)
  BY DEF SlaveMisses
<1>2. \A i \in Travelling' : i + 1 \in Travelling /\ line'[i] = line[i + 1] /\ i \in Nat \ {0}
  BY <1>1, HeadTaken
<1>3. ResultsTruthful' /\ Asking' /\ Alone' /\ ResultsOwn' /\ RepliesTruthful'
  BY <1>1, CallsKept DEF RepliesTruthful
<1>4. Unsplit'
  BY <1>1 DEF Unsplit
<1>5. Silence'
  <2>1. Travelling = {} => Travelling' = {}
    BY <1>2
  <2> QED BY <1>1, <2>1 DEF Silence
<1>6. OneFrame'
  <2> SUFFICES ASSUME ~troubled, NEW c \in Client, pc[c] # "idle"
               PROVE  OneFrameOf(c)'
    BY <1>1 DEF OneFrame
  <2>1. OneFrameOf(c)
    BY DEF OneFrame
  <2>2. Total(c)' = Total(c) /\ cur'[c] = cur[c]
    BY <1>1 DEF Total
  <2>3. \A i \in Travelling' :
          Total(c)' = 0 /\ line'[i] = cur'[c] /\ \A j \in Travelling' : i = j
    <3> SUFFICES ASSUME NEW i \in Travelling'
                 PROVE  Total(c)' = 0 /\ line'[i] = cur'[c] /\ \A j \in Travelling' : i = j
      OBVIOUS
    <3>1. Total(c) = 0 /\ line[i + 1] = cur[c] /\ \A j \in Travelling' : i + 1 = j + 1
      BY <1>2, <2>1 DEF OneFrameOf
    <3>2. \A j \in Travelling' : i = j
      BY <1>2, <3>1
    <3> QED BY <1>1, <1>2, <2>2, <3>1, <3>2
  <2> QED BY <1>1, <2>1, <2>2, <2>3 DEF OneFrameOf
<1> QED BY <1>3, <1>4, <1>5, <1>6

LEMMA SlaveServesStep ==
  ASSUME IInv, TypeOK', NEW exc \in BOOLEAN, SlaveServes(exc)
  PROVE  IInv'
<1> USE DEF IInv
<1> DEFINE asked == Head(line)
           reply == [n |-> asked.n, req |-> asked.req, exc |-> exc]
           piece == [reply |-> reply, part |-> "whole"]
<1>1. UNCHANGED <<pc, cur, buf, ret, rx, calls, troubled>>
  BY DEF SlaveServes
<1>2. line # <<>> /\ line' = Tail(line)
  BY DEF SlaveServes
<1>3. /\ 1 \in DOMAIN line /\ asked = line[1] /\ asked \in Asked
      /\ \A i \in Travelling' : i + 1 \in Travelling /\ line'[i] = line[i + 1] /\ i \in Nat \ {0}
  BY <1>2, HeadTaken
<1>4. /\ \A e \in executed : e \in executed'
      /\ ~exc => asked \in executed'
  BY DEF SlaveServes
<1>5. [n |-> asked.n, req |-> asked.req] = asked
  BY <1>3 DEF Asked
<1>6. /\ asked.req.id = 0 => replies' = replies
      /\ asked.req.id # 0 => replies' = Append(replies, piece)
  BY DEF SlaveServes
<1>7. piece \in Piece
  BY <1>3 DEF Asked, Reply, Piece
<1>8. ASSUME asked.req.id # 0
      PROVE  /\ Len(replies') = Len(replies) + 1 /\ Len(replies) \in Nat
             /\ \A i \in DOMAIN replies' :
                  (i \in DOMAIN replies /\ replies'[i] = replies[i]) \/ replies'[i] = piece
  <2>1. replies \in Seq(Piece)
    BY DEF TypeOK
  <2>2. replies' = Append(replies, piece)
    BY <1>6, <1>8
  <2> HIDE DEF piece
  <2> QED BY <1>7, <2>1, <2>2, AppendElements
<1>9. /\ ResultsTruthful' /\ Asking' /\ Alone' /\ ResultsOwn'
      /\ \A p : Truthful(p, executed) => Truthful(p, executed')
      /\ \A c \in Client : \A i \in DOMAIN buf'[c] : Truthful(buf'[c][i], executed')
  <2>1. \A e \in executed : e \in executed'
    BY <1>4
  <2> QED BY <1>1, <2>1, CallsKept
<1>10. RepliesTruthful'
  <2>1. Truthful(piece, executed')
    <3>1. piece.reply.n = asked.n /\ piece.reply.req = asked.req /\ piece.reply.exc = exc
      OBVIOUS
    <3> HIDE DEF piece
    <3> QED BY <1>4, <1>5, <3>1 DEF Truthful
  <2>2. \A i \in DOMAIN rx' : Truthful(rx'[i], executed')
    BY <1>1, <1>9 DEF RepliesTruthful
  <2>3. \A i \in DOMAIN replies' : Truthful(replies'[i], executed')
    <3> HIDE DEF piece, asked
    <3>1. CASE asked.req.id = 0
      BY <1>6, <1>9, <3>1 DEF RepliesTruthful
    <3>2. CASE asked.req.id # 0
      BY <1>8, <1>9, <2>1, <3>2 DEF RepliesTruthful
    <3> QED BY <3>1, <3>2
  <2> QED BY <1>9, <2>2, <2>3 DEF RepliesTruthful
<1>11. Unsplit'
  <2>1. piece.part = "whole"
    OBVIOUS
  <2> HIDE DEF piece, asked
  <2> QED BY <1>6, <1>8, <2>1 DEF Unsplit
<1>12. asked.req.id # 0 => 1 \in Travelling
  BY <1>3 DEF Travelling
<1>13. Silence'
  <2> SUFFICES ASSUME ~troubled, \A c \in Client : pc[c] = "idle"
               PROVE  Travelling' = {} /\ rx' = <<>> /\ replies' = <<>>
    BY <1>1 DEF Silence
  <2>1. Travelling = {} /\ rx = <<>> /\ replies = <<>>
    BY DEF Silence
  <2>2. asked.req.id = 0
    BY <1>12, <2>1
  <2> QED BY <1>1, <1>3, <1>6, <2>1, <2>2
<1>14. OneFrame'
  <2> SUFFICES ASSUME ~troubled, NEW c \in Client, pc[c] # "idle"
               PROVE  OneFrameOf(c)'
    BY <1>1 DEF OneFrame
  <2>0. OneFrameOf(c)
    BY DEF OneFrame
  <2>1. CASE asked.req.id = 0
    <3>1. Total(c)' = Total(c) /\ cur'[c] = cur[c]
      BY <1>1, <1>6, <2>1 DEF Total
    <3>2. ASSUME NEW i \in Travelling'
          PROVE  Total(c)' = 0 /\ line'[i] = cur'[c] /\ \A j \in Travelling' : i = j
      <4>1. Total(c) = 0 /\ line[i + 1] = cur[c] /\ \A j \in Travelling' : i + 1 = j + 1
        BY <1>3, <2>0 DEF OneFrameOf
      <4> QED BY <1>1, <1>3, <3>1, <4>1
    <3> QED BY <1>1, <1>6, <2>0, <2>1, <3>1, <3>2 DEF OneFrameOf
  <2>2. CASE asked.req.id # 0
    <3>1. Total(c) = 0 /\ asked = cur[c] /\ \A j \in Travelling : j = 1
      BY <1>3, <1>12, <2>0, <2>2 DEF OneFrameOf
    <3>2. Travelling' = {}
      BY <1>3, <3>1
    <3>3. Len(buf[c]) = 0 /\ Len(rx) = 0 /\ Len(replies) = 0
      <4>1. Len(buf[c]) \in Nat /\ Len(rx) \in Nat /\ Len(replies) \in Nat
        BY DEF TypeOK
      <4> QED BY <3>1, <4>1 DEF Total
    <3>4. Total(c)' = 1
      <4>1. Len(replies') = 1 /\ Len(rx') = 0 /\ Len(buf'[c]) = 0
        BY <1>1, <1>8, <2>2, <3>3
      <4> QED BY <4>1 DEF Total
    <3>5. Fits(piece, cur'[c], Total(c)')
      <4>1. piece.reply.n = asked.n /\ piece.reply.req = asked.req
        OBVIOUS
      <4> HIDE DEF piece
      <4> QED BY <1>1, <3>1, <3>4, <4>1 DEF Fits
    <3>6. DOMAIN buf[c] = {} /\ DOMAIN rx = {} /\ DOMAIN replies = {}
      BY <3>3 DEF TypeOK
    <3>7. \A i \in DOMAIN replies' : Fits(replies'[i], cur'[c], Total(c)')
      <4> HIDE DEF piece
      <4> QED BY <1>8, <2>2, <3>5, <3>6
    <3> QED BY <1>1, <3>2, <3>4, <3>6, <3>7 DEF OneFrameOf
  <2> QED BY <2>1, <2>2
<1> QED BY <1>9, <1>10, <1>11, <1>13, <1>14

\* The head of the responses, whole or damaged, enters the receive buffer.
LEMMA ArriveStep ==
  ASSUME IInv, TypeOK', NEW part \in {"whole", "bad", "tail"}, Arrive(part)
  PROVE  IInv'
<1> USE DEF IInv
<1> DEFINE piece == [Head(replies) EXCEPT !.part = part]
<1>1. /\ UNCHANGED <<pc, cur, buf, ret, line, executed, calls, troubled>>
      /\ replies # <<>> /\ replies' = Tail(replies) /\ rx' = Append(rx, piece)
      /\ part \in {"bad", Head(replies).part}
  BY DEF Arrive
<1>2. /\ rx \in Seq(Piece) /\ replies \in Seq(Piece)
  BY DEF TypeOK
<1>3. /\ Len(replies') = Len(replies) - 1 /\ Len(replies) \in Nat /\ 1 \in DOMAIN replies
      /\ Head(replies) = replies[1] /\ Head(replies) \in Piece
      /\ \A i \in DOMAIN replies' : i + 1 \in DOMAIN replies /\ replies'[i] = replies[i + 1]
  BY <1>1, <1>2, TailElements
<1>4. piece \in Piece /\ piece.reply = replies[1].reply /\ piece.part \in {"bad", replies[1].part}
  BY <1>1, <1>3 DEF Piece
<1> HIDE DEF piece
<1>5. /\ Len(rx') = Len(rx) + 1 /\ Len(rx) \in Nat
      /\ \A i \in DOMAIN rx' : (i \in DOMAIN rx /\ rx'[i] = rx[i]) \/ rx'[i] = piece
  BY <1>1, <1>2, <1>4, AppendElements
<1>6. /\ ResultsTruthful' /\ Asking' /\ Alone' /\ ResultsOwn'
      /\ \A p : Truthful(p, executed) => Truthful(p, executed')
      /\ \A c \in Client : \A i \in DOMAIN buf'[c] : Truthful(buf'[c][i], executed')
  <2>1. \A e \in executed : e \in executed'
    BY <1>1
  <2> QED BY <1>1, <2>1, CallsKept
<1>7. RepliesTruthful'
  <2>1. Truthful(piece, executed)
    <3>1. Truthful(replies[1], executed)
      BY <1>3 DEF RepliesTruthful
    <3> QED BY <1>4, <3>1 DEF Truthful
  <2>2. \A i \in DOMAIN rx' : Truthful(rx'[i], executed')
    BY <1>5, <1>6, <2>1 DEF RepliesTruthful
  <2>3. \A i \in DOMAIN replies' : Truthful(replies'[i], executed')
    BY <1>3, <1>6 DEF RepliesTruthful
  <2> QED BY <1>6, <2>2, <2>3 DEF RepliesTruthful
<1>8. Unsplit'
  BY <1>3 DEF Unsplit
<1>9. Silence'
  BY <1>1 DEF Silence
<1>10. OneFrame'
  <2> SUFFICES ASSUME ~troubled, NEW c \in Client, pc[c] # "idle"
               PROVE  OneFrameOf(c)'
    BY <1>1 DEF OneFrame
  <2>0. OneFrameOf(c)
    BY DEF OneFrame
  <2>1. Total(c)' = Total(c) /\ cur'[c] = cur[c]
    <3> DEFINE n == Len(buf[c])
    <3>1. n \in Nat
      BY DEF TypeOK
    <3>2. Total(c) = n + Len(rx) + Len(replies) /\ Total(c)' = n + Len(rx') + Len(replies')
      BY <1>1 DEF Total
    <3> HIDE DEF n
    <3>3. n + Len(rx') + Len(replies') = n + Len(rx) + Len(replies)
      BY <1>3, <1>5, <3>1
    <3> QED BY <1>1, <3>2, <3>3
  <2>2. Travelling' = Travelling
    BY <1>1 DEF Travelling
  <2>3. Fits(piece, cur[c], Total(c))
    <3>1. Fits(replies[1], cur[c], Total(c))
      BY <1>3, <2>0 DEF OneFrameOf
    <3> QED BY <1>4, <3>1 DEF Fits
  <2>4. /\ \A i \in DOMAIN rx' : Fits(rx'[i], cur[c], Total(c))
        /\ \A i \in DOMAIN replies' : Fits(replies'[i], cur[c], Total(c))
    BY <1>3, <1>5, <2>0, <2>3 DEF OneFrameOf
  <2> QED BY <1>1, <2>0, <2>1, <2>2, <2>4 DEF OneFrameOf
<1> QED BY <1>6, <1>7, <1>8, <1>9, <1>10

\* A whole response is split: it was alone, and its halves are two pieces.
LEMMA ArriveHeadStep ==
  ASSUME IInv, TypeOK', ArriveHead
  PROVE  IInv'
<1> USE DEF IInv
<1> DEFINE first == [Head(replies) EXCEPT !.part = "head"]
           rest == [Head(replies) EXCEPT !.part = "tail"]
<1>1. /\ UNCHANGED <<pc, cur, buf, ret, line, executed, calls, troubled>>
      /\ replies # <<>> /\ rx' = Append(rx, first) /\ replies' = <<rest>> \o Tail(replies)
      /\ Head(replies).part = "whole"
  BY DEF ArriveHead
<1>2. /\ rx \in Seq(Piece) /\ replies \in Seq(Piece)
  BY DEF TypeOK
<1>3. Head(replies) = replies[1] /\ Head(replies) \in Piece /\ 1 \in DOMAIN replies
  BY <1>1, <1>2, TailElements
<1>4. /\ first \in Piece /\ first.reply = replies[1].reply /\ first.part = "head"
      /\ rest \in Piece /\ rest.reply = replies[1].reply /\ rest.part = "tail"
  BY <1>3 DEF Piece
<1> HIDE DEF first, rest
<1>5. /\ Len(rx') = Len(rx) + 1 /\ Len(rx) \in Nat
      /\ \A i \in DOMAIN rx' : (i \in DOMAIN rx /\ rx'[i] = rx[i]) \/ rx'[i] = first
  BY <1>1, <1>2, <1>4, AppendElements
<1>6. /\ Len(replies') = Len(replies) /\ Len(replies) \in Nat
      /\ \A i \in DOMAIN replies' :
           replies'[i] = rest \/ (i \in DOMAIN replies /\ replies'[i] = replies[i])
  <2>1. replies' = <<rest>> \o Tail(replies) /\ replies # <<>>
    BY <1>1
  <2>2. replies \in Seq(Piece) /\ rest \in Piece
    BY <1>2, <1>4
  <2> QED BY <2>1, <2>2, HeadReplaced
<1>7. /\ ResultsTruthful' /\ Asking' /\ Alone' /\ ResultsOwn'
      /\ \A p : Truthful(p, executed) => Truthful(p, executed')
      /\ \A c \in Client : \A i \in DOMAIN buf'[c] : Truthful(buf'[c][i], executed')
  <2>1. \A e \in executed : e \in executed'
    BY <1>1
  <2> QED BY <1>1, <2>1, CallsKept
<1>8. RepliesTruthful'
  <2>1. Truthful(first, executed) /\ Truthful(rest, executed)
    <3>1. Truthful(replies[1], executed)
      BY <1>3 DEF RepliesTruthful
    <3> QED BY <1>4, <3>1 DEF Truthful
  <2>2. \A i \in DOMAIN rx' : Truthful(rx'[i], executed')
    BY <1>5, <1>7, <2>1 DEF RepliesTruthful
  <2>3. \A i \in DOMAIN replies' : Truthful(replies'[i], executed')
    BY <1>6, <1>7, <2>1 DEF RepliesTruthful
  <2> QED BY <1>7, <2>2, <2>3 DEF RepliesTruthful
<1>9. Unsplit'
  BY <1>4, <1>6 DEF Unsplit
<1>10. Silence'
  BY <1>1 DEF Silence
<1>11. OneFrame'
  <2> SUFFICES ASSUME ~troubled, NEW c \in Client, pc[c] # "idle"
               PROVE  OneFrameOf(c)'
    BY <1>1 DEF OneFrame
  <2>0. OneFrameOf(c)
    BY DEF OneFrame
  <2>1. Len(buf[c]) \in Nat /\ Len(replies) # 0
    BY <1>1, <1>2 DEF TypeOK
  <2>2. Fits(replies[1], cur[c], Total(c)) /\ replies[1].part = "whole"
    BY <1>1, <1>3, <2>0 DEF OneFrameOf
  <2>3. Total(c) # 2 /\ Total(c) <= 2
    BY <2>0, <2>2 DEF OneFrameOf, Fits
  <2>4. Len(buf[c]) = 0 /\ Len(rx) = 0 /\ Len(replies) = 1 /\ Total(c) = 1
    BY <1>5, <1>6, <2>1, <2>3 DEF Total
  <2>5. Total(c)' = 2 /\ cur'[c] = cur[c] /\ buf'[c] = buf[c]
    <3>1. Len(buf'[c]) = 0 /\ Len(rx') = 1 /\ Len(replies') = 1
      BY <1>1, <1>5, <1>6, <2>4
    <3> QED BY <1>1, <3>1 DEF Total
  <2>6. Travelling' = {}
    BY <1>1, <2>0, <2>4 DEF OneFrameOf, Travelling
  <2>7. Fits(first, cur[c], 2) /\ Fits(rest, cur[c], 2)
    BY <1>4, <2>2 DEF Fits
  <2>8. DOMAIN buf[c] = {} /\ DOMAIN rx = {} /\ \A i \in DOMAIN replies : i = 1
    BY <1>2, <2>4 DEF TypeOK
  <2>9. \A i \in DOMAIN rx' : Fits(rx'[i], cur[c], 2)
    BY <1>5, <2>7, <2>8
  <2>10. \A i \in DOMAIN replies' : Fits(replies'[i], cur[c], 2)
    <3>1. replies' \in Seq(Piece) /\ Len(replies') = 1
      BY <1>6, <2>4 DEF TypeOK
    <3>2. \A i \in DOMAIN replies' : i = 1
      BY <3>1
    <3>3. replies'[1] = rest
      BY <1>1, <1>2, <1>4, TailElements
    <3> QED BY <2>7, <3>2, <3>3
  <2> QED BY <2>5, <2>6, <2>8, <2>9, <2>10 DEF OneFrameOf
<1> QED BY <1>7, <1>8, <1>9, <1>10, <1>11

LEMMA ReplyLostStep ==
  ASSUME IInv, TypeOK', ReplyLost
  PROVE  IInv'
<1> USE DEF IInv
<1>1. /\ UNCHANGED <<pc, cur, buf, ret, rx, line, executed, calls, troubled>>
      /\ replies # <<>> /\ replies' = Tail(replies)
  BY DEF ReplyLost
<1>2. /\ Len(replies') = Len(replies) - 1 /\ Len(replies) \in Nat
      /\ \A i \in DOMAIN replies' : i + 1 \in DOMAIN replies /\ replies'[i] = replies[i + 1]
  BY <1>1, TailElements DEF TypeOK
<1>3. ResultsTruthful' /\ Asking' /\ Alone' /\ ResultsOwn'
  BY <1>1, CallsKept
<1>4. RepliesTruthful'
  BY <1>1, <1>2 DEF RepliesTruthful
<1>5. Unsplit'
  BY <1>2 DEF Unsplit
<1>6. Silence'
  BY <1>1 DEF Silence
<1>7. OneFrame'
  <2> SUFFICES ASSUME ~troubled, NEW c \in Client, pc[c] # "idle"
               PROVE  OneFrameOf(c)'
    BY <1>1 DEF OneFrame
  <2>0. OneFrameOf(c)
    BY DEF OneFrame
  <2>1. Len(buf[c]) \in Nat /\ Len(rx) \in Nat
    BY DEF TypeOK
  <2>2. Total(c)' = Total(c) - 1 /\ Total(c) \in 1..2
    <3>1. Len(replies) # 0
      BY <1>1 DEF TypeOK
    <3> QED BY <1>1, <1>2, <2>0, <2>1, <3>1 DEF Total, OneFrameOf
  <2>3. \A p : Fits(p, cur[c], Total(c)) => Fits(p, cur'[c], Total(c)')
    BY <1>1, <2>2 DEF Fits
  <2>4. Travelling' = {}
    BY <1>1, <2>0, <2>2 DEF OneFrameOf, Travelling
  <2>5. \A i \in DOMAIN replies' : Fits(replies'[i], cur[c], Total(c))
    BY <1>2, <2>0 DEF OneFrameOf
  <2> QED BY <1>1, <2>0, <2>2, <2>3, <2>4, <2>5 DEF OneFrameOf
<1> QED BY <1>3, <1>4, <1>5, <1>6, <1>7

-----------------------------------------------------------------------------
LEMMA Invariance == IInv /\ [Next]_vars => IInv'
<1> SUFFICES ASSUME IInv, [Next]_vars PROVE IInv'
  OBVIOUS
<1>1. TypeOK'
  BY TypeStep DEF IInv
<1>2. CASE UNCHANGED vars
  BY <1>2 DEF vars, IInv, TypeOK, RepliesTruthful, ResultsTruthful, Succeeded, Asking, Unsplit,
    Alone, Silence, Travelling, OneFrame, OneFrameOf, Total, ResultsOwn
<1> QED BY <1>1, <1>2, ErrorStep, RefuseStep, CallStep, BroadcastStep, WaitStep, CollectStep,
  AcceptStep, SlaveMissesStep, SlaveServesStep, ArriveStep, ArriveHeadStep, ReplyLostStep
  DEF Next, ReadAdu, Environment

LEMMA Invariant == Spec => []IInv
BY Initially, Invariance, PTL DEF Spec

\* Every variable keeps its type: no more requests than the bound, no call in a
\* state or with a result the code does not know.
THEOREM TypeCorrect == Spec => []TypeOK
BY Invariant, PTL DEF IInv

\* ResultIsOwn, of MasterModbus and the master under it.  From a call on a quiet line
\* until one ends in an error or overlaps another's, the write that is reported was
\* carried out itself, a success is the response to that call, and a read returns no
\* other address's register.  Otherwise, whatever is late, damaged or taken by another
\* thread, a write with the same response was carried out: of a multiple write,
\* perhaps with other values.
THEOREM ResultsAreOwn == Spec => []ResultIsOwn
<1>1. IInv => ResultIsOwn
  <2> SUFFICES ASSUME IInv PROVE ResultIsOwn
    OBVIOUS
  <2> USE DEF IInv
  <2>1. WriteHappened
    <3> SUFFICES ASSUME NEW c \in Client, Succeeded(c), IsWrite(ret[c].cur.req)
                 PROVE  /\ ret[c].sure => ret[c].cur \in executed
                        /\ \E e \in executed : SameResponse(e.req, ret[c].cur.req)
      BY DEF WriteHappened
    <3> DEFINE e == [n |-> ret[c].reply.n, req |-> ret[c].reply.req]
    <3>1. e \in executed /\ Verdict(ret[c].cur.req, ret[c].reply) = "success"
      BY DEF ResultsTruthful
    <3>2. SameResponse(e.req, ret[c].cur.req)
      BY <3>1 DEF Verdict, SameResponse
    <3>3. ret[c].sure => ret[c].cur = e
      <4>1. ret[c].cur = [n |-> ret[c].cur.n, req |-> ret[c].cur.req]
        BY DEF TypeOK, Sent
      <4> QED BY <4>1 DEF ResultsOwn
    <3> QED BY <3>1, <3>2, <3>3
  <2>2. SyncSuccessIsOwn
    BY DEF SyncSuccessIsOwn, ResultsOwn
  <2>3. ReadsNoOther
    <3> SUFFICES ASSUME NEW c \in Client, ret[c].sure
                 PROVE  Result(c) \subseteq {RegisterAt(ret[c].cur.req.addr), Zero, Uninitialised}
      BY DEF ReadsNoOther
    <3>1. CASE ret[c].cur.req.fc = 3
      <4>1. ret[c].code = "success" => ret[c].reply.req = ret[c].cur.req
        <5> SUFFICES ASSUME ret[c].code = "success" PROVE ret[c].reply.req = ret[c].cur.req
          OBVIOUS
        <5>1. ret[c].cur.req.id >= 1
          BY <3>1 DEF ResultsTruthful, Valid, Reads, ReadWords
        <5>2. ret[c].cur.req.id # 0
          BY <5>1
        <5> QED BY <5>2 DEF ResultsOwn, Succeeded
      <4>2. Buffer(c) \in {RegisterAt(ret[c].cur.req.addr), Uninitialised}
        BY <4>1 DEF Buffer
      <4> QED BY <4>2 DEF Result, IntResult, FloatResult, ValueResult
    <3>2. CASE ret[c].cur.req.fc # 3
      BY <3>2 DEF Result
    <3> QED BY <3>1, <3>2
  <2> QED BY <2>1, <2>2, <2>3 DEF ResultIsOwn
<1> QED BY <1>1, Invariant, PTL

-----------------------------------------------------------------------------
(* The arithmetic of ModbusADU's frames, for every quantity the guards of the  *)
(* master accept                                                               *)

\* The walk keeps to the quantities the guards accept, from which the three parts
\* of FramesFit follow.
LEMMA QuantityInRange == Quantities => []QuantityOK
<1>1. First => QuantityOK
  BY DEF First, QuantityOK, FunctionCode, MaxQuantity, ReadBits, ReadWords, WriteSingle,
    WriteBits, WriteWords
<1>2. QuantityOK /\ [NextQuantity]_<<fc, quantity>> => QuantityOK'
  BY DEF QuantityOK, NextQuantity, FunctionCode, MaxQuantity, ReadBits, ReadWords,
    WriteSingle, WriteBits, WriteWords
<1> QED BY <1>1, <1>2, PTL DEF Quantities

\* A data length that setLength accepts comes back from getDataLen.
LEMMA DataLenRoundTrip ==
  ASSUME NEW n \in 1..252
  PROVE  /\ SetDataLen(n) = n + 2
         /\ GetDataLen(SetDataLen(n)) = n
         /\ GetRtuLen(SetDataLen(n)) = n + 4
         /\ GetDataLen(SetRtuLen(n + 4)) = n
BY DEF SetDataLen, SetRtuLen, SetLength, GetDataLen, GetRtuLen, GetLength, LegalLength, U16

\* No request's data is longer than 251 bytes, no read's values than 250.
LEMMA LengthBounds ==
  ASSUME QuantityOK
  PROVE  /\ RequestLen(fc, quantity) \in 4..251
         /\ fc \in ReadBits \cup ReadWords => ByteCount(fc, quantity) \in 1..250
BY DEF QuantityOK, FunctionCode, MaxQuantity, RequestLen, ByteCount, Div8RndUp, ReadBits,
  ReadWords, WriteSingle, WriteBits, WriteWords

\* Every accepted request has a representable length and its CRC fits.
THEOREM RequestsFit == Quantities => []RequestFits
<1>1. QuantityOK => RequestFits
  BY LengthBounds, DataLenRoundTrip DEF RequestFits, Rtu, AduBytes
<1> QED BY <1>1, QuantityInRange, PTL

\* The responses to reads fit and are indexed inside their length.
THEOREM ResponsesFit == Quantities => []ResponseFits
<1>1. QuantityOK => ResponseFits
  <2> SUFFICES ASSUME QuantityOK, fc \in ReadBits \cup ReadWords PROVE ResponseFits
    BY DEF ResponseFits
  <2> DEFINE n == 1 + ByteCount(fc, quantity)
  <2>1. ByteCount(fc, quantity) \in 1..250
    BY LengthBounds
  <2>2. GetDataLen(SetRtuLen(n + 4)) = n
    BY <2>1, DataLenRoundTrip
  <2>3. U8(ByteCount(fc, quantity)) = ByteCount(fc, quantity)
    BY <2>1 DEF U8
  <2>4. ASSUME fc \in ReadBits, NEW i \in 0..(quantity - 1)
        PROVE  ReadIndex(fc, i) \in 1..(n - 1)
    BY <2>4 DEF QuantityOK, MaxQuantity, ByteCount, Div8RndUp, ReadIndex, ReadBits
  <2>5. ASSUME fc \in ReadWords, NEW i \in 0..(quantity - 1)
        PROVE  fc \notin ReadBits /\ ReadIndex(fc, i) \in 1..(n - 2)
    <3>1. fc \notin ReadBits \cup WriteBits
      BY <2>5 DEF ReadBits, ReadWords, WriteBits
    <3>2. MaxQuantity(fc) = 125 /\ ByteCount(fc, quantity) = quantity * 2
      BY <2>5, <3>1 DEF MaxQuantity, ByteCount, ReadBits, ReadWords, WriteSingle, WriteBits
    <3>3. quantity \in 1..125
      BY <3>2 DEF QuantityOK
    <3>4. ReadIndex(fc, i) = 1 + i * 2
      BY <3>1, <3>3 DEF ReadIndex, U8
    <3> QED BY <3>1, <3>2, <3>3, <3>4
  <2> QED BY <2>2, <2>3, <2>4, <2>5 DEF ResponseFits
<1> QED BY <1>1, QuantityInRange, PTL

\* A multiple write fills exactly the bytes behind its byte count.
THEOREM WritesFill == Quantities => []WritesFillData
<1>1. QuantityOK => WritesFillData
  <2> SUFFICES ASSUME QuantityOK, fc \in WriteBits \cup WriteWords PROVE WritesFillData
    BY DEF WritesFillData
  <2>1. CASE fc \in WriteBits
    <3>1. quantity \in 1..1968 /\ RequestLen(fc, quantity) = 5 + (quantity + 7) \div 8
      BY <2>1 DEF QuantityOK, MaxQuantity, ReadBits, ReadWords, WriteSingle, WriteBits,
        RequestLen, ByteCount, Div8RndUp
    <3>2. \A i \in 0..(quantity - 1) : 5 + i \div 8 \in 5..(4 + (quantity + 7) \div 8)
      BY <3>1
    <3>3. \A k \in 5..(4 + (quantity + 7) \div 8) :
            8 * (k - 5) \in 0..(quantity - 1) /\ k = 5 + (8 * (k - 5)) \div 8
      BY <3>1
    <3> DEFINE bytes == {WriteIndex(fc, i) + b : i \in 0..(quantity - 1), b \in 0..0}
    <3>5. \A i \in 0..(quantity - 1) : WriteIndex(fc, i) + 0 = 5 + i \div 8
      BY <2>1, <3>1 DEF WriteIndex
    <3>6. bytes \subseteq 5..(4 + (quantity + 7) \div 8)
      BY <3>2, <3>5
    <3>7. 5..(4 + (quantity + 7) \div 8) \subseteq bytes
      <4> SUFFICES ASSUME NEW k \in 5..(4 + (quantity + 7) \div 8) PROVE k \in bytes
        OBVIOUS
      <4>1. 8 * (k - 5) \in 0..(quantity - 1) /\ k = WriteIndex(fc, 8 * (k - 5)) + 0
        BY <3>3, <3>5
      <4> QED BY <4>1
    <3>4. bytes = 5..(4 + (quantity + 7) \div 8)
      BY <3>6, <3>7
    <3> QED BY <2>1, <3>1, <3>4 DEF WritesFillData
  <2>2. CASE fc \in WriteWords
    <3>1. fc \notin WriteBits /\ quantity \in 1..123 /\ RequestLen(fc, quantity) = 5 + quantity * 2
      BY <2>2 DEF QuantityOK, MaxQuantity, ReadBits, ReadWords, WriteSingle, WriteBits, WriteWords,
        RequestLen, ByteCount
    <3>2. \A i \in 0..(quantity - 1) : WriteIndex(fc, i) = 5 + i * 2
      BY <3>1 DEF WriteIndex, U8
    <3>3. \A k \in 5..(4 + quantity * 2) :
            /\ (k - 5) \div 2 \in 0..(quantity - 1) /\ (k - 5) % 2 \in 0..1
            /\ k = 5 + ((k - 5) \div 2) * 2 + ((k - 5) % 2)
      BY <3>1
    <3> DEFINE bytes == {WriteIndex(fc, i) + b : i \in 0..(quantity - 1), b \in 0..1}
    <3>5. bytes \subseteq 5..(4 + quantity * 2)
      BY <3>1, <3>2
    <3>6. 5..(4 + quantity * 2) \subseteq bytes
      <4> SUFFICES ASSUME NEW k \in 5..(4 + quantity * 2) PROVE k \in bytes
        OBVIOUS
      <4> DEFINE i == (k - 5) \div 2
                 b == (k - 5) % 2
      <4>1. i \in 0..(quantity - 1) /\ b \in 0..1 /\ k = 5 + i * 2 + b
        BY <3>3
      <4>2. k = WriteIndex(fc, i) + b
        BY <3>2, <4>1
      <4> QED BY <4>1, <4>2
    <3>4. bytes = 5..(4 + quantity * 2)
      BY <3>5, <3>6
    <3> QED BY <3>1, <3>4 DEF WritesFillData
  <2> QED BY <2>1, <2>2
<1> QED BY <1>1, QuantityInRange, PTL

\* Whatever the guards accept fits its frame.
THEOREM EveryFrameFits == Quantities => []FramesFit
BY RequestsFit, ResponsesFit, WritesFill, PTL DEF FramesFit
=============================================================================
