--------------------------- MODULE ModbusRTUMaster ---------------------------
(***************************************************************************)
(* ModbusRTUMaster and ModbusRTUComm: one request and its response over a  *)
(* half duplex serial line with no sequence numbers.                       *)
(*                                                                         *)
(* A client is a thread that calls the master.  A call sends a request,    *)
(* waits for a first byte or the timeout, collects bytes until the line is *)
(* quiet, and checks what it has.  The receive buffer is a queue of pieces *)
(* of response frames: a frame arrives whole, damaged, or in two parts     *)
(* with a pause between them.  Frames carry the number n of the request    *)
(* they answer, which the code does not have: only properties look at it.  *)
(*                                                                         *)
(* The slave is a device outside the repository: it takes the requests in  *)
(* order, as slowly as it likes, and may miss one or refuse it.            *)
(***************************************************************************)
EXTENDS ModbusADU, Sequences, SequencesExt

CONSTANTS Client,   \* threads that call the master
          Request,  \* the calls they make: [id, fc, addr, arg, data]
          MaxCalls  \* bound: requests sent in a behaviour

\* arg is the quantity of a read or of a multiple write, the value of a single
\* write; data are the values of a multiple write.
ASSUME RequestAssumption ==
  /\ Request # {}
  /\ \A r \in Request : r.id \in Nat /\ r.fc \in FunctionCode /\ r.arg \in Nat
ASSUME BoundAssumption == MaxCalls \in Nat

Reads == ReadBits \cup ReadWords
IsWrite(r) == r.fc \notin Reads

\* The quantity and id guards every call starts with.
Valid(r) ==
  /\ r.id <= 247 /\ (r.fc \in Reads => r.id >= 1)
  /\ r.fc \notin WriteSingle => r.arg \in 1..MaxQuantity(r.fc)

VARIABLES
  pc,       \* where each client is: "idle", "wait", "collect" or "settle"
  cur,      \* the request it sent: [n, req]
  buf,      \* the pieces its readAdu has read
  ret,      \* what its last call returned: [cur, code, reply], and whether the
            \* line was still in order then
  rx,       \* the serial receive buffer
  line,     \* requests on their way to the slave
  replies,  \* the slave's responses on their way back
  executed, \* requests the slave has carried out
  calls,    \* requests sent so far
  troubled  \* a call has ended in an error or overlapped another's, and none
            \* has begun on a quiet line since

vars == <<pc, cur, buf, ret, rx, line, replies, executed, calls, troubled>>
wire == <<line, replies, executed>>

NoRequest == [n |-> 0, req |-> CHOOSE r \in Request : TRUE]
Sent == [n : 0..MaxCalls, req : Request]
Asked == [n : 1..MaxCalls, req : Request]
Reply == [n : 1..MaxCalls, req : Request, exc : BOOLEAN]
Piece == [reply : Reply, part : {"whole", "bad", "head", "tail"}]
Code == {"none", "success", "timeout", "frame_error", "crc_error", "invalid",
         "unexpected_id", "exception", "unexpected_function_code",
         "unexpected_length", "unexpected_address", "unexpected_value"}

TypeOK ==
  /\ pc \in [Client -> {"idle", "wait", "collect", "settle"}]
  /\ cur \in [Client -> Sent]
  /\ buf \in [Client -> Seq(Piece)]
  /\ ret \in [Client -> [cur : Sent, code : Code, reply : Reply \cup {NoRequest}, sure : BOOLEAN]]
  /\ rx \in Seq(Piece)
  /\ line \in Seq(Asked)
  /\ replies \in Seq(Piece)
  /\ executed \subseteq Asked
  /\ calls \in 0..MaxCalls
  /\ troubled \in BOOLEAN

Init ==
  /\ pc = [c \in Client |-> "idle"]
  /\ cur = [c \in Client |-> NoRequest]
  /\ buf = [c \in Client |-> <<>>]
  /\ ret = [c \in Client |->
             [cur |-> NoRequest, code |-> "none", reply |-> NoRequest, sure |-> TRUE]]
  /\ rx = <<>> /\ line = <<>> /\ replies = <<>>
  /\ executed = {}
  /\ calls = 0
  /\ troubled = FALSE

-----------------------------------------------------------------------------
(* The checks a call makes on the frame it read, in the code's order.      *)

\* What a response's length says about its request.
LengthOf(r) == IF r.fc \in Reads THEN 1 + ByteCount(r.fc, r.arg) ELSE 4

Verdict(r, f) ==
  IF f.req.id # r.id THEN "unexpected_id"
  ELSE IF f.req.fc = r.fc /\ f.exc THEN "exception"
  ELSE IF f.req.fc # r.fc THEN "unexpected_function_code"
  ELSE IF LengthOf(f.req) # LengthOf(r) THEN "unexpected_length"
  ELSE IF IsWrite(r) /\ f.req.addr # r.addr THEN "unexpected_address"
  ELSE IF IsWrite(r) /\ f.req.arg # r.arg THEN "unexpected_value"
  ELSE "success"

\* The frames a run of pieces with a good CRC can be: one frame, all of it.
Whole(ps) ==
  {f \in {ps[i].reply : i \in DOMAIN ps} :
     \/ ps = <<[reply |-> f, part |-> "whole"]>>
     \/ ps = <<[reply |-> f, part |-> "head"], [reply |-> f, part |-> "tail"]>>}

Return(c, code, reply) ==
  /\ pc' = [pc EXCEPT ![c] = "idle"]
  /\ ret' = [ret EXCEPT ![c] = [cur |-> cur'[c], code |-> code, reply |-> reply,
                                sure |-> ~troubled]]
  /\ troubled' = (troubled \/ code \notin {"success", "exception", "invalid"})

-----------------------------------------------------------------------------
(* A call of the master *)

Refuse(c, r) ==
  /\ pc[c] = "idle"
  /\ ~Valid(r)
  /\ cur' = [cur EXCEPT ![c] = [n |-> 0, req |-> r]]
  /\ UNCHANGED <<buf, rx, calls, wire>>
  /\ Return(c, "invalid", NoRequest)

Send(c, r) ==
  /\ pc[c] = "idle"
  /\ Valid(r)
  /\ calls < MaxCalls
  /\ calls' = calls + 1
  /\ cur' = [cur EXCEPT ![c] = [n |-> calls + 1, req |-> r]]
  /\ line' = Append(line, [n |-> calls + 1, req |-> r])
  /\ buf' = [buf EXCEPT ![c] = <<>>]
  /\ UNCHANGED <<rx, replies, executed>>

\* No call is waiting, no response is in the receive buffer or on its way, and
\* none is still to come.
Quiet ==
  /\ \A c \in Client : pc[c] = "idle"
  /\ rx = <<>> /\ replies = <<>>
  /\ \A i \in DOMAIN line : line[i].req.id = 0

\* writeAdu leaves the receive buffer alone; then readAdu.
Call(c, r) ==
  /\ Send(c, r)
  /\ r.id # 0
  /\ pc' = [pc EXCEPT ![c] = "wait"]
  /\ troubled' = (~Quiet /\ (troubled \/ \E d \in Client : pc[d] # "idle"))
  /\ UNCHANGED ret

\* A broadcast write waits for no response.
Broadcast(c, r) == Send(c, r) /\ r.id = 0 /\ Return(c, "success", NoRequest)

\* Mutant: the elapsed time is never compared.
WaitForEver(c) == FALSE

WaitTimeout(c) ==
  /\ pc[c] = "wait"
  /\ rx = <<>>
  /\ UNCHANGED <<cur, buf, rx, calls, wire>>
  /\ Return(c, "timeout", NoRequest)

\* available(): another client may still take the byte away.
FirstByte(c) ==
  /\ pc[c] = "wait"
  /\ rx # <<>>
  /\ pc' = [pc EXCEPT ![c] = "collect"]
  /\ UNCHANGED <<cur, buf, ret, rx, calls, troubled, wire>>

Collect(c) ==
  /\ pc[c] = "collect"
  /\ rx # <<>>
  /\ buf' = [buf EXCEPT ![c] = Append(@, Head(rx))]
  /\ rx' = Tail(rx)
  /\ UNCHANGED <<pc, cur, ret, calls, troubled, wire>>

\* No byte for charTimeout, or the thread was not run for as long.
CharGap(c) ==
  /\ pc[c] = "collect"
  /\ pc' = [pc EXCEPT ![c] = "settle"]
  /\ UNCHANGED <<cur, buf, ret, rx, calls, troubled, wire>>

\* A byte inside the inter-frame time: it stays in the receive buffer.
FrameError(c) ==
  /\ pc[c] = "settle"
  /\ rx # <<>>
  /\ UNCHANGED <<cur, buf, rx, calls, wire>>
  /\ Return(c, "frame_error", NoRequest)

\* Mutant: the translation of the error has no case for it.
CrcErrorUnknown(c) ==
  /\ pc[c] = "settle"
  /\ rx = <<>>
  /\ Whole(buf[c]) = {}
  /\ UNCHANGED <<cur, buf, rx, calls, wire>>
  /\ Return(c, "unknown_comm_error", NoRequest)

CrcError(c) ==
  /\ pc[c] = "settle"
  /\ rx = <<>>
  /\ Whole(buf[c]) = {}
  /\ UNCHANGED <<cur, buf, rx, calls, wire>>
  /\ Return(c, "crc_error", NoRequest)

\* Mutant: the CRC is not looked at.
AcceptAnything(c) ==
  /\ pc[c] = "settle"
  /\ rx = <<>>
  /\ \E i \in DOMAIN buf[c] :
       /\ UNCHANGED <<cur, buf, rx, calls, wire>>
       /\ Return(c, Verdict(cur[c].req, buf[c][i].reply), buf[c][i].reply)

Accept(c) ==
  /\ pc[c] = "settle"
  /\ rx = <<>>
  /\ \E f \in Whole(buf[c]) :
       /\ UNCHANGED <<cur, buf, rx, calls, wire>>
       /\ Return(c, Verdict(cur[c].req, f), f)

-----------------------------------------------------------------------------
(* The slave and the line *)

SlaveMisses ==
  /\ line # <<>>
  /\ line' = Tail(line)
  /\ UNCHANGED <<pc, cur, buf, ret, rx, replies, executed, calls, troubled>>

\* It executes the request or answers with an exception; no one answers a
\* broadcast.
SlaveServes(exc) ==
  /\ line # <<>>
  /\ line' = Tail(line)
  /\ executed' = IF exc THEN executed ELSE executed \cup {Head(line)}
  /\ replies' = IF Head(line).req.id = 0 THEN replies
                ELSE Append(replies, [reply |-> [n |-> Head(line).n, req |-> Head(line).req,
                                                 exc |-> exc], part |-> "whole"])
  /\ UNCHANGED <<pc, cur, buf, ret, rx, calls, troubled>>

Arrive(part) ==
  /\ replies # <<>>
  /\ part \in {"bad", Head(replies).part}
  /\ rx' = Append(rx, [Head(replies) EXCEPT !.part = part])
  /\ replies' = Tail(replies)
  /\ UNCHANGED <<pc, cur, buf, ret, line, executed, calls, troubled>>

\* The first part of a frame; the rest follows after a pause.
ArriveHead ==
  /\ replies # <<>>
  /\ Head(replies).part = "whole"
  /\ rx' = Append(rx, [Head(replies) EXCEPT !.part = "head"])
  /\ replies' = <<[Head(replies) EXCEPT !.part = "tail"]>> \o Tail(replies)
  /\ UNCHANGED <<pc, cur, buf, ret, line, executed, calls, troubled>>

ReplyLost ==
  /\ replies # <<>>
  /\ replies' = Tail(replies)
  /\ UNCHANGED <<pc, cur, buf, ret, rx, line, executed, calls, troubled>>

-----------------------------------------------------------------------------
ReadAdu(c) ==
  \/ WaitTimeout(c) \/ FirstByte(c) \/ Collect(c) \/ CharGap(c)
  \/ FrameError(c) \/ CrcError(c) \/ Accept(c)

Environment ==
  \/ SlaveMisses \/ SlaveServes(TRUE) \/ SlaveServes(FALSE)
  \/ (\E part \in {"whole", "bad", "tail"} : Arrive(part)) \/ ArriveHead \/ ReplyLost

Next ==
  \/ \E c \in Client, r \in Request : Refuse(c, r) \/ Call(c, r) \/ Broadcast(c, r)
  \/ \E c \in Client : ReadAdu(c)
  \/ Environment

Spec == Init /\ [][Next]_vars

\* A client's loops run on: millis() and micros() advance.
FairSpec == Spec /\ \A c \in Client : WF_vars(ReadAdu(c))

-----------------------------------------------------------------------------
(* Properties *)

Succeeded(c) == ret[c].code = "success" /\ ret[c].cur.req.id # 0

\* Writes whose responses are the same: a response names the address and the value
\* of a single write, but only the quantity of a multiple one, not its values.
SameResponse(r, s) == r.id = s.id /\ r.fc = s.fc /\ r.addr = s.addr /\ r.arg = s.arg

\* A write that reports success was itself carried out, its values and all, if it or
\* a call before it began on a quiet line and since then none ended in an error or
\* overlapped another's.  Otherwise an older write's late response may be taken for
\* it: what is sure is that the slave has carried out some write with the same
\* response, so the single write's value, but of a multiple write perhaps the older
\* values and never the new ones.
WriteHappened ==
  \A c \in Client : Succeeded(c) /\ IsWrite(ret[c].cur.req) =>
    /\ ret[c].sure => ret[c].cur \in executed
    /\ \E e \in executed : SameResponse(e.req, ret[c].cur.req)

\* From a call on a quiet line, be it a retry, until a call ends in an error or
\* overlaps another's, every success is the response to that very request, though
\* nothing in a response says so: what was damaged, split or late shows as an error
\* before it can be taken for another call's.
SyncSuccessIsOwn ==
  \A c \in Client : Succeeded(c) /\ ret[c].sure => ret[c].reply.n = ret[c].cur.n

\* Every call returns.
CallReturns == \A c \in Client : (pc[c] # "idle") ~> (pc[c] = "idle")
=============================================================================
