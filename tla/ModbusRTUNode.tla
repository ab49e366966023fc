----------------------------- MODULE ModbusRTUNode -----------------------------
(***************************************************************************)
(* ModbusRTU of modbus-esp: a master and its slaves on one serial bus, all *)
(* running the same task().                                                *)
(*                                                                         *)
(* task() is polled: it notes how many bytes are there, waits until no     *)
(* more come, and takes that many as one frame.  _len is at once the       *)
(* number of bytes noted and the length of the frame to send, so a send    *)
(* that leaves its length behind is read as bytes that are not there.      *)
(*                                                                         *)
(* A frame is two pieces here, so that it can be there in part; a request  *)
(* is shorter than the response it meets, as long, or longer: one to three *)
(* pieces.  Frames carry the number of their request, which only           *)
(* properties look at.                                                     *)
(***************************************************************************)
EXTENDS Integers, Sequences

CONSTANTS Slave,     \* ids of the slaves that are on the bus, of 1..247
          Request,   \* what the master's application asks: [slave, fc, q, cb]
          MaxSends,  \* bound: frames the master sends
          MaxFaults  \* bound: pieces the line damages or loses

\* slave 0 is a broadcast; q is the quantity; cb: with a callback.
ASSUME SlaveAssumption == Slave \subseteq 1..247
ASSUME RequestAssumption ==
  \A r \in Request : r.slave \in 0..247 /\ r.fc \in {"read", "write"} /\ r.cb \in BOOLEAN
ASSUME BoundAssumption == MaxSends \in Nat /\ MaxFaults \in Nat

Master == 0
Node == {Master} \cup Slave

VARIABLES
  len,      \* _len of each node, in pieces
  crit,     \* how often a node's task() has entered its critical section
  rx,       \* each node's serial receive buffer
  air,      \* pieces on their way to each node
  pending,  \* the request the master waits for: _slaveId, _sentFrame, _cb
  sends,    \* frames the master has sent
  called,   \* the callbacks it has made, in order: [for, code, with]: the
            \* request, the result and the response it was made with
  executed, \* requests carried out, with the slave that did
  faults,   \* pieces damaged or lost
  clean     \* no refused or unawaited send, and no error, so far

vars == <<len, crit, rx, air, pending, sends, called, executed, faults, clean>>

\* What a request leaves in _len, against a response of two pieces.
Stale == 1..3

\* Bound: an unbalanced section is not counted further.
Depth == -1..2
Entered(d) == IF d = 2 THEN 2 ELSE d + 1
Left(d) == IF d = -1 THEN -1 ELSE d - 1

NoRequest == [n |-> 0, req |-> [slave |-> 0, fc |-> "read", q |-> 1, cb |-> FALSE]]
Sent == [n : 0..MaxSends, req : Request \cup {NoRequest.req}]
Frame == [n : 1..MaxSends, req : Request, from : Node, exc : BOOLEAN]
Piece == [frame : Frame, part : {"head", "tail", "noise"}]

\* Result codes of a callback; the slave's exceptions count as one.
Result == {"EX_SUCCESS", "exception", "EX_DATA_MISMACH", "EX_TIMEOUT"}

TypeOK ==
  /\ len \in [Node -> Nat]
  /\ crit \in [Node -> Depth]
  /\ rx \in [Node -> Seq(Piece)]
  /\ air \in [Node -> Seq(Piece)]
  /\ pending \in Sent
  /\ sends \in 0..MaxSends
  /\ called \in Seq([for : Sent, code : Result, with : Frame \cup {NoRequest}])
  /\ executed \subseteq (1..MaxSends) \X Slave
  /\ faults \in 0..MaxFaults
  /\ clean \in BOOLEAN

Init ==
  /\ len = [i \in Node |-> 0]
  /\ crit = [i \in Node |-> 0]
  /\ rx = [i \in Node |-> <<>>]
  /\ air = [i \in Node |-> <<>>]
  /\ pending = NoRequest
  /\ sends = 0
  /\ called = <<>>
  /\ executed = {}
  /\ faults = 0
  /\ clean = TRUE

-----------------------------------------------------------------------------
Pieces(f) == <<[frame |-> f, part |-> "head"], [frame |-> f, part |-> "tail"]>>

\* rawSend: everyone else on the bus hears it.
OnAir(f) == [i \in Node |-> IF i = f.from THEN air[i] ELSE air[i] \o Pieces(f)]

\* Bytes with a good CRC: one whole frame.
Whole(ps, f) == ps = Pieces(f)
FramesIn(ps) == {ps[i].frame : i \in DOMAIN ps}

Busy == pending # NoRequest

-----------------------------------------------------------------------------
(* The application of the master: writeHreg, readHreg, pullCoil ... and send *)

\* A frame has been built over _frame and _len before send looks at _slaveId.
SendRefused(r) ==
  /\ Busy
  /\ \E left \in Stale : len' = [len EXCEPT ![Master] = left]
  /\ clean' = FALSE
  /\ UNCHANGED <<crit, rx, air, pending, sends, called, executed, faults>>

\* waitResponse: always for a read, for a write only with a callback.  A
\* broadcast sets _slaveId to 0: nothing is waited for.
Waits(r) == r.fc = "read" \/ r.cb

Send(r) ==
  /\ ~Busy
  /\ sends < MaxSends
  /\ sends' = sends + 1
  /\ air' = OnAir([n |-> sends + 1, req |-> r, from |-> Master, exc |-> FALSE])
  /\ pending' = IF Waits(r) /\ r.slave # 0 THEN [n |-> sends + 1, req |-> r] ELSE NoRequest
  /\ \E left \in IF Waits(r) THEN {0} ELSE Stale : len' = [len EXCEPT ![Master] = left]
  /\ clean' = (clean /\ Waits(r))
  /\ UNCHANGED <<crit, rx, called, executed, faults>>

-----------------------------------------------------------------------------
(* task() *)

\* More bytes than noted: note them and return, inside the critical section
\* that a first byte enters.
TaskNotes(i) ==
  /\ Len(rx[i]) > len[i]
  /\ len' = [len EXCEPT ![i] = Len(rx[i])]
  /\ crit' = [crit EXCEPT ![i] = IF len[i] = 0 THEN Entered(@) ELSE @]
  /\ UNCHANGED <<rx, air, pending, sends, called, executed, faults, clean>>

Quiet(i) == Len(rx[i]) <= len[i]

\* Mutant: portEXIT_CRITICAL stands after the early returns.
LeaveNever(i) == crit

\* With no bytes the section was entered in this very call.
Leave(i) == [crit EXCEPT ![i] = IF len[i] = 0 THEN @ ELSE Left(@)]

\* count reads; what is not there reads as 0xFF, and the frame is no frame.
Take(i, count) == IF count > Len(rx[i]) THEN <<>> ELSE SubSeq(rx[i], 1, count)
Rest(i, count) == SubSeq(rx[i], count + 1, Len(rx[i]))

\* masterPDU: an exception's code; a read's byte count against the quantity
\* asked; of a write's response nothing.
MasterPDU(req, f) ==
  IF f.exc THEN "exception"
  ELSE IF req.fc = "read" /\ f.req.q # req.q THEN "EX_DATA_MISMACH"
  ELSE "EX_SUCCESS"

Callback(p, code, f) ==
  called' = IF p.req.cb THEN Append(called, [for |-> p, code |-> code, with |-> f]) ELSE called

\* A frame from the slave that was asked, with the function code asked.
ForMaster(p, f) == p # NoRequest /\ f.from = p.req.slave /\ f.req.fc = p.req.fc

\* Rest of the master's task() once p is pending and count bytes are noted.
MasterFrame(p, count) ==
  /\ rx' = [rx EXCEPT ![Master] = Rest(Master, count)]
  /\ len' = [len EXCEPT ![Master] = 0]
  /\ IF \E f \in FramesIn(rx[Master]) : Whole(Take(Master, count), f) /\ ForMaster(p, f)
     THEN \E f \in FramesIn(rx[Master]) :
            /\ Whole(Take(Master, count), f) /\ ForMaster(p, f)
            /\ Callback(p, MasterPDU(p.req, f), f)
            /\ pending' = NoRequest
     ELSE pending' = p /\ called' = called

\* No bytes, or a quiet line for the inter-frame time.
MasterTask ==
  /\ Quiet(Master)
  /\ crit' = Leave(Master)
  /\ MasterFrame(pending, len[Master])
  /\ UNCHANGED <<air, sends, executed, faults, clean>>

\* Mutant: the request is forgotten but its callback is not made.
MasterTimeoutSilent ==
  /\ Quiet(Master) /\ Busy
  /\ crit' = Leave(Master)
  /\ len' = [len EXCEPT ![Master] = 0]
  /\ rx' = [rx EXCEPT ![Master] = Rest(Master, len[Master])]
  /\ pending' = NoRequest
  /\ clean' = FALSE
  /\ UNCHANGED <<air, sends, called, executed, faults>>

\* Mutant: the request stays pending.
MasterTimeoutKeeps ==
  /\ Quiet(Master) /\ Busy
  /\ crit' = Leave(Master)
  /\ len' = [len EXCEPT ![Master] = 0]
  /\ rx' = [rx EXCEPT ![Master] = Rest(Master, len[Master])]
  /\ Callback(pending, "EX_TIMEOUT", NoRequest)
  /\ clean' = FALSE
  /\ UNCHANGED <<air, pending, sends, executed, faults>>

\* cleanup first: the callback runs with the request still pending, so a retry
\* it makes is refused and leaves its length in _len.  What is then read meets
\* no pending request.
MasterTimeout ==
  /\ Quiet(Master) /\ Busy
  /\ crit' = Leave(Master)
  /\ \E count \in {len[Master]} \cup (IF pending.req.cb THEN Stale ELSE {}) :
       rx' = [rx EXCEPT ![Master] = Rest(Master, count)]
  /\ len' = [len EXCEPT ![Master] = 0]
  /\ Callback(pending, "EX_TIMEOUT", NoRequest)
  /\ pending' = NoRequest
  /\ clean' = FALSE
  /\ UNCHANGED <<air, sends, executed, faults>>

\* The slave's own address, or a broadcast.
Serves(i, f) == f.from = Master /\ f.req.slave \in {0, i}

SlaveTakes(i) ==
  /\ i # Master
  /\ Quiet(i) /\ len[i] # 0
  /\ crit' = Leave(i)
  /\ rx' = [rx EXCEPT ![i] = Rest(i, len[i])]
  /\ len' = [len EXCEPT ![i] = 0]
  /\ UNCHANGED <<pending, sends, called, faults, clean>>

\* Another's frame, or a bad CRC.
SlaveSkips(i) ==
  /\ SlaveTakes(i)
  /\ ~\E f \in FramesIn(rx[i]) : Whole(Take(i, len[i]), f) /\ Serves(i, f)
  /\ UNCHANGED <<air, executed>>

\* slavePDU carries the request out or answers with an exception; a broadcast
\* has no answer.
SlaveServes(i, exc) ==
  /\ SlaveTakes(i)
  /\ \E f \in FramesIn(rx[i]) :
       /\ Whole(Take(i, len[i]), f) /\ Serves(i, f)
       /\ executed' = IF exc THEN executed ELSE executed \cup {<<f.n, i>>}
       /\ air' = IF f.req.slave = 0 THEN air ELSE OnAir([f EXCEPT !.from = i, !.exc = exc])

-----------------------------------------------------------------------------
(* The line *)

Arrive(i) ==
  /\ air[i] # <<>>
  /\ rx' = [rx EXCEPT ![i] = Append(@, Head(air[i]))]
  /\ air' = [air EXCEPT ![i] = Tail(@)]
  /\ UNCHANGED <<len, crit, pending, sends, called, executed, faults, clean>>

Fault(i) ==
  /\ air[i] # <<>>
  /\ faults < MaxFaults
  /\ faults' = faults + 1
  /\ \/ air' = [air EXCEPT ![i] = Tail(@)]
     \/ air' = [air EXCEPT ![i][1].part = "noise"]
  /\ UNCHANGED <<len, crit, rx, pending, sends, called, executed, clean>>

-----------------------------------------------------------------------------
Task(i) ==
  \/ TaskNotes(i)
  \/ i = Master /\ (MasterTask \/ MasterTimeout)
  \/ SlaveSkips(i) \/ \E exc \in BOOLEAN : SlaveServes(i, exc)

Next ==
  \/ \E r \in Request : SendRefused(r) \/ Send(r)
  \/ \E i \in Node : Task(i) \/ Arrive(i) \/ Fault(i)

Spec == Init /\ [][Next]_vars

\* loop() goes on calling task(), millis() advances and bytes arrive.
FairSpec ==
  /\ Spec
  /\ WF_vars(Task(Master)) /\ WF_vars(MasterTimeout)
  /\ \A i \in Node : WF_vars(Arrive(i))

-----------------------------------------------------------------------------
(* Properties *)

\* A request's callback is made at most once, late responses and refused retries
\* notwithstanding; and while every request was waited for and none was refused
\* or timed out, with the response to that request, though nothing in a response
\* says which request it answers.
CalledOnceWithOwn ==
  /\ \A j, k \in DOMAIN called : j # k => called[j].for.n # called[k].for.n
  /\ clean => \A k \in DOMAIN called : called[k].with.n = called[k].for.n

\* A success, be it of a late response, stands for a request of that function
\* that the slave asked has carried out.
SuccessExecuted ==
  \A k \in DOMAIN called : LET c == called[k] IN
    c.code = "EX_SUCCESS" =>
      <<c.with.n, c.for.req.slave>> \in executed /\ c.with.req.fc = c.for.req.fc

\* A slave is inside its critical section exactly while it collects a frame.
SlaveSectionPaired == \A i \in Slave : crit[i] = IF len[i] = 0 THEN 0 ELSE 1

RefusedForEver == []<><<\E r \in Request : SendRefused(r)>>_vars

\* A request with a callback that was accepted is called back, unless the
\* application goes on making requests that are refused.
EveryRequestEnds ==
  \/ RefusedForEver
  \/ \A n \in 1..MaxSends :
       (pending.n = n /\ pending.req.cb) ~> (\E k \in DOMAIN called : called[k].for.n = n)

\* Types, and each slave's section entered and left in pairs.
NodesOK == TypeOK /\ SlaveSectionPaired

\* A callback says what became of the request it was given with.
CallbackTrue == CalledOnceWithOwn /\ SuccessExecuted
=============================================================================
