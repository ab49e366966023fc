---------------------------- MODULE MasterModbus ----------------------------
(***************************************************************************)
(* controller/MasterModbus.cpp on top of ModbusRTUMaster: the reads of     *)
(* holding registers the recorder threads and the web task make.           *)
(*                                                                         *)
(* readHoldingRegisters of the library returns an error code, 0 for        *)
(* success; MasterModbus takes it for a success flag.  The integer read    *)
(* returns its buffer whatever became of the call; the reads of a pair     *)
(* return their buffer after a failure, when nothing has filled it, and 0  *)
(* after a success.                                                        *)
(***************************************************************************)
EXTENDS ModbusRTUMaster

\* Addresses count from 1, frames from 0; an address is 16 bits wide.
ReadOf(address, quantity) ==
  [id |-> 1, fc |-> 3, addr |-> U16(address - 1), arg |-> quantity, data |-> "-"]

IntRead(address) == ReadOf(address, 1)
PairRead(address) == ReadOf(address, 2)

\* The reads of task().
Task == {PairRead(122), IntRead(500)}

\* What a word can be: uninitialised, zero, or the slave's register of an address.
Uninitialised == <<"uninitialised">>
Zero == <<"zero">>
RegisterAt(a) == <<"register", a>>

\* holdingRegisters[] after the call: filled on success only.
Buffer(c) ==
  IF ret[c].code = "success" THEN RegisterAt(ret[c].reply.req.addr) ELSE Uninitialised

\* if (success), of an error code.
TakenForSuccess(c) == ret[c].code # "success"

IntResult(c) == Buffer(c)

FloatResult(c) == IF TakenForSuccess(c) THEN Buffer(c) ELSE Zero

ValueResult(c) == IF TakenForSuccess(c) THEN Buffer(c) ELSE Zero

Result(c) ==
  LET r == ret[c].cur.req IN
  CASE r.fc = 3 /\ r.arg = 1 -> {IntResult(c)}
    [] r.fc = 3 /\ r.arg = 2 -> {FloatResult(c), ValueResult(c)}
    [] OTHER -> {}

-----------------------------------------------------------------------------
(* Properties *)

\* A read never gives its caller the register of another address, from a call on a
\* quiet line until one ends in an error or overlaps another's.  A recorder stores
\* what it read under the address it asked for.
ReadsNoOther ==
  \A c \in Client :
    ret[c].sure => Result(c) \subseteq {RegisterAt(ret[c].cur.req.addr), Zero, Uninitialised}

\* From a call on a quiet line until one ends in an error, a write that is reported
\* was carried out, and a success and a read are of the call that reports them;
\* otherwise, a write with the same response was carried out.
ResultIsOwn == WriteHappened /\ SyncSuccessIsOwn /\ ReadsNoOther
=============================================================================
