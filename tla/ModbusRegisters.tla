---------------------------- MODULE ModbusRegisters ----------------------------
(***************************************************************************)
(* The Modbus class of modbus-esp: a table of registers, the callbacks an  *)
(* application installs on them, and slavePDU, which serves a request from *)
(* the table.  Everything runs in the application's loop, so a request is  *)
(* one step.                                                               *)
(*                                                                         *)
(* A callback is a function of the register's value and of the value that  *)
(* is passed on; Cb are the functions an application installs.             *)
(*                                                                         *)
(* The names of its specification begin with Registers: ModbusProofs takes *)
(* this module together with ModbusRTUNode.                                *)
(***************************************************************************)
EXTENDS Naturals, Sequences

CONSTANTS Type,         \* register types in use, of "COIL", "ISTS", "IREG", "HREG"
          Space,        \* register addresses are modulo Space: 2^16 in the code
          Val,          \* register values; 0 and On among them
          On,           \* 0xFF00, the value of a coil that is on
          Most,         \* the largest quantity of a request: 0x7B to 0x7D0
          Data,         \* the values multiple writes carry
          Cb,           \* callbacks: functions from <<value, new value>> to a value
          MaxCallbacks, \* bound: callbacks installed at a time
          Absent, None  \* no register; no request served

ASSUME SpaceAssumption == Space \in Nat \ {0}
ASSUME ValAssumption == 0 \in Val /\ On \in Val /\ On # 0
ASSUME AbsentAssumption == Absent \notin Val
ASSUME MostAssumption == Most \in Nat
ASSUME DataAssumption == Data \subseteq Seq(Val)
ASSUME CbAssumption == \A f \in Cb : f \in [Val \X Val -> Val]

VARIABLES
  regs,       \* _regs: no address twice, so a function
  callbacks,  \* _callbacks, in the order they were installed
  cbEnabled,
  served      \* the last request slavePDU served and its response

registerVars == <<regs, callbacks, cbEnabled, served>>

Address == [type : Type, address : 0..(Space - 1)]
Event == {"ON_SET", "ON_GET"}
TCallback == [type : Event, address : Address, cb : Cb]

\* a + k: the address wraps, the type stays.
Plus(a, k) == [a EXCEPT !.address = (@ + k) % Space]
Span(a, n) == {Plus(a, k) : k \in 0..(n - 1)}

IsBit(a) == a.type \in {"COIL", "ISTS"}
AsBit(v) == IF v = On THEN On ELSE 0

WriteSingle == [op : {"write"}, at : Address, value : Val]
\* sized: the byte count agrees with the quantity.
WriteMultiple == [op : {"write_multiple"}, at : Address, sized : BOOLEAN,
                  data : Data]
Read == [op : {"read"}, at : Address, quantity : 0..(Most + 1)]
Unknown == [op : {"unknown"}]

Reply == [kind : {"echo", "normal", "exception"}, code : 0..4, data : Seq(Val)]

RegistersTypeOK ==
  /\ regs \in [Address -> Val \cup {Absent}]
  /\ callbacks \in Seq(TCallback)
  /\ cbEnabled \in BOOLEAN
  /\ \/ served = None
     \/ served.reply \in Reply /\ served.request \in WriteSingle \cup WriteMultiple \cup Read \cup Unknown

RegistersInit ==
  /\ regs = [a \in Address |-> Absent]
  /\ callbacks = <<>>
  /\ cbEnabled = TRUE
  /\ served = None

-----------------------------------------------------------------------------
(* The table *)

Exists(a) == regs[a] # Absent

\* callback(): every callback of that kind on the register, one after another.
Called(event, a, old, value) ==
  LET after[k \in 0..Len(callbacks)] ==
        IF k = 0 THEN value
        ELSE IF callbacks[k].type = event /\ callbacks[k].address = a
             THEN callbacks[k].cb[<<old, after[k - 1]>>]
        ELSE after[k - 1]
  IN IF cbEnabled THEN after[Len(callbacks)] ELSE value

\* Reg(address, value) on a table t.
Stored(t, a, value) ==
  IF t[a] = Absent THEN t ELSE [t EXCEPT ![a] = Called("ON_SET", a, t[a], value)]

\* Reg(address)
Value(t, a) == IF t[a] = Absent THEN 0 ELSE Called("ON_GET", a, t[a], t[a])

AddReg(a, value, n) ==
  /\ regs' = [b \in Address |-> IF b \in Span(a, n) /\ ~Exists(b) THEN value ELSE regs[b]]
  /\ served' = None
  /\ UNCHANGED <<callbacks, cbEnabled>>

\* The callbacks that are not in gone, in their order.
CallbacksWithout(gone) ==
  LET kept[k \in 0..Len(callbacks)] ==
        IF k = 0 THEN <<>>
        ELSE IF callbacks[k] \in gone THEN kept[k - 1]
        ELSE Append(kept[k - 1], callbacks[k])
  IN kept[Len(callbacks)]

\* Mutant: the register's ON_GET callbacks stay.
RemoveRegOnly(a, n) ==
  LET gone == {b \in Span(a, n) : Exists(b)} IN
  /\ regs' = [b \in Address |-> IF b \in gone THEN Absent ELSE regs[b]]
  /\ callbacks' = CallbacksWithout({e \in TCallback : e.address \in gone /\ e.type # "ON_GET"})
  /\ served' = None
  /\ UNCHANGED cbEnabled

RemoveReg(a, n) ==
  LET gone == {b \in Span(a, n) : Exists(b)} IN
  /\ regs' = [b \in Address |-> IF b \in gone THEN Absent ELSE regs[b]]
  /\ callbacks' = CallbacksWithout({e \in TCallback : e.address \in gone})
  /\ served' = None
  /\ UNCHANGED cbEnabled

\* The application writes a register, through its callbacks.
SetReg(a, value) ==
  /\ regs' = Stored(regs, a, value)
  /\ served' = None
  /\ UNCHANGED <<callbacks, cbEnabled>>

\* onGet, onSet: only on registers that exist.
Install(event, a, cb) ==
  /\ Exists(a)
  /\ Len(callbacks) < MaxCallbacks
  /\ callbacks' = Append(callbacks, [type |-> event, address |-> a, cb |-> cb])
  /\ served' = None
  /\ UNCHANGED <<regs, cbEnabled>>

Uninstall(event, a) ==
  /\ callbacks' = CallbacksWithout({e \in TCallback : e.type = event /\ e.address = a})
  /\ served' = None
  /\ UNCHANGED <<regs, cbEnabled>>

\* onGet and onSet with no callback both end in removeOnGet.
OnGetNone(a) == Uninstall("ON_GET", a)
OnSetNone(a) == Uninstall("ON_GET", a)

RemoveOne(event, a, cb) ==
  /\ callbacks' = CallbacksWithout({[type |-> event, address |-> a, cb |-> cb]})
  /\ served' = None
  /\ UNCHANGED <<regs, cbEnabled>>

CbEnable(state) ==
  /\ cbEnabled' = state
  /\ served' = None
  /\ UNCHANGED <<regs, callbacks>>

-----------------------------------------------------------------------------
(* slavePDU *)

ILLEGAL_FUNCTION == 1
ILLEGAL_ADDRESS == 2
ILLEGAL_VALUE == 3
SLAVE_FAILURE == 4

Respond(request, table, kind, code, data) ==
  /\ regs' = table
  /\ served' = [request |-> request, reply |-> [kind |-> kind, code |-> code, data |-> data]]
  /\ UNCHANGED <<callbacks, cbEnabled>>

Exception(request, table, code) == Respond(request, table, "exception", code, <<>>)

\* Mutant: the register is not read back.
ServeWriteUnread(r) ==
  LET after == Stored(regs, r.at, r.value) IN
  /\ r.at.type \in {"COIL", "HREG"}
  /\ IF IsBit(r.at) /\ r.value \notin {0, On} THEN Exception(r, regs, ILLEGAL_VALUE)
     ELSE IF ~Exists(r.at) THEN Exception(r, regs, ILLEGAL_ADDRESS)
     ELSE Respond(r, after, "echo", 0, <<>>)

\* FC_WRITE_REG and FC_WRITE_COIL: store the value, then read it back.
ServeWrite(r) ==
  LET after == Stored(regs, r.at, r.value)
      back == Value(after, r.at)
      same == IF IsBit(r.at) THEN AsBit(back) = r.value ELSE back = r.value
  IN
  /\ r.at.type \in {"COIL", "HREG"}
  /\ IF IsBit(r.at) /\ r.value \notin {0, On} THEN Exception(r, regs, ILLEGAL_VALUE)
     ELSE IF ~Exists(r.at) THEN Exception(r, regs, ILLEGAL_ADDRESS)
     ELSE IF ~same THEN Exception(r, after, SLAVE_FAILURE)
     ELSE Respond(r, after, "echo", 0, <<>>)

\* setMultipleWords, setMultipleBits
StoredAll(a, data) ==
  LET table[k \in 0..Len(data)] ==
        IF k = 0 THEN regs
        ELSE Stored(table[k - 1], Plus(a, k - 1), IF IsBit(a) THEN AsBit(data[k]) ELSE data[k])
  IN table[Len(data)]

\* Mutant: each register is written as it is checked.
ServeWriteAsChecked(r) ==
  /\ r.at.type \in {"COIL", "HREG"}
  /\ IF ~r.sized \/ Len(r.data) \notin 1..Most THEN Exception(r, regs, ILLEGAL_VALUE)
     ELSE IF \E b \in Span(r.at, Len(r.data)) : ~Exists(b)
          THEN Exception(r, StoredAll(r.at, r.data), ILLEGAL_ADDRESS)
     ELSE Respond(r, StoredAll(r.at, r.data), "normal", 0, <<>>)

\* FC_WRITE_REGS and FC_WRITE_COILS: every address is checked before any is
\* written, and nothing is read back.
ServeWriteMultiple(r) ==
  /\ r.at.type \in {"COIL", "HREG"}
  /\ IF ~r.sized \/ Len(r.data) \notin 1..Most THEN Exception(r, regs, ILLEGAL_VALUE)
     ELSE IF \E b \in Span(r.at, Len(r.data)) : ~Exists(b)
          THEN Exception(r, regs, ILLEGAL_ADDRESS)
     ELSE Respond(r, StoredAll(r.at, r.data), "normal", 0, <<>>)

\* readWords, readBits: only the first address is checked; a register that does
\* not exist reads as 0.
ServeRead(r) ==
  IF r.quantity \notin 1..Most THEN Exception(r, regs, ILLEGAL_VALUE)
  ELSE IF ~Exists(r.at) THEN Exception(r, regs, ILLEGAL_ADDRESS)
  ELSE Respond(r, regs, "normal", 0,
               [k \in 1..r.quantity |->
                  LET v == Value(regs, Plus(r.at, k - 1))
                  IN IF IsBit(r.at) THEN AsBit(v) ELSE v])

ServeUnknown(r) == Exception(r, regs, ILLEGAL_FUNCTION)

-----------------------------------------------------------------------------
Application ==
  \/ \E a \in Address, v \in Val, n \in 1..2 :
       (IsBit(a) => v \in {0, On}) /\ AddReg(a, v, n)
  \/ \E a \in Address, n \in 1..2 : RemoveReg(a, n)
  \/ \E a \in Address, v \in Val : (IsBit(a) => v \in {0, On}) /\ SetReg(a, v)
  \/ \E event \in Event, a \in Address, cb \in Cb :
       Install(event, a, cb) \/ RemoveOne(event, a, cb)
  \/ \E event \in Event, a \in Address : Uninstall(event, a)
  \/ \E a \in Address : OnGetNone(a) \/ OnSetNone(a)
  \/ \E state \in BOOLEAN : CbEnable(state)

slavePDU ==
  \/ \E r \in WriteSingle : ServeWrite(r)
  \/ \E r \in WriteMultiple : ServeWriteMultiple(r)
  \/ \E r \in Read : ServeRead(r)
  \/ \E r \in Unknown : ServeUnknown(r)

RegistersNext == Application \/ slavePDU

RegistersSpec == RegistersInit /\ [][RegistersNext]_registerVars

-----------------------------------------------------------------------------
(* Properties *)

Answered(op, kind) ==
  served # None /\ served.request.op = op /\ served.reply.kind = kind

Observed(a) == cbEnabled /\ \E i \in DOMAIN callbacks : callbacks[i].address = a

\* A callback is only ever installed on a register of the table: a register that
\* is removed and added again does not wake the callbacks of its former life.
CallbackHasRegister == \A i \in DOMAIN callbacks : Exists(callbacks[i].address)

\* An address or value exception leaves the table as it was: a multiple write
\* across registers of which one is missing writes none of them.
ExceptionWritesNothing ==
  [][served' # None /\ served'.reply.code \in {ILLEGAL_FUNCTION, ILLEGAL_ADDRESS, ILLEGAL_VALUE}
       => UNCHANGED regs]_registerVars

\* A single write is echoed only when the next read of the register gives back
\* what was written, whatever the callbacks on it make of the value.
EchoReadsBack ==
  Answered("write", "echo") =>
    LET r == served.request
        back == Value(regs, r.at)
    IN (IF IsBit(r.at) THEN AsBit(back) ELSE back) = r.value

\* A multiple write that succeeds has written every register of its range, the
\* ones past the end of the address space included, to the value the request
\* gives it, unless a callback on that register decides otherwise or the range
\* is longer than the address space.
MultipleWriteStored ==
  Answered("write_multiple", "normal") /\ Len(served.request.data) <= Space =>
    LET r == served.request IN
    \A k \in DOMAIN r.data : LET a == Plus(r.at, k - 1) IN
      Observed(a) \/ regs[a] = (IF IsBit(a) THEN AsBit(r.data[k]) ELSE r.data[k])

\* The table: types, and no callback without its register.
TableOK == RegistersTypeOK /\ CallbackHasRegister

\* What a write is answered with is what the table holds then.
WritesShow == EchoReadsBack /\ MultipleWriteStored
=============================================================================
