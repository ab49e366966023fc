------------------------------ MODULE ModbusADU ------------------------------
(***************************************************************************)
(* The frame buffer of ModbusADU.cpp and the arithmetic ModbusRTUMaster    *)
(* does on it: one 262 byte array seen as a TCP frame (offset 0), an RTU   *)
(* frame (6), a PDU (7) and its data (8); one length field, from which all *)
(* the lengths are derived; CRC bytes written after the frame.             *)
(***************************************************************************)
EXTENDS Integers

AduBytes == 262
Rtu(i) == 6 + i        \* offsets in _adu of rtu[i] and data[i]
Data(i) == 8 + i

U8(n) == n % 256
U16(n) == n % 65536

Div8RndUp(n) == (n + 7) \div 8

-----------------------------------------------------------------------------
(* The length field: what setLength stores, what the getters return.       *)

LegalLength == 3..254
SetLength(n) == IF n \in LegalLength THEN n ELSE 0
SetRtuLen(n) == SetLength(U16(n - 2))
SetDataLen(n) == SetLength(U16(n + 2))
GetLength(len) == IF len \in LegalLength THEN len ELSE 0
GetRtuLen(len) == IF GetLength(len) = 0 THEN 0 ELSE len + 2
GetDataLen(len) == IF GetLength(len) = 0 THEN 0 ELSE len - 2

-----------------------------------------------------------------------------
(* The master's requests and the responses it accepts.                     *)

ReadBits == {1, 2}
ReadWords == {3, 4}
WriteSingle == {5, 6}
WriteBits == {15}
WriteWords == {16}
FunctionCode == ReadBits \cup ReadWords \cup WriteSingle \cup WriteBits \cup WriteWords

\* Mutant: the 128 registers that an 8 bit byte count cannot hold.
MaxQuantityLoose(fc) ==
  CASE fc \in ReadBits -> 2000
    [] fc \in ReadWords -> 128
    [] fc \in WriteSingle -> 1
    [] fc \in WriteBits -> 1968
    [] OTHER -> 128

MaxQuantity(fc) ==
  CASE fc \in ReadBits -> 2000
    [] fc \in ReadWords -> 125
    [] fc \in WriteSingle -> 1
    [] fc \in WriteBits -> 1968
    [] OTHER -> 123

ByteCount(fc, q) ==
  IF fc \in ReadBits \cup WriteBits THEN Div8RndUp(q) ELSE q * 2

\* Bytes of data in the request.
RequestLen(fc, q) ==
  IF fc \in WriteBits \cup WriteWords THEN 5 + ByteCount(fc, q) ELSE 4

\* Index in data of the byte, or of the register's high byte, that carries
\* the i-th value of a multiple write: setDataRegister's index is a uint8_t.
WriteIndex(fc, i) == IF fc \in WriteBits THEN 5 + i \div 8 ELSE U8(5 + i * 2)

\* The same in the response to a read.
ReadIndex(fc, i) == IF fc \in ReadBits THEN 1 + i \div 8 ELSE U8(1 + i * 2)
=============================================================================
