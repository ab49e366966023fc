----------------------------- MODULE FrameSizes -----------------------------
(***************************************************************************)
(* Every request ModbusRTUMaster's guards let through, measured against    *)
(* the frame buffer of ModbusADU.                                          *)
(***************************************************************************)
EXTENDS ModbusADU

VARIABLES fc, quantity

First == fc \in FunctionCode /\ quantity = 1

\* The quantities up to the guard's limit.
NextQuantity ==
  /\ quantity < MaxQuantity(fc)
  /\ quantity' = quantity + 1
  /\ UNCHANGED fc

Quantities == First /\ [][NextQuantity]_<<fc, quantity>>

\* The quantities the walk is at are those the guards accept.
QuantityOK == fc \in FunctionCode /\ quantity \in 1..MaxQuantity(fc)

-----------------------------------------------------------------------------
(* Properties *)

\* Every request the quantity guards let through has a length the length field
\* can hold (setLength would store 0 and writeAdu send nothing), and its CRC,
\* written behind it, stays inside the buffer.
RequestFits ==
  LET len == SetDataLen(RequestLen(fc, quantity))
  IN /\ GetDataLen(len) = RequestLen(fc, quantity)
     /\ Rtu(len + 1) < AduBytes
     /\ GetRtuLen(len) \in 1..256

\* The values of a multiple write fill exactly the bytes behind the byte count:
\* the 8 bit index never wraps onto the header and nothing lands past the end.
WritesFillData ==
  fc \in WriteBits \cup WriteWords =>
    LET width == IF fc \in WriteBits THEN 1 ELSE 2
        bytes == {WriteIndex(fc, i) + b : i \in 0..(quantity - 1), b \in 0..(width - 1)}
    IN bytes = 5..(RequestLen(fc, quantity) - 1)

\* The response to a read fits the 256 bytes readAdu collects, its byte count
\* fits a byte, and every value is taken from inside the accepted length.
ResponseFits ==
  fc \in ReadBits \cup ReadWords =>
    LET n == 1 + ByteCount(fc, quantity)
        width == IF fc \in ReadBits THEN 1 ELSE 2
    IN /\ GetDataLen(SetRtuLen(n + 4)) = n
       /\ U8(ByteCount(fc, quantity)) = ByteCount(fc, quantity)
       /\ \A i \in 0..(quantity - 1) : ReadIndex(fc, i) \in 1..(n - width)

\* What a request and its response take fits the frame buffer, and is filled and
\* read where it is.
FramesFit == RequestFits /\ WritesFillData /\ ResponseFits
=============================================================================
