------------------------------- MODULE SdCard -------------------------------
(***************************************************************************)
(* The block device of SD/src/utility/Sd2Card.cpp, as the volume code uses *)
(* it: blocks are read and written whole, one call at a time.              *)
(*                                                                         *)
(* Every operator of the SD modules takes and returns the record s of what *)
(* the library and the card hold; s.ok is the result of the last call.     *)
(* The card goes silent at block access s.io, which fails (s.met): it does *)
(* not answer the command, or (s.torn) it falls silent after that, which   *)
(* leaves a block that was being written written.  No byte of a block is   *)
(* read before the card's start token, so a failed read leaves its buffer   *)
(* alone.                                                                  *)
(***************************************************************************)
EXTENDS Naturals

CONSTANT Always   \* io of a card that does not fail: more than any call uses
ASSUME AlwaysAssumption == Always \in Nat

Ok(s) == [s EXCEPT !.ok = TRUE]
Fail(s) == [s EXCEPT !.ok = FALSE]

\* The rest of a call, skipped when what came before it returned false.
Then(s, F(_)) == IF s.ok THEN F(s) ELSE s

OrElse(s, F(_)) == IF s.ok THEN s ELSE F(s)

Used(s) == [s EXCEPT !.io = @ - 1]
Silent(s) == Fail([s EXCEPT !.met = TRUE])

Block(s) == DOMAIN s.disk

\* cardCommand with a block number, which the card refuses beyond its size
CardCommand(s, b) ==
  IF b \notin Block(s) THEN Fail(s)
  ELSE IF s.io = 0 /\ ~s.torn THEN Silent(s) ELSE Ok(s)

\* init: the card answers every command of the handshake, or it is not used.
CardInit(s) == IF s.io = 0 THEN Silent(s) ELSE Ok(Used(s))

\* waitStartBlock
WaitStartBlock(s) == IF s.io = 0 THEN Silent(s) ELSE Ok(Used(s))

\* readData of a whole block, to s.val
ReadData(s, b) ==
  Then(CardCommand(s, b), LAMBDA t :
    Then(WaitStartBlock(t), LAMBDA u : [u EXCEPT !.val = s.disk[b]]))

ReadBlock(s, b) == ReadData(s, b)

\* writeData: the card has the block.
WriteData(s, b, data) == Ok([s EXCEPT !.disk[b] = data])

\* waitNotBusy, and the status asked for after it
WaitNotBusy(s) == IF s.io = 0 THEN Silent(s) ELSE Ok(Used(s))

\* writeBlock: block zero is protected.
WriteBlock(s, b, data) ==
  IF b = 0 THEN Fail(s)
  ELSE Then(CardCommand(s, b), LAMBDA t : Then(WriteData(t, b, data), WaitNotBusy))
=============================================================================
