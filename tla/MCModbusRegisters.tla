--------------------------- MODULE MCModbusRegisters ---------------------------
(* Model-checking instance of ModbusRegisters: a callback that keeps the old *)
(* value and one that answers with a value of its own.                       *)
EXTENDS ModbusRegisters

CONSTANTS Callbacks  \* which of the callbacks below are used

Keep == [x \in Val \X Val |-> x[1]]
Own == [x \in Val \X Val |-> 1]

MCVal == {0, 1, On}
MCData == {<<>>, <<1>>, <<On, 0>>, <<0, 1>>, <<1, 1, 1>>}
MCCb == {IF name = "keep" THEN Keep ELSE Own : name \in Callbacks}
=============================================================================
