-------------------------- MODULE MCModbusRTUMaster --------------------------
(* Model-checking instance of MasterModbus: two requests are enough for   *)
(* a response to outlive its call and be met by a later one.                 *)
EXTENDS MasterModbus, TLC

CONSTANTS Kinds  \* which of the requests below the clients make

Multiple(a, d) == [id |-> 1, fc |-> 16, addr |-> a, arg |-> 1, data |-> d]
Single(a, v) == [id |-> 1, fc |-> 6, addr |-> a, arg |-> v, data |-> "-"]

Of(kind) ==
  CASE kind = "read" -> {IntRead(0), IntRead(2)}
    [] kind = "write" -> {Single(1, 7), Single(1, 8), Single(2, 7)}
    [] kind = "multiple" -> {Multiple(1, "x"), Multiple(1, "y")}
    [] kind = "broadcast" -> {[id |-> 0, fc |-> 6, addr |-> 1, arg |-> 7, data |-> "-"]}
    [] kind = "other" -> {[id |-> 2, fc |-> 3, addr |-> 1, arg |-> 2, data |-> "-"]}
    [] kind = "task" -> Task
    [] kind = "invalid" -> {[id |-> 1, fc |-> 3, addr |-> 1, arg |-> 126, data |-> "-"]}

MCRequest == UNION {Of(k) : k \in Kinds}
=============================================================================
