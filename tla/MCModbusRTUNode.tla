---------------------------- MODULE MCModbusRTUNode ----------------------------
(* Model-checking instance of ModbusRTUNode: requests to two slaves that differ *)
(* in one thing each.                                                          *)
EXTENDS ModbusRTUNode

Req(s, fc, q, cb) == [slave |-> s, fc |-> fc, q |-> q, cb |-> cb]

MCRequest == {Req(1, "read", 1, TRUE), Req(1, "read", 2, TRUE), Req(2, "read", 1, TRUE),
              Req(1, "write", 1, TRUE), Req(1, "write", 1, FALSE), Req(0, "write", 1, TRUE)}
=============================================================================
