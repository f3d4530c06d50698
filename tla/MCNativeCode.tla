---------------------------- MODULE MCNativeCode ----------------------------
EXTENDS NativeCode

Plain(ops) == {[op |-> op, index |-> 0, count |-> 0] : op \in ops}
Indexed(op, is) == {[op |-> op, index |-> i, count |-> 0] : i \in is}
CountedOp(op, ns) == {[op |-> op, index |-> 0, count |-> n] : n \in ns}

Integers1 == Plain({"SUB", "IDIV", "POP", "JUMP_IF_FALSE", "LOOP"})
    \cup Indexed("GET_LOCAL", {1}) \cup Indexed("CONSTANT", {0, 1})
Relations == Plain({"ILESS", "GREATER_EQUAL", "NOT_EQUAL", "TRUE", "JUMP", "JUMP_IF_TRUE"})
    \cup Indexed("GET_LOCAL", {1}) \cup Indexed("SET_LOCAL", {1})
Calls == Plain({"RETURN", "JUMP_IF_TRUE"}) \cup Indexed("GET_GLOBAL", {0}) \cup Indexed("SET_GLOBAL", {1})
    \cup CountedOp("CALL", {0, 1}) \cup CountedOp("PRINT", {1}) \cup Indexed("GET_LOCAL", {1})
WideNames == Plain({"NOT", "EQUAL", "JUMP"}) \cup Indexed("CONSTANT", {0, 3})
    \cup Indexed("GET_GLOBAL", {2}) \cup Indexed("SET_GLOBAL", {3}) \cup Indexed("DEFINE_GLOBAL", {1, 3})
Objects == Plain({"INDEX_GET", "INDEX_SET", "JUMP_IF_FALSE", "FALSE"})
    \cup CountedOp("ARRAY", {1}) \cup Indexed("GET_FIELD", {1, 5}) \cup Indexed("SET_FIELD", {0, 3})
Methods == Plain({"NEGATE", "BIT_NOT", "SHL", "NIL", "LOOP"}) \cup Indexed("GET_LOCAL", {1})
    \cup {[op |-> "INVOKE", index |-> i, count |-> n] : i \in {1, 4}, n \in {0, 1}}

MCGiven == {Number(0), Number(1), Object}

MCAssembly == {Integers1, Relations, Calls, WideNames, Objects, Methods}
MCConstants == [i \in 0 .. 8 |-> CASE i = 0 -> Number(0) [] i = 1 -> Number(2)
                                   [] i = 2 -> Nil [] OTHER -> Object]

=============================================================================
