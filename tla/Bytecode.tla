------------------------------ MODULE Bytecode ------------------------------
(***************************************************************************)
(* Bytecode: how the compiler writes it byte by byte (the emit helpers of  *)
(* compiler.c), how the two readers that step over it without running it   *)
(* measure it (cemit.c, debug.c), and what an instruction does to the      *)
(* values of the stack (value.c and the helpers at the end of vm.c, which  *)
(* the interpreter, native code and emitted C all call).                   *)
(*                                                                         *)
(* The code is written in every order the compiler's discipline allows:    *)
(* operands are there, jumps join at one height. Compiler shows that the   *)
(* compiler keeps to that; this module is about the bytes.                 *)
(***************************************************************************)
EXTENDS Integers, SequencesExt

CONSTANTS
    Byte,        \* the number of values a byte has, 256 in the code
    Ints,        \* the number of integers
    Constants,   \* the constant pool
    Given,       \* bound: the values of parameters and of what helpers fetch
    Assembly,    \* bound: the sets of instructions programs are made of
    CodeMax      \* bound: instructions of a program, the last two left out

Number(n) == <<"int", n % Ints>>
Bool(b) == <<"bool", IF b THEN 1 ELSE 0>>
Nil == <<"nil", 0>>
Object == <<"obj", 0>>   \* any other value that is true: strings, functions, floats but 0.0
Value == {Number(n) : n \in 0 .. Ints - 1} \cup {Bool(TRUE), Bool(FALSE), Nil, Object}

ASSUME BytecodeAssumption ==
    /\ Byte \in Nat \ {0, 1}
    /\ Ints \in Nat \ {0, 1}
    /\ Constants \in [0 .. Byte * Byte - 1 -> Value]
    /\ Given \subseteq Value
    /\ CodeMax \in Nat

----------------------------------------------------------------------------
(* Instructions.                                                           *)
Arithmetic == {"ADD", "SUB", "MUL", "DIV", "MOD"}
Comparison == {"LESS", "LESS_EQUAL", "GREATER", "GREATER_EQUAL"}
BitOps     == {"BIT_AND", "BIT_OR", "BIT_XOR", "SHL", "SHR"}
Binary     == Arithmetic \cup Comparison \cup BitOps

(* The specialised instructions, and what each falls back on.              *)
Generic ==
    [IADD |-> "ADD", ISUB |-> "SUB", IMUL |-> "MUL", IDIV |-> "DIV", IMOD |-> "MOD",
     ILESS |-> "LESS", ILESS_EQUAL |-> "LESS_EQUAL",
     IGREATER |-> "GREATER", IGREATER_EQUAL |-> "GREATER_EQUAL"]
Typed == DOMAIN Generic

Wide ==
    [CONSTANT |-> "CONSTANT_W", DEFINE_GLOBAL |-> "DEFINE_GLOBAL_W",
     GET_GLOBAL |-> "GET_GLOBAL_W", SET_GLOBAL |-> "SET_GLOBAL_W",
     GET_FIELD |-> "GET_FIELD_W", SET_FIELD |-> "SET_FIELD_W", INVOKE |-> "INVOKE_W"]
Narrow == DOMAIN Wide
WideForms == {Wide[op] : op \in Narrow}
NarrowForm(op) == IF op \in WideForms THEN CHOOSE n \in Narrow : Wide[n] = op ELSE op

Counted      == {"CALL", "PRINT", "ARRAY"}
LocalAccess  == {"GET_LOCAL", "SET_LOCAL"}
Conditional  == {"JUMP_IF_FALSE", "JUMP_IF_TRUE"}
Forward      == {"JUMP"} \cup Conditional

(* How many values an instruction takes off the stack and leaves there; n  *)
(* is its operand count.                                                   *)
Takes(op, n) ==
    CASE op \in {"NIL", "TRUE", "FALSE", "CONSTANT", "GET_LOCAL", "GET_GLOBAL"} -> 0
      [] op \in Binary \cup Typed \cup {"EQUAL", "NOT_EQUAL", "INDEX_GET", "SET_FIELD"} -> 2
      [] op = "INDEX_SET" -> 3
      [] op \in {"CALL", "INVOKE"} -> n + 1
      [] op \in {"PRINT", "ARRAY"} -> n
      [] OTHER -> 1
Leaves(op) == IF op \in {"POP", "DEFINE_GLOBAL", "PRINT"} THEN 0 ELSE 1

----------------------------------------------------------------------------
(* Values and helpers.                                                     *)
IsInt(v) == v[1] = "int"
Truthy(v) == v = Object \/ (v[1] \in {"int", "bool"} /\ v[2] # 0)

DividesByZero(op, b) == op \in {"DIV", "MOD"} /\ b[2] = 0

(* The operators on integers. Those of the processor and of C are compared *)
(* in Operators; here they only have to be told apart.                     *)
OnInts(op, a, b) ==
    LET m == a[2]
        n == b[2]
    IN  CASE op = "ADD" -> Number(m + n)
          [] op = "SUB" -> Number(m - n)
          [] op = "MUL" -> Number(m * n)
          [] op = "DIV" -> Number(m \div n)
          [] op = "MOD" -> Number(m % n)
          [] op = "LESS" -> Bool(m < n)
          [] op = "LESS_EQUAL" -> Bool(m <= n)
          [] op = "GREATER" -> Bool(m > n)
          [] op = "GREATER_EQUAL" -> Bool(m >= n)
          [] OTHER -> Number(2 * m + n)

(* The values an operator may give, none if it is sure to fail: objects    *)
(* stand for strings and floats, which some operators accept.              *)
Apply(op, a, b) ==
    IF IsInt(a) /\ IsInt(b)
    THEN IF DividesByZero(op, b) THEN {} ELSE {OnInts(op, a, b)}
    ELSE IF Object \notin {a, b} \/ op \in BitOps THEN {}
    ELSE IF op \in Comparison THEN {Bool(TRUE), Bool(FALSE)} ELSE {Object}

(* What jit_h_* may leave for what it takes, and whether it may fail.      *)
Results(op, args) ==
    CASE op \in {"DEFINE_GLOBAL", "PRINT"} -> {<<>>}
      [] op \in {"SET_GLOBAL", "SET_FIELD", "INDEX_SET"} -> {<<Last(args)>>}
      [] op = "EQUAL" -> {<<Bool(args[1] = args[2])>>}
      [] op = "NOT_EQUAL" -> {<<Bool(args[1] # args[2])>>}
      [] op = "ARRAY" -> {<<Object>>}
      [] op \in Binary -> {<<v>> : v \in Apply(op, args[1], args[2])}
      [] op = "NEGATE" /\ IsInt(args[1]) -> {<<Number(-args[1][2])>>}
      [] op = "BIT_NOT" /\ IsInt(args[1]) -> {<<Number(args[1][2] + 1)>>}
      [] op \in {"NEGATE", "BIT_NOT"} -> {<<Object>>}
      [] OTHER -> {<<v>> : v \in Given}
MayFail(op, args) ==
    CASE op \in {"DEFINE_GLOBAL", "PRINT", "ARRAY", "EQUAL", "NOT_EQUAL"} -> FALSE
      [] op \in Binary \cup {"NEGATE", "BIT_NOT"} ->
            (\E i \in DOMAIN args : ~IsInt(args[i])) \/ Results(op, args) = {}
      [] OTHER -> TRUE

(* Operators have no effect but their result.                              *)
Pure == Binary \cup {"EQUAL", "NOT_EQUAL", "NEGATE", "BIT_NOT"}

----------------------------------------------------------------------------
VARIABLES
    code,      \* chunk->code
    marks,     \* where instructions start, and the height of the stack there
    height,    \* the height the compiler has reached
    falls,     \* the code written next can be reached from that before it
    pending,   \* jumps that wait for patch_jump
    assembly,  \* the instructions this program is made of
    compiled   \* "no", "yes", or "error": hadError

bytecodeVars == <<code, marks, height, falls, pending, assembly, compiled>>

(* The window of the call: its function and its parameter, above a value   *)
(* of the caller.                                                          *)
Slots == 2
NoCall == [op |-> "none", index |-> 0, args |-> <<>>]

(* A byte, with what it was written as.                                    *)
Opcode(op) == [op |-> op, val |-> 0]
Operand(n) == [op |-> "operand", val |-> n]

Max16 == Byte * Byte - 1
Short(n) == <<Operand((n \div Byte) % Byte), Operand(n % Byte)>>

InitBytecode ==
    /\ code = <<>> /\ marks = <<>> /\ pending = {}
    /\ height = 2          \* the function and its parameter
    /\ falls = TRUE
    /\ assembly \in Assembly
    /\ compiled = "no"

Compiling == compiled = "no"
Room == Compiling /\ Cardinality(DOMAIN marks) < CodeMax

Write(bytes, h) ==
    /\ code' = code \o bytes
    /\ marks' = (Len(code) :> height) @@ marks
    /\ height' = h
    /\ UNCHANGED assembly

(* emit_const_op.                                                          *)
EmitConstOp(op, index) ==
    IF index < Byte THEN <<Opcode(op), Operand(index)>>
    ELSE <<Opcode(Wide[op])>> \o Short(index)

Bytes(i) ==
    CASE i.op = "INVOKE" -> EmitConstOp(i.op, i.index) \o <<Operand(i.count)>>
      [] i.op \in Narrow -> EmitConstOp(i.op, i.index)
      [] i.op \in LocalAccess -> <<Opcode(i.op), Operand(i.index)>>
      [] i.op \in Counted -> <<Opcode(i.op), Operand(i.count)>>
      [] OTHER -> <<Opcode(i.op)>>

(* An instruction other than a jump. The locals stay on the stack.         *)
Emit ==
    /\ Room
    /\ \E i \in assembly :
          /\ i.op \notin Forward \cup {"LOOP"}
          /\ height - 2 >= Takes(i.op, i.count)
          /\ i.op \in LocalAccess => i.index < height
          /\ Write(Bytes(i), height - Takes(i.op, i.count) + Leaves(i.op))
          /\ falls' = (i.op # "RETURN")
    /\ UNCHANGED <<pending, compiled>>

EmitJump ==
    /\ Room
    /\ \E i \in assembly :
          /\ i.op \in Forward
          /\ i.op \in Conditional => height > 2
          /\ Write(<<Opcode(i.op)>> \o Short(Max16), height)
          /\ pending' = pending \cup {[at |-> Len(code) + 1, height |-> height]}
          /\ falls' = (i.op # "JUMP")
    /\ UNCHANGED compiled

JumpDistance(at) == Len(code) - at - 2

PatchJump ==
    /\ Compiling
    /\ \E p \in pending :
          /\ falls => p.height = height
          /\ height' = p.height
          /\ code' = LET s == Short(JumpDistance(p.at))
                     IN  [code EXCEPT ![p.at + 1] = s[1], ![p.at + 2] = s[2]]
          /\ compiled' = IF JumpDistance(p.at) > Max16 THEN "error" ELSE "no"
          /\ pending' = pending \ {p}
    /\ falls' = TRUE
    /\ UNCHANGED <<marks, assembly>>

EmitLoop ==
    /\ Room
    /\ \E i \in assembly : i.op = "LOOP"
    /\ \E start \in DOMAIN marks :
          /\ marks[start] = height
          /\ LET offset == Len(code) + 1 - start + 2
             IN  /\ Write(<<Opcode("LOOP")>> \o Short(offset), height)
                 /\ compiled' = IF offset > Max16 THEN "error" ELSE "no"
    /\ falls' = FALSE
    /\ UNCHANGED pending

(* emit_return, at the end of every function.                              *)
EmitReturn ==
    /\ Compiling /\ pending = {} /\ code # <<>>
    /\ code' = code \o <<Opcode("NIL"), Opcode("RETURN")>>
    /\ marks' = (Len(code) :> height) @@ (Len(code) + 1 :> height + 1) @@ marks
    /\ compiled' = "yes"
    /\ UNCHANGED <<height, falls, pending, assembly>>

Compile == Emit \/ EmitJump \/ PatchJump \/ EmitLoop \/ EmitReturn

----------------------------------------------------------------------------
(* Readers that step over code.                                            *)
At(o) == code[o + 1].op
ByteAt(o) == code[o + 1].val
ShortAt(o) == ByteAt(o) * Byte + ByteAt(o + 1)

(* instr_len, by which pass 1 and pass 2 of the emitter of C walk.         *)
(* Mutant: the argument count of a wide invocation is forgotten.           *)
InstrLenNoCount(op) ==
    CASE op \in (Narrow \ {"INVOKE"}) \cup Counted \cup LocalAccess -> 2
      [] op \in Forward \cup {"LOOP", "INVOKE"} \cup WideForms -> 3
      [] OTHER -> 1
InstrLen(op) ==
    CASE op \in (Narrow \ {"INVOKE"}) \cup Counted \cup LocalAccess -> 2
      [] op \in Forward \cup {"LOOP", "INVOKE"} \cup (WideForms \ {"INVOKE_W"}) -> 3
      [] op = "INVOKE_W" -> 4
      [] OTHER -> 1

(* disassemble_instruction: the lengths of the forms it prints.            *)
Disassembled(op) ==
    CASE op \in {"INVOKE"} -> 3                                   \* invoke
      [] op \in {"INVOKE_W"} -> 4                                 \* invoke16
      [] op \in WideForms -> 3                                    \* constant16
      [] op \in Narrow -> 2                                       \* constant
      [] op \in {"GET_LOCAL", "SET_LOCAL", "CALL", "PRINT", "ARRAY"} -> 2  \* byte
      [] op \in {"JUMP", "JUMP_IF_FALSE", "JUMP_IF_TRUE", "LOOP"} -> 3     \* jump
      [] OTHER -> 1                                               \* simple

(* Where a jump lands: jump_target, and the JIT's walker.                  *)
JumpTarget(o) == o + 3 + (IF At(o) = "LOOP" THEN -ShortAt(o + 1) ELSE ShortAt(o + 1))

NextMark(o) ==
    CHOOSE n \in (DOMAIN marks \cup {Len(code)}) :
       n > o /\ \A m \in DOMAIN marks : m <= o \/ m >= n
=============================================================================
