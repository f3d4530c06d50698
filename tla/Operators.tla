------------------------------ MODULE Operators ------------------------------
(***************************************************************************)
(* What an expression is before the program runs and when it runs. Each    *)
(* action takes the checker (typecheck.c) and the virtual machine over the *)
(* same operator: the operands on the stack have the static type that the  *)
(* checker gave them and the value they are at run time. The virtual       *)
(* machine has several ways to execute an operator: the generic opcodes,   *)
(* those specialised to integers, the native code of the JIT, and the C    *)
(* code of the AOT compiler.                                               *)
(***************************************************************************)
EXTENDS Integers, Sequences, FiniteSets, Bitwise

CONSTANTS
    Bits,        \* the width of an integer, 64 in the code
    FloatBits,   \* the width of a float's significand, 53 in the code
    Floats,      \* bound: the floats, besides NaN, that programs compute
    Strings,     \* bound: how many strings there are; they are ordered
    Elements,    \* bound: the tags of the values read from arrays
    Classes,
    Declared,    \* bound: the types that variables are declared with
    Fields,      \* of each class, in order: [name, type]
    Methods,     \* of each class: the names
    Functions,   \* bound: [params, returns, body], see Call
    Traps        \* dividing the least integer by -1 traps, as it does on x86

ASSUME OperatorsAssumption ==
    /\ Bits \in Nat \ {0} /\ FloatBits \in Nat \ {0} /\ Strings \in Nat
    /\ Floats \subseteq Int
    /\ Traps \in BOOLEAN

VARIABLES
    stack,      \* the operands: [type, value, pure]
    slot,       \* a variable: its declared type, its value, and pure
    rejected,   \* tc.hadError
    outcome,    \* "running", or how the last operator ended the program
    exact       \* of a rejected operator: its operands were of their types

vars == <<stack, slot, rejected, outcome, exact>>

-----------------------------------------------------------------------------
(* Values and static types. An instance's tag is its class, and so is the  *)
(* type TY_INSTANCE of that class. Integer types are all one, and a U0     *)
(* slot is of the unknown type (parser.c:119-126).                         *)

Val(tag, n) == [tag |-> tag, n |-> n]
Nil == Val("nil", 0)
Bool(b) == Val("bool", IF b THEN 1 ELSE 0)
Half == 2 ^ (Bits - 1)
Ints == -Half .. Half - 1
NaN == Val("nan", 0)

FloatValues == {NaN} \cup {Val("float", n) : n \in Floats}
StringValues == {Val("string", n) : n \in 1 .. Strings}
Values == {Val("int", n) : n \in Ints} \cup FloatValues \cup StringValues
            \cup {Nil, Bool(TRUE), Bool(FALSE), Val("array", 0)}
            \cup {Val(c, 0) : c \in Classes}

Declarable == {"int", "float", "bool", "array", "unknown"} \cup Classes
ASSUME DeclaredAssumption == Declared \subseteq Declarable

Types == Declarable \cup {"string", "nil"}

IsInt(v) == v.tag = "int"
IsFloat(v) == v.tag \in {"float", "nan"}
IsNumber(v) == IsInt(v) \/ IsFloat(v)
IsString(v) == v.tag = "string"

(* What a value of type t may be: the unknown type promises nothing, and   *)
(* nil is of every class.                                                  *)
HasType(v, t) ==
    \/ t \in {"unknown", v.tag}
    \/ t = "float" /\ v = NaN
    \/ t \in Classes /\ v = Nil

LiteralType(v) == IF IsFloat(v) THEN "float" ELSE v.tag
IsNumeric(t) == t \in {"int", "float"}

(* Mutant: any instance fits any class.                                    *)
AssignableAnyClass(dst, src) ==
    CASE "unknown" \in {dst, src} \/ src = "nil" -> TRUE
      [] dst \in Classes -> src \in Classes
      [] OTHER -> src \notin Classes

(* type_assignable.                                                        *)
Assignable(dst, src) ==
    CASE "unknown" \in {dst, src} \/ src = "nil" -> TRUE
      [] dst \in Classes -> src = dst
      [] OTHER -> src \notin Classes

-----------------------------------------------------------------------------
(* The checker's rules: the type of the result, and whether it objects.    *)

Arithmetic == {"-", "*", "/", "%"}
BitOps == {"&", "|", "^", "<<", ">>"}
Relations == {"<", "<=", ">", ">="}
Operators == {"+"} \cup Arithmetic \cup BitOps \cup Relations

Judge(type, ok) == [type |-> IF ok THEN type ELSE "unknown", ok |-> ok]

Wider(l, r) == IF "float" \in {l, r} THEN "float" ELSE "int"

(* Mutant: strings are not ordered.                                        *)
CheckBinaryNoStrings(op, l, r) ==
    CASE op = "+" ->
            Judge(CASE l = "string" /\ r = "string" -> "string"
                    [] IsNumeric(l) /\ IsNumeric(r) -> Wider(l, r)
                    [] OTHER -> "unknown",
                  {l, r} \cap ({"array"} \cup Classes) = {})
      [] op \in Arithmetic ->
            Judge(IF "unknown" \in {l, r} THEN "unknown" ELSE Wider(l, r),
                  {l, r} \subseteq {"int", "float", "unknown"})
      [] op \in BitOps ->
            [type |-> "int", ok |-> {l, r} \subseteq {"int", "unknown"}]
      [] op \in Relations ->
            [type |-> "bool", ok |-> {l, r} \subseteq {"int", "float", "unknown"}]

CheckBinary(op, l, r) ==
    CASE op = "+" ->
            Judge(CASE l = "string" /\ r = "string" -> "string"
                    [] IsNumeric(l) /\ IsNumeric(r) -> Wider(l, r)
                    [] OTHER -> "unknown",
                  {l, r} \cap ({"array"} \cup Classes) = {})
      [] op \in Arithmetic ->
            Judge(IF "unknown" \in {l, r} THEN "unknown" ELSE Wider(l, r),
                  {l, r} \subseteq {"int", "float", "unknown"})
      [] op \in BitOps ->
            [type |-> "int", ok |-> {l, r} \subseteq {"int", "unknown"}]
      [] op \in Relations ->
            [type |-> "bool", ok |-> {l, r} \subseteq {"int", "float", "string", "unknown"}]

CheckUnary(op, t) ==
    CASE op = "-" -> Judge(t, IsNumeric(t) \/ t = "unknown")
      [] op = "~" -> [type |-> "int", ok |-> t \in {"int", "unknown"}]
      [] op = "!" -> [type |-> "bool", ok |-> TRUE]

CheckIndex(object, index) ==
    [type |-> "unknown",
     ok |-> object \in {"array", "string", "unknown"} /\ index \in {"int", "unknown"}]

CheckIndexSet(object, index, value) ==
    [type |-> value,
     ok |-> object \in {"array", "unknown"} /\ index \in {"int", "unknown"}]

(* class_field_type, class_has_method.                                     *)
FieldNames(c) == {Fields[c][i].name : i \in DOMAIN Fields[c]}
FieldType(c, name) ==
    Fields[c][CHOOSE i \in DOMAIN Fields[c] : Fields[c][i].name = name].type

CheckField(object, name) ==
    CASE object \in Classes /\ name \in FieldNames(object) -> Judge(FieldType(object, name), TRUE)
      [] OTHER -> Judge("unknown", object = "unknown"
                                   \/ (object \in Classes /\ name \in Methods[object]))

-----------------------------------------------------------------------------
(* The virtual machine. A result is a value, an error that is reported, a  *)
(* trap, or a float or a string computed from the operands; which one it   *)
(* is of those in the bounds is left open.                                 *)

Value(v) == [kind |-> "value", of |-> <<v>>]
Error(why) == [kind |-> "error", of |-> <<why>>]
Trap == [kind |-> "trap", of |-> <<>>]
Computed(tag, op, operands) == [kind |-> tag, of |-> <<op>> \o operands]

Outcomes(result) ==
    CASE result.kind = "value" -> {result.of[1]}
      [] result.kind = "float" -> FloatValues
      [] result.kind = "string" -> StringValues
      [] OTHER -> {}

(* Signed arithmetic wraps around: the compilers of the project leave it   *)
(* to the machine's instructions.                                          *)
Wrap(n) == ((n + Half) % (2 * Half)) - Half

Unsigned(n) == n % (2 * Half)
Abs(n) == IF n < 0 THEN -n ELSE n
Quotient(a, b) == IF (a < 0) = (b < 0) THEN Abs(a) \div Abs(b) ELSE -(Abs(a) \div Abs(b))

Relate(op, a, b) ==
    CASE op = "<" -> a < b [] op = "<=" -> a <= b [] op = ">" -> a > b [] op = ">=" -> a >= b

(* What the machine makes of two integers, the divisor not 0.              *)
IntOp(op, a, b) ==
    CASE op = "+" -> Value(Val("int", Wrap(a + b)))
      [] op = "-" -> Value(Val("int", Wrap(a - b)))
      [] op = "*" -> Value(Val("int", Wrap(a * b)))
      [] op \in {"/", "%"} /\ a = -Half /\ b = -1 /\ Traps -> Trap
      [] op = "/" -> Value(Val("int", Wrap(Quotient(a, b))))
      [] op = "%" -> Value(Val("int", a - b * Quotient(a, b)))
      [] OTHER -> Value(Bool(Relate(op, a, b)))

(* AS_F64: the float nearest to an integer, the even one of two.           *)
Spacing(n) == 2 ^ (CHOOSE e \in 0 .. Bits : Abs(n) <= 2 ^ (FloatBits + e)
                      /\ \A d \in 0 .. e - 1 : Abs(n) > 2 ^ (FloatBits + d))
Nearest(n) ==
    LET s == Spacing(n)
        q == n \div s
        r == n % s
    IN  IF 2 * r < s \/ (2 * r = s /\ q % 2 = 0) THEN q * s ELSE (q + 1) * s
AsFloat(v) == IF IsInt(v) THEN Val("float", Nearest(v.n)) ELSE v

RelateFloats(op, a, b) == NaN \notin {a, b} /\ Relate(op, a.n, b.n)

(* apply_binary.                                                           *)
ApplyBinary(op, a, b) ==
    IF ~IsNumber(a) \/ ~IsNumber(b) THEN Error("numbers")
    ELSE IF IsInt(a) /\ IsInt(b)
    THEN CASE op \in {"/", "%"} /\ b.n = 0 -> Error("division")
           [] op = "&" -> Value(Val("int", Wrap(Unsigned(a.n) & Unsigned(b.n))))
           [] op = "|" -> Value(Val("int", Wrap(Unsigned(a.n) | Unsigned(b.n))))
           [] op = "^" -> Value(Val("int", Wrap(Unsigned(a.n) ^^ Unsigned(b.n))))
           [] op \in {"<<", ">>"} /\ b.n \notin 0 .. Bits - 1 -> Error("shift")
           [] op = "<<" -> Value(Val("int", Wrap(Unsigned(a.n) * 2 ^ b.n)))
           [] op = ">>" -> Value(Val("int", a.n \div 2 ^ b.n))
           [] OTHER -> IntOp(op, a.n, b.n)
    ELSE IF op \in BitOps \cup {"%"} THEN Error("integers")
    ELSE IF op \in Relations THEN Value(Bool(RelateFloats(op, AsFloat(a), AsFloat(b))))
    ELSE Computed("float", op, <<AsFloat(a), AsFloat(b)>>)

(* jit_h_binary: strings are concatenated and ordered.                     *)
Generic(op, a, b) ==
    IF IsString(a) /\ IsString(b) /\ op = "+" THEN Computed("string", op, <<a, b>>)
    ELSE IF IsString(a) /\ IsString(b) /\ op \in Relations
         THEN Value(Bool(Relate(op, a.n, b.n)))
    ELSE ApplyBinary(op, a, b)

Specialised == {"+"} \cup Arithmetic \cup Relations

(* Mutant: the test of one operand is dropped.                             *)
GuardTop(op, a, b) == IsInt(b) /\ (op \in {"/", "%"} => b.n # 0)

(* The test before an inlined operation: both operands are integers now,   *)
(* whatever their static types, and the divisor is not 0.                  *)
Guard(op, a, b) == IsInt(a) /\ IsInt(b) /\ (op \in {"/", "%"} => b.n # 0)

Inlined(op, a, b) == IF Guard(op, a, b) THEN IntOp(op, a.n, b.n) ELSE Generic(op, a, b)

(* The compiler specialises an operator if both operands are static        *)
(* integers; the AOT compiler translates what the compiler emitted, and    *)
(* the JIT inlines the generic opcode as it does the specialised one.      *)
Interpreter(op, l, r) ==
    IF op \in Specialised /\ l.type = "int" /\ r.type = "int"
    THEN Inlined(op, l.value, r.value) ELSE Generic(op, l.value, r.value)
Jit(op, l, r) ==
    IF op \in Specialised THEN Inlined(op, l.value, r.value)
    ELSE Generic(op, l.value, r.value)

(* Mutant: values of different tags are never equal.                       *)
ValueEqualByTag(a, b) == a = b /\ a # NaN

ValueEqual(a, b) ==
    IF IsNumber(a) /\ IsNumber(b)
    THEN IF IsInt(a) /\ IsInt(b) THEN a.n = b.n
         ELSE AsFloat(a) = AsFloat(b) /\ NaN \notin {a, b}
    ELSE a = b

Truthy(v) ==
    CASE v.tag \in {"bool", "int", "float"} -> v.n # 0
      [] OTHER -> v.tag # "nil"

Unary(op, v) ==
    CASE op = "-" /\ IsInt(v) -> Value(Val("int", Wrap(-v.n)))
      [] op = "-" /\ IsFloat(v) -> Computed("float", op, <<v>>)
      [] op = "-" -> Error("number")
      [] op = "~" -> IF IsInt(v) THEN Value(Val("int", -v.n - 1)) ELSE Error("integer")
      [] op = "!" -> Value(Bool(~Truthy(v)))

-----------------------------------------------------------------------------
(* An operand is `pure' if what it was computed from was of its static     *)
(* type, none of it of the unknown type. The value of && and ||, which is  *)
(* one of the operands although its type is Bool, is not.                  *)

Operand(type, value, pure) == [type |-> type, value |-> value, pure |-> pure]
OfItsType(o) == HasType(o.value, o.type) /\ o.type # "unknown"

Init ==
    /\ stack = <<>>
    /\ slot = Operand("unknown", Nil, FALSE)
    /\ rejected = FALSE
    /\ outcome = "running"
    /\ exact = FALSE

Running == outcome = "running" /\ ~rejected
Room == Len(stack) < 2
Rest(n) == SubSeq(stack, 1, Len(stack) - n)
Top == stack[Len(stack)]
Second == stack[Len(stack) - 1]

Push(o) ==
    /\ Running /\ Room
    /\ stack' = Append(stack, o)
    /\ UNCHANGED <<slot, rejected, outcome, exact>>

(* What is left of an operator: its n operands replaced by the result, or  *)
(* the end of the program. The checker goes on after an error and the      *)
(* program then never runs; here both ends are recorded at once.           *)
Finish(n, judged, result) ==
    LET operands == {stack[i] : i \in Len(stack) - n + 1 .. Len(stack)}
    IN  /\ rejected' = ~judged.ok
        /\ exact' = (rejected' /\ \A o \in operands : HasType(o.value, o.type))
        /\ outcome' = IF Outcomes(result) = {} THEN result.kind ELSE "running"
        /\ IF Outcomes(result) = {} \/ ~judged.ok
           THEN stack' = <<>>
           ELSE \E v \in Outcomes(result) :
                   stack' = Append(Rest(n),
                               Operand(judged.type, v, \A o \in operands : OfItsType(o)))
        /\ UNCHANGED slot

(* The end of a call or a store, which the checker refuses for its form    *)
(* (`formed', so must the machine then) or for the types of what is stored *)
(* alone.                                                                  *)
Pass(n, formed, fits, result) ==
    /\ rejected' = ~(formed /\ fits)
    /\ exact' = ~formed
    /\ outcome' = IF formed THEN "running" ELSE "error"
    /\ stack' = IF formed /\ fits THEN Append(Rest(n), result) ELSE <<>>
    /\ UNCHANGED slot

Literal(v) == Push(Operand(LiteralType(v), v, TRUE))
ReadVariable == Push(slot)

BinaryOperator(op) ==
    /\ Running /\ Len(stack) = 2
    /\ Finish(2, CheckBinary(op, Second.type, Top.type), Interpreter(op, Second, Top))

Equality(op) ==
    /\ Running /\ Len(stack) = 2
    /\ Finish(2, [type |-> "bool", ok |-> TRUE],
              Value(Bool(ValueEqual(Second.value, Top.value) = (op = "=="))))

UnaryOperator(op) ==
    /\ Running /\ stack # <<>>
    /\ Finish(1, CheckUnary(op, Top.type), Unary(op, Top.value))

Logical(op) ==
    /\ Running /\ Len(stack) = 2
    /\ LET yields == IF Truthy(Second.value) = (op = "&&") THEN Top.value ELSE Second.value
       IN  stack' = Append(Rest(2), Operand("bool", yields, FALSE))
    /\ UNCHANGED <<slot, rejected, outcome, exact>>

(* [e], whose element is not followed further, and e[i], which is any      *)
(* value or out of bounds.                                                 *)
MakeArray ==
    /\ Running /\ stack # <<>>
    /\ Finish(1, [type |-> "array", ok |-> TRUE], Value(Val("array", 0)))

Index ==
    /\ Running /\ Len(stack) = 2
    /\ \E v \in {w \in Values : w.tag \in Elements} :
          LET result == CASE Second.value.tag # "array" -> Error("array")
                          [] ~IsInt(Top.value) -> Error("index")
                          [] Top.value.n < 0 -> Error("bounds")
                          [] OTHER -> Value(v)
          IN  Finish(2, CheckIndex(Second.type, Top.type), result)
OutOfBounds ==
    /\ Running /\ Len(stack) = 2
    /\ Second.value.tag = "array" /\ IsInt(Top.value)
    /\ Finish(2, CheckIndex(Second.type, Top.type), Error("bounds"))

IndexSet ==
    /\ Running /\ Len(stack) = 2
    /\ LET judged == CheckIndexSet(Second.type, Top.type, slot.type)
       IN  /\ rejected' = ~judged.ok
           /\ exact' = (rejected' /\ \A i \in 1 .. 2 : HasType(stack[i].value, stack[i].type))
           /\ outcome' \in (IF Second.value.tag = "array" /\ IsInt(Top.value)
                            THEN {"running", "error"} ELSE {"error"})
           /\ stack' = IF judged.ok /\ outcome' = "running"
                       THEN <<Operand(judged.type, slot.value, slot.pure)>> ELSE <<>>
    /\ UNCHANGED slot

(* A declaration and an assignment: the slot takes any value, and the      *)
(* checker looks only at whether an instance meets its class. The type of  *)
(* any other slot is a hint that a value of another type makes untrue.     *)
ConvertsTo(type, value) == type \in Classes \/ HasType(value, type)
Stored(type, o) == Operand(type, o.value, OfItsType(o) /\ ConvertsTo(type, o.value))
Store(type, keep) ==
    /\ Running /\ Len(stack) = 1
    /\ rejected' = ~Assignable(type, Top.type)
    /\ exact' = FALSE
    /\ slot' = Stored(type, Top)
    /\ stack' = IF keep /\ ~rejected' THEN <<slot'>> ELSE <<>>
    /\ UNCHANGED outcome
Declare(type) == Store(type, FALSE)
Assign == Store(slot.type, TRUE)

(* A declaration without an initializer: nil, and nothing is checked.      *)
DeclareEmpty(type) ==
    /\ Running /\ stack = <<>>
    /\ slot' = Stored(type, Operand("nil", Nil, TRUE))
    /\ UNCHANGED <<stack, rejected, outcome, exact>>

(* A call by name of a function, declared once, that returns one of its    *)
(* parameters, or nothing: through its parameter and its return type the   *)
(* value is stored twice.                                                  *)
Args(n) == SubSeq(stack, Len(stack) - n + 1, Len(stack))
Fit(types, args) == \A i \in DOMAIN args : i \in DOMAIN types => Assignable(types[i], args[i].type)

CheckFunction(f) == f.body = 0 \/ Assignable(f.returns, f.params[f.body])

Call(f) ==
    /\ Running
    /\ \E n \in 0 .. Len(stack) :
          /\ n = 0 => Room
          /\ LET formed == n = Len(f.params)
                 returned == IF f.body = 0 \/ ~formed THEN Operand("nil", Nil, TRUE)
                             ELSE Stored(f.params[f.body], Args(n)[f.body])
             IN  Pass(n, formed, Fit(f.params, Args(n)) /\ CheckFunction(f),
                      Stored(f.returns, returned))

(* Fields that get no argument are nil.                                    *)
Construct(c) ==
    /\ Running
    /\ \E n \in 0 .. Len(stack) :
          /\ n = 0 => Room
          /\ Pass(n, n <= Len(Fields[c]),
                  Fit([i \in DOMAIN Fields[c] |-> Fields[c][i].type], Args(n)),
                  Operand(c, Val(c, 0), TRUE))

(* What a field holds is not followed: any of the values an array may hold.*)
Names == UNION {FieldNames(c) \cup Methods[c] : c \in Classes}
Has(v, name) == v.tag \in Classes /\ name \in FieldNames(v.tag)
Unfollowed == {v \in Values : v.tag \in Elements}
Left(n, type, v) == Append(Rest(n), Operand(type, v, FALSE))

GetField(name) ==
    /\ Running /\ stack # <<>>
    /\ LET judged == CheckField(Top.type, name)
       IN  /\ rejected' = ~judged.ok
           /\ exact' = (rejected' /\ HasType(Top.value, Top.type))
           /\ outcome' = IF Has(Top.value, name) THEN "running" ELSE "error"
           /\ IF judged.ok /\ outcome' = "running"
              THEN \E v \in Unfollowed : stack' = Left(1, judged.type, v)
              ELSE stack' = <<>>
    /\ UNCHANGED slot

SetField(name) ==
    /\ Running /\ Len(stack) = 2
    /\ LET class == Second.type
           formed == IF class \in Classes THEN name \in FieldNames(class) ELSE class = "unknown"
           fits == class \in Classes /\ formed => Assignable(FieldType(class, name), Top.type)
       IN  /\ rejected' = ~(formed /\ fits)
           /\ exact' = (~formed /\ HasType(Second.value, class))
           /\ outcome' = IF Has(Second.value, name) THEN "running" ELSE "error"
           /\ stack' = IF formed /\ fits /\ outcome' = "running" THEN <<Top>> ELSE <<>>
    /\ UNCHANGED slot

(* A method, or what a field of its name holds, is called, and may fail;   *)
(* the checker judges the name as that of a field.                         *)
Invoke(name) ==
    /\ Running
    /\ \E n \in 0 .. Len(stack) - 1 :
          LET object == stack[Len(stack) - n]
              judged == CheckField(object.type, name)
              found  == Has(object.value, name)
                        \/ (object.value.tag \in Classes /\ name \in Methods[object.value.tag])
          IN  /\ rejected' = ~judged.ok
              /\ exact' = (rejected' /\ HasType(object.value, object.type))
              /\ outcome' \in (IF found THEN {"running", "error"} ELSE {"error"})
              /\ IF judged.ok /\ outcome' = "running"
                 THEN \E v \in Unfollowed : stack' = Left(n + 1, "unknown", v)
                 ELSE stack' = <<>>
    /\ UNCHANGED slot

StatementEnds ==
    /\ Running /\ Len(stack) = 1
    /\ stack' = <<>>
    /\ UNCHANGED <<slot, rejected, outcome, exact>>

Ended == ~Running /\ UNCHANGED vars

Next ==
    \/ \E v \in Values : v.tag \notin Classes \cup {"array"} /\ Literal(v)
    \/ \E c \in Classes : Construct(c)
    \/ ReadVariable
    \/ \E op \in Operators : BinaryOperator(op)
    \/ \E op \in {"==", "!="} : Equality(op)
    \/ \E op \in {"-", "~", "!"} : UnaryOperator(op)
    \/ \E op \in {"&&", "||"} : Logical(op)
    \/ MakeArray
    \/ Index
    \/ OutOfBounds
    \/ IndexSet
    \/ \E f \in Functions : Call(f)
    \/ \E name \in Names : GetField(name) \/ SetField(name) \/ Invoke(name)
    \/ \E type \in Declared : Declare(type) \/ DeclareEmpty(type)
    \/ Assign
    \/ StatementEnds
    \/ Ended

Spec == Init /\ [][Next]_vars

-----------------------------------------------------------------------------
(* Properties.                                                             *)

IsOperand(o) == o.type \in Types /\ o.value \in Values /\ o.pure \in BOOLEAN
TypeOK ==
    /\ Len(stack) <= 2 /\ \A i \in DOMAIN stack : IsOperand(stack[i])
    /\ IsOperand(slot)
    /\ {rejected, exact} \subseteq BOOLEAN
    /\ outcome \in {"running", "error", "trap"}

(* An operator does the same whichever way it is executed: the generic     *)
(* opcode, the one the compiler chose for the operands' static types, or   *)
(* native code, with a float or a string in an integer's slot (vm.c:430,   *)
(* jit_x64.c:162, cemit.c:286).                                            *)
BackendsAgree ==
    (Running /\ Len(stack) = 2) =>
       \A op \in Operators :
          LET result == Generic(op, Second.value, Top.value)
          IN  Interpreter(op, Second, Top) = result /\ Jit(op, Second, Top) = result

(* The checker rejects an operator only if it would fail: no operands of   *)
(* the types it knows them to have would make it a value (types.h:4-6).    *)
RejectedWouldFail == (rejected /\ exact) => outcome # "running"

(* What the checker computes as the type of an expression is the type of  *)
(* its value, if the operands are of theirs; above all, a variable of a    *)
(* class holds an instance of that class, or nil (types.c:53-54).          *)
StaticTypesHold ==
    \A o \in {stack[i] : i \in DOMAIN stack} \cup {slot} :
       (o.pure /\ ~rejected) => HasType(o.value, o.type)

(* The relations and == tell one story: <= is < or ==, >= is its mirror    *)
(* image, and of two numbers or strings other than NaN one is less or they *)
(* are equal.                                                              *)
ComparisonsAgree ==
    (Running /\ Len(stack) = 2) =>
       LET a == Second.value
           b == Top.value
           Holds(op) == Generic(op, a, b) = Value(Bool(TRUE))
       IN  (Generic("<", a, b).kind = "value") =>
              /\ Holds("<=") = (Holds("<") \/ ValueEqual(a, b))
              /\ Holds(">=") = (Holds(">") \/ ValueEqual(a, b))
              /\ ~(Holds("<") /\ Holds(">"))
              /\ NaN \notin {a, b} => Holds("<") \/ Holds(">") \/ ValueEqual(a, b)
=============================================================================
