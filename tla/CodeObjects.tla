---------------------------- MODULE CodeObjects ----------------------------
(***************************************************************************)
(* The natives that programs build code with and look into it (natives.c,  *)
(* Assemble to ValueDesc).  Arrays can be changed at any time; functions   *)
(* and classes keep what they were made from.  Values are by reference.    *)
(* The collections that happen on the way are in HeapOps.                  *)
(***************************************************************************)
EXTENDS Integers, SequencesExt, FiniteSets

CONSTANTS
    Strings,     \* strings
    Integer,     \* integers
    MaxByte,     \* 255: what a byte of code may be
    MaxConsts,   \* 256: the constants that an operand of one byte can name
    Hole,        \* a field without a name: NULL
    MaxArrays,   \* bound: arrays
    MaxFunctions, MaxClasses,   \* bound: functions, classes
    MaxLength    \* bound: the length of an array

(* Of the constants; the modules that give them values assume it.           *)
CodeObjectsAssumption ==
    /\ {MaxByte, MaxConsts, MaxArrays, MaxFunctions, MaxClasses, MaxLength} \subseteq Nat
    /\ Hole \notin Strings

VARIABLES
    arrays,      \* each a sequence of values
    functions,   \* each [code, consts, arity]
    classes,     \* each [name, fields, methods]
    answer,      \* what the last native returned
    given        \* history: what Assemble was given for each function

vars == <<arrays, functions, classes, answer, given>>

Nil          == [type |-> "NIL"]
I(n)         == [type |-> "INT", of |-> n]
Str(s)       == [type |-> "STRING", of |-> s]
Arr(n)       == [type |-> "ARRAY", of |-> n]
Fn(n)        == [type |-> "FUNCTION", of |-> n]
Klass(n)     == [type |-> "CLASS", of |-> n]
Described(d) == [type |-> "DESCRIPTION", of |-> d]

Values ==
    {Nil} \cup {I(n) : n \in Integer} \cup {Str(s) : s \in Strings}
    \cup {Arr(n) : n \in DOMAIN arrays} \cup {Fn(n) : n \in DOMAIN functions}
    \cup {Klass(n) : n \in DOMAIN classes}

Init ==
    /\ arrays = << <<>> >>
    /\ functions = <<>> /\ classes = <<>> /\ given = <<>>
    /\ answer = Nil

(* A new array, and the program's change of one.                           *)
MakeArray(elements) ==
    /\ Len(arrays) < MaxArrays
    /\ arrays' = Append(arrays, elements)
    /\ answer' = Arr(Len(arrays) + 1)

AppendTo(a, v) ==
    /\ Len(arrays[a]) < MaxLength
    /\ arrays' = [arrays EXCEPT ![a] = Append(@, v)]
    /\ answer' = Arr(a)
    /\ UNCHANGED <<functions, classes, given>>

NewArray == MakeArray(<<>>) /\ UNCHANGED <<functions, classes, given>>

-----------------------------------------------------------------------------
IsByte(v) == v.type = "INT" /\ v.of \in 0 .. MaxByte

Refused == answer' = Nil /\ UNCHANGED <<arrays, functions, classes, given>>

ArityOf(v) == IF v.type = "INT" THEN v.of ELSE 0

MakeFunction(code, consts, arity) ==
    /\ Len(functions) < MaxFunctions
    /\ functions' = Append(functions, [code   |-> [i \in DOMAIN code |-> code[i].of % (MaxByte + 1)],
                                       consts |-> consts, arity |-> ArityOf(arity)])
    /\ given' = Append(given, [code |-> code, consts |-> consts])
    /\ answer' = Fn(Len(functions) + 1)
    /\ UNCHANGED <<arrays, classes>>

AssembleAnyInteger(a, b, arity) ==
    IF Len(arrays[b]) > MaxConsts \/ \E v \in Range(arrays[a]) : v.type # "INT"
    THEN Refused
    ELSE MakeFunction(arrays[a], arrays[b], arity)

AssembleOneMore(a, b, arity) ==
    IF Len(arrays[b]) > MaxConsts + 1 \/ \E v \in Range(arrays[a]) : ~IsByte(v)
    THEN Refused
    ELSE MakeFunction(arrays[a], arrays[b], arity)

Assemble(a, b, arity) ==
    IF Len(arrays[b]) > MaxConsts \/ \E v \in Range(arrays[a]) : ~IsByte(v)
    THEN Refused
    ELSE MakeFunction(arrays[a], arrays[b], arity)

ChunkCode(f) ==
    /\ MakeArray([i \in DOMAIN functions[f].code |-> I(functions[f].code[i])])
    /\ UNCHANGED <<functions, classes, given>>

ChunkConsts(f) ==
    /\ MakeArray(functions[f].consts)
    /\ UNCHANGED <<functions, classes, given>>

(* A field whose name is not a string stays NULL.                          *)
MakeClass(name, a) ==
    /\ Len(classes) < MaxClasses
    /\ classes' = Append(classes,
          [name    |-> name,
           fields  |-> [i \in DOMAIN arrays[a] |->
                          IF arrays[a][i].type = "STRING" THEN arrays[a][i].of ELSE Hole],
           methods |-> [s \in {} |-> 0]])
    /\ answer' = Klass(Len(classes) + 1)
    /\ UNCHANGED <<arrays, functions, given>>

AddMethod(k, name, f) ==
    /\ classes' = [classes EXCEPT ![k].methods =
          [s \in DOMAIN @ \cup {name} |-> IF s = name THEN f ELSE @[s]]]
    /\ answer' = Klass(k)
    /\ UNCHANGED <<arrays, functions, given>>

-----------------------------------------------------------------------------
(* ValueDesc: the name of a field that is NULL is read, the process ends.  *)
Crash == [type |-> "CRASH"]

Description(v) ==
    CASE v.type = "FUNCTION" -> Described(<<"fn", functions[v.of].arity>>)
      [] v.type = "CLASS" ->
           LET class == classes[v.of]
           IN  IF Hole \in Range(class.fields) THEN Crash
               ELSE Described(<<"class", class.name, class.fields, Cardinality(DOMAIN class.methods)>>)
      [] OTHER -> Described(<<v.type>>)

ValueDesc(v) == answer' = Description(v) /\ UNCHANGED <<arrays, functions, classes, given>>

Running == answer # Crash

Next ==
    /\ Running
    /\ \/ NewArray
       \/ \E a \in DOMAIN arrays, v \in Values : AppendTo(a, v)
       \/ \E a, b \in DOMAIN arrays, v \in {Nil, I(1)} : Assemble(a, b, v)
       \/ \E f \in DOMAIN functions : ChunkCode(f) \/ ChunkConsts(f)
       \/ \E s \in Strings, a \in DOMAIN arrays : MakeClass(s, a)
       \/ \E k \in DOMAIN classes, s \in Strings, f \in DOMAIN functions : AddMethod(k, s, f)
       \/ \E v \in {Nil} \cup {w \in Values : w.type \in {"FUNCTION", "CLASS"}} : ValueDesc(v)

Spec == Init /\ [][Next]_vars

-----------------------------------------------------------------------------
ChunkReadsBack ==
    \A f \in DOMAIN functions :
        /\ ChunkCode(f) => Last(arrays') = given[f].code
        /\ ChunkConsts(f) => Last(arrays') = given[f].consts

(* A function's code and constants read back as the arrays that it was     *)
(* assembled from were at the time, whatever became of those and of what   *)
(* was read back before: the comparison of compiled code by its own        *)
(* compiler relies on it (natives.c:673).                                  *)
CodeReadsBack == [][ChunkReadsBack]_vars

(* "a chunk's one-byte operand can address" each constant (natives.c:602): *)
(* the number of every constant is a byte.                                 *)
ConstantsAreAddressable ==
    \A f \in DOMAIN functions : \A i \in DOMAIN functions[f].consts : i - 1 \in 0 .. MaxByte

(* "ValueDesc(v) -> a short structural description of a value"             *)
(* (natives.c:708), whichever class MakeClass has made.                    *)
ClassesAreDescribed == answer # Crash
=============================================================================
