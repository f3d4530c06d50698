--------------------------- MODULE HeapOpsProofs ---------------------------
(***************************************************************************)
(* Proofs about the operations of module HeapOps, for any program, any     *)
(* number of objects and any strings: whatever collections happen at their *)
(* allocation points.                                                      *)
(***************************************************************************)
EXTENDS HeapOps, SequenceTheorems, TLAPS

(* Labels of the operations: of string_copy and string_take, of the start  *)
(* of a program built ahead of time, where a string is returned to, and    *)
(* where the operation's object is allocated.                              *)
StringLabels == {"find", "take", "copy_chars", "new_string", "intern"}
ImageLabels  == {"image_function", "image_name", "image_named", "image_class",
                 "image_class_named", "image_new_class", "image_member",
                 "image_member_named", "image_constant", "image_constant_copied"}
Returns      == {"finish_string", "arg_copied", "name_function", "native_name", "host_name",
                 "image_named", "image_class_named", "image_member_named",
                 "image_constant_copied"}
Allocates    == {"new_array", "args_array", "new_map", "new_class", "new_instance",
                 "new_function", "new_native"}
Labels       == StringLabels \cup ImageLabels \cup Returns \cup Allocates \cup
                {"run", "finish", "append", "next_arg", "append_arg", "set_entry",
                 "class_fields", "field", "store_field", "bind_method", "constant",
                 "define", "assign"}

(* Those that do not start by allocating, and those at which the operation *)
(* has an object or a string in hand.                                      *)
NoAlloc == Returns \cup {"run", "find", "finish", "next_arg", "image_name", "image_class"}
HasObj  == (ImageLabels \ {"image_function"}) \cup
           {"append", "finish", "next_arg", "arg_copied", "append_arg", "class_fields",
            "field", "name_function", "constant"}
HasStr  == Returns \cup {"intern", "append_arg", "define", "assign", "new_native",
                         "image_new_class"}

(* What the operation in progress is about to do, once it has its string,  *)
(* and its operands: the stack, but for a string that is pushed while it   *)
(* is interned or appended.                                                *)
Place    == IF op.at \in StringLabels THEN op.ret ELSE op.at
Operands == IF op.at \in {"intern", "append_arg"} THEN Drop(1) ELSE stack

(* How many operands it has, at least.                                     *)
Depth(place) ==
    CASE place \in {"set_entry", "bind_method"} -> 3
      [] place \in {"new_class", "class_fields", "store_field", "name_function", "constant"} -> 2
      [] place \in {"next_arg", "arg_copied", "append_arg", "new_function"} -> 1
      [] OTHER -> 0

HeapTypes ==
    /\ objects \subseteq Obj /\ old \subseteq objects
    /\ refs \in [Obj -> SUBSET Obj]
    /\ strings \subseteq Str /\ rememberedSet \subseteq Obj
    /\ gcEnabled \in BOOLEAN /\ crashed \in BOOLEAN

ValueTypes ==
    /\ stack \in Seq(Obj)
    /\ globals \in [DOMAIN globals -> Obj \cup {NULL}] /\ DOMAIN globals \subseteq Str
    /\ program \in Programs

OpRecord ==
    [at : Labels, alloc : BOOLEAN, obj : Obj \cup {NULL}, str : Str \cup {NULL},
     content : Content \cup {NULL}, ret : Returns \cup {"run"}, todo : SUBSET Obj,
     drop : Nat, saved : BOOLEAN]

OpTypes ==
    /\ op \in OpRecord
    /\ op.at \in StringLabels => op.ret # "run"
    /\ op.alloc => op.at \notin NoAlloc
    /\ op.at = "run" => op = Idle
    /\ op.at \in HasStr => op.str # NULL
    /\ op.at \notin HasStr \cup ImageLabels => op.str = NULL
    /\ Place \in HasObj => op.obj # NULL
    /\ Place \in Allocates \cup {"native_name"} => op.obj = NULL

OperandsThere ==
    /\ op.at \in {"intern", "append_arg"} => stack # <<>> /\ op.str = Peek(0)
    /\ Len(Operands) >= Depth(Place) /\ op.drop <= Len(Operands)
    /\ Place = "new_instance" => op.drop >= 1
    /\ Place = "field" => op.drop >= 2

TInv == HeapTypes /\ ValueTypes /\ OpTypes /\ OperandsThere
----------------------------------------------------------------------------
(* The value stack.                                                        *)

LEMMA Elements ==
  ASSUME NEW S, NEW s \in Seq(S)
  PROVE  /\ Len(s) \in Nat /\ DOMAIN s = 1 .. Len(s)
         /\ \A i \in 1 .. Len(s) : s[i] \in S
         /\ s = <<>> <=> Len(s) = 0
<1>1. Len(s) \in Nat /\ DOMAIN s = 1 .. Len(s) /\ \A i \in 1 .. Len(s) : s[i] \in S
  BY LenProperties, ElementOfSeq
<1>2. s = <<>> <=> Len(s) = 0
  BY EmptySeq
<1>3. QED
  BY <1>1, <1>2

LEMMA Appended ==
  ASSUME NEW S, NEW s \in Seq(S), NEW x \in S
  PROVE  /\ Append(s, x) \in Seq(S) /\ Len(Append(s, x)) = Len(s) + 1
         /\ Append(s, x) # <<>>
         /\ \A i \in 1 .. Len(s) : Append(s, x)[i] = s[i]
         /\ Append(s, x)[Len(s) + 1] = x
  BY AppendProperties

LEMMA Dropped ==
  ASSUME NEW S, NEW s \in Seq(S), NEW n \in Nat, n <= Len(s)
  PROVE  LET t == SubSeq(s, 1, Len(s) - n)
         IN  t \in Seq(S) /\ Len(t) = Len(s) - n /\ \A i \in 1 .. Len(s) - n : t[i] = s[i]
<1> DEFINE m == Len(s) - n
<1>1. Len(s) \in Nat /\ \A i \in 1 .. Len(s) : s[i] \in S
  BY Elements
<1>2. m \in Nat /\ m \in Int /\ 1 \in Int /\ m <= Len(s) /\ \A i \in 1 .. m : s[i] \in S
  BY <1>1
<1>3. /\ SubSeq(s, 1, m) \in Seq(S)
      /\ Len(SubSeq(s, 1, m)) = IF 1 <= m THEN m - 1 + 1 ELSE 0
      /\ \A i \in 1 .. m - 1 + 1 : SubSeq(s, 1, m)[i] = s[1 + i - 1]
  BY <1>2, SubSeqProperties
<1> HIDE DEF m
<1>4. Len(SubSeq(s, 1, m)) = m /\ \A i \in 1 .. m : SubSeq(s, 1, m)[i] = s[i]
  BY <1>2, <1>3
<1>5. QED
  BY <1>3, <1>4 DEF m

LEMMA DropThen ==
  ASSUME stack \in Seq(Obj), NEW n \in Nat, n <= Len(stack)
  PROVE  /\ Drop(n) \in Seq(Obj) /\ Len(Drop(n)) = Len(stack) - n
         /\ \A i \in 1 .. Len(stack) - n : Drop(n)[i] = stack[i]
  BY Dropped DEF Drop

LEMMA FrontOfAppend ==
  ASSUME NEW S, NEW s \in Seq(S), NEW x \in S
  PROVE  SubSeq(Append(s, x), 1, Len(Append(s, x)) - 1) = s
<1> DEFINE t == Append(s, x)
           f == SubSeq(t, 1, Len(t) - 1)
<1>1. /\ t \in Seq(S) /\ Len(t) = Len(s) + 1 /\ Len(s) \in Nat
      /\ \A i \in 1 .. Len(s) : t[i] = s[i]
  BY Appended, Elements
<1> HIDE DEF t
<1>2. f \in Seq(S) /\ Len(f) = Len(s) /\ \A i \in 1 .. Len(s) : f[i] = t[i]
  <2>1. 1 \in Nat /\ 1 <= Len(t) /\ Len(t) - 1 = Len(s)
    BY <1>1
  <2>2. QED
    BY <1>1, <2>1, Dropped
<1> HIDE DEF f
<1>3. f = s
  BY <1>1, <1>2, SeqEqual
<1>4. QED
  BY <1>3 DEF f, t

LEMMA PushThen ==
  ASSUME stack \in Seq(Obj), NEW x \in Obj, Push(x)
  PROVE  /\ stack' \in Seq(Obj) /\ Len(stack') = Len(stack) + 1 /\ stack' # <<>>
         /\ \A i \in 1 .. Len(stack) : stack'[i] = stack[i]
         /\ stack'[Len(stack')] = x /\ Peek(0)' = x
         /\ Drop(1)' = stack
<1>1. stack' = Append(stack, x) /\ Len(stack) \in Nat
  BY Elements DEF Push
<1>2. /\ stack' \in Seq(Obj) /\ Len(stack') = Len(stack) + 1 /\ stack' # <<>>
      /\ \A i \in 1 .. Len(stack) : stack'[i] = stack[i]
      /\ stack'[Len(stack) + 1] = x
  BY <1>1, Appended
<1>3. Peek(0)' = x
  BY <1>1, <1>2 DEF Peek
<1>4. Drop(1)' = stack
  BY <1>1, FrontOfAppend DEF Drop
<1>5. QED
  BY <1>1, <1>2, <1>3, <1>4

LEMMA ResultThen ==
  ASSUME stack \in Seq(Obj), NEW n \in Nat, n <= Len(stack), NEW x \in Obj, Result(n, x)
  PROVE  /\ stack' \in Seq(Obj) /\ Len(stack') = Len(stack) - n + 1
         /\ \A i \in 1 .. Len(stack) - n : stack'[i] = stack[i]
         /\ stack'[Len(stack')] = x
<1>1. /\ Drop(n) \in Seq(Obj) /\ Len(Drop(n)) = Len(stack) - n /\ Len(stack) \in Nat
      /\ \A i \in 1 .. Len(stack) - n : Drop(n)[i] = stack[i]
  BY DropThen, Elements
<1>2. stack' = Append(Drop(n), x)
  BY DEF Result
<1> HIDE DEF Drop
<1>3. QED
  BY <1>1, <1>2, Appended

----------------------------------------------------------------------------
(* Types.                                                                  *)

LEMMA StackTyped ==
  ASSUME TInv
  PROVE  /\ stack \in Seq(Obj) /\ Len(stack) \in Nat /\ DOMAIN stack = 1 .. Len(stack)
         /\ \A i \in 1 .. Len(stack) : stack[i] \in Obj
         /\ Len(stack) > 0 => stack # <<>> /\ Peek(0) \in Obj
         /\ Str \subseteq Obj /\ NULL \notin Obj
  BY Elements, HeapOpsAssumption DEF TInv, ValueTypes, Peek

LEMMA OpTyped ==
  ASSUME TInv
  PROVE  /\ op \in OpRecord
         /\ op.at \in Labels /\ op.alloc \in BOOLEAN /\ op.obj \in Obj \cup {NULL}
         /\ op.str \in Str \cup {NULL} /\ op.todo \subseteq Obj
         /\ op.drop \in Nat /\ op.drop + 1 \in Nat
         /\ op.saved \in BOOLEAN /\ op.ret \in Returns \cup {"run"}
  BY DEF TInv, OpTypes, OpRecord

LEMMA InitTInv == Init => TInv
<1> SUFFICES ASSUME Init PROVE TInv
  OBVIOUS
<1>1. Len(stack) = 0 /\ stack \in Seq(Obj)
  BY DEF Init
<1> USE DEF Init, Idle, H!Init
<1>2. HeapTypes
  BY DEF HeapTypes
<1>3. ValueTypes
  BY <1>1 DEF ValueTypes
<1>4. OpTypes
  BY DEF OpTypes, OpRecord, Labels, Returns, NoAlloc, HasStr, HasObj, StringLabels, ImageLabels,
         Allocates, Place
<1>5. OperandsThere
  BY <1>1 DEF OperandsThere, Operands, Place, StringLabels, Depth
<1>6. QED
  BY <1>2, <1>3, <1>4, <1>5 DEF TInv

(* The steps that begin an operation.                                      *)
Start ==
    \/ CopyString \/ Concatenate \/ ArrayLiteral \/ MapKeys \/ ChunkConsts \/ AppendNative
    \/ Args \/ MapNew \/ MapSet \/ Construct \/ SetField \/ AddMethod \/ Assemble
    \/ DefineGlobal \/ SetGlobal \/ DefineNative \/ HostSetGlobal

LEMMA StartBegins ==
  ASSUME Start
  PROVE  op.at = "run" /\ ~crashed /\ UNCHANGED <<heap, stack, globals>>
  BY DEF Start, Begin, BeginCopy, CopyOut, GlobalOp, Ready, CopyString, Concatenate,
         ArrayLiteral, MapKeys, ChunkConsts, AppendNative, Args, MapNew, MapSet, Construct,
         SetField, AddMethod, Assemble, DefineGlobal, SetGlobal, DefineNative, HostSetGlobal

----------------------------------------------------------------------------
LEMMA StartTInv ==
  ASSUME TInv, Start, UNCHANGED program
  PROVE  TInv'
<1>1. HeapTypes' /\ ValueTypes' /\ UNCHANGED stack
  BY StartBegins DEF TInv, HeapTypes, ValueTypes, heap
<1>2. CASE CopyString
  <2>1. PICK c \in Content : op' = [Idle EXCEPT !.at = "find", !.content = c, !.ret = "finish_string", !.obj = NULL]
    BY <1>2 DEF CopyString, BeginCopy, Begin
  <2>2. Len(stack) \in Nat
    BY StackTyped
  <2>3. OpTypes'
    BY <2>1, <2>2 DEF OpTypes, OpRecord, Labels, Returns, NoAlloc, HasStr, HasObj, StringLabels,
           ImageLabels, Allocates, Place, Idle, Alloc
  <2>4. OperandsThere'
    BY <1>1, <2>1, <2>2, StackTyped
    DEF OperandsThere, Operands, Place, StringLabels, Depth, Idle, Alloc
  <2>5. QED
    BY <1>1, <2>3, <2>4 DEF TInv
<1>3. CASE DefineNative
  <2>1. PICK c \in Content : op' = [Idle EXCEPT !.at = "find", !.content = c, !.ret = "native_name", !.obj = NULL]
    BY <1>3 DEF DefineNative, BeginCopy, Begin
  <2>2. Len(stack) \in Nat
    BY StackTyped
  <2>3. OpTypes'
    BY <2>1, <2>2 DEF OpTypes, OpRecord, Labels, Returns, NoAlloc, HasStr, HasObj, StringLabels,
           ImageLabels, Allocates, Place, Idle, Alloc
  <2>4. OperandsThere'
    BY <1>1, <2>1, <2>2, StackTyped
    DEF OperandsThere, Operands, Place, StringLabels, Depth, Idle, Alloc
  <2>5. QED
    BY <1>1, <2>3, <2>4 DEF TInv
<1>4. CASE HostSetGlobal
  <2>1. PICK v \in Roots \cup {NULL}, c \in Content :
               op' = [Idle EXCEPT !.at = "find", !.content = c, !.ret = "host_name", !.obj = v]
    BY <1>4 DEF HostSetGlobal, BeginCopy, Begin
  <2>2. v \in Obj \cup {NULL}
    BY StackTyped DEF TInv, ValueTypes, Roots, OnStack
  <2>3. OpTypes'
    BY <2>1, <2>2 DEF OpTypes, OpRecord, Labels, Returns, NoAlloc, HasStr, HasObj, StringLabels,
           ImageLabels, Allocates, Place, Idle, Alloc
  <2>4. OperandsThere'
    BY <1>1, <2>1, <2>2, StackTyped
    DEF OperandsThere, Operands, Place, StringLabels, Depth, Idle, Alloc
  <2>5. QED
    BY <1>1, <2>3, <2>4 DEF TInv
<1>5. CASE Concatenate
  <2>1. PICK c \in Content : op' = [Alloc("take") EXCEPT !.content = c, !.ret = "finish_string", !.drop = 2]
    BY <1>5 DEF Concatenate, Begin
  <2>2. Len(stack) >= 2
    BY <1>5, StackTyped DEF Concatenate, Is
  <2>3. OpTypes'
    BY <2>1, <2>2 DEF OpTypes, OpRecord, Labels, Returns, NoAlloc, HasStr, HasObj, StringLabels,
           ImageLabels, Allocates, Place, Idle, Alloc
  <2>4. OperandsThere'
    BY <1>1, <2>1, <2>2, StackTyped
    DEF OperandsThere, Operands, Place, StringLabels, Depth, Idle, Alloc
  <2>5. QED
    BY <1>1, <2>3, <2>4 DEF TInv
<1>6. CASE ArrayLiteral
  <2>1. PICK n \in 0 .. Len(stack) : op' = [Alloc("new_array") EXCEPT !.todo = Top(n), !.drop = n]
    BY <1>6 DEF ArrayLiteral, Begin
  <2>2. Top(n) \subseteq Obj /\ n \in Nat /\ n <= Len(stack)
    BY StackTyped DEF Top
  <2>3. OpTypes'
    BY <2>1, <2>2 DEF OpTypes, OpRecord, Labels, Returns, NoAlloc, HasStr, HasObj, StringLabels,
           ImageLabels, Allocates, Place, Idle, Alloc
  <2>4. OperandsThere'
    BY <1>1, <2>1, <2>2, StackTyped
    DEF OperandsThere, Operands, Place, StringLabels, Depth, Idle, Alloc
  <2>5. QED
    BY <1>1, <2>3, <2>4 DEF TInv
<1>7. CASE MapKeys
  <2>1. PICK t \in SUBSET (refs[Peek(0)] \cap Str) : op' = [Alloc("new_array") EXCEPT !.todo = t, !.drop = 1]
    BY <1>7 DEF MapKeys, CopyOut, Begin
  <2>2. t \subseteq Obj /\ Len(stack) >= 1
    BY <1>7, StackTyped DEF MapKeys, Is, TInv, HeapTypes
  <2>3. OpTypes'
    BY <2>1, <2>2 DEF OpTypes, OpRecord, Labels, Returns, NoAlloc, HasStr, HasObj, StringLabels,
           ImageLabels, Allocates, Place, Idle, Alloc
  <2>4. OperandsThere'
    BY <1>1, <2>1, <2>2, StackTyped
    DEF OperandsThere, Operands, Place, StringLabels, Depth, Idle, Alloc
  <2>5. QED
    BY <1>1, <2>3, <2>4 DEF TInv
<1>8. CASE ChunkConsts
  <2>1. PICK t \in SUBSET refs[Peek(0)] : op' = [Alloc("new_array") EXCEPT !.todo = t, !.drop = 1]
    BY <1>8 DEF ChunkConsts, CopyOut, Begin
  <2>2. t \subseteq Obj /\ Len(stack) >= 1
    BY <1>8, StackTyped DEF ChunkConsts, Is, TInv, HeapTypes
  <2>3. OpTypes'
    BY <2>1, <2>2 DEF OpTypes, OpRecord, Labels, Returns, NoAlloc, HasStr, HasObj, StringLabels,
           ImageLabels, Allocates, Place, Idle, Alloc
  <2>4. OperandsThere'
    BY <1>1, <2>1, <2>2, StackTyped
    DEF OperandsThere, Operands, Place, StringLabels, Depth, Idle, Alloc
  <2>5. QED
    BY <1>1, <2>3, <2>4 DEF TInv
<1>9. CASE AppendNative
  <2>1. op' = [Alloc("append") EXCEPT !.obj = Peek(1), !.todo = {Peek(0)}, !.drop = 2]
    BY <1>9 DEF AppendNative, Begin
  <2>2. Peek(1) \in Obj /\ Peek(0) \in Obj /\ Peek(1) # NULL /\ Len(stack) >= 2
    BY <1>9, StackTyped DEF AppendNative, Is, Peek
  <2>3. OpTypes'
    BY <2>1, <2>2 DEF OpTypes, OpRecord, Labels, Returns, NoAlloc, HasStr, HasObj, StringLabels,
           ImageLabels, Allocates, Place, Idle, Alloc
  <2>4. OperandsThere'
    BY <1>1, <2>1, <2>2, StackTyped
    DEF OperandsThere, Operands, Place, StringLabels, Depth, Idle, Alloc
  <2>5. QED
    BY <1>1, <2>3, <2>4 DEF TInv
<1>10. CASE Args
  <2>1. op' = Alloc("args_array")
    BY <1>10 DEF Args, Begin
  <2>2. Len(stack) \in Nat
    BY StackTyped
  <2>3. OpTypes'
    BY <2>1, <2>2 DEF OpTypes, OpRecord, Labels, Returns, NoAlloc, HasStr, HasObj, StringLabels,
           ImageLabels, Allocates, Place, Idle, Alloc
  <2>4. OperandsThere'
    BY <1>1, <2>1, <2>2, StackTyped
    DEF OperandsThere, Operands, Place, StringLabels, Depth, Idle, Alloc
  <2>5. QED
    BY <1>1, <2>3, <2>4 DEF TInv
<1>11. CASE MapNew
  <2>1. op' = Alloc("new_map")
    BY <1>11 DEF MapNew, Begin
  <2>2. Len(stack) \in Nat
    BY StackTyped
  <2>3. OpTypes'
    BY <2>1, <2>2 DEF OpTypes, OpRecord, Labels, Returns, NoAlloc, HasStr, HasObj, StringLabels,
           ImageLabels, Allocates, Place, Idle, Alloc
  <2>4. OperandsThere'
    BY <1>1, <2>1, <2>2, StackTyped
    DEF OperandsThere, Operands, Place, StringLabels, Depth, Idle, Alloc
  <2>5. QED
    BY <1>1, <2>3, <2>4 DEF TInv
<1>12. CASE MapSet
  <2>1. op' = Alloc("set_entry")
    BY <1>12 DEF MapSet, Begin
  <2>2. Len(stack) >= 3
    BY <1>12, StackTyped DEF MapSet, Is
  <2>3. OpTypes'
    BY <2>1, <2>2 DEF OpTypes, OpRecord, Labels, Returns, NoAlloc, HasStr, HasObj, StringLabels,
           ImageLabels, Allocates, Place, Idle, Alloc
  <2>4. OperandsThere'
    BY <1>1, <2>1, <2>2, StackTyped
    DEF OperandsThere, Operands, Place, StringLabels, Depth, Idle, Alloc
  <2>5. QED
    BY <1>1, <2>3, <2>4 DEF TInv
<1>13. CASE Construct
  <2>1. PICK n \in 0 .. 2, t \in SUBSET Str :
               /\ Len(stack) > n
               /\ op' = [Alloc("new_instance") EXCEPT !.todo = t, !.drop = n + 1]
    BY <1>13 DEF Construct, Begin, Is
  <2>2. t \subseteq Obj /\ n + 1 \in Nat /\ n + 1 >= 1 /\ n + 1 <= Len(stack)
    BY <2>1, StackTyped
  <2>3. OpTypes'
    BY <2>1, <2>2 DEF OpTypes, OpRecord, Labels, Returns, NoAlloc, HasStr, HasObj, StringLabels,
           ImageLabels, Allocates, Place, Idle, Alloc
  <2>4. OperandsThere'
    BY <1>1, <2>1, <2>2, StackTyped
    DEF OperandsThere, Operands, Place, StringLabels, Depth, Idle, Alloc
  <2>5. QED
    BY <1>1, <2>3, <2>4 DEF TInv
<1>14. CASE SetField
  <2>1. op' = Alloc("store_field")
    BY <1>14 DEF SetField, Begin
  <2>2. Len(stack) >= 2
    BY <1>14, StackTyped DEF SetField, Is
  <2>3. OpTypes'
    BY <2>1, <2>2 DEF OpTypes, OpRecord, Labels, Returns, NoAlloc, HasStr, HasObj, StringLabels,
           ImageLabels, Allocates, Place, Idle, Alloc
  <2>4. OperandsThere'
    BY <1>1, <2>1, <2>2, StackTyped
    DEF OperandsThere, Operands, Place, StringLabels, Depth, Idle, Alloc
  <2>5. QED
    BY <1>1, <2>3, <2>4 DEF TInv
<1>15. CASE AddMethod
  <2>1. op' = Alloc("bind_method")
    BY <1>15 DEF AddMethod, Begin
  <2>2. Len(stack) >= 3
    BY <1>15, StackTyped DEF AddMethod, Is
  <2>3. OpTypes'
    BY <2>1, <2>2 DEF OpTypes, OpRecord, Labels, Returns, NoAlloc, HasStr, HasObj, StringLabels,
           ImageLabels, Allocates, Place, Idle, Alloc
  <2>4. OperandsThere'
    BY <1>1, <2>1, <2>2, StackTyped
    DEF OperandsThere, Operands, Place, StringLabels, Depth, Idle, Alloc
  <2>5. QED
    BY <1>1, <2>3, <2>4 DEF TInv
<1>16. CASE Assemble
  <2>1. op' = Alloc("new_function")
    BY <1>16 DEF Assemble, Begin
  <2>2. Len(stack) >= 1
    BY <1>16, StackTyped DEF Assemble, Is
  <2>3. OpTypes'
    BY <2>1, <2>2 DEF OpTypes, OpRecord, Labels, Returns, NoAlloc, HasStr, HasObj, StringLabels,
           ImageLabels, Allocates, Place, Idle, Alloc
  <2>4. OperandsThere'
    BY <1>1, <2>1, <2>2, StackTyped
    DEF OperandsThere, Operands, Place, StringLabels, Depth, Idle, Alloc
  <2>5. QED
    BY <1>1, <2>3, <2>4 DEF TInv
<1>17. CASE DefineGlobal
  <2>1. PICK v \in {NULL} \cup Top(1), n \in Str :
               op' = [Alloc("define") EXCEPT !.str = n, !.obj = v, !.drop = IF v = NULL THEN 0 ELSE 1]
    BY <1>17 DEF DefineGlobal, GlobalOp, Begin
  <2>2. v \in Obj \cup {NULL} /\ n # NULL /\ (v # NULL => Len(stack) >= 1)
    BY StackTyped DEF Top
  <2>3. OpTypes'
    BY <2>1, <2>2 DEF OpTypes, OpRecord, Labels, Returns, NoAlloc, HasStr, HasObj, StringLabels,
           ImageLabels, Allocates, Place, Idle, Alloc
  <2>4. OperandsThere'
    BY <1>1, <2>1, <2>2, StackTyped
    DEF OperandsThere, Operands, Place, StringLabels, Depth, Idle, Alloc
  <2>5. QED
    BY <1>1, <2>3, <2>4 DEF TInv
<1>18. CASE SetGlobal
  <2>1. PICK v \in {NULL} \cup Top(1), n \in Str :
               op' = [Alloc("assign") EXCEPT !.str = n, !.obj = v, !.drop = IF v = NULL THEN 0 ELSE 1]
    BY <1>18 DEF SetGlobal, GlobalOp, Begin
  <2>2. v \in Obj \cup {NULL} /\ n # NULL /\ (v # NULL => Len(stack) >= 1)
    BY StackTyped DEF Top
  <2>3. OpTypes'
    BY <2>1, <2>2 DEF OpTypes, OpRecord, Labels, Returns, NoAlloc, HasStr, HasObj, StringLabels,
           ImageLabels, Allocates, Place, Idle, Alloc
  <2>4. OperandsThere'
    BY <1>1, <2>1, <2>2, StackTyped
    DEF OperandsThere, Operands, Place, StringLabels, Depth, Idle, Alloc
  <2>5. QED
    BY <1>1, <2>3, <2>4 DEF TInv
<1>19. QED
  BY <1>2, <1>3, <1>4, <1>5, <1>6, <1>7, <1>8, <1>9, <1>10, <1>11, <1>12, <1>13, <1>14, <1>15,
     <1>16, <1>17, <1>18
     DEF Start

----------------------------------------------------------------------------
(* What heap steps do to the types.                                        *)
LEMMA FreshAddresses ==
  ASSUME TInv, NEW kind
  PROVE  /\ Fresh(kind) \subseteq Obj \ objects
         /\ kind = "string" => Fresh(kind) \subseteq Str
         /\ kind # "string" => Fresh(kind) \cap Str = {}
  BY HeapOpsAssumption DEF TInv, ValueTypes, Fresh, Kind

LEMMA CreateTypes ==
  ASSUME TInv, NEW o \in Obj, NEW kids \in SUBSET Obj, Create(o, kids)
  PROVE  HeapTypes'
  BY DEF TInv, HeapTypes, Create, H!New

LEMMA StoreTypes ==
  ASSUME TInv, NEW owner \in Obj, NEW dropped, NEW values \in SUBSET Obj, NEW barriered,
         StoreIn(owner, dropped, values, barriered)
  PROVE  HeapTypes'
<1>1. \A v \in barriered : H!Barrier(owner, v) \subseteq Obj
  BY DEF H!Barrier, TInv, HeapTypes
<1>2. rememberedSet' \subseteq Obj
  BY <1>1 DEF StoreIn, TInv, HeapTypes
<1>3. refs' \in [Obj -> SUBSET Obj]
  BY DEF StoreIn, TInv, HeapTypes
<1>4. QED
  BY <1>2, <1>3 DEF StoreIn, TInv, HeapTypes

LEMMA ReclaimTypes ==
  ASSUME TInv, NEW major \in BOOLEAN, NEW seeds, H!Reclaim(major, seeds)
  PROVE  HeapTypes'
<1> DEFINE white == H!White(major, seeds)
<1>1. objects' = objects \ white /\ old' = (IF major THEN old \ white ELSE objects \ white)
  BY DEF H!Reclaim
<1>2. refs' = [o \in Obj |-> IF o \in white THEN {} ELSE refs[o]]
  BY DEF H!Reclaim
<1>3. /\ strings' = strings \ white
      /\ rememberedSet' = (IF major THEN rememberedSet ELSE {})
      /\ UNCHANGED <<gcEnabled, crashed>>
  BY DEF H!Reclaim
<1> HIDE DEF white
<1>4. objects' \subseteq Obj /\ old' \subseteq objects' /\ refs' \in [Obj -> SUBSET Obj]
  BY <1>1, <1>2 DEF TInv, HeapTypes
<1>5. QED
  BY <1>3, <1>4 DEF TInv, HeapTypes

LEMMA CollectTypes ==
  ASSUME TInv, NEW major \in BOOLEAN, H!CollectGarbage(major)
  PROVE  HeapTypes'
<1>1. CASE \E seeds : H!Reclaim(major, seeds)
  BY <1>1, ReclaimTypes
<1>2. CASE crashed' = TRUE /\ UNCHANGED <<objects, old, refs, strings, rememberedSet, gcEnabled>>
  BY <1>2 DEF TInv, HeapTypes
<1>3. QED
  BY <1>1, <1>2 DEF H!CollectGarbage, H!heap

(* Values stay values.                                                     *)
LEMMA ValuesThen ==
  ASSUME TInv, stack' \in Seq(Obj), UNCHANGED <<globals, program>>
  PROVE  ValueTypes'
  BY DEF TInv, ValueTypes

----------------------------------------------------------------------------
(* What the operation has in hand, if it has.                              *)
LEMMA InHand ==
  ASSUME TInv
  PROVE  /\ op.str # NULL => op.str \in Str /\ op.str \in Obj
         /\ op.obj # NULL => op.obj \in Obj
  BY OpTyped, HeapOpsAssumption

----------------------------------------------------------------------------
LEMMA NewArrayTInv ==
  ASSUME TInv, NewArray, UNCHANGED program
  PROVE  TInv'
<1>1. op.at = "new_array" /\ ~op.alloc /\ op.obj = NULL /\ op.str = NULL /\ op.drop <= Len(stack)
  BY StackTyped, HeapOpsAssumption
     DEF NewArray, At, TInv, OpTypes, OperandsThere, Place, Operands, Depth, StringLabels, HasStr,
         HasObj, Allocates, ImageLabels, Returns
<1>2. PICK o \in Obj :
         /\ Create(o, {}) /\ Push(o) /\ UNCHANGED globals
         /\ op' = [op EXCEPT !.at = "append", !.alloc = TRUE, !.obj = o, !.drop = @ + 1]
  BY FreshAddresses DEF NewArray
<1>3. HeapTypes'
  BY <1>1, <1>2, InHand, CreateTypes
<1>4. /\ stack' \in Seq(Obj) /\ Len(stack') = Len(stack) + 1 /\ stack' # <<>>
      /\ Peek(0)' = o /\ Drop(1)' = stack
  BY <1>1, <1>2, StackTyped, InHand, PushThen
<1>5. op' \in OpRecord /\ op'.at = "append" /\ op'.alloc = TRUE /\ op'.obj = o /\ op'.str = NULL
      /\ op'.drop = op.drop + 1 /\ op.drop \in Nat /\ o # NULL
  BY <1>1, <1>2, OpTyped, HeapOpsAssumption DEF OpRecord, Labels, Returns
<1>6. OpTypes'
  BY <1>1, <1>5, HeapOpsAssumption
     DEF OpTypes, NoAlloc, Place, StringLabels, HasStr, HasObj, Allocates, ImageLabels, Returns
<1>7. OperandsThere'
  BY <1>1, <1>4, <1>5, StackTyped DEF OperandsThere, Operands, Place, StringLabels, Depth
<1>8. QED
  BY <1>2, <1>3, <1>4, <1>6, <1>7, ValuesThen DEF TInv

LEMMA ArgsArrayTInv ==
  ASSUME TInv, ArgsArray, UNCHANGED program
  PROVE  TInv'
<1>1. op.at = "args_array" /\ ~op.alloc /\ op.obj = NULL /\ op.str = NULL
  BY StackTyped, HeapOpsAssumption
     DEF ArgsArray, At, TInv, OpTypes, OperandsThere, Place, Operands, Depth, StringLabels,
         HasStr, HasObj, Allocates, ImageLabels, Returns
<1>2. PICK o \in Obj :
         /\ Create(o, {}) /\ Push(o) /\ UNCHANGED globals
         /\ op' = [op EXCEPT !.at = "next_arg", !.obj = o, !.drop = 1]
  BY FreshAddresses DEF ArgsArray
<1>3. HeapTypes'
  BY <1>1, <1>2, InHand, CreateTypes
<1>4. /\ stack' \in Seq(Obj) /\ Len(stack') = Len(stack) + 1 /\ stack' # <<>>
      /\ Peek(0)' = o /\ Drop(1)' = stack
  BY <1>1, <1>2, StackTyped, InHand, PushThen
<1>5. op' \in OpRecord /\ op'.at = "next_arg" /\ op'.alloc = op.alloc /\ op'.obj = o /\ op'.str = NULL
      /\ op'.drop = 1 /\ o # NULL
  BY <1>1, <1>2, OpTyped, HeapOpsAssumption DEF OpRecord, Labels, Returns
<1>6. OpTypes'
  BY <1>1, <1>5, HeapOpsAssumption
     DEF OpTypes, NoAlloc, Place, StringLabels, HasStr, HasObj, Allocates, ImageLabels, Returns
<1>7. OperandsThere'
  BY <1>1, <1>4, <1>5, StackTyped DEF OperandsThere, Operands, Place, StringLabels, Depth
<1>8. QED
  BY <1>2, <1>3, <1>4, <1>6, <1>7, ValuesThen DEF TInv

LEMMA ArgCopiedTInv ==
  ASSUME TInv, ArgCopied, UNCHANGED program
  PROVE  TInv'
<1>1. op.at = "arg_copied" /\ ~op.alloc /\ op.obj # NULL /\ op.str # NULL /\ Len(stack) >= 1 /\ op.drop <= Len(stack)
  BY StackTyped, HeapOpsAssumption
     DEF ArgCopied, At, TInv, OpTypes, OperandsThere, Place, Operands, Depth, StringLabels,
         HasStr, HasObj, Allocates, ImageLabels, Returns
<1>2. Push(op.str) /\ UNCHANGED <<heap, globals>>
      /\ op' = [op EXCEPT !.at = "append_arg", !.alloc = TRUE]
  BY DEF ArgCopied
<1>3. HeapTypes'
  BY <1>2 DEF TInv, HeapTypes, heap
<1>4. /\ stack' \in Seq(Obj) /\ Len(stack') = Len(stack) + 1 /\ stack' # <<>>
      /\ Peek(0)' = op.str /\ Drop(1)' = stack
  BY <1>1, <1>2, StackTyped, InHand, PushThen
<1>5. op' \in OpRecord /\ op'.at = "append_arg" /\ op'.alloc = TRUE /\ op'.obj = op.obj /\ op'.str = op.str
      /\ op'.drop = op.drop
  BY <1>1, <1>2, OpTyped, HeapOpsAssumption DEF OpRecord, Labels, Returns
<1>6. OpTypes'
  BY <1>1, <1>5, HeapOpsAssumption
     DEF OpTypes, NoAlloc, Place, StringLabels, HasStr, HasObj, Allocates, ImageLabels, Returns
<1>7. OperandsThere'
  BY <1>1, <1>4, <1>5, StackTyped DEF OperandsThere, Operands, Place, StringLabels, Depth
<1>8. QED
  BY <1>2, <1>3, <1>4, <1>6, <1>7, ValuesThen DEF TInv

LEMMA NewMapTInv ==
  ASSUME TInv, NewMap, UNCHANGED program
  PROVE  TInv'
<1>1. op.at = "new_map" /\ ~op.alloc /\ op.obj = NULL /\ op.str = NULL /\ op.drop <= Len(stack)
  BY StackTyped, HeapOpsAssumption
     DEF NewMap, At, TInv, OpTypes, OperandsThere, Place, Operands, Depth, StringLabels, HasStr,
         HasObj, Allocates, ImageLabels, Returns
<1>2. PICK o \in Obj :
         /\ Create(o, {}) /\ UNCHANGED <<stack, globals>>
         /\ op' = [op EXCEPT !.at = "finish", !.obj = o]
  BY FreshAddresses DEF NewMap
<1>3. HeapTypes'
  BY <1>1, <1>2, InHand, CreateTypes
<1>4. stack' \in Seq(Obj) /\ stack' = stack
  BY <1>1, <1>2, StackTyped, InHand
<1>5. op' \in OpRecord /\ op'.at = "finish" /\ op'.alloc = op.alloc /\ op'.obj = o /\ op'.str = NULL
      /\ op'.drop = op.drop /\ o # NULL
  BY <1>1, <1>2, OpTyped, HeapOpsAssumption DEF OpRecord, Labels, Returns
<1>6. OpTypes'
  BY <1>1, <1>5, HeapOpsAssumption
     DEF OpTypes, NoAlloc, Place, StringLabels, HasStr, HasObj, Allocates, ImageLabels, Returns
<1>7. OperandsThere'
  BY <1>1, <1>4, <1>5, StackTyped DEF OperandsThere, Operands, Place, StringLabels, Depth
<1>8. QED
  BY <1>2, <1>3, <1>4, <1>6, <1>7, ValuesThen DEF TInv

LEMMA NewClassTInv ==
  ASSUME TInv, NewClass, UNCHANGED program
  PROVE  TInv'
<1>1. op.at = "new_class" /\ ~op.alloc /\ op.obj = NULL /\ op.str = NULL /\ op.drop <= Len(stack) /\ Len(stack) >= 2
  BY StackTyped, HeapOpsAssumption
     DEF NewClass, At, TInv, OpTypes, OperandsThere, Place, Operands, Depth, StringLabels, HasStr,
         HasObj, Allocates, ImageLabels, Returns
<1>2. PICK o \in Obj :
         /\ Create(o, {Peek(1)}) /\ UNCHANGED <<stack, globals>>
         /\ op' = [op EXCEPT !.at = "class_fields", !.alloc = TRUE, !.obj = o]
  BY FreshAddresses DEF NewClass
<1>3. HeapTypes'
  BY <1>1, <1>2, CreateTypes, StackTyped DEF Peek
<1>4. stack' \in Seq(Obj) /\ stack' = stack
  BY <1>1, <1>2, StackTyped, InHand
<1>5. op' \in OpRecord /\ op'.at = "class_fields" /\ op'.alloc = TRUE /\ op'.obj = o /\ op'.str = NULL
      /\ op'.drop = op.drop /\ o # NULL
  BY <1>1, <1>2, OpTyped, HeapOpsAssumption DEF OpRecord, Labels, Returns
<1>6. OpTypes'
  BY <1>1, <1>5, HeapOpsAssumption
     DEF OpTypes, NoAlloc, Place, StringLabels, HasStr, HasObj, Allocates, ImageLabels, Returns
<1>7. OperandsThere'
  BY <1>1, <1>4, <1>5, StackTyped DEF OperandsThere, Operands, Place, StringLabels, Depth
<1>8. QED
  BY <1>2, <1>3, <1>4, <1>6, <1>7, ValuesThen DEF TInv

LEMMA ClassFieldsTInv ==
  ASSUME TInv, ClassFields, UNCHANGED program
  PROVE  TInv'
<1>1. op.at = "class_fields" /\ ~op.alloc /\ op.obj # NULL /\ op.str = NULL /\ op.drop <= Len(stack)
  BY StackTyped, HeapOpsAssumption
     DEF ClassFields, At, TInv, OpTypes, OperandsThere, Place, Operands, Depth, StringLabels,
         HasStr, HasObj, Allocates, ImageLabels, Returns
<1>2. /\ refs' = [refs EXCEPT ![op.obj] = @ \cup (refs[Peek(0)] \cap Str)]
      /\ gcEnabled' = op.saved /\ UNCHANGED <<objects, old, strings, rememberedSet, crashed>>
      /\ UNCHANGED <<stack, globals>> /\ op' = [op EXCEPT !.at = "finish"] /\ ~op.alloc
  BY DEF ClassFields, At
<1>3. HeapTypes'
  BY <1>1, <1>2, OpTyped, HeapOpsAssumption DEF TInv, HeapTypes
<1>4. stack' \in Seq(Obj) /\ stack' = stack
  BY <1>1, <1>2, StackTyped, InHand
<1>5. op' \in OpRecord /\ op'.at = "finish" /\ op'.alloc = op.alloc /\ op'.obj = op.obj /\ op'.str = NULL
      /\ op'.drop = op.drop
  BY <1>1, <1>2, OpTyped, HeapOpsAssumption DEF OpRecord, Labels, Returns
<1>6. OpTypes'
  BY <1>1, <1>5, HeapOpsAssumption
     DEF OpTypes, NoAlloc, Place, StringLabels, HasStr, HasObj, Allocates, ImageLabels, Returns
<1>7. OperandsThere'
  BY <1>1, <1>4, <1>5, StackTyped DEF OperandsThere, Operands, Place, StringLabels, Depth
<1>8. QED
  BY <1>2, <1>3, <1>4, <1>6, <1>7, ValuesThen DEF TInv

LEMMA NewInstanceTInv ==
  ASSUME TInv, NewInstance, UNCHANGED program
  PROVE  TInv'
<1>1. op.at = "new_instance" /\ ~op.alloc /\ op.obj = NULL /\ op.str = NULL /\ op.drop <= Len(stack) /\ op.drop >= 1
  BY StackTyped, HeapOpsAssumption
     DEF NewInstance, At, TInv, OpTypes, OperandsThere, Place, Operands, Depth, StringLabels,
         HasStr, HasObj, Allocates, ImageLabels, Returns
<1>2. PICK o \in Obj :
         /\ Create(o, {Peek(op.drop - 1)}) /\ Push(o) /\ UNCHANGED globals
         /\ op' = [op EXCEPT !.at = "field", !.alloc = TRUE, !.obj = o, !.drop = @ + 1]
  BY FreshAddresses DEF NewInstance
<1>3. HeapTypes'
  BY <1>1, <1>2, CreateTypes, StackTyped, OpTyped DEF Peek
<1>4. /\ stack' \in Seq(Obj) /\ Len(stack') = Len(stack) + 1 /\ stack' # <<>>
      /\ Peek(0)' = o /\ Drop(1)' = stack
  BY <1>1, <1>2, StackTyped, InHand, PushThen
<1>5. op' \in OpRecord /\ op'.at = "field" /\ op'.alloc = TRUE /\ op'.obj = o /\ op'.str = NULL
      /\ op'.drop = op.drop + 1 /\ op.drop \in Nat /\ o # NULL
  BY <1>1, <1>2, OpTyped, HeapOpsAssumption DEF OpRecord, Labels, Returns
<1>6. OpTypes'
  BY <1>1, <1>5, HeapOpsAssumption
     DEF OpTypes, NoAlloc, Place, StringLabels, HasStr, HasObj, Allocates, ImageLabels, Returns
<1>7. OperandsThere'
  BY <1>1, <1>4, <1>5, StackTyped DEF OperandsThere, Operands, Place, StringLabels, Depth
<1>8. QED
  BY <1>2, <1>3, <1>4, <1>6, <1>7, ValuesThen DEF TInv

LEMMA NewFunctionTInv ==
  ASSUME TInv, NewFunction, UNCHANGED program
  PROVE  TInv'
<1>1. op.at = "new_function" /\ ~op.alloc /\ op.obj = NULL /\ op.str = NULL /\ Len(stack) >= 1
  BY StackTyped, HeapOpsAssumption
     DEF NewFunction, At, TInv, OpTypes, OperandsThere, Place, Operands, Depth, StringLabels,
         HasStr, HasObj, Allocates, ImageLabels, Returns
<1>2. PICK o \in Obj, c \in Content :
         /\ Create(o, {}) /\ Push(o) /\ UNCHANGED globals /\ ~op.alloc
         /\ op' = [op EXCEPT !.at = "find", !.content = c, !.ret = "name_function", !.obj = o, !.drop = 2]
  BY FreshAddresses DEF NewFunction, At
<1>3. HeapTypes'
  BY <1>1, <1>2, InHand, CreateTypes
<1>4. /\ stack' \in Seq(Obj) /\ Len(stack') = Len(stack) + 1 /\ stack' # <<>>
      /\ Peek(0)' = o /\ Drop(1)' = stack
  BY <1>1, <1>2, StackTyped, InHand, PushThen
<1>5. op' \in OpRecord /\ op'.at = "find" /\ op'.alloc = op.alloc /\ op'.obj = o /\ op'.str = NULL
      /\ op'.ret = "name_function" /\ op'.drop = 2 /\ o # NULL
  BY <1>1, <1>2, OpTyped, HeapOpsAssumption DEF OpRecord, StringLabels, Labels, Returns
<1>6. OpTypes'
  BY <1>1, <1>5, HeapOpsAssumption
     DEF OpTypes, NoAlloc, Place, StringLabels, HasStr, HasObj, Allocates, ImageLabels, Returns
<1>7. OperandsThere'
  BY <1>1, <1>4, <1>5, StackTyped DEF OperandsThere, Operands, Place, StringLabels, Depth
<1>8. QED
  BY <1>2, <1>3, <1>4, <1>6, <1>7, ValuesThen DEF TInv

LEMMA NameFunctionTInv ==
  ASSUME TInv, NameFunction, UNCHANGED program
  PROVE  TInv'
<1>1. op.at = "name_function" /\ ~op.alloc /\ op.obj # NULL /\ op.str # NULL /\ Len(stack) >= 2 /\ op.drop <= Len(stack)
  BY StackTyped, HeapOpsAssumption
     DEF NameFunction, At, TInv, OpTypes, OperandsThere, Place, Operands, Depth, StringLabels,
         HasStr, HasObj, Allocates, ImageLabels, Returns
<1>2. /\ StoreIn(op.obj, {}, {op.str}, {op.str}) /\ UNCHANGED <<stack, globals>>
      /\ op' = [op EXCEPT !.at = "constant", !.alloc = TRUE, !.str = NULL, !.todo = refs[Peek(1)]]
      /\ Peek(1) \in Obj /\ refs[Peek(1)] \in SUBSET Obj
  BY <1>1, StackTyped DEF NameFunction, Peek, TInv, HeapTypes
<1>3. HeapTypes'
  BY <1>1, <1>2, InHand, StoreTypes
<1>4. stack' \in Seq(Obj) /\ stack' = stack
  BY <1>1, <1>2, StackTyped, InHand
<1>5. op' \in OpRecord /\ op'.at = "constant" /\ op'.alloc = TRUE /\ op'.obj = op.obj /\ op'.str = NULL
      /\ op'.drop = op.drop
  BY <1>1, <1>2, OpTyped, HeapOpsAssumption DEF OpRecord, Labels, Returns
<1>6. OpTypes'
  BY <1>1, <1>5, HeapOpsAssumption
     DEF OpTypes, NoAlloc, Place, StringLabels, HasStr, HasObj, Allocates, ImageLabels, Returns
<1>7. OperandsThere'
  BY <1>1, <1>4, <1>5, StackTyped DEF OperandsThere, Operands, Place, StringLabels, Depth
<1>8. QED
  BY <1>2, <1>3, <1>4, <1>6, <1>7, ValuesThen DEF TInv

LEMMA NativeNamedTInv ==
  ASSUME TInv, NativeNamed, UNCHANGED program
  PROVE  TInv'
<1>1. op.at = "native_name" /\ ~op.alloc /\ op.obj = NULL /\ op.str # NULL
  BY StackTyped, HeapOpsAssumption
     DEF NativeNamed, At, TInv, OpTypes, OperandsThere, Place, Operands, Depth, StringLabels,
         HasStr, HasObj, Allocates, ImageLabels, Returns
<1>2. Push(op.str) /\ UNCHANGED <<heap, globals>>
      /\ op' = [op EXCEPT !.at = "new_native", !.alloc = TRUE, !.drop = 1]
  BY DEF NativeNamed
<1>3. HeapTypes'
  BY <1>2 DEF TInv, HeapTypes, heap
<1>4. /\ stack' \in Seq(Obj) /\ Len(stack') = Len(stack) + 1 /\ stack' # <<>>
      /\ Peek(0)' = op.str /\ Drop(1)' = stack
  BY <1>1, <1>2, StackTyped, InHand, PushThen
<1>5. op' \in OpRecord /\ op'.at = "new_native" /\ op'.alloc = TRUE /\ op'.obj = NULL /\ op'.str = op.str
      /\ op'.drop = 1
  BY <1>1, <1>2, OpTyped, HeapOpsAssumption DEF OpRecord, Allocates, Labels, Returns
<1>6. OpTypes'
  BY <1>1, <1>5, HeapOpsAssumption
     DEF OpTypes, NoAlloc, Place, StringLabels, HasStr, HasObj, Allocates, ImageLabels, Returns
<1>7. OperandsThere'
  BY <1>1, <1>4, <1>5, StackTyped DEF OperandsThere, Operands, Place, StringLabels, Depth
<1>8. QED
  BY <1>2, <1>3, <1>4, <1>6, <1>7, ValuesThen DEF TInv

LEMMA NewNativeTInv ==
  ASSUME TInv, NewNative, UNCHANGED program
  PROVE  TInv'
<1>1. op.at = "new_native" /\ ~op.alloc /\ op.obj = NULL /\ op.str # NULL /\ op.drop <= Len(stack)
  BY StackTyped, HeapOpsAssumption
     DEF NewNative, At, TInv, OpTypes, OperandsThere, Place, Operands, Depth, StringLabels,
         HasStr, HasObj, Allocates, ImageLabels, Returns
<1>2. PICK o \in Obj :
         /\ Create(o, {op.str}) /\ Push(o) /\ UNCHANGED globals
         /\ op' = [op EXCEPT !.at = "define", !.alloc = TRUE, !.obj = o, !.drop = @ + 1]
  BY FreshAddresses DEF NewNative
<1>3. HeapTypes'
  BY <1>1, <1>2, InHand, CreateTypes
<1>4. /\ stack' \in Seq(Obj) /\ Len(stack') = Len(stack) + 1 /\ stack' # <<>>
      /\ Peek(0)' = o /\ Drop(1)' = stack
  BY <1>1, <1>2, StackTyped, InHand, PushThen
<1>5. op' \in OpRecord /\ op'.at = "define" /\ op'.alloc = TRUE /\ op'.obj = o /\ op'.str = op.str
      /\ op'.drop = op.drop + 1 /\ op.drop \in Nat
  BY <1>1, <1>2, OpTyped, HeapOpsAssumption DEF OpRecord, Labels, Returns
<1>6. OpTypes'
  BY <1>1, <1>5, HeapOpsAssumption
     DEF OpTypes, NoAlloc, Place, StringLabels, HasStr, HasObj, Allocates, ImageLabels, Returns
<1>7. OperandsThere'
  BY <1>1, <1>4, <1>5, StackTyped DEF OperandsThere, Operands, Place, StringLabels, Depth
<1>8. QED
  BY <1>2, <1>3, <1>4, <1>6, <1>7, ValuesThen DEF TInv

LEMMA HostNamedTInv ==
  ASSUME TInv, HostNamed, UNCHANGED program
  PROVE  TInv'
<1>1. op.at = "host_name" /\ ~op.alloc /\ op.str # NULL
  BY StackTyped, HeapOpsAssumption
     DEF HostNamed, At, TInv, OpTypes, OperandsThere, Place, Operands, Depth, StringLabels,
         HasStr, HasObj, Allocates, ImageLabels, Returns
<1>2. Push(op.str) /\ UNCHANGED <<heap, globals>>
      /\ op' = [op EXCEPT !.at = "define", !.alloc = TRUE, !.drop = 1]
  BY DEF HostNamed
<1>3. HeapTypes'
  BY <1>2 DEF TInv, HeapTypes, heap
<1>4. /\ stack' \in Seq(Obj) /\ Len(stack') = Len(stack) + 1 /\ stack' # <<>>
      /\ Peek(0)' = op.str /\ Drop(1)' = stack
  BY <1>1, <1>2, StackTyped, InHand, PushThen
<1>5. op' \in OpRecord /\ op'.at = "define" /\ op'.alloc = TRUE /\ op'.obj = op.obj /\ op'.str = op.str
      /\ op'.drop = 1
  BY <1>1, <1>2, OpTyped, HeapOpsAssumption DEF OpRecord, Labels, Returns
<1>6. OpTypes'
  BY <1>1, <1>5, HeapOpsAssumption
     DEF OpTypes, NoAlloc, Place, StringLabels, HasStr, HasObj, Allocates, ImageLabels, Returns
<1>7. OperandsThere'
  BY <1>1, <1>4, <1>5, StackTyped DEF OperandsThere, Operands, Place, StringLabels, Depth
<1>8. QED
  BY <1>2, <1>3, <1>4, <1>6, <1>7, ValuesThen DEF TInv

LEMMA MakeClassTInv ==
  ASSUME TInv, MakeClass, UNCHANGED program
  PROVE  TInv'
<1>1. op = Idle /\ Len(stack) >= 2
  BY StackTyped, HeapOpsAssumption
     DEF MakeClass, Ready, Is, At, TInv, OpTypes, OperandsThere, Place, Operands, Depth,
         StringLabels, HasStr, HasObj, Allocates, ImageLabels, Returns
<1>2. /\ op' = [Alloc("new_class") EXCEPT !.drop = 2, !.saved = gcEnabled]
      /\ gcEnabled' = FALSE /\ gcEnabled \in BOOLEAN /\ UNCHANGED <<objects, old, refs, strings, rememberedSet, crashed, stack, globals>>
  BY DEF MakeClass, TInv, HeapTypes
<1>3. HeapTypes'
  BY <1>2 DEF TInv, HeapTypes
<1>4. stack' \in Seq(Obj) /\ stack' = stack
  BY <1>1, <1>2, StackTyped, InHand
<1>5. op' \in OpRecord /\ op'.at = "new_class" /\ op'.alloc = TRUE /\ op'.obj = NULL /\ op'.str = NULL
      /\ op'.drop = 2
  BY <1>1, <1>2, OpTyped, HeapOpsAssumption DEF OpRecord, Idle, Alloc, Allocates, Labels, Returns
<1>6. OpTypes'
  BY <1>1, <1>5, HeapOpsAssumption
     DEF OpTypes, NoAlloc, Place, StringLabels, HasStr, HasObj, Allocates, ImageLabels, Returns
<1>7. OperandsThere'
  BY <1>1, <1>4, <1>5, StackTyped DEF OperandsThere, Operands, Place, StringLabels, Depth
<1>8. QED
  BY <1>2, <1>3, <1>4, <1>6, <1>7, ValuesThen DEF TInv

LEMMA BootstrapTInv ==
  ASSUME TInv, Bootstrap, UNCHANGED program
  PROVE  TInv'
<1>1. op = Idle
  BY StackTyped, HeapOpsAssumption
     DEF Bootstrap, Ready, At, TInv, OpTypes, OperandsThere, Place, Operands, Depth, StringLabels,
         HasStr, HasObj, Allocates, ImageLabels, Returns
<1>2. /\ op' = Alloc("image_function")
      /\ gcEnabled' = FALSE /\ UNCHANGED <<objects, old, refs, strings, rememberedSet, crashed, stack, globals>>
  BY DEF Bootstrap
<1>3. HeapTypes'
  BY <1>2 DEF TInv, HeapTypes
<1>4. stack' \in Seq(Obj) /\ stack' = stack
  BY <1>1, <1>2, StackTyped, InHand
<1>5. op' \in OpRecord /\ op'.at = "image_function" /\ op'.alloc = TRUE /\ op'.obj = NULL /\ op'.str = NULL
      /\ op'.drop = 0
  BY <1>1, <1>2, OpTyped, HeapOpsAssumption
     DEF OpRecord, Idle, Alloc, ImageLabels, Labels, Returns
<1>6. OpTypes'
  BY <1>1, <1>5, HeapOpsAssumption
     DEF OpTypes, NoAlloc, Place, StringLabels, HasStr, HasObj, Allocates, ImageLabels, Returns
<1>7. OperandsThere'
  BY <1>1, <1>4, <1>5, StackTyped DEF OperandsThere, Operands, Place, StringLabels, Depth
<1>8. QED
  BY <1>2, <1>3, <1>4, <1>6, <1>7, ValuesThen DEF TInv

----------------------------------------------------------------------------
(* The loops over todo, and the one over the arguments.                     *)
LEMMA LoopEndsTInv ==
  ASSUME TInv, op.at \in {"append", "field", "constant", "next_arg"}, ~op.alloc,
         op' = [op EXCEPT !.at = "finish"], UNCHANGED <<heap, stack, globals>>, UNCHANGED program
  PROVE  TInv'
<1>1. op.obj # NULL /\ op.str = NULL /\ op.drop <= Len(stack)
  BY StackTyped, HeapOpsAssumption
     DEF At, TInv, OpTypes, OperandsThere, Place, Operands, Depth, StringLabels, HasStr, HasObj,
         Allocates, ImageLabels, Returns
<1>2. op' = [op EXCEPT !.at = "finish"] /\ UNCHANGED <<heap, stack, globals>>
  OBVIOUS
<1>3. HeapTypes'
  BY <1>2 DEF TInv, HeapTypes, heap
<1>4. stack' \in Seq(Obj) /\ stack' = stack
  BY <1>1, <1>2, StackTyped, InHand
<1>5. op' \in OpRecord /\ op'.at = "finish" /\ op'.alloc = FALSE /\ op'.obj = op.obj /\ op'.str = NULL
      /\ op'.drop = op.drop
  BY <1>1, <1>2, OpTyped, HeapOpsAssumption DEF OpRecord, Labels, Returns
<1>6. OpTypes'
  BY <1>1, <1>5, HeapOpsAssumption
     DEF OpTypes, NoAlloc, Place, StringLabels, HasStr, HasObj, Allocates, ImageLabels, Returns
<1>7. OperandsThere'
  BY <1>1, <1>4, <1>5, StackTyped DEF OperandsThere, Operands, Place, StringLabels, Depth
<1>8. QED
  BY <1>2, <1>3, <1>4, <1>6, <1>7, ValuesThen DEF TInv

LEMMA LoopStoreTInv ==
  ASSUME TInv, NEW label \in {"append", "field", "constant"}, At(label), NEW v \in op.todo,
         NEW values \in SUBSET Obj, NEW barriered, StoreIn(op.obj, {}, values, barriered),
         op' = [op EXCEPT !.todo = @ \ {v}, !.alloc = TRUE], UNCHANGED <<stack, globals>>, UNCHANGED program
  PROVE  TInv'
<1>1. /\ op.at = label /\ op.obj # NULL /\ op.str = NULL /\ op.drop <= Len(stack)
      /\ label = "field" => op.drop >= 2
      /\ label = "constant" => Len(stack) >= 2
  BY StackTyped, HeapOpsAssumption
     DEF At, TInv, OpTypes, OperandsThere, Place, Operands, Depth, StringLabels, HasStr, HasObj,
         Allocates, ImageLabels, Returns
<1>2. /\ op' = [op EXCEPT !.todo = @ \ {v}, !.alloc = TRUE] /\ UNCHANGED <<stack, globals>>
      /\ StoreIn(op.obj, {}, values, barriered) /\ op.todo \ {v} \in SUBSET Obj
  BY OpTyped
<1>3. HeapTypes'
  BY <1>1, <1>2, InHand, StoreTypes
<1>4. stack' \in Seq(Obj) /\ stack' = stack
  BY <1>1, <1>2, StackTyped, InHand
<1>5. op' \in OpRecord /\ op'.at = label /\ op'.alloc = TRUE /\ op'.obj = op.obj /\ op'.str = NULL
      /\ op'.drop = op.drop
  BY <1>1, <1>2, OpTyped, HeapOpsAssumption DEF OpRecord, Labels, Returns
<1>6. OpTypes'
  BY <1>1, <1>5, HeapOpsAssumption
     DEF OpTypes, NoAlloc, Place, StringLabels, HasStr, HasObj, Allocates, ImageLabels, Returns
<1>7. OperandsThere'
  BY <1>1, <1>4, <1>5, StackTyped DEF OperandsThere, Operands, Place, StringLabels, Depth
<1>8. QED
  BY <1>2, <1>3, <1>4, <1>6, <1>7, ValuesThen DEF TInv

LEMMA NextArgCopiesTInv ==
  ASSUME TInv, At("next_arg"), NEW c \in Content, UNCHANGED <<heap, stack, globals>>,
         op' = [op EXCEPT !.at = "find", !.content = c, !.ret = "arg_copied"], UNCHANGED program
  PROVE  TInv'
<1>1. op.at = "next_arg" /\ ~op.alloc /\ op.obj # NULL /\ op.str = NULL /\ Len(stack) >= 1 /\ op.drop <= Len(stack)
  BY StackTyped, HeapOpsAssumption
     DEF At, TInv, OpTypes, OperandsThere, Place, Operands, Depth, StringLabels, HasStr, HasObj,
         Allocates, ImageLabels, Returns
<1>2. op' = [op EXCEPT !.at = "find", !.content = c, !.ret = "arg_copied"] /\ UNCHANGED <<heap, stack, globals>>
  OBVIOUS
<1>3. HeapTypes'
  BY <1>2 DEF TInv, HeapTypes, heap
<1>4. stack' \in Seq(Obj) /\ stack' = stack
  BY <1>1, <1>2, StackTyped, InHand
<1>5. op' \in OpRecord /\ op'.at = "find" /\ op'.alloc = FALSE /\ op'.obj = op.obj /\ op'.str = NULL
      /\ op'.drop = op.drop /\ op'.ret = "arg_copied"
  <2>1. /\ op'.at = "find" /\ op'.alloc = FALSE /\ op'.obj = op.obj /\ op'.str = NULL
        /\ op'.drop = op.drop /\ op'.ret = "arg_copied"
    BY <1>1, <1>2, OpTyped DEF OpRecord
  <2>2. "find" \in Labels /\ "arg_copied" \in Returns
    BY DEF StringLabels, Labels, Returns
  <2>3. op' \in OpRecord
    BY <1>2, <2>2, OpTyped DEF OpRecord
  <2>4. QED
    BY <2>1, <2>3
<1>6. OpTypes'
  BY <1>1, <1>5, HeapOpsAssumption
     DEF OpTypes, NoAlloc, Place, StringLabels, HasStr, HasObj, Allocates, ImageLabels, Returns
<1>7. OperandsThere'
  BY <1>1, <1>4, <1>5, StackTyped DEF OperandsThere, Operands, Place, StringLabels, Depth
<1>8. QED
  BY <1>2, <1>3, <1>4, <1>6, <1>7, ValuesThen DEF TInv

LEMMA AppendArgTInv ==
  ASSUME TInv, AppendArg, UNCHANGED program
  PROVE  TInv'
<1>1. op.at = "append_arg" /\ ~op.alloc /\ op.obj # NULL /\ op.str # NULL
      /\ stack # <<>> /\ Len(Drop(1)) >= 1 /\ op.drop <= Len(Drop(1))
  BY StackTyped, HeapOpsAssumption
     DEF AppendArg, At, TInv, OpTypes, OperandsThere, Place, Operands, Depth, StringLabels,
         HasStr, HasObj, Allocates, ImageLabels, Returns
<1>2. /\ StoreIn(op.obj, {}, {op.str}, {op.str}) /\ stack' = Drop(1) /\ UNCHANGED globals
      /\ op' = [op EXCEPT !.at = "next_arg", !.str = NULL]
  BY DEF AppendArg
<1>3. HeapTypes'
  BY <1>1, <1>2, InHand, StoreTypes
<1>4. stack' \in Seq(Obj) /\ stack' = Drop(1)
  BY <1>1, <1>2, StackTyped, InHand, DropThen
<1>5. op' \in OpRecord /\ op'.at = "next_arg" /\ op'.alloc = FALSE /\ op'.obj = op.obj /\ op'.str = NULL
      /\ op'.drop = op.drop
  BY <1>1, <1>2, OpTyped, HeapOpsAssumption DEF OpRecord, Labels, Returns
<1>6. OpTypes'
  BY <1>1, <1>5, HeapOpsAssumption
     DEF OpTypes, NoAlloc, Place, StringLabels, HasStr, HasObj, Allocates, ImageLabels, Returns
<1>7. OperandsThere'
  BY <1>1, <1>4, <1>5, StackTyped DEF OperandsThere, Operands, Place, StringLabels, Depth
<1>8. QED
  BY <1>2, <1>3, <1>4, <1>6, <1>7, ValuesThen DEF TInv

(* Strings: wherever the string is returned to.                            *)
----------------------------------------------------------------------------
(* Strings, wherever the string is returned to.                            *)

LEMMA AtString ==
  ASSUME TInv, op.at \in StringLabels
  PROVE  /\ op.ret \in Returns /\ op.ret \notin StringLabels /\ Place = op.ret
         /\ op.at # "intern" => op.str = NULL /\ Operands = stack
         /\ op.at = "intern" => op.str # NULL /\ Operands = Drop(1) /\ stack # <<>> /\ op.str = Peek(0)
         /\ Len(Operands) >= Depth(op.ret) /\ op.drop <= Len(Operands)
         /\ op.ret \in HasObj => op.obj # NULL
         /\ op.ret \in Allocates \cup {"native_name"} => op.obj = NULL
<1>1. op.ret \in Returns /\ op.ret \notin StringLabels /\ Place = op.ret
  BY OpTyped DEF TInv, OpTypes, Place, Returns, StringLabels
<1>2. /\ op.at # "intern" => op.str = NULL /\ Operands = stack
      /\ op.at = "intern" => op.str # NULL /\ Operands = Drop(1) /\ stack # <<>> /\ op.str = Peek(0)
  BY DEF TInv, OpTypes, OperandsThere, Operands, StringLabels, HasStr, Returns, ImageLabels
<1>3. QED
  BY <1>1, <1>2 DEF TInv, OpTypes, OperandsThere

(* The labels at which a string is awaited say all there is to say.        *)
LEMMA StringThen ==
  ASSUME TInv, op.at \in StringLabels, op' \in OpRecord, op'.ret = op.ret,
         op'.at \in StringLabels \cup {op.ret}, op'.obj = op.obj, op'.drop = op.drop,
         Operands' = Operands,
         op'.at = "intern" => stack' # <<>> /\ op'.str = Peek(0)',
         op'.at \in {"intern", op.ret} => op'.str # NULL,
         op'.at \notin {"intern", op.ret} => op'.str = NULL,
         op'.alloc => op'.at \notin {"find", op.ret}
  PROVE  OpTypes' /\ OperandsThere' /\ Place' = Place
<1>1. Place' = op.ret /\ Place = op.ret
  BY AtString DEF Place
<1>2. op'.at # "run" /\ op'.at # "append_arg"
  BY AtString DEF StringLabels, Returns
<1>3. /\ op'.alloc => op'.at \notin NoAlloc
      /\ op'.at \in HasStr => op'.str # NULL
      /\ op'.at \notin HasStr \cup ImageLabels => op'.str = NULL
  BY AtString DEF StringLabels, Returns, NoAlloc, HasStr, ImageLabels
<1>4. OpTypes'
  BY <1>1, <1>2, <1>3, AtString DEF OpTypes, Returns
<1>5. OperandsThere'
  BY <1>1, <1>2, AtString DEF OperandsThere, Returns
<1>6. QED
  BY <1>1, <1>4, <1>5

LEMMA FindStringTInv ==
  ASSUME TInv, FindString, UNCHANGED program
  PROVE  TInv'
<1>1. op.at \in {"find", "take"} /\ op.at \in StringLabels /\ ~op.alloc /\ UNCHANGED <<heap, stack, globals>>
  BY DEF FindString, At, StringLabels
<1>2. HeapTypes' /\ ValueTypes'
  BY <1>1 DEF TInv, HeapTypes, ValueTypes, heap
<1>3. CASE \E s \in strings : op' = [op EXCEPT !.at = op.ret, !.str = s]
  <2>1. PICK s \in strings : op' = [op EXCEPT !.at = op.ret, !.str = s]
    BY <1>3
  <2>2. s \in Str /\ s # NULL /\ op.ret \in Labels
    BY <1>1, HeapOpsAssumption, AtString DEF TInv, HeapTypes, Labels
  <2>3. /\ op' \in OpRecord /\ op'.at = op.ret /\ op'.str = s /\ op'.ret = op.ret
        /\ op'.obj = op.obj /\ op'.drop = op.drop /\ op'.alloc = FALSE
    BY <1>1, <2>1, <2>2, OpTyped DEF OpRecord
  <2>4. Operands' = Operands /\ op.ret # "intern"
    BY <1>1, <2>3, AtString DEF Operands, Returns
  <2>5. QED
    BY <1>1, <1>2, <2>2, <2>3, <2>4, AtString, StringThen DEF TInv
<1>4. CASE \E at \in {"new_string", "copy_chars"} : op' = [op EXCEPT !.at = at, !.alloc = TRUE]
  <2>1. PICK at \in {"new_string", "copy_chars"} : op' = [op EXCEPT !.at = at, !.alloc = TRUE]
    BY <1>4
  <2>2. at \in Labels /\ at \in StringLabels
    BY DEF Labels, StringLabels
  <2>3. /\ op' \in OpRecord /\ op'.at = at /\ op'.str = op.str /\ op'.ret = op.ret
        /\ op'.obj = op.obj /\ op'.drop = op.drop /\ op'.alloc = TRUE
    BY <1>1, <2>1, <2>2, OpTyped DEF OpRecord
  <2>4. Operands' = Operands /\ at # op.ret
    BY <1>1, <2>2, <2>3, AtString DEF Operands
  <2>5. QED
    BY <1>1, <1>2, <2>2, <2>3, <2>4, AtString, StringThen DEF TInv
<1>5. QED
  BY <1>3, <1>4 DEF FindString

LEMMA CopyCharsTInv ==
  ASSUME TInv, CopyChars, UNCHANGED program
  PROVE  TInv'
<1>1. /\ op.at = "copy_chars" /\ op.at \in StringLabels /\ UNCHANGED <<heap, stack, globals>>
      /\ op' = [op EXCEPT !.at = "new_string", !.alloc = TRUE]
  BY DEF CopyChars, At, StringLabels
<1>2. HeapTypes' /\ ValueTypes'
  BY <1>1 DEF TInv, HeapTypes, ValueTypes, heap
<1>3. /\ op' \in OpRecord /\ op'.at = "new_string" /\ op'.str = op.str /\ op'.ret = op.ret
      /\ op'.obj = op.obj /\ op'.drop = op.drop /\ op'.alloc = TRUE
  BY <1>1, OpTyped DEF OpRecord, Labels, StringLabels
<1>4. Operands' = Operands /\ op'.at \in StringLabels /\ op'.at # op.ret
  BY <1>1, <1>3, AtString DEF Operands, StringLabels
<1>5. QED
  BY <1>1, <1>2, <1>3, <1>4, AtString, StringThen DEF TInv

LEMMA AllocateStringTInv ==
  ASSUME TInv, AllocateString, UNCHANGED program
  PROVE  TInv'
<1>1. PICK s \in Str : /\ op.at = "new_string" /\ op.at \in StringLabels
                       /\ Create(s, {}) /\ Push(s) /\ UNCHANGED globals
                       /\ op' = [op EXCEPT !.at = "intern", !.alloc = TRUE, !.str = s]
  BY FreshAddresses DEF AllocateString, At, StringLabels
<1>2. s \in Obj /\ s # NULL
  BY HeapOpsAssumption
<1>3. /\ stack' \in Seq(Obj) /\ stack' # <<>> /\ Peek(0)' = s /\ Drop(1)' = stack
  BY <1>1, <1>2, StackTyped, PushThen
<1>4. HeapTypes' /\ ValueTypes'
  BY <1>1, <1>2, <1>3, CreateTypes, ValuesThen
<1>5. /\ op' \in OpRecord /\ op'.at = "intern" /\ op'.str = s /\ op'.ret = op.ret
      /\ op'.obj = op.obj /\ op'.drop = op.drop /\ op'.alloc = TRUE
  BY <1>1, OpTyped DEF OpRecord, Labels, StringLabels
<1>6. Operands' = Operands /\ op'.at \in StringLabels /\ op'.at # op.ret
  BY <1>1, <1>3, <1>5, AtString DEF Operands, StringLabels
<1>7. QED
  BY <1>1, <1>2, <1>3, <1>4, <1>5, <1>6, AtString, StringThen DEF TInv

LEMMA InternStringTInv ==
  ASSUME TInv, InternString, UNCHANGED program
  PROVE  TInv'
<1>1. /\ op.at = "intern" /\ op.at \in StringLabels /\ ~op.alloc
      /\ strings' = strings \cup {op.str} /\ stack' = Drop(1)
      /\ op' = [op EXCEPT !.at = op.ret]
      /\ UNCHANGED <<objects, old, refs, rememberedSet, gcEnabled, crashed, globals>>
  BY DEF InternString, At, StringLabels
<1>2. op.str # NULL /\ op.str \in Str /\ stack' \in Seq(Obj)
  BY <1>1, AtString, InHand, StackTyped, DropThen
<1>3. HeapTypes' /\ ValueTypes'
  BY <1>1, <1>2, ValuesThen DEF TInv, HeapTypes
<1>4. op.ret \in Labels
  BY <1>1, AtString DEF Labels
<1>5. /\ op' \in OpRecord /\ op'.at = op.ret /\ op'.str = op.str /\ op'.ret = op.ret
      /\ op'.obj = op.obj /\ op'.drop = op.drop /\ op'.alloc = FALSE
  BY <1>1, <1>4, OpTyped DEF OpRecord
<1>6. Operands' = Operands /\ op.ret # "intern"
  BY <1>1, <1>5, AtString DEF Operands, Returns
<1>7. QED
  BY <1>1, <1>2, <1>3, <1>5, <1>6, AtString, StringThen DEF TInv

(* A collection, at an allocation point or on demand.                      *)
LEMMA ReallocateTInv ==
  ASSUME TInv, Reallocate, UNCHANGED program
  PROVE  TInv'
<1>1. op' = [op EXCEPT !.alloc = FALSE] /\ UNCHANGED <<stack, globals>> /\ op.alloc
  BY DEF Reallocate
<1>2. HeapTypes'
  <2>1. CASE UNCHANGED heap
    BY <2>1 DEF TInv, HeapTypes, heap
  <2>2. QED
    BY <2>1, CollectTypes DEF Reallocate
<1>3. ValueTypes'
  BY <1>1, StackTyped, ValuesThen
<1>4. /\ op' \in OpRecord /\ op'.at = op.at /\ op'.alloc = FALSE /\ op'.obj = op.obj
      /\ op'.str = op.str /\ op'.ret = op.ret /\ op'.drop = op.drop
  BY <1>1, OpTyped DEF OpRecord
<1>5. op.at # "run" /\ Place' = Place /\ Operands' = Operands /\ Peek(0)' = Peek(0)
  BY <1>1, <1>4 DEF TInv, OpTypes, NoAlloc, Place, Operands, Drop, Peek
<1>6. OpTypes'
  BY <1>4, <1>5 DEF TInv, OpTypes
<1>7. OperandsThere'
  BY <1>1, <1>4, <1>5 DEF TInv, OperandsThere
<1>8. QED
  BY <1>2, <1>3, <1>6, <1>7 DEF TInv

----------------------------------------------------------------------------
(* The start of a program built ahead of time.                             *)

LEMMA AtImage ==
  ASSUME TInv, op.at \in ImageLabels
  PROVE  /\ Operands = stack /\ op.drop <= Len(stack) /\ Place = op.at
         /\ op.at # "image_function" => op.obj # NULL
         /\ op.at \in HasStr => op.str # NULL
  BY DEF TInv, OpTypes, OperandsThere, Operands, Place, ImageLabels, HasObj, StringLabels

LEMMA ImageThen ==
  ASSUME TInv, op.at \in ImageLabels, op' \in OpRecord, op'.obj # NULL, op'.drop = op.drop,
         UNCHANGED stack, op'.at \in (ImageLabels \ {"image_function"}) \cup {"find"},
         op'.at = "find" => op'.ret \in ImageLabels \cap Returns /\ op'.str = NULL,
         op'.at \in HasStr => op'.str # NULL,
         op'.alloc => op'.at \notin NoAlloc
  PROVE  OpTypes' /\ OperandsThere'
<1>1. Place' \in ImageLabels /\ Place' # "run" /\ op'.at # "run"
  BY DEF Place, ImageLabels, StringLabels
<1>2. Operands' = stack /\ Depth(Place') = 0
  BY <1>1 DEF Operands, ImageLabels, Depth
<1>3. OpTypes'
  BY <1>1 DEF OpTypes, ImageLabels, Allocates, StringLabels, HasStr, Returns
<1>4. OperandsThere'
  BY <1>1, <1>2, AtImage, StackTyped DEF OperandsThere, ImageLabels
<1>5. QED
  BY <1>3, <1>4

LEMMA CopyConstantTInv ==
  ASSUME TInv, op.at \in ImageLabels \ {"image_function"}, ~op.alloc,
         NEW ret \in ImageLabels \cap Returns, CopyConstant(ret),
         UNCHANGED <<heap, stack, globals, program>>
  PROVE  TInv'
<1>1. PICK c \in Content : op' = [op EXCEPT !.at = "find", !.content = c, !.ret = ret, !.str = NULL]
  BY DEF CopyConstant
<1>2. HeapTypes' /\ ValueTypes'
  BY DEF TInv, HeapTypes, ValueTypes, heap
<1>3. /\ op' \in OpRecord /\ op'.at = "find" /\ op'.str = NULL /\ op'.ret = ret
      /\ op'.obj = op.obj /\ op'.drop = op.drop /\ op'.alloc = FALSE
  BY <1>1, OpTyped DEF OpRecord, Labels, StringLabels
<1>4. OpTypes' /\ OperandsThere'
  BY <1>3, AtImage, ImageThen DEF HasStr, Returns
<1>5. QED
  BY <1>2, <1>4 DEF TInv

LEMMA GoToTInv ==
  ASSUME TInv, op.at \in ImageLabels \ {"image_function"}, ~op.alloc,
         NEW label \in {"image_class", "image_constant"}, GoTo(label),
         UNCHANGED <<heap, stack, globals, program>>
  PROVE  TInv'
<1>1. op' = [op EXCEPT !.at = label, !.str = NULL]
  BY DEF GoTo
<1>2. HeapTypes' /\ ValueTypes'
  BY DEF TInv, HeapTypes, ValueTypes, heap
<1>3. /\ op' \in OpRecord /\ op'.at = label /\ op'.str = NULL
      /\ op'.obj = op.obj /\ op'.drop = op.drop /\ op'.alloc = FALSE
  BY <1>1, OpTyped DEF OpRecord, Labels, ImageLabels
<1>4. OpTypes' /\ OperandsThere'
  BY <1>3, AtImage, ImageThen DEF HasStr, Returns, ImageLabels
<1>5. QED
  BY <1>2, <1>4 DEF TInv

(* The steps that store.                                                   *)
LEMMA ImageStoreTInv ==
  ASSUME TInv, op.at \in ImageLabels \ {"image_function"}, ~op.alloc,
         NEW owner \in Obj, NEW values \in SUBSET Obj, StoreIn(owner, {}, values, {}),
         NEW label \in {"image_name", "image_member", "image_constant"}, NEW alloc \in BOOLEAN,
         alloc => label # "image_name",
         op' = [op EXCEPT !.at = label, !.alloc = alloc, !.str = NULL],
         UNCHANGED <<stack, globals, program>>
  PROVE  TInv'
<1>1. HeapTypes' /\ ValueTypes'
  BY StoreTypes, StackTyped, ValuesThen
<1>2. /\ op' \in OpRecord /\ op'.at = label /\ op'.str = NULL
      /\ op'.obj = op.obj /\ op'.drop = op.drop /\ op'.alloc = alloc
  BY OpTyped DEF OpRecord, Labels, ImageLabels
<1>3. OpTypes' /\ OperandsThere'
  BY <1>2, AtImage, ImageThen DEF HasStr, Returns, ImageLabels, NoAlloc
<1>4. QED
  BY <1>1, <1>3 DEF TInv

LEMMA ImageFunctionTInv ==
  ASSUME TInv, ImageFunction, UNCHANGED program
  PROVE  TInv'
<1>1. PICK o \in Obj, next \in {"image_function", "image_name"} :
         /\ Create(o, {}) /\ UNCHANGED <<stack, globals>>
         /\ op' = [op EXCEPT !.at = next, !.alloc = (next = "image_function"),
                              !.obj = IF @ = NULL THEN o ELSE @,
                              !.todo = IF op.obj = NULL THEN @ ELSE @ \cup {o}]
  BY FreshAddresses DEF ImageFunction
<1>2. HeapTypes' /\ ValueTypes'
  BY <1>1, CreateTypes, StackTyped, ValuesThen
<1>3. op.at \in ImageLabels /\ op.at = "image_function" /\ op.str \in Str \cup {NULL}
  BY OpTyped DEF ImageFunction, At, ImageLabels
<1>4. op.todo \cup {o} \in SUBSET Obj /\ o # NULL
  BY OpTyped, HeapOpsAssumption
<1>5. PICK alloc \in BOOLEAN, obj \in Obj, todo \in SUBSET Obj :
         /\ alloc = (next = "image_function")
         /\ op' = [op EXCEPT !.at = next, !.alloc = alloc, !.obj = obj, !.todo = todo]
  <2> DEFINE alloc == next = "image_function"
             obj   == IF op.obj = NULL THEN o ELSE op.obj
             todo  == IF op.obj = NULL THEN op.todo ELSE op.todo \cup {o}
  <2>1. obj \in Obj /\ todo \in SUBSET Obj /\ alloc \in BOOLEAN
    BY <1>4, OpTyped
  <2>2. op' = [op EXCEPT !.at = next, !.alloc = alloc, !.obj = obj, !.todo = todo]
    BY <1>1
  <2> HIDE DEF obj, todo
  <2>3. QED
    BY <2>1, <2>2
<1>6. /\ op' \in OpRecord /\ op'.at = next /\ op'.str = op.str /\ op'.obj = obj
      /\ op'.drop = op.drop /\ op'.alloc = alloc
  <2>1. /\ op'.at = next /\ op'.str = op.str /\ op'.obj = obj
        /\ op'.drop = op.drop /\ op'.alloc = alloc
    BY <1>5, OpTyped DEF OpRecord
  <2>2. next \in Labels /\ obj \in Obj \cup {NULL}
    BY DEF Labels, ImageLabels
  <2>3. op' \in OpRecord
    BY <1>5, <2>2, OpTyped DEF OpRecord
  <2>4. QED
    BY <2>1, <2>3
<1>7. obj # NULL
  BY HeapOpsAssumption
<1>8. OpTypes' /\ OperandsThere'
  <2>1. CASE next = "image_name"
    BY <1>1, <1>3, <1>5, <1>6, <1>7, <2>1, ImageThen DEF ImageLabels, HasStr, Returns
  <2>2. CASE next = "image_function"
    <3>1. Place' = "image_function" /\ Operands' = stack
      BY <1>1, <1>6, <2>2 DEF Place, Operands, StringLabels
    <3>2. OpTypes'
      BY <1>6, <2>2, <3>1
         DEF OpTypes, StringLabels, NoAlloc, Returns, HasStr, HasObj, ImageLabels, Allocates
    <3>3. OperandsThere'
      BY <1>3, <1>6, <2>2, <3>1, AtImage, StackTyped DEF OperandsThere, Depth
    <3>4. QED
      BY <3>2, <3>3
  <2>3. QED
    BY <2>1, <2>2
<1>9. QED
  BY <1>2, <1>8 DEF TInv

LEMMA ImageNewClassTInv ==
  ASSUME TInv, ImageNewClass, UNCHANGED program
  PROVE  TInv'
<1>1. PICK o \in Obj :
         /\ Create(o, {op.str}) /\ UNCHANGED <<stack, globals>>
         /\ op' = [op EXCEPT !.at = "image_member", !.alloc = TRUE, !.todo = @ \cup {o}]
  BY FreshAddresses DEF ImageNewClass
<1>2. op.at = "image_new_class" /\ op.at \in ImageLabels /\ op.str \in Obj
  <2>1. op.at = "image_new_class" /\ op.at \in ImageLabels
    BY DEF ImageNewClass, At, ImageLabels
  <2>2. QED
    BY <2>1, AtImage, InHand DEF HasStr
<1>3. HeapTypes' /\ ValueTypes'
  BY <1>1, <1>2, CreateTypes, StackTyped, ValuesThen
<1>4. op.todo \cup {o} \in SUBSET Obj
  BY OpTyped
<1>5. /\ op' \in OpRecord /\ op'.at = "image_member" /\ op'.obj = op.obj
      /\ op'.drop = op.drop /\ op'.alloc = TRUE
  BY <1>1, <1>4, OpTyped DEF OpRecord, Labels, ImageLabels
<1>6. OpTypes' /\ OperandsThere'
  BY <1>1, <1>2, <1>5, AtImage, ImageThen DEF ImageLabels, HasStr, Returns, NoAlloc
<1>7. QED
  BY <1>3, <1>6 DEF TInv

LEMMA ImageClassNamedTInv ==
  ASSUME TInv, ImageClassNamed, UNCHANGED program
  PROVE  TInv'
<1>1. op.at = "image_class_named" /\ op.at \in ImageLabels /\ UNCHANGED <<heap, stack, globals>>
      /\ op' = [op EXCEPT !.at = "image_new_class", !.alloc = TRUE]
  BY DEF ImageClassNamed, At, ImageLabels
<1>2. HeapTypes' /\ ValueTypes'
  BY <1>1 DEF TInv, HeapTypes, ValueTypes, heap
<1>3. /\ op' \in OpRecord /\ op'.at = "image_new_class" /\ op'.obj = op.obj
      /\ op'.drop = op.drop /\ op'.str = op.str
  BY <1>1, OpTyped DEF OpRecord, Labels, ImageLabels
<1>4. OpTypes' /\ OperandsThere'
  BY <1>1, <1>3, AtImage, ImageThen DEF ImageLabels, HasStr, Returns, NoAlloc
<1>5. QED
  BY <1>2, <1>4 DEF TInv

LEMMA StaticsAreObjects ==
  ASSUME TInv
  PROVE  \A kind : Statics(kind) \subseteq Obj /\ Statics(kind) \subseteq Locals
  BY OpTyped, HeapOpsAssumption DEF Statics, Locals

ImageStep ==
    \/ ImageFunction \/ ImageName \/ ImageNamed \/ ImageClass \/ ImageClassNamed
    \/ ImageNewClass \/ ImageMember \/ ImageMemberNamed \/ ImageConstant \/ ImageConstantCopied

LEMMA ImageStepTInv ==
  ASSUME TInv, ImageStep, UNCHANGED program
  PROVE  TInv'
<1>1. CASE ImageName \/ ImageClass \/ ImageMember
  <2>1. op.at \in ImageLabels \ {"image_function"} /\ ~op.alloc /\ UNCHANGED <<heap, stack, globals>>
    BY <1>1 DEF ImageName, ImageClass, ImageMember, At, ImageLabels
  <2>2. \/ \E ret \in ImageLabels \cap Returns : CopyConstant(ret)
        \/ \E label \in {"image_class", "image_constant"} : GoTo(label)
    BY <1>1 DEF ImageName, ImageClass, ImageMember, ImageLabels, Returns
  <2>3. QED
    BY <2>1, <2>2, CopyConstantTInv, GoToTInv
<1>2. CASE ImageNamed \/ ImageMemberNamed \/ ImageConstantCopied
  <2>1. /\ op.at \in ImageLabels \ {"image_function"} /\ op.at \in HasStr /\ ~op.alloc
        /\ UNCHANGED <<stack, globals>>
    BY <1>2
       DEF ImageNamed, ImageMemberNamed, ImageConstantCopied, At, ImageLabels, HasStr, Returns
  <2>2. op.str \in Obj
    BY <2>1, AtImage, InHand
  <2>3. \E owner \in Obj : \E values \in SUBSET Obj : StoreIn(owner, {}, values, {})
    <3>1. {op.str} \in SUBSET Obj
      BY <2>2
    <3>2. CASE ImageNamed \/ ImageConstantCopied
      BY <3>1, <3>2, StaticsAreObjects DEF ImageNamed, ImageConstantCopied
    <3>3. CASE ImageMemberNamed
      <4>1. PICK k \in Obj, method \in {{}} \cup {{f} : f \in Statics("function")} :
               StoreIn(k, {}, {op.str} \cup method, {})
        BY <3>3, StaticsAreObjects DEF ImageMemberNamed
      <4>2. {op.str} \cup method \in SUBSET Obj
        BY <3>1, StaticsAreObjects
      <4>3. QED
        BY <4>1, <4>2
    <3>4. QED
      BY <1>2, <3>2, <3>3
  <2>4. \E label \in {"image_name", "image_member", "image_constant"}, alloc \in BOOLEAN :
          /\ alloc => label # "image_name"
          /\ op' = [op EXCEPT !.at = label, !.alloc = alloc, !.str = NULL]
    <3>1. op.alloc = FALSE
      BY <2>1, OpTyped
    <3>2. CASE ImageNamed
      <4>1. op' = [op EXCEPT !.at = "image_name", !.str = NULL]
        BY <3>2 DEF ImageNamed
      <4>2. op' = [op EXCEPT !.at = "image_name", !.alloc = FALSE, !.str = NULL]
        BY <3>1, <4>1, OpTyped DEF OpRecord
      <4>3. QED
        BY <4>2
    <3>3. CASE ImageMemberNamed
      BY <3>3 DEF ImageMemberNamed
    <3>4. CASE ImageConstantCopied
      BY <3>4 DEF ImageConstantCopied
    <3>5. QED
      BY <1>2, <3>2, <3>3, <3>4
  <2>5. QED
    BY <2>1, <2>3, <2>4, ImageStoreTInv
<1>3. CASE ImageConstant
  <2>1. op.at = "image_constant" /\ op.at \in ImageLabels \ {"image_function"} /\ ~op.alloc
        /\ UNCHANGED <<stack, globals>>
    BY <1>3 DEF ImageConstant, At, ImageLabels
  <2>2. CASE CopyConstant("image_constant_copied") /\ UNCHANGED heap
    BY <2>1, <2>2, CopyConstantTInv DEF ImageLabels, Returns
  <2>3. CASE \E f \in Statics("function"), v \in op.todo :
                StoreIn(f, {}, {v}, {}) /\ op' = [op EXCEPT !.alloc = TRUE]
    <3>1. PICK f \in Obj, v \in Obj : StoreIn(f, {}, {v}, {}) /\ op' = [op EXCEPT !.alloc = TRUE]
      BY <2>3, StaticsAreObjects, OpTyped
    <3>2. HeapTypes' /\ ValueTypes'
      BY <2>1, <3>1, StoreTypes, StackTyped, ValuesThen
    <3>3. /\ op' \in OpRecord /\ op'.at = "image_constant" /\ op'.obj = op.obj
          /\ op'.drop = op.drop
      BY <2>1, <3>1, OpTyped DEF OpRecord
    <3>4. OpTypes' /\ OperandsThere'
      BY <2>1, <3>3, AtImage, ImageThen DEF ImageLabels, HasStr, Returns, NoAlloc
    <3>5. QED
      BY <3>2, <3>4 DEF TInv
  <2>4. QED
    BY <1>3, <2>2, <2>3 DEF ImageConstant
<1>4. QED
  BY <1>1, <1>2, <1>3, ImageFunctionTInv, ImageNewClassTInv, ImageClassNamedTInv DEF ImageStep

----------------------------------------------------------------------------
(* The steps with which an operation ends, and those that are one.         *)
End ==
    \/ Finish \/ FinishString \/ IndexSet \/ SetEntry \/ MapDelete \/ StoreField \/ BindMethod
    \/ GlobalDefined \/ GlobalAssigned \/ BootstrapEnds \/ Constant \/ Pop \/ GetVariable \/ Load
    \/ GcNative \/ GcSwitch

LEMMA RestThen ==
  ASSUME TInv, HeapTypes', ValueTypes', op' = Idle
  PROVE  TInv'
<1>1. op'.at = "run" /\ op'.drop = 0 /\ op'.str = NULL /\ op'.alloc = FALSE
  BY DEF Idle
<1>2. op' \in OpRecord
  BY DEF Idle, OpRecord, Labels
<1>3. Place' = "run" /\ Operands' = stack'
  BY <1>1 DEF Place, Operands, StringLabels
<1>4. OpTypes'
  BY <1>1, <1>2, <1>3 DEF OpTypes, StringLabels, HasStr, HasObj, Returns, ImageLabels, Allocates
<1>5. Len(stack') \in Nat
  BY Elements DEF ValueTypes
<1>6. OperandsThere'
  BY <1>1, <1>3, <1>5 DEF OperandsThere, Depth
<1>7. QED
  BY <1>4, <1>6 DEF TInv

LEMMA ReadyRests ==
  ASSUME TInv, NEW name, Ready(name)
  PROVE  op = Idle /\ op.at = "run" /\ ~crashed
  BY DEF Ready, TInv, OpTypes

LEMMA LoadedTypes ==
  ASSUME TInv, NEW n \in Nat, n <= Len(stack), NEW x \in Obj, Result(n, x)
  PROVE  stack' \in Seq(Obj)
  BY StackTyped, ResultThen

LEMMA EndTInv ==
  ASSUME TInv, End, UNCHANGED program
  PROVE  TInv'
<1>1. CASE Finish
  <2>1. op.obj \in Obj /\ op.drop \in Nat /\ op.drop <= Len(stack)
    BY <1>1, InHand, OpTyped
       DEF Finish, At, TInv, OpTypes, OperandsThere, Place, Operands, HasObj, StringLabels
  <2>2. Result(op.drop, op.obj) /\ op' = Idle /\ UNCHANGED <<heap, globals>>
    BY <1>1 DEF Finish
  <2>3. HeapTypes' /\ ValueTypes'
    BY <2>1, <2>2, LoadedTypes, ValuesThen DEF TInv, HeapTypes, heap
  <2>4. QED
    BY <2>2, <2>3, RestThen
<1>2. CASE FinishString
  <2>1. op.str \in Obj /\ op.drop \in Nat /\ op.drop <= Len(stack)
    BY <1>2, InHand, OpTyped
       DEF FinishString, At, TInv, OpTypes, OperandsThere, Place, Operands, HasStr, Returns,
           StringLabels
  <2>2. Result(op.drop, op.str) /\ op' = Idle /\ UNCHANGED <<heap, globals>>
    BY <1>2 DEF FinishString
  <2>3. HeapTypes' /\ ValueTypes'
    BY <2>1, <2>2, LoadedTypes, ValuesThen DEF TInv, HeapTypes, heap
  <2>4. QED
    BY <2>2, <2>3, RestThen
<1>3. CASE IndexSet \/ MapDelete
  <2>1. op = Idle /\ UNCHANGED <<op, globals>> /\ Len(stack) >= 2
    BY <1>3, ReadyRests, StackTyped DEF IndexSet, MapDelete, Is
  <2>2. Peek(0) \in Obj /\ Peek(1) \in Obj
    BY <2>1, StackTyped DEF Peek
  <2>3. \E dropped, barriered : \E values \in SUBSET Obj : StoreIn(Peek(1), dropped, values, barriered)
    BY <1>3, <2>2 DEF IndexSet, MapDelete
  <2>4. stack' \in Seq(Obj)
    BY <1>3, <2>1, <2>2, StackTyped, LoadedTypes, DropThen DEF IndexSet, MapDelete
  <2>5. HeapTypes' /\ ValueTypes'
    BY <2>1, <2>2, <2>3, <2>4, StoreTypes, ValuesThen
  <2>6. QED
    BY <2>1, <2>5, RestThen
<1>4. CASE StoreField
  <2>1. op' = Idle /\ UNCHANGED globals /\ Len(stack) >= 2
    BY <1>4 DEF StoreField, At, TInv, OperandsThere, Place, Operands, StringLabels, Depth
  <2>2. Peek(0) \in Obj /\ Peek(1) \in Obj
    BY <2>1, StackTyped DEF Peek
  <2>3. \E dropped, barriered : \E values \in SUBSET Obj : StoreIn(Peek(1), dropped, values, barriered)
    BY <1>4, <2>2 DEF StoreField
  <2>4. stack' \in Seq(Obj)
    BY <1>4, <2>1, <2>2, LoadedTypes DEF StoreField
  <2>5. HeapTypes' /\ ValueTypes'
    BY <2>1, <2>2, <2>3, <2>4, StoreTypes, ValuesThen
  <2>6. QED
    BY <2>1, <2>5, RestThen
<1>5. CASE SetEntry \/ BindMethod
  <2>1. op' = Idle /\ UNCHANGED globals /\ Len(stack) >= 3
    BY <1>5
       DEF SetEntry, BindMethod, At, TInv, OperandsThere, Place, Operands, StringLabels, Depth
  <2>2. Peek(2) \in Obj /\ Top(2) \subseteq Obj
    BY <2>1, StackTyped DEF Peek, Top
  <2>3. \E dropped, barriered : StoreIn(Peek(2), dropped, Top(2), barriered)
    BY <1>5 DEF SetEntry, BindMethod
  <2>4. stack' \in Seq(Obj)
    BY <1>5, <2>1, <2>2, LoadedTypes DEF SetEntry, BindMethod
  <2>5. HeapTypes' /\ ValueTypes'
    BY <2>1, <2>2, <2>3, <2>4, StoreTypes, ValuesThen
  <2>6. QED
    BY <2>1, <2>5, RestThen
<1>6. CASE GlobalDefined \/ GlobalAssigned
  <2>1. op' = Idle /\ UNCHANGED heap /\ op.drop \in Nat /\ op.drop <= Len(stack) /\ op.str # NULL
    BY <1>6, OpTyped DEF GlobalDefined, GlobalAssigned, At, TInv, OpTypes, OperandsThere, Place,
       Operands, StringLabels, HasStr
  <2>2. stack' \in Seq(Obj)
    <3>1. Drop(op.drop) \in Seq(Obj) /\ stack \in Seq(Obj)
      BY <2>1, StackTyped, DropThen
    <3> <<>> \in Seq(Obj)
      BY EmptySeq
    <3>2. stack' \in {Drop(op.drop), stack, <<>>}
      BY <1>6 DEF GlobalDefined, GlobalAssigned
    <3>3. QED
      BY <3>1, <3>2
  <2>3. globals' \in [DOMAIN globals' -> Obj \cup {NULL}] /\ DOMAIN globals' \subseteq Str
    <3>1. CASE Define
      BY <2>1, <3>1, InHand, OpTyped DEF Define, TInv, ValueTypes
    <3>2. CASE UNCHANGED globals
      BY <3>2 DEF TInv, ValueTypes
    <3>3. QED
      BY <1>6, <3>1, <3>2 DEF GlobalDefined, GlobalAssigned
  <2>4. HeapTypes' /\ ValueTypes'
    BY <2>1, <2>2, <2>3 DEF TInv, HeapTypes, ValueTypes, heap
  <2>5. QED
    BY <2>1, <2>4, RestThen
<1>7. CASE BootstrapEnds
  <2>1. op' = Idle /\ Push(op.obj) /\ gcEnabled' = TRUE
        /\ UNCHANGED <<objects, old, refs, strings, rememberedSet, crashed, globals>>
    BY <1>7 DEF BootstrapEnds
  <2>2. op.obj # NULL
    BY <1>7, AtImage DEF BootstrapEnds, At, ImageLabels
  <2>3. stack' \in Seq(Obj)
    BY <2>1, <2>2, InHand, StackTyped, PushThen
  <2>4. HeapTypes' /\ ValueTypes'
    BY <2>1, <2>3, ValuesThen DEF TInv, HeapTypes
  <2>5. QED
    BY <2>1, <2>4, RestThen
<1>8. CASE Constant \/ Pop \/ GetVariable \/ Load
  <2>1. op = Idle /\ UNCHANGED <<heap, globals, op>>
    BY <1>8, ReadyRests DEF Constant, Pop, GetVariable, Load
  <2>2. OnStack \subseteq Obj /\ {globals[n] : n \in DOMAIN globals} \ {NULL} \subseteq Obj
    BY StackTyped DEF OnStack, TInv, ValueTypes
  <2>3. CASE Constant
    <3>1. PICK v \in Obj : Push(v)
      BY <2>2, <2>3 DEF Constant, TInv, HeapTypes
    <3>2. stack' \in Seq(Obj)
      BY <3>1, StackTyped, PushThen
    <3>3. QED
      BY <2>1, <3>2, ValuesThen, RestThen DEF TInv, HeapTypes, heap
  <2>4. CASE Pop
    <3>1. stack \in Seq(Obj) /\ 1 \in Nat /\ 1 <= Len(stack) /\ stack' = Drop(1)
      BY <2>4, StackTyped, Elements DEF Pop
    <3>2. stack' \in Seq(Obj)
      BY <3>1, DropThen
    <3>3. QED
      BY <2>1, <3>2, ValuesThen, RestThen DEF TInv, HeapTypes, heap
  <2>5. CASE GetVariable
    <3>1. PICK v \in Obj : Push(v)
      BY <2>2, <2>5 DEF GetVariable
    <3>2. stack' \in Seq(Obj)
      BY <3>1, StackTyped, PushThen
    <3>3. QED
      BY <2>1, <3>2, ValuesThen, RestThen DEF TInv, HeapTypes, heap
  <2>6. CASE Load
    <3>1. 1 \in Nat /\ 1 <= Len(stack) /\ Peek(0) \in Obj
      BY <2>6, StackTyped DEF Load, Is
    <3>2. PICK v \in Obj : Result(1, v)
      BY <2>6, <3>1 DEF Load, TInv, HeapTypes
    <3>3. stack' \in Seq(Obj)
      BY <3>1, <3>2, LoadedTypes
    <3>4. QED
      BY <2>1, <3>3, ValuesThen, RestThen DEF TInv, HeapTypes, heap
  <2>7. QED
    BY <1>8, <2>3, <2>4, <2>5, <2>6
<1>9. CASE GcNative \/ GcSwitch
  <2>1. op = Idle /\ UNCHANGED <<stack, globals, op>>
    BY <1>9, ReadyRests DEF GcNative, GcSwitch
  <2>2. HeapTypes'
    <3>1. CASE GcNative
      BY <3>1, CollectTypes DEF GcNative
    <3>2. CASE GcSwitch
      BY <3>2 DEF GcSwitch, TInv, HeapTypes
    <3>3. QED
      BY <1>9, <3>1, <3>2
  <2>3. QED
    BY <2>1, <2>2, StackTyped, ValuesThen, RestThen
<1>10. QED
  BY <1>1, <1>2, <1>3, <1>4, <1>5, <1>6, <1>7, <1>8, <1>9 DEF End

(* The steps in the middle of an operation.                                *)
Loop == ArrayAppend \/ NextArg \/ InitialField \/ AddConstant

LEMMA LoopTInv ==
  ASSUME TInv, Loop, UNCHANGED program
  PROVE  TInv'
<1>1. UNCHANGED <<stack, globals>> /\ ~op.alloc /\ op.at \in {"append", "field", "constant", "next_arg"}
  BY DEF Loop, ArrayAppend, NextArg, InitialField, AddConstant, At
<1>2. CASE op' = [op EXCEPT !.at = "finish"] /\ UNCHANGED heap
  BY <1>1, <1>2, LoopEndsTInv
<1>3. CASE NextArg /\ ~(op' = [op EXCEPT !.at = "finish"] /\ UNCHANGED heap)
  BY <1>1, <1>3, NextArgCopiesTInv DEF NextArg
<1>4. CASE ArrayAppend /\ op.todo # {}
  <2>1. PICK v \in op.todo : /\ StoreIn(op.obj, {}, {v}, {v})
                             /\ op' = [op EXCEPT !.todo = @ \ {v}, !.alloc = TRUE]
    BY <1>4 DEF ArrayAppend
  <2>2. {v} \in SUBSET Obj /\ At("append")
    BY <1>4, OpTyped DEF ArrayAppend
  <2>3. QED
    BY <1>1, <2>1, <2>2, LoopStoreTInv
<1>5. CASE AddConstant /\ op.todo # {}
  <2>1. PICK v \in op.todo : /\ StoreIn(op.obj, {}, {v}, {})
                             /\ op' = [op EXCEPT !.todo = @ \ {v}, !.alloc = TRUE]
    BY <1>5 DEF AddConstant
  <2>2. {v} \in SUBSET Obj /\ At("constant")
    BY <1>5, OpTyped DEF AddConstant
  <2>3. QED
    BY <1>1, <2>1, <2>2, LoopStoreTInv
<1>6. CASE InitialField /\ op.todo # {}
  <2>1. PICK name \in op.todo, value \in {{}} \cup {{v} : v \in Top(op.drop - 1)} :
               /\ StoreIn(op.obj, {}, {name} \cup value, {})
               /\ op' = [op EXCEPT !.todo = @ \ {name}, !.alloc = TRUE]
    BY <1>6 DEF InitialField
  <2>2. Top(op.drop - 1) \subseteq Obj
    BY StackTyped DEF Top
  <2>3. {name} \cup value \in SUBSET Obj
    BY <2>1, <2>2, OpTyped
  <2>4. At("field")
    BY <1>6 DEF InitialField
  <2>5. QED
    BY <1>1, <2>1, <2>3, <2>4, LoopStoreTInv
<1>7. QED
  BY <1>2, <1>3, <1>4, <1>5, <1>6 DEF Loop, ArrayAppend, NextArg, InitialField, AddConstant

LEMMA NextTInv ==
  ASSUME TInv, [Next]_vars
  PROVE  TInv'
<1>1. CASE UNCHANGED vars
  BY <1>1 DEF vars, heap, TInv, HeapTypes, ValueTypes, OpTypes, OperandsThere, Place, Operands,
         Drop, Peek
<1>2. CASE Next
  <2>1. UNCHANGED program /\ Operation
    BY <1>2 DEF Next
  <2>2. CASE Start \/ End \/ Loop \/ ImageStep
    BY <2>1, <2>2, StartTInv, EndTInv, LoopTInv, ImageStepTInv
  <2>3. CASE FindString \/ CopyChars \/ AllocateString \/ InternString \/ Reallocate
    BY <2>1, <2>3, FindStringTInv, CopyCharsTInv, AllocateStringTInv, InternStringTInv,
       ReallocateTInv
  <2>4. CASE NewArray \/ ArgsArray \/ ArgCopied \/ AppendArg \/ NewMap \/ MakeClass \/ NewClass
             \/ ClassFields
    BY <2>1, <2>4, NewArrayTInv, ArgsArrayTInv, ArgCopiedTInv, AppendArgTInv, NewMapTInv,
       MakeClassTInv, NewClassTInv, ClassFieldsTInv
  <2>5. CASE NewInstance \/ NewFunction \/ NameFunction \/ NativeNamed \/ NewNative \/ HostNamed
             \/ Bootstrap
    BY <2>1, <2>5, NewInstanceTInv, NewFunctionTInv, NameFunctionTInv, NativeNamedTInv,
       NewNativeTInv, HostNamedTInv, BootstrapTInv
  <2>6. QED
    BY <2>1, <2>2, <2>3, <2>4, <2>5 DEF Operation, Start, End, Loop, ImageStep
<1>3. QED
  BY <1>1, <1>2

----------------------------------------------------------------------------
(* What a collection leaves: it frees nothing rooted and nothing that an   *)
(* object it examined and kept refers to; a minor one examines the young   *)
(* objects, and the remembered ones for what they refer to.                *)
Frees(major, white) ==
    /\ objects' = objects \ white
    /\ old' = IF major THEN old \ white ELSE objects \ white
    /\ refs' = [o \in Obj |-> IF o \in white THEN {} ELSE refs[o]]
    /\ strings' = strings \ white
    /\ rememberedSet' = IF major THEN rememberedSet ELSE {}
    /\ UNCHANGED <<gcEnabled, crashed>>

LEMMA ReclaimFrees ==
  ASSUME NEW major \in BOOLEAN, NEW seeds, H!Seeds(major) \subseteq seeds, H!Reclaim(major, seeds)
  PROVE  \E white \in SUBSET H!Scope(major) :
            /\ Frees(major, white) /\ seeds \cap white = {}
            /\ \A o \in H!Scope(major) \ white : refs[o] \cap white = {}
<1> DEFINE scope == H!Scope(major)
           white == H!White(major, seeds)
           marked == H!Marked(major, seeds)
<1>1. white = scope \ marked
  BY DEF H!White
<1>2. marked = {o \in scope : \A S \in SUBSET scope : H!Traced(major, seeds, S) => o \in S}
  BY DEF H!Marked
<1>3. seeds \cap scope \subseteq marked
  BY <1>2 DEF H!Traced
<1>4. \A o \in marked : refs[o] \cap scope \subseteq marked
  <2> SUFFICES ASSUME NEW o \in marked, NEW r \in refs[o] \cap scope,
                      NEW S \in SUBSET scope, H!Traced(major, seeds, S)
               PROVE  r \in S
    BY <1>2
  <2>1. o \in S
    BY <1>2
  <2>2. QED
    BY <2>1 DEF H!Traced
<1>5. Frees(major, white)
  BY DEF H!Reclaim, Frees
<1> HIDE DEF scope, white, marked
<1>6. white \in SUBSET scope /\ seeds \cap white = {}
  BY <1>1, <1>3
<1>7. \A o \in scope \ white : refs[o] \cap white = {}
  BY <1>1, <1>4
<1>8. QED
  BY <1>5, <1>6, <1>7 DEF scope

LEMMA CollectionFrees ==
  ASSUME TInv, NEW major \in BOOLEAN, H!CollectGarbage(major)
  PROVE  \/ UNCHANGED <<objects, old, refs, strings, rememberedSet, gcEnabled>>
         \/ \E white \in SUBSET objects :
              /\ Frees(major, white) /\ Roots \cap white = {}
              /\ major => \A o \in objects \ white : refs[o] \cap white = {}
              /\ ~major => /\ white \cap old = {}
                           /\ \A o \in (objects \ white) \ old : refs[o] \cap white = {}
                           /\ \A o \in rememberedSet \cap objects : refs[o] \cap white = {}
<1>1. CASE crashed' = TRUE /\ UNCHANGED <<H!heap, Roots, rememberedSet, gcEnabled>>
  BY <1>1 DEF H!heap
<1>2. CASE \E seeds : H!Seeds(major) \subseteq seeds /\ H!Reclaim(major, seeds)
  <2>1. PICK seeds : H!Seeds(major) \subseteq seeds /\ H!Reclaim(major, seeds)
    BY <1>2
  <2>2. PICK white \in SUBSET H!Scope(major) :
            /\ Frees(major, white) /\ seeds \cap white = {}
            /\ \A o \in H!Scope(major) \ white : refs[o] \cap white = {}
    BY <2>1, ReclaimFrees
  <2>3. Roots \subseteq seeds
    BY <2>1 DEF H!Seeds
  <2>4. ~major => \A o \in rememberedSet \cap objects : refs[o] \subseteq seeds
    BY <2>1 DEF H!Seeds
  <2>5. H!Scope(major) = IF major THEN objects ELSE objects \ old
    BY DEF H!Scope, H!Young
  <2>6. QED
    BY <2>2, <2>3, <2>4, <2>5
<1>3. QED
  BY <1>1, <1>2 DEF H!CollectGarbage
----------------------------------------------------------------------------
(* Interning.  While a string is allocated no live one has its contents,   *)
(* and the new one is the only live string that is not in the table.       *)
SInv ==
    /\ \A s, t \in objects \cap Str : Chars[s] = Chars[t] => s = t
    /\ op.at # "intern" => objects \cap Str = strings
    /\ op.at = "intern" => objects \cap Str = strings \cup {op.str}
    /\ op.at \in {"copy_chars", "new_string"} => \A s \in strings : Chars[s] # op.content

Interning == {"intern", "copy_chars", "new_string"}

LEMMA InitSInv == Init => SInv
  BY DEF Init, H!Init, Idle, SInv

(* All steps but those of string_copy and string_take and the collections  *)
(* leave the strings alone.                                                *)
Quiet ==
    /\ op.at \notin Interning /\ op'.at \notin Interning /\ strings' = strings
    /\ objects' \cap Str = objects \cap Str

LEMMA QuietSInv ==
  ASSUME SInv, Quiet
  PROVE  SInv'
  BY DEF SInv, Quiet, Interning

LEMMA StoreQuiet ==
  ASSUME NEW owner, NEW dropped, NEW values, NEW barriered,
         StoreIn(owner, dropped, values, barriered)
  PROVE  UNCHANGED <<objects, strings>>
  BY DEF StoreIn

LEMMA CreateQuiet ==
  ASSUME TInv, NEW kind, kind # "string", NEW o \in Fresh(kind), NEW kids, Create(o, kids)
  PROVE  strings' = strings /\ objects' \cap Str = objects \cap Str
  BY FreshAddresses DEF Create, H!New

LEMMA StartSInv ==
  ASSUME TInv, SInv, Start
  PROVE  SInv'
<1>1. op.at = "run" /\ UNCHANGED heap
  BY StartBegins
<1>2. op'.at \notin Interning
  <2>1. CASE CopyString \/ DefineNative \/ HostSetGlobal
    BY <2>1 DEF Begin, BeginCopy, Idle, Interning, CopyString, DefineNative, HostSetGlobal
  <2>2. CASE Concatenate \/ MapNew \/ SetField \/ AddMethod \/ Assemble
    BY <2>2 DEF Begin, Alloc, Idle, Interning, Concatenate, MapNew, SetField, AddMethod, Assemble
  <2>3. CASE DefineGlobal
    BY <2>3 DEF Begin, GlobalOp, Alloc, Idle, Interning, DefineGlobal
  <2>4. CASE SetGlobal
    BY <2>4 DEF Begin, GlobalOp, Alloc, Idle, Interning, SetGlobal
  <2>5. CASE ArrayLiteral \/ MapKeys \/ ChunkConsts \/ AppendNative \/ Args \/ MapSet \/ Construct
    BY <2>5 DEF Begin, CopyOut, Alloc, Idle, Interning, ArrayLiteral, MapKeys, ChunkConsts,
                AppendNative, Args, MapSet, Construct
  <2>6. QED
    BY <2>1, <2>2, <2>3, <2>4, <2>5 DEF Start
<1>3. QED
  BY <1>1, <1>2, QuietSInv DEF Quiet, Interning, heap

LEMMA EndSInv ==
  ASSUME TInv, SInv, End, ~GcNative
  PROVE  SInv'
<1>1. op.at \notin Interning
  BY
     DEF End, At, Ready, Interning, Finish, FinishString, IndexSet, SetEntry, MapDelete,
         StoreField,
         BindMethod, GlobalDefined, GlobalAssigned, BootstrapEnds, Constant, Pop, GetVariable, Load,
         GcNative, GcSwitch
<1>2. op'.at \notin Interning
  BY <1>1
     DEF End, Idle, Interning, Finish, FinishString, IndexSet, SetEntry, MapDelete, StoreField,
         BindMethod, GlobalDefined, GlobalAssigned, BootstrapEnds, Constant, Pop, GetVariable, Load,
         GcNative, GcSwitch
<1>3. UNCHANGED <<objects, strings>>
  BY StoreQuiet
     DEF End, heap, Finish, FinishString, IndexSet, SetEntry, MapDelete, StoreField,
         BindMethod, GlobalDefined, GlobalAssigned, BootstrapEnds, Constant, Pop, GetVariable, Load,
         GcNative, GcSwitch
<1>4. QED
  BY <1>1, <1>2, <1>3, QuietSInv DEF Quiet

(* The steps in the middle of an operation that allocate no string.        *)
Creates ==
    \/ NewArray \/ ArgsArray \/ NewMap \/ NewClass \/ NewInstance \/ NewFunction \/ NewNative
    \/ ImageFunction \/ ImageNewClass
Stores ==
    \/ ArrayAppend \/ AppendArg \/ InitialField \/ NameFunction \/ AddConstant
    \/ ImageNamed \/ ImageMemberNamed \/ ImageConstant \/ ImageConstantCopied
Moves ==
    \/ NextArg \/ ArgCopied \/ MakeClass \/ ClassFields \/ NativeNamed \/ HostNamed \/ Bootstrap
    \/ ImageName \/ ImageClass \/ ImageClassNamed \/ ImageMember

LEMMA CreatesSInv ==
  ASSUME TInv, SInv, Creates
  PROVE  SInv'
<1>1. op.at \notin Interning
  BY DEF Creates, At, Interning, NewArray, ArgsArray, NewMap, NewClass, NewInstance, NewFunction,
         NewNative, ImageFunction, ImageNewClass
<1>2. op'.at \notin Interning
  BY OpTyped
     DEF OpRecord, Creates, Interning, NewArray, ArgsArray, NewMap, NewClass, NewInstance,
         NewFunction, NewNative, ImageFunction, ImageNewClass
<1>3. strings' = strings /\ objects' \cap Str = objects \cap Str
  BY CreateQuiet
     DEF Creates, NewArray, ArgsArray, NewMap, NewClass, NewInstance, NewFunction,
         NewNative, ImageFunction, ImageNewClass
<1>4. QED
  BY <1>1, <1>2, <1>3, QuietSInv DEF Quiet

LEMMA StoresSInv ==
  ASSUME TInv, SInv, Stores
  PROVE  SInv'
<1>1. op.at \notin Interning
  BY DEF Stores, At, Interning, ArrayAppend, AppendArg, InitialField, NameFunction, AddConstant,
         ImageNamed, ImageMemberNamed, ImageConstant, ImageConstantCopied
<1>2. op'.at \notin Interning
  BY <1>1, OpTyped
     DEF OpRecord, Stores, Interning, ArrayAppend, AppendArg, InitialField, NameFunction,
         AddConstant,
         ImageNamed, ImageMemberNamed, ImageConstant, ImageConstantCopied, CopyConstant
<1>3. UNCHANGED <<objects, strings>>
  BY StoreQuiet
     DEF Stores, heap, ArrayAppend, AppendArg, InitialField, NameFunction, AddConstant,
         ImageNamed, ImageMemberNamed, ImageConstant, ImageConstantCopied
<1>4. QED
  BY <1>1, <1>2, <1>3, QuietSInv DEF Quiet

LEMMA MovesSInv ==
  ASSUME TInv, SInv, Moves
  PROVE  SInv'
<1>1. op.at \notin Interning
  BY DEF Moves, At, Ready, Interning, NextArg, ArgCopied, MakeClass, ClassFields, NativeNamed,
         HostNamed, Bootstrap, ImageName, ImageClass, ImageClassNamed, ImageMember
<1>2. op'.at \notin Interning
  BY OpTyped
     DEF OpRecord, Moves, Alloc, Idle, Interning, NextArg, ArgCopied, MakeClass, ClassFields,
         NativeNamed,
         HostNamed, Bootstrap, ImageName, ImageClass, ImageClassNamed, ImageMember, CopyConstant, GoTo
<1>3. UNCHANGED <<objects, strings>>
  BY DEF Moves, heap, NextArg, ArgCopied, MakeClass, ClassFields, NativeNamed,
         HostNamed, Bootstrap, ImageName, ImageClass, ImageClassNamed, ImageMember
<1>4. QED
  BY <1>1, <1>2, <1>3, QuietSInv DEF Quiet

(* string_copy and string_take.                                            *)
LEMMA StringSInv ==
  ASSUME TInv, SInv, FindString \/ CopyChars \/ AllocateString \/ InternString
  PROVE  SInv'
<1>1. CASE FindString
  <2>1. op.at \in {"find", "take"} /\ UNCHANGED <<objects, strings>> /\ op.at \notin Interning
    BY <1>1 DEF FindString, At, heap, Interning
  <2>2. CASE op' = [op EXCEPT !.at = IF At("take") THEN "new_string" ELSE "copy_chars",
                              !.alloc = TRUE]
             /\ \A s \in strings : Chars[s] # op.content
    <3>1. op'.at \in {"new_string", "copy_chars"} /\ op'.content = op.content
      BY <2>2, OpTyped DEF OpRecord
    <3>2. QED
      BY <2>1, <2>2, <3>1 DEF SInv, Interning
  <2>3. CASE \E s \in strings : op' = [op EXCEPT !.at = op.ret, !.str = s]
    <3>1. op'.at = op.ret /\ op.ret \in Returns \cup {"run"}
      BY <2>3, OpTyped DEF OpRecord
    <3>2. op'.at \notin Interning
      BY <3>1 DEF Returns, Interning
    <3>3. QED
      BY <2>1, <3>2, QuietSInv DEF Quiet
  <2>4. QED
    BY <1>1, <2>2, <2>3 DEF FindString
<1>2. CASE CopyChars
  <2>1. op.at = "copy_chars" /\ UNCHANGED <<objects, strings>>
    BY <1>2 DEF CopyChars, At, heap
  <2>2. op'.at = "new_string" /\ op'.content = op.content
    BY <1>2, OpTyped DEF CopyChars, OpRecord
  <2>3. QED
    BY <2>1, <2>2 DEF SInv
<1>3. CASE AllocateString
  <2>1. PICK s \in Fresh("string") :
           /\ op.at = "new_string" /\ Chars[s] = op.content /\ Create(s, {})
           /\ op' = [op EXCEPT !.at = "intern", !.alloc = TRUE, !.str = s]
    BY <1>3 DEF AllocateString, At
  <2>2. s \in Str /\ objects' = objects \cup {s} /\ strings' = strings
    BY <2>1, FreshAddresses DEF Create, H!New
  <2>3. op'.at = "intern" /\ op'.str = s
    BY <2>1, OpTyped DEF OpRecord
  <2>4. objects \cap Str = strings /\ \A t \in strings : Chars[t] # Chars[s]
    BY <2>1 DEF SInv
  <2>5. QED
    BY <2>2, <2>3, <2>4 DEF SInv
<1>4. CASE InternString
  <2>1. op.at = "intern" /\ strings' = strings \cup {op.str} /\ objects' = objects
    BY <1>4 DEF InternString, At
  <2>2. op'.at = op.ret /\ op.ret \in Returns \cup {"run"}
    BY <1>4, OpTyped DEF InternString, OpRecord
  <2>3. op'.at \notin Interning
    BY <2>2 DEF Returns, Interning
  <2>4. QED
    BY <2>1, <2>3 DEF SInv, Interning
<1>5. QED
  BY <1>1, <1>2, <1>3, <1>4

(* A collection: the string that is being interned is on the stack.        *)
LEMMA CollectionSInv ==
  ASSUME TInv, SInv, NEW major \in BOOLEAN, H!CollectGarbage(major),
         op'.at = op.at, op'.str = op.str, op'.content = op.content
  PROVE  SInv'
<1>1. CASE UNCHANGED <<objects, strings>>
  BY <1>1 DEF SInv
<1>2. CASE \E white \in SUBSET objects : Frees(major, white) /\ Roots \cap white = {}
  <2>1. PICK white \in SUBSET objects :
           objects' = objects \ white /\ strings' = strings \ white /\ Roots \cap white = {}
    BY <1>2 DEF Frees
  <2>2. op.at = "intern" => op.str \notin white
    <3> SUFFICES ASSUME op.at = "intern" PROVE op.str \in Roots
      BY <2>1
    <3>1. stack # <<>> /\ op.str = Peek(0)
      BY DEF TInv, OperandsThere
    <3>2. Len(stack) \in DOMAIN stack
      BY <3>1, StackTyped, Elements
    <3>3. QED
      BY <3>1, <3>2, StackTyped DEF Peek, Roots, OnStack
  <2>3. QED
    BY <2>1, <2>2 DEF SInv
<1>3. QED
  BY <1>1, <1>2, CollectionFrees

LEMMA NextSInv ==
  ASSUME TInv, SInv, [Next]_vars
  PROVE  SInv'
<1>1. CASE UNCHANGED vars
  BY <1>1 DEF vars, heap, SInv
<1>2. CASE Reallocate
  <2>1. op'.at = op.at /\ op'.str = op.str /\ op'.content = op.content
    BY <1>2, OpTyped DEF Reallocate, OpRecord
  <2>2. CASE UNCHANGED heap
    BY <2>1, <2>2 DEF SInv, heap
  <2>3. QED
    BY <1>2, <2>1, <2>2, CollectionSInv DEF Reallocate
<1>3. CASE GcNative
  BY <1>3, CollectionSInv DEF GcNative
<1>4. CASE Operation /\ ~Reallocate /\ ~GcNative
  <2>1. CASE Start
    BY <2>1, StartSInv
  <2>2. CASE End
    BY <1>4, <2>2, EndSInv
  <2>3. CASE Creates
    BY <2>3, CreatesSInv
  <2>4. CASE Stores
    BY <2>4, StoresSInv
  <2>5. CASE Moves
    BY <2>5, MovesSInv
  <2>6. CASE FindString \/ CopyChars \/ AllocateString \/ InternString
    BY <2>6, StringSInv
  <2>7. QED
    BY <1>4, <2>1, <2>2, <2>3, <2>4, <2>5, <2>6 DEF Operation, Start, End, Creates, Stores, Moves
<1>5. QED
  BY <1>1, <1>2, <1>3, <1>4 DEF Next

(* The variables of the operations have their types: no operation takes    *)
(* more operands than the stack holds (its callers check, or the compiler  *)
(* put them there).                                                        *)
THEOREM TypeCorrect == Spec => []TypeOK
<1>1. ASSUME TInv PROVE TypeOK
  <2>1. Roots \subseteq Obj
    BY <1>1, StackTyped DEF Roots, OnStack, TInv, ValueTypes
  <2>2. H!TypeOK
    BY <1>1, <2>1 DEF TInv, HeapTypes, H!TypeOK
  <2>3. op.drop <= Len(stack)
    <3>1. CASE op.at \in {"intern", "append_arg"}
      <4>1. 1 \in Nat /\ 1 <= Len(stack)
        BY <1>1, <3>1, StackTyped, Elements DEF TInv, OperandsThere
      <4>2. Len(Drop(1)) = Len(stack) - 1
        BY <1>1, <4>1, StackTyped, DropThen
      <4>3. QED
        BY <1>1, <3>1, <4>1, <4>2, StackTyped, OpTyped DEF TInv, OperandsThere, Operands
    <3>2. QED
      BY <1>1, <3>1 DEF TInv, OperandsThere, Operands
  <2>4. QED
    BY <1>1, <2>2, <2>3, OpTyped DEF TypeOK, TInv, ValueTypes
<1>2. QED
  BY <1>1, InitTInv, NextTInv, PTL DEF Spec

(* Two live strings never have the same contents, and outside the          *)
(* allocation of a string every live one is in the intern table: comparing *)
(* addresses compares contents, whatever collections happen while a string *)
(* is copied, allocated or entered (string_copy, string_take).             *)
THEOREM StringsInterned == Spec => []StringsAreInterned
<1>1. SInv => StringsAreInterned
  BY DEF SInv, StringsAreInterned
<1>2. QED
  BY <1>1, InitTInv, NextTInv, InitSInv, NextSInv, PTL DEF Spec
=============================================================================
