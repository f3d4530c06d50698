------------------------------ MODULE HeapOps ------------------------------
(***************************************************************************)
(* The operations of the interpreter and of its native functions that      *)
(* allocate or store (src/src/vm.c, object.c, natives.c, api.c), each cut  *)
(* at the points where reallocate may run a collection.                    *)
(*                                                                         *)
(* A collection sees the value stack and the globals, not the C variables  *)
(* of the operation in progress: an operation is correct if everything it  *)
(* still uses is rooted whenever it allocates, and if it tells the         *)
(* collector of every old-to-young reference it creates, whatever the      *)
(* collections in its middle have promoted or freed.                       *)
(*                                                                         *)
(* Stack slots and container elements that hold no object (numbers, nil)   *)
(* are left out, and so is the slot of the native function being called.   *)
(***************************************************************************)
EXTENDS Naturals, Sequences

CONSTANTS
    Obj,            \* object addresses
    Str,            \* those where strings are allocated
    Chars,          \* Chars[s]: contents of the strings allocated at s
    NULL,           \* a value that is not an object, or no object
    RefSets,        \* bound: the sets of references an object may hold
    Programs        \* the programs explored, with the operations each uses
                    \* (ops), what is allocated at which addresses (memory)
                    \* and how deep the stack is when one begins (depth)

ASSUME HeapOpsAssumption ==
    /\ Str \subseteq Obj /\ NULL \notin Obj
    /\ \A p \in Programs : \A o \in DOMAIN p.memory :
           o \in Obj /\ (p.memory[o] = "string" <=> o \in Str)

Content == {Chars[s] : s \in Str}

VARIABLES
    objects, old, refs, strings, rememberedSet, gcEnabled, crashed,
                    \* the heap, as in GenHeap
    stack,          \* vm->stack up to vm->stackTop
    globals,        \* vm->globals
    program,        \* the one that runs
    op              \* the operation in progress, with its C variables

heap == <<objects, old, refs, strings, rememberedSet, gcEnabled, crashed>>
vars == <<heap, stack, globals, program, op>>

(* The code to run next (at), whether it starts by allocating, the object  *)
(* being built, the string in hand, the contents looked for and where the  *)
(* string is returned to, the values still to be stored, the stack slots   *)
(* that the result replaces, and savedGc of native_make_class.             *)
Idle == [at |-> "run", alloc |-> FALSE, obj |-> NULL, str |-> NULL,
         content |-> NULL, ret |-> "run", todo |-> {}, drop |-> 0, saved |-> FALSE]

OnStack == {stack[i] : i \in DOMAIN stack}
(* What mark_roots marks.                                                  *)
Roots   == OnStack \cup DOMAIN globals \cup ({globals[n] : n \in DOMAIN globals} \ {NULL})
(* What the C code of the operation in progress still uses.                *)
Locals  == ({op.obj, op.str} \cup op.todo) \ {NULL}

H == INSTANCE GenHeap WITH roots <- Roots

TypeOK ==
    /\ H!TypeOK
    /\ stack \in Seq(Obj)
    /\ DOMAIN globals \subseteq Str /\ program \in Programs
    /\ op.obj \in Obj \cup {NULL} /\ op.str \in Str \cup {NULL}
    /\ op.todo \subseteq Obj
    /\ op.drop <= Len(stack)

Init ==
    /\ stack = <<>>
    /\ globals = [n \in {} |-> NULL]
    /\ program \in Programs
    /\ op = Idle
    /\ H!Init

----------------------------------------------------------------------------
(* Control, the value stack and the allocator.                             *)

Peek(distance) == stack[Len(stack) - distance]
Top(n)         == {stack[i] : i \in DOMAIN stack \ (1 .. Len(stack) - n)}
Drop(n)        == SubSeq(stack, 1, Len(stack) - n)
Push(v)        == stack' = Append(stack, v)
Result(n, v)   == stack' = Append(Drop(n), v)

Kind(o) == program.memory[o]
Is(kind, distance) == Len(stack) > distance /\ Kind(Peek(distance)) = kind

Ready(name) == op.at = "run" /\ name \in program.ops /\ Len(stack) <= program.depth /\ ~crashed
At(label)   == op.at = label /\ ~op.alloc /\ ~crashed
Alloc(label) == [Idle EXCEPT !.at = label, !.alloc = TRUE]

(* An operation that starts by allocating, or by copying a string.         *)
Begin(name, first) == Ready(name) /\ op' = first /\ UNCHANGED <<heap, stack, globals>>
BeginCopy(name, ret, obj) ==
    \E c \in Content :
       Begin(name, [Idle EXCEPT !.at = "find", !.content = c, !.ret = ret, !.obj = obj])

(* reallocate: growth past a threshold runs collect_garbage first.         *)
Reallocate ==
    /\ op.alloc /\ ~crashed
    /\ op' = [op EXCEPT !.alloc = FALSE]
    /\ UNCHANGED <<stack, globals>>
    /\ UNCHANGED heap \/ \E major \in BOOLEAN : H!CollectGarbage(major)

(* allocate_object, once its memory is there.                              *)
Fresh(kind) == {o \in DOMAIN program.memory \ objects : Kind(o) = kind}
Create(o, kids) ==
    /\ H!New(o, kids)
    /\ UNCHANGED <<old, strings, rememberedSet, gcEnabled, crashed>>

(* values are stored in owner, over dropped; barriered are those that      *)
(* gc_write_barrier is told of.                                            *)
StoreIn(owner, dropped, values, barriered) ==
    /\ (refs[owner] \ dropped) \cup values \in RefSets
    /\ refs' = [refs EXCEPT ![owner] = (@ \ dropped) \cup values]
    /\ rememberedSet' = rememberedSet \cup UNION {H!Barrier(owner, v) : v \in barriered}
    /\ UNCHANGED <<objects, old, strings, gcEnabled, crashed>>

(* What one slot may hold; the class of an instance is in no slot.         *)
Slot(owner) == {{}} \cup {{r} : r \in {v \in refs[owner] : Kind(v) # "class"}}

(* The result takes the place of the operands and temporaries.             *)
Finish ==
    /\ At("finish")
    /\ Result(op.drop, op.obj)
    /\ op' = Idle
    /\ UNCHANGED <<heap, globals>>

----------------------------------------------------------------------------
(* Strings.                                                                *)

(* Chr, Substr, ToStr...: a native whose result comes from string_copy.    *)
CopyString == BeginCopy("copy_string", "finish_string", NULL)

(* concatenate: the operands stay on the stack until the result is made.   *)
Concatenate ==
    /\ Is("string", 0) /\ Is("string", 1)
    /\ \E c \in Content :
          Begin("concatenate", [Alloc("take") EXCEPT
                                !.content = c, !.ret = "finish_string", !.drop = 2])

(* string_copy and string_take look the contents up in the intern table;   *)
(* string_take owns a buffer already, string_copy allocates one.           *)
\* Mutant: string_take does not look.
FindStringCopyOnly ==
    /\ At("find") \/ At("take")
    /\ \/ \E s \in strings :
             /\ At("find") /\ Chars[s] = op.content
             /\ op' = [op EXCEPT !.at = op.ret, !.str = s]
       \/ /\ At("take") \/ \A s \in strings : Chars[s] # op.content
          /\ op' = [op EXCEPT !.at = IF At("take") THEN "new_string" ELSE "copy_chars",
                              !.alloc = TRUE]
    /\ UNCHANGED <<heap, stack, globals>>
FindString ==
    /\ At("find") \/ At("take")
    /\ \/ \E s \in strings :
             /\ Chars[s] = op.content
             /\ op' = [op EXCEPT !.at = op.ret, !.str = s]
       \/ /\ \A s \in strings : Chars[s] # op.content
          /\ op' = [op EXCEPT !.at = IF At("take") THEN "new_string" ELSE "copy_chars",
                              !.alloc = TRUE]
    /\ UNCHANGED <<heap, stack, globals>>

CopyChars ==
    /\ At("copy_chars")
    /\ op' = [op EXCEPT !.at = "new_string", !.alloc = TRUE]
    /\ UNCHANGED <<heap, stack, globals>>

(* allocate_string: the new string is pushed while the table may grow.     *)
\* Mutant: it is pushed below the last operand, and lost with the pop.
AllocateStringUnrooted ==
    /\ At("new_string")
    /\ \E s \in Fresh("string") :
          /\ Chars[s] = op.content
          /\ Create(s, {})
          /\ stack' = IF stack = <<>> THEN <<s>> ELSE Append(stack, Peek(0))
          /\ op' = [op EXCEPT !.at = "intern", !.alloc = TRUE, !.str = s]
    /\ UNCHANGED globals
AllocateString ==
    /\ At("new_string")
    /\ \E s \in Fresh("string") :
          /\ Chars[s] = op.content
          /\ Create(s, {})
          /\ Push(s)
          /\ op' = [op EXCEPT !.at = "intern", !.alloc = TRUE, !.str = s]
    /\ UNCHANGED globals

InternString ==
    /\ At("intern")
    /\ strings' = strings \cup {op.str}
    /\ stack' = Drop(1)
    /\ op' = [op EXCEPT !.at = op.ret]
    /\ UNCHANGED <<objects, old, refs, rememberedSet, gcEnabled, crashed, globals>>

FinishString ==
    /\ At("finish_string")
    /\ Result(op.drop, op.str)
    /\ op' = Idle
    /\ UNCHANGED <<heap, globals>>

----------------------------------------------------------------------------
(* Arrays: literals, MapKeys, ChunkConsts and Append share the loop over   *)
(* array_append.                                                           *)

(* jit_h_array: the n elements stay on the stack, below the array.         *)
ArrayLiteral ==
    \E n \in 0 .. Len(stack) :
       Begin("array", [Alloc("new_array") EXCEPT !.todo = Top(n), !.drop = n])

CopyOut(name, values) ==
    Begin(name, [Alloc("new_array") EXCEPT !.todo = values, !.drop = 1])
MapKeys ==
    Is("map", 0) /\ \E keys \in SUBSET (refs[Peek(0)] \cap Str) : CopyOut("map_keys", keys)
ChunkConsts ==
    Is("function", 0) /\ \E pool \in SUBSET refs[Peek(0)] : CopyOut("chunk_consts", pool)

(* The new array is pushed, to be reachable while it grows.                *)
\* Mutant: it is not.
NewArrayUnrooted ==
    /\ At("new_array")
    /\ \E o \in Fresh("array") :
          /\ Create(o, {})
          /\ op' = [op EXCEPT !.at = "append", !.alloc = TRUE, !.obj = o]
    /\ UNCHANGED <<stack, globals>>
NewArray ==
    /\ At("new_array")
    /\ \E o \in Fresh("array") :
          /\ Create(o, {})
          /\ Push(o)
          /\ op' = [op EXCEPT !.at = "append", !.alloc = TRUE, !.obj = o, !.drop = @ + 1]
    /\ UNCHANGED globals

AppendNative ==
    /\ Is("array", 1)
    /\ Begin("append", [Alloc("append") EXCEPT
                        !.obj = Peek(1), !.todo = {Peek(0)}, !.drop = 2])

(* array_append: value_array_write, which grows before it stores, then the *)
(* barrier.                                                                *)
ArrayAppend ==
    /\ At("append")
    /\ \/ /\ op.todo = {}
          /\ op' = [op EXCEPT !.at = "finish"]
          /\ UNCHANGED heap
       \/ \E v \in op.todo :
             /\ StoreIn(op.obj, {}, {v}, {v})
             /\ op' = [op EXCEPT !.todo = @ \ {v}, !.alloc = TRUE]
    /\ UNCHANGED <<stack, globals>>

(* Args(): each argument is copied and pushed, appended and popped.        *)
Args == Begin("args", Alloc("args_array"))
ArgsArray ==
    /\ At("args_array")
    /\ \E o \in Fresh("array") :
          /\ Create(o, {})
          /\ Push(o)
          /\ op' = [op EXCEPT !.at = "next_arg", !.obj = o, !.drop = 1]
    /\ UNCHANGED globals
NextArg ==
    /\ At("next_arg")
    /\ \/ \E c \in Content :
             op' = [op EXCEPT !.at = "find", !.content = c, !.ret = "arg_copied"]
       \/ op' = [op EXCEPT !.at = "finish"]
    /\ UNCHANGED <<heap, stack, globals>>
ArgCopied ==
    /\ At("arg_copied")
    /\ Push(op.str)
    /\ op' = [op EXCEPT !.at = "append_arg", !.alloc = TRUE]
    /\ UNCHANGED <<heap, globals>>
AppendArg ==
    /\ At("append_arg")
    /\ StoreIn(op.obj, {}, {op.str}, {op.str})
    /\ stack' = Drop(1)
    /\ op' = [op EXCEPT !.at = "next_arg", !.str = NULL]
    /\ UNCHANGED globals

----------------------------------------------------------------------------
(* Stores into containers.                                                 *)

(* jit_h_index_set: nothing allocates between the pops and the push.       *)
IndexSet ==
    /\ Ready("index_set") /\ Is("array", 1)
    /\ \E dropped \in Slot(Peek(1)) : StoreIn(Peek(1), dropped, {Peek(0)}, {Peek(0)})
    /\ Result(2, Peek(0))
    /\ UNCHANGED <<globals, op>>

MapNew == Begin("map_new", Alloc("new_map"))
NewMap ==
    /\ At("new_map")
    /\ \E o \in Fresh("map") :
          /\ Create(o, {})
          /\ op' = [op EXCEPT !.at = "finish", !.obj = o]
    /\ UNCHANGED <<stack, globals>>

(* map_set: table_set may grow the table, then key and value are stored.   *)
MapSet == Is("map", 2) /\ Is("string", 1) /\ Begin("map_set", Alloc("set_entry"))
SetEntry ==
    /\ At("set_entry")
    /\ \E dropped \in Slot(Peek(2)) : StoreIn(Peek(2), dropped, Top(2), Top(2))
    /\ Result(3, Peek(2))
    /\ op' = Idle
    /\ UNCHANGED globals

MapDelete ==
    /\ Ready("map_delete") /\ Is("map", 1) /\ Peek(0) \in refs[Peek(1)] \cap Str
    /\ \E value \in Slot(Peek(1)) : StoreIn(Peek(1), {Peek(0)} \cup value, {}, {})
    /\ stack' = Drop(2)
    /\ UNCHANGED <<globals, op>>

----------------------------------------------------------------------------
(* Classes and instances.                                                  *)

(* MakeClass(name, fields): class_new allocates the class, then its field  *)
(* array; the class is not rooted, so the collector is held off.           *)
MakeClass ==
    /\ Ready("make_class") /\ Is("string", 1) /\ Is("array", 0)
    /\ op' = [Alloc("new_class") EXCEPT !.drop = 2, !.saved = gcEnabled]
    /\ gcEnabled' = FALSE
    /\ UNCHANGED <<objects, old, refs, strings, rememberedSet, crashed, stack, globals>>
NewClass ==
    /\ At("new_class")
    /\ \E o \in Fresh("class") :
          /\ Create(o, {Peek(1)})
          /\ op' = [op EXCEPT !.at = "class_fields", !.alloc = TRUE, !.obj = o]
    /\ UNCHANGED <<stack, globals>>
ClassFields ==
    /\ At("class_fields")
    /\ refs[op.obj] \cup (refs[Peek(0)] \cap Str) \in RefSets
    /\ refs' = [refs EXCEPT ![op.obj] = @ \cup (refs[Peek(0)] \cap Str)]
    /\ gcEnabled' = op.saved
    /\ op' = [op EXCEPT !.at = "finish"]
    /\ UNCHANGED <<objects, old, strings, rememberedSet, crashed, stack, globals>>

(* call_value on a class: an instance is made and pushed, and each field   *)
(* set without a barrier, its table growing between the stores.  todo is   *)
(* the field names left; a field without an argument is nil.               *)
Construct ==
    \E argCount \in 0 .. 2 :
       /\ Is("class", argCount)
       /\ \E fields \in SUBSET (refs[Peek(argCount)] \cap Str) :
             Begin("construct", [Alloc("new_instance") EXCEPT
                                 !.todo = fields, !.drop = argCount + 1])
NewInstance ==
    /\ At("new_instance")
    /\ \E o \in Fresh("instance") :
          /\ Create(o, {Peek(op.drop - 1)})
          /\ Push(o)
          /\ op' = [op EXCEPT !.at = "field", !.alloc = TRUE, !.obj = o, !.drop = @ + 1]
    /\ UNCHANGED globals
InitialField ==
    /\ At("field")
    /\ \/ /\ op.todo = {}
          /\ op' = [op EXCEPT !.at = "finish"]
          /\ UNCHANGED heap
       \/ \E name \in op.todo, value \in {{}} \cup {{v} : v \in Top(op.drop - 1)} :
             /\ op.obj \notin value
             /\ StoreIn(op.obj, {}, {name} \cup value, {})
             /\ op' = [op EXCEPT !.todo = @ \ {name}, !.alloc = TRUE]
    /\ UNCHANGED <<stack, globals>>

(* jit_h_set_field: table_set may grow the table although the field is     *)
(* there; both operands stay on the stack.                                 *)
SetField ==
    Is("instance", 1) /\ refs[Peek(1)] \cap Str # {} /\ Begin("set_field", Alloc("store_field"))
StoreField ==
    /\ At("store_field")
    /\ \E dropped \in Slot(Peek(1)) : StoreIn(Peek(1), dropped, {Peek(0)}, {Peek(0)})
    /\ Result(2, Peek(0))
    /\ op' = Idle
    /\ UNCHANGED globals

(* AddMethod(class, name, function): the barrier is told of the function,  *)
(* not of the name.                                                        *)
AddMethod ==
    /\ Is("class", 2) /\ Is("string", 1) /\ Is("function", 0)
    /\ Begin("add_method", Alloc("bind_method"))
BindMethod ==
    /\ At("bind_method")
    /\ \E dropped \in Slot(Peek(2)) : StoreIn(Peek(2), dropped, Top(2), {Peek(0)})
    /\ Result(3, Peek(2))
    /\ op' = Idle
    /\ UNCHANGED globals

----------------------------------------------------------------------------
(* Functions and globals.                                                  *)

(* Assemble(code, constants): the function is made and pushed, its name    *)
(* interned and stored with a barrier, then the constants are stored with  *)
(* none while the pool and the code buffer grow.  The code array holds     *)
(* integers and is left out.                                               *)
Assemble == Is("array", 0) /\ Begin("assemble", Alloc("new_function"))
NewFunction ==
    /\ At("new_function")
    /\ \E o \in Fresh("function"), c \in Content :
          /\ Create(o, {})
          /\ Push(o)
          /\ op' = [op EXCEPT !.at = "find", !.content = c, !.ret = "name_function",
                              !.obj = o, !.drop = 2]
    /\ UNCHANGED globals
\* Mutant: the name is stored without a barrier.
NameFunctionRaw ==
    /\ At("name_function")
    /\ StoreIn(op.obj, {}, {op.str}, {})
    /\ op' = [op EXCEPT !.at = "constant", !.alloc = TRUE, !.str = NULL,
                        !.todo = refs[Peek(1)]]
    /\ UNCHANGED <<stack, globals>>
NameFunction ==
    /\ At("name_function")
    /\ StoreIn(op.obj, {}, {op.str}, {op.str})
    /\ op' = [op EXCEPT !.at = "constant", !.alloc = TRUE, !.str = NULL,
                        !.todo = refs[Peek(1)]]
    /\ UNCHANGED <<stack, globals>>
(* chunk_add_constant for each constant, then chunk_write for the code.    *)
AddConstant ==
    /\ At("constant")
    /\ \/ /\ op.todo = {}
          /\ op' = [op EXCEPT !.at = "finish"]
          /\ UNCHANGED heap
       \/ \E v \in op.todo :
             /\ StoreIn(op.obj, {}, {v}, {})
             /\ op' = [op EXCEPT !.todo = @ \ {v}, !.alloc = TRUE]
    /\ UNCHANGED <<stack, globals>>

(* jit_h_define_global, jit_h_set_global: the name is a constant of a      *)
(* function on the stack; the value, if it is an object at all, stays on   *)
(* top while the table of globals grows.                                   *)
GlobalOp(name, next) ==
    \E f \in OnStack, v \in {NULL} \cup Top(1) :
       /\ Kind(f) = "function"
       /\ \E n \in refs[f] \cap Str :
             Begin(name, [Alloc(next) EXCEPT !.str = n, !.obj = v,
                                             !.drop = IF v = NULL THEN 0 ELSE 1])
DefineGlobal == GlobalOp("define_global", "define")
SetGlobal    == GlobalOp("set_global", "assign")

Define ==
    globals' = [n \in DOMAIN globals \cup {op.str} |->
                   IF n = op.str THEN op.obj ELSE globals[n]]

GlobalDefined ==
    /\ At("define")
    /\ Define
    /\ stack' = Drop(op.drop)
    /\ op' = Idle
    /\ UNCHANGED heap
(* Assigning to an undefined name undoes the insertion and is a runtime    *)
(* error, which empties the stack.                                         *)
GlobalAssigned ==
    /\ At("assign")
    /\ IF op.str \in DOMAIN globals
       THEN Define /\ UNCHANGED stack
       ELSE stack' = <<>> /\ UNCHANGED globals
    /\ op' = Idle
    /\ UNCHANGED heap

(* vm_define_native: name and native are pushed across the allocations.    *)
DefineNative == BeginCopy("define_native", "native_name", NULL)
NativeNamed ==
    /\ At("native_name")
    /\ Push(op.str)
    /\ op' = [op EXCEPT !.at = "new_native", !.alloc = TRUE, !.drop = 1]
    /\ UNCHANGED <<heap, globals>>
NewNative ==
    /\ At("new_native")
    /\ \E o \in Fresh("native") :
          /\ Create(o, {op.str})
          /\ Push(o)
          /\ op' = [op EXCEPT !.at = "define", !.alloc = TRUE, !.obj = o, !.drop = @ + 1]
    /\ UNCHANGED globals

(* brokm_set_global: the host passes a value that is rooted elsewhere, or  *)
(* that is no object.                                                      *)
HostSetGlobal == \E v \in Roots \cup {NULL} : BeginCopy("host_set_global", "host_name", v)
HostNamed ==
    /\ At("host_name")
    /\ Push(op.str)
    /\ op' = [op EXCEPT !.at = "define", !.alloc = TRUE, !.drop = 1]
    /\ UNCHANGED <<heap, globals>>

----------------------------------------------------------------------------
(* The start of a program that the AOT compiler built: bk_bootstrap makes  *)
(* the functions and classes of the program again and links them with      *)
(* plain stores, the collector being off as vm_new left it, and main       *)
(* pushes the script and turns it on. op.obj is the script and op.todo the *)
(* other static variables, which the collector does not know.              *)
Statics(kind) == {o \in Locals : Kind(o) = kind}
CopyConstant(ret) ==
    \E c \in Content :
       op' = [op EXCEPT !.at = "find", !.content = c, !.ret = ret, !.str = NULL]
GoTo(label) == op' = [op EXCEPT !.at = label, !.str = NULL]

Bootstrap ==
    /\ Ready("bootstrap") /\ objects = {}
    /\ gcEnabled' = FALSE
    /\ op' = Alloc("image_function")
    /\ UNCHANGED <<objects, old, refs, strings, rememberedSet, crashed, stack, globals>>
ImageFunction ==
    /\ At("image_function")
    /\ \E o \in Fresh("function"), next \in {"image_function", "image_name"} :
          /\ Create(o, {})
          /\ op' = [op EXCEPT !.at = next, !.alloc = (next = "image_function"),
                               !.obj = IF @ = NULL THEN o ELSE @,
                               !.todo = IF op.obj = NULL THEN @ ELSE @ \cup {o}]
    /\ UNCHANGED <<stack, globals>>
ImageName ==
    /\ At("image_name")
    /\ CopyConstant("image_named") \/ GoTo("image_class")
    /\ UNCHANGED <<heap, stack, globals>>
ImageNamed ==
    /\ At("image_named")
    /\ \E f \in Statics("function") : refs[f] = {} /\ StoreIn(f, {}, {op.str}, {})
    /\ op' = [op EXCEPT !.at = "image_name", !.str = NULL]
    /\ UNCHANGED <<stack, globals>>
(* The name of a class is in a C temporary while the class is allocated.   *)
ImageClass ==
    /\ At("image_class")
    /\ CopyConstant("image_class_named") \/ GoTo("image_constant")
    /\ UNCHANGED <<heap, stack, globals>>
ImageClassNamed ==
    /\ At("image_class_named")
    /\ op' = [op EXCEPT !.at = "image_new_class", !.alloc = TRUE]
    /\ UNCHANGED <<heap, stack, globals>>
ImageNewClass ==
    /\ At("image_new_class")
    /\ \E o \in Fresh("class") :
          /\ Create(o, {op.str})
          /\ op' = [op EXCEPT !.at = "image_member", !.alloc = TRUE,
                               !.todo = @ \cup {o}]
    /\ UNCHANGED <<stack, globals>>
(* A field's name, or a method and its name.                               *)
ImageMember ==
    /\ At("image_member")
    /\ CopyConstant("image_member_named") \/ GoTo("image_class")
    /\ UNCHANGED <<heap, stack, globals>>
ImageMemberNamed ==
    /\ At("image_member_named")
    /\ \E k \in Statics("class"), method \in {{}} \cup {{f} : f \in Statics("function")} :
          StoreIn(k, {}, {op.str} \cup method, {})
    /\ op' = [op EXCEPT !.at = "image_member", !.alloc = TRUE, !.str = NULL]
    /\ UNCHANGED <<stack, globals>>
ImageConstant ==
    /\ At("image_constant")
    /\ \/ CopyConstant("image_constant_copied") /\ UNCHANGED heap
       \/ \E f \in Statics("function"), v \in op.todo :
             StoreIn(f, {}, {v}, {}) /\ op' = [op EXCEPT !.alloc = TRUE]
    /\ UNCHANGED <<stack, globals>>
ImageConstantCopied ==
    /\ At("image_constant_copied")
    /\ \E f \in Statics("function") : StoreIn(f, {}, {op.str}, {})
    /\ op' = [op EXCEPT !.at = "image_constant", !.alloc = TRUE, !.str = NULL]
    /\ UNCHANGED <<stack, globals>>

(* graph_collect found all that there is to make from the script, through  *)
(* constants and methods.                                                  *)
Leads(o, targets) ==
    \A S \in SUBSET objects : (o \in S /\ \A p \in S : refs[p] \subseteq S) => targets \subseteq S
BootstrapEnds ==
    /\ At("image_constant") /\ Leads(op.obj, op.todo)
    /\ Push(op.obj)
    /\ gcEnabled' = TRUE
    /\ op' = Idle
    /\ UNCHANGED <<objects, old, refs, strings, rememberedSet, crashed, globals>>

(* OP_CONSTANT, of a function that is on the stack.                        *)
Constant ==
    /\ Ready("constant")
    /\ \E f \in {o \in OnStack : Kind(o) = "function"} : \E v \in refs[f] : Push(v)
    /\ UNCHANGED <<heap, globals, op>>

----------------------------------------------------------------------------
(* Instructions and natives that only move values, and the natives that    *)
(* drive the collector.                                                    *)

(* OP_POP, and any operation whose result is not an object.                *)
Pop ==
    /\ Ready("pop") /\ stack # <<>>
    /\ stack' = Drop(1)
    /\ UNCHANGED <<heap, globals, op>>

(* OP_GET_LOCAL, OP_GET_GLOBAL.                                            *)
GetVariable ==
    /\ Ready("get_variable")
    /\ \E v \in OnStack \cup ({globals[n] : n \in DOMAIN globals} \ {NULL}) : Push(v)
    /\ UNCHANGED <<heap, globals, op>>

(* jit_h_index_get, jit_h_get_field, MapGet: a value takes the place of    *)
(* its owner.                                                              *)
Load ==
    /\ Ready("load")
    /\ Is("array", 0) \/ Is("instance", 0) \/ Is("map", 0)
    /\ \E v \in refs[Peek(0)] : Result(1, v)
    /\ UNCHANGED <<heap, globals, op>>

(* GcCollect and GcMinor.                                                  *)
GcNative ==
    /\ Ready("gc")
    /\ UNCHANGED <<stack, globals, op>>
    /\ \E major \in BOOLEAN : H!CollectGarbage(major)

(* GcDisable and GcEnable.                                                 *)
GcSwitch ==
    /\ Ready("gc_switch")
    /\ gcEnabled' = ~gcEnabled
    /\ UNCHANGED <<objects, old, refs, strings, rememberedSet, crashed, stack, globals, op>>

----------------------------------------------------------------------------
Operation ==
    \/ Reallocate \/ Finish
    \/ CopyString \/ Concatenate \/ FindString \/ CopyChars \/ AllocateString
    \/ InternString \/ FinishString
    \/ ArrayLiteral \/ MapKeys \/ ChunkConsts \/ NewArray \/ AppendNative \/ ArrayAppend
    \/ Args \/ ArgsArray \/ NextArg \/ ArgCopied \/ AppendArg
    \/ IndexSet \/ MapNew \/ NewMap \/ MapSet \/ SetEntry \/ MapDelete
    \/ MakeClass \/ NewClass \/ ClassFields
    \/ Construct \/ NewInstance \/ InitialField \/ SetField \/ StoreField
    \/ AddMethod \/ BindMethod
    \/ Assemble \/ NewFunction \/ NameFunction \/ AddConstant
    \/ DefineGlobal \/ SetGlobal \/ GlobalDefined \/ GlobalAssigned
    \/ DefineNative \/ NativeNamed \/ NewNative \/ HostSetGlobal \/ HostNamed
    \/ Bootstrap \/ ImageFunction \/ ImageName \/ ImageNamed
    \/ ImageClass \/ ImageClassNamed \/ ImageNewClass \/ ImageMember \/ ImageMemberNamed
    \/ ImageConstant \/ ImageConstantCopied \/ BootstrapEnds \/ Constant
    \/ Pop \/ GetVariable \/ Load \/ GcNative \/ GcSwitch

Next == Operation /\ UNCHANGED program

Spec == Init /\ [][Next]_vars

----------------------------------------------------------------------------
(* Whatever the operation in progress still uses, what the collector takes *)
(* as roots and what live objects refer to is allocated: no collection at  *)
(* any allocation point takes it away (vm.c, object.c and natives.c push   *)
(* their temporaries for this).                                            *)
NothingInUseIsFreed ==
    /\ Roots \cup Locals \subseteq objects
    /\ H!NoDangling

(* Every old object that refers to a young one is remembered, whatever was *)
(* promoted in the middle of an operation: docs/CODEMAP.md:33 requires it  *)
(* of every store.                                                         *)
OldToYoungRemembered == H!OldToYoungRemembered

(* The same in programs that use AddMethod too, where the names that a     *)
(* class refers to are left out: AddMethod does not tell the collector of  *)
(* the name it stores.                                                     *)
OldToYoungButMethodNames ==
    \A o \in old :
       LET untold == IF Kind(o) = "class" /\ "add_method" \in program.ops
                     THEN Str ELSE {}
       IN  (refs[o] \cap H!Young) \ untold # {} => o \in rememberedSet

(* Strings are interned (string_copy, string_take): no two live ones have  *)
(* the same contents, and outside the allocation of a string every live    *)
(* one is in the table, so that comparing addresses compares contents.     *)
StringsAreInterned ==
    /\ \A s, t \in objects \cap Str : Chars[s] = Chars[t] => s = t
    /\ op.at # "intern" => objects \cap Str = strings

(* Seen from outside, an operation only allocates, links and moves what it *)
(* holds, and a collection only reclaims what neither the roots nor the    *)
(* operation in progress can reach.                                        *)
Abstract == INSTANCE ManagedHeap WITH roots <- Roots \cup Locals

ImplementsManagedHeap == Abstract!Spec
============================================================================
