----------------------------- MODULE NativeCode -----------------------------
(***************************************************************************)
(* A function is translated, by one of the two code generators of the JIT  *)
(* (jit_x64.c, jit_arm64.c) or into C (cemit.c), and what comes out runs.  *)
(* Translated code keeps the top of the stack in a register (or a C local) *)
(* of its own: vm->stackTop is right only between a flush and a reload.    *)
(* Whatever is above it may be overwritten by the helpers that are called. *)
(*                                                                         *)
(* The translation is a list of primitive steps. Each carries the offset   *)
(* of the instruction that the interpreter would be at, which the code     *)
(* does not have; it is there to state what translated code implements.    *)
(***************************************************************************)
EXTENDS Bytecode

CONSTANTS
    StackMax,   \* bound: cells of the stack
    Reach       \* how far a conditional branch of arm64 goes, 2^18 steps

ASSUME NativeAssumption == {StackMax, Reach} \subseteq Nat \ {0}

VARIABLES
    backend,    \* "x64", "arm64" or "aot"
    phase,      \* "bytecode", "walk", "declined", "ready", "run", "left", "astray"
    at,         \* where the walker is, as an offset into the code
    native,     \* the steps emitted
    nativeAt,   \* the step an offset was translated to
    jumps,      \* jmpAt and jmpTo: steps to patch, and the offset they go to
    pc, reg,    \* the step that runs; the top of the stack as it knows it
    vmTop,      \* vm->stackTop
    mem,        \* vm->stack
    ok,         \* what was returned last, by a helper or by the code itself
    call        \* the last effect outside the stack: which helper, on what

translation == <<backend, at, native, nativeAt, jumps>>
machine == <<pc, reg, vmTop, mem, ok, call>>
vars == <<bytecodeVars, phase, translation, machine>>

Junk == <<"junk", 0>>

Init ==
    /\ InitBytecode
    /\ backend \in {"x64", "arm64", "aot"}
    /\ phase = "bytecode"
    /\ at = 0 /\ native = <<>> /\ nativeAt = <<>> /\ jumps = {}
    /\ pc = 1 /\ reg = 0 /\ vmTop = 0 /\ mem = <<>> /\ ok = TRUE /\ call = NoCall

----------------------------------------------------------------------------
(* The translation of one instruction.                                     *)
Jitted == backend # "aot"

(* What each generator does itself (classify, typed_op), and what the JIT  *)
(* knows at all: a function with any other instruction stays in bytecode.  *)
Inlined == IF Jitted THEN Arithmetic \cup Comparison \cup Typed ELSE Typed
Literals == [NIL |-> Nil, TRUE |-> Bool(TRUE), FALSE |-> Bool(FALSE)]
KnownToJit ==
    DOMAIN Literals \cup LocalAccess \cup Forward \cup Arithmetic \cup Comparison \cup Typed
        \cup {"POP", "CONSTANT", "GET_GLOBAL", "SET_GLOBAL", "EQUAL", "NOT_EQUAL",
              "CALL", "PRINT", "LOOP", "RETURN"}
Known(op) == Jitted => op \in KnownToJit

(* How far the walkers advance: the JIT's reads operands case by case.     *)
Advance(op) ==
    IF ~Jitted THEN InstrLen(op)
    ELSE IF op \in LocalAccess \cup {"CONSTANT", "GET_GLOBAL", "SET_GLOBAL", "CALL", "PRINT"} THEN 2
    ELSE IF op \in Forward \cup {"LOOP"} THEN 3 ELSE 1

IndexAt(o) == IF At(o) \in WideForms THEN ShortAt(o + 1) ELSE ByteAt(o + 1)
CountAt(o) ==
    CASE At(o) = "INVOKE" -> ByteAt(o + 2)
      [] At(o) = "INVOKE_W" -> ByteAt(o + 3)
      [] At(o) \in Counted -> ByteAt(o + 1)
      [] OTHER -> 0

Step(do, arg, o) == [do |-> do, arg |-> arg, to |-> 0, ip |-> o]

(* The arguments are flushed, the helper called, its answer tested if it   *)
(* can fail, and its result reloaded.                                      *)
(* Mutant: the top of the stack is not flushed.                            *)
HelperCallUnflushed(h, o, next) ==
    <<Step("call", h, o), Step("check", 0, next), Step("reload", 0, next)>>
HelperCall(h, o, next) ==
    <<Step("flush", 0, o), Step("call", h, o)>>
    \o (IF h.op \in {"DEFINE_GLOBAL", "EQUAL", "NOT_EQUAL", "PRINT", "ARRAY"} THEN <<>>
        ELSE <<Step("check", 0, next)>>)
    \o <<Step("reload", 0, next)>>

(* emit_binary: two integers are worked on in place; the guard leaves for  *)
(* the helper otherwise.                                                   *)
Guarded(op, o, next, first) ==
    LET slow == HelperCall([op |-> op, index |-> 0, count |-> 0], o, next)
    IN  <<[Step("guard", op, o) EXCEPT !.to = first + 3], Step("fast", op, o),
          [Step("jump", 0, next) EXCEPT !.to = first + 3 + Len(slow)]>> \o slow

(* The steps for the instruction at o, the first of them at step `first'.  *)
Translated(o, first) ==
    LET op   == At(o)
        next == o + Advance(op)
    IN  CASE op \in DOMAIN Literals -> <<Step("push", Literals[op], o)>>
          [] NarrowForm(op) = "CONSTANT" -> <<Step("push", Constants[IndexAt(o)], o)>>
          [] op = "POP" -> <<Step("pop", 0, o)>>
          [] op = "GET_LOCAL" -> <<Step("get", ByteAt(o + 1), o)>>
          [] op = "SET_LOCAL" -> <<Step("set", ByteAt(o + 1), o)>>
          [] op = "NOT" -> <<Step("not", 0, o)>>
          [] op \in {"JUMP", "LOOP"} -> <<Step("jump", 0, o)>>
          [] op = "JUMP_IF_FALSE" -> <<Step("branch", FALSE, o)>>
          [] op = "JUMP_IF_TRUE" -> <<Step("branch", TRUE, o)>>
          [] op = "RETURN" -> <<Step("return", 0, o)>>
          [] op \in Inlined -> Guarded(IF op \in Typed THEN Generic[op] ELSE op, o, next, first)
          [] OTHER -> HelperCall([op |-> NarrowForm(op),
                                  index |-> IF NarrowForm(op) \in Narrow THEN IndexAt(o) ELSE 0,
                                  count |-> CountAt(o)], o, next)

----------------------------------------------------------------------------
(* The walker.                                                             *)

(* The prologue loads the top of the stack.                                *)
StartWalk ==
    /\ compiled = "yes" /\ phase = "bytecode"
    /\ phase' = "walk"
    /\ native' = <<Step("reload", 0, 0)>>
    /\ UNCHANGED <<bytecodeVars, backend, at, nativeAt, jumps, machine>>

WalkInstruction ==
    /\ phase = "walk" /\ at < Len(code) /\ Known(At(at))
    /\ LET first == Len(native) + 1
       IN  /\ nativeAt' = (at :> first) @@ nativeAt
           /\ native' = native \o Translated(at, first)
           /\ jumps' = IF At(at) \in Forward \cup {"LOOP"}
                       THEN jumps \cup {<<first, JumpTarget(at)>>} ELSE jumps
    /\ at' = at + Advance(At(at))
    /\ UNCHANGED <<bytecodeVars, phase, backend, machine>>

Decline ==
    /\ phase = "walk" /\ at < Len(code) /\ ~Known(At(at))
    /\ phase' = "declined"
    /\ UNCHANGED <<bytecodeVars, translation, machine>>

(* patch_imm19 keeps the low bits of a distance, without testing it.       *)
PatchImm19(from, to) == from + ((to - from + Reach) % (2 * Reach)) - Reach
Patched(p, to) ==
    IF backend = "arm64" /\ native[p].do \in {"branch", "check"} THEN PatchImm19(p, to) ELSE to

Lands(o) == IF o \in DOMAIN nativeAt THEN nativeAt[o] ELSE 1

(* Errors of compiled code go to one exit behind it, those of emitted C    *)
(* return at once (to = 0). The C of a jump to no label is not accepted;   *)
(* a page for compiled code may not be had.                                *)
FinishWalk ==
    /\ phase = "walk" /\ at >= Len(code)
    /\ LET exit == Len(native) + 1
           target(p) == CHOOSE o \in {j[2] : j \in {k \in jumps : k[1] = p}} : TRUE
       IN  native' = [p \in DOMAIN native |->
                        IF p \in {j[1] : j \in jumps}
                        THEN [native[p] EXCEPT !.to = Patched(p, Lands(target(p)))]
                        ELSE IF native[p].do = "check" /\ Jitted
                        THEN [native[p] EXCEPT !.to = Patched(p, exit)]
                        ELSE native[p]]
                     \o (IF Jitted THEN <<Step("fail", 0, 0)>> ELSE <<>>)
    /\ IF Jitted THEN phase' \in {"ready", "declined"}
       ELSE phase' = IF \A j \in jumps : j[2] \in DOMAIN nativeAt THEN "ready" ELSE "declined"
    /\ jumps' = {} /\ nativeAt' = <<>> /\ at' = 0
    /\ UNCHANGED <<bytecodeVars, backend, machine>>

----------------------------------------------------------------------------
(* Translated code runs.                                                   *)
Enter ==
    /\ phase = "ready"
    /\ \E arg \in Given :
          mem' = [i \in 1 .. StackMax |-> CASE i = 1 -> Nil [] i = 2 -> Object
                                            [] i = 3 -> arg [] OTHER -> Junk]
    /\ vmTop' = 3
    /\ phase' = "run"
    /\ UNCHANGED <<bytecodeVars, translation, pc, reg, ok, call>>

Does(do) == phase = "run" /\ native[pc].do = do
Arg == native[pc].arg
Running == UNCHANGED <<bytecodeVars, translation>>
Keep == Running /\ UNCHANGED <<vmTop, ok, call>>

Goto(p) ==
    /\ pc' = p
    /\ phase' = IF p \in DOMAIN native THEN "run" ELSE "astray"
Continue == pc' = pc + 1 /\ UNCHANGED phase

(* The code returns; the JIT's frame is gone.                              *)
Leave(answer) ==
    /\ phase' = "left" /\ ok' = answer
    /\ pc' = 1 /\ reg' = 0

PushTo(v) == mem' = [mem EXCEPT ![reg + 1] = v] /\ reg' = reg + 1

Push == Does("push") /\ PushTo(Arg) /\ Continue /\ Keep
Get  == Does("get") /\ PushTo(mem[Slots + Arg]) /\ Continue /\ Keep
Set ==
    /\ Does("set")
    /\ mem' = [mem EXCEPT ![Slots + Arg] = mem[reg]]
    /\ Continue /\ Keep /\ UNCHANGED reg
Pop == Does("pop") /\ reg' = reg - 1 /\ Continue /\ Keep /\ UNCHANGED mem
Not ==
    /\ Does("not")
    /\ mem' = [mem EXCEPT ![reg] = Bool(~Truthy(mem[reg]))]
    /\ Continue /\ Keep /\ UNCHANGED reg

(* The test for zero is the JIT's on the payload and C's on the value.     *)
Guard ==
    /\ Does("guard")
    /\ IF /\ IsInt(mem[reg - 1]) /\ IsInt(mem[reg])
          /\ ~DividesByZero(Arg, mem[reg])
       THEN Continue ELSE Goto(native[pc].to)
    /\ Keep /\ UNCHANGED <<mem, reg>>
FastResult(op) == OnInts(op, mem[reg - 1], mem[reg])
Fast ==
    /\ Does("fast")
    /\ mem' = [mem EXCEPT ![reg - 1] = FastResult(Arg)]
    /\ reg' = reg - 1
    /\ Continue /\ Keep

Jump == Does("jump") /\ Goto(native[pc].to) /\ Keep /\ UNCHANGED <<mem, reg>>
Branch ==
    /\ Does("branch")
    /\ IF Truthy(mem[reg]) = Arg THEN Goto(native[pc].to) ELSE Continue
    /\ Keep /\ UNCHANGED <<mem, reg>>

Flush ==
    /\ Does("flush")
    /\ vmTop' = reg
    /\ Continue /\ Running /\ UNCHANGED <<reg, mem, ok, call>>
Reload ==
    /\ Does("reload")
    /\ reg' = vmTop
    /\ Continue /\ Running /\ UNCHANGED <<vmTop, mem, ok, call>>

(* A helper works on the stack as vm->stackTop has it, and may use all of  *)
(* what is above. If it fails, the stack is empty.                         *)
CallHelper ==
    /\ Does("call")
    /\ LET n    == Takes(Arg.op, Arg.count)
           base == vmTop - n
           args == [i \in 1 .. n |-> mem[base + i]]
       IN  /\ call' = IF Arg.op \in Pure THEN call
                      ELSE [op |-> Arg.op, index |-> Arg.index, args |-> args]
           /\ \/ \E left \in Results(Arg.op, args) :
                    /\ mem' = [i \in 1 .. StackMax |->
                                 IF i <= base THEN mem[i]
                                 ELSE IF i <= base + Len(left) THEN left[i - base] ELSE Junk]
                    /\ vmTop' = base + Len(left)
                    /\ ok' = TRUE
              \/ /\ MayFail(Arg.op, args)
                 /\ mem' = [i \in 1 .. StackMax |-> Junk]
                 /\ vmTop' = 0
                 /\ ok' = FALSE
    /\ Continue /\ Running /\ UNCHANGED reg
Check ==
    /\ Does("check")
    /\ IF ok THEN Continue /\ UNCHANGED <<reg, ok>>
       ELSE IF native[pc].to # 0 THEN Goto(native[pc].to) /\ UNCHANGED <<reg, ok>>
       ELSE Leave(FALSE)
    /\ Running /\ UNCHANGED <<vmTop, mem, call>>
Fail == Does("fail") /\ Leave(FALSE) /\ Running /\ UNCHANGED <<vmTop, mem, call>>

Return ==
    /\ Does("return")
    /\ mem' = [mem EXCEPT ![Slots] = mem[reg]]
    /\ vmTop' = Slots
    /\ Leave(TRUE) /\ Running /\ UNCHANGED call

Execute ==
    \/ Push \/ Get \/ Set \/ Pop \/ Not \/ Guard \/ Fast \/ Jump \/ Branch
    \/ Flush \/ Reload \/ CallHelper \/ Check \/ Fail \/ Return

(* Rejected programs, declined functions (which the interpreter runs),     *)
(* calls that returned, and programs that the bound cuts short.            *)
Finished ==
    /\ \/ phase \in {"left", "declined", "astray"}
       \/ compiled = "error"
       \/ compiled = "no" /\ ~Room
    /\ UNCHANGED vars

Next ==
    \/ Compile /\ UNCHANGED <<phase, translation, machine>>
    \/ StartWalk \/ WalkInstruction \/ Decline \/ FinishWalk \/ Enter \/ Execute
    \/ Finished

Spec == Init /\ [][Next]_vars

----------------------------------------------------------------------------
TypeOK ==
    /\ backend \in {"x64", "arm64", "aot"}
    /\ phase \in {"bytecode", "walk", "declined", "ready", "run", "left", "astray"}
    /\ at \in 0 .. Len(code)
    /\ DOMAIN nativeAt \subseteq DOMAIN marks
    /\ {reg, vmTop} \subseteq 0 .. StackMax
    /\ phase \in {"run", "left"} => mem \in [1 .. StackMax -> Value \cup {Junk}]
    /\ ok \in BOOLEAN

(* Every reader of bytecode steps from one instruction to the next as the  *)
(* compiler wrote them: the emitter of C, the disassembler, and the JIT on *)
(* what it compiles; and every jump lands at the start of one.             *)
DecodersAgree ==
    /\ \A o \in DOMAIN marks :
          /\ o + InstrLen(At(o)) = NextMark(o)
          /\ o + Disassembled(At(o)) = NextMark(o)
    /\ phase = "walk" => at \in DOMAIN marks \cup {Len(code)}
    /\ compiled = "yes" =>
          \A o \in DOMAIN marks : At(o) \in Forward \cup {"LOOP"} => JumpTarget(o) \in DOMAIN marks

(* Translated code does what the interpreter does: step by step the same   *)
(* values on the stack, the same calls of the same helpers with the same   *)
(* arguments, the same end. Between a helper and the reload after it the   *)
(* stack is what vm->stackTop says, else what the register says.           *)
InCode == phase = "run" /\ ok
Top == IF InCode /\ native[pc].do \notin {"check", "reload"} THEN reg ELSE vmTop

Status ==
    CASE phase \in {"run", "left"} /\ ~ok -> "failed"
      [] phase = "run" -> "running"
      [] phase = "left" -> "returned"
      [] phase = "astray" -> "astray"
      [] OTHER -> "idle"

Interpreted == INSTANCE Interpreter WITH
    ip <- IF InCode THEN native[pc].ip ELSE 0,
    stack <- [i \in 1 .. Top |-> mem[i]],
    status <- Status

ImplementsInterpreter == Interpreted!Spec
=============================================================================
