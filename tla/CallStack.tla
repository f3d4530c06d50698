------------------------------ MODULE CallStack -----------------------------
(***************************************************************************)
(* Calls, returns and run-time errors (vm.c, api.c and the code that       *)
(* jit_x64.c, jit_arm64.c and cemit.c generate): three tiers that share    *)
(* one value stack.  A bytecode call is an entry of frames; a native-code  *)
(* or host call is an activation on the C stack only.                      *)
(*                                                                         *)
(* Values are left out: height is stackTop - stack.  The compiler's part   *)
(* is assumed: code keeps to its window, and has on it the operands that   *)
(* an instruction takes.                                                   *)
(***************************************************************************)
EXTENDS Integers, Sequences

CONSTANTS
    Functions,        \* the program's functions
    Script,           \* the one without a name: a script's top level
    Arity,            \* fn->arity
    FramesMax,        \* BK_FRAMES_MAX
    SlotCount,        \* BK_SLOT_COUNT
    StackMax,         \* BK_STACK_MAX
    WindowMax,        \* bound: cells that one call's window holds; the code sets none
    MaxArgs,          \* bound: arguments of a call
    MaxActivations,   \* bound: depth of the C stack
    Behaviours        \* which of the following the program and host show

AllBehaviours == {
    "native_code",       \* functions are compiled by the JIT or ahead of time
    "host_call",         \* host functions call brokm_call on their own VM
    "host_eval",         \* host functions call brokm_eval on their own VM
    "nested_failure",    \* what a host function calls fails
    "return_in_block",   \* a script returns from within a block
    "rebind"}            \* a global or a method is given another value

ASSUME CallStackAssumption ==
    /\ Script \notin Functions
    /\ MaxArgs \in Nat
    /\ Arity \in [Functions -> 0 .. MaxArgs]
    /\ {FramesMax, SlotCount, StackMax, WindowMax, MaxActivations} \subseteq Nat
    /\ FramesMax > 0
    /\ Behaviours \subseteq AllBehaviours

VARIABLES
    height,   \* vm->stackTop - vm->stack
    frames,   \* vm->frames, up to vm->frameCount
    acts,     \* the C stack above the host application
    tier,     \* nativeCode # NULL, jitDisabled, or neither
    held      \* the functions that globals and method tables refer to

vars == <<height, frames, acts, tier, held>>

(* C activations: run_until from base `at'; native code whose slots are at *)
(* `at'; a host function whose callee cell is at `at'; vm_invoke; and      *)
(* interpret.  A function in `bare' is in the C code's hands only, since   *)
(* a method's slots start with the receiver.                               *)
Activation ==
    [kind : {"run", "native_code", "host", "call", "eval"}, at : Nat, argc : Nat,
     bare : SUBSET Functions]

Act(kind, at, argc) == [kind |-> kind, at |-> at, argc |-> argc, bare |-> {}]

Frame == [fn : Functions \cup {Script}, slots : Nat]

TypeOK ==
    /\ height \in Nat
    /\ frames \in Seq(Frame)
    /\ acts \in Seq(Activation)
    /\ tier \in [Functions -> {"bytecode", "native", "disabled"}]
    /\ held \subseteq Functions

Last(s) == s[Len(s)]
Front(s) == SubSeq(s, 1, Len(s) - 1)

IsEntry(a) == a.kind \in {"call", "eval"}
IsWindow(a) == a.kind \in {"native_code", "host"}

(* What is on top of the C stack: the host application, at the bottom.      *)
Running == IF acts = <<>> THEN "host" ELSE Last(acts).kind

InHost == Running = "host"
InBytecode == Running = "run" /\ frames # <<>>
InNativeCode == Running = "native_code"
InProgram == InBytecode \/ InNativeCode

(* Where the window of the running code starts: frame->slots, or slots.    *)
Slots == IF InBytecode THEN Last(frames).slots ELSE Last(acts).at
-----------------------------------------------------------------------------
(* Endings of a call *)

(* Back in the caller on top of the C stack, the result on top at height   *)
(* h: brokm_call pops it, and nothing has to be done otherwise.            *)
ReturnTo(stack, h) ==
    IF Last(stack).kind = "call" THEN acts' = Front(stack) /\ height' = h - 1
    ELSE IF Last(stack).kind = "eval" THEN acts' = Front(stack) /\ height' = h
    ELSE acts' = stack /\ height' = h

(* Mutant: an error leaves the operands on the stack.                      *)
RuntimeErrorKeepingOperands(stack) ==
    /\ frames' = <<>>
    /\ \E i \in DOMAIN stack : IsEntry(stack[i]) /\ acts' = SubSeq(stack, 1, i - 1)
    /\ UNCHANGED height

(* runtime_error: the stack is reset; then `false' is handed down the C    *)
(* stack until the entry point that began all this reports the failure.    *)
RuntimeError(stack) ==
    /\ (\E i \in DOMAIN stack : stack[i].kind = "host") =>
           "nested_failure" \in Behaviours
    /\ height' = 0
    /\ frames' = <<>>
    /\ \E i \in DOMAIN stack :
           /\ IsEntry(stack[i])
           /\ \A j \in DOMAIN stack : IsEntry(stack[j]) => j <= i
           /\ acts' = SubSeq(stack, 1, i - 1)
-----------------------------------------------------------------------------
(* Beginnings of a call *)

(* Where call_value is reached, with callee and argc arguments on top:     *)
(* OP_CALL and OP_INVOKE in either kind of code, or vm_invoke.             *)
CallSites(argc) ==
    {c \in [height : {height, height + argc + 1},
            stack : {acts, Append(acts, Act("call", 0, 0))}] :
       IF InProgram
       THEN c.height = height /\ c.stack = acts /\ height > Slots + argc + 1
       ELSE /\ InHost /\ c.height = height + argc + 1 /\ c.stack # acts
            /\ acts # <<>> => "host_call" \in Behaviours}

(* The frame count that jit_h_call and vm_invoke read before they call.    *)
(* Mutant: the runner of a nested call goes on with the outer frames.      *)
SavedAsTopLevel == 0
(* Mutant: the count is read when the frame is there already.              *)
SavedTooLate == Len(frames) + 1
Saved == Len(frames)

(* Mutant: one frame too many.                                             *)
RoomForOneMoreFrame == Len(frames) <= FramesMax
RoomForFrame == Len(frames) < FramesMax
RoomForNativeCode(h) == h <= StackMax - SlotCount

(* call_function compiles a function once hot, which is never tried again  *)
(* when it fails.                                                          *)
Tiers(f) == IF tier[f] = "bytecode" /\ "native_code" \in Behaviours
            THEN {"bytecode", "native", "disabled"} ELSE {tier[f]}

CallBytecode == \E f \in held : \E c \in CallSites(Arity[f]), t \in Tiers(f) :
    /\ t # "native" /\ RoomForFrame
    /\ frames' = Append(frames, [fn |-> f, slots |-> c.height - Arity[f] - 1])
    /\ acts' = IF Last(c.stack).kind = "run" THEN c.stack
               ELSE Append(c.stack, Act("run", Saved, 0))
    /\ Len(acts') <= MaxActivations
    /\ height' = c.height
    /\ tier' = [tier EXCEPT ![f] = t]
    /\ UNCHANGED held

(* By OP_CALL the callee is at slots[0], by OP_INVOKE the receiver is.      *)
CallNativeCode == \E f \in held : \E c \in CallSites(Arity[f]), bare \in {{}, {f}} :
    /\ bare # {} => InProgram
    /\ "native" \in Tiers(f) /\ RoomForNativeCode(c.height)
    /\ acts' = Append(c.stack, [Act("native_code", c.height - Arity[f] - 1, 0)
                                    EXCEPT !.bare = bare])
    /\ Len(acts') <= MaxActivations
    /\ height' = c.height
    /\ tier' = [tier EXCEPT ![f] = "native"]
    /\ UNCHANGED <<frames, held>>

(* The host function's own `args' pointer is at + 1.                       *)
CallHost == \E argc \in 0 .. MaxArgs : \E c \in CallSites(argc) :
    /\ acts' = Append(c.stack, Act("host", c.height - argc - 1, argc))
    /\ Len(acts') <= MaxActivations
    /\ height' = c.height
    /\ UNCHANGED <<frames, tier, held>>

(* A native of natives.c, or a class: the result replaces the operands.    *)
CallLeaf == \E argc \in 0 .. MaxArgs : \E c \in CallSites(argc) :
    /\ ReturnTo(c.stack, c.height - argc)
    /\ UNCHANGED <<frames, tier, held>>

(* Callee not callable, wrong number of arguments, or no room.             *)
CallRefused == \E argc \in 0 .. MaxArgs : \E c \in CallSites(argc) :
    /\ \/ UNCHANGED tier
       \/ \E f \in held, t \in {"bytecode", "native", "disabled"} :
              /\ Arity[f] = argc /\ t \in Tiers(f)
              /\ IF t = "native" THEN ~RoomForNativeCode(c.height) ELSE ~RoomForFrame
              /\ tier' = [tier EXCEPT ![f] = t]
    /\ RuntimeError(c.stack)
    /\ UNCHANGED held

(* interpret, once the source has compiled; it does not look at what       *)
(* call_function answers.                                                  *)
EvalScript ==
    /\ InHost
    /\ acts # <<>> => "host_eval" \in Behaviours
    /\ IF RoomForFrame
       THEN /\ frames' = Append(frames, [fn |-> Script, slots |-> height])
            /\ height' = height + 1
       ELSE frames' = <<>> /\ height' = 0
    /\ acts' = acts \o <<Act("eval", 0, 0), Act("run", 0, 0)>>
    /\ Len(acts') <= MaxActivations
    /\ UNCHANGED <<tier, held>>
-----------------------------------------------------------------------------
(* What running code does *)

(* Any instruction that is not a call: operands come and go.  The compiler *)
(* keeps a function's locals to SlotCount cells (compiler.c:173); operands *)
(* lie above these, as many as an expression's parts have, unchecked.      *)
Compute ==
    /\ InProgram
    /\ height' \in {height - 1, height + 1}
    /\ height' > Slots /\ height' <= Slots + WindowMax
    /\ UNCHANGED <<frames, acts, tier, held>>

OperationFails == InProgram /\ RuntimeError(acts) /\ UNCHANGED <<tier, held>>

(* OP_RETURN in run_until, the result on top.                              *)
ReturnBytecode ==
    LET frame == Last(frames)
        outer == Front(frames)
        script == outer = <<>> /\ frame.fn = Script
    IN /\ InBytecode /\ height > frame.slots + 1
       /\ frame.fn = Script /\ height > frame.slots + 2 =>
              "return_in_block" \in Behaviours
       /\ frames' = outer
       /\ IF script THEN ReturnTo(Front(acts), height - 2)
          ELSE IF Len(outer) = Last(acts).at
          THEN ReturnTo(Front(acts), frame.slots + 1)
          ELSE height' = frame.slots + 1 /\ UNCHANGED acts
       /\ UNCHANGED <<tier, held>>

(* The epilogue of generated code: slots[0] = result, top = slots + 1.     *)
ReturnNativeCode ==
    /\ InNativeCode /\ height > Slots + 1
    /\ ReturnTo(Front(acts), Slots + 1)
    /\ UNCHANGED <<frames, tier, held>>

(* Mutant: the callee is left below the result.                            *)
ReturnHostKeepingCallee ==
    /\ Running = "host" /\ acts # <<>>
    /\ ReturnTo(Front(acts), height - Last(acts).argc + 1)
    /\ UNCHANGED <<frames, tier, held>>

(* call_value after the host function: relative to the top, not to `at'.   *)
ReturnHost ==
    /\ Running = "host" /\ acts # <<>>
    /\ ReturnTo(Front(acts), height - Last(acts).argc)
    /\ UNCHANGED <<frames, tier, held>>

(* An assignment, AddMethod, brokm_set_global: f is referred to no longer. *)
Rebind ==
    /\ "rebind" \in Behaviours
    /\ InProgram \/ InHost
    /\ \E f \in held : held' = held \ {f}
    /\ UNCHANGED <<height, frames, acts, tier>>
-----------------------------------------------------------------------------
Init ==
    /\ height = 0
    /\ frames = <<>>
    /\ acts = <<>>
    /\ tier = [f \in Functions |-> "bytecode"]
    /\ held = Functions

Next ==
    \/ EvalScript
    \/ CallBytecode \/ CallNativeCode \/ CallHost \/ CallLeaf \/ CallRefused
    \/ Compute \/ OperationFails
    \/ ReturnBytecode \/ ReturnNativeCode \/ ReturnHost
    \/ Rebind

Spec == Init /\ [][Next]_vars
-----------------------------------------------------------------------------
(* Every run_until in progress, suspended ones too, has a frame of its own *)
(* to go on with: runners nest exactly as the frames they execute do.      *)
RunnersOwnFrames == \A i \in DOMAIN acts : acts[i].kind = "run" =>
    /\ acts[i].at < Len(frames)
    /\ \A j \in DOMAIN acts : acts[j].kind = "run" /\ i < j => acts[i].at < acts[j].at

(* The code that executes is that of the innermost call, its window above  *)
(* the windows of all that wait for it in any tier: "it executes exactly   *)
(* that nested call" (vm.c:354).                                           *)
InnermostRuns ==
    Running \in {"run", "native_code"} =>
        LET slots == IF Running = "run"
                     THEN IF frames = <<>> THEN -1 ELSE Last(frames).slots
                     ELSE Last(acts).at
        IN /\ \A i \in DOMAIN frames :
                  \/ frames[i].slots < slots
                  \/ i = Len(frames) /\ Running = "run"
           /\ \A i \in DOMAIN acts :
                  IsWindow(acts[i]) /\ i # Len(acts) => acts[i].at < slots
           /\ slots >= 0 /\ slots < height

(* Between two calls of the API nothing is left on the stack, after        *)
(* failures too: "the top-level <script> is discarded whole" (vm.c:593).   *)
IdleIsEmpty == acts = <<>> => height = 0 /\ frames = <<>>

(* The value stack is large enough: "sized so each call frame gets a full  *)
(* slot window" (common.h:20).                                             *)
StackWithinBounds == height <= StackMax

(* Where the k-th window of bytecode ends: at the next one, or at the top. *)
WindowEnd(k) == IF k = Len(frames) THEN height ELSE frames[k + 1].slots

(* What the two checks before a call are enough for.  The one on frames    *)
(* (vm.c:145) keeps bytecode to the stack that common.h:26 sizes if there  *)
(* is bytecode only and each of its windows is at most SlotCount cells     *)
(* wide; the one on the height (vm.c:139) keeps native code to it, below   *)
(* whatever calls, if its own window is.                                   *)
FullWindowsFit ==
    /\ /\ \A i \in DOMAIN acts : ~IsWindow(acts[i])
       /\ \A k \in DOMAIN frames : WindowEnd(k) - frames[k].slots <= SlotCount
       => StackWithinBounds
    /\ InNativeCode /\ height - Slots <= SlotCount => StackWithinBounds

(* A function whose native code runs cannot be freed: the value stack or   *)
(* another root refers to it.  "The callee Value sits at slots[0]"         *)
(* (jit.h:16), which a collection marks.                                   *)
NativeCalleesAreHeld == \A i \in DOMAIN acts : acts[i].bare \subseteq held

(* The windows of the calls in progress, for CallDiscipline.               *)
HostMade(i) == i > 1 /\ IsEntry(acts[i - 1])
By(host) == IF host THEN "host" ELSE "program"

FrameWindow(k) ==
    [start |-> frames[k].slots, kind |-> "program",
     by |-> By(\E i \in DOMAIN acts :
                   acts[i].kind = "run" /\ acts[i].at = k - 1 /\ HostMade(i))]

ActWindow(i) ==
    [start |-> acts[i].at, kind |-> IF acts[i].kind = "host" THEN "host" ELSE "program",
     by |-> By(HostMade(i))]

Windows ==
    {FrameWindow(k) : k \in DOMAIN frames}
    \cup {ActWindow(i) : i \in {j \in DOMAIN acts : IsWindow(acts[j])}}

Discipline == INSTANCE CallDiscipline WITH top <- height, windows <- Windows

(* Whatever mixture of tiers runs a program, a call takes its operands     *)
(* and leaves one value in their place, touching nothing below, and a      *)
(* failure takes the stack back to where the host began.                   *)
KeepsDiscipline == Discipline!Spec
=============================================================================
