---------------------------- MODULE EmbeddingApi ----------------------------
(***************************************************************************)
(* The embedding API (api.c, with vm_new, vm_destroy, interpret and        *)
(* vm_invoke of vm.c, and the page pool of jit.c): a host drives several   *)
(* VMs, whose programs call host functions, which drive VMs again.         *)
(*                                                                         *)
(* A handle is a BrokmValue that holds a string.  How calls use the value  *)
(* stack is the subject of CallStack; here a call holds some handles on    *)
(* the stack, in whatever cells.                                           *)
(***************************************************************************)
EXTENDS Naturals, Sequences, FiniteSets

CONSTANTS
    VMs, Handles, NULL,
    ApiRootsMax,    \* BK_API_ROOTS_MAX
    DepthMax,       \* bound: calls in progress, host functions included
    Behaviours      \* which of the following the host and programs show

AllBehaviours == {
    "full_roots",      \* handles are made when ApiRootsMax are in use
    "gc_sections",     \* a program calls the host, or returns to a host function,
                       \*   with the collector off
    "nested_error"}    \* an entry point fails below a program of the same VM

ASSUME EmbeddingApiAssumption ==
    /\ NULL \notin VMs
    /\ ApiRootsMax \in Nat \ {0} /\ DepthMax \in Nat
    /\ Behaviours \subseteq AllBehaviours

VARIABLES
    live,         \* the VMs that exist
    vm,           \* the current VM
    calls,        \* entry points and host functions in progress
    gcEnabled, apiRoots, globals,   \* of each VM; globals: handles only
    section,      \* the program of a VM has called GcDisable
    owner,        \* the VM in whose heap a handle's string is, or NULL
    made,         \* handles from brokm_string and brokm_call, still good
    borrowed,     \* handles from brokm_get_global, still good
    g_vmCount, g_jitUsable, g_regions,   \* jit.c; g_regions: any mapped
    compiled      \* VMs with native code

vars == <<live, vm, calls, gcEnabled, apiRoots, globals, section, owner,
          made, borrowed, g_vmCount, g_jitUsable, g_regions, compiled>>

gcVars     == <<gcEnabled, section>>
handleVars == <<apiRoots, globals, owner, made, borrowed>>
jitVars    == <<live, g_vmCount, g_jitUsable, g_regions, compiled>>

(* An entry point restores prev when it returns.  Handles in `held' are on *)
(* the value stack of the target, or arguments about to be pushed there.   *)
Call == [kind : {"string", "get_global", "set_global", "call", "eval", "host"},
         phase : {"entered", "compiling", "running"},
         target : VMs, prev : VMs \cup {NULL},
         held : SUBSET Handles]

TypeOK ==
    /\ live \subseteq VMs /\ vm \in live \cup {NULL}
    /\ calls \in Seq(Call)
    /\ gcEnabled \in [VMs -> BOOLEAN] /\ section \in [VMs -> BOOLEAN]
    /\ apiRoots \in [VMs -> SUBSET Handles] /\ globals \in [VMs -> SUBSET Handles]
    /\ owner \in [Handles -> live \cup {NULL}]
    /\ made \subseteq Handles /\ borrowed \subseteq Handles
    /\ g_vmCount = Cardinality(live)
    /\ g_jitUsable \in BOOLEAN /\ g_regions \in BOOLEAN
    /\ compiled \subseteq live

Innermost == calls[Len(calls)]
Outer == SubSeq(calls, 1, Len(calls) - 1)

HostRuns == calls # <<>> => Innermost.kind = "host"
In(kinds, phase) ==
    calls # <<>> /\ Innermost.kind \in kinds /\ Innermost.phase = phase
ProgramRuns == In({"call", "eval"}, "running")

Busy(v) == \E i \in DOMAIN calls : calls[i].target = v
Nested(v) == \E i \in DOMAIN Outer : Outer[i].target = v
Of(v) == {h \in Handles : owner[h] = v}
Unused == {h \in Handles : owner[h] = NULL} \ (made \cup borrowed)

(* By brokm.h a handle "remains valid until the next brokm_* call on that  *)
(* VM returns".  What brokm_string and brokm_call return lasts longer,     *)
(* until a call that runs a program returns, and the arguments of a host   *)
(* function as long as it runs; but a global that was read is not rooted,  *)
(* and is used here only until a program may run that overwrites it.       *)
Usable(v) ==
    Of(v) \cap (made \cup borrowed \cup IF calls = <<>> THEN {} ELSE Innermost.held)

(* What a collection on v marks: API roots, globals, and the value stack,  *)
(* where the arguments of an entry point are only once it runs.            *)
Marked(v) == apiRoots[v] \cup globals[v] \cup
    UNION {calls[i].held : i \in {j \in DOMAIN calls :
               calls[j].target = v /\ calls[j].phase = "running"}}
-----------------------------------------------------------------------------
(* Creation and destruction *)

(* The self-test, which maps a region, is for the first VM.                *)
JitInit ==
    /\ g_vmCount' = g_vmCount + 1
    /\ IF g_vmCount = 0
       THEN g_jitUsable' \in BOOLEAN /\ g_regions' \in {TRUE, g_jitUsable'}
       ELSE UNCHANGED <<g_jitUsable, g_regions>>

(* Mutant: the regions are released with any VM.                           *)
JitShutdownUncounted ==
    /\ g_vmCount' = g_vmCount - 1 /\ g_regions' = FALSE
    /\ UNCHANGED g_jitUsable

(* The regions go with the last VM.                                        *)
JitShutdown ==
    /\ g_vmCount' = g_vmCount - 1
    /\ g_regions' = (g_regions /\ g_vmCount' > 0)
    /\ UNCHANGED g_jitUsable

New(v) ==
    /\ HostRuns /\ v \notin live
    /\ live' = live \cup {v}
    /\ JitInit
    /\ gcEnabled' = [gcEnabled EXCEPT ![v] = FALSE]
    /\ UNCHANGED <<vm, calls, section, compiled>> /\ UNCHANGED handleVars

(* The host may not free a VM that is executing.                           *)
Free(v) ==
    /\ HostRuns /\ v \in live /\ ~Busy(v)
    /\ live' = live \ {v}
    /\ JitShutdown
    /\ compiled' = compiled \ {v}
    /\ vm' = IF vm = v THEN NULL ELSE vm
    /\ owner' = [h \in Handles |-> IF owner[h] = v THEN NULL ELSE owner[h]]
    /\ made' = made \ Of(v)
    /\ borrowed' = borrowed \ Of(v)
    /\ apiRoots' = [apiRoots EXCEPT ![v] = {}]
    /\ globals' = [globals EXCEPT ![v] = {}]
    /\ UNCHANGED calls /\ UNCHANGED gcVars
-----------------------------------------------------------------------------
(* Entry points *)

(* enter_vm; interpret turns the collector off until it has compiled.      *)
Enter(v, kind, args) ==
    /\ HostRuns /\ v \in live /\ Len(calls) < DepthMax
    /\ calls' = Append(calls,
           [kind |-> kind, phase |-> IF kind = "eval" THEN "compiling" ELSE "entered",
            target |-> v, prev |-> vm, held |-> args])
    /\ vm' = v
    /\ gcEnabled' = [gcEnabled EXCEPT ![v] = @ /\ kind # "eval"]
    /\ borrowed' = IF kind \in {"call", "eval"} THEN borrowed \ Of(v) ELSE borrowed
    /\ UNCHANGED <<section, apiRoots, globals, owner, made>> /\ UNCHANGED jitVars

EnterEval(v) == Enter(v, "eval", {})
EnterGetGlobal(v) == Enter(v, "get_global", {})
EnterString(v) ==
    /\ Unused # {}
    /\ Cardinality(apiRoots[v]) < ApiRootsMax \/ "full_roots" \in Behaviours
    /\ Enter(v, "string", {})
EnterWithValues(v) == \E args \in SUBSET Usable(v) :
    \/ Cardinality(args) = 1 /\ Enter(v, "set_global", args)
    \/ Enter(v, "call", args)

(* Mutant: an entry point that returns does not restore the current VM.    *)
LeaveStaying == calls' = Outer /\ UNCHANGED vm

(* leave_vm.                                                               *)
Leave == calls' = Outer /\ vm' = Innermost.prev

(* Mutant: nothing keeps the string that brokm_string returns.             *)
ApiRootNothing(roots, h) == roots

(* vm_api_root, which drops what does not fit.                             *)
ApiRoot(roots, h) == IF Cardinality(roots) < ApiRootsMax THEN roots \cup {h} ELSE roots

LeaveString ==
    /\ In({"string"}, "entered") /\ Leave
    /\ \E h \in Unused :
           /\ owner' = [owner EXCEPT ![h] = vm]
           /\ made' = made \cup {h}
           /\ apiRoots' = [apiRoots EXCEPT ![vm] = ApiRoot(@, h)]
    /\ borrowed' = borrowed \ Of(vm)
    /\ UNCHANGED globals /\ UNCHANGED gcVars /\ UNCHANGED jitVars

LeaveGetGlobal ==
    /\ In({"get_global"}, "entered") /\ Leave
    /\ \E found \in {{}} \cup {{h} : h \in globals[vm]} :
           borrowed' = (borrowed \ Of(vm)) \cup found
    /\ UNCHANGED <<apiRoots, globals, owner, made>>
    /\ UNCHANGED gcVars /\ UNCHANGED jitVars

(* Overwriting a global drops what it held.                                *)
LeaveSetGlobal ==
    /\ In({"set_global"}, "entered") /\ Leave
    /\ \E old \in SUBSET globals[vm] :
           globals' = [globals EXCEPT ![vm] = (@ \ old) \cup Innermost.held]
    /\ borrowed' = borrowed \ Of(vm)
    /\ UNCHANGED <<apiRoots, owner, made>> /\ UNCHANGED gcVars /\ UNCHANGED jitVars

(* Mutant: the roots are cleared when the outer VM is current again.       *)
LeaveProgramThenClear(result) ==
    /\ Leave
    /\ apiRoots' = [u \in VMs |-> IF u = Innermost.prev THEN result ELSE apiRoots[u]]
    /\ made' = (made \ Of(vm)) \cup result
    /\ section' = [section EXCEPT ![vm] = @ /\ Nested(vm)]
    /\ UNCHANGED <<globals, borrowed>> /\ UNCHANGED jitVars

(* Entry points that run a program clear the API roots when they return,   *)
(* and brokm_call then roots its result.                                   *)
LeaveProgram(result) ==
    /\ Leave
    /\ apiRoots' = [apiRoots EXCEPT ![vm] =
                        IF result = {} THEN {} ELSE ApiRoot({}, CHOOSE h \in result : TRUE)]
    /\ made' = (made \ Of(vm)) \cup result
    /\ section' = [section EXCEPT ![vm] = @ /\ Nested(vm)]
    /\ UNCHANGED <<globals, borrowed>> /\ UNCHANGED jitVars

MayFail == Nested(vm) => "nested_error" \in Behaviours
SectionsClosed == section[vm] => "gc_sections" \in Behaviours

(* brokm_call finds no such global; the source does not compile.           *)
LookupFails ==
    /\ In({"call"}, "entered") /\ LeaveProgram({})
    /\ UNCHANGED <<gcEnabled, owner>>
CompileFails ==
    /\ In({"eval"}, "compiling") /\ MayFail /\ LeaveProgram({})
    /\ UNCHANGED <<gcEnabled, owner>>

(* Mutant: the collector stays off after compilation.                      *)
StartWithCollectorOff ==
    /\ In({"call"}, "entered") \/ In({"eval"}, "compiling")
    /\ calls' = [calls EXCEPT ![Len(calls)].phase = "running"]
    /\ gcEnabled' = [gcEnabled EXCEPT ![vm] = @ /\ Innermost.kind = "call"]
    /\ UNCHANGED <<vm, section>> /\ UNCHANGED handleVars /\ UNCHANGED jitVars

(* vm_invoke, with the arguments pushed; interpret, the script compiled.   *)
Start ==
    /\ In({"call"}, "entered") \/ In({"eval"}, "compiling")
    /\ calls' = [calls EXCEPT ![Len(calls)].phase = "running"]
    /\ gcEnabled' = [gcEnabled EXCEPT ![vm] = TRUE]
    /\ UNCHANGED <<vm, section>> /\ UNCHANGED handleVars /\ UNCHANGED jitVars

(* The result of a call is popped, then the roots are cleared.             *)
Finish ==
    /\ ProgramRuns /\ (Nested(vm) => SectionsClosed)
    /\ \E result \in {{}} \cup
           {{h} : h \in IF Innermost.kind = "call" THEN Innermost.held ELSE {}} :
           LeaveProgram(result)
    /\ UNCHANGED <<gcEnabled, owner>>
-----------------------------------------------------------------------------
(* What a program does *)

(* runtime_error resets the whole value stack of the VM.                   *)
RuntimeError ==
    /\ ProgramRuns /\ MayFail /\ (Nested(vm) => SectionsClosed)
    /\ LET reset == [i \in DOMAIN calls |->
                       IF calls[i].target = vm THEN [calls[i] EXCEPT !.held = {}]
                       ELSE calls[i]]
       IN calls' = SubSeq(reset, 1, Len(calls) - 1)
    /\ vm' = Innermost.prev
    /\ apiRoots' = [apiRoots EXCEPT ![vm] = {}]
    /\ made' = made \ Of(vm)
    /\ section' = [section EXCEPT ![vm] = @ /\ Nested(vm)]
    /\ UNCHANGED <<gcEnabled, globals, owner, borrowed>> /\ UNCHANGED jitVars

(* Loads, stores and drops of the values at hand, to locals and globals.   *)
Compute ==
    /\ ProgramRuns
    /\ LET atHand == Innermost.held \cup globals[vm] IN
       /\ \E stack \in SUBSET atHand : calls' = [calls EXCEPT ![Len(calls)].held = stack]
       /\ \E kept \in SUBSET atHand : globals' = [globals EXCEPT ![vm] = kept]
    /\ UNCHANGED <<vm, apiRoots, owner, made, borrowed>>
    /\ UNCHANGED gcVars /\ UNCHANGED jitVars

GcDisable ==
    /\ ProgramRuns
    /\ section' = [section EXCEPT ![vm] = TRUE]
    /\ gcEnabled' = [gcEnabled EXCEPT ![vm] = FALSE]
    /\ UNCHANGED <<vm, calls>> /\ UNCHANGED handleVars /\ UNCHANGED jitVars

GcEnable ==
    /\ ProgramRuns
    /\ section' = [section EXCEPT ![vm] = FALSE]
    /\ gcEnabled' = [gcEnabled EXCEPT ![vm] = TRUE]
    /\ UNCHANGED <<vm, calls>> /\ UNCHANGED handleVars /\ UNCHANGED jitVars

(* call_value of a host function, whose arguments stay on the stack.       *)
CallHost ==
    /\ ProgramRuns /\ Len(calls) < DepthMax
    /\ SectionsClosed
    /\ \E args \in SUBSET Innermost.held :
           calls' = Append(calls, [kind |-> "host", phase |-> "running",
                                   target |-> vm, prev |-> vm, held |-> args])
    /\ UNCHANGED vm /\ UNCHANGED gcVars /\ UNCHANGED handleVars /\ UNCHANGED jitVars

ReturnHost ==
    /\ calls # <<>> /\ Innermost.kind = "host"
    /\ \E result \in {{}} \cup {{h} : h \in Usable(vm)} :
           calls' = [Outer EXCEPT ![Len(Outer)].held = @ \cup result]
    /\ borrowed' = borrowed \ Of(vm)
    /\ UNCHANGED <<vm, apiRoots, globals, owner, made>>
    /\ UNCHANGED gcVars /\ UNCHANGED jitVars

(* jit_try_compile: pages are mapped if need be.                           *)
JitCompile ==
    /\ ProgramRuns /\ g_jitUsable
    /\ compiled' = compiled \cup {vm}
    /\ g_regions' = TRUE
    /\ UNCHANGED <<live, vm, calls, g_vmCount, g_jitUsable>>
    /\ UNCHANGED gcVars /\ UNCHANGED handleVars

(* Whatever allocates on the current VM may collect: it frees garbage, all *)
(* of it or the young part.                                                *)
Collect ==
    /\ vm # NULL /\ gcEnabled[vm] /\ ~HostRuns
    /\ \E freed \in SUBSET (Of(vm) \ Marked(vm)) :
           owner' = [h \in Handles |-> IF h \in freed THEN NULL ELSE owner[h]]
    /\ UNCHANGED <<vm, calls, apiRoots, globals, made, borrowed>>
    /\ UNCHANGED gcVars /\ UNCHANGED jitVars
-----------------------------------------------------------------------------
Init ==
    /\ live = {} /\ vm = NULL /\ calls = <<>>
    /\ gcEnabled = [v \in VMs |-> FALSE] /\ section = [v \in VMs |-> FALSE]
    /\ apiRoots = [v \in VMs |-> {}] /\ globals = [v \in VMs |-> {}]
    /\ owner = [h \in Handles |-> NULL] /\ made = {} /\ borrowed = {}
    /\ g_vmCount = 0 /\ g_jitUsable = FALSE /\ g_regions = FALSE
    /\ compiled = {}

Next ==
    \/ \E v \in VMs :
          \/ New(v) \/ Free(v)
          \/ EnterEval(v) \/ EnterString(v) \/ EnterGetGlobal(v) \/ EnterWithValues(v)
    \/ LeaveString \/ LeaveGetGlobal \/ LeaveSetGlobal
    \/ LookupFails \/ CompileFails \/ Start \/ Finish \/ RuntimeError
    \/ Compute \/ GcDisable \/ GcEnable \/ CallHost \/ ReturnHost
    \/ JitCompile \/ Collect

Spec == Init /\ [][Next]_vars
-----------------------------------------------------------------------------
(* The current VM is the one whose code runs, whatever ran in between: "a  *)
(* host native running on one VM may drive another VM and return cleanly"  *)
(* (api.c:4), and between calls there is none.                             *)
CurrentVmRuns == vm = IF calls = <<>> THEN NULL ELSE Innermost.target

(* No string goes away while the host may use a handle of it, or while a   *)
(* call holds it, through calls nested in either order on either VM.       *)
HandlesStayValid ==
    /\ \A h \in made \cup borrowed : owner[h] # NULL
    /\ \A i \in DOMAIN calls : \A h \in calls[i].held : owner[h] = calls[i].target

(* A step of one VM leaves the others' roots, globals and collector alone, *)
(* the one it returns to included: instances share nothing, though each    *)
(* entry point works on "the" vm.                                          *)
VMsAreSeparate == [][
    \A v \in (live \cap live') \ {vm} : ~(Len(calls') > Len(calls) /\ v = vm') =>
        /\ apiRoots'[v] = apiRoots[v] /\ globals'[v] = globals[v]
        /\ gcEnabled'[v] = gcEnabled[v]
        /\ Of(v)' = Of(v)]_vars

(* A running program has the collector on, and off in its own section:     *)
(* what the host evaluated meanwhile does not change it.                   *)
CollectorAsProgramSays == ProgramRuns => (gcEnabled[vm] <=> ~section[vm])

(* Native code of any VM is mapped until the VM goes: "the pool is         *)
(* released when the last VM is destroyed" (jit.c:117).                    *)
NativeCodeIsMapped == compiled # {} => g_regions
=============================================================================
