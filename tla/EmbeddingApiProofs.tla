------------------------- MODULE EmbeddingApiProofs -------------------------
(***************************************************************************)
(* Proofs about the embedding API of module EmbeddingApi, for any number   *)
(* of VMs, handles and calls in progress, and any number of API roots.     *)
(***************************************************************************)
EXTENDS EmbeddingApi, FiniteSetTheorems, SequenceTheorems, TLAPS

IsProgram(c) == c.kind \in {"call", "eval"} /\ c.phase = "running"

(* The calls in progress alternate: the host enters a VM, whose program    *)
(* calls a host function. All but the innermost are running, and each will *)
(* restore the VM that it interrupted.                                     *)
CallsNest ==
    \A i \in DOMAIN calls :
       /\ calls[i].target \in live
       /\ calls[i].prev = IF i = 1 THEN NULL ELSE calls[i-1].target
       /\ i < Len(calls) => calls[i].phase = "running"
       /\ calls[i].kind = "host" =>
             /\ i > 1 /\ calls[i].phase = "running"
             /\ IsProgram(calls[i-1]) /\ calls[i-1].target = calls[i].target
       /\ i > 1 /\ calls[i].kind # "host" => calls[i-1].kind = "host"

NInv == TypeOK /\ IsFiniteSet(live) /\ CurrentVmRuns /\ CallsNest /\ NativeCodeIsMapped

(* A section is open only in the program that runs, and the collector of a *)
(* VM with a suspended program is on, unless an evaluation on it compiles. *)
SectionsAreInnermost == \A v \in VMs : section[v] => ProgramRuns /\ vm = v
SuspendedCollect ==
    \A v \in VMs : Nested(v) =>
       gcEnabled[v] \/ (vm = v /\ (section[v] \/ In({"eval"}, "compiling")))

CInv == SectionsAreInnermost /\ SuspendedCollect /\ CollectorAsProgramSays

(* What the host or a call holds is marked by a collection: handles it     *)
(* made by the API roots, those it borrowed by the global, arguments by    *)
(* either or by the host function that passes them on.                     *)
HostHandles ==
    /\ \A h \in made : owner[h] \in VMs /\ h \in apiRoots[owner[h]]
    /\ \A h \in borrowed : owner[h] \in VMs /\ h \in globals[owner[h]]
    /\ \A v \in VMs : globals[v] \subseteq Of(v)
HeldHandles ==
    \A i \in DOMAIN calls : \A h \in calls[i].held :
       owner[h] = calls[i].target /\ h \in Marked(calls[i].target)

(* No borrowed handle is left when a program may run, and a root is free   *)
(* for the string about to be made.                                        *)
EntryHandles ==
    calls # <<>> =>
       /\ Innermost.kind \in {"call", "eval"} => borrowed \cap Of(vm) = {}
       /\ Innermost.kind = "string" => Cardinality(apiRoots[vm]) < ApiRootsMax

HInv == HostHandles /\ HeldHandles /\ EntryHandles
----------------------------------------------------------------------------
(* Sequences of calls, element by element.                                 *)

(* The same call, with other handles on the stack.                         *)
Like(c, d) == c.kind = d.kind /\ c.phase = d.phase /\ c.target = d.target /\ c.prev = d.prev

LEMMA Elements ==
  ASSUME NEW s \in Seq(Call)
  PROVE  /\ Len(s) \in Nat /\ DOMAIN s = 1 .. Len(s)
         /\ \A i \in DOMAIN s : s[i] \in Call
         /\ s # <<>> => Len(s) > 0 /\ Len(s) \in DOMAIN s
         /\ s = <<>> => Len(s) = 0
<1>1. Len(s) \in Nat /\ DOMAIN s = 1 .. Len(s) /\ \A i \in 1 .. Len(s) : s[i] \in Call
  BY LenProperties, ElementOfSeq
<1>2. s # <<>> => Len(s) # 0
  BY EmptySeq
<1>3. s = <<>> => Len(s) = 0
  BY EmptySeq
<1>4. QED
  BY <1>1, <1>2, <1>3

LEMMA OuterElements ==
  ASSUME calls \in Seq(Call), calls # <<>>
  PROVE  /\ Outer \in Seq(Call) /\ Len(Outer) = Len(calls) - 1
         /\ \A i \in 1 .. Len(calls) - 1 : Outer[i] = calls[i]
         /\ DOMAIN Outer = 1 .. Len(calls) - 1
<1>1. Len(calls) \in Nat /\ Len(calls) > 0 /\ \A i \in 1 .. Len(calls) : calls[i] \in Call
  BY Elements
<1>2. /\ Outer \in Seq(Call) /\ Len(Outer) = Len(calls) - 1
      /\ \A i \in 1 .. Len(calls) - 1 : Outer[i] = calls[i]
  <2> DEFINE n == Len(calls) - 1
  <2>1. n \in Int /\ 1 \in Int /\ \A i \in 1 .. n : calls[i] \in Call
    BY <1>1
  <2>2. /\ SubSeq(calls, 1, n) \in Seq(Call)
        /\ Len(SubSeq(calls, 1, n)) = IF 1 <= n THEN n - 1 + 1 ELSE 0
        /\ \A i \in 1 .. n - 1 + 1 : SubSeq(calls, 1, n)[i] = calls[1 + i - 1]
    BY <2>1, SubSeqProperties
  <2>3. Outer = SubSeq(calls, 1, n)
    BY DEF Outer
  <2> HIDE DEF n
  <2>4. n \in Nat /\ n = Len(calls) - 1
    BY <1>1 DEF n
  <2>5. Len(Outer) = n
    BY <2>2, <2>3, <2>4
  <2>6. \A i \in 1 .. n : Outer[i] = calls[i]
    BY <2>2, <2>3, <2>4
  <2>7. QED
    BY <2>2, <2>3, <2>4, <2>5, <2>6
<1>3. QED
  BY <1>1, <1>2, Elements

LEMMA Fields ==
  ASSUME NEW c \in Call
  PROVE  /\ c.kind \in {"string", "get_global", "set_global", "call", "eval", "host"}
         /\ c.phase \in {"entered", "compiling", "running"}
         /\ c.target \in VMs /\ c.prev \in VMs \cup {NULL} /\ c.held \subseteq Handles
  BY DEF Call

(* A call is pushed.                                                       *)
LEMMA PushNests ==
  ASSUME TypeOK, CurrentVmRuns, CallsNest, TypeOK', live' = live,
         NEW c \in Call, calls' = Append(calls, c), c.target \in live,
         c.prev = vm, vm' = c.target,
         \/ c.kind # "host" /\ HostRuns
         \/ c.kind = "host" /\ ProgramRuns /\ c.phase = "running" /\ vm = c.target
  PROVE  CurrentVmRuns' /\ CallsNest'
<1> DEFINE n == Len(calls)
<1>1. /\ n \in Nat /\ DOMAIN calls = 1 .. n /\ DOMAIN calls' = 1 .. n + 1 /\ Len(calls') = n + 1
      /\ calls' # <<>> /\ calls'[n + 1] = c /\ \A i \in 1 .. n : calls'[i] = calls[i]
      /\ calls = <<>> => n = 0
      /\ calls # <<>> => n > 0
  BY Elements, AppendProperties DEF TypeOK
<1>2. CurrentVmRuns'
  BY <1>1 DEF CurrentVmRuns, Innermost
<1>3. calls # <<>> => calls[n].phase = "running" /\ calls[n].target = vm
      /\ (c.kind # "host" => calls[n].kind = "host")
      /\ (c.kind = "host" => IsProgram(calls[n]))
  BY <1>1 DEF CallsNest, CurrentVmRuns, Innermost, HostRuns, ProgramRuns, In, IsProgram
<1>4. n = 0 => c.kind # "host" /\ vm = NULL
  BY <1>1 DEF CurrentVmRuns, ProgramRuns, In
<1>5. CallsNest'
  BY <1>1, <1>3, <1>4 DEF CallsNest, IsProgram
<1>6. QED
  BY <1>2, <1>5

(* The innermost call ends, or changes in its handles.                     *)
LEMMA PopNests ==
  ASSUME TypeOK, CurrentVmRuns, CallsNest, TypeOK', live' = live, calls # <<>>,
         Len(calls') = Len(calls) - 1, \A i \in DOMAIN calls' : Like(calls[i], calls'[i]),
         vm' = Innermost.prev
  PROVE  CurrentVmRuns' /\ CallsNest'
<1> DEFINE n == Len(calls)
<1>1. /\ n \in Nat /\ n > 0 /\ DOMAIN calls = 1 .. n /\ DOMAIN calls' = 1 .. n - 1
      /\ calls' = <<>> <=> n = 1
  BY Elements DEF TypeOK
<1>2. CurrentVmRuns'
  BY <1>1 DEF CurrentVmRuns, CallsNest, Innermost, Like
<1>3. CallsNest'
  BY <1>1 DEF CallsNest, IsProgram, Like
<1>4. QED
  BY <1>2, <1>3

LEMMA SameNests ==
  ASSUME TypeOK, CurrentVmRuns, CallsNest, TypeOK',
         \A i \in DOMAIN calls : calls[i].target \in live',
         Len(calls') = Len(calls), vm' = vm,
         \A i \in DOMAIN calls : Like(calls[i], calls'[i])
                                   \/ (i = Len(calls) /\ calls[i].kind # "host"
                                       /\ Like([calls[i] EXCEPT !.phase = "running"], calls'[i]))
  PROVE  CurrentVmRuns' /\ CallsNest'
<1> DEFINE n == Len(calls)
<1>1. /\ n \in Nat /\ DOMAIN calls = 1 .. n /\ DOMAIN calls' = 1 .. n
      /\ calls = <<>> <=> n = 0
      /\ calls' = <<>> <=> n = 0
      /\ \A i \in 1 .. n : calls[i] \in Call /\ calls'[i] \in Call
  BY Elements DEF TypeOK
<1>2. \A i \in 1 .. n : calls'[i].kind = calls[i].kind /\ calls'[i].target = calls[i].target
         /\ calls'[i].prev = calls[i].prev
         /\ (calls[i].phase = "running" => calls'[i].phase = "running")
         /\ (calls'[i].phase = calls[i].phase \/ i = n)
  BY <1>1 DEF Like, Call
<1>3. CurrentVmRuns'
  BY <1>1, <1>2 DEF CurrentVmRuns, Innermost
<1>4. CallsNest'
  BY <1>1, <1>2 DEF CallsNest, IsProgram
<1>5. QED
  BY <1>3, <1>4

----------------------------------------------------------------------------
(* Steps: types, nesting of calls, native code.                            *)

LEMMA InitNInv == Init => NInv
<1> SUFFICES ASSUME Init PROVE NInv
  OBVIOUS
<1>1. TypeOK /\ IsFiniteSet(live)
  BY EmptySeq, FS_EmptySet DEF Init, TypeOK
<1>2. CurrentVmRuns /\ CallsNest /\ NativeCodeIsMapped
  BY DEF Init, CurrentVmRuns, CallsNest, NativeCodeIsMapped
<1>3. QED
  BY <1>1, <1>2 DEF NInv

LEMMA NewNInv ==
  ASSUME NInv, NEW v \in VMs, New(v)
  PROVE  NInv'
<1>1. IsFiniteSet(live') /\ Cardinality(live') = Cardinality(live) + 1
  BY FS_AddElement DEF NInv, New
<1>2. TypeOK'
  BY <1>1 DEF NInv, TypeOK, New, JitInit, handleVars
<1>3. NativeCodeIsMapped'
  <2>1. CASE g_vmCount = 0
    BY <2>1, FS_EmptySet DEF NInv, TypeOK, New, NativeCodeIsMapped
  <2>2. CASE g_vmCount # 0
    BY <2>2 DEF NInv, New, JitInit, NativeCodeIsMapped
  <2>3. QED
    BY <2>1, <2>2
<1>4. CurrentVmRuns' /\ CallsNest'
  BY DEF NInv, New, CurrentVmRuns, CallsNest, Innermost
<1>5. QED
  BY <1>1, <1>2, <1>3, <1>4 DEF NInv

LEMMA FreeNInv ==
  ASSUME NInv, NEW v \in VMs, Free(v)
  PROVE  NInv'
<1>1. IsFiniteSet(live') /\ Cardinality(live') = Cardinality(live) - 1
      /\ Cardinality(live') \in Nat
  BY FS_RemoveElement, FS_CardinalityType DEF NInv, Free
<1>2. calls # <<>> => Innermost.target # v
  BY Elements DEF NInv, TypeOK, Free, Busy, Innermost
<1>3. vm' = vm
  BY <1>2, EmbeddingApiAssumption DEF NInv, CurrentVmRuns, Free
<1>4. TypeOK'
  BY <1>1, <1>3 DEF NInv, TypeOK, Free, JitShutdown, gcVars, CurrentVmRuns
<1>5. NativeCodeIsMapped'
  <2>1. CASE live' = {}
    BY <2>1, <1>4 DEF TypeOK, NativeCodeIsMapped
  <2>2. CASE live' # {}
    BY <1>1, <2>2, FS_EmptySet DEF NInv, TypeOK, Free, JitShutdown, NativeCodeIsMapped
  <2>3. QED
    BY <2>1, <2>2
<1>6. CurrentVmRuns' /\ CallsNest'
  <2>1. \A i \in DOMAIN calls : calls[i].target \in live'
    BY DEF NInv, CallsNest, Free, Busy
  <2>2. QED
    BY <2>1, <1>3 DEF NInv, Free, CurrentVmRuns, CallsNest, Innermost
<1>7. QED
  BY <1>1, <1>4, <1>5, <1>6 DEF NInv

(* What remains to be shown of the steps that neither create nor destroy.  *)
LEMMA EntryNInv ==
  ASSUME NInv, UNCHANGED jitVars, TypeOK', CurrentVmRuns', CallsNest'
  PROVE  NInv'
  BY DEF NInv, jitVars, NativeCodeIsMapped

LEMMA EnterNInv ==
  ASSUME NInv, NEW v \in VMs, NEW args \in SUBSET Handles,
         NEW kind \in {"string", "get_global", "set_global", "call", "eval"},
         Enter(v, kind, args)
  PROVE  NInv'
<1> DEFINE c == [kind |-> kind, phase |-> IF kind = "eval" THEN "compiling" ELSE "entered",
                 target |-> v, prev |-> vm, held |-> args]
<1>1. c \in Call
  BY DEF NInv, TypeOK, Call
<1>2. calls' = Append(calls, c) /\ calls' \in Seq(Call)
  BY <1>1, AppendProperties DEF NInv, TypeOK, Enter
<1>3. TypeOK'
  BY <1>2 DEF NInv, TypeOK, Enter, jitVars
<1>4. c.target = v /\ c.prev = vm /\ c.kind = kind
  OBVIOUS
<1> HIDE DEF c
<1>5. CurrentVmRuns' /\ CallsNest'
  BY <1>1, <1>2, <1>3, <1>4, PushNests DEF NInv, Enter, jitVars
<1>6. QED
  BY <1>3, <1>5, EntryNInv DEF Enter

LEMMA CallHostNInv ==
  ASSUME NInv, CallHost
  PROVE  NInv'
<1> PICK args \in SUBSET Innermost.held :
         calls' = Append(calls, [kind |-> "host", phase |-> "running",
                                 target |-> vm, prev |-> vm, held |-> args])
  BY DEF CallHost
<1> DEFINE c == [kind |-> "host", phase |-> "running", target |-> vm, prev |-> vm, held |-> args]
<1>1. Innermost \in Call /\ vm \in VMs /\ vm \in live
  BY Elements, Fields DEF NInv, TypeOK, CallHost, ProgramRuns, In, Innermost, CurrentVmRuns, CallsNest
<1>2. c \in Call
  BY <1>1 DEF Call
<1>3. calls' = Append(calls, c) /\ calls' \in Seq(Call)
  BY <1>2, AppendProperties DEF NInv, TypeOK
<1>4. TypeOK'
  BY <1>3 DEF NInv, TypeOK, CallHost, jitVars, gcVars, handleVars
<1>5. c.target = vm /\ c.prev = vm /\ c.kind = "host" /\ c.phase = "running"
  OBVIOUS
<1> HIDE DEF c
<1>6. CurrentVmRuns' /\ CallsNest'
  BY <1>1, <1>2, <1>3, <1>4, <1>5, PushNests DEF NInv, CallHost, jitVars
<1>7. QED
  BY <1>4, <1>6, EntryNInv DEF CallHost

(* An entry point returns.                                                 *)
LEMMA LeaveNests ==
  ASSUME NInv, calls # <<>>, Leave, TypeOK', UNCHANGED jitVars
  PROVE  NInv'
<1>1. Len(calls') = Len(calls) - 1 /\ \A i \in DOMAIN calls' : calls'[i] = calls[i]
  BY OuterElements DEF NInv, TypeOK, Leave
<1>2. CurrentVmRuns' /\ CallsNest'
  BY <1>1, PopNests DEF NInv, Leave, jitVars, Like
<1>3. QED
  BY <1>2, EntryNInv

LEMMA PrevIsLive ==
  ASSUME NInv, calls # <<>>
  PROVE  Innermost.prev \in live \cup {NULL}
<1>1. Len(calls) \in Nat /\ Len(calls) > 0 /\ DOMAIN calls = 1 .. Len(calls)
  BY Elements DEF NInv, TypeOK
<1>2. Innermost.prev = IF Len(calls) = 1 THEN NULL ELSE calls[Len(calls)-1].target
  BY <1>1 DEF NInv, CallsNest, Innermost
<1>3. Len(calls) # 1 => calls[Len(calls)-1].target \in live
  BY <1>1 DEF NInv, CallsNest
<1>4. QED
  BY <1>2, <1>3

LEMMA LeaveTypes ==
  ASSUME NInv, calls # <<>>, Leave
  PROVE  /\ vm \in live /\ vm \in VMs /\ Innermost \in Call
         /\ vm' \in live \cup {NULL} /\ calls' \in Seq(Call)
<1>1. Innermost \in Call /\ vm = Innermost.target /\ vm \in live
  BY Elements DEF NInv, TypeOK, CurrentVmRuns, CallsNest, Innermost
<1>2. QED
  BY <1>1, PrevIsLive, OuterElements DEF NInv, TypeOK, Leave

LEMMA LeaveEntryNInv ==
  ASSUME NInv, LeaveString \/ LeaveGetGlobal \/ LeaveSetGlobal
  PROVE  NInv'
<1>1. calls # <<>> /\ Leave /\ UNCHANGED jitVars
  BY DEF LeaveString, LeaveGetGlobal, LeaveSetGlobal, In
<1>2. TypeOK'
  <2>1. CASE LeaveString
    BY <1>1, <2>1, LeaveTypes DEF NInv, TypeOK, LeaveString, ApiRoot, Unused, gcVars, jitVars
  <2>2. CASE LeaveGetGlobal
    BY <1>1, <2>2, LeaveTypes DEF NInv, TypeOK, LeaveGetGlobal, gcVars, jitVars
  <2>3. CASE LeaveSetGlobal
    BY <1>1, <2>3, LeaveTypes, Fields DEF NInv, TypeOK, LeaveSetGlobal, gcVars, jitVars
  <2>4. QED
    BY <2>1, <2>2, <2>3
<1>3. QED
  BY <1>1, <1>2, LeaveNests

LEMMA LeaveProgramNInv ==
  ASSUME NInv, calls # <<>>, NEW result \in SUBSET Handles,
         LeaveProgram(result), UNCHANGED <<gcEnabled, owner>>
  PROVE  NInv'
<1>1. TypeOK'
  <2>1. (CHOOSE h \in result : TRUE) \in Handles \/ result = {}
    OBVIOUS
  <2>2. QED
    BY <2>1, LeaveTypes DEF NInv, TypeOK, LeaveProgram, ApiRoot, jitVars
<1>2. QED
  BY <1>1, LeaveNests DEF LeaveProgram

LEMMA FinishNInv ==
  ASSUME NInv, Finish \/ LookupFails \/ CompileFails
  PROVE  NInv'
<1>1. calls # <<>>
  BY DEF Finish, LookupFails, CompileFails, ProgramRuns, In
<1>2. Innermost.held \subseteq Handles
  BY <1>1, Elements, Fields DEF NInv, TypeOK, Innermost
<1>3. \E result \in SUBSET Handles : LeaveProgram(result) /\ UNCHANGED <<gcEnabled, owner>>
  BY <1>2 DEF Finish, LookupFails, CompileFails
<1>4. QED
  BY <1>1, <1>3, LeaveProgramNInv

----------------------------------------------------------------------------
(* The calls in progress stay, the innermost one with other values.        *)
LEMMA InnermostFacts ==
  ASSUME NInv, calls # <<>>
  PROVE  /\ Innermost \in Call /\ vm = Innermost.target /\ vm \in VMs /\ vm \in live
         /\ Len(calls) \in 1 .. Len(calls) /\ DOMAIN calls = 1 .. Len(calls)
  BY Elements, Fields DEF NInv, TypeOK, CurrentVmRuns, CallsNest, Innermost

LEMMA StartCalls ==
  ASSUME NInv, Start
  PROVE  /\ calls' \in Seq(Call) /\ Len(calls') = Len(calls)
         /\ \A i \in DOMAIN calls :
               calls'[i] = IF i = Len(calls) THEN [Innermost EXCEPT !.phase = "running"] ELSE calls[i]
<1>1. calls # <<>>
  BY DEF Start, In
<1> DEFINE c == [Innermost EXCEPT !.phase = "running"]
<1>2. c \in Call
  BY <1>1, InnermostFacts DEF Call
<1>3. calls' = [calls EXCEPT ![Len(calls)] = c]
  BY DEF Start, Innermost
<1> HIDE DEF c
<1>4. /\ calls' \in Seq(Call) /\ Len(calls') = Len(calls)
      /\ \A i \in DOMAIN calls : calls'[i] = IF i = Len(calls) THEN c ELSE calls[i]
  BY <1>1, <1>2, <1>3, InnermostFacts, ExceptSeq DEF NInv, TypeOK
<1>5. QED
  BY <1>4 DEF c

LEMMA StartNInv ==
  ASSUME NInv, Start
  PROVE  NInv'
<1>1. calls # <<>> /\ Innermost.kind # "host"
  BY DEF Start, In
<1>2. TypeOK'
  BY <1>1, StartCalls, InnermostFacts DEF NInv, TypeOK, Start, handleVars, jitVars
<1>3. \A i \in DOMAIN calls : Like(calls[i], calls'[i])
         \/ (i = Len(calls) /\ calls[i].kind # "host"
             /\ Like([calls[i] EXCEPT !.phase = "running"], calls'[i]))
  BY <1>1, StartCalls, InnermostFacts DEF Like, Innermost
<1>4. CurrentVmRuns' /\ CallsNest'
  BY <1>2, <1>3, StartCalls, SameNests DEF NInv, Start, jitVars, CallsNest
<1>5. QED
  BY <1>2, <1>4, EntryNInv DEF Start

LEMMA RuntimeErrorCalls ==
  ASSUME NInv, RuntimeError
  PROVE  /\ calls # <<>> /\ calls' \in Seq(Call) /\ Len(calls') = Len(calls) - 1
         /\ DOMAIN calls' = 1 .. Len(calls) - 1
         /\ \A i \in 1 .. Len(calls) - 1 :
               /\ Like(calls[i], calls'[i])
               /\ calls'[i].held = IF calls[i].target = vm THEN {} ELSE calls[i].held
<1>1. calls # <<>>
  BY DEF RuntimeError, ProgramRuns, In
<1> DEFINE reset == [i \in DOMAIN calls |->
                       IF calls[i].target = vm THEN [calls[i] EXCEPT !.held = {}] ELSE calls[i]]
           n == Len(calls) - 1
<1>2. /\ n \in Nat /\ DOMAIN calls = 1 .. n + 1
      /\ \A i \in DOMAIN calls : calls[i] \in Call
      /\ Len(calls) = n + 1
  BY <1>1, Elements DEF NInv, TypeOK
<1>3. \A i \in 1 .. n : /\ reset[i] \in Call /\ Like(calls[i], reset[i])
                        /\ reset[i].held = IF calls[i].target = vm THEN {} ELSE calls[i].held
  BY <1>2 DEF Call, Like
<1>4. calls' = SubSeq(reset, 1, n)
  BY DEF RuntimeError
<1> HIDE DEF reset, n
<1>5. n \in Int /\ 1 \in Int
  BY <1>2
<1>6. /\ SubSeq(reset, 1, n) \in Seq(Call)
      /\ Len(SubSeq(reset, 1, n)) = IF 1 <= n THEN n - 1 + 1 ELSE 0
      /\ \A i \in 1 .. n - 1 + 1 : SubSeq(reset, 1, n)[i] = reset[1 + i - 1]
  BY <1>3, <1>5, SubSeqProperties
<1>7. calls' \in Seq(Call) /\ Len(calls') = n /\ \A i \in 1 .. n : calls'[i] = reset[i]
  BY <1>2, <1>4, <1>6
<1>8. DOMAIN calls' = 1 .. n
  BY <1>7, Elements
<1>9. QED
  BY <1>1, <1>2, <1>3, <1>7, <1>8 DEF n

LEMMA RuntimeErrorNInv ==
  ASSUME NInv, RuntimeError
  PROVE  NInv'
<1>1. calls # <<>> /\ vm' \in live \cup {NULL}
  BY RuntimeErrorCalls, PrevIsLive DEF RuntimeError
<1>2. TypeOK'
  BY <1>1, RuntimeErrorCalls, InnermostFacts DEF NInv, TypeOK, RuntimeError, jitVars
<1>3. CurrentVmRuns' /\ CallsNest'
  BY <1>1, <1>2, RuntimeErrorCalls, PopNests DEF NInv, RuntimeError, jitVars
<1>4. QED
  BY <1>2, <1>3, EntryNInv DEF RuntimeError

LEMMA ComputeCalls ==
  ASSUME NInv, Compute
  PROVE  /\ Innermost.held \cup globals[vm] \subseteq Handles
         /\ \E stack \in SUBSET (Innermost.held \cup globals[vm]) :
               /\ calls' \in Seq(Call) /\ Len(calls') = Len(calls)
               /\ \A i \in DOMAIN calls :
                     calls'[i] = IF i = Len(calls) THEN [Innermost EXCEPT !.held = stack]
                                 ELSE calls[i]
<1>1. calls # <<>>
  BY DEF Compute, ProgramRuns, In
<1>2. Innermost.held \cup globals[vm] \subseteq Handles
  BY <1>1, InnermostFacts, Fields DEF NInv, TypeOK
<1>3. PICK stack \in SUBSET (Innermost.held \cup globals[vm]) :
         calls' = [calls EXCEPT ![Len(calls)].held = stack]
  BY DEF Compute
<1> DEFINE c == [Innermost EXCEPT !.held = stack]
<1>4. c \in Call
  BY <1>1, <1>2, InnermostFacts DEF Call
<1>5. calls' = [calls EXCEPT ![Len(calls)] = c]
  BY <1>3 DEF Innermost
<1> HIDE DEF c
<1>6. /\ calls' \in Seq(Call) /\ Len(calls') = Len(calls)
      /\ \A i \in DOMAIN calls : calls'[i] = IF i = Len(calls) THEN c ELSE calls[i]
  BY <1>1, <1>4, <1>5, InnermostFacts, ExceptSeq DEF NInv, TypeOK
<1>7. QED
  BY <1>2, <1>6 DEF c

LEMMA ComputeNInv ==
  ASSUME NInv, Compute
  PROVE  NInv'
<1>1. calls # <<>>
  BY DEF Compute, ProgramRuns, In
<1>2. TypeOK'
  BY <1>1, ComputeCalls, InnermostFacts, ZenonT(40) DEF NInv, TypeOK, Compute, gcVars, jitVars
<1>3. \A i \in DOMAIN calls : Like(calls[i], calls'[i])
  BY <1>1, ComputeCalls, InnermostFacts DEF Like, Innermost, Call
<1>4. CurrentVmRuns' /\ CallsNest'
  BY <1>2, <1>3, ComputeCalls, SameNests DEF NInv, Compute, jitVars, CallsNest
<1>5. QED
  BY <1>2, <1>4, EntryNInv DEF Compute

LEMMA ReturnHostCalls ==
  ASSUME NInv, ReturnHost
  PROVE  /\ calls # <<>> /\ Len(calls) > 1 /\ vm' = Innermost.prev
         /\ calls' \in Seq(Call) /\ Len(calls') = Len(calls) - 1
         /\ DOMAIN calls' = 1 .. Len(calls) - 1
         /\ \E result \in {{}} \cup {{h} : h \in Usable(vm)} : \A i \in 1 .. Len(calls) - 1 :
               /\ Like(calls[i], calls'[i])
               /\ calls'[i].held = IF i = Len(calls) - 1 THEN calls[i].held \cup result
                                   ELSE calls[i].held
<1> DEFINE n == Len(calls) - 1
<1>1. calls # <<>> /\ Innermost.kind = "host"
  BY DEF ReturnHost
<1>2. PICK result \in {{}} \cup {{h} : h \in Usable(vm)} :
         calls' = [Outer EXCEPT ![Len(Outer)].held = @ \cup result]
  BY DEF ReturnHost
<1>3. result \subseteq Handles
  BY DEF Usable, Of
<1>4. Len(calls) > 1 /\ calls[n].target = vm
  BY <1>1, InnermostFacts DEF NInv, CallsNest, Innermost
<1>5. Outer \in Seq(Call) /\ Len(Outer) = n /\ n \in 1 .. n /\ \A i \in 1 .. n : Outer[i] = calls[i]
  BY <1>1, <1>4, OuterElements, Elements DEF NInv, TypeOK
<1> DEFINE c == [Outer[n] EXCEPT !.held = @ \cup result]
<1>6. c \in Call /\ Like(calls[n], c) /\ c.held = calls[n].held \cup result
  <2>1. Outer[n] \in Call
    BY <1>5, ElementOfSeq
  <2>2. QED
    BY <1>3, <1>5, <2>1 DEF Call, Like
<1>7. calls' = [Outer EXCEPT ![n] = c]
  BY <1>2, <1>5
<1> HIDE DEF c, n
<1>8. /\ calls' \in Seq(Call) /\ Len(calls') = n
      /\ \A i \in 1 .. n : calls'[i] = IF i = n THEN c ELSE calls[i]
  BY <1>5, <1>6, <1>7, ExceptSeq
<1>9. vm' = Innermost.prev
  BY <1>1, <1>4, InnermostFacts DEF NInv, CallsNest, ReturnHost, Innermost, n
<1>10. DOMAIN calls' = 1 .. n
  BY <1>8, Elements
<1>11. \A i \in 1 .. n : Like(calls[i], calls'[i])
          /\ calls'[i].held = IF i = n THEN calls[i].held \cup result ELSE calls[i].held
  BY <1>6, <1>8 DEF Like
<1>12. QED
  BY <1>1, <1>2, <1>4, <1>8, <1>9, <1>10, <1>11 DEF n

LEMMA ReturnHostNInv ==
  ASSUME NInv, ReturnHost
  PROVE  NInv'
<1>1. TypeOK'
  BY ReturnHostCalls DEF NInv, TypeOK, ReturnHost, gcVars, jitVars
<1>2. CurrentVmRuns' /\ CallsNest'
  BY <1>1, ReturnHostCalls, PopNests DEF NInv, ReturnHost, jitVars
<1>3. QED
  BY <1>1, <1>2, EntryNInv DEF ReturnHost

LEMMA SameCallsNInv ==
  ASSUME NInv, GcDisable \/ GcEnable \/ JitCompile \/ Collect
  PROVE  NInv'
<1>1. UNCHANGED <<calls, vm, live>>
  BY DEF GcDisable, GcEnable, JitCompile, Collect, jitVars
<1>2. CurrentVmRuns' /\ CallsNest'
  BY <1>1 DEF NInv, CurrentVmRuns, CallsNest, Innermost
<1>3. calls # <<>>
  BY DEF GcDisable, GcEnable, JitCompile, Collect, ProgramRuns, In, HostRuns
<1>4. TypeOK' /\ NativeCodeIsMapped'
  BY <1>1, <1>3, InnermostFacts DEF NInv, TypeOK, NativeCodeIsMapped,
     GcDisable, GcEnable, JitCompile, Collect, jitVars, gcVars, handleVars
<1>5. QED
  BY <1>1, <1>2, <1>4 DEF NInv

----------------------------------------------------------------------------
LEMMA NextNInv ==
  ASSUME NInv, [Next]_vars
  PROVE  NInv'
<1>1. ASSUME NEW v \in VMs, New(v) PROVE NInv'
  BY <1>1, NewNInv
<1>2. ASSUME NEW v \in VMs, Free(v) PROVE NInv'
  BY <1>2, FreeNInv
<1>3. ASSUME NEW v \in VMs,
             EnterEval(v) \/ EnterString(v) \/ EnterGetGlobal(v) \/ EnterWithValues(v)
      PROVE  NInv'
  BY <1>3, EnterNInv DEF EnterEval, EnterString, EnterGetGlobal, EnterWithValues, Usable, Of
<1>4. CASE UNCHANGED vars
  BY <1>4 DEF vars, NInv, TypeOK, CurrentVmRuns, CallsNest, NativeCodeIsMapped, Innermost
<1>5. QED
  BY <1>1, <1>2, <1>3, <1>4, LeaveEntryNInv, FinishNInv, StartNInv, RuntimeErrorNInv,
     ComputeNInv, SameCallsNInv, CallHostNInv, ReturnHostNInv DEF Next

(* Types, and with them the counts of jit.c: g_vmCount is the number of    *)
(* VMs that exist.                                                         *)
THEOREM NestingInvariant == Spec => []NInv
<1>1. Init => NInv
  BY InitNInv
<1>2. NInv /\ [Next]_vars => NInv'
  BY NextNInv
<1>3. QED
  BY <1>1, <1>2, PTL DEF Spec

(* The current VM is that of the innermost call, however entry points and  *)
(* host functions of several VMs nest, and none when the host application  *)
(* runs: each way out, errors included, restores the one interrupted.      *)
THEOREM CurrentVm == Spec => []CurrentVmRuns
<1>1. NInv => CurrentVmRuns
  BY DEF NInv
<1>2. QED
  BY <1>1, NestingInvariant, PTL

(* The regions of native code are mapped as long as a VM has any: the      *)
(* count of VMs reaches zero only when the last one goes.                  *)
THEOREM MappedCode == Spec => []NativeCodeIsMapped
<1>1. NInv => NativeCodeIsMapped
  BY DEF NInv
<1>2. QED
  BY <1>1, NestingInvariant, PTL

(* A step changes roots, globals, collector and strings of the current VM  *)
(* only, or of the one that is entered.                                    *)
THEOREM Separation == Spec => VMsAreSeparate
<1> DEFINE Separate == \A v \in (live \cap live') \ {vm} :
             ~(Len(calls') > Len(calls) /\ v = vm') =>
               /\ apiRoots'[v] = apiRoots[v] /\ globals'[v] = globals[v]
               /\ gcEnabled'[v] = gcEnabled[v]
               /\ Of(v)' = Of(v)
<1>1. NInv /\ [Next]_vars => [Separate]_vars
  <2> SUFFICES ASSUME NInv, Next,
                      NEW v \in live \cap live', v # vm, ~(Len(calls') > Len(calls) /\ v = vm')
               PROVE  /\ apiRoots'[v] = apiRoots[v] /\ globals'[v] = globals[v]
                      /\ gcEnabled'[v] = gcEnabled[v]
                      /\ Of(v)' = Of(v)
    OBVIOUS
  <2>1. v \in VMs /\ v # NULL
    BY EmbeddingApiAssumption DEF NInv, TypeOK
  <2>2. ASSUME NEW u \in VMs, New(u) PROVE u # v
    BY <2>2 DEF New
  <2>3. ASSUME NEW u \in VMs, Free(u) PROVE u # v
    BY <2>3 DEF Free
  <2>4. ASSUME NEW u \in VMs, NEW kind, NEW args, Enter(u, kind, args) PROVE u # v
    <3>1. Len(calls') > Len(calls)
      <4> DEFINE c == [kind |-> kind, phase |-> IF kind = "eval" THEN "compiling" ELSE "entered",
                       target |-> u, prev |-> vm, held |-> args]
      <4>1. calls' = Append(calls, c)
        BY <2>4 DEF Enter
      <4> HIDE DEF c
      <4>2. QED
        BY <4>1, LenProperties DEF NInv, TypeOK
    <3>2. QED
      BY <3>1, <2>4 DEF Enter
  <2>5. CASE \E u \in VMs : New(u)
    BY <2>1, <2>2, <2>5 DEF NInv, TypeOK, New, Of, handleVars
  <2>6. CASE \E u \in VMs : Free(u)
    BY <2>1, <2>3, <2>6 DEF NInv, TypeOK, Free, Of, gcVars
  <2>7. CASE \E u \in VMs :
                EnterEval(u) \/ EnterString(u) \/ EnterGetGlobal(u) \/ EnterWithValues(u)
    <3>1. PICK u \in VMs : \E kind, args : Enter(u, kind, args)
      BY <2>7 DEF EnterEval, EnterString, EnterGetGlobal, EnterWithValues
    <3>2. PICK kind, args : Enter(u, kind, args)
      BY <3>1
    <3>3. QED
      BY <2>1, <2>4, <3>2 DEF NInv, TypeOK, Enter, Of
  <2>8. CASE LeaveString \/ LeaveGetGlobal \/ LeaveSetGlobal
    BY <2>1, <2>8 DEF NInv, TypeOK, LeaveString, LeaveGetGlobal, LeaveSetGlobal, Of, Unused, gcVars
  <2>9. CASE LookupFails \/ CompileFails \/ Finish
    BY <2>1, <2>9 DEF NInv, TypeOK, LookupFails, CompileFails, Finish, LeaveProgram, Of
  <2>10. CASE Start \/ RuntimeError \/ Compute
    BY <2>1, <2>10 DEF NInv, TypeOK, Start, RuntimeError, Compute, Of, gcVars, handleVars
  <2>11. CASE GcDisable \/ GcEnable \/ CallHost \/ ReturnHost \/ JitCompile \/ Collect
    BY <2>1, <2>11 DEF NInv, TypeOK, GcDisable, GcEnable, CallHost, ReturnHost, JitCompile,
       Collect, Of, gcVars, handleVars
  <2>12. QED
    BY <2>5, <2>6, <2>7, <2>8, <2>9, <2>10, <2>11 DEF Next
<1>2. QED
  BY <1>1, NestingInvariant, PTL DEF Spec, VMsAreSeparate

----------------------------------------------------------------------------
(* How the calls in progress change, as far as the collector is concerned. *)

LEMMA Below ==
  ASSUME NEW s \in Seq(Call), NEW v
  PROVE  (\E i \in DOMAIN SubSeq(s, 1, Len(s) - 1) : SubSeq(s, 1, Len(s) - 1)[i].target = v)
           <=> \E i \in 1 .. Len(s) - 1 : s[i].target = v
<1> DEFINE n == Len(s) - 1
           t == SubSeq(s, 1, n)
<1>1. Len(s) \in Nat /\ \A i \in 1 .. Len(s) : s[i] \in Call
  BY Elements
<1>2. n \in Int /\ 1 \in Int /\ \A i \in 1 .. n : s[i] \in Call
  BY <1>1
<1>3. /\ SubSeq(s, 1, n) \in Seq(Call)
      /\ Len(SubSeq(s, 1, n)) = IF 1 <= n THEN n - 1 + 1 ELSE 0
      /\ \A i \in 1 .. n - 1 + 1 : SubSeq(s, 1, n)[i] = s[1 + i - 1]
  BY <1>2, SubSeqProperties
<1>4. DOMAIN t = 1 .. Len(t)
  BY <1>3, Elements
<1> HIDE DEF n
<1>5. DOMAIN t = 1 .. n /\ \A i \in 1 .. n : t[i] = s[i]
  BY <1>2, <1>3, <1>4
<1>6. QED
  BY <1>5 DEF n

LEMMA NestedMeans ==
  ASSUME NInv
  PROVE  \A v : Nested(v) <=> \E i \in 1 .. Len(calls) - 1 : calls[i].target = v
  BY Below DEF NInv, TypeOK, Nested, Outer

LEMMA NestedThen ==
  ASSUME calls' \in Seq(Call)
  PROVE  \A v : Nested(v)' <=> \E i \in 1 .. Len(calls') - 1 : calls'[i].target = v
  BY Below DEF Nested, Outer

LEMMA Pushed ==
  ASSUME NInv, NEW c \in Call, calls' = Append(calls, c)
  PROVE  /\ calls' # <<>> /\ Innermost' = c
         /\ \A v : Nested(v)' => calls # <<>> /\ (Nested(v) \/ v = vm)
<1> DEFINE n == Len(calls)
<1>1. /\ n \in Nat /\ calls' \in Seq(Call) /\ Len(calls') = n + 1
      /\ calls' # <<>> /\ calls'[n + 1] = c /\ \A i \in 1 .. n : calls'[i] = calls[i]
      /\ calls = <<>> => n = 0
  BY Elements, AppendProperties, SMTT(20) DEF NInv, TypeOK
<1>2. ASSUME NEW v, Nested(v)' PROVE calls # <<>> /\ (Nested(v) \/ v = vm)
  <2>1. PICK i \in 1 .. n : calls[i].target = v
    BY <1>1, <1>2, NestedThen
  <2>2. CASE i = n
    BY <1>1, <2>1, <2>2 DEF NInv, CurrentVmRuns, Innermost
  <2>3. CASE i # n
    BY <1>1, <2>1, <2>3, NestedMeans
  <2>4. QED
    BY <2>2, <2>3
<1>3. QED
  BY <1>1, <1>2 DEF Innermost

LEMMA Popped ==
  ASSUME NInv, calls # <<>>, calls' \in Seq(Call), Len(calls') = Len(calls) - 1,
         \A i \in 1 .. Len(calls) - 1 : Like(calls[i], calls'[i])
  PROVE  /\ \A v : Nested(v)' => Nested(v)
         /\ Innermost.kind # "host" => HostRuns'
         /\ Innermost.kind = "host" => ProgramRuns' /\ Nested(vm)
<1> DEFINE n == Len(calls)
<1>1. /\ n \in Nat /\ n > 0 /\ DOMAIN calls = 1 .. n
      /\ calls' # <<>> <=> n > 1
  BY Elements DEF NInv, TypeOK
<1>2. \A v : Nested(v)' => Nested(v)
  BY <1>1, NestedThen, NestedMeans DEF Like
<1>3. Innermost.kind # "host" => HostRuns'
  BY <1>1 DEF NInv, CallsNest, HostRuns, Innermost, Like
<1>4. ASSUME Innermost.kind = "host" PROVE ProgramRuns' /\ Nested(vm)
  <2>1. n > 1 /\ IsProgram(calls[n-1]) /\ calls[n-1].target = vm
    BY <1>1, <1>4 DEF NInv, CallsNest, CurrentVmRuns, Innermost
  <2>2. QED
    BY <1>1, <2>1, NestedMeans DEF ProgramRuns, In, Innermost, IsProgram, Like
<1>5. QED
  BY <1>2, <1>3, <1>4

LEMMA Stayed ==
  ASSUME NInv, calls' \in Seq(Call), Len(calls') = Len(calls),
         \A i \in DOMAIN calls : calls'[i].target = calls[i].target
  PROVE  \A v : Nested(v)' <=> Nested(v)
<1>1. Len(calls) \in Nat /\ DOMAIN calls = 1 .. Len(calls)
  BY Elements DEF NInv, TypeOK
<1>2. \A i \in 1 .. Len(calls) - 1 : calls'[i].target = calls[i].target
  BY <1>1
<1>3. QED
  BY <1>2, NestedThen, NestedMeans

LEMMA SameNested ==
  ASSUME NInv, UNCHANGED calls
  PROVE  /\ \A v : Nested(v)' <=> Nested(v)
         /\ Innermost' = Innermost /\ HostRuns' <=> HostRuns
         /\ ProgramRuns' <=> ProgramRuns
         /\ \A kinds, phase : In(kinds, phase)' <=> In(kinds, phase)
  BY DEF Nested, Outer, Innermost, HostRuns, ProgramRuns, In

(* A program of v that is suspended was called into by the host.           *)
LEMMA NestedLive ==
  ASSUME NInv, NEW v, Nested(v)
  PROVE  v \in live /\ Busy(v) /\ v \in VMs
<1>1. PICK i \in 1 .. Len(calls) - 1 : calls[i].target = v
  BY NestedMeans
<1>2. Len(calls) \in Nat /\ DOMAIN calls = 1 .. Len(calls)
  BY Elements DEF NInv, TypeOK
<1>3. i \in DOMAIN calls
  BY <1>2
<1>4. QED
  BY <1>1, <1>3 DEF NInv, TypeOK, CallsNest, Busy

LEMMA NotRunning ==
  ASSUME NInv, CInv, ~ProgramRuns
  PROVE  /\ \A v \in VMs : ~section[v]
         /\ ~In({"eval"}, "compiling") => \A v \in VMs : Nested(v) => gcEnabled[v]
  BY DEF CInv, SectionsAreInnermost, SuspendedCollect

(* Steps: the collector.                                                   *)

LEMMA EnterCInv ==
  ASSUME NInv, CInv, NEW v \in VMs, NEW args \in SUBSET Handles,
         NEW kind \in {"string", "get_global", "set_global", "call", "eval"},
         Enter(v, kind, args)
  PROVE  CInv'
<1> DEFINE c == [kind |-> kind, phase |-> IF kind = "eval" THEN "compiling" ELSE "entered",
                 target |-> v, prev |-> vm, held |-> args]
<1>1. c \in Call /\ calls' = Append(calls, c)
  BY DEF NInv, TypeOK, Call, Enter
<1>2. c.kind = kind /\ c.phase = IF kind = "eval" THEN "compiling" ELSE "entered"
  OBVIOUS
<1> HIDE DEF c
<1>3. /\ calls' # <<>> /\ Innermost' = c
      /\ \A u : Nested(u)' => calls # <<>> /\ (Nested(u) \/ u = vm)
  BY <1>1, Pushed
<1>4. ~ProgramRuns' /\ (kind = "eval" => In({"eval"}, "compiling")')
  BY <1>2, <1>3 DEF ProgramRuns, In
<1>5. ~ProgramRuns /\ ~In({"eval"}, "compiling")
  BY DEF Enter, HostRuns, ProgramRuns, In
<1>6. calls # <<>> => Nested(vm)
  <2>1. calls # <<>> => Innermost.kind = "host"
    BY DEF Enter, HostRuns
  <2>2. QED
    BY <2>1, Elements, NestedMeans DEF NInv, TypeOK, CallsNest, CurrentVmRuns, Innermost
<1>7. \A u \in VMs : Nested(u)' => gcEnabled[u]
  BY <1>3, <1>5, <1>6, NotRunning
<1>8. section' = section /\ \A u \in VMs : gcEnabled'[u] = gcEnabled[u] \/ (u = v /\ kind = "eval")
  BY DEF Enter, NInv, TypeOK
<1>9. SectionsAreInnermost' /\ CollectorAsProgramSays'
  BY <1>4, <1>5, <1>8, NotRunning DEF SectionsAreInnermost, CollectorAsProgramSays
<1>10. SuspendedCollect'
  BY <1>4, <1>7, <1>8 DEF SuspendedCollect, Enter
<1>11. QED
  BY <1>9, <1>10 DEF CInv

(* A call ends with no section open, and the host runs again.              *)
LEMMA LeaveCInv ==
  ASSUME NInv, CInv, NInv', calls # <<>>, Innermost.kind # "host", calls' \in Seq(Call),
         Len(calls') = Len(calls) - 1,
         \A i \in 1 .. Len(calls) - 1 : Like(calls[i], calls'[i]),
         gcEnabled' = gcEnabled,
         \A v \in VMs : section'[v] => section[v] /\ (v = vm => Nested(vm)),
         Nested(vm) => ~section[vm] /\ ~In({"eval"}, "compiling")
  PROVE  CInv'
<1>1. HostRuns' /\ \A v : Nested(v)' => Nested(v)
  BY Popped
<1>2. ~ProgramRuns'
  BY <1>1 DEF HostRuns, ProgramRuns, In
<1>3. \A v \in VMs : ~section'[v]
  BY DEF CInv, SectionsAreInnermost
<1>4. \A v \in VMs : Nested(v)' => gcEnabled'[v]
  BY <1>1 DEF CInv, SuspendedCollect
<1>5. QED
  BY <1>2, <1>3, <1>4 DEF CInv, SectionsAreInnermost, SuspendedCollect, CollectorAsProgramSays

LEMMA OuterLike ==
  ASSUME NInv, calls # <<>>, calls' = Outer
  PROVE  /\ calls' \in Seq(Call) /\ Len(calls') = Len(calls) - 1
         /\ \A i \in 1 .. Len(calls) - 1 : Like(calls[i], calls'[i])
  BY OuterElements DEF NInv, TypeOK, Like

LEMMA LeaveEntryCInv ==
  ASSUME NInv, CInv, NInv', LeaveString \/ LeaveGetGlobal \/ LeaveSetGlobal
  PROVE  CInv'
<1>1. /\ calls # <<>> /\ Innermost.kind \in {"string", "get_global", "set_global"}
      /\ calls' = Outer /\ UNCHANGED gcVars
  BY DEF LeaveString, LeaveGetGlobal, LeaveSetGlobal, In, Leave
<1>2. ~ProgramRuns /\ ~In({"eval"}, "compiling") /\ vm \in VMs
  BY <1>1, InnermostFacts DEF ProgramRuns, In
<1>3. QED
  BY <1>1, <1>2, NotRunning, OuterLike, LeaveCInv DEF gcVars

LEMMA LeaveProgramCInv ==
  ASSUME NInv, CInv, NInv', {"gc_sections", "nested_error"} \cap Behaviours = {},
         Finish \/ LookupFails \/ CompileFails
  PROVE  CInv'
<1>1. /\ calls # <<>> /\ Innermost.kind # "host" /\ calls' = Outer /\ gcEnabled' = gcEnabled
      /\ section' = [section EXCEPT ![vm] = @ /\ Nested(vm)]
  BY DEF Finish, LookupFails, CompileFails, LeaveProgram, Leave, ProgramRuns, In
<1>2. vm \in VMs /\ \A v \in VMs : section'[v] => section[v] /\ (v = vm => Nested(vm))
  BY <1>1, InnermostFacts DEF NInv, TypeOK
<1>3. Nested(vm) => ~section[vm] /\ ~In({"eval"}, "compiling")
  <2>1. CASE Finish
    BY <2>1 DEF Finish, SectionsClosed, ProgramRuns, In
  <2>2. CASE LookupFails
    BY <1>2, <2>2, NotRunning DEF LookupFails, ProgramRuns, In
  <2>3. CASE CompileFails
    BY <2>3 DEF CompileFails, MayFail
  <2>4. QED
    BY <2>1, <2>2, <2>3
<1>4. QED
  BY <1>1, <1>2, <1>3, OuterLike, LeaveCInv

LEMMA RuntimeErrorCInv ==
  ASSUME NInv, CInv, NInv', {"gc_sections", "nested_error"} \cap Behaviours = {}, RuntimeError
  PROVE  CInv'
<1>1. /\ calls # <<>> /\ Innermost.kind # "host" /\ gcEnabled' = gcEnabled
      /\ section' = [section EXCEPT ![vm] = @ /\ Nested(vm)]
  BY DEF RuntimeError, ProgramRuns, In
<1>2. \A v \in VMs : section'[v] => section[v] /\ (v = vm => Nested(vm))
  BY <1>1, InnermostFacts DEF NInv, TypeOK
<1>3. Nested(vm) => ~section[vm] /\ ~In({"eval"}, "compiling")
  BY DEF RuntimeError, SectionsClosed, ProgramRuns, In
<1>4. QED
  BY <1>1, <1>2, <1>3, RuntimeErrorCalls, LeaveCInv

LEMMA StartCInv ==
  ASSUME NInv, CInv, Start
  PROVE  CInv'
<1>1. calls # <<>> /\ ~ProgramRuns /\ vm \in VMs
  BY InnermostFacts DEF Start, ProgramRuns, In
<1>2. \A v : Nested(v)' <=> Nested(v)
  BY <1>1, StartCalls, InnermostFacts, Stayed DEF Innermost, Call
<1>3. \A v \in VMs : ~section'[v]
  BY <1>1, NotRunning DEF Start
<1>4. vm' = vm /\ gcEnabled'[vm] /\ \A v \in VMs \ {vm} : gcEnabled'[v] = gcEnabled[v]
  BY <1>1 DEF Start, NInv, TypeOK
<1>5. QED
  BY <1>1, <1>2, <1>3, <1>4
     DEF CInv, SectionsAreInnermost, SuspendedCollect, CollectorAsProgramSays, Start

LEMMA ComputeCInv ==
  ASSUME NInv, CInv, Compute
  PROVE  CInv'
<1>1. calls # <<>> /\ ProgramRuns /\ vm' = vm /\ UNCHANGED gcVars
  BY DEF Compute, ProgramRuns, In
<1>2. /\ Len(calls') = Len(calls) /\ calls' \in Seq(Call)
      /\ \A i \in DOMAIN calls : Like(calls'[i], calls[i])
  BY <1>1, ComputeCalls, InnermostFacts DEF Like, Innermost, Call
<1>3. \A v : Nested(v)' <=> Nested(v)
  BY <1>2, Stayed DEF Like
<1>4. ProgramRuns'
  BY <1>1, <1>2, InnermostFacts, Elements DEF ProgramRuns, In, Innermost, Like
<1>5. QED
  BY <1>1, <1>3, <1>4
     DEF CInv, SectionsAreInnermost, SuspendedCollect, CollectorAsProgramSays, gcVars, ProgramRuns, In

LEMMA SwitchCInv ==
  ASSUME NInv, CInv, GcDisable \/ GcEnable
  PROVE  CInv'
<1>1. calls # <<>> /\ ProgramRuns /\ vm' = vm /\ UNCHANGED calls
  BY DEF GcDisable, GcEnable, ProgramRuns, In
<1>2. vm \in VMs /\ \A v \in VMs \ {vm} : gcEnabled'[v] = gcEnabled[v] /\ section'[v] = section[v]
  BY <1>1, InnermostFacts DEF GcDisable, GcEnable, NInv, TypeOK
<1>3. gcEnabled'[vm] <=> ~section'[vm]
  BY <1>2 DEF GcDisable, GcEnable, NInv, TypeOK
<1>4. QED
  BY <1>1, <1>2, <1>3, SameNested
     DEF CInv, SectionsAreInnermost, SuspendedCollect, CollectorAsProgramSays

LEMMA CallHostCInv ==
  ASSUME NInv, CInv, NInv', {"gc_sections", "nested_error"} \cap Behaviours = {}, CallHost
  PROVE  CInv'
<1>1. calls # <<>> /\ ProgramRuns /\ ~section[vm] /\ gcEnabled[vm] /\ UNCHANGED <<vm, gcEnabled, section>>
  BY DEF CallHost, ProgramRuns, In, SectionsClosed, CInv, CollectorAsProgramSays, gcVars
<1> PICK args \in SUBSET Innermost.held :
         calls' = Append(calls, [kind |-> "host", phase |-> "running",
                                 target |-> vm, prev |-> vm, held |-> args])
  BY DEF CallHost
<1> DEFINE c == [kind |-> "host", phase |-> "running", target |-> vm, prev |-> vm, held |-> args]
<1>2. c \in Call /\ c.kind = "host" /\ calls' = Append(calls, c)
  BY <1>1, InnermostFacts DEF Call
<1> HIDE DEF c
<1>3. ~ProgramRuns' /\ \A u : Nested(u)' => Nested(u) \/ u = vm
  BY <1>2, Pushed DEF ProgramRuns, In
<1>4. \A v \in VMs : ~section[v]
  BY <1>1 DEF CInv, SectionsAreInnermost
<1>5. \A v \in VMs : Nested(v)' => gcEnabled[v]
  BY <1>1, <1>3 DEF CInv, SuspendedCollect
<1>6. QED
  BY <1>1, <1>3, <1>4, <1>5
     DEF CInv, SectionsAreInnermost, SuspendedCollect, CollectorAsProgramSays

LEMMA ReturnHostCInv ==
  ASSUME NInv, CInv, ReturnHost
  PROVE  CInv'
<1>1. calls # <<>> /\ Innermost.kind = "host" /\ UNCHANGED <<vm, gcEnabled, section>>
  BY DEF ReturnHost, gcVars
<1>2. /\ ProgramRuns' /\ Nested(vm) /\ vm \in VMs
      /\ \A v : Nested(v)' => Nested(v)
  BY <1>1, ReturnHostCalls, Popped, InnermostFacts
<1>3. ~ProgramRuns /\ ~In({"eval"}, "compiling")
  BY <1>1 DEF ProgramRuns, In
<1>4. QED
  BY <1>1, <1>2, <1>3, NotRunning
     DEF CInv, SectionsAreInnermost, SuspendedCollect, CollectorAsProgramSays

LEMMA OtherCInv ==
  ASSUME NInv, CInv, JitCompile \/ Collect \/ UNCHANGED vars
  PROVE  CInv'
<1>1. UNCHANGED <<calls, vm, gcEnabled, section>>
  BY DEF JitCompile, Collect, vars, gcVars
<1>2. QED
  BY <1>1, SameNested
     DEF CInv, SectionsAreInnermost, SuspendedCollect, CollectorAsProgramSays

LEMMA NewCInv ==
  ASSUME NInv, CInv, NEW v \in VMs, New(v)
  PROVE  CInv'
<1>1. UNCHANGED <<calls, vm, section>> /\ v \notin live
  BY DEF New
<1>2. \A u \in VMs \ {v} : gcEnabled'[u] = gcEnabled[u]
  BY DEF New, NInv, TypeOK
<1>3. ~Nested(v) /\ (ProgramRuns => vm # v)
  BY <1>1, NestedLive, InnermostFacts DEF ProgramRuns, In
<1>4. ProgramRuns => vm \in VMs
  BY InnermostFacts DEF ProgramRuns, In
<1>5. QED
  BY <1>1, <1>2, <1>3, <1>4, SameNested
     DEF CInv, SectionsAreInnermost, SuspendedCollect, CollectorAsProgramSays

LEMMA FreeCInv ==
  ASSUME NInv, CInv, NEW v \in VMs, Free(v)
  PROVE  CInv'
<1>1. UNCHANGED <<calls, gcEnabled, section>>
  BY DEF Free, gcVars
<1>2. calls # <<>> => vm' = vm
  BY InnermostFacts DEF Free, Busy, Innermost
<1>3. \A u : Nested(u) => calls # <<>>
  BY NestedMeans, Elements DEF NInv, TypeOK
<1>4. QED
  BY <1>1, <1>2, <1>3, SameNested
     DEF CInv, SectionsAreInnermost, SuspendedCollect, CollectorAsProgramSays, ProgramRuns, In

(* A program finds the collector as it left it, whatever the host          *)
(* functions it called evaluated meanwhile, on its VM or on others: unless *)
(* it called them, or was called by one and returned, with the collector   *)
(* off, or an evaluation nested in it failed.                              *)
THEOREM Collector ==
  ASSUME {"gc_sections", "nested_error"} \cap Behaviours = {}
  PROVE  Spec => []CollectorAsProgramSays
<1>1. Init => CInv
  BY DEF Init, CInv, SectionsAreInnermost, SuspendedCollect, CollectorAsProgramSays,
         ProgramRuns, In, Nested, Outer
<1>2. NInv /\ CInv /\ [Next]_vars => CInv'
  <2> SUFFICES ASSUME NInv, CInv, [Next]_vars PROVE CInv'
    OBVIOUS
  <2>1. NInv'
    BY NextNInv
  <2>2. ASSUME NEW v \in VMs,
               EnterEval(v) \/ EnterString(v) \/ EnterGetGlobal(v) \/ EnterWithValues(v)
        PROVE  CInv'
    BY <2>2, EnterCInv DEF EnterEval, EnterString, EnterGetGlobal, EnterWithValues, Usable, Of
  <2>3. QED
    BY <2>1, <2>2, NewCInv, FreeCInv, LeaveEntryCInv, LeaveProgramCInv, RuntimeErrorCInv,
       StartCInv, ComputeCInv, SwitchCInv, CallHostCInv, ReturnHostCInv, OtherCInv DEF Next
<1>3. CInv => CollectorAsProgramSays
  BY DEF CInv
<1>4. QED
  BY <1>1, <1>2, <1>3, NestingInvariant, PTL DEF Spec
----------------------------------------------------------------------------
(* What is marked.                                                         *)

LEMMA MarkedMeans ==
  ASSUME NEW v
  PROVE  \A h : h \in Marked(v) <=>
            \/ h \in apiRoots[v] \/ h \in globals[v]
            \/ \E i \in DOMAIN calls :
                  calls[i].target = v /\ calls[i].phase = "running" /\ h \in calls[i].held
  BY DEF Marked

LEMMA MarkedThen ==
  ASSUME NEW v
  PROVE  \A h : h \in Marked(v)' <=>
            \/ h \in apiRoots'[v] \/ h \in globals'[v]
            \/ \E i \in DOMAIN calls' :
                  calls'[i].target = v /\ calls'[i].phase = "running" /\ h \in calls'[i].held
  BY DEF Marked

(* Values on the stack of a running call are marked.                       *)
LEMMA RunningIsMarked ==
  ASSUME \A i \in DOMAIN calls' : /\ calls'[i].phase = "running"
                                  /\ \A h \in calls'[i].held : owner'[h] = calls'[i].target
  PROVE  HeldHandles'
  BY MarkedThen DEF HeldHandles

LEMMA HostNeedsNothing ==
  ASSUME HostRuns'
  PROVE  EntryHandles'
  BY DEF HostRuns, EntryHandles

(* The calls below the innermost are running, and keep their owners.       *)
LEMMA LeaveHeld ==
  ASSUME NInv, HInv, calls # <<>>, Innermost.kind # "host", calls' = Outer,
         \A h \in Handles : owner[h] \in VMs => owner'[h] = owner[h]
  PROVE  HeldHandles' /\ EntryHandles'
<1>1. /\ calls' \in Seq(Call) /\ Len(calls') = Len(calls) - 1
      /\ \A i \in 1 .. Len(calls) - 1 : calls'[i] = calls[i] /\ Like(calls[i], calls'[i])
  BY OuterElements DEF NInv, TypeOK, Like
<1>2. EntryHandles'
  BY <1>1, Popped, HostNeedsNothing
<1>3. Len(calls) \in Nat /\ DOMAIN calls = 1 .. Len(calls) /\ DOMAIN calls' = 1 .. Len(calls) - 1
  BY <1>1, Elements DEF NInv, TypeOK
<1>4. \A i \in DOMAIN calls' : calls'[i].phase = "running"
  BY <1>1, <1>3 DEF NInv, CallsNest
<1>5. ASSUME NEW i \in DOMAIN calls', NEW h \in calls'[i].held PROVE owner'[h] = calls'[i].target
  <2>1. i \in DOMAIN calls /\ calls'[i] = calls[i] /\ calls[i] \in Call
    BY <1>1, <1>3, Elements DEF NInv, TypeOK
  <2>2. owner[h] = calls[i].target /\ calls[i].target \in VMs /\ h \in Handles
    BY <2>1, Fields DEF HInv, HeldHandles
  <2>3. QED
    BY <2>1, <2>2
<1>6. QED
  BY <1>2, <1>4, <1>5, RunningIsMarked

(* Steps: handles.                                                         *)

LEMMA SameHInv ==
  ASSUME HInv, UNCHANGED <<calls, vm>>, UNCHANGED handleVars
  PROVE  HInv'
<1>1. \A v : Marked(v)' = Marked(v) /\ Of(v)' = Of(v)
  BY DEF Marked, Of, handleVars
<1>2. HostHandles' /\ HeldHandles'
  BY <1>1 DEF HInv, HostHandles, HeldHandles, handleVars
<1>3. EntryHandles'
  BY <1>1 DEF HInv, EntryHandles, Innermost, handleVars
<1>4. QED
  BY <1>2, <1>3 DEF HInv

LEMMA FreeHInv ==
  ASSUME NInv, HInv, NEW v \in VMs, Free(v)
  PROVE  HInv'
<1>1. /\ \A u \in VMs \ {v} : apiRoots'[u] = apiRoots[u] /\ globals'[u] = globals[u]
      /\ globals'[v] = {}
      /\ \A h \in Handles : owner'[h] = IF owner[h] = v THEN NULL ELSE owner[h]
  BY DEF Free, NInv, TypeOK
<1>2. \A u \in VMs \ {v} : Of(u)' = Of(u)
  BY <1>1, EmbeddingApiAssumption DEF Of
<1>3. HostHandles'
  <2>1. made' = made \ Of(v) /\ borrowed' = borrowed \ Of(v) /\ made \cup borrowed \subseteq Handles
    BY DEF Free, NInv, TypeOK
  <2>2. \A h \in made' \cup borrowed' : owner[h] # v /\ owner'[h] = owner[h]
    BY <1>1, <2>1 DEF Of
  <2>3. QED
    BY <1>1, <1>2, <2>1, <2>2 DEF HInv, HostHandles
<1>4. calls' = calls /\ \A i \in DOMAIN calls : calls[i].target \in VMs \ {v}
  BY Elements, Fields DEF Free, Busy, NInv, TypeOK
<1>5. HeldHandles'
  <2>1. \A i \in DOMAIN calls : calls[i].held \subseteq Handles
    BY Elements, Fields DEF NInv, TypeOK
  <2>2. \A u \in VMs \ {v} : Marked(u)' = Marked(u)
    BY <1>1, <1>4 DEF Marked
  <2>3. QED
    BY <1>1, <1>4, <2>1, <2>2 DEF HInv, HeldHandles
<1>6. EntryHandles'
  <2>1. calls # <<>> => vm' = vm /\ vm \in VMs \ {v}
    BY <1>4, InnermostFacts DEF Free, Innermost
  <2>2. borrowed' \subseteq borrowed
    BY DEF Free
  <2>3. QED
    BY <1>1, <1>2, <1>4, <2>1, <2>2 DEF HInv, EntryHandles, Innermost
<1>7. QED
  BY <1>3, <1>5, <1>6 DEF HInv

LEMMA UsableIsMarked ==
  ASSUME NInv, HInv, NEW v \in VMs, NEW h \in Usable(v)
  PROVE  h \in Handles /\ owner[h] = v /\ h \in Marked(v)
<1>1. h \in Handles /\ owner[h] = v
  BY DEF Usable, Of
<1>2. CASE h \in made \cup borrowed
  BY <1>1, <1>2, MarkedMeans DEF HInv, HostHandles
<1>3. CASE h \notin made \cup borrowed
  <2>1. calls # <<>> /\ h \in Innermost.held
    BY <1>3 DEF Usable
  <2>2. QED
    BY <1>1, <2>1, Elements DEF HInv, HeldHandles, Innermost, NInv, TypeOK
<1>4. QED
  BY <1>1, <1>2, <1>3

LEMMA EnterHInv ==
  ASSUME NInv, HInv, NEW v \in VMs, NEW args \in SUBSET Usable(v),
         NEW kind \in {"string", "get_global", "set_global", "call", "eval"},
         Enter(v, kind, args), kind = "string" => Cardinality(apiRoots[v]) < ApiRootsMax
  PROVE  HInv'
<1> DEFINE c == [kind |-> kind, phase |-> IF kind = "eval" THEN "compiling" ELSE "entered",
                 target |-> v, prev |-> vm, held |-> args]
           n == Len(calls)
<1>1. /\ UNCHANGED <<apiRoots, globals, owner, made>> /\ vm' = v
      /\ borrowed' = IF kind \in {"call", "eval"} THEN borrowed \ Of(v) ELSE borrowed
  BY DEF Enter
<1>2. c \in Call /\ calls' = Append(calls, c)
  BY DEF NInv, TypeOK, Call, Enter, Usable, Of
<1>3. c.kind = kind /\ c.target = v /\ c.held = args
  OBVIOUS
<1> HIDE DEF c
<1>4. /\ n \in Nat /\ DOMAIN calls = 1 .. n /\ DOMAIN calls' = 1 .. n + 1
      /\ calls'[n + 1] = c /\ \A i \in 1 .. n : calls'[i] = calls[i]
      /\ Len(calls') = n + 1
  BY <1>2, Elements, AppendProperties DEF NInv, TypeOK
<1>5. HostHandles'
  BY <1>1 DEF HInv, HostHandles, Of
<1>6. \A u, h : h \in Marked(u) => h \in Marked(u)'
  BY <1>1, <1>4, MarkedMeans, MarkedThen
<1>7. HeldHandles'
  BY <1>1, <1>3, <1>4, <1>6, UsableIsMarked DEF HInv, HeldHandles
<1>8. EntryHandles'
  BY <1>1, <1>3, <1>4 DEF EntryHandles, Innermost, Of
<1>9. QED
  BY <1>5, <1>7, <1>8 DEF HInv

LEMMA LeaveStringHInv ==
  ASSUME NInv, HInv, LeaveString
  PROVE  HInv'
<1>1. calls # <<>> /\ Innermost.kind = "string" /\ calls' = Outer /\ vm \in VMs
  BY InnermostFacts DEF LeaveString, Leave, In
<1>2. PICK h \in Unused : /\ owner' = [owner EXCEPT ![h] = vm]
                          /\ made' = made \cup {h}
                          /\ apiRoots' = [apiRoots EXCEPT ![vm] = ApiRoot(@, h)]
  BY DEF LeaveString
<1>3. h \in Handles /\ owner[h] = NULL
  BY DEF Unused
<1>4. \A g \in Handles : owner[g] \in VMs => owner'[g] = owner[g]
  BY <1>2, <1>3, EmbeddingApiAssumption DEF NInv, TypeOK
<1>5. /\ h \in apiRoots'[vm] /\ owner'[h] = vm
      /\ \A u \in VMs : apiRoots[u] \subseteq apiRoots'[u]
  BY <1>1, <1>2, <1>3 DEF HInv, EntryHandles, ApiRoot, NInv, TypeOK
<1>6. globals' = globals /\ borrowed' \subseteq borrowed /\ made \cup borrowed \subseteq Handles
  BY DEF LeaveString, NInv, TypeOK
<1>7. HostHandles'
  <2>1. \A u \in VMs : globals'[u] \subseteq Of(u)'
    BY <1>4, <1>6 DEF HInv, HostHandles, Of
  <2>2. QED
    BY <1>1, <1>2, <1>4, <1>5, <1>6, <2>1 DEF HInv, HostHandles
<1>8. QED
  BY <1>1, <1>4, <1>7, LeaveHeld DEF HInv

LEMMA LeaveGlobalHInv ==
  ASSUME NInv, HInv, LeaveGetGlobal \/ LeaveSetGlobal
  PROVE  HInv'
<1>1. /\ calls # <<>> /\ Innermost.kind # "host" /\ calls' = Outer /\ vm \in VMs
      /\ UNCHANGED <<owner, made, apiRoots>> /\ globals \in [VMs -> SUBSET Handles]
      /\ borrowed \subseteq Handles
  BY InnermostFacts DEF LeaveGetGlobal, LeaveSetGlobal, Leave, In, NInv, TypeOK
<1>2. \A v : Of(v)' = Of(v)
  BY <1>1 DEF Of
<1>3. Innermost.held \subseteq Of(vm)
  <2>1. \A h \in Innermost.held : owner[h] = vm
    BY <1>1, InnermostFacts DEF HInv, HeldHandles, Innermost
  <2>2. QED
    BY <1>1, <2>1, InnermostFacts, Fields DEF Of
<1>4. CASE LeaveGetGlobal
  BY <1>1, <1>2, <1>4, LeaveHeld DEF LeaveGetGlobal, HInv, HostHandles, Of
<1>5. CASE LeaveSetGlobal
  <2>1. /\ \A u \in VMs \ {vm} : globals'[u] = globals[u]
        /\ globals'[vm] \subseteq globals[vm] \cup Innermost.held
        /\ borrowed' = borrowed \ Of(vm)
    BY <1>1, <1>5 DEF LeaveSetGlobal
  <2>2. \A h \in borrowed' : h \in borrowed /\ owner[h] # vm
    BY <1>1, <2>1 DEF Of
  <2>3. HostHandles'
    BY <1>1, <1>2, <1>3, <2>1, <2>2 DEF HInv, HostHandles
  <2>4. QED
    BY <1>1, <2>3, LeaveHeld DEF HInv
<1>6. QED
  BY <1>4, <1>5

(* A program that ends leaves nothing but its result for the host.         *)
LEMMA ResultIsRooted ==
  ASSUME NInv, HInv, vm \in VMs, NEW result, result \subseteq Of(vm),
         made' = (made \ Of(vm)) \cup result,
         apiRoots' \in [VMs -> SUBSET Handles],
         \A v \in VMs \ {vm} : apiRoots'[v] = apiRoots[v],
         result \subseteq apiRoots'[vm],
         UNCHANGED <<owner, globals, borrowed>>
  PROVE  HostHandles'
<1>1. \A h \in made' : h \in result \/ (h \in made /\ owner[h] # vm)
  BY DEF NInv, TypeOK, Of
<1>2. \A v : Of(v)' = Of(v)
  BY DEF Of
<1>3. QED
  BY <1>1, <1>2 DEF HInv, HostHandles, Of

LEMMA LeaveProgramHInv ==
  ASSUME NInv, NInv', HInv, Finish \/ LookupFails \/ CompileFails
  PROVE  HInv'
<1>1. /\ calls # <<>> /\ Innermost.kind # "host" /\ calls' = Outer /\ vm \in VMs
      /\ UNCHANGED <<owner, globals, borrowed>>
  BY InnermostFacts DEF Finish, LookupFails, CompileFails, LeaveProgram, Leave, ProgramRuns, In
<1>2. PICK result \in {{}} \cup {{h} : h \in Innermost.held} : LeaveProgram(result)
  BY DEF Finish, LookupFails, CompileFails
<1>3. Innermost.held \subseteq Of(vm)
  <2>1. \A h \in Innermost.held : owner[h] = vm
    BY <1>1, InnermostFacts DEF HInv, HeldHandles, Innermost
  <2>2. QED
    BY <1>1, <2>1, InnermostFacts, Fields DEF Of
<1>4. \A h : ApiRoot({}, h) = {h}
  BY FS_EmptySet, EmbeddingApiAssumption DEF ApiRoot
<1>5. /\ apiRoots'[vm] = result /\ \A v \in VMs \ {vm} : apiRoots'[v] = apiRoots[v]
      /\ made' = (made \ Of(vm)) \cup result
  <2>1. result # {} => result = {CHOOSE h \in result : TRUE}
    BY <1>2
  <2>2. apiRoots \in [VMs -> SUBSET Handles]
        /\ apiRoots' = [apiRoots EXCEPT ![vm] =
                           IF result = {} THEN {} ELSE ApiRoot({}, CHOOSE h \in result : TRUE)]
    BY <1>2 DEF LeaveProgram, NInv, TypeOK
  <2>3. apiRoots' = [apiRoots EXCEPT ![vm] = result]
    BY <1>4, <2>1, <2>2
  <2>4. QED
    BY <1>1, <1>2, <2>2, <2>3 DEF LeaveProgram
<1>6. HostHandles'
  <2>1. result \subseteq Of(vm) /\ apiRoots' \in [VMs -> SUBSET Handles]
    BY <1>2, <1>3 DEF NInv, TypeOK
  <2>2. QED
    BY <1>1, <1>5, <2>1, ResultIsRooted
<1>7. QED
  BY <1>1, <1>6, LeaveHeld DEF HInv

LEMMA RuntimeErrorHInv ==
  ASSUME NInv, NInv', HInv, RuntimeError
  PROVE  HInv'
<1>1. /\ calls # <<>> /\ Innermost.kind # "host" /\ vm \in VMs
      /\ UNCHANGED <<owner, globals, borrowed>>
      /\ made' = made \ Of(vm) /\ apiRoots' = [apiRoots EXCEPT ![vm] = {}]
  BY InnermostFacts DEF RuntimeError, ProgramRuns, In
<1>2. HostHandles'
  <2>1. \A v \in VMs \ {vm} : apiRoots'[v] = apiRoots[v]
    BY <1>1 DEF NInv, TypeOK
  <2>2. made' = (made \ Of(vm)) \cup {} /\ {} \subseteq Of(vm) /\ {} \subseteq apiRoots'[vm]
    BY <1>1
  <2>3. QED
    BY <1>1, <2>1, <2>2, ResultIsRooted DEF NInv, TypeOK
<1>3. HostRuns'
  BY <1>1, RuntimeErrorCalls, Popped
<1>4. \A i \in DOMAIN calls' : /\ calls'[i].phase = "running"
                               /\ \A h \in calls'[i].held : owner'[h] = calls'[i].target
  <2> SUFFICES ASSUME NEW i \in 1 .. Len(calls) - 1
               PROVE  /\ calls'[i].phase = "running"
                      /\ \A h \in calls'[i].held : owner'[h] = calls'[i].target
    BY RuntimeErrorCalls
  <2>1. i \in DOMAIN calls /\ i < Len(calls)
    BY <1>1, InnermostFacts
  <2>2. /\ Like(calls[i], calls'[i]) /\ calls[i].phase = "running"
        /\ calls'[i].held \subseteq calls[i].held
    BY <2>1, RuntimeErrorCalls DEF NInv, CallsNest
  <2>3. QED
    BY <1>1, <2>1, <2>2 DEF Like, HInv, HeldHandles
<1>5. QED
  BY <1>2, <1>3, <1>4, RunningIsMarked, HostNeedsNothing DEF HInv
----------------------------------------------------------------------------
LEMMA StartHInv ==
  ASSUME NInv, HInv, Start
  PROVE  HInv'
<1>1. /\ calls # <<>> /\ Innermost.kind \in {"call", "eval"} /\ vm' = vm
      /\ UNCHANGED <<apiRoots, globals, owner, made, borrowed>>
  BY DEF Start, In, handleVars
<1>2. /\ DOMAIN calls' = DOMAIN calls /\ Len(calls') = Len(calls) /\ Len(calls) \in DOMAIN calls
      /\ \A i \in DOMAIN calls : calls'[i].target = calls[i].target /\ calls'[i].held = calls[i].held
                                 /\ calls'[i].kind = calls[i].kind
                                 /\ (calls[i].phase = "running" => calls'[i].phase = "running")
  <2>1. Len(calls) \in DOMAIN calls /\ Innermost \in Call /\ DOMAIN calls = 1 .. Len(calls)
    BY <1>1, InnermostFacts
  <2>2. Len(calls') = Len(calls) /\ DOMAIN calls' = DOMAIN calls
    BY <2>1, StartCalls, Elements
  <2>3. QED
    BY <2>1, <2>2, StartCalls DEF Innermost, Call
<1>3. \A u, h : h \in Marked(u) => h \in Marked(u)'
  BY <1>1, <1>2, MarkedMeans, MarkedThen
<1>4. HostHandles' /\ HeldHandles'
  BY <1>1, <1>2, <1>3 DEF HInv, HostHandles, HeldHandles, Of
<1>5. EntryHandles'
  BY <1>1, <1>2 DEF HInv, EntryHandles, Innermost, Of
<1>6. QED
  BY <1>4, <1>5 DEF HInv

(* The calls below a running one are running as well.                      *)
LEMMA AllRun ==
  ASSUME NInv, calls # <<>>, Innermost.phase = "running"
  PROVE  \A i \in DOMAIN calls : calls[i].phase = "running"
  BY InnermostFacts DEF NInv, CallsNest, Innermost

LEMMA ComputeHInv ==
  ASSUME NInv, NInv', HInv, Compute
  PROVE  HInv'
<1>1. /\ calls # <<>> /\ Innermost.kind \in {"call", "eval"} /\ Innermost.phase = "running"
      /\ vm' = vm /\ vm \in VMs /\ UNCHANGED <<apiRoots, owner, made, borrowed>>
  BY InnermostFacts DEF Compute, ProgramRuns, In
<1> DEFINE atHand == Innermost.held \cup globals[vm]
<1>2. atHand \subseteq Of(vm)
  <2>1. \A h \in Innermost.held : owner[h] = vm
    BY <1>1, InnermostFacts DEF HInv, HeldHandles, Innermost
  <2>2. QED
    BY <1>1, <2>1, InnermostFacts, Fields DEF Of, HInv, HostHandles
<1>3. PICK stack \in SUBSET atHand :
         /\ calls' \in Seq(Call) /\ Len(calls') = Len(calls)
         /\ \A i \in DOMAIN calls :
               calls'[i] = IF i = Len(calls) THEN [Innermost EXCEPT !.held = stack] ELSE calls[i]
  BY ComputeCalls
<1>4. /\ DOMAIN calls' = DOMAIN calls
      /\ \A i \in DOMAIN calls : /\ calls'[i].target = calls[i].target
                                 /\ calls'[i].phase = calls[i].phase
                                 /\ calls'[i].kind = calls[i].kind
                                 /\ calls'[i].held = IF i = Len(calls) THEN stack ELSE calls[i].held
  <2> DEFINE c == [Innermost EXCEPT !.held = stack]
  <2>1. /\ c.target = Innermost.target /\ c.phase = Innermost.phase
        /\ c.kind = Innermost.kind /\ c.held = stack
    BY <1>1, InnermostFacts DEF Call
  <2>2. Innermost = calls[Len(calls)] /\ DOMAIN calls' = DOMAIN calls
    BY <1>3, Elements DEF Innermost, NInv, TypeOK
  <2>3. \A i \in DOMAIN calls : calls'[i] = IF i = Len(calls) THEN c ELSE calls[i]
    BY <1>3
  <2> HIDE DEF c
  <2>4. QED
    BY <2>1, <2>2, <2>3
<1>5. \A v : Of(v)' = Of(v)
  BY <1>1 DEF Of
<1>6. borrowed \cap Of(vm) = {}
  BY <1>1 DEF HInv, EntryHandles
<1>7. HostHandles'
  <2>1. globals'[vm] \subseteq atHand /\ \A v \in VMs \ {vm} : globals'[v] = globals[v]
    BY <1>1 DEF Compute, NInv, TypeOK
  <2>2. \A h \in borrowed : owner[h] # vm
    BY <1>6 DEF Of, NInv, TypeOK
  <2>3. QED
    BY <1>1, <1>2, <1>5, <2>1, <2>2 DEF HInv, HostHandles
<1>8. HeldHandles'
  <2>1. \A i \in DOMAIN calls : calls[i].phase = "running"
    BY <1>1, AllRun
  <2>2. \A h \in stack : owner[h] = vm
    BY <1>2 DEF Of
  <2>3. Len(calls) \in DOMAIN calls /\ calls[Len(calls)].target = vm
    BY <1>1, InnermostFacts DEF Innermost
  <2>4. QED
    BY <1>1, <1>4, <2>1, <2>2, <2>3, RunningIsMarked DEF HInv, HeldHandles
<1>9. EntryHandles'
  BY <1>1, <1>3, <1>4, <1>5, <1>6, InnermostFacts DEF EntryHandles, Innermost
<1>10. QED
  BY <1>7, <1>8, <1>9 DEF HInv

LEMMA CallHostHInv ==
  ASSUME NInv, HInv, CallHost
  PROVE  HInv'
<1>1. /\ calls # <<>> /\ Innermost.phase = "running" /\ vm \in VMs
      /\ vm = Innermost.target /\ UNCHANGED <<apiRoots, globals, owner, made, borrowed>>
  BY InnermostFacts DEF CallHost, ProgramRuns, In, handleVars
<1> PICK args \in SUBSET Innermost.held :
         calls' = Append(calls, [kind |-> "host", phase |-> "running",
                                 target |-> vm, prev |-> vm, held |-> args])
  BY DEF CallHost
<1> DEFINE c == [kind |-> "host", phase |-> "running", target |-> vm, prev |-> vm, held |-> args]
           n == Len(calls)
<1>2. c \in Call /\ calls' = Append(calls, c)
  BY <1>1, InnermostFacts DEF Call
<1>3. c.kind = "host" /\ c.phase = "running" /\ c.target = vm /\ c.held = args
  OBVIOUS
<1> HIDE DEF c
<1>4. /\ n \in Nat /\ DOMAIN calls = 1 .. n /\ DOMAIN calls' = 1 .. n + 1
      /\ calls'[n + 1] = c /\ \A i \in 1 .. n : calls'[i] = calls[i]
  BY <1>2, Elements, AppendProperties DEF NInv, TypeOK
<1>5. HostHandles'
  BY <1>1 DEF HInv, HostHandles, Of
<1>6. EntryHandles'
  BY <1>2, <1>3, Pushed, HostNeedsNothing DEF HostRuns
<1>7. \A h \in args : owner[h] = vm
  BY <1>1, InnermostFacts DEF HInv, HeldHandles, Innermost
<1>8. HeldHandles'
  BY <1>1, <1>3, <1>4, <1>7, AllRun, RunningIsMarked DEF HInv, HeldHandles
<1>9. QED
  BY <1>5, <1>6, <1>8 DEF HInv

LEMMA ReturnHostHInv ==
  ASSUME NInv, HInv, ReturnHost
  PROVE  HInv'
<1>1. /\ calls # <<>> /\ Innermost.kind = "host" /\ Len(calls) > 1 /\ vm \in VMs /\ vm' = vm
      /\ UNCHANGED <<apiRoots, globals, owner, made>> /\ borrowed' = borrowed \ Of(vm)
  BY ReturnHostCalls, InnermostFacts DEF ReturnHost
<1> DEFINE n == Len(calls) - 1
<1>2. PICK result \in {{}} \cup {{h} : h \in Usable(vm)} : \A i \in 1 .. n :
               /\ Like(calls[i], calls'[i])
               /\ calls'[i].held = IF i = n THEN calls[i].held \cup result ELSE calls[i].held
  BY ReturnHostCalls
<1>3. \A h \in result : owner[h] = vm
  BY DEF Usable, Of
<1>4. n \in 1 .. n /\ DOMAIN calls = 1 .. n + 1 /\ DOMAIN calls' = 1 .. n /\ calls[n].target = vm
  BY <1>1, ReturnHostCalls, InnermostFacts DEF NInv, CallsNest, Innermost
<1>5. HostHandles'
  BY <1>1 DEF HInv, HostHandles, Of
<1>6. HeldHandles'
  <2>1. \A i \in 1 .. n : calls'[i].phase = "running"
    <3>1. \A i \in 1 .. n : i \in DOMAIN calls /\ i < Len(calls)
      BY <1>4
    <3>2. QED
      BY <1>2, <3>1 DEF NInv, CallsNest, Like
  <2>2. \A i \in 1 .. n : \A h \in calls'[i].held : owner'[h] = calls'[i].target
    <3>1. \A i \in 1 .. n : \A h \in calls[i].held : owner[h] = calls[i].target
      BY <1>4 DEF HInv, HeldHandles
    <3>2. QED
      BY <1>1, <1>2, <1>3, <1>4, <3>1 DEF Like
  <2>3. QED
    BY <1>4, <2>1, <2>2, RunningIsMarked
<1>7. EntryHandles'
  <2>1. Innermost'.kind \in {"call", "eval"}
    BY <1>1, ReturnHostCalls, Popped DEF ProgramRuns, In
  <2>2. QED
    BY <1>1, <2>1 DEF EntryHandles, Of
<1>8. QED
  BY <1>5, <1>6, <1>7 DEF HInv

LEMMA CollectHInv ==
  ASSUME NInv, HInv, Collect
  PROVE  HInv'
<1>1. /\ calls # <<>> /\ vm \in VMs /\ UNCHANGED <<vm, calls, apiRoots, globals, made, borrowed>>
  BY InnermostFacts DEF Collect, HostRuns
<1>2. PICK freed \in SUBSET (Of(vm) \ Marked(vm)) :
         owner' = [h \in Handles |-> IF h \in freed THEN NULL ELSE owner[h]]
  BY DEF Collect
<1>3. \A v \in VMs : \A h \in Handles : owner[h] = v /\ h \in Marked(v) => owner'[h] = v
  BY <1>2 DEF Of
<1>4. \A v \in VMs : Of(v)' \subseteq Of(v)
  BY <1>2, EmbeddingApiAssumption DEF Of
<1>5. \A v : Marked(v)' = Marked(v)
  BY <1>1 DEF Marked
<1>6. HostHandles'
  <2>1. \A v \in VMs : apiRoots[v] \cup globals[v] \subseteq Marked(v)
    BY MarkedMeans
  <2>2. \A h \in made \cup borrowed : h \in Handles /\ owner[h] \in VMs /\ h \in Marked(owner[h])
    BY <2>1 DEF HInv, HostHandles, NInv, TypeOK
  <2>3. \A v \in VMs : globals[v] \subseteq Of(v)'
    <3>1. \A v \in VMs : \A h \in globals[v] : h \in Handles /\ owner[h] = v /\ h \in Marked(v)
      BY <2>1 DEF HInv, HostHandles, Of
    <3>2. QED
      BY <1>3, <3>1 DEF Of
  <2>4. QED
    BY <1>1, <1>3, <2>2, <2>3 DEF HInv, HostHandles
<1>7. HeldHandles'
  <2>1. \A i \in DOMAIN calls : calls[i].target \in VMs /\ calls[i].held \subseteq Handles
    BY Elements, Fields DEF NInv, TypeOK
  <2>2. QED
    BY <1>1, <1>3, <1>5, <2>1 DEF HInv, HeldHandles
<1>8. EntryHandles'
  BY <1>1, <1>4 DEF HInv, EntryHandles, Innermost
<1>9. QED
  BY <1>6, <1>7, <1>8 DEF HInv

(* No string goes away while the host or a call may use its handle,        *)
(* through calls nested in any order on any VMs and collections at any     *)
(* point in them, as long as no handle is made when the roots are full.    *)
THEOREM ValidHandles ==
  ASSUME "full_roots" \notin Behaviours
  PROVE  Spec => []HandlesStayValid
<1>1. Init => HInv
  BY DEF Init, HInv, HostHandles, HeldHandles, EntryHandles, Of
<1>2. NInv /\ HInv /\ [Next]_vars => HInv'
  <2> SUFFICES ASSUME NInv, HInv, [Next]_vars PROVE HInv'
    OBVIOUS
  <2>1. NInv'
    BY NextNInv
  <2>2. ASSUME NEW v \in VMs,
               EnterEval(v) \/ EnterString(v) \/ EnterGetGlobal(v) \/ EnterWithValues(v)
        PROVE  HInv'
    BY <2>2, EnterHInv DEF EnterEval, EnterString, EnterGetGlobal, EnterWithValues
  <2>3. ASSUME (\E v \in VMs : New(v)) \/ GcDisable \/ GcEnable \/ JitCompile \/ UNCHANGED vars
        PROVE  HInv'
    BY <2>3, SameHInv DEF New, GcDisable, GcEnable, JitCompile, vars, handleVars
  <2>4. QED
    BY <2>1, <2>2, <2>3, FreeHInv, LeaveStringHInv, LeaveGlobalHInv, LeaveProgramHInv,
       RuntimeErrorHInv, StartHInv, ComputeHInv, CallHostHInv, ReturnHostHInv, CollectHInv DEF Next
<1>3. NInv /\ HInv => HandlesStayValid
  BY EmbeddingApiAssumption DEF HInv, HostHandles, HeldHandles, HandlesStayValid
<1>4. QED
  BY <1>1, <1>2, <1>3, NestingInvariant, PTL DEF Spec
=============================================================================
