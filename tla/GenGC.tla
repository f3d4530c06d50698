------------------------------- MODULE GenGC -------------------------------
(***************************************************************************)
(* The generational mark-sweep collector of src/src/gc.c, step by step,    *)
(* under a program that uses the heap through the primitives of GenHeap.   *)
(* The program is one thread and a collection stops it, so the steps of    *)
(* collect_garbage interleave with nothing; they are separate actions      *)
(* because each has its own condition for being correct.                   *)
(***************************************************************************)
CONSTANTS
    Obj,            \* object addresses the allocator hands out and reuses
    Str,            \* those that hold strings
    RefSets         \* bound: the sets of references an object may hold

ASSUME StrAssumption == Str \subseteq Obj

VARIABLES
    objects, old, refs, roots, strings, rememberedSet, gcEnabled, crashed,
                    \* the heap, as in GenHeap
    phase,          \* where collect_garbage is, or "mutator"
    gc_major,       \* mode of the collection in progress
    marked,         \* objects with mark = 1
    grayStack,      \* vm->grayStack (its order does not matter)
    unscanned       \* entries of rememberedSet mark_roots has yet to visit

Heap == INSTANCE GenHeap

heap      == <<objects, old, refs, strings>>
collector == <<phase, gc_major, marked, grayStack, unscanned>>
vars      == <<heap, roots, rememberedSet, gcEnabled, crashed, collector>>

Phases == {"mutator", "roots", "mark", "sweep", "finish"}

TypeOK ==
    /\ Heap!TypeOK
    /\ phase \in Phases
    /\ gc_major \in BOOLEAN
    /\ marked \subseteq Obj
    /\ grayStack \subseteq Obj
    /\ unscanned \subseteq Obj

Init ==
    /\ Heap!Init
    /\ phase = "mutator"
    /\ gc_major = FALSE
    /\ marked = {}
    /\ grayStack = {}
    /\ unscanned = {}

Young == objects \ old

----------------------------------------------------------------------------
(* The program runs.                                                       *)
Mutate ==
    /\ phase = "mutator"
    /\ Heap!Mutate
    /\ UNCHANGED collector

(* collect_garbage is entered, from an allocation that crossed a threshold *)
(* or from GcMinor or GcCollect; it returns at once when disabled.         *)
StartCollection(major) ==
    /\ phase = "mutator"
    /\ gcEnabled
    /\ ~crashed
    /\ phase' = "roots"
    /\ gc_major' = major
    /\ UNCHANGED <<heap, roots, rememberedSet, gcEnabled, crashed,
                   marked, grayStack, unscanned>>

(* mark_object on every element of S, the gray stack being otherwise kept: *)
(* old objects are opaque to a minor collection, marked ones are skipped.  *)
InScope(o) == gc_major \/ o \notin old

\* Mutant: the test of object->mark is dropped.
MarkAgain(S, kept) ==
    LET fresh == {o \in S : InScope(o)}
    IN  /\ marked' = marked \cup fresh
        /\ grayStack' = kept \cup fresh
\* Mutant: the new entries overwrite the ones on the gray stack.
MarkOverwriting(S, kept) ==
    LET fresh == {o \in S : InScope(o)} \ marked
    IN  /\ marked' = marked \cup fresh
        /\ grayStack' = IF fresh = {} THEN kept ELSE fresh
Mark(S, kept) ==
    LET fresh == {o \in S : InScope(o)} \ marked
    IN  /\ marked' = marked \cup fresh
        /\ grayStack' = kept \cup fresh

(* mark_roots, up to the remembered set.                                   *)
\* Mutant: the remembered set is scanned in a major collection too.
MarkRootsRememberedToo ==
    /\ phase = "roots"
    /\ phase' = "mark"
    /\ Mark(roots, grayStack)
    /\ unscanned' = rememberedSet
    /\ UNCHANGED <<heap, roots, rememberedSet, gcEnabled, crashed, gc_major>>
\* Mutant: the remembered set is never scanned.
MarkRootsOnly ==
    /\ phase = "roots"
    /\ phase' = "mark"
    /\ Mark(roots, grayStack)
    /\ unscanned' = {}
    /\ UNCHANGED <<heap, roots, rememberedSet, gcEnabled, crashed, gc_major>>
MarkRoots ==
    /\ phase = "roots"
    /\ phase' = "mark"
    /\ Mark(roots, grayStack)
    /\ unscanned' = IF gc_major THEN {} ELSE rememberedSet
    /\ UNCHANGED <<heap, roots, rememberedSet, gcEnabled, crashed, gc_major>>

(* mark_roots: a minor collection blackens each remembered owner.          *)
ScanRemembered(o) ==
    /\ phase = "mark"
    /\ o \in unscanned \cap objects
    /\ Mark(refs[o], grayStack)
    /\ unscanned' = unscanned \ {o}
    /\ UNCHANGED <<heap, roots, rememberedSet, gcEnabled, crashed, phase, gc_major>>

(* The same for an entry whose object was freed: reading it is undefined.  *)
(* Its stale contents mark any young objects they happen to name, or the   *)
(* access (or the mark it writes into memory that is no longer an object)  *)
(* takes the process down.                                                 *)
ScanFreed(o) ==
    /\ phase = "mark"
    /\ o \in unscanned \ objects
    /\ unscanned' = unscanned \ {o}
    /\ \/ /\ \E stale \in SUBSET objects : Mark(stale, grayStack)
          /\ UNCHANGED crashed
       \/ /\ crashed' = TRUE
          /\ UNCHANGED <<marked, grayStack>>
    /\ UNCHANGED <<heap, roots, rememberedSet, gcEnabled, phase, gc_major>>

(* trace_references: pop a gray object and blacken it.                     *)
TraceReferences(o) ==
    /\ phase = "mark"
    /\ unscanned = {}
    /\ o \in grayStack
    /\ Mark(refs[o], grayStack \ {o})
    /\ UNCHANGED <<heap, roots, rememberedSet, gcEnabled, crashed, phase,
                   gc_major, unscanned>>

(* table_remove_white: the intern table drops the strings about to go.     *)
\* Mutant: a minor collection drops old strings it did not mark.
RemoveUnmarkedStrings ==
    /\ phase = "mark"
    /\ unscanned = {}
    /\ grayStack = {}
    /\ phase' = "sweep"
    /\ strings' = strings \cap marked
    /\ UNCHANGED <<objects, old, refs, roots, rememberedSet, gcEnabled, crashed,
                   gc_major, marked, grayStack, unscanned>>
RemoveWhiteStrings ==
    /\ phase = "mark"
    /\ unscanned = {}
    /\ grayStack = {}
    /\ phase' = "sweep"
    /\ strings' = {s \in strings : s \in marked \/ ~InScope(s)}
    /\ UNCHANGED <<objects, old, refs, roots, rememberedSet, gcEnabled, crashed,
                   gc_major, marked, grayStack, unscanned>>

(* sweep: unmarked objects in scope are freed, a minor collection promotes *)
(* the young survivors, and no mark is left set.                           *)
\* Mutant: sweep does not look at the generation of an unmarked object.
WhiteAnyGeneration == {o \in objects : o \notin marked}
White     == {o \in objects : o \notin marked /\ InScope(o)}
Survivors == objects \ White
\* Mutant: a freed address keeps its generation.
GenerationKept == IF gc_major THEN old ELSE Survivors
Promoted  == IF gc_major THEN old \ White ELSE Survivors
Unlinked  == [o \in Obj |-> IF o \in White THEN {} ELSE refs[o]]

Sweep ==
    /\ phase = "sweep"
    /\ phase' = "finish"
    /\ objects' = Survivors
    /\ old' = Promoted
    /\ refs' = Unlinked
    /\ marked' = {}
    /\ UNCHANGED <<strings, roots, rememberedSet, gcEnabled, crashed, gc_major,
                   grayStack, unscanned>>

(* The end of collect_garbage: only a minor collection empties the         *)
(* remembered set.                                                         *)
\* Mutant: every collection empties the remembered set.
FinishForgetting ==
    /\ phase = "finish"
    /\ phase' = "mutator"
    /\ rememberedSet' = {}
    /\ UNCHANGED <<heap, roots, gcEnabled, crashed, gc_major, marked, grayStack,
                   unscanned>>
FinishCollection ==
    /\ phase = "finish"
    /\ phase' = "mutator"
    /\ rememberedSet' = IF gc_major THEN rememberedSet ELSE {}
    /\ UNCHANGED <<heap, roots, gcEnabled, crashed, gc_major, marked, grayStack,
                   unscanned>>

Collect ==
    /\ ~crashed
    /\ \/ MarkRoots
       \/ \E o \in Obj : ScanRemembered(o) \/ ScanFreed(o) \/ TraceReferences(o)
       \/ RemoveWhiteStrings
       \/ Sweep
       \/ FinishCollection

Next ==
    \/ Mutate
    \/ \E major \in BOOLEAN : StartCollection(major)
    \/ Collect

Spec == Init /\ [][Next]_vars

(* A collection, once entered, runs straight through: it is a function     *)
(* call of the only thread.                                                *)
FairSpec == Spec /\ WF_vars(Collect)

----------------------------------------------------------------------------
(* A pointer the program can follow never leads to freed memory: what is   *)
(* rooted, what a live object refers to and what the intern table lists    *)
(* are all allocated, at every step of a collection too.                   *)
NoDangling == Heap!NoDangling

(* The premise of a minor collection: every old object that refers to a    *)
(* young one is in the remembered set (gc.c:3-6).                          *)
OldToYoungRemembered == Heap!OldToYoungRemembered

(* Tri-colour invariant: what a black object refers to is not white; old   *)
(* objects count as reached in a minor collection.                         *)
BlackSeesNoWhite ==
    \A o \in marked \ grayStack : \A c \in refs[o] : InScope(c) => c \in marked

(* A major collection is exact: once sweep has run, the allocated objects  *)
(* are the reachable ones, so no garbage outlives it (gc.c:6-7).           *)
Abstract == INSTANCE ManagedHeap
Reachable == Abstract!Reachable

MajorKeepsExactlyReachable ==
    phase = "finish" /\ gc_major => objects = Reachable

(* A minor collection leaves no young object, so that emptying the         *)
(* remembered set forgets no edge.                                         *)
MinorLeavesNoYoung ==
    phase = "finish" /\ ~gc_major => Young = {}

(* No step of the collector takes away an object the program can reach.    *)
ImplementsManagedHeap == Abstract!Spec

(* collect_garbage is the one-step collection of GenHeap: the step happens *)
(* when marking is complete and the intern table is pruned.                *)
Atomic == INSTANCE GenHeap WITH
    objects       <- IF phase = "sweep" THEN Survivors ELSE objects,
    old           <- IF phase = "sweep" THEN Promoted ELSE old,
    refs          <- IF phase = "sweep" THEN Unlinked ELSE refs,
    rememberedSet <- IF phase \in {"sweep", "finish"} /\ ~gc_major
                     THEN {} ELSE rememberedSet

ImplementsGenHeap == Atomic!Spec

(* Every collection that was started ends, unless the process crashed.     *)
CollectionEnds == phase # "mutator" ~> phase = "mutator" \/ crashed

(* Every entry that a minor collection blackens is an allocated object:    *)
(* vm.h:37 describes the entries as old objects pointing into the young    *)
(* generation.                                                             *)
ScansOnlyObjects == unscanned \subseteq objects

----------------------------------------------------------------------------
(* The bookkeeping that carries the invariants above through a collection: *)
(* what is gray is marked; nothing out of scope is ever marked; the roots  *)
(* and the scanned remembered owners have no unmarked child in scope; and  *)
(* unless freed memory was scanned, all that is marked has to be.          *)
CollectorInv ==
    /\ grayStack \subseteq marked
    /\ marked \subseteq objects
    /\ \A o \in marked : InScope(o)
    /\ unscanned \subseteq rememberedSet
    /\ phase # "mutator" => gcEnabled
    /\ phase \in {"mutator", "roots", "finish"} =>
          marked = {} /\ grayStack = {} /\ unscanned = {}
    /\ phase \in {"mark", "sweep"} => \A r \in roots : InScope(r) => r \in marked
    /\ phase \in {"mark", "sweep"} /\ ~gc_major =>
          \A o \in (rememberedSet \ unscanned) \cap objects :
             \A c \in refs[o] : InScope(c) => c \in marked
    /\ phase \in {"mark", "sweep"} /\ gc_major =>
          unscanned = {} /\ marked \subseteq Reachable
    /\ phase \in {"mark", "sweep"} /\ ~Heap!MeetsFreed(gc_major) =>
          marked \subseteq Heap!Marked(gc_major, Heap!Seeds(gc_major))
    /\ phase = "sweep" =>
          /\ grayStack = {} /\ unscanned = {}
          /\ \A s \in strings : s \in marked \/ ~InScope(s)

IInv ==
    /\ TypeOK
    /\ NoDangling
    /\ OldToYoungRemembered
    /\ BlackSeesNoWhite
    /\ CollectorInv
    /\ MajorKeepsExactlyReachable
    /\ MinorLeavesNoYoung
============================================================================
