---------------------------- MODULE GenGCProofs ----------------------------
(***************************************************************************)
(* Proofs about the collector of module GenGC, for any number of objects.  *)
(* IInv is inductive; the safety invariants are conjuncts of it.           *)
(***************************************************************************)
EXTENDS GenGC, TLAPS

(* While the program runs, the collector's variables are at rest, so a     *)
(* mutator step leaves every conjunct about a collection true.             *)
LEMMA MutatorQuiet ==
  ASSUME IInv, phase = "mutator", UNCHANGED collector
  PROVE  BlackSeesNoWhite' /\ MajorKeepsExactlyReachable' /\ MinorLeavesNoYoung'
         /\ (rememberedSet \subseteq rememberedSet' => CollectorInv')
  BY DEF IInv, TypeOK, collector, BlackSeesNoWhite, CollectorInv,
         MajorKeepsExactlyReachable, MinorLeavesNoYoung

LEMMA InitIInv == Init => IInv
  BY DEF Init, Heap!Init, IInv, TypeOK, Heap!TypeOK, Phases, NoDangling,
         Heap!NoDangling, OldToYoungRemembered, Heap!OldToYoungRemembered,
         Heap!Young, Young, BlackSeesNoWhite, CollectorInv,
         MajorKeepsExactlyReachable, MinorLeavesNoYoung

----------------------------------------------------------------------------
(* The mutator's actions.                                                  *)

(* What a mutator step has to show: the type, and the two invariants about *)
(* the heap.                                                               *)
LEMMA MutatorSuffices ==
  ASSUME IInv, phase = "mutator", UNCHANGED collector,
         Heap!TypeOK', NoDangling', OldToYoungRemembered',
         rememberedSet \subseteq rememberedSet'
  PROVE  IInv'
<1>1. TypeOK'
  BY DEF IInv, TypeOK, collector
<1>2. QED
  BY <1>1, MutatorQuiet DEF IInv

LEMMA AllocateIInv ==
  ASSUME IInv, phase = "mutator", UNCHANGED collector,
         NEW o \in Obj, NEW kids \in SUBSET roots, Heap!Allocate(o, kids)
  PROVE  IInv'
<1> USE DEF Heap!Allocate, Heap!New
<1>1. Heap!TypeOK'
  BY DEF IInv, TypeOK, Heap!TypeOK
<1>2. NoDangling'
  BY DEF IInv, TypeOK, Heap!TypeOK, NoDangling, Heap!NoDangling
<1>3. OldToYoungRemembered'
  BY DEF IInv, TypeOK, Heap!TypeOK, NoDangling, Heap!NoDangling,
         OldToYoungRemembered, Heap!OldToYoungRemembered, Heap!Young
<1>4. QED
  BY <1>1, <1>2, <1>3, MutatorSuffices

LEMMA StoreIInv ==
  ASSUME IInv, phase = "mutator", UNCHANGED collector,
         NEW owner \in roots, NEW value \in roots,
         NEW dropped \in SUBSET refs[owner], Heap!Store(owner, value, dropped)
  PROVE  IInv'
<1> USE DEF Heap!Store
<1>1. Heap!TypeOK' /\ rememberedSet \subseteq rememberedSet'
  BY DEF IInv, TypeOK, Heap!TypeOK, Heap!Barrier
<1>2. NoDangling'
  BY DEF IInv, TypeOK, Heap!TypeOK, NoDangling, Heap!NoDangling
<1>3. OldToYoungRemembered'
  BY DEF IInv, TypeOK, Heap!TypeOK, NoDangling, Heap!NoDangling,
         OldToYoungRemembered, Heap!OldToYoungRemembered, Heap!Young, Heap!Barrier
<1>4. QED
  BY <1>1, <1>2, <1>3, MutatorSuffices

LEMMA EraseIInv ==
  ASSUME IInv, phase = "mutator", UNCHANGED collector,
         NEW owner \in roots, NEW dropped \in SUBSET refs[owner],
         Heap!Erase(owner, dropped)
  PROVE  IInv'
<1> USE DEF Heap!Erase
<1>1. Heap!TypeOK'
  BY DEF IInv, TypeOK, Heap!TypeOK
<1>2. NoDangling'
  BY DEF IInv, TypeOK, Heap!TypeOK, NoDangling, Heap!NoDangling
<1>3. OldToYoungRemembered'
  BY DEF IInv, TypeOK, Heap!TypeOK, OldToYoungRemembered,
         Heap!OldToYoungRemembered, Heap!Young
<1>4. QED
  BY <1>1, <1>2, <1>3, MutatorSuffices

(* The actions that only change which objects are held, or gcEnabled.      *)
LEMMA HoldingIInv ==
  ASSUME IInv, phase = "mutator", UNCHANGED collector,
         UNCHANGED <<Heap!heap, rememberedSet, crashed>>,
         roots' \subseteq objects, gcEnabled' \in BOOLEAN
  PROVE  IInv'
<1> USE DEF Heap!heap
<1>1. Heap!TypeOK'
  BY DEF IInv, TypeOK, Heap!TypeOK
<1>2. NoDangling'
  BY DEF IInv, NoDangling, Heap!NoDangling
<1>3. OldToYoungRemembered'
  BY DEF IInv, OldToYoungRemembered, Heap!OldToYoungRemembered, Heap!Young
<1>4. QED
  BY <1>1, <1>2, <1>3, MutatorSuffices

LEMMA MutateIInv ==
  ASSUME IInv, Mutate
  PROVE  IInv'
<1> USE DEF Mutate
<1>1. ASSUME NEW o \in Obj, NEW kids \in SUBSET roots, Heap!Allocate(o, kids)
      PROVE  IInv'
  BY <1>1, AllocateIInv
<1>2. ASSUME NEW owner \in roots, NEW value \in roots,
             NEW dropped \in SUBSET refs[owner], Heap!Store(owner, value, dropped)
      PROVE  IInv'
  BY <1>2, StoreIInv
<1>3. ASSUME NEW owner \in roots, NEW dropped \in SUBSET refs[owner],
             Heap!Erase(owner, dropped)
      PROVE  IInv'
  BY <1>3, EraseIInv
<1>4. ASSUME NEW owner \in roots, NEW value \in Obj, Heap!Load(owner, value)
      PROVE  IInv'
  BY <1>4, HoldingIInv DEF Heap!Load, Heap!heapVars, IInv, TypeOK, Heap!TypeOK,
     NoDangling, Heap!NoDangling
<1>5. ASSUME NEW o \in Obj, Heap!FindString(o) \/ Heap!Release(o)
      PROVE  IInv'
  BY <1>5, HoldingIInv DEF Heap!FindString, Heap!Release, Heap!heapVars, IInv,
     TypeOK, Heap!TypeOK, NoDangling, Heap!NoDangling
<1>6. ASSUME NEW on \in BOOLEAN, Heap!SetGcEnabled(on)
      PROVE  IInv'
  BY <1>6, HoldingIInv DEF Heap!SetGcEnabled, Heap!heapVars, IInv, TypeOK,
     Heap!TypeOK, NoDangling, Heap!NoDangling
<1>7. QED
  BY <1>1, <1>2, <1>3, <1>4, <1>5, <1>6 DEF Heap!Mutate, Heap!Slot

----------------------------------------------------------------------------
(* The collector's actions.  Until sweep the heap and the roots stand      *)
(* still, so what they alone determine is preserved.                       *)

MarkedNow == Heap!Marked(gc_major, Heap!Seeds(gc_major))

LEMMA HeapStill ==
  ASSUME IInv, UNCHANGED <<objects, old, refs, roots, rememberedSet>>,
         strings' \subseteq strings
  PROVE  /\ NoDangling' /\ OldToYoungRemembered' /\ Reachable' = Reachable
         /\ gc_major' = gc_major => MarkedNow' = MarkedNow
         /\ gc_major' = gc_major => (\A x : InScope(x)' = InScope(x))
         /\ gc_major' = gc_major => Heap!MeetsFreed(gc_major)' = Heap!MeetsFreed(gc_major)
<1>1. NoDangling'
  BY DEF IInv, NoDangling, Heap!NoDangling
<1>2. OldToYoungRemembered'
  BY DEF IInv, OldToYoungRemembered, Heap!OldToYoungRemembered, Heap!Young
<1>3. Reachable' = Reachable
  BY DEF Reachable, Abstract!Reachable, Abstract!Closed
<1>4. gc_major' = gc_major => MarkedNow' = MarkedNow
  BY DEF MarkedNow, Heap!Marked, Heap!Traced, Heap!Seeds, Heap!Scope, Heap!Young
<1>5. gc_major' = gc_major => (\A x : InScope(x)' = InScope(x))
  BY DEF InScope
<1>6. gc_major' = gc_major => Heap!MeetsFreed(gc_major)' = Heap!MeetsFreed(gc_major)
  BY DEF Heap!MeetsFreed
<1>7. QED
  BY <1>1, <1>2, <1>3, <1>4, <1>5, <1>6

(* What a reachable object refers to is reachable, and so are the roots.   *)
LEMMA ReachableClosed ==
  ASSUME Heap!TypeOK
  PROVE  /\ roots \subseteq Reachable
         /\ \A o \in Reachable : refs[o] \subseteq Reachable
<1> USE DEF Heap!TypeOK, Reachable, Abstract!Reachable, Abstract!Closed
<1>1. roots \subseteq Reachable
  OBVIOUS
<1>2. ASSUME NEW o \in Reachable, NEW c \in refs[o]
      PROVE  c \in Reachable
  <2>1. o \in Obj /\ c \in Obj
    OBVIOUS
  <2>2. ASSUME NEW S \in SUBSET Obj, Abstract!Closed(S)
        PROVE  c \in S
    BY <2>2
  <2>3. QED
    BY <2>1, <2>2
<1>3. QED
  BY <1>1, <1>2

(* The same for the least marking: it holds what it starts from, and is    *)
(* closed under references in scope.                                       *)
LEMMA MarkedClosed ==
  ASSUME NEW major \in BOOLEAN, NEW seeds
  PROVE  Heap!Traced(major, seeds, Heap!Marked(major, seeds))
<1> DEFINE M == Heap!Marked(major, seeds)
           V == Heap!Scope(major)
<1>1. seeds \cap V \subseteq M
  BY DEF Heap!Marked, Heap!Traced
<1>2. ASSUME NEW o \in M, NEW c \in refs[o], c \in V
      PROVE  c \in M
  <2>1. ASSUME NEW S \in SUBSET V, Heap!Traced(major, seeds, S)
        PROVE  c \in S
    <3>1. o \in S
      BY <2>1 DEF Heap!Marked
    <3>2. QED
      BY <1>2, <2>1, <3>1 DEF Heap!Traced
  <2>2. QED
    BY <1>2, <2>1 DEF Heap!Marked
<1>3. QED
  BY <1>1, <1>2 DEF Heap!Traced

(* mark_object's test and the scope of a collection agree.                 *)
LEMMA ScopeIsInScope ==
  ASSUME NEW o \in objects
  PROVE  o \in Heap!Scope(gc_major) <=> InScope(o)
  BY DEF Heap!Scope, Heap!Young, InScope

LEMMA StartCollectionIInv ==
  ASSUME IInv, NEW major \in BOOLEAN, StartCollection(major)
  PROVE  IInv'
<1> USE DEF StartCollection, heap
<1>1. TypeOK'
  BY DEF IInv, TypeOK, Heap!TypeOK, Phases
<1>2. NoDangling' /\ OldToYoungRemembered'
  BY HeapStill
<1>3. BlackSeesNoWhite' /\ CollectorInv'
  BY DEF IInv, BlackSeesNoWhite, CollectorInv, InScope
<1>4. MajorKeepsExactlyReachable' /\ MinorLeavesNoYoung'
  BY DEF MajorKeepsExactlyReachable, MinorLeavesNoYoung
<1>5. QED
  BY <1>1, <1>2, <1>3, <1>4 DEF IInv

LEMMA MarkRootsIInv ==
  ASSUME IInv, MarkRoots
  PROVE  IInv'
<1> USE DEF MarkRoots, Mark, heap
<1>1. TypeOK'
  BY DEF IInv, TypeOK, Heap!TypeOK, Phases
<1>2. NoDangling' /\ OldToYoungRemembered' /\ Reachable' = Reachable
      /\ MarkedNow' = MarkedNow /\ (\A x : InScope(x)' = InScope(x))
  BY HeapStill
<1>3. BlackSeesNoWhite'
  BY DEF IInv, BlackSeesNoWhite, CollectorInv
<1>4. marked' = {r \in roots : InScope(r)} /\ marked' = grayStack'
  BY DEF IInv, CollectorInv
<1>5. CollectorInv'
  <2>1. marked' \subseteq objects /\ marked' \subseteq Reachable
    BY <1>4, ReachableClosed DEF IInv, TypeOK, NoDangling, Heap!NoDangling
  <2>2. marked' \subseteq MarkedNow
    <3>1. Heap!Traced(gc_major, Heap!Seeds(gc_major), MarkedNow)
      BY MarkedClosed DEF IInv, TypeOK, MarkedNow
    <3>2. marked' \subseteq Heap!Seeds(gc_major) \cap Heap!Scope(gc_major)
      BY <1>4, <2>1, ScopeIsInScope DEF Heap!Seeds
    <3>3. QED
      BY <3>1, <3>2 DEF Heap!Traced
  <2>3. \A o \in marked' : InScope(o)
    BY <1>4
  <2>4. \A r \in roots : InScope(r) => r \in marked'
    BY <1>4
  <2>5. gcEnabled'
    BY DEF IInv, CollectorInv
  <2>6. QED
    BY <1>2, <1>4, <2>1, <2>2, <2>3, <2>4, <2>5 DEF CollectorInv, MarkedNow
<1>6. MajorKeepsExactlyReachable' /\ MinorLeavesNoYoung'
  BY DEF MajorKeepsExactlyReachable, MinorLeavesNoYoung
<1>7. QED
  BY <1>1, <1>2, <1>3, <1>5, <1>6 DEF IInv

(* Blackening: the step common to ScanRemembered, ScanFreed and            *)
(* TraceReferences marks S, scans a remembered owner or a gray object      *)
(* whose references are in S, and leaves the rest of the collector alone.  *)
LEMMA BlackenIInv ==
  ASSUME IInv, phase = "mark", NEW S \in SUBSET objects, NEW o,
         gc_major => S \subseteq Reachable,
         ~Heap!MeetsFreed(gc_major) => S \cap Heap!Scope(gc_major) \subseteq MarkedNow,
         NEW kept \in SUBSET grayStack, kept = grayStack \/ kept = grayStack \ {o},
         kept # grayStack => refs[o] \subseteq S,
         Mark(S, kept),
         unscanned' \subseteq unscanned,
         \A u \in unscanned \ unscanned' : u \in objects => refs[u] \subseteq S,
         UNCHANGED <<heap, roots, rememberedSet, gcEnabled, crashed, phase, gc_major>>
  PROVE  IInv'
<1> USE DEF Mark, heap
<1>1. TypeOK'
  BY DEF IInv, TypeOK, Heap!TypeOK
<1>2. NoDangling' /\ OldToYoungRemembered' /\ Reachable' = Reachable
      /\ MarkedNow' = MarkedNow /\ (\A x : InScope(x)' = InScope(x))
      /\ Heap!MeetsFreed(gc_major)' = Heap!MeetsFreed(gc_major)
  BY HeapStill
<1>3. marked' = marked \cup {x \in S : InScope(x)}
  OBVIOUS
<1>4. BlackSeesNoWhite'
  <2>1. ASSUME NEW x \in marked' \ grayStack', NEW c \in refs[x], InScope(c)
        PROVE  c \in marked'
    <3>1. x \in marked
      BY <1>3
    <3>2. CASE x \in grayStack
      <4>1. x = o /\ kept # grayStack
        BY <3>2
      <4>2. QED
        BY <2>1, <4>1, <1>3
    <3>3. CASE x \notin grayStack
      BY <2>1, <3>1, <3>3, <1>3 DEF IInv, BlackSeesNoWhite
    <3>4. QED
      BY <3>2, <3>3
  <2>2. QED
    BY <2>1, <1>2 DEF BlackSeesNoWhite
<1>5. CollectorInv'
  <2>1. grayStack' \subseteq marked' /\ marked' \subseteq objects
        /\ unscanned' \subseteq rememberedSet
    BY <1>3 DEF IInv, CollectorInv
  <2>2. \A x \in marked' : InScope(x)
    BY <1>3 DEF IInv, CollectorInv
  <2>3. \A r \in roots : InScope(r) => r \in marked'
    BY <1>3 DEF IInv, CollectorInv
  <2>4. ASSUME ~gc_major, NEW x \in (rememberedSet \ unscanned') \cap objects,
               NEW c \in refs[x], InScope(c)
        PROVE  c \in marked'
    <3>1. CASE x \in unscanned
      BY <2>4, <3>1, <1>3
    <3>2. CASE x \notin unscanned
      BY <2>4, <3>2, <1>3 DEF IInv, CollectorInv
    <3>3. QED
      BY <3>1, <3>2
  <2>5. gc_major => unscanned' = {} /\ marked' \subseteq Reachable
    BY <1>3 DEF IInv, CollectorInv
  <2>6. ASSUME ~Heap!MeetsFreed(gc_major) PROVE marked' \subseteq MarkedNow
    BY <1>3, <2>6, ScopeIsInScope DEF IInv, CollectorInv, MarkedNow
  <2>7. gcEnabled'
    BY DEF IInv, CollectorInv
  <2>8. QED
    BY <2>1, <2>2, <2>3, <2>4, <2>5, <2>6, <2>7, <1>2 DEF CollectorInv, MarkedNow
<1>6. MajorKeepsExactlyReachable' /\ MinorLeavesNoYoung'
  BY DEF MajorKeepsExactlyReachable, MinorLeavesNoYoung
<1>7. QED
  BY <1>1, <1>2, <1>4, <1>5, <1>6 DEF IInv

LEMMA ScanRememberedIInv ==
  ASSUME IInv, NEW o \in Obj, ScanRemembered(o)
  PROVE  IInv'
<1> USE DEF ScanRemembered
<1>1. refs[o] \subseteq objects
  BY DEF IInv, NoDangling, Heap!NoDangling
<1>2. ~gc_major
  BY DEF IInv, CollectorInv
<1>3. grayStack \in SUBSET grayStack
  OBVIOUS
<1>4. refs[o] \cap Heap!Scope(gc_major) \subseteq MarkedNow
  <2>1. o \in rememberedSet \cap objects
    BY DEF IInv, CollectorInv
  <2>2. refs[o] \subseteq Heap!Seeds(gc_major)
    BY <1>2, <2>1 DEF Heap!Seeds
  <2>3. QED
    BY <2>2, MarkedClosed DEF Heap!Traced, MarkedNow, IInv, TypeOK
<1>5. QED
  BY <1>1, <1>2, <1>3, <1>4, BlackenIInv

LEMMA ScanFreedIInv ==
  ASSUME IInv, NEW o \in Obj, ScanFreed(o)
  PROVE  IInv'
<1> USE DEF ScanFreed
<1>1. ~gc_major /\ Heap!MeetsFreed(gc_major)
  BY DEF IInv, CollectorInv, Heap!MeetsFreed
<1>2. CASE \E stale \in SUBSET objects : Mark(stale, grayStack) /\ UNCHANGED crashed
  <2>1. grayStack \in SUBSET grayStack
    OBVIOUS
  <2>2. QED
    BY <1>1, <1>2, <2>1, BlackenIInv
<1>3. CASE crashed' = TRUE /\ UNCHANGED <<marked, grayStack>>
  <2> USE <1>3 DEF heap
  <2>1. TypeOK'
    BY DEF IInv, TypeOK, Heap!TypeOK
  <2>2. NoDangling' /\ OldToYoungRemembered' /\ (\A x : InScope(x)' = InScope(x))
        /\ Heap!MeetsFreed(gc_major)' = Heap!MeetsFreed(gc_major)
    BY HeapStill
  <2>3. BlackSeesNoWhite'
    BY <2>2 DEF IInv, BlackSeesNoWhite
  <2>4. CollectorInv'
    BY <1>1, <2>2 DEF IInv, CollectorInv
  <2>5. MajorKeepsExactlyReachable' /\ MinorLeavesNoYoung'
    BY DEF MajorKeepsExactlyReachable, MinorLeavesNoYoung
  <2>6. QED
    BY <2>1, <2>2, <2>3, <2>4, <2>5 DEF IInv
<1>4. QED
  BY <1>2, <1>3

LEMMA TraceReferencesIInv ==
  ASSUME IInv, NEW o \in Obj, TraceReferences(o)
  PROVE  IInv'
<1> USE DEF TraceReferences
<1>1. refs[o] \subseteq objects /\ o \in marked
  BY DEF IInv, NoDangling, Heap!NoDangling, CollectorInv
<1>2. gc_major => refs[o] \subseteq Reachable
  BY <1>1, ReachableClosed DEF IInv, TypeOK, CollectorInv
<1>3. ~Heap!MeetsFreed(gc_major) => refs[o] \cap Heap!Scope(gc_major) \subseteq MarkedNow
  <2>1. ~Heap!MeetsFreed(gc_major) => o \in MarkedNow
    BY <1>1 DEF IInv, CollectorInv, MarkedNow
  <2>2. QED
    BY <2>1, MarkedClosed DEF Heap!Traced, MarkedNow, IInv, TypeOK
<1>4. (grayStack \ {o}) \in SUBSET grayStack
  OBVIOUS
<1>5. QED
  BY <1>1, <1>2, <1>3, <1>4, BlackenIInv

LEMMA RemoveWhiteStringsIInv ==
  ASSUME IInv, RemoveWhiteStrings
  PROVE  IInv'
<1> USE DEF RemoveWhiteStrings
<1>1. TypeOK'
  BY DEF IInv, TypeOK, Heap!TypeOK, Phases
<1>2. NoDangling' /\ OldToYoungRemembered' /\ Reachable' = Reachable
      /\ MarkedNow' = MarkedNow /\ (\A x : InScope(x)' = InScope(x))
      /\ Heap!MeetsFreed(gc_major)' = Heap!MeetsFreed(gc_major)
  BY HeapStill
<1>3. BlackSeesNoWhite'
  BY <1>2 DEF IInv, BlackSeesNoWhite
<1>4. CollectorInv'
  BY <1>2 DEF IInv, CollectorInv, MarkedNow
<1>5. MajorKeepsExactlyReachable' /\ MinorLeavesNoYoung'
  BY DEF MajorKeepsExactlyReachable, MinorLeavesNoYoung
<1>6. QED
  BY <1>1, <1>2, <1>3, <1>4, <1>5 DEF IInv

(* sweep keeps exactly what is marked or out of scope.  Nothing that stays *)
(* refers to something that goes: a marked object is black, and an old one *)
(* that a minor collection keeps unmarked was remembered if it refers to a *)
(* young one.                                                              *)
LEMMA SurvivorsClosed ==
  ASSUME IInv, grayStack = {}, unscanned = {}, phase \in {"mark", "sweep"},
         NEW o \in Survivors
  PROVE  refs[o] \subseteq Survivors
<1> SUFFICES ASSUME NEW c \in refs[o] PROVE c \in Survivors
  OBVIOUS
<1> USE DEF Survivors, White
<1>1. c \in objects
  BY DEF IInv, NoDangling, Heap!NoDangling
<1>2. CASE o \in marked
  BY <1>1, <1>2 DEF IInv, BlackSeesNoWhite, CollectorInv
<1>3. CASE ~InScope(o) /\ InScope(c)
  <2>1. ~gc_major /\ o \in old /\ c \in objects \ old
    BY <1>1, <1>3 DEF InScope
  <2>2. o \in rememberedSet
    BY <2>1 DEF IInv, OldToYoungRemembered, Heap!OldToYoungRemembered, Heap!Young
  <2>3. QED
    BY <1>1, <1>3, <2>1, <2>2 DEF IInv, CollectorInv
<1>4. QED
  BY <1>1, <1>2, <1>3

LEMMA SurvivorsHoldRoots ==
  ASSUME IInv, phase \in {"mark", "sweep"}
  PROVE  roots \subseteq Survivors
  BY DEF IInv, CollectorInv, NoDangling, Heap!NoDangling, Survivors, White

LEMMA SweepIInv ==
  ASSUME IInv, Sweep
  PROVE  IInv'
<1>1. /\ phase = "sweep" /\ phase' = "finish"
      /\ objects' = Survivors
      /\ old' = IF gc_major THEN old \ White ELSE Survivors
      /\ refs' = [o \in Obj |-> IF o \in White THEN {} ELSE refs[o]]
      /\ marked' = {}
      /\ UNCHANGED <<strings, roots, rememberedSet, gcEnabled, crashed, gc_major,
                     grayStack, unscanned>>
      /\ grayStack = {} /\ unscanned = {}
  BY DEF Sweep, Promoted, Unlinked, IInv, CollectorInv
<1>2. \A o \in Survivors : o \in Obj /\ refs[o] \subseteq Survivors /\ o \notin White
  BY <1>1, SurvivorsClosed DEF IInv, TypeOK, Heap!TypeOK, Survivors
<1>3. TypeOK'
  BY <1>1 DEF IInv, TypeOK, Heap!TypeOK, Phases, Survivors
<1>4. NoDangling'
  <2>1. strings \subseteq Survivors
    BY <1>1 DEF IInv, CollectorInv, NoDangling, Heap!NoDangling, Survivors, White
  <2>2. QED
    BY <1>1, <1>2, <2>1, SurvivorsHoldRoots DEF NoDangling, Heap!NoDangling
<1>5. OldToYoungRemembered'
  <2>1. CASE gc_major
    <3>1. ASSUME NEW o \in old', NEW c \in refs'[o], c \in objects' \ old'
          PROVE  o \in rememberedSet'
      <4>1. o \in old /\ o \in Obj /\ c \in refs[o] /\ c \in objects \ old
        BY <1>1, <2>1, <3>1 DEF IInv, TypeOK, Heap!TypeOK, Survivors
      <4>2. QED
        BY <1>1, <4>1 DEF IInv, OldToYoungRemembered, Heap!OldToYoungRemembered, Heap!Young
    <3>2. QED
      BY <3>1 DEF OldToYoungRemembered, Heap!OldToYoungRemembered, Heap!Young
  <2>2. CASE ~gc_major
    BY <1>1, <2>2 DEF OldToYoungRemembered, Heap!OldToYoungRemembered, Heap!Young
  <2>3. QED
    BY <2>1, <2>2
<1>6. BlackSeesNoWhite' /\ CollectorInv'
  BY <1>1 DEF IInv, CollectorInv, BlackSeesNoWhite
<1>7. MinorLeavesNoYoung'
  BY <1>1 DEF MinorLeavesNoYoung, Young
<1>8. ASSUME gc_major PROVE objects' = Reachable'
  <2>1. Survivors = marked
    BY <1>1, <1>8 DEF IInv, CollectorInv, InScope, Survivors, White
  <2>2. ASSUME NEW o \in marked PROVE o \in Reachable'
    <3>1. ASSUME NEW S \in SUBSET Obj, Abstract!Closed(S)'
          PROVE  o \in S
      <4> DEFINE T == S \cap Survivors
      <4>1. roots \subseteq T
        BY <1>1, <3>1, SurvivorsHoldRoots DEF Abstract!Closed
      <4>2. \A x \in T : refs[x] \subseteq T
        BY <1>1, <1>2, <3>1 DEF Abstract!Closed
      <4>3. Abstract!Closed(T) /\ T \in SUBSET Obj
        BY <4>1, <4>2 DEF Abstract!Closed
      <4>4. o \in Reachable
        BY <1>1, <1>8 DEF IInv, CollectorInv
      <4>5. QED
        BY <4>3, <4>4 DEF Reachable, Abstract!Reachable
    <3>2. QED
      BY <3>1, <1>2, <2>1 DEF Reachable, Abstract!Reachable
  <2>3. ASSUME NEW o \in Reachable' PROVE o \in Survivors
    <3>1. Abstract!Closed(objects)'
      BY <1>4 DEF NoDangling, Heap!NoDangling, Abstract!Closed
    <3>2. objects' \in SUBSET Obj
      BY <1>3 DEF TypeOK, Heap!TypeOK
    <3>3. o \in objects'
      BY <3>1, <3>2 DEF Reachable, Abstract!Reachable, Abstract!Closed
    <3>4. QED
      BY <1>1, <3>3
  <2>4. QED
    BY <1>1, <2>1, <2>2, <2>3
<1>9. MajorKeepsExactlyReachable'
  BY <1>1, <1>8 DEF MajorKeepsExactlyReachable
<1>10. QED
  BY <1>3, <1>4, <1>5, <1>6, <1>7, <1>9 DEF IInv

LEMMA FinishCollectionIInv ==
  ASSUME IInv, FinishCollection
  PROVE  IInv'
<1> USE DEF FinishCollection, heap
<1>1. TypeOK'
  BY DEF IInv, TypeOK, Heap!TypeOK, Phases
<1>2. NoDangling'
  BY DEF IInv, NoDangling, Heap!NoDangling
<1>3. OldToYoungRemembered'
  BY DEF IInv, OldToYoungRemembered, Heap!OldToYoungRemembered, MinorLeavesNoYoung,
         Young, Heap!Young
<1>4. BlackSeesNoWhite' /\ CollectorInv'
  BY DEF IInv, BlackSeesNoWhite, CollectorInv
<1>5. MajorKeepsExactlyReachable' /\ MinorLeavesNoYoung'
  BY DEF MajorKeepsExactlyReachable, MinorLeavesNoYoung
<1>6. QED
  BY <1>1, <1>2, <1>3, <1>4, <1>5 DEF IInv

----------------------------------------------------------------------------
LEMMA NextIInv ==
  ASSUME IInv, [Next]_vars
  PROVE  IInv'
<1>1. CASE Mutate
  BY <1>1, MutateIInv
<1>2. CASE \E major \in BOOLEAN : StartCollection(major)
  BY <1>2, StartCollectionIInv
<1>3. CASE Collect
  BY <1>3, MarkRootsIInv, ScanRememberedIInv, ScanFreedIInv, TraceReferencesIInv,
     RemoveWhiteStringsIInv, SweepIInv, FinishCollectionIInv DEF Collect
<1>4. CASE UNCHANGED vars
  <2> USE <1>4 DEF vars, heap, collector
  <2>1. TypeOK'
    BY DEF IInv, TypeOK, Heap!TypeOK
  <2>2. NoDangling' /\ OldToYoungRemembered' /\ Reachable' = Reachable
        /\ MarkedNow' = MarkedNow /\ (\A x : InScope(x)' = InScope(x))
        /\ Heap!MeetsFreed(gc_major)' = Heap!MeetsFreed(gc_major)
    BY HeapStill
  <2>3. BlackSeesNoWhite'
    BY <2>2 DEF IInv, BlackSeesNoWhite
  <2>4. CollectorInv'
    BY <2>2 DEF IInv, CollectorInv, MarkedNow
  <2>5. MajorKeepsExactlyReachable' /\ MinorLeavesNoYoung'
    BY <2>2 DEF IInv, MajorKeepsExactlyReachable, MinorLeavesNoYoung, Young
  <2>6. QED
    BY <2>1, <2>2, <2>3, <2>4, <2>5 DEF IInv
<1>5. QED
  BY <1>1, <1>2, <1>3, <1>4 DEF Next

LEMMA Invariance == Spec => []IInv
<1>1. Init => IInv
  BY InitIInv
<1>2. IInv /\ [Next]_vars => IInv'
  BY NextIInv
<1>3. QED
  BY <1>1, <1>2, PTL DEF Spec

(* The state of the collector is well formed: in particular what is old is *)
(* allocated, across promotion, sweeping and the reuse of addresses.       *)
THEOREM TypeCorrect == Spec => []TypeOK
<1>1. IInv => TypeOK
  BY DEF IInv
<1>2. QED
  BY <1>1, Invariance, PTL

(* The safety of the collector (gc.c): no root, no reference of a live     *)
(* object and no intern table entry ever points to freed memory.           *)
THEOREM Safety == Spec => []NoDangling
<1>1. IInv => NoDangling
  BY DEF IInv
<1>2. QED
  BY <1>1, Invariance, PTL

(* Every old object that refers to a young one is in the remembered set,   *)
(* through stores, promotions and both kinds of collection.                *)
THEOREM BarrierComplete == Spec => []OldToYoungRemembered
<1>1. IInv => OldToYoungRemembered
  BY DEF IInv
<1>2. QED
  BY <1>1, Invariance, PTL

(* Marking keeps the tri-colour invariant, relative to the generation in   *)
(* scope (trace_references, mark_roots).                                   *)
THEOREM TriColour == Spec => []BlackSeesNoWhite
<1>1. IInv => BlackSeesNoWhite
  BY DEF IInv
<1>2. QED
  BY <1>1, Invariance, PTL

(* A major collection frees all garbage, cycles and stale old objects      *)
(* included, and nothing else.                                             *)
THEOREM MajorExact == Spec => []MajorKeepsExactlyReachable
<1>1. IInv => MajorKeepsExactlyReachable
  BY DEF IInv
<1>2. QED
  BY <1>1, Invariance, PTL

(* A minor collection promotes all it keeps.                               *)
THEOREM MinorPromotes == Spec => []MinorLeavesNoYoung
<1>1. IInv => MinorLeavesNoYoung
  BY DEF IInv
<1>2. QED
  BY <1>1, Invariance, PTL

============================================================================
