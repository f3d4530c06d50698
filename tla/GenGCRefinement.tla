-------------------------- MODULE GenGCRefinement --------------------------
(***************************************************************************)
(* Proofs that the collector of module GenGC implements the memory manager *)
(* of ManagedHeap and the one-step collection of GenHeap.                  *)
(***************************************************************************)
EXTENDS GenGCProofs

(***************************************************************************)
(* ManagedHeap: every step of the collector is invisible but sweep, and    *)
(* what sweep frees the program cannot reach.                              *)
(***************************************************************************)

LEMMA SweepReclaims ==
  ASSUME IInv, Sweep
  PROVE  \E dead \in SUBSET Obj : Abstract!Reclaim(dead)
<1>1. /\ objects' = Survivors
      /\ refs' = [o \in Obj |-> IF o \in White THEN {} ELSE refs[o]]
      /\ UNCHANGED roots
      /\ phase = "sweep" /\ grayStack = {} /\ unscanned = {}
  BY DEF Sweep, Unlinked, IInv, CollectorInv
<1>2. \A o \in Survivors : refs[o] \subseteq Survivors
  BY <1>1, SurvivorsClosed
<1>3. roots \subseteq Survivors
  BY <1>1, SurvivorsHoldRoots
<1>4. Survivors \in SUBSET Obj /\ White \in SUBSET Obj /\ White \subseteq objects
  BY DEF IInv, TypeOK, Heap!TypeOK, Survivors, White
<1>5. Abstract!Reachable \subseteq Survivors
  BY <1>2, <1>3, <1>4 DEF Abstract!Reachable, Abstract!Closed
<1>6. Abstract!Reclaim(White)
  BY <1>1, <1>4, <1>5 DEF Abstract!Reclaim, Survivors
<1>7. QED
  BY <1>4, <1>6

LEMMA MutateIsAbstract ==
  ASSUME IInv, Mutate
  PROVE  Abstract!Next \/ UNCHANGED Abstract!vars
<1> USE DEF Abstract!Next, Mutate
<1>1. ASSUME NEW o \in Obj, NEW kids \in SUBSET roots, Heap!Allocate(o, kids)
      PROVE  Abstract!Next
  <2>1. Abstract!Allocate(o, kids)
    BY <1>1 DEF Heap!Allocate, Heap!New, Abstract!Allocate
  <2>2. kids \in SUBSET Obj
    BY DEF IInv, TypeOK, Heap!TypeOK
  <2>3. QED
    BY <2>1, <2>2
<1>2. ASSUME NEW owner \in roots, NEW value \in roots,
             NEW dropped \in SUBSET refs[owner], Heap!Store(owner, value, dropped)
      PROVE  Abstract!Next
  <2> DEFINE kids == (refs[owner] \ dropped) \cup {value}
  <2>1. Abstract!Link(owner, kids)
    BY <1>2, ReachableClosed DEF Heap!Store, Heap!Slot, Abstract!Link, Reachable,
       IInv, TypeOK
  <2>2. owner \in Obj /\ kids \in SUBSET Obj
    BY DEF IInv, TypeOK, Heap!TypeOK
  <2>3. QED
    BY <2>1, <2>2
<1>3. ASSUME NEW owner \in roots, NEW dropped \in SUBSET refs[owner],
             Heap!Erase(owner, dropped)
      PROVE  Abstract!Next
  <2>1. Abstract!Link(owner, refs[owner] \ dropped)
    BY <1>3, ReachableClosed DEF Heap!Erase, Abstract!Link, Reachable, IInv, TypeOK
  <2>2. owner \in Obj /\ (refs[owner] \ dropped) \in SUBSET Obj
    BY DEF IInv, TypeOK, Heap!TypeOK
  <2>3. QED
    BY <2>1, <2>2
<1>4. ASSUME NEW owner \in roots, NEW value \in Obj, Heap!Load(owner, value)
      PROVE  Abstract!Next
  <2>1. roots' \subseteq Reachable
    BY <1>4, ReachableClosed DEF Heap!Load, IInv, TypeOK
  <2>2. QED
    BY <1>4, <2>1 DEF Heap!Load, Heap!heapVars, Heap!heap, Reachable, Abstract!Move
<1>5. ASSUME NEW o \in Obj, Heap!FindString(o)
      PROVE  Abstract!Next
  <2>1. o \in Str \cap objects
    BY <1>5 DEF Heap!FindString, IInv, TypeOK, Heap!TypeOK, NoDangling, Heap!NoDangling
  <2>2. QED
    BY <1>5, <2>1, ReachableClosed DEF Heap!FindString, Heap!heapVars, Heap!heap,
       Reachable, Abstract!Move, IInv, TypeOK
<1>6. ASSUME NEW o \in Obj, Heap!Release(o)
      PROVE  Abstract!Next
  BY <1>6, ReachableClosed DEF Heap!Release, Heap!heapVars, Heap!heap, Reachable,
     Abstract!Move, IInv, TypeOK
<1>7. ASSUME NEW on \in BOOLEAN, Heap!SetGcEnabled(on)
      PROVE  UNCHANGED Abstract!vars
  BY <1>7 DEF Heap!SetGcEnabled, Heap!heap, Abstract!vars
<1>8. QED
  BY <1>1, <1>2, <1>3, <1>4, <1>5, <1>6, <1>7 DEF Heap!Mutate, Heap!Slot

LEMMA StepIsAbstract ==
  ASSUME IInv, [Next]_vars
  PROVE  [Abstract!Next]_Abstract!vars
<1>1. CASE Mutate
  BY <1>1, MutateIsAbstract
<1>2. CASE \E major \in BOOLEAN : StartCollection(major)
  BY <1>2 DEF StartCollection, heap, Abstract!vars
<1>3. CASE Sweep
  BY <1>3, SweepReclaims DEF Abstract!Next
<1>4. CASE Collect /\ ~Sweep
  BY <1>4 DEF Collect, MarkRoots, ScanRemembered, ScanFreed, TraceReferences,
     RemoveWhiteStrings, FinishCollection, heap, Abstract!vars
<1>5. CASE UNCHANGED vars
  BY <1>5 DEF vars, heap, Abstract!vars
<1>6. QED
  BY <1>1, <1>2, <1>3, <1>4, <1>5 DEF Next

(* collect_garbage, run at any allocation and in either mode, takes        *)
(* nothing from the program that it can still reach.                       *)
THEOREM RefinesManagedHeap == Spec => ImplementsManagedHeap
<1>1. Init => Abstract!Init
  BY DEF Init, Heap!Init, Abstract!Init
<1>2. IInv /\ [Next]_vars => [Abstract!Next]_Abstract!vars
  BY StepIsAbstract
<1>3. QED
  BY <1>1, <1>2, Invariance, PTL DEF Spec, ImplementsManagedHeap, Abstract!Spec

----------------------------------------------------------------------------
(***************************************************************************)
(* GenHeap: when marking is complete and the intern table pruned, the      *)
(* objects about to be freed are those of the one-step collection.  The    *)
(* marked set is closed, so it includes the least closed set; that it      *)
(* includes no more is an invariant.  If freed memory was scanned, the     *)
(* stale contents that were read count among what marking started from.    *)
(***************************************************************************)

LEMMA MarkingIsComplete ==
  ASSUME IInv, phase = "mark", unscanned = {}, grayStack = {}, NEW stale,
         stale \subseteq marked, ~Heap!MeetsFreed(gc_major) \/ stale = marked
  PROVE  Heap!White(gc_major, Heap!Seeds(gc_major) \cup stale) = White
<1> DEFINE V == Heap!Scope(gc_major)
           seeds == Heap!Seeds(gc_major) \cup stale
           M == Heap!Marked(gc_major, seeds)
<1>1. V \subseteq objects /\ marked \subseteq V
  BY ScopeIsInScope DEF IInv, CollectorInv, Heap!Scope, Heap!Young
<1>2. Heap!Traced(gc_major, seeds, marked)
  <2>1. ASSUME NEW o \in seeds, o \in V PROVE o \in marked
    <3>1. InScope(o)
      BY <1>1, <2>1, ScopeIsInScope
    <3>2. CASE o \in roots
      BY <3>1, <3>2 DEF IInv, CollectorInv
    <3>3. CASE o \in stale
      BY <3>3
    <3>4. CASE ~gc_major /\ \E r \in rememberedSet \cap objects : o \in refs[r]
      BY <3>1, <3>4 DEF IInv, CollectorInv
    <3>5. QED
      BY <2>1, <3>2, <3>3, <3>4 DEF Heap!Seeds
  <2>2. ASSUME NEW o \in marked, NEW c \in refs[o], c \in V PROVE c \in marked
    BY <1>1, <2>2, ScopeIsInScope DEF IInv, BlackSeesNoWhite
  <2>3. QED
    BY <2>1, <2>2 DEF Heap!Traced
<1>3. M \subseteq marked
  BY <1>1, <1>2 DEF Heap!Marked
<1>4. marked \subseteq M
  <2>1. CASE ~Heap!MeetsFreed(gc_major)
    <3>1. marked \subseteq MarkedNow
      BY <2>1 DEF IInv, CollectorInv, MarkedNow
    <3>2. MarkedNow \subseteq M
      BY DEF MarkedNow, Heap!Marked, Heap!Traced
    <3>3. QED
      BY <3>1, <3>2
  <2>2. CASE stale = marked
    BY <1>1, <2>2, MarkedClosed DEF Heap!Traced, IInv, TypeOK
  <2>3. QED
    BY <2>1, <2>2
<1>5. Heap!White(gc_major, seeds) = V \ marked
  BY <1>3, <1>4 DEF Heap!White
<1>6. QED
  BY <1>1, <1>5, ScopeIsInScope DEF White

(* Outside the interval between pruning and sweeping, a mutator step is    *)
(* the same step of GenHeap.                                               *)
LEMMA MutateIsAtomic ==
  ASSUME Mutate
  PROVE  Atomic!Next
<1> USE DEF Mutate, collector, Atomic!Next, Atomic!Mutate
<1>0. ~crashed
  BY DEF Heap!Mutate
<1>1. ASSUME NEW o \in Obj, NEW kids \in SUBSET roots,
             kids \in RefSets, Heap!Allocate(o, kids)
      PROVE  Atomic!Next
  <2>1. Atomic!Allocate(o, kids)
    BY <1>1 DEF Heap!Allocate, Heap!New, Atomic!Allocate, Atomic!New
  <2>2. QED
    BY <1>0, <1>1, <2>1
<1>2. ASSUME NEW owner \in roots, NEW value \in roots,
             NEW dropped \in Heap!Slot(owner),
             (refs[owner] \ dropped) \cup {value} \in RefSets,
             Heap!Store(owner, value, dropped)
      PROVE  Atomic!Next
  <2>1. Atomic!Store(owner, value, dropped)
    BY <1>2 DEF Heap!Store, Heap!Barrier, Heap!Young, Atomic!Store, Atomic!Barrier,
       Atomic!Young
  <2>2. QED
    BY <1>0, <1>2, <2>1 DEF Heap!Slot, Atomic!Slot
<1>3. ASSUME NEW owner \in roots, NEW dropped \in SUBSET refs[owner],
             Heap!Erase(owner, dropped)
      PROVE  Atomic!Next
  <2>1. Atomic!Erase(owner, dropped)
    BY <1>3 DEF Heap!Erase, Atomic!Erase
  <2>2. QED
    BY <1>0, <2>1
<1>4. ASSUME NEW owner \in roots, NEW value \in Obj, Heap!Load(owner, value)
      PROVE  Atomic!Next
  <2>1. Atomic!Load(owner, value)
    BY <1>4 DEF Heap!Load, Heap!heapVars, Heap!heap, Atomic!Load, Atomic!heapVars,
       Atomic!heap
  <2>2. QED
    BY <1>0, <2>1
<1>5. ASSUME NEW o \in Obj, Heap!FindString(o) \/ Heap!Release(o)
      PROVE  Atomic!Next
  <2>1. Atomic!FindString(o) \/ Atomic!Release(o)
    BY <1>5 DEF Heap!FindString, Heap!Release, Heap!heapVars, Heap!heap,
       Atomic!FindString, Atomic!Release, Atomic!heapVars, Atomic!heap
  <2>2. QED
    BY <1>0, <2>1
<1>6. ASSUME NEW on \in BOOLEAN, Heap!SetGcEnabled(on)
      PROVE  Atomic!Next
  <2>1. Atomic!SetGcEnabled(on)
    BY <1>6 DEF Heap!SetGcEnabled, Heap!heap, Atomic!SetGcEnabled, Atomic!heap
  <2>2. QED
    BY <1>0, <2>1
<1>7. QED
  BY <1>1, <1>2, <1>3, <1>4, <1>5, <1>6 DEF Heap!Mutate

(* Pruning the intern table is where the atomic collection takes place.    *)
LEMMA PruningCollects ==
  ASSUME IInv, ~crashed, RemoveWhiteStrings
  PROVE  Atomic!CollectGarbage(gc_major)
<1> DEFINE stale == IF Heap!MeetsFreed(gc_major) THEN marked ELSE {}
           seeds == Heap!Seeds(gc_major) \cup stale
<1> USE DEF RemoveWhiteStrings
<1>1. Heap!White(gc_major, seeds) = White
  BY MarkingIsComplete
<1>2. Atomic!White(gc_major, seeds) = White
  BY <1>1 DEF Heap!White, Heap!Marked, Heap!Traced, Heap!Scope, Heap!Young,
     Atomic!White, Atomic!Marked, Atomic!Traced, Atomic!Scope, Atomic!Young
<1>3. strings' = strings \ White
  BY DEF IInv, NoDangling, Heap!NoDangling, White
<1>4. Survivors' = Survivors /\ Promoted' = Promoted /\ Unlinked' = Unlinked
  BY DEF Survivors, Promoted, Unlinked, White, InScope
<1>5. Promoted = IF gc_major THEN old \ White ELSE objects \ White
  BY DEF Promoted, Survivors
<1>6. Atomic!Reclaim(gc_major, seeds)
  BY <1>2, <1>3, <1>4, <1>5 DEF Atomic!Reclaim, Survivors, Unlinked
<1>7. /\ Atomic!Seeds(gc_major) = Heap!Seeds(gc_major)
      /\ Atomic!MeetsFreed(gc_major) = Heap!MeetsFreed(gc_major)
  BY DEF Atomic!Seeds, Heap!Seeds, Atomic!MeetsFreed, Heap!MeetsFreed
<1>8. gcEnabled
  BY DEF IInv, CollectorInv
<1>9. CASE Heap!MeetsFreed(gc_major)
  <2>1. marked \in SUBSET Atomic!Young
    BY <1>9 DEF Heap!MeetsFreed, IInv, CollectorInv, InScope, Atomic!Young
  <2>2. QED
    BY <1>6, <1>7, <1>8, <1>9, <2>1 DEF Atomic!CollectGarbage
<1>10. CASE ~Heap!MeetsFreed(gc_major)
  <2>1. seeds = Heap!Seeds(gc_major)
    BY <1>10
  <2>2. QED
    BY <1>6, <1>7, <1>8, <1>10, <2>1 DEF Atomic!CollectGarbage
<1>11. QED
  BY <1>9, <1>10

LEMMA ScanFreedIsAtomic ==
  ASSUME IInv, ~crashed, NEW o \in Obj, ScanFreed(o)
  PROVE  Atomic!CollectGarbage(FALSE) \/ UNCHANGED Atomic!vars
<1> USE DEF ScanFreed, heap
<1>1. ~(rememberedSet \subseteq objects) /\ gcEnabled
  BY DEF IInv, CollectorInv
<1>2. CASE crashed' = TRUE
  BY <1>1, <1>2 DEF Atomic!CollectGarbage, Atomic!MeetsFreed, Atomic!heap
<1>3. CASE UNCHANGED crashed
  BY <1>3 DEF Atomic!vars, Atomic!heapVars, Atomic!heap
<1>4. QED
  BY <1>2, <1>3

LEMMA StepIsAtomic ==
  ASSUME IInv, [Next]_vars
  PROVE  [Atomic!Next]_Atomic!vars
<1> USE DEF Atomic!vars, Atomic!heapVars, Atomic!heap
<1>1. CASE Mutate
  BY <1>1, MutateIsAtomic
<1>2. CASE \E major \in BOOLEAN : StartCollection(major)
  BY <1>2 DEF StartCollection, heap
<1>3. CASE MarkRoots
  BY <1>3 DEF MarkRoots, heap
<1>4. CASE ~crashed /\ \E o \in Obj : ScanFreed(o)
  BY <1>4, ScanFreedIsAtomic DEF Atomic!Next
<1>5. CASE \E o \in Obj : ScanRemembered(o) \/ TraceReferences(o)
  BY <1>5 DEF ScanRemembered, TraceReferences, heap
<1>6. CASE ~crashed /\ RemoveWhiteStrings
  BY <1>6, PruningCollects DEF Atomic!Next, IInv, TypeOK
<1>7. CASE Sweep
  BY <1>7 DEF Sweep
<1>8. CASE FinishCollection
  BY <1>8 DEF FinishCollection, heap
<1>9. CASE UNCHANGED vars
  BY <1>9 DEF vars, heap, collector, Survivors, Promoted, Unlinked, White, InScope
<1>10. QED
  BY <1>1, <1>2, <1>3, <1>4, <1>5, <1>6, <1>7, <1>8, <1>9 DEF Next, Collect

(* The steps of collect_garbage amount to the one-step collection that the *)
(* rest of the program is modelled with: it frees, promotes, unlinks and   *)
(* forgets exactly what CollectGarbage of GenHeap says, crashes included.  *)
THEOREM RefinesGenHeap == Spec => ImplementsGenHeap
<1>1. Init => Atomic!Init
  BY DEF Init, Heap!Init, Atomic!Init
<1>2. IInv /\ [Next]_vars => [Atomic!Next]_Atomic!vars
  BY StepIsAtomic
<1>3. QED
  BY <1>1, <1>2, Invariance, PTL DEF Spec, ImplementsGenHeap, Atomic!Spec
============================================================================
