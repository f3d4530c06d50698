------------------------------ MODULE GenHeap ------------------------------
(***************************************************************************)
(* The two-generation heap of brokm as its users see it: the primitive     *)
(* operations every interpreter and native operation is made of, and a     *)
(* collection as one step (src/src/gc.c).  Module GenGC breaks that step   *)
(* into those of collect_garbage and implements this module; module        *)
(* HeapOps builds the interpreter's own operations on it.                  *)
(*                                                                         *)
(* roots stands for everything mark_roots walks: the value stack, the      *)
(* functions of the call frames, the globals' keys and values and the API  *)
(* roots.                                                                  *)
(***************************************************************************)
CONSTANTS
    Obj,            \* object addresses the allocator hands out and reuses
    Str,            \* those that hold strings
    RefSets         \* bound: the sets of references an object may hold

VARIABLES
    objects,        \* vm->objects: allocated objects
    old,            \* objects with gen = GEN_OLD
    refs,           \* refs[o]: what blacken_object(o) marks
    roots,          \* what mark_roots marks directly
    strings,        \* vm->strings: the weak intern table
    rememberedSet,  \* vm->rememberedSet
    gcEnabled,      \* vm->gcEnabled
    crashed         \* a freed object was used and took the process down

heap     == <<objects, old, refs, strings>>
heapVars == <<heap, rememberedSet, gcEnabled, crashed>>
vars     == <<heapVars, roots>>

TypeOK ==
    /\ objects \subseteq Obj
    /\ old \subseteq objects
    /\ refs \in [Obj -> SUBSET Obj]
    /\ roots \subseteq Obj
    /\ strings \subseteq Str
    /\ rememberedSet \subseteq Obj
    /\ gcEnabled \in BOOLEAN
    /\ crashed \in BOOLEAN

Init ==
    /\ objects = {}
    /\ old = {}
    /\ refs = [o \in Obj |-> {}]
    /\ roots = {}
    /\ strings = {}
    /\ rememberedSet = {}
    /\ gcEnabled = TRUE
    /\ crashed = FALSE

Young == objects \ old

----------------------------------------------------------------------------
(* The mutator.                                                            *)

(* gc_write_barrier: the remembered set after value was stored in owner;   *)
(* an owner is recorded once however often the code appends it.            *)
Barrier(owner, value) ==
    IF owner \in old /\ value \in Young
    THEN rememberedSet \cup {owner} ELSE rememberedSet

(* allocate_object: a new object is young and unmarked; it may be created  *)
(* pointing at objects already held (instance_new, class_new).             *)
New(o, kids) ==
    /\ o \notin objects
    /\ objects' = objects \cup {o}
    /\ refs' = [refs EXCEPT ![o] = kids]

(* A new object, held by its creator; a string also enters the intern      *)
(* table.                                                                  *)
Allocate(o, kids) ==
    /\ kids \subseteq roots
    /\ o \in Str => kids = {}
    /\ New(o, kids)
    /\ roots' = roots \cup {o}
    /\ strings' = strings \cup ({o} \cap Str)
    /\ UNCHANGED <<old, rememberedSet, gcEnabled, crashed>>

(* A held owner is given a held value, in a free slot or over what a slot  *)
(* held (dropped); the barrier follows every such store.                   *)
Store(owner, value, dropped) ==
    /\ owner \in roots \ Str
    /\ value \in roots
    /\ refs' = [refs EXCEPT ![owner] = (@ \ dropped) \cup {value}]
    /\ rememberedSet' = Barrier(owner, value)
    /\ UNCHANGED <<objects, old, strings, roots, gcEnabled, crashed>>

(* nil or a number overwrites references, or a map entry is deleted: key   *)
(* and value go together.                                                  *)
Erase(owner, dropped) ==
    /\ owner \in roots
    /\ refs' = [refs EXCEPT ![owner] = @ \ dropped]
    /\ UNCHANGED <<objects, old, strings, roots, rememberedSet, gcEnabled, crashed>>

(* A value read out of a held object becomes held.                         *)
Load(owner, value) ==
    /\ owner \in roots
    /\ value \in refs[owner]
    /\ roots' = roots \cup {value}
    /\ UNCHANGED heapVars

(* string_copy, string_take: a string whose contents exist already is      *)
(* found in the intern table, whether or not anything still reaches it.    *)
FindString(s) ==
    /\ s \in strings
    /\ roots' = roots \cup {s}
    /\ UNCHANGED heapVars

(* A value leaves the stack, the globals or the API roots.                 *)
Release(o) ==
    /\ o \in roots
    /\ roots' = roots \ {o}
    /\ UNCHANGED heapVars

(* GcDisable and GcEnable.                                                 *)
SetGcEnabled(on) ==
    /\ gcEnabled' = on
    /\ UNCHANGED <<heap, roots, rememberedSet, crashed>>

(* What one slot of an object may hold: nothing, or one of its references. *)
Slot(owner) == {{}} \cup {{r} : r \in refs[owner]}

Mutate ==
    /\ ~crashed
    /\ \/ \E o \in Obj, kids \in SUBSET roots :
             kids \in RefSets /\ Allocate(o, kids)
       \/ \E owner, value \in roots : \E dropped \in Slot(owner) :
             /\ (refs[owner] \ dropped) \cup {value} \in RefSets
             /\ Store(owner, value, dropped)
       \/ \E owner \in roots : \E dropped \in SUBSET refs[owner] : Erase(owner, dropped)
       \/ \E owner \in roots, value \in Obj : Load(owner, value)
       \/ \E o \in Obj : FindString(o) \/ Release(o)
       \/ \E on \in BOOLEAN : SetGcEnabled(on)

----------------------------------------------------------------------------
(* A collection, as one step.                                              *)

(* What a collection examines, and what it starts from: old objects are    *)
(* opaque to a minor collection, except that those remembered give their   *)
(* references.                                                             *)
Scope(major) == IF major THEN objects ELSE Young

Seeds(major) ==
    roots \cup (IF major THEN {} ELSE UNION {refs[o] : o \in rememberedSet \cap objects})

Traced(major, seeds, S) ==
    /\ seeds \cap Scope(major) \subseteq S
    /\ \A o \in S : refs[o] \cap Scope(major) \subseteq S

(* The least set with the seeds that is closed under references in scope.  *)
Marked(major, seeds) ==
    {o \in Scope(major) :
        \A S \in SUBSET Scope(major) : Traced(major, seeds, S) => o \in S}

White(major, seeds) == Scope(major) \ Marked(major, seeds)

(* A minor collection meets a freed object in the remembered set.          *)
MeetsFreed(major) == ~major /\ ~(rememberedSet \subseteq objects)

(* mark, trace, prune the intern table, sweep and promote.                 *)
Reclaim(major, seeds) ==
    LET white == White(major, seeds)
    IN  /\ objects' = objects \ white
        /\ old' = IF major THEN old \ white ELSE objects \ white
        /\ refs' = [o \in Obj |-> IF o \in white THEN {} ELSE refs[o]]
        /\ strings' = strings \ white
        /\ rememberedSet' = IF major THEN rememberedSet ELSE {}
        /\ UNCHANGED <<roots, gcEnabled, crashed>>

(* collect_garbage, from an allocation that crossed a threshold or from    *)
(* GcMinor or GcCollect; it returns at once when disabled.  Scanning a     *)
(* freed owner is undefined: its stale contents mark any young objects     *)
(* they happen to name, or the access takes the process down.              *)
CollectGarbage(major) ==
    /\ gcEnabled
    /\ ~crashed
    /\ \/ ~MeetsFreed(major) /\ Reclaim(major, Seeds(major))
       \/ /\ MeetsFreed(major)
          /\ \E stale \in SUBSET Young : Reclaim(major, Seeds(major) \cup stale)
       \/ /\ MeetsFreed(major)
          /\ crashed' = TRUE
          /\ UNCHANGED <<heap, roots, rememberedSet, gcEnabled>>

Next == Mutate \/ \E major \in BOOLEAN : CollectGarbage(major)

Spec == Init /\ [][Next]_vars

----------------------------------------------------------------------------
(* A pointer the program can follow never leads to freed memory: what is   *)
(* rooted, what a live object refers to and what the intern table lists    *)
(* are all allocated.                                                      *)
NoDangling ==
    /\ roots \subseteq objects
    /\ strings \subseteq objects
    /\ \A o \in objects : refs[o] \subseteq objects

(* The premise of a minor collection: every old object that refers to a    *)
(* young one is in the remembered set (gc.c:3-6).                          *)
OldToYoungRemembered ==
    \A o \in old : refs[o] \cap Young # {} => o \in rememberedSet
============================================================================
