---------------------------- MODULE ManagedHeap ----------------------------
(***************************************************************************)
(* What the memory manager of brokm promises to the rest of the program.   *)
(* A program holds some objects directly (roots), links objects to each    *)
(* other (refs), and never sees a collector: an object it can still reach  *)
(* is never taken away, whatever the collector's generations, barriers and *)
(* marking order do.                                                       *)
(***************************************************************************)
CONSTANTS
    Obj,                          \* object addresses the allocator hands out
    Str                           \* those that hold strings, interned by content

VARIABLES
    objects,                      \* allocated objects (the list vm->objects)
    refs,                         \* refs[o]: the objects that o points to
    roots                         \* objects the program holds directly

vars == <<objects, refs, roots>>

(***************************************************************************)
(* Reachable is the least set that contains the roots and is closed under  *)
(* refs, written without recursion so that it can be reasoned about: an    *)
(* object is reachable if every closed set holding the roots contains it.  *)
(***************************************************************************)
Closed(S) == roots \subseteq S /\ \A o \in S : refs[o] \subseteq S

Reachable == {o \in Obj : \A S \in SUBSET Obj : Closed(S) => o \in S}

----------------------------------------------------------------------------
Init ==
    /\ objects = {}
    /\ refs = [o \in Obj |-> {}]
    /\ roots = {}

(* A fresh object, pointing at things the program holds, becomes a root.   *)
Allocate(o, kids) ==
    /\ o \notin objects
    /\ kids \subseteq roots
    /\ objects' = objects \cup {o}
    /\ refs' = [refs EXCEPT ![o] = kids]
    /\ roots' = roots \cup {o}

(* A root object is made to point at things that can be reached; the       *)
(* program picks up or lets go of others in the same step.                 *)
Link(owner, kids) ==
    /\ owner \in roots
    /\ refs' = [refs EXCEPT ![owner] = kids]
    /\ UNCHANGED objects
    /\ kids \cup roots' \subseteq Reachable

(* The program picks up what it can reach, or any string that still exists *)
(* (equal contents are the same object), and lets go of what it likes.     *)
Move ==
    /\ UNCHANGED <<objects, refs>>
    /\ roots' \subseteq Reachable \cup (Str \cap objects)

(* Memory comes back: only objects the program can no longer reach.        *)
Reclaim(dead) ==
    /\ objects' = objects \ dead
    /\ refs' = [o \in Obj |-> IF o \in dead THEN {} ELSE refs[o]]
    /\ UNCHANGED roots
    /\ dead \subseteq objects \ Reachable

Next ==
    \/ \E o \in Obj, kids \in SUBSET Obj : Allocate(o, kids) \/ Link(o, kids)
    \/ Move
    \/ \E dead \in SUBSET Obj : Reclaim(dead)

Spec == Init /\ [][Next]_vars
============================================================================
