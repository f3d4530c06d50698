--------------------------- MODULE HeapOpsSafety ---------------------------
(***************************************************************************)
(* Proofs that the operations of module HeapOps keep what they use, that   *)
(* their stores keep the remembered set complete, and that they implement  *)
(* the memory manager of ManagedHeap: for any program without AddMethod.   *)
(***************************************************************************)
EXTENDS HeapOpsProofs

----------------------------------------------------------------------------
(* What the operation in progress works on.  A collection finds what is in *)
(* the operands and the globals (Steady), and what these refer to (Held).  *)
(* The strings of string_copy are on the stack above the operands.         *)
Slots    == {Operands[i] : i \in DOMAIN Operands}
Steady   == Slots \cup DOMAIN globals \cup ({globals[n] : n \in DOMAIN globals} \ {NULL})
Held     == Steady \cup UNION {refs[r] : r \in Steady}
Building == ({op.obj} \ {NULL}) \cup op.todo

HeapSound ==
    /\ strings \subseteq objects
    /\ \A o \in objects : refs[o] \subseteq objects
    /\ \A o \in old : refs[o] \cap (objects \ old) # {} => o \in rememberedSet
InUse == Roots \cup Locals \subseteq objects

(* Everything the operation still needs is held when it allocates, unless  *)
(* the collector is off.                                                   *)
InReach ==
    /\ Place \notin ImageLabels \cup {"finish", "class_fields", "run"} => Building \subseteq Held
    /\ op.at \in {"define", "assign", "new_native"} => op.str \in Held
    /\ Place \in {"next_arg", "arg_copied", "append_arg"} => op.obj \in Slots
CollectorOff ==
    /\ Place \in ImageLabels \cup {"new_class", "class_fields"} => ~gcEnabled
    /\ Place \in ImageLabels => old = {}

(* Why the stores without a barrier are sound: if a collection promoted    *)
(* the object being built, it promoted what is still to be stored.         *)
Untold ==
    /\ op.at = "class_fields" => op.obj \notin old
    /\ op.at = "field" /\ op.obj \in old => op.todo \cup Top(op.drop - 1) \subseteq old
    /\ Place = "name_function" /\ op.obj \in old => refs[Operands[Len(Operands) - 1]] \subseteq old
    /\ op.at = "constant" /\ op.obj \in old => op.todo \subseteq old
    /\ op.at # "bind_method"

Local == InReach /\ CollectorOff /\ Untold
PInv  == HeapSound /\ InUse /\ Local

(* A program without AddMethod, whose one barrier is not told of the name. *)
Told == "add_method" \notin program.ops

(* The stack and the roots.                                                *)

LEMMA StackAndSlots ==
  ASSUME TInv
  PROVE  /\ OnStack = {stack[i] : i \in 1 .. Len(stack)}
         /\ Slots = {Operands[i] : i \in 1 .. Len(Operands)} /\ Len(Operands) \in Nat
         /\ op.at \notin {"intern", "append_arg"} => Operands = stack /\ Slots = OnStack /\ Steady = Roots
         /\ op.at \in {"intern", "append_arg"} =>
               op.str \in OnStack /\ Slots \subseteq OnStack /\ Steady \subseteq Roots
<1>1. OnStack = {stack[i] : i \in 1 .. Len(stack)}
  BY StackTyped DEF OnStack
<1>2. CASE op.at \notin {"intern", "append_arg"}
  <2>1. Operands = stack
    BY <1>2 DEF Operands
  <2>2. Slots = OnStack
    BY <2>1 DEF Slots, OnStack
  <2>3. Steady = Roots
    BY <2>2 DEF Steady, Roots
  <2>4. Slots = {Operands[i] : i \in 1 .. Len(Operands)} /\ Len(Operands) \in Nat
    BY <1>1, <2>1, <2>2, StackTyped
  <2>5. QED
    BY <1>1, <1>2, <2>1, <2>2, <2>3, <2>4
<1>3. CASE op.at \in {"intern", "append_arg"}
  <2>1. 1 \in Nat /\ 1 <= Len(stack) /\ Operands = Drop(1) /\ op.str = stack[Len(stack)]
    BY <1>3, StackTyped, Elements DEF TInv, OperandsThere, Operands, Peek
  <2>2. /\ Drop(1) \in Seq(Obj) /\ Len(Drop(1)) = Len(stack) - 1
        /\ \A i \in 1 .. Len(stack) - 1 : Drop(1)[i] = stack[i]
    BY <2>1, StackTyped, DropThen
  <2>3. DOMAIN Operands = 1 .. Len(Operands) /\ Len(Operands) = Len(stack) - 1
    BY <2>1, <2>2, Elements
  <2>4. Slots = {stack[i] : i \in 1 .. Len(stack) - 1}
    BY <2>1, <2>2, <2>3 DEF Slots
  <2>5. op.str \in OnStack /\ Slots \subseteq OnStack
    BY <1>1, <2>1, <2>4, StackTyped
  <2>6. Steady \subseteq Roots
    BY <2>5 DEF Steady, Roots
  <2>7. Slots = {Operands[i] : i \in 1 .. Len(Operands)} /\ Len(Operands) \in Nat
    BY <2>3, StackTyped, <2>1 DEF Slots
  <2>8. QED
    BY <1>1, <1>3, <2>5, <2>6, <2>7
<1>4. QED
  BY <1>2, <1>3

LEMMA PushedStack ==
  ASSUME TInv, NEW x \in Obj, Push(x)
  PROVE  OnStack' = OnStack \cup {x}
<1>1. /\ stack' \in Seq(Obj) /\ Len(stack') = Len(stack) + 1
      /\ \A i \in 1 .. Len(stack) : stack'[i] = stack[i]
      /\ stack'[Len(stack')] = x
  BY StackTyped, PushThen
<1>2. DOMAIN stack' = 1 .. Len(stack) + 1
  BY <1>1, Elements
<1>3. QED
  BY <1>1, <1>2, StackTyped DEF OnStack

LEMMA ResultStack ==
  ASSUME TInv, NEW n \in Nat, n <= Len(stack), NEW x \in Obj, Result(n, x)
  PROVE  OnStack' \subseteq OnStack \cup {x}
<1>1. /\ stack' \in Seq(Obj) /\ Len(stack') = Len(stack) - n + 1
      /\ \A i \in 1 .. Len(stack) - n : stack'[i] = stack[i]
      /\ stack'[Len(stack')] = x
  BY StackTyped, ResultThen
<1>2. DOMAIN stack' = 1 .. Len(stack')
  BY <1>1, Elements
<1>3. QED
  BY <1>1, <1>2, StackTyped DEF OnStack

LEMMA DroppedStack ==
  ASSUME TInv, NEW n \in Nat, n <= Len(stack), stack' = Drop(n)
  PROVE  OnStack' \subseteq OnStack
<1>1. /\ stack' \in Seq(Obj) /\ Len(stack') = Len(stack) - n
      /\ \A i \in 1 .. Len(stack) - n : stack'[i] = stack[i]
  BY StackTyped, DropThen
<1>2. DOMAIN stack' = 1 .. Len(stack')
  BY <1>1, Elements
<1>3. QED
  BY <1>1, <1>2, StackTyped DEF OnStack

LEMMA HeldAllocated ==
  ASSUME TInv, HeapSound, InUse
  PROVE  Held \subseteq objects /\ Steady \subseteq Roots /\ Steady \subseteq objects
  BY StackAndSlots DEF Held, HeapSound, InUse

LEMMA HeldGrows ==
  ASSUME Steady \subseteq Steady', \A r \in Steady : refs[r] \subseteq refs'[r]
  PROVE  Held \subseteq Held'
  BY DEF Held

(* The heap stays sound.                                                   *)

LEMMA CreateSound ==
  ASSUME TInv, HeapSound, NEW o \in Obj, NEW kids \in SUBSET objects, Create(o, kids)
  PROVE  /\ HeapSound' /\ objects' = objects \cup {o} /\ o \notin objects /\ o \notin old'
         /\ \A r \in objects : refs'[r] = refs[r]
         /\ UNCHANGED <<old, strings, gcEnabled>>
<1>1. /\ o \notin objects /\ objects' = objects \cup {o} /\ refs' = [refs EXCEPT ![o] = kids]
      /\ UNCHANGED <<old, strings, rememberedSet, gcEnabled>>
  BY DEF Create, H!New
<1>2. \A r \in objects : refs'[r] = refs[r]
  BY <1>1 DEF TInv, HeapTypes
<1>3. refs'[o] = kids
  BY <1>1 DEF TInv, HeapTypes
<1>4. HeapSound'
  BY <1>1, <1>2, <1>3 DEF HeapSound, TInv, HeapTypes
<1>5. QED
  BY <1>1, <1>2, <1>4 DEF TInv, HeapTypes

LEMMA StoreSound ==
  ASSUME TInv, HeapSound, NEW owner \in objects, NEW dropped, NEW values \in SUBSET objects,
         NEW barriered, StoreIn(owner, dropped, values, barriered),
         owner \in old => values \subseteq old \cup barriered
  PROVE  /\ HeapSound'
         /\ dropped = {} => \A r \in Obj : refs[r] \subseteq refs'[r]
         /\ UNCHANGED <<objects, old, strings, gcEnabled>>
<1>1. /\ refs' = [refs EXCEPT ![owner] = (refs[owner] \ dropped) \cup values]
      /\ rememberedSet' = rememberedSet \cup UNION {H!Barrier(owner, v) : v \in barriered}
      /\ UNCHANGED <<objects, old, strings, gcEnabled>>
  BY DEF StoreIn
<1>2. /\ refs'[owner] = (refs[owner] \ dropped) \cup values
      /\ \A r \in Obj \ {owner} : refs'[r] = refs[r]
  BY <1>1 DEF TInv, HeapTypes
<1>3. \A o \in objects' : refs'[o] \subseteq objects'
  BY <1>1, <1>2 DEF HeapSound, TInv, HeapTypes
<1>4. ASSUME NEW o \in old, refs'[o] \cap (objects \ old) # {}
      PROVE  o \in rememberedSet'
  <2>1. CASE refs[o] \cap (objects \ old) # {}
    BY <1>1, <2>1 DEF HeapSound
  <2>2. CASE refs[o] \cap (objects \ old) = {}
    <3>1. o = owner /\ \E v \in values : v \in objects \ old
      BY <1>2, <1>4, <2>2 DEF TInv, HeapTypes
    <3>2. PICK v \in barriered : v \in objects \ old
      BY <3>1
    <3>3. owner \in H!Barrier(owner, v)
      BY <1>4, <3>1, <3>2 DEF H!Barrier, H!Young
    <3>4. QED
      BY <1>1, <3>1, <3>3
  <2>3. QED
    BY <2>1, <2>2
<1>5. HeapSound'
  BY <1>1, <1>3, <1>4 DEF HeapSound
<1>6. QED
  BY <1>1, <1>2, <1>5

LEMMA ToldStoreSound ==
  ASSUME TInv, HeapSound, NEW owner \in objects, NEW dropped, NEW values \in SUBSET objects,
         StoreIn(owner, dropped, values, values)
  PROVE  HeapSound' /\ objects' = objects
<1>1. owner \in old => values \subseteq old \cup values
  OBVIOUS
<1>2. QED
  BY <1>1, StoreSound
----------------------------------------------------------------------------
(* The same steps, seen from outside: what the program holds directly, and *)
(* what it can pick up by following one reference.                         *)
Own    == Roots \cup Locals
Follow == Own \cup UNION {refs[r] : r \in Own}

Implements == [Abstract!Next]_(Abstract!vars)

LEMMA FollowReachable ==
  ASSUME TInv, InUse
  PROVE  /\ Follow \subseteq Abstract!Reachable /\ Own \subseteq Follow /\ Held \subseteq Follow
         /\ Own \subseteq Obj /\ Follow \subseteq Obj
<1>1. Own \subseteq Obj
  BY DEF Own, InUse, TInv, HeapTypes
<1>2. Follow \subseteq Obj
  BY <1>1 DEF Follow, TInv, HeapTypes
<1>3. ASSUME NEW x \in Follow, NEW S \in SUBSET Obj, Abstract!Closed(S)
      PROVE  x \in S
  BY <1>3 DEF Follow, Own, Abstract!Closed
<1>4. Follow \subseteq Abstract!Reachable
  BY <1>2, <1>3 DEF Abstract!Reachable
<1>5. Own \subseteq Follow /\ Held \subseteq Follow
  BY StackAndSlots DEF Held, Follow, Own
<1>6. QED
  BY <1>1, <1>2, <1>4, <1>5

LEMMA MoveImplements ==
  ASSUME TInv, HeapSound, InUse, UNCHANGED <<objects, refs>>, Own' \subseteq Follow \cup strings
  PROVE  Implements
<1>1. strings \subseteq Str \cap objects
  BY DEF HeapSound, TInv, HeapTypes
<1>2. (Roots \cup Locals)' \subseteq Abstract!Reachable \cup (Str \cap objects)
  BY <1>1, FollowReachable DEF Own
<1>3. Abstract!Move
  BY <1>2 DEF Abstract!Move
<1>4. QED
  BY <1>3 DEF Implements, Abstract!Next

LEMMA LinkImplements ==
  ASSUME TInv, InUse, NEW owner \in Own, NEW kids \in SUBSET Follow,
         refs' = [refs EXCEPT ![owner] = kids], UNCHANGED objects, Own' \subseteq Follow
  PROVE  Implements
<1>1. owner \in Obj /\ kids \in SUBSET Obj
  BY FollowReachable
<1>2. kids \cup (Roots \cup Locals)' \subseteq Abstract!Reachable
  BY FollowReachable DEF Own
<1>3. Abstract!Link(owner, kids)
  BY <1>2 DEF Abstract!Link, Own
<1>4. QED
  BY <1>1, <1>3 DEF Implements, Abstract!Next

LEMMA StoreImplements ==
  ASSUME TInv, InUse, NEW owner \in Own, NEW dropped, NEW values \in SUBSET Follow, NEW barriered,
         StoreIn(owner, dropped, values, barriered), Own' \subseteq Follow
  PROVE  Implements
<1>1. refs' = [refs EXCEPT ![owner] = (refs[owner] \ dropped) \cup values] /\ UNCHANGED objects
  BY DEF StoreIn
<1>2. (refs[owner] \ dropped) \cup values \in SUBSET Follow
  BY DEF Follow
<1>3. QED
  BY <1>1, <1>2, LinkImplements

LEMMA CreateImplements ==
  ASSUME TInv, InUse, NEW o \in Obj, NEW kids \in SUBSET Own, Create(o, kids), Own' = Own \cup {o}
  PROVE  Implements
<1>1. o \notin objects /\ objects' = objects \cup {o} /\ refs' = [refs EXCEPT ![o] = kids]
  BY DEF Create, H!New
<1>2. kids \in SUBSET Obj
  BY FollowReachable
<1>3. Abstract!Allocate(o, kids)
  BY <1>1 DEF Abstract!Allocate, Own
<1>4. QED
  BY <1>2, <1>3 DEF Implements, Abstract!Next

LEMMA ReclaimImplements ==
  ASSUME TInv, HeapSound, InUse, NEW white \in SUBSET objects, objects' = objects \ white,
         refs' = [o \in Obj |-> IF o \in white THEN {} ELSE refs[o]],
         \A o \in objects \ white : refs[o] \cap white = {}, Own \cap white = {}, Own' = Own
  PROVE  Implements
<1>1. objects \ white \in SUBSET Obj /\ white \in SUBSET Obj
  BY DEF TInv, HeapTypes
<1>2. Abstract!Closed(objects \ white)
  BY DEF Abstract!Closed, Own, InUse, HeapSound
<1>3. white \subseteq objects \ Abstract!Reachable
  BY <1>1, <1>2 DEF Abstract!Reachable
<1>4. Abstract!Reclaim(white)
  BY <1>3 DEF Abstract!Reclaim, Own
<1>5. QED
  BY <1>1, <1>4 DEF Implements, Abstract!Next
----------------------------------------------------------------------------
(* The operations end, or move values.                                     *)

LEMMA Resting ==
  ASSUME op'.at \in {"run", "finish"}
  PROVE  Local'
BY DEF Local, InReach, CollectorOff, Untold, Place, StringLabels, ImageLabels

LEMMA RootsThen ==
  ASSUME InUse, UNCHANGED globals, objects \subseteq objects', OnStack' \subseteq objects'
  PROVE  Roots' \subseteq objects'
BY DEF InUse, Roots

LEMMA LocalsAllocated ==
  ASSUME TInv, InUse
  PROVE  /\ op.obj # NULL => op.obj \in objects
         /\ op.str # NULL => op.str \in objects
         /\ op.todo \subseteq objects
BY OpTyped, HeapOpsAssumption DEF InUse, Locals

LEMMA FollowAllocated ==
  ASSUME HeapSound, InUse
  PROVE  Follow \subseteq objects
BY DEF HeapSound, InUse, Follow, Own

(* It ends with values that it had, or that it read.                       *)
LEMMA RestMoves ==
  ASSUME TInv, HeapSound, InUse, op' = Idle,
         UNCHANGED <<objects, old, refs, strings, rememberedSet>>, OnStack' \subseteq Follow,
         UNCHANGED globals
           \/ DOMAIN globals' \cup ({globals'[n] : n \in DOMAIN globals'} \ {NULL}) \subseteq Follow
  PROVE  PInv' /\ Implements
<1>1. op'.at = "run" /\ Locals' = {}
  BY DEF Idle, Locals
<1>2. DOMAIN globals' \cup ({globals'[n] : n \in DOMAIN globals'} \ {NULL}) \subseteq Follow
  BY FollowReachable DEF Own, Roots
<1>3. Roots' \subseteq Follow
  BY <1>2 DEF Roots
<1>4. HeapSound' /\ InUse'
  BY <1>1, <1>3, FollowAllocated DEF HeapSound, InUse
<1>5. Implements
  BY <1>1, <1>3, MoveImplements DEF Own
<1>6. QED
  BY <1>1, <1>4, <1>5, Resting DEF PInv

(* It ends with a store that the barrier is told of.                       *)
LEMMA RestStores ==
  ASSUME TInv, HeapSound, InUse, op' = Idle, UNCHANGED globals, OnStack' \subseteq OnStack,
         NEW owner \in OnStack, NEW dropped, NEW values \in SUBSET OnStack,
         StoreIn(owner, dropped, values, values)
  PROVE  PInv' /\ Implements
<1>1. op'.at = "run" /\ Locals' = {}
  BY DEF Idle, Locals
<1>2. OnStack \subseteq objects /\ OnStack \subseteq Own
  BY DEF InUse, Roots, Own
<1>3. owner \in objects /\ values \in SUBSET objects
  BY <1>2
<1>4. HeapSound' /\ objects' = objects
  BY <1>3, ToldStoreSound
<1>5. Roots' \subseteq Roots
  BY DEF Roots
<1>6. InUse' /\ Own' \subseteq Own
  BY <1>1, <1>4, <1>5 DEF InUse, Own
<1>7. owner \in Own /\ values \in SUBSET Follow /\ Own' \subseteq Follow
  BY <1>2, <1>6, FollowReachable
<1>8. Implements
  BY <1>7, StoreImplements
<1>9. QED
  BY <1>1, <1>4, <1>6, <1>8, Resting DEF PInv

LEMMA EndPInv ==
  ASSUME TInv, PInv, End, ~GcNative
  PROVE  PInv' /\ Implements
<1>1. HeapSound /\ InUse /\ op.at # "bind_method"
  BY DEF PInv, Local, Untold
<1> OnStack \subseteq Own /\ Own \subseteq Follow
  BY <1>1, FollowReachable DEF Own, Roots
<1>2. CASE Finish \/ FinishString
  <2>1. PICK x \in Obj : x \in Own /\ Result(op.drop, x) /\ op.at \in {"finish", "finish_string"}
    <3>1. CASE Finish
      BY <3>1, InHand
         DEF Own, Locals, Finish, At, TInv, OpTypes, Place, HasObj, StringLabels
    <3>2. CASE FinishString
      BY <3>2, InHand
         DEF Own, Locals, FinishString, At, TInv, OpTypes, Place, HasStr, Returns, StringLabels
    <3>3. QED
      BY <1>2, <3>1, <3>2
  <2>2. op.drop \in Nat /\ op.drop <= Len(stack)
    BY <2>1, OpTyped DEF TInv, OperandsThere, Operands
  <2>3. OnStack' \subseteq Follow
    BY <2>1, <2>2, ResultStack
  <2>4. op' = Idle /\ UNCHANGED <<heap, globals>>
    BY <1>2 DEF Finish, FinishString
  <2>5. QED
    BY <1>1, <2>3, <2>4, RestMoves DEF heap
<1>3. CASE IndexSet \/ MapDelete
  <2>1. op = Idle /\ UNCHANGED <<op, globals>> /\ Len(stack) >= 2
    BY <1>3, ReadyRests, StackTyped DEF IndexSet, MapDelete, Is
  <2>2. 2 \in Nat /\ 2 <= Len(stack)
    BY <2>1, StackTyped
  <2>3. Peek(0) \in OnStack /\ Peek(1) \in OnStack /\ Peek(0) \in Obj
    BY <2>2, StackTyped, StackAndSlots DEF Peek
  <2>4. \E dropped : \E values \in SUBSET OnStack : StoreIn(Peek(1), dropped, values, values)
    <3>1. {} \in SUBSET OnStack /\ {Peek(0)} \in SUBSET OnStack
      BY <2>3
    <3>2. QED
      BY <1>3, <3>1 DEF IndexSet, MapDelete
  <2>5. OnStack' \subseteq OnStack
    BY <1>3, <2>2, <2>3, ResultStack, DroppedStack DEF IndexSet, MapDelete
  <2>6. QED
    BY <1>1, <2>1, <2>3, <2>4, <2>5, RestStores
<1>4. CASE StoreField
  <2>1. op' = Idle /\ UNCHANGED globals /\ Len(stack) >= 2
    BY <1>4 DEF StoreField, At, TInv, OperandsThere, Place, Operands, StringLabels, Depth
  <2>2. 2 \in Nat /\ 2 <= Len(stack)
    BY <2>1, StackTyped
  <2>3. Peek(0) \in OnStack /\ Peek(1) \in OnStack /\ Peek(0) \in Obj
    BY <2>2, StackTyped, StackAndSlots DEF Peek
  <2>4. {Peek(0)} \in SUBSET OnStack /\ \E dropped : StoreIn(Peek(1), dropped, {Peek(0)}, {Peek(0)})
    BY <1>4, <2>3 DEF StoreField
  <2>5. OnStack' \subseteq OnStack
    BY <1>4, <2>2, <2>3, ResultStack DEF StoreField
  <2>6. QED
    BY <1>1, <2>1, <2>3, <2>4, <2>5, RestStores
<1>5. CASE SetEntry
  <2>1. op' = Idle /\ UNCHANGED globals /\ Len(stack) >= 3
    BY <1>5 DEF SetEntry, At, TInv, OperandsThere, Place, Operands, StringLabels, Depth
  <2>2. 3 \in Nat /\ 3 <= Len(stack)
    BY <2>1, StackTyped
  <2>3. Peek(2) \in OnStack /\ Peek(2) \in Obj /\ Top(2) \subseteq OnStack
    BY <2>2, StackTyped, StackAndSlots DEF Peek, Top
  <2>4. Top(2) \in SUBSET OnStack /\ \E dropped : StoreIn(Peek(2), dropped, Top(2), Top(2))
    BY <1>5, <2>3 DEF SetEntry
  <2>5. OnStack' \subseteq OnStack
    BY <1>5, <2>2, <2>3, ResultStack DEF SetEntry
  <2>6. QED
    BY <1>1, <2>1, <2>3, <2>4, <2>5, RestStores
<1>6. CASE GlobalDefined \/ GlobalAssigned
  <2>1. op' = Idle /\ UNCHANGED heap /\ op.drop \in Nat /\ op.drop <= Len(stack)
        /\ op.str # NULL
    BY <1>6, OpTyped DEF GlobalDefined, GlobalAssigned, At, TInv, OpTypes, OperandsThere, Place,
       Operands, StringLabels, HasStr
  <2>2. OnStack' \subseteq Follow
    <3>1. CASE stack' = Drop(op.drop)
      BY <2>1, <3>1, DroppedStack
    <3>2. CASE stack' = stack
      BY <3>2 DEF OnStack
    <3>3. CASE stack' = <<>>
      BY <3>3 DEF OnStack
    <3>4. QED
      BY <1>6, <3>1, <3>2, <3>3 DEF GlobalDefined, GlobalAssigned
  <2>3. CASE UNCHANGED globals
    BY <1>1, <2>1, <2>2, <2>3, RestMoves DEF heap
  <2>4. CASE Define
    <3>1. DOMAIN globals \subseteq Own /\ {globals[n] : n \in DOMAIN globals} \ {NULL} \subseteq Own
          /\ op.str \in Own /\ op.obj \in Own \cup {NULL}
      BY <2>1 DEF Own, Roots, Locals
    <3>2. DOMAIN globals' \cup ({globals'[n] : n \in DOMAIN globals'} \ {NULL}) \subseteq Follow
      BY <2>4, <3>1 DEF Define
    <3>3. QED
      BY <1>1, <2>1, <2>2, <3>2, RestMoves DEF heap
  <2>5. QED
    BY <1>6, <2>3, <2>4 DEF GlobalDefined, GlobalAssigned
<1>7. CASE BootstrapEnds
  <2>1. op' = Idle /\ Push(op.obj) /\ UNCHANGED <<objects, old, refs, strings, rememberedSet, globals>>
    BY <1>7 DEF BootstrapEnds
  <2>2. op.obj # NULL
    BY <1>7, AtImage DEF BootstrapEnds, At, ImageLabels
  <2>3. op.obj \in Obj /\ op.obj \in Own
    BY <2>2, InHand DEF Own, Locals
  <2>4. OnStack' \subseteq Follow
    BY <2>1, <2>3, PushedStack
  <2>5. QED
    BY <1>1, <2>1, <2>4, RestMoves
<1>8. CASE Constant \/ Pop \/ GetVariable \/ Load
  <2>1. op' = Idle /\ UNCHANGED <<heap, globals>>
    BY <1>8, ReadyRests DEF Constant, Pop, GetVariable, Load
  <2>2. OnStack' \subseteq Follow
    <3>1. CASE Constant \/ GetVariable
      <4>1. PICK x \in Follow : Push(x)
        BY <3>1 DEF Constant, GetVariable, Follow, Own, Roots
      <4>2. x \in Obj
        BY <1>1, FollowReachable
      <4>3. QED
        BY <4>1, <4>2, PushedStack
    <3>2. CASE Pop
      <4>1. 1 \in Nat /\ 1 <= Len(stack) /\ stack' = Drop(1)
        BY <3>2, StackTyped, Elements DEF Pop
      <4>2. QED
        BY <4>1, DroppedStack
    <3>3. CASE Load
      <4>1. 1 \in Nat /\ 1 <= Len(stack) /\ Peek(0) \in OnStack
        BY <3>3, StackTyped, StackAndSlots DEF Load, Is, Peek
      <4>2. PICK x \in Follow : Result(1, x)
        BY <3>3, <4>1 DEF Load, Follow
      <4>3. x \in Obj
        BY <1>1, FollowReachable
      <4>4. QED
        BY <4>1, <4>2, <4>3, ResultStack
    <3>4. QED
      BY <1>8, <3>1, <3>2, <3>3
  <2>3. QED
    BY <1>1, <2>1, <2>2, RestMoves DEF heap
<1>9. CASE GcSwitch
  <2>1. op' = Idle /\ UNCHANGED <<objects, old, refs, strings, rememberedSet, stack, globals>>
    BY <1>9, ReadyRests DEF GcSwitch
  <2>2. OnStack' \subseteq Follow
    BY <2>1 DEF OnStack
  <2>3. QED
    BY <1>1, <2>1, <2>2, RestMoves
<1>10. CASE BindMethod
  BY <1>1, <1>10 DEF BindMethod, At
<1>11. QED
  BY <1>2, <1>3, <1>4, <1>5, <1>6, <1>7, <1>8, <1>9, <1>10 DEF End
----------------------------------------------------------------------------
(* An operation begins: what it will store is on the stack, in a global,   *)
(* or referred to by what is there.                                        *)

LEMMA BegunPInv ==
  ASSUME TInv, PInv, op.at = "run", UNCHANGED <<heap, stack, globals>>,
         op'.at \notin {"intern", "append_arg", "class_fields", "field", "constant", "bind_method"},
         Place' \notin ImageLabels \cup {"new_class", "class_fields", "name_function", "next_arg",
                                         "arg_copied", "append_arg"},
         Building' \subseteq Held, op'.str \in Held \cup {NULL},
         op'.at \in {"define", "assign", "new_native"} => op'.str \in Held
  PROVE  PInv' /\ Implements
<1>1. HeapSound /\ InUse
  BY DEF PInv
<1>2. Held' = Held
  <2>1. Operands' = stack /\ Operands = stack
    BY DEF Operands
  <2>2. Slots' = Slots
    BY <2>1 DEF Slots
  <2>3. Steady' = Steady
    BY <2>2 DEF Steady
  <2>4. QED
    BY <2>3 DEF Held, heap
<1>3. Locals' \subseteq objects
  BY <1>1, HeldAllocated DEF Locals, Building
<1>4. Roots' = Roots
  BY DEF Roots, OnStack
<1>5. HeapSound' /\ InUse'
  BY <1>1, <1>3, <1>4 DEF HeapSound, InUse, heap
<1>6. InReach'
  BY <1>2 DEF InReach
<1>7. CollectorOff' /\ Untold'
  BY DEF CollectorOff, Untold
<1>8. Implements
  <2>1. Locals' \subseteq Follow /\ Roots \subseteq Follow
    BY <1>1, FollowReachable DEF Locals, Building, Own
  <2>2. QED
    BY <1>1, <1>4, <2>1, MoveImplements DEF Own, heap
<1>9. QED
  BY <1>5, <1>6, <1>7, <1>8 DEF PInv, Local

LEMMA HeldAtRest ==
  ASSUME TInv, op.at = "run"
  PROVE  /\ Steady = Roots /\ Roots \subseteq Held /\ OnStack \subseteq Held
         /\ \A r \in OnStack : refs[r] \subseteq Held
         /\ \A i \in 0 .. Len(stack) - 1 : Peek(i) \in OnStack
         /\ \A n : Top(n) \subseteq OnStack
<1>1. Steady = Roots
  BY StackAndSlots
<1>2. \A i \in 0 .. Len(stack) - 1 : Peek(i) \in OnStack
  BY StackTyped, StackAndSlots DEF Peek
<1>3. \A n : Top(n) \subseteq OnStack
  BY DEF Top, OnStack
<1>4. QED
  BY <1>1, <1>2, <1>3 DEF Held, Roots

LEMMA StartPInv ==
  ASSUME TInv, PInv, Told, Start
  PROVE  PInv' /\ Implements
<1>1. op.at = "run" /\ UNCHANGED <<heap, stack, globals>> /\ Len(stack) \in Nat
  BY StartBegins, StackTyped
<1>2. CASE CopyString \/ Concatenate \/ DefineNative
  <2>1. /\ op'.at \in {"find", "take"} /\ op'.ret \in {"finish_string", "native_name"}
        /\ op'.obj = NULL /\ op'.todo = {} /\ op'.str = NULL
    BY <1>2 DEF CopyString, Concatenate, DefineNative, BeginCopy, Begin, Alloc, Idle
  <2>2. Place' \in {"finish_string", "native_name"} /\ Building' = {}
    BY <2>1 DEF Place, StringLabels, Building
  <2>3. QED
    BY <1>1, <2>1, <2>2, BegunPInv DEF ImageLabels
<1>3. CASE HostSetGlobal
  <2>1. PICK v \in Roots \cup {NULL} : /\ op'.at = "find" /\ op'.ret = "host_name"
                                       /\ op'.obj = v /\ op'.todo = {} /\ op'.str = NULL
    BY <1>3 DEF HostSetGlobal, BeginCopy, Begin, Idle
  <2>2. Place' = "host_name" /\ Building' = {v} \ {NULL}
    BY <2>1 DEF Place, StringLabels, Building
  <2>3. Building' \subseteq Held
    BY <1>1, <2>2, HeldAtRest
  <2>4. QED
    BY <1>1, <2>1, <2>2, <2>3, BegunPInv DEF ImageLabels
<1>4. CASE Args \/ MapNew \/ MapSet \/ SetField \/ Assemble
  <2>1. /\ op'.at \in {"args_array", "new_map", "set_entry", "store_field", "new_function"}
        /\ op'.obj = NULL /\ op'.todo = {} /\ op'.str = NULL
    BY <1>4 DEF Args, MapNew, MapSet, SetField, Assemble, Begin, Alloc, Idle
  <2>2. Place' = op'.at /\ Building' = {}
    BY <2>1 DEF Place, StringLabels, Building
  <2>3. QED
    BY <1>1, <2>1, <2>2, BegunPInv DEF ImageLabels
<1>5. CASE AddMethod
  BY <1>5 DEF AddMethod, Begin, Ready, Told
<1>6. CASE ArrayLiteral \/ MapKeys \/ ChunkConsts \/ Construct
  <2>1. /\ op'.at \in {"new_array", "new_instance"} /\ op'.obj = NULL /\ op'.str = NULL
    BY <1>6 DEF ArrayLiteral, MapKeys, ChunkConsts, Construct, CopyOut, Begin, Alloc, Idle
  <2>2. Place' = op'.at /\ Building' = op'.todo
    BY <2>1 DEF Place, StringLabels, Building
  <2>3. op'.todo \subseteq Held
    <3>1. CASE ArrayLiteral
      <4>1. PICK n : op'.todo = Top(n)
        BY <3>1 DEF ArrayLiteral, Begin, Alloc, Idle
      <4>2. QED
        BY <1>1, <4>1, HeldAtRest
    <3>2. CASE MapKeys \/ ChunkConsts
      <4>1. Len(stack) > 0 /\ op'.todo \subseteq refs[Peek(0)]
        BY <3>2 DEF MapKeys, ChunkConsts, CopyOut, Begin, Is, Alloc, Idle
      <4>2. 0 \in 0 .. Len(stack) - 1
        BY <1>1, <4>1
      <4>3. QED
        BY <1>1, <4>1, <4>2, HeldAtRest
    <3>3. CASE Construct
      <4>1. PICK argCount \in 0 .. 2 : Len(stack) > argCount /\ op'.todo \subseteq refs[Peek(argCount)]
        BY <3>3 DEF Construct, Begin, Is, Alloc, Idle
      <4>2. argCount \in 0 .. Len(stack) - 1
        BY <1>1, <4>1
      <4>3. QED
        BY <1>1, <4>1, <4>2, HeldAtRest
    <3>4. QED
      BY <1>6, <3>1, <3>2, <3>3
  <2>4. QED
    BY <1>1, <2>1, <2>2, <2>3, BegunPInv DEF ImageLabels
<1>7. CASE AppendNative
  <2>1. /\ op'.at = "append" /\ op'.obj = Peek(1) /\ op'.todo = {Peek(0)} /\ op'.str = NULL
        /\ Len(stack) > 1
    BY <1>7 DEF AppendNative, Begin, Is, Alloc, Idle
  <2>2. 0 \in 0 .. Len(stack) - 1 /\ 1 \in 0 .. Len(stack) - 1
    BY <1>1, <2>1
  <2>3. Place' = "append" /\ Building' \subseteq {Peek(0), Peek(1)}
    BY <2>1 DEF Place, StringLabels, Building
  <2>4. Building' \subseteq Held
    BY <1>1, <2>2, <2>3, HeldAtRest
  <2>5. QED
    BY <1>1, <2>1, <2>3, <2>4, BegunPInv DEF ImageLabels
<1>8. CASE DefineGlobal \/ SetGlobal
  <2>1. \E f \in OnStack, v \in {NULL} \cup Top(1) :
          /\ op'.at \in {"define", "assign"} /\ op'.str \in refs[f] /\ op'.obj = v /\ op'.todo = {}
    <3>1. CASE DefineGlobal
      BY <3>1 DEF DefineGlobal, GlobalOp, Begin, Alloc, Idle
    <3>2. CASE SetGlobal
      BY <3>2 DEF SetGlobal, GlobalOp, Begin, Alloc, Idle
    <3>3. QED
      BY <1>8, <3>1, <3>2
  <2>2. /\ op'.at \in {"define", "assign"} /\ op'.str \in Held
        /\ op'.obj \in Held \cup {NULL} /\ op'.todo = {}
    BY <1>1, <2>1, HeldAtRest
  <2>3. Place' = op'.at /\ Building' \subseteq Held
    BY <2>2 DEF Place, StringLabels, Building
  <2>4. QED
    BY <1>1, <2>2, <2>3, BegunPInv DEF ImageLabels
<1>9. QED
  BY <1>2, <1>3, <1>4, <1>5, <1>6, <1>7, <1>8 DEF Start
----------------------------------------------------------------------------
(* Strings: whatever a string is made for, its operation is at the same    *)
(* place with the same operands until the string is there.                 *)

LEMMA StringLocal ==
  ASSUME TInv, PInv, op.at \in StringLabels, op'.at \in StringLabels \cup Returns,
         Place' = Place, Operands' = Operands, op'.obj = op.obj, op'.todo = op.todo,
         UNCHANGED <<globals, old, gcEnabled>>, \A r \in objects : refs'[r] = refs[r]
  PROVE  Local'
<1>1. Local /\ Steady \subseteq objects
  BY HeldAllocated DEF PInv
<1>2. Slots' = Slots
  BY DEF Slots
<1>3. Steady' = Steady
  BY <1>2 DEF Steady
<1>4. Held' = Held
  BY <1>1, <1>3 DEF Held
<1>5. Building' = Building
  BY DEF Building
<1>6. op'.at \notin {"define", "assign", "new_native", "class_fields", "field", "constant", "bind_method"}
  BY DEF StringLabels, Returns
<1>7. InReach'
  BY <1>1, <1>2, <1>4, <1>5, <1>6 DEF Local, InReach
<1>8. CollectorOff'
  BY <1>1 DEF Local, CollectorOff
<1>9. Untold'
  <2>1. ASSUME Place = "name_function"
        PROVE  refs'[Operands[Len(Operands) - 1]] = refs[Operands[Len(Operands) - 1]]
    <3>1. Len(Operands) \in Nat /\ Len(Operands) >= 2
      BY <2>1, StackAndSlots DEF TInv, OperandsThere, Depth
    <3>2. Len(Operands) - 1 \in 1 .. Len(Operands)
      BY <3>1
    <3>3. Operands[Len(Operands) - 1] \in Slots
      BY <3>2, StackAndSlots
    <3>4. QED
      BY <1>1, <3>3 DEF Steady
  <2>2. QED
    BY <1>1, <1>6, <2>1 DEF Local, Untold
<1>10. QED
  BY <1>7, <1>8, <1>9 DEF Local

LEMMA StringStepPInv ==
  ASSUME TInv, PInv, FindString \/ CopyChars \/ AllocateString \/ InternString
  PROVE  PInv' /\ Implements
<1>1. HeapSound /\ InUse /\ OnStack \subseteq objects
  BY DEF PInv, InUse, Roots
<1> Own \subseteq Follow
  BY <1>1, FollowReachable
<1>2. CASE FindString
  <2>1. /\ op.at \in {"find", "take"} /\ op.at \in StringLabels
        /\ UNCHANGED <<heap, stack, globals>>
    BY <1>2 DEF FindString, At, StringLabels
  <2>2. /\ op'.at \in {"new_string", "copy_chars", op.ret} /\ op'.ret = op.ret
        /\ op'.obj = op.obj /\ op'.todo = op.todo /\ op'.str \in strings \cup {op.str}
    BY <1>2, OpTyped DEF FindString, OpRecord
  <2>3. Place' = Place /\ Operands' = Operands /\ op'.at \in StringLabels \cup Returns
    <3>1. op.ret \in Returns
      BY <2>1, AtString
    <3>2. QED
      BY <2>1, <2>2, <3>1 DEF Place, Operands, StringLabels, Returns
  <2>4. Local'
    BY <2>1, <2>2, <2>3, StringLocal DEF heap
  <2>5. Locals' \subseteq Locals \cup strings
    BY <2>2 DEF Locals
  <2>6. Roots' = Roots
    BY <2>1 DEF Roots, OnStack
  <2>7. HeapSound' /\ InUse'
    BY <1>1, <2>1, <2>5, <2>6 DEF HeapSound, InUse, heap
  <2>8. Implements
    BY <1>1, <2>1, <2>5, <2>6, MoveImplements DEF Own, heap
  <2>9. QED
    BY <2>4, <2>7, <2>8 DEF PInv
<1>3. CASE CopyChars
  <2>1. op.at = "copy_chars" /\ op.at \in StringLabels /\ UNCHANGED <<heap, stack, globals>>
    BY <1>3 DEF CopyChars, At, StringLabels
  <2>2. /\ op'.at = "new_string" /\ op'.ret = op.ret
        /\ op'.obj = op.obj /\ op'.todo = op.todo /\ op'.str = op.str
    BY <1>3, OpTyped DEF CopyChars, OpRecord
  <2>3. Place' = Place /\ Operands' = Operands /\ op'.at \in StringLabels \cup Returns
    BY <2>1, <2>2 DEF Place, Operands, StringLabels
  <2>4. Local'
    BY <2>1, <2>2, <2>3, StringLocal DEF heap
  <2>5. Roots' = Roots /\ Locals' = Locals
    BY <2>1, <2>2 DEF Roots, OnStack, Locals
  <2>6. HeapSound' /\ InUse'
    BY <1>1, <2>1, <2>5 DEF HeapSound, InUse, heap
  <2>7. Implements
    BY <1>1, <2>1, <2>5, MoveImplements DEF Own, heap
  <2>8. QED
    BY <2>4, <2>6, <2>7 DEF PInv
<1>4. CASE AllocateString
  <2>1. PICK s \in Obj : /\ op.at = "new_string" /\ op.at \in StringLabels
                         /\ Create(s, {}) /\ Push(s) /\ UNCHANGED globals
                         /\ op' = [op EXCEPT !.at = "intern", !.alloc = TRUE, !.str = s]
    BY <1>4, FreshAddresses DEF AllocateString, At, StringLabels
  <2>2. /\ op'.at = "intern" /\ op'.ret = op.ret
        /\ op'.obj = op.obj /\ op'.todo = op.todo /\ op'.str = s
    BY <2>1, OpTyped DEF OpRecord
  <2>3. Drop(1)' = stack /\ OnStack' = OnStack \cup {s}
    BY <2>1, StackTyped, PushThen, PushedStack
  <2>4. Place' = Place /\ Operands' = Operands /\ op'.at \in StringLabels \cup Returns
    BY <2>1, <2>2, <2>3 DEF Place, Operands, StringLabels
  <2>5. /\ HeapSound' /\ objects' = objects \cup {s} /\ \A r \in objects : refs'[r] = refs[r]
        /\ UNCHANGED <<old, gcEnabled>>
    <3>1. {} \in SUBSET objects
      OBVIOUS
    <3>2. QED
      BY <1>1, <2>1, <3>1, CreateSound
  <2>6. Local'
    BY <2>1, <2>2, <2>4, <2>5, StringLocal
  <2>7. Locals' = Locals \cup {s}
    <3>1. op.str = NULL /\ s # NULL
      BY <2>1, AtString, HeapOpsAssumption
    <3>2. QED
      BY <2>2, <3>1 DEF Locals
  <2>8. Roots' = Roots \cup {s}
    BY <2>1, <2>3 DEF Roots
  <2>9. InUse'
    BY <1>1, <2>5, <2>7, <2>8 DEF InUse
  <2>10. Implements
    <3>1. {} \in SUBSET Own /\ Own' = Own \cup {s}
      BY <2>7, <2>8 DEF Own
    <3>2. QED
      BY <1>1, <2>1, <3>1, CreateImplements
  <2>11. QED
    BY <2>5, <2>6, <2>9, <2>10 DEF PInv
<1>5. CASE InternString
  <2>1. /\ op.at = "intern" /\ op.at \in StringLabels /\ stack' = Drop(1)
        /\ strings' = strings \cup {op.str}
        /\ UNCHANGED <<objects, old, refs, rememberedSet, gcEnabled, crashed, globals>>
    BY <1>5 DEF InternString, At, StringLabels
  <2>2. /\ op'.at = op.ret /\ op'.ret = op.ret
        /\ op'.obj = op.obj /\ op'.todo = op.todo /\ op'.str = op.str
    BY <1>5, OpTyped DEF InternString, OpRecord
  <2>3. op.ret \in Returns /\ op.str # NULL
    BY <2>1, AtString
  <2>4. Place' = Place /\ Operands' = Operands /\ op'.at \in StringLabels \cup Returns
    BY <2>1, <2>2, <2>3 DEF Place, Operands, StringLabels, Returns
  <2>5. Local'
    BY <2>1, <2>2, <2>4, StringLocal
  <2>6. OnStack' \subseteq OnStack
    <3>1. 1 \in Nat /\ 1 <= Len(stack)
      BY <2>1, StackTyped, Elements DEF TInv, OperandsThere
    <3>2. QED
      BY <2>1, <3>1, DroppedStack
  <2>7. op.str \in objects
    BY <1>1, <2>3, LocalsAllocated
  <2>8. Roots' \subseteq Roots /\ Locals' = Locals
    BY <2>1, <2>2, <2>6 DEF Roots, Locals
  <2>9. HeapSound' /\ InUse'
    BY <1>1, <2>1, <2>7, <2>8 DEF HeapSound, InUse
  <2>10. Implements
    BY <1>1, <2>1, <2>8, MoveImplements DEF Own
  <2>11. QED
    BY <2>5, <2>9, <2>10 DEF PInv
<1>6. QED
  BY <1>2, <1>3, <1>4, <1>5
----------------------------------------------------------------------------
(* A collection: what the operation in progress works on is held, so it    *)
(* survives, and what survives a minor collection is old.                  *)

LEMMA WhatACollectionKeeps ==
  ASSUME TInv, PInv, gcEnabled, op.alloc \/ op = Idle
  PROVE  /\ Building \subseteq Held
         /\ op.str \in Held \cup OnStack \cup {NULL}
         /\ Place \notin ImageLabels
<1>1. Local
  BY DEF PInv
<1>2. Place \notin ImageLabels \cup {"new_class", "class_fields"}
  BY <1>1 DEF Local, CollectorOff
<1>3. CASE op = Idle
  <2>1. Building = {} /\ op.str = NULL
    BY <1>3 DEF Idle, Building
  <2>2. QED
    BY <1>2, <2>1
<1>4. CASE op.alloc
  <2>1. op.at \notin NoAlloc
    BY <1>4 DEF TInv, OpTypes
  <2>2. Place \notin {"finish", "run"}
    <3>1. CASE op.at \in StringLabels
      BY <3>1, AtString DEF Returns
    <3>2. CASE op.at \notin StringLabels
      BY <2>1, <3>2 DEF Place, NoAlloc
    <3>3. QED
      BY <3>1, <3>2
  <2>3. Building \subseteq Held
    BY <1>1, <1>2, <2>2 DEF Local, InReach
  <2>4. op.str \in Held \cup OnStack \cup {NULL}
    <3>1. CASE op.at \in {"intern", "append_arg"}
      BY <3>1, StackAndSlots
    <3>2. CASE op.at \in {"define", "assign", "new_native"}
      BY <1>1, <3>2 DEF Local, InReach
    <3>3. CASE op.at \notin {"intern", "append_arg", "define", "assign", "new_native"}
      <4>1. op.at \notin ImageLabels
        BY <1>2 DEF Place, ImageLabels, StringLabels
      <4>2. op.at \notin HasStr
        BY <2>1, <3>3, <4>1 DEF HasStr, NoAlloc, ImageLabels
      <4>3. QED
        BY <4>1, <4>2 DEF TInv, OpTypes
    <3>4. QED
      BY <3>1, <3>2, <3>3
  <2>5. QED
    BY <1>2, <2>3, <2>4
<1>5. QED
  BY <1>3, <1>4

(* Nothing that matters changes.                                           *)
LEMMA SamePInv ==
  ASSUME TInv, PInv, UNCHANGED <<objects, old, refs, strings, rememberedSet, gcEnabled, stack, globals>>,
         op'.at = op.at, op'.ret = op.ret, op'.obj = op.obj,
         op'.str = op.str, op'.todo = op.todo, op'.drop = op.drop
  PROVE  PInv' /\ Implements
<1>1. Place' = Place /\ Operands' = Operands /\ Building' = Building /\ Locals' = Locals
  BY DEF Place, Operands, Drop, Building, Locals
<1>2. OnStack' = OnStack /\ Slots' = Slots /\ Top(op.drop - 1)' = Top(op.drop - 1)
  BY <1>1 DEF OnStack, Slots, Top
<1>3. Roots' = Roots /\ Steady' = Steady
  BY <1>2 DEF Roots, Steady
<1>4. HeapSound' /\ InUse'
  BY <1>1, <1>3 DEF PInv, HeapSound, InUse
<1>5. Held' = Held
  BY <1>3 DEF Held
<1>6. Local'
  BY <1>1, <1>2, <1>5 DEF PInv, Local, InReach, CollectorOff, Untold
<1>7. Implements
  <2>1. Own' \subseteq Follow /\ HeapSound /\ InUse
    BY <1>1, <1>3, FollowReachable DEF PInv, Own
  <2>2. QED
    BY <2>1, MoveImplements
<1>8. QED
  BY <1>4, <1>6, <1>7 DEF PInv

LEMMA CollectionPInv ==
  ASSUME TInv, PInv, NEW major \in BOOLEAN, H!CollectGarbage(major), op.alloc \/ op = Idle,
         UNCHANGED <<stack, globals>>, op'.at = op.at, op'.ret = op.ret, op'.obj = op.obj,
         op'.str = op.str, op'.todo = op.todo, op'.drop = op.drop
  PROVE  PInv' /\ Implements
<1>1. HeapSound /\ InUse /\ Local /\ gcEnabled
  BY DEF PInv, H!CollectGarbage
<1>2. Place' = Place /\ Operands' = Operands /\ Building' = Building /\ Locals' = Locals
  BY DEF Place, Operands, Drop, Building, Locals
<1>3. OnStack' = OnStack /\ Slots' = Slots /\ Top(op.drop - 1)' = Top(op.drop - 1)
  BY <1>2 DEF OnStack, Slots, Top
<1>4. Roots' = Roots /\ Steady' = Steady
  BY <1>3 DEF Roots, Steady
<1>5. CASE UNCHANGED <<objects, old, refs, strings, rememberedSet, gcEnabled>>
  BY <1>5, SamePInv
<1>6. ASSUME NEW white \in SUBSET objects, Frees(major, white), Roots \cap white = {},
             major => \A o \in objects \ white : refs[o] \cap white = {},
             ~major => /\ white \cap old = {}
                       /\ \A o \in (objects \ white) \ old : refs[o] \cap white = {}
                       /\ \A o \in rememberedSet \cap objects : refs[o] \cap white = {}
      PROVE  PInv' /\ Implements
  <2>1. \A o \in objects \ white : refs[o] \cap white = {}
    <3> SUFFICES ASSUME NEW o \in objects \ white, ~major, o \in old
                 PROVE  refs[o] \cap white = {}
      BY <1>6
    <3>1. CASE refs[o] \cap (objects \ old) # {}
      BY <1>1, <1>6, <3>1 DEF HeapSound
    <3>2. CASE refs[o] \cap (objects \ old) = {}
      BY <1>6, <3>2
    <3>3. QED
      BY <3>1, <3>2
  <2>2. Steady \subseteq objects \ white /\ Held \cap white = {}
    BY <1>6, <2>1, <1>1, HeldAllocated DEF Held
  <2>3. /\ objects' = objects \ white /\ strings' = strings \ white
        /\ old' = (IF major THEN old \ white ELSE objects \ white)
        /\ \A o \in Obj \ white : refs'[o] = refs[o]
        /\ rememberedSet' = (IF major THEN rememberedSet ELSE {})
        /\ gcEnabled' = gcEnabled
    BY <1>6 DEF Frees
  <2>4. HeapSound'
    <3>1. strings' \subseteq objects'
      BY <1>1, <2>3 DEF HeapSound
    <3>2. \A o \in objects' : refs'[o] \subseteq objects'
      BY <1>1, <2>1, <2>3 DEF HeapSound, TInv, HeapTypes
    <3>3. \A o \in old' : refs'[o] \cap (objects' \ old') # {} => o \in rememberedSet'
      BY <1>1, <2>3 DEF HeapSound, TInv, HeapTypes
    <3>4. QED
      BY <3>1, <3>2, <3>3 DEF HeapSound
  <2>5. Held' = Held
    BY <1>4, <2>2, <2>3 DEF Held, TInv, HeapTypes
  <2>6. Building \subseteq Held /\ op.str \in Held \cup OnStack \cup {NULL} /\ Place \notin ImageLabels
    BY <1>1, WhatACollectionKeeps
  <2>7. Locals \cap white = {}
    BY <1>6, <2>2, <2>6 DEF Locals, Building, Roots
  <2>8. InUse'
    BY <1>1, <1>2, <1>4, <1>6, <2>3, <2>7 DEF InUse
  <2>9. InReach' /\ CollectorOff'
    BY <1>1, <1>2, <1>3, <2>3, <2>5, <2>6 DEF Local, InReach, CollectorOff
  <2>10. Untold'
    <3>1. ASSUME NEW X \in SUBSET (objects \ white), op.obj \in old => X \subseteq old, op.obj \in old'
          PROVE  X \subseteq old'
      BY <2>3, <3>1
    <3>2. op.todo \subseteq objects \ white
      BY <1>1, <2>7, LocalsAllocated, OpTyped, HeapOpsAssumption DEF Locals
    <3>3. Top(op.drop - 1) \subseteq objects \ white
      BY <1>1, <1>6 DEF Top, OnStack, Roots, InUse
    <3>4. ASSUME Place = "name_function"
          PROVE  /\ refs'[Operands[Len(Operands) - 1]] = refs[Operands[Len(Operands) - 1]]
                 /\ refs[Operands[Len(Operands) - 1]] \subseteq objects \ white
      <4>1. Len(Operands) \in Nat /\ Len(Operands) >= 2
        BY <3>4, StackAndSlots DEF TInv, OperandsThere, Depth
      <4>2. Len(Operands) - 1 \in 1 .. Len(Operands)
        BY <4>1
      <4>3. Operands[Len(Operands) - 1] \in objects \ white
        BY <2>2, <4>2, StackAndSlots DEF Steady
      <4>4. QED
        BY <1>1, <2>1, <2>3, <4>3 DEF HeapSound, TInv, HeapTypes
    <3>5. op.at # "class_fields"
      BY <1>1 DEF Local, CollectorOff, Place, StringLabels
    <3> DEFINE field == op.todo \cup Top(op.drop - 1)
               pool  == refs[Operands[Len(Operands) - 1]]
    <3>6. op.at = "field" /\ op.obj \in old' => field \subseteq old'
      BY <1>1, <3>1, <3>2, <3>3 DEF Local, Untold
    <3>7. Place = "name_function" /\ op.obj \in old' => pool \subseteq old'
      BY <1>1, <3>1, <3>4 DEF Local, Untold
    <3>8. op.at = "constant" /\ op.obj \in old' => op.todo \subseteq old'
      BY <1>1, <3>1, <3>2 DEF Local, Untold
    <3>9. QED
      BY <1>1, <1>2, <1>3, <3>4, <3>5, <3>6, <3>7, <3>8 DEF Local, Untold
  <2>11. Implements
    <3>1. Own \cap white = {} /\ Own' = Own
      BY <1>2, <1>4, <1>6, <2>7 DEF Own
    <3>2. objects' = objects \ white /\ refs' = [o \in Obj |-> IF o \in white THEN {} ELSE refs[o]]
      BY <1>6 DEF Frees
    <3>3. QED
      BY <1>1, <2>1, <3>1, <3>2, ReclaimImplements
  <2>12. QED
    BY <2>4, <2>8, <2>9, <2>10, <2>11 DEF PInv, Local
<1>7. QED
  BY <1>5, <1>6, CollectionFrees
----------------------------------------------------------------------------
(* A program built ahead of time starts: the collector is off, and nothing *)
(* is old.                                                                 *)

LEMMA ImageLocal ==
  ASSUME PInv, Place \in ImageLabels, Place' \in ImageLabels,
         op'.at \in StringLabels \cup ImageLabels, UNCHANGED <<old, gcEnabled>>
  PROVE  Local'
<1>1. op'.at \notin {"define", "assign", "new_native", "class_fields", "field", "constant", "bind_method"}
  BY DEF StringLabels, ImageLabels
<1>2. InReach'
  BY <1>1 DEF InReach, ImageLabels
<1>3. CollectorOff'
  BY DEF PInv, Local, CollectorOff
<1>4. Untold'
  BY <1>1 DEF Untold, ImageLabels
<1>5. QED
  BY <1>2, <1>3, <1>4 DEF Local

LEMMA ImageStepPInv ==
  ASSUME TInv, PInv, ImageStep
  PROVE  PInv' /\ Implements
<1>1. /\ HeapSound /\ InUse /\ op.at \in ImageLabels /\ UNCHANGED <<stack, globals>>
      /\ Place = op.at /\ old = {}
  <2>1. op.at \in ImageLabels /\ UNCHANGED <<stack, globals>>
    BY DEF ImageStep, At, ImageLabels, ImageFunction, ImageName, ImageNamed, ImageClass,
           ImageClassNamed, ImageNewClass, ImageMember, ImageMemberNamed, ImageConstant,
           ImageConstantCopied
  <2>2. Place = op.at
    BY <2>1, AtImage
  <2>3. QED
    BY <2>1, <2>2 DEF PInv, Local, CollectorOff
<1>2. Roots' = Roots
  BY <1>1 DEF Roots, OnStack
<1> Own \subseteq Follow
  BY <1>1, FollowReachable
<1>3. CASE UNCHANGED heap /\ (ImageName \/ ImageClass \/ ImageMember \/ ImageClassNamed \/ ImageConstant)
  <2>1. /\ op'.at \in {"find", "image_class", "image_constant", "image_new_class"}
        /\ op'.at = "find" => op'.ret \in ImageLabels
        /\ op'.obj = op.obj /\ op'.todo = op.todo /\ op'.str \in {NULL, op.str}
    <3>1. CASE \E ret \in ImageLabels : CopyConstant(ret)
      BY <3>1, OpTyped DEF CopyConstant, OpRecord
    <3>2. CASE \E label \in {"image_class", "image_constant"} : GoTo(label)
      BY <3>2, OpTyped DEF GoTo, OpRecord
    <3>3. CASE ImageClassNamed
      BY <3>3, OpTyped DEF ImageClassNamed, OpRecord
    <3>4. CASE op' = [op EXCEPT !.alloc = TRUE] /\ ImageConstant
      BY <3>4, OpTyped DEF ImageConstant, At, OpRecord
    <3>5. QED
      BY <1>3, <3>1, <3>2, <3>3, <3>4
         DEF ImageName, ImageClass, ImageMember, ImageConstant, ImageLabels
  <2>2. Place' \in ImageLabels /\ op'.at \in StringLabels \cup ImageLabels
    BY <2>1 DEF Place, StringLabels, ImageLabels
  <2>3. Local'
    BY <1>1, <1>3, <2>2, ImageLocal DEF heap
  <2>4. Locals' \subseteq Locals
    BY <2>1 DEF Locals
  <2>5. HeapSound' /\ InUse'
    BY <1>1, <1>2, <1>3, <2>4 DEF HeapSound, InUse, heap
  <2>6. Implements
    BY <1>1, <1>2, <1>3, <2>4, MoveImplements DEF Own, heap
  <2>7. QED
    BY <2>3, <2>5, <2>6 DEF PInv
<1>4. CASE ImageFunction \/ ImageNewClass
  <2>1. PICK o \in Obj, kids \in SUBSET Own :
          /\ Create(o, kids) /\ op'.str = op.str
          /\ op'.at \in {"image_function", "image_name", "image_member"}
          /\ \/ op.obj = NULL /\ op'.obj = o /\ op'.todo = op.todo
             \/ op'.obj = op.obj /\ op'.todo = op.todo \cup {o}
    <3>1. CASE ImageFunction
      <4>1. {} \in SUBSET Own
        OBVIOUS
      <4>2. QED
        BY <3>1, <4>1, OpTyped, FreshAddresses DEF ImageFunction, OpRecord
    <3>2. CASE ImageNewClass
      <4>1. op.at = "image_new_class"
        BY <3>2 DEF ImageNewClass, At
      <4>2. {op.str} \in SUBSET Own
        BY <1>1, <4>1, AtImage DEF HasStr, Own, Locals
      <4>3. QED
        BY <3>2, <4>2, OpTyped, FreshAddresses DEF ImageNewClass, OpRecord
    <3>3. QED
      BY <1>4, <3>1, <3>2
  <2>2. HeapSound' /\ objects' = objects \cup {o} /\ UNCHANGED <<old, gcEnabled>>
    <3>1. kids \in SUBSET objects
      BY <1>1 DEF InUse, Own
    <3>2. QED
      BY <1>1, <2>1, <3>1, CreateSound
  <2>3. Place' \in ImageLabels /\ op'.at \in StringLabels \cup ImageLabels
    BY <2>1 DEF Place, StringLabels, ImageLabels
  <2>4. Local'
    BY <1>1, <2>2, <2>3, ImageLocal
  <2>5. Locals' = Locals \cup {o}
    BY <2>1, HeapOpsAssumption DEF Locals
  <2>6. InUse'
    BY <1>1, <1>2, <2>2, <2>5 DEF InUse
  <2>7. Own' = Own \cup {o}
    BY <1>2, <2>5 DEF Own
  <2>8. Implements
    BY <1>1, <2>1, <2>7, CreateImplements
  <2>9. QED
    BY <2>2, <2>4, <2>6, <2>8 DEF PInv
<1>5. ASSUME NEW owner \in Locals, NEW values \in SUBSET Locals, StoreIn(owner, {}, values, {}),
             op'.at \in {"image_name", "image_member", "image_constant"},
             op'.obj = op.obj, op'.todo = op.todo, op'.str \in {op.str, NULL}
      PROVE  PInv' /\ Implements
  <2>1. owner \in objects /\ values \in SUBSET objects /\ (owner \in old => values \subseteq old \cup {})
    BY <1>1 DEF InUse
  <2>2. HeapSound' /\ UNCHANGED <<objects, old, gcEnabled>>
    BY <1>1, <1>5, <2>1, StoreSound
  <2>3. Place' \in ImageLabels /\ op'.at \in StringLabels \cup ImageLabels
    BY <1>5 DEF Place, StringLabels, ImageLabels
  <2>4. Local'
    BY <1>1, <2>2, <2>3, ImageLocal
  <2>5. Locals' \subseteq Locals
    BY <1>5 DEF Locals
  <2>6. InUse'
    BY <1>1, <1>2, <2>2, <2>5 DEF InUse
  <2>7. Implements
    <3>1. owner \in Own /\ values \in SUBSET Follow /\ Own' \subseteq Follow
      BY <1>2, <2>5 DEF Own
    <3>2. QED
      BY <1>1, <1>5, <3>1, StoreImplements
  <2>8. QED
    BY <2>2, <2>4, <2>6, <2>7 DEF PInv
<1>6. CASE ImageNamed \/ ImageMemberNamed \/ ImageConstantCopied
  <2>1. {op.str} \in SUBSET Locals
    <3>1. op.at \in HasStr
      BY <1>6 DEF ImageNamed, ImageMemberNamed, ImageConstantCopied, At, HasStr, Returns
    <3>2. op.str # NULL
      BY <1>1, <3>1, AtImage
    <3>3. QED
      BY <3>2 DEF Locals
  <2>2. /\ op'.at \in {"image_name", "image_member", "image_constant"}
        /\ op'.obj = op.obj /\ op'.todo = op.todo /\ op'.str = NULL
    BY <1>6, OpTyped DEF ImageNamed, ImageMemberNamed, ImageConstantCopied, OpRecord
  <2>3. \E owner \in Locals : \E values \in SUBSET Locals : StoreIn(owner, {}, values, {})
    <3>1. CASE ImageNamed \/ ImageConstantCopied
      BY <2>1, <3>1, StaticsAreObjects DEF ImageNamed, ImageConstantCopied
    <3>2. CASE ImageMemberNamed
      <4>1. PICK k \in Locals, method \in {{}} \cup {{f} : f \in Statics("function")} :
               StoreIn(k, {}, {op.str} \cup method, {})
        BY <3>2, StaticsAreObjects DEF ImageMemberNamed
      <4>2. {op.str} \cup method \in SUBSET Locals
        BY <2>1, StaticsAreObjects
      <4>3. QED
        BY <4>1, <4>2
    <3>3. QED
      BY <1>6, <3>1, <3>2
  <2>4. QED
    BY <1>5, <2>2, <2>3
<1>7. CASE ImageConstant /\ \E f \in Statics("function"), v \in op.todo :
              StoreIn(f, {}, {v}, {}) /\ op' = [op EXCEPT !.alloc = TRUE]
  <2>1. PICK f \in Statics("function"), v \in op.todo :
           StoreIn(f, {}, {v}, {}) /\ op' = [op EXCEPT !.alloc = TRUE]
    BY <1>7
  <2>2. f \in Locals /\ {v} \in SUBSET Locals
    BY <2>1, StaticsAreObjects, OpTyped, HeapOpsAssumption DEF Locals
  <2>3. /\ op'.at = "image_constant" /\ op'.obj = op.obj /\ op'.todo = op.todo /\ op'.str = op.str
    BY <1>7, <2>1, OpTyped DEF ImageConstant, At, OpRecord
  <2>4. QED
    BY <1>5, <2>1, <2>2, <2>3
<1>8. QED
  BY <1>3, <1>4, <1>6, <1>7
     DEF ImageStep, ImageName, ImageClass, ImageMember, ImageClassNamed, ImageConstant

LEMMA BootstrapPInv ==
  ASSUME TInv, PInv, Bootstrap
  PROVE  PInv' /\ Implements
<1>1. /\ objects = {} /\ gcEnabled' = FALSE /\ op' = Alloc("image_function")
      /\ UNCHANGED <<objects, old, refs, strings, rememberedSet, crashed, stack, globals>>
  BY DEF Bootstrap
<1>2. op'.at = "image_function" /\ Locals' = {} /\ Roots' = Roots
  BY <1>1 DEF Alloc, Idle, Locals, Roots, OnStack
<1>3. Place' = "image_function"
  BY <1>2 DEF Place, StringLabels
<1>4. old' = {}
  BY <1>1 DEF TInv, HeapTypes
<1>5. HeapSound' /\ InUse'
  BY <1>1, <1>2 DEF PInv, HeapSound, InUse
<1>6. Local'
  BY <1>1, <1>2, <1>3, <1>4 DEF Local, InReach, CollectorOff, Untold, ImageLabels
<1>7. Implements
  <2>1. HeapSound /\ InUse /\ Own' \subseteq Own
    BY <1>2 DEF PInv, Own
  <2>2. QED
    BY <1>1, <2>1, FollowReachable, MoveImplements
<1>8. QED
  BY <1>5, <1>6, <1>7 DEF PInv
----------------------------------------------------------------------------
(* The steps in the middle of an operation.                                *)

LEMMA InUseThen ==
  ASSUME InUse, UNCHANGED globals, objects \subseteq objects', OnStack' \subseteq objects',
         Building' \subseteq objects', op'.str \in objects' \cup {NULL}
  PROVE  InUse'
<1>1. Roots' \subseteq objects'
  BY RootsThen
<1>2. Locals' \subseteq objects'
  BY DEF Locals, Building
<1>3. QED
  BY <1>1, <1>2 DEF InUse

(* A new object that is pushed at once.                                    *)
LEMMA CreatedPInv ==
  ASSUME TInv, PInv, NEW o \in Obj, NEW kids \in SUBSET Own, Create(o, kids), Push(o),
         UNCHANGED globals,
         op.at \in {"new_array", "args_array", "new_instance", "new_function", "new_native"},
         op'.at \in {"append", "next_arg", "field", "define", "find"},
         op'.at = "find" => op'.ret = "name_function",
         op'.at = "define" => op.at = "new_native",
         op'.obj = o, op'.todo = op.todo, op'.str = op.str
  PROVE  PInv' /\ Implements
<1>1. HeapSound /\ InUse /\ Local
  BY DEF PInv
<1>2. Place = op.at /\ Operands = stack /\ Steady = Roots /\ Slots = OnStack
  BY StackAndSlots DEF Place, StringLabels, Operands
<1>3. Building \subseteq Held /\ op.str \in Held \cup {NULL} /\ Held \subseteq objects
      /\ (op.at = "new_native" => op.str \in Held)
  <2>1. Building \subseteq Held /\ (op.at = "new_native" => op.str \in Held)
    BY <1>1, <1>2 DEF Local, InReach, ImageLabels
  <2>2. op.at # "new_native" => op.str = NULL
    BY DEF TInv, OpTypes, HasStr, Returns, ImageLabels
  <2>3. QED
    BY <1>1, <2>1, <2>2, HeldAllocated
<1>4. /\ HeapSound' /\ objects' = objects \cup {o} /\ o \notin old'
      /\ \A r \in objects : refs'[r] = refs[r]
  <2>1. kids \in SUBSET objects
    BY <1>1 DEF InUse, Own
  <2>2. QED
    BY <1>1, <2>1, CreateSound
<1>5. OnStack' = OnStack \cup {o} /\ Operands' = stack'
  BY PushedStack DEF Operands
<1>6. Slots' = Slots \cup {o}
  BY <1>2, <1>5 DEF Slots, OnStack
<1>7. Steady' = Steady \cup {o}
  BY <1>6 DEF Steady
<1>8. Held \subseteq Held' /\ o \in Held'
  <2>1. \A r \in Steady : refs[r] \subseteq refs'[r]
    BY <1>1, <1>4, HeldAllocated
  <2>2. QED
    BY <1>7, <2>1, HeldGrows DEF Held
<1>9. Building' \subseteq Building \cup {o}
  BY DEF Building
<1>10. InUse'
  <2>1. OnStack' \subseteq objects' /\ Building' \subseteq objects' /\ op'.str \in objects' \cup {NULL}
    BY <1>1, <1>3, <1>4, <1>5, <1>9 DEF InUse, Roots
  <2>2. QED
    BY <1>1, <1>4, <2>1, InUseThen
<1>11. Place' \in {"append", "next_arg", "field", "define", "name_function"}
  BY DEF Place, StringLabels
<1>12. InReach'
  BY <1>3, <1>6, <1>8, <1>9 DEF InReach
<1>13. CollectorOff'
  BY <1>11 DEF CollectorOff, ImageLabels
<1>14. Untold'
  BY <1>4, <1>11 DEF Untold
<1>15. Implements
  <2>1. op.obj = NULL /\ o # NULL
    BY <1>2, HeapOpsAssumption DEF TInv, OpTypes, Allocates
  <2>2. Locals' = Locals \cup {o}
    BY <2>1 DEF Locals
  <2>3. Roots' = Roots \cup {o}
    BY <1>5 DEF Roots
  <2>4. Own' = Own \cup {o}
    BY <2>2, <2>3 DEF Own
  <2>5. QED
    BY <1>1, <2>4, CreateImplements
<1>16. QED
  BY <1>4, <1>10, <1>12, <1>13, <1>14, <1>15 DEF PInv, Local

LEMMA CreateStepPInv ==
  ASSUME TInv, PInv, NewArray \/ ArgsArray \/ NewInstance \/ NewFunction \/ NewNative
  PROVE  PInv' /\ Implements
<1>1. {} \in SUBSET Own
  OBVIOUS
<1>2. CASE NewArray
  <2>1. PICK o \in Obj :
           /\ Create(o, {}) /\ Push(o) /\ UNCHANGED globals
           /\ op' = [op EXCEPT !.at = "append", !.alloc = TRUE, !.obj = o, !.drop = @ + 1]
    BY <1>2, FreshAddresses DEF NewArray
  <2>2. op.at = "new_array"
    BY <1>2 DEF NewArray, At
  <2>3. op'.at = "append" /\ op'.obj = o /\ op'.todo = op.todo /\ op'.str = op.str
    BY <2>1, OpTyped DEF OpRecord
  <2>4. QED
    BY <1>1, <2>1, <2>2, <2>3, CreatedPInv
<1>3. CASE ArgsArray
  <2>1. PICK o \in Obj :
           /\ Create(o, {}) /\ Push(o) /\ UNCHANGED globals
           /\ op' = [op EXCEPT !.at = "next_arg", !.obj = o, !.drop = 1]
    BY <1>3, FreshAddresses DEF ArgsArray
  <2>2. op.at = "args_array"
    BY <1>3 DEF ArgsArray, At
  <2>3. op'.at = "next_arg" /\ op'.obj = o /\ op'.todo = op.todo /\ op'.str = op.str
    BY <2>1, OpTyped DEF OpRecord
  <2>4. QED
    BY <1>1, <2>1, <2>2, <2>3, CreatedPInv
<1>4. CASE NewInstance
  <2>1. PICK o \in Obj :
           /\ Create(o, {Peek(op.drop - 1)}) /\ Push(o) /\ UNCHANGED globals
           /\ op' = [op EXCEPT !.at = "field", !.alloc = TRUE, !.obj = o, !.drop = @ + 1]
    BY <1>4, FreshAddresses DEF NewInstance
  <2>2. op.at = "new_instance"
    BY <1>4 DEF NewInstance, At
  <2>3. op'.at = "field" /\ op'.obj = o /\ op'.todo = op.todo /\ op'.str = op.str
    BY <2>1, OpTyped DEF OpRecord
  <2>4. {Peek(op.drop - 1)} \in SUBSET Own
    <3>1. op.drop \in Nat /\ op.drop >= 1 /\ op.drop <= Len(stack)
      BY <2>2, OpTyped DEF TInv, OperandsThere, Operands, Place, StringLabels
    <3>2. Len(stack) - (op.drop - 1) \in 1 .. Len(stack)
      BY <3>1, StackTyped
    <3>3. QED
      BY <3>2, StackAndSlots DEF Peek, Own, Roots
  <2>5. QED
    BY <2>1, <2>2, <2>3, <2>4, CreatedPInv
<1>5. CASE NewFunction
  <2>1. PICK o \in Obj, c \in Content :
           /\ Create(o, {}) /\ Push(o) /\ UNCHANGED globals
           /\ op' = [op EXCEPT !.at = "find", !.content = c, !.ret = "name_function", !.obj = o, !.drop = 2]
    BY <1>5, FreshAddresses DEF NewFunction
  <2>2. op.at = "new_function"
    BY <1>5 DEF NewFunction, At
  <2>3. op'.at = "find" /\ op'.ret = "name_function" /\ op'.obj = o /\ op'.todo = op.todo
        /\ op'.str = op.str
    BY <2>1, OpTyped DEF OpRecord
  <2>4. QED
    BY <1>1, <2>1, <2>2, <2>3, CreatedPInv
<1>6. CASE NewNative
  <2>1. PICK o \in Obj :
           /\ Create(o, {op.str}) /\ Push(o) /\ UNCHANGED globals
           /\ op' = [op EXCEPT !.at = "define", !.alloc = TRUE, !.obj = o, !.drop = @ + 1]
    BY <1>6, FreshAddresses DEF NewNative
  <2>2. op.at = "new_native" /\ op.str # NULL
    BY <1>6 DEF NewNative, At, TInv, OpTypes, HasStr
  <2>3. op'.at = "define" /\ op'.obj = o /\ op'.todo = op.todo /\ op'.str = op.str
    BY <2>1, OpTyped DEF OpRecord
  <2>4. {op.str} \in SUBSET Own
    BY <2>2 DEF Own, Locals
  <2>5. QED
    BY <2>1, <2>2, <2>3, <2>4, CreatedPInv
<1>7. QED
  BY <1>2, <1>3, <1>4, <1>5, <1>6

(* New objects that are not pushed: the map is at once the result, and for *)
(* the class the collector is held off.                                    *)
LEMMA UnpushedPInv ==
  ASSUME TInv, PInv, NewMap \/ NewClass
  PROVE  PInv' /\ Implements
<1>1. HeapSound /\ InUse /\ Local /\ OnStack \subseteq objects
  BY DEF PInv, InUse, Roots
<1>2. PICK o \in Obj, kids \in SUBSET Own :
         /\ Create(o, kids) /\ UNCHANGED <<stack, globals>>
         /\ op'.obj = o /\ op'.todo = op.todo /\ op'.str = op.str
         /\ \/ NewMap /\ op.at = "new_map" /\ op'.at = "finish"
            \/ NewClass /\ op.at = "new_class" /\ op'.at = "class_fields"
  <2>1. CASE NewMap
    <3>1. {} \in SUBSET Own /\ op.at = "new_map"
      BY <2>1 DEF NewMap, At
    <3>2. QED
      BY <2>1, <3>1, OpTyped, FreshAddresses DEF NewMap, OpRecord
  <2>2. CASE NewClass
    <3>1. op.at = "new_class"
      BY <2>2 DEF NewClass, At
    <3>2. Len(stack) >= 2
      BY <3>1 DEF TInv, OperandsThere, Operands, Place, StringLabels, Depth
    <3>3. {Peek(1)} \in SUBSET Own
      <4>1. Len(stack) - 1 \in 1 .. Len(stack)
        BY <3>2, StackTyped
      <4>2. QED
        BY <4>1, StackAndSlots DEF Peek, Own, Roots
    <3>4. QED
      BY <2>2, <3>1, <3>3, OpTyped, FreshAddresses DEF NewClass, OpRecord
  <2>3. QED
    BY <2>1, <2>2
<1>3. HeapSound' /\ objects' = objects \cup {o} /\ o \notin old' /\ UNCHANGED <<old, gcEnabled>>
  <2>1. kids \in SUBSET objects
    BY <1>1 DEF InUse, Own
  <2>2. QED
    BY <1>1, <1>2, <2>1, CreateSound
<1>4. InUse'
  <2>1. OnStack' \subseteq objects'
    BY <1>1, <1>2, <1>3 DEF OnStack
  <2>2. Building' \subseteq objects' /\ op'.str \in objects' \cup {NULL}
    BY <1>1, <1>2, <1>3, LocalsAllocated DEF Building
  <2>3. QED
    BY <1>1, <1>2, <1>3, <2>1, <2>2, InUseThen
<1>5. Local'
  <2>1. CASE op'.at = "finish"
    BY <2>1, Resting
  <2>2. CASE op.at = "new_class" /\ op'.at = "class_fields"
    <3>1. Place' = "class_fields" /\ Place = "new_class"
      BY <2>2 DEF Place, StringLabels
    <3>2. InReach' /\ Untold'
      BY <1>2, <1>3, <2>2, <3>1 DEF InReach, Untold
    <3>3. CollectorOff'
      BY <1>1, <1>3, <3>1 DEF Local, CollectorOff, ImageLabels
    <3>4. QED
      BY <3>2, <3>3 DEF Local
  <2>3. QED
    BY <1>2, <2>1, <2>2
<1>6. Implements
  <2>1. Place \in Allocates
    BY <1>2 DEF Place, StringLabels, Allocates
  <2>2. op.obj = NULL /\ o # NULL
    BY <2>1, HeapOpsAssumption DEF TInv, OpTypes
  <2>3. Locals' = Locals \cup {o} /\ Roots' = Roots
    BY <1>2, <2>2 DEF Locals, Roots, OnStack
  <2>4. Own' = Own \cup {o}
    BY <2>3 DEF Own
  <2>5. QED
    BY <1>1, <1>2, <2>4, CreateImplements
<1>7. QED
  BY <1>3, <1>4, <1>5, <1>6 DEF PInv
----------------------------------------------------------------------------
(* A string is pushed before something else is allocated.                  *)
LEMMA PushedStringPInv ==
  ASSUME TInv, PInv, ArgCopied \/ NativeNamed \/ HostNamed
  PROVE  PInv' /\ Implements
<1>1. /\ op.at \in {"arg_copied", "native_name", "host_name"} /\ Push(op.str)
      /\ UNCHANGED <<heap, globals>>
      /\ op'.obj = op.obj /\ op'.todo = op.todo /\ op'.str = op.str
      /\ op'.at \in {"append_arg", "new_native", "define"}
      /\ op'.at = "append_arg" <=> op.at = "arg_copied"
  BY OpTyped DEF ArgCopied, NativeNamed, HostNamed, At, OpRecord
<1>2. HeapSound /\ InUse /\ Local
  BY DEF PInv
<1>3. /\ Place = op.at /\ Operands = stack /\ Steady = Roots /\ Slots = OnStack
      /\ op.str # NULL
  BY <1>1, StackAndSlots DEF Place, StringLabels, Operands, HasStr, Returns, TInv, OpTypes
<1>4. op.str \in Obj /\ op.str \in objects
  BY <1>2, <1>3, InHand, LocalsAllocated
<1>5. OnStack' = OnStack \cup {op.str} /\ Drop(1)' = stack
  BY <1>1, <1>4, StackTyped, PushedStack, PushThen
<1>6. Building \subseteq Held /\ Building' = Building /\ Held \subseteq objects
  <2>1. Building \subseteq Held
    BY <1>1, <1>2, <1>3 DEF Local, InReach, ImageLabels
  <2>2. Building' = Building
    BY <1>1 DEF Building
  <2>3. QED
    BY <1>2, <2>1, <2>2, HeldAllocated
<1>7. InUse'
  <2>1. OnStack' \subseteq objects' /\ Building' \subseteq objects' /\ op'.str \in objects'
    BY <1>1, <1>2, <1>4, <1>5, <1>6 DEF heap, InUse, Roots
  <2>2. QED
    BY <1>1, <1>2, <2>1, InUseThen DEF heap
<1>8. Slots \subseteq Slots' /\ (op.at # "arg_copied" => op.str \in Slots')
  <2>1. CASE op.at = "arg_copied"
    <3>1. Operands' = Operands
      BY <1>1, <1>3, <1>5, <2>1 DEF Operands
    <3>2. QED
      BY <2>1, <3>1 DEF Slots
  <2>2. CASE op.at # "arg_copied"
    <3>1. Operands' = stack'
      BY <1>1, <2>2 DEF Operands
    <3>2. Slots' = OnStack'
      BY <3>1 DEF Slots, OnStack
    <3>3. QED
      BY <1>3, <1>5, <3>2
  <2>3. QED
    BY <2>1, <2>2
<1>9. Held \subseteq Held' /\ (op.at # "arg_copied" => op.str \in Held')
  <2>1. Steady \subseteq Steady' /\ (op.at # "arg_copied" => op.str \in Steady')
    BY <1>1, <1>8 DEF Steady
  <2>2. QED
    BY <1>1, <2>1, HeldGrows DEF Held, heap
<1>10. Place' = op'.at
  BY <1>1 DEF Place, StringLabels
<1>11. InReach'
  <2>1. op.at = "arg_copied" => op.obj \in Slots
    BY <1>2, <1>3 DEF Local, InReach
  <2>2. QED
    BY <1>1, <1>6, <1>8, <1>9, <1>10, <2>1 DEF InReach
<1>12. CollectorOff' /\ Untold'
  BY <1>1, <1>10 DEF CollectorOff, Untold, ImageLabels
<1>13. HeapSound'
  BY <1>1, <1>2 DEF HeapSound, heap
<1>14. Implements
  <2>1. Locals' = Locals /\ op.str \in Locals
    BY <1>1, <1>3 DEF Locals
  <2>2. Roots' = Roots \cup {op.str}
    BY <1>1, <1>5 DEF Roots
  <2>3. Own' \subseteq Own
    BY <2>1, <2>2 DEF Own
  <2>4. QED
    BY <1>1, <1>2, <2>3, FollowReachable, MoveImplements DEF heap
<1>15. QED
  BY <1>7, <1>11, <1>12, <1>13, <1>14 DEF PInv, Local

(* The next argument of Args() is copied.                                  *)
LEMMA NextArgPInv ==
  ASSUME TInv, PInv, NextArg
  PROVE  PInv' /\ Implements
<1>1. /\ op.at = "next_arg" /\ UNCHANGED <<heap, stack, globals>>
      /\ op'.obj = op.obj /\ op'.todo = op.todo /\ op'.str = op.str
      /\ op'.at = "finish" \/ (op'.at = "find" /\ op'.ret = "arg_copied")
  BY OpTyped DEF NextArg, At, OpRecord
<1>2. HeapSound /\ InUse /\ Local
  BY DEF PInv
<1>3. HeapSound' /\ InUse'
  BY <1>1, <1>2 DEF HeapSound, InUse, Roots, OnStack, Locals, heap
<1> Implements
  <2>1. Own' \subseteq Own
    BY <1>1 DEF Own, Roots, OnStack, Locals
  <2>2. QED
    BY <1>1, <1>2, <2>1, FollowReachable, MoveImplements DEF heap
<1>4. CASE op'.at = "finish"
  BY <1>3, <1>4, Resting DEF PInv
<1>5. CASE op'.at = "find" /\ op'.ret = "arg_copied"
  <2>1. Place = "next_arg" /\ Place' = "arg_copied" /\ Operands' = Operands
    BY <1>1, <1>5 DEF Place, StringLabels, Operands
  <2>2. Slots' = Slots
    BY <2>1 DEF Slots
  <2>3. Held' = Held /\ Building' = Building
    BY <1>1, <2>2 DEF Held, Steady, Building, heap
  <2>4. InReach'
    BY <1>1, <1>2, <1>5, <2>1, <2>2, <2>3 DEF Local, InReach, ImageLabels
  <2>5. CollectorOff' /\ Untold'
    BY <1>5, <2>1 DEF CollectorOff, Untold, ImageLabels
  <2>6. QED
    BY <1>3, <2>4, <2>5 DEF PInv, Local
<1>6. QED
  BY <1>1, <1>4, <1>5

(* One more value is stored in the object being built, with a barrier or   *)
(* when Untold says that none is needed.                                   *)
LEMMA LoopStorePInv ==
  ASSUME TInv, PInv, op.at \in {"append", "field", "constant", "name_function", "append_arg"},
         NEW values \in SUBSET Own, NEW barriered, StoreIn(op.obj, {}, values, barriered),
         op.obj \in old => values \subseteq old \cup barriered,
         Operands' = Operands, OnStack' \subseteq OnStack, UNCHANGED globals,
         op'.at \in {"append", "field", "constant", "next_arg"}, op'.obj = op.obj,
         op'.str \in {op.str, NULL},
         op'.at = "next_arg" => op.at = "append_arg" /\ op'.todo = op.todo,
         op'.at \in {"append", "field"} => op'.at = op.at /\ op'.todo \subseteq op.todo,
         op'.at = "field" => op'.drop = op.drop /\ stack' = stack,
         op'.at = "constant" => /\ op'.todo \subseteq Held
                                /\ op.obj \in old => op'.todo \subseteq old
  PROVE  PInv' /\ Implements
<1>1. HeapSound /\ InUse /\ Local /\ Held \subseteq objects /\ OnStack \subseteq objects
  BY HeldAllocated DEF PInv, InUse, Roots
<1>2. Place = op.at
  BY DEF Place, StringLabels
<1>3. op.obj # NULL /\ op.obj \in objects /\ op.obj \in Own /\ values \in SUBSET objects
  <2>1. op.obj # NULL
    BY <1>2 DEF TInv, OpTypes, HasObj
  <2>2. QED
    BY <1>1, <2>1, LocalsAllocated DEF Own, Locals, InUse
<1>4. /\ HeapSound' /\ UNCHANGED <<objects, old, gcEnabled>>
      /\ \A r \in Obj : refs[r] \subseteq refs'[r]
  BY <1>1, <1>3, StoreSound
<1>5. Slots' = Slots
  BY DEF Slots
<1>6. Held \subseteq Held'
  <2>1. Steady' = Steady
    BY <1>5 DEF Steady
  <2>2. Steady \subseteq Obj
    BY <1>1, HeldAllocated DEF TInv, HeapTypes
  <2>3. QED
    BY <1>4, <2>1, <2>2, HeldGrows
<1>7. Building \subseteq Held
  BY <1>1, <1>2 DEF Local, InReach, ImageLabels
<1>8. Building' \subseteq Held
  BY <1>7 DEF Building
<1>9. InUse'
  <2>1. Building' \subseteq objects' /\ OnStack' \subseteq objects'
    BY <1>1, <1>4, <1>8
  <2>2. op'.str \in objects' \cup {NULL}
    BY <1>1, <1>4, LocalsAllocated
  <2>3. QED
    BY <1>1, <1>4, <2>1, <2>2, InUseThen
<1>10. Place' = op'.at
  BY DEF Place, StringLabels
<1>11. InReach'
  <2>1. op'.at = "next_arg" => op.obj \in Slots
    BY <1>1, <1>2 DEF Local, InReach
  <2>2. QED
    BY <1>5, <1>6, <1>8, <1>10, <2>1 DEF InReach
<1>12. CollectorOff'
  BY <1>10 DEF CollectorOff, ImageLabels
<1>13. Untold'
  <2>1. op'.at = "field" => Top(op.drop - 1)' = Top(op.drop - 1)
    BY DEF Top
  <2>2. op'.at = "field" /\ op.obj \in old => op.todo \cup Top(op.drop - 1) \subseteq old
    BY <1>1 DEF Local, Untold
  <2>3. QED
    BY <1>4, <1>10, <2>1, <2>2 DEF Untold
<1>14. Implements
  <2>1. Locals' \subseteq Building' \cup ({op.str} \ {NULL})
    BY DEF Locals, Building
  <2>2. Locals' \subseteq Held \cup Locals /\ Roots' \subseteq Roots
    BY <1>8, <2>1 DEF Locals, Roots
  <2>3. Own \subseteq Follow /\ Held \subseteq Follow
    BY <1>1, FollowReachable
  <2>4. Own' \subseteq Follow
    BY <2>2, <2>3 DEF Own
  <2>5. QED
    BY <1>1, <1>3, <2>3, <2>4, StoreImplements
<1>15. QED
  BY <1>4, <1>9, <1>11, <1>12, <1>13, <1>14 DEF PInv, Local

LEMMA LoopEndsPInv ==
  ASSUME TInv, PInv, op.at \in {"append", "field", "constant"},
         op' = [op EXCEPT !.at = "finish"], UNCHANGED <<heap, stack, globals>>
  PROVE  PInv' /\ Implements
<1>1. op'.at = "finish" /\ op'.obj = op.obj /\ op'.todo = op.todo /\ op'.str = op.str
  BY OpTyped DEF OpRecord
<1>2. HeapSound' /\ InUse'
  BY <1>1 DEF PInv, HeapSound, InUse, Roots, OnStack, Locals, heap
<1>3. Implements
  <2>1. HeapSound /\ InUse /\ Own' \subseteq Own
    BY <1>1 DEF PInv, Own, Roots, OnStack, Locals
  <2>2. QED
    BY <2>1, FollowReachable, MoveImplements DEF heap
<1>4. QED
  BY <1>1, <1>2, <1>3, Resting DEF PInv

LEMMA LoopPInv ==
  ASSUME TInv, PInv, ArrayAppend \/ InitialField \/ AddConstant
  PROVE  PInv' /\ Implements
<1>1. /\ UNCHANGED <<stack, globals>> /\ op.at \in {"append", "field", "constant"}
      /\ HeapSound /\ InUse /\ Local
  BY DEF ArrayAppend, InitialField, AddConstant, At, PInv
<1>2. CASE op' = [op EXCEPT !.at = "finish"] /\ UNCHANGED heap
  BY <1>1, <1>2, LoopEndsPInv
<1>3. ASSUME op.todo # {}
      PROVE  PInv' /\ Implements
  <2>1. PICK values \in SUBSET Own, barriered \in SUBSET Obj, v \in op.todo :
           /\ StoreIn(op.obj, {}, values, barriered)
           /\ op' = [op EXCEPT !.todo = @ \ {v}, !.alloc = TRUE]
           /\ op.obj \in old => values \subseteq old \cup barriered
    <3>1. op.todo \subseteq Own /\ Own \subseteq Obj
      BY <1>1, OpTyped, HeapOpsAssumption, FollowReachable DEF Own, Locals
    <3>2. CASE ArrayAppend
      <4>1. PICK v \in op.todo : /\ StoreIn(op.obj, {}, {v}, {v})
                                 /\ op' = [op EXCEPT !.todo = @ \ {v}, !.alloc = TRUE]
        BY <1>3, <3>2 DEF ArrayAppend
      <4>2. {v} \in SUBSET Own /\ {v} \in SUBSET Obj
        BY <3>1
      <4>3. QED
        BY <4>1, <4>2
    <3>3. CASE AddConstant
      <4>1. PICK v \in op.todo : /\ StoreIn(op.obj, {}, {v}, {})
                                 /\ op' = [op EXCEPT !.todo = @ \ {v}, !.alloc = TRUE]
        BY <1>3, <3>3 DEF AddConstant
      <4>2. {} \in SUBSET Obj /\ {v} \in SUBSET Own
            /\ (op.obj \in old => {v} \subseteq old \cup {})
        BY <1>1, <3>1, <3>3 DEF AddConstant, At, Local, Untold
      <4>3. QED
        BY <4>1, <4>2
    <3>4. CASE InitialField
      <4>1. PICK name \in op.todo, value \in {{}} \cup {{v} : v \in Top(op.drop - 1)} :
               /\ StoreIn(op.obj, {}, {name} \cup value, {})
               /\ op' = [op EXCEPT !.todo = @ \ {name}, !.alloc = TRUE]
        BY <1>3, <3>4 DEF InitialField
      <4>2. Top(op.drop - 1) \subseteq Own
        BY DEF Top, OnStack, Own, Roots
      <4>3. op.obj \in old => op.todo \cup Top(op.drop - 1) \subseteq old
        BY <1>1, <3>4 DEF InitialField, At, Local, Untold
      <4>4. {} \in SUBSET Obj /\ {name} \cup value \in SUBSET Own
        BY <3>1, <4>1, <4>2
      <4>5. op.obj \in old => {name} \cup value \subseteq old \cup {}
        BY <4>1, <4>3
      <4>6. QED
        BY <4>1, <4>4, <4>5
    <3>5. QED
      BY <3>2, <3>3, <3>4
  <2>2. /\ op'.at = op.at /\ op'.obj = op.obj /\ op'.str = op.str /\ op'.drop = op.drop
        /\ op'.todo \subseteq op.todo
    BY <2>1, OpTyped DEF OpRecord
  <2>3. Operands' = Operands /\ OnStack' = OnStack
    BY <1>1, <2>2 DEF Operands, Drop, OnStack
  <2>4. op.at = "constant" => op.todo \subseteq Held /\ (op.obj \in old => op.todo \subseteq old)
    BY <1>1 DEF Local, InReach, Untold, Building, Place, StringLabels, ImageLabels
  <2>5. QED
    BY <1>1, <2>1, <2>2, <2>3, <2>4, LoopStorePInv
<1>4. QED
  BY <1>2, <1>3 DEF ArrayAppend, InitialField, AddConstant

LEMMA NameFunctionPInv ==
  ASSUME TInv, PInv, NameFunction
  PROVE  PInv' /\ Implements
<1>1. /\ op.at = "name_function" /\ StoreIn(op.obj, {}, {op.str}, {op.str}) /\ UNCHANGED <<stack, globals>>
      /\ op'.at = "constant" /\ op'.obj = op.obj /\ op'.str = NULL /\ op'.todo = refs[Peek(1)]
  BY OpTyped DEF NameFunction, At, OpRecord
<1>2. HeapSound /\ InUse /\ Local
  BY DEF PInv
<1>3. Operands = stack /\ Operands' = stack' /\ Place = "name_function"
  BY <1>1 DEF Operands, Place, StringLabels
<1>4. op.str # NULL /\ Len(stack) >= 2
  BY <1>1, <1>3 DEF TInv, OpTypes, OperandsThere, HasStr, Returns, Depth
<1>5. {op.str} \in SUBSET Own /\ (op.obj \in old => {op.str} \subseteq old \cup {op.str})
  BY <1>4 DEF Own, Locals
<1>6. refs[Peek(1)] \subseteq Held
  <2>1. Len(stack) - 1 \in 1 .. Len(stack)
    BY <1>4, StackTyped
  <2>2. Peek(1) \in Steady
    BY <1>3, <2>1, StackAndSlots DEF Peek, Steady
  <2>3. QED
    BY <2>2 DEF Held
<1>7. op.obj \in old => refs[Peek(1)] \subseteq old
  BY <1>2, <1>3 DEF Local, Untold, Peek
<1>8. OnStack' = OnStack
  BY <1>1 DEF OnStack
<1>9. QED
  BY <1>1, <1>3, <1>5, <1>6, <1>7, <1>8, LoopStorePInv

LEMMA AppendArgPInv ==
  ASSUME TInv, PInv, AppendArg
  PROVE  PInv' /\ Implements
<1>1. /\ op.at = "append_arg" /\ StoreIn(op.obj, {}, {op.str}, {op.str}) /\ UNCHANGED globals
      /\ stack' = Drop(1)
      /\ op'.at = "next_arg" /\ op'.obj = op.obj /\ op'.str = NULL /\ op'.todo = op.todo
  BY OpTyped DEF AppendArg, At, OpRecord
<1>2. HeapSound /\ InUse
  BY DEF PInv
<1>3. Operands' = Operands
  BY <1>1 DEF Operands
<1>4. op.str # NULL /\ 1 \in Nat /\ 1 <= Len(stack)
  BY <1>1, StackTyped, Elements DEF TInv, OpTypes, OperandsThere, HasStr
<1>5. {op.str} \in SUBSET Own /\ (op.obj \in old => {op.str} \subseteq old \cup {op.str})
  BY <1>4 DEF Own, Locals
<1>6. OnStack' \subseteq OnStack
  BY <1>1, <1>4, DroppedStack
<1>7. QED
  BY <1>1, <1>3, <1>5, <1>6, LoopStorePInv

(* MakeClass holds the collector off until the class has its fields.       *)
LEMMA MakeClassPInv ==
  ASSUME TInv, PInv, MakeClass \/ ClassFields
  PROVE  PInv' /\ Implements
<1>1. HeapSound /\ InUse /\ Local
  BY DEF PInv
<1>2. CASE MakeClass
  <2>1. /\ UNCHANGED <<objects, old, refs, strings, rememberedSet, stack, globals>> /\ gcEnabled' = FALSE
        /\ op'.at = "new_class" /\ op'.obj = NULL /\ op'.str = NULL /\ op'.todo = {}
    BY <1>2 DEF MakeClass, Alloc, Idle
  <2>2. Building' = {} /\ Locals' = {} /\ Roots' = Roots
    BY <2>1 DEF Building, Locals, Roots, OnStack
  <2>3. Place' = "new_class"
    BY <2>1 DEF Place, StringLabels
  <2>4. HeapSound' /\ InUse'
    BY <1>1, <2>1, <2>2 DEF HeapSound, InUse
  <2>5. Local'
    BY <2>1, <2>2, <2>3 DEF Local, InReach, CollectorOff, Untold, ImageLabels
  <2>6. Own' \subseteq Own
    BY <2>2 DEF Own
  <2>7. Implements
    BY <1>1, <2>1, <2>6, FollowReachable, MoveImplements
  <2>8. QED
    BY <2>4, <2>5, <2>7 DEF PInv
<1>3. CASE ClassFields
  <2>1. /\ refs' = [refs EXCEPT ![op.obj] = @ \cup (refs[Peek(0)] \cap Str)]
        /\ op.at = "class_fields" /\ op'.at = "finish" /\ op'.obj = op.obj /\ op'.str = op.str
        /\ op'.todo = op.todo
        /\ UNCHANGED <<objects, old, strings, rememberedSet, stack, globals>>
    BY <1>3, OpTyped DEF ClassFields, At, OpRecord
  <2>2. Place = "class_fields" /\ Operands = stack
    BY <2>1 DEF Place, StringLabels, Operands
  <2>3. op.obj \notin old /\ op.obj # NULL /\ Len(stack) >= 2
    BY <1>1, <2>1, <2>2 DEF Local, Untold, TInv, OpTypes, HasObj, OperandsThere, Depth
  <2>4. Peek(0) \in objects
    BY <1>1, <2>3, StackTyped, StackAndSlots DEF Peek, InUse, Roots
  <2>5. \A r \in Obj : /\ refs'[r] \subseteq refs[r] \cup (refs[Peek(0)] \cap Str)
                       /\ r # op.obj => refs'[r] = refs[r]
    BY <2>1 DEF TInv, HeapTypes
  <2>6. HeapSound'
    BY <1>1, <2>1, <2>3, <2>4, <2>5 DEF HeapSound, TInv, HeapTypes
  <2>7. InUse'
    BY <1>1, <2>1 DEF InUse, Roots, OnStack, Locals
  <2>8. Implements
    <3>1. Peek(0) \in Own /\ op.obj \in Own
      BY <2>3, StackTyped, StackAndSlots DEF Peek, Own, Roots, Locals
    <3>2. refs[op.obj] \cup (refs[Peek(0)] \cap Str) \in SUBSET Follow
      BY <3>1 DEF Follow
    <3>3. Own' \subseteq Follow
      BY <1>1, <2>1, FollowReachable DEF Own, Roots, OnStack, Locals
    <3>4. QED
      BY <1>1, <2>1, <3>1, <3>2, <3>3, LinkImplements
  <2>9. QED
    BY <2>1, <2>6, <2>7, <2>8, Resting DEF PInv
<1>4. QED
  BY <1>2, <1>3
----------------------------------------------------------------------------
LEMMA InitPInv == Init => PInv
<1> SUFFICES ASSUME Init PROVE PInv
  OBVIOUS
<1>1. /\ objects = {} /\ old = {} /\ strings = {} /\ OnStack = {} /\ DOMAIN globals = {}
      /\ op.at = "run" /\ op.obj = NULL /\ op.str = NULL /\ op.todo = {}
  BY DEF Init, H!Init, Idle, OnStack
<1>2. HeapSound /\ InUse
  BY <1>1 DEF HeapSound, InUse, Roots, Locals
<1>3. Local
  BY <1>1 DEF Local, InReach, CollectorOff, Untold, Place, StringLabels, ImageLabels
<1>4. QED
  BY <1>2, <1>3 DEF PInv

LEMMA NextPInv ==
  ASSUME TInv, PInv, Told, [Next]_vars
  PROVE  PInv' /\ Implements
<1>1. CASE UNCHANGED vars
  BY <1>1, SamePInv DEF vars, heap
<1>2. CASE Reallocate
  <2>1. /\ op.alloc /\ UNCHANGED <<stack, globals>> /\ op' = [op EXCEPT !.alloc = FALSE]
        /\ op'.at = op.at /\ op'.ret = op.ret /\ op'.obj = op.obj
        /\ op'.str = op.str /\ op'.todo = op.todo /\ op'.drop = op.drop
    BY <1>2, OpTyped DEF Reallocate, OpRecord
  <2>2. CASE UNCHANGED heap
    BY <2>1, <2>2, SamePInv DEF heap
  <2>3. CASE \E major \in BOOLEAN : H!CollectGarbage(major)
    BY <2>1, <2>3, CollectionPInv
  <2>4. QED
    BY <1>2, <2>2, <2>3 DEF Reallocate
<1>3. CASE GcNative
  <2>1. /\ op = Idle /\ UNCHANGED <<stack, globals, op>>
        /\ \E major \in BOOLEAN : H!CollectGarbage(major)
    BY <1>3, ReadyRests DEF GcNative
  <2>2. QED
    BY <2>1, CollectionPInv
<1>4. CASE Start \/ ImageStep \/ (End /\ ~GcNative)
  BY <1>4, StartPInv, ImageStepPInv, EndPInv
<1>5. CASE \/ FindString \/ CopyChars \/ AllocateString \/ InternString
           \/ NewArray \/ ArgsArray \/ NewInstance \/ NewFunction \/ NewNative
           \/ NewMap \/ NewClass \/ Bootstrap
  BY <1>5, StringStepPInv, CreateStepPInv, UnpushedPInv, BootstrapPInv
<1>6. CASE \/ ArgCopied \/ NativeNamed \/ HostNamed \/ NextArg
           \/ ArrayAppend \/ InitialField \/ AddConstant \/ NameFunction \/ AppendArg
           \/ MakeClass \/ ClassFields
  BY <1>6, PushedStringPInv, NextArgPInv, LoopPInv, NameFunctionPInv, AppendArgPInv, MakeClassPInv
<1>7. CASE Operation /\ ~Reallocate /\ ~GcNative
  BY <1>4, <1>5, <1>6, <1>7 DEF Operation, Start, ImageStep, End
<1>8. QED
  BY <1>1, <1>2, <1>3, <1>7 DEF Next

LEMMA ToldPInv == Spec => [](Told => PInv)
<1>1. Init => TInv /\ (Told => PInv)
  BY InitTInv, InitPInv
<1>2. TInv /\ (Told => PInv) /\ [Next]_vars => TInv' /\ (Told => PInv)'
  <2> SUFFICES ASSUME TInv, Told => PInv, [Next]_vars, Told'
               PROVE  TInv' /\ PInv'
    BY NextTInv
  <2>1. Told
    BY DEF Told, Next, vars
  <2>2. QED
    BY <2>1, NextTInv, NextPInv
<1>3. QED
  BY <1>1, <1>2, PTL DEF Spec

(* In every program that does not use AddMethod, whatever collections      *)
(* happen at the allocation points of an operation, all that it still uses *)
(* and all that a live object refers to is allocated: the temporaries that *)
(* vm.c, object.c, natives.c and api.c push, and the collector being held  *)
(* off in native_make_class and bk_bootstrap, are enough.                  *)
THEOREM UsedObjectsSurvive == Spec => [](Told => NothingInUseIsFreed)
<1>1. PInv => NothingInUseIsFreed
  BY DEF PInv, HeapSound, InUse, NothingInUseIsFreed, H!NoDangling
<1>2. QED
  BY <1>1, ToldPInv, PTL

(* In these programs every old object that refers to a young one is in the *)
(* remembered set, in spite of the stores that no barrier follows: the     *)
(* fields of a new instance, the constants of an assembled function, the   *)
(* fields of a new class and the image of a program built ahead of time.   *)
THEOREM StoresAreRemembered ==
  Spec => [](Told => OldToYoungRemembered /\ OldToYoungButMethodNames)
<1>1. PInv => OldToYoungRemembered
  BY DEF PInv, HeapSound, OldToYoungRemembered, H!OldToYoungRemembered, H!Young
<1>2. ASSUME PInv, Told PROVE OldToYoungButMethodNames
  BY <1>2 DEF PInv, HeapSound, OldToYoungButMethodNames, H!Young, Told
<1>3. QED
  BY <1>1, <1>2, ToldPInv, PTL

LEMMA InitImplements == Init => Abstract!Init
<1> SUFFICES ASSUME Init PROVE Abstract!Init
  OBVIOUS
<1>1. objects = {} /\ refs = [o \in Obj |-> {}] /\ stack = <<>> /\ DOMAIN globals = {} /\ op = Idle
  BY DEF Init, H!Init
<1>2. Roots \cup Locals = {}
  BY <1>1 DEF Roots, OnStack, Locals, Idle
<1>3. QED
  BY <1>1, <1>2 DEF Abstract!Init

(* Seen from outside, in every program that does not use AddMethod, each   *)
(* step of an operation allocates an object, links what it holds or can    *)
(* reach, moves what it holds, or reclaims objects that neither the roots  *)
(* nor the operation in progress can reach: ManagedHeap, step by step.     *)
THEOREM OperationsImplementManagedHeap == Spec /\ Told => ImplementsManagedHeap
<1>1. TInv /\ PInv /\ Told /\ [Next]_vars => Implements
  BY NextPInv
<1>2. Told /\ [Next]_vars => Told'
  BY DEF Told, Next, vars
<1>3. Spec => []TInv
  BY InitTInv, NextTInv, PTL DEF Spec
<1>4. QED
  BY <1>1, <1>2, <1>3, ToldPInv, InitImplements, PTL
     DEF Spec, ImplementsManagedHeap, Abstract!Spec, Implements
=============================================================================
