----------------------------- MODULE RawMemory -----------------------------
(***************************************************************************)
(* Manual memory (natives.c, MAlloc to PokePtr): blocks of bytes that the  *)
(* collector does not know of, read and written through slots of one of    *)
(* four types.  Bounds and lifetimes are the program's: the model's        *)
(* program keeps to them, and to the block it means.  malloc and free are  *)
(* external.                                                               *)
(***************************************************************************)
EXTENDS Integers, SequencesExt

CONSTANTS
    Addresses,     \* where blocks may be, a set of integers greater than 0
    MaxBytes,      \* bound: the bytes in use at a time
    Byte,          \* the values of a byte are 0 .. Byte - 1
    Word,          \* the bytes of an integer, a float and a pointer
    Floats,        \* bound: floats, by the integers of the same bits
    Values,        \* bound: what programs write
    None,          \* of a byte: nothing was written there
    Garbage        \* what malloc leaves in a byte

(* Of the constants; the modules that give them values assume it.           *)
RawMemoryAssumption ==
    /\ {Byte, Word, MaxBytes} \subseteq Nat \ {0} /\ Garbage \in 0 .. Byte - 1
    /\ Addresses \subseteq 1 .. Byte ^ Word - 1
    /\ DOMAIN Floats \subseteq 0 .. Byte ^ Word - 1
    /\ \A m, n \in DOMAIN Floats : Floats[m] = Floats[n] => m = n

VARIABLES
    memory,     \* the blocks in use: an address |-> its bytes
    answer,     \* what the last native returned
    poked       \* history: for each byte, what was written over it last

vars == <<memory, answer, poked>>

Nil    == [type |-> "NIL"]
I(n)   == [type |-> "INT", of |-> n]
Ptr(a) == [type |-> "PTR", of |-> a]
F(x)   == [type |-> "FLOAT", of |-> x]

Kinds == {"U8", "I64", "F64", "Ptr"}
Size(kind) == IF kind = "U8" THEN 1 ELSE Word
Truncated(kind, n) == n % Byte ^ Size(kind)
Signed(n) == IF n >= (Byte ^ Word) \div 2 THEN n - Byte ^ Word ELSE n

(* The bytes of a number, the lowest first, and back.                      *)
BytesOfHighest(n, size) == [k \in 1 .. size |-> (n \div Byte ^ (size - k)) % Byte]
BytesOf(n, size) == [k \in 1 .. size |-> (n \div Byte ^ (k - 1)) % Byte]
NumberOfHighest(bytes) == FoldLeft(LAMBDA n, b : b + Byte * n, 0, bytes)
NumberOf(bytes) == FoldRight(LAMBDA b, n : b + Byte * n, bytes, 0)

(* Where slot i begins, counted from 0.                                    *)
OffsetInBytes(kind, i) == i
Offset(kind, i) == i * Size(kind)
Slots(a, kind) == {i \in 0 .. MaxBytes : Offset(kind, i) + Size(kind) <= Len(memory[a])}

-----------------------------------------------------------------------------
(* What a value is stored as; of another type than the slot's, as zero.    *)
FloatBits(x) == CHOOSE n \in DOMAIN Floats : Floats[n] = x

Stored(kind, v) ==
    CASE kind \in {"U8", "I64"} /\ v.type = "INT" -> Truncated(kind, v.of)
      [] kind = "F64" /\ v.type = "FLOAT" -> FloatBits(v.of)
      [] kind = "F64" /\ v.type = "INT" -> FloatBits(<<"whole", v.of>>)
      [] kind = "Ptr" /\ v.type = "PTR" -> v.of
      [] OTHER -> 0

Loaded(kind, n) ==
    CASE kind = "U8"  -> I(n)
      [] kind = "I64" -> I(Signed(n))
      [] kind = "F64" -> F(Floats[n])
      [] kind = "Ptr" -> IF n = 0 THEN Nil ELSE Ptr(n)

Init == memory = [a \in {} |-> <<>>] /\ answer = Nil /\ poked = [a \in {} |-> <<>>]

With(f, a, x) == [b \in DOMAIN f \cup {a} |-> IF b = a THEN x ELSE f[b]]

(* malloc may find the place of a block that was freed, or none.           *)
InUse == FoldSet(LAMBDA a, sum : sum + Len(memory[a]), 0, DOMAIN memory)

MAllocUncleared(n) ==
    \E a \in Addresses \ DOMAIN memory :
        /\ memory' = With(memory, a, [k \in 1 .. n |-> Garbage])
        /\ poked' = With(poked, a, [k \in 1 .. n |-> None])
        /\ answer' = Ptr(a)

MAlloc(n) ==
    \/ \E a \in Addresses \ DOMAIN memory :
          /\ memory' = With(memory, a, [k \in 1 .. n |-> 0])
          /\ poked' = With(poked, a, [k \in 1 .. n |-> None])
          /\ answer' = Ptr(a)
    \/ answer' = Nil /\ UNCHANGED <<memory, poked>>

(* Free of what is no pointer does nothing.                                *)
Free(v) ==
    /\ v.type = "PTR" => v.of \in DOMAIN memory
    /\ LET freed == IF v.type = "PTR" THEN {v.of} ELSE {}
       IN  /\ memory' = [a \in DOMAIN memory \ freed |-> memory[a]]
           /\ poked' = [a \in DOMAIN poked \ freed |-> poked[a]]
    /\ answer' = Nil

Bytes(a, kind, i) == SubSeq(memory[a], Offset(kind, i) + 1, Offset(kind, i) + Size(kind))

Peek(a, kind, i) ==
    /\ kind = "F64" => NumberOf(Bytes(a, kind, i)) \in DOMAIN Floats    \* bound
    /\ answer' = Loaded(kind, NumberOf(Bytes(a, kind, i)))
    /\ UNCHANGED <<memory, poked>>

Poke(a, kind, i, v) ==
    LET at    == Offset(kind, i)
        slot  == at + 1 .. at + Size(kind)
        bytes == BytesOf(Stored(kind, v), Size(kind))
    IN  /\ memory' = [memory EXCEPT ![a] = [k \in DOMAIN @ |-> IF k \in slot THEN bytes[k - at] ELSE @[k]]]
        /\ poked' = [poked EXCEPT ![a] = [k \in DOMAIN @ |->
                        IF k \in slot THEN [kind |-> kind, i |-> i, of |-> v] ELSE @[k]]]
        /\ answer' = v

(* A slot of what is no pointer: nothing is read or written.               *)
OfNothing == answer' = Nil /\ UNCHANGED <<memory, poked>>

Next ==
    \/ \E n \in 1 .. MaxBytes - InUse : MAlloc(n)
    \/ \E v \in Values \cup {Ptr(a) : a \in Addresses} : Free(v)
    \/ \E a \in DOMAIN memory, kind \in Kinds : \E i \in Slots(a, kind) :
          \/ Peek(a, kind, i)
          \/ \E v \in Values : Poke(a, kind, i, v)
    \/ OfNothing

Spec == Init /\ [][Next]_vars

-----------------------------------------------------------------------------
(* What a slot of a type holds after v was written there.                  *)
ReadsAs(kind, v) ==
    CASE kind = "U8"  -> I(IF v.type = "INT" THEN v.of % Byte ELSE 0)
      [] kind = "I64" -> IF v.type = "INT" THEN v ELSE I(0)
      [] kind = "F64" -> CASE v.type = "FLOAT" -> v
                           [] v.type = "INT" -> F(<<"whole", v.of>>)
                           [] OTHER -> F(<<"whole", 0>>)
      [] kind = "Ptr" -> IF v.type = "PTR" THEN v ELSE Nil

(* What was last written over the bytes of slot i of a type.               *)
Writers(a, kind, i) == {poked[a][k] : k \in i * Size(kind) + 1 .. (i + 1) * Size(kind)}

SlotReadsBack ==
    \A a \in DOMAIN memory : \A kind \in Kinds : \A i \in Slots(a, kind) :
        Peek(a, kind, i) =>
            \A w \in Writers(a, kind, i) :
                Writers(a, kind, i) = {w} =>
                    /\ w = None => answer' = ReadsAs(kind, I(0))
                    /\ w # None /\ w.kind = kind /\ w.i = i => answer' = ReadsAs(kind, w.of)

(* A slot reads as what was last written to it, whatever was written to    *)
(* other slots since, and as zero, 0.0 or NULL before anything was ("A     *)
(* null pointer reads back as `NULL`", docs/STDLIB.md:86), also where a    *)
(* freed block was: the slots of a type are disjoint, new memory is clear. *)
SlotsKeepTheirValues == [][SlotReadsBack]_vars

(* The two sizes agree on which bytes are whose: an integer is the bytes   *)
(* of its slot, the lowest first, and a byte of it may be changed alone.   *)
IntegersAreTheirBytes ==
    \A a \in DOMAIN memory : \A k \in DOMAIN memory[a] :
        LET w == poked[a][k]
        IN  w # None /\ w.kind \in {"I64", "U8"} =>
                memory[a][k] = IF w.of.type # "INT" THEN 0
                               ELSE (w.of.of \div Byte ^ ((k - 1) - w.i * Size(w.kind))) % Byte
=============================================================================
