--------------------------- MODULE StringNatives ---------------------------
(***************************************************************************)
(* The natives on strings and numbers (natives.c).  A string is a sequence *)
(* of characters and has a length of its own; some natives hand its        *)
(* characters to libc, which knows of the terminator only.                 *)
(***************************************************************************)
EXTENDS Text

CONSTANTS
    Calls,       \* bound: [native, args] of what is called
    Beyond       \* what is read outside a string

VARIABLES call, answer

vars == <<call, answer>>

Nil    == [type |-> "NIL"]
I(n)   == [type |-> "INT", of |-> n]
Str(s) == [type |-> "STRING", of |-> s]

IsInt(v)    == v.type = "INT"
IsString(v) == v.type = "STRING"
IsNumber(v) == v.type \in {"INT", "FLOAT"}

Wrapped(n) == ((n + 2 ^ (Bits - 1)) % 2 ^ Bits) - 2 ^ (Bits - 1)

-----------------------------------------------------------------------------
(* A character is a byte, of 4 bits here; the terminator is 0.             *)
Bytes == <<"1", "2", "3", "4", "5", "6", "7", "8", "9", "0", "-", "a", "b", "c", "d">>
Code(c) == IF c = NUL THEN 0 ELSE CHOOSE n \in DOMAIN Bytes : Bytes[n] = c
CharOf(n) == IF n % 16 = 0 THEN NUL ELSE Bytes[n % 16]

LenOf(v) ==
    CASE v.type = "ARRAY"  -> I(Len(Arrays[v.of]))
      [] v.type = "STRING" -> I(Len(v.of))
      [] OTHER             -> I(0)

CharAt(s, i) ==
    IF ~IsString(s) \/ ~IsInt(i) \/ i.of \notin 0 .. Len(s.of) - 1 THEN I(-1)
    ELSE I(Code(s.of[i.of + 1]))

Chr(v) == Str(<<CharOf(IF IsInt(v) THEN v.of ELSE 0)>>)

(* len characters of s from start on, wherever that is.                    *)
Copied(s, start, len) ==
    IF len < 0 \/ start + len > Len(s) THEN Beyond ELSE SubSeq(s, start + 1, start + len)

Least(a, b) == IF a <= b THEN a ELSE b

SubstrFrom1(s, from, count) ==
    IF ~IsString(s) \/ ~IsInt(from) \/ ~IsInt(count) THEN Nil
    ELSE LET start == Least(IF from.of < 0 THEN 0 ELSE from.of, Len(s.of))
             len   == IF count.of < 0 THEN 0 ELSE count.of
         IN  Str(Copied(s.of, start, IF len > Len(s.of) THEN Len(s.of) - start ELSE len))

(* start + len is a sum of 64 bits that wraps.                             *)
Substr(s, from, count) ==
    IF ~IsString(s) \/ ~IsInt(from) \/ ~IsInt(count) THEN Nil
    ELSE LET start == Least(IF from.of < 0 THEN 0 ELSE from.of, Len(s.of))
             len   == IF count.of < 0 THEN 0 ELSE count.of
         IN  Str(Copied(s.of, start,
                        IF Wrapped(start + len) > Len(s.of) THEN Len(s.of) - start ELSE len))

(* strstr, of libc.                                                        *)
Occurs(s, t, i) == i + Len(t) <= Len(s) /\ SubSeq(s, i + 1, i + Len(t)) = t
FirstOf(s, t) == LET at == {i \in 0 .. Len(s) : Occurs(s, t, i)}
                 IN  IF at = {} THEN -1 ELSE CHOOSE i \in at : \A j \in at : i <= j

IndexOfFrom1(s, t) ==
    IF ~IsString(s) \/ ~IsString(t) THEN I(-1) ELSE I(FirstOf(CString(s.of), CString(t.of)) + 1)
IndexOf(s, t) ==
    IF ~IsString(s) \/ ~IsString(t) THEN I(-1) ELSE I(FirstOf(CString(s.of), CString(t.of)))

-----------------------------------------------------------------------------
(* strtoll, of libc: blanks, a sign and the digits that follow, the        *)
(* nearest integer if it is out of range.                                  *)
Decimals == {Low[n] : n \in 1 .. 10}
RECURSIVE Leading(_)
Leading(text) == IF text # <<>> /\ Head(text) \in Decimals
                 THEN <<Head(text)>> \o Leading(Tail(text)) ELSE <<>>

Nearest(n) == CASE n < -(2 ^ (Bits - 1)) -> -(2 ^ (Bits - 1))
                [] n > 2 ^ (Bits - 1) - 1 -> 2 ^ (Bits - 1) - 1
                [] OTHER -> n

ParseInt(text) ==
    LET signed == text # <<>> /\ text[1] \in {"-", "+"}
        digits == Leading(IF signed THEN Tail(text) ELSE text)
        n      == FoldLeft(LAMBDA sum, d : 10 * sum + (CHOOSE v \in 0 .. 9 : Low[v + 1] = d), 0, digits)
    IN  Nearest(IF signed /\ text[1] = "-" THEN -n ELSE n)

Truncated(x) == (IF x.sign = "-" THEN -1 ELSE 1) * (x.num \div x.den)

ToInt(v) ==
    CASE v.type = "INT"    -> v
      [] v.type = "FLOAT"  -> I(Truncated(v))
      [] v.type = "STRING" -> I(ParseInt(CString(v.of)))
      [] OTHER             -> I(0)

ToStrUnsigned(profile, v) ==
    CASE v.type = "STRING" -> v
      [] v.type = "INT"    -> Str(U64ToText(Unsigned(v.of), 10, FALSE))
      [] OTHER             -> Str(<<>>)

ToStr(profile, v) ==
    CASE v.type = "STRING" -> v
      [] v.type = "INT"    -> Str(I64ToText(v.of))
      [] v.type = "FLOAT"  -> Str(FloatText(profile, "g", v))
      [] v.type = "BOOL"   -> Str(<<IF v.of THEN "TRUE" ELSE "FALSE">>)
      [] v.type = "NIL"    -> Str(<<"nil">>)
      [] OTHER             -> Str(<<>>)

(* to_f64: an integer becomes the nearest float; what is no number is 0,   *)
(* but for a BOOL.                                                         *)
Rounded(n) == IF n < 0 THEN -FloatNear(-n) ELSE FloatNear(n)

Ratio(v) ==
    CASE v.type = "FLOAT" -> [num |-> IF v.sign = "-" THEN -v.num ELSE v.num, den |-> v.den]
      [] v.type = "INT"   -> [num |-> Rounded(v.of), den |-> 1]
      [] v.type = "BOOL"  -> [num |-> IF v.of THEN 1 ELSE 0, den |-> 1]
      [] OTHER            -> [num |-> 0, den |-> 1]
AtMost(a, b) == Ratio(a).num * Ratio(b).den <= Ratio(b).num * Ratio(a).den

Min2AsFloats(a, b) == IF AtMost(a, b) THEN a ELSE b
Min2(a, b) ==
    IF IsInt(a) /\ IsInt(b) THEN (IF a.of <= b.of THEN a ELSE b) ELSE IF AtMost(a, b) THEN a ELSE b
Max2(a, b) ==
    IF IsInt(a) /\ IsInt(b) THEN (IF a.of >= b.of THEN a ELSE b) ELSE IF AtMost(b, a) THEN a ELSE b

Abs(v) ==
    CASE v.type = "FLOAT" -> [v EXCEPT !.sign = "+"]
      [] v.type = "INT"   -> I(IF v.of < 0 THEN Wrapped(-v.of) ELSE v.of)
      [] OTHER            -> I(Ratio(v).num)   \* llabs(to_i64(v))

-----------------------------------------------------------------------------
Answered(a) ==
    CASE call.native = "Len"     -> LenOf(a[1])
      [] call.native = "CharAt"  -> CharAt(a[1], a[2])
      [] call.native = "Chr"     -> Chr(a[1])
      [] call.native = "Substr"  -> Substr(a[1], a[2], a[3])
      [] call.native = "IndexOf" -> IndexOf(a[1], a[2])
      [] call.native = "ToInt"   -> ToInt(a[1])
      [] call.native = "ToStr"   -> ToStr("freestanding", a[1])
      [] call.native = "Min"     -> Min2(a[1], a[2])
      [] call.native = "Max"     -> Max2(a[1], a[2])
      [] call.native = "Abs"     -> Abs(a[1])

Init == call \in Calls /\ answer = <<>>

Call == answer = <<>> /\ answer' = <<Answered(call.args)>> /\ UNCHANGED call

Next == Call

Spec == Init /\ [][Next]_vars

-----------------------------------------------------------------------------
Is(native) == answer # <<>> /\ call.native = native
Arg(i) == call.args[i]

(* ToInt undoes ToStr on every integer, the least one included, and CharAt *)
(* undoes Chr modulo the size of a character.                              *)
TextsReadBack ==
    /\ Is("ToStr") /\ IsInt(Arg(1)) => ToInt(answer[1]) = Arg(1)
    /\ Is("Chr") /\ IsInt(Arg(1)) => CharAt(answer[1], I(0)) = I(Arg(1).of % 16)

Clamped ==
    LET s     == Arg(1).of
        first == IF Arg(2).of < 0 THEN 0 ELSE Arg(2).of
    IN  SelectSeq([i \in DOMAIN s |-> <<i, s[i]>>], LAMBDA c : c[1] > first /\ c[1] <= first + Arg(3).of)
SubstrArgs == Is("Substr") /\ IsString(Arg(1)) /\ IsInt(Arg(2)) /\ IsInt(Arg(3))
TakenFromTheText == answer[1] = Str([i \in DOMAIN Clamped |-> Clamped[i][2]])

(* A substring is the characters at start, start + 1, ... that the text    *)
(* has, at most len, unless start + len is no integer any more.            *)
SubstrsAreTaken ==
    SubstrArgs /\ Least(Arg(2).of, Len(Arg(1).of)) + Arg(3).of \in Integer => TakenFromTheText

(* "Substring, with `start` and `len` clamped to bounds"                   *)
(* (docs/STDLIB.md:98), whatever they are.                                 *)
SubstrIsClamped == SubstrArgs => TakenFromTheText

FoundFirst ==
    LET s == Arg(1).of
        t == Arg(2).of
        i == answer[1].of
    IN  /\ i >= 0 => Substr(Arg(1), answer[1], I(Len(t))) = Arg(2)
        /\ \A j \in 0 .. (IF i >= 0 THEN i - 1 ELSE Len(s) - Len(t)) :
              Substr(Arg(1), I(j), I(Len(t))) # Arg(2)
IndexArgs == Is("IndexOf") /\ IsString(Arg(1)) /\ IsString(Arg(2))

(* IndexOf and Substr agree on strings without a character 0: the text     *)
(* found is there, and nowhere before.                                     *)
IndexAgreesWithSubstr ==
    IndexArgs /\ NUL \notin Range(Arg(1).of) \cup Range(Arg(2).of) => FoundFirst

Exactly(v) == IF IsInt(v) THEN [num |-> v.of, den |-> 1] ELSE Ratio(v)
Below(a, b) == Exactly(a).num * Exactly(b).den <= Exactly(b).num * Exactly(a).den
Comparable(a, b) ==
    \/ IsInt(a) /\ IsInt(b)
    \/ \A v \in {a, b} : IsNumber(v) /\ (IsInt(v) => Rounded(v.of) = v.of)

(* Min and Max answer one of their arguments, below and above the other,   *)
(* the largest integers included; an integer that no float equals is       *)
(* compared with integers only.                                            *)
BoundsAreBounds ==
    answer # <<>> /\ call.native \in {"Min", "Max"} /\ Comparable(Arg(1), Arg(2)) =>
        /\ answer[1] \in {Arg(1), Arg(2)}
        /\ \A i \in {1, 2} : IF Is("Min") THEN Below(answer[1], Arg(i)) ELSE Below(Arg(i), answer[1])

(* "matches value_print formatting" (natives.c:457), whatever the value:   *)
(* a value and its ToStr print the same.                                   *)
ToStrMatchesPrint ==
    Is("ToStr") => ValueText("freestanding", answer[1]) = ValueText("freestanding", Arg(1))
=============================================================================
