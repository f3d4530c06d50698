-------------------------------- MODULE Text --------------------------------
(***************************************************************************)
(* How values become characters (output.c, object_print_sink), in the      *)
(* hosted and in the freestanding runtime.  What libc does with a float is *)
(* external.                                                               *)
(***************************************************************************)
EXTENDS Integers, SequencesExt, FiniteSets

CONSTANTS
    Bits,       \* the width of integers
    FloatBits,  \* the width of a float's significand, 53 in the code
    Arrays,     \* the arrays among the values: a name |-> its elements
    NUL         \* the terminator

(* Of the constants; the modules that give them values assume it.           *)
TextAssumption == Bits \in Nat \ {0, 1} /\ FloatBits \in Nat \ {0, 1, 2}

Integer == -(2 ^ (Bits - 1)) .. 2 ^ (Bits - 1) - 1

-----------------------------------------------------------------------------
(***************************************************************************)
(* Numbers (output.c).  A float is [type, sign, num, den] with den a power *)
(* of 2 and num a significand times a power of 2.  nan, inf and floats     *)
(* beyond the integers, which C does not convert to one, and those so      *)
(* small that they have less bits are not modelled.                        *)
(***************************************************************************)
Low  == <<"0", "1", "2", "3", "4", "5", "6", "7", "8", "9", "a", "b", "c", "d", "e", "f">>
High == <<"0", "1", "2", "3", "4", "5", "6", "7", "8", "9", "A", "B", "C", "D", "E", "F">>

RECURSIVE Digits(_, _, _)
Digits(n, base, digits) ==
    LET more == <<digits[(n % base) + 1]>>
    IN  IF n \div base = 0 THEN more ELSE Digits(n \div base, base, digits) \o more

RECURSIVE DigitsWhile(_, _, _)
DigitsWhile(n, base, digits) ==
    IF n = 0 THEN <<>> ELSE DigitsWhile(n \div base, base, digits) \o <<digits[(n % base) + 1]>>

U64ToTextWhile(n, base, upper) == DigitsWhile(n, base, IF upper THEN High ELSE Low)
U64ToText(n, base, upper) == Digits(n, base, IF upper THEN High ELSE Low)

(* -(n + 1) + 1, which the least integer has too.                          *)
I64ToText(n) ==
    IF n < 0 THEN <<"-">> \o U64ToText(-(n + 1) + 1, 10, FALSE) ELSE U64ToText(n, 10, FALSE)

Unsigned(n) == n % 2 ^ Bits

(* F64 arithmetic: num / den is rounded to FloatNear(num) / den, the        *)
(* nearest float, of two the one with the even significand.                *)
FloatNear(num) ==
    LET spacing == 2 ^ (CHOOSE k \in 0 .. num : num \div 2 ^ k < 2 ^ FloatBits)
        below   == num \div spacing
        rest    == num % spacing
        up      == 2 * rest > spacing \/ (2 * rest = spacing /\ below % 2 = 1)
    IN  spacing * (IF up THEN below + 1 ELSE below)

(* Up to six digits of a fraction num / den < 1, and no zeros at the end.  *)
(* The product with 10 is rounded, what is taken from it is exact.         *)
RECURSIVE FractionDigits(_, _, _)
FractionDigits(num, den, left) ==
    IF num = 0 \/ left = 0 THEN <<>>
    ELSE LET frac == FloatNear(10 * num)
         IN  <<Low[(frac \div den) + 1]>> \o FractionDigits(frac % den, den, left - 1)

RECURSIVE WithoutZeros(_)
WithoutZeros(text) ==
    IF text # <<>> /\ Last(text) = "0" THEN WithoutZeros(Front(text)) ELSE text

F64ToTextSignOfWhole(x) ==
    LET whole    == (IF x.sign = "-" THEN -1 ELSE 1) * (x.num \div x.den)
        fraction == WithoutZeros(FractionDigits(x.num % x.den, x.den, 6))
    IN  I64ToText(whole) \o (IF fraction = <<>> THEN <<>> ELSE <<".">> \o fraction)

F64ToText(x) ==
    LET fraction == WithoutZeros(FractionDigits(x.num % x.den, x.den, 6))
    IN  (IF x.sign = "-" /\ x.num # 0 THEN <<"-">> ELSE <<>>)
        \o I64ToText(x.num \div x.den)
        \o (IF fraction = <<>> THEN <<>> ELSE <<".">> \o fraction)

(* snprintf with %g or %f, of libc.                                        *)
LibcFloat(conv, x) == <<[libc |-> conv, of |-> x]>>

FloatText(profile, conv, x) ==
    IF profile = "hosted" THEN LibcFloat(conv, x)
    ELSE F64ToText(x)

-----------------------------------------------------------------------------
(***************************************************************************)
(* Values.                                                                 *)
(***************************************************************************)
(* bk_sink_cstr stops at the first NUL.                                    *)
CString(text) ==
    IF NUL \in Range(text)
    THEN SubSeq(text, 1, (CHOOSE i \in DOMAIN text : text[i] = NUL /\ \A j \in 1 .. i - 1 : text[j] # NUL) - 1)
    ELSE text

(* Functions, natives, classes, instances and maps have their own forms,   *)
(* which hold a name at most.                                              *)
RECURSIVE ValueText(_, _)
ValueText(profile, v) ==
    CASE v.type = "NIL"    -> <<"nil">>
      [] v.type = "BOOL"   -> <<IF v.of THEN "TRUE" ELSE "FALSE">>
      [] v.type = "INT"    -> I64ToText(v.of)
      [] v.type = "FLOAT"  -> FloatText(profile, "g", v)
      [] v.type = "PTR"    -> <<IF v.of # 0 THEN "<ptr>" ELSE "NULL">>
      [] v.type = "STRING" -> CString(v.of)
      [] v.type = "OBJECT" -> <<"<", v.of, ">">>
      [] v.type = "ARRAY"  ->
           LET elements == Arrays[v.of]
           IN  <<"[">> \o FlattenSeq([i \in DOMAIN elements |->
                   (IF i > 1 THEN <<", ">> ELSE <<>>) \o ValueText(profile, elements[i])]) \o <<"]">>
=============================================================================
