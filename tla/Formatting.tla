---------------------------- MODULE Formatting ----------------------------
(***************************************************************************)
(* Print (natives.c, bk_format_sink) in the hosted and in the freestanding *)
(* runtime at once.  Of the format's flags there are width, - and 0.  What *)
(* libc does with a conversion is external.                                *)
(***************************************************************************)
EXTENDS Text

CONSTANTS
    Formats,    \* bound: format strings, sequences of pieces: [char], [flags, conv] or
                \* [flags] for one that the text ends in
    Arguments,  \* bound: what follows the format, sequences of values
    FlagsMax,   \* the flags that are read, 31 in the code
    NoFormat    \* the format of a call whose first argument is not a string

(* Of the constants; the modules that give them values assume it.           *)
FormattingAssumption ==
    /\ FlagsMax \in Nat
    /\ \A a \in Arguments : \A i \in DOMAIN a : a[i].type = "INT" => a[i].of \in Integer

VARIABLES
    format, args,  \* the call
    p,             \* the next character of the text
    ai,            \* the next argument
    out,           \* what each profile's sink was given
    done

vars == <<format, args, p, ai, out, done>>

Profiles == {"hosted", "freestanding"}
CONVERSIONS == {"d", "i", "u", "o", "x", "X", "f", "c", "s", "p"}
Nil == [type |-> "NIL"]

(* What a piece is written as, and the text of a format.                   *)
Written(piece) ==
    CASE "char" \in DOMAIN piece -> IF piece.char = "%" THEN <<"%", "%">> ELSE <<piece.char>>
      [] "conv" \in DOMAIN piece -> <<"%">> \o piece.flags \o <<piece.conv>>
      [] OTHER                   -> <<"%">> \o piece.flags

Text == FlattenSeq([i \in DOMAIN format |-> Written(format[i])])
At(i) == IF i <= Len(Text) THEN Text[i] ELSE NUL

-----------------------------------------------------------------------------
ToI64(v) ==
    CASE v.type = "INT"   -> v.of
      [] v.type = "BOOL"  -> IF v.of THEN 1 ELSE 0
      [] v.type = "FLOAT" -> (IF v.sign = "-" THEN -1 ELSE 1) * (v.num \div v.den)
      [] OTHER            -> 0

ToF64(v) ==
    LET Whole(n) == [type |-> "FLOAT", sign |-> IF n < 0 THEN "-" ELSE "+",
                     num |-> FloatNear(IF n < 0 THEN -n ELSE n), den |-> 1]
    IN  IF v.type = "FLOAT" THEN v ELSE Whole(ToI64(v))

Char(n) == IF n % 256 = 0 THEN NUL ELSE [code |-> n % 256]

(* The address of an object is one of its own, the same in both.           *)
Address(v) ==
    CASE v.type = "PTR" -> U64ToText(v.of, 16, FALSE)
      [] v.type \in {"STRING", "ARRAY", "OBJECT"} -> <<[address |-> v]>>
      [] OTHER -> <<"0">>

(* The characters of a conversion without its flags.                       *)
SpecSigned(conv, n) ==
    CASE conv \in {"d", "i", "u"} -> I64ToText(n)
      [] conv = "o" -> U64ToText(Unsigned(n), 8, FALSE)
      [] conv \in {"x", "X"} -> U64ToText(Unsigned(n), 16, conv = "X")

SpecInt(conv, n) ==
    CASE conv \in {"d", "i"} -> I64ToText(n)
      [] conv = "u" -> U64ToText(Unsigned(n), 10, FALSE)
      [] conv = "o" -> U64ToText(Unsigned(n), 8, FALSE)
      [] conv \in {"x", "X"} -> U64ToText(Unsigned(n), 16, conv = "X")

FreestandingSpec(conv, v) ==
    CASE conv \in {"d", "i", "u", "o", "x", "X"} -> SpecInt(conv, ToI64(v))
      [] conv = "f" -> FloatText("freestanding", conv, ToF64(v))
      [] conv = "c" -> <<Char(ToI64(v))>>
      [] conv = "s" -> IF v.type = "STRING" THEN CString(v.of) ELSE <<>>
      [] conv = "p" -> <<"0x">> \o Address(v)
      [] OTHER -> <<conv>>

(* libc's answer: padded to a width, with blanks or zeros, on one side.    *)
Width(flags) ==
    LET w == SelectSeq(flags, LAMBDA c : c \in {"3", "4"}) IN IF w = <<>> THEN 0 ELSE IF w[1] = "3" THEN 3 ELSE 4

Fill(c, n) == [i \in 1 .. n |-> c]

Padded(flags, zeros, text) ==
    LET n == Width(flags) - Len(text)
    IN  CASE n <= 0                -> text
          [] n > 0 /\ "-" \in Range(flags) -> text \o Fill(" ", n)
          [] n > 0 /\ "-" \notin Range(flags) /\ zeros /\ "0" \in Range(flags) ->
               IF text # <<>> /\ text[1] = "-" THEN <<"-">> \o Fill("0", n) \o Tail(text) ELSE Fill("0", n) \o text
          [] OTHER                 -> Fill(" ", n) \o text

LibcInt(flags, conv, n) ==
    Padded(flags, TRUE,
        CASE conv \in {"d", "i"} -> I64ToText(n)
          [] conv = "u" -> U64ToText(n % 2 ^ Bits, 10, FALSE)
          [] conv = "o" -> U64ToText(n % 2 ^ Bits, 8, FALSE)
          [] conv \in {"x", "X"} -> U64ToText(n % 2 ^ Bits, 16, conv = "X"))

HostedSpec(flags, conv, v) ==
    CASE conv \in {"d", "i", "u", "o", "x", "X"} -> LibcInt(flags, conv, ToI64(v))
      [] conv = "f" -> LibcFloat("f", ToF64(v))
      [] conv = "c" -> CString(Padded(flags, FALSE, <<Char(ToI64(v))>>))
      [] conv = "s" -> Padded(flags, FALSE, IF v.type = "STRING" THEN CString(v.of) ELSE <<>>)
      [] conv = "p" -> <<"0x">> \o Address(v)
      [] OTHER -> <<conv>>

PrintSpec(profile, flags, conv, v) ==
    IF profile = "hosted" THEN HostedSpec(flags, conv, v) ELSE FreestandingSpec(conv, v)

-----------------------------------------------------------------------------
Init ==
    /\ format \in Formats
    /\ args \in {a \in Arguments : format = NoFormat /\ a # <<>> => a[1].type # "STRING"}
    /\ p = 1 /\ ai = 1
    /\ out = [x \in Profiles |-> <<>>]
    /\ done = FALSE

Reading == ~done /\ format # NoFormat

Emit(added) == out' = [x \in Profiles |-> out[x] \o added[x]]

Plain ==
    /\ Reading /\ At(p) \notin {"%", NUL}
    /\ Emit([x \in Profiles |-> <<At(p)>>]) /\ p' = p + 1
    /\ UNCHANGED <<format, args, ai, done>>

Percent ==
    /\ Reading /\ At(p) = "%" /\ At(p + 1) = "%"
    /\ Emit([x \in Profiles |-> <<"%">>]) /\ p' = p + 2
    /\ UNCHANGED <<format, args, ai, done>>

(* Where the flags that begin at i end.                                    *)
FlagsEnd(i) ==
    CHOOSE j \in i .. i + FlagsMax :
        /\ j = i + FlagsMax \/ At(j) \in CONVERSIONS \cup {NUL}
        /\ \A k \in i .. j - 1 : At(k) \notin CONVERSIONS \cup {NUL}

ArgumentOrLast(i) == IF i <= Len(args) THEN args[i] ELSE IF args = <<>> THEN Nil ELSE Last(args)
Argument(i) == IF i <= Len(args) THEN args[i] ELSE Nil

(* A format that ends within a conversion ends there.                      *)
Conversion ==
    /\ Reading /\ At(p) = "%" /\ At(p + 1) # "%"
    /\ LET end   == FlagsEnd(p + 1)
           flags == SubSeq(Text, p + 1, end - 1)
       IN  IF At(end) = NUL THEN done' = TRUE /\ UNCHANGED <<p, ai, out>>
           ELSE /\ Emit([x \in Profiles |-> PrintSpec(x, flags, At(end), Argument(ai))])
                /\ p' = end + 1
                /\ ai' = (IF ai <= Len(args) THEN ai + 1 ELSE ai)
                /\ done' = done
    /\ UNCHANGED <<format, args>>

End ==
    /\ Reading /\ At(p) = NUL
    /\ done' = TRUE
    /\ UNCHANGED <<format, args, p, ai, out>>

(* Without a format, each argument as it is.                               *)
PrintValues ==
    /\ ~done /\ format = NoFormat
    /\ Emit([x \in Profiles |-> FlattenSeq([i \in DOMAIN args |->
            (IF i > 1 THEN <<" ">> ELSE <<>>) \o ValueText(x, args[i])])])
    /\ done' = TRUE
    /\ UNCHANGED <<format, args, p, ai>>

Next == Plain \/ Percent \/ Conversion \/ End \/ PrintValues

Spec == Init /\ [][Next]_vars

-----------------------------------------------------------------------------
Specs(n) == {i \in 1 .. n : "conv" \in DOMAIN format[i]}
Formatted == done /\ format # NoFormat

(* What is printed is the format, piece by piece: each conversion takes    *)
(* the argument of its number, "a missing argument formats as nil/empty"   *)
(* (docs/STDLIB.md:42), %% takes none, and a conversion that the text ends *)
(* in nothing (natives.c:174).                                             *)
OutputFollowsTheCall ==
    Formatted => \A x \in Profiles :
        out[x] = FlattenSeq([i \in DOMAIN format |->
            LET k == Cardinality(Specs(i))
            IN  CASE i \in Specs(i) ->
                       PrintSpec(x, format[i].flags, format[i].conv, IF k <= Len(args) THEN args[k] ELSE Nil)
                  [] "char" \in DOMAIN format[i] -> <<format[i].char>>
                  [] OTHER -> <<>>])

(* Without flags the two runtimes print the same (docs/STDLIB.md:43), but  *)
(* for floats, which only one of them leaves to libc, and a character 0,   *)
(* which is the end of libc's answer (natives.c:49).                       *)
ProfilesAgree ==
    Formatted =>
        \/ \E i \in Specs(Len(format)) : format[i].flags # <<>> \/ format[i].conv = "f"
        \/ NUL \in Range(out["freestanding"])
        \/ out["hosted"] = out["freestanding"]

(* A text as a number, in a base.                                          *)
ValueOf(digit) == CHOOSE n \in 0 .. 15 : digit \in {Low[n + 1], High[n + 1]}
Number(text, base) == FoldLeft(LAMBDA n, d : base * n + ValueOf(d), 0, text)
IsNumeral(text) == text # <<>> /\ (Len(text) > 1 => text[1] # "0")

BaseOf(conv) == CASE conv = "o" -> 8 [] conv \in {"x", "X"} -> 16 [] OTHER -> 10

Only(convs) == Formatted /\ Len(format) = 1 /\ Specs(1) # {} /\ format[1].conv \in convs /\ args # <<>>

(* An integer reads back as itself, the least one and 0 included, signed   *)
(* or modulo 2^64, with no zeros in front (output.c:46).                   *)
NumeralsReadBack ==
    Only({"d", "i", "u", "o", "x", "X"}) /\ args[1].type = "INT" =>
        LET text == out["freestanding"]
            n    == args[1].of
        IN  IF format[1].conv \in {"d", "i"} /\ n < 0
            THEN text[1] = "-" /\ IsNumeral(Tail(text)) /\ Number(Tail(text), 10) = -n
            ELSE IsNumeral(text) /\ Number(text, BaseOf(format[1].conv)) = n % 2 ^ Bits

(* A float printed without libc (output.c:78) keeps its sign when its      *)
(* whole part is 0, has up to six digits, none of them a 0 at the end, and *)
(* is the value cut after them.  Since each step rounds, the digits may be *)
(* those of a fraction nearby, above the value too: 0.3, which no float    *)
(* is, is printed as 0.3.  It is never farther than two units of the last  *)
(* place of the fraction, Nearby of it at most.                            *)
FloatsAreNear ==
    Only({"f"}) /\ args[1].type = "FLOAT" =>
        LET x      == args[1]
            minus  == x.sign = "-" /\ x.num # 0
            text   == IF minus THEN Tail(out["freestanding"]) ELSE out["freestanding"]
            dots   == {i \in DOMAIN text : text[i] = "."}
            whole  == IF dots = {} THEN text ELSE SubSeq(text, 1, (CHOOSE i \in dots : TRUE) - 1)
            part   == SubSeq(text, Len(whole) + 2, Len(text))
            value  == (x.num % x.den) * 10 ^ 6
            Nearby == value \div 2 ^ (FloatBits - 2)
            read   == Number(part, 10) * 10 ^ (6 - Len(part))
        IN  /\ minus <=> out["freestanding"][1] = "-"
            /\ IsNumeral(whole) /\ Number(whole, 10) = x.num \div x.den
            /\ Cardinality(dots) <= 1 /\ (dots # {} => part # <<>>)
            /\ Len(part) <= 6 /\ Range(part) \subseteq {Low[n] : n \in 1 .. 10}
            /\ part # <<>> => Last(part) # "0"
            /\ read * x.den <= value + Nearby
            /\ (read + 1) * x.den > value - Nearby
=============================================================================
