----------------------------- MODULE MCOutside -----------------------------
(***************************************************************************)
(* What a program exchanges with the world around it, each kind on         *)
(* instances of its own: builds and runs from the command line (Builder),  *)
(* output (Formatting), strings (StringNatives), raw memory (RawMemory),   *)
(* code made at run time (CodeObjects), files and commands (HostNatives).  *)
(***************************************************************************)
EXTENDS Integers, SequencesExt, FiniteSets, TLC

CONSTANTS
    None,             \* of a part that does not take place
    NUL, NoFormat, Beyond, Hole

VARIABLES
    part,
    files, argv, pc, opt, text, owned, ccStatus, code,      \* owned: of HostNatives too
    format, args, p, ai, out, done,
    call, answer,                                           \* of four kinds of native
    memory, poked,
    arrays, functions, classes, given,
    disk, buffer, terminal, exited, calls, log, kept

buildVars  == <<files, argv, pc, opt, text, ccStatus, code>>
printVars  == <<format, args, p, ai, out, done>>
memoryVars == <<memory, poked>>
codeVars   == <<arrays, functions, classes, given>>
hostVars   == <<disk, buffer, terminal, exited, calls, log, kept>>

-----------------------------------------------------------------------------
B(words) == <<<<"build">>>> \o words
src == <<"p", ".bk">>
other == <<"d/", "q", "'", ".bk">>
Valued == {<<"-o">>, <<"--cc">>, <<"--cflags">>}

MCFiles ==
    (src :> <<"source", "plain">>) @@ (other :> <<"source", "other">>)
    @@ (<<"h", ".bk">> :> <<"source", "hosted">>) @@ (<<"e", ".bk">> :> <<"source", "wrong">>)
    @@ (<<"p", ".c">> :> <<"hand">>)

(* Command lines of two processes, with the output that each asks for.     *)
Lines == {
    <<B(<<src>>), "p">>, <<B(<<other, <<"--keep-c">>>>), "q'">>,
    <<B(<<src, <<"-o">>, <<"d/", "x">>>>), "d/x">>,
    <<B(<<<<"h", ".bk">>, <<"--freestanding">>>>), "h">>, <<B(<<<<"h", ".bk">>>>), "h">>,
    <<B(<<<<"--emit=c">>, other, <<"-o">>, <<"y", ".c">>>>), "y.c">>,
    <<B(<<other, <<"--emit=c">>, <<"-o">>, <<"x">>>>), "x">>,
    <<B(<<<<"e", ".bk">>>>), "e">>, <<B(<<<<"n", ".bk">>>>), "n">>, <<<<src>>, "none">>,
    <<B(<<other, <<"--cflags">>, <<"-static", " ", "-g", " ", "-s", " ", "-pie">>, <<"-o">>, <<"z">>>>), "z">> }

Together == {<<("a" :> l[1]) @@ ("b" :> m[1]), l[2], m[2]>> : l \in Lines, m \in Lines}
TogetherLines == {c[1] : c \in {t \in Together : t[2] # t[3] \/ t[2] = "none"}}

(* Every command line of up to three arguments of a build, and short ones  *)
(* of the other forms, beside one that does nothing.                       *)
Words == Valued \cup {<<"--keep-c">>, <<"--emit=c">>, <<"-x">>, src, other}
AllLines ==
    {B(w) : w \in UNION {[1 .. n -> Words] : n \in 0 .. 3}}
    \cup {<<<<"run">>>> \o w : w \in UNION {[1 .. n -> {src, other, <<"-o">>}] : n \in 0 .. 2}}
    \cup UNION {[1 .. n -> {src, <<"e", ".bk">>, <<"n", ".bk">>, <<"--version">>, <<"-x">>}] : n \in 0 .. 2}
AloneLines == {("a" :> words) @@ ("b" :> <<<<"--version">>>>) : words \in AllLines}

U == INSTANCE Builder WITH
        Builds <- {"a", "b"}, CommandLines <- TogetherLines \cup AloneLines, InitialFiles <- MCFiles,
        Home <- <<"h", " ", "'">>, CommandMax <- 39, Faults <- {"memory", "emit", "write", "cc"},
        NULL <- None

-----------------------------------------------------------------------------
I(n) == [type |-> "INT", of |-> n]
Str(s) == [type |-> "STRING", of |-> s]
Arr(name) == [type |-> "ARRAY", of |-> name]
Ptr(n) == [type |-> "PTR", of |-> n]
Bool == [type |-> "BOOL", of |-> TRUE]
Nil == [type |-> "NIL"]
Float(sign, num, den) == [type |-> "FLOAT", sign |-> sign, num |-> num, den |-> den]
Ints(bits) == {I(n) : n \in -(2 ^ (bits - 1)) .. 2 ^ (bits - 1) - 1}

MCArrays == [inner |-> <<I(-1), Nil>>, outer |-> <<Arr("inner"), Str(<<"b">>), Arr("none")>>, none |-> <<>>]

CONVERSIONS == {"d", "i", "u", "o", "x", "X", "f", "c", "s", "p"}
Char1(c) == [char |-> c]
Conv(flags, c) == [flags |-> flags, conv |-> c]
Pieces == {Char1("a"), Char1("%"), Conv(<<>>, "d"), Conv(<<"4">>, "s"), Conv(<<>>, "x"), Conv(<<>>, "s")}

MCFormats ==
    {<<Conv(f, c)>> : f \in {<<>>, <<"4">>, <<"-", "3">>, <<"0", "4">>}, c \in CONVERSIONS}
    \cup UNION {[1 .. n -> Pieces] : n \in 1 .. 3}
    \cup {Append(w, [flags |-> f]) : w \in UNION {[1 .. n -> Pieces] : n \in 0 .. 1}, f \in {<<>>, <<"4">>}}
    \cup {<<>>, NoFormat}

Single ==
    Ints(7) \cup {Float(s, n, d) : s \in {"+", "-"}, n \in {0, 1, 3, 20, 21}, d \in {1, 2, 8, 128}}
    \cup {Float("-", n, 2048) : n \in {1, 1229, 1638, 1843, 2047}}
    \cup {Nil, Bool, Ptr(0), Ptr(26), Str(<<>>), Str(<<"b", NUL, "c">>), Arr("outer"), [type |-> "OBJECT", of |-> "map"]}
Few == {Nil, I(-3), I(0), Float("-", 3, 2), Str(<<"b", "%">>)}
MCArguments == {<<v>> : v \in Single} \cup UNION {[1 .. n -> Few] : n \in {0, 2}}

F == INSTANCE Formatting WITH
        Bits <- 7, FloatBits <- 11, Arrays <- MCArrays, Formats <- MCFormats, Arguments <- MCArguments,
        FlagsMax <- 3

-----------------------------------------------------------------------------
Texts == {Str(s) : s \in UNION {[1 .. n -> {"1", "-", NUL}] : n \in 0 .. 3}}
Numbers == Ints(5) \cup {Float(s, n, d) : s \in {"+", "-"}, n \in {0, 3, 10, 12}, d \in {1, 2, 8}}
Others == {Nil, Bool, Ptr(5), Arr("inner")}
Of(native, tuples) == {[native |-> native, args |-> a] : a \in tuples}
MCCalls ==
    UNION {Of(n, {<<v>> : v \in Numbers \cup Texts \cup Others}) : n \in {"ToStr", "ToInt"}}
    \cup UNION {Of(n, {<<v>> : v \in Numbers \cup Others}) : n \in {"Chr", "Abs"}}
    \cup Of("Len", {<<v>> : v \in Texts \cup Others})
    \cup Of("CharAt", Texts \X {I(n) : n \in -2 .. 4})
    \cup Of("Substr", Texts \X {I(n) : n \in {-2, 0, 1, 2, 3, 4}} \X Ints(5))
    \cup Of("IndexOf", Texts \X Texts)
    \cup UNION {Of(n, Numbers \X Numbers) : n \in {"Min", "Max"}}

S == INSTANCE StringNatives WITH
        Bits <- 5, FloatBits <- 3, Arrays <- MCArrays, Calls <- MCCalls

-----------------------------------------------------------------------------
Bits4 == [n \in {0, 1, 6, 13} |->
    CASE n = 0 -> <<"whole", 0>> [] n = 1 -> <<"tiny">> [] n = 6 -> <<"whole", 1>> [] n = 13 -> <<"whole", -3>>]

M == INSTANCE RawMemory WITH
        Addresses <- {5}, MaxBytes <- 4, Byte <- 4, Word <- 2, Floats <- Bits4,
        Values <- {I(-3), Ptr(5), [type |-> "FLOAT", of |-> <<"tiny">>]}, Garbage <- 2

C == INSTANCE CodeObjects WITH
        Strings <- {"x"}, Integer <- {0, 1}, MaxByte <- 0, MaxConsts <- 1,
        MaxArrays <- 2, MaxFunctions <- 1, MaxClasses <- 1, MaxLength <- 2

H == INSTANCE HostNatives WITH
        Files <- {"f"}, Texts <- {<<>>, <<"a">>, <<"b", "c">>},
        Outputs <- {[i \in 1 .. n |-> i] : n \in 0 .. 5}, FirstBuffer <- 1, Garbage <- "?", MaxCalls <- 3

ASSUME InstancesAssumption ==
    /\ U!BuilderAssumption /\ F!FormattingAssumption /\ S!TextAssumption
    /\ M!RawMemoryAssumption /\ C!CodeObjectsAssumption /\ H!HostNativesAssumption

-----------------------------------------------------------------------------
NoBuild ==
    /\ files = None /\ argv = None /\ pc = None /\ opt = None /\ text = None
    /\ ccStatus = None /\ code = None
NoOutput == format = None /\ args = None /\ p = None /\ ai = None /\ out = None /\ done = None
NoMemory == memory = None /\ poked = None
NoCode == arrays = None /\ functions = None /\ classes = None /\ given = None
NoHost ==
    /\ disk = None /\ buffer = None /\ terminal = None /\ exited = None
    /\ calls = None /\ log = None /\ kept = None

Init ==
    \/ part = "build"   /\ U!Init /\ NoOutput /\ NoMemory /\ NoCode /\ NoHost /\ call = None /\ answer = None
    \/ part = "print"   /\ F!Init /\ NoBuild /\ NoMemory /\ NoCode /\ NoHost /\ owned = None /\ call = None /\ answer = None
    \/ part = "strings" /\ S!Init /\ NoBuild /\ NoOutput /\ NoMemory /\ NoCode /\ NoHost /\ owned = None
    \/ part = "memory"  /\ M!Init /\ NoBuild /\ NoOutput /\ NoCode /\ NoHost /\ owned = None /\ call = None
    \/ part = "code"    /\ C!Init /\ NoBuild /\ NoOutput /\ NoMemory /\ NoHost /\ owned = None /\ call = None
    \/ part = "host"    /\ H!Init /\ NoBuild /\ NoOutput /\ NoMemory /\ NoCode

Next ==
    \/ part = "build" /\ U!Next
       /\ UNCHANGED <<part, printVars, call, answer, memoryVars, codeVars, hostVars>>
    \/ part = "print" /\ F!Next
       /\ UNCHANGED <<part, buildVars, owned, call, answer, memoryVars, codeVars, hostVars>>
    \/ part = "strings" /\ S!Next
       /\ UNCHANGED <<part, buildVars, owned, printVars, memoryVars, codeVars, hostVars>>
    \/ part = "memory" /\ M!Next
       /\ UNCHANGED <<part, buildVars, owned, printVars, call, codeVars, hostVars>>
    \/ part = "code" /\ C!Next
       /\ UNCHANGED <<part, buildVars, owned, printVars, call, memoryVars, hostVars>>
    \/ part = "host" /\ H!Next
       /\ UNCHANGED <<part, buildVars, printVars, memoryVars, codeVars>>

vars == <<part, buildVars, owned, printVars, call, answer, memoryVars, codeVars, hostVars>>
Spec == Init /\ [][Next]_vars

-----------------------------------------------------------------------------
(* A build or run (main.c, aot.c) that ends with 0 has left the program    *)
(* that it read where it was asked to, although another one ran beside it; *)
(* what a failed one began, and what nobody asked to keep, is gone, and    *)
(* the user's files are not touched; everything is released on every way   *)
(* out; 65 means that the program is wrong; and options mean what they say *)
(* in any order and beside values that look like options.                  *)
BuildsAreRight ==
    part = "build" =>
        /\ U!SuccessMeansBuilt /\ U!NothingIsLeftBehind /\ U!HandWrittenStays /\ U!SourcesStay
        /\ U!NothingIsOwnedAtTheEnd /\ U!RejectedMeansWrong
        /\ U!ArgumentsMeanWhatTheySay /\ U!SpellingsAgree

(* Each conversion of a format takes the argument of its number            *)
(* (natives.c:161), the hosted and the freestanding runtime print the same *)
(* (docs/STDLIB.md:43), integers read back as themselves (output.c:46) and *)
(* floats as their value to six digits, or to what a float can tell apart  *)
(* (output.c:78); ToInt undoes ToStr                                       *)
(* (natives.c:449), Substr takes the characters that there are, IndexOf    *)
(* finds the first place where Substr gives the text, Min and Max are      *)
(* bounds; prints and the output of commands appear in order               *)
(* (natives.c:819); each constant of a function can be named by a byte     *)
(* (natives.c:600).                                                        *)
NativesAgree ==
    /\ part = "print" =>
          F!OutputFollowsTheCall /\ F!ProfilesAgree /\ F!NumeralsReadBack /\ F!FloatsAreNear
    /\ part = "strings" =>
          S!TextsReadBack /\ S!SubstrsAreTaken /\ S!IndexAgreesWithSubstr /\ S!BoundsAreBounds
    /\ part = "memory" => M!IntegersAreTheirBytes
    /\ part = "code" => C!ConstantsAreAddressable
    /\ part = "host" => H!OutputIsInOrder /\ H!BuffersAreFreed

(* What was put somewhere comes back: a slot of raw memory reads as what   *)
(* was written over it last (natives.c:325), a function as the code and    *)
(* constants that it was assembled from (natives.c:673), all of a file and *)
(* of a command's output is read (natives.c:480, :827).                    *)
AnswersReadBack ==
    [][/\ part = "memory" => M!SlotReadsBack
       /\ part = "code" => C!ChunkReadsBack
       /\ part = "host" => H!ShellStrAnswers /\ H!FileAnswers]_vars
=============================================================================
