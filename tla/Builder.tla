------------------------------ MODULE Builder ------------------------------
(***************************************************************************)
(* The command line (main.c) and `brokm build` (aot.c): what the arguments *)
(* ask for, the files a build reads, writes and removes, the command it    *)
(* gives to the shell, and its exit status. Several builds may run at once *)
(* in one directory. The front end and the emitter are what they answer.   *)
(***************************************************************************)
EXTENDS Integers, FiniteSets, SequencesExt

CONSTANTS
    Builds,         \* the processes
    CommandLines,   \* bound: what they are given together: process |-> arguments, each a
                    \* sequence of parts, as in <<"d/", "prog", ".bk">> or <<"-o">>
    InitialFiles,   \* the files at the start: path |-> content
    Home,           \* the tree of runtime sources, or NULL if it is not found
    CommandMax,     \* sizeof(cmd)
    Faults,         \* bound: what may go wrong, of {"memory", "emit", "write", "disk", "cc"}
    NULL

Absent == <<"absent">>

(* Of the constants; the modules that give them values assume it.           *)
BuilderAssumption ==
    /\ CommandMax \in Nat
    /\ \A c \in CommandLines : DOMAIN c = Builds
    /\ Faults \subseteq {"memory", "emit", "write", "disk", "cc"}

VARIABLES
    files,   \* path |-> content: <<"source", program>>, <<"c", program, profile>>, ...
    argv,    \* the command line of each process
    pc,      \* where each process is
    opt,     \* AotOptions, with the path of the source
    text,    \* the source as it was read
    owned,   \* what a process has to give back: its source, VM, tree, open file
    ccStatus,\* what the C compiler answered, or NULL
    code     \* the exit status, or NULL

vars == <<files, argv, pc, opt, text, owned, ccStatus, code>>

-----------------------------------------------------------------------------
(***************************************************************************)
(* The command line.                                                       *)
(***************************************************************************)
Valued   == {<<"-o">>, <<"--cc">>, <<"--cflags">>}
Switches == {<<"--emit=c">>, <<"--keep-c">>, <<"--freestanding">>, <<"-O3">>, <<"--quiet">>}
Others   == {<<"--version">>, <<"--help">>, <<"-x">>}
Dashed   == Valued \cup Switches \cup Others

NoOptions == [src |-> NULL, values |-> [v \in Valued |-> NULL], set |-> {}, takes |-> NULL, ok |-> TRUE]

(* The loop of cmd_build: an option that takes a value takes the next      *)
(* argument, whatever it looks like.                                       *)
TakeArgumentDashedNever(o, arg) ==
    IF o.takes # NULL /\ arg \notin Dashed THEN [o EXCEPT !.values[o.takes] = arg, !.takes = NULL]
    ELSE IF arg \in Valued THEN [o EXCEPT !.takes = arg]
    ELSE IF arg \in Switches THEN [o EXCEPT !.set = @ \cup {arg}]
    ELSE IF arg \in Dashed \/ o.src # NULL THEN [o EXCEPT !.ok = FALSE]
    ELSE [o EXCEPT !.src = arg]

TakeArgument(o, arg) ==
    IF o.takes # NULL THEN [o EXCEPT !.values[o.takes] = arg, !.takes = NULL]
    ELSE IF arg \in Valued THEN [o EXCEPT !.takes = arg]
    ELSE IF arg \in Switches THEN [o EXCEPT !.set = @ \cup {arg}]
    ELSE IF arg \in Dashed \/ o.src # NULL THEN [o EXCEPT !.ok = FALSE]
    ELSE [o EXCEPT !.src = arg]

Options(args) ==
    LET o == FoldLeft(TakeArgument, NoOptions, args)
    IN  [o EXCEPT !.ok = o.ok /\ o.takes = NULL /\ o.src # NULL]

(* main: what is to be done, for a file and its own arguments.             *)
RunLike(path, args) == [do |-> "run", path |-> path, args |-> args]
Usage == [do |-> "usage"]

CommandWithPath(args) ==
    CASE args = <<>> -> [do |-> "repl"]
      [] args # <<>> /\ args[1] = <<"build">> -> [do |-> "build", options |-> Options(Tail(args))]
      [] args # <<>> /\ args[1] = <<"run">> -> IF Len(args) < 2 THEN Usage ELSE RunLike(args[2], SubSeq(args, 3, Len(args)))
      [] OTHER -> IF args[1] \in Dashed THEN Usage ELSE RunLike(args[1], args)

Command(args) ==
    CASE args = <<>> -> [do |-> "repl"]
      [] args # <<>> /\ args[1] = <<"build">> ->
           [do |-> "build", options |-> Options(Tail(args))]
      [] args # <<>> /\ args[1] = <<"run">> ->
           IF Len(args) < 2 THEN Usage ELSE RunLike(args[2], SubSeq(args, 3, Len(args)))
      [] Len(args) = 1 /\ args[1] \in {<<"--version">>, <<"--help">>} -> [do |-> "answer"]
      [] OTHER -> IF args[1] \in Dashed THEN Usage ELSE RunLike(args[1], Tail(args))

-----------------------------------------------------------------------------
(***************************************************************************)
(* Names of files.                                                         *)
(***************************************************************************)
IsDirectory(part) == part = "d/"
Base(path) == IF IsDirectory(path[1]) THEN Tail(path) ELSE path

DefaultOutWhole(src) == Base(src)

DefaultOut(src) ==
    LET base == Base(src)
    IN  IF Len(base) > 1 /\ Last(base) = ".bk" THEN Front(base) ELSE base

Has(o, switch) == <<switch>> \in o.set
EmitCOnly(o) == Has(o, "--emit=c")

OutPath(o) == IF o.values[<<"-o">>] # NULL THEN o.values[<<"-o">>] ELSE DefaultOut(o.src)

CPathBeside(o) ==
    LET out == OutPath(o)
    IN  IF EmitCOnly(o) /\ Len(out) > 1 /\ Last(out) = ".c" THEN out ELSE Append(out, ".c")

CPathOfNobody(o) ==
    LET out == OutPath(o)
    IN  CASE EmitCOnly(o) /\ Len(out) > 1 /\ Last(out) = ".c" -> out
          [] EmitCOnly(o) -> Append(out, ".c")
          [] OTHER        -> <<"out", ".aot", ".c">>

CPath(o) ==
    LET out == OutPath(o)
    IN  CASE EmitCOnly(o) /\ Len(out) > 1 /\ Last(out) = ".c" -> out
          [] EmitCOnly(o) -> Append(out, ".c")
          [] OTHER        -> out \o <<".aot", ".c">>

(* Single quotes around a path, and '\'' for one in it.                    *)
Quoted(path) ==
    <<"'">> \o FlattenSeq([i \in DOMAIN path |->
        IF path[i] = "'" THEN <<"'", "\\", "'", "'">> ELSE <<path[i]>>]) \o <<"'">>

CompilerCommand(o) ==
    <<"cc", " ", "-I">> \o Quoted(Home) \o <<"/src", " ">> \o Quoted(CPath(o))
    \o <<" ">> \o Quoted(Home) \o <<"/src/vm.c">>
    \o (IF o.values[<<"--cflags">>] = NULL THEN <<>> ELSE <<" ">> \o o.values[<<"--cflags">>])
    \o <<" ", "-o", " ">> \o Quoted(OutPath(o))

(* The words a shell reads in a command, or none if a quote stays open.    *)
ReadPart(s, part) ==
    CASE s.escaped                     -> [s EXCEPT !.word = Append(@, part), !.escaped = FALSE]
      [] ~s.escaped /\ part = "'"      -> [s EXCEPT !.quoted = ~@]
      [] ~s.escaped /\ part = "\\" /\ ~s.quoted -> [s EXCEPT !.escaped = TRUE]
      [] ~s.escaped /\ part = " " /\ ~s.quoted  -> [s EXCEPT !.words = Append(@, s.word), !.word = <<>>]
      [] OTHER                         -> [s EXCEPT !.word = Append(@, part)]

ShellWords(command) ==
    LET s == FoldLeft(ReadPart, [words |-> <<>>, word |-> <<>>, quoted |-> FALSE, escaped |-> FALSE], command)
    IN  IF s.quoted THEN <<>> ELSE Append(s.words, s.word)

-----------------------------------------------------------------------------
Content(path) == IF path \in DOMAIN files THEN files[path] ELSE Absent

(* What the front end says of a program.                                   *)
Accepted(source, freestanding) ==
    source[2] \in {"plain", "other"} \/ (source[2] = "hosted" /\ ~freestanding)

Profile(o) == IF Has(o, "--freestanding") THEN "freestanding" ELSE "hosted"

Init ==
    /\ files = InitialFiles
    /\ argv \in CommandLines
    /\ pc = [b \in Builds |-> "main"]
    /\ opt = [b \in Builds |-> NoOptions]
    /\ text = [b \in Builds |-> NULL]
    /\ owned = [b \in Builds |-> {}]
    /\ ccStatus = [b \in Builds |-> NULL]
    /\ code = [b \in Builds |-> NULL]

At(b, label) == pc[b] = label /\ code[b] = NULL
Go(b, label) == pc' = [pc EXCEPT ![b] = label] /\ code' = code
Exit(b, status) == code' = [code EXCEPT ![b] = status] /\ pc' = pc
May(fault) == fault \in Faults
Owns(b, S) == owned' = [owned EXCEPT ![b] = S]

(* done: the VM is destroyed and the source given back.                    *)
Done(b, status) == Exit(b, status) /\ Owns(b, owned[b] \ {"vm", "source"})

WriteTo(path, content) == files' = (path :> content) @@ files
Unlink(path) == files' = [p \in DOMAIN files \ {path} |-> files[p]]

(* main, cmd_build.                                                        *)
Main(b) ==
    /\ At(b, "main")
    /\ LET c == Command(argv[b])
       IN  CASE c.do = "build" /\ c.options.ok ->
                  /\ opt' = [opt EXCEPT ![b] = c.options]
                  /\ Go(b, IF EmitCOnly(c.options) THEN "read" ELSE "home")
             [] c.do = "build" /\ ~c.options.ok -> Exit(b, 64) /\ UNCHANGED opt
             [] c.do = "run" -> Go(b, "run") /\ opt' = [opt EXCEPT ![b].src = c.path]
             [] c.do = "usage" -> Exit(b, 64) /\ UNCHANGED opt
             [] c.do \in {"repl", "answer"} -> Exit(b, 0) /\ UNCHANGED opt
    /\ UNCHANGED <<files, argv, text, owned, ccStatus>>

(* run_file, brokm_run_file: a VM for one program.                         *)
RunFile(b) ==
    /\ At(b, "run")
    /\ LET source == Content(opt[b].src)
       IN  \/ source = Absent /\ Exit(b, 70)
           \/ source # Absent /\ ~Accepted(source, FALSE) /\ Exit(b, 65)
           \/ source # Absent /\ Accepted(source, FALSE) /\ \E status \in {0, 70} : Exit(b, status)
    /\ UNCHANGED <<files, argv, opt, text, owned, ccStatus>>

ResolveHome(b) ==
    /\ At(b, "home")
    /\ IF Home = NULL THEN Exit(b, 70) ELSE Go(b, "read")
    /\ UNCHANGED <<files, argv, opt, text, owned, ccStatus>>

ReadFile(b) ==
    /\ At(b, "read")
    /\ LET source == Content(opt[b].src)
       IN  IF source = Absent THEN Exit(b, 70) /\ UNCHANGED <<text, owned>>
           ELSE /\ Go(b, "vm")
                /\ text' = [text EXCEPT ![b] = source]
                /\ Owns(b, {"source"})
    /\ UNCHANGED <<files, argv, opt, ccStatus>>

NewVm(b) ==
    /\ At(b, "vm")
    /\ \/ Go(b, "parse") /\ Owns(b, owned[b] \cup {"vm"})
       \/ May("memory") /\ Exit(b, 70) /\ Owns(b, owned[b] \ {"source"})
    /\ UNCHANGED <<files, argv, opt, text, ccStatus>>

(* parse makes a tree, of as much as it could, and it is freed on each way *)
(* out: after an error, and when it has been compiled.                     *)
Parse(b) ==
    /\ At(b, "parse")
    /\ Go(b, "compile") /\ Owns(b, owned[b] \cup {"tree"})
    /\ UNCHANGED <<files, argv, opt, text, ccStatus>>

CompileKeepingTree(b) ==
    /\ At(b, "compile")
    /\ IF Accepted(text[b], Has(opt[b], "--freestanding"))
       THEN Go(b, "open") /\ Owns(b, owned[b] \ {"tree"})
       ELSE Exit(b, 65) /\ Owns(b, owned[b] \ {"vm", "source"})
    /\ UNCHANGED <<files, argv, opt, text, ccStatus>>

CompileForHosted(b) ==
    /\ At(b, "compile")
    /\ IF Accepted(text[b], FALSE)
       THEN Go(b, "open") /\ Owns(b, owned[b] \ {"tree"})
       ELSE Exit(b, 65) /\ Owns(b, owned[b] \ {"tree", "vm", "source"})
    /\ UNCHANGED <<files, argv, opt, text, ccStatus>>

Compile(b) ==
    /\ At(b, "compile")
    /\ IF Accepted(text[b], Has(opt[b], "--freestanding"))
       THEN Go(b, "open") /\ Owns(b, owned[b] \ {"tree"})
       ELSE Exit(b, 65) /\ Owns(b, owned[b] \ {"tree", "vm", "source"})
    /\ UNCHANGED <<files, argv, opt, text, ccStatus>>

OpenC(b) ==
    /\ At(b, "open")
    /\ \/ /\ Go(b, "emit") /\ Owns(b, owned[b] \cup {"file"})
          /\ WriteTo(CPath(opt[b]), <<"begun">>)
       \/ May("write") /\ Done(b, 70) /\ UNCHANGED files
    /\ UNCHANGED <<argv, opt, text, ccStatus>>

(* cemit_program refuses a graph that is too large; a write that fails is  *)
(* noticed by nobody.                                                      *)
Emit(b) ==
    /\ At(b, "emit")
    /\ \/ /\ \E written \in {<<"c", text[b][2], Profile(opt[b])>>}
                              \cup (IF May("disk") THEN {<<"begun">>} ELSE {}) :
                WriteTo(CPath(opt[b]), written)
          /\ IF EmitCOnly(opt[b])
             THEN Exit(b, 0) /\ Owns(b, owned[b] \ {"file", "vm", "source"})
             ELSE Go(b, "cc") /\ Owns(b, owned[b] \ {"file"})
       \/ /\ May("emit") /\ Unlink(CPath(opt[b]))
          /\ Exit(b, 70) /\ Owns(b, owned[b] \ {"file", "vm", "source"})
    /\ UNCHANGED <<argv, opt, text, ccStatus>>

(* A command that does not fit is not run.                                 *)
Fits(command) == Len(command) < CommandMax

TooLongLeaving(b) ==
    /\ At(b, "cc") /\ ~Fits(CompilerCommand(opt[b]))
    /\ Done(b, 70)
    /\ UNCHANGED <<files, argv, opt, text, ccStatus>>

TooLong(b) ==
    /\ At(b, "cc") /\ ~Fits(CompilerCommand(opt[b]))
    /\ Unlink(CPath(opt[b]))
    /\ Done(b, 70)
    /\ UNCHANGED <<argv, opt, text, ccStatus>>

(* system(cmd): the compiler reads the file named third and writes the one *)
(* named last, if it can make sense of the text.                           *)
RunCompiler(b) ==
    /\ At(b, "cc") /\ Fits(CompilerCommand(opt[b]))
    /\ LET words == ShellWords(CompilerCommand(opt[b]))
           input == IF Len(words) < 3 THEN Absent ELSE Content(words[3])
           Fails(status) == ccStatus' = [ccStatus EXCEPT ![b] = status] /\ UNCHANGED files
       IN  \/ IF input[1] # "c" THEN Fails(1)
              ELSE /\ WriteTo(Last(words), <<"exe", input[2], input[3]>>)
                   /\ ccStatus' = [ccStatus EXCEPT ![b] = 0]
           \/ May("cc") /\ \E status \in {1, 4} : Fails(status)
    /\ Go(b, "built")
    /\ UNCHANGED <<argv, opt, text, owned>>

Finish(b) ==
    /\ At(b, "built")
    /\ IF Has(opt[b], "--keep-c") THEN UNCHANGED files ELSE Unlink(CPath(opt[b]))
    /\ Done(b, IF ccStatus[b] = 0 THEN 0 ELSE 1)
    /\ UNCHANGED <<argv, opt, text, ccStatus>>

Next == \E b \in Builds :
    \/ Main(b) \/ RunFile(b) \/ ResolveHome(b) \/ ReadFile(b) \/ NewVm(b) \/ Parse(b) \/ Compile(b)
    \/ OpenC(b) \/ Emit(b) \/ TooLong(b) \/ RunCompiler(b) \/ Finish(b)

Spec == Init /\ [][Next]_vars

-----------------------------------------------------------------------------
IsBuild(b) == Command(argv[b]).do = "build" /\ Command(argv[b]).options.ok
Asked(b) == Command(argv[b]).options
Ended(b) == code[b] # NULL

(* A build that ends with 0 (aot.h:24) has left at the path asked for the   *)
(* program it read, for the profile asked for, although other builds ran   *)
(* beside it and paths hold blanks and quotes: the C text and the command  *)
(* of one build are its own.                                               *)
SuccessMeansBuilt ==
    \A b \in Builds : IsBuild(b) /\ code[b] = 0 =>
        IF EmitCOnly(Asked(b))
        THEN Content(CPath(Asked(b))) = <<"c", text[b][2], Profile(Asked(b))>>
        ELSE Content(OutPath(Asked(b))) = <<"exe", text[b][2], Profile(Asked(b))>>

(* What a failed build has begun to write is gone, and so is the           *)
(* intermediate text of one that succeeded, unless --keep-c asked for it;  *)
(* what it did not get to is as it was.                                    *)
NothingIsLeftBehind ==
    \A b \in Builds : IsBuild(b) /\ Ended(b) =>
        \/ EmitCOnly(Asked(b)) /\ code[b] = 0
        \/ Has(Asked(b), "--keep-c")
        \/ Content(CPath(Asked(b))) \in
             {Absent, IF CPath(Asked(b)) \in DOMAIN InitialFiles THEN InitialFiles[CPath(Asked(b))] ELSE Absent}

(* "a hand-written <out>.c next to the program can never be clobbered or   *)
(* deleted" (aot.c:182) by a build of an executable.                       *)
HandWrittenStays ==
    \A p \in DOMAIN InitialFiles : InitialFiles[p][1] = "hand" =>
        \/ Content(p) = InitialFiles[p]
        \/ \E b \in Builds : IsBuild(b) /\
              (Asked(b).values[<<"-o">>] = p \/ (EmitCOnly(Asked(b)) /\ CPath(Asked(b)) = p))

(* No build overwrites a program, if the programs built are named *.bk and *)
(* no -o names one.                                                        *)
SourcesStay ==
    (\A b \in Builds : IsBuild(b) => /\ Len(Base(Asked(b).src)) > 1 /\ Last(Asked(b).src) = ".bk"
                                     /\ Asked(b).values[<<"-o">>] \notin DOMAIN InitialFiles)
        => \A p \in DOMAIN InitialFiles : InitialFiles[p][1] = "source" => Content(p) = InitialFiles[p]

(* On every way out the source, the VM, the tree and the file are given    *)
(* back (aot.c:265).                                                       *)
NothingIsOwnedAtTheEnd == \A b \in Builds : Ended(b) => owned[b] = {}

(* 65 means that the program is wrong, and only that (aot.h:24).           *)
RejectedMeansWrong ==
    \A b \in Builds : IsBuild(b) /\ text[b] # NULL =>
        /\ code[b] = 65 => ~Accepted(text[b], Has(Asked(b), "--freestanding"))
        /\ code[b] = 0 => Accepted(text[b], Has(Asked(b), "--freestanding"))

(* "or the C compiler's failure status" (aot.h:25).                        *)
CompilerStatusIsReported ==
    \A b \in Builds : Ended(b) /\ ccStatus[b] # NULL => code[b] = ccStatus[b]

(* The arguments read without a loop: an argument is a value if the run of *)
(* options that take one just before it is odd.                            *)
IsValue(args, i) ==
    LET before == {k \in 0 .. i - 1 : \A j \in i - k .. i - 1 : args[j] \in Valued}
    IN  (Cardinality(before) - 1) % 2 = 1

LastValue(args, option) ==
    LET S == {i \in DOMAIN args : IsValue(args, i) /\ args[i - 1] = option}
    IN  IF S = {} THEN NULL ELSE args[CHOOSE i \in S : \A j \in S : j <= i]

(* cmd_build (main.c:59): the options mean what they say, in any order and *)
(* however values look like options; anything else is refused with 64.     *)
ArgumentsMeanWhatTheySay ==
    \A b \in Builds : Len(argv[b]) > 0 /\ argv[b][1] = <<"build">> =>
        LET args  == Tail(argv[b])
            plain == {i \in DOMAIN args : ~IsValue(args, i)}
            srcs  == {i \in plain : args[i] \notin Dashed}
            ok    == /\ \A i \in plain : args[i] \notin Others /\ (args[i] \in Valued => i < Len(args))
                     /\ Cardinality(srcs) = 1
        IN  /\ Options(args).ok = ok
            /\ ok => /\ \A o \in Valued : Options(args).values[o] = LastValue(args, o)
                     /\ Options(args).set = {args[i] : i \in plain} \cap Switches
                     /\ \A i \in srcs : Options(args).src = args[i]

(* The legacy spelling is "kept working" (main.c:4): it is the other one    *)
(* without the word run, for the same program and arguments.               *)
SpellingsAgree ==
    \A b \in Builds : Len(argv[b]) > 0 /\ argv[b][1] \notin Dashed \cup {<<"build">>, <<"run">>} =>
        Command(argv[b]) = Command(<<<<"run">>>> \o argv[b])
=============================================================================
