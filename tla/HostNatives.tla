---------------------------- MODULE HostNatives ----------------------------
(***************************************************************************)
(* The natives that reach the operating system (natives.c): output, files  *)
(* and processes.  libc's streams, the file system and the shell are       *)
(* external: stdout is written when libc sees fit, a file may change at    *)
(* any time, what is written to one is kept by fclose or lost, and opening *)
(* a file, starting a process and allocating may fail.                     *)
(***************************************************************************)
EXTENDS Integers, SequencesExt, FiniteSets

CONSTANTS
    Files,        \* the names of files
    Texts,        \* bound: what is written, by the program and others
    Outputs,      \* bound: what a command writes to its stdout
    FirstBuffer,  \* the buffer that ShellStr begins with, 1024 in the code
    Garbage,      \* what malloc leaves
    MaxCalls      \* bound: the calls of a program

(* Of the constants; the modules that give them values assume it.           *)
HostNativesAssumption == FirstBuffer \in Nat \ {0} /\ MaxCalls \in Nat

VARIABLES
    disk,       \* the files there are: a name |-> its characters
    buffer,     \* what stdout holds back
    terminal,   \* what has appeared, of the program and of its commands
    call,       \* the native in progress, or Idle
    answer,
    owned,      \* the buffers malloc has given
    exited,
    calls,      \* counts calls, for MaxCalls
    log,        \* history: what was printed, by whom, in the program's order
    kept        \* history: the file of the last write holds what was written

vars == <<disk, buffer, terminal, call, answer, owned, exited, calls, log, kept>>

Nil    == [type |-> "NIL"]
Str(s) == [type |-> "STRING", of |-> s]
I(n)   == [type |-> "INT", of |-> n]
B(b)   == [type |-> "BOOL", of |-> b]
Idle   == [native |-> "none"]

Init ==
    /\ disk \in [{} -> {<<>>}] \cup UNION {[{f} -> Texts] : f \in Files}
    /\ buffer = <<>> /\ terminal = <<>> /\ log = <<>>
    /\ call = Idle /\ answer = Nil /\ owned = {}
    /\ exited = FALSE /\ calls = 0 /\ kept = TRUE

Begin == call = Idle /\ ~exited /\ calls < MaxCalls /\ calls' = calls + 1
Continue(native) == call.native = native /\ ~exited /\ UNCHANGED calls

Returns(v) == call' = Idle /\ answer' = v
Output == <<buffer, terminal, log>>
Others == <<disk, owned, exited, kept>>

-----------------------------------------------------------------------------
(* Output.  libc may write some of what stdout holds at any time.          *)
Drain ==
    /\ buffer # <<>> /\ ~exited
    /\ terminal' = Append(terminal, Head(buffer)) /\ buffer' = Tail(buffer)
    /\ UNCHANGED <<disk, call, answer, owned, exited, calls, log, kept>>

PrintText ==
    /\ Begin
    /\ LET x == <<"program", calls>> IN buffer' = Append(buffer, x) /\ log' = Append(log, x)
    /\ Returns(Nil) /\ UNCHANGED <<terminal, Others>>

(* What a command prints comes after what stdout holds if it is flushed.   *)
CommandUnflushed(printed) ==
    /\ terminal' = terminal \o printed
    /\ UNCHANGED buffer
    /\ log' = log \o printed

Command(printed) ==
    /\ terminal' = terminal \o buffer \o printed
    /\ buffer' = <<>>
    /\ log' = log \o printed

(* system: a status, or -1 for what did not start or exit.                 *)
Shell ==
    /\ Begin
    /\ \/ \E status \in {0, 1, -1} : Command(<< <<"command", calls>> >>) /\ Returns(I(status))
       \/ Command(<<>>) /\ Returns(I(-1))
    /\ UNCHANGED Others

Exit ==
    /\ Begin
    /\ Command(<<>>)
    /\ exited' = TRUE
    /\ Returns(Nil) /\ UNCHANGED <<disk, owned, kept>>

-----------------------------------------------------------------------------
(* ShellStr: read what a command prints into a buffer that doubles.        *)
ShellStr ==
    /\ Begin
    /\ Command(<<>>)
    /\ \/ Returns(Nil) /\ UNCHANGED owned            \* popen or malloc fails
       \/ /\ owned' = owned \cup {"buf"}
          /\ \E text \in Outputs :
                call' = [native |-> "ShellStr", left |-> text, of |-> text, buf |-> <<>>, cap |-> FirstBuffer]
          /\ UNCHANGED answer
    /\ UNCHANGED <<disk, exited, kept>>

ReadOutputOnce ==
    /\ Continue("ShellStr")
    /\ LET room == call.cap - Len(call.buf)
           rd   == IF Len(call.left) < room THEN Len(call.left) ELSE room
           buf  == call.buf \o SubSeq(call.left, 1, rd)
       IN  Returns(Str(buf)) /\ owned' = owned \ {"buf"}
    /\ UNCHANGED <<Output, disk, exited, kept>>

ReadOutputLeaking ==
    /\ Continue("ShellStr")
    /\ LET room == call.cap - Len(call.buf)
           rd   == IF Len(call.left) < room THEN Len(call.left) ELSE room
           buf  == call.buf \o SubSeq(call.left, 1, rd)
           left == SubSeq(call.left, rd + 1, Len(call.left))
       IN  CASE rd = 0 -> Returns(Str(buf)) /\ owned' = owned \ {"buf"}
             [] rd > 0 /\ Len(buf) < call.cap ->
                  call' = [call EXCEPT !.buf = buf, !.left = left] /\ UNCHANGED <<answer, owned>>
             [] OTHER ->
                  \/ /\ call' = [call EXCEPT !.buf = buf, !.left = left, !.cap = 2 * @]
                     /\ UNCHANGED <<answer, owned>>
                  \/ Returns(Nil) /\ UNCHANGED owned
    /\ UNCHANGED <<Output, disk, exited, kept>>

ReadOutput ==
    /\ Continue("ShellStr")
    /\ LET room == call.cap - Len(call.buf)
           rd   == IF Len(call.left) < room THEN Len(call.left) ELSE room
           buf  == call.buf \o SubSeq(call.left, 1, rd)
           left == SubSeq(call.left, rd + 1, Len(call.left))
       IN  CASE rd = 0 -> Returns(Str(buf)) /\ owned' = owned \ {"buf"}
             [] rd > 0 /\ Len(buf) < call.cap ->
                  call' = [call EXCEPT !.buf = buf, !.left = left] /\ UNCHANGED <<answer, owned>>
             [] OTHER ->
                  \/ /\ call' = [call EXCEPT !.buf = buf, !.left = left, !.cap = 2 * @]
                     /\ UNCHANGED <<answer, owned>>
                  \/ Returns(Nil) /\ owned' = owned \ {"buf"}        \* realloc fails
    /\ UNCHANGED <<Output, disk, exited, kept>>

-----------------------------------------------------------------------------
(* Files.  Somebody else changes one.                                      *)
Elsewhere ==
    /\ call.native = "ReadFile"
    /\ \E f \in DOMAIN disk, text \in Texts : disk' = [disk EXCEPT ![f] = text]
    /\ UNCHANGED <<Output, call, answer, owned, exited, calls, kept>>

(* ReadFile: the size first, and then the characters that there are.       *)
ReadFile ==
    /\ Begin
    /\ \E f \in Files :
          \/ Returns(Nil) /\ UNCHANGED owned    \* no file, or fopen or malloc fails
          \/ /\ f \in DOMAIN disk
             /\ call' = [native |-> "ReadFile", file |-> f, size |-> Len(disk[f])]
             /\ owned' = owned \cup {"buf"} /\ UNCHANGED answer
    /\ UNCHANGED <<Output, disk, exited, kept>>

FileReadAsSized ==
    /\ Continue("ReadFile")
    /\ LET text == disk[call.file]
       IN  Returns(Str([i \in 1 .. call.size |-> IF i <= Len(text) THEN text[i] ELSE Garbage]))
    /\ owned' = owned \ {"buf"}
    /\ UNCHANGED <<Output, disk, exited, kept>>

FileRead ==
    /\ Continue("ReadFile")
    /\ LET text == disk[call.file]
           rd   == IF Len(text) < call.size THEN Len(text) ELSE call.size
       IN  Returns(Str(SubSeq(text, 1, rd)))
    /\ owned' = owned \ {"buf"}
    /\ UNCHANGED <<Output, disk, exited, kept>>

(* WriteFile and AppendFile: fwrite fills a buffer of libc; what fclose    *)
(* then writes may not all get there, and fclose's answer is not looked    *)
(* at.                                                                     *)
WriteFile(append) ==
    /\ Begin
    /\ \E f \in Files, text \in Texts :
          LET before == IF append /\ f \in DOMAIN disk THEN disk[f] ELSE <<>>
          IN  \/ Returns(B(FALSE)) /\ kept' = FALSE /\ UNCHANGED disk       \* fopen fails
              \/ \E n \in 0 .. Len(text), w \in BOOLEAN :
                    /\ n = Len(text) => w
                    /\ disk' = [g \in DOMAIN disk \cup {f} |->
                                  IF g = f THEN before \o SubSeq(text, 1, n) ELSE disk[g]]
                    /\ kept' = (n = Len(text))
                    /\ Returns(B(w))
    /\ UNCHANGED <<Output, owned, exited>>

FileExists ==
    /\ Begin
    /\ \E f \in Files : Returns(B(f \in DOMAIN disk))
    /\ UNCHANGED <<Output, Others>>

Next ==
    \/ Drain \/ PrintText \/ Shell \/ Exit \/ ShellStr \/ ReadOutput
    \/ Elsewhere \/ ReadFile \/ FileRead \/ FileExists
    \/ \E append \in BOOLEAN : WriteFile(append)

Spec == Init /\ [][Next]_vars

-----------------------------------------------------------------------------
(* Prints and the output of commands appear in the program's order, "keep  *)
(* brokm output ordered against the child's" (natives.c:819), and all of   *)
(* it has appeared when the program has exited.                            *)
OutputIsInOrder ==
    /\ terminal \o buffer = log
    /\ exited => terminal = log

ShellStrAnswers == ReadOutput => call' # Idle \/ answer' \in {Nil, Str(call.of)}
FileAnswers == FileRead => IsPrefix(answer'.of, disk[call.file])

(* ShellStr answers all that a command printed, or NULL, whatever the size *)
(* of it is to the buffer's.                                               *)
ShellStrIsWhole == [][ShellStrAnswers]_vars

(* What ReadFile answers is the file's, if it shrinks or grows while it is *)
(* read too.                                                               *)
FilesAreRead == [][FileAnswers]_vars

(* Every way out of a native gives its buffer back.                        *)
BuffersAreFreed == call = Idle => owned = {}

(* "write a string to a file; true on success" (natives.c:498).            *)
WritesAreReported == [][\A a \in BOOLEAN : WriteFile(a) => (answer'.of => kept')]_vars
=============================================================================
