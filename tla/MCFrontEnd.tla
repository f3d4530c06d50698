----------------------------- MODULE MCFrontEnd -----------------------------
(***************************************************************************)
(* The parts of the front end around the parser, each on instances of its  *)
(* own: a behaviour is a scan of one text (Scanner), the building and the  *)
(* release of one tree (SyntaxTree), or a check of one program (Checker).  *)
(***************************************************************************)
EXTENDS Integers, SequencesExt, FiniteSets, TLC

CONSTANT None   \* of a part that does not take place

VARIABLES
    part,
    source, current, line, tokens,
    family, heap, held, bytes, todo, phase, wrong,
    program, freestanding, next, funcs, classes, vars, depth, currentReturn, open, hadError, answer

scanVars == <<source, current, line, tokens>>
treeVars == <<family, heap, held, bytes, todo, phase, wrong>>
checkVars == <<program, freestanding, next, funcs, classes, vars, depth, currentReturn, open, hadError, answer>>

-----------------------------------------------------------------------------
Texts(alphabet, n) == UNION {[1 .. k -> alphabet] : k \in 0 .. n}

(* The characters that decide alike, together: comments, literals, numbers, *)
(* operators and words, each with its neighbours.                          *)
MCSources ==
    Texts({"/", "*", "NL", "a"}, 5) \cup Texts({"\"", "\\", "NL", "'"}, 5)
    \cup Texts({"0", "x", "e", ".", "+"}, 5) \cup Texts({"<", "=", ">", "&"}, 4)
    \cup Texts({"/", "*", "\"", "=", " "}, 5) \cup Texts({"i", "f", "1", "@"}, 4)

MCKeywords == (<<"i", "f">> :> "IF") @@ (<<"d", "o">> :> "DO")

S == INSTANCE Scanner WITH Sources <- MCSources, KEYWORDS <- MCKeywords, NL <- "NL", NUL <- "NUL"

-----------------------------------------------------------------------------
MCSize == [Expr |-> 5, Stmt |-> 7, pointer |-> 1, Type |-> 2, SwitchCase |-> 3]

Of(kinds, pieces) == [kinds |-> kinds, pieces |-> pieces]

(* Every kind in a small tree, and larger ones of kinds that go together.  *)
MCFamilies == {
    Of({"EXPR_VARIABLE", "EXPR_UNARY", "EXPR_BINARY", "EXPR_INDEX_SET", "STMT_EXPR"}, 6),
    Of({"EXPR_VARIABLE", "EXPR_LOGICAL", "EXPR_ASSIGN", "EXPR_INDEX", "EXPR_FIELD",
        "EXPR_FIELD_SET", "STMT_VAR"}, 5),
    Of({"EXPR_LITERAL", "STMT_IF", "STMT_FOR", "STMT_BREAK"}, 6),
    Of({"EXPR_LITERAL", "STMT_WHILE", "STMT_DOWHILE", "STMT_CONTINUE", "STMT_RETURN"}, 5),
    Of({"EXPR_VARIABLE", "STMT_EXPR", "x++"}, 8),
    Of({"EXPR_LITERAL", "EXPR_ARRAY", "EXPR_CALL", "STMT_PRINT"}, 5),
    Of({"STMT_BLOCK", "STMT_FUNCTION", "STMT_CLASS", "STMT_BREAK"}, 5),
    Of({"EXPR_LITERAL", "STMT_SWITCH", "STMT_BREAK"}, 6) }

T == INSTANCE SyntaxTree WITH
        Families <- MCFamilies, MaxLength <- 3, LeastCapacity <- 2, Size <- MCSize, NULL <- None

-----------------------------------------------------------------------------
Function(name, arity, ret, body) ==
    [kind |-> "function", name |-> name, arity |-> arity, ret |-> ret, body |-> body]
Class(name, arity) == [kind |-> "class", name |-> name, arity |-> arity, ret |-> "UNKNOWN", body |-> TRUE]

(* Each name is declared once, or announced first with the same arguments:  *)
(* of two declarations that differ the checker keeps the first and the     *)
(* program the last, and RejectedCallsFail would say so.                   *)
MCPrograms == {
    <<Function("f", 1, "UNKNOWN", TRUE), Class("A", 1), Function("g", 0, "SCALAR", TRUE)>>,
    <<Function("g", 2, "INSTANCE", FALSE), Function("Sleep", 1, "SCALAR", TRUE), Function("g", 2, "INSTANCE", TRUE)>>,
    <<Function("Len", 2, "SCALAR", TRUE), Class("A", 0)>> }

MCNested == {Function("n", 1, "SCALAR", TRUE), Function("m", 0, "INSTANCE", TRUE)}

C == INSTANCE Checker WITH
        Programs <- MCPrograms, Nested <- MCNested, VariableNames <- {"v"},
        MaxArgs <- 2, MaxVars <- 2, MaxDepth <- 3,
        CoreNatives <- {"Len"}, HostedNatives <- {"Sleep", "Env"}, HostNatives <- {"host"}

ASSUME InstancesAssumption == S!ScannerAssumption /\ T!SyntaxTreeAssumption /\ C!CheckerAssumption

-----------------------------------------------------------------------------
NoScan == source = None /\ current = None /\ line = None /\ tokens = None
NoTree ==
    /\ family = None /\ heap = None /\ held = None /\ bytes = None
    /\ todo = None /\ phase = None /\ wrong = None
NoCheck ==
    /\ program = None /\ freestanding = None /\ next = None /\ funcs = None /\ classes = None
    /\ vars = None /\ depth = None /\ currentReturn = None /\ open = None /\ hadError = None
    /\ answer = None

Init ==
    \/ part = "scan" /\ S!Init /\ NoTree /\ NoCheck
    \/ part = "tree" /\ T!Init /\ NoScan /\ NoCheck
    \/ part = "check" /\ C!Init /\ NoScan /\ NoTree

Next ==
    \/ part = "scan" /\ S!Next /\ UNCHANGED <<part, treeVars, checkVars>>
    \/ part = "tree" /\ T!Next /\ UNCHANGED <<part, scanVars, checkVars>>
    \/ part = "check" /\ C!Next /\ UNCHANGED <<part, scanVars, treeVars>>

Spec == Init /\ [][Next]_<<part, scanVars, treeVars, checkVars>>

-----------------------------------------------------------------------------
(* The scanner (lexer.c:371) drops no character of the program, wherever   *)
(* comments, quotes and operators meet; each token is the longest there    *)
(* is; and it has the line it ends on, of the lines that no backslash in a *)
(* literal has joined.                                                     *)
TokensAreTheText ==
    part = "scan" => S!NothingIsLost /\ S!LongestMatch /\ S!LinesAreCountedButContinued

(* The tree (ast.c, and parser.c:392 for what x++ becomes): each node and  *)
(* array has one owner, after errors too; each is given back once, with    *)
(* the size it has; and the walk leaves nothing, of the collector's count  *)
(* of bytes either.                                                        *)
TreesAreGivenBack ==
    part = "tree" => T!EachHasOneOwner /\ T!GivenBackAsItWas /\ T!NothingIsLeft

(* The checker (typecheck.c:371) rejects no call that would succeed, lets  *)
(* a freestanding program call no native of the hosted runtime, and        *)
(* judges each return by the function it leaves, behind nested functions,  *)
(* methods and blocks.                                                     *)
ProgramsAreJudged ==
    part = "check" =>
        C!RejectedCallsFail /\ C!AcceptedCallsExist /\ C!ReturnsAreJudgedByTheirFunction
=============================================================================
