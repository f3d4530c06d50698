------------------------------- MODULE Parser -------------------------------
(***************************************************************************)
(* The parser (parser.c): recursive descent with a Pratt expression core   *)
(* and recovery from errors, on the stream of tokens of the lexer. `todo'  *)
(* is the C stack, what the calls in progress have still to do, innermost  *)
(* first. Each item is a tuple that begins with the name of the function   *)
(* or of the place in it; an item's action is the code up to the next call *)
(* or the next token. Of the syntax tree the model keeps the expressions.  *)
(***************************************************************************)
EXTENDS Lexer

CONSTANTS
    Identifiers,     \* the identifiers that programs use
    MaxClassNames    \* MAX_CLASS_NAMES

ASSUME ParserAssumption == MaxClassNames \in Nat

VARIABLES
    used,        \* the tokens advanced past; the last of them is `previous'
    panicMode,
    hadError,
    classNames,
    todo,
    exprs,       \* expressions parsed and not yet part of a larger one
    parsed,      \* the expressions of statements: [first, last, tree]
    result       \* what parse() returned: TRUE, FALSE or NULL while it runs

pvars == <<used, panicMode, hadError, classNames, todo, exprs, parsed, result>>
vars == <<lvars, pvars>>

previous == IF used = 0 THEN EOF ELSE tokens[used]   \* the parser looks at it later only
current == tokens[used + 1]
next == tokens[used + 2]

(* The look-ahead is full: it is the parser's turn, not the lexer's.       *)
Ready == Len(tokens) = used + 2 /\ result = NULL

Kind(t) == IF t \in Identifiers THEN "identifier" ELSE t
Is(kind) == Kind(current) = kind
IsOneOf(kinds) == Kind(current) \in kinds

Init ==
    /\ LexerInit
    /\ used = 0
    /\ panicMode = FALSE
    /\ hadError = FALSE
    /\ classNames = <<>>
    /\ todo = << <<"program">> >>
    /\ exprs = <<>>
    /\ parsed = {}
    /\ result = NULL

-----------------------------------------------------------------------------
(* The steps that handlers are made of.                                    *)

At(name) == Ready /\ Head(todo)[1] = name
Arg == Head(todo)[2]
Do(items) == todo' = items \o Tail(todo)
Again(items) == todo' = items \o todo

Consume(kind) == <<"consume", kind>>
Expression == <<"precedence", 1>>
Whole == <<"expression">>   \* the expression of a statement

Advance == used' = used + 1
Stay == UNCHANGED used
NoError == UNCHANGED <<panicMode, hadError>>
ErrorAt ==
    /\ panicMode' = TRUE
    /\ hadError' = (hadError \/ ~panicMode)

(* match(): one thing if the token is there and another if it is not.      *)
Match(kind, items, otherwise) ==
    IF Is(kind) THEN Advance /\ Do(items) ELSE Stay /\ Do(otherwise)

Syntax == UNCHANGED <<lvars, classNames, exprs, parsed, result>>

-----------------------------------------------------------------------------
(* The lexer's turn: scan_nonerror until the look-ahead is full.           *)

ScanNonerror ==
    /\ Len(tokens) < used + 2 /\ result = NULL
    /\ \/ (ResumeParent \/ IncludeFile \/ SkipInclude \/ ScanToken \/ ScanEnd) /\ NoError
       \/ ScanError /\ ErrorAt
    /\ UNCHANGED <<used, classNames, todo, exprs, parsed, result>>

ConsumeToken ==
    /\ At("consume")
    /\ Do(<<>>)
    /\ IF Is(Arg) THEN Advance /\ NoError ELSE Stay /\ ErrorAt
    /\ Syntax

(* A token that may be there, and an expression that is there unless the   *)
(* token is.                                                               *)
MatchToken ==
    /\ At("match")
    /\ Match(Arg, <<>>, <<>>)
    /\ NoError /\ Syntax

UnlessToken ==
    /\ At("unless")
    /\ Do(IF Is(Arg) THEN <<>> ELSE <<Whole>>)
    /\ Stay /\ NoError /\ Syntax

-----------------------------------------------------------------------------
(* Expressions.                                                            *)

Precedence(t) ==
    CASE t = "||" -> 2
      [] t = "&&" -> 3
      [] t = "|" -> 4
      [] t = "^" -> 5
      [] t = "&" -> 6
      [] t \in {"==", "!="} -> 7
      [] t \in {"<", "<=", ">", ">="} -> 8
      [] t \in {"<<", ">>"} -> 9
      [] t \in {"+", "-"} -> 10
      [] t \in {"*", "/", "%"} -> 11
      [] t \in {"(", "[", ".", "++", "--"} -> 13
      [] OTHER -> 0
Unary == 12

Compound == [t \in {"+=", "-=", "*=", "<<="} |->
                CASE t = "+=" -> "+" [] t = "-=" -> "-" [] t = "*=" -> "*" [] t = "<<=" -> "<<"]

One == <<"1">>
Step(op, operand) == <<(IF op = "++" THEN "+" ELSE "-"), operand, One>>
Undo(op, operand) == <<(IF op = "++" THEN "-" ELSE "+"), operand, One>>
IsVariable(e) == Len(e) = 1 /\ e[1] \in Identifiers

Push(e) == exprs' = Append(exprs, e)
(* A node over the last n expressions.                                     *)
Build(node, n) ==
    exprs' = Append(SubSeq(exprs, 1, Len(exprs) - n),
                    <<node>> \o SubSeq(exprs, Len(exprs) - n + 1, Len(exprs)))
Pratt == UNCHANGED <<lvars, classNames, parsed, result>>

(* The expression of a statement, and its end.                             *)
StatementExpression ==
    /\ At("expression")
    /\ Do(<<Expression, <<"parsed", used + 1>> >>)
    /\ Stay /\ NoError /\ Syntax

ExpressionEnds ==
    /\ At("parsed")
    /\ parsed' = parsed \cup {[first |-> Arg, last |-> used, tree |-> Last(exprs)]}
    /\ exprs' = Front(exprs)
    /\ Do(<<>>)
    /\ Stay /\ NoError /\ UNCHANGED <<lvars, classNames, result>>

(* parse_precedence up to the prefix rule of the token: the items of each  *)
(* rule, and then the infix operators.                                     *)
Prefix(t, p) ==
    CASE t = "(" -> <<Expression, Consume(")")>>
      [] t = "[" -> <<<<"operands", "]", "array", 0>>>>
      [] t \in {"-", "!", "~"} -> << <<"precedence", Unary>>, <<"build", t, 1>> >>
      [] t \in {"++", "--"} -> << <<"precedence", Unary>>, <<"increment", t>> >>
      [] OTHER -> << <<"variable", p>> >>

Literals == {"1", "s", "TRUE", "NULL"}

(* Mutant: a closing brace is reported and left for the block it ends.     *)
ParsePrecedencePeeking ==
    /\ At("precedence")
    /\ IF Is("identifier") \/ current \in {"(", "[", "-", "!", "~", "++", "--"}
       THEN /\ Advance /\ Do(Prefix(current, Arg) \o << <<"infix", Arg>> >>)
            /\ NoError /\ UNCHANGED exprs
       ELSE IF current \in Literals
            THEN Advance /\ Do(<< <<"infix", Arg>> >>) /\ NoError /\ Push(<<current>>)
            ELSE /\ IF Is("}") THEN Stay ELSE Advance
                 /\ Do(<<>>) /\ ErrorAt /\ Push(<<"NULL">>)
    /\ Pratt

ParsePrecedence ==
    /\ At("precedence")
    /\ Advance
    /\ IF Is("identifier") \/ current \in {"(", "[", "-", "!", "~", "++", "--"}
       THEN Do(Prefix(current, Arg) \o << <<"infix", Arg>> >>) /\ NoError /\ UNCHANGED exprs
       ELSE IF current \in Literals
            THEN Do(<< <<"infix", Arg>> >>) /\ NoError /\ Push(<<current>>)
            ELSE Do(<<>>) /\ ErrorAt /\ Push(<<"NULL">>)
    /\ Pratt

CanAssign(p) == p <= 1

(* variable(): assignment, plain and compound, or a use.                   *)
Variable ==
    /\ At("variable")
    /\ LET name == <<previous>>
       IN  IF CanAssign(Arg) /\ Is("=")
           THEN Advance /\ Push(name) /\ Do(<<Expression, <<"build", "=", 2>> >>)
           ELSE IF CanAssign(Arg) /\ current \in DOMAIN Compound
           THEN /\ Advance
                /\ exprs' = exprs \o <<name, name>>
                /\ Do(<<Expression, <<"build", Compound[current], 2>>, <<"build", "=", 2>> >>)
           ELSE Stay /\ Push(name) /\ Do(<<>>)
    /\ NoError /\ Pratt

(* What an operand is completed to: a node, or pre_incdec's assignment.    *)
BuildNode ==
    /\ At("build")
    /\ Build(Head(todo)[2], Head(todo)[3])
    /\ Do(<<>>)
    /\ Stay /\ NoError /\ Pratt

PreIncDec ==
    /\ At("increment")
    /\ Do(<<>>)
    /\ IF IsVariable(Last(exprs))
       THEN /\ exprs' = Append(Front(exprs), <<"=", Last(exprs), Step(Arg, Last(exprs))>>)
            /\ NoError
       ELSE ErrorAt /\ UNCHANGED exprs
    /\ Stay /\ Pratt

(* Mutant: the right operand may hold operators of the same precedence.    *)
InfixToTheRight(t, p) ==
    CASE t = "(" -> << <<"operands", ")", "call", 1>> >>
      [] t = "[" -> <<Expression, Consume("]"), <<"place", "index", 2, p>> >>
      [] t = "." -> <<Consume("identifier"), <<"field">>, <<"place", "field", 2, p>> >>
      [] t \in {"++", "--"} -> << <<"postfix", t>> >>
      [] OTHER -> << <<"precedence", Precedence(t)>>, <<"build", t, 2>> >>

(* The loop over infix operators, with the rule of each.                   *)
Infix(t, p) ==
    CASE t = "(" -> << <<"operands", ")", "call", 1>> >>
      [] t = "[" -> <<Expression, Consume("]"), <<"place", "index", 2, p>> >>
      [] t = "." -> <<Consume("identifier"), <<"field">>, <<"place", "field", 2, p>> >>
      [] t \in {"++", "--"} -> << <<"postfix", t>> >>
      [] OTHER -> << <<"precedence", Precedence(t) + 1>>, <<"build", t, 2>> >>

(* Mutant: no error for a target that cannot be assigned to.               *)
InfixOperatorSilent ==
    /\ At("infix")
    /\ IF Arg <= Precedence(current)
       THEN Advance /\ Again(Infix(current, Arg))
       ELSE Do(<<>>) /\ (IF CanAssign(Arg) /\ Is("=") THEN Advance ELSE Stay)
    /\ NoError /\ UNCHANGED exprs /\ Pratt

InfixOperator ==
    /\ At("infix")
    /\ IF Arg <= Precedence(current)
       THEN Advance /\ Again(Infix(current, Arg)) /\ NoError
       ELSE /\ Do(<<>>)
            /\ IF CanAssign(Arg) /\ Is("=") THEN Advance /\ ErrorAt ELSE Stay /\ NoError
    /\ UNCHANGED exprs /\ Pratt

Postfix ==
    /\ At("postfix")
    /\ Do(<<>>)
    /\ LET left == Last(exprs)
       IN  IF IsVariable(left)
           THEN /\ exprs' = Append(Front(exprs), Undo(Arg, <<"=", left, Step(Arg, left)>>))
                /\ NoError
           ELSE ErrorAt /\ UNCHANGED exprs
    /\ Stay /\ Pratt

FieldName ==
    /\ At("field")
    /\ Push(<<previous>>)
    /\ Do(<<>>)
    /\ Stay /\ NoError /\ Pratt

(* index_expr and dot_expr: the place is assigned to, or read.             *)
Place ==
    /\ At("place")
    /\ LET node == Head(todo)[2]
           n    == Head(todo)[3]
       IN  IF CanAssign(Head(todo)[4]) /\ Is("=")
           THEN Advance /\ Do(<<Expression, <<"build", node \o "=", n + 1>> >>) /\ UNCHANGED exprs
           ELSE Stay /\ Do(<<>>) /\ Build(node, n)
    /\ NoError /\ Pratt

(* The elements of an array or the arguments of a call, n of them so far.  *)
Operands ==
    /\ At("operands")
    /\ LET close == Head(todo)[2]
           node  == Head(todo)[3]
           n     == Head(todo)[4]
       IN  Do(IF Is(close) THEN <<Consume(close), <<"build", node, n>> >>
              ELSE <<Expression, <<"comma", close, node, n + 1>> >>)
    /\ Stay /\ NoError /\ UNCHANGED exprs /\ Pratt

OperandEnds ==
    /\ At("comma")
    /\ LET close == Head(todo)[2]
           node  == Head(todo)[3]
           n     == Head(todo)[4]
       IN  Match(",", <<Expression, <<"comma", close, node, n + 1>> >>,
                      <<Consume(close), <<"build", node, n>> >>)
    /\ NoError /\ UNCHANGED exprs /\ Pratt

-----------------------------------------------------------------------------
(* Types and declarations.                                                 *)

ArraySuffix == <<"array_suffix">>

(* A suffix of an array type, behind a type or a class's name.             *)
ArrayType ==
    /\ At("array_suffix")
    /\ Match("[", <<Consume("]")>>, <<>>)
    /\ NoError /\ Syntax

IsClassName(t) == t \in Identifiers \cap Range(classNames)

TypeAnnotation ==
    /\ At("type")
    /\ IF Is("type") \/ IsClassName(current)
       THEN Advance /\ Do(<<ArraySuffix>>) /\ NoError
       ELSE Stay /\ Do(<<>>) /\ ErrorAt
    /\ Syntax

(* What follows a type and a name: a function's parameters and its body,   *)
(* or a variable's initializer.                                            *)
Declarator == <<"declarator">>
Parameter == << <<"type">>, Consume("identifier"), <<"parameters">> >>

DeclareNamed ==
    /\ At("declarator")
    /\ IF Is("(") THEN Stay /\ Do(<<<<"function">>>>)
       ELSE Match("=", <<Whole, Consume(";")>>, <<Consume(";")>>)
    /\ NoError /\ Syntax

Body == <<Consume(")"), <<"body">> >>

FunctionDeclaration ==
    /\ At("function")
    /\ Advance                              \* its "(" was looked at
    /\ Do(<< <<"first_parameter">> >>)
    /\ NoError /\ Syntax

FirstParameter ==
    /\ At("first_parameter")
    /\ Do(IF Is(")") THEN Body ELSE Parameter)
    /\ Stay /\ NoError /\ Syntax

MoreParameters ==
    /\ At("parameters")
    /\ Match(",", Parameter, Body)
    /\ NoError /\ Syntax

(* A prototype, or a body.                                                 *)
FunctionBody ==
    /\ At("body")
    /\ Match(";", <<>>, <<Consume("{"), <<"block">> >>)
    /\ NoError /\ Syntax

TypedDeclaration == <<ArraySuffix, Consume("identifier"), Declarator>>

(* declaration() and statement(), up to the keyword.                       *)
StatementRest(keyword) ==
    CASE keyword = "{" -> << <<"block">> >>
      [] keyword = "if" ->
            <<Consume("("), Whole, Consume(")"), <<"statement">>, <<"else">> >>
      [] keyword = "while" -> <<Consume("("), Whole, Consume(")"), <<"statement">> >>
      [] keyword = "for" ->
            <<Consume("("), <<"for_init">>, <<"unless", ";">>, Consume(";"),
              <<"unless", ")">>, Consume(")"), <<"statement">> >>
      [] keyword = "do" ->
            << <<"statement">>, Consume("while"), Consume("("), Whole, Consume(")"), Consume(";")>>
      [] keyword = "return" -> << <<"unless", ";">>, Consume(";")>>
      [] keyword = "switch" ->
            <<Consume("("), Whole, Consume(")"), Consume("{"), <<"cases">> >>
      [] keyword \in {"break", "continue"} -> <<Consume(";")>>
      [] keyword = "s" -> << <<"print_args">> >>
Keywords == {"{", "if", "while", "for", "do", "return", "switch", "break", "continue", "s"}

Statement ==
    /\ At("statement")
    /\ IF IsOneOf(Keywords) THEN Advance /\ Do(StatementRest(current))
       ELSE Stay /\ Do(<<Whole, Consume(";")>>)
    /\ NoError /\ Syntax

Declaration ==
    /\ At("declaration")
    /\ IF Is("class") \/ Is("type")
       THEN /\ Advance
            /\ Do((IF Is("class") THEN <<Consume("identifier"), <<"class">> >>
                   ELSE TypedDeclaration) \o << <<"recover">> >>)
       ELSE IF IsClassName(current) /\ Kind(next) \in {"identifier", "["}
            THEN Advance /\ Do(TypedDeclaration \o << <<"recover">> >>)
            ELSE Stay /\ Do(<< <<"statement">>, <<"recover">> >>)
    /\ NoError /\ Syntax

(* class_declaration behind the class's name, and the members.             *)
ClassDeclaration ==
    /\ At("class")
    /\ classNames' = IF Len(classNames) < MaxClassNames
                     THEN Append(classNames, previous) ELSE classNames
    /\ Do(<<Consume("{"), <<"members">> >>)
    /\ Stay /\ NoError /\ UNCHANGED <<lvars, exprs, parsed, result>>

Members ==
    /\ At("members")
    /\ IF IsOneOf({"}", EOF}) THEN Do(<<Consume("}"), <<"match", ";">> >>)
       ELSE Again(<< <<"type">>, Consume("identifier"), <<"member">> >>)
    /\ Stay /\ NoError /\ Syntax

Member ==
    /\ At("member")
    /\ Do(<<IF Is("(") THEN <<"function">> ELSE Consume(";")>>)
    /\ Stay /\ NoError /\ Syntax

-----------------------------------------------------------------------------
(* The lists, and the rest of the statements.                              *)

(* The declarations of a program, of a block and of a case.                *)
Program ==
    /\ At("program")
    /\ IF Is(EOF) THEN result' = ~hadError /\ UNCHANGED todo
       ELSE Again(<< <<"declaration">> >>) /\ UNCHANGED result
    /\ Stay /\ NoError /\ UNCHANGED <<lvars, classNames, exprs, parsed>>

Block ==
    /\ At("block")
    /\ IF IsOneOf({"}", EOF}) THEN Do(<<Consume("}")>>) ELSE Again(<< <<"declaration">> >>)
    /\ Stay /\ NoError /\ Syntax

Cases ==
    /\ At("cases")
    /\ IF IsOneOf({"}", EOF}) THEN Do(<<Consume("}")>>)
       ELSE Again(<< <<"label">>, Consume(":"), <<"case_body">> >>)
    /\ Stay /\ NoError /\ Syntax

CaseLabel ==
    /\ At("label")
    /\ Match("case", <<Whole>>, <<Consume("default")>>)
    /\ NoError /\ Syntax

CaseBody ==
    /\ At("case_body")
    /\ IF IsOneOf({"case", "default", "}", EOF}) THEN Do(<<>>)
       ELSE Again(<< <<"declaration">> >>)
    /\ Stay /\ NoError /\ Syntax

Else ==
    /\ At("else")
    /\ Match("else", << <<"statement">> >>, <<>>)
    /\ NoError /\ Syntax

ForInit ==
    /\ At("for_init")
    /\ IF Is("type") THEN Advance /\ Do(TypedDeclaration)
       ELSE Match(";", <<>>, <<Whole, Consume(";")>>)
    /\ NoError /\ Syntax

(* The values a print statement formats.                                   *)
PrintArguments ==
    /\ At("print_args")
    /\ Match(",", <<Whole, <<"print_args">> >>, <<Consume(";")>>)
    /\ NoError /\ Syntax

(* The end of a declaration: after an error, synchronize to what may be    *)
(* the start of the next one.                                              *)
Starters == {"type", "if", "while", "for", "do", "return", "switch", "class", "{"}

Recover ==
    /\ At("recover")
    /\ panicMode' = FALSE
    /\ Do(IF panicMode THEN << <<"synchronize">> >> ELSE <<>>)
    /\ Stay /\ UNCHANGED hadError /\ Syntax

Synchronize ==
    /\ At("synchronize")
    /\ IF previous = ";" \/ IsOneOf(Starters \cup {EOF}) THEN Stay /\ Do(<<>>)
       ELSE Advance /\ UNCHANGED todo
    /\ NoError /\ Syntax

Parse ==
    \/ ConsumeToken \/ MatchToken \/ UnlessToken
    \/ StatementExpression \/ ExpressionEnds \/ ParsePrecedence \/ Variable
    \/ BuildNode \/ PreIncDec \/ InfixOperator \/ Postfix \/ FieldName \/ Place
    \/ Operands \/ OperandEnds
    \/ ArrayType \/ TypeAnnotation \/ DeclareNamed \/ FunctionDeclaration
    \/ FirstParameter \/ MoreParameters \/ FunctionBody \/ Statement \/ Declaration
    \/ ClassDeclaration \/ Members \/ Member \/ Program \/ Block \/ Cases
    \/ CaseLabel \/ CaseBody \/ Else \/ ForInit \/ PrintArguments
    \/ Recover \/ Synchronize

Returned == result # NULL /\ UNCHANGED vars

Next == ScanNonerror \/ Parse \/ Returned

(* The parser is one thread that never waits.                              *)
Spec == Init /\ [][Next]_vars /\ WF_vars(ScanNonerror \/ Parse)

-----------------------------------------------------------------------------
(* Properties.                                                             *)

G == INSTANCE Grammar

TypeOK ==
    /\ used \in 0 .. Len(tokens) /\ Len(tokens) <= used + 2
    /\ {panicMode, hadError} \subseteq BOOLEAN
    /\ panicMode => hadError
    /\ Len(stack) < MaxDepth /\ Cardinality(included) <= MaxIncluded
    /\ Len(classNames) <= MaxClassNames
    /\ result \in {TRUE, FALSE, NULL}
    /\ result # NULL => exprs = <<>>

(* parse() accepts a program exactly if it is a sentence of the language,  *)
(* included files and all (parser.h:9): no error is lost in the recovery   *)
(* from another one, and none is reported for what the language allows.    *)
VerdictIsRight ==
    result # NULL =>
       result = (Pasted(project).clean /\ G!Sentence(Pasted(project).tokens))

(* An expression groups as the precedences of its operators say, and x++   *)
(* and compound assignments mean what they are short for.                  *)
TreesFollowThePrecedences ==
    result = TRUE =>
       \A e \in parsed : G!TreesOf(Pasted(project).tokens, e.first, e.last) = {e.tree}

(* The parser reads the text with each file pasted in at the directive     *)
(* that first names it, none of it lost or repeated at the places where    *)
(* files begin and end (lexer.c:3-7).                                      *)
StreamIsPasted ==
    LET stream == SelectSeq(tokens, LAMBDA t : t # EOF)
    IN  /\ IsPrefix(stream, Pasted(project).tokens)
        /\ result # NULL => stream = Pasted(project).tokens

(* No file is scanned twice: includes "are processed once per file"        *)
(* (lexer.c:7). A cycle of includes through the main file breaks it, since *)
(* lexer_init (lexer.c:48) does not record that file.                      *)
FilesAreScannedOnce == project.main \notin included

(* parse() returns, with a verdict, on every program: what parser.h:9 says *)
(* of programs with syntax errors too.                                     *)
ParsingEnds == <>(result # NULL)

(* Recovering from errors, every list of the parser moves on to the end of *)
(* the program. The exception is the body of a class: at what cannot begin *)
(* a member it reports the error and tries again at the same token.        *)
AtMember ==
    /\ Head(todo)[1] \in {"members", "type", "consume", "member"}
    /\ \E i \in DOMAIN todo : i <= 4 /\ todo[i][1] = "members"
OnlyClassBodiesLoop == <>(result # NULL \/ []AtMember)
=============================================================================
