------------------------------ MODULE Scanner ------------------------------
(***************************************************************************)
(* How the lexer (lexer.c) cuts one source into tokens: blanks, comments,  *)
(* names, numbers, literals and operators, and the line each token is on.  *)
(* What a source includes is in Lexer.                                     *)
(***************************************************************************)
EXTENDS Integers, FiniteSets, SequencesExt

CONSTANTS
    Sources,    \* bound: the texts scanned, sequences of characters
    KEYWORDS,   \* the table KEYWORDS: a word |-> the type of its token
    NL, NUL     \* the end of a line, the terminator of a text

Letters  == {"a", "e", "f", "i", "o", "d", "x", "X"}
Digits   == {"0", "1", "9"}
HexDigits == Digits \cup {"a", "e", "f", "d"}
Blanks   == {" ", "\r", "\t"}
Singles  == {"(", ")", "{", "}", "[", "]", ",", ";", ":", ".", "~"}
Doubled  == {"+", "-", "<", ">", "&", "|"}            \* ++, --, <<, >>, &&, ||
Compound == Doubled \cup {"*", "/", "%", "!", "=", "^"}   \* followed by =

(* Of the constants; the modules that give them values assume it.           *)
ScannerAssumption ==
    /\ \A s \in Sources : NUL \notin Range(s)
    /\ \A w \in DOMAIN KEYWORDS : Range(w) \subseteq Letters \cup Digits

VARIABLES
    source,    \* the text
    current,   \* lexer.current: the position of the next character, from 1
    line,      \* lexer.line
    tokens     \* what lexer_next has answered: [type, start, length, line]

vars == <<source, current, line, tokens>>

End == Len(source) + 1     \* where the terminator is

(* The character at i. What follows the terminator is not the source's; a   *)
(* scan that gets there is not followed any further.                       *)
At(i) == IF i < End THEN source[i] ELSE NUL

(* The first position from i on that holds none of the characters of S.    *)
Past(S, i) == CHOOSE j \in i .. End : At(j) \notin S /\ \A k \in i .. j - 1 : At(k) \in S

Newlines(i, j) == Cardinality({k \in i .. j : At(k) = NL})

(***************************************************************************)
(* skip_whitespace: where the next token starts, and on which line.        *)
(***************************************************************************)
EndOfLineTaken(i) ==
    LET j == CHOOSE j \in i .. End : At(j) \in {NL, NUL} /\ \A k \in i .. j - 1 : At(k) # NL
    IN  IF At(j) = NL THEN j + 1 ELSE j

EndOfLine(i) == CHOOSE j \in i .. End : At(j) \in {NL, NUL} /\ \A k \in i .. j - 1 : At(k) # NL

Closes(j) == At(j) = "*" /\ At(j + 1) = "/"

EndOfCommentOverlapping(i) ==
    IF \E j \in i - 1 .. End : Closes(j)
    THEN 2 + CHOOSE j \in i - 1 .. End : Closes(j) /\ \A k \in i - 1 .. j - 1 : ~Closes(k)
    ELSE End

EndOfComment(i) ==
    IF \E j \in i .. End : Closes(j)
    THEN 2 + CHOOSE j \in i .. End : Closes(j) /\ \A k \in i .. j - 1 : ~Closes(k)
    ELSE End

RECURSIVE SkipWhitespace(_, _)
SkipWhitespace(i, l) ==
    CASE At(i) \in Blanks                  -> SkipWhitespace(i + 1, l)
      [] At(i) = NL                        -> SkipWhitespace(i + 1, l + 1)
      [] At(i) = "/" /\ At(i + 1) = "/"    -> SkipWhitespace(EndOfLine(i), l)
      [] At(i) = "/" /\ At(i + 1) = "*"    ->
           LET j == EndOfComment(i + 2) IN SkipWhitespace(j, l + Newlines(i + 2, j - 1))
      [] OTHER                             -> [at |-> i, line |-> l]

(***************************************************************************)
(* Tokens: [type, next, line], next the position after them.               *)
(***************************************************************************)
Found(type, next, l) == [type |-> type, next |-> next, line |-> l]

Identifier(i, l) ==
    LET next == Past(Letters \cup Digits, i)
        word == SubSeq(source, i, next - 1)
    IN  Found(IF word \in DOMAIN KEYWORDS THEN KEYWORDS[word] ELSE "IDENTIFIER", next, l)

Fraction(i) == IF At(i) = "." /\ At(i + 1) \in Digits THEN Past(Digits, i + 1) ELSE i

Exponent(i) ==
    IF At(i) = "e"
    THEN Past(Digits, IF At(i + 1) \in {"+", "-"} THEN i + 2 ELSE i + 1)
    ELSE i

Number(i, l) ==
    IF At(i) = "0" /\ At(i + 1) \in {"x", "X"}
    THEN Found("INT", Past(HexDigits, i + 2), l)
    ELSE LET whole == Past(Digits, i)
             next  == Exponent(Fraction(whole))
         IN  Found(IF next = whole THEN "INT" ELSE "FLOAT", next, l)

(* string, character: up to the closing quote; a backslash takes the       *)
(* character after it along. Where the text ends first, an error.          *)
RECURSIVE Literal(_, _, _, _)
Literal(quote, type, i, l) ==
    LET below == l + (IF At(i) = NL THEN 1 ELSE 0)
    IN  CASE i >= End       -> Found("ERROR", i, l)
          [] At(i) = quote  -> Found(type, i + 1, l)
          [] OTHER          -> Literal(quote, type, IF At(i) = "\\" THEN i + 2 ELSE i + 1, below)

ExtentOfTwo(i) ==
    IF \/ At(i) \in Doubled /\ At(i + 1) = At(i)
       \/ At(i) \in Compound /\ At(i + 1) = "="
    THEN 2 ELSE 1

(* How many characters the operator at i has.                              *)
Extent(i) ==
    CASE At(i) \in Doubled /\ At(i + 1) = At(i) ->
           IF At(i) \in {"<", ">"} /\ At(i + 2) = "=" THEN 3 ELSE 2
      [] At(i) \in Compound /\ At(i + 1) = "=" -> 2
      [] OTHER -> 1

Operator(i, l) ==
    Found(IF At(i) \in Singles \cup Compound THEN "OPERATOR" ELSE "ERROR", i + Extent(i), l)

Token(i, l) ==
    CASE i = End             -> Found("EOF", i, l)
      [] At(i) \in Letters   -> Identifier(i, l)
      [] At(i) \in Digits    -> Number(i, l)
      [] At(i) = "\""        -> Literal("\"", "STRING", i + 1, l)
      [] At(i) = "'"         -> Literal("'", "INT", i + 1, l)
      [] OTHER               -> Operator(i, l)

-----------------------------------------------------------------------------
Init ==
    /\ source \in Sources
    /\ current = 1
    /\ line = 1
    /\ tokens = <<>>

Over == tokens # <<>> /\ Last(tokens).type = "EOF"

(* The parser asks for tokens until it is given the end.                   *)
LexerNext ==
    LET start == SkipWhitespace(current, line)
        token == Token(start.at, start.line)
    IN  /\ ~Over
        /\ current <= End
        /\ tokens' = Append(tokens, [type |-> token.type, start |-> start.at,
                                     length |-> token.next - start.at, line |-> token.line])
        /\ current' = token.next
        /\ line' = token.line
        /\ UNCHANGED source

Next == LexerNext

Spec == Init /\ [][Next]_vars

-----------------------------------------------------------------------------
(***************************************************************************)
(* What the scanner is for.                                                *)
(***************************************************************************)
OperatorLexemes == {<<c>> : c \in Singles \cup Compound} \cup {<<c, "=">> : c \in Compound}
    \cup {<<c, c>> : c \in Doubled} \cup {<<c, c, "=">> : c \in {"<", ">"}}

Of(S, w) == w # <<>> /\ Range(w) \subseteq S

(* A sign and any number of digits may follow the e.                       *)
IsExponent(w) ==
    w = <<>> \/ /\ w[1] = "e"
                /\ \/ Range(Tail(w)) \subseteq Digits
                   \/ Len(w) > 1 /\ w[2] \in {"+", "-"} /\ Range(SubSeq(w, 3, Len(w))) \subseteq Digits

IsNumber(w) ==
    \/ Len(w) > 1 /\ w[1] = "0" /\ w[2] \in {"x", "X"} /\ Range(SubSeq(w, 3, Len(w))) \subseteq HexDigits
    \/ \E k \in 1 .. Len(w) :
          /\ Of(Digits, SubSeq(w, 1, k))
          /\ \/ IsExponent(SubSeq(w, k + 1, Len(w)))
             \/ \E l \in k + 2 .. Len(w) : /\ w[k + 1] = "." /\ Of(Digits, SubSeq(w, k + 2, l))
                                          /\ IsExponent(SubSeq(w, l + 1, Len(w)))

IsLexeme(w) == \/ w \in OperatorLexemes \/ IsNumber(w)
               \/ Of(Letters \cup Digits, w) /\ w[1] \in Letters

Lexeme(t) == SubSeq(source, t.start, t.start + t.length - 1)

(* What may lie between two tokens.                                        *)
Blank(w) ==
    \/ Of(Blanks \cup {NL}, w)
    \/ Len(w) > 1 /\ w[1] = "/" /\ w[2] = "/" /\ NL \notin Range(w)
    \/ Len(w) > 3 /\ w[1] = "/" /\ w[2] = "*" /\ w[Len(w) - 1] = "*" /\ w[Len(w)] = "/"
       /\ \A k \in 3 .. Len(w) - 2 : ~(w[k] = "*" /\ w[k + 1] = "/")

Unclosed(w) == Len(w) > 1 /\ w[1] = "/" /\ w[2] = "*"
               /\ \A k \in 3 .. Len(w) - 1 : ~(w[k] = "*" /\ w[k + 1] = "/")

(* The positions that blanks and comments lead to from i.                  *)
RECURSIVE Reached(_, _)
Reached(S, seen) ==
    LET next == {j \in 2 .. End : \E i \in S :
                   /\ i < j
                   /\ LET w == SubSeq(source, i, j - 1)
                      IN  \/ Blank(w) /\ (w[1] = "/" /\ w[2] = "/" => At(j) \in {NL, NUL})
                          \/ j = End /\ Unclosed(w)}
    IN  IF next \subseteq seen THEN seen ELSE Reached(next \ seen, seen \cup next)

Before(k) == IF k = 1 THEN 1 ELSE tokens[k - 1].start + tokens[k - 1].length

(* Between two tokens lie only blanks and comments, and no token begins    *)
(* with one: the scanner (lexer.c:110, skip_whitespace) drops no character *)
(* of the program, wherever comments, quotes and operators meet.  Each     *)
(* answer but the last takes a character, so that the scan ends.           *)
NothingIsLost ==
    \A k \in DOMAIN tokens :
        /\ tokens[k].start \in Reached({Before(k)}, {Before(k)})
        /\ Reached({tokens[k].start}, {tokens[k].start}) = {tokens[k].start}
        /\ tokens[k].type = "EOF" <=> tokens[k].start = End
        /\ tokens[k].type = "EOF" \/ tokens[k].length > 0

(* A name, number or operator is the longest that starts there: >>= is not *)
(* >> and =, 1.0e-1 is one number and 1.e two tokens (lexer.c:183, :425).  *)
LongestMatch ==
    \A k \in DOMAIN tokens :
        tokens[k].type \in {"OPERATOR", "IDENTIFIER", "FLOAT"} \/ (tokens[k].type = "INT" /\ At(tokens[k].start) # "'")
            => /\ IsLexeme(Lexeme(tokens[k]))
               /\ \A j \in tokens[k].start + tokens[k].length .. End - 1 :
                     ~IsLexeme(SubSeq(source, tokens[k].start, j))

LineOf(t) == 1 + Newlines(1, t.start + t.length - 1)

(* A token's line is the line it ends on, whatever newlines comments and   *)
(* literals before it hold (lexer.c:97). The report of every error relies  *)
(* on it.                                                                  *)
LinesAreCounted ==
    \A k \in DOMAIN tokens : tokens[k].type = "ERROR" \/ tokens[k].line = LineOf(tokens[k])

Continued(t) == \E i \in t.start .. t.start + t.length - 2 : At(i) = "\\" /\ At(i + 1) = NL

(* The same as far as no newline follows a backslash in a literal.         *)
LinesAreCountedButContinued ==
    \A k \in DOMAIN tokens :
        (\A j \in 1 .. k : ~Continued(tokens[j])) => tokens[k].line = LineOf(tokens[k])

(* A literal that the text ends in is reported as unterminated             *)
(* (lexer.c:213, :225), and the scanner goes no further than the terminator.*)
StaysInSource == current <= End
=============================================================================
