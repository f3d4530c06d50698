------------------------------- MODULE Grammar -------------------------------
(***************************************************************************)
(* The language of brokm, stated as a grammar: what the documents and the  *)
(* parser's comments describe, without saying how it is recognised. A word *)
(* is a sequence of tokens; a production's end is the position behind it.  *)
(* All operators take the word w, in which positions are counted from 1.   *)
(***************************************************************************)
EXTENDS Integers, SequencesExt

CONSTANT Identifiers

KindAt(w, i) ==
    IF i > Len(w) THEN "" ELSE IF w[i] \in Identifiers THEN "identifier" ELSE w[i]

-----------------------------------------------------------------------------
(* Expressions: the trees of the expressions that begin at a position.     *)

(* Operators from the loosest to the tightest; all associate to the left.  *)
Ladder == << {"||"}, {"&&"}, {"|"}, {"^"}, {"&"}, {"==", "!="},
             {"<", "<=", ">", ">="}, {"<<", ">>"}, {"+", "-"}, {"*", "/", "%"} >>

BaseOf == [op \in {"+=", "-=", "*=", "<<="} |->
              CASE op = "+=" -> "+" [] op = "-=" -> "-" [] op = "*=" -> "*" [] op = "<<=" -> "<<"]

Tree(end, tree, last) == [end |-> end, tree |-> tree, last |-> last]
IsName(t) == Len(t) = 1 /\ t[1] \in Identifiers

(* x++ is the old value of x, ++x the new one.                             *)
Incremented(op, x) == <<"=", x, <<(IF op = "++" THEN "+" ELSE "-"), x, <<"1">> >> >>
OldValue(op, x) == <<(IF op = "++" THEN "-" ELSE "+"), Incremented(op, x), <<"1">> >>

RECURSIVE ExpressionsAt(_, _), Lists(_, _, _, _), Suffixed(_, _), UnariesAt(_, _),
          Chain(_, _, _), Level(_, _, _)

(* Expressions with commas between them, up to a closing bracket.          *)
Lists(w, i, close, node) ==
    UNION { LET more == Append(node, e.tree)
            IN  CASE KindAt(w, e.end) = close -> {Tree(e.end + 1, more, close)}
                  [] KindAt(w, e.end) = "," -> Lists(w, e.end + 1, close, more)
                  [] OTHER -> {}
            : e \in ExpressionsAt(w, i) }
Listed(w, i, close, node) ==
    IF KindAt(w, i) = close THEN {Tree(i + 1, node, close)} ELSE Lists(w, i, close, node)

Primaries(w, i) ==
    CASE KindAt(w, i) \in {"identifier", "1", "s", "TRUE", "NULL"} ->
            {Tree(i + 1, <<w[i]>>, "primary")}
      [] KindAt(w, i) = "(" ->
            { Tree(e.end + 1, e.tree, "primary")
              : e \in {f \in ExpressionsAt(w, i + 1) : KindAt(w, f.end) = ")"} }
      [] KindAt(w, i) = "[" ->
            { Tree(e.end, e.tree, "primary") : e \in Listed(w, i + 1, "]", <<"array">>) }
      [] OTHER -> {}

(* An operand and any number of suffixes.                                  *)
Suffixed(w, t) ==
    LET op == KindAt(w, t.end)
        longer ==
          CASE op = "(" -> { Tree(e.end, e.tree, op)
                             : e \in Listed(w, t.end + 1, ")", <<"call", t.tree>>) }
            [] op = "[" -> { Tree(e.end + 1, <<"index", t.tree, e.tree>>, op)
                             : e \in {f \in ExpressionsAt(w, t.end + 1) : KindAt(w, f.end) = "]"} }
            [] op = "." -> IF KindAt(w, t.end + 1) = "identifier"
                           THEN {Tree(t.end + 2, <<"field", t.tree, <<w[t.end + 1]>> >>, op)}
                           ELSE {}
            [] op \in {"++", "--"} -> IF IsName(t.tree)
                                      THEN {Tree(t.end + 1, OldValue(op, t.tree), op)}
                                      ELSE {}
            [] OTHER -> {}
    IN  {t} \cup UNION {Suffixed(w, l) : l \in longer}
Postfixes(w, i) == UNION {Suffixed(w, t) : t \in Primaries(w, i)}

UnariesAt(w, i) ==
    LET op == KindAt(w, i)
    IN  CASE op \in {"-", "!", "~"} ->
                {Tree(e.end, <<op, e.tree>>, op) : e \in UnariesAt(w, i + 1)}
          [] op \in {"++", "--"} ->
                { Tree(e.end, Incremented(op, e.tree), op)
                  : e \in {f \in UnariesAt(w, i + 1) : IsName(f.tree)} }
          [] OTHER -> Postfixes(w, i)

Chain(w, l, left) ==
    {left} \cup
    ( IF KindAt(w, left.end) \in Ladder[l]
      THEN UNION { Chain(w, l, Tree(right.end, <<w[left.end], left.tree, right.tree>>, "binary"))
                   : right \in Level(w, l + 1, left.end + 1) }
      ELSE {} )
Level(w, l, i) ==
    IF l > Len(Ladder) THEN UnariesAt(w, i)
    ELSE UNION {Chain(w, l, left) : left \in Level(w, l + 1, i)}

(* An assignment to a variable, an element or a field, or a value.         *)
ExpressionsAt(w, i) ==
    LET places == { p \in Postfixes(w, i) :
                       KindAt(w, p.end) = "=" /\ p.last \in {"[", "."} }
    IN  Level(w, 1, i)
        \cup UNION { {Tree(e.end, <<p.tree[1] \o "=">> \o Tail(p.tree) \o <<e.tree>>, "=")
                      : e \in ExpressionsAt(w, p.end + 1)} : p \in places }
        \cup ( IF KindAt(w, i) = "identifier" /\ KindAt(w, i + 1) \in {"="} \cup DOMAIN BaseOf
               THEN LET x == <<w[i]>>
                        op == w[i + 1]
                    IN  { Tree(e.end,
                               <<"=", x, IF op = "=" THEN e.tree ELSE <<BaseOf[op], x, e.tree>> >>,
                               "=")
                          : e \in ExpressionsAt(w, i + 2) }
               ELSE {} )

-----------------------------------------------------------------------------
(* Statements and declarations.                                            *)

Productions ==
  [ Decls |-> { <<>>, <<"Decl", "Decls">> },
    Decl |-> { <<"Class">>, <<"Type", "identifier", "Declared">>, <<"Stmt">> },
    Class |-> { <<"class", "identifier", "{", "Members", "}">>,
                <<"class", "identifier", "{", "Members", "}", ";">> },
    Members |-> { <<>>, <<"Type", "identifier", ";", "Members">>,
                  <<"Type", "identifier", "Function", "Members">> },
    Type |-> { <<"Name">>, <<"Name", "[", "]">> },
    Name |-> { <<"type">>, <<"ClassName">> },
    Declared |-> { <<"Function">>, <<";">>, <<"=", "Expr", ";">> },
    Function |-> { <<"(", ")", "Body">>, <<"(", "Params", ")", "Body">> },
    Params |-> { <<"Type", "identifier">>, <<"Type", "identifier", ",", "Params">> },
    Body |-> { <<";">>, <<"Block">> },
    Block |-> { <<"{", "Decls", "}">> },
    Stmt |-> { <<"Block">>,
               <<"if", "(", "Expr", ")", "Stmt">>,
               <<"if", "(", "Expr", ")", "Stmt", "else", "Stmt">>,
               <<"while", "(", "Expr", ")", "Stmt">>,
               <<"for", "(", "First", "Optional", ";", "Optional", ")", "Stmt">>,
               <<"do", "Stmt", "while", "(", "Expr", ")", ";">>,
               <<"return", "Optional", ";">>,
               <<"switch", "(", "Expr", ")", "{", "Cases", "}">>,
               <<"break", ";">>, <<"continue", ";">>,
               <<"s", "Values", ";">>,
               <<"Evaluated", "Expr", ";">> },
    First |-> { <<";">>, <<"Expr", ";">>, <<"type", "identifier", "Declared">>,
                <<"type", "[", "]", "identifier", "Declared">> },
    Optional |-> { <<>>, <<"Expr">> },
    Cases |-> { <<>>, <<"case", "Expr", ":", "Decls", "Cases">>,
                <<"default", ":", "Decls", "Cases">> },
    Values |-> { <<>>, <<",", "Expr", "Values">> } ]

ClassNameAt(w, i) ==
    /\ KindAt(w, i) = "identifier"
    /\ \E k \in 2 .. i - 1 : w[k - 1] = "class" /\ w[k] = w[i]

RECURSIVE Ends(_, _, _)
Ends(w, symbol, i) ==
    IF symbol \in DOMAIN Productions
    THEN UNION { FoldLeft(LAMBDA ends, s : UNION {Ends(w, s, e) : e \in ends}, {i}, rhs)
                 : rhs \in Productions[symbol] }
    ELSE CASE symbol = "Expr" -> {e.end : e \in ExpressionsAt(w, i)}
           [] symbol = "ClassName" -> IF ClassNameAt(w, i) THEN {i + 1} ELSE {}
           \* a string is printed, and a class's name before [ begins a type
           [] symbol = "Evaluated" ->
                 IF KindAt(w, i) = "s" \/ (ClassNameAt(w, i) /\ KindAt(w, i + 1) = "[")
                 THEN {} ELSE {i}
           [] OTHER -> IF KindAt(w, i) = symbol THEN {i + 1} ELSE {}

Sentence(w) == Len(w) + 1 \in Ends(w, "Decls", 1)
TreesOf(w, first, last) == {e.tree : e \in {f \in ExpressionsAt(w, first) : f.end = last + 1}}
=============================================================================
