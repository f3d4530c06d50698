----------------------------- MODULE MCCompiler -----------------------------
EXTENDS Compiler

CONSTANTS x, y

MCSymmetry == Permutations({x, y})

Loops == [kinds |-> {"while", "switch", "block", "var"}, nesting |-> <<5>>]
Clauses == [kinds |-> {"for", "do", "switch", "expr", "var"}, nesting |-> <<4>>]
Expressions == [kinds |-> {"operands", "logical", "print", "return", "var", "if", "block"},
                nesting |-> <<4>>]
Functions == [kinds |-> {"block", "for", "while", "var", "class"}, nesting |-> <<3, 3>>]

MCPrograms == {Loops, Clauses, Expressions, Functions}
=============================================================================
