------------------------------ MODULE MCParser ------------------------------
EXTENDS Parser

(* A program in one file, and in two directories.                          *)
Alone(text) ==
    [main |-> "main", text |-> [f \in {"main"} |-> text], dirOf |-> [f \in {"main"} |-> "."],
     canonical |-> <<>>]

Files(main, a, b, c) ==
    [main  |-> "main",
     text  |-> [f \in {"main", "a", "b", "c"} |->
                  CASE f = "main" -> main [] f = "a" -> a [] f = "b" -> b [] OTHER -> c],
     dirOf |-> [f \in {"main", "a", "b", "c"} |->
                  IF f \in {"main", "b"} THEN "." ELSE IF f = "a" THEN "sub" ELSE "lib"],
     canonical |-> (<<".", "#sub/a">> :> "a") @@ (<<"sub", "#a">> :> "a") @@
                   (<<".", "#b">> :> "b") @@ (<<"sub", "#../b">> :> "b") @@
                   (<<".", "#main">> :> "main") @@ (<<"sub", "#../main">> :> "main") @@
                   (<<"lib", "#b">> :> "c")]

MCPaths == {"#sub/a", "#a", "#b", "#../b", "#main", "#../main", "#missing"}

(* One sentence of every form, and of several forms one in another.        *)
Statements == {
  <<"if", "(", "x", ")", "if", "(", "x", ")", "break", ";", "else", "s", ";">>,
  <<"while", "(", "x", ")", "{", "continue", ";", "}">>,
  <<"do", "x", "++", ";", "while", "(", "x", ")", ";">>,
  <<"for", "(", "type", "x", "=", "1", ";", "x", ";", "x", "++", ")", ";">>,
  <<"for", "(", ";", ";", ")", "s", ",", "x", ";">>,
  <<"switch", "(", "x", ")", "{", "case", "1", ":", "x", ";", "default", ":", "}">>,
  <<"type", "x", "(", "type", "x", ",", "type", "[", "]", "x", ")", "{", "return", "x", ";", "}">>,
  <<"type", "x", "(", ")", ";", "return", ";">>,
  <<"class", "A", "{", "type", "x", ";", "A", "x", "(", ")", "{", "}", "}">>,
  <<"class", "A", "{", "}", ";", "A", "[", "]", "x", ";", "A", "x", "=", "x", ";">> }

Expressions == {
  <<"x", "=", "x", "+", "x", "*", "x", "-", "x", ";">>,
  <<"x", "<", "x", "==", "x", "&&", "x", "||", "x", ";">>,
  <<"x", "<<", "x", "&", "x", "|", "x", "^", "x", ";">>,
  <<"-", "x", ".", "x", "[", "x", "]", "++", ";">>,
  <<"(", "x", ")", "++", "+", "x", "(", "x", ",", "x", ")", ";">>,
  <<"x", "+=", "[", "x", ",", "x", "]", "[", "x", "]", "=", "x", ";">>,
  <<"++", "x", "-", "!", "x", ".", "x", "=", "x", ";">> }

Alphabet == {"x", "A", "1", "s", "type", "class", "if", "else", "while", "for", "do", "return",
             "switch", "case", "default", "break", "(", ")", "{", "}", "[", "]", ",", ";", ":",
             ".", "=", "+=", "+", "*", "-", "++", "==", "&", Malformed}

(* Every text that is one edit away from a sentence.                       *)
Edits(w, alphabet) ==
    {w} \cup {RemoveAt(w, i) : i \in DOMAIN w}
        \cup {ReplaceAt(w, i, t) : i \in DOMAIN w, t \in alphabet}
        \cup {InsertAt(w, i, t) : i \in DOMAIN w, t \in alphabet}

(* Programs in several files: includes that are nested, repeated, mutual,  *)
(* of the main file by itself and by others, looked up in the library, too *)
(* deep, too many, missing; and, whatever the file, a text that ends in    *)
(* the middle of a statement.                                              *)
Lines == { <<>>, <<"x", ";">>, <<"#sub/a", "#b">>, <<"#b", "x">>, <<"#../b", ";">>, <<"x", "#a">>,
           <<"#missing", ";">>, <<"x", "#b", ";", "#sub/a">>, <<"#../main", "x">>,
           <<"x", "#main", ";">>, <<"#sub/a", "#b", "#main">> }

Includes == {Files(m, a, b, c) : m \in Lines, a \in Lines, b \in Lines, c \in {<<>>, <<"x", ";">>}}

MCProjects == {Alone(w) : w \in UNION {Edits(s, Alphabet) : s \in Statements \cup Expressions}}
                \cup Includes

(* The class bodies that hold the parser up.                               *)
BodyProjects == {Alone(w) : w \in Edits(<<"class", "A", "{", "type", "x", ";", "}">>, {"=", "1"})}
=============================================================================
