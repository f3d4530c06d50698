-------------------------------- MODULE Lexer --------------------------------
(***************************************************************************)
(* The lexer (lexer.c) as its parser sees it: one stream of tokens out of  *)
(* a program text and the files it includes. A text is a sequence of       *)
(* items: a token, an #include directive, given by its path, or Malformed, *)
(* where lexer_next answers an error token.                                *)
(***************************************************************************)
EXTENDS Integers, FiniteSets, SequencesExt

CONSTANTS
    Projects,     \* bound: the programs, each with the files it may include:
                  \* [main, text, dirOf, canonical], see LexerAssumption
    Paths,        \* bound: the paths in #include directives
    MaxDepth,     \* LEXER_MAX_INCLUDE_DEPTH
    MaxIncluded,  \* LEXER_MAX_INCLUDED
    LibraryDir,   \* the search path tried last, $BROKM_HOME/lib
    Malformed, EOF, NULL

(* The text and the directory of every file, and realpath: what a path is, *)
(* seen from a directory. A program's own text is one of the files.        *)
ASSUME LexerAssumption ==
    /\ {MaxDepth, MaxIncluded} \subseteq Nat \ {0}
    /\ \A p \in Projects :
          /\ p.main \in DOMAIN p.text
          /\ DOMAIN p.dirOf = DOMAIN p.text
          /\ Range(p.canonical) \subseteq DOMAIN p.text

VARIABLES
    project,   \* the program that is parsed, in Projects
    file,      \* the active source
    at,        \* lexer.current, the items of it already scanned
    stack,     \* the suspended parents
    dir,       \* lexer.dir, where relative includes are looked for
    included,  \* the files already included
    tokens     \* the tokens that lexer_next has answered so far

lvars == <<project, file, at, stack, dir, included, tokens>>

LexerInit ==
    /\ project \in Projects
    /\ file = project.main
    /\ at = 0
    /\ stack = <<>>
    /\ dir = project.dirOf[project.main]
    /\ included = {}
    /\ tokens = <<>>

AtEnd == at = Len(project.text[file])
Item == project.text[file][at + 1]

(* The file a path names: relative to the including file's directory, then *)
(* in the library.                                                         *)
Resolve(p, from, path) ==
    IF <<from, path>> \in DOMAIN p.canonical THEN p.canonical[<<from, path>>]
    ELSE IF <<LibraryDir, path>> \in DOMAIN p.canonical THEN p.canonical[<<LibraryDir, path>>]
    ELSE NULL

Included == Resolve(project, dir, Item)
(* Mutant: one file more than there is room for.                           *)
TooDeepOffByOne == Len(stack) >= MaxDepth \/ Cardinality(included) >= MaxIncluded

TooDeep == Len(stack) + 1 >= MaxDepth \/ Cardinality(included) >= MaxIncluded

(* Mutant: the parent's directory is not restored.                         *)
ResumeParentElsewhere ==
    /\ AtEnd /\ stack # <<>>
    /\ file' = Last(stack).file
    /\ at' = Last(stack).at
    /\ stack' = Front(stack)
    /\ UNCHANGED <<project, dir, included, tokens>>

(* lexer_next, one turn of it at a time: back to the parent at the end of  *)
(* an included file, ...                                                   *)
ResumeParent ==
    /\ AtEnd /\ stack # <<>>
    /\ file' = Last(stack).file
    /\ at' = Last(stack).at
    /\ dir' = Last(stack).dir
    /\ stack' = Front(stack)
    /\ UNCHANGED <<project, included, tokens>>

(* ... into an included file, ...                                          *)
IncludeFile ==
    /\ ~AtEnd /\ Item \in Paths
    /\ Included # NULL /\ Included \notin included
    /\ ~TooDeep
    /\ stack' = Append(stack, [file |-> file, at |-> at + 1, dir |-> dir])
    /\ file' = Included
    /\ at' = 0
    /\ dir' = project.dirOf[Included]
    /\ included' = included \cup {Included}
    /\ UNCHANGED <<project, tokens>>

(* ... past a file that was included before, ...                           *)
SkipInclude ==
    /\ ~AtEnd /\ Item \in Paths
    /\ Included # NULL /\ Included \in included
    /\ at' = at + 1
    /\ UNCHANGED <<project, file, stack, dir, included, tokens>>

(* ... or out with an error token, a token, or the end of the stream.      *)
ScanError ==
    /\ ~AtEnd
    /\ \/ Item = Malformed
       \/ Item \in Paths /\ (Included = NULL \/ (Included \notin included /\ TooDeep))
    /\ at' = at + 1
    /\ UNCHANGED <<project, file, stack, dir, included, tokens>>

ScanToken ==
    /\ ~AtEnd /\ Item \notin Paths \cup {Malformed}
    /\ tokens' = Append(tokens, Item)
    /\ at' = at + 1
    /\ UNCHANGED <<project, file, stack, dir, included>>

ScanEnd ==
    /\ AtEnd /\ stack = <<>>
    /\ tokens' = Append(tokens, EOF)
    /\ UNCHANGED <<project, file, at, stack, dir, included>>

(* The stream as the documents describe it, "exactly as if pasted in":     *)
(* the text with each file put in the place of the first directive that    *)
(* names it. `clean' is FALSE if a directive or a character is an error.   *)
(* The main file has been named by no directive when the parser starts: it *)
(* is pasted in like any other, once, if a directive leads back to it.     *)
RECURSIVE Paste(_, _, _, _)
Paste(p, f, depth, sofar) ==
    FoldLeft(LAMBDA s, item :
                LET g == Resolve(p, p.dirOf[f], item)
                IN  IF item = Malformed THEN [s EXCEPT !.clean = FALSE]
                    ELSE IF item \notin Paths
                         THEN [s EXCEPT !.tokens = Append(s.tokens, item)]
                    ELSE IF g \in s.files THEN s
                    ELSE IF g = NULL \/ depth >= MaxDepth \/ Cardinality(s.files) >= MaxIncluded
                         THEN [s EXCEPT !.clean = FALSE]
                    ELSE Paste(p, g, depth + 1, [s EXCEPT !.files = @ \cup {g}]),
             sofar, p.text[f])
Pasted(p) == Paste(p, p.main, 1, [tokens |-> <<>>, files |-> {}, clean |-> TRUE])
=============================================================================
