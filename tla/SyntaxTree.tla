----------------------------- MODULE SyntaxTree -----------------------------
(***************************************************************************)
(* The syntax tree as memory (ast.c, ast.h, and what parser.c builds with   *)
(* it): nodes and the arrays of their lists are allocated one by one while *)
(* the parser descends, and given back by one recursive walk, which has to *)
(* say how large each was (reallocate takes the old size).  What the tree  *)
(* means is in Parser; names are interned strings and not the tree's.      *)
(***************************************************************************)
EXTENDS Integers, SequencesExt, FiniteSetsExt

CONSTANTS
    Families,     \* bound: what a program is made of: [kinds, pieces], the kinds of node
                  \* (and "x++") and the number of nodes and arrays
    MaxLength,    \* bound: the elements of a list
    LeastCapacity,\* the 8 of GROW_CAPACITY
    Size,         \* sizeof: "Expr", "Stmt", "pointer", "Type", "SwitchCase" |-> bytes
    NULL

(* Of the constants; the modules that give them values assume it.           *)
SyntaxTreeAssumption ==
    /\ \A f \in Families : f.pieces \in Nat
    /\ MaxLength \in Nat /\ LeastCapacity \in Nat \ {0}
    /\ Size \in [{"Expr", "Stmt", "pointer", "Type", "SwitchCase"} -> Nat \ {0}]

VARIABLES
    family,  \* the family of this program
    heap,    \* what is allocated: address |-> [node, parts, bytes] or [elements, bytes]
    held,    \* what the parser's functions have in hand, innermost last
    bytes,   \* vm->bytesAllocated, as far as the tree counts
    todo,    \* the walk that frees: what is still to be given back, next first
    phase,   \* "parse", "free"
    wrong    \* something was given back that was not there, or not that large

vars == <<family, heap, held, bytes, todo, phase, wrong>>

-----------------------------------------------------------------------------
(***************************************************************************)
(* ast.h: what a node of each kind owns.  A ? may be NULL.                 *)
(***************************************************************************)
Shape ==
    [EXPR_LITERAL |-> <<>>, EXPR_VARIABLE |-> <<>>, EXPR_UNARY |-> <<"expr">>,
     EXPR_BINARY |-> <<"expr", "expr">>, EXPR_LOGICAL |-> <<"expr", "expr">>,
     EXPR_ASSIGN |-> <<"expr">>, EXPR_CALL |-> <<"expr", "exprs">>, EXPR_ARRAY |-> <<"exprs">>,
     EXPR_INDEX |-> <<"expr", "expr">>, EXPR_INDEX_SET |-> <<"expr", "expr", "expr">>,
     EXPR_FIELD |-> <<"expr">>, EXPR_FIELD_SET |-> <<"expr", "expr">>,
     STMT_EXPR |-> <<"expr">>, STMT_VAR |-> <<"expr?">>, STMT_BLOCK |-> <<"stmts">>,
     STMT_IF |-> <<"expr", "stmt", "stmt?">>, STMT_WHILE |-> <<"expr", "stmt">>,
     STMT_FOR |-> <<"stmt?", "expr?", "expr?", "stmt">>, STMT_DOWHILE |-> <<"stmt", "expr">>,
     STMT_RETURN |-> <<"expr?">>, STMT_PRINT |-> <<"exprs">>,
     STMT_FUNCTION |-> <<"names", "types", "stmt?">>,
     STMT_BREAK |-> <<>>, STMT_CONTINUE |-> <<>>, STMT_SWITCH |-> <<"expr", "cases">>,
     STMT_CLASS |-> <<"names", "types", "stmts">>]

ExprKinds == {"EXPR_LITERAL", "EXPR_VARIABLE", "EXPR_UNARY", "EXPR_BINARY", "EXPR_LOGICAL",
              "EXPR_ASSIGN", "EXPR_CALL", "EXPR_ARRAY", "EXPR_INDEX", "EXPR_INDEX_SET",
              "EXPR_FIELD", "EXPR_FIELD_SET"}
Optional  == {"expr?", "stmt?"}
Lists     == {"exprs", "stmts", "names", "types", "cases"}

Sort(kind) == IF kind \in ExprKinds THEN "expr" ELSE "stmt"
NodeSize(kind) == IF kind \in ExprKinds THEN Size["Expr"] ELSE Size["Stmt"]
ElementSize(sort) ==
    CASE sort = "types" -> Size["Type"] [] sort = "cases" -> Size["SwitchCase"] [] OTHER -> Size["pointer"]

(* A list lies in its node: where its array is, and how much of it is used. *)
Empty(sort) == [sort |-> sort, items |-> NULL, count |-> 0, capacity |-> 0]
Node(sort, at) == [sort |-> sort, at |-> at]
Fresh(h) == Cardinality(DOMAIN h) + 1
At(h) == Node("expr", Fresh(h))   \* the node made next, in a heap
Nothing == [sort |-> "nothing", at |-> NULL]

Grown(capacity) == IF capacity < LeastCapacity THEN LeastCapacity ELSE 2 * capacity

(* The heap and the list after one more element.                           *)
Write(h, list, element) ==
    LET room  == IF list.capacity < list.count + 1 THEN Grown(list.capacity) ELSE list.capacity
        at    == IF list.items = NULL THEN Fresh(h) ELSE list.items
        array == IF list.items = NULL THEN <<>> ELSE h[at].elements
    IN  [heap |-> (at :> [elements |-> Append(array, element),
                          bytes |-> room * ElementSize(list.sort)]) @@ h,
         list |-> [list EXCEPT !.items = at, !.count = @ + 1, !.capacity = room]]

Top(n) == held[Len(held) - n]
Below(n) == SubSeq(held, 1, Len(held) - n)
Holds(n, sort) == Len(held) > n /\ Top(n).sort = sort
Wanted(sort) == \E kind \in family.kinds \cap DOMAIN Shape : sort \in Range(Shape[kind])
HasRoom(n) == Cardinality(DOMAIN heap) + n <= family.pieces

(* The bytes counted for a heap.                                           *)
Counted(h) == MapThenSumSet(LAMBDA a : h[a].bytes, DOMAIN h)

Build(h, stack) ==
    /\ heap' = h /\ held' = stack
    /\ bytes' = bytes + Counted(h) - Counted(heap)
    /\ UNCHANGED <<family, todo, phase, wrong>>

-----------------------------------------------------------------------------
Init ==
    /\ family \in Families
    /\ heap = <<>> /\ held = <<Empty("stmts")>>
    /\ bytes = 0 /\ todo = <<>> /\ phase = "parse" /\ wrong = FALSE

(* The types of parameters or fields are cut to their number when the list *)
(* is complete, since that is how they will be freed.                      *)
ExactAsGrown(h, list) == [heap |-> h, list |-> list]

Exact(h, list) ==
    IF list.capacity = list.count THEN [heap |-> h, list |-> list]
    ELSE [heap |-> [h EXCEPT ![list.items].bytes = list.count * Size["Type"]],
          list |-> [list EXCEPT !.capacity = list.count]]

(* expr_new, stmt_new and the assignments after it: a node takes over what *)
(* the functions below have made for it.                                   *)
Fits(part, piece) ==
    \/ piece.sort = part
    \/ part = "expr?" /\ piece.sort = "expr"
    \/ part = "stmt?" /\ piece.sort = "stmt"

Fill(shape, absent, pieces) ==
    [i \in DOMAIN shape |->
        IF i \in absent THEN Nothing
        ELSE pieces[i - Cardinality({j \in absent : j < i})]]

Made(h, kind, parts) == (Fresh(h) :> [node |-> kind, parts |-> parts, bytes |-> NodeSize(kind)]) @@ h

NodeNew(kind) ==
    /\ phase = "parse" /\ HasRoom(1)
    /\ LET shape == Shape[kind]
       IN  \E absent \in SUBSET {i \in DOMAIN shape : shape[i] \in Optional} :
             LET n     == Len(shape) - Cardinality(absent)
                 parts == Fill(shape, absent, SubSeq(held, Len(held) - n + 1, Len(held)))
                 cut   == IF kind \in {"STMT_FUNCTION", "STMT_CLASS"} THEN Exact(heap, parts[2])
                          ELSE [heap |-> heap, list |-> NULL]
                 whole == IF kind \in {"STMT_FUNCTION", "STMT_CLASS"} THEN [parts EXCEPT ![2] = cut.list] ELSE parts
             IN  /\ n < Len(held)
                 /\ \A i \in DOMAIN shape \ absent : Fits(shape[i], parts[i])
                 /\ Build(Made(cut.heap, kind, whole), Append(Below(n), Node(Sort(kind), Fresh(heap))))

(* *list_init.                                                             *)
ListInit ==
    /\ phase = "parse" /\ Len(held) < family.pieces
    /\ \E sort \in {"exprs", "stmts", "cases"} :
          /\ Wanted(sort) \/ (sort = "stmts" /\ Wanted("cases"))
          /\ Build(heap, Append(held, Empty(sort)))

NamesInit ==
    /\ phase = "parse" /\ Len(held) < family.pieces
    /\ Wanted("names")
    /\ Build(heap, held \o <<Empty("names"), Empty("types")>>)

(* exprlist_write, stmtlist_write.                                         *)
ListWrite ==
    /\ phase = "parse" /\ HasRoom(1)
    /\ Len(held) > 1 /\ Top(1).sort \in {"exprs", "stmts"} /\ Top(1).count < MaxLength
    /\ Top(0).sort = (IF Top(1).sort = "exprs" THEN "expr" ELSE "stmt")
    /\ LET w == Write(heap, Top(1), Top(0))
       IN  Build(w.heap, Append(Below(2), w.list))

(* A parameter or field: namelist_write and push_type.                     *)
PushTyped ==
    /\ phase = "parse" /\ HasRoom(2)
    /\ Holds(0, "types") /\ Holds(1, "names") /\ Top(0).count < MaxLength
    /\ LET n == Write(heap, Top(1), Nothing)
           t == Write(n.heap, Top(0), Nothing)
       IN  Build(t.heap, Below(2) \o <<n.list, t.list>>)

(* A case of a switch: its value, unless it is the default, and its body.  *)
CaseWrite ==
    /\ phase = "parse" /\ HasRoom(1) /\ Holds(0, "stmts")
    /\ \/ /\ Holds(1, "cases") /\ Top(1).count < MaxLength
          /\ LET w == Write(heap, Top(1), [value |-> Nothing, body |-> Top(0)])
             IN  Build(w.heap, Append(Below(2), w.list))
       \/ /\ Holds(1, "expr") /\ Holds(2, "cases") /\ Top(2).count < MaxLength
          /\ LET w == Write(heap, Top(2), [value |-> Top(1), body |-> Top(0)])
             IN  Build(w.heap, Append(Below(3), w.list))

(* x++: (x = x + 1) - 1, each 1 a node of its own (postfix). The other     *)
(* desugarings make their nodes one after the other, as NodeNew does.      *)
PostfixOnOneTarget ==
    /\ phase = "parse" /\ "x++" \in family.kinds /\ HasRoom(4) /\ Holds(0, "expr")
    /\ LET one   == Made(heap, "EXPR_LITERAL", <<>>)
           sum   == Made(one, "EXPR_BINARY", <<Top(0), At(heap)>>)
           store == Made(sum, "EXPR_ASSIGN", <<At(one)>>)
       IN  Build(Made(store, "EXPR_BINARY", <<At(sum), At(heap)>>), Append(Below(1), At(store)))

Postfix ==
    /\ phase = "parse" /\ "x++" \in family.kinds /\ HasRoom(4) /\ Holds(0, "expr")
    /\ LET one   == Made(heap, "EXPR_LITERAL", <<>>)
           sum   == Made(one, "EXPR_BINARY", <<Top(0), At(heap)>>)
           store == Made(sum, "EXPR_ASSIGN", <<At(one)>>)
           again == Made(store, "EXPR_LITERAL", <<>>)
       IN  Build(Made(again, "EXPR_BINARY", <<At(sum), At(store)>>), Append(Below(1), At(again)))

(* parse() is over, whether or not there was an error: what was built is   *)
(* in the list that it was given (free_stmtlist).                          *)
StartFree ==
    /\ phase = "parse" /\ Len(held) = 1
    /\ phase' = "free"
    /\ todo' = <<held[1]>> /\ held' = <<>>
    /\ UNCHANGED <<family, heap, bytes, wrong>>

(* FREE, FREE_ARRAY: the size is what the caller says it was.              *)
Free(at, size) == [sort |-> "memory", at |-> at, bytes |-> size]

(* What is given back for the array of a list.                             *)
FreeArray(list) ==
    Free(list.items, (IF list.sort = "types" THEN list.count ELSE list.capacity) * ElementSize(list.sort))

Elements(list) == IF list.items = NULL THEN <<>> ELSE heap[list.items].elements

CasesWithoutValues(list) == FlattenSeq([i \in 1 .. list.count |-> <<Elements(list)[i].body>>])
Cases(list) == FlattenSeq([i \in 1 .. list.count |-> <<Elements(list)[i].value, Elements(list)[i].body>>])

(* free_stmtlist and the loops over arguments, elements, cases and names.  *)
FreeList(list) ==
    (CASE list.sort = "cases" -> Cases(list)
       [] list.sort \in {"exprs", "stmts"} -> SubSeq(Elements(list), 1, list.count)
       [] OTHER -> <<>>)
    \o <<FreeArray(list)>>

(* free_expr, free_stmt: first what the node owns, then the node.          *)
FreeNode(at) == heap[at].parts \o <<Free(at, NodeSize(heap[at].node))>>

FreeNext ==
    /\ phase = "free" /\ todo # <<>>
    /\ LET piece == Head(todo)
           Goes(first) == todo' = first \o Tail(todo)
       IN  IF piece.sort \in Lists
           THEN /\ IF piece.items # NULL /\ piece.items \notin DOMAIN heap
                   THEN wrong' = TRUE /\ todo' = <<>>
                   ELSE Goes(FreeList(piece)) /\ UNCHANGED wrong
                /\ UNCHANGED <<heap, bytes>>
           ELSE IF piece.at = NULL THEN Goes(<<>>) /\ UNCHANGED <<heap, bytes, wrong>>
           ELSE IF piece.at \notin DOMAIN heap THEN wrong' = TRUE /\ todo' = <<>> /\ UNCHANGED <<heap, bytes>>
           ELSE IF piece.sort = "memory"
           THEN /\ Goes(<<>>)
                /\ heap' = [a \in DOMAIN heap \ {piece.at} |-> heap[a]]
                /\ bytes' = bytes - piece.bytes
                /\ wrong' = (wrong \/ piece.bytes # heap[piece.at].bytes)
           ELSE Goes(FreeNode(piece.at)) /\ UNCHANGED <<heap, bytes, wrong>>
    /\ UNCHANGED <<family, held, phase>>

Next == \/ \E kind \in DOMAIN Shape \cap family.kinds : NodeNew(kind)
        \/ ListInit \/ NamesInit \/ ListWrite \/ PushTyped \/ CaseWrite \/ Postfix
        \/ StartFree \/ FreeNext

Spec == Init /\ [][Next]_vars

-----------------------------------------------------------------------------
Refs(piece) ==
    CASE piece.sort \in Lists -> IF piece.items = NULL THEN <<>> ELSE <<piece.items>>
      [] OTHER -> IF piece.at = NULL THEN <<>> ELSE <<piece.at>>

Inside(block) ==
    IF "node" \in DOMAIN block THEN FlattenSeq([i \in DOMAIN block.parts |-> Refs(block.parts[i])])
    ELSE FlattenSeq([i \in DOMAIN block.elements |->
           LET e == block.elements[i]
           IN  IF "value" \in DOMAIN e THEN Refs(e.value) \o Refs(e.body) ELSE Refs(e)])

(* While the tree is built each node and array is named by exactly one     *)
(* pointer, of another node, an array or a parser function (parser.c:392): *)
(* no rewriting of x++ or x += 1 may use a node twice, or lose one, after  *)
(* errors either.                                                          *)
EachHasOneOwner ==
    phase = "parse" =>
        LET all == FlattenSeq([i \in DOMAIN held |-> Refs(held[i])])
                   \o FlattenSeq([a \in 1 .. Cardinality(DOMAIN heap) |-> Inside(heap[a])])
        IN  Len(all) = Cardinality(DOMAIN heap) /\ Range(all) = DOMAIN heap

(* Each is given back once, with the size it has then: the types of        *)
(* parameters by their number, because they were cut to it (parser.c:603), *)
(* and the rest by capacity.                                               *)
GivenBackAsItWas == ~wrong

(* The walk leaves nothing, and the collector's count of bytes is where it *)
(* was: it would otherwise drift with every program evaluated (ast.c:143). *)
NothingIsLeft == phase = "free" /\ todo = <<>> => heap = <<>> /\ bytes = 0
=============================================================================
