------------------------------ MODULE Compiler ------------------------------
(***************************************************************************)
(* The compiler (compiler.c) and the checker's scopes (typecheck.c) on     *)
(* every program of bounded nesting. Both walk the same tree; the model    *)
(* makes it up as it goes. An instruction is what it does to the height of *)
(* the value stack: `depths' holds the heights, counted from the slots of  *)
(* the frame, with which execution can reach the code emitted next. It is  *)
(* {} where nothing falls through. A local is read at a fixed slot, so the *)
(* program is compiled right only if that is one height, the number of     *)
(* locals and temporaries the compiler counts on.                          *)
(***************************************************************************)
EXTENDS Integers, SequencesExt

CONSTANTS
    Names,       \* the names that variables are given
    MaxLocals,   \* MAX_LOCALS
    MaxBreaks,   \* MAX_BREAKS
    MaxArgs,     \* the largest operand count that fits its byte
    MaxCases,    \* bound: the cases of a switch that have a value
    Programs,    \* bound: the constructs that programs are made of, and how
                 \* deep they nest at each level of functions
    Behaviours,  \* what programs do besides, a subset of AllBehaviours
    NULL,
    This         \* the name `this'

Kinds == {"expr", "var", "operands", "logical", "print", "return", "block",
          "if", "while", "for", "do", "switch", "class"}

AllBehaviours == {"case_declarations", "local_functions", "long_switch"}

ASSUME CompilerAssumption ==
    /\ MaxLocals \in Nat \ {0}
    /\ {MaxBreaks, MaxArgs, MaxCases} \subseteq Nat
    /\ \A p \in Programs : p.kinds \subseteq Kinds /\ p.nesting \in Seq(Nat) \ {<<>>}
    /\ Behaviours \subseteq AllBehaviours
    /\ {NULL, This} \cap Names = {} /\ NULL \notin {This, "none", "script"}

VARIABLES
    functions,   \* the chain of Compilers; the last one is current
    vars,        \* the checker's variables; a global counts as unresolved
    checkDepth,  \* tc.depth
    hadError,
    program,     \* the kind of program that is compiled, in Programs
    astray,      \* a jump was emitted whose distance does not fit its operand
    result       \* what compile_program returned: "script", NULL or "none" yet

cvars == <<functions, vars, checkDepth, hadError, program, astray, result>>

(* What the compiler is about to do: compile a declaration or statement of *)
(* a list, a statement, the first clause of a for, a method, an expression;*)
(* or go on after an expression or after a statement.                      *)
Todo == {"decl", "stmt", "init", "method", "expr", "value", "done"}

(* A call of compile_* in progress, with the labels it has open.           *)
Construct == [kind: Kinds,
              stage: {"", "cond", "incr", "then", "else", "left", "right", "body",
                      "loop", "disc", "test", "case", "bodies", "default"},
              name: Names \cup {NULL},
              count: Nat,             \* operands evaluated, or cases left
              pops: Nat,              \* what the instruction will pop
              last: Nat,              \* operands in all
              base: Nat,              \* localBase
              exit: SUBSET Int,       \* heights at the forward jump
              bodies: SUBSET Int,     \* heights at the jumps to case bodies
              breaks: SUBSET Int,     \* heights at the jumps of breaks
              breakCount: Nat,
              arrivals: SUBSET Int]   \* heights at the loop's start

Open(kind, stage) ==
    [kind |-> kind, stage |-> stage, name |-> NULL, count |-> 0, pops |-> 0,
     last |-> 0, base |-> 0, exit |-> {}, bodies |-> {}, breaks |-> {},
     breakCount |-> 0, arrivals |-> {}]

Current == Last(functions)
Level == Len(functions)
Top == IF Current.open = <<>> THEN Open("none", "") ELSE Last(Current.open)
At(kind, stage, todo) == Current.todo = todo /\ Top.kind = kind /\ Top.stage = stage

(* The code still to be compiled is in a loop's or a switch's body.        *)
IsLoop(c) == c.kind \in {"while", "for", "do"} /\ c.stage \in {"cond", "body", "loop"}
IsTrap(c) == IsLoop(c) \/ (c.kind = "switch" /\ c.stage # "disc")

Script ==
    [locals |-> <<[name |-> NULL, depth |-> 0]>>, scopeDepth |-> 0, open |-> <<>>,
     depths |-> {1}, todo |-> "decl"]

Init ==
    /\ functions = <<Script>>
    /\ vars = <<>>
    /\ checkDepth = 0
    /\ hadError = FALSE
    /\ program \in Programs
    /\ astray = FALSE
    /\ result = "none"

----------------------------------------------------------------------------
(* Emitting. A forward jump is patched, and a backward one computed, when  *)
(* its distance is known: it may be too far for sixteen bits.              *)
Pushed(depths, n) == {d + n : d \in depths}
Popped(depths, n) == {d - n : d \in depths}

NoJump == UNCHANGED <<hadError, astray>>
Error  == hadError' = TRUE /\ UNCHANGED astray

PatchJump ==
    \E far \in BOOLEAN :
       /\ astray' = (astray \/ far)
       /\ hadError' = (hadError \/ far)

(* Mutant: the distance is written whatever it is.                         *)
EmitLoopUnchecked ==
    \E far \in BOOLEAN : astray' = (astray \/ far) /\ UNCHANGED hadError
EmitLoop ==
    \E far \in BOOLEAN :
       /\ astray' = (astray \/ far)
       /\ hadError' = (hadError \/ far)

(* The jump to the default body is written without that check.             *)
PatchDefault ==
    \E far \in BOOLEAN :
       /\ far => "long_switch" \in Behaviours
       /\ astray' = (astray \/ far)
       /\ UNCHANGED hadError

----------------------------------------------------------------------------
(* Scopes, of the compiler and of the checker.                             *)
AddLocal(f, name) ==
    [f EXCEPT !.locals = Append(@, [name |-> name, depth |-> f.scopeDepth])]
(* Mutant: one local more than the array holds.                            *)
FullOneLater(f) == Len(f.locals) > MaxLocals
Full(f) == Len(f.locals) >= MaxLocals

BeginScope(f) == [f EXCEPT !.scopeDepth = @ + 1]

(* What goes are the last entries, up to one of a scope further out.       *)
Kept(list, depth) == Max({0} \cup {i \in DOMAIN list : list[i].depth < depth})
EndScope(f) ==
    [f EXCEPT !.scopeDepth = @ - 1,
              !.locals = SubSeq(@, 1, Kept(@, f.scopeDepth)),
              !.depths = Popped(@, Len(f.locals) - Kept(f.locals, f.scopeDepth))]

BeginCheckScope == checkDepth' = checkDepth + 1 /\ UNCHANGED vars
EndCheckScope ==
    /\ checkDepth' = checkDepth - 1
    /\ vars' = SubSeq(vars, 1, Kept(vars, checkDepth))
SameScope == UNCHANGED <<vars, checkDepth>>

(* declare_var, with the level and the slot that the variable lies at. At  *)
(* depth 0 it is a global, which is what an unresolved name is as well.    *)
Declared(list, name, depth, slot, level) ==
    IF depth = 0 THEN list
    ELSE Append(list, [name |-> name, depth |-> depth, level |-> level, slot |-> slot])

(* The innermost entry of that name, 0 if there is none.                   *)
Innermost(list, name) ==
    LET found == {i \in DOMAIN list : list[i].name = name}
    IN  IF found = {} THEN 0 ELSE Max(found)

(* Mutant: the search starts at the first local.                           *)
ResolveOutermost(f, name) ==
    LET found == {i \in DOMAIN f.locals : f.locals[i].name = name}
    IN  IF found = {} THEN 0 ELSE Min(found)
ResolveLocal(f, name) == Innermost(f.locals, name)
ResolveVar(name) == Innermost(vars, name)

----------------------------------------------------------------------------
(* One step of the current function, and the changes it makes: a construct *)
(* begins, goes on with the emission at some heights, or ends. A statement *)
(* is followed by the next one of its list, if it stands in one.           *)
Set(f) == functions' = [functions EXCEPT ![Level] = f] /\ UNCHANGED result

Emit(f)         == Set(f) /\ NoJump /\ SameScope
EmitPatching(f) == Set(f) /\ PatchJump /\ SameScope
EmitLooping(f)  == Set(f) /\ EmitLoop /\ SameScope

InList(f, level) ==
    IF f.open = <<>> THEN level = 1
    ELSE \/ Last(f.open).kind = "block"
         \/ Last(f.open).kind = "switch" /\ Last(f.open).stage \in {"bodies", "default"}
AfterStatement(f) == [f EXCEPT !.todo = IF InList(f, Level) THEN "decl" ELSE "done"]

Enter(c, todo) == [Current EXCEPT !.open = Append(@, c), !.todo = todo]
GoOn(c, depths, todo) ==
    [Current EXCEPT !.open = Append(Front(@), c), !.depths = depths, !.todo = todo]
Left(depths) == [Current EXCEPT !.open = Front(@), !.depths = depths]
End(depths) == AfterStatement(Left(depths))

Heights == Current.depths
CanOpen(kind) == kind \in program.kinds /\ Len(Current.open) < program.nesting[Level]
Statement == Current.todo \in {"decl", "stmt"}
Begins(kind) == Statement /\ CanOpen(kind)
ExprBegins(kind) == Current.todo = "expr" /\ CanOpen(kind)

----------------------------------------------------------------------------
(* Expressions. The pool of constants may be full.                         *)
Leaf ==
    /\ Current.todo = "expr"
    /\ Set([Current EXCEPT !.depths = Pushed(@, 1), !.todo = "value"])
    /\ NoJump \/ Error
    /\ SameScope

(* An instruction with operands: compile_unary, _assign and _field have    *)
(* one, compile_binary, _index and _field_set two, compile_index_set three.*)
Operator ==
    /\ ExprBegins("operands")
    /\ \E n \in 1 .. 3 :
          Emit(Enter([Open("operands", "") EXCEPT !.last = n, !.pops = n], "expr"))

(* A call pops its callee or receiver too, an array literal does not. The  *)
(* number of operands is emitted in a byte.                                *)
CountByte(n) == n % (MaxArgs + 1)
CheckCount(n) == IF n > MaxArgs THEN Error ELSE NoJump
Counted ==
    /\ ExprBegins("operands")
    /\ \E n \in 0 .. MaxArgs + 1, callee \in 0 .. 1 :
          /\ n + callee > 0
          /\ CheckCount(n)
          /\ Set(Enter([Open("operands", "") EXCEPT
                          !.last = n + callee, !.pops = CountByte(n) + callee], "expr"))
    /\ SameScope

Operand ==
    /\ At("operands", "", "value")
    /\ Emit(IF Top.count + 1 < Top.last
            THEN GoOn([Top EXCEPT !.count = @ + 1], Heights, "expr")
            ELSE [Left(Pushed(Popped(Heights, Top.pops), 1)) EXCEPT !.todo = "value"])

Logical ==
    /\ ExprBegins("logical")
    /\ Emit(Enter(Open("logical", "left"), "expr"))
LogicalLeft ==
    /\ At("logical", "left", "value")
    /\ Emit(GoOn([Top EXCEPT !.stage = "right", !.exit = Heights], Popped(Heights, 1), "expr"))
LogicalRight ==
    /\ At("logical", "right", "value")
    /\ EmitPatching(Left(Heights \cup Top.exit))

----------------------------------------------------------------------------
(* Statements without a body.                                              *)
ExprStmt ==
    /\ Statement \/ Current.todo = "init"
    /\ CanOpen("expr")
    /\ Emit(Enter(Open("expr", ""), "expr"))
ExprStmtEnds ==
    /\ At("expr", "", "value")
    /\ Emit(End(Popped(Heights, 1)))

(* The parser takes declarations in the body of a case too; a variable     *)
(* there is not compiled right (docs/SYNTAX.md:347).                       *)
CanDeclare ==
    \/ Current.todo = "init"
    \/ Current.todo = "decl" /\ Top.kind \in {"none", "block"}
    \/ Current.todo = "decl" /\ "case_declarations" \in Behaviours

Var ==
    /\ CanDeclare /\ CanOpen("var")
    /\ \E name \in Names : Emit(Enter([Open("var", "") EXCEPT !.name = name], "expr"))
VarEnds ==
    /\ At("var", "", "value")
    /\ IF Current.scopeDepth = 0 THEN Set(End(Popped(Heights, 1))) /\ NoJump
       ELSE IF Full(Current) THEN Set(End(Heights)) /\ Error
       ELSE Set(AddLocal(End(Heights), Top.name)) /\ NoJump
    /\ vars' = Declared(vars, Top.name, checkDepth, Len(Current.locals) + 1, Level)
    /\ UNCHANGED checkDepth

(* print takes its arguments from the stack and leaves nothing.            *)
PrintStmt ==
    /\ Begins("print")
    /\ \E n \in 0 .. MaxArgs + 1 :
          /\ CheckCount(n)
          /\ Set(IF n = 0 THEN AfterStatement(Current)
                 ELSE Enter([Open("print", "") EXCEPT !.last = n, !.pops = CountByte(n)], "expr"))
    /\ SameScope
PrintOperand ==
    /\ At("print", "", "value")
    /\ Emit(IF Top.count + 1 < Top.last
            THEN GoOn([Top EXCEPT !.count = @ + 1], Heights, "expr")
            ELSE End(Popped(Heights, Top.pops)))

Return == Begins("return") /\ Emit(Enter(Open("return", ""), "expr"))
ReturnEnds == At("return", "", "value") /\ Emit(End({}))

(* break and continue pop the locals declared since the body began and     *)
(* leave the compiler's own count of locals alone.                         *)
BreakTargets    == {i \in DOMAIN Current.open : IsTrap(Current.open[i])}
ContinueTargets == {i \in DOMAIN Current.open : IsLoop(Current.open[i])}

PopTo(base) == Popped(Heights, Len(Current.locals) - base)
JumpAway(f) == AfterStatement([f EXCEPT !.depths = {}])

BreakTo(i) ==
    LET loop == Current.open[i]
    IN  IF loop.breakCount >= MaxBreaks THEN Set(AfterStatement(Current)) /\ Error
        ELSE /\ Set(JumpAway([Current EXCEPT !.open[i].breaks = @ \cup PopTo(loop.base),
                                             !.open[i].breakCount = @ + 1]))
             /\ NoJump
Break ==
    /\ Statement
    /\ IF BreakTargets = {} THEN Set(AfterStatement(Current)) /\ Error
       ELSE BreakTo(Max(BreakTargets))
    /\ SameScope

(* Mutant: the locals of a switch that is left are kept.                   *)
ContinueToFromInnermost(i) ==
    /\ Set(JumpAway([Current EXCEPT
                !.open[i].arrivals = @ \cup PopTo(Current.open[Max(BreakTargets)].base)]))
    /\ EmitLoop
ContinueTo(i) ==
    /\ Set(JumpAway([Current EXCEPT
                !.open[i].arrivals = @ \cup PopTo(Current.open[i].base)]))
    /\ EmitLoop
Continue ==
    /\ Statement
    /\ IF ContinueTargets = {} THEN Set(AfterStatement(Current)) /\ Error
       ELSE ContinueTo(Max(ContinueTargets))
    /\ SameScope

----------------------------------------------------------------------------
(* Blocks and branches.                                                    *)
Block ==
    /\ Begins("block")
    /\ Set(BeginScope(Enter(Open("block", ""), "decl")))
    /\ BeginCheckScope /\ NoJump
BlockEnds ==
    /\ At("block", "", "decl")
    /\ Set(EndScope(End(Heights)))
    /\ EndCheckScope /\ NoJump

If == Begins("if") /\ Emit(Enter(Open("if", "cond"), "expr"))
IfThen ==
    /\ At("if", "cond", "value")
    /\ Emit(GoOn([Top EXCEPT !.stage = "then", !.exit = Heights], Popped(Heights, 1), "stmt"))
(* The else branch may be absent: then the code that pops the condition is *)
(* all there is to it.                                                     *)
IfElse ==
    /\ At("if", "then", "done")
    /\ \E todo \in {"stmt", "done"} :
          EmitPatching(GoOn([Top EXCEPT !.stage = "else", !.exit = Heights],
                            Popped(Top.exit, 1), todo))
IfEnds == At("if", "else", "done") /\ EmitPatching(End(Heights \cup Top.exit))

----------------------------------------------------------------------------
(* Loops. `arrivals' are the heights with which control comes to the start *)
(* of the loop, `exit' those with which the condition leaves it.           *)
BeginLoop(c, stage) ==
    [c EXCEPT !.stage = stage, !.base = Len(Current.locals), !.arrivals = Heights]
Looped(heights) == [Top EXCEPT !.stage = "loop", !.arrivals = @ \cup heights]
AfterLoop == Popped(Top.exit, 1) \cup Top.breaks

While == Begins("while") /\ Emit(Enter(BeginLoop(Open("while", ""), "cond"), "expr"))
WhileBody ==
    /\ At("while", "cond", "value")
    /\ Emit(GoOn([Top EXCEPT !.stage = "body", !.exit = Heights], Popped(Heights, 1), "stmt"))
Repeat ==
    /\ At("while", "body", "done") \/ At("for", "body", "done")
    /\ EmitLooping(GoOn(Looped(Heights), {}, "done"))
WhileEnds == At("while", "loop", "done") /\ EmitPatching(End(AfterLoop))

DoWhile == Begins("do") /\ Emit(Enter(BeginLoop(Open("do", ""), "body"), "stmt"))
DoWhileCond ==
    /\ At("do", "body", "done")
    /\ Emit(GoOn([Top EXCEPT !.stage = "cond"], Heights, "expr"))
DoWhileRepeats ==
    /\ At("do", "cond", "value")
    /\ EmitLooping(GoOn([Looped(Popped(Heights, 1)) EXCEPT !.exit = Heights], {}, "done"))
DoWhileEnds == At("do", "loop", "done") /\ EmitPatching(End(AfterLoop))

For ==
    /\ Begins("for")
    /\ \E todo \in {"init", "done"} :
          /\ todo = "init" => Len(Current.open) + 1 < program.nesting[Level]
          /\ Set(BeginScope(Enter(Open("for", ""), todo)))
    /\ BeginCheckScope /\ NoJump
(* Without a condition nothing jumps to the exit.                          *)
ForCond ==
    /\ At("for", "", "done")
    /\ \/ Emit(GoOn(BeginLoop(Top, "cond"), Heights, "expr"))
       \/ Emit(GoOn(BeginLoop(Top, "incr"), Heights, "done"))
ForExit ==
    /\ At("for", "cond", "value")
    /\ Emit(GoOn([Top EXCEPT !.stage = "incr", !.exit = Heights], Popped(Heights, 1), "done"))
(* The increment is emitted before the body, which jumps over it: it is    *)
(* entered from the end of the body and from continue, with the height     *)
(* that LoopsKeepTheirBase has of them all.                                *)
ForIncr ==
    /\ At("for", "incr", "done")
    /\ \/ Emit(GoOn([Top EXCEPT !.bodies = Heights], Heights, "expr"))
       \/ Emit(GoOn([Top EXCEPT !.stage = "body"], Heights, "stmt"))
ForIncrEnds ==
    /\ At("for", "incr", "value")
    /\ EmitLooping(GoOn([Top EXCEPT !.stage = "body",
                                    !.arrivals = @ \cup Popped(Heights, 1)],
                        Top.bodies, "stmt"))
ForEnds ==
    /\ At("for", "loop", "done")
    /\ Set(EndScope(End(AfterLoop)))
    /\ EndCheckScope /\ PatchJump

----------------------------------------------------------------------------
(* The switch. The discriminant is a local without a name; each test       *)
(* compares a copy of it and jumps to its body. Bodies fall through.       *)
Switch ==
    /\ Begins("switch")
    /\ Emit(BeginScope(Enter(Open("switch", "disc"), "expr")))
SwitchTests ==
    /\ At("switch", "disc", "value")
    /\ LET f == IF Full(Current) THEN Current ELSE AddLocal(Current, NULL)
           c == [Top EXCEPT !.stage = "test", !.base = Len(f.locals)]
       IN  Set([GoOn(c, Heights, "done") EXCEPT !.locals = f.locals])
    /\ IF Full(Current) THEN Error ELSE NoJump
    /\ BeginCheckScope
Test ==
    /\ At("switch", "test", "done")
    /\ Top.count < MaxCases
    /\ Emit(GoOn([Top EXCEPT !.stage = "case"], Pushed(Heights, 1), "expr"))
(* The comparison leaves one value, which both its outcomes pop.           *)
TestEnds ==
    /\ At("switch", "case", "value")
    /\ LET after == Popped(Pushed(Popped(Heights, 2), 1), 1)
       IN  EmitPatching(GoOn([Top EXCEPT !.stage = "test", !.count = @ + 1,
                                         !.bodies = @ \cup after], after, "done"))
Bodies ==
    /\ At("switch", "test", "done")
    /\ Emit(GoOn([Top EXCEPT !.stage = "bodies", !.exit = Heights], {}, "decl"))
CaseBody ==
    /\ Current.todo = "decl" /\ Top.kind = "switch" /\ Top.count > 0
    /\ EmitPatching(GoOn([Top EXCEPT !.count = @ - 1], Heights \cup Top.bodies, "decl"))
DefaultBody ==
    /\ At("switch", "bodies", "decl")
    /\ Set(GoOn([Top EXCEPT !.stage = "default"], Heights \cup Top.exit, "decl"))
    /\ PatchDefault /\ SameScope
SwitchEnds ==
    /\ Current.todo = "decl" /\ Top.kind = "switch" /\ Top.count = 0
    /\ LET noMatch == IF Top.stage = "bodies" THEN Top.exit ELSE {}
       IN  Set(EndScope(End(Heights \cup noMatch \cup Top.breaks)))
    /\ EndCheckScope /\ PatchJump

----------------------------------------------------------------------------
(* Functions and classes. A function compiles to a constant that is        *)
(* defined as a global: the stack of the code around it ends as it was.    *)
Params == {<<>>} \cup {<<n>> : n \in Names}

NewFunction(slot0, params) ==
    [locals |-> <<[name |-> slot0, depth |-> 0]>>
                \o [i \in {j \in DOMAIN params : j < MaxLocals} |->
                      [name |-> params[i], depth |-> 1]],
     scopeDepth |-> 2, open |-> <<Open("block", "")>>,
     depths |-> {Len(params) + 1}, todo |-> "decl"]

(* The body is a block in the scope of the parameters. The checker has     *)
(* `this' as a variable of that scope, the compiler as the name of slot 0. *)
Begin(slot0, params, parent) ==
    LET declared == (IF slot0 = NULL THEN <<>>
                     ELSE <<[name |-> slot0, depth |-> checkDepth + 1,
                             level |-> Level + 1, slot |-> 1]>>)
                    \o [i \in DOMAIN params |->
                          [name |-> params[i], depth |-> checkDepth + 1,
                           level |-> Level + 1, slot |-> i + 1]]
    IN  /\ functions' = Append([functions EXCEPT ![Level] = parent],
                               NewFunction(slot0, params))
        /\ vars' = vars \o declared
        /\ checkDepth' = checkDepth + 2
        /\ IF Len(params) + 1 > MaxLocals THEN Error ELSE NoJump
        /\ UNCHANGED result

(* Without local_functions, no variable of a function around it is in the  *)
(* checker's scope.                                                        *)
CanNest ==
    /\ Level < Len(program.nesting)
    /\ vars = <<>> \/ "local_functions" \in Behaviours

Function ==
    /\ CanDeclare /\ Current.todo = "decl" /\ CanNest
    /\ \E params \in Params : Begin(NULL, params, AfterStatement(Current))

Class ==
    /\ CanDeclare /\ Current.todo = "decl" /\ CanNest /\ CanOpen("class")
    /\ Emit(Enter(Open("class", ""), "method"))
Method ==
    /\ At("class", "", "method")
    /\ \E params \in Params : Begin(This, params, Current)
ClassEnds ==
    /\ At("class", "", "method")
    /\ Emit(End(Heights))

FunctionEnds ==
    /\ Level > 1
    /\ Current.open = <<>>
    /\ functions' = Front(functions)
    /\ EndCheckScope /\ NoJump
    /\ UNCHANGED result

(* A program with an error is compiled to its end and thrown away.         *)
Finish ==
    /\ functions' = <<>>
    /\ result' = IF hadError THEN NULL ELSE "script"
    /\ UNCHANGED <<vars, checkDepth, hadError, astray>>
ScriptEnds == Level = 1 /\ Current.open = <<>> /\ Finish
Discard == hadError /\ Finish

CompileProgram ==
    /\ functions = <<>>
    /\ functions' = <<Script>>
    /\ vars' = <<>>
    /\ checkDepth' = 0
    /\ hadError' = FALSE
    /\ astray' = FALSE
    /\ result' = "none"

----------------------------------------------------------------------------
Expression == Leaf \/ Operator \/ Counted \/ Operand \/ Logical \/ LogicalLeft \/ LogicalRight

Simple ==
    \/ ExprStmt \/ ExprStmtEnds \/ Var \/ VarEnds \/ PrintStmt \/ PrintOperand
    \/ Return \/ ReturnEnds \/ Break \/ Continue

Compound ==
    \/ Block \/ BlockEnds \/ If \/ IfThen \/ IfElse \/ IfEnds
    \/ While \/ WhileBody \/ Repeat \/ WhileEnds
    \/ DoWhile \/ DoWhileCond \/ DoWhileRepeats \/ DoWhileEnds
    \/ For \/ ForCond \/ ForExit \/ ForIncr \/ ForIncrEnds \/ ForEnds
    \/ Switch \/ SwitchTests \/ Test \/ TestEnds
    \/ Bodies \/ CaseBody \/ DefaultBody \/ SwitchEnds

Next ==
    /\ \/ /\ functions # <<>> /\ ~hadError
          /\ \/ Expression \/ Simple \/ Compound
             \/ Function \/ FunctionEnds \/ Class \/ Method \/ ClassEnds \/ ScriptEnds
       \/ functions # <<>> /\ Discard
       \/ CompileProgram
    /\ UNCHANGED program

Spec == Init /\ [][Next]_cvars

----------------------------------------------------------------------------
(* The compiler's tables stay within their arrays.                         *)
TypeOK ==
    /\ \A l \in DOMAIN functions :
          LET f == functions[l]
          IN  /\ Len(f.locals) <= MaxLocals
              /\ \A i \in DOMAIN f.locals :
                    f.locals[i] \in [name: Names \cup {NULL, This}, depth: 0 .. f.scopeDepth]
              /\ \A i \in DOMAIN f.open :
                    f.open[i] \in Construct /\ f.open[i].breakCount <= MaxBreaks
              /\ f.todo \in Todo
    /\ vars \in Seq([name: Names \cup {This}, depth: Nat, level: Nat, slot: Nat])
    /\ checkDepth \in Nat
    /\ {hadError, astray} \subseteq BOOLEAN
    /\ result \in {"none", "script", NULL}

(* The height a place in the program has: the locals, each at its slot, and *)
(* the temporaries of the expressions in progress.                         *)
Temporaries(c) ==
    IF c.kind \in {"operands", "print"} THEN c.count
    ELSE IF c.stage = "case" THEN 1 ELSE 0
StaticDepth(f) ==
    LET upTo[i \in 0 .. Len(f.open)] ==
            IF i = 0 THEN Len(f.locals) ELSE upTo[i - 1] + Temporaries(f.open[i])
    IN  upTo[Len(f.open)] + (IF f.todo = "value" THEN 1 ELSE 0)

LoopsKeepTheirBase(f) ==
    \A i \in DOMAIN f.open : f.open[i].arrivals \subseteq {f.open[i].base}

(* Every instruction of a program without errors is reached with the height *)
(* its place says, on every path through branches, loops, breaks and       *)
(* falling cases; and whatever comes back to the start of a loop, from the *)
(* end of its body or from a continue inside switches and blocks, finds    *)
(* the stack as high as when the loop was entered.                         *)
DepthIsStatic ==
    ~hadError => \A l \in DOMAIN functions :
                    /\ functions[l].depths \subseteq {StaticDepth(functions[l])}
                    /\ LoopsKeepTheirBase(functions[l])

(* A program is handed out only if every jump in it lands at its label.    *)
ShippedJumpsArrive == result = "script" => ~astray

(* The checker and the compiler mean the same variable by every name, so   *)
(* that the static types the checker goes by (and rejects programs for,    *)
(* types.h:4-6) are the types of the values the code works on.             *)
NamesAgree ==
    (functions # <<>> /\ ~hadError) =>
       \A name \in Names \cup {This} :
          LET slot == ResolveLocal(Current, name)
              i    == ResolveVar(name)
          IN  IF slot = 0 THEN i = 0
              ELSE i # 0 /\ vars[i].level = Level /\ vars[i].slot = slot
=============================================================================
