------------------------------ MODULE Checker ------------------------------
(***************************************************************************)
(* The checker's registries (typecheck.c): which functions, classes and    *)
(* natives a program may call, with how many arguments, and which function *)
(* a return belongs to. Variables are in scope as in Compiler; the types   *)
(* of values are in Operators, and unknown here: only the number of        *)
(* arguments can be wrong.                                                 *)
(***************************************************************************)
EXTENDS Integers, SequencesExt, FiniteSetsExt

CONSTANTS
    Programs,       \* bound: the top-level functions and classes of each program:
                    \* sequences of [kind, name, arity, ret, body]
    Nested,         \* bound: the functions declared inside others
    VariableNames,  \* bound: the names of variables and parameters
    MaxArgs,        \* bound: the arguments of a call
    MaxVars,        \* bound: the variables in scope, beside the program's declarations
    MaxDepth,       \* bound: the scopes open at once
    CoreNatives,    \* BK_NATIVE_CORE_LIST
    HostedNatives,  \* BK_NATIVE_HOSTED_ONLY_LIST
    HostNatives     \* those the embedding program registered with this VM

(* Of the constants; the modules that give them values assume it.           *)
CheckerAssumption ==
    /\ {MaxArgs, MaxVars, MaxDepth} \subseteq Nat
    /\ \A p \in Programs : \A i \in DOMAIN p : p[i].kind \in {"function", "class"}
    /\ \A f \in Nested : f.kind = "function"
    /\ CoreNatives \cap HostedNatives = {}

VARIABLES
    program, freestanding,  \* what typecheck_with_profile is given
    next,            \* the top-level declaration walked next
    funcs, classes,  \* tc.funcs, tc.classes: name |-> declaration
    vars,            \* the names in scope: [name, depth, what]
    depth,           \* tc.depth
    currentReturn,   \* tc.currentReturn
    open,            \* the scopes being walked: [kind, ret, saved]
    hadError,        \* tc.hadError
    answer           \* what check_call said last: [name, argc, ok]

checker == <<program, freestanding, next, funcs, classes, vars, depth, currentReturn, open,
             hadError, answer>>

Names == UNION {{p[i].name : i \in DOMAIN p} : p \in Programs} \cup {f.name : f \in Nested}
         \cup VariableNames \cup CoreNatives \cup HostedNatives \cup HostNatives

(* A native may be called with any arguments.                              *)
Variadic == [kind |-> "native", arity |-> 0, ret |-> "UNKNOWN"]
Signature(f) == [kind |-> "function", arity |-> f.arity, ret |-> f.ret]

RegisterNatives(profile) ==
    [n \in CoreNatives \cup HostNatives \cup (IF profile THEN {} ELSE HostedNatives) |-> Variadic]

(* register_func, register_class: the first declaration of a name stays.   *)
RegisterLast(registry, name, decl) == (name :> decl) @@ registry
Register(registry, name, decl) ==
    IF name \in DOMAIN registry THEN registry ELSE (name :> decl) @@ registry

(* The pre-pass: calls may come before what they call.                     *)
Registered(registry, p, kind) ==
    FoldLeft(LAMBDA r, d : IF d.kind = kind THEN Register(r, d.name, Signature(d)) ELSE r,
             registry, p)

-----------------------------------------------------------------------------
Init ==
    /\ program \in Programs
    /\ freestanding \in BOOLEAN
    /\ next = 1
    /\ funcs = Registered(RegisterNatives(freestanding), program, "function")
    /\ classes = Registered(<<>>, program, "class")
    /\ vars = [i \in DOMAIN program |-> [name |-> program[i].name, depth |-> 0, what |-> program[i]]]
    /\ depth = 0
    /\ currentReturn = "UNKNOWN"
    /\ open = <<>>
    /\ hadError = FALSE
    /\ answer = <<>>

Variable == [kind |-> "variable"]
Var(name, d, what) == [name |-> name, depth |-> d, what |-> what]

BeginScope(kind, ret) ==
    /\ depth < MaxDepth
    /\ open' = Append(open, [kind |-> kind, ret |-> ret, saved |-> currentReturn])
    /\ depth' = depth + 1

(* check_function, check_method: what is declared in the scope around it,  *)
(* `this` and a parameter, and the type its returns are judged by.         *)
BeginFunction(kind, f, name, around) ==
    /\ BeginScope(kind, f.ret)
    /\ vars' = around \o <<Var(name, depth + 1, Variable)>>
    /\ currentReturn' = f.ret

(* A declaration without a body has nothing to check.                      *)
CheckFunction ==
    /\ open = <<>> /\ next <= Len(program)
    /\ program[next].kind = "function"
    /\ next' = next + 1
    /\ IF program[next].body
       THEN \E name \in VariableNames : BeginFunction("function", program[next], name, vars)
       ELSE UNCHANGED <<vars, depth, currentReturn, open>>
    /\ answer' = <<>>
    /\ UNCHANGED <<program, freestanding, funcs, classes, hadError>>

(* A function in another is registered when it is met; it is a local of    *)
(* the one around it, which only the compiler knows (what).                *)
CheckNested ==
    /\ open # <<>> /\ Len(vars) + 1 < MaxVars + Len(program)
    /\ \E f \in Nested, name \in VariableNames :
          /\ BeginFunction("function", f, name, Append(vars, Var(f.name, depth, f)))
          /\ funcs' = Register(funcs, f.name, Signature(f))
    /\ answer' = <<>>
    /\ UNCHANGED <<program, freestanding, next, classes, hadError>>

(* A class whose methods are walked one after the other.                   *)
CheckClass ==
    /\ open = <<>> /\ next <= Len(program)
    /\ program[next].kind = "class"
    /\ next' = next + 1
    /\ classes' = Register(classes, program[next].name, Signature(program[next]))
    /\ open' = <<[kind |-> "class", ret |-> "UNKNOWN", saved |-> currentReturn]>>
    /\ answer' = <<>>
    /\ UNCHANGED <<program, freestanding, funcs, vars, depth, currentReturn, hadError>>

Innermost(kind) == open # <<>> /\ Last(open).kind = kind

CheckMethod ==
    /\ Innermost("class")
    /\ \E ret \in {"UNKNOWN", "SCALAR"} :
          BeginFunction("method", [ret |-> ret], "this", vars)
    /\ answer' = <<>>
    /\ UNCHANGED <<program, freestanding, next, funcs, classes, hadError>>

EndClass ==
    /\ Innermost("class")
    /\ open' = Front(open)
    /\ answer' = <<>>
    /\ UNCHANGED <<program, freestanding, next, funcs, classes, vars, depth, currentReturn, hadError>>

(* A block, a for, a switch.                                               *)
CheckBlock ==
    /\ ~Innermost("class")
    /\ BeginScope("block", currentReturn)
    /\ answer' = <<>>
    /\ UNCHANGED <<program, freestanding, next, funcs, classes, vars, currentReturn, hadError>>

RestoredForFunctions(scope) == IF scope.kind = "function" THEN scope.saved ELSE currentReturn
Restored(scope) == IF scope.kind = "block" THEN currentReturn ELSE scope.saved

EndScope ==
    /\ open # <<>> /\ ~Innermost("class")
    /\ depth' = depth - 1
    /\ vars' = SelectSeq(vars, LAMBDA v : v.depth <= depth')
    /\ currentReturn' = Restored(Last(open))
    /\ open' = Front(open)
    /\ answer' = <<>>
    /\ UNCHANGED <<program, freestanding, next, funcs, classes, hadError>>

DeclareVar ==
    /\ ~Innermost("class") /\ Len(vars) < MaxVars + Len(program)
    /\ \E name \in VariableNames : vars' = Append(vars, Var(name, depth, Variable))
    /\ answer' = <<>>
    /\ UNCHANGED <<program, freestanding, next, funcs, classes, depth, currentReturn, open, hadError>>

AllowedWhenUnknown(name, argc) ==
    CASE name \in DOMAIN classes -> argc <= classes[name].arity
      [] name \in DOMAIN funcs   -> funcs[name].kind = "native" \/ argc = funcs[name].arity
      [] OTHER                   -> TRUE

(* A class is looked up first, then a function; a name that is neither is  *)
(* not rejected, unless it is a native this runtime will not have.         *)
Allowed(name, argc) ==
    CASE name \in DOMAIN classes -> argc <= classes[name].arity
      [] name \in DOMAIN funcs   -> funcs[name].kind = "native" \/ argc = funcs[name].arity
      [] OTHER                   -> ~(freestanding /\ name \in HostedNatives)

CheckCall ==
    /\ ~Innermost("class")
    /\ \E name \in Names, argc \in 0 .. MaxArgs :
          /\ answer' = [name |-> name, argc |-> argc, ok |-> Allowed(name, argc)]
          /\ hadError' = (hadError \/ ~Allowed(name, argc))
    /\ UNCHANGED <<program, freestanding, next, funcs, classes, vars, depth, currentReturn, open>>

(* What is returned is judged by the innermost function's type: scalars    *)
(* convert into each other and not into an instance, nor back; U0 is the   *)
(* unknown type, which takes any value (parser.c:105).                     *)
Returnable(value) == currentReturn \in {"UNKNOWN", value}

CheckReturn ==
    /\ open # <<>> /\ ~Innermost("class")
    /\ \E value \in {"SCALAR", "INSTANCE"} : hadError' = (hadError \/ ~Returnable(value))
    /\ answer' = <<>>
    /\ UNCHANGED <<program, freestanding, next, funcs, classes, vars, depth, currentReturn, open>>

Next == \/ CheckFunction \/ CheckNested \/ CheckClass \/ CheckMethod \/ EndClass
        \/ CheckBlock \/ EndScope \/ DeclareVar \/ CheckCall \/ CheckReturn

Spec == Init /\ [][Next]_checker

-----------------------------------------------------------------------------
(* What a call may find when it runs: a local of that name if there is     *)
(* one, and otherwise the global, which is a native, what a declaration    *)
(* with a body made of it, or what a variable holds, which may be anything.*)
MayWork(name, argc) ==
    LET here == {i \in DOMAIN vars : vars[i].name = name}
        mean == vars[Max(here)]
        Fits(d) == IF d.kind = "class" THEN argc <= d.arity ELSE d.body /\ argc = d.arity
    IN  IF here # {} /\ (mean.depth > 0 \/ mean.what.kind = "variable")
        THEN mean.what.kind = "variable" \/ Fits(mean.what)
        ELSE \/ name \in DOMAIN RegisterNatives(freestanding)
             \/ \E i \in DOMAIN program : program[i].name = name /\ Fits(program[i])

(* A call that is rejected would have failed: a call the pass cannot judge *)
(* is "never wrongly rejected" (typecheck.h:6). Hard to test because the   *)
(* registries outlive scopes and are asked before them (typecheck.c:386).  *)
RejectedCallsFail == answer # <<>> /\ ~answer.ok => ~MayWork(answer.name, answer.argc)

(* In a freestanding build no call is accepted that only a native of the   *)
(* hosted runtime could answer (typecheck.h:19), although a program may    *)
(* declare that name itself.                                               *)
AcceptedCallsExist ==
    freestanding /\ answer # <<>> /\ answer.ok /\ answer.name \in HostedNatives =>
        answer.name \in HostNatives \/ \E i \in DOMAIN vars : vars[i].name = answer.name

(* A return is judged by the type of the function it returns from, behind  *)
(* nested functions, methods and blocks (typecheck.c:591).                 *)
ReturnsAreJudgedByTheirFunction ==
    LET inside == {i \in DOMAIN open : open[i].kind \in {"function", "method"}}
    IN  currentReturn = IF inside = {} THEN "UNKNOWN" ELSE open[Max(inside)].ret
=============================================================================
