---------------------------- MODULE Interpreter -----------------------------
(***************************************************************************)
(* One call of a function in run_until (vm.c): an instruction is fetched,  *)
(* its operands are read, and the values on the stack change. Calls made   *)
(* by the function are single steps; CallStack takes them apart.           *)
(***************************************************************************)
EXTENDS Bytecode

VARIABLES
    ip,       \* frame->ip, 0 when there is no frame
    stack,    \* the value stack, from the cell below the window of the call
    status,   \* "idle", "running", "returned" or "failed"
    call      \* the last effect outside the stack: which helper, on what

interpreterVars == <<ip, stack, status, call>>
vars == <<bytecodeVars, interpreterVars>>

Init == InitBytecode /\ ip = 0 /\ stack = <<>> /\ status = "idle" /\ call = NoCall

Enter ==
    /\ compiled = "yes" /\ status = "idle"
    /\ \E arg \in Given : stack' = <<Nil, Object, arg>>
    /\ status' = "running"
    /\ UNCHANGED <<bytecodeVars, ip, call>>

Fetch(ops) == status = "running" /\ At(ip) \in ops
Peek == Last(stack)
Go(bytes) == ip' = ip + 1 + bytes /\ UNCHANGED <<bytecodeVars, status>>
Leave(how) == status' = how /\ ip' = 0 /\ UNCHANGED bytecodeVars
Push(v) == stack' = Append(stack, v)

----------------------------------------------------------------------------
Literal ==
    /\ \/ Fetch({"NIL"}) /\ Push(Nil)
       \/ Fetch({"TRUE"}) /\ Push(Bool(TRUE))
       \/ Fetch({"FALSE"}) /\ Push(Bool(FALSE))
    /\ Go(0) /\ UNCHANGED call

(* READ_CONSTANT and READ_CONSTANT_W.                                      *)
LoadConstant ==
    /\ \/ Fetch({"CONSTANT"}) /\ Push(Constants[ByteAt(ip + 1)]) /\ Go(1)
       \/ Fetch({"CONSTANT_W"}) /\ Push(Constants[ShortAt(ip + 1)]) /\ Go(2)
    /\ UNCHANGED call

Pop == Fetch({"POP"}) /\ stack' = Front(stack) /\ Go(0) /\ UNCHANGED call

GetLocal ==
    /\ Fetch({"GET_LOCAL"})
    /\ Push(stack[Slots + ByteAt(ip + 1)])
    /\ Go(1) /\ UNCHANGED call
SetLocal ==
    /\ Fetch({"SET_LOCAL"})
    /\ stack' = [stack EXCEPT ![Slots + ByteAt(ip + 1)] = Peek]
    /\ Go(1) /\ UNCHANGED call

(* A helper takes its arguments and leaves its result, or reports an error *)
(* and every frame is gone.                                                *)
Helper(op, index, count, bytes) ==
    LET n    == Takes(op, count)
        rest == SubSeq(stack, 1, Len(stack) - n)
        args == SubSeq(stack, Len(stack) - n + 1, Len(stack))
    IN  /\ call' = IF op \in Pure THEN call ELSE [op |-> op, index |-> index, args |-> args]
        /\ \/ /\ \E left \in Results(op, args) : stack' = rest \o left
              /\ Go(bytes)
           \/ /\ MayFail(op, args)
              /\ stack' = <<>> /\ Leave("failed")

Operate ==
    \E op \in Pure \cup {"INDEX_GET", "INDEX_SET"} :
       Fetch({op}) /\ Helper(op, 0, 0, 0)
CallOrCount == \E op \in Counted : Fetch({op}) /\ Helper(op, 0, ByteAt(ip + 1), 1)
ByName ==
    \E op \in Narrow \ {"CONSTANT", "INVOKE"} :
       \/ Fetch({op}) /\ Helper(op, ByteAt(ip + 1), 0, 1)
       \/ Fetch({Wide[op]}) /\ Helper(op, ShortAt(ip + 1), 0, 2)
Invoke ==
    \/ Fetch({"INVOKE"}) /\ Helper("INVOKE", ByteAt(ip + 1), ByteAt(ip + 2), 2)
    \/ Fetch({"INVOKE_W"}) /\ Helper("INVOKE", ShortAt(ip + 1), ByteAt(ip + 3), 3)

Not ==
    /\ Fetch({"NOT"})
    /\ stack' = Append(Front(stack), Bool(~Truthy(Peek)))
    /\ Go(0) /\ UNCHANGED call

(* The specialised instructions: two integers, or the generic form.        *)
Specialised ==
    /\ Fetch(Typed)
    /\ LET op == Generic[At(ip)]
           a  == stack[Len(stack) - 1]
       IN  IF IsInt(a) /\ IsInt(Peek) /\ ~DividesByZero(op, Peek)
           THEN /\ stack' = Append(SubSeq(stack, 1, Len(stack) - 2), OnInts(op, a, Peek))
                /\ Go(0) /\ UNCHANGED call
           ELSE Helper(op, 0, 0, 0)

Jump ==
    /\ LET taken == \/ Fetch({"JUMP"})
                    \/ Fetch({"JUMP_IF_FALSE"}) /\ ~Truthy(Peek)
                    \/ Fetch({"JUMP_IF_TRUE"}) /\ Truthy(Peek)
       IN  Fetch(Forward) /\ Go(2 + (IF taken THEN ShortAt(ip + 1) ELSE 0))
    /\ UNCHANGED <<stack, call>>
Loop ==
    /\ Fetch({"LOOP"})
    /\ Go(2 - ShortAt(ip + 1))
    /\ UNCHANGED <<stack, call>>

Return ==
    /\ Fetch({"RETURN"})
    /\ stack' = Append(SubSeq(stack, 1, Slots - 1), Peek)
    /\ Leave("returned")
    /\ UNCHANGED call

Run ==
    \/ Literal \/ LoadConstant \/ Pop \/ GetLocal \/ SetLocal
    \/ Operate \/ CallOrCount \/ ByName \/ Invoke \/ Not \/ Specialised
    \/ Jump \/ Loop \/ Return

Next == (Compile /\ UNCHANGED interpreterVars) \/ Enter \/ Run

Spec == Init /\ [][Next]_vars
=============================================================================
