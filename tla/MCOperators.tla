---------------------------- MODULE MCOperators ----------------------------
EXTENDS Operators

(* The classes are strings, as the names of the built-in types are, so     *)
(* they are no model values and no symmetry is taken. 4 is the float that  *)
(* the integer 3 is nearest to with one significant bit.                   *)
MCClasses == {"A", "B"}
MCFloats == {0, 4}
MCFields == [c \in MCClasses |->
    IF c = "A" THEN <<[name |-> "next", type |-> "A"], [name |-> "n", type |-> "int"]>>
    ELSE <<[name |-> "next", type |-> "array"], [name |-> "a", type |-> "A"]>>]
MCDeclared == {"int", "float", "unknown", "A"}
MCMethods == [c \in MCClasses |-> IF c = "A" THEN {"m"} ELSE {"n"}]
Signature(params, returns, body) == [params |-> params, returns |-> returns, body |-> body]
MCFunctions == {
    Signature(<<>>, "B", 0), Signature(<<"A">>, "A", 1), Signature(<<"B">>, "A", 1),
    Signature(<<"unknown">>, "A", 1), Signature(<<"A", "int">>, "float", 2)}
MCElements == {"B", "nan"}
=============================================================================
