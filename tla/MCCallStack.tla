----------------------------- MODULE MCCallStack ----------------------------
EXTENDS CallStack

CONSTANTS f, g

MCArity == [fn \in Functions |-> IF fn = f THEN 0 ELSE 1]
=============================================================================
