--------------------------- MODULE CallDiscipline ---------------------------
(***************************************************************************)
(* What calls promise, whichever tier runs the callee.  A call owns a      *)
(* window of the value stack that starts with the callee and its           *)
(* arguments.  Only the innermost call runs.  When it returns, one value   *)
(* stands where its window started, unless the host made the call, which   *)
(* then takes the value.  A run-time error ends every call up to and       *)
(* including the innermost one that the host made, and leaves whatever was *)
(* on the stack before that.                                               *)
(***************************************************************************)
EXTENDS Naturals

CONSTANT MaxArgs

(* Windows are identified by the position they start at.  `by' tells who   *)
(* made the call, `kind' who runs it.                                      *)
VARIABLES windows, top

vars == <<windows, top>>

Window == [start : Nat, kind : {"program", "host"}, by : {"program", "host"}]

TypeOK == windows \subseteq Window /\ top \in Nat

Innermost(w) == w \in windows /\ \A v \in windows : v.start <= w.start

Below(w) == {v \in windows : v.start < w.start}

(* The host application itself runs when there is no window.               *)
Running(kind) == \/ windows = {} /\ kind = "host"
                 \/ \E w \in windows : Innermost(w) /\ w.kind = kind
-----------------------------------------------------------------------------
Init == windows = {} /\ top = 0

Open(start, kind, by) ==
    windows' = windows \cup {[start |-> start, kind |-> kind, by |-> by]}

(* Operands are pushed and popped above the bottom of the window.          *)
Compute == \E w \in windows :
    /\ Innermost(w) /\ w.kind = "program"
    /\ top' \in Nat /\ top' > w.start
    /\ UNCHANGED windows

(* A call by the program: callee and arguments are its topmost operands.   *)
Call == \E w \in windows, argc \in 0 .. MaxArgs, kind \in {"program", "host"} :
    /\ Innermost(w) /\ w.kind = "program" /\ top > w.start + argc + 1
    /\ Open(top - argc - 1, kind, "program")
    /\ UNCHANGED top

(* A call by the host, which pushes callee and arguments itself.           *)
Enter == \E argc \in 0 .. MaxArgs, kind \in {"program", "host"} :
    /\ Running("host")
    /\ Open(top, kind, "host")
    /\ top' = top + argc + 1

Return == \E w \in windows :
    /\ Innermost(w)
    /\ windows' = Below(w)
    /\ top' = IF w.by = "host" THEN w.start ELSE w.start + 1

Fail == \E w \in windows :
    /\ w.by = "host" /\ \A v \in windows : v.by = "host" => v.start <= w.start
    /\ windows' = Below(w)
    /\ top' = w.start

Next == Compute \/ Call \/ Enter \/ Return \/ Fail

Spec == Init /\ [][Next]_vars
=============================================================================
