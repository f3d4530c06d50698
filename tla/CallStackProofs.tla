-------------------------- MODULE CallStackProofs --------------------------
(***************************************************************************)
(* Proofs about calls, returns and run-time errors (module CallStack), for *)
(* any program, any number of calls in progress and any limits: whatever   *)
(* mixture of interpreter, native code and host functions is on the C      *)
(* stack.                                                                  *)
(***************************************************************************)
EXTENDS CallStack, SequenceTheorems, WellFoundedInduction, TLAPS

(* C stacks.  An entry point of the API is at the bottom or is called by a *)
(* host function; an interpreter loop does not start another by itself; a  *)
(* script is run in one.                                                   *)
EntriesNest(a) ==
    \A i \in DOMAIN a :
       /\ IsEntry(a[i]) <=> i = 1 \/ a[i - 1].kind = "host"
       /\ a[i].kind = "eval" => i = 1
       /\ a[i].kind = "run" => a[i - 1].kind # "run"
       /\ i = 2 /\ a[1].kind = "eval" => a[2].kind = "run" /\ a[2].at = 0

(* Each interpreter loop has frames of its own, and each frame a loop.     *)
RunnersNest(a, F) ==
    /\ \A i \in DOMAIN a : a[i].kind = "run" =>
          /\ a[i].at < Len(F)
          /\ \A j \in DOMAIN a : a[j].kind = "run" /\ i < j => a[i].at < a[j].at
    /\ Len(F) > 0 => \E i \in DOMAIN a : a[i].kind = "run" /\ a[i].at = 0

(* Frame k was pushed while activation j was in progress: by a loop that   *)
(* started after it.                                                       *)
Over(a, j, k) == \E i \in DOMAIN a : a[i].kind = "run" /\ j < i /\ a[i].at < k

(* Windows start in the order in which their calls were made.              *)
WindowsRise(a, F) ==
    /\ \A k, l \in DOMAIN F : k < l => F[k].slots < F[l].slots
    /\ \A i, j \in DOMAIN a : i < j /\ IsWindow(a[i]) /\ IsWindow(a[j]) => a[i].at < a[j].at
    /\ \A k \in DOMAIN F, j \in DOMAIN a : IsWindow(a[j]) =>
          IF Over(a, j, k) THEN a[j].at < F[k].slots ELSE F[k].slots < a[j].at

(* The host pushes callee and arguments above its own arguments.           *)
Base(a, i) == IF i = 1 THEN 0 ELSE a[i - 1].at + a[i - 1].argc + 1

EntriesStart(a, F) ==
    \A i \in DOMAIN a : IsEntry(a[i]) /\ i < Len(a) =>
       /\ IsWindow(a[i + 1]) => a[i + 1].at = Base(a, i)
       /\ a[i + 1].kind = "run" => F[a[i + 1].at + 1].slots = Base(a, i)

ScriptIsFirst(a, F) ==
    \A k \in DOMAIN F : F[k].fn = Script <=> k = 1 /\ a[1].kind = "eval"

Nested(a, F) ==
    EntriesNest(a) /\ RunnersNest(a, F) /\ WindowsRise(a, F) /\ EntriesStart(a, F)
    /\ ScriptIsFirst(a, F)

(* Where the stack ends: above the window of the code that runs, and just  *)
(* above the arguments of a host function.                                 *)
EndsAt(a, F, h) ==
    /\ Len(a) = 0 => h = 0
    /\ Len(a) > 0 =>
          LET t == a[Len(a)]
          IN  /\ ~IsEntry(t)
              /\ t.kind = "run" => F[Len(F)].slots < h
              /\ t.kind = "native_code" => t.at < h
              /\ t.kind = "host" => h = t.at + t.argc + 1

NInv == TypeOK /\ Nested(acts, frames) /\ EndsAt(acts, frames, height)

(* What the two checks of call_function leave: frames, and a full window   *)
(* above where native code starts.                                         *)
Cells(k) == k * SlotCount

RoomAbove(a) ==
    \A i \in DOMAIN a : a[i].kind = "native_code" => a[i].at <= StackMax - SlotCount

RInv == Len(frames) <= FramesMax /\ RoomAbove(acts)
----------------------------------------------------------------------------
(* Sequences that differ in their last element.                            *)
Pushed(s, t, x) ==
    /\ Len(s) \in Nat /\ DOMAIN s = 1 .. Len(s)
    /\ Len(t) = Len(s) + 1 /\ DOMAIN t = 1 .. Len(s) + 1
    /\ \A i \in 1 .. Len(s) : t[i] = s[i]
    /\ t[Len(s) + 1] = x

LEMMA Elements ==
  ASSUME NEW S, NEW s \in Seq(S)
  PROVE  /\ Len(s) \in Nat /\ DOMAIN s = 1 .. Len(s)
         /\ \A i \in DOMAIN s : s[i] \in S
         /\ s = <<>> <=> Len(s) = 0
<1>1. Len(s) \in Nat /\ DOMAIN s = 1 .. Len(s) /\ \A i \in 1 .. Len(s) : s[i] \in S
  BY LenProperties, ElementOfSeq
<1>2. s = <<>> <=> Len(s) = 0
  BY EmptySeq
<1>3. QED
  BY <1>1, <1>2

LEMMA AppendPushes ==
  ASSUME NEW S, NEW s \in Seq(S), NEW x \in S
  PROVE  /\ Append(s, x) \in Seq(S) /\ Pushed(s, Append(s, x), x)
         /\ Append(s, x) # <<>> /\ Last(Append(s, x)) = x
<1>1. /\ Append(s, x) \in Seq(S) /\ Append(s, x) # <<>> /\ Len(Append(s, x)) = Len(s) + 1
      /\ \A i \in 1 .. Len(s) : Append(s, x)[i] = s[i]
      /\ Append(s, x)[Len(s) + 1] = x
  BY AppendProperties
<1>2. QED
  BY <1>1, Elements DEF Pushed, Last

LEMMA FrontPushes ==
  ASSUME NEW S, NEW s \in Seq(S), s # <<>>
  PROVE  Front(s) \in Seq(S) /\ Pushed(Front(s), s, Last(s)) /\ Last(s) \in S
<1> DEFINE n == Len(s) - 1
<1>1. Len(s) \in Nat /\ Len(s) > 0 /\ DOMAIN s = 1 .. Len(s) /\ \A i \in 1 .. Len(s) : s[i] \in S
  BY Elements
<1>2. n \in Int /\ 1 \in Int /\ n \in Nat /\ \A i \in 1 .. n : s[i] \in S
  BY <1>1
<1>3. /\ SubSeq(s, 1, n) \in Seq(S)
      /\ Len(SubSeq(s, 1, n)) = IF 1 <= n THEN n - 1 + 1 ELSE 0
      /\ \A i \in 1 .. n - 1 + 1 : SubSeq(s, 1, n)[i] = s[1 + i - 1]
  BY <1>2, SubSeqProperties
<1>4. Front(s) = SubSeq(s, 1, n)
  BY DEF Front
<1> HIDE DEF n
<1>5. Front(s) \in Seq(S) /\ Len(Front(s)) = n /\ \A i \in 1 .. n : Front(s)[i] = s[i]
  BY <1>2, <1>3, <1>4
<1>6. DOMAIN Front(s) = 1 .. n
  BY <1>5, Elements
<1>7. Len(s) = n + 1
  BY <1>1 DEF n
<1>8. QED
  BY <1>1, <1>2, <1>5, <1>6, <1>7 DEF Pushed, Last

(* Two sequences with the same last element and the same rest.             *)
LEMMA FrontOfPushed ==
  ASSUME NEW S, NEW s \in Seq(S), NEW x \in S
  PROVE  Front(Append(s, x)) = s
<1> DEFINE t == Append(s, x)
<1>1. t \in Seq(S) /\ t # <<>> /\ Pushed(s, t, x)
  BY AppendPushes
<1> HIDE DEF t
<1> DEFINE p == Len(s)
           q == Len(Front(t))
<1>2. Front(t) \in Seq(S) /\ Pushed(Front(t), t, Last(t))
  BY <1>1, FrontPushes
<1>0. /\ Len(t) = p + 1 /\ p \in Nat /\ Len(t) = q + 1 /\ q \in Nat
      /\ \A i \in 1 .. p : t[i] = s[i]
      /\ \A i \in 1 .. q : t[i] = Front(t)[i]
  BY <1>1, <1>2 DEF Pushed
<1> HIDE DEF p, q
<1>3. p = q /\ \A i \in 1 .. p : Front(t)[i] = s[i]
  BY <1>0
<1>4. Front(t) = s
  BY <1>2, <1>3, SeqEqual DEF p, q
<1>5. QED
  BY <1>4 DEF t

LEMMA ActFields ==
  ASSUME NEW x \in Activation
  PROVE  /\ x.kind \in {"run", "native_code", "host", "call", "eval"}
         /\ x.at \in Nat /\ x.argc \in Nat /\ x.bare \subseteq Functions
         /\ IsEntry(x) <=> x.kind \in {"call", "eval"}
         /\ IsWindow(x) <=> x.kind \in {"native_code", "host"}
  BY DEF Activation, IsEntry, IsWindow

LEMMA FrameFields ==
  ASSUME NEW f \in Frame
  PROVE  f.slots \in Nat /\ f.fn \in Functions \cup {Script}
  BY DEF Frame

LEMMA Acts ==
  ASSUME NEW a \in Seq(Activation)
  PROVE  /\ Len(a) \in Nat /\ DOMAIN a = 1 .. Len(a)
         /\ \A i \in DOMAIN a :
               /\ a[i].kind \in {"run", "native_code", "host", "call", "eval"}
               /\ a[i].at \in Nat /\ a[i].argc \in Nat
               /\ IsEntry(a[i]) <=> a[i].kind \in {"call", "eval"}
               /\ IsWindow(a[i]) <=> a[i].kind \in {"native_code", "host"}
  BY Elements, ActFields

LEMMA Frames ==
  ASSUME NEW F \in Seq(Frame)
  PROVE  Len(F) \in Nat /\ DOMAIN F = 1 .. Len(F) /\ \A k \in DOMAIN F : F[k].slots \in Nat
  BY Elements, FrameFields
LEMMA ActsPushed ==
  ASSUME NEW a \in Seq(Activation), NEW b \in Seq(Activation), NEW x \in Activation,
         Pushed(a, b, x)
  PROVE  /\ Len(a) \in Nat /\ DOMAIN a = 1 .. Len(a)
         /\ Len(b) = Len(a) + 1 /\ DOMAIN b = 1 .. Len(a) + 1
         /\ \A i \in 1 .. Len(a) : b[i] = a[i]
         /\ b[Len(a) + 1] = x
         /\ \A i \in 1 .. Len(a) : a[i].at \in Nat /\ a[i].argc \in Nat
         /\ x.at \in Nat /\ x.argc \in Nat
  BY Acts, ActFields DEF Pushed

LEMMA FramesPushed ==
  ASSUME NEW F \in Seq(Frame), NEW G \in Seq(Frame), NEW f \in Frame, Pushed(F, G, f)
  PROVE  /\ Len(F) \in Nat /\ DOMAIN F = 1 .. Len(F)
         /\ Len(G) = Len(F) + 1 /\ DOMAIN G = 1 .. Len(F) + 1
         /\ \A k \in 1 .. Len(F) : G[k] = F[k]
         /\ G[Len(F) + 1] = f
         /\ \A k \in 1 .. Len(F) : F[k].slots \in Nat
         /\ f.slots \in Nat
  BY Frames, FrameFields DEF Pushed
----------------------------------------------------------------------------
(* The nesting of calls, as they begin and end.                            *)

Above(a, F, p) ==
    /\ \A k \in DOMAIN F : F[k].slots < p
    /\ \A j \in DOMAIN a : IsWindow(a[j]) => a[j].at < p

LEMMA FramesNeedRunner ==
  ASSUME NEW a \in Seq(Activation), NEW F \in Seq(Frame), RunnersNest(a, F)
  PROVE  Len(a) > 0 \/ Len(F) = 0
  BY Acts, Frames DEF RunnersNest

(* A loop that starts on top of F runs none of its frames.                 *)
LEMMA LastRunner ==
  ASSUME NEW n \in Nat, NEW m \in Nat, NEW a, DOMAIN a = 1 .. n,
         NEW b, DOMAIN b = 1 .. n + 1, \A i \in 1 .. n : b[i] = a[i], b[n + 1].at = m
  PROVE  \A j \in 1 .. n, k \in 1 .. m : Over(b, j, k) <=> Over(a, j, k)
<1> SUFFICES ASSUME NEW j \in 1 .. n, NEW k \in 1 .. m PROVE Over(b, j, k) <=> Over(a, j, k)
  OBVIOUS
<1>1. ~(b[n + 1].at < k)
  OBVIOUS
<1>2. Over(a, j, k) => Over(b, j, k)
  BY DEF Over
<1>3. ASSUME Over(b, j, k) PROVE Over(a, j, k)
  <2>1. PICK i \in 1 .. n + 1 : b[i].kind = "run" /\ j < i /\ b[i].at < k
    BY <1>3 DEF Over
  <2>2. i \in 1 .. n
    BY <1>1, <2>1
  <2>3. QED
    BY <2>1, <2>2 DEF Over
<1>4. QED
  BY <1>2, <1>3

(* The host, or the host application, enters the API.                      *)
LEMMA PushEntry ==
  ASSUME NEW a \in Seq(Activation), NEW F \in Seq(Frame), Nested(a, F),
         NEW b \in Seq(Activation), NEW x \in Activation, Pushed(a, b, x), IsEntry(x),
         Len(a) > 0 => a[Len(a)].kind = "host" /\ x.kind = "call"
  PROVE  Nested(b, F)
<1> DEFINE n == Len(a)
<1>1. /\ n \in Nat /\ DOMAIN a = 1 .. n /\ Len(b) = n + 1 /\ DOMAIN b = 1 .. n + 1
      /\ b[n + 1] = x /\ x.kind \in {"call", "eval"}
      /\ \A i \in 1 .. n : b[i] = a[i]
      /\ n > 0 => a[n].kind = "host" /\ x.kind = "call"
  BY ActsPushed DEF IsEntry
<1> HIDE DEF n
<1>2. EntriesNest(b)
  <2> SUFFICES ASSUME NEW i \in DOMAIN b
               PROVE  /\ IsEntry(b[i]) <=> i = 1 \/ b[i - 1].kind = "host"
                      /\ b[i].kind = "eval" => i = 1
                      /\ b[i].kind = "run" => b[i - 1].kind # "run"
                      /\ i = 2 /\ b[1].kind = "eval" => b[2].kind = "run" /\ b[2].at = 0
    BY DEF EntriesNest
  <2>1. CASE i \in 1 .. n
    <3>1. i \in DOMAIN a /\ b[i] = a[i] /\ (i > 1 => b[i - 1] = a[i - 1] /\ b[1] = a[1])
      BY <1>1, <2>1
    <3>2. /\ IsEntry(a[i]) <=> i = 1 \/ a[i - 1].kind = "host"
          /\ a[i].kind = "eval" => i = 1
          /\ a[i].kind = "run" => a[i - 1].kind # "run"
          /\ i = 2 /\ a[1].kind = "eval" => a[2].kind = "run" /\ a[2].at = 0
      BY <3>1 DEF Nested, EntriesNest
    <3>3. i = 1 => ~(b[i].kind = "run")
      BY <3>1, <3>2 DEF IsEntry
    <3>4. i = 1 \/ i > 1
      BY <1>1, <2>1
    <3>5. QED
      BY <3>1, <3>2, <3>3, <3>4
  <2>2. CASE i = n + 1
    <3>1. /\ b[i] = x /\ i - 1 = n /\ (i = 1 <=> n = 0)
          /\ n > 0 => b[n] = a[n] /\ b[1] = a[1]
      BY <1>1, <2>2
    <3>2. n = 0 \/ n > 0
      BY <1>1
    <3>3. n = 1 => a[1].kind = "host"
      BY <1>1
    <3>4. i = 2 => n = 1 /\ b[1] = a[1]
      BY <1>1, <2>2
    <3>5. QED
      BY <1>1, <3>1, <3>2, <3>3, <3>4 DEF IsEntry
  <2>3. QED
    BY <1>1, <2>1, <2>2
<1>3. RunnersNest(b, F)
  BY <1>1 DEF Nested, RunnersNest
<1>4. WindowsRise(b, F)
  <2>1. \A j \in 1 .. n, k \in DOMAIN F : Over(b, j, k) <=> Over(a, j, k)
    BY <1>1 DEF Over
  <2>2. ~IsWindow(x)
    BY <1>1 DEF IsWindow
  <2>3. QED
    BY <1>1, <2>1, <2>2 DEF Nested, WindowsRise
<1>5. EntriesStart(b, F)
  BY <1>1 DEF Nested, EntriesStart, Base, IsEntry, IsWindow
<1>6. ScriptIsFirst(b, F)
  BY <1>1, Frames, FramesNeedRunner DEF Nested, ScriptIsFirst, n
<1>7. QED
  BY <1>2, <1>3, <1>4, <1>5, <1>6 DEF Nested

(* Native code or a host function is called.                               *)
LEMMA PushWindow ==
  ASSUME NEW a \in Seq(Activation), NEW F \in Seq(Frame), Nested(a, F),
         NEW b \in Seq(Activation), NEW x \in Activation, Pushed(a, b, x), IsWindow(x),
         Len(a) > 0, a[Len(a)].kind \in {"run", "native_code", "call"}, Above(a, F, x.at),
         a[Len(a)].kind = "call" => x.at = Base(a, Len(a))
  PROVE  Nested(b, F)
<1> DEFINE n == Len(a)
<1>1. /\ n \in Nat /\ n > 0 /\ DOMAIN a = 1 .. n /\ Len(b) = n + 1 /\ DOMAIN b = 1 .. n + 1
      /\ b[n + 1] = x /\ x.kind \in {"native_code", "host"}
      /\ \A i \in 1 .. n : b[i] = a[i]
      /\ a[n].kind \in {"run", "native_code", "call"}
      /\ a[n].kind = "call" => x.at = Base(a, n)
  BY ActsPushed DEF IsWindow
<1> HIDE DEF n
<1>2. EntriesNest(b)
  BY <1>1 DEF Nested, EntriesNest, IsEntry
<1>3. RunnersNest(b, F)
  BY <1>1 DEF Nested, RunnersNest
<1>4. WindowsRise(b, F)
  <2>1. \A j \in 1 .. n, k \in DOMAIN F : Over(b, j, k) <=> Over(a, j, k)
    BY <1>1 DEF Over
  <2>2. \A k : ~Over(b, n + 1, k)
    BY <1>1 DEF Over
  <2>3. \A i, j \in DOMAIN b : i < j /\ IsWindow(b[i]) /\ IsWindow(b[j]) => b[i].at < b[j].at
    BY <1>1 DEF Nested, WindowsRise, Above
  <2>4. \A k \in DOMAIN F, j \in DOMAIN b : IsWindow(b[j]) =>
          IF Over(b, j, k) THEN b[j].at < F[k].slots ELSE F[k].slots < b[j].at
    BY <1>1, <2>1, <2>2 DEF Nested, WindowsRise, Above
  <2>5. QED
    BY <2>3, <2>4 DEF Nested, WindowsRise
<1>5. EntriesStart(b, F)
  <2> SUFFICES ASSUME NEW i \in DOMAIN b, IsEntry(b[i]), i < Len(b)
               PROVE  /\ IsWindow(b[i + 1]) => b[i + 1].at = Base(b, i)
                      /\ b[i + 1].kind = "run" => F[b[i + 1].at + 1].slots = Base(b, i)
    BY DEF EntriesStart
  <2>1. i \in 1 .. n /\ b[i] = a[i] /\ Base(b, i) = Base(a, i)
    BY <1>1 DEF Base
  <2>2. CASE i < n
    BY <1>1, <2>1, <2>2 DEF Nested, EntriesStart, n
  <2>3. CASE i = n
    BY <1>1, <2>1, <2>3 DEF IsEntry
  <2>4. QED
    BY <1>1, <2>1, <2>2, <2>3
<1>6. ScriptIsFirst(b, F)
  BY <1>1 DEF Nested, ScriptIsFirst
<1>7. QED
  BY <1>2, <1>3, <1>4, <1>5, <1>6 DEF Nested

(* Bytecode is called from outside the interpreter loop: a loop starts.    *)
LEMMA PushRun ==
  ASSUME NEW a \in Seq(Activation), NEW F \in Seq(Frame), Nested(a, F),
         NEW b \in Seq(Activation), NEW x \in Activation, Pushed(a, b, x),
         NEW G \in Seq(Frame), NEW f \in Frame, Pushed(F, G, f),
         x.kind = "run", x.at = Len(F),
         Len(a) > 0, a[Len(a)].kind \in {"native_code", "call", "eval"}, Above(a, F, f.slots),
         IsEntry(a[Len(a)]) => f.slots = Base(a, Len(a)),
         f.fn = Script <=> a[Len(a)].kind = "eval"
  PROVE  Nested(b, G)
<1> DEFINE n == Len(a)
           m == Len(F)
<1>1. /\ n \in Nat /\ n > 0 /\ DOMAIN a = 1 .. n /\ Len(b) = n + 1 /\ DOMAIN b = 1 .. n + 1
      /\ b[n + 1] = x /\ x.kind = "run" /\ x.at = m
      /\ \A i \in 1 .. n : b[i] = a[i] /\ a[i].at \in Nat
      /\ a[n].kind \in {"native_code", "call", "eval"}
      /\ IsEntry(a[n]) => f.slots = Base(a, n)
      /\ f.fn = Script <=> a[n].kind = "eval"
  BY ActsPushed
<1>2. /\ m \in Nat /\ DOMAIN F = 1 .. m /\ Len(G) = m + 1 /\ DOMAIN G = 1 .. m + 1
      /\ G[m + 1] = f /\ \A k \in 1 .. m : G[k] = F[k]
  BY FramesPushed
<1>3. /\ \A i \in 1 .. n : a[i].kind = "run" => a[i].at < m
      /\ m > 0 => \E i \in 1 .. n : a[i].kind = "run" /\ a[i].at = 0
  BY <1>1, <1>2 DEF Nested, RunnersNest
<1> HIDE DEF n, m
<1>4. a[n].kind = "eval" => n = 1 /\ m = 0
  BY <1>1, <1>2, <1>3 DEF Nested, EntriesNest
<1>5. m = 0 /\ a[1].kind = "eval" => n = 1
  <2>1. n > 1 /\ a[1].kind = "eval" => a[2].kind = "run"
    <3>1. n > 1 => 2 \in DOMAIN a
      BY <1>1
    <3>2. QED
      BY <3>1 DEF Nested, EntriesNest
  <2>2. QED
    BY <1>1, <1>2, <1>3, <2>1
<1>6. EntriesNest(b)
  <2> SUFFICES ASSUME NEW i \in DOMAIN b
               PROVE  /\ IsEntry(b[i]) <=> i = 1 \/ b[i - 1].kind = "host"
                      /\ b[i].kind = "eval" => i = 1
                      /\ b[i].kind = "run" => b[i - 1].kind # "run"
                      /\ i = 2 /\ b[1].kind = "eval" => b[2].kind = "run" /\ b[2].at = 0
    BY DEF EntriesNest
  <2>1. CASE i \in 1 .. n
    <3>1. /\ b[i] = a[i] /\ (i = 1 \/ b[i - 1] = a[i - 1])
          /\ b[1] = a[1] /\ i = 2 => b[2] = a[2]
      BY <1>1, <2>1
    <3>2. QED
      BY <1>1, <2>1, <3>1 DEF Nested, EntriesNest, IsEntry
  <2>2. CASE i = n + 1
    <3>1. b[i] = x /\ b[i - 1] = a[n] /\ i # 1 /\ b[1] = a[1]
      BY <1>1, <2>2
    <3>2. i = 2 /\ b[1].kind = "eval" => b[2] = x /\ x.at = 0
      BY <1>1, <1>4, <2>2, <3>1
    <3>3. QED
      BY <1>1, <3>1, <3>2 DEF IsEntry
  <2>3. QED
    BY <1>1, <2>1, <2>2
<1>7. RunnersNest(b, G)
  <2>1. \A i \in DOMAIN b : b[i].kind = "run" =>
          /\ b[i].at < Len(G)
          /\ \A j \in DOMAIN b : b[j].kind = "run" /\ i < j => b[i].at < b[j].at
    <3> SUFFICES ASSUME NEW i \in DOMAIN b, b[i].kind = "run"
                 PROVE  /\ b[i].at < m + 1
                        /\ \A j \in DOMAIN b : b[j].kind = "run" /\ i < j => b[i].at < b[j].at
      BY <1>2
    <3>1. CASE i \in 1 .. n
      <4>1. b[i] = a[i] /\ a[i].at \in Nat /\ a[i].at < m
        BY <1>1, <1>3, <3>1
      <4>2. ASSUME NEW j \in DOMAIN b, b[j].kind = "run", i < j PROVE b[i].at < b[j].at
        <5>1. CASE j \in 1 .. n
          BY <1>1, <3>1, <4>1, <4>2, <5>1 DEF Nested, RunnersNest
        <5>2. CASE j = n + 1
          BY <1>1, <4>1, <5>2
        <5>3. QED
          BY <1>1, <5>1, <5>2
      <4>3. b[i].at < m + 1
        BY <1>2, <4>1
      <4>4. QED
        BY <4>2, <4>3
    <3>2. CASE i = n + 1
      BY <1>1, <1>2, <3>2
    <3>3. QED
      BY <1>1, <3>1, <3>2
  <2>2. \E i \in DOMAIN b : b[i].kind = "run" /\ b[i].at = 0
    <3>1. CASE m = 0
      <4>1. n + 1 \in DOMAIN b /\ b[n + 1].kind = "run" /\ b[n + 1].at = 0
        BY <1>1, <3>1
      <4>2. QED
        BY <4>1
    <3>2. CASE m > 0
      <4>1. PICK i \in 1 .. n : a[i].kind = "run" /\ a[i].at = 0
        BY <1>3, <3>2
      <4>2. i \in DOMAIN b /\ b[i] = a[i]
        BY <1>1
      <4>3. QED
        BY <4>1, <4>2
    <3>3. QED
      BY <1>2, <3>1, <3>2
  <2>3. QED
    BY <2>1, <2>2 DEF RunnersNest
<1>8. WindowsRise(b, G)
  <2>1. \A j \in 1 .. n, k \in 1 .. m : Over(b, j, k) <=> Over(a, j, k)
    <3>1. /\ n \in Nat /\ m \in Nat /\ DOMAIN a = 1 .. n /\ DOMAIN b = 1 .. n + 1
          /\ (\A i \in 1 .. n : b[i] = a[i]) /\ b[n + 1].at = m
      BY <1>1, <1>2
    <3>2. QED
      BY <3>1, LastRunner
  <2>2. \A j \in 1 .. n : Over(b, j, m + 1)
    <3>1. /\ n + 1 \in DOMAIN b /\ b[n + 1].kind = "run" /\ b[n + 1].at < m + 1
          /\ \A j \in 1 .. n : j < n + 1
      BY <1>1, <1>2
    <3>2. QED
      BY <3>1 DEF Over
  <2>3. \A k, l \in DOMAIN G : k < l => G[k].slots < G[l].slots
    <3>1. \A k, l \in 1 .. m : k < l => F[k].slots < F[l].slots
      BY <1>2 DEF Nested, WindowsRise
    <3>2. \A k \in 1 .. m : F[k].slots < f.slots
      BY <1>2 DEF Above
    <3>3. QED
      BY <1>2, <3>1, <3>2
  <2>4. \A i, j \in DOMAIN b : i < j /\ IsWindow(b[i]) /\ IsWindow(b[j]) => b[i].at < b[j].at
    <3>1. \A i \in DOMAIN b : IsWindow(b[i]) => i \in 1 .. n /\ b[i] = a[i]
      BY <1>1 DEF IsWindow
    <3>2. QED
      BY <1>1, <3>1 DEF Nested, WindowsRise
  <2>5. ASSUME NEW k \in DOMAIN G, NEW j \in DOMAIN b, IsWindow(b[j])
        PROVE  IF Over(b, j, k) THEN b[j].at < G[k].slots ELSE G[k].slots < b[j].at
    <3>1. j \in 1 .. n /\ b[j] = a[j]
      BY <1>1, <2>5 DEF IsWindow
    <3>2. CASE k \in 1 .. m
      BY <1>1, <1>2, <2>1, <2>5, <3>1, <3>2 DEF Nested, WindowsRise
    <3>3. CASE k = m + 1
      BY <1>1, <1>2, <2>2, <2>5, <3>1, <3>3 DEF Above
    <3>4. QED
      BY <1>2, <3>2, <3>3
  <2>6. QED
    BY <2>3, <2>4, <2>5 DEF WindowsRise
<1>9. EntriesStart(b, G)
  <2> SUFFICES ASSUME NEW i \in DOMAIN b, IsEntry(b[i]), i < Len(b)
               PROVE  /\ IsWindow(b[i + 1]) => b[i + 1].at = Base(b, i)
                      /\ b[i + 1].kind = "run" => G[b[i + 1].at + 1].slots = Base(b, i)
    BY DEF EntriesStart
  <2>1. i \in 1 .. n /\ b[i] = a[i] /\ Base(b, i) = Base(a, i)
    BY <1>1 DEF Base
  <2>2. CASE i < n
    <3>1. i + 1 \in 1 .. n /\ b[i + 1] = a[i + 1]
      BY <1>1, <2>1, <2>2
    <3>2. a[i + 1].kind = "run" => a[i + 1].at + 1 \in 1 .. m
      BY <1>1, <1>2, <1>3, <3>1
    <3>3. QED
      BY <1>1, <1>2, <2>1, <2>2, <3>1, <3>2 DEF Nested, EntriesStart, n
  <2>3. CASE i = n
    BY <1>1, <1>2, <2>1, <2>3 DEF IsWindow
  <2>4. QED
    BY <1>1, <2>1, <2>2, <2>3
<1>10. ScriptIsFirst(b, G)
  <2>1. b[1] = a[1]
    BY <1>1
  <2>2. \A k \in 1 .. m : G[k].fn = Script <=> k = 1 /\ b[1].kind = "eval"
    BY <1>2, <2>1 DEF Nested, ScriptIsFirst
  <2>3. f.fn = Script <=> m = 0 /\ a[1].kind = "eval"
    BY <1>1, <1>4, <1>5
  <2>4. QED
    BY <1>2, <2>1, <2>2, <2>3 DEF ScriptIsFirst
<1>11. QED
  BY <1>6, <1>7, <1>8, <1>9, <1>10 DEF Nested

(* Bytecode calls bytecode.                                                *)
LEMMA PushFrame ==
  ASSUME NEW a \in Seq(Activation), NEW F \in Seq(Frame), Nested(a, F),
         NEW G \in Seq(Frame), NEW f \in Frame, Pushed(F, G, f),
         Len(a) > 0, a[Len(a)].kind = "run", Above(a, F, f.slots), f.fn # Script
  PROVE  Nested(a, G)
<1> DEFINE n == Len(a)
           m == Len(F)
<1>1. n \in DOMAIN a /\ n \in Nat /\ DOMAIN a = 1 .. n /\ a[n].kind = "run"
      /\ \A i \in 1 .. n : a[i].at \in Nat
  BY Acts
<1>2. /\ m \in Nat /\ DOMAIN F = 1 .. m /\ Len(G) = m + 1 /\ DOMAIN G = 1 .. m + 1
      /\ G[m + 1] = f /\ \A k \in 1 .. m : G[k] = F[k]
  BY FramesPushed
<1>3. \A i \in 1 .. n : a[i].kind = "run" => a[i].at < m
  BY <1>1, <1>2 DEF Nested, RunnersNest
<1>4. a[n].at < m /\ m > 0
  BY <1>1, <1>2, <1>3
<1> HIDE DEF n, m
<1>5. RunnersNest(a, G)
  BY <1>1, <1>2, <1>3, <1>4 DEF Nested, RunnersNest, m
<1>6. WindowsRise(a, G)
  <2>1. \A j \in DOMAIN a : IsWindow(a[j]) => Over(a, j, m + 1)
    BY <1>1, <1>2, <1>4 DEF Over, IsWindow
  <2>2. \A k, l \in DOMAIN G : k < l => G[k].slots < G[l].slots
    BY <1>2 DEF Nested, WindowsRise, Above
  <2>3. \A k \in DOMAIN G, j \in DOMAIN a : IsWindow(a[j]) =>
          IF Over(a, j, k) THEN a[j].at < G[k].slots ELSE G[k].slots < a[j].at
    BY <1>2, <2>1 DEF Nested, WindowsRise, Above
  <2>4. QED
    BY <2>2, <2>3 DEF Nested, WindowsRise
<1>7. EntriesStart(a, G)
  <2>1. \A i \in DOMAIN a : i < Len(a) /\ a[i + 1].kind = "run" => a[i + 1].at + 1 \in 1 .. m
    BY <1>1, <1>2, <1>3 DEF n
  <2>2. QED
    BY <1>2, <2>1 DEF Nested, EntriesStart
<1>8. ScriptIsFirst(a, G)
  BY <1>2, <1>4 DEF Nested, ScriptIsFirst
<1>9. QED
  BY <1>5, <1>6, <1>7, <1>8 DEF Nested

(* An activation that is not an interpreter loop ends.                     *)
LEMMA PopAct ==
  ASSUME NEW a \in Seq(Activation), NEW F \in Seq(Frame),
         NEW b \in Seq(Activation), NEW x \in Activation, Pushed(a, b, x), Nested(b, F),
         x.kind # "run"
  PROVE  Nested(a, F)
<1> DEFINE n == Len(a)
<1>1. /\ n \in Nat /\ DOMAIN a = 1 .. n /\ Len(b) = n + 1 /\ DOMAIN b = 1 .. n + 1
      /\ b[n + 1] = x /\ x.kind # "run"
      /\ \A i \in 1 .. n : b[i] = a[i]
  BY ActsPushed
<1> HIDE DEF n
<1>2. EntriesNest(a)
  <2> SUFFICES ASSUME NEW i \in 1 .. n
               PROVE  /\ IsEntry(a[i]) <=> i = 1 \/ a[i - 1].kind = "host"
                      /\ a[i].kind = "eval" => i = 1
                      /\ a[i].kind = "run" => a[i - 1].kind # "run"
                      /\ i = 2 /\ a[1].kind = "eval" => a[2].kind = "run" /\ a[2].at = 0
    BY <1>1 DEF EntriesNest
  <2>1. /\ i \in DOMAIN b /\ b[i] = a[i] /\ (i = 1 \/ b[i - 1] = a[i - 1])
        /\ b[1] = a[1] /\ i = 2 => b[2] = a[2]
    BY <1>1
  <2>2. /\ IsEntry(b[i]) <=> i = 1 \/ b[i - 1].kind = "host"
        /\ b[i].kind = "eval" => i = 1
        /\ b[i].kind = "run" => b[i - 1].kind # "run"
        /\ i = 2 /\ b[1].kind = "eval" => b[2].kind = "run" /\ b[2].at = 0
    BY <2>1 DEF Nested, EntriesNest
  <2>3. i = 1 => a[i].kind # "run"
    BY <2>1, <2>2 DEF IsEntry
  <2>4. QED
    BY <2>1, <2>2, <2>3
<1>3. RunnersNest(a, F)
  <2>1. \A i \in DOMAIN b : b[i].kind = "run" => i \in DOMAIN a
    BY <1>1
  <2>2. QED
    BY <1>1, <2>1 DEF Nested, RunnersNest
<1>4. WindowsRise(a, F)
  <2>1. \A j \in 1 .. n, k \in DOMAIN F : Over(b, j, k) <=> Over(a, j, k)
    BY <1>1 DEF Over
  <2>2. QED
    BY <1>1, <2>1 DEF Nested, WindowsRise
<1>5. EntriesStart(a, F)
  <2> SUFFICES ASSUME NEW i \in DOMAIN a, IsEntry(a[i]), i < n
               PROVE  /\ IsWindow(a[i + 1]) => a[i + 1].at = Base(a, i)
                      /\ a[i + 1].kind = "run" => F[a[i + 1].at + 1].slots = Base(a, i)
    BY DEF EntriesStart, n
  <2>1. /\ i \in DOMAIN b /\ i < Len(b) /\ b[i] = a[i] /\ b[i + 1] = a[i + 1]
        /\ Base(b, i) = Base(a, i)
    BY <1>1 DEF Base
  <2>2. QED
    BY <2>1 DEF Nested, EntriesStart
<1>6. ScriptIsFirst(a, F)
  <2>1. n > 0 \/ DOMAIN F = {}
    BY <1>3, Frames, FramesNeedRunner DEF n
  <2>2. QED
    BY <1>1, <2>1 DEF Nested, ScriptIsFirst
<1>7. QED
  BY <1>2, <1>3, <1>4, <1>5, <1>6 DEF Nested

(* A frame ends, and the loop goes on.                                     *)
LEMMA PopFrame ==
  ASSUME NEW a \in Seq(Activation), NEW F \in Seq(Frame), NEW G \in Seq(Frame), NEW f \in Frame,
         Pushed(F, G, f), Nested(a, G),
         Len(a) > 0, a[Len(a)].kind = "run", a[Len(a)].at < Len(F)
  PROVE  Nested(a, F)
<1> DEFINE n == Len(a)
           m == Len(F)
<1>1. n \in DOMAIN a /\ n \in Nat /\ DOMAIN a = 1 .. n /\ a[n].kind = "run" /\ a[n].at < m
      /\ \A i \in 1 .. n : a[i].at \in Nat
  BY Acts
<1>2. /\ m \in Nat /\ DOMAIN F = 1 .. m /\ Len(G) = m + 1 /\ DOMAIN G = 1 .. m + 1
      /\ \A k \in 1 .. m : G[k] = F[k]
  BY FramesPushed
<1> HIDE DEF n, m
<1>3. \A i \in 1 .. n : a[i].kind = "run" => a[i].at < m
  <2> SUFFICES ASSUME NEW i \in 1 .. n, a[i].kind = "run" PROVE a[i].at < m
    OBVIOUS
  <2>1. i = n \/ i < n
    BY <1>1
  <2>2. i < n => a[i].at < a[n].at
    BY <1>1 DEF Nested, RunnersNest
  <2>3. a[i].at \in Nat /\ a[n].at \in Nat /\ m \in Nat
    BY <1>1, <1>2
  <2>4. QED
    BY <1>1, <2>1, <2>2, <2>3
<1>4. RunnersNest(a, F)
  BY <1>1, <1>2, <1>3 DEF Nested, RunnersNest, m
<1>5. WindowsRise(a, F)
  BY <1>2 DEF Nested, WindowsRise
<1>6. EntriesStart(a, F)
  <2>1. \A i \in DOMAIN a : i < Len(a) /\ a[i + 1].kind = "run" => a[i + 1].at + 1 \in 1 .. m
    BY <1>1, <1>2, <1>3 DEF n
  <2>2. QED
    BY <1>2, <2>1 DEF Nested, EntriesStart
<1>7. ScriptIsFirst(a, F)
  BY <1>2 DEF Nested, ScriptIsFirst
<1>8. QED
  BY <1>4, <1>5, <1>6, <1>7 DEF Nested

(* A loop ends with its last frame.                                        *)
LEMMA PopRun ==
  ASSUME NEW a \in Seq(Activation), NEW F \in Seq(Frame),
         NEW b \in Seq(Activation), NEW x \in Activation, Pushed(a, b, x),
         NEW G \in Seq(Frame), NEW f \in Frame, Pushed(F, G, f), Nested(b, G),
         x.kind = "run", x.at = Len(F)
  PROVE  Nested(a, F)
<1> DEFINE n == Len(a)
           m == Len(F)
<1>1. /\ n \in Nat /\ DOMAIN a = 1 .. n /\ Len(b) = n + 1 /\ DOMAIN b = 1 .. n + 1
      /\ b[n + 1] = x /\ x.kind = "run" /\ x.at = m
      /\ \A i \in 1 .. n : b[i] = a[i] /\ a[i].at \in Nat
  BY ActsPushed
<1>2. /\ m \in Nat /\ DOMAIN F = 1 .. m /\ Len(G) = m + 1 /\ DOMAIN G = 1 .. m + 1
      /\ \A k \in 1 .. m : G[k] = F[k]
  BY FramesPushed
<1> HIDE DEF n, m
<1>3. \A i \in 1 .. n : a[i].kind = "run" => a[i].at < m
  <2> SUFFICES ASSUME NEW i \in 1 .. n, a[i].kind = "run" PROVE a[i].at < m
    OBVIOUS
  <2>1. i \in DOMAIN b /\ n + 1 \in DOMAIN b /\ i < n + 1 /\ b[i] = a[i]
    BY <1>1
  <2>2. b[i].at < b[n + 1].at
    BY <1>1, <2>1 DEF Nested, RunnersNest
  <2>3. QED
    BY <1>1, <2>1, <2>2
<1>4. EntriesNest(a)
  <2> SUFFICES ASSUME NEW i \in 1 .. n
               PROVE  /\ IsEntry(a[i]) <=> i = 1 \/ a[i - 1].kind = "host"
                      /\ a[i].kind = "eval" => i = 1
                      /\ a[i].kind = "run" => a[i - 1].kind # "run"
                      /\ i = 2 /\ a[1].kind = "eval" => a[2].kind = "run" /\ a[2].at = 0
    BY <1>1 DEF EntriesNest
  <2>1. /\ i \in DOMAIN b /\ b[i] = a[i] /\ (i = 1 \/ b[i - 1] = a[i - 1])
        /\ b[1] = a[1] /\ i = 2 => b[2] = a[2]
    BY <1>1
  <2>2. /\ IsEntry(b[i]) <=> i = 1 \/ b[i - 1].kind = "host"
        /\ b[i].kind = "eval" => i = 1
        /\ b[i].kind = "run" => b[i - 1].kind # "run"
        /\ i = 2 /\ b[1].kind = "eval" => b[2].kind = "run" /\ b[2].at = 0
    BY <2>1 DEF Nested, EntriesNest
  <2>3. i = 1 => a[i].kind # "run"
    BY <2>1, <2>2 DEF IsEntry
  <2>4. QED
    BY <2>1, <2>2, <2>3
<1>5. RunnersNest(a, F)
  <2>1. ASSUME m > 0 PROVE \E i \in DOMAIN a : a[i].kind = "run" /\ a[i].at = 0
    <3>1. PICK i \in DOMAIN b : b[i].kind = "run" /\ b[i].at = 0
      BY <1>2, <2>1 DEF Nested, RunnersNest
    <3>2. i # n + 1
      BY <1>1, <2>1, <3>1
    <3>3. i \in 1 .. n /\ b[i] = a[i]
      BY <1>1, <3>2
    <3>4. QED
      BY <1>1, <3>1, <3>3
  <2>2. \A i, j \in 1 .. n : a[i].kind = "run" /\ a[j].kind = "run" /\ i < j => a[i].at < a[j].at
    <3>1. \A i \in 1 .. n : i \in DOMAIN b /\ b[i] = a[i]
      BY <1>1
    <3>2. QED
      BY <3>1 DEF Nested, RunnersNest
  <2>3. QED
    BY <1>1, <1>3, <2>1, <2>2 DEF RunnersNest, m
<1>6. WindowsRise(a, F)
  <2>1. \A j \in 1 .. n, k \in 1 .. m : Over(b, j, k) <=> Over(a, j, k)
    <3>1. /\ n \in Nat /\ m \in Nat /\ DOMAIN a = 1 .. n /\ DOMAIN b = 1 .. n + 1
          /\ (\A i \in 1 .. n : b[i] = a[i]) /\ b[n + 1].at = m
      BY <1>1, <1>2
    <3>2. QED
      BY <3>1, LastRunner
  <2>2. \A k \in 1 .. m, j \in 1 .. n : IsWindow(b[j]) =>
          IF Over(b, j, k) THEN b[j].at < G[k].slots ELSE G[k].slots < b[j].at
    <3>1. (\A k \in 1 .. m : k \in DOMAIN G) /\ (\A j \in 1 .. n : j \in DOMAIN b)
      BY <1>1, <1>2
    <3>2. QED
      BY <3>1 DEF Nested, WindowsRise
  <2>3. \A k, l \in 1 .. m : k < l => F[k].slots < F[l].slots
    <3>1. \A k \in 1 .. m : k \in DOMAIN G /\ G[k] = F[k]
      BY <1>2
    <3>2. QED
      BY <3>1 DEF Nested, WindowsRise
  <2>4. \A i, j \in 1 .. n : i < j /\ IsWindow(a[i]) /\ IsWindow(a[j]) => a[i].at < a[j].at
    <3>1. \A i \in 1 .. n : i \in DOMAIN b /\ b[i] = a[i]
      BY <1>1
    <3>2. QED
      BY <3>1 DEF Nested, WindowsRise
  <2>5. \A k \in 1 .. m, j \in 1 .. n : IsWindow(a[j]) =>
          IF Over(a, j, k) THEN a[j].at < F[k].slots ELSE F[k].slots < a[j].at
    BY <1>1, <1>2, <2>1, <2>2
  <2>6. QED
    BY <1>1, <1>2, <2>3, <2>4, <2>5 DEF WindowsRise
<1>7. EntriesStart(a, F)
  <2> SUFFICES ASSUME NEW i \in DOMAIN a, IsEntry(a[i]), i < n
               PROVE  /\ IsWindow(a[i + 1]) => a[i + 1].at = Base(a, i)
                      /\ a[i + 1].kind = "run" => F[a[i + 1].at + 1].slots = Base(a, i)
    BY DEF EntriesStart, n
  <2>1. /\ i \in DOMAIN b /\ i < Len(b) /\ b[i] = a[i] /\ b[i + 1] = a[i + 1]
        /\ Base(b, i) = Base(a, i) /\ i + 1 \in 1 .. n
    BY <1>1 DEF Base
  <2>2. a[i + 1].kind = "run" => a[i + 1].at + 1 \in 1 .. m
    BY <1>1, <1>2, <1>3, <2>1
  <2>3. QED
    BY <1>2, <2>1, <2>2 DEF Nested, EntriesStart
<1>8. ScriptIsFirst(a, F)
  <2>1. n > 0 \/ m = 0
    BY <1>5, FramesNeedRunner DEF n, m
  <2>2. QED
    BY <1>1, <1>2, <2>1 DEF Nested, ScriptIsFirst
<1>9. QED
  BY <1>4, <1>5, <1>6, <1>7, <1>8 DEF Nested

(* The code on top of the C stack owns the highest window.                 *)
TopSlots(a, F) == IF a[Len(a)].kind = "run" THEN F[Len(F)].slots ELSE a[Len(a)].at

LEMMA Highest ==
  ASSUME NEW a \in Seq(Activation), NEW F \in Seq(Frame), Nested(a, F),
         Len(a) > 0, ~IsEntry(a[Len(a)])
  PROVE  /\ TopSlots(a, F) \in Nat
         /\ a[Len(a)].kind = "run" => Len(F) > 0
         /\ \A k \in DOMAIN F : \/ F[k].slots < TopSlots(a, F)
                                \/ k = Len(F) /\ a[Len(a)].kind = "run"
         /\ \A j \in DOMAIN a : IsWindow(a[j]) /\ j # Len(a) => a[j].at < TopSlots(a, F)
<1> DEFINE n == Len(a)
<1>1. n \in DOMAIN a /\ n \in Nat /\ \A j \in DOMAIN a : j # n => j < n
  BY Acts
<1>2. CASE a[n].kind = "run"
  <2>1. a[n].at < Len(F) /\ Len(F) \in DOMAIN F
    BY <1>1, <1>2, Acts, Frames DEF Nested, RunnersNest
  <2>2. \A j \in DOMAIN a : j # n => Over(a, j, Len(F))
    BY <1>1, <1>2, <2>1 DEF Over
  <2>3. QED
    BY <1>1, <1>2, <2>1, <2>2, Acts, Frames DEF Nested, WindowsRise, TopSlots
<1>3. CASE IsWindow(a[n])
  <2>1. \A k : ~Over(a, n, k)
    BY <1>1 DEF Over
  <2>2. QED
    BY <1>1, <1>3, <2>1, Acts, Frames DEF Nested, WindowsRise, TopSlots
<1>4. QED
  BY <1>1, <1>2, <1>3, Acts

(* The same, of the next state.                                            *)
LEMMA NestedThen ==
  /\ Nested(acts, frames)' <=> Nested(acts', frames')
  /\ EndsAt(acts, frames, height)' <=> EndsAt(acts', frames', height')
<1>1. Nested(acts, frames)' <=> Nested(acts', frames')
  BY DEF Nested, EntriesNest, RunnersNest, WindowsRise, EntriesStart, ScriptIsFirst, Over, Base,
         IsEntry, IsWindow
<1>2. EndsAt(acts, frames, height)' <=> EndsAt(acts', frames', height')
  BY DEF EndsAt, IsEntry
<1>3. QED
  BY <1>1, <1>2
----------------------------------------------------------------------------
(* Where calls begin and end: the stack of a call's caller, its frames,    *)
(* and the place of callee and arguments, above all windows in progress.   *)

Site(stack, F, p) ==
    /\ stack \in Seq(Activation) /\ F \in Seq(Frame) /\ p \in Nat
    /\ Len(stack) > 0 /\ stack[Len(stack)].kind # "host"
    /\ Nested(stack, F) /\ Above(stack, F, p)
    /\ IsEntry(stack[Len(stack)]) => p = Base(stack, Len(stack))

(* The call at p is over: an entry point takes the result, code keeps it.  *)
Left(stack, p) ==
    LET entry == IsEntry(stack[Len(stack)])
    IN  /\ acts' = IF entry THEN Front(stack) ELSE stack
        /\ height' = IF entry THEN p ELSE p + 1

Disciplined == {"host_eval", "nested_failure", "return_in_block"} \cap Behaviours = {}

LEMMA EmptyNests == Nested(<<>>, <<>>) /\ EndsAt(<<>>, <<>>, 0)
<1>1. Len(<<>>) = 0
  OBVIOUS
<1>2. DOMAIN <<>> = {}
  OBVIOUS
<1>3. Nested(<<>>, <<>>)
  BY <1>1, <1>2 DEF Nested, EntriesNest, RunnersNest, WindowsRise, EntriesStart, ScriptIsFirst
<1>4. EndsAt(<<>>, <<>>, 0)
  BY <1>1 DEF EndsAt
<1>5. QED
  BY <1>3, <1>4

LEMMA Now ==
  ASSUME NInv
  PROVE  /\ acts \in Seq(Activation) /\ frames \in Seq(Frame) /\ height \in Nat
         /\ held \subseteq Functions /\ Nested(acts, frames)
         /\ acts = <<>> => height = 0 /\ frames = <<>>
         /\ acts # <<>> => /\ Len(acts) \in Nat /\ Len(acts) > 0
                           /\ Last(acts) = acts[Len(acts)] /\ ~IsEntry(Last(acts))
                           /\ Last(acts) \in Activation
<1>1. /\ acts \in Seq(Activation) /\ frames \in Seq(Frame) /\ height \in Nat
      /\ held \subseteq Functions /\ Nested(acts, frames) /\ EndsAt(acts, frames, height)
  BY DEF NInv, TypeOK
<1>2. acts = <<>> => height = 0 /\ frames = <<>>
  <2>1. acts = <<>> => Len(acts) = 0
    BY <1>1, Elements
  <2>2. Len(acts) = 0 => Len(frames) = 0
    <3>1. RunnersNest(acts, frames)
      BY <1>1 DEF Nested
    <3>2. Len(acts) > 0 \/ Len(frames) = 0
      BY <1>1, <3>1, FramesNeedRunner
    <3>3. QED
      BY <3>2
  <2>3. Len(frames) = 0 => frames = <<>>
    BY <1>1, Elements
  <2>4. QED
    BY <1>1, <2>1, <2>2, <2>3 DEF EndsAt
<1>3. ASSUME acts # <<>>
      PROVE  /\ Len(acts) \in Nat /\ Len(acts) > 0
             /\ Last(acts) = acts[Len(acts)] /\ ~IsEntry(Last(acts)) /\ Last(acts) \in Activation
  <2>1. Len(acts) \in Nat /\ Len(acts) > 0
    BY <1>1, <1>3, Elements
  <2>2. acts[Len(acts)] \in Activation
    BY <1>1, <2>1, Elements
  <2>3. QED
    BY <1>1, <2>1, <2>2 DEF EndsAt, Last
<1>4. QED
  BY <1>1, <1>2, <1>3

LEMMA ProgramNow ==
  ASSUME NInv, InProgram
  PROVE  /\ acts # <<>> /\ Slots \in Nat /\ Slots < height /\ Slots = TopSlots(acts, frames)
         /\ Last(acts).kind \in {"run", "native_code"}
         /\ Last(acts).kind = "run" => frames # <<>> /\ Last(frames).slots = Slots
         /\ InBytecode <=> Last(acts).kind = "run"
<1>1. acts # <<>> /\ Last(acts).kind \in {"run", "native_code"}
  BY DEF InProgram, InBytecode, InNativeCode, Running
<1>2. /\ acts \in Seq(Activation) /\ frames \in Seq(Frame) /\ Nested(acts, frames)
      /\ Len(acts) > 0 /\ Last(acts) = acts[Len(acts)] /\ ~IsEntry(Last(acts))
  BY <1>1, Now
<1>3. /\ TopSlots(acts, frames) \in Nat
      /\ Last(acts).kind = "run" => Len(frames) > 0
  BY <1>2, Highest
<1>4. Last(acts).kind = "run" => frames # <<>>
  BY <1>2, <1>3, Elements
<1>5. Last(acts).kind = "run" <=> InBytecode
  BY <1>1, <1>4 DEF InBytecode, Running
<1>6. Slots = TopSlots(acts, frames)
  BY <1>2, <1>5 DEF Slots, TopSlots, Last
<1>7. Slots < height
  BY <1>1, <1>2, <1>6 DEF NInv, EndsAt, TopSlots
<1>8. QED
  BY <1>1, <1>3, <1>4, <1>5, <1>6, <1>7 DEF TopSlots, Last

LEMMA HostNow ==
  ASSUME NInv, InHost
  PROVE  /\ acts # <<>> => Last(acts).kind = "host" /\ height = Last(acts).at + Last(acts).argc + 1
         /\ Above(acts, frames, height)
<1>1. CASE acts = <<>>
  <2>1. DOMAIN acts = {} /\ DOMAIN frames = {}
    BY <1>1, Now
  <2>2. QED
    BY <1>1, <2>1 DEF Above
<1>2. CASE acts # <<>>
  <2>1. /\ acts \in Seq(Activation) /\ frames \in Seq(Frame) /\ Nested(acts, frames)
        /\ Len(acts) > 0 /\ Last(acts) = acts[Len(acts)] /\ ~IsEntry(Last(acts))
        /\ Last(acts) \in Activation /\ Last(acts).kind = "host" /\ height \in Nat
    BY <1>2, Now DEF InHost, Running
  <2>2. height = Last(acts).at + Last(acts).argc + 1
    BY <2>1 DEF NInv, EndsAt
  <2>3. /\ TopSlots(acts, frames) = Last(acts).at
        /\ \A k \in DOMAIN frames : frames[k].slots < TopSlots(acts, frames)
        /\ \A j \in DOMAIN acts : IsWindow(acts[j]) /\ j # Len(acts) => acts[j].at < TopSlots(acts, frames)
    BY <2>1, Highest DEF TopSlots
  <2>4. Last(acts).at \in Nat /\ Last(acts).at < height
    BY <2>1, <2>2, ActFields
  <2>5. Above(acts, frames, height)
    BY <2>1, <2>3, <2>4, Acts, Frames DEF Above
  <2>6. QED
    BY <2>1, <2>2, <2>5
<1>3. QED
  BY <1>1, <1>2

LEMMA Entry == Act("call", 0, 0) \in Activation /\ IsEntry(Act("call", 0, 0))
               /\ Act("call", 0, 0).kind = "call"
  BY DEF Act, Activation, IsEntry

(* Who calls: the running code with its operands, or the host.             *)
LEMMA SiteCases ==
  ASSUME NEW argc, NEW c \in CallSites(argc)
  PROVE  \/ InProgram /\ c.height = height /\ c.stack = acts /\ height > Slots + argc + 1
         \/ /\ InHost /\ ~InProgram /\ c.height = height + argc + 1
            /\ c.stack = Append(acts, Act("call", 0, 0))
            /\ acts # <<>> => "host_call" \in Behaviours
  BY DEF CallSites

LEMMA SiteOfCall ==
  ASSUME NInv, NEW argc \in Nat, NEW c \in CallSites(argc)
  PROVE  /\ Site(c.stack, frames, c.height - argc - 1) /\ c.height \in Nat
         /\ c.stack # <<>> /\ Last(c.stack) = c.stack[Len(c.stack)]
         /\ Last(c.stack).kind \in {"run", "native_code", "call"}
         /\ Last(c.stack).kind = "run" => c.stack = acts
         /\ IsEntry(Last(c.stack)) <=> Last(c.stack).kind = "call"
<1>1. CASE InProgram /\ c.height = height /\ c.stack = acts /\ height > Slots + argc + 1
  <2> DEFINE p == height - argc - 1
  <2>1. /\ acts \in Seq(Activation) /\ frames \in Seq(Frame) /\ Nested(acts, frames)
        /\ Len(acts) > 0 /\ Last(acts) = acts[Len(acts)] /\ ~IsEntry(Last(acts))
        /\ Last(acts).kind \in {"run", "native_code"} /\ height \in Nat /\ acts # <<>>
    BY <1>1, Now, ProgramNow
  <2>2. p \in Nat /\ Slots < p /\ Slots \in Nat /\ Slots = TopSlots(acts, frames)
    BY <1>1, <2>1, ProgramNow
  <2> HIDE DEF p
  <2>3. Above(acts, frames, p)
    <3>1. /\ \A k \in DOMAIN frames : \/ frames[k].slots < Slots
                                      \/ k = Len(frames) /\ Last(acts).kind = "run"
          /\ \A j \in DOMAIN acts : IsWindow(acts[j]) /\ j # Len(acts) => acts[j].at < Slots
      BY <2>1, <2>2, Highest
    <3>2. Last(acts).kind = "run" => frames[Len(frames)].slots = Slots
      BY <2>1, <2>2 DEF TopSlots
    <3>3. IsWindow(acts[Len(acts)]) => acts[Len(acts)].at = Slots
      BY <2>1, <2>2 DEF TopSlots, IsWindow
    <3>4. \A k \in DOMAIN frames : frames[k].slots < p
      <4>1. \A k \in DOMAIN frames : frames[k].slots \in Nat
        BY <2>1, Frames
      <4>2. QED
        BY <2>2, <3>1, <3>2, <4>1
    <3>5. \A j \in DOMAIN acts : IsWindow(acts[j]) => acts[j].at < p
      <4>1. \A j \in DOMAIN acts : acts[j].at \in Nat
        BY <2>1, Acts
      <4>2. QED
        BY <2>2, <3>1, <3>3, <4>1
    <3>6. QED
      BY <3>4, <3>5 DEF Above
  <2>4. QED
    BY <1>1, <2>1, <2>2, <2>3 DEF Site, IsEntry, p
<1>2. CASE /\ InHost /\ c.height = height + argc + 1
           /\ c.stack = Append(acts, Act("call", 0, 0))
  <2> DEFINE x == Act("call", 0, 0)
             b == Append(acts, x)
             n == Len(acts)
  <2>1. /\ acts \in Seq(Activation) /\ frames \in Seq(Frame) /\ Nested(acts, frames) /\ height \in Nat
        /\ Above(acts, frames, height)
        /\ acts = <<>> => height = 0
        /\ acts # <<>> => acts[n].kind = "host" /\ height = acts[n].at + acts[n].argc + 1
    BY <1>2, Now, HostNow
  <2>2. x \in Activation /\ IsEntry(x) /\ x.kind = "call"
    BY Entry
  <2> HIDE DEF x
  <2>3. b \in Seq(Activation) /\ Pushed(acts, b, x) /\ b # <<>> /\ Last(b) = x
    BY <2>1, <2>2, AppendPushes
  <2>4. n \in Nat /\ (acts = <<>> <=> n = 0)
    BY <2>1, Elements
  <2> HIDE DEF b
  <2>5. Nested(b, frames)
    BY <2>1, <2>2, <2>3, <2>4, PushEntry
  <2>6. Len(b) = n + 1 /\ b[n + 1] = x /\ (\A i \in 1 .. n : b[i] = acts[i]) /\ DOMAIN b = 1 .. n + 1
        /\ DOMAIN acts = 1 .. n
    BY <2>3 DEF Pushed
  <2> HIDE DEF n
  <2>7. Above(b, frames, height)
    <3>1. ~IsWindow(x)
      BY <2>2 DEF IsWindow
    <3>2. \A j \in 1 .. n + 1 : j \in 1 .. n \/ j = n + 1
      BY <2>4
    <3>3. \A j \in DOMAIN b : IsWindow(b[j]) => b[j].at < height
      BY <2>1, <2>6, <3>1, <3>2 DEF Above
    <3>4. QED
      BY <2>1, <3>3 DEF Above
  <2>8. Base(b, n + 1) = height
    <3>1. CASE n = 0
      BY <2>1, <2>4, <3>1 DEF Base
    <3>2. CASE n > 0
      <4>1. n + 1 # 1 /\ n + 1 - 1 = n /\ b[n] = acts[n]
        BY <2>4, <2>6, <3>2
      <4>2. acts # <<>>
        BY <2>4, <3>2
      <4>3. height = b[n].at + b[n].argc + 1
        BY <2>1, <4>1, <4>2
      <4>4. Base(b, n + 1) = b[n].at + b[n].argc + 1
        BY <2>4, <3>2, <4>1 DEF Base
      <4>5. QED
        BY <4>3, <4>4
    <3>3. QED
      BY <2>4, <3>1, <3>2
  <2>9. c.height - argc - 1 = height /\ c.height \in Nat
    BY <1>2, <2>1
  <2>10. Site(b, frames, height)
    BY <2>1, <2>2, <2>3, <2>4, <2>5, <2>6, <2>7, <2>8 DEF Site
  <2>11. QED
    BY <1>2, <2>2, <2>3, <2>4, <2>6, <2>9, <2>10 DEF x, b
<1>3. QED
  BY <1>1, <1>2, SiteCases

(* A call that ends leaves its caller as it must be.                       *)
LEMMA LeaveNests ==
  ASSUME NEW stack, NEW F, NEW p, Site(stack, F, p), Left(stack, p)
  PROVE  /\ acts' \in Seq(Activation) /\ height' \in Nat
         /\ Nested(acts', F) /\ EndsAt(acts', F, height')
<1> DEFINE n == Len(stack)
           x == stack[n]
<1>1. /\ stack \in Seq(Activation) /\ F \in Seq(Frame) /\ p \in Nat /\ n > 0 /\ x.kind # "host"
      /\ Nested(stack, F) /\ Above(stack, F, p)
      /\ IsEntry(x) => p = Base(stack, n)
      /\ n \in Nat /\ stack # <<>> /\ x = Last(stack) /\ n \in DOMAIN stack /\ x \in Activation
  BY Elements DEF Site, Last
<1> HIDE DEF x
<1>2. CASE ~IsEntry(x)
  <2>1. acts' = stack /\ height' = p + 1
    BY <1>2 DEF Left, x
  <2>2. /\ TopSlots(stack, F) = IF x.kind = "run" THEN F[Len(F)].slots ELSE x.at
        /\ TopSlots(stack, F) \in Nat
        /\ x.kind = "run" => Len(F) > 0
        /\ x.kind \in {"run", "native_code"}
    BY <1>1, <1>2, Highest, ActFields DEF TopSlots, x
  <2>3. TopSlots(stack, F) < p
    <3>1. x.kind = "run" => Len(F) \in DOMAIN F
      BY <1>1, <2>2, Frames
    <3>2. x.kind = "run" => F[Len(F)].slots < p
      BY <1>1, <3>1 DEF Above
    <3>3. x.kind # "run" => x.at < p
      BY <1>1, <1>2, <2>2 DEF Above, IsWindow, x
    <3>4. QED
      BY <2>2, <3>2, <3>3
  <2>0. EndsAt(stack, F, p + 1)
    <3>1. TopSlots(stack, F) < p + 1
      BY <1>1, <2>2, <2>3
    <3>2. QED
      BY <1>1, <1>2, <2>2, <3>1 DEF EndsAt, x
  <2>4. QED
    BY <1>1, <2>0, <2>1
<1>3. CASE IsEntry(x)
  <2> DEFINE a == Front(stack)
             m == Len(a)
  <2>1. acts' = a /\ height' = p
    BY <1>3 DEF Left, x
  <2>2. a \in Seq(Activation) /\ Pushed(a, stack, x) /\ x.kind # "run" /\ p = Base(stack, n)
    <3>1. Front(stack) \in Seq(Activation) /\ Pushed(Front(stack), stack, Last(stack))
      BY <1>1, FrontPushes
    <3>2. QED
      BY <1>1, <1>3, <3>1 DEF IsEntry
  <2> HIDE DEF a
  <2>3. Nested(a, F)
    BY <1>1, <2>2, PopAct
  <2>4. /\ m \in Nat /\ n = m + 1 /\ DOMAIN stack = 1 .. m + 1 /\ DOMAIN a = 1 .. m
        /\ \A i \in 1 .. m : stack[i] = a[i]
    BY <1>1, <2>2, ActsPushed
  <2> HIDE DEF n, m
  <2>5. m > 0 => a[m].kind = "host"
    <3>1. stack[m + 1] = x /\ m + 1 \in DOMAIN stack
      BY <2>4 DEF n, x
    <3>2. EntriesNest(stack)
      BY <1>1 DEF Nested
    <3>3. IsEntry(stack[m + 1]) <=> m + 1 = 1 \/ stack[m + 1 - 1].kind = "host"
      BY <2>4, <3>1, <3>2 DEF EntriesNest
    <3>4. m > 0 => m + 1 # 1 /\ m + 1 - 1 = m /\ stack[m] = a[m]
      BY <2>4
    <3>5. QED
      BY <1>3, <3>1, <3>3, <3>4
  <2>6. m = 0 => p = 0
    BY <2>2, <2>4 DEF Base
  <2>7. m > 0 => p = a[m].at + a[m].argc + 1
    BY <2>2, <2>4 DEF Base
  <2>8. EndsAt(a, F, p)
    BY <2>4, <2>5, <2>6, <2>7 DEF EndsAt, IsEntry, m
  <2>9. QED
    BY <1>1, <2>1, <2>2, <2>3, <2>8
<1>4. QED
  BY <1>2, <1>3

(* ReturnTo, with the result of the call at p.                             *)
LEMMA ReturnToLeaves ==
  ASSUME NEW stack, NEW F, NEW p, Site(stack, F, p),
         \/ stack[Len(stack)].kind = "eval" /\ ReturnTo(stack, p)
         \/ stack[Len(stack)].kind # "eval" /\ ReturnTo(stack, p + 1)
  PROVE  Left(stack, p)
<1>1. p \in Nat /\ p + 1 - 1 = p
  BY DEF Site
<1>2. QED
  BY <1>1 DEF ReturnTo, Left, Last, IsEntry

LEMMA LeaveNInv ==
  ASSUME TypeOK, NEW stack, NEW F, NEW p, Site(stack, F, p), Left(stack, p), frames' = F,
         UNCHANGED <<tier, held>>
  PROVE  NInv'
<1>1. /\ acts' \in Seq(Activation) /\ height' \in Nat
      /\ Nested(acts', F) /\ EndsAt(acts', F, height') /\ F \in Seq(Frame)
  BY LeaveNests DEF Site
<1>2. TypeOK'
  BY <1>1 DEF TypeOK
<1>3. QED
  BY <1>1, <1>2, NestedThen DEF NInv
----------------------------------------------------------------------------
(* Each action keeps the nesting.                                          *)

(* A failure that no host function stands by takes everything away.        *)
LEMMA FailureResets ==
  ASSUME Disciplined, NEW stack \in Seq(Activation), EntriesNest(stack), RuntimeError(stack)
  PROVE  acts' = <<>> /\ frames' = <<>> /\ height' = 0
<1>1. \A i \in DOMAIN stack : stack[i].kind # "host"
  BY DEF RuntimeError, Disciplined
<1>2. PICK i \in DOMAIN stack : IsEntry(stack[i]) /\ acts' = SubSeq(stack, 1, i - 1)
  BY DEF RuntimeError
<1>3. i = 1
  <2>1. i = 1 \/ stack[i - 1].kind = "host"
    BY <1>2 DEF EntriesNest
  <2>2. i = 1 \/ i - 1 \in DOMAIN stack
    BY Elements
  <2>3. QED
    BY <1>1, <2>1, <2>2
<1>4. SubSeq(stack, 1, 0) = <<>>
  BY SubSeqEmpty
<1>5. QED
  BY <1>2, <1>3, <1>4 DEF RuntimeError

LEMMA ResetNInv ==
  ASSUME acts' = <<>>, frames' = <<>>, height' = 0, held' \subseteq Functions,
         tier' \in [Functions -> {"bytecode", "native", "disabled"}]
  PROVE  NInv'
<1>1. <<>> \in Seq(Activation) /\ <<>> \in Seq(Frame)
  BY EmptySeq
<1>2. TypeOK'
  BY <1>1 DEF TypeOK
<1>3. QED
  BY <1>2, EmptyNests, NestedThen DEF NInv

LEMMA InitNInv == Init => NInv
<1> SUFFICES ASSUME Init PROVE NInv
  OBVIOUS
<1>1. <<>> \in Seq(Activation) /\ <<>> \in Seq(Frame)
  BY EmptySeq
<1>2. TypeOK
  BY <1>1 DEF TypeOK, Init
<1>3. QED
  BY <1>2, EmptyNests DEF NInv, Init

LEMMA SameStackNInv ==
  ASSUME NInv, UNCHANGED <<height, frames, acts>>, held' \subseteq Functions,
         tier' \in [Functions -> {"bytecode", "native", "disabled"}]
  PROVE  NInv'
<1>1. TypeOK'
  BY DEF NInv, TypeOK
<1>2. QED
  BY <1>1, NestedThen DEF NInv

LEMMA TierType ==
  ASSUME NInv, NEW f \in Functions, NEW t \in Tiers(f)
  PROVE  [tier EXCEPT ![f] = t] \in [Functions -> {"bytecode", "native", "disabled"}]
<1>1. tier \in [Functions -> {"bytecode", "native", "disabled"}]
  BY DEF NInv, TypeOK
<1>2. t \in {"bytecode", "native", "disabled"}
  BY <1>1 DEF Tiers
<1>3. QED
  BY <1>1, <1>2

LEMMA ArityType ==
  ASSUME NEW f \in Functions
  PROVE  Arity[f] \in Nat /\ Arity[f] <= MaxArgs /\ MaxArgs \in Nat
  BY CallStackAssumption

(* A callee with its own frame, at p.                                      *)
LEMMA NewFrame ==
  ASSUME NEW F \in Seq(Frame), NEW fn \in Functions \cup {Script}, NEW p \in Nat
  PROVE  LET f == [fn |-> fn, slots |-> p]
         IN  /\ f \in Frame /\ f.slots = p /\ f.fn = fn
             /\ Append(F, f) \in Seq(Frame) /\ Pushed(F, Append(F, f), f)
             /\ Len(Append(F, f)) = Len(F) + 1 /\ Append(F, f)[Len(F) + 1] = f
<1> DEFINE f == [fn |-> fn, slots |-> p]
<1>1. f \in Frame /\ f.slots = p /\ f.fn = fn
  BY DEF Frame
<1> HIDE DEF f
<1>2. Append(F, f) \in Seq(Frame) /\ Pushed(F, Append(F, f), f)
  BY <1>1, AppendPushes
<1>3. Len(Append(F, f)) = Len(F) + 1 /\ Append(F, f)[Len(F) + 1] = f
  BY <1>2 DEF Pushed
<1>4. QED
  BY <1>1, <1>2, <1>3 DEF f

LEMMA NewAct ==
  ASSUME NEW a \in Seq(Activation), NEW x \in Activation
  PROVE  /\ Append(a, x) \in Seq(Activation) /\ Pushed(a, Append(a, x), x)
         /\ Append(a, x) # <<>> /\ Last(Append(a, x)) = x
         /\ Len(Append(a, x)) = Len(a) + 1 /\ Append(a, x)[Len(a) + 1] = x
         /\ Len(Append(a, x)) > 0
<1>1. /\ Append(a, x) \in Seq(Activation) /\ Pushed(a, Append(a, x), x)
      /\ Append(a, x) # <<>> /\ Last(Append(a, x)) = x
  BY AppendPushes
<1>2. QED
  BY <1>1 DEF Pushed

LEMMA CallFrameNests ==
  ASSUME NEW stack, NEW F, NEW p, Site(stack, F, p), NEW fn \in Functions,
         stack[Len(stack)].kind = "run"
  PROVE  Nested(stack, Append(F, [fn |-> fn, slots |-> p]))
<1> DEFINE f == [fn |-> fn, slots |-> p]
           G == Append(F, f)
<1>1. /\ stack \in Seq(Activation) /\ F \in Seq(Frame) /\ p \in Nat /\ Len(stack) > 0
      /\ Nested(stack, F) /\ Above(stack, F, p)
  BY DEF Site
<1>2. f \in Frame /\ f.slots = p /\ f.fn # Script /\ G \in Seq(Frame) /\ Pushed(F, G, f)
  BY <1>1, NewFrame, CallStackAssumption
<1> HIDE DEF f, G
<1>3. Nested(stack, G)
  BY <1>1, <1>2, PushFrame
<1>4. QED
  BY <1>3 DEF G, f

LEMMA CallRunNests ==
  ASSUME NEW stack, NEW F, NEW p, Site(stack, F, p), NEW fn \in Functions \cup {Script},
         stack[Len(stack)].kind # "run", fn = Script <=> stack[Len(stack)].kind = "eval"
  PROVE  /\ Nested(Append(stack, Act("run", Len(F), 0)), Append(F, [fn |-> fn, slots |-> p]))
         /\ Append(stack, Act("run", Len(F), 0)) \in Seq(Activation)
<1> DEFINE f == [fn |-> fn, slots |-> p]
           G == Append(F, f)
           x == Act("run", Len(F), 0)
           b == Append(stack, x)
<1>1. /\ stack \in Seq(Activation) /\ F \in Seq(Frame) /\ p \in Nat /\ Len(stack) > 0
      /\ Nested(stack, F) /\ Above(stack, F, p)
      /\ IsEntry(stack[Len(stack)]) => p = Base(stack, Len(stack))
      /\ stack[Len(stack)].kind # "host"
  BY DEF Site
<1>2. f \in Frame /\ f.slots = p /\ f.fn = fn /\ G \in Seq(Frame) /\ Pushed(F, G, f)
  BY <1>1, NewFrame
<1>3. x \in Activation /\ x.kind = "run" /\ x.at = Len(F)
  BY <1>1, Frames DEF Act, Activation
<1>4. stack[Len(stack)].kind \in {"native_code", "call", "eval"}
  BY <1>1, Acts
<1> HIDE DEF f, G, x
<1>5. b \in Seq(Activation) /\ Pushed(stack, b, x)
  BY <1>1, <1>3, NewAct
<1> HIDE DEF b
<1>6. Nested(b, G)
  BY <1>1, <1>2, <1>3, <1>4, <1>5, PushRun
<1>7. QED
  BY <1>5, <1>6 DEF f, G, x, b

LEMMA CallWindowNests ==
  ASSUME NEW stack, NEW F, NEW p, Site(stack, F, p), stack[Len(stack)].kind # "eval",
         NEW x \in Activation, IsWindow(x), x.at = p
  PROVE  /\ Nested(Append(stack, x), F)
         /\ Append(stack, x) \in Seq(Activation)
<1>1. /\ stack \in Seq(Activation) /\ F \in Seq(Frame) /\ p \in Nat /\ Len(stack) > 0
      /\ Nested(stack, F) /\ Above(stack, F, p)
      /\ IsEntry(stack[Len(stack)]) => p = Base(stack, Len(stack))
      /\ stack[Len(stack)].kind # "host"
  BY DEF Site
<1>2. /\ stack[Len(stack)].kind \in {"run", "native_code", "call"}
      /\ stack[Len(stack)].kind = "call" => IsEntry(stack[Len(stack)])
  BY <1>1, Acts DEF IsEntry
<1>3. Append(stack, x) \in Seq(Activation) /\ Pushed(stack, Append(stack, x), x)
  BY <1>1, NewAct
<1>4. QED
  BY <1>1, <1>2, <1>3, PushWindow

LEMMA CallBytecodeNInv ==
  ASSUME NInv, CallBytecode
  PROVE  NInv'
<1>1. PICK f \in held : \E c \in CallSites(Arity[f]), t \in Tiers(f) :
            /\ frames' = Append(frames, [fn |-> f, slots |-> c.height - Arity[f] - 1])
            /\ acts' = IF Last(c.stack).kind = "run" THEN c.stack
                       ELSE Append(c.stack, Act("run", Saved, 0))
            /\ height' = c.height
            /\ tier' = [tier EXCEPT ![f] = t]
            /\ UNCHANGED held
  BY DEF CallBytecode
<1>2. f \in Functions /\ held \subseteq Functions
  BY Now
<1>3. Arity[f] \in Nat
  BY <1>2, ArityType
<1>4. PICK c \in CallSites(Arity[f]), t \in Tiers(f) :
            /\ frames' = Append(frames, [fn |-> f, slots |-> c.height - Arity[f] - 1])
            /\ acts' = IF Last(c.stack).kind = "run" THEN c.stack
                       ELSE Append(c.stack, Act("run", Saved, 0))
            /\ height' = c.height
            /\ tier' = [tier EXCEPT ![f] = t]
            /\ UNCHANGED held
  BY <1>1
<1> DEFINE p == c.height - Arity[f] - 1
<1>5. /\ Site(c.stack, frames, p) /\ c.height \in Nat
      /\ Last(c.stack) = c.stack[Len(c.stack)]
      /\ Last(c.stack).kind \in {"run", "native_code", "call"}
  BY <1>3, SiteOfCall
<1>6. p \in Nat /\ p < c.height
  BY <1>3, <1>5 DEF Site
<1> HIDE DEF p
<1>7. f # Script
  BY <1>2, CallStackAssumption
<1>8. acts' \in Seq(Activation) /\ Nested(acts', frames') /\ Len(acts') > 0
      /\ acts'[Len(acts')].kind = "run"
  <2>1. CASE Last(c.stack).kind = "run"
    <3>1. acts' = c.stack /\ frames' = Append(frames, [fn |-> f, slots |-> p])
      BY <1>4, <2>1 DEF p
    <3>2. Nested(c.stack, Append(frames, [fn |-> f, slots |-> p]))
      BY <1>2, <1>5, <2>1, CallFrameNests
    <3>3. QED
      BY <1>5, <2>1, <3>1, <3>2 DEF Site
  <2>2. CASE Last(c.stack).kind # "run"
    <3> DEFINE x == Act("run", Len(frames), 0)
    <3>1. acts' = Append(c.stack, x) /\ frames' = Append(frames, [fn |-> f, slots |-> p])
      BY <1>4, <2>2 DEF p, Saved
    <3>2. /\ Nested(Append(c.stack, x), Append(frames, [fn |-> f, slots |-> p]))
          /\ Append(c.stack, x) \in Seq(Activation)
      BY <1>2, <1>5, <1>7, <2>2, CallRunNests
    <3>3. x \in Activation /\ x.kind = "run"
      BY Now, Frames DEF Act, Activation
    <3> HIDE DEF x
    <3>4. Len(Append(c.stack, x)) > 0 /\ Append(c.stack, x)[Len(Append(c.stack, x))] = x
      BY <1>5, <3>3, NewAct DEF Site
    <3>5. QED
      BY <3>1, <3>2, <3>3, <3>4
  <2>3. QED
    BY <2>1, <2>2
<1>9. frames' \in Seq(Frame) /\ frames'[Len(frames')].slots = p
  BY <1>2, <1>4, <1>6, NewFrame, Now DEF p
<1>10. EndsAt(acts', frames', height')
  BY <1>4, <1>6, <1>8, <1>9 DEF EndsAt, IsEntry
<1>11. TypeOK'
  BY <1>2, <1>4, <1>5, <1>8, <1>9, TierType DEF TypeOK
<1>12. QED
  BY <1>8, <1>10, <1>11, NestedThen DEF NInv

LEMMA CallWindowNInv ==
  ASSUME NInv, NEW argc \in Nat, NEW c \in CallSites(argc),
         NEW x \in Activation, x.kind \in {"native_code", "host"}, x.at = c.height - argc - 1,
         x.kind = "host" => x.argc = argc,
         acts' = Append(c.stack, x), height' = c.height, UNCHANGED <<frames, held>>,
         tier' \in [Functions -> {"bytecode", "native", "disabled"}]
  PROVE  NInv'
<1> DEFINE p == c.height - argc - 1
<1>1. /\ Site(c.stack, frames, p) /\ c.height \in Nat
      /\ Last(c.stack) = c.stack[Len(c.stack)]
      /\ Last(c.stack).kind \in {"run", "native_code", "call"}
  BY SiteOfCall
<1>2. p \in Nat /\ p < c.height /\ c.height = p + argc + 1
  BY <1>1 DEF Site
<1>3. x.at = p /\ IsWindow(x)
  BY DEF IsWindow
<1> HIDE DEF p
<1>4. acts' \in Seq(Activation) /\ Nested(acts', frames)
  BY <1>1, <1>3, CallWindowNests
<1>5. Len(acts') > 0 /\ acts'[Len(acts')] = x
  BY <1>1, NewAct DEF Site
<1>6. EndsAt(acts', frames, height')
  BY <1>2, <1>3, <1>5 DEF EndsAt, IsEntry
<1>7. TypeOK'
  BY <1>1, <1>4 DEF NInv, TypeOK
<1>8. QED
  BY <1>4, <1>6, <1>7, NestedThen DEF NInv

LEMMA CallNativeCodeNInv ==
  ASSUME NInv, CallNativeCode
  PROVE  NInv'
<1>1. PICK f \in held : \E c \in CallSites(Arity[f]), bare \in {{}, {f}} :
            /\ "native" \in Tiers(f)
            /\ acts' = Append(c.stack, [Act("native_code", c.height - Arity[f] - 1, 0)
                                            EXCEPT !.bare = bare])
            /\ height' = c.height
            /\ tier' = [tier EXCEPT ![f] = "native"]
            /\ UNCHANGED <<frames, held>>
  BY DEF CallNativeCode
<1>2. f \in Functions /\ Arity[f] \in Nat
  BY Now, ArityType
<1>3. PICK c \in CallSites(Arity[f]), bare \in {{}, {f}} :
            /\ "native" \in Tiers(f)
            /\ acts' = Append(c.stack, [Act("native_code", c.height - Arity[f] - 1, 0)
                                            EXCEPT !.bare = bare])
            /\ height' = c.height
            /\ tier' = [tier EXCEPT ![f] = "native"]
            /\ UNCHANGED <<frames, held>>
  BY <1>1
<1> DEFINE p == c.height - Arity[f] - 1
           x == [Act("native_code", p, 0) EXCEPT !.bare = bare]
<1>4. p \in Nat
  BY <1>2, SiteOfCall DEF Site
<1>5. x \in Activation /\ x.kind = "native_code" /\ x.at = p
  BY <1>2, <1>4 DEF Act, Activation
<1>6. tier' \in [Functions -> {"bytecode", "native", "disabled"}]
  BY <1>2, <1>3, TierType
<1> HIDE DEF x
<1>7. acts' = Append(c.stack, x)
  BY <1>3 DEF x
<1>8. QED
  BY <1>2, <1>3, <1>5, <1>6, <1>7, CallWindowNInv

LEMMA CallHostNInv ==
  ASSUME NInv, CallHost
  PROVE  NInv'
<1>1. PICK argc \in 0 .. MaxArgs : \E c \in CallSites(argc) :
            /\ acts' = Append(c.stack, Act("host", c.height - argc - 1, argc))
            /\ height' = c.height
            /\ UNCHANGED <<frames, tier, held>>
  BY DEF CallHost
<1>2. PICK c \in CallSites(argc) :
            /\ acts' = Append(c.stack, Act("host", c.height - argc - 1, argc))
            /\ height' = c.height
            /\ UNCHANGED <<frames, tier, held>>
  BY <1>1
<1> DEFINE p == c.height - argc - 1
           x == Act("host", p, argc)
<1>3. argc \in Nat
  OBVIOUS
<1>4. p \in Nat
  BY <1>3, SiteOfCall DEF Site
<1>5. x \in Activation /\ x.kind = "host" /\ x.at = p /\ x.argc = argc
  BY <1>3, <1>4 DEF Act, Activation
<1>6. tier' \in [Functions -> {"bytecode", "native", "disabled"}]
  BY <1>2 DEF NInv, TypeOK
<1> HIDE DEF x
<1>7. acts' = Append(c.stack, x)
  BY <1>2 DEF x
<1>8. QED
  BY <1>2, <1>3, <1>5, <1>6, <1>7, CallWindowNInv
----------------------------------------------------------------------------
(* Where a call that ends was made: its activation or its frame is taken   *)
(* away, and the loop with it if that was the loop's own.                  *)
WindowEnds(stack, F, p) ==
    \E x \in Activation : IsWindow(x) /\ x.at = p /\ Pushed(stack, acts, x) /\ F = frames
FrameEnds(stack, F, p) ==
    \E f \in Frame : /\ f.slots = p /\ Pushed(F, frames, f)
                     /\ stack = acts /\ Len(acts) > 0
                     /\ acts[Len(acts)].kind = "run" /\ acts[Len(acts)].at < Len(F)
LoopEnds(stack, F, p) ==
    \E f \in Frame, x \in Activation :
       /\ f.slots = p /\ Pushed(F, frames, f)
       /\ x.kind = "run" /\ x.at = Len(F) /\ Pushed(stack, acts, x)

LEMMA CallerOf ==
  ASSUME NInv, NEW stack \in Seq(Activation), NEW x \in Activation, Pushed(stack, acts, x),
         ~IsEntry(x)
  PROVE  /\ Len(stack) > 0 /\ Len(stack) \in Nat /\ Len(acts) = Len(stack) + 1
         /\ stack[Len(stack)].kind # "host" /\ acts[Len(acts)] = x /\ acts # <<>>
         /\ IsEntry(stack[Len(stack)]) =>
               /\ IsWindow(x) => x.at = Base(stack, Len(stack))
               /\ x.kind = "run" => frames[x.at + 1].slots = Base(stack, Len(stack))
         /\ stack[Len(stack)].kind = "eval" => x.kind = "run" /\ x.at = 0 /\ Len(stack) = 1
         /\ x.kind = "run" => stack[Len(stack)].kind # "run"
<1> DEFINE n == Len(stack)
<1>1. /\ n \in Nat /\ Len(acts) = n + 1 /\ DOMAIN acts = 1 .. n + 1 /\ DOMAIN stack = 1 .. n
      /\ acts[n + 1] = x /\ \A i \in 1 .. n : acts[i] = stack[i]
  BY Now, ActsPushed
<1>2. EntriesNest(acts) /\ EntriesStart(acts, frames)
  BY Now DEF Nested
<1>3. acts # <<>>
  <2>1. Len(acts) # 0
    BY <1>1
  <2>2. QED
    BY <2>1, Now, Elements
<1> HIDE DEF n
<1>4. n > 0
  <2>1. n = 0 => 1 \in DOMAIN acts /\ acts[1] = x
    BY <1>1
  <2>2. QED
    BY <1>1, <1>2, <2>1 DEF EntriesNest
<1>5. n \in 1 .. n /\ n \in DOMAIN acts /\ n + 1 \in DOMAIN acts /\ acts[n] = stack[n]
      /\ n + 1 - 1 = n /\ n + 1 # 1
  BY <1>1, <1>4
<1>6. stack[n].kind # "host"
  <2>1. IsEntry(acts[n + 1]) <=> n + 1 = 1 \/ acts[n + 1 - 1].kind = "host"
    BY <1>1, <1>2, <1>5 DEF EntriesNest
  <2>2. QED
    BY <1>1, <1>5, <2>1
<1>7. ASSUME IsEntry(stack[n])
      PROVE  /\ IsWindow(x) => x.at = Base(stack, n)
             /\ x.kind = "run" => frames[x.at + 1].slots = Base(stack, n)
  <2>1. Base(acts, n) = Base(stack, n)
    BY <1>1, <1>4 DEF Base
  <2>2. n < Len(acts)
    BY <1>1
  <2>3. /\ IsWindow(acts[n + 1]) => acts[n + 1].at = Base(acts, n)
        /\ acts[n + 1].kind = "run" => frames[acts[n + 1].at + 1].slots = Base(acts, n)
    BY <1>2, <1>5, <1>7, <2>2 DEF EntriesStart
  <2>4. QED
    BY <1>1, <2>1, <2>3
<1>8. ASSUME stack[n].kind = "eval" PROVE x.kind = "run" /\ x.at = 0 /\ n = 1
  <2>1. n = 1
    BY <1>2, <1>5, <1>8 DEF EntriesNest
  <2>2. 2 \in DOMAIN acts /\ acts[2] = x /\ acts[1].kind = "eval"
    BY <1>1, <1>5, <1>8, <2>1
  <2>3. QED
    BY <1>2, <2>1, <2>2 DEF EntriesNest
<1>9. x.kind = "run" => stack[n].kind # "run"
  <2>1. acts[n + 1].kind = "run" => acts[n + 1 - 1].kind # "run"
    BY <1>1, <1>2, <1>5 DEF EntriesNest
  <2>2. QED
    BY <1>1, <1>5, <2>1
<1>10. QED
  BY <1>1, <1>3, <1>4, <1>6, <1>7, <1>8, <1>9 DEF n

LEMMA WindowSite ==
  ASSUME NInv, NEW stack \in Seq(Activation), NEW F, NEW p, WindowEnds(stack, F, p)
  PROVE  Site(stack, F, p) /\ stack[Len(stack)].kind # "eval"
<1>1. PICK x \in Activation : IsWindow(x) /\ x.at = p /\ Pushed(stack, acts, x) /\ F = frames
  BY DEF WindowEnds
<1>2. ~IsEntry(x) /\ x.kind # "run" /\ p \in Nat
  BY <1>1, ActFields
<1>3. acts \in Seq(Activation) /\ frames \in Seq(Frame) /\ Nested(acts, frames)
  BY Now
<1>4. /\ Len(stack) > 0 /\ Len(stack) \in Nat /\ Len(acts) = Len(stack) + 1
      /\ stack[Len(stack)].kind # "host" /\ acts[Len(acts)] = x
      /\ IsEntry(stack[Len(stack)]) => p = Base(stack, Len(stack))
      /\ stack[Len(stack)].kind # "eval"
  BY <1>1, <1>2, CallerOf
<1>5. Nested(stack, frames)
  BY <1>1, <1>2, <1>3, PopAct
<1>6. Above(stack, frames, p)
  <2> DEFINE n == Len(stack)
  <2>1. n \in Nat /\ Len(acts) = n + 1 /\ DOMAIN acts = 1 .. n + 1 /\ DOMAIN stack = 1 .. n
        /\ \A i \in 1 .. n : acts[i] = stack[i]
    BY <1>1, <1>3, ActsPushed
  <2>2. Len(acts) > 0 /\ TopSlots(acts, frames) = p
    BY <1>1, <1>2, <1>4 DEF TopSlots
  <2>3. /\ \A k \in DOMAIN frames : frames[k].slots < p
        /\ \A j \in DOMAIN acts : IsWindow(acts[j]) /\ j # Len(acts) => acts[j].at < p
    BY <1>2, <1>3, <1>4, <2>2, Highest
  <2> HIDE DEF n
  <2>4. \A j \in 1 .. n : IsWindow(stack[j]) => stack[j].at < p
    <3>1. \A j \in 1 .. n : j \in DOMAIN acts /\ j # Len(acts) /\ acts[j] = stack[j]
      BY <2>1
    <3>2. QED
      BY <2>3, <3>1
  <2>5. QED
    BY <2>1, <2>3, <2>4 DEF Above
<1>7. QED
  BY <1>1, <1>2, <1>3, <1>4, <1>5, <1>6 DEF Site

LEMMA RunningFrame ==
  ASSUME NInv, NEW F \in Seq(Frame), NEW f \in Frame, Pushed(F, frames, f),
         Len(acts) > 0, acts[Len(acts)].kind = "run"
  PROVE  /\ \A k \in DOMAIN F : F[k].slots < f.slots
         /\ \A j \in DOMAIN acts : IsWindow(acts[j]) => acts[j].at < f.slots
<1> DEFINE m == Len(F)
<1>1. m \in Nat /\ Len(frames) = m + 1 /\ DOMAIN frames = 1 .. m + 1 /\ DOMAIN F = 1 .. m
      /\ frames[m + 1] = f /\ \A k \in 1 .. m : frames[k] = F[k]
  BY Now, FramesPushed
<1>2. TopSlots(acts, frames) = f.slots /\ ~IsEntry(acts[Len(acts)]) /\ ~IsWindow(acts[Len(acts)])
  BY <1>1 DEF TopSlots, IsEntry, IsWindow
<1>3. /\ \A k \in DOMAIN frames : frames[k].slots < f.slots \/ k = Len(frames)
      /\ \A j \in DOMAIN acts : IsWindow(acts[j]) /\ j # Len(acts) => acts[j].at < f.slots
  BY <1>2, Now, Highest
<1> HIDE DEF m
<1>4. \A k \in 1 .. m : k \in DOMAIN frames /\ k # Len(frames) /\ frames[k] = F[k]
  BY <1>1
<1>5. QED
  BY <1>1, <1>2, <1>3, <1>4

LEMMA FrameSite ==
  ASSUME NInv, NEW stack \in Seq(Activation), NEW F \in Seq(Frame), NEW p, FrameEnds(stack, F, p)
  PROVE  Site(stack, F, p) /\ stack[Len(stack)].kind # "eval"
<1>1. PICK f \in Frame : /\ f.slots = p /\ Pushed(F, frames, f)
                         /\ stack = acts /\ Len(acts) > 0
                         /\ acts[Len(acts)].kind = "run" /\ acts[Len(acts)].at < Len(F)
  BY DEF FrameEnds
<1>2. acts \in Seq(Activation) /\ frames \in Seq(Frame) /\ Nested(acts, frames)
  BY Now
<1>3. Nested(acts, F)
  BY <1>1, <1>2, PopFrame
<1>4. Above(acts, F, p)
  BY <1>1, RunningFrame DEF Above
<1>5. p \in Nat
  BY <1>1, FrameFields
<1>6. QED
  BY <1>1, <1>2, <1>3, <1>4, <1>5 DEF Site, IsEntry

LEMMA LoopSite ==
  ASSUME NInv, NEW stack \in Seq(Activation), NEW F \in Seq(Frame), NEW p, LoopEnds(stack, F, p)
  PROVE  Site(stack, F, p)
<1>1. PICK f \in Frame, x \in Activation :
            /\ f.slots = p /\ Pushed(F, frames, f)
            /\ x.kind = "run" /\ x.at = Len(F) /\ Pushed(stack, acts, x)
  BY DEF LoopEnds
<1>2. acts \in Seq(Activation) /\ frames \in Seq(Frame) /\ Nested(acts, frames)
  BY Now
<1>3. ~IsEntry(x) /\ p \in Nat
  BY <1>1, FrameFields DEF IsEntry
<1>4. frames[x.at + 1].slots = p
  BY <1>1 DEF Pushed
<1>5. /\ Len(stack) > 0 /\ Len(stack) \in Nat /\ Len(acts) = Len(stack) + 1
      /\ stack[Len(stack)].kind # "host" /\ acts[Len(acts)] = x
      /\ IsEntry(stack[Len(stack)]) => p = Base(stack, Len(stack))
  BY <1>1, <1>3, <1>4, CallerOf
<1>6. Nested(stack, F)
  BY <1>1, <1>2, PopRun
<1>7. Above(stack, F, p)
  <2>1. Len(acts) > 0
    BY <1>5
  <2>2. /\ \A k \in DOMAIN F : F[k].slots < p
        /\ \A j \in DOMAIN acts : IsWindow(acts[j]) => acts[j].at < p
    BY <1>1, <1>5, <2>1, RunningFrame
  <2>3. \A j \in DOMAIN stack : j \in DOMAIN acts /\ acts[j] = stack[j]
    BY <1>1 DEF Pushed
  <2>4. QED
    BY <2>2, <2>3 DEF Above
<1>8. QED
  BY <1>3, <1>5, <1>6, <1>7 DEF Site

LEMMA WindowReturns ==
  ASSUME NInv, \/ ReturnNativeCode
               \/ ReturnHost
  PROVE  \E stack \in Seq(Activation), p \in Nat :
            WindowEnds(stack, frames, p) /\ Left(stack, p) /\ UNCHANGED <<frames, tier, held>>
<1> DEFINE stack == Front(acts)
           x == Last(acts)
<1>1. acts # <<>> /\ x.kind \in {"native_code", "host"}
  BY DEF ReturnNativeCode, ReturnHost, InNativeCode, Running
<1>2. acts \in Seq(Activation) /\ frames \in Seq(Frame) /\ height \in Nat
      /\ Len(acts) > 0 /\ x = acts[Len(acts)]
  BY <1>1, Now
<1>3. stack \in Seq(Activation) /\ Pushed(stack, acts, x) /\ x \in Activation
  BY <1>1, <1>2, FrontPushes
<1>4. x.at \in Nat /\ x.argc \in Nat /\ IsWindow(x)
  BY <1>1, <1>3, ActFields
<1>5. ReturnTo(stack, x.at + 1)
  <2>1. CASE ReturnNativeCode
    <3>1. Slots = x.at
      BY <2>1 DEF ReturnNativeCode, InNativeCode, InBytecode, Slots
    <3>2. QED
      BY <2>1, <3>1 DEF ReturnNativeCode
  <2>2. CASE ReturnHost
    <3>1. InHost
      BY <2>2 DEF ReturnHost, InHost
    <3>2. height = x.at + x.argc + 1
      BY <1>1, <3>1, HostNow
    <3>3. height - x.argc = x.at + 1
      BY <1>4, <3>2
    <3>4. QED
      BY <2>2, <3>3 DEF ReturnHost
  <2>3. QED
    BY <2>1, <2>2
<1>6. UNCHANGED <<frames, tier, held>>
  BY DEF ReturnNativeCode, ReturnHost
<1> HIDE DEF stack, x
<1>7. WindowEnds(stack, frames, x.at)
  BY <1>3, <1>4 DEF WindowEnds
<1>8. Left(stack, x.at)
  BY <1>3, <1>5, <1>7, WindowSite, ReturnToLeaves
<1>9. QED
  BY <1>3, <1>4, <1>6, <1>7, <1>8

LEMMA BytecodeReturns ==
  ASSUME Disciplined, NInv, ReturnBytecode
  PROVE  \E stack \in Seq(Activation), F \in Seq(Frame), p \in Nat :
            /\ FrameEnds(stack, F, p) \/ LoopEnds(stack, F, p)
            /\ Left(stack, p) /\ frames' = F /\ UNCHANGED <<tier, held>>
<1> DEFINE f == Last(frames)
           F == Front(frames)
           x == Last(acts)
           stack == Front(acts)
           p == f.slots
<1>1. /\ acts # <<>> /\ x.kind = "run" /\ frames # <<>>
      /\ acts \in Seq(Activation) /\ frames \in Seq(Frame) /\ height \in Nat
      /\ Len(acts) > 0 /\ x = acts[Len(acts)] /\ Nested(acts, frames)
  BY Now DEF ReturnBytecode, InBytecode, Running
<1>2. /\ F \in Seq(Frame) /\ Pushed(F, frames, f) /\ f \in Frame
      /\ stack \in Seq(Activation) /\ Pushed(stack, acts, x) /\ x \in Activation
  BY <1>1, FrontPushes
<1>3. /\ height > p + 1 /\ frames' = F /\ UNCHANGED <<tier, held>>
      /\ f.fn = Script => ~(height > p + 2)
      /\ IF F = <<>> /\ f.fn = Script THEN ReturnTo(stack, height - 2)
         ELSE IF Len(F) = x.at THEN ReturnTo(stack, p + 1)
         ELSE height' = p + 1 /\ UNCHANGED acts
  BY DEF ReturnBytecode, Disciplined
<1> HIDE DEF f, F, x, stack
<1>4. p \in Nat /\ Len(F) \in Nat /\ Len(frames) = Len(F) + 1 /\ frames[Len(F) + 1] = f
      /\ x.at \in Nat
  BY <1>1, <1>2, FrameFields, ActFields, Frames DEF Pushed
<1>5. x.at < Len(F) + 1
  <2>1. Len(acts) \in DOMAIN acts
    BY <1>1, Elements
  <2>2. x.at < Len(frames)
    BY <1>1, <2>1 DEF Nested, RunnersNest
  <2>3. QED
    BY <1>4, <2>2
<1>6. F = <<>> <=> Len(F) = 0
  BY <1>2, Elements
<1>7. ~IsEntry(x)
  BY <1>1 DEF IsEntry
<1>8. /\ Len(stack) > 0 /\ Len(stack) \in Nat /\ Len(acts) = Len(stack) + 1
      /\ stack[Len(stack)].kind = "eval" => x.at = 0 /\ Len(stack) = 1
  BY <1>1, <1>2, <1>7, CallerOf
<1>9. \A k \in DOMAIN frames : frames[k].fn = Script <=> k = 1 /\ acts[1].kind = "eval"
  BY <1>1 DEF Nested, ScriptIsFirst
<1>10. acts[1] = stack[1]
  BY <1>2, <1>8 DEF Pushed
<1>11. CASE F = <<>> /\ f.fn = Script
  <2>1. x.at = Len(F)
    BY <1>4, <1>5, <1>6, <1>11
  <2>2. LoopEnds(stack, F, p)
    BY <1>1, <1>2, <2>1 DEF LoopEnds
  <2>3. stack[1].kind = "eval"
    <3>1. 1 \in DOMAIN frames /\ frames[1] = f
      BY <1>2, <1>4, <1>6, <1>11 DEF Pushed
    <3>2. QED
      BY <1>9, <1>10, <1>11, <3>1
  <2>4. Len(stack) = 1
    <3>1. RunnersNest(acts, frames) /\ EntriesNest(acts)
      BY <1>1 DEF Nested
    <3> DEFINE n == Len(stack)
    <3>2. /\ n \in Nat /\ n > 0 /\ DOMAIN acts = 1 .. n + 1 /\ acts[n + 1] = x
      BY <1>2, <1>8, Acts DEF Pushed
    <3> HIDE DEF n
    <3>3. 2 \in DOMAIN acts /\ acts[2].kind = "run" /\ acts[2].at = 0
      BY <1>10, <2>3, <3>1, <3>2 DEF EntriesNest
    <3>4. n + 1 \in DOMAIN acts /\ acts[n + 1].kind = "run" /\ acts[n + 1].at = 0
      BY <1>1, <1>6, <1>11, <2>1, <3>2
    <3>5. ~(2 < n + 1)
      BY <3>1, <3>3, <3>4 DEF RunnersNest
    <3>6. n = 1
      BY <3>2, <3>5
    <3>7. QED
      BY <3>6 DEF n
  <2>5. Site(stack, F, p)
    BY <1>2, <2>2, LoopSite
  <2>6. p = 0
    BY <2>3, <2>4, <2>5 DEF Site, IsEntry, Base
  <2>7. height - 2 = p
    BY <1>1, <1>3, <1>4, <1>11, <2>6
  <2>8. Left(stack, p)
    BY <1>3, <1>11, <2>3, <2>4, <2>5, <2>7, ReturnToLeaves
  <2>9. QED
    BY <1>2, <1>3, <1>4, <2>2, <2>8
<1>12. CASE ~(F = <<>> /\ f.fn = Script) /\ Len(F) = x.at
  <2>1. LoopEnds(stack, F, p)
    BY <1>1, <1>2, <1>12 DEF LoopEnds
  <2>2. Site(stack, F, p)
    BY <1>2, <2>1, LoopSite
  <2>3. stack[Len(stack)].kind # "eval"
    <3>1. SUFFICES ASSUME stack[Len(stack)].kind = "eval" PROVE FALSE
      OBVIOUS
    <3>2. F = <<>> /\ acts[1].kind = "eval"
      BY <1>6, <1>8, <1>10, <1>12, <3>1
    <3>3. 1 \in DOMAIN frames /\ frames[1] = f
      BY <1>2, <1>4, <1>6, <3>2 DEF Pushed
    <3>4. QED
      BY <1>9, <1>12, <3>2, <3>3
  <2>4. Left(stack, p)
    BY <1>3, <1>12, <2>2, <2>3, ReturnToLeaves
  <2>5. QED
    BY <1>2, <1>3, <1>4, <2>1, <2>4
<1>13. CASE ~(F = <<>> /\ f.fn = Script) /\ Len(F) # x.at
  <2>1. x.at < Len(F)
    BY <1>4, <1>5, <1>13
  <2>2. FrameEnds(acts, F, p)
    BY <1>1, <1>2, <2>1 DEF FrameEnds
  <2>3. Left(acts, p)
    BY <1>1, <1>3, <1>7, <1>13 DEF Left
  <2>4. QED
    BY <1>1, <1>2, <1>3, <1>4, <2>2, <2>3
<1>14. QED
  BY <1>11, <1>12, <1>13

LEMMA ReturnNInv ==
  ASSUME Disciplined, NInv, ReturnBytecode \/ ReturnNativeCode \/ ReturnHost
  PROVE  NInv'
<1>1. \E stack \in Seq(Activation), F \in Seq(Frame), p \in Nat :
            /\ Site(stack, F, p)
            /\ Left(stack, p) /\ frames' = F /\ UNCHANGED <<tier, held>>
  <2>1. CASE ReturnBytecode
    BY <2>1, BytecodeReturns, FrameSite, LoopSite
  <2>2. CASE ReturnNativeCode \/ ReturnHost
    BY <2>2, WindowReturns, WindowSite, Now
  <2>3. QED
    BY <2>1, <2>2
<1>2. TypeOK
  BY DEF NInv
<1>3. QED
  BY <1>1, <1>2, LeaveNInv
----------------------------------------------------------------------------
LEMMA CallLeafLeaves ==
  ASSUME NInv, NEW argc \in Nat, NEW c \in CallSites(argc), ReturnTo(c.stack, c.height - argc)
  PROVE  Site(c.stack, frames, c.height - argc - 1) /\ Left(c.stack, c.height - argc - 1)
<1> DEFINE p == c.height - argc - 1
<1>1. /\ Site(c.stack, frames, p) /\ c.height \in Nat
      /\ c.stack[Len(c.stack)].kind \in {"run", "native_code", "call"}
  BY SiteOfCall
<1>2. c.height - argc = p + 1
  BY <1>1
<1> HIDE DEF p
<1>3. Left(c.stack, p)
  BY <1>1, <1>2, ReturnToLeaves
<1>4. QED
  BY <1>1, <1>3 DEF p

LEMMA CallLeafNInv ==
  ASSUME NInv, CallLeaf
  PROVE  NInv'
<1>1. PICK argc \in 0 .. MaxArgs : \E c \in CallSites(argc) :
            ReturnTo(c.stack, c.height - argc) /\ UNCHANGED <<frames, tier, held>>
  BY DEF CallLeaf
<1>2. argc \in Nat
  OBVIOUS
<1>3. PICK c \in CallSites(argc) :
            ReturnTo(c.stack, c.height - argc) /\ UNCHANGED <<frames, tier, held>>
  BY <1>1
<1>4. Site(c.stack, frames, c.height - argc - 1) /\ Left(c.stack, c.height - argc - 1)
  BY <1>2, <1>3, CallLeafLeaves
<1>5. TypeOK
  BY DEF NInv
<1>6. QED
  BY <1>3, <1>4, <1>5, LeaveNInv

LEMMA CallRefusedResets ==
  ASSUME Disciplined, NInv, CallRefused
  PROVE  /\ acts' = <<>> /\ frames' = <<>> /\ height' = 0 /\ held' \subseteq Functions
         /\ tier' \in [Functions -> {"bytecode", "native", "disabled"}]
<1>1. PICK argc \in 0 .. MaxArgs : \E c \in CallSites(argc) :
            /\ \/ UNCHANGED tier
               \/ \E f \in held, t \in {"bytecode", "native", "disabled"} :
                     t \in Tiers(f) /\ tier' = [tier EXCEPT ![f] = t]
            /\ RuntimeError(c.stack)
            /\ UNCHANGED held
  BY DEF CallRefused
<1>2. PICK c \in CallSites(argc) :
            /\ \/ UNCHANGED tier
               \/ \E f \in held, t \in {"bytecode", "native", "disabled"} :
                     t \in Tiers(f) /\ tier' = [tier EXCEPT ![f] = t]
            /\ RuntimeError(c.stack)
            /\ UNCHANGED held
  BY <1>1
<1>3. argc \in Nat
  OBVIOUS
<1>4. c.stack \in Seq(Activation) /\ EntriesNest(c.stack)
  BY <1>3, SiteOfCall DEF Site, Nested
<1>5. acts' = <<>> /\ frames' = <<>> /\ height' = 0
  BY <1>2, <1>4, FailureResets
<1>6. held \subseteq Functions /\ tier \in [Functions -> {"bytecode", "native", "disabled"}]
  BY DEF NInv, TypeOK
<1>7. tier' \in [Functions -> {"bytecode", "native", "disabled"}]
  BY <1>2, <1>6, TierType
<1>8. QED
  BY <1>2, <1>5, <1>6, <1>7

LEMMA OperationFailsResets ==
  ASSUME Disciplined, NInv, OperationFails
  PROVE  /\ acts' = <<>> /\ frames' = <<>> /\ height' = 0 /\ held' \subseteq Functions
         /\ tier' \in [Functions -> {"bytecode", "native", "disabled"}]
<1>1. RuntimeError(acts) /\ UNCHANGED <<tier, held>>
  BY DEF OperationFails
<1>2. acts \in Seq(Activation) /\ EntriesNest(acts)
  BY Now DEF Nested
<1>3. acts' = <<>> /\ frames' = <<>> /\ height' = 0
  BY <1>1, <1>2, FailureResets
<1>4. QED
  BY <1>1, <1>3 DEF NInv, TypeOK

(* A script starts on an empty stack.                                      *)
LEMMA ScriptStarts ==
  ASSUME Disciplined, NInv, EvalScript
  PROVE  LET x == Act("eval", 0, 0)
             b == Append(acts, x)
         IN  /\ acts = <<>> /\ frames = <<>> /\ height = 0
             /\ x \in Activation /\ x.kind = "eval" /\ b \in Seq(Activation)
             /\ b[Len(b)] = x /\ Len(b) = 1 /\ Len(frames) = 0
             /\ Site(b, frames, 0)
             /\ acts' = Append(b, Act("run", 0, 0))
             /\ frames' = Append(frames, [fn |-> Script, slots |-> 0])
             /\ height' = 1 /\ UNCHANGED <<tier, held>>
<1> DEFINE x == Act("eval", 0, 0)
           y == Act("run", 0, 0)
           b == Append(acts, x)
<1>1. acts = <<>> /\ frames = <<>> /\ height = 0
  BY Now DEF EvalScript, Disciplined
<1>2. Len(acts) = 0 /\ Len(frames) = 0 /\ FramesMax > 0
  BY <1>1, CallStackAssumption
<1>3. /\ frames' = Append(frames, [fn |-> Script, slots |-> 0])
      /\ height' = 1 /\ acts' = acts \o <<x, y>> /\ UNCHANGED <<tier, held>>
  BY <1>1, <1>2, CallStackAssumption DEF EvalScript, RoomForFrame
<1>4. x \in Activation /\ y \in Activation /\ IsEntry(x) /\ x.kind = "eval"
  BY DEF Act, Activation, IsEntry
<1>5. acts \in Seq(Activation) /\ frames \in Seq(Frame) /\ Nested(acts, frames)
  BY Now
<1>6. acts' = Append(b, y)
  <2>1. <<x, y>> = Append(Append(<<>>, x), y)
    OBVIOUS
  <2>2. <<x, y>> \in Seq(Activation)
    BY <1>4
  <2>3. <<>> \o <<x, y>> = <<x, y>>
    BY <2>2, ConcatEmptySeq
  <2>4. QED
    BY <1>1, <1>3, <2>1, <2>3
<1> HIDE DEF x, y
<1>7. /\ b \in Seq(Activation) /\ Pushed(acts, b, x)
      /\ Len(b) = Len(acts) + 1 /\ b[Len(acts) + 1] = x
  BY <1>4, <1>5, NewAct
<1> HIDE DEF b
<1>8. Nested(b, frames)
  <2>1. Len(acts) > 0 => acts[Len(acts)].kind = "host" /\ x.kind = "call"
    BY <1>2
  <2>2. QED
    BY <1>4, <1>5, <1>7, <2>1, PushEntry
<1>9. Len(b) = 1 /\ b[1] = x /\ DOMAIN b = {1} /\ DOMAIN frames = {}
  <2>1. Len(b) = 1 /\ b[1] = x
    BY <1>2, <1>7
  <2>2. DOMAIN b = 1 .. 1 /\ DOMAIN frames = 1 .. 0
    BY <1>2, <1>5, <1>7, <2>1, Acts, Frames
  <2>3. QED
    BY <2>1, <2>2
<1>10. Above(b, frames, 0)
  BY <1>4, <1>9 DEF IsEntry, IsWindow, Above
<1>11. Site(b, frames, 0)
  BY <1>4, <1>5, <1>7, <1>8, <1>9, <1>10 DEF Site, Base
<1>12. QED
  BY <1>1, <1>2, <1>3, <1>4, <1>6, <1>7, <1>9, <1>11 DEF x, y, b

LEMMA EvalScriptNInv ==
  ASSUME Disciplined, NInv, EvalScript
  PROVE  NInv'
<1> DEFINE b == Append(acts, Act("eval", 0, 0))
           y == Act("run", 0, 0)
           f == [fn |-> Script, slots |-> 0]
<1>1. /\ b \in Seq(Activation) /\ b[Len(b)].kind = "eval" /\ Site(b, frames, 0)
      /\ acts' = Append(b, y) /\ frames' = Append(frames, f) /\ Len(frames) = 0
      /\ height' = 1 /\ UNCHANGED <<tier, held>>
  BY ScriptStarts
<1>2. y \in Activation /\ y.kind = "run" /\ frames \in Seq(Frame)
  BY Now DEF Act, Activation
<1>3. Script \in Functions \cup {Script} /\ 0 \in Nat
  OBVIOUS
<1> HIDE DEF b
<1>4. Nested(Append(b, y), Append(frames, f)) /\ Append(b, y) \in Seq(Activation)
  BY <1>1, <1>3, CallRunNests
<1>5. /\ Append(frames, f) \in Seq(Frame) /\ Len(Append(frames, f)) = Len(frames) + 1
      /\ Append(frames, f)[Len(frames) + 1].slots = 0
  <2>1. f \in Frame /\ f.slots = 0
    BY <1>3 DEF Frame
  <2> HIDE DEF f
  <2>2. QED
    BY <1>2, <2>1, AppendPushes DEF Pushed
<1> HIDE DEF y, f
<1>6. Len(Append(b, y)) > 0 /\ Append(b, y)[Len(Append(b, y))] = y
  BY <1>1, <1>2, NewAct
<1>7. EndsAt(acts', frames', height')
  BY <1>1, <1>2, <1>5, <1>6 DEF EndsAt, IsEntry
<1>8. TypeOK'
  BY <1>1, <1>4, <1>5 DEF NInv, TypeOK
<1>9. QED
  BY <1>1, <1>4, <1>7, <1>8, NestedThen DEF NInv

LEMMA ComputeNInv ==
  ASSUME NInv, Compute
  PROVE  NInv'
<1>1. /\ InProgram /\ height' \in {height - 1, height + 1} /\ height' > Slots
      /\ UNCHANGED <<frames, acts, tier, held>>
  BY DEF Compute
<1>2. /\ acts # <<>> /\ Slots \in Nat /\ Slots = TopSlots(acts, frames)
      /\ Last(acts).kind \in {"run", "native_code"} /\ height \in Nat
      /\ Last(acts) = acts[Len(acts)] /\ Len(acts) > 0
  BY <1>1, ProgramNow, Now
<1>3. height' \in Nat
  BY <1>1, <1>2
<1>4. EndsAt(acts', frames', height')
  BY <1>1, <1>2 DEF EndsAt, TopSlots, IsEntry
<1>5. TypeOK'
  BY <1>1, <1>3 DEF NInv, TypeOK
<1>6. QED
  BY <1>1, <1>4, <1>5, NestedThen DEF NInv

LEMMA NextNInv ==
  ASSUME Disciplined, NInv, [Next]_vars
  PROVE  NInv'
<1>1. CASE EvalScript
  BY <1>1, EvalScriptNInv
<1>2. CASE CallBytecode
  BY <1>2, CallBytecodeNInv
<1>3. CASE CallNativeCode
  BY <1>3, CallNativeCodeNInv
<1>4. CASE CallHost
  BY <1>4, CallHostNInv
<1>5. CASE CallLeaf
  BY <1>5, CallLeafNInv
<1>6. CASE CallRefused
  BY <1>6, CallRefusedResets, ResetNInv
<1>7. CASE Compute
  BY <1>7, ComputeNInv
<1>8. CASE OperationFails
  BY <1>8, OperationFailsResets, ResetNInv
<1>9. CASE ReturnBytecode \/ ReturnNativeCode \/ ReturnHost
  BY <1>9, ReturnNInv
<1>10. CASE Rebind \/ UNCHANGED vars
  <2>1. UNCHANGED <<height, frames, acts, tier>> /\ held' \subseteq held
    BY <1>10 DEF Rebind, vars
  <2>2. held' \subseteq Functions /\ tier' \in [Functions -> {"bytecode", "native", "disabled"}]
    BY <2>1 DEF NInv, TypeOK
  <2>3. QED
    BY <2>1, <2>2, SameStackNInv
<1>11. QED
  BY <1>1, <1>2, <1>3, <1>4, <1>5, <1>6, <1>7, <1>8, <1>9, <1>10 DEF Next

(* Interpreter loops, native code and host functions nest on the C stack   *)
(* as their windows nest on the value stack and their frames in frames, in *)
(* any alternation (vm.c:143, 354, 596; api.c:44).                         *)
THEOREM CallsNest ==
  ASSUME {"host_eval", "nested_failure", "return_in_block"} \cap Behaviours = {}
  PROVE  Spec => []NInv
<1>1. Disciplined
  BY DEF Disciplined
<1>2. Init => NInv
  BY InitNInv
<1>3. NInv /\ [Next]_vars => NInv'
  BY <1>1, NextNInv
<1>4. QED
  BY <1>2, <1>3, PTL DEF Spec

(* Each interpreter loop in progress has a frame of its own to go on with. *)
THEOREM LoopsOwnFrames ==
  ASSUME {"host_eval", "nested_failure", "return_in_block"} \cap Behaviours = {}
  PROVE  Spec => []RunnersOwnFrames
<1>1. NInv => RunnersOwnFrames
  BY DEF NInv, Nested, RunnersNest, RunnersOwnFrames
<1>2. QED
  BY <1>1, CallsNest, PTL

(* The code that executes is that of the innermost call, its window above  *)
(* those of all that wait for it.                                          *)
THEOREM InnermostExecutes ==
  ASSUME {"host_eval", "nested_failure", "return_in_block"} \cap Behaviours = {}
  PROVE  Spec => []InnermostRuns
<1>1. ASSUME NInv PROVE InnermostRuns
  <2> SUFFICES ASSUME Running \in {"run", "native_code"}
               PROVE  LET slots == IF Running = "run"
                                   THEN IF frames = <<>> THEN -1 ELSE Last(frames).slots
                                   ELSE Last(acts).at
                      IN  /\ \A i \in DOMAIN frames :
                                \/ frames[i].slots < slots
                                \/ i = Len(frames) /\ Running = "run"
                          /\ \A i \in DOMAIN acts :
                                IsWindow(acts[i]) /\ i # Len(acts) => acts[i].at < slots
                          /\ slots >= 0 /\ slots < height
    BY DEF InnermostRuns
  <2>1. acts # <<>> /\ Running = Last(acts).kind
    BY DEF Running
  <2>2. /\ acts \in Seq(Activation) /\ frames \in Seq(Frame) /\ Nested(acts, frames)
        /\ Len(acts) > 0 /\ Last(acts) = acts[Len(acts)] /\ ~IsEntry(Last(acts))
        /\ height \in Nat
    BY <1>1, <2>1, Now
  <2>3. Running = "run" => frames # <<>>
    BY <2>1, <2>2, Highest, Elements
  <2>4. InProgram
    BY <2>1, <2>3 DEF InProgram, InBytecode, InNativeCode
  <2>5. /\ Slots \in Nat /\ Slots < height /\ Slots = TopSlots(acts, frames)
        /\ Slots = IF Running = "run" THEN Last(frames).slots ELSE Last(acts).at
    BY <1>1, <2>1, <2>2, <2>4, ProgramNow DEF TopSlots
  <2>6. /\ \A k \in DOMAIN frames : \/ frames[k].slots < TopSlots(acts, frames)
                                    \/ k = Len(frames) /\ acts[Len(acts)].kind = "run"
        /\ \A j \in DOMAIN acts :
              IsWindow(acts[j]) /\ j # Len(acts) => acts[j].at < TopSlots(acts, frames)
    BY <2>2, Highest
  <2>7. acts[Len(acts)].kind = Running
    BY <2>1, <2>2
  <2>8. QED
    BY <2>3, <2>5, <2>6, <2>7
<1>2. QED
  BY <1>1, CallsNest, PTL

(* Whenever the host application runs, the stack is empty: also after      *)
(* failures, however deep.                                                 *)
THEOREM IdleStack ==
  ASSUME {"host_eval", "nested_failure", "return_in_block"} \cap Behaviours = {}
  PROVE  Spec => []IdleIsEmpty
<1>1. NInv => IdleIsEmpty
  BY Now DEF IdleIsEmpty
<1>2. QED
  BY <1>1, CallsNest, PTL
----------------------------------------------------------------------------
(* What the checks before a call leave of the stack.                       *)
(* The least of a set of numbers, and induction over the naturals in terms *)
(* of sets.                                                                *)
LEMMA SmallestOf ==
  ASSUME NEW T \in SUBSET Nat, T # {}
  PROVE  \E x \in T : \A y \in T : x <= y
<1> DEFINE R == OpToRel(<, Nat)
<1>1. IsWellFoundedOn(R, Nat)
  BY NatLessThanWellFounded
<1>2. \A y, x \in Nat : y < x => <<y, x>> \in R
  BY DEF OpToRel
<1> HIDE DEF R
<1>3. PICK x \in T : \A y \in T : ~ (<<y, x>> \in R)
  BY <1>1, WFMin
<1>4. \A y \in T : ~ (y < x)
  BY <1>2, <1>3
<1>5. QED
  BY <1>4

LEMMA InductionInSet ==
  ASSUME NEW S, 0 \in S, \A n \in Nat : n \in S => n + 1 \in S
  PROVE  Nat \subseteq S
<1> SUFFICES ASSUME Nat \ S # {} PROVE FALSE
  OBVIOUS
<1>1. PICK x \in Nat \ S : \A y \in Nat \ S : x <= y
  BY SmallestOf
<1>2. x # 0 /\ x - 1 \in Nat /\ x - 1 \notin Nat \ S
  BY <1>1
<1>3. QED
  BY <1>1, <1>2

LEMMA CellsRise ==
  ASSUME NEW k \in Nat, NEW l \in Nat, k <= l
  PROVE  /\ Cells(k) \in Nat /\ Cells(k) <= Cells(l)
         /\ Cells(k + 1) = Cells(k) + SlotCount /\ Cells(0) = 0
<1>1. SlotCount \in Nat
  BY CallStackAssumption
<1>2. PICK d \in Nat : l = k + d
  <2>1. l - k \in Nat /\ l = k + (l - k)
    OBVIOUS
  <2>2. QED
    BY <2>1
<1>3. l * SlotCount = k * SlotCount + d * SlotCount /\ d * SlotCount \in Nat
      /\ k * SlotCount \in Nat /\ (k + 1) * SlotCount = k * SlotCount + SlotCount
  BY <1>1, <1>2
<1>4. QED
  BY <1>1, <1>3 DEF Cells

LEMMA EntryOnTop ==
  ASSUME NEW a \in Seq(Activation), EntriesNest(a), Len(a) > 0
  PROVE  /\ IsEntry(a[1]) /\ a[1].kind # "run"
         /\ Len(a) = 1 => IsEntry(a[Len(a)])
         /\ IsEntry(a[Len(a)]) /\ Len(a) > 1 => a[Len(a) - 1].kind = "host"
<1> DEFINE n == Len(a)
<1>1. n \in Nat /\ n > 0 /\ DOMAIN a = 1 .. n
  BY Acts
<1> HIDE DEF n
<1>2. 1 \in DOMAIN a /\ n \in DOMAIN a
  BY <1>1
<1>3. IsEntry(a[1])
  BY <1>2 DEF EntriesNest
<1>4. IsEntry(a[n]) /\ n > 1 => a[n - 1].kind = "host"
  BY <1>1, <1>2 DEF EntriesNest
<1>5. QED
  BY <1>3, <1>4 DEF IsEntry, n

(* Bytecode alone is one interpreter loop, whose first window starts where *)
(* the stack does.                                                         *)
LEMMA BytecodeAlone ==
  ASSUME NInv, acts # <<>>, \A i \in DOMAIN acts : ~IsWindow(acts[i])
  PROVE  Running = "run" /\ Len(frames) > 0 /\ frames[1].slots = 0
<1> DEFINE n == Len(acts)
<1>1. /\ acts \in Seq(Activation) /\ frames \in Seq(Frame)
      /\ EntriesNest(acts) /\ RunnersNest(acts, frames) /\ EntriesStart(acts, frames)
      /\ n \in Nat /\ n > 0 /\ DOMAIN acts = 1 .. n /\ Last(acts) = acts[n] /\ ~IsEntry(acts[n])
      /\ \A i \in DOMAIN acts :
            /\ acts[i].kind \in {"run", "native_code", "host", "call", "eval"}
            /\ IsEntry(acts[i]) <=> acts[i].kind \in {"call", "eval"}
            /\ IsWindow(acts[i]) <=> acts[i].kind \in {"native_code", "host"}
  BY Now, Acts DEF Nested
<1>2. IsEntry(acts[1]) /\ n # 1
  BY <1>1, EntryOnTop
<1> HIDE DEF n
<1>3. acts[2].kind = "run" /\ 2 \in DOMAIN acts
  <2>1. 2 \in DOMAIN acts /\ 2 # 1 /\ 2 - 1 = 1 /\ 1 \in DOMAIN acts
    BY <1>1, <1>2
  <2>2. IsEntry(acts[2]) => acts[1].kind = "host"
    BY <1>1, <2>1 DEF EntriesNest
  <2>3. QED
    BY <1>1, <1>2, <2>1, <2>2
<1>4. n = 2
  <2>1. SUFFICES ASSUME n > 2 PROVE FALSE
    BY <1>1, <1>2
  <2>2. 3 \in DOMAIN acts /\ 3 # 1 /\ 3 - 1 = 2
    BY <1>1, <2>1
  <2>3. /\ IsEntry(acts[3]) => acts[2].kind = "host"
        /\ acts[3].kind = "run" => acts[2].kind # "run"
    BY <1>1, <2>2 DEF EntriesNest
  <2>4. QED
    BY <1>1, <1>3, <2>2, <2>3
<1>5. Len(frames) \in Nat /\ acts[2].at \in Nat /\ acts[2].at < Len(frames)
  BY <1>1, <1>3, Acts, Frames DEF RunnersNest
<1>6. PICK i \in DOMAIN acts : acts[i].kind = "run" /\ acts[i].at = 0
  BY <1>1, <1>5 DEF RunnersNest
<1>7. i = 2
  BY <1>1, <1>2, <1>4, <1>6
<1>8. frames[1].slots = 0
  <2>1. 1 \in DOMAIN acts /\ 1 < Len(acts) /\ 1 + 1 = 2 /\ Base(acts, 1) = 0
    BY <1>1, <1>4 DEF Base, n
  <2>2. frames[acts[2].at + 1].slots = 0
    BY <1>1, <1>2, <1>3, <2>1 DEF EntriesStart
  <2>3. QED
    BY <1>6, <1>7, <2>2
<1>9. QED
  BY <1>1, <1>3, <1>4, <1>5, <1>8 DEF Running

(* Full windows on top of each other.                                      *)
LEMMA WindowsPileUp ==
  ASSUME NInv, \A i \in DOMAIN acts : ~IsWindow(acts[i]),
         \A k \in DOMAIN frames : WindowEnd(k) - frames[k].slots <= SlotCount
  PROVE  height <= Cells(Len(frames))
<1> DEFINE m == Len(frames)
<1>1. /\ frames \in Seq(Frame) /\ height \in Nat /\ SlotCount \in Nat
      /\ m \in Nat /\ DOMAIN frames = 1 .. m
      /\ \A k \in DOMAIN frames : frames[k].slots \in Nat
  BY Now, Frames, CallStackAssumption
<1>2. CASE acts = <<>>
  <2>1. height = 0 /\ Cells(m) \in Nat
    BY <1>1, <1>2, Now, CellsRise
  <2>2. QED
    BY <2>1
<1>3. CASE acts # <<>>
  <2>1. m > 0 /\ frames[1].slots = 0
    BY <1>3, BytecodeAlone
  <2> DEFINE S == {k \in Nat : k < m => frames[k + 1].slots <= Cells(k)}
  <2>2. 0 \in S
    <3>1. 0 + 1 = 1 /\ Cells(0) = 0
      BY CellsRise
    <3>2. QED
      BY <2>1, <3>1
  <2>3. ASSUME NEW k \in Nat, k \in S PROVE k + 1 \in S
    <3>1. SUFFICES ASSUME k + 1 < m PROVE frames[k + 2].slots <= Cells(k + 1)
      <4>1. k + 1 \in Nat /\ k + 1 + 1 = k + 2
        OBVIOUS
      <4>2. QED
        BY <4>1
    <3>2. /\ k < m /\ k + 1 \in DOMAIN frames /\ k + 1 # Len(frames) /\ k + 1 + 1 = k + 2
          /\ k + 2 \in DOMAIN frames
      <4>1. m \in Nat /\ DOMAIN frames = 1 .. m /\ m = Len(frames)
        BY <1>1
      <4> HIDE DEF m
      <4>2. m \in Nat
        BY <4>1
      <4>3. k < m /\ k + 1 # m /\ k + 1 + 1 = k + 2
        BY <3>1, <4>2
      <4>4. k + 1 \in 1 .. m /\ k + 2 \in 1 .. m
        BY <3>1, <4>2
      <4>5. QED
        BY <4>1, <4>3, <4>4
    <3>3. frames[k + 1].slots <= Cells(k)
      BY <2>3, <3>2
    <3>4. WindowEnd(k + 1) = frames[k + 2].slots
      BY <3>2 DEF WindowEnd
    <3>5. frames[k + 2].slots - frames[k + 1].slots <= SlotCount
      BY <3>2, <3>4
    <3>6. Cells(k) \in Nat /\ Cells(k + 1) = Cells(k) + SlotCount
      <4>1. k <= k
        OBVIOUS
      <4>2. QED
        BY <4>1, CellsRise
    <3>7. frames[k + 1].slots \in Nat /\ frames[k + 2].slots \in Nat
      BY <1>1, <3>2
    <3>8. QED
      BY <1>1, <3>3, <3>5, <3>6, <3>7
  <2> HIDE DEF S
  <2>4. Nat \subseteq S
    BY <2>2, <2>3, InductionInSet
  <2>5. m - 1 \in Nat /\ m - 1 < m /\ m - 1 + 1 = m /\ m \in DOMAIN frames /\ m - 1 <= m - 1
    BY <1>1, <2>1
  <2>6. frames[m].slots <= Cells(m - 1)
    <3>1. m - 1 \in S
      BY <2>4, <2>5
    <3>2. frames[m - 1 + 1].slots <= Cells(m - 1)
      BY <2>5, <3>1 DEF S
    <3>3. QED
      BY <2>5, <3>2
  <2>7. WindowEnd(m) = height
    BY DEF WindowEnd
  <2>8. height - frames[m].slots <= SlotCount
    BY <2>5, <2>7
  <2>9. Cells(m - 1) \in Nat /\ Cells(m - 1 + 1) = Cells(m - 1) + SlotCount
    BY <2>5, CellsRise
  <2>10. Cells(m) = Cells(m - 1) + SlotCount
    BY <2>5, <2>9
  <2>11. frames[m].slots \in Nat
    BY <1>1, <2>5
  <2> HIDE DEF m
  <2>12. height <= Cells(m)
    BY <1>1, <2>6, <2>8, <2>9, <2>10, <2>11
  <2>13. QED
    BY <2>12 DEF m
<1>4. QED
  BY <1>2, <1>3
----------------------------------------------------------------------------
(* The checks are kept to.                                                 *)
LEMMA RoomThen == RInv' <=> Len(frames') <= FramesMax /\ RoomAbove(acts')
  BY DEF RInv, RoomAbove

LEMMA SiteRoom ==
  ASSUME NInv, RoomAbove(acts), NEW argc, NEW c \in CallSites(argc)
  PROVE  RoomAbove(c.stack)
<1>1. acts \in Seq(Activation)
  BY Now
<1> DEFINE x == Act("call", 0, 0)
           b == Append(acts, x)
<1>2. x \in Activation /\ x.kind = "call"
  BY Entry
<1> HIDE DEF x
<1>3. Pushed(acts, b, x)
  BY <1>1, <1>2, NewAct
<1> HIDE DEF b
<1>4. RoomAbove(b)
  BY <1>2, <1>3 DEF Pushed, RoomAbove
<1>5. c.stack = acts \/ c.stack = b
  BY SiteCases DEF b, x
<1>6. QED
  BY <1>4, <1>5

LEMMA LeaveRoom ==
  ASSUME NEW stack, NEW F, NEW p, Site(stack, F, p), Left(stack, p), RoomAbove(stack)
  PROVE  RoomAbove(acts')
<1>1. stack \in Seq(Activation) /\ stack # <<>>
  <2>1. stack \in Seq(Activation) /\ Len(stack) > 0
    BY DEF Site
  <2>2. QED
    BY <2>1, Elements
<1>2. Pushed(Front(stack), stack, Last(stack))
  BY <1>1, FrontPushes
<1>3. RoomAbove(Front(stack))
  BY <1>2 DEF Pushed, RoomAbove
<1>4. QED
  BY <1>3 DEF Left

LEMMA CallBytecodeRInv ==
  ASSUME NInv, RInv, CallBytecode
  PROVE  RInv'
<1>1. PICK f \in held : \E c \in CallSites(Arity[f]), t \in Tiers(f) :
            /\ RoomForFrame
            /\ frames' = Append(frames, [fn |-> f, slots |-> c.height - Arity[f] - 1])
            /\ acts' = IF Last(c.stack).kind = "run" THEN c.stack
                       ELSE Append(c.stack, Act("run", Saved, 0))
  BY DEF CallBytecode
<1>2. f \in Functions /\ Arity[f] \in Nat /\ frames \in Seq(Frame) /\ Len(frames) \in Nat
  BY Now, Frames, ArityType
<1>3. PICK c \in CallSites(Arity[f]), t \in Tiers(f) :
            /\ RoomForFrame
            /\ frames' = Append(frames, [fn |-> f, slots |-> c.height - Arity[f] - 1])
            /\ acts' = IF Last(c.stack).kind = "run" THEN c.stack
                       ELSE Append(c.stack, Act("run", Saved, 0))
  BY <1>1
<1> DEFINE p == c.height - Arity[f] - 1
<1>4. p \in Nat /\ c.stack \in Seq(Activation)
  BY <1>2, SiteOfCall DEF Site
<1>5. Len(frames') = Len(frames) + 1
  BY <1>2, <1>3, <1>4, NewFrame
<1>6. Len(frames') <= FramesMax
  BY <1>2, <1>3, <1>5, CallStackAssumption DEF RoomForFrame
<1> DEFINE x == Act("run", Len(frames), 0)
           b == Append(c.stack, x)
<1>7. RoomAbove(c.stack)
  BY <1>2, SiteRoom DEF RInv
<1>8. acts' = c.stack \/ acts' = b
  BY <1>3 DEF Saved
<1>9. x \in Activation /\ x.kind = "run"
  BY <1>2 DEF Act, Activation
<1> HIDE DEF x
<1>10. Pushed(c.stack, b, x)
  BY <1>4, <1>9, NewAct
<1> HIDE DEF b
<1>11. RoomAbove(b)
  BY <1>7, <1>9, <1>10 DEF Pushed, RoomAbove
<1>12. QED
  BY <1>6, <1>7, <1>8, <1>11, RoomThen

LEMMA CallWindowRInv ==
  ASSUME NInv, RInv, NEW argc \in Nat, NEW c \in CallSites(argc), NEW x \in Activation,
         x.kind = "native_code" => x.at <= StackMax - SlotCount,
         acts' = Append(c.stack, x), UNCHANGED frames
  PROVE  RInv'
<1> DEFINE b == Append(c.stack, x)
<1>1. c.stack \in Seq(Activation) /\ RoomAbove(c.stack)
  BY SiteOfCall, SiteRoom DEF Site, RInv
<1>2. Pushed(c.stack, b, x)
  BY <1>1, NewAct
<1>3. acts' = b
  OBVIOUS
<1> HIDE DEF b
<1>4. RoomAbove(b)
  BY <1>1, <1>2 DEF Pushed, RoomAbove
<1>5. QED
  BY <1>3, <1>4, RoomThen DEF RInv

LEMMA CallNativeCodeRInv ==
  ASSUME NInv, RInv, CallNativeCode
  PROVE  RInv'
<1>1. PICK f \in held : \E c \in CallSites(Arity[f]), bare \in {{}, {f}} :
            /\ RoomForNativeCode(c.height)
            /\ acts' = Append(c.stack, [Act("native_code", c.height - Arity[f] - 1, 0)
                                            EXCEPT !.bare = bare])
            /\ UNCHANGED frames
  BY DEF CallNativeCode
<1>2. f \in Functions /\ Arity[f] \in Nat
  BY Now, ArityType
<1>3. PICK c \in CallSites(Arity[f]), bare \in {{}, {f}} :
            /\ RoomForNativeCode(c.height)
            /\ acts' = Append(c.stack, [Act("native_code", c.height - Arity[f] - 1, 0)
                                            EXCEPT !.bare = bare])
            /\ UNCHANGED frames
  BY <1>1
<1> DEFINE p == c.height - Arity[f] - 1
           x == [Act("native_code", p, 0) EXCEPT !.bare = bare]
<1>4. p \in Nat /\ c.height \in Nat
  BY <1>2, SiteOfCall DEF Site
<1>5. p <= StackMax - SlotCount
  BY <1>2, <1>3, <1>4, CallStackAssumption DEF RoomForNativeCode
<1>6. x \in Activation /\ x.at = p
  BY <1>2, <1>4 DEF Act, Activation
<1> HIDE DEF x
<1>7. acts' = Append(c.stack, x)
  BY <1>3 DEF x
<1>8. QED
  BY <1>2, <1>3, <1>5, <1>6, <1>7, CallWindowRInv

LEMMA CallHostRInv ==
  ASSUME NInv, RInv, CallHost
  PROVE  RInv'
<1>1. PICK argc \in 0 .. MaxArgs : \E c \in CallSites(argc) :
            /\ acts' = Append(c.stack, Act("host", c.height - argc - 1, argc))
            /\ UNCHANGED frames
  BY DEF CallHost
<1>2. PICK c \in CallSites(argc) :
            /\ acts' = Append(c.stack, Act("host", c.height - argc - 1, argc))
            /\ UNCHANGED frames
  BY <1>1
<1> DEFINE p == c.height - argc - 1
           x == Act("host", p, argc)
<1>3. argc \in Nat
  OBVIOUS
<1>4. p \in Nat
  BY <1>3, SiteOfCall DEF Site
<1>5. x \in Activation /\ x.kind = "host"
  BY <1>3, <1>4 DEF Act, Activation
<1> HIDE DEF x
<1>6. acts' = Append(c.stack, x)
  BY <1>2 DEF x
<1>7. QED
  BY <1>2, <1>3, <1>5, <1>6, CallWindowRInv

LEMMA CallLeafRInv ==
  ASSUME NInv, RInv, CallLeaf
  PROVE  RInv'
<1>1. PICK argc \in 0 .. MaxArgs : \E c \in CallSites(argc) :
            ReturnTo(c.stack, c.height - argc) /\ UNCHANGED frames
  BY DEF CallLeaf
<1>2. PICK c \in CallSites(argc) :
            ReturnTo(c.stack, c.height - argc) /\ UNCHANGED frames
  BY <1>1
<1>3. argc \in Nat
  OBVIOUS
<1>4. Site(c.stack, frames, c.height - argc - 1) /\ Left(c.stack, c.height - argc - 1)
  BY <1>2, <1>3, CallLeafLeaves
<1>5. RoomAbove(c.stack)
  BY SiteRoom DEF RInv
<1>6. RoomAbove(acts')
  BY <1>4, <1>5, LeaveRoom
<1>7. QED
  BY <1>2, <1>6, RoomThen DEF RInv

LEMMA ReturnRInv ==
  ASSUME Disciplined, NInv, RInv, ReturnBytecode \/ ReturnNativeCode \/ ReturnHost
  PROVE  RInv'
<1>1. \E stack \in Seq(Activation), F \in Seq(Frame), p \in Nat :
            /\ Site(stack, F, p) /\ Left(stack, p) /\ frames' = F
            /\ stack = acts \/ \E x \in Activation : Pushed(stack, acts, x)
            /\ F = frames \/ \E f \in Frame : Pushed(F, frames, f)
  <2>1. CASE ReturnBytecode
    BY <2>1, BytecodeReturns, FrameSite, LoopSite DEF FrameEnds, LoopEnds
  <2>2. CASE ReturnNativeCode \/ ReturnHost
    BY <2>2, WindowReturns, WindowSite, Now DEF WindowEnds
  <2>3. QED
    BY <2>1, <2>2
<1>2. PICK stack \in Seq(Activation), F \in Seq(Frame), p \in Nat :
            /\ Site(stack, F, p) /\ Left(stack, p) /\ frames' = F
            /\ stack = acts \/ \E x \in Activation : Pushed(stack, acts, x)
            /\ F = frames \/ \E f \in Frame : Pushed(F, frames, f)
  BY <1>1
<1>3. RoomAbove(stack)
  <2>1. (\E x \in Activation : Pushed(stack, acts, x)) => RoomAbove(stack)
    BY DEF Pushed, RInv, RoomAbove
  <2>2. QED
    BY <1>2, <2>1 DEF RInv
<1>4. RoomAbove(acts')
  BY <1>2, <1>3, LeaveRoom
<1>5. Len(frames') <= FramesMax
  <2>1. Len(F) \in Nat /\ Len(frames) \in Nat /\ Len(F) <= Len(frames)
    BY <1>2, Now, Frames DEF Pushed
  <2>2. QED
    BY <1>2, <2>1, CallStackAssumption DEF RInv
<1>6. QED
  BY <1>4, <1>5, RoomThen

LEMMA EvalScriptRInv ==
  ASSUME Disciplined, NInv, RInv, EvalScript
  PROVE  RInv'
<1> DEFINE x == Act("eval", 0, 0)
           y == Act("run", 0, 0)
           b == Append(acts, x)
           d == Append(b, y)
           f == [fn |-> Script, slots |-> 0]
<1>1. /\ acts = <<>> /\ acts \in Seq(Activation) /\ b \in Seq(Activation)
      /\ frames \in Seq(Frame) /\ Len(frames) = 0
      /\ acts' = d /\ frames' = Append(frames, f)
  BY ScriptStarts, Now
<1>2. x \in Activation /\ x.kind = "eval" /\ y \in Activation /\ y.kind = "run"
  BY DEF Act, Activation
<1> HIDE DEF x, y
<1>3. Pushed(acts, b, x) /\ Pushed(b, d, y)
  BY <1>1, <1>2, NewAct
<1> HIDE DEF b, d
<1>4. RoomAbove(d)
  <2>1. RoomAbove(b)
    BY <1>2, <1>3 DEF Pushed, RInv, RoomAbove
  <2>2. QED
    BY <1>2, <1>3, <2>1 DEF Pushed, RoomAbove
<1>5. Len(frames') = 1
  <2>1. Script \in Functions \cup {Script} /\ 0 \in Nat
    OBVIOUS
  <2>2. Len(Append(frames, f)) = Len(frames) + 1
    BY <1>1, <2>1, NewFrame
  <2>3. QED
    BY <1>1, <2>2
<1>6. QED
  BY <1>1, <1>4, <1>5, RoomThen, CallStackAssumption

LEMMA NextRInv ==
  ASSUME Disciplined, NInv, RInv, [Next]_vars
  PROVE  RInv'
<1>1. CASE EvalScript
  BY <1>1, EvalScriptRInv
<1>2. CASE CallBytecode
  BY <1>2, CallBytecodeRInv
<1>3. CASE CallNativeCode
  BY <1>3, CallNativeCodeRInv
<1>4. CASE CallHost
  BY <1>4, CallHostRInv
<1>5. CASE CallLeaf
  BY <1>5, CallLeafRInv
<1>6. CASE CallRefused \/ OperationFails
  <2>1. acts' = <<>> /\ frames' = <<>>
    BY <1>6, CallRefusedResets, OperationFailsResets
  <2>2. DOMAIN acts' = {} /\ Len(frames') = 0
    BY <2>1
  <2>3. QED
    BY <2>2, RoomThen, CallStackAssumption DEF RoomAbove
<1>7. CASE ReturnBytecode \/ ReturnNativeCode \/ ReturnHost
  BY <1>7, ReturnRInv
<1>8. CASE Compute \/ Rebind \/ UNCHANGED vars
  <2>1. UNCHANGED <<frames, acts>>
    BY <1>8 DEF Compute, Rebind, vars
  <2>2. QED
    BY <2>1, RoomThen DEF RInv
<1>9. QED
  BY <1>1, <1>2, <1>3, <1>4, <1>5, <1>6, <1>7, <1>8 DEF Next

(* A value stack with room for a full window of each frame (common.h:26)   *)
(* is never exceeded by bytecode alone whose windows are no wider, nor by  *)
(* native code whose own window is not, whatever called it: what the two   *)
(* checks of call_function are enough for.  Nothing is assumed of how wide *)
(* windows are or how many arguments a call has.                           *)
THEOREM FullWindows ==
  ASSUME {"host_eval", "nested_failure", "return_in_block"} \cap Behaviours = {},
         FramesMax * SlotCount <= StackMax
  PROVE  Spec => []FullWindowsFit
<1>1. Disciplined
  BY DEF Disciplined
<1>2. Init => NInv /\ RInv
  <2>1. ASSUME Init PROVE RInv
    <3>1. DOMAIN acts = {} /\ Len(frames) = 0
      BY <2>1 DEF Init
    <3>2. QED
      BY <3>1, CallStackAssumption DEF RInv, RoomAbove
  <2>2. QED
    BY <2>1, InitNInv
<1>3. NInv /\ RInv /\ [Next]_vars => NInv' /\ RInv'
  BY <1>1, NextNInv, NextRInv
<1>4. ASSUME NInv, RInv, \A i \in DOMAIN acts : ~IsWindow(acts[i]),
             \A k \in DOMAIN frames : WindowEnd(k) - frames[k].slots <= SlotCount
      PROVE  height <= StackMax
  <2>1. height <= Cells(Len(frames))
    BY <1>4, WindowsPileUp
  <2>2. /\ Len(frames) \in Nat /\ FramesMax \in Nat /\ Len(frames) <= FramesMax
        /\ FramesMax <= FramesMax /\ height \in Nat /\ StackMax \in Nat
    BY <1>4, Now, Frames, CallStackAssumption DEF RInv
  <2>3. Cells(Len(frames)) <= Cells(FramesMax) /\ Cells(Len(frames)) \in Nat /\ Cells(FramesMax) \in Nat
    BY <2>2, CellsRise
  <2>4. Cells(FramesMax) <= StackMax
    BY DEF Cells
  <2>5. QED
    BY <2>1, <2>2, <2>3, <2>4
<1>5. ASSUME NInv, RInv, InNativeCode, height - Slots <= SlotCount
      PROVE  height <= StackMax
  <2>1. acts # <<>> /\ Last(acts).kind = "native_code" /\ Slots = Last(acts).at
    BY <1>5 DEF InNativeCode, InBytecode, Running, Slots
  <2>2. /\ acts \in Seq(Activation) /\ Len(acts) \in DOMAIN acts /\ Last(acts) = acts[Len(acts)]
        /\ Last(acts).at \in Nat /\ height \in Nat
    BY <1>5, <2>1, Now, Acts
  <2>3. Slots <= StackMax - SlotCount
    BY <1>5, <2>1, <2>2 DEF RInv, RoomAbove
  <2>4. QED
    BY <1>5, <2>1, <2>2, <2>3, CallStackAssumption
<1>6. NInv /\ RInv => FullWindowsFit
  BY <1>4, <1>5 DEF FullWindowsFit, StackWithinBounds
<1>7. QED
  BY <1>2, <1>3, <1>6, PTL DEF Spec
----------------------------------------------------------------------------
(* The windows of the calls in progress, of any stacks.                    *)
MadeByHost(a, i) == i > 1 /\ IsEntry(a[i - 1])

LoopByHost(a, k) == \E i \in DOMAIN a : a[i].kind = "run" /\ a[i].at = k - 1 /\ MadeByHost(a, i)

FrameWin(a, F, k) ==
    [start |-> F[k].slots, kind |-> "program", by |-> By(LoopByHost(a, k))]

ActWin(a, i) ==
    [start |-> a[i].at, kind |-> IF a[i].kind = "host" THEN "host" ELSE "program",
     by |-> By(MadeByHost(a, i))]

Wins(a, F) ==
    {FrameWin(a, F, k) : k \in DOMAIN F}
    \cup {ActWin(a, i) : i \in {j \in DOMAIN a : IsWindow(a[j])}}

LEMMA WindowsNow == Windows = Wins(acts, frames) /\ Windows' = Wins(acts', frames')
  BY DEF Windows, FrameWindow, ActWindow, HostMade, Wins, FrameWin, ActWin, LoopByHost, MadeByHost

(* What is a window.                                                       *)
LEMMA WinCases ==
  ASSUME NEW a, NEW F, NEW w
  PROVE  w \in Wins(a, F) <=> \/ \E k \in DOMAIN F : w = FrameWin(a, F, k)
                              \/ \E i \in DOMAIN a : IsWindow(a[i]) /\ w = ActWin(a, i)
  BY DEF Wins

LEMMA FrameWinFields ==
  ASSUME NEW a, NEW F, NEW k
  PROVE  /\ FrameWin(a, F, k).start = F[k].slots /\ FrameWin(a, F, k).kind = "program"
         /\ FrameWin(a, F, k).by = "host" <=> LoopByHost(a, k)
  BY DEF FrameWin, By

LEMMA ActWinFields ==
  ASSUME NEW a, NEW i
  PROVE  /\ ActWin(a, i).start = a[i].at
         /\ ActWin(a, i).kind = IF a[i].kind = "host" THEN "host" ELSE "program"
         /\ ActWin(a, i).by = "host" <=> MadeByHost(a, i)
  BY DEF ActWin, By

(* An activation that is added changes none of the windows there are.      *)
LEMMA SameWins ==
  ASSUME NEW a \in Seq(Activation), NEW b \in Seq(Activation), NEW x \in Activation,
         Pushed(a, b, x)
  PROVE  /\ \A i \in DOMAIN a : IsWindow(b[i]) <=> IsWindow(a[i])
         /\ \A i \in DOMAIN a : ActWin(b, i) = ActWin(a, i)
         /\ MadeByHost(b, Len(a) + 1) <=> Len(a) > 0 /\ IsEntry(a[Len(a)])
         /\ \A k : LoopByHost(b, k) <=>
               \/ LoopByHost(a, k)
               \/ x.kind = "run" /\ x.at = k - 1 /\ Len(a) > 0 /\ IsEntry(a[Len(a)])
<1> DEFINE n == Len(a)
<1>1. /\ n \in Nat /\ DOMAIN a = 1 .. n /\ Len(b) = n + 1 /\ DOMAIN b = 1 .. n + 1
      /\ b[n + 1] = x /\ \A i \in 1 .. n : b[i] = a[i]
  BY ActsPushed
<1> HIDE DEF n
<1>2. \A i \in DOMAIN a : MadeByHost(b, i) <=> MadeByHost(a, i)
  BY <1>1 DEF MadeByHost
<1>3. MadeByHost(b, n + 1) <=> n > 0 /\ IsEntry(a[n])
  <2>1. MadeByHost(b, n + 1) <=> n + 1 > 1 /\ IsEntry(b[n + 1 - 1])
    BY <1>1 DEF MadeByHost
  <2>2. n + 1 - 1 = n /\ (n + 1 > 1 <=> n > 0)
    BY <1>1
  <2>3. MadeByHost(b, n + 1) <=> n > 0 /\ IsEntry(b[n])
    BY <2>1, <2>2
  <2>4. n > 0 => b[n] = a[n]
    BY <1>1
  <2>5. QED
    BY <2>3, <2>4
<1>4. \A i \in DOMAIN a : ActWin(b, i) = ActWin(a, i)
  BY <1>1, <1>2 DEF ActWin, By
<1>5. ASSUME NEW k
      PROVE  LoopByHost(b, k) <=>
               \/ LoopByHost(a, k)
               \/ x.kind = "run" /\ x.at = k - 1 /\ n > 0 /\ IsEntry(a[n])
  <2>1. ASSUME LoopByHost(a, k) PROVE LoopByHost(b, k)
    <3>1. PICK i \in DOMAIN a : a[i].kind = "run" /\ a[i].at = k - 1 /\ MadeByHost(a, i)
      BY <2>1 DEF LoopByHost
    <3>2. i \in DOMAIN b /\ b[i] = a[i] /\ MadeByHost(b, i)
      BY <1>1, <1>2, <3>1
    <3>3. QED
      BY <3>1, <3>2 DEF LoopByHost
  <2>2. ASSUME x.kind = "run", x.at = k - 1, n > 0, IsEntry(a[n]) PROVE LoopByHost(b, k)
    <3>1. n + 1 \in DOMAIN b /\ b[n + 1] = x /\ MadeByHost(b, n + 1)
      BY <1>1, <1>3, <2>2
    <3>2. QED
      BY <2>2, <3>1 DEF LoopByHost
  <2>3. ASSUME LoopByHost(b, k)
        PROVE  \/ LoopByHost(a, k)
               \/ x.kind = "run" /\ x.at = k - 1 /\ n > 0 /\ IsEntry(a[n])
    <3>1. PICK i \in DOMAIN b : b[i].kind = "run" /\ b[i].at = k - 1 /\ MadeByHost(b, i)
      BY <2>3 DEF LoopByHost
    <3>2. CASE i = n + 1
      BY <1>1, <1>3, <3>1, <3>2
    <3>3. CASE i # n + 1
      <4>1. i \in DOMAIN a /\ a[i] = b[i]
        BY <1>1, <3>3
      <4>2. QED
        BY <1>2, <3>1, <4>1 DEF LoopByHost
    <3>4. QED
      BY <3>2, <3>3
  <2>4. QED
    BY <2>1, <2>2, <2>3
<1>6. \A i \in DOMAIN a : IsWindow(b[i]) <=> IsWindow(a[i])
  BY <1>1
<1>7. QED
  BY <1>3, <1>4, <1>5, <1>6 DEF n

(* Entry points have no window.                                            *)
LEMMA EntryWins ==
  ASSUME NEW a \in Seq(Activation), NEW b \in Seq(Activation), NEW x \in Activation,
         Pushed(a, b, x), IsEntry(x), NEW F
  PROVE  Wins(b, F) = Wins(a, F)
<1> DEFINE n == Len(a)
<1>1. /\ n \in Nat /\ DOMAIN a = 1 .. n /\ DOMAIN b = 1 .. n + 1 /\ b[n + 1] = x
  BY ActsPushed
<1>2. ~IsWindow(x) /\ x.kind # "run"
  BY DEF IsEntry, IsWindow
<1>3. /\ \A i \in DOMAIN a : IsWindow(b[i]) <=> IsWindow(a[i])
      /\ \A i \in DOMAIN a : ActWin(b, i) = ActWin(a, i)
      /\ \A k : LoopByHost(b, k) <=> LoopByHost(a, k)
  BY <1>2, SameWins
<1> HIDE DEF n
<1>4. \A k : FrameWin(b, F, k) = FrameWin(a, F, k)
  BY <1>3 DEF FrameWin, By
<1>5. ASSUME NEW w
      PROVE  w \in Wins(b, F) <=> w \in Wins(a, F)
  <2>1. ASSUME NEW i \in DOMAIN b, IsWindow(b[i])
        PROVE  i \in DOMAIN a
    BY <1>1, <1>2, <2>1
  <2>2. \A i \in DOMAIN a : i \in DOMAIN b
    BY <1>1
  <2>3. QED
    BY <1>3, <1>4, <2>1, <2>2, WinCases
<1>6. QED
  BY <1>5

LEMMA WindowWins ==
  ASSUME NEW a \in Seq(Activation), NEW b \in Seq(Activation), NEW x \in Activation,
         Pushed(a, b, x), IsWindow(x), Len(a) > 0, NEW F
  PROVE  Wins(b, F) = Wins(a, F) \cup
           {[start |-> x.at, kind |-> IF x.kind = "host" THEN "host" ELSE "program",
             by |-> By(IsEntry(a[Len(a)]))]}
<1> DEFINE n == Len(a)
           w == ActWin(b, n + 1)
<1>1. /\ n \in Nat /\ DOMAIN a = 1 .. n /\ DOMAIN b = 1 .. n + 1 /\ b[n + 1] = x
  BY ActsPushed
<1>2. x.kind # "run"
  BY DEF IsWindow
<1>3. /\ \A i \in DOMAIN a : IsWindow(b[i]) <=> IsWindow(a[i])
      /\ \A i \in DOMAIN a : ActWin(b, i) = ActWin(a, i)
      /\ \A k : LoopByHost(b, k) <=> LoopByHost(a, k)
      /\ MadeByHost(b, n + 1) <=> IsEntry(a[n])
  BY <1>2, SameWins
<1>4. w = [start |-> x.at, kind |-> IF x.kind = "host" THEN "host" ELSE "program",
           by |-> By(IsEntry(a[n]))]
  BY <1>1, <1>3 DEF ActWin, By
<1>5. \A k : FrameWin(b, F, k) = FrameWin(a, F, k)
  BY <1>3 DEF FrameWin, By
<1> HIDE DEF w, n
<1>6. \A i : i \in DOMAIN b <=> i \in DOMAIN a \/ i = n + 1
  BY <1>1
<1>7. IsWindow(b[n + 1]) /\ w = ActWin(b, n + 1)
  BY <1>1 DEF w
<1>8. \A v : v \in Wins(b, F) <=> v \in Wins(a, F) \/ v = w
  BY <1>3, <1>5, <1>6, <1>7, WinCases
<1>9. Wins(b, F) = Wins(a, F) \cup {w}
  BY <1>8
<1>10. QED
  BY <1>4, <1>9 DEF n

LEMMA FrameWins ==
  ASSUME NEW a \in Seq(Activation), NEW F \in Seq(Frame), NEW G \in Seq(Frame), NEW f \in Frame,
         Pushed(F, G, f), RunnersNest(a, F), Len(a) > 0, a[Len(a)].kind = "run"
  PROVE  Wins(a, G) = Wins(a, F) \cup
           {[start |-> f.slots, kind |-> "program", by |-> By(IsEntry(a[Len(a)]))]}
<1> DEFINE m == Len(F)
           w == FrameWin(a, G, m + 1)
<1>1. /\ m \in Nat /\ DOMAIN F = 1 .. m /\ DOMAIN G = 1 .. m + 1
      /\ G[m + 1] = f /\ \A k \in 1 .. m : G[k] = F[k]
  BY FramesPushed
<1>2. ~LoopByHost(a, m + 1)
  <2>1. m + 1 - 1 = m
    BY <1>1
  <2>2. \A i \in DOMAIN a : a[i].kind = "run" => a[i].at < m /\ a[i].at \in Nat
    BY Acts DEF RunnersNest
  <2>3. QED
    BY <1>1, <2>1, <2>2 DEF LoopByHost
<1>3. w = [start |-> f.slots, kind |-> "program", by |-> By(IsEntry(a[Len(a)]))]
  BY <1>1, <1>2 DEF FrameWin, By, IsEntry
<1> HIDE DEF w, m
<1>4. \A k \in DOMAIN F : FrameWin(a, G, k) = FrameWin(a, F, k)
  BY <1>1 DEF FrameWin
<1>5. \A k : k \in DOMAIN G <=> k \in DOMAIN F \/ k = m + 1
  BY <1>1
<1>6. w = FrameWin(a, G, m + 1)
  BY DEF w
<1>7. \A v : v \in Wins(a, G) <=> v \in Wins(a, F) \/ v = w
  BY <1>4, <1>5, <1>6, WinCases
<1>8. Wins(a, G) = Wins(a, F) \cup {w}
  BY <1>7
<1>9. QED
  BY <1>3, <1>8

LEMMA LoopWins ==
  ASSUME NEW a \in Seq(Activation), NEW F \in Seq(Frame), RunnersNest(a, F), Len(a) > 0,
         NEW b \in Seq(Activation), NEW x \in Activation, Pushed(a, b, x),
         NEW G \in Seq(Frame), NEW f \in Frame, Pushed(F, G, f),
         x.kind = "run", x.at = Len(F)
  PROVE  Wins(b, G) = Wins(a, F) \cup
           {[start |-> f.slots, kind |-> "program", by |-> By(IsEntry(a[Len(a)]))]}
<1> DEFINE n == Len(a)
           m == Len(F)
           w == FrameWin(b, G, m + 1)
<1>1. /\ m \in Nat /\ DOMAIN F = 1 .. m /\ DOMAIN G = 1 .. m + 1
      /\ G[m + 1] = f /\ \A k \in 1 .. m : G[k] = F[k]
  BY FramesPushed
<1>2. /\ n \in Nat /\ DOMAIN a = 1 .. n /\ DOMAIN b = 1 .. n + 1 /\ b[n + 1] = x
  BY ActsPushed
<1>3. /\ \A i \in DOMAIN a : IsWindow(b[i]) <=> IsWindow(a[i])
      /\ \A i \in DOMAIN a : ActWin(b, i) = ActWin(a, i)
      /\ \A k : LoopByHost(b, k) <=> LoopByHost(a, k) \/ (m = k - 1 /\ IsEntry(a[n]))
  BY SameWins
<1>4. ~LoopByHost(a, m + 1) /\ m + 1 - 1 = m
  <2>1. m + 1 - 1 = m
    BY <1>1
  <2>2. \A i \in DOMAIN a : a[i].kind = "run" => a[i].at < m /\ a[i].at \in Nat
    BY Acts DEF RunnersNest
  <2>3. QED
    BY <1>1, <2>1, <2>2 DEF LoopByHost
<1>5. w = [start |-> f.slots, kind |-> "program", by |-> By(IsEntry(a[n]))]
  <2>1. LoopByHost(b, m + 1) <=> IsEntry(a[n])
    BY <1>3, <1>4
  <2>2. QED
    BY <1>1, <2>1 DEF FrameWin, By
<1>6. x.kind = "run" => ~IsWindow(x)
  BY DEF IsWindow
<1> HIDE DEF w, m, n
<1>7. \A k \in DOMAIN F : FrameWin(b, G, k) = FrameWin(a, F, k)
  <2>1. \A k \in DOMAIN F : m # k - 1
    BY <1>1
  <2>2. QED
    BY <1>1, <1>3, <2>1 DEF FrameWin, By
<1>8. \A k : k \in DOMAIN G <=> k \in DOMAIN F \/ k = m + 1
  BY <1>1
<1>9. \A i : i \in DOMAIN b /\ IsWindow(b[i]) <=> i \in DOMAIN a /\ IsWindow(a[i])
  <2>1. \A i : i \in DOMAIN b <=> i \in DOMAIN a \/ i = n + 1
    BY <1>2
  <2>2. QED
    BY <1>2, <1>3, <1>6, <2>1
<1>10. w = FrameWin(b, G, m + 1)
  BY DEF w
<1>11. \A v : v \in Wins(b, G) <=> v \in Wins(a, F) \/ v = w
  <2>1. \A v : (\E k \in DOMAIN G : v = FrameWin(b, G, k))
               <=> (\E k \in DOMAIN F : v = FrameWin(a, F, k)) \/ v = w
    BY <1>7, <1>8, <1>10
  <2>2. \A v : (\E i \in DOMAIN b : IsWindow(b[i]) /\ v = ActWin(b, i))
               <=> (\E i \in DOMAIN a : IsWindow(a[i]) /\ v = ActWin(a, i))
    BY <1>3, <1>9
  <2>3. ASSUME NEW v
        PROVE  v \in Wins(b, G) <=> v \in Wins(a, F) \/ v = w
    <3>1. v \in Wins(b, G) <=> \/ \E k \in DOMAIN G : v = FrameWin(b, G, k)
                              \/ \E i \in DOMAIN b : IsWindow(b[i]) /\ v = ActWin(b, i)
      BY WinCases
    <3>2. v \in Wins(a, F) <=> \/ \E k \in DOMAIN F : v = FrameWin(a, F, k)
                              \/ \E i \in DOMAIN a : IsWindow(a[i]) /\ v = ActWin(a, i)
      BY WinCases
    <3>3. QED
      BY <2>1, <2>2, <3>1, <3>2
  <2>4. QED
    BY <2>3
<1>12. Wins(b, G) = Wins(a, F) \cup {w}
  BY <1>11
<1>13. QED
  BY <1>5, <1>12 DEF n
----------------------------------------------------------------------------
(* What runs owns the highest window.                                      *)
LEMMA TopWin ==
  ASSUME NInv
  PROVE  /\ acts = <<>> => Windows = {}
         /\ acts # <<>> =>
               \E w : /\ Discipline!Innermost(w) /\ w.start = TopSlots(acts, frames)
                      /\ w.kind = IF Last(acts).kind = "host" THEN "host" ELSE "program"
<1>1. CASE acts = <<>>
  <2>1. DOMAIN acts = {} /\ DOMAIN frames = {}
    BY <1>1, Now
  <2>2. Windows = {}
    BY <2>1, WindowsNow DEF Wins
  <2>3. QED
    BY <1>1, <2>2
<1>2. CASE acts # <<>>
  <2> DEFINE s == TopSlots(acts, frames)
             n == Len(acts)
             m == Len(frames)
  <2>1. /\ acts \in Seq(Activation) /\ frames \in Seq(Frame) /\ Nested(acts, frames)
        /\ n > 0 /\ Last(acts) = acts[n] /\ ~IsEntry(acts[n]) /\ acts # <<>>
        /\ n \in DOMAIN acts
    BY <1>2, Now, Elements
  <2>2. /\ s \in Nat
        /\ acts[n].kind = "run" => m > 0
        /\ \A k \in DOMAIN frames : \/ frames[k].slots < s
                                    \/ k = m /\ acts[n].kind = "run"
        /\ \A j \in DOMAIN acts : IsWindow(acts[j]) /\ j # n => acts[j].at < s
    BY <2>1, Highest
  <2>3. /\ acts[n].kind = "run" => s = frames[m].slots /\ m \in DOMAIN frames
        /\ acts[n].kind # "run" => s = acts[n].at /\ IsWindow(acts[n])
    <3>1. acts[n].kind = "run" => m \in DOMAIN frames
      BY <2>1, <2>2, Frames
    <3>2. acts[n].kind # "run" => IsWindow(acts[n])
      BY <2>1, Acts
    <3>3. QED
      BY <3>1, <3>2 DEF TopSlots
  <2> HIDE DEF s, n, m
  <2>4. \A v \in Windows : v.start <= s
    <3>1. \A k \in DOMAIN frames : frames[k].slots <= s
      <4>1. \A k \in DOMAIN frames : frames[k].slots \in Nat
        BY <2>1, Frames
      <4>2. QED
        BY <2>2, <2>3, <4>1
    <3>2. \A i \in DOMAIN acts : IsWindow(acts[i]) => acts[i].at <= s
      <4>1. \A i \in DOMAIN acts : acts[i].at \in Nat
        BY <2>1, Acts
      <4>2. acts[n].kind = "run" => ~IsWindow(acts[n])
        BY DEF IsWindow
      <4>3. QED
        BY <2>2, <2>3, <4>1, <4>2
    <3>3. QED
      BY <3>1, <3>2, WindowsNow, WinCases, FrameWinFields, ActWinFields
  <2>5. \E w \in Windows : /\ w.start = s
                           /\ w.kind = IF acts[n].kind = "host" THEN "host" ELSE "program"
    <3>1. CASE acts[n].kind = "run"
      <4>1. FrameWin(acts, frames, m) \in Windows
        BY <2>3, <3>1, WindowsNow, WinCases
      <4>2. QED
        BY <2>3, <3>1, <4>1, FrameWinFields
    <3>2. CASE acts[n].kind # "run"
      <4>1. ActWin(acts, n) \in Windows
        BY <2>1, <2>3, <3>2, WindowsNow, WinCases
      <4>2. QED
        BY <2>3, <3>2, <4>1, ActWinFields
    <3>3. QED
      BY <3>1, <3>2
  <2>6. QED
    BY <2>1, <2>4, <2>5 DEF Discipline!Innermost, s
<1>3. QED
  BY <1>1, <1>2

LEMMA ProgramWin ==
  ASSUME NInv, InProgram
  PROVE  \E w : Discipline!Innermost(w) /\ w.start = Slots /\ w.kind = "program"
  BY TopWin, ProgramNow

LEMMA HostWin ==
  ASSUME NInv, InHost
  PROVE  Discipline!Running("host")
<1>1. CASE acts = <<>>
  BY <1>1, TopWin DEF Discipline!Running
<1>2. CASE acts # <<>>
  <2>1. Last(acts).kind = "host"
    BY <1>2, HostNow
  <2>2. PICK w : Discipline!Innermost(w) /\ w.kind = "host"
    BY <1>2, <2>1, TopWin
  <2>3. w \in Windows
    BY <2>2 DEF Discipline!Innermost
  <2>4. QED
    BY <2>2, <2>3 DEF Discipline!Running
<1>3. QED
  BY <1>1, <1>2

LEMMA SiteWins ==
  ASSUME NInv, NEW argc \in Nat, NEW c \in CallSites(argc)
  PROVE  Wins(c.stack, frames) = Windows
<1>1. CASE c.stack = acts
  BY <1>1, WindowsNow
<1>2. CASE c.stack = Append(acts, Act("call", 0, 0))
  <2> DEFINE x == Act("call", 0, 0)
             b == Append(acts, x)
  <2>1. x \in Activation /\ IsEntry(x) /\ acts \in Seq(Activation)
    BY Entry, Now
  <2> HIDE DEF x
  <2>2. b \in Seq(Activation) /\ Pushed(acts, b, x)
    BY <2>1, NewAct
  <2> HIDE DEF b
  <2>3. Wins(b, frames) = Wins(acts, frames)
    BY <2>1, <2>2, EntryWins
  <2>4. QED
    BY <1>2, <2>3, WindowsNow DEF b, x
<1>3. QED
  BY <1>1, <1>2, SiteCases

(* A call begins.                                                          *)
LEMMA Begins ==
  ASSUME NInv, NEW argc \in 0 .. MaxArgs, NEW c \in CallSites(argc), NEW kind \in {"program", "host"},
         Windows' = Wins(c.stack, frames) \cup
            {[start |-> c.height - argc - 1, kind |-> kind, by |-> By(IsEntry(Last(c.stack)))]},
         height' = c.height
  PROVE  Discipline!Next
<1>1. argc \in Nat /\ Wins(c.stack, frames) = Windows /\ height \in Nat
  BY SiteWins, Now
<1>2. IsEntry(Last(c.stack)) <=> Last(c.stack).kind = "call"
  BY <1>1, SiteOfCall
<1>3. CASE InProgram /\ c.height = height /\ c.stack = acts /\ height > Slots + argc + 1
  <2>1. PICK w : Discipline!Innermost(w) /\ w.start = Slots /\ w.kind = "program"
    BY <1>3, ProgramWin
  <2>2. w \in Windows
    BY <2>1 DEF Discipline!Innermost
  <2>3. ~IsEntry(Last(c.stack))
    BY <1>2, <1>3, ProgramNow
  <2>4. Discipline!Open(height - argc - 1, kind, "program")
    BY <1>1, <1>3, <2>3 DEF Discipline!Open, By
  <2>5. height > w.start + argc + 1 /\ height' = height
    BY <1>3, <2>1
  <2>6. Discipline!Call
    BY <2>1, <2>2, <2>4, <2>5 DEF Discipline!Call
  <2>7. QED
    BY <2>6 DEF Discipline!Next
<1>4. CASE /\ InHost /\ c.height = height + argc + 1
           /\ c.stack = Append(acts, Act("call", 0, 0))
  <2>1. Discipline!Running("host")
    BY <1>4, HostWin
  <2>2. IsEntry(Last(c.stack))
    BY <1>4, Now, Entry, NewAct
  <2>3. c.height - argc - 1 = height /\ height' = height + argc + 1
    BY <1>1, <1>4
  <2>4. Discipline!Open(height, kind, "host")
    BY <1>1, <2>2, <2>3 DEF Discipline!Open, By
  <2>5. Discipline!Enter
    BY <2>1, <2>3, <2>4 DEF Discipline!Enter
  <2>6. QED
    BY <2>5 DEF Discipline!Next
<1>5. QED
  BY <1>3, <1>4, SiteCases

(* A call ends.                                                            *)
LEMMA Ends ==
  ASSUME NEW stack, NEW F, NEW p, Site(stack, F, p), Left(stack, p), frames' = F,
         NEW kind,
         Windows = Wins(stack, F) \cup
            {[start |-> p, kind |-> kind, by |-> By(IsEntry(stack[Len(stack)]))]}
  PROVE  Discipline!Next
<1> DEFINE w == [start |-> p, kind |-> kind, by |-> By(IsEntry(stack[Len(stack)]))]
<1>1. /\ stack \in Seq(Activation) /\ F \in Seq(Frame) /\ p \in Nat /\ Above(stack, F, p)
      /\ Len(stack) > 0 /\ stack # <<>> /\ Last(stack) = stack[Len(stack)]
  BY Elements DEF Site, Last
<1>2. \A v \in Wins(stack, F) : v.start < p /\ v.start \in Nat
  <2>1. \A k \in DOMAIN F : F[k].slots < p /\ F[k].slots \in Nat
    BY <1>1, Frames DEF Above
  <2>2. \A i \in DOMAIN stack : IsWindow(stack[i]) => stack[i].at < p /\ stack[i].at \in Nat
    BY <1>1, Acts DEF Above
  <2>3. QED
    BY <2>1, <2>2, WinCases, FrameWinFields, ActWinFields
<1>3. w.start = p /\ (w.by = "host" <=> IsEntry(stack[Len(stack)])) /\ w \in Windows
      /\ Windows = Wins(stack, F) \cup {w}
  BY DEF By
<1> HIDE DEF w
<1>4. Discipline!Innermost(w)
  BY <1>1, <1>2, <1>3 DEF Discipline!Innermost
<1>5. Discipline!Below(w) = Wins(stack, F)
  BY <1>1, <1>2, <1>3 DEF Discipline!Below
<1>6. Windows' = Wins(stack, F) /\ height' = IF w.by = "host" THEN w.start ELSE w.start + 1
  <2>1. CASE IsEntry(stack[Len(stack)])
    <3>1. acts' = Front(stack) /\ height' = p
      BY <2>1 DEF Left
    <3>2. /\ Front(stack) \in Seq(Activation) /\ Last(stack) \in Activation
          /\ Pushed(Front(stack), stack, Last(stack))
      BY <1>1, FrontPushes
    <3>3. Wins(Front(stack), F) = Wins(stack, F)
      BY <1>1, <2>1, <3>2, EntryWins
    <3>4. QED
      BY <1>3, <2>1, <3>1, <3>3, WindowsNow
  <2>2. CASE ~IsEntry(stack[Len(stack)])
    BY <1>3, <2>2, WindowsNow DEF Left
  <2>3. QED
    BY <2>1, <2>2
<1>7. Discipline!Return
  BY <1>3, <1>4, <1>5, <1>6 DEF Discipline!Return
<1>8. QED
  BY <1>7 DEF Discipline!Next
----------------------------------------------------------------------------
LEMMA CallBytecodeBegins ==
  ASSUME NInv, CallBytecode
  PROVE  Discipline!Next
<1>1. PICK f \in held : \E c \in CallSites(Arity[f]) :
            /\ frames' = Append(frames, [fn |-> f, slots |-> c.height - Arity[f] - 1])
            /\ acts' = IF Last(c.stack).kind = "run" THEN c.stack
                       ELSE Append(c.stack, Act("run", Saved, 0))
            /\ height' = c.height
  BY DEF CallBytecode
<1>2. f \in Functions /\ Arity[f] \in 0 .. MaxArgs /\ frames \in Seq(Frame)
  BY Now, CallStackAssumption
<1> DEFINE argc == Arity[f]
<1>3. PICK c \in CallSites(argc) :
            /\ frames' = Append(frames, [fn |-> f, slots |-> c.height - argc - 1])
            /\ acts' = IF Last(c.stack).kind = "run" THEN c.stack
                       ELSE Append(c.stack, Act("run", Saved, 0))
            /\ height' = c.height
  BY <1>1
<1>4. argc \in Nat /\ argc \in 0 .. MaxArgs
  BY <1>2
<1> HIDE DEF argc
<1> DEFINE p == c.height - argc - 1
           g == [fn |-> f, slots |-> p]
           stack == c.stack
           G == Append(frames, g)
<1>5. Site(stack, frames, p) /\ Last(stack) = stack[Len(stack)]
  BY <1>4, SiteOfCall
<1>6. /\ stack \in Seq(Activation) /\ RunnersNest(stack, frames) /\ Len(stack) > 0 /\ p \in Nat
  BY <1>5 DEF Site, Nested
<1>7. frames' = G /\ height' = c.height
  BY <1>3
<1> HIDE DEF p
<1>8. g \in Frame /\ g.slots = p /\ G \in Seq(Frame) /\ Pushed(frames, G, g)
  BY <1>2, <1>6, NewFrame
<1> HIDE DEF g, stack, G
<1>9. Windows' = Wins(stack, frames) \cup
            {[start |-> g.slots, kind |-> "program", by |-> By(IsEntry(stack[Len(stack)]))]}
  <2>1. CASE stack[Len(stack)].kind = "run"
    <3>1. acts' = stack
      BY <1>3, <1>5, <2>1 DEF stack
    <3>2. Wins(stack, G) = Wins(stack, frames) \cup
            {[start |-> g.slots, kind |-> "program", by |-> By(IsEntry(stack[Len(stack)]))]}
      BY <1>2, <1>6, <1>8, <2>1, FrameWins
    <3>3. QED
      BY <1>7, <3>1, <3>2, WindowsNow
  <2>2. CASE stack[Len(stack)].kind # "run"
    <3> DEFINE x == Act("run", Len(frames), 0)
               b == Append(stack, x)
    <3>1. acts' = b
      BY <1>3, <1>5, <2>2 DEF stack, Saved
    <3>2. x \in Activation /\ x.kind = "run" /\ x.at = Len(frames)
      BY <1>2, Frames DEF Act, Activation
    <3> HIDE DEF x
    <3>3. b \in Seq(Activation) /\ Pushed(stack, b, x)
      BY <1>6, <3>2, NewAct
    <3> HIDE DEF b
    <3>4. Wins(b, G) = Wins(stack, frames) \cup
            {[start |-> g.slots, kind |-> "program", by |-> By(IsEntry(stack[Len(stack)]))]}
      BY <1>2, <1>6, <1>8, <3>2, <3>3, LoopWins
    <3>5. QED
      BY <1>7, <3>1, <3>4, WindowsNow
  <2>3. QED
    BY <2>1, <2>2
<1>10. Windows' = Wins(c.stack, frames) \cup
            {[start |-> c.height - argc - 1, kind |-> "program",
              by |-> By(IsEntry(Last(c.stack)))]}
  BY <1>5, <1>8, <1>9 DEF stack, p
<1>11. QED
  BY <1>4, <1>7, <1>10, Begins

LEMMA CallWindowBegins ==
  ASSUME NInv, NEW argc \in 0 .. MaxArgs, NEW c \in CallSites(argc),
         NEW x \in Activation, IsWindow(x), x.at = c.height - argc - 1,
         acts' = Append(c.stack, x), height' = c.height, UNCHANGED frames
  PROVE  Discipline!Next
<1> DEFINE b == Append(c.stack, x)
           kind == IF x.kind = "host" THEN "host" ELSE "program"
<1>1. argc \in Nat
  OBVIOUS
<1>2. /\ c.stack \in Seq(Activation) /\ Len(c.stack) > 0
      /\ Last(c.stack) = c.stack[Len(c.stack)]
  BY <1>1, SiteOfCall DEF Site
<1>3. b \in Seq(Activation) /\ Pushed(c.stack, b, x)
  BY <1>2, NewAct
<1>4. acts' = b /\ kind \in {"program", "host"}
  OBVIOUS
<1> HIDE DEF b
<1>5. Wins(b, frames) = Wins(c.stack, frames) \cup
          {[start |-> x.at, kind |-> kind, by |-> By(IsEntry(c.stack[Len(c.stack)]))]}
  BY <1>2, <1>3, WindowWins
<1> HIDE DEF kind
<1>6. Windows' = Wins(c.stack, frames) \cup
          {[start |-> c.height - argc - 1, kind |-> kind, by |-> By(IsEntry(Last(c.stack)))]}
  BY <1>2, <1>4, <1>5, WindowsNow
<1>7. QED
  BY <1>4, <1>6, Begins

LEMMA CallNativeCodeBegins ==
  ASSUME NInv, CallNativeCode
  PROVE  Discipline!Next
<1>1. PICK f \in held : \E c \in CallSites(Arity[f]), bare \in {{}, {f}} :
            /\ acts' = Append(c.stack, [Act("native_code", c.height - Arity[f] - 1, 0)
                                            EXCEPT !.bare = bare])
            /\ height' = c.height
            /\ UNCHANGED frames
  BY DEF CallNativeCode
<1>2. f \in Functions /\ Arity[f] \in 0 .. MaxArgs
  BY Now, CallStackAssumption
<1>3. PICK c \in CallSites(Arity[f]), bare \in {{}, {f}} :
            /\ acts' = Append(c.stack, [Act("native_code", c.height - Arity[f] - 1, 0)
                                            EXCEPT !.bare = bare])
            /\ height' = c.height
            /\ UNCHANGED frames
  BY <1>1
<1> DEFINE p == c.height - Arity[f] - 1
           x == [Act("native_code", p, 0) EXCEPT !.bare = bare]
<1>4. p \in Nat
  <2>1. Arity[f] \in Nat
    BY <1>2
  <2>2. QED
    BY <2>1, SiteOfCall DEF Site
<1>5. x \in Activation /\ IsWindow(x) /\ x.at = p
  BY <1>2, <1>4 DEF Act, Activation, IsWindow
<1> HIDE DEF x
<1>6. acts' = Append(c.stack, x)
  BY <1>3 DEF x
<1>7. QED
  BY <1>2, <1>3, <1>5, <1>6, CallWindowBegins

LEMMA CallHostBegins ==
  ASSUME NInv, CallHost
  PROVE  Discipline!Next
<1>1. PICK argc \in 0 .. MaxArgs : \E c \in CallSites(argc) :
            /\ acts' = Append(c.stack, Act("host", c.height - argc - 1, argc))
            /\ height' = c.height
            /\ UNCHANGED frames
  BY DEF CallHost
<1>2. PICK c \in CallSites(argc) :
            /\ acts' = Append(c.stack, Act("host", c.height - argc - 1, argc))
            /\ height' = c.height
            /\ UNCHANGED frames
  BY <1>1
<1> DEFINE p == c.height - argc - 1
           x == Act("host", p, argc)
<1>3. argc \in Nat
  OBVIOUS
<1>4. p \in Nat
  BY <1>3, SiteOfCall DEF Site
<1>5. x \in Activation /\ IsWindow(x) /\ x.at = p
  BY <1>3, <1>4 DEF Act, Activation, IsWindow
<1> HIDE DEF x
<1>6. acts' = Append(c.stack, x)
  BY <1>2 DEF x
<1>7. QED
  BY <1>2, <1>5, <1>6, CallWindowBegins

(* A call that takes no window of its own: the program computes a value,   *)
(* the host has its operands taken.                                        *)
LEMMA CallLeafComputes ==
  ASSUME NInv, CallLeaf
  PROVE  Discipline!Next \/ UNCHANGED <<Windows, height>>
<1>1. PICK argc \in 0 .. MaxArgs : \E c \in CallSites(argc) :
            ReturnTo(c.stack, c.height - argc) /\ UNCHANGED frames
  BY DEF CallLeaf
<1>2. argc \in Nat
  OBVIOUS
<1>3. PICK c \in CallSites(argc) :
            ReturnTo(c.stack, c.height - argc) /\ UNCHANGED frames
  BY <1>1
<1>4. /\ Left(c.stack, c.height - argc - 1) /\ Last(c.stack) = c.stack[Len(c.stack)]
      /\ IsEntry(Last(c.stack)) <=> Last(c.stack).kind = "call"
      /\ height \in Nat
  BY <1>2, <1>3, CallLeafLeaves, SiteOfCall, Now
<1>5. CASE InProgram /\ c.height = height /\ c.stack = acts /\ height > Slots + argc + 1
  <2>1. PICK w : Discipline!Innermost(w) /\ w.start = Slots /\ w.kind = "program"
    BY <1>5, ProgramWin
  <2>2. w \in Windows
    BY <2>1 DEF Discipline!Innermost
  <2>3. ~IsEntry(Last(acts)) /\ Slots \in Nat
    BY <1>4, <1>5, ProgramNow
  <2>4. acts' = acts /\ height' = height - argc - 1 + 1
    BY <1>4, <1>5, <2>3 DEF Left
  <2>5. UNCHANGED Windows
    BY <1>3, <2>4, WindowsNow
  <2>6. height' \in Nat /\ height' > w.start
    BY <1>4, <1>5, <2>1, <2>3, <2>4
  <2>7. Discipline!Compute
    BY <2>1, <2>2, <2>5, <2>6 DEF Discipline!Compute
  <2>8. QED
    BY <2>7 DEF Discipline!Next
<1>6. CASE /\ InHost /\ c.height = height + argc + 1
           /\ c.stack = Append(acts, Act("call", 0, 0))
  <2>1. acts \in Seq(Activation)
    BY Now
  <2>2. IsEntry(Last(c.stack)) /\ Front(c.stack) = acts
    BY <1>6, <2>1, Entry, NewAct, FrontOfPushed
  <2>3. acts' = acts /\ height' = height
    BY <1>4, <1>6, <2>2 DEF Left
  <2>4. QED
    BY <1>3, <2>3, WindowsNow
<1>7. QED
  BY <1>5, <1>6, SiteCases

(* No host function waits: the host made the outermost call only.          *)
LEMMA HostMadeOne ==
  ASSUME NInv, acts # <<>>, \A i \in DOMAIN acts : acts[i].kind # "host"
  PROVE  /\ \A v \in Windows : v.start \in Nat /\ (v.by = "host" => v.start = 0)
         /\ \E v \in Windows : v.by = "host" /\ v.start = 0
<1>1. /\ acts \in Seq(Activation) /\ frames \in Seq(Frame) /\ EntriesNest(acts)
      /\ RunnersNest(acts, frames) /\ EntriesStart(acts, frames)
      /\ Len(acts) > 0 /\ ~IsEntry(acts[Len(acts)])
  BY Now DEF Nested
<1> DEFINE n == Len(acts)
<1>2. n \in Nat /\ n > 0 /\ DOMAIN acts = 1 .. n
  BY <1>1, Acts
<1>3. n # 1
  BY <1>1, EntryOnTop
<1>4. n > 1 => /\ IsEntry(acts[1]) /\ Base(acts, 1) = 0
               /\ IsWindow(acts[2]) => acts[2].at = Base(acts, 1)
               /\ acts[2].kind = "run" => frames[acts[2].at + 1].slots = Base(acts, 1)
  <2>1. IsEntry(acts[1]) /\ 1 \in DOMAIN acts
    BY <1>1, <1>2, EntryOnTop
  <2>2. 1 + 1 = 2
    OBVIOUS
  <2>3. n > 1 => /\ IsWindow(acts[2]) => acts[2].at = Base(acts, 1)
                 /\ acts[2].kind = "run" => frames[acts[2].at + 1].slots = Base(acts, 1)
    BY <1>1, <2>1, <2>2 DEF EntriesStart
  <2>4. QED
    BY <2>1, <2>3 DEF Base
<1> HIDE DEF n
<1>5. ASSUME NEW i \in DOMAIN acts
      PROVE  MadeByHost(acts, i) <=> i = 2
  <2>1. i - 1 \in DOMAIN acts => (IsEntry(acts[i - 1]) <=> i - 1 = 1)
    <3>1. ASSUME i - 1 \in DOMAIN acts, i - 1 # 1
          PROVE  i - 1 - 1 \in DOMAIN acts
      BY <1>2, <3>1
    <3>2. QED
      BY <1>1, <3>1 DEF EntriesNest
  <2>2. i > 1 => i - 1 \in DOMAIN acts
    BY <1>2
  <2>3. i \in Nat /\ (i - 1 = 1 <=> i = 2)
    BY <1>2
  <2>4. QED
    BY <2>1, <2>2, <2>3 DEF MadeByHost
<1>6. 2 \in DOMAIN acts /\ IsEntry(acts[1])
  BY <1>2, <1>3, <1>4
<1>7. \A k \in DOMAIN frames : frames[k].slots \in Nat /\ (LoopByHost(acts, k) => frames[k].slots = 0)
  <2>1. ASSUME NEW k \in DOMAIN frames, LoopByHost(acts, k)
        PROVE  frames[k].slots = 0
    <3>1. PICK i \in DOMAIN acts : acts[i].kind = "run" /\ acts[i].at = k - 1 /\ MadeByHost(acts, i)
      BY <2>1 DEF LoopByHost
    <3>2. i = 2 /\ n > 1
      BY <1>2, <1>5, <1>6, <3>1
    <3>3. k - 1 + 1 = k
      BY <1>1, Frames
    <3>4. QED
      BY <1>4, <3>1, <3>2, <3>3
  <2>2. QED
    BY <1>1, <2>1, Frames
<1>8. \A i \in DOMAIN acts : acts[i].at \in Nat
                             /\ (IsWindow(acts[i]) /\ MadeByHost(acts, i) => acts[i].at = 0)
  <2>1. n > 1
    BY <1>2, <1>3
  <2>2. QED
    BY <1>1, <1>4, <1>5, <2>1, Acts
<1>9. \A v \in Windows : v.start \in Nat /\ (v.by = "host" => v.start = 0)
  BY <1>7, <1>8, WindowsNow, WinCases, FrameWinFields, ActWinFields
<1>10. \E v \in Windows : v.by = "host" /\ v.start = 0
  <2>1. CASE acts[2].kind = "run"
    <3> DEFINE k == acts[2].at + 1
    <3>1. acts[2].at \in Nat /\ acts[2].at < Len(frames) /\ k - 1 = acts[2].at
      BY <1>1, <1>6, <1>8, <2>1 DEF RunnersNest
    <3>2. k \in DOMAIN frames
      BY <1>1, <3>1, Frames
    <3>3. LoopByHost(acts, k)
      BY <1>5, <1>6, <2>1, <3>1 DEF LoopByHost
    <3> HIDE DEF k
    <3>4. FrameWin(acts, frames, k) \in Windows
      BY <3>2, WindowsNow, WinCases
    <3>5. QED
      BY <1>7, <3>2, <3>3, <3>4, FrameWinFields
  <2>2. CASE acts[2].kind # "run"
    <3>1. IsWindow(acts[2])
      <4>1. 2 # 1 /\ 2 - 1 = 1
        OBVIOUS
      <4>2. ~IsEntry(acts[2])
        BY <1>1, <1>6, <4>1, Acts DEF EntriesNest, IsEntry
      <4>3. QED
        BY <1>1, <1>6, <2>2, <4>2, Acts
    <3>2. ActWin(acts, 2) \in Windows
      BY <1>6, <3>1, WindowsNow, WinCases
    <3>3. MadeByHost(acts, 2)
      BY <1>5, <1>6
    <3>4. QED
      BY <1>6, <1>8, <3>1, <3>2, <3>3, ActWinFields
  <2>3. QED
    BY <2>1, <2>2
<1>11. QED
  BY <1>9, <1>10

LEMMA FailureEndsAll ==
  ASSUME NInv, acts # <<>> => \A i \in DOMAIN acts : acts[i].kind # "host",
         acts' = <<>>, frames' = <<>>, height' = 0
  PROVE  Discipline!Next \/ UNCHANGED <<Windows, height>>
<1>1. Windows' = {}
  <2>1. DOMAIN acts' = {} /\ DOMAIN frames' = {}
    OBVIOUS
  <2>2. QED
    BY <2>1, WindowsNow DEF Wins
<1>2. CASE acts = <<>>
  BY <1>1, <1>2, TopWin, Now
<1>3. CASE acts # <<>>
  <2>1. /\ \A v \in Windows : v.start \in Nat /\ (v.by = "host" => v.start = 0)
        /\ \E v \in Windows : v.by = "host" /\ v.start = 0
    BY <1>3, HostMadeOne
  <2>2. PICK w \in Windows : w.by = "host" /\ w.start = 0
    BY <2>1
  <2>3. Discipline!Below(w) = {}
    BY <2>1, <2>2 DEF Discipline!Below
  <2>4. \A v \in Windows : v.by = "host" => v.start <= w.start
    BY <2>1, <2>2
  <2>5. Discipline!Fail
    BY <1>1, <2>2, <2>3, <2>4 DEF Discipline!Fail
  <2>6. QED
    BY <2>5 DEF Discipline!Next
<1>4. QED
  BY <1>2, <1>3
----------------------------------------------------------------------------
LEMMA FailureDisciplined ==
  ASSUME Disciplined, NInv, CallRefused \/ OperationFails
  PROVE  Discipline!Next \/ UNCHANGED <<Windows, height>>
<1>1. acts' = <<>> /\ frames' = <<>> /\ height' = 0
  BY CallRefusedResets, OperationFailsResets
<1>2. acts # <<>> => \A i \in DOMAIN acts : acts[i].kind # "host"
  <2>1. CASE OperationFails
    BY <2>1 DEF OperationFails, RuntimeError, Disciplined
  <2>2. CASE CallRefused
    <3>1. PICK argc \in 0 .. MaxArgs : \E c \in CallSites(argc) : RuntimeError(c.stack)
      BY <2>2 DEF CallRefused
    <3>2. PICK c \in CallSites(argc) : RuntimeError(c.stack)
      BY <3>1
    <3>3. \A i \in DOMAIN c.stack : c.stack[i].kind # "host"
      BY <3>2 DEF RuntimeError, Disciplined
    <3>4. CASE c.stack = acts
      BY <3>3, <3>4
    <3>5. CASE InHost /\ c.stack = Append(acts, Act("call", 0, 0))
      <4>1. SUFFICES ASSUME acts # <<>> PROVE FALSE
        OBVIOUS
      <4>2. /\ acts \in Seq(Activation) /\ Last(acts).kind = "host"
            /\ Last(acts) = acts[Len(acts)] /\ Len(acts) \in Nat /\ Len(acts) > 0
        BY <3>5, <4>1, HostNow, Now
      <4> DEFINE n == Len(acts)
      <4>3. Pushed(acts, c.stack, Act("call", 0, 0))
        BY <3>5, <4>2, Entry, NewAct
      <4>4. n \in DOMAIN c.stack /\ c.stack[n] = acts[n]
        BY <4>2, <4>3 DEF Pushed
      <4>5. QED
        BY <3>3, <4>2, <4>4
    <3>6. QED
      BY <3>4, <3>5, SiteCases
  <2>3. QED
    BY <2>1, <2>2
<1>3. QED
  BY <1>1, <1>2, FailureEndsAll

LEMMA EvalScriptEnters ==
  ASSUME Disciplined, NInv, EvalScript
  PROVE  Discipline!Next
<1> DEFINE x == Act("eval", 0, 0)
           y == Act("run", 0, 0)
           b == Append(acts, x)
           d == Append(b, y)
           f == [fn |-> Script, slots |-> 0]
           G == Append(frames, f)
<1>1. /\ acts = <<>> /\ height = 0
      /\ x \in Activation /\ x.kind = "eval" /\ b \in Seq(Activation) /\ b[Len(b)] = x
      /\ Len(b) = 1 /\ Len(frames) = 0 /\ Site(b, frames, 0)
      /\ acts' = d /\ frames' = G /\ height' = 1
  BY ScriptStarts
<1>2. /\ y \in Activation /\ y.kind = "run" /\ y.at = Len(frames)
      /\ frames \in Seq(Frame) /\ f \in Frame /\ f.slots = 0
      /\ acts \in Seq(Activation) /\ IsEntry(x)
  BY <1>1, Now DEF Act, Activation, Frame, IsEntry
<1> HIDE DEF x, y, f
<1>3. Pushed(acts, b, x)
  BY <1>1, <1>2, AppendPushes
<1> HIDE DEF b
<1>4. d \in Seq(Activation) /\ Pushed(b, d, y)
  BY <1>1, <1>2, AppendPushes
<1>5. G \in Seq(Frame) /\ Pushed(frames, G, f)
  BY <1>2, AppendPushes
<1> HIDE DEF d, G
<1>6. Wins(b, frames) = {}
  <2>1. Wins(b, frames) = Wins(acts, frames)
    BY <1>1, <1>2, <1>3, EntryWins
  <2>2. QED
    BY <1>1, <2>1, TopWin, WindowsNow
<1>7. b \in Seq(Activation) /\ RunnersNest(b, frames) /\ Len(b) > 0
  BY <1>1 DEF Site, Nested
<1>8. Wins(d, G) = Wins(b, frames) \cup
          {[start |-> f.slots, kind |-> "program", by |-> By(IsEntry(b[Len(b)]))]}
  BY <1>2, <1>4, <1>5, <1>7, LoopWins
<1>9. Windows = {} /\ Windows' = {[start |-> height, kind |-> "program", by |-> "host"]}
  BY <1>1, <1>2, <1>6, <1>8, TopWin, WindowsNow DEF By
<1>10. Discipline!Open(height, "program", "host") /\ Discipline!Running("host")
  BY <1>9 DEF Discipline!Open, Discipline!Running
<1>11. 0 \in 0 .. MaxArgs /\ height' = height + 0 + 1
  BY <1>1, CallStackAssumption
<1>12. Discipline!Enter
  BY <1>10, <1>11 DEF Discipline!Enter
<1>13. QED
  BY <1>12 DEF Discipline!Next

LEMMA ComputeDisciplined ==
  ASSUME NInv, Compute
  PROVE  Discipline!Next
<1>1. /\ InProgram /\ height' \in {height - 1, height + 1} /\ height' > Slots
      /\ UNCHANGED <<frames, acts>>
  BY DEF Compute
<1>2. PICK w : Discipline!Innermost(w) /\ w.start = Slots /\ w.kind = "program"
  BY <1>1, ProgramWin
<1>3. w \in Windows
  BY <1>2 DEF Discipline!Innermost
<1>4. height' \in Nat /\ UNCHANGED Windows
  <2>1. height \in Nat /\ Slots \in Nat
    BY <1>1, Now, ProgramNow
  <2>2. QED
    BY <1>1, <2>1, WindowsNow
<1>5. Discipline!Compute
  BY <1>1, <1>2, <1>3, <1>4 DEF Discipline!Compute
<1>6. QED
  BY <1>5 DEF Discipline!Next

LEMMA ReturnDisciplined ==
  ASSUME Disciplined, NInv, ReturnBytecode \/ ReturnNativeCode \/ ReturnHost
  PROVE  Discipline!Next
<1>1. \E stack \in Seq(Activation), F \in Seq(Frame), p \in Nat :
            /\ FrameEnds(stack, F, p) \/ LoopEnds(stack, F, p) \/ WindowEnds(stack, F, p)
            /\ Left(stack, p) /\ frames' = F
  <2>1. CASE ReturnBytecode
    BY <2>1, BytecodeReturns
  <2>2. CASE ReturnNativeCode \/ ReturnHost
    BY <2>2, WindowReturns, Now
  <2>3. QED
    BY <2>1, <2>2
<1>2. PICK stack \in Seq(Activation), F \in Seq(Frame), p \in Nat :
            /\ FrameEnds(stack, F, p) \/ LoopEnds(stack, F, p) \/ WindowEnds(stack, F, p)
            /\ Left(stack, p) /\ frames' = F
  BY <1>1
<1>3. Site(stack, F, p)
  BY <1>2, FrameSite, LoopSite, WindowSite
<1>4. RunnersNest(stack, F) /\ Len(stack) > 0
  BY <1>3 DEF Site, Nested
<1>5. acts \in Seq(Activation) /\ frames \in Seq(Frame)
  BY Now
<1>6. \E kind : Windows = Wins(stack, F) \cup
            {[start |-> p, kind |-> kind, by |-> By(IsEntry(stack[Len(stack)]))]}
  <2>1. CASE FrameEnds(stack, F, p)
    <3>1. PICK f \in Frame : /\ f.slots = p /\ Pushed(F, frames, f)
                             /\ stack = acts /\ acts[Len(acts)].kind = "run"
      BY <2>1 DEF FrameEnds
    <3>2. Wins(stack, frames) = Wins(stack, F) \cup
            {[start |-> p, kind |-> "program", by |-> By(IsEntry(stack[Len(stack)]))]}
      BY <1>4, <1>5, <3>1, FrameWins
    <3>3. QED
      BY <3>1, <3>2, WindowsNow
  <2>2. CASE LoopEnds(stack, F, p)
    <3>1. PICK f \in Frame, x \in Activation :
                  /\ f.slots = p /\ Pushed(F, frames, f)
                  /\ x.kind = "run" /\ x.at = Len(F) /\ Pushed(stack, acts, x)
      BY <2>2 DEF LoopEnds
    <3>2. Wins(acts, frames) = Wins(stack, F) \cup
            {[start |-> p, kind |-> "program", by |-> By(IsEntry(stack[Len(stack)]))]}
      BY <1>4, <1>5, <3>1, LoopWins
    <3>3. QED
      BY <3>2, WindowsNow
  <2>3. CASE WindowEnds(stack, F, p)
    <3>1. PICK x \in Activation : /\ IsWindow(x) /\ x.at = p /\ Pushed(stack, acts, x)
                                  /\ F = frames
      BY <2>3 DEF WindowEnds
    <3> DEFINE kind == IF x.kind = "host" THEN "host" ELSE "program"
    <3>2. Wins(acts, frames) = Wins(stack, F) \cup
            {[start |-> p, kind |-> kind, by |-> By(IsEntry(stack[Len(stack)]))]}
      BY <1>4, <1>5, <3>1, WindowWins
    <3> HIDE DEF kind
    <3>3. QED
      BY <3>2, WindowsNow
  <2>4. QED
    BY <1>2, <2>1, <2>2, <2>3
<1>7. QED
  BY <1>2, <1>3, <1>6, Ends

LEMMA StepDisciplined ==
  ASSUME Disciplined, NInv, [Next]_vars
  PROVE  Discipline!Next \/ UNCHANGED <<Windows, height>>
<1>1. CASE EvalScript
  BY <1>1, EvalScriptEnters
<1>2. CASE CallBytecode
  BY <1>2, CallBytecodeBegins
<1>3. CASE CallNativeCode
  BY <1>3, CallNativeCodeBegins
<1>4. CASE CallHost
  BY <1>4, CallHostBegins
<1>5. CASE CallLeaf
  BY <1>5, CallLeafComputes
<1>6. CASE CallRefused \/ OperationFails
  BY <1>6, FailureDisciplined
<1>7. CASE Compute
  BY <1>7, ComputeDisciplined
<1>8. CASE ReturnBytecode \/ ReturnNativeCode \/ ReturnHost
  BY <1>8, ReturnDisciplined
<1>9. CASE Rebind \/ UNCHANGED vars
  <2>1. UNCHANGED <<height, frames, acts>>
    BY <1>9 DEF Rebind, vars
  <2>2. QED
    BY <2>1, WindowsNow
<1>10. QED
  BY <1>1, <1>2, <1>3, <1>4, <1>5, <1>6, <1>7, <1>8, <1>9 DEF Next

(* Whatever mixture of interpreter, native code and host functions runs a  *)
(* program, its calls implement the call discipline: a call takes its      *)
(* operands, leaves one value in their place and touches nothing below,    *)
(* and a failure takes the stack back to where the host began.             *)
THEOREM CallsKeepDiscipline ==
  ASSUME {"host_eval", "nested_failure", "return_in_block"} \cap Behaviours = {}
  PROVE  Spec => KeepsDiscipline
<1>1. Disciplined
  BY DEF Disciplined
<1>2. Init => Discipline!Init
  <2>1. ASSUME Init PROVE Windows = {} /\ height = 0
    BY <2>1, InitNInv, TopWin DEF Init
  <2>2. QED
    BY <2>1 DEF Discipline!Init
<1>3. NInv /\ [Next]_vars => [Discipline!Next]_(Discipline!vars)
  BY <1>1, StepDisciplined DEF Discipline!vars
<1>4. Spec => []NInv
  BY CallsNest
<1>5. QED
  BY <1>2, <1>3, <1>4, PTL DEF Spec, KeepsDiscipline, Discipline!Spec
=============================================================================
