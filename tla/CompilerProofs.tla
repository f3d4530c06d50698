---------------------------- MODULE CompilerProofs ---------------------------
(***************************************************************************)
(* Proofs about the compiler and the checker's scopes (module Compiler),   *)
(* for programs of any size and any nesting.                               *)
(***************************************************************************)
EXTENDS Compiler, SequenceTheorems, WellFoundedInduction, TLAPS

Local == [name : Names \cup {NULL, This}, depth : Nat]
Variable == [name : Names \cup {This}, depth : Nat, level : Nat, slot : Nat]
Frame == [locals : Seq(Local), scopeDepth : Nat, open : Seq(Construct),
          depths : SUBSET Int, todo : Todo]

IsScope(c) == c.kind \in {"block", "for", "switch"}
Deeper(c) == IF IsScope(c) THEN 1 ELSE 0
IsDisc(c) == c.kind = "switch" /\ c.stage = "disc"
InExpression(f) == f.todo \in {"expr", "value"}

(* The locals of a function: slot 0 belongs to no scope, and those of a    *)
(* scope lie below those of the scopes in it.                              *)
LocalsOK(list, depth) ==
    /\ Len(list) \in 1 .. MaxLocals
    /\ list[1].depth = 0
    /\ \A i \in DOMAIN list : list[i].depth <= depth /\ (i > 1 => list[i].depth > 0)
    /\ \A i, j \in DOMAIN list : i <= j => list[i].depth <= list[j].depth

Proper(c) == c.breakCount <= MaxBreaks /\ (c.kind = "var" => c.name \in Names)

(* sc[i] is the scope depth inside the construct open[i].                  *)
Nested(open, base, sc) ==
    /\ sc \in [Nat -> Nat] /\ sc[0] = base
    /\ \A i \in DOMAIN open : sc[i] = sc[i - 1] + Deeper(open[i]) /\ Proper(open[i])
    /\ \A i, j \in 0 .. Len(open) : i <= j => sc[i] <= sc[j]

(* While the discriminant of a switch is compiled, nothing but expressions *)
(* is open above the switch.                                               *)
DiscsOK(f) ==
    \A i \in DOMAIN f.open : IsDisc(f.open[i]) =>
       /\ InExpression(f)
       /\ \A j \in DOMAIN f.open : i < j => f.open[j].kind \in {"operands", "logical"}

Sound(f, base, sc) ==
    /\ LocalsOK(f.locals, f.scopeDepth)
    /\ Nested(f.open, base, sc) /\ sc[Len(f.open)] = f.scopeDepth
    /\ DiscsOK(f)

(* Labels. `at' is the number of locals when the construct's body begins,  *)
(* h the height at which a statement in its place begins.                  *)
HasBase(c) ==
    \/ c.kind \in {"while", "do"}
    \/ c.kind = "for" /\ c.stage # ""
    \/ c.kind = "switch" /\ c.stage # "disc"
Declares(c) == c.kind = "block" \/ (c.kind = "for" /\ c.stage = "")
IsBare(c) == Declares(c) \/ c.kind = "var" \/ IsDisc(c)
ExitHeight(c, h) == IF c.kind = "switch" \/ c.stage = "else" THEN h ELSE h + 1

Labels(c, at, h) ==
    /\ c.breaks \subseteq {h} /\ c.bodies \subseteq {h} /\ c.arrivals \subseteq {h}
    /\ c.exit \subseteq {ExitHeight(c, h)}
    /\ HasBase(c) => c.base = at
    /\ ~HasBase(c) => c.breaks = {} /\ c.bodies = {} /\ c.arrivals = {}
    /\ IsBare(c) => c.exit = {}

(* A construct in its place, above `temps' temporaries.                    *)
Placed(c, at, temps) ==
    /\ c.kind \notin {"operands", "logical"} => temps = 0
    /\ c.kind \in {"operands", "print"} => c.pops = c.last /\ c.count < c.last
    /\ Labels(c, at, at + temps)

(* t[i] is the number of temporaries below what open[i] encloses.          *)
Stacked(open, locals, sc, t) ==
    /\ t \in [Nat -> Nat] /\ t[0] = 0
    /\ \A i \in DOMAIN open :
          /\ t[i] = t[i - 1] + Temporaries(open[i])
          /\ Placed(open[i], Kept(locals, sc[i] + 1), t[i - 1])
          /\ open[i].kind = "var" => i = 1 \/ Declares(open[i - 1])

ValueHeight(f) == IF f.todo = "value" THEN 1 ELSE 0
Stands(f, temps) ==
    /\ ~InExpression(f) => temps = 0
    /\ f.todo = "init" => f.open # <<>> /\ Declares(f.open[Len(f.open)])
    /\ f.depths \subseteq {Len(f.locals) + temps + ValueHeight(f)}

Straight(f, sc, t) == Stacked(f.open, f.locals, sc, t) /\ Stands(f, t[Len(f.open)])

(* A function that is compiled, at scope depth `base' when its body began. *)
FrameOK(f, base, straight) ==
    \E sc, t : Sound(f, base, sc) /\ (straight => Straight(f, sc, t))
----------------------------------------------------------------------------
(* Sets of numbers.                                                        *)

LEMMA Arithmetic ==
  /\ \A n \in Nat : n + 0 = n /\ n + 1 \in Nat /\ n + 2 \in Nat
  /\ 0 + 0 = 0
OBVIOUS

LEMMA SmallestInSet ==
  ASSUME NEW T \in SUBSET Nat, T # {}
  PROVE  \E x \in T : \A y \in T : x <= y
<1> DEFINE R == OpToRel(<, Nat)
<1>1. IsWellFoundedOn(R, Nat)
  BY NatLessThanWellFounded
<1>2. \A y, x \in Nat : y < x => <<y, x>> \in R
  BY DEF OpToRel
<1> HIDE DEF R
<1>3. PICK x \in T : \A y \in T : ~ (<<y, x>> \in R)
  BY <1>1, WFMin
<1>4. \A y \in T : ~ (y < x)
  BY <1>2, <1>3
<1>5. QED
  BY <1>4

LEMMA LargestInSet ==
  ASSUME NEW n \in Nat, NEW T \in SUBSET (0 .. n), T # {}
  PROVE  Max(T) \in T /\ \A y \in T : y <= Max(T)
<1> DEFINE Below == {n - x : x \in T}
<1>0. \A x \in T : x \in 0 .. n
  OBVIOUS
<1>1. Below \in SUBSET Nat /\ Below # {}
  <2>1. ASSUME NEW z \in Below PROVE z \in Nat
    <3>1. PICK x \in T : z = n - x
      OBVIOUS
    <3>2. x \in 0 .. n
      BY <1>0
    <3>3. QED
      BY <3>1, <3>2
  <2>2. QED
    BY <2>1
<1>2. PICK b \in Below : \A y \in Below : b <= y
  BY <1>1, SmallestInSet
<1>3. PICK x \in T : b = n - x
  BY <1>2
<1>4. ASSUME NEW y \in T PROVE x >= y
  <2>1. n - y \in Below /\ y \in 0 .. n /\ x \in 0 .. n
    BY <1>0
  <2>2. n - x <= n - y
    BY <1>2, <1>3, <2>1
  <2>3. QED
    BY <2>1, <2>2
<1>5. QED
  BY <1>0, <1>3, <1>4 DEF Max

LEMMA OnlyLargest ==
  ASSUME NEW n \in Nat, NEW T \in SUBSET (0 .. n), NEW x \in T, \A y \in T : y <= x
  PROVE  Max(T) = x
<1>1. Max(T) \in T /\ \A y \in T : y <= Max(T)
  BY LargestInSet
<1>2. \A y \in T : y \in 0 .. n
  OBVIOUS
<1>3. Max(T) \in 0 .. n /\ x \in 0 .. n /\ Max(T) <= x /\ x <= Max(T)
  BY <1>1, <1>2
<1>4. QED
  BY <1>3

LEMMA Shift ==
  ASSUME NEW S \in SUBSET Int, NEW n \in Int, NEW h \in Int
  PROVE  /\ Pushed(S, n) \in SUBSET Int /\ Popped(S, n) \in SUBSET Int
         /\ S \subseteq {h} => Pushed(S, n) \subseteq {h + n} /\ Popped(S, n) \subseteq {h - n}
  BY DEF Pushed, Popped

(* Sequences that differ in their last element.                            *)
Extends(s, t, x) ==
    /\ Len(s) \in Nat /\ DOMAIN s = 1 .. Len(s)
    /\ Len(t) = Len(s) + 1 /\ DOMAIN t = 1 .. Len(s) + 1
    /\ \A i \in 1 .. Len(s) : t[i] = s[i]
    /\ t[Len(s) + 1] = x

LEMMA Elements ==
  ASSUME NEW S, NEW s \in Seq(S)
  PROVE  /\ Len(s) \in Nat /\ DOMAIN s = 1 .. Len(s)
         /\ \A i \in DOMAIN s : s[i] \in S
         /\ s = <<>> <=> Len(s) = 0
<1>1. Len(s) \in Nat /\ DOMAIN s = 1 .. Len(s) /\ \A i \in 1 .. Len(s) : s[i] \in S
  BY LenProperties, ElementOfSeq
<1>2. s = <<>> <=> Len(s) = 0
  BY EmptySeq
<1>3. QED
  BY <1>1, <1>2

LEMMA AppendExtends ==
  ASSUME NEW S, NEW s \in Seq(S), NEW x \in S
  PROVE  /\ Append(s, x) \in Seq(S) /\ Extends(s, Append(s, x), x)
         /\ Append(s, x) # <<>> /\ Last(Append(s, x)) = x
<1>1. /\ Append(s, x) \in Seq(S) /\ Append(s, x) # <<>> /\ Len(Append(s, x)) = Len(s) + 1
      /\ \A i \in 1 .. Len(s) : Append(s, x)[i] = s[i]
      /\ Append(s, x)[Len(s) + 1] = x
  BY AppendProperties
<1>2. QED
  BY <1>1, Elements DEF Extends, Last

LEMMA Prefix ==
  ASSUME NEW S, NEW s \in Seq(S), NEW n \in 0 .. Len(s)
  PROVE  /\ SubSeq(s, 1, n) \in Seq(S) /\ Len(SubSeq(s, 1, n)) = n
         /\ DOMAIN SubSeq(s, 1, n) = 1 .. n
         /\ \A i \in 1 .. n : SubSeq(s, 1, n)[i] = s[i]
<1>1. Len(s) \in Nat /\ \A i \in 1 .. Len(s) : s[i] \in S
  BY Elements
<1>2. n \in Int /\ 1 \in Int /\ n \in Nat /\ \A i \in 1 .. n : s[i] \in S
  BY <1>1
<1>3. /\ SubSeq(s, 1, n) \in Seq(S)
      /\ Len(SubSeq(s, 1, n)) = IF 1 <= n THEN n - 1 + 1 ELSE 0
      /\ \A i \in 1 .. n - 1 + 1 : SubSeq(s, 1, n)[i] = s[1 + i - 1]
  BY <1>2, SubSeqProperties
<1>4. Len(SubSeq(s, 1, n)) = n /\ \A i \in 1 .. n : SubSeq(s, 1, n)[i] = s[i]
  BY <1>2, <1>3
<1>5. QED
  BY <1>3, <1>4, Elements

LEMMA FrontExtends ==
  ASSUME NEW S, NEW s \in Seq(S), s # <<>>
  PROVE  /\ Front(s) \in Seq(S) /\ Extends(Front(s), s, Last(s)) /\ Last(s) \in S
         /\ Last(s) = s[Len(s)]
<1> DEFINE n == Len(s) - 1
<1>1. Len(s) \in Nat /\ Len(s) > 0 /\ DOMAIN s = 1 .. Len(s) /\ \A i \in 1 .. Len(s) : s[i] \in S
  BY Elements
<1>2. n \in 0 .. Len(s) /\ Len(s) = n + 1
  BY <1>1
<1>3. Front(s) = SubSeq(s, 1, n)
  BY DEF Front
<1> HIDE DEF n
<1>4. /\ Front(s) \in Seq(S) /\ Len(Front(s)) = n /\ DOMAIN Front(s) = 1 .. n
      /\ \A i \in 1 .. n : Front(s)[i] = s[i]
  BY <1>2, <1>3, Prefix
<1>5. QED
  BY <1>1, <1>2, <1>4 DEF Extends, Last

LEMMA Replaced ==
  ASSUME NEW S, NEW s \in Seq(S), NEW i \in DOMAIN s, NEW x \in S
  PROVE  /\ [s EXCEPT ![i] = x] \in Seq(S) /\ Len([s EXCEPT ![i] = x]) = Len(s)
         /\ DOMAIN [s EXCEPT ![i] = x] = DOMAIN s
         /\ [s EXCEPT ![i] = x][i] = x
         /\ \A j \in DOMAIN s : j # i => [s EXCEPT ![i] = x][j] = s[j]
<1>1. /\ [s EXCEPT ![i] = x] \in Seq(S) /\ Len([s EXCEPT ![i] = x]) = Len(s)
  BY ExceptSeq, Elements
<1>2. QED
  BY <1>1, Elements
----------------------------------------------------------------------------
(* What a scope leaves: the entries up to the last one of a scope further  *)
(* out.                                                                    *)

Depths(list) == Len(list) \in Nat /\ DOMAIN list = 1 .. Len(list)
                /\ \A i \in 1 .. Len(list) : list[i].depth \in Nat

LEMMA KeptIs ==
  ASSUME NEW list, NEW d \in Nat, Depths(list)
  PROVE  /\ Kept(list, d) \in 0 .. Len(list)
         /\ Kept(list, d) > 0 => list[Kept(list, d)].depth < d
         /\ \A i \in 1 .. Len(list) : list[i].depth < d => i <= Kept(list, d)
<1> DEFINE T == {0} \cup {i \in DOMAIN list : list[i].depth < d}
<1>1. Len(list) \in Nat /\ DOMAIN list = 1 .. Len(list)
  BY DEF Depths
<1>2. T \in SUBSET (0 .. Len(list)) /\ T # {}
  BY <1>1
<1>3. Max(T) \in T /\ \A y \in T : y <= Max(T)
  BY <1>1, <1>2, LargestInSet
<1>4. Kept(list, d) = Max(T)
  BY DEF Kept
<1>5. QED
  BY <1>1, <1>2, <1>3, <1>4

LEMMA KeptOnly ==
  ASSUME NEW list, NEW d \in Nat, Depths(list), NEW k \in 0 .. Len(list),
         k > 0 => list[k].depth < d,
         \A i \in 1 .. Len(list) : list[i].depth < d => i <= k
  PROVE  Kept(list, d) = k
<1>1. /\ Kept(list, d) \in 0 .. Len(list)
      /\ Kept(list, d) > 0 => list[Kept(list, d)].depth < d
      /\ \A i \in 1 .. Len(list) : list[i].depth < d => i <= Kept(list, d)
  BY KeptIs
<1>2. Len(list) \in Nat
  BY DEF Depths
<1>3. Kept(list, d) <= k /\ k <= Kept(list, d)
  BY <1>1, <1>2
<1>4. QED
  BY <1>1, <1>2, <1>3

LEMMA KeptAll ==
  ASSUME NEW list, NEW d \in Nat, Depths(list), \A i \in 1 .. Len(list) : list[i].depth < d
  PROVE  Kept(list, d) = Len(list)
<1>1. Len(list) \in Nat
  BY DEF Depths
<1>2. QED
  BY <1>1, KeptOnly

LEMMA KeptAppend ==
  ASSUME NEW list, NEW new, NEW x, NEW d \in Nat, Depths(list), Depths(new),
         Extends(list, new, x), d <= x.depth
  PROVE  Kept(new, d) = Kept(list, d)
<1>1. /\ Kept(list, d) \in 0 .. Len(list)
      /\ Kept(list, d) > 0 => list[Kept(list, d)].depth < d
      /\ \A i \in 1 .. Len(list) : list[i].depth < d => i <= Kept(list, d)
  BY KeptIs
<1>2. /\ Len(list) \in Nat /\ Len(new) = Len(list) + 1 /\ new[Len(list) + 1] = x
      /\ \A i \in 1 .. Len(list) : new[i] = list[i]
  BY DEF Extends
<1>3. x.depth \in Nat
  BY <1>2 DEF Depths
<1> DEFINE k == Kept(list, d)
<1>4. k \in 0 .. Len(new) /\ (k > 0 => new[k].depth < d)
  BY <1>1, <1>2
<1>5. \A i \in 1 .. Len(new) : new[i].depth < d => i <= k
  BY <1>1, <1>2, <1>3
<1> HIDE DEF k
<1>6. Kept(new, d) = k
  BY <1>4, <1>5, KeptOnly
<1>7. QED
  BY <1>6 DEF k

LEMMA KeptCut ==
  ASSUME NEW S, NEW list \in Seq(S), NEW d \in Nat, NEW e \in Nat, d <= e, Depths(list)
  PROVE  LET cut == SubSeq(list, 1, Kept(list, e))
         IN  Depths(cut) /\ Kept(cut, d) = Kept(list, d)
<1> DEFINE n == Kept(list, e)
           k == Kept(list, d)
           cut == SubSeq(list, 1, n)
<1>1. /\ n \in 0 .. Len(list)
      /\ \A i \in 1 .. Len(list) : list[i].depth < e => i <= n
  BY KeptIs
<1>2. /\ k \in 0 .. Len(list)
      /\ k > 0 => list[k].depth < d
      /\ \A i \in 1 .. Len(list) : list[i].depth < d => i <= k
  BY KeptIs
<1>3. Len(cut) = n /\ DOMAIN cut = 1 .. n /\ \A i \in 1 .. n : cut[i] = list[i]
  BY <1>1, Prefix
<1>4. Len(list) \in Nat /\ \A i \in 1 .. Len(list) : list[i].depth \in Nat
  BY DEF Depths
<1> HIDE DEF n, k, cut
<1>5. Depths(cut)
  BY <1>1, <1>3, <1>4 DEF Depths
<1>6. k \in 0 .. n
  BY <1>1, <1>2, <1>4
<1>7. Kept(cut, d) = k
  BY <1>1, <1>2, <1>3, <1>4, <1>5, <1>6, KeptOnly
<1>8. QED
  BY <1>5, <1>7 DEF n, k, cut
----------------------------------------------------------------------------
(* Constructs.                                                             *)

LEMMA ConstructFields ==
  ASSUME NEW c \in Construct
  PROVE  /\ c.kind \in Kinds /\ c.name \in Names \cup {NULL}
         /\ c.stage \in {"", "cond", "incr", "then", "else", "left", "right", "body",
                         "loop", "disc", "test", "case", "bodies", "default"}
         /\ c.count \in Nat /\ c.pops \in Nat /\ c.last \in Nat /\ c.base \in Nat
         /\ c.exit \in SUBSET Int /\ c.bodies \in SUBSET Int /\ c.breaks \in SUBSET Int
         /\ c.breakCount \in Nat /\ c.arrivals \in SUBSET Int
  BY DEF Construct

LEMMA OpenFields ==
  ASSUME NEW kind \in Kinds,
         NEW stage \in {"", "cond", "incr", "then", "else", "left", "right", "body",
                        "loop", "disc", "test", "case", "bodies", "default"}
  PROVE  LET c == Open(kind, stage)
         IN  /\ c \in Construct /\ c.kind = kind /\ c.stage = stage /\ c.name = NULL
             /\ c.count = 0 /\ c.pops = 0 /\ c.last = 0 /\ c.base = 0 /\ c.exit = {}
             /\ c.bodies = {} /\ c.breaks = {} /\ c.breakCount = 0 /\ c.arrivals = {}
  BY DEF Open, Construct

LEMMA TemporariesAre ==
  ASSUME NEW c \in Construct
  PROVE  /\ Temporaries(c) \in Nat
         /\ c.kind \in {"operands", "print"} => Temporaries(c) = c.count
         /\ c.kind \notin {"operands", "print"} =>
               Temporaries(c) = IF c.stage = "case" THEN 1 ELSE 0
<1>1. c.count \in Nat
  BY ConstructFields
<1>2. CASE c.kind \in {"operands", "print"}
  BY <1>1, <1>2 DEF Temporaries
<1>3. CASE c.kind \notin {"operands", "print"} /\ c.stage = "case"
  BY <1>3 DEF Temporaries
<1>4. CASE c.kind \notin {"operands", "print"} /\ c.stage # "case"
  BY <1>4 DEF Temporaries
<1>5. QED
  BY <1>2, <1>3, <1>4

LEMMA FrameFields ==
  ASSUME NEW f \in Frame
  PROVE  /\ f.locals \in Seq(Local) /\ f.scopeDepth \in Nat /\ f.open \in Seq(Construct)
         /\ f.depths \in SUBSET Int /\ f.todo \in Todo
  BY DEF Frame

LEMMA LocalDepths ==
  ASSUME NEW list \in Seq(Local)
  PROVE  Depths(list)
<1>1. Len(list) \in Nat /\ DOMAIN list = 1 .. Len(list) /\ \A i \in DOMAIN list : list[i] \in Local
  BY Elements
<1>2. \A x \in Local : x.depth \in Nat
  BY DEF Local
<1>3. QED
  BY <1>1, <1>2 DEF Depths

(* Ghost functions, changed at one place.                                  *)
Ext(g, n, x) == [g EXCEPT ![n] = x]

LEMMA NestedFront ==
  ASSUME NEW open \in Seq(Construct), open # <<>>, NEW base, NEW sc, Nested(open, base, sc)
  PROVE  /\ Nested(Front(open), base, sc)
         /\ Len(open) = Len(Front(open)) + 1 /\ Len(Front(open)) \in Nat
         /\ sc[Len(open)] = sc[Len(Front(open))] + Deeper(Last(open))
         /\ sc[Len(Front(open))] \in Nat
<1> DEFINE rest == Front(open)
           n == Len(Front(open))
           c == Last(open)
<1>1. rest \in Seq(Construct) /\ Extends(rest, open, c) /\ n = Len(rest)
  BY FrontExtends
<1> HIDE DEF rest, n, c
<1>2. /\ n \in Nat /\ DOMAIN rest = 1 .. n /\ Len(open) = n + 1 /\ DOMAIN open = 1 .. n + 1
      /\ \A i \in 1 .. n : open[i] = rest[i]
      /\ open[n + 1] = c
  BY <1>1 DEF Extends
<1>3. /\ sc \in [Nat -> Nat] /\ sc[0] = base
      /\ \A i \in 1 .. n + 1 : sc[i] = sc[i - 1] + Deeper(open[i]) /\ Proper(open[i])
      /\ \A i, j \in 0 .. n + 1 : i <= j => sc[i] <= sc[j]
  BY <1>2 DEF Nested
<1>4. \A i \in 1 .. n : sc[i] = sc[i - 1] + Deeper(rest[i]) /\ Proper(rest[i])
  <2> SUFFICES ASSUME NEW i \in 1 .. n
               PROVE  sc[i] = sc[i - 1] + Deeper(rest[i]) /\ Proper(rest[i])
    OBVIOUS
  <2>1. i \in 1 .. n + 1 /\ rest[i] = open[i]
    BY <1>2
  <2>2. QED
    BY <1>3, <2>1
<1>8. \A i \in 0 .. n : i \in 0 .. n + 1
  BY <1>2
<1>9. \A i, j \in 0 .. n : i <= j => sc[i] <= sc[j]
  BY <1>3, <1>8
<1>5. Nested(rest, base, sc)
  BY <1>1, <1>2, <1>3, <1>4, <1>9 DEF Nested
<1>6. sc[n + 1] = sc[n] + Deeper(c)
  BY <1>2, <1>3
<1>7. QED
  BY <1>1, <1>2, <1>3, <1>5, <1>6 DEF rest, n, c

LEMMA NestedAppend ==
  ASSUME NEW open \in Seq(Construct), NEW base, NEW sc, Nested(open, base, sc),
         NEW c \in Construct, Proper(c)
  PROVE  LET d == sc[Len(open)] + Deeper(c)
         IN  Nested(Append(open, c), base, Ext(sc, Len(open) + 1, d)) /\ d \in Nat
<1> DEFINE n == Len(open)
           d == sc[n] + Deeper(c)
           new == Append(open, c)
           sc2 == Ext(sc, n + 1, d)
<1>1. new \in Seq(Construct) /\ Extends(open, new, c) /\ n = Len(open)
  BY AppendExtends
<1>2. /\ n \in Nat /\ DOMAIN open = 1 .. n /\ Len(new) = n + 1 /\ DOMAIN new = 1 .. n + 1
      /\ \A i \in 1 .. n : new[i] = open[i]
      /\ new[n + 1] = c
  BY <1>1 DEF Extends
<1>3. /\ sc \in [Nat -> Nat] /\ sc[0] = base
      /\ \A i \in 1 .. n : sc[i] = sc[i - 1] + Deeper(open[i]) /\ Proper(open[i])
      /\ \A i, j \in 0 .. n : i <= j => sc[i] <= sc[j]
  BY <1>1, <1>2 DEF Nested
<1>6. d = sc[n] + Deeper(c)
  OBVIOUS
<1>14. sc2 = [sc EXCEPT ![n + 1] = d]
  BY DEF Ext
<1> HIDE DEF n, d, new, sc2
<1>12. sc[n] \in Nat /\ Deeper(c) \in {0, 1}
  BY <1>2, <1>3 DEF Deeper
<1>4. d \in Nat /\ d >= sc[n]
  BY <1>6, <1>12
<1>15. sc \in [Nat -> Nat]
  BY <1>3
<1>13. n + 1 \in Nat /\ \A i \in 0 .. n : i \in Nat /\ i # n + 1
  BY <1>2
<1>5. sc2 \in [Nat -> Nat] /\ sc2[n + 1] = d /\ \A i \in 0 .. n : sc2[i] = sc[i]
  BY <1>4, <1>13, <1>14, <1>15
<1>7. /\ \A i \in 1 .. n + 1 : sc2[i] = sc2[i - 1] + Deeper(new[i])
      /\ \A i \in 1 .. n + 1 : Proper(new[i])
  <2> SUFFICES ASSUME NEW i \in 1 .. n + 1
               PROVE  sc2[i] = sc2[i - 1] + Deeper(new[i]) /\ Proper(new[i])
    OBVIOUS
  <2>1. CASE i = n + 1
    BY <1>2, <1>5, <1>6, <2>1
  <2>2. CASE i # n + 1
    <3>1. i \in 1 .. n /\ i - 1 \in 0 .. n /\ i \in 0 .. n
      BY <1>2, <2>2
    <3>2. QED
      BY <1>2, <1>3, <1>5, <3>1
  <2>3. QED
    BY <2>1, <2>2
<1>8. \A i, j \in 0 .. n + 1 : i <= j => sc2[i] <= sc2[j]
  <2> SUFFICES ASSUME NEW i \in 0 .. n + 1, NEW j \in 0 .. n + 1, i <= j
               PROVE  sc2[i] <= sc2[j]
    OBVIOUS
  <2>1. CASE j \in 0 .. n
    <3>1. i \in 0 .. n
      BY <1>2, <2>1
    <3>2. QED
      BY <1>3, <1>5, <2>1, <3>1
  <2>2. CASE j = n + 1 /\ i = n + 1
    BY <1>4, <1>5, <2>2
  <2>3. CASE j = n + 1 /\ i \in 0 .. n
    <3>1. sc[i] <= sc[n] /\ sc[i] \in Nat /\ sc[n] \in Nat
      BY <1>2, <1>3, <2>3
    <3>2. sc2[i] = sc[i] /\ sc2[j] = d
      BY <1>5, <2>3
    <3>3. QED
      BY <1>4, <3>1, <3>2
  <2>4. QED
    BY <1>2, <2>1, <2>2, <2>3
<1>9. sc2[0] = base
  BY <1>2, <1>3, <1>5
<1>10. Nested(new, base, sc2)
  BY <1>2, <1>5, <1>7, <1>8, <1>9 DEF Nested
<1>11. QED
  BY <1>4, <1>10 DEF n, d, new, sc2

LEMMA StackedFront ==
  ASSUME NEW open \in Seq(Construct), open # <<>>, NEW locals, NEW sc, NEW t,
         Stacked(open, locals, sc, t)
  PROVE  /\ Stacked(Front(open), locals, sc, t)
         /\ Len(open) = Len(Front(open)) + 1 /\ Len(Front(open)) \in Nat
         /\ t[Len(open)] = t[Len(Front(open))] + Temporaries(Last(open))
         /\ t[Len(Front(open))] \in Nat
         /\ Placed(Last(open), Kept(locals, sc[Len(open)] + 1), t[Len(Front(open))])
         /\ Last(open).kind = "var" =>
               Front(open) = <<>> \/ Declares(Front(open)[Len(Front(open))])
<1> DEFINE rest == Front(open)
           n == Len(Front(open))
           c == Last(open)
<1>1. rest \in Seq(Construct) /\ Extends(rest, open, c) /\ n = Len(rest)
  BY FrontExtends
<1> HIDE DEF rest, n, c
<1>2. /\ n \in Nat /\ DOMAIN rest = 1 .. n /\ Len(open) = n + 1 /\ DOMAIN open = 1 .. n + 1
      /\ \A i \in 1 .. n : open[i] = rest[i]
      /\ open[n + 1] = c
      /\ rest = <<>> <=> n = 0
  BY <1>1, Elements DEF Extends
<1>3. /\ t \in [Nat -> Nat] /\ t[0] = 0
      /\ \A i \in 1 .. n + 1 :
            /\ t[i] = t[i - 1] + Temporaries(open[i])
            /\ Placed(open[i], Kept(locals, sc[i] + 1), t[i - 1])
            /\ open[i].kind = "var" => i = 1 \/ Declares(open[i - 1])
  BY <1>2 DEF Stacked
<1>4. \A i \in 1 .. n :
            /\ t[i] = t[i - 1] + Temporaries(rest[i])
            /\ Placed(rest[i], Kept(locals, sc[i] + 1), t[i - 1])
            /\ rest[i].kind = "var" => i = 1 \/ Declares(rest[i - 1])
  <2> SUFFICES ASSUME NEW i \in 1 .. n
               PROVE  /\ t[i] = t[i - 1] + Temporaries(rest[i])
                      /\ Placed(rest[i], Kept(locals, sc[i] + 1), t[i - 1])
                      /\ rest[i].kind = "var" => i = 1 \/ Declares(rest[i - 1])
    OBVIOUS
  <2>1. i \in 1 .. n + 1 /\ rest[i] = open[i]
    BY <1>2
  <2>2. i = 1 \/ rest[i - 1] = open[i - 1]
    BY <1>2
  <2>3. QED
    BY <1>3, <2>1, <2>2
<1>5. Stacked(rest, locals, sc, t)
  BY <1>2, <1>3, <1>4 DEF Stacked
<1>6. n + 1 \in 1 .. n + 1 /\ n + 1 - 1 = n
  BY <1>2
<1>7. /\ t[n + 1] = t[n] + Temporaries(c)
      /\ Placed(c, Kept(locals, sc[n + 1] + 1), t[n])
      /\ c.kind = "var" => n + 1 = 1 \/ Declares(open[n])
  BY <1>2, <1>3, <1>6
<1>8. n = 0 \/ open[n] = rest[n]
  BY <1>2
<1>9. c.kind = "var" => rest = <<>> \/ Declares(rest[n])
  BY <1>2, <1>7, <1>8
<1>10. QED
  BY <1>1, <1>2, <1>3, <1>5, <1>7, <1>9 DEF rest, n, c

LEMMA StackedAppend ==
  ASSUME NEW open \in Seq(Construct), NEW locals, NEW sc \in [Nat -> Nat], NEW t,
         Stacked(open, locals, sc, t), NEW c \in Construct, NEW d \in Nat,
         Placed(c, Kept(locals, d + 1), t[Len(open)]),
         c.kind = "var" => open = <<>> \/ Declares(open[Len(open)])
  PROVE  LET temps == t[Len(open)] + Temporaries(c)
         IN  Stacked(Append(open, c), locals, Ext(sc, Len(open) + 1, d),
                     Ext(t, Len(open) + 1, temps))
<1> DEFINE n == Len(open)
           temps == t[n] + Temporaries(c)
           new == Append(open, c)
           sc2 == Ext(sc, n + 1, d)
           t2 == Ext(t, n + 1, temps)
<1>1. new \in Seq(Construct) /\ Extends(open, new, c) /\ n = Len(open)
  BY AppendExtends
<1>2. /\ n \in Nat /\ DOMAIN open = 1 .. n /\ Len(new) = n + 1 /\ DOMAIN new = 1 .. n + 1
      /\ \A i \in 1 .. n : new[i] = open[i]
      /\ new[n + 1] = c
      /\ open = <<>> <=> n = 0
  BY <1>1, Elements DEF Extends
<1>3. /\ t \in [Nat -> Nat] /\ t[0] = 0
      /\ \A i \in 1 .. n :
            /\ t[i] = t[i - 1] + Temporaries(open[i])
            /\ Placed(open[i], Kept(locals, sc[i] + 1), t[i - 1])
            /\ open[i].kind = "var" => i = 1 \/ Declares(open[i - 1])
  BY <1>1, <1>2 DEF Stacked
<1>9. c.kind = "var" => n = 0 \/ Declares(open[n])
  BY <1>2
<1>7. temps = t[n] + Temporaries(c)
  OBVIOUS
<1>19. sc2 = [sc EXCEPT ![n + 1] = d]
  BY DEF Ext
<1>20. t2 = [t EXCEPT ![n + 1] = temps]
  BY DEF Ext
<1>8. Placed(c, Kept(locals, d + 1), t[n])
  OBVIOUS
<1> HIDE DEF n, temps, new, sc2, t2
<1>14. n \in Nat /\ n + 1 \in Nat /\ \A i \in 0 .. n : i \in Nat /\ i # n + 1
  BY <1>2
<1>18. t \in [Nat -> Nat]
  BY <1>3
<1>4. temps \in Nat
  <2>1. t[n] \in Nat
    BY <1>14, <1>18
  <2>2. Temporaries(c) \in Nat
    BY TemporariesAre
  <2>3. \A a, b \in Nat : a + b \in Nat
    OBVIOUS
  <2>4. t[n] + Temporaries(c) \in Nat
    BY <2>1, <2>2, <2>3, Zenon
  <2>5. QED
    BY <1>7, <2>4, Zenon
<1>5. sc2[n + 1] = d /\ \A i \in 0 .. n : sc2[i] = sc[i]
  BY <1>14, <1>19
<1>6. t2 \in [Nat -> Nat] /\ t2[n + 1] = temps /\ \A i \in 0 .. n : t2[i] = t[i]
  BY <1>4, <1>14, <1>18, <1>20
<1>15. n = 0 \/ new[n] = open[n]
  BY <1>2
<1>16. \A i \in 1 .. n + 1 : i = 1 \/ i = n + 1 \/ new[i - 1] = open[i - 1]
  BY <1>2
<1>17. \A i \in 1 .. n + 1 : i # n + 1 => i \in 1 .. n /\ i \in 0 .. n /\ i - 1 \in 0 .. n
  BY <1>2
<1>10. ASSUME NEW i \in DOMAIN new
       PROVE  /\ t2[i] = t2[i - 1] + Temporaries(new[i])
              /\ Placed(new[i], Kept(locals, sc2[i] + 1), t2[i - 1])
              /\ new[i].kind = "var" => i = 1 \/ Declares(new[i - 1])
  <2>1. CASE i = n + 1
    <3>1. /\ i - 1 = n /\ n \in 0 .. n /\ new[i] = c /\ sc2[i] = d /\ t2[i] = temps /\ t2[i - 1] = t[n]
      BY <1>2, <1>5, <1>6, <2>1
    <3>3. c.kind = "var" => n + 1 = 1 \/ Declares(new[n])
      BY <1>14, <1>9, <1>15
    <3>4. QED
      BY <1>7, <1>8, <2>1, <3>1, <3>3
  <2>2. CASE i # n + 1
    <3>0. i \in 1 .. n + 1
      BY <1>2
    <3>1. i \in 1 .. n /\ i \in 0 .. n /\ i - 1 \in 0 .. n
      BY <1>17, <2>2, <3>0
    <3>2. new[i] = open[i] /\ sc2[i] = sc[i] /\ t2[i] = t[i] /\ t2[i - 1] = t[i - 1]
      BY <1>2, <1>5, <1>6, <3>1
    <3>3. i = 1 \/ new[i - 1] = open[i - 1]
      BY <1>16, <2>2, <3>0
    <3>4. QED
      BY <1>3, <3>1, <3>2, <3>3
  <2>3. QED
    BY <2>1, <2>2
<1>11. t2[0] = 0
  BY <1>2, <1>3, <1>6
<1>12. Stacked(new, locals, sc2, t2)
  BY <1>6, <1>10, <1>11 DEF Stacked
<1>13. QED
  BY <1>12 DEF n, temps, new, sc2, t2

(* Locals may come and go in the innermost scope only.                     *)
LEMMA StackedKept ==
  ASSUME NEW open \in Seq(Construct), NEW locals, NEW new, NEW sc, NEW t,
         Stacked(open, locals, sc, t),
         \A i \in 1 .. Len(open) : Kept(new, sc[i] + 1) = Kept(locals, sc[i] + 1)
  PROVE  Stacked(open, new, sc, t)
<1>1. DOMAIN open = 1 .. Len(open)
  BY Elements
<1>2. QED
  BY <1>1 DEF Stacked
----------------------------------------------------------------------------
(* The function that is compiled, as constructs begin, go on and end.      *)

LEMMA KeptHere ==
  ASSUME NEW list \in Seq(Local), NEW depth \in Nat, LocalsOK(list, depth), NEW d \in Nat,
         depth <= d
  PROVE  Kept(list, d + 1) = Len(list)
<1>1. Depths(list)
  BY LocalDepths
<1>2. \A i \in 1 .. Len(list) : list[i].depth < d + 1
  BY <1>1 DEF LocalsOK, Depths
<1>3. d + 1 \in Nat
  OBVIOUS
<1>4. QED
  BY <1>1, <1>2, <1>3, KeptAll

(* Nothing but the last entries of two lists of locals differs, those of   *)
(* the scopes at depth `depth' or more.                                    *)
SameBelow(list, new, depth) ==
    \A d \in Nat : d < depth => Kept(new, d + 1) = Kept(list, d + 1)

LEMMA EnterFrame ==
  ASSUME NEW f \in Frame, NEW g \in Frame, NEW base, NEW s, NEW s2, s2 => s,
         FrameOK(f, base, s), NEW c \in Construct, Proper(c),
         g.open = Append(f.open, c), g.locals = f.locals,
         g.scopeDepth = f.scopeDepth + Deeper(c), DiscsOK(g),
         s2 => \A temps \in Nat : Stands(f, temps) =>
                 /\ Placed(c, Len(f.locals), temps)
                 /\ c.kind = "var" => f.open = <<>> \/ Declares(f.open[Len(f.open)])
                 /\ Stands(g, temps + Temporaries(c))
  PROVE  FrameOK(g, base, s2)
<1>1. PICK sc, t : Sound(f, base, sc) /\ (s => Straight(f, sc, t))
  BY DEF FrameOK
<1> DEFINE n == Len(f.open)
           d == sc[n] + Deeper(c)
           sc2 == Ext(sc, n + 1, d)
           t2 == Ext(t, n + 1, t[n] + Temporaries(c))
<1>2. /\ f.locals \in Seq(Local) /\ f.scopeDepth \in Nat /\ f.open \in Seq(Construct)
      /\ g.open \in Seq(Construct)
  BY FrameFields
<1>3. /\ LocalsOK(f.locals, f.scopeDepth) /\ Nested(f.open, base, sc) /\ sc[n] = f.scopeDepth
  BY <1>1 DEF Sound
<1>4. Nested(g.open, base, sc2) /\ d \in Nat
  BY <1>2, <1>3, NestedAppend
<1>5. n \in Nat /\ n + 1 \in Nat /\ Len(g.open) = n + 1
  BY <1>2, Elements, AppendExtends DEF Extends
<1>6. d = g.scopeDepth
  BY <1>3
<1>7. sc \in [Nat -> Nat]
  BY <1>3 DEF Nested
<1>8. sc2[n + 1] = d
  BY <1>5, <1>7 DEF Ext
<1>9. Deeper(c) \in {0, 1}
  BY DEF Deeper
<1>10. LocalsOK(g.locals, g.scopeDepth)
  <2>1. Depths(f.locals)
    BY <1>2, LocalDepths
  <2>2. \A i \in DOMAIN f.locals : f.locals[i].depth <= f.scopeDepth + Deeper(c)
    BY <1>2, <1>3, <1>9, <2>1 DEF LocalsOK, Depths
  <2>3. QED
    BY <1>3, <2>2 DEF LocalsOK
<1>11. Sound(g, base, sc2)
  BY <1>4, <1>5, <1>6, <1>8, <1>10 DEF Sound
<1>12. ASSUME s2 PROVE Straight(g, sc2, t2)
  <2>1. Stacked(f.open, f.locals, sc, t) /\ Stands(f, t[n])
    BY <1>1, <1>12 DEF Straight
  <2>2. t \in [Nat -> Nat] /\ t[n] \in Nat
    BY <1>5, <2>1 DEF Stacked
  <2>3. /\ Placed(c, Len(f.locals), t[n])
        /\ c.kind = "var" => f.open = <<>> \/ Declares(f.open[Len(f.open)])
        /\ Stands(g, t[n] + Temporaries(c))
    BY <1>12, <2>1, <2>2
  <2>4. Kept(f.locals, d + 1) = Len(f.locals)
    <3>1. f.scopeDepth <= d
      BY <1>2, <1>3, <1>6, <1>9
    <3>2. QED
      BY <1>2, <1>3, <1>4, <3>1, KeptHere
  <2>5. Stacked(g.open, f.locals, sc2, t2)
    BY <1>2, <1>4, <1>7, <2>1, <2>3, <2>4, StackedAppend
  <2>6. t[n] + Temporaries(c) = t2[n + 1]
    BY <1>5, <2>2 DEF Ext
  <2>7. QED
    BY <1>5, <2>3, <2>5, <2>6 DEF Straight
<1>13. QED
  BY <1>11, <1>12 DEF FrameOK

LEMMA FrontFrame ==
  ASSUME NEW f \in Frame, NEW base, NEW sc, Sound(f, base, sc), f.open # <<>>
  PROVE  LET rest == Front(f.open)
             n == Len(rest)
             top == Last(f.open)
         IN  /\ rest \in Seq(Construct) /\ top \in Construct /\ n \in Nat /\ Len(f.open) = n + 1
             /\ Nested(rest, base, sc) /\ sc[n] \in Nat /\ sc[n] + Deeper(top) = f.scopeDepth
             /\ top = f.open[Len(f.open)] /\ Proper(top)
             /\ \A i \in 1 .. n : sc[i] \in Nat /\ sc[i] <= sc[n]
<1> DEFINE rest == Front(f.open)
           n == Len(rest)
           top == Last(f.open)
<1>1. f.open \in Seq(Construct)
  BY FrameFields
<1>2. Nested(f.open, base, sc) /\ sc[Len(f.open)] = f.scopeDepth
  BY DEF Sound
<1>3. /\ Nested(rest, base, sc) /\ Len(f.open) = n + 1 /\ n \in Nat
      /\ sc[Len(f.open)] = sc[n] + Deeper(top) /\ sc[n] \in Nat
  BY <1>1, <1>2, NestedFront
<1>4. rest \in Seq(Construct) /\ top \in Construct /\ top = f.open[Len(f.open)]
  BY <1>1, FrontExtends
<1>5. DOMAIN f.open = 1 .. Len(f.open)
  BY <1>1, Elements
<1> HIDE DEF rest, n, top
<1>6. Proper(top)
  <2>1. Len(f.open) \in DOMAIN f.open
    BY <1>3, <1>5
  <2>2. QED
    BY <1>2, <1>4, <2>1 DEF Nested
<1>7. \A i \in 1 .. n : sc[i] \in Nat /\ sc[i] <= sc[n]
  <2>1. sc \in [Nat -> Nat] /\ \A i, j \in 0 .. n : i <= j => sc[i] <= sc[j]
    BY <1>3 DEF Nested, n
  <2>2. n \in 0 .. n /\ \A i \in 1 .. n : i \in 0 .. n /\ i \in Nat /\ i <= n
    BY <1>3
  <2>3. QED
    BY <2>1, <2>2
<1>8. QED
  BY <1>2, <1>3, <1>4, <1>6, <1>7 DEF rest, n, top

(* The construct goes on; the locals of its own scope may change.          *)
LEMMA GoOnFrame ==
  ASSUME NEW f \in Frame, NEW g \in Frame, NEW base, NEW s, NEW s2, s2 => s,
         FrameOK(f, base, s), f.open # <<>>, NEW c \in Construct, Proper(c),
         g.open = Append(Front(f.open), c), Deeper(c) = Deeper(Last(f.open)), c.kind # "var",
         g.scopeDepth = f.scopeDepth, LocalsOK(g.locals, g.scopeDepth),
         (SameBelow(f.locals, g.locals, f.scopeDepth) /\ Deeper(c) = 1) \/ g.locals = f.locals,
         DiscsOK(g),
         s2 => \A temps \in Nat :
                 /\ Placed(Last(f.open), Len(f.locals), temps)
                 /\ Stands(f, temps + Temporaries(Last(f.open)))
                 => /\ Placed(c, Len(g.locals), temps)
                    /\ Stands(g, temps + Temporaries(c))
  PROVE  FrameOK(g, base, s2)
<1>1. PICK sc, t : Sound(f, base, sc) /\ (s => Straight(f, sc, t))
  BY DEF FrameOK
<1> DEFINE rest == Front(f.open)
           n == Len(rest)
           top == Last(f.open)
           d == sc[n] + Deeper(c)
           sc2 == Ext(sc, n + 1, d)
           t2 == Ext(t, n + 1, t[n] + Temporaries(c))
<1>2. /\ rest \in Seq(Construct) /\ top \in Construct /\ n \in Nat /\ Len(f.open) = n + 1
      /\ Nested(rest, base, sc) /\ sc[n] \in Nat /\ sc[n] + Deeper(top) = f.scopeDepth
      /\ \A i \in 1 .. n : sc[i] \in Nat /\ sc[i] <= sc[n]
  BY <1>1, FrontFrame
<1>3. /\ f.locals \in Seq(Local) /\ f.scopeDepth \in Nat /\ f.open \in Seq(Construct)
      /\ g.locals \in Seq(Local) /\ g.open \in Seq(Construct)
  BY FrameFields
<1>4. LocalsOK(f.locals, f.scopeDepth)
  BY <1>1 DEF Sound
<1>5. d = f.scopeDepth /\ d \in Nat
  BY <1>2, <1>3
<1>6. Nested(g.open, base, sc2)
  BY <1>2, NestedAppend
<1>7. Len(g.open) = n + 1 /\ n + 1 \in Nat
  BY <1>2, AppendExtends DEF Extends
<1>8. sc \in [Nat -> Nat]
  BY <1>2 DEF Nested
<1>9. sc2[n + 1] = d
  BY <1>7, <1>8 DEF Ext
<1>10. Sound(g, base, sc2)
  BY <1>5, <1>6, <1>7, <1>9 DEF Sound
<1>11. ASSUME s2 PROVE Straight(g, sc2, t2)
  <2>1. Stacked(f.open, f.locals, sc, t) /\ Stands(f, t[n + 1])
    BY <1>1, <1>2, <1>11 DEF Straight
  <2>2. /\ Stacked(rest, f.locals, sc, t)
        /\ t[n + 1] = t[n] + Temporaries(top) /\ t[n] \in Nat
        /\ Placed(top, Kept(f.locals, sc[n + 1] + 1), t[n])
    BY <1>2, <1>3, <2>1, StackedFront
  <2>3. sc[n + 1] = f.scopeDepth
    BY <1>1, <1>2 DEF Sound
  <2>4. /\ Kept(f.locals, f.scopeDepth + 1) = Len(f.locals)
        /\ Kept(g.locals, f.scopeDepth + 1) = Len(g.locals)
    BY <1>3, <1>4, KeptHere
  <2>5. Placed(c, Len(g.locals), t[n]) /\ Stands(g, t[n] + Temporaries(c))
    BY <1>11, <2>1, <2>2, <2>3, <2>4
  <2>6. \A i \in 1 .. n : Kept(g.locals, sc[i] + 1) = Kept(f.locals, sc[i] + 1)
    <3>1. CASE g.locals = f.locals
      BY <3>1
    <3>2. CASE SameBelow(f.locals, g.locals, f.scopeDepth) /\ Deeper(c) = 1
      <4>1. \A i \in 1 .. n : sc[i] \in Nat /\ sc[i] < f.scopeDepth
        BY <1>2, <3>2
      <4>2. QED
        BY <3>2, <4>1 DEF SameBelow
    <3>3. QED
      BY <3>1, <3>2
  <2>7. Stacked(rest, g.locals, sc, t)
    BY <1>2, <2>2, <2>6, StackedKept
  <2>8. Stacked(g.open, g.locals, sc2, t2)
    BY <1>2, <1>5, <1>8, <2>4, <2>5, <2>7, StackedAppend
  <2>9. t \in [Nat -> Nat]
    BY <2>2 DEF Stacked
  <2>10. t2[n + 1] = t[n] + Temporaries(c)
    BY <1>7, <2>9 DEF Ext
  <2>11. QED
    BY <1>7, <2>5, <2>8, <2>10 DEF Straight
<1>12. QED
  BY <1>10, <1>11 DEF FrameOK

(* The construct ends, and with it its scope if it has one.                *)
LEMMA EndFrame ==
  ASSUME NEW f \in Frame, NEW g \in Frame, NEW base, NEW s, NEW s2, s2 => s,
         FrameOK(f, base, s), f.open # <<>>, g.open = Front(f.open),
         g.scopeDepth + Deeper(Last(f.open)) = f.scopeDepth,
         LocalsOK(g.locals, g.scopeDepth),
         SameBelow(f.locals, g.locals, g.scopeDepth + 1), DiscsOK(g),
         s2 => \A temps \in Nat :
                 /\ Placed(Last(f.open), Len(f.locals), temps)
                 /\ Stands(f, temps + Temporaries(Last(f.open)))
                 => Stands(g, temps)
  PROVE  FrameOK(g, base, s2)
<1>1. PICK sc, t : Sound(f, base, sc) /\ (s => Straight(f, sc, t))
  BY DEF FrameOK
<1> DEFINE rest == Front(f.open)
           n == Len(rest)
           top == Last(f.open)
<1>2. /\ rest \in Seq(Construct) /\ top \in Construct /\ n \in Nat /\ Len(f.open) = n + 1
      /\ Nested(rest, base, sc) /\ sc[n] \in Nat /\ sc[n] + Deeper(top) = f.scopeDepth
      /\ \A i \in 1 .. n : sc[i] \in Nat /\ sc[i] <= sc[n]
  BY <1>1, FrontFrame
<1>3. /\ f.locals \in Seq(Local) /\ f.scopeDepth \in Nat /\ f.open \in Seq(Construct)
      /\ g.locals \in Seq(Local) /\ g.scopeDepth \in Nat
  BY FrameFields
<1>4. LocalsOK(f.locals, f.scopeDepth)
  BY <1>1 DEF Sound
<1>5. Deeper(top) \in {0, 1}
  BY DEF Deeper
<1>6. sc[n] = g.scopeDepth
  BY <1>2, <1>3, <1>5
<1>7. Sound(g, base, sc)
  BY <1>2, <1>6 DEF Sound
<1>8. ASSUME s2 PROVE Straight(g, sc, t)
  <2>1. Stacked(f.open, f.locals, sc, t) /\ Stands(f, t[n + 1])
    BY <1>1, <1>2, <1>8 DEF Straight
  <2>2. /\ Stacked(rest, f.locals, sc, t)
        /\ t[n + 1] = t[n] + Temporaries(top) /\ t[n] \in Nat
        /\ Placed(top, Kept(f.locals, sc[n + 1] + 1), t[n])
    BY <1>2, <1>3, <2>1, StackedFront
  <2>3. sc[n + 1] = f.scopeDepth
    BY <1>1, <1>2 DEF Sound
  <2>4. Kept(f.locals, f.scopeDepth + 1) = Len(f.locals)
    BY <1>3, <1>4, KeptHere
  <2>5. Stands(g, t[n])
    BY <1>8, <2>1, <2>2, <2>3, <2>4
  <2>6. \A i \in 1 .. n : Kept(g.locals, sc[i] + 1) = Kept(f.locals, sc[i] + 1)
    <3>1. \A i \in 1 .. n : sc[i] \in Nat /\ sc[i] < g.scopeDepth + 1
      BY <1>2, <1>3, <1>6
    <3>2. QED
      BY <3>1 DEF SameBelow
  <2>7. Stacked(rest, g.locals, sc, t)
    BY <1>2, <2>2, <2>6, StackedKept
  <2>8. QED
    BY <2>5, <2>7 DEF Straight
<1>9. QED
  BY <1>7, <1>8 DEF FrameOK

(* Only what is being emitted changes.                                     *)
LEMMA SameFrame ==
  ASSUME NEW f \in Frame, NEW g \in Frame, NEW base, NEW s, NEW s2, s2 => s,
         FrameOK(f, base, s), g.open = f.open, g.locals = f.locals,
         g.scopeDepth = f.scopeDepth, DiscsOK(g),
         s2 => \A temps \in Nat : Stands(f, temps) => Stands(g, temps)
  PROVE  FrameOK(g, base, s2)
<1>1. PICK sc, t : Sound(f, base, sc) /\ (s => Straight(f, sc, t))
  BY DEF FrameOK
<1>2. Sound(g, base, sc)
  BY <1>1 DEF Sound
<1>3. ASSUME s2 PROVE Straight(g, sc, t)
  <2>1. Stacked(f.open, f.locals, sc, t) /\ Stands(f, t[Len(f.open)])
    BY <1>1, <1>3 DEF Straight
  <2>2. Len(f.open) \in Nat
    BY FrameFields, Elements
  <2>3. t[Len(f.open)] \in Nat
    BY <2>1, <2>2 DEF Stacked
  <2>4. QED
    BY <1>3, <2>1, <2>3 DEF Straight
<1>4. QED
  BY <1>2, <1>3 DEF FrameOK
----------------------------------------------------------------------------
(* A variable becomes a local of the block, or the loop, that declares it. *)
LEMMA VarFrame ==
  ASSUME NEW f \in Frame, NEW g \in Frame, NEW base, NEW s, NEW s2, s2 => s,
         FrameOK(f, base, s), f.open # <<>>, Last(f.open).kind = "var",
         g.open = Front(f.open), g.scopeDepth = f.scopeDepth,
         LocalsOK(g.locals, g.scopeDepth),
         SameBelow(f.locals, g.locals, g.scopeDepth), DiscsOK(g),
         s2 => \A temps \in Nat :
                 /\ Placed(Last(f.open), Len(f.locals), temps)
                 /\ Stands(f, temps + Temporaries(Last(f.open)))
                 => Stands(g, temps)
  PROVE  FrameOK(g, base, s2)
<1>1. PICK sc, t : Sound(f, base, sc) /\ (s => Straight(f, sc, t))
  BY DEF FrameOK
<1> DEFINE rest == Front(f.open)
           n == Len(rest)
           top == Last(f.open)
<1>2. /\ rest \in Seq(Construct) /\ top \in Construct /\ n \in Nat /\ Len(f.open) = n + 1
      /\ Nested(rest, base, sc) /\ sc[n] \in Nat /\ sc[n] + Deeper(top) = f.scopeDepth
      /\ \A i \in 1 .. n : sc[i] \in Nat /\ sc[i] <= sc[n]
  BY <1>1, FrontFrame
<1>3. /\ f.locals \in Seq(Local) /\ f.scopeDepth \in Nat /\ f.open \in Seq(Construct)
      /\ g.locals \in Seq(Local) /\ g.scopeDepth \in Nat
  BY FrameFields
<1>4. LocalsOK(f.locals, f.scopeDepth)
  BY <1>1 DEF Sound
<1>5. Deeper(top) = 0
  BY DEF Deeper, IsScope
<1>6. sc[n] = g.scopeDepth
  BY <1>2, <1>3, <1>5
<1>7. Sound(g, base, sc)
  BY <1>2, <1>6 DEF Sound
<1>8. ASSUME s2 PROVE Straight(g, sc, t)
  <2>1. Stacked(f.open, f.locals, sc, t) /\ Stands(f, t[n + 1])
    BY <1>1, <1>2, <1>8 DEF Straight
  <2>2. /\ Stacked(rest, f.locals, sc, t)
        /\ t[n + 1] = t[n] + Temporaries(top) /\ t[n] \in Nat
        /\ Placed(top, Kept(f.locals, sc[n + 1] + 1), t[n])
        /\ rest = <<>> \/ Declares(rest[n])
    BY <1>2, <1>3, <2>1, StackedFront
  <2>3. sc[n + 1] = f.scopeDepth
    BY <1>1, <1>2 DEF Sound
  <2>4. Kept(f.locals, f.scopeDepth + 1) = Len(f.locals)
    BY <1>3, <1>4, KeptHere
  <2>5. Stands(g, t[n])
    BY <1>8, <2>1, <2>2, <2>3, <2>4
  <2>6. DOMAIN rest = 1 .. n /\ (rest = <<>> <=> n = 0)
    BY <1>2, Elements
  <2>7. \A i \in 1 .. n : i < n => Kept(g.locals, sc[i] + 1) = Kept(f.locals, sc[i] + 1)
    <3> SUFFICES ASSUME NEW i \in 1 .. n, i < n
                 PROVE  Kept(g.locals, sc[i] + 1) = Kept(f.locals, sc[i] + 1)
      OBVIOUS
    <3>1. n # 0 /\ n \in 1 .. n /\ n - 1 \in 0 .. n /\ i \in 0 .. n /\ i <= n - 1
      BY <1>2
    <3>2. Deeper(rest[n]) = 1
      BY <2>2, <2>6, <3>1 DEF Declares, Deeper, IsScope
    <3>3. sc[n] = sc[n - 1] + 1 /\ sc[i] <= sc[n - 1] /\ sc[n - 1] \in Nat
      <4>1. /\ sc[n] = sc[n - 1] + Deeper(rest[n])
            /\ \A k, j \in 0 .. n : k <= j => sc[k] <= sc[j]
            /\ sc \in [Nat -> Nat]
        BY <1>2, <2>6, <3>1 DEF Nested
      <4>2. n - 1 \in Nat
        BY <3>1
      <4>3. QED
        BY <3>1, <3>2, <4>1, <4>2
    <3>4. sc[i] \in Nat /\ sc[i] < g.scopeDepth
      BY <1>2, <1>6, <3>3
    <3>5. QED
      BY <3>4 DEF SameBelow
  <2>8. ASSUME NEW i \in DOMAIN rest
        PROVE  Placed(rest[i], Kept(g.locals, sc[i] + 1), t[i - 1])
    <3>1. Placed(rest[i], Kept(f.locals, sc[i] + 1), t[i - 1])
      BY <2>2 DEF Stacked
    <3>2. CASE i < n
      BY <2>6, <2>7, <3>1, <3>2
    <3>3. CASE ~(i < n)
      <4>1. i = n /\ Declares(rest[i])
        BY <1>2, <2>2, <2>6, <3>3
      <4>2. ~HasBase(rest[i]) /\ IsBare(rest[i])
        BY <4>1 DEF HasBase, IsBare, Declares
      <4>3. QED
        BY <3>1, <4>2 DEF Placed, Labels
    <3>4. QED
      BY <3>2, <3>3
  <2>9. Stacked(rest, g.locals, sc, t)
    BY <2>2, <2>8 DEF Stacked
  <2>10. QED
    BY <2>5, <2>9 DEF Straight
<1>9. QED
  BY <1>7, <1>8 DEF FrameOK

(* What break and continue change: the labels of a loop further out.       *)
Alike(c, d) ==
    /\ d.kind = c.kind /\ d.stage = c.stage /\ d.count = c.count
    /\ d.pops = c.pops /\ d.last = c.last

LEMMA LeaveFrame ==
  ASSUME NEW f \in Frame, NEW g \in Frame, NEW base, NEW s, NEW s2, s2 => s,
         FrameOK(f, base, s), NEW i \in DOMAIN f.open, NEW c \in Construct,
         g.open = [f.open EXCEPT ![i] = c], Alike(f.open[i], c), Proper(c),
         g.locals = f.locals, g.scopeDepth = f.scopeDepth, ~InExpression(f), DiscsOK(g),
         s2 => (Stands(f, 0) => Stands(g, 0)),
         s2 /\ Stands(f, 0) =>
           \A at, temps \in Nat : Placed(f.open[i], at, temps) => Placed(c, at, temps)
  PROVE  FrameOK(g, base, s2)
<1>1. PICK sc, t : Sound(f, base, sc) /\ (s => Straight(f, sc, t))
  BY DEF FrameOK
<1> DEFINE n == Len(f.open)
<1>2. /\ f.locals \in Seq(Local) /\ f.scopeDepth \in Nat /\ f.open \in Seq(Construct)
  BY FrameFields
<1>3. /\ n \in Nat /\ DOMAIN f.open = 1 .. n /\ i \in 1 .. n
      /\ DOMAIN g.open = 1 .. n /\ Len(g.open) = n /\ g.open[i] = c
      /\ \A j \in 1 .. n : j # i => g.open[j] = f.open[j]
  BY <1>2, Elements, Replaced
<1> HIDE DEF n
<1>4. \A j \in 1 .. n : Alike(f.open[j], g.open[j]) /\ f.open[j] \in Construct
  BY <1>2, <1>3, Elements DEF Alike
<1>5. Nested(f.open, base, sc) /\ sc[n] = f.scopeDepth /\ LocalsOK(f.locals, f.scopeDepth)
  BY <1>1 DEF Sound, n
<1>6. ASSUME NEW j \in 1 .. n
      PROVE  sc[j] = sc[j - 1] + Deeper(g.open[j]) /\ Proper(g.open[j])
  <2>1. Deeper(g.open[j]) = Deeper(f.open[j])
    BY <1>4 DEF Alike, Deeper, IsScope
  <2>2. sc[j] = sc[j - 1] + Deeper(f.open[j]) /\ Proper(f.open[j])
    BY <1>3, <1>5 DEF Nested
  <2>3. QED
    BY <1>3, <2>1, <2>2
<1>7. Nested(g.open, base, sc)
  BY <1>3, <1>5, <1>6 DEF Nested, n
<1>8. Sound(g, base, sc)
  BY <1>3, <1>5, <1>7 DEF Sound
<1>9. ASSUME s2 PROVE Straight(g, sc, t)
  <2>1. Stacked(f.open, f.locals, sc, t) /\ Stands(f, t[n])
    BY <1>1, <1>9 DEF Straight, n
  <2>2. t[n] = 0
    BY <2>1 DEF Stands
  <2>3. Stands(g, t[n])
    BY <1>9, <2>1, <2>2
  <2>4. t \in [Nat -> Nat] /\ t[0] = 0 /\ sc \in [Nat -> Nat]
    BY <1>5, <2>1 DEF Stacked, Nested
  <2>5. ASSUME NEW j \in 1 .. n
        PROVE  /\ t[j] = t[j - 1] + Temporaries(g.open[j])
               /\ Placed(g.open[j], Kept(f.locals, sc[j] + 1), t[j - 1])
               /\ g.open[j].kind = "var" => j = 1 \/ Declares(g.open[j - 1])
    <3>1. /\ t[j] = t[j - 1] + Temporaries(f.open[j])
          /\ Placed(f.open[j], Kept(f.locals, sc[j] + 1), t[j - 1])
          /\ f.open[j].kind = "var" => j = 1 \/ Declares(f.open[j - 1])
      BY <1>3, <2>1 DEF Stacked
    <3>2. Temporaries(g.open[j]) = Temporaries(f.open[j])
      BY <1>4 DEF Alike, Temporaries
    <3>3. Placed(g.open[j], Kept(f.locals, sc[j] + 1), t[j - 1])
      <4>1. CASE j = i
        <5>1. j - 1 \in Nat /\ j \in Nat
          BY <1>3
        <5>2. t[j - 1] \in Nat /\ sc[j] + 1 \in Nat
          BY <2>4, <5>1
        <5>3. Depths(f.locals)
          BY <1>2, LocalDepths
        <5>4. Kept(f.locals, sc[j] + 1) \in Nat
          BY <5>2, <5>3, KeptIs
        <5>5. QED
          BY <1>3, <1>9, <2>1, <2>2, <3>1, <4>1, <5>2, <5>4
      <4>2. CASE j # i
        BY <1>3, <3>1, <4>2
      <4>3. QED
        BY <4>1, <4>2
    <3>4. j = 1 \/ (Declares(g.open[j - 1]) <=> Declares(f.open[j - 1]))
      <4>1. j = 1 \/ j - 1 \in 1 .. n
        BY <1>3
      <4>2. QED
        BY <1>4, <4>1 DEF Alike, Declares
    <3>5. g.open[j].kind = f.open[j].kind
      BY <1>4 DEF Alike
    <3>6. QED
      BY <3>1, <3>2, <3>3, <3>4, <3>5
  <2>6. Stacked(g.open, g.locals, sc, t)
    BY <1>3, <2>4, <2>5 DEF Stacked
  <2>7. QED
    BY <1>3, <2>3, <2>6 DEF Straight
<1>10. QED
  BY <1>8, <1>9 DEF FrameOK
----------------------------------------------------------------------------
(* The discriminants.                                                      *)
Quiet(f) == \A i \in DOMAIN f.open : ~IsDisc(f.open[i])
Pending(f) == IF Quiet(f) THEN 0 ELSE 1

LEMMA QuietIf ==
  ASSUME NEW f \in Frame, DiscsOK(f),
         \/ ~InExpression(f)
         \/ /\ f.open # <<>> /\ ~IsDisc(Last(f.open))
            /\ Last(f.open).kind \notin {"operands", "logical"}
  PROVE  Quiet(f)
<1>1. f.open \in Seq(Construct)
  BY FrameFields
<1>2. CASE ~InExpression(f)
  BY <1>2 DEF Quiet, DiscsOK
<1>3. CASE f.open # <<>> /\ ~IsDisc(Last(f.open)) /\ Last(f.open).kind \notin {"operands", "logical"}
  <2> SUFFICES ASSUME NEW i \in DOMAIN f.open, IsDisc(f.open[i]) PROVE FALSE
    BY DEF Quiet
  <2>1. Len(f.open) \in Nat /\ DOMAIN f.open = 1 .. Len(f.open) /\ Last(f.open) = f.open[Len(f.open)]
    BY <1>1, <1>3, Elements, FrontExtends
  <2>2. i # Len(f.open)
    BY <1>3, <2>1
  <2>3. i < Len(f.open) /\ Len(f.open) \in DOMAIN f.open
    BY <2>1, <2>2
  <2>4. QED
    BY <1>3, <2>1, <2>3 DEF DiscsOK
<1>4. QED
  BY <1>2, <1>3

LEMMA QuietMeans ==
  ASSUME NEW f, Quiet(f)
  PROVE  DiscsOK(f) /\ Pending(f) = 0
  BY DEF Quiet, DiscsOK, Pending

LEMMA QuietAppend ==
  ASSUME NEW open \in Seq(Construct), NEW c \in Construct, ~IsDisc(c),
         \A i \in DOMAIN open : ~IsDisc(open[i])
  PROVE  \A i \in DOMAIN Append(open, c) : ~IsDisc(Append(open, c)[i])
<1>1. Extends(open, Append(open, c), c)
  BY AppendExtends
<1>2. QED
  BY <1>1 DEF Extends

LEMMA QuietFront ==
  ASSUME NEW open \in Seq(Construct), open # <<>>, \A i \in DOMAIN open : ~IsDisc(open[i])
  PROVE  \A i \in DOMAIN Front(open) : ~IsDisc(Front(open)[i])
<1>1. Extends(Front(open), open, Last(open))
  BY FrontExtends
<1>2. QED
  BY <1>1 DEF Extends

(* An expression's construct begins, goes on or ends.                      *)
LEMMA DiscsEnter ==
  ASSUME NEW f \in Frame, NEW g \in Frame, NEW c \in Construct, DiscsOK(f),
         c.kind \in {"operands", "logical"}, InExpression(g), g.open = Append(f.open, c)
  PROVE  DiscsOK(g) /\ Pending(g) = Pending(f)
<1> DEFINE n == Len(f.open)
<1>1. Extends(f.open, g.open, c)
  BY FrameFields, AppendExtends
<1>2. /\ n \in Nat /\ DOMAIN f.open = 1 .. n /\ DOMAIN g.open = 1 .. n + 1
      /\ \A i \in 1 .. n : g.open[i] = f.open[i]
      /\ g.open[n + 1] = c
  BY <1>1 DEF Extends
<1> HIDE DEF n
<1>3. ~IsDisc(c)
  BY DEF IsDisc
<1>4. ASSUME NEW i \in DOMAIN g.open, IsDisc(g.open[i])
      PROVE  i \in DOMAIN f.open /\ IsDisc(f.open[i])
             /\ \A j \in DOMAIN g.open : i < j => g.open[j].kind \in {"operands", "logical"}
  <2>1. i \in 1 .. n
    BY <1>2, <1>3, <1>4
  <2>2. IsDisc(f.open[i]) /\ i \in DOMAIN f.open
    BY <1>2, <1>4, <2>1
  <2>3. \A j \in 1 .. n : i < j => f.open[j].kind \in {"operands", "logical"}
    BY <1>2, <2>2 DEF DiscsOK
  <2>4. QED
    BY <1>2, <2>2, <2>3
<1>5. DiscsOK(g)
  BY <1>4 DEF DiscsOK
<1>6. Quiet(g) <=> Quiet(f)
  BY <1>2, <1>4 DEF Quiet
<1>7. QED
  BY <1>5, <1>6 DEF Pending

LEMMA DiscsEnd ==
  ASSUME NEW f \in Frame, NEW g \in Frame, DiscsOK(f), f.open # <<>>,
         Last(f.open).kind \in {"operands", "logical"}, InExpression(g), g.open = Front(f.open)
  PROVE  DiscsOK(g) /\ Pending(g) = Pending(f)
<1> DEFINE n == Len(g.open)
<1>1. Extends(g.open, f.open, Last(f.open))
  BY FrameFields, FrontExtends
<1>2. /\ n \in Nat /\ DOMAIN g.open = 1 .. n /\ DOMAIN f.open = 1 .. n + 1
      /\ \A i \in 1 .. n : f.open[i] = g.open[i]
      /\ f.open[n + 1] = Last(f.open)
  BY <1>1 DEF Extends
<1> HIDE DEF n
<1>3. ~IsDisc(Last(f.open))
  BY DEF IsDisc
<1>4. \A i \in 1 .. n : i \in 1 .. n + 1
  BY <1>2
<1>5. DiscsOK(g)
  BY <1>2, <1>4 DEF DiscsOK
<1>6. Quiet(g) <=> Quiet(f)
  <2>1. \A i \in 1 .. n + 1 : i \in 1 .. n \/ i = n + 1
    BY <1>2
  <2>2. QED
    BY <1>2, <1>3, <1>4, <2>1 DEF Quiet
<1>7. QED
  BY <1>5, <1>6 DEF Pending

LEMMA DiscsGoOn ==
  ASSUME NEW f \in Frame, NEW g \in Frame, NEW c \in Construct, DiscsOK(f), f.open # <<>>,
         Last(f.open).kind \in {"operands", "logical"}, InExpression(g),
         c.kind \in {"operands", "logical"}, g.open = Append(Front(f.open), c)
  PROVE  DiscsOK(g) /\ Pending(g) = Pending(f)
<1> DEFINE mid == [f EXCEPT !.open = Front(f.open), !.todo = g.todo]
<1>1. Front(f.open) \in Seq(Construct) /\ g.todo \in Todo
  BY FrameFields, FrontExtends
<1>2. mid \in Frame /\ mid.open = Front(f.open) /\ mid.todo = g.todo
  BY <1>1 DEF Frame
<1>3. InExpression(mid)
  BY <1>2 DEF InExpression
<1> HIDE DEF mid
<1>4. DiscsOK(mid) /\ Pending(mid) = Pending(f)
  BY <1>2, <1>3, DiscsEnd
<1>5. QED
  BY <1>2, <1>4, DiscsEnter
----------------------------------------------------------------------------
(* The names. A variable of the checker stands for the local at its slot,  *)
(* in the order of the locals; `off' is the depth of the checker's scope   *)
(* around the function.                                                    *)
CheckedDepth(list, s) == IF s = 1 THEN 1 ELSE list[s].depth

Agree(list, vs, level, off) ==
    /\ \A i \in DOMAIN vs :
          /\ vs[i].level = level /\ vs[i].slot \in DOMAIN list
          /\ list[vs[i].slot].name = vs[i].name
          /\ vs[i].depth = off + CheckedDepth(list, vs[i].slot)
    /\ \A i, j \in DOMAIN vs : i < j => vs[i].slot < vs[j].slot
    /\ \A s \in DOMAIN list : list[s].name # NULL => \E i \in DOMAIN vs : vs[i].slot = s
    /\ level = 1 => list[1].name = NULL

ScopeOK(f, vs, depth, level, off, flat) ==
    /\ depth + Pending(f) = off + f.scopeDepth
    /\ flat => Agree(f.locals, vs, level, off) /\ (f.todo = "method" => vs = <<>>)

LEMMA VarFields ==
  ASSUME NEW vs \in Seq(Variable)
  PROVE  /\ Len(vs) \in Nat /\ DOMAIN vs = 1 .. Len(vs) /\ Depths(vs)
         /\ \A i \in 1 .. Len(vs) :
               /\ vs[i].name \in Names \cup {This} /\ vs[i].name # NULL
               /\ vs[i].depth \in Nat /\ vs[i].level \in Nat /\ vs[i].slot \in Nat
<1>1. Len(vs) \in Nat /\ DOMAIN vs = 1 .. Len(vs) /\ \A i \in DOMAIN vs : vs[i] \in Variable
  BY Elements
<1>2. \A x \in Variable : /\ x.name \in Names \cup {This} /\ x.name # NULL
                          /\ x.depth \in Nat /\ x.level \in Nat /\ x.slot \in Nat
  BY CompilerAssumption DEF Variable
<1>3. QED
  BY <1>1, <1>2 DEF Depths

LEMMA LocalFields ==
  ASSUME NEW list \in Seq(Local)
  PROVE  /\ Len(list) \in Nat /\ DOMAIN list = 1 .. Len(list) /\ Depths(list)
         /\ \A i \in 1 .. Len(list) :
               list[i].name \in Names \cup {NULL, This} /\ list[i].depth \in Nat
<1>1. Len(list) \in Nat /\ DOMAIN list = 1 .. Len(list) /\ \A i \in DOMAIN list : list[i] \in Local
  BY Elements
<1>2. \A x \in Local : x.name \in Names \cup {NULL, This} /\ x.depth \in Nat
  BY DEF Local
<1>3. QED
  BY <1>1, <1>2, LocalDepths

(* So the variables' depths rise with them.                                *)
LEMMA VarsSorted ==
  ASSUME NEW list \in Seq(Local), NEW top \in Nat, LocalsOK(list, top),
         NEW vs \in Seq(Variable), NEW level, NEW off \in Nat, Agree(list, vs, level, off)
  PROVE  \A i, j \in DOMAIN vs : i <= j => vs[i].depth <= vs[j].depth
<1> SUFFICES ASSUME NEW i \in DOMAIN vs, NEW j \in DOMAIN vs, i <= j
             PROVE  vs[i].depth <= vs[j].depth
  OBVIOUS
<1>1. DOMAIN vs = 1 .. Len(vs) /\ Len(vs) \in Nat /\ DOMAIN list = 1 .. Len(list) /\ Len(list) \in Nat
  BY VarFields, LocalFields
<1>2. /\ vs[i].slot \in DOMAIN list /\ vs[j].slot \in DOMAIN list
      /\ vs[i].depth = off + CheckedDepth(list, vs[i].slot)
      /\ vs[j].depth = off + CheckedDepth(list, vs[j].slot)
      /\ i < j => vs[i].slot < vs[j].slot
  BY DEF Agree
<1>3. vs[i].slot <= vs[j].slot
  <2>1. i = j \/ i < j
    BY <1>1
  <2>2. QED
    BY <1>1, <1>2, <2>1
<1>4. \A s \in DOMAIN list : list[s].depth \in Nat /\ (s > 1 => list[s].depth > 0)
  BY LocalFields DEF LocalsOK
<1>5. list[vs[i].slot].depth <= list[vs[j].slot].depth
  BY <1>2, <1>3 DEF LocalsOK
<1>6. CheckedDepth(list, vs[i].slot) <= CheckedDepth(list, vs[j].slot)
      /\ CheckedDepth(list, vs[i].slot) \in Nat /\ CheckedDepth(list, vs[j].slot) \in Nat
  BY <1>1, <1>2, <1>3, <1>4, <1>5 DEF CheckedDepth
<1>7. QED
  BY <1>2, <1>6

(* A scope ends: compiler and checker drop the same variables.             *)
LEMMA SameGo ==
  ASSUME NEW list \in Seq(Local), NEW top \in Nat, LocalsOK(list, top), top > 0,
         NEW vs \in Seq(Variable), NEW level, NEW off \in Nat, Agree(list, vs, level, off),
         level # 1 => top > 1
  PROVE  /\ Kept(list, top) \in 1 .. Len(list) /\ Kept(vs, off + top) \in 0 .. Len(vs)
         /\ \A i \in DOMAIN vs : i <= Kept(vs, off + top) <=> vs[i].slot <= Kept(list, top)
<1> DEFINE k == Kept(list, top)
           v == Kept(vs, off + top)
<1>1. /\ DOMAIN vs = 1 .. Len(vs) /\ Len(vs) \in Nat /\ Depths(vs)
      /\ DOMAIN list = 1 .. Len(list) /\ Len(list) \in Nat /\ Depths(list)
      /\ \A i \in 1 .. Len(vs) : vs[i].name # NULL
  BY VarFields, LocalFields
<1>2. off + top \in Nat
  OBVIOUS
<1>3. /\ k \in 0 .. Len(list)
      /\ k > 0 => list[k].depth < top
      /\ \A i \in 1 .. Len(list) : list[i].depth < top => i <= k
  BY <1>1, KeptIs
<1>4. /\ v \in 0 .. Len(vs)
      /\ v > 0 => vs[v].depth < off + top
      /\ \A i \in 1 .. Len(vs) : vs[i].depth < off + top => i <= v
  BY <1>1, <1>2, KeptIs
<1> HIDE DEF k, v
<1>5. 1 \in 1 .. Len(list) /\ list[1].depth = 0 /\ 1 <= k
  BY <1>1, <1>3 DEF LocalsOK
<1>6. ASSUME NEW i \in DOMAIN vs PROVE i <= v <=> vs[i].slot <= k
  <2> DEFINE s == vs[i].slot
  <2>1. s \in DOMAIN list /\ list[s].name # NULL /\ vs[i].depth = off + CheckedDepth(list, s)
    BY <1>1 DEF Agree
  <2> HIDE DEF s
  <2>2. \A x \in DOMAIN list : list[x].depth \in Nat
    BY <1>1 DEF Depths
  <2>3. CheckedDepth(list, s) < top <=> s <= k
    <3>1. CASE s = 1
      <4>1. level # 1
        BY <2>1, <3>1 DEF Agree
      <4>2. QED
        BY <1>5, <3>1, <4>1 DEF CheckedDepth
    <3>2. CASE s # 1
      <4>1. CheckedDepth(list, s) = list[s].depth
        BY <3>2 DEF CheckedDepth
      <4>2. list[s].depth < top => s <= k
        BY <1>1, <1>3, <2>1
      <4>3. ASSUME s <= k PROVE list[s].depth < top
        <5>1. k \in DOMAIN list
          BY <1>1, <1>3, <1>5
        <5>2. list[s].depth <= list[k].depth
          BY <2>1, <4>3, <5>1 DEF LocalsOK
        <5>3. QED
          BY <1>3, <1>5, <2>1, <2>2, <5>1, <5>2
      <4>4. QED
        BY <4>1, <4>2, <4>3
    <3>3. QED
      BY <3>1, <3>2
  <2>4. vs[i].depth < off + top <=> i <= v
    <3>1. vs[i].depth < off + top => i <= v
      BY <1>1, <1>4
    <3>2. ASSUME i <= v PROVE vs[i].depth < off + top
      <4>1. v \in DOMAIN vs /\ v > 0
        BY <1>1, <1>4, <3>2
      <4>2. vs[i].depth <= vs[v].depth
        BY <3>2, <4>1, VarsSorted
      <4>3. vs[i].depth \in Nat /\ vs[v].depth \in Nat
        BY <1>1, <4>1 DEF Depths
      <4>4. QED
        BY <1>4, <4>1, <4>2, <4>3
    <3>3. QED
      BY <3>1, <3>2
  <2>5. CheckedDepth(list, s) \in Nat
    BY <2>1, <2>2 DEF CheckedDepth
  <2>6. QED
    BY <2>1, <2>3, <2>4, <2>5 DEF s
<1>7. k \in 1 .. Len(list)
  BY <1>3, <1>5
<1>8. QED
  BY <1>4, <1>6, <1>7 DEF k, v

LEMMA AgreeEnds ==
  ASSUME NEW list \in Seq(Local), NEW top \in Nat, LocalsOK(list, top), top > 0,
         NEW vs \in Seq(Variable), NEW level, NEW off \in Nat, Agree(list, vs, level, off),
         level # 1 => top > 1
  PROVE  Agree(SubSeq(list, 1, Kept(list, top)), SubSeq(vs, 1, Kept(vs, off + top)), level, off)
<1> DEFINE k == Kept(list, top)
           v == Kept(vs, off + top)
           new == SubSeq(list, 1, k)
           ws == SubSeq(vs, 1, v)
<1>1. /\ k \in 1 .. Len(list) /\ v \in 0 .. Len(vs)
      /\ \A i \in DOMAIN vs : i <= v <=> vs[i].slot <= k
  BY SameGo
<1>2. /\ DOMAIN vs = 1 .. Len(vs) /\ Len(vs) \in Nat /\ \A i \in 1 .. Len(vs) : vs[i].slot \in Nat
      /\ DOMAIN list = 1 .. Len(list) /\ Len(list) \in Nat
  BY VarFields, LocalFields
<1> HIDE DEF k, v
<1>3. k \in 0 .. Len(list)
  BY <1>1, <1>2
<1>4. DOMAIN new = 1 .. k /\ \A i \in 1 .. k : new[i] = list[i]
  BY <1>3, Prefix
<1>5. DOMAIN ws = 1 .. v /\ \A i \in 1 .. v : ws[i] = vs[i]
  BY <1>1, Prefix
<1> HIDE DEF new, ws
<1>6. ASSUME NEW i \in DOMAIN ws
      PROVE  /\ ws[i].level = level /\ ws[i].slot \in DOMAIN new
             /\ new[ws[i].slot].name = ws[i].name
             /\ ws[i].depth = off + CheckedDepth(new, ws[i].slot)
  <2>1. i \in DOMAIN vs /\ ws[i] = vs[i] /\ i <= v
    BY <1>1, <1>2, <1>5
  <2>2. /\ vs[i].level = level /\ vs[i].slot \in DOMAIN list
        /\ list[vs[i].slot].name = vs[i].name
        /\ vs[i].depth = off + CheckedDepth(list, vs[i].slot)
    BY <2>1 DEF Agree
  <2>3. vs[i].slot \in 1 .. k
    BY <1>1, <1>2, <2>1, <2>2
  <2>4. new[vs[i].slot] = list[vs[i].slot]
    BY <1>4, <2>3
  <2>5. QED
    BY <1>4, <2>1, <2>2, <2>3, <2>4 DEF CheckedDepth
<1>7. \A i, j \in DOMAIN ws : i < j => ws[i].slot < ws[j].slot
  <2>1. \A i \in DOMAIN ws : i \in DOMAIN vs /\ ws[i] = vs[i]
    BY <1>1, <1>2, <1>5
  <2>2. QED
    BY <2>1 DEF Agree
<1>8. ASSUME NEW s \in DOMAIN new, new[s].name # NULL PROVE \E i \in DOMAIN ws : ws[i].slot = s
  <2>1. s \in DOMAIN list /\ new[s] = list[s] /\ s <= k
    BY <1>1, <1>2, <1>4
  <2>2. PICK i \in DOMAIN vs : vs[i].slot = s
    BY <1>8, <2>1 DEF Agree
  <2>3. i \in 1 .. v
    BY <1>1, <1>2, <2>1, <2>2
  <2>4. QED
    BY <1>5, <2>2, <2>3
<1>9. level = 1 => new[1].name = NULL
  <2>1. 1 \in 1 .. k
    BY <1>1
  <2>2. QED
    BY <1>4, <2>1 DEF Agree
<1>10. Agree(new, ws, level, off)
  BY <1>6, <1>7, <1>8, <1>9 DEF Agree
<1>11. QED
  BY <1>10 DEF new, ws, k, v

(* A variable is declared, or a local without a name.                      *)
LEMMA AgreeDeclares ==
  ASSUME NEW list \in Seq(Local), NEW top \in Nat \ {0}, LocalsOK(list, top),
         NEW vs \in Seq(Variable), NEW level \in Nat, NEW off \in Nat, Agree(list, vs, level, off),
         NEW name \in Names
  PROVE  Agree(Append(list, [name |-> name, depth |-> top]),
               Append(vs, [name |-> name, depth |-> off + top, level |-> level,
                           slot |-> Len(list) + 1]),
               level, off)
<1> DEFINE x == [name |-> name, depth |-> top]
           y == [name |-> name, depth |-> off + top, level |-> level, slot |-> Len(list) + 1]
           new == Append(list, x)
           ws == Append(vs, y)
           n == Len(list)
           m == Len(vs)
<1>1. /\ DOMAIN vs = 1 .. m /\ m \in Nat /\ DOMAIN list = 1 .. n /\ n \in Nat
      /\ \A i \in 1 .. m : vs[i].slot \in Nat
  BY VarFields, LocalFields
<1>2. n > 0
  BY <1>1 DEF LocalsOK
<1>3. x \in Local /\ y \in Variable
  BY <1>1 DEF Local, Variable
<1>4. Extends(list, new, x) /\ Extends(vs, ws, y)
  BY <1>3, AppendExtends
<1>5. /\ x.name = name /\ x.depth = top
      /\ y.name = name /\ y.depth = off + top /\ y.level = level /\ y.slot = n + 1
  OBVIOUS
<1> HIDE DEF x, y, new, ws, n, m
<1>6. /\ DOMAIN new = 1 .. n + 1 /\ new[n + 1] = x /\ \A i \in 1 .. n : new[i] = list[i]
      /\ DOMAIN ws = 1 .. m + 1 /\ ws[m + 1] = y /\ \A i \in 1 .. m : ws[i] = vs[i]
  BY <1>4 DEF Extends, n, m
<1>7. \A i \in 1 .. m : vs[i].slot \in 1 .. n
  BY <1>1 DEF Agree
<1>8. ASSUME NEW i \in DOMAIN ws
      PROVE  /\ ws[i].level = level /\ ws[i].slot \in DOMAIN new
             /\ new[ws[i].slot].name = ws[i].name
             /\ ws[i].depth = off + CheckedDepth(new, ws[i].slot)
  <2>1. CASE i = m + 1
    <3>1. ws[i] = y /\ y.slot \in DOMAIN new /\ new[y.slot] = x /\ y.slot # 1
      BY <1>1, <1>2, <1>5, <1>6, <2>1
    <3>2. QED
      BY <1>5, <3>1 DEF CheckedDepth
  <2>2. CASE i \in 1 .. m
    <3>1. /\ vs[i].level = level /\ list[vs[i].slot].name = vs[i].name
          /\ vs[i].depth = off + CheckedDepth(list, vs[i].slot)
      BY <1>1, <2>2 DEF Agree
    <3>2. vs[i].slot \in 1 .. n /\ vs[i].slot \in DOMAIN new
      BY <1>1, <1>6, <1>7, <2>2
    <3>3. new[vs[i].slot] = list[vs[i].slot] /\ ws[i] = vs[i]
      BY <1>6, <2>2, <3>2
    <3>4. QED
      BY <3>1, <3>2, <3>3 DEF CheckedDepth
  <2>3. QED
    BY <1>1, <1>6, <2>1, <2>2
<1>9. ASSUME NEW i \in DOMAIN ws, NEW j \in DOMAIN ws, i < j PROVE ws[i].slot < ws[j].slot
  <2>1. i \in 1 .. m /\ ws[i] = vs[i] /\ vs[i].slot \in 1 .. n
    BY <1>1, <1>6, <1>7, <1>9
  <2>2. CASE j = m + 1
    BY <1>1, <1>5, <1>6, <2>1, <2>2
  <2>3. CASE j \in 1 .. m
    BY <1>1, <1>6, <1>9, <2>1, <2>3 DEF Agree
  <2>4. QED
    BY <1>1, <1>6, <2>2, <2>3
<1>10. ASSUME NEW s \in DOMAIN new, new[s].name # NULL PROVE \E i \in DOMAIN ws : ws[i].slot = s
  <2>1. CASE s = n + 1
    <3>1. m + 1 \in DOMAIN ws
      BY <1>1, <1>6
    <3>2. QED
      BY <1>5, <1>6, <2>1, <3>1
  <2>2. CASE s \in 1 .. n
    <3>1. PICK i \in DOMAIN vs : vs[i].slot = s
      BY <1>1, <1>6, <1>10, <2>2 DEF Agree
    <3>2. i \in DOMAIN ws /\ ws[i] = vs[i]
      BY <1>1, <1>6
    <3>3. QED
      BY <3>1, <3>2
  <2>3. QED
    BY <1>1, <1>6, <2>1, <2>2
<1>11. level = 1 => new[1].name = NULL
  BY <1>1, <1>2, <1>6 DEF Agree
<1>12. Agree(new, ws, level, off)
  BY <1>8, <1>9, <1>10, <1>11 DEF Agree
<1>13. QED
  BY <1>12 DEF new, ws, x, y, n

LEMMA AgreeUnnamed ==
  ASSUME NEW list \in Seq(Local), NEW top \in Nat, LocalsOK(list, top),
         NEW vs \in Seq(Variable), NEW level, NEW off, Agree(list, vs, level, off)
  PROVE  Agree(Append(list, [name |-> NULL, depth |-> top]), vs, level, off)
<1> DEFINE x == [name |-> NULL, depth |-> top]
           new == Append(list, x)
           n == Len(list)
<1>1. DOMAIN vs = 1 .. Len(vs) /\ Len(vs) \in Nat /\ DOMAIN list = 1 .. n /\ n \in Nat
  BY VarFields, LocalFields
<1>2. n > 0
  BY <1>1 DEF LocalsOK
<1>3. x \in Local /\ x.name = NULL
  BY DEF Local
<1>4. Extends(list, new, x)
  BY <1>3, AppendExtends
<1> HIDE DEF x, new, n
<1>5. DOMAIN new = 1 .. n + 1 /\ new[n + 1] = x /\ \A i \in 1 .. n : new[i] = list[i]
  BY <1>4 DEF Extends, n
<1>6. ASSUME NEW i \in DOMAIN vs
      PROVE  /\ vs[i].level = level /\ vs[i].slot \in DOMAIN new
             /\ new[vs[i].slot].name = vs[i].name
             /\ vs[i].depth = off + CheckedDepth(new, vs[i].slot)
  <2>1. /\ vs[i].level = level /\ list[vs[i].slot].name = vs[i].name /\ vs[i].slot \in 1 .. n
        /\ vs[i].depth = off + CheckedDepth(list, vs[i].slot)
    BY <1>1 DEF Agree
  <2>2. new[vs[i].slot] = list[vs[i].slot] /\ vs[i].slot \in DOMAIN new
    BY <1>1, <1>5, <2>1
  <2>3. QED
    BY <2>1, <2>2 DEF CheckedDepth
<1>7. ASSUME NEW s \in DOMAIN new, new[s].name # NULL PROVE \E i \in DOMAIN vs : vs[i].slot = s
  <2>1. s \in 1 .. n /\ new[s] = list[s]
    BY <1>1, <1>3, <1>5, <1>7
  <2>2. QED
    BY <1>1, <1>7, <2>1 DEF Agree
<1>8. level = 1 => new[1].name = NULL
  BY <1>1, <1>2, <1>5 DEF Agree
<1>9. Agree(new, vs, level, off)
  BY <1>6, <1>7, <1>8 DEF Agree
<1>10. QED
  BY <1>9 DEF new, x
----------------------------------------------------------------------------
(* The whole compiler.                                                     *)
NoCaseDeclarations == "case_declarations" \notin Behaviours
NoLocalFunctions == "local_functions" \notin Behaviours
NoLongSwitch == "long_switch" \notin Behaviours

Base(l) == IF l = 1 THEN 0 ELSE 1
Unnamed(list) == \A s \in DOMAIN list : list[s].name = NULL

Typed ==
    /\ functions \in Seq(Frame) /\ vars \in Seq(Variable) /\ checkDepth \in Nat
    /\ hadError \in BOOLEAN /\ astray \in BOOLEAN /\ result \in {"none", "script", NULL}

FramesOK ==
    \A l \in DOMAIN functions :
       /\ FrameOK(functions[l], Base(l), NoCaseDeclarations /\ ~hadError)
       /\ l < Level => ~InExpression(functions[l])

(* off[l] is the checker's depth around function l.                        *)
Offsets(fs, off) ==
    /\ off \in [Nat -> Nat] /\ off[1] = 0
    /\ \A l \in DOMAIN fs : l < Len(fs) => off[l + 1] = off[l] + fs[l].scopeDepth

NamesOK(flat) ==
    \E off :
       /\ Offsets(functions, off)
       /\ ScopeOK(functions[Level], vars, checkDepth, Level, off[Level], flat)
       /\ flat => \A l \in DOMAIN functions : l < Level => Unnamed(functions[l].locals)

ScopesOK == functions # <<>> => NamesOK(NoLocalFunctions /\ ~hadError)

JumpsOK ==
    /\ NoLongSwitch /\ astray => hadError
    /\ functions # <<>> => result = "none"
    /\ NoLongSwitch /\ result = "script" => ~astray

CInv == Typed /\ FramesOK /\ ScopesOK /\ JumpsOK
----------------------------------------------------------------------------
(* The step of a function that compiles without an error so far.           *)
Compiles == CInv /\ functions # <<>> /\ ~hadError

(* What an emission leaves of the flags.                                   *)
Flags ==
    /\ hadError' \in BOOLEAN /\ astray' \in BOOLEAN
    /\ NoLongSwitch /\ astray' => hadError'

LEMMA EmissionFlags ==
  ASSUME Compiles
  PROVE  /\ NoJump => Flags /\ ~hadError'
         /\ Error => Flags /\ hadError'
         /\ PatchJump => Flags
         /\ EmitLoop => Flags
         /\ PatchDefault => Flags
<1>1. hadError = FALSE /\ astray \in BOOLEAN /\ (NoLongSwitch /\ astray => hadError)
  BY DEF Compiles, CInv, Typed, JumpsOK
<1>2. NoJump => Flags /\ ~hadError'
  <2> SUFFICES ASSUME NoJump PROVE Flags /\ ~hadError'
    OBVIOUS
  <2>1. hadError' = hadError /\ astray' = astray
    BY DEF NoJump
  <2>2. QED
    BY <1>1, <2>1 DEF Flags
<1>3. Error => Flags /\ hadError'
  BY <1>1 DEF Error, Flags
<1>4. PatchJump => Flags
  <2> SUFFICES ASSUME PatchJump PROVE Flags
    OBVIOUS
  <2>1. PICK far \in BOOLEAN : astray' = (astray \/ far) /\ hadError' = (hadError \/ far)
    BY DEF PatchJump
  <2>2. CASE far = TRUE
    BY <1>1, <2>1, <2>2 DEF Flags
  <2>3. CASE far = FALSE
    BY <1>1, <2>1, <2>3 DEF Flags
  <2>4. QED
    BY <2>2, <2>3
<1>5. EmitLoop => Flags
  <2> SUFFICES ASSUME EmitLoop PROVE Flags
    OBVIOUS
  <2>1. PICK far \in BOOLEAN : astray' = (astray \/ far) /\ hadError' = (hadError \/ far)
    BY DEF EmitLoop
  <2>2. CASE far = TRUE
    BY <1>1, <2>1, <2>2 DEF Flags
  <2>3. CASE far = FALSE
    BY <1>1, <2>1, <2>3 DEF Flags
  <2>4. QED
    BY <2>2, <2>3
<1>6. PatchDefault => Flags
  <2> SUFFICES ASSUME PatchDefault PROVE Flags
    OBVIOUS
  <2>1. PICK far \in BOOLEAN : /\ far => "long_switch" \in Behaviours
                               /\ astray' = (astray \/ far) /\ hadError' = hadError
    BY DEF PatchDefault
  <2>2. CASE far = TRUE
    BY <1>1, <2>1, <2>2 DEF Flags, NoLongSwitch
  <2>3. CASE far = FALSE
    BY <1>1, <2>1, <2>3 DEF Flags
  <2>4. QED
    BY <2>2, <2>3
<1>7. QED
  BY <1>2, <1>3, <1>4, <1>5, <1>6

LEMMA CurrentFacts ==
  ASSUME Compiles
  PROVE  /\ Level \in Nat \ {0} /\ DOMAIN functions = 1 .. Level /\ Level \in DOMAIN functions
         /\ Current = functions[Level] /\ Current \in Frame
         /\ FrameOK(Current, Base(Level), NoCaseDeclarations)
         /\ functions \in Seq(Frame) /\ result = "none"
         /\ vars \in Seq(Variable) /\ checkDepth \in Nat
         /\ Current.open = <<>> => Top.kind = "none"
         /\ Current.open # <<>> => Top = Last(Current.open)
<1>1. functions \in Seq(Frame) /\ functions # <<>> /\ hadError = FALSE
  BY DEF Compiles, CInv, Typed
<1>2. Len(functions) \in Nat \ {0} /\ DOMAIN functions = 1 .. Len(functions)
  BY <1>1, Elements
<1>3. Current = functions[Level] /\ Current \in Frame
  BY <1>1, FrontExtends DEF Current, Level
<1>4. Level \in DOMAIN functions
  BY <1>2 DEF Level
<1>5. FrameOK(functions[Level], Base(Level), NoCaseDeclarations /\ ~hadError)
  BY <1>4 DEF Compiles, CInv, FramesOK
<1>6. (NoCaseDeclarations /\ ~hadError) = NoCaseDeclarations
  BY <1>1 DEF NoCaseDeclarations
<1>7. FrameOK(Current, Base(Level), NoCaseDeclarations)
  BY <1>3, <1>5, <1>6
<1>8. result = "none" /\ vars \in Seq(Variable) /\ checkDepth \in Nat
  BY DEF Compiles, CInv, Typed, JumpsOK
<1>9. /\ Current.open = <<>> => Top.kind = "none"
      /\ Current.open # <<>> => Top = Last(Current.open)
  BY DEF Top, Open
<1>10. QED
  BY <1>1, <1>2, <1>3, <1>4, <1>7, <1>8, <1>9 DEF Level

LEMMA SoundFacts ==
  ASSUME NEW f \in Frame, NEW base \in Nat, NEW s, FrameOK(f, base, s)
  PROVE  /\ LocalsOK(f.locals, f.scopeDepth) /\ DiscsOK(f)
         /\ f.open = <<>> => f.scopeDepth = base
         /\ f.open # <<>> =>
              /\ Proper(Last(f.open)) /\ Last(f.open) \in Construct
              /\ f.scopeDepth >= base + Deeper(Last(f.open))
<1>1. PICK sc : Sound(f, base, sc)
  BY DEF FrameOK
<1>2. LocalsOK(f.locals, f.scopeDepth) /\ DiscsOK(f)
  BY <1>1 DEF Sound
<1>3. ASSUME f.open = <<>> PROVE f.scopeDepth = base
  <2>1. Len(f.open) = 0
    BY <1>3
  <2>2. QED
    BY <1>1, <2>1 DEF Sound, Nested
<1>4. ASSUME f.open # <<>>
      PROVE  /\ Proper(Last(f.open)) /\ Last(f.open) \in Construct
             /\ f.scopeDepth >= base + Deeper(Last(f.open))
  <2> DEFINE n == Len(Front(f.open))
  <2>1. /\ n \in Nat /\ Nested(Front(f.open), base, sc) /\ sc[n] \in Nat
        /\ sc[n] + Deeper(Last(f.open)) = f.scopeDepth
        /\ Last(f.open) \in Construct /\ Proper(Last(f.open))
    BY <1>1, <1>4, FrontFrame
  <2>2. sc[0] = base /\ sc[0] <= sc[n]
    <3>1. 0 \in 0 .. n /\ n \in 0 .. n /\ 0 <= n
      BY <2>1
    <3>2. QED
      BY <2>1, <3>1 DEF Nested
  <2>3. Deeper(Last(f.open)) \in {0, 1}
    BY DEF Deeper
  <2>4. QED
    BY <2>1, <2>2, <2>3
<1>5. QED
  BY <1>2, <1>3, <1>4

(* The current function goes from Current to g.                            *)
LEMMA SetFrame ==
  ASSUME Compiles, NEW g \in Frame, Set(g), Flags, vars' \in Seq(Variable), checkDepth' \in Nat,
         FrameOK(g, Base(Level), NoCaseDeclarations /\ ~hadError'),
         \A off \in Nat :
            ScopeOK(Current, vars, checkDepth, Level, off, NoLocalFunctions)
            => ScopeOK(g, vars', checkDepth', Level, off, NoLocalFunctions /\ ~hadError')
  PROVE  CInv'
<1>1. /\ Level \in Nat \ {0} /\ DOMAIN functions = 1 .. Level /\ Level \in DOMAIN functions
      /\ Current = functions[Level] /\ functions \in Seq(Frame) /\ result = "none"
  BY CurrentFacts
<1>2. functions' = [functions EXCEPT ![Level] = g] /\ result' = result
  BY DEF Set
<1>3. /\ functions' \in Seq(Frame) /\ Len(functions') = Level /\ DOMAIN functions' = 1 .. Level
      /\ functions'[Level] = g
      /\ \A l \in 1 .. Level : l # Level => functions'[l] = functions[l]
  BY <1>1, <1>2, Replaced DEF Level
<1>4. Typed'
  BY <1>1, <1>2, <1>3 DEF Flags, Typed
<1>5. FramesOK'
  <2> SUFFICES ASSUME NEW l \in 1 .. Level
               PROVE  /\ FrameOK(functions'[l], Base(l), NoCaseDeclarations /\ ~hadError')
                      /\ l < Level => ~InExpression(functions'[l])
    BY <1>3 DEF FramesOK, Level, NoCaseDeclarations
  <2>1. CASE l = Level
    BY <1>1, <1>3, <2>1
  <2>2. CASE l # Level
    <3>1. functions'[l] = functions[l] /\ l \in DOMAIN functions
      BY <1>1, <1>3, <2>2
    <3>2. /\ FrameOK(functions[l], Base(l), NoCaseDeclarations /\ ~hadError)
          /\ l < Level => ~InExpression(functions[l])
      BY <3>1 DEF Compiles, CInv, FramesOK
    <3>3. FrameOK(functions[l], Base(l), NoCaseDeclarations /\ ~hadError')
      BY <3>2 DEF FrameOK, Compiles
    <3>4. QED
      BY <3>1, <3>2, <3>3
  <2>3. QED
    BY <2>1, <2>2
<1>6. ScopesOK'
  <2>1. NamesOK(NoLocalFunctions)
    <3>1. (NoLocalFunctions /\ ~hadError) = NoLocalFunctions
      BY DEF Compiles, CInv, Typed, NoLocalFunctions
    <3>2. QED
      BY <3>1 DEF Compiles, CInv, ScopesOK
  <2>2. PICK off : /\ Offsets(functions, off)
                   /\ ScopeOK(functions[Level], vars, checkDepth, Level, off[Level], NoLocalFunctions)
                   /\ NoLocalFunctions =>
                        \A l \in DOMAIN functions : l < Level => Unnamed(functions[l].locals)
    BY <2>1 DEF NamesOK
  <2>3. off[Level] \in Nat
    BY <1>1, <2>2 DEF Offsets
  <2>4. ScopeOK(g, vars', checkDepth', Level, off[Level], NoLocalFunctions /\ ~hadError')
    BY <1>1, <2>2, <2>3
  <2>5. Offsets(functions', off)
    <3>1. \A l \in 1 .. Level : l < Level => functions'[l] = functions[l]
      BY <1>1, <1>3
    <3>2. Len(functions) = Level
      BY DEF Level
    <3>3. QED
      BY <1>1, <1>3, <2>2, <3>1, <3>2 DEF Offsets
  <2>6. NoLocalFunctions /\ ~hadError' =>
           \A l \in 1 .. Level : l < Level => Unnamed(functions'[l].locals)
    BY <1>1, <1>3, <2>2
  <2>7. NamesOK(NoLocalFunctions /\ ~hadError)'
    BY <1>3, <2>4, <2>5, <2>6 DEF NamesOK, Level, NoLocalFunctions
  <2>8. QED
    BY <2>7 DEF ScopesOK
<1>7. JumpsOK'
  BY <1>1, <1>2 DEF Flags, JumpsOK, NoLongSwitch
<1>8. QED
  BY <1>4, <1>5, <1>6, <1>7 DEF CInv
----------------------------------------------------------------------------
(* What the operators on frames return.                                    *)

LEMMA Statements ==
  ASSUME NEW f \in Frame
  PROVE  /\ AfterStatement(f) \in Frame /\ AfterStatement(f).locals = f.locals
         /\ AfterStatement(f).scopeDepth = f.scopeDepth /\ AfterStatement(f).open = f.open
         /\ AfterStatement(f).depths = f.depths
         /\ AfterStatement(f).todo \in {"decl", "done"}
  BY DEF AfterStatement, Frame, Todo

LEMMA Enters ==
  ASSUME Current \in Frame, NEW c \in Construct, NEW todo \in Todo
  PROVE  LET g == Enter(c, todo)
         IN  /\ g \in Frame /\ g.locals = Current.locals /\ g.scopeDepth = Current.scopeDepth
             /\ g.open = Append(Current.open, c) /\ g.depths = Current.depths /\ g.todo = todo
             /\ g.open # <<>> /\ g.open[Len(g.open)] = c
<1>1. Current.open \in Seq(Construct)
  BY FrameFields
<1>2. /\ Append(Current.open, c) \in Seq(Construct) /\ Append(Current.open, c) # <<>>
      /\ Extends(Current.open, Append(Current.open, c), c)
  BY <1>1, AppendExtends
<1>3. Append(Current.open, c)[Len(Append(Current.open, c))] = c
  BY <1>2 DEF Extends
<1>4. QED
  BY <1>2, <1>3 DEF Enter, Frame

LEMMA GoesOn ==
  ASSUME Current \in Frame, Current.open # <<>>, NEW c \in Construct,
         NEW depths \in SUBSET Int, NEW todo \in Todo
  PROVE  LET g == GoOn(c, depths, todo)
         IN  /\ g \in Frame /\ g.locals = Current.locals /\ g.scopeDepth = Current.scopeDepth
             /\ g.open = Append(Front(Current.open), c) /\ g.depths = depths /\ g.todo = todo
<1>1. Front(Current.open) \in Seq(Construct)
  BY FrameFields, FrontExtends
<1>2. Append(Front(Current.open), c) \in Seq(Construct)
  BY <1>1, AppendExtends
<1>3. QED
  BY <1>2 DEF GoOn, Frame

LEMMA Leaves ==
  ASSUME Current \in Frame, Current.open # <<>>, NEW depths \in SUBSET Int
  PROVE  LET g == Left(depths)
         IN  /\ g \in Frame /\ g.locals = Current.locals /\ g.scopeDepth = Current.scopeDepth
             /\ g.open = Front(Current.open) /\ g.depths = depths /\ g.todo = Current.todo
<1>1. Front(Current.open) \in Seq(Construct)
  BY FrameFields, FrontExtends
<1>2. QED
  BY <1>1 DEF Left, Frame

LEMMA Ends ==
  ASSUME Current \in Frame, Current.open # <<>>, NEW depths \in SUBSET Int
  PROVE  LET g == End(depths)
         IN  /\ g \in Frame /\ g.locals = Current.locals /\ g.scopeDepth = Current.scopeDepth
             /\ g.open = Front(Current.open) /\ g.depths = depths /\ g.todo \in {"decl", "done"}
  BY Leaves, Statements DEF End

LEMMA Scopes ==
  ASSUME NEW f \in Frame
  PROVE  LET g == BeginScope(f)
         IN  /\ g \in Frame /\ g.locals = f.locals /\ g.scopeDepth = f.scopeDepth + 1
             /\ g.open = f.open /\ g.depths = f.depths /\ g.todo = f.todo
  BY DEF BeginScope, Frame

LEMMA ScopesEnd ==
  ASSUME NEW f \in Frame, f.scopeDepth > 0
  PROVE  LET g == EndScope(f)
             k == Kept(f.locals, f.scopeDepth)
         IN  /\ g \in Frame /\ g.locals = SubSeq(f.locals, 1, k)
             /\ g.scopeDepth = f.scopeDepth - 1 /\ g.open = f.open
             /\ g.depths = Popped(f.depths, Len(f.locals) - k) /\ g.todo = f.todo
<1> DEFINE k == Kept(f.locals, f.scopeDepth)
           list == SubSeq(f.locals, 1, k)
           depths == Popped(f.depths, Len(f.locals) - k)
<1>1. f.locals \in Seq(Local) /\ f.scopeDepth \in Nat /\ f.depths \in SUBSET Int
  BY FrameFields
<1>2. Depths(f.locals) /\ Len(f.locals) \in Nat
  BY <1>1, LocalFields
<1>3. k \in 0 .. Len(f.locals)
  BY <1>1, <1>2, KeptIs
<1> HIDE DEF k
<1>4. list \in Seq(Local)
  BY <1>1, <1>3, Prefix
<1>5. Len(f.locals) - k \in Int
  BY <1>2, <1>3
<1>6. depths \in SUBSET Int
  BY <1>1, <1>5, Shift
<1>7. f.scopeDepth - 1 \in Nat
  BY <1>1
<1>8. EndScope(f) = [f EXCEPT !.scopeDepth = f.scopeDepth - 1, !.locals = list, !.depths = depths]
  BY DEF EndScope, k
<1> HIDE DEF list, depths
<1>9. /\ EndScope(f) \in Frame /\ EndScope(f).locals = list /\ EndScope(f).depths = depths
      /\ EndScope(f).scopeDepth = f.scopeDepth - 1 /\ EndScope(f).open = f.open
      /\ EndScope(f).todo = f.todo
  BY <1>4, <1>6, <1>7, <1>8 DEF Frame
<1>10. QED
  BY <1>9 DEF list, depths, k
----------------------------------------------------------------------------
(* Steps by their shape.                                                   *)

LEMMA ScopeSame ==
  ASSUME SameScope, NEW f, NEW g, g.locals = f.locals, g.scopeDepth = f.scopeDepth,
         Pending(g) = Pending(f), NoLocalFunctions /\ g.todo = "method" => vars = <<>>
  PROVE  \A off \in Nat : ScopeOK(f, vars, checkDepth, Level, off, NoLocalFunctions)
            => ScopeOK(g, vars', checkDepth', Level, off, NoLocalFunctions /\ ~hadError')
<1>1. vars' = vars /\ checkDepth' = checkDepth
  BY DEF SameScope
<1>2. QED
  BY <1>1 DEF ScopeOK

(* A statement begins that is no scope.                                    *)
LEMMA EnterStatement ==
  ASSUME Compiles, ~InExpression(Current), NEW c \in Construct, ~IsScope(c), Proper(c),
         Temporaries(c) = 0, NEW todo \in {"expr", "stmt", "method"},
         Set(Enter(c, todo)), SameScope, Flags,
         NoLocalFunctions /\ todo = "method" => vars = <<>>,
         NoCaseDeclarations /\ ~hadError' /\ Heights \subseteq {Len(Current.locals)} =>
            Placed(c, Len(Current.locals), 0),
         NoCaseDeclarations /\ c.kind = "var" /\ Stands(Current, 0) =>
            Current.open = <<>> \/ Declares(Current.open[Len(Current.open)])
  PROVE  CInv'
<1> DEFINE f == Current
           g == Enter(c, todo)
<1>1. /\ f \in Frame /\ FrameOK(f, Base(Level), NoCaseDeclarations)
      /\ vars \in Seq(Variable) /\ checkDepth \in Nat
  BY CurrentFacts
<1>2. todo \in Todo
  BY DEF Todo
<1>3. /\ g \in Frame /\ g.locals = f.locals /\ g.scopeDepth = f.scopeDepth
      /\ g.open = Append(f.open, c) /\ g.depths = f.depths /\ g.todo = todo
  BY <1>1, <1>2, Enters
<1>4. f.locals \in Seq(Local) /\ f.scopeDepth \in Nat /\ f.open \in Seq(Construct)
  BY <1>1, FrameFields
<1>5. DiscsOK(f)
  BY <1>1, SoundFacts DEF Base
<1>6. Quiet(f)
  BY <1>1, <1>5, QuietIf
<1>7. ~IsDisc(c)
  BY DEF IsScope, IsDisc
<1>8. Quiet(g)
  BY <1>3, <1>4, <1>6, <1>7, QuietAppend DEF Quiet
<1>9. DiscsOK(g) /\ Pending(g) = Pending(f)
  BY <1>6, <1>8, QuietMeans
<1>10. Len(f.locals) \in Nat
  BY <1>4, LocalFields
<1>11. Deeper(c) = 0
  BY DEF Deeper
<1>12. MaxBreaks \in Nat
  BY CompilerAssumption
<1>13. ASSUME NoCaseDeclarations /\ ~hadError', NEW temps \in Nat, Stands(f, temps)
       PROVE  /\ Placed(c, Len(f.locals), temps)
              /\ c.kind = "var" => f.open = <<>> \/ Declares(f.open[Len(f.open)])
              /\ Stands(g, temps + Temporaries(c))
  <2>1. temps = 0
    BY <1>13 DEF Stands
  <2>2. f.depths \subseteq {Len(f.locals)}
    <3>1. f.depths \subseteq {Len(f.locals) + temps + ValueHeight(f)}
      BY <1>13 DEF Stands
    <3>2. ValueHeight(f) = 0
      BY DEF ValueHeight, InExpression
    <3>3. QED
      BY <1>10, <2>1, <3>1, <3>2
  <2>3. Placed(c, Len(f.locals), temps)
    BY <1>13, <2>1, <2>2 DEF Heights
  <2>4. ValueHeight(g) = 0 /\ g.todo # "init"
    BY <1>3 DEF ValueHeight
  <2>5. Stands(g, 0)
    BY <1>3, <1>10, <2>2, <2>4 DEF Stands
  <2>6. QED
    BY <1>13, <2>1, <2>3, <2>5
<1> HIDE DEF g
<1>14. FrameOK(g, Base(Level), NoCaseDeclarations /\ ~hadError')
  <2>1. g.scopeDepth = f.scopeDepth + Deeper(c) /\ Proper(c)
    BY <1>3, <1>4, <1>11, <1>12
  <2>2. QED
    BY <1>1, <1>3, <1>9, <1>13, <2>1, EnterFrame
<1>15. \A off \in Nat : ScopeOK(f, vars, checkDepth, Level, off, NoLocalFunctions)
          => ScopeOK(g, vars', checkDepth', Level, off, NoLocalFunctions /\ ~hadError')
  BY <1>3, <1>9, ScopeSame
<1>16. vars' \in Seq(Variable) /\ checkDepth' \in Nat
  BY <1>1 DEF SameScope
<1>17. QED
  BY <1>3, <1>14, <1>15, <1>16, SetFrame DEF g

(* The constructs of expressions.                                          *)
LEMMA EnterExpression ==
  ASSUME Compiles, Current.todo = "expr", NEW c \in Construct,
         c.kind \in {"operands", "logical"}, Proper(c), Temporaries(c) = 0,
         Set(Enter(c, "expr")), SameScope, Flags,
         NoCaseDeclarations /\ ~hadError' =>
            \A temps \in Nat : Placed(c, Len(Current.locals), temps)
  PROVE  CInv'
<1> DEFINE f == Current
           g == Enter(c, "expr")
<1>1. /\ f \in Frame /\ FrameOK(f, Base(Level), NoCaseDeclarations)
      /\ vars \in Seq(Variable) /\ checkDepth \in Nat
  BY CurrentFacts
<1>2. "expr" \in Todo
  BY DEF Todo
<1>3. /\ g \in Frame /\ g.locals = f.locals /\ g.scopeDepth = f.scopeDepth
      /\ g.open = Append(f.open, c) /\ g.depths = f.depths /\ g.todo = "expr"
  BY <1>1, <1>2, Enters
<1>4. f.locals \in Seq(Local) /\ f.scopeDepth \in Nat /\ f.open \in Seq(Construct)
  BY <1>1, FrameFields
<1>5. DiscsOK(f)
  BY <1>1, SoundFacts DEF Base
<1>6. InExpression(g)
  BY <1>3 DEF InExpression
<1>7. DiscsOK(g) /\ Pending(g) = Pending(f)
  BY <1>1, <1>3, <1>5, <1>6, DiscsEnter
<1>8. Deeper(c) = 0
  BY DEF Deeper, IsScope
<1>9. MaxBreaks \in Nat
  BY CompilerAssumption
<1>10. ASSUME NoCaseDeclarations /\ ~hadError', NEW temps \in Nat, Stands(f, temps)
       PROVE  /\ Placed(c, Len(f.locals), temps)
              /\ c.kind = "var" => f.open = <<>> \/ Declares(f.open[Len(f.open)])
              /\ Stands(g, temps + Temporaries(c))
  <2>1. Stands(g, temps)
    BY <1>3, <1>6, <1>10 DEF Stands, ValueHeight
  <2>2. temps + Temporaries(c) = temps
    OBVIOUS
  <2>3. QED
    BY <1>10, <2>1, <2>2
<1> HIDE DEF g
<1>11. FrameOK(g, Base(Level), NoCaseDeclarations /\ ~hadError')
  <2>1. g.scopeDepth = f.scopeDepth + Deeper(c) /\ Proper(c)
    BY <1>3, <1>4, <1>8, <1>9
  <2>2. QED
    BY <1>1, <1>3, <1>7, <1>10, <2>1, EnterFrame
<1>12. \A off \in Nat : ScopeOK(f, vars, checkDepth, Level, off, NoLocalFunctions)
          => ScopeOK(g, vars', checkDepth', Level, off, NoLocalFunctions /\ ~hadError')
  BY <1>3, <1>7, ScopeSame
<1>13. vars' \in Seq(Variable) /\ checkDepth' \in Nat
  BY <1>1 DEF SameScope
<1>14. QED
  BY <1>3, <1>11, <1>12, <1>13, SetFrame DEF g
----------------------------------------------------------------------------
(* What is known of the construct in progress, if it is no expression's.   *)
InPlace ==
    /\ Placed(Top, Len(Current.locals), 0)
    /\ Heights \subseteq {Len(Current.locals) + Temporaries(Top) + ValueHeight(Current)}
    /\ ~InExpression(Current) => Temporaries(Top) = 0

LEMMA StandsMeans ==
  ASSUME Compiles, Current.open # <<>>, Top.kind \notin {"operands", "logical"},
         NEW temps \in Nat, Placed(Top, Len(Current.locals), temps),
         Stands(Current, temps + Temporaries(Top))
  PROVE  temps = 0 /\ InPlace
<1>1. temps = 0
  BY DEF Placed
<1>2. Top \in Construct
  BY CurrentFacts, FrameFields, FrontExtends
<1>3. Temporaries(Top) \in Nat
  BY <1>2, TemporariesAre
<1>4. Stands(Current, Temporaries(Top))
  BY <1>1, <1>3
<1>5. QED
  BY <1>1, <1>4 DEF InPlace, Stands, Heights

(* A construct goes on that is no expression's.                            *)
LEMMA GoOnStatement ==
  ASSUME Compiles, Current.open # <<>>, Top.kind \notin {"operands", "logical", "var"},
         ~IsDisc(Top), NEW c \in Construct, c.kind = Top.kind, ~IsDisc(c),
         c.breakCount = Top.breakCount, NEW depths \in SUBSET Int,
         NEW todo \in {"decl", "stmt", "expr", "done"},
         Set(GoOn(c, depths, todo)), SameScope, Flags,
         NoCaseDeclarations /\ ~hadError' /\ InPlace =>
            /\ Placed(c, Len(Current.locals), 0)
            /\ depths \subseteq {Len(Current.locals) + Temporaries(c)}
            /\ todo # "expr" => Temporaries(c) = 0
  PROVE  CInv'
<1> DEFINE f == Current
           g == GoOn(c, depths, todo)
           rest == Front(f.open)
<1>1. /\ f \in Frame /\ FrameOK(f, Base(Level), NoCaseDeclarations) /\ Top = Last(f.open)
      /\ vars \in Seq(Variable) /\ checkDepth \in Nat
  BY CurrentFacts
<1>2. todo \in Todo /\ todo # "init" /\ todo # "method" /\ todo # "value"
  BY DEF Todo
<1>3. /\ g \in Frame /\ g.locals = f.locals /\ g.scopeDepth = f.scopeDepth
      /\ g.open = Append(rest, c) /\ g.depths = depths /\ g.todo = todo
  BY <1>1, <1>2, GoesOn
<1>4. /\ f.locals \in Seq(Local) /\ f.scopeDepth \in Nat /\ f.open \in Seq(Construct)
      /\ rest \in Seq(Construct)
  BY <1>1, FrameFields, FrontExtends
<1>5. /\ LocalsOK(f.locals, f.scopeDepth) /\ DiscsOK(f) /\ Proper(Top)
      /\ Top \in Construct
  BY <1>1, SoundFacts DEF Base
<1>6. Quiet(f)
  BY <1>1, <1>5, QuietIf
<1>7. Quiet(g)
  <2>1. \A i \in DOMAIN rest : ~IsDisc(rest[i])
    BY <1>4, <1>6, QuietFront DEF Quiet
  <2>2. QED
    BY <1>3, <1>4, <2>1, QuietAppend DEF Quiet
<1>8. DiscsOK(g) /\ Pending(g) = Pending(f)
  BY <1>6, <1>7, QuietMeans
<1>9. Len(f.locals) \in Nat
  BY <1>4, LocalFields
<1>10. Deeper(c) = Deeper(Last(f.open)) /\ c.kind # "var" /\ Proper(c)
  BY <1>1, <1>5 DEF Deeper, IsScope, Proper
<1>11. Temporaries(c) \in Nat
  BY TemporariesAre
<1>12. ASSUME NoCaseDeclarations /\ ~hadError', NEW temps \in Nat,
              Placed(Last(f.open), Len(f.locals), temps),
              Stands(f, temps + Temporaries(Last(f.open)))
       PROVE  Placed(c, Len(f.locals), temps) /\ Stands(g, temps + Temporaries(c))
  <2>1. temps = 0 /\ InPlace
    BY <1>1, <1>12, StandsMeans
  <2>2. /\ Placed(c, Len(f.locals), 0)
        /\ depths \subseteq {Len(f.locals) + Temporaries(c)}
        /\ todo # "expr" => Temporaries(c) = 0
    BY <1>12, <2>1
  <2>3. ValueHeight(g) = 0 /\ (~InExpression(g) => todo # "expr") /\ g.todo # "init"
    BY <1>2, <1>3 DEF ValueHeight, InExpression
  <2>4. Stands(g, Temporaries(c))
    BY <1>3, <1>9, <1>11, <2>2, <2>3 DEF Stands
  <2>5. temps + Temporaries(c) = Temporaries(c)
    BY <1>11, <2>1
  <2>6. QED
    BY <2>1, <2>2, <2>4, <2>5
<1> HIDE DEF g
<1>13. FrameOK(g, Base(Level), NoCaseDeclarations /\ ~hadError')
  BY <1>1, <1>3, <1>5, <1>8, <1>10, <1>12, GoOnFrame
<1>14. \A off \in Nat : ScopeOK(f, vars, checkDepth, Level, off, NoLocalFunctions)
          => ScopeOK(g, vars', checkDepth', Level, off, NoLocalFunctions /\ ~hadError')
  BY <1>2, <1>3, <1>8, ScopeSame
<1>15. vars' \in Seq(Variable) /\ checkDepth' \in Nat
  BY <1>1 DEF SameScope
<1>16. QED
  BY <1>3, <1>13, <1>14, <1>15, SetFrame DEF g

LEMMA SameBelowItself ==
  ASSUME NEW list, NEW depth
  PROVE  SameBelow(list, list, depth)
  BY DEF SameBelow

(* A statement ends that is no scope.                                      *)
LEMMA EndStatement ==
  ASSUME Compiles, Current.open # <<>>, Top.kind \notin {"operands", "logical"},
         ~IsScope(Top), NEW depths \in SUBSET Int, Set(End(depths)), SameScope, Flags,
         NoCaseDeclarations /\ ~hadError' /\ InPlace => depths \subseteq {Len(Current.locals)}
  PROVE  CInv'
<1> DEFINE f == Current
           g == End(depths)
<1>1. /\ f \in Frame /\ FrameOK(f, Base(Level), NoCaseDeclarations) /\ Top = Last(f.open)
      /\ vars \in Seq(Variable) /\ checkDepth \in Nat
  BY CurrentFacts
<1>2. /\ g \in Frame /\ g.locals = f.locals /\ g.scopeDepth = f.scopeDepth
      /\ g.open = Front(f.open) /\ g.depths = depths /\ g.todo \in {"decl", "done"}
  BY <1>1, Ends
<1>3. f.locals \in Seq(Local) /\ f.scopeDepth \in Nat /\ f.open \in Seq(Construct)
  BY <1>1, FrameFields
<1>4. LocalsOK(f.locals, f.scopeDepth) /\ DiscsOK(f) /\ Top \in Construct
  BY <1>1, SoundFacts DEF Base
<1>5. ~IsDisc(Top)
  BY DEF IsDisc, IsScope
<1>6. Quiet(f)
  BY <1>1, <1>4, <1>5, QuietIf
<1>7. Quiet(g)
  BY <1>2, <1>3, <1>6, QuietFront DEF Quiet
<1>8. DiscsOK(g) /\ Pending(g) = Pending(f)
  BY <1>6, <1>7, QuietMeans
<1>9. Len(f.locals) \in Nat
  BY <1>3, LocalFields
<1>10. g.scopeDepth + Deeper(Last(f.open)) = f.scopeDepth
  BY <1>1, <1>2, <1>3 DEF Deeper
<1>11. ASSUME NoCaseDeclarations /\ ~hadError', NEW temps \in Nat,
              Placed(Last(f.open), Len(f.locals), temps),
              Stands(f, temps + Temporaries(Last(f.open)))
       PROVE  Stands(g, temps)
  <2>1. temps = 0 /\ InPlace
    BY <1>1, <1>11, StandsMeans
  <2>2. depths \subseteq {Len(f.locals)}
    BY <1>11, <2>1
  <2>3. ValueHeight(g) = 0 /\ g.todo # "init"
    BY <1>2 DEF ValueHeight
  <2>4. Stands(g, 0)
    BY <1>2, <1>9, <2>2, <2>3 DEF Stands
  <2>5. QED
    BY <2>1, <2>4
<1> HIDE DEF g
<1>12. FrameOK(g, Base(Level), NoCaseDeclarations /\ ~hadError')
  BY <1>1, <1>2, <1>4, <1>8, <1>10, <1>11, SameBelowItself, EndFrame
<1>13. \A off \in Nat : ScopeOK(f, vars, checkDepth, Level, off, NoLocalFunctions)
          => ScopeOK(g, vars', checkDepth', Level, off, NoLocalFunctions /\ ~hadError')
  BY <1>2, <1>8, ScopeSame
<1>14. vars' \in Seq(Variable) /\ checkDepth' \in Nat
  BY <1>1 DEF SameScope
<1>15. QED
  BY <1>2, <1>12, <1>13, <1>14, SetFrame DEF g

LEMMA LocalsEnd ==
  ASSUME NEW list \in Seq(Local), NEW top \in Nat, top > 0, LocalsOK(list, top)
  PROVE  LET k == Kept(list, top)
         IN  /\ LocalsOK(SubSeq(list, 1, k), top - 1) /\ SameBelow(list, SubSeq(list, 1, k), top)
             /\ k \in 1 .. Len(list) /\ SubSeq(list, 1, k) \in Seq(Local) /\ Len(SubSeq(list, 1, k)) = k
<1> DEFINE k == Kept(list, top)
           new == SubSeq(list, 1, k)
<1>1. DOMAIN list = 1 .. Len(list) /\ Len(list) \in Nat /\ Depths(list)
  BY LocalFields
<1>2. /\ k \in 0 .. Len(list)
      /\ k > 0 => list[k].depth < top
      /\ \A i \in 1 .. Len(list) : list[i].depth < top => i <= k
  BY <1>1, KeptIs
<1>3. SameBelow(list, new, top)
  <2> SUFFICES ASSUME NEW d \in Nat, d < top PROVE Kept(new, d + 1) = Kept(list, d + 1)
    BY DEF SameBelow
  <2>1. d + 1 \in Nat /\ d + 1 <= top
    OBVIOUS
  <2>2. QED
    BY <1>1, <2>1, KeptCut
<1>4. new \in Seq(Local) /\ Len(new) = k /\ DOMAIN new = 1 .. k /\ \A i \in 1 .. k : new[i] = list[i]
  BY <1>2, Prefix
<1> HIDE DEF k, new
<1>5. Len(list) \in 1 .. MaxLocals /\ list[1].depth = 0 /\ MaxLocals \in Nat
  BY CompilerAssumption DEF LocalsOK
<1>6. k \in 1 .. Len(list)
  BY <1>1, <1>2, <1>5
<1>7. \A i \in 1 .. k : list[i].depth <= top - 1
  <2> SUFFICES ASSUME NEW i \in 1 .. k PROVE list[i].depth <= top - 1
    OBVIOUS
  <2>1. i \in DOMAIN list /\ k \in DOMAIN list /\ i <= k
    BY <1>1, <1>6
  <2>2. list[i].depth <= list[k].depth /\ list[i].depth \in Nat /\ list[k].depth \in Nat
    BY <1>1, <2>1 DEF LocalsOK, Depths
  <2>3. QED
    BY <1>2, <1>6, <2>2
<1>8. \A i \in 1 .. k : i \in DOMAIN list /\ (i > 1 => list[i].depth > 0)
  BY <1>1, <1>6 DEF LocalsOK
<1>9. \A i, j \in 1 .. k : i <= j => list[i].depth <= list[j].depth
  BY <1>8 DEF LocalsOK
<1>10. k \in 1 .. MaxLocals /\ 1 \in 1 .. k
  BY <1>1, <1>5, <1>6
<1>11. LocalsOK(new, top - 1)
  BY <1>4, <1>5, <1>7, <1>8, <1>9, <1>10 DEF LocalsOK
<1>12. QED
  BY <1>3, <1>4, <1>6, <1>11 DEF k, new

(* A scope ends.                                                           *)
LEMMA EndBlock ==
  ASSUME Compiles, Current.open # <<>>, IsScope(Top), ~IsDisc(Top), NEW depths \in SUBSET Int,
         Set(EndScope(End(depths))), EndCheckScope, Flags,
         NoCaseDeclarations /\ ~hadError' /\ InPlace => depths \subseteq {Len(Current.locals)}
  PROVE  CInv'
<1> DEFINE f == Current
           mid == End(depths)
           g == EndScope(mid)
           k == Kept(f.locals, f.scopeDepth)
<1>1. /\ f \in Frame /\ FrameOK(f, Base(Level), NoCaseDeclarations) /\ Top = Last(f.open)
      /\ vars \in Seq(Variable) /\ checkDepth \in Nat /\ Level \in Nat \ {0}
  BY CurrentFacts
<1>2. f.locals \in Seq(Local) /\ f.scopeDepth \in Nat /\ f.open \in Seq(Construct)
  BY <1>1, FrameFields
<1>3. /\ LocalsOK(f.locals, f.scopeDepth) /\ DiscsOK(f) /\ Top \in Construct
      /\ f.scopeDepth >= Base(Level) + Deeper(Top)
  BY <1>1, SoundFacts DEF Base
<1>4. f.scopeDepth > 0 /\ (Level # 1 => f.scopeDepth > 1)
  BY <1>2, <1>3 DEF Deeper, Base
<1>5. /\ mid \in Frame /\ mid.locals = f.locals /\ mid.scopeDepth = f.scopeDepth
      /\ mid.open = Front(f.open) /\ mid.depths = depths /\ mid.todo \in {"decl", "done"}
  BY <1>1, Ends
<1>6. /\ g \in Frame /\ g.locals = SubSeq(f.locals, 1, k)
      /\ g.scopeDepth = f.scopeDepth - 1 /\ g.open = Front(f.open)
      /\ g.depths = Popped(depths, Len(f.locals) - k) /\ g.todo \in {"decl", "done"}
  BY <1>4, <1>5, ScopesEnd
<1>7. /\ LocalsOK(g.locals, g.scopeDepth) /\ SameBelow(f.locals, g.locals, f.scopeDepth)
      /\ k \in 1 .. Len(f.locals) /\ Len(g.locals) = k
  BY <1>2, <1>3, <1>4, <1>6, LocalsEnd
<1>8. Top.kind \notin {"operands", "logical"}
  BY DEF IsScope
<1>9. Quiet(f)
  BY <1>1, <1>3, <1>8, QuietIf
<1>10. Quiet(g)
  BY <1>2, <1>6, <1>9, QuietFront DEF Quiet
<1>11. DiscsOK(g) /\ Pending(g) = 0 /\ Pending(f) = 0
  BY <1>9, <1>10, QuietMeans
<1>12. g.scopeDepth + Deeper(Last(f.open)) = f.scopeDepth /\ g.scopeDepth + 1 = f.scopeDepth
  BY <1>1, <1>2, <1>6 DEF Deeper
<1>13. Len(f.locals) \in Nat
  BY <1>2, LocalFields
<1> HIDE DEF mid, g, k
<1>14. ASSUME NoCaseDeclarations /\ ~hadError', NEW temps \in Nat,
              Placed(Last(f.open), Len(f.locals), temps),
              Stands(f, temps + Temporaries(Last(f.open)))
       PROVE  Stands(g, temps)
  <2>1. temps = 0 /\ InPlace
    BY <1>1, <1>8, <1>14, StandsMeans
  <2>2. depths \subseteq {Len(f.locals)}
    BY <1>14, <2>1
  <2>3. Len(f.locals) - k \in Int /\ Len(f.locals) \in Int /\ Len(f.locals) - (Len(f.locals) - k) = k
    BY <1>7, <1>13
  <2>4. g.depths \subseteq {k}
    <3> DEFINE n == Len(f.locals) - k
    <3>1. n \in Int
      BY <2>3
    <3> HIDE DEF n
    <3>2. Popped(depths, n) \subseteq {Len(f.locals) - n}
      BY <2>2, <2>3, <3>1, Shift
    <3>3. g.depths = Popped(depths, n) /\ Len(f.locals) - n = k
      BY <1>6, <2>3 DEF n
    <3>4. QED
      BY <3>2, <3>3
  <2>5. ValueHeight(g) = 0 /\ g.todo # "init"
    BY <1>6 DEF ValueHeight
  <2>6. Stands(g, 0)
    BY <1>7, <2>4, <2>5 DEF Stands
  <2>7. QED
    BY <2>1, <2>6
<1>15. FrameOK(g, Base(Level), NoCaseDeclarations /\ ~hadError')
  BY <1>1, <1>6, <1>7, <1>11, <1>12, <1>14, EndFrame
<1>16. checkDepth' = checkDepth - 1 /\ vars' = SubSeq(vars, 1, Kept(vars, checkDepth))
  BY DEF EndCheckScope
<1>17. vars' \in Seq(Variable)
  <2>1. Kept(vars, checkDepth) \in 0 .. Len(vars)
    BY <1>1, VarFields, KeptIs
  <2>2. QED
    BY <1>1, <1>16, <2>1, Prefix
<1>18. ASSUME NEW off \in Nat, ScopeOK(f, vars, checkDepth, Level, off, NoLocalFunctions)
       PROVE  /\ ScopeOK(g, vars', checkDepth', Level, off, NoLocalFunctions /\ ~hadError')
              /\ checkDepth = off + f.scopeDepth
  <2>1. checkDepth = off + f.scopeDepth
    BY <1>1, <1>11, <1>18 DEF ScopeOK
  <2>2. checkDepth' + Pending(g) = off + g.scopeDepth
    BY <1>2, <1>6, <1>11, <1>16, <2>1
  <2>3. ASSUME NoLocalFunctions PROVE Agree(g.locals, vars', Level, off)
    <3>1. Agree(f.locals, vars, Level, off)
      BY <1>18, <2>3 DEF ScopeOK
    <3>2. Agree(SubSeq(f.locals, 1, Kept(f.locals, f.scopeDepth)),
                SubSeq(vars, 1, Kept(vars, off + f.scopeDepth)), Level, off)
      BY <1>1, <1>2, <1>3, <1>4, <3>1, AgreeEnds
    <3>3. QED
      BY <1>6, <1>16, <2>1, <3>2 DEF k
  <2>4. g.todo # "method"
    BY <1>6
  <2>5. QED
    BY <2>1, <2>2, <2>3, <2>4 DEF ScopeOK
<1>19. checkDepth' \in Nat
  <2>1. PICK off : /\ Offsets(functions, off)
                   /\ ScopeOK(functions[Level], vars, checkDepth, Level, off[Level], NoLocalFunctions /\ ~hadError)
    BY DEF Compiles, CInv, ScopesOK, NamesOK
  <2>2. off[Level] \in Nat /\ Current = functions[Level]
    BY <1>1, <2>1, CurrentFacts DEF Offsets
  <2>3. checkDepth + Pending(f) = off[Level] + f.scopeDepth
    BY <2>1, <2>2 DEF ScopeOK
  <2>4. QED
    BY <1>1, <1>2, <1>4, <1>11, <1>16, <2>2, <2>3
<1>20. QED
  BY <1>6, <1>15, <1>17, <1>18, <1>19, SetFrame DEF g, mid
----------------------------------------------------------------------------
(* The function goes on where it is.                                       *)
LEMMA StayFrame ==
  ASSUME Compiles, NEW g \in Frame, g.open = Current.open, g.locals = Current.locals,
         g.scopeDepth = Current.scopeDepth, g.todo # "method",
         InExpression(g) <=> InExpression(Current),
         Set(g), SameScope, Flags,
         NoCaseDeclarations /\ ~hadError' =>
            \A temps \in Nat : Stands(Current, temps) => Stands(g, temps)
  PROVE  CInv'
<1> DEFINE f == Current
<1>1. /\ f \in Frame /\ FrameOK(f, Base(Level), NoCaseDeclarations)
      /\ vars \in Seq(Variable) /\ checkDepth \in Nat
  BY CurrentFacts
<1>2. DiscsOK(f)
  BY <1>1, SoundFacts DEF Base
<1>3. DiscsOK(g) /\ Pending(g) = Pending(f)
  BY <1>2 DEF DiscsOK, Pending, Quiet
<1>4. FrameOK(g, Base(Level), NoCaseDeclarations /\ ~hadError')
  BY <1>1, <1>3, SameFrame
<1>5. \A off \in Nat : ScopeOK(f, vars, checkDepth, Level, off, NoLocalFunctions)
          => ScopeOK(g, vars', checkDepth', Level, off, NoLocalFunctions /\ ~hadError')
  BY <1>3, ScopeSame
<1>6. vars' \in Seq(Variable) /\ checkDepth' \in Nat
  BY <1>1 DEF SameScope
<1>7. QED
  BY <1>4, <1>5, <1>6, SetFrame

(* An expression's construct goes on.                                      *)
LEMMA GoOnExpression ==
  ASSUME Compiles, Current.todo = "value", Current.open # <<>>,
         Top.kind \in {"operands", "logical"}, NEW c \in Construct, c.kind = Top.kind,
         c.breakCount = Top.breakCount, NEW depths \in SUBSET Int,
         Set(GoOn(c, depths, "expr")), SameScope, Flags,
         NoCaseDeclarations /\ ~hadError' =>
            \A temps \in Nat :
               /\ Placed(Top, Len(Current.locals), temps)
               /\ Heights \subseteq {Len(Current.locals) + (temps + Temporaries(Top)) + 1}
               => /\ Placed(c, Len(Current.locals), temps)
                  /\ depths \subseteq {Len(Current.locals) + (temps + Temporaries(c))}
  PROVE  CInv'
<1> DEFINE f == Current
           g == GoOn(c, depths, "expr")
<1>1. /\ f \in Frame /\ FrameOK(f, Base(Level), NoCaseDeclarations) /\ Top = Last(f.open)
      /\ vars \in Seq(Variable) /\ checkDepth \in Nat
  BY CurrentFacts
<1>2. "expr" \in Todo
  BY DEF Todo
<1>3. /\ g \in Frame /\ g.locals = f.locals /\ g.scopeDepth = f.scopeDepth
      /\ g.open = Append(Front(f.open), c) /\ g.depths = depths /\ g.todo = "expr"
  BY <1>1, <1>2, GoesOn
<1>4. f.locals \in Seq(Local) /\ f.scopeDepth \in Nat /\ f.open \in Seq(Construct)
  BY <1>1, FrameFields
<1>5. /\ LocalsOK(f.locals, f.scopeDepth) /\ DiscsOK(f) /\ Proper(Top)
      /\ Top \in Construct
  BY <1>1, SoundFacts DEF Base
<1>6. InExpression(g)
  BY <1>3 DEF InExpression
<1>7. DiscsOK(g) /\ Pending(g) = Pending(f)
  BY <1>1, <1>3, <1>5, <1>6, DiscsGoOn
<1>8. Deeper(c) = Deeper(Last(f.open)) /\ c.kind # "var" /\ Proper(c)
  BY <1>1, <1>5 DEF Deeper, IsScope, Proper
<1>9. Len(f.locals) \in Nat
  BY <1>4, LocalFields
<1>10. Temporaries(c) \in Nat /\ Temporaries(Top) \in Nat
  BY <1>5, TemporariesAre
<1>11. ASSUME NoCaseDeclarations /\ ~hadError', NEW temps \in Nat,
              Placed(Last(f.open), Len(f.locals), temps),
              Stands(f, temps + Temporaries(Last(f.open)))
       PROVE  Placed(c, Len(f.locals), temps) /\ Stands(g, temps + Temporaries(c))
  <2>1. Heights \subseteq {Len(f.locals) + (temps + Temporaries(Top)) + 1}
    BY <1>1, <1>11 DEF Stands, ValueHeight, Heights
  <2>2. Placed(c, Len(f.locals), temps) /\ depths \subseteq {Len(f.locals) + (temps + Temporaries(c))}
    BY <1>1, <1>11, <2>1
  <2>3. ValueHeight(g) = 0
    BY <1>3 DEF ValueHeight
  <2>4. temps + Temporaries(c) \in Nat
    BY <1>10
  <2>5. Len(f.locals) + (temps + Temporaries(c)) + 0 = Len(f.locals) + (temps + Temporaries(c))
    BY <1>9, <2>4
  <2>6. QED
    BY <1>3, <1>6, <2>2, <2>3, <2>5 DEF Stands
<1> HIDE DEF g
<1>12. FrameOK(g, Base(Level), NoCaseDeclarations /\ ~hadError')
  BY <1>1, <1>3, <1>5, <1>7, <1>8, <1>11, GoOnFrame
<1>13. \A off \in Nat : ScopeOK(f, vars, checkDepth, Level, off, NoLocalFunctions)
          => ScopeOK(g, vars', checkDepth', Level, off, NoLocalFunctions /\ ~hadError')
  BY <1>3, <1>7, ScopeSame
<1>14. vars' \in Seq(Variable) /\ checkDepth' \in Nat
  BY <1>1 DEF SameScope
<1>15. QED
  BY <1>3, <1>12, <1>13, <1>14, SetFrame DEF g

(* It ends with its value.                                                 *)
LEMMA EndExpression ==
  ASSUME Compiles, Current.todo = "value", Current.open # <<>>,
         Top.kind \in {"operands", "logical"}, NEW depths \in SUBSET Int, NEW g \in Frame,
         g.locals = Current.locals, g.scopeDepth = Current.scopeDepth,
         g.open = Front(Current.open), g.depths = depths, g.todo = "value",
         Set(g), SameScope, Flags,
         NoCaseDeclarations /\ ~hadError' =>
            \A temps \in Nat :
               /\ Placed(Top, Len(Current.locals), temps)
               /\ Heights \subseteq {Len(Current.locals) + (temps + Temporaries(Top)) + 1}
               => depths \subseteq {Len(Current.locals) + temps + 1}
  PROVE  CInv'
<1> DEFINE f == Current
<1>1. /\ f \in Frame /\ FrameOK(f, Base(Level), NoCaseDeclarations) /\ Top = Last(f.open)
      /\ vars \in Seq(Variable) /\ checkDepth \in Nat
  BY CurrentFacts
<1>4. f.locals \in Seq(Local) /\ f.scopeDepth \in Nat /\ f.open \in Seq(Construct)
  BY <1>1, FrameFields
<1>5. /\ LocalsOK(f.locals, f.scopeDepth) /\ DiscsOK(f)
  BY <1>1, SoundFacts DEF Base
<1>6. InExpression(g)
  BY DEF InExpression
<1>7. DiscsOK(g) /\ Pending(g) = Pending(f)
  BY <1>1, <1>5, <1>6, DiscsEnd
<1>8. g.scopeDepth + Deeper(Last(f.open)) = f.scopeDepth
  BY <1>1, <1>4 DEF Deeper, IsScope
<1>9. ASSUME NoCaseDeclarations /\ ~hadError', NEW temps \in Nat,
             Placed(Last(f.open), Len(f.locals), temps),
             Stands(f, temps + Temporaries(Last(f.open)))
      PROVE  Stands(g, temps)
  <2>1. Heights \subseteq {Len(f.locals) + (temps + Temporaries(Top)) + 1}
    BY <1>1, <1>9 DEF Stands, ValueHeight, Heights
  <2>2. depths \subseteq {Len(f.locals) + temps + 1}
    BY <1>1, <1>9, <2>1
  <2>3. QED
    BY <1>6, <2>2 DEF Stands, ValueHeight
<1>12. FrameOK(g, Base(Level), NoCaseDeclarations /\ ~hadError')
  BY <1>1, <1>5, <1>7, <1>8, <1>9, SameBelowItself, EndFrame
<1>13. \A off \in Nat : ScopeOK(f, vars, checkDepth, Level, off, NoLocalFunctions)
          => ScopeOK(g, vars', checkDepth', Level, off, NoLocalFunctions /\ ~hadError')
  BY <1>7, ScopeSame
<1>14. vars' \in Seq(Variable) /\ checkDepth' \in Nat
  BY <1>1 DEF SameScope
<1>15. QED
  BY <1>12, <1>13, <1>14, SetFrame
----------------------------------------------------------------------------
LEMMA FreshIsProper ==
  ASSUME NEW c, c.breakCount = 0, c.kind # "var" \/ c.name \in Names
  PROVE  Proper(c)
  BY CompilerAssumption DEF Proper

(* Expressions.                                                            *)

LEMMA Here ==
  ASSUME Compiles
  PROVE  /\ Current \in Frame /\ Heights \in SUBSET Int /\ Len(Current.locals) \in Nat
         /\ Len(Current.locals) >= 1
         /\ Top.kind # "none" => Current.open # <<>> /\ Top \in Construct
<1>1. Current \in Frame /\ FrameOK(Current, Base(Level), NoCaseDeclarations)
  BY CurrentFacts
<1>2. Heights \in SUBSET Int /\ Current.locals \in Seq(Local)
  BY <1>1, FrameFields DEF Heights
<1>3. Len(Current.locals) \in Nat
  BY <1>2, LocalFields
<1>6. LocalsOK(Current.locals, Current.scopeDepth)
  BY <1>1, SoundFacts DEF Base
<1>7. Len(Current.locals) >= 1
  BY <1>3, <1>6 DEF LocalsOK
<1>4. ASSUME Top.kind # "none" PROVE Current.open # <<>> /\ Top \in Construct
  <2>1. Current.open # <<>>
    BY <1>4, CurrentFacts
  <2>2. Top = Last(Current.open)
    BY <2>1, CurrentFacts
  <2>3. QED
    BY <1>1, <2>1, <2>2, FrameFields, FrontExtends
<1>5. QED
  BY <1>1, <1>2, <1>3, <1>4, <1>7

LEMMA LeafKeeps ==
  ASSUME Compiles, Leaf
  PROVE  CInv'
<1> DEFINE g == [Current EXCEPT !.depths = Pushed(Heights, 1), !.todo = "value"]
<1>1. Current \in Frame /\ Heights \in SUBSET Int /\ Len(Current.locals) \in Nat
  BY Here
<1>2. Current.todo = "expr" /\ Set(g) /\ (NoJump \/ Error) /\ SameScope
  BY DEF Leaf, Heights
<1>3. Flags
  BY <1>2, EmissionFlags
<1>4. Pushed(Heights, 1) \in SUBSET Int
  BY <1>1 DEF Pushed
<1>5. /\ g \in Frame /\ g.open = Current.open /\ g.locals = Current.locals
      /\ g.scopeDepth = Current.scopeDepth /\ g.todo = "value" /\ g.depths = Pushed(Heights, 1)
  BY <1>1, <1>4 DEF Frame, Todo
<1> HIDE DEF g
<1>6. InExpression(g) /\ InExpression(Current)
  BY <1>2, <1>5 DEF InExpression
<1>7. ASSUME NEW temps \in Nat, Stands(Current, temps) PROVE Stands(g, temps)
  <2>1. Heights \subseteq {Len(Current.locals) + temps + 0}
    BY <1>2, <1>7 DEF Stands, ValueHeight, Heights
  <2>2. Len(Current.locals) + temps + 0 \in Int
    BY <1>1
  <2>3. Pushed(Heights, 1) \subseteq {Len(Current.locals) + temps + 0 + 1}
    BY <1>1, <2>1, <2>2 DEF Pushed
  <2>4. Len(Current.locals) + temps + 0 + 1 = Len(Current.locals) + temps + 1
    BY <1>1
  <2>5. ValueHeight(g) = 1
    BY <1>5 DEF ValueHeight
  <2>6. QED
    BY <1>5, <1>6, <2>3, <2>4, <2>5 DEF Stands
<1>8. g.todo # "method"
  BY <1>5
<1>9. QED
  BY <1>2, <1>3, <1>5, <1>6, <1>7, <1>8, StayFrame

LEMMA OperatorKeeps ==
  ASSUME Compiles, Operator
  PROVE  CInv'
<1>1. PICK n \in 1 .. 3 :
         Emit(Enter([Open("operands", "") EXCEPT !.last = n, !.pops = n], "expr"))
  BY DEF Operator
<1> DEFINE c == [Open("operands", "") EXCEPT !.last = n, !.pops = n]
<1>2. Current.todo = "expr"
  BY DEF Operator, ExprBegins
<1>3. Open("operands", "") \in Construct
  BY DEF Open, Construct, Kinds
<1>11. n \in Nat /\ 0 < n
  OBVIOUS
<1>4. /\ c \in Construct /\ c.kind = "operands" /\ c.stage = "" /\ c.count = 0 /\ c.pops = n /\ c.last = n
      /\ c.exit = {} /\ c.bodies = {} /\ c.breaks = {} /\ c.breakCount = 0 /\ c.arrivals = {}
  BY <1>3, <1>11 DEF Open, Construct
<1>5. Set(Enter(c, "expr")) /\ NoJump /\ SameScope
  BY <1>1 DEF Emit
<1>6. Flags
  BY <1>5, EmissionFlags
<1> HIDE DEF c
<1>7. \A at, h : Labels(c, at, h)
  BY <1>4 DEF Labels, HasBase, IsBare, Declares, IsDisc
<1>8. \A temps \in Nat : Placed(c, Len(Current.locals), temps)
  <2>1. c.count < c.last
    BY <1>4, <1>11
  <2>2. QED
    BY <1>4, <1>7, <2>1 DEF Placed
<1>9. Temporaries(c) = 0
  BY <1>4 DEF Temporaries
<1>20. Proper(c)
  BY <1>4, FreshIsProper
<1>10. QED
  BY <1>2, <1>4, <1>5, <1>6, <1>8, <1>9, <1>20, EnterExpression

LEMMA CountFits ==
  ASSUME NEW n \in Nat, n <= MaxArgs
  PROVE  CountByte(n) = n
<1>1. MaxArgs \in Nat
  BY CompilerAssumption
<1>2. QED
  BY <1>1 DEF CountByte

LEMMA CountIs ==
  ASSUME NEW n \in Nat
  PROVE  CountByte(n) \in Nat
<1>1. MaxArgs + 1 \in Nat \ {0}
  BY CompilerAssumption
<1>2. QED
  BY <1>1 DEF CountByte

LEMMA CountFlags ==
  ASSUME Compiles, NEW n \in Nat, CheckCount(n)
  PROVE  Flags /\ (~hadError' => CountByte(n) = n)
<1>1. MaxArgs \in Nat
  BY CompilerAssumption
<1>2. CASE n > MaxArgs
  BY <1>2, EmissionFlags DEF CheckCount
<1>3. CASE ~(n > MaxArgs)
  <2>1. n <= MaxArgs
    BY <1>1, <1>3
  <2>2. CountByte(n) = n
    BY <2>1, CountFits
  <2>3. QED
    BY <1>3, <2>2, EmissionFlags DEF CheckCount
<1>4. QED
  BY <1>2, <1>3

LEMMA CountedKeeps ==
  ASSUME Compiles, Counted
  PROVE  CInv'
<1>1. PICK n \in 0 .. MaxArgs + 1, callee \in 0 .. 1 :
          /\ n + callee > 0
          /\ CheckCount(n)
          /\ Set(Enter([Open("operands", "") EXCEPT
                          !.last = n + callee, !.pops = CountByte(n) + callee], "expr"))
  BY DEF Counted
<1> DEFINE c == [Open("operands", "") EXCEPT !.last = n + callee, !.pops = CountByte(n) + callee]
<1>2. Current.todo = "expr" /\ SameScope
  BY DEF Counted, ExprBegins
<1>3. Open("operands", "") \in Construct
  BY DEF Open, Construct, Kinds
<1>11. n \in Nat /\ callee \in Nat
  OBVIOUS
<1>12. CountByte(n) \in Nat
  BY <1>11, CountIs
<1>13. n + callee \in Nat /\ CountByte(n) + callee \in Nat
  BY <1>11, <1>12
<1>4. /\ c \in Construct /\ c.kind = "operands" /\ c.stage = "" /\ c.count = 0
      /\ c.pops = CountByte(n) + callee /\ c.last = n + callee
      /\ c.exit = {} /\ c.bodies = {} /\ c.breaks = {} /\ c.breakCount = 0 /\ c.arrivals = {}
  BY <1>3, <1>13 DEF Open, Construct
<1>5. Set(Enter(c, "expr"))
  BY <1>1
<1>6. Flags /\ (~hadError' => CountByte(n) = n)
  BY <1>1, <1>11, CountFlags
<1> HIDE DEF c
<1>7. \A at, h : Labels(c, at, h)
  BY <1>4 DEF Labels, HasBase, IsBare, Declares, IsDisc
<1>8. ASSUME ~hadError' PROVE \A temps \in Nat : Placed(c, Len(Current.locals), temps)
  <2>1. c.pops = c.last /\ c.count < c.last
    BY <1>1, <1>4, <1>6, <1>8
  <2>2. QED
    BY <1>4, <1>7, <2>1 DEF Placed
<1>9. Temporaries(c) = 0
  BY <1>4 DEF Temporaries
<1>20. Proper(c)
  BY <1>4, FreshIsProper
<1>10. QED
  BY <1>2, <1>4, <1>5, <1>6, <1>8, <1>9, <1>20, EnterExpression

LEMMA OperandKeeps ==
  ASSUME Compiles, Operand
  PROVE  CInv'
<1>1. /\ Current.todo = "value" /\ Top.kind = "operands" /\ Top.stage = ""
      /\ Emit(IF Top.count + 1 < Top.last
              THEN GoOn([Top EXCEPT !.count = @ + 1], Heights, "expr")
              ELSE [Left(Pushed(Popped(Heights, Top.pops), 1)) EXCEPT !.todo = "value"])
  BY DEF Operand, At
<1>2. /\ Current \in Frame /\ Heights \in SUBSET Int /\ Len(Current.locals) \in Nat
      /\ Current.open # <<>> /\ Top \in Construct
  BY <1>1, Here
<1>3. NoJump /\ SameScope
  BY <1>1 DEF Emit
<1>4. Flags
  BY <1>3, EmissionFlags
<1>5. Top.count \in Nat /\ Top.pops \in Nat /\ Top.last \in Nat
  BY <1>2, ConstructFields
<1>6. Temporaries(Top) = Top.count
  BY <1>1, <1>2, TemporariesAre
<1>7. CASE Top.count + 1 < Top.last
  <2> DEFINE c == [Top EXCEPT !.count = @ + 1]
  <2>1. Set(GoOn(c, Heights, "expr"))
    BY <1>1, <1>7 DEF Emit
  <2>6. Top.count + 1 \in Nat
    BY <1>5
  <2>2. /\ c \in Construct /\ c.kind = Top.kind /\ c.stage = Top.stage /\ c.breakCount = Top.breakCount
        /\ c.count = Top.count + 1 /\ c.pops = Top.pops /\ c.last = Top.last
        /\ c.exit = Top.exit /\ c.bodies = Top.bodies /\ c.breaks = Top.breaks
        /\ c.arrivals = Top.arrivals /\ c.base = Top.base
    BY <1>2, <2>6 DEF Construct
  <2> HIDE DEF c
  <2>3. Temporaries(c) = Top.count + 1
    BY <1>1, <2>2 DEF Temporaries
  <2>4. ASSUME NEW temps \in Nat, Placed(Top, Len(Current.locals), temps),
               Heights \subseteq {Len(Current.locals) + (temps + Temporaries(Top)) + 1}
        PROVE  /\ Placed(c, Len(Current.locals), temps)
               /\ Heights \subseteq {Len(Current.locals) + (temps + Temporaries(c))}
    <3>1. Labels(c, Len(Current.locals), Len(Current.locals) + temps)
      BY <2>2, <2>4 DEF Placed, Labels, HasBase, IsBare, Declares, IsDisc, ExitHeight
    <3>2. Placed(c, Len(Current.locals), temps)
      BY <1>1, <1>7, <2>2, <2>4, <3>1 DEF Placed
    <3>3. Len(Current.locals) + (temps + Top.count) + 1 = Len(Current.locals) + (temps + (Top.count + 1))
      BY <1>2, <1>5
    <3>4. QED
      BY <1>6, <2>3, <2>4, <3>2, <3>3
  <2>5. QED
    BY <1>1, <1>2, <1>3, <1>4, <2>1, <2>2, <2>4, GoOnExpression
<1>8. CASE ~(Top.count + 1 < Top.last)
  <2> DEFINE mid == Popped(Heights, Top.pops)
             depths == Pushed(mid, 1)
             g == [Left(depths) EXCEPT !.todo = "value"]
  <2>1. Set(g)
    BY <1>1, <1>8 DEF Emit
  <2>2. mid \in SUBSET Int
    BY <1>2, <1>5 DEF Popped
  <2>3. depths \in SUBSET Int
    BY <2>2 DEF Pushed
  <2>4. /\ Left(depths) \in Frame /\ Left(depths).locals = Current.locals
        /\ Left(depths).scopeDepth = Current.scopeDepth /\ Left(depths).open = Front(Current.open)
        /\ Left(depths).depths = depths
    BY <1>2, <2>3, Leaves
  <2>5. /\ g \in Frame /\ g.locals = Current.locals /\ g.scopeDepth = Current.scopeDepth
        /\ g.open = Front(Current.open) /\ g.depths = depths /\ g.todo = "value"
    BY <2>4 DEF Frame, Todo
  <2>6. ASSUME NEW temps \in Nat, Placed(Top, Len(Current.locals), temps),
               Heights \subseteq {Len(Current.locals) + (temps + Temporaries(Top)) + 1}
        PROVE  depths \subseteq {Len(Current.locals) + temps + 1}
    <3>1. Top.pops = Top.last /\ Top.count < Top.last
      BY <1>1, <2>6 DEF Placed
    <3>2. Top.count + 1 = Top.pops
      BY <1>5, <1>8, <3>1
    <3>3. Len(Current.locals) + (temps + Top.count) + 1 \in Int
      BY <1>2, <1>5
    <3> DEFINE h == Len(Current.locals) + (temps + Top.count) + 1
    <3>8. Heights \subseteq {h} /\ h \in Int
      BY <1>6, <2>6, <3>3
    <3> HIDE DEF h
    <3>9. mid \subseteq {h - Top.pops}
      BY <1>2, <1>5, <3>8 DEF Popped
    <3>5. h - Top.pops = Len(Current.locals) + temps
      BY <1>2, <1>5, <3>2 DEF h
    <3>6. mid \subseteq {Len(Current.locals) + temps} /\ Len(Current.locals) + temps \in Int
      BY <1>2, <3>9, <3>5
    <3> HIDE DEF mid
    <3>7. QED
      BY <2>2, <3>6 DEF Pushed
  <2> HIDE DEF g, depths
  <2>7. QED
    BY <1>1, <1>2, <1>3, <1>4, <2>1, <2>3, <2>5, <2>6, EndExpression
<1>9. QED
  BY <1>7, <1>8

LEMMA LogicalKeeps ==
  ASSUME Compiles, Logical
  PROVE  CInv'
<1> DEFINE c == Open("logical", "left")
<1>1. Current.todo = "expr" /\ Set(Enter(c, "expr")) /\ NoJump /\ SameScope
  BY DEF Logical, ExprBegins, Emit
<1>2. /\ c \in Construct /\ c.kind = "logical" /\ c.stage = "left" /\ c.exit = {} /\ c.bodies = {}
      /\ c.breaks = {} /\ c.breakCount = 0 /\ c.arrivals = {}
  BY DEF Open, Construct, Kinds
<1>3. Flags
  BY <1>1, EmissionFlags
<1> HIDE DEF c
<1>4. \A at, h : Labels(c, at, h)
  BY <1>2 DEF Labels, HasBase, IsBare, Declares, IsDisc
<1>5. \A temps \in Nat : Placed(c, Len(Current.locals), temps)
  BY <1>2, <1>4 DEF Placed
<1>6. Temporaries(c) = 0
  BY <1>2 DEF Temporaries
<1>20. Proper(c)
  BY <1>2, FreshIsProper
<1>7. QED
  BY <1>1, <1>2, <1>3, <1>5, <1>6, <1>20, EnterExpression

LEMMA LogicalLeftKeeps ==
  ASSUME Compiles, LogicalLeft
  PROVE  CInv'
<1> DEFINE c == [Top EXCEPT !.stage = "right", !.exit = Heights]
           depths == Popped(Heights, 1)
<1>1. /\ Current.todo = "value" /\ Top.kind = "logical" /\ Top.stage = "left"
      /\ Set(GoOn(c, depths, "expr")) /\ NoJump /\ SameScope
  BY DEF LogicalLeft, At, Emit
<1>2. /\ Current \in Frame /\ Heights \in SUBSET Int /\ Len(Current.locals) \in Nat
      /\ Current.open # <<>> /\ Top \in Construct
  BY <1>1, Here
<1>3. Flags
  BY <1>1, EmissionFlags
<1>4. /\ c \in Construct /\ c.kind = Top.kind /\ c.stage = "right" /\ c.breakCount = Top.breakCount
      /\ c.exit = Heights /\ c.bodies = Top.bodies /\ c.breaks = Top.breaks
      /\ c.arrivals = Top.arrivals /\ c.base = Top.base
  BY <1>2 DEF Construct
<1>5. depths \in SUBSET Int
  BY <1>2 DEF Popped
<1> HIDE DEF c
<1>6. Temporaries(c) = 0 /\ Temporaries(Top) = 0
  BY <1>1, <1>4 DEF Temporaries
<1>7. ASSUME NEW temps \in Nat, Placed(Top, Len(Current.locals), temps),
             Heights \subseteq {Len(Current.locals) + (temps + Temporaries(Top)) + 1}
      PROVE  /\ Placed(c, Len(Current.locals), temps)
             /\ depths \subseteq {Len(Current.locals) + (temps + Temporaries(c))}
  <2>1. /\ Len(Current.locals) + (temps + 0) + 1 = Len(Current.locals) + temps + 1
        /\ Len(Current.locals) + temps + 1 \in Int
        /\ Len(Current.locals) + temps + 1 - 1 = Len(Current.locals) + (temps + 0)
    BY <1>2
  <2>2. Heights \subseteq {Len(Current.locals) + temps + 1}
    BY <1>6, <1>7, <2>1
  <2>3. depths \subseteq {Len(Current.locals) + temps + 1 - 1}
    BY <1>2, <2>1, <2>2 DEF Popped
  <2>4. Labels(c, Len(Current.locals), Len(Current.locals) + temps)
    BY <1>1, <1>4, <1>7, <2>2 DEF Placed, Labels, HasBase, IsBare, Declares, IsDisc, ExitHeight
  <2>5. Placed(c, Len(Current.locals), temps)
    BY <1>1, <1>4, <2>4 DEF Placed
  <2>6. QED
    BY <1>6, <2>1, <2>3, <2>5
<1> HIDE DEF depths
<1>8. QED
  BY <1>1, <1>2, <1>3, <1>4, <1>5, <1>7, GoOnExpression

LEMMA LogicalRightKeeps ==
  ASSUME Compiles, LogicalRight
  PROVE  CInv'
<1> DEFINE depths == Heights \cup Top.exit
           g == Left(depths)
<1>1. /\ Current.todo = "value" /\ Top.kind = "logical" /\ Top.stage = "right"
      /\ Set(g) /\ PatchJump /\ SameScope
  BY DEF LogicalRight, At, EmitPatching
<1>2. /\ Current \in Frame /\ Heights \in SUBSET Int /\ Len(Current.locals) \in Nat
      /\ Current.open # <<>> /\ Top \in Construct
  BY <1>1, Here
<1>3. Flags
  BY <1>1, EmissionFlags
<1>4. depths \in SUBSET Int
  BY <1>2, ConstructFields
<1>5. /\ g \in Frame /\ g.locals = Current.locals /\ g.scopeDepth = Current.scopeDepth
      /\ g.open = Front(Current.open) /\ g.depths = depths /\ g.todo = "value"
  BY <1>1, <1>2, <1>4, Leaves
<1>6. Temporaries(Top) = 0
  BY <1>1 DEF Temporaries
<1>7. ASSUME NEW temps \in Nat, Placed(Top, Len(Current.locals), temps),
             Heights \subseteq {Len(Current.locals) + (temps + Temporaries(Top)) + 1}
      PROVE  depths \subseteq {Len(Current.locals) + temps + 1}
  <2>1. Len(Current.locals) + (temps + 0) + 1 = Len(Current.locals) + temps + 1
    BY <1>2
  <2>2. Heights \subseteq {Len(Current.locals) + temps + 1}
    BY <1>6, <1>7, <2>1
  <2>3. Top.exit \subseteq {Len(Current.locals) + temps + 1}
    BY <1>1, <1>7 DEF Placed, Labels, ExitHeight
  <2>4. QED
    BY <2>2, <2>3
<1> HIDE DEF g, depths
<1>8. QED
  BY <1>1, <1>2, <1>3, <1>4, <1>5, <1>7, EndExpression

LEMMA ExpressionKeeps ==
  ASSUME Compiles, Expression
  PROVE  CInv'
  BY LeafKeeps, OperatorKeeps, CountedKeeps, OperandKeeps, LogicalKeeps, LogicalLeftKeeps,
     LogicalRightKeeps
  DEF Expression
----------------------------------------------------------------------------
(* Statements without a body.                                              *)

LEMMA FreshPlaced ==
  ASSUME NEW c, NEW at, c.exit = {}, c.bodies = {}, c.breaks = {}, c.arrivals = {},
         ~HasBase(c), c.kind \in {"operands", "print"} => c.pops = c.last /\ c.count < c.last
  PROVE  Placed(c, at, 0)
  BY DEF Placed, Labels

(* A statement that an expression follows.                                 *)
LEMMA BeginStatement ==
  ASSUME Compiles, ~InExpression(Current), NEW kind \in {"expr", "return", "if", "class"},
         NEW stage \in {"", "cond"}, NEW todo \in {"expr", "stmt", "method"},
         NoLocalFunctions /\ todo = "method" => vars = <<>>,
         Emit(Enter(Open(kind, stage), todo))
  PROVE  CInv'
<1> DEFINE c == Open(kind, stage)
<1>1. Set(Enter(c, todo)) /\ NoJump /\ SameScope
  BY DEF Emit
<1>2. /\ c \in Construct /\ c.kind = kind /\ c.stage = stage /\ c.exit = {} /\ c.bodies = {}
      /\ c.breaks = {} /\ c.breakCount = 0 /\ c.arrivals = {}
  BY DEF Open, Construct, Kinds
<1> HIDE DEF c
<1>3. Flags
  BY <1>1, EmissionFlags
<1>4. ~IsScope(c) /\ ~HasBase(c) /\ Temporaries(c) = 0 /\ c.kind # "var"
  BY <1>2 DEF IsScope, HasBase, Temporaries
<1>5. Proper(c)
  BY <1>2, <1>4, FreshIsProper
<1>6. Placed(c, Len(Current.locals), 0)
  BY <1>2, <1>4, FreshPlaced
<1>7. QED
  BY <1>1, <1>2, <1>3, <1>4, <1>5, <1>6, EnterStatement

LEMMA ExprStmtKeeps ==
  ASSUME Compiles, ExprStmt
  PROVE  CInv'
<1>1. ~InExpression(Current) /\ Emit(Enter(Open("expr", ""), "expr"))
  BY DEF ExprStmt, Statement, InExpression
<1>2. QED
  BY <1>1, BeginStatement

LEMMA ReturnKeeps ==
  ASSUME Compiles, Return
  PROVE  CInv'
<1>1. ~InExpression(Current) /\ Emit(Enter(Open("return", ""), "expr"))
  BY DEF Return, Begins, Statement, InExpression
<1>2. QED
  BY <1>1, BeginStatement

LEMMA IfKeeps ==
  ASSUME Compiles, If
  PROVE  CInv'
<1>1. ~InExpression(Current) /\ Emit(Enter(Open("if", "cond"), "expr"))
  BY DEF If, Begins, Statement, InExpression
<1>2. QED
  BY <1>1, BeginStatement

LEMMA ClassKeeps ==
  ASSUME Compiles, Class
  PROVE  CInv'
<1>1. ~InExpression(Current) /\ Emit(Enter(Open("class", ""), "method"))
  BY DEF Class, InExpression
<1>2. NoLocalFunctions => vars = <<>>
  BY DEF Class, CanNest, NoLocalFunctions
<1>3. QED
  BY <1>1, <1>2, BeginStatement

(* Its value is popped.                                                    *)
LEMMA ValuePopped ==
  ASSUME Compiles, Current.todo = "value", Top.kind # "none", Temporaries(Top) = 0, InPlace
  PROVE  /\ Heights \subseteq {Len(Current.locals) + 1}
         /\ Popped(Heights, 1) \subseteq {Len(Current.locals)}
<1>1. Len(Current.locals) \in Nat
  BY Here
<1>2. Heights \subseteq {Len(Current.locals) + 0 + 1}
  BY DEF InPlace, ValueHeight
<1>3. Heights \subseteq {Len(Current.locals) + 1}
  BY <1>1, <1>2
<1>4. QED
  BY <1>1, <1>3 DEF Popped

LEMMA ExprStmtEndsKeeps ==
  ASSUME Compiles, ExprStmtEnds
  PROVE  CInv'
<1>1. /\ Current.todo = "value" /\ Top.kind = "expr" /\ Top.stage = ""
      /\ Set(End(Popped(Heights, 1))) /\ NoJump /\ SameScope
  BY DEF ExprStmtEnds, At, Emit
<1>2. Heights \in SUBSET Int /\ Current.open # <<>>
  BY <1>1, Here
<1>3. Flags
  BY <1>1, EmissionFlags
<1>4. Popped(Heights, 1) \in SUBSET Int
  BY <1>2 DEF Popped
<1>5. Temporaries(Top) = 0 /\ ~IsScope(Top)
  BY <1>1 DEF Temporaries, IsScope
<1>6. InPlace => Popped(Heights, 1) \subseteq {Len(Current.locals)}
  BY <1>1, <1>5, ValuePopped
<1>7. QED
  BY <1>1, <1>2, <1>3, <1>4, <1>5, <1>6, EndStatement

LEMMA ReturnEndsKeeps ==
  ASSUME Compiles, ReturnEnds
  PROVE  CInv'
<1>1. /\ Current.todo = "value" /\ Top.kind = "return" /\ Top.stage = ""
      /\ Set(End({})) /\ NoJump /\ SameScope
  BY DEF ReturnEnds, At, Emit
<1>2. Current.open # <<>>
  BY <1>1, Here
<1>3. Flags
  BY <1>1, EmissionFlags
<1>4. ~IsScope(Top)
  BY <1>1 DEF IsScope
<1>5. QED
  BY <1>1, <1>2, <1>3, <1>4, EndStatement

LEMMA ClassEndsKeeps ==
  ASSUME Compiles, ClassEnds
  PROVE  CInv'
<1>1. /\ Current.todo = "method" /\ Top.kind = "class" /\ Top.stage = ""
      /\ Set(End(Heights)) /\ NoJump /\ SameScope
  BY DEF ClassEnds, At, Emit
<1>2. Current.open # <<>> /\ Heights \in SUBSET Int /\ Len(Current.locals) \in Nat
  BY <1>1, Here
<1>3. Flags
  BY <1>1, EmissionFlags
<1>4. ~IsScope(Top) /\ Temporaries(Top) = 0 /\ ValueHeight(Current) = 0
  BY <1>1 DEF IsScope, Temporaries, ValueHeight
<1>5. InPlace => Heights \subseteq {Len(Current.locals)}
  BY <1>2, <1>4 DEF InPlace
<1>6. QED
  BY <1>1, <1>2, <1>3, <1>4, <1>5, EndStatement

LEMMA VarKeeps ==
  ASSUME Compiles, Var
  PROVE  CInv'
<1>1. PICK name \in Names : Emit(Enter([Open("var", "") EXCEPT !.name = name], "expr"))
  BY DEF Var
<1> DEFINE c == [Open("var", "") EXCEPT !.name = name]
<1>2. ~InExpression(Current)
  BY DEF Var, CanDeclare, InExpression
<1>3. Set(Enter(c, "expr")) /\ NoJump /\ SameScope
  BY <1>1 DEF Emit
<1>4. Open("var", "") \in Construct
  BY DEF Open, Construct, Kinds
<1>5. /\ c \in Construct /\ c.kind = "var" /\ c.stage = "" /\ c.exit = {} /\ c.bodies = {}
      /\ c.breaks = {} /\ c.breakCount = 0 /\ c.arrivals = {} /\ c.name \in Names
  BY <1>4 DEF Open, Construct
<1> HIDE DEF c
<1>6. Flags
  BY <1>3, EmissionFlags
<1>7. ~IsScope(c) /\ ~HasBase(c) /\ Temporaries(c) = 0
  BY <1>5 DEF IsScope, HasBase, Temporaries
<1>8. Proper(c)
  BY <1>5, FreshIsProper
<1>9. Placed(c, Len(Current.locals), 0)
  BY <1>5, <1>7, FreshPlaced
<1>10. ASSUME NoCaseDeclarations, Stands(Current, 0)
       PROVE  Current.open = <<>> \/ Declares(Current.open[Len(Current.open)])
  <2>1. CASE Current.todo = "init"
    BY <1>10, <2>1 DEF Stands
  <2>2. CASE Current.todo = "decl" /\ Top.kind \in {"none", "block"}
    <3>1. CASE Current.open # <<>>
      <4>1. Top = Last(Current.open) /\ Current \in Frame
        BY <3>1, CurrentFacts
      <4>2. Current.open \in Seq(Construct)
        BY <4>1, FrameFields
      <4>3. Top \in Construct /\ Top = Current.open[Len(Current.open)]
        BY <3>1, <4>1, <4>2, FrontExtends
      <4>4. Top.kind # "none"
        BY <4>3, ConstructFields DEF Kinds
      <4>5. QED
        BY <2>2, <4>3, <4>4 DEF Declares
    <3>2. QED
      BY <3>1
  <2>3. QED
    BY <1>10, <2>1, <2>2 DEF Var, CanDeclare, NoCaseDeclarations
<1>11. QED
  BY <1>2, <1>3, <1>5, <1>6, <1>7, <1>8, <1>9, <1>10, EnterStatement

LEMMA PrintStmtKeeps ==
  ASSUME Compiles, PrintStmt
  PROVE  CInv'
<1>1. PICK n \in 0 .. MaxArgs + 1 :
          /\ CheckCount(n)
          /\ Set(IF n = 0 THEN AfterStatement(Current)
                 ELSE Enter([Open("print", "") EXCEPT !.last = n, !.pops = CountByte(n)], "expr"))
  BY DEF PrintStmt
<1>2. ~InExpression(Current) /\ SameScope
  BY DEF PrintStmt, Begins, Statement, InExpression
<1>3. n \in Nat
  BY CompilerAssumption
<1>4. Flags /\ (~hadError' => CountByte(n) = n)
  BY <1>1, <1>3, CountFlags
<1>5. CASE n = 0
  <2> DEFINE g == AfterStatement(Current)
  <2>1. Current \in Frame
    BY CurrentFacts
  <2>2. /\ g \in Frame /\ g.open = Current.open /\ g.locals = Current.locals
        /\ g.scopeDepth = Current.scopeDepth /\ g.todo \in {"decl", "done"}
        /\ g.depths = Current.depths
    BY <2>1, Statements
  <2>3. Set(g)
    BY <1>1, <1>5
  <2> HIDE DEF g
  <2>4. ~InExpression(g) /\ ValueHeight(g) = 0 /\ ValueHeight(Current) = 0
    BY <1>2, <2>2 DEF InExpression, ValueHeight
  <2>5. \A temps \in Nat : Stands(Current, temps) => Stands(g, temps)
    BY <1>2, <2>2, <2>4 DEF Stands
  <2>6. g.todo # "method"
    BY <2>2
  <2>7. QED
    BY <1>2, <1>4, <2>2, <2>3, <2>4, <2>5, <2>6, StayFrame
<1>6. CASE n # 0
  <2> DEFINE c == [Open("print", "") EXCEPT !.last = n, !.pops = CountByte(n)]
  <2>1. Set(Enter(c, "expr"))
    BY <1>1, <1>6
  <2>2. Open("print", "") \in Construct /\ CountByte(n) \in Nat
    BY <1>3, CountIs DEF Open, Construct, Kinds
  <2>3. /\ c \in Construct /\ c.kind = "print" /\ c.stage = "" /\ c.count = 0
        /\ c.pops = CountByte(n) /\ c.last = n
        /\ c.exit = {} /\ c.bodies = {} /\ c.breaks = {} /\ c.breakCount = 0 /\ c.arrivals = {}
    BY <1>3, <2>2 DEF Open, Construct
  <2> HIDE DEF c
  <2>4. ~IsScope(c) /\ ~HasBase(c) /\ Temporaries(c) = 0 /\ c.kind # "var"
    BY <2>3 DEF IsScope, HasBase, Temporaries
  <2>5. Proper(c)
    BY <2>3, <2>4, FreshIsProper
  <2>6. ~hadError' => Placed(c, Len(Current.locals), 0)
    <3>3. 0 < n
      BY <1>3, <1>6
    <3>1. ~hadError' => c.pops = c.last /\ c.count < c.last
      BY <1>4, <2>3, <3>3
    <3>2. QED
      BY <2>3, <2>4, <3>1, FreshPlaced
  <2>7. QED
    BY <1>2, <1>4, <2>1, <2>3, <2>4, <2>5, <2>6, EnterStatement
<1>7. QED
  BY <1>5, <1>6

LEMMA PrintOperandKeeps ==
  ASSUME Compiles, PrintOperand
  PROVE  CInv'
<1>1. /\ Current.todo = "value" /\ Top.kind = "print" /\ Top.stage = ""
      /\ Emit(IF Top.count + 1 < Top.last
              THEN GoOn([Top EXCEPT !.count = @ + 1], Heights, "expr")
              ELSE End(Popped(Heights, Top.pops)))
  BY DEF PrintOperand, At
<1>2. /\ Current \in Frame /\ Heights \in SUBSET Int /\ Len(Current.locals) \in Nat
      /\ Current.open # <<>> /\ Top \in Construct
  BY <1>1, Here
<1>3. NoJump /\ SameScope
  BY <1>1 DEF Emit
<1>4. Flags
  BY <1>3, EmissionFlags
<1>5. Top.count \in Nat /\ Top.pops \in Nat /\ Top.last \in Nat /\ Top.count + 1 \in Nat
  <2>1. Top.count \in Nat /\ Top.pops \in Nat /\ Top.last \in Nat
    BY <1>2, ConstructFields
  <2>2. QED
    BY <2>1
<1>6. Temporaries(Top) = Top.count
  BY <1>1 DEF Temporaries
<1>7. ASSUME InPlace PROVE Heights \subseteq {Len(Current.locals) + (Top.count + 1)}
  <2>1. Heights \subseteq {Len(Current.locals) + Top.count + 1}
    BY <1>1, <1>6, <1>7 DEF InPlace, ValueHeight
  <2>2. Len(Current.locals) + Top.count + 1 = Len(Current.locals) + (Top.count + 1)
    BY <1>2, <1>5
  <2>3. QED
    BY <2>1, <2>2
<1>8. ~IsDisc(Top) /\ ~IsScope(Top)
  BY <1>1 DEF IsDisc, IsScope
<1>9. CASE Top.count + 1 < Top.last
  <2> DEFINE c == [Top EXCEPT !.count = @ + 1]
  <2>1. Set(GoOn(c, Heights, "expr"))
    BY <1>1, <1>9 DEF Emit
  <2>2. /\ c \in Construct /\ c.kind = Top.kind /\ c.stage = Top.stage /\ c.breakCount = Top.breakCount
        /\ c.count = Top.count + 1 /\ c.pops = Top.pops /\ c.last = Top.last
        /\ c.exit = Top.exit /\ c.bodies = Top.bodies /\ c.breaks = Top.breaks
        /\ c.arrivals = Top.arrivals /\ c.base = Top.base
    BY <1>2, <1>5 DEF Construct
  <2> HIDE DEF c
  <2>3. Temporaries(c) = Top.count + 1
    BY <1>1, <2>2 DEF Temporaries
  <2>4. ~IsDisc(c)
    BY <1>1, <2>2 DEF IsDisc
  <2>5. ASSUME InPlace PROVE Placed(c, Len(Current.locals), 0)
    <3>1. Placed(Top, Len(Current.locals), 0)
      BY <2>5 DEF InPlace
    <3>2. Labels(c, Len(Current.locals), Len(Current.locals) + 0)
      BY <2>2, <3>1 DEF Placed, Labels, HasBase, IsBare, Declares, IsDisc, ExitHeight
    <3>3. QED
      BY <1>1, <1>9, <2>2, <3>1, <3>2 DEF Placed
  <2>6. InPlace => Heights \subseteq {Len(Current.locals) + Temporaries(c)}
    BY <1>7, <2>3
  <2>7. Top.kind \notin {"operands", "logical", "var"}
    BY <1>1
  <2>8. QED
    BY <1>2, <1>3, <1>4, <1>8, <2>1, <2>2, <2>4, <2>5, <2>6, <2>7, GoOnStatement
<1>10. CASE ~(Top.count + 1 < Top.last)
  <2> DEFINE depths == Popped(Heights, Top.pops)
  <2>1. Set(End(depths))
    BY <1>1, <1>10 DEF Emit
  <2>2. depths \in SUBSET Int
    <3>1. Top.pops \in Int
      BY <1>5
    <3>2. QED
      BY <1>2, <3>1 DEF Popped
  <2>3. ASSUME InPlace PROVE depths \subseteq {Len(Current.locals)}
    <3>1. Top.pops = Top.last /\ Top.count < Top.last
      BY <1>1, <2>3 DEF InPlace, Placed
    <3>2. Top.count + 1 = Top.pops
      BY <1>5, <1>10, <3>1
    <3>3. Heights \subseteq {Len(Current.locals) + Top.pops}
      BY <1>7, <2>3, <3>2
    <3>4. QED
      BY <1>2, <1>5, <3>3 DEF Popped
  <2> HIDE DEF depths
  <2>4. Top.kind \notin {"operands", "logical"}
    BY <1>1
  <2>5. QED
    BY <1>2, <1>3, <1>4, <1>8, <2>1, <2>2, <2>3, <2>4, EndStatement
<1>11. QED
  BY <1>9, <1>10
----------------------------------------------------------------------------
(* Variables.                                                              *)

LEMMA LocalsAppend ==
  ASSUME NEW list \in Seq(Local), NEW top \in Nat \ {0}, LocalsOK(list, top),
         ~(Len(list) >= MaxLocals), NEW x \in Local, x.depth = top
  PROVE  /\ LocalsOK(Append(list, x), top) /\ SameBelow(list, Append(list, x), top)
         /\ Append(list, x) \in Seq(Local) /\ Len(Append(list, x)) = Len(list) + 1
<1> DEFINE new == Append(list, x)
           n == Len(list)
<1>1. DOMAIN list = 1 .. n /\ n \in Nat /\ Depths(list) /\ \A i \in 1 .. n : list[i].depth \in Nat
  BY LocalFields
<1>2. new \in Seq(Local) /\ Extends(list, new, x)
  BY AppendExtends
<1>3. Depths(new)
  BY <1>2, LocalFields
<1> HIDE DEF new, n
<1>4. /\ Len(new) = n + 1 /\ DOMAIN new = 1 .. n + 1 /\ new[n + 1] = x
      /\ \A i \in 1 .. n : new[i] = list[i]
  BY <1>2 DEF Extends, n
<1>5. /\ n \in 1 .. MaxLocals /\ list[1].depth = 0 /\ ~(n >= MaxLocals) /\ MaxLocals \in Nat
      /\ \A i \in 1 .. n : list[i].depth <= top /\ (i > 1 => list[i].depth > 0)
      /\ \A i, j \in 1 .. n : i <= j => list[i].depth <= list[j].depth
  BY <1>1, CompilerAssumption DEF LocalsOK, n
<1>6. SameBelow(list, new, top)
  <2> SUFFICES ASSUME NEW d \in Nat, d < top PROVE Kept(new, d + 1) = Kept(list, d + 1)
    BY DEF SameBelow
  <2>1. d + 1 \in Nat /\ d + 1 <= x.depth
    OBVIOUS
  <2>2. QED
    BY <1>1, <1>2, <1>3, <2>1, KeptAppend
<1>7. n + 1 \in 1 .. MaxLocals /\ new[1].depth = 0
  BY <1>4, <1>5
<1>8. \A i \in 1 .. n + 1 : i = n + 1 \/ i \in 1 .. n
  BY <1>1
<1>9. \A i \in 1 .. n + 1 : new[i].depth <= top /\ (i > 1 => new[i].depth > 0)
  BY <1>1, <1>4, <1>5, <1>8
<1>10. ASSUME NEW i \in 1 .. n + 1, NEW j \in 1 .. n + 1, i <= j PROVE new[i].depth <= new[j].depth
  <2>1. CASE j = n + 1
    BY <1>4, <1>9, <2>1
  <2>2. CASE j \in 1 .. n
    <3>1. i \in 1 .. n
      BY <1>1, <1>10, <2>2
    <3>2. QED
      BY <1>4, <1>5, <1>10, <2>2, <3>1
  <2>3. QED
    BY <1>8, <2>1, <2>2
<1>11. LocalsOK(new, top)
  BY <1>4, <1>7, <1>9, <1>10 DEF LocalsOK
<1>12. QED
  BY <1>2, <1>4, <1>6, <1>11 DEF new, n

(* The checker is as deep as the compiler is.                              *)
LEMMA OffsetIs ==
  ASSUME Compiles
  PROVE  \E off \in Nat : /\ Level = 1 => off = 0
                          /\ checkDepth + Pending(Current) = off + Current.scopeDepth
                          /\ ScopeOK(Current, vars, checkDepth, Level, off, NoLocalFunctions)
<1>1. PICK off : /\ Offsets(functions, off)
                 /\ ScopeOK(functions[Level], vars, checkDepth, Level, off[Level],
                            NoLocalFunctions /\ ~hadError)
  BY DEF Compiles, CInv, ScopesOK, NamesOK
<1>2. (NoLocalFunctions /\ ~hadError) = NoLocalFunctions
  BY DEF Compiles, CInv, Typed, NoLocalFunctions
<1>3. Current = functions[Level] /\ Level \in Nat
  BY CurrentFacts
<1>4. off[Level] \in Nat /\ (Level = 1 => off[Level] = 0)
  BY <1>1, <1>3 DEF Offsets
<1>5. ScopeOK(Current, vars, checkDepth, Level, off[Level], NoLocalFunctions)
  BY <1>1, <1>2, <1>3
<1>6. checkDepth + Pending(Current) = off[Level] + Current.scopeDepth
  BY <1>5 DEF ScopeOK
<1>7. QED
  BY <1>4, <1>5, <1>6

LEMMA VarEndsKeeps ==
  ASSUME Compiles, VarEnds
  PROVE  CInv'
<1> DEFINE f == Current
           n == Len(f.locals)
           y == [name |-> Top.name, depth |-> checkDepth, level |-> Level, slot |-> n + 1]
<1>1. /\ f.todo = "value" /\ Top.kind = "var" /\ Top.stage = ""
      /\ vars' = Declared(vars, Top.name, checkDepth, n + 1, Level) /\ checkDepth' = checkDepth
  BY DEF VarEnds, At
<1>2. /\ f \in Frame /\ Heights \in SUBSET Int /\ n \in Nat /\ f.open # <<>> /\ Top \in Construct
  BY <1>1, Here
<1>3. /\ FrameOK(f, Base(Level), NoCaseDeclarations) /\ Top = Last(f.open)
      /\ vars \in Seq(Variable) /\ checkDepth \in Nat /\ Level \in Nat \ {0}
  BY <1>2, CurrentFacts
<1>4. f.locals \in Seq(Local) /\ f.scopeDepth \in Nat /\ f.open \in Seq(Construct)
  BY <1>2, FrameFields
<1>5. /\ LocalsOK(f.locals, f.scopeDepth) /\ DiscsOK(f) /\ Proper(Top)
      /\ f.scopeDepth >= Base(Level) + Deeper(Top)
  BY <1>2, <1>3, SoundFacts DEF Base
<1>6. Top.name \in Names
  BY <1>1, <1>5 DEF Proper
<1>7. ~IsDisc(Top) /\ ~IsScope(Top) /\ Temporaries(Top) = 0
  BY <1>1 DEF IsDisc, IsScope, Temporaries
<1>8. Quiet(f)
  BY <1>1, <1>2, <1>3, <1>5, <1>7, QuietIf
<1>9. \A i \in DOMAIN Front(f.open) : ~IsDisc(Front(f.open)[i])
  BY <1>2, <1>4, <1>8, QuietFront DEF Quiet
<1>10. Pending(f) = 0
  BY <1>8, QuietMeans
<1>11. Deeper(Last(f.open)) = 0
  BY <1>3, <1>7 DEF Deeper
<1>12. y \in Variable
  BY <1>2, <1>3, <1>6 DEF Variable
<1>13. vars' = IF checkDepth = 0 THEN vars ELSE Append(vars, y)
  BY <1>1 DEF Declared
<1> HIDE DEF y, f
<1>14. vars' \in Seq(Variable) /\ checkDepth' \in Nat
  BY <1>1, <1>3, <1>12, <1>13, AppendExtends
<1>15. /\ End(Heights) \in Frame /\ End(Heights).locals = f.locals
       /\ End(Heights).scopeDepth = f.scopeDepth /\ End(Heights).open = Front(f.open)
       /\ End(Heights).depths = Heights /\ End(Heights).todo \in {"decl", "done"}
  BY <1>2, Ends DEF f
<1>16. CASE f.scopeDepth = 0
  <2>1. Set(End(Popped(Heights, 1))) /\ NoJump
    BY <1>16 DEF VarEnds, f
  <2>2. Flags
    BY <2>1, EmissionFlags
  <2>3. Base(Level) = 0 /\ Level = 1
    BY <1>5, <1>11, <1>16 DEF Base, Deeper
  <2>4. PICK off \in Nat : (Level = 1 => off = 0) /\ checkDepth + Pending(f) = off + f.scopeDepth
    BY OffsetIs DEF f
  <2>5. checkDepth = 0
    BY <1>3, <1>10, <1>16, <2>3, <2>4
  <2>6. SameScope
    BY <1>1, <1>13, <2>5 DEF SameScope
  <2>7. Popped(Heights, 1) \in SUBSET Int
    BY <1>2 DEF Popped
  <2>8. InPlace => Popped(Heights, 1) \subseteq {Len(Current.locals)}
    BY <1>1, <1>7, ValuePopped DEF f
  <2>9. Top.kind \notin {"operands", "logical"}
    BY <1>1
  <2>10. QED
    BY <1>2, <1>7, <2>1, <2>2, <2>6, <2>7, <2>8, <2>9, EndStatement DEF f
<1>17. CASE f.scopeDepth # 0 /\ Full(f)
  <2> DEFINE g == End(Heights)
  <2>1. Set(g) /\ Error
    BY <1>17 DEF VarEnds, f
  <2>2. Flags /\ hadError'
    BY <2>1, EmissionFlags
  <2> HIDE DEF g
  <2>3. Quiet(g)
    BY <1>9, <1>15 DEF Quiet, g
  <2>4. DiscsOK(g) /\ Pending(g) = 0
    BY <2>3, QuietMeans
  <2>5. /\ g \in Frame /\ g.open = Front(f.open) /\ g.locals = f.locals
        /\ g.scopeDepth + Deeper(Last(f.open)) = f.scopeDepth /\ g.scopeDepth = f.scopeDepth
    BY <1>4, <1>11, <1>15 DEF g
  <2>6. FrameOK(g, Base(Level), NoCaseDeclarations /\ ~hadError')
    BY <1>2, <1>3, <1>5, <2>2, <2>4, <2>5, SameBelowItself, EndFrame
  <2>7. \A off \in Nat : ScopeOK(f, vars, checkDepth, Level, off, NoLocalFunctions)
          => ScopeOK(g, vars', checkDepth', Level, off, NoLocalFunctions /\ ~hadError')
    BY <1>1, <1>10, <2>2, <2>4, <2>5 DEF ScopeOK
  <2>8. QED
    BY <1>14, <2>1, <2>2, <2>5, <2>6, <2>7, SetFrame DEF f
<1>18. CASE f.scopeDepth # 0 /\ ~Full(f)
  <2> DEFINE mid == End(Heights)
             x == [name |-> Top.name, depth |-> mid.scopeDepth]
             list == Append(f.locals, x)
             g == AddLocal(mid, Top.name)
  <2>1. Set(g) /\ NoJump
    BY <1>18 DEF VarEnds, f
  <2>2. Flags
    BY <2>1, EmissionFlags
  <2>3. x = [name |-> Top.name, depth |-> f.scopeDepth] /\ x \in Local /\ x.depth = f.scopeDepth
    BY <1>4, <1>6, <1>15 DEF Local
  <2>4. f.scopeDepth \in Nat \ {0} /\ ~(Len(f.locals) >= MaxLocals)
    BY <1>4, <1>18 DEF Full
  <2>5. g = [mid EXCEPT !.locals = Append(mid.locals, x)]
    BY DEF AddLocal
  <2> HIDE DEF x, g, mid
  <2>6. /\ LocalsOK(list, f.scopeDepth) /\ SameBelow(f.locals, list, f.scopeDepth)
        /\ list \in Seq(Local) /\ Len(list) = n + 1
    BY <1>4, <1>5, <2>3, <2>4, LocalsAppend
  <2> HIDE DEF list
  <2>7. /\ mid \in Frame /\ mid.locals = f.locals
        /\ mid.scopeDepth = f.scopeDepth /\ mid.open = Front(f.open)
        /\ mid.depths = Heights /\ mid.todo \in {"decl", "done"}
    BY <1>15 DEF mid
  <2>20. Append(mid.locals, x) = list
    BY <2>7 DEF list
  <2>8. /\ g \in Frame /\ g.locals = list /\ g.scopeDepth = f.scopeDepth
        /\ g.open = Front(f.open) /\ g.depths = Heights /\ g.todo \in {"decl", "done"}
    BY <2>5, <2>6, <2>7, <2>20 DEF Frame
  <2>9. Quiet(g)
    BY <1>9, <2>8 DEF Quiet
  <2>10. DiscsOK(g) /\ Pending(g) = 0
    BY <2>9, QuietMeans
  <2>11. ASSUME NoCaseDeclarations /\ ~hadError', NEW temps \in Nat,
                Placed(Last(f.open), Len(f.locals), temps),
                Stands(f, temps + Temporaries(Last(f.open)))
         PROVE  Stands(g, temps)
    <3>1. Top.kind \notin {"operands", "logical"}
      BY <1>1
    <3>2. temps = 0 /\ InPlace
      BY <1>2, <1>3, <2>11, <3>1, StandsMeans DEF f
    <3>3. Heights \subseteq {n + 1}
      BY <1>1, <1>7, <3>2, ValuePopped DEF f
    <3>4. ValueHeight(g) = 0 /\ g.todo # "init"
      BY <2>8 DEF ValueHeight
    <3>5. n + 1 + 0 + 0 = n + 1
      BY <1>2
    <3>6. QED
      BY <2>6, <2>8, <3>2, <3>3, <3>4, <3>5 DEF Stands
  <2>12. FrameOK(g, Base(Level), NoCaseDeclarations /\ ~hadError')
    <3>1. Last(f.open).kind = "var"
      BY <1>1, <1>3
    <3>2. QED
      BY <1>2, <1>3, <2>6, <2>8, <2>10, <2>11, <3>1, VarFrame
  <2>13. ASSUME NEW off \in Nat, ScopeOK(f, vars, checkDepth, Level, off, NoLocalFunctions)
         PROVE  ScopeOK(g, vars', checkDepth', Level, off, NoLocalFunctions /\ ~hadError')
    <3>1. checkDepth = off + f.scopeDepth /\ checkDepth # 0
      BY <1>3, <1>10, <2>4, <2>13 DEF ScopeOK
    <3>2. checkDepth' + Pending(g) = off + g.scopeDepth
      <4>1. checkDepth + 0 = off + f.scopeDepth
        BY <1>3, <3>1
      <4>2. checkDepth' = checkDepth /\ Pending(g) = 0 /\ g.scopeDepth = f.scopeDepth
        BY <1>1, <2>8, <2>10
      <4>3. QED
        BY <4>1, <4>2
    <3>3. vars' = Append(vars, [name |-> Top.name, depth |-> off + f.scopeDepth, level |-> Level,
                                slot |-> Len(f.locals) + 1])
      BY <1>13, <3>1 DEF y
    <3>4. ASSUME NoLocalFunctions PROVE Agree(g.locals, vars', Level, off)
      <4>1. Agree(f.locals, vars, Level, off)
        BY <2>13, <3>4 DEF ScopeOK
      <4>2. Agree(Append(f.locals, [name |-> Top.name, depth |-> f.scopeDepth]), vars', Level, off)
        BY <1>3, <1>4, <1>5, <1>6, <2>4, <3>3, <4>1, AgreeDeclares
      <4>3. QED
        BY <2>3, <2>8, <4>2 DEF list
    <3>5. g.todo # "method"
      BY <2>8
    <3>6. QED
      BY <3>2, <3>4, <3>5 DEF ScopeOK
  <2>14. QED
    BY <1>14, <2>1, <2>2, <2>8, <2>12, <2>13, SetFrame DEF f
<1>19. QED
  BY <1>16, <1>17, <1>18
----------------------------------------------------------------------------
(* Break and continue.                                                     *)

LEMMA Targets ==
  ASSUME Compiles, NEW T \in SUBSET DOMAIN Current.open, T # {}
  PROVE  Max(T) \in T
<1>1. Current.open \in Seq(Construct)
  BY CurrentFacts, FrameFields
<1>2. Len(Current.open) \in Nat /\ DOMAIN Current.open = 1 .. Len(Current.open)
  BY <1>1, Elements
<1>3. T \in SUBSET (0 .. Len(Current.open))
  BY <1>2
<1>4. QED
  BY <1>2, <1>3, LargestInSet

LEMMA BaseOfTrap ==
  ASSUME NEW c \in Construct, IsTrap(c)
  PROVE  HasBase(c)
  BY DEF IsTrap, IsLoop, HasBase

LEMMA NowhereToGo ==
  ASSUME Compiles, Statement, Set(AfterStatement(Current)), Error, SameScope
  PROVE  CInv'
<1> DEFINE g == AfterStatement(Current)
<1>1. Current \in Frame
  BY CurrentFacts
<1>2. /\ g \in Frame /\ g.open = Current.open /\ g.locals = Current.locals
      /\ g.scopeDepth = Current.scopeDepth /\ g.todo \in {"decl", "done"}
  BY <1>1, Statements
<1>3. Flags /\ hadError'
  BY EmissionFlags
<1> HIDE DEF g
<1>4. (InExpression(g) <=> InExpression(Current)) /\ g.todo # "method"
  BY <1>2 DEF InExpression, Statement
<1>5. QED
  BY <1>2, <1>3, <1>4, StayFrame DEF g

(* The jump to a label of a construct further out.                         *)
LEMMA JumpsTo ==
  ASSUME Compiles, Statement, NEW i \in DOMAIN Current.open, IsTrap(Current.open[i]),
         NEW c \in Construct, Alike(Current.open[i], c), Proper(c),
         c.base = Current.open[i].base, c.exit = Current.open[i].exit,
         c.bodies = Current.open[i].bodies,
         c.breaks \subseteq Current.open[i].breaks \cup PopTo(Current.open[i].base),
         c.arrivals \subseteq Current.open[i].arrivals \cup PopTo(Current.open[i].base),
         NEW mid, mid = [Current EXCEPT !.open = [Current.open EXCEPT ![i] = c]],
         Set(JumpAway(mid)), Flags, SameScope
  PROVE  CInv'
<1> DEFINE f == Current
           open == [f.open EXCEPT ![i] = c]
           g == JumpAway(mid)
           away == [mid EXCEPT !.depths = {}]
<1>1. /\ f \in Frame /\ FrameOK(f, Base(Level), NoCaseDeclarations)
      /\ vars \in Seq(Variable) /\ checkDepth \in Nat
  BY CurrentFacts
<1>2. f.locals \in Seq(Local) /\ f.scopeDepth \in Nat /\ f.open \in Seq(Construct)
  BY <1>1, FrameFields
<1>3. /\ open \in Seq(Construct) /\ DOMAIN open = DOMAIN f.open /\ open[i] = c
      /\ \A j \in DOMAIN f.open : j # i => open[j] = f.open[j]
      /\ Len(open) = Len(f.open)
  BY <1>2, Replaced
<1> HIDE DEF open
<1>4. mid = [f EXCEPT !.open = open]
  BY DEF open
<1>5. /\ mid \in Frame /\ mid.locals = f.locals /\ mid.scopeDepth = f.scopeDepth /\ mid.open = open
      /\ mid.todo = f.todo
  BY <1>1, <1>3, <1>4 DEF Frame
<1>6. /\ away \in Frame /\ away.locals = f.locals /\ away.scopeDepth = f.scopeDepth
      /\ away.open = open /\ away.depths = {}
  BY <1>5 DEF Frame
<1>7. g = AfterStatement(away)
  BY DEF JumpAway
<1> HIDE DEF g, away
<1>8. /\ g \in Frame /\ g.locals = f.locals /\ g.scopeDepth = f.scopeDepth /\ g.open = open
      /\ g.depths = {} /\ g.todo \in {"decl", "done"}
  BY <1>6, <1>7, Statements
<1>9. ~InExpression(f) /\ ~InExpression(g)
  BY <1>8 DEF Statement, InExpression
<1>10. LocalsOK(f.locals, f.scopeDepth) /\ DiscsOK(f)
  BY <1>1, SoundFacts DEF Base
<1>11. Quiet(f)
  BY <1>1, <1>9, <1>10, QuietIf
<1>12. Quiet(g)
  <2>1. \A j \in DOMAIN f.open : IsDisc(open[j]) <=> IsDisc(f.open[j])
    BY <1>3 DEF Alike, IsDisc
  <2>2. QED
    BY <1>3, <1>8, <1>11, <2>1 DEF Quiet
<1>13. DiscsOK(g) /\ Pending(g) = Pending(f)
  BY <1>11, <1>12, QuietMeans
<1>14. Len(f.locals) \in Nat
  BY <1>2, LocalFields
<1>15. Stands(g, 0)
  BY <1>8 DEF Stands
<1>16. ASSUME Stands(f, 0), NEW at \in Nat, NEW temps \in Nat, Placed(f.open[i], at, temps)
       PROVE  Placed(c, at, temps)
  <2> DEFINE d == f.open[i]
  <2>1. d \in Construct
    BY <1>2, Elements
  <2> HIDE DEF d
  <2>2. HasBase(d)
    BY <2>1, BaseOfTrap DEF d
  <2>3. d.kind \notin {"operands", "logical", "print"}
    BY <2>2 DEF HasBase
  <2>4. temps = 0 /\ Labels(d, at, at + 0)
    BY <1>16, <2>3 DEF Placed, d
  <2>5. at + 0 = at
    OBVIOUS
  <2>6. d.base = at
    BY <2>2, <2>4 DEF Labels
  <2>7. Heights \subseteq {Len(f.locals)}
    <3>1. Heights \subseteq {Len(f.locals) + 0 + 0}
      BY <1>9, <1>16 DEF Stands, ValueHeight, Heights, InExpression
    <3>2. QED
      BY <1>14, <3>1
  <2>8. PopTo(at) \subseteq {at}
    BY <1>14, <2>7 DEF PopTo, Popped
  <2>9. c.breaks \subseteq {at} /\ c.arrivals \subseteq {at}
    BY <2>4, <2>5, <2>6, <2>8 DEF Labels, d
  <2>10. Labels(c, at, at + 0)
    BY <2>2, <2>4, <2>5, <2>9 DEF Labels, HasBase, IsBare, Declares, IsDisc, ExitHeight, Alike, d
  <2>11. QED
    BY <2>3, <2>4, <2>10 DEF Placed, Alike, d
<1>17. FrameOK(g, Base(Level), NoCaseDeclarations /\ ~hadError')
  BY <1>1, <1>8, <1>9, <1>13, <1>15, <1>16, LeaveFrame DEF open
<1>18. \A off \in Nat : ScopeOK(f, vars, checkDepth, Level, off, NoLocalFunctions)
          => ScopeOK(g, vars', checkDepth', Level, off, NoLocalFunctions /\ ~hadError')
  BY <1>8, <1>13, ScopeSame
<1>19. vars' \in Seq(Variable) /\ checkDepth' \in Nat
  BY <1>1 DEF SameScope
<1>20. QED
  BY <1>8, <1>17, <1>18, <1>19, SetFrame DEF g

LEMMA TargetFacts ==
  ASSUME Compiles, NEW i \in DOMAIN Current.open
  PROVE  /\ Current \in Frame /\ Current.open[i] \in Construct /\ Proper(Current.open[i])
         /\ Heights \in SUBSET Int /\ Len(Current.locals) \in Nat
         /\ PopTo(Current.open[i].base) \in SUBSET Int
<1>1. /\ Current \in Frame /\ Heights \in SUBSET Int /\ Len(Current.locals) \in Nat
      /\ FrameOK(Current, Base(Level), NoCaseDeclarations)
  BY Here, CurrentFacts
<1>2. Current.open[i] \in Construct
  BY <1>1, FrameFields, Elements
<1>3. Proper(Current.open[i])
  BY <1>1 DEF FrameOK, Sound, Nested
<1>4. Current.open[i].base \in Nat
  BY <1>2, ConstructFields
<1>5. Len(Current.locals) - Current.open[i].base \in Int
  BY <1>1, <1>4
<1>6. PopTo(Current.open[i].base) \in SUBSET Int
  BY <1>1, <1>5 DEF PopTo, Popped
<1>7. QED
  BY <1>1, <1>2, <1>3, <1>6

LEMMA BreakKeeps ==
  ASSUME Compiles, Break
  PROVE  CInv'
<1>1. Statement /\ SameScope
  BY DEF Break
<1>2. CASE BreakTargets = {}
  BY <1>1, <1>2, NowhereToGo DEF Break
<1>3. CASE BreakTargets # {}
  <2> DEFINE i == Max(BreakTargets)
             d == Current.open[i]
             c == [d EXCEPT !.breaks = @ \cup PopTo(d.base), !.breakCount = @ + 1]
             mid == [Current EXCEPT !.open[i].breaks = @ \cup PopTo(d.base),
                                    !.open[i].breakCount = @ + 1]
  <2>1. BreakTo(i)
    BY <1>3 DEF Break
  <2>2. BreakTargets \in SUBSET DOMAIN Current.open
    BY DEF BreakTargets
  <2>3. i \in BreakTargets
    BY <1>3, <2>2, Targets
  <2> HIDE DEF i
  <2>4. i \in DOMAIN Current.open /\ IsTrap(Current.open[i])
    BY <2>3 DEF BreakTargets
  <2>5. CASE d.breakCount >= MaxBreaks
    BY <1>1, <2>1, <2>5, NowhereToGo DEF BreakTo
  <2>6. CASE ~(d.breakCount >= MaxBreaks)
    <3>1. Set(JumpAway(mid)) /\ NoJump
      BY <2>1, <2>6 DEF BreakTo
    <3>2. Flags
      BY <3>1, EmissionFlags
    <3>3. Current \in Frame /\ d \in Construct /\ Proper(d) /\ PopTo(d.base) \in SUBSET Int
      BY <2>4, TargetFacts
    <3>4. mid = [Current EXCEPT !.open = [Current.open EXCEPT ![i] = c]]
      BY <2>4, <3>3 DEF Frame
    <3>5. d.breaks \in SUBSET Int /\ d.breakCount \in Nat /\ MaxBreaks \in Nat
      BY <3>3, ConstructFields, CompilerAssumption
    <3>6. d.breaks \cup PopTo(d.base) \in SUBSET Int /\ d.breakCount + 1 \in Nat
          /\ d.breakCount + 1 <= MaxBreaks
      BY <2>6, <3>3, <3>5
    <3> HIDE DEF d
    <3>7. /\ c \in Construct /\ c.kind = d.kind /\ c.stage = d.stage /\ c.name = d.name
          /\ c.count = d.count /\ c.pops = d.pops /\ c.last = d.last /\ c.base = d.base
          /\ c.exit = d.exit /\ c.bodies = d.bodies /\ c.arrivals = d.arrivals
          /\ c.breaks = d.breaks \cup PopTo(d.base) /\ c.breakCount = d.breakCount + 1
      BY <3>3, <3>6 DEF Construct
    <3> HIDE DEF c, mid
    <3>8. Proper(c) /\ Alike(d, c)
      BY <3>3, <3>6, <3>7 DEF Proper, Alike
    <3>9. QED
      BY <1>1, <2>4, <3>1, <3>2, <3>4, <3>7, <3>8, JumpsTo DEF d
  <2>7. QED
    BY <2>5, <2>6
<1>4. QED
  BY <1>2, <1>3

LEMMA ContinueKeeps ==
  ASSUME Compiles, Continue
  PROVE  CInv'
<1>1. Statement /\ SameScope
  BY DEF Continue
<1>2. CASE ContinueTargets = {}
  BY <1>1, <1>2, NowhereToGo DEF Continue
<1>3. CASE ContinueTargets # {}
  <2> DEFINE i == Max(ContinueTargets)
             d == Current.open[i]
             c == [d EXCEPT !.arrivals = @ \cup PopTo(d.base)]
             mid == [Current EXCEPT !.open[i].arrivals = @ \cup PopTo(d.base)]
  <2>1. ContinueTo(i)
    BY <1>3 DEF Continue
  <2>2. ContinueTargets \in SUBSET DOMAIN Current.open
    BY DEF ContinueTargets
  <2>3. i \in ContinueTargets
    BY <1>3, <2>2, Targets
  <2> HIDE DEF i
  <2>4. i \in DOMAIN Current.open /\ IsTrap(Current.open[i])
    BY <2>3 DEF ContinueTargets, IsTrap
  <2>5. Set(JumpAway(mid)) /\ EmitLoop
    BY <2>1 DEF ContinueTo
  <2>6. Flags
    BY <2>5, EmissionFlags
  <2>7. Current \in Frame /\ d \in Construct /\ Proper(d) /\ PopTo(d.base) \in SUBSET Int
    BY <2>4, TargetFacts
  <2>8. mid = [Current EXCEPT !.open = [Current.open EXCEPT ![i] = c]]
    BY <2>4, <2>7 DEF Frame
  <2>9. d.arrivals \cup PopTo(d.base) \in SUBSET Int
    BY <2>7, ConstructFields
  <2> HIDE DEF d
  <2>10. /\ c \in Construct /\ c.kind = d.kind /\ c.stage = d.stage /\ c.name = d.name
         /\ c.count = d.count /\ c.pops = d.pops /\ c.last = d.last /\ c.base = d.base
         /\ c.exit = d.exit /\ c.bodies = d.bodies /\ c.breaks = d.breaks
         /\ c.arrivals = d.arrivals \cup PopTo(d.base) /\ c.breakCount = d.breakCount
    BY <2>7, <2>9 DEF Construct
  <2> HIDE DEF c, mid
  <2>11. Proper(c) /\ Alike(d, c)
    BY <2>7, <2>10 DEF Proper, Alike
  <2>12. QED
    BY <1>1, <2>4, <2>5, <2>6, <2>8, <2>10, <2>11, JumpsTo DEF d
<1>4. QED
  BY <1>2, <1>3

LEMMA SimpleKeeps ==
  ASSUME Compiles, Simple
  PROVE  CInv'
  BY ExprStmtKeeps, ExprStmtEndsKeeps, VarKeeps, VarEndsKeeps, PrintStmtKeeps,
     PrintOperandKeeps, ReturnKeeps, ReturnEndsKeeps, BreakKeeps, ContinueKeeps
  DEF Simple
----------------------------------------------------------------------------
(* Branches and loops.                                                     *)

LEMMA LabelsHere ==
  ASSUME Compiles, InPlace
  PROVE  LET n == Len(Current.locals)
         IN  /\ Top.breaks \subseteq {n} /\ Top.bodies \subseteq {n} /\ Top.arrivals \subseteq {n}
             /\ Top.exit \subseteq {ExitHeight(Top, n)}
             /\ HasBase(Top) => Top.base = n
             /\ ~HasBase(Top) => Top.breaks = {} /\ Top.bodies = {} /\ Top.arrivals = {}
             /\ IsBare(Top) => Top.exit = {}
<1> DEFINE n == Len(Current.locals)
<1>1. n + 0 = n
  BY Here
<1> HIDE DEF n
<1>2. Labels(Top, n, n + 0)
  BY DEF InPlace, Placed, n
<1>3. Labels(Top, n, n)
  BY <1>1, <1>2
<1>4. QED
  BY <1>3 DEF Labels, n

LEMMA PlacedIf ==
  ASSUME NEW c, NEW n \in Nat, c.kind \notin {"operands", "logical", "print"},
         c.breaks \subseteq {n}, c.bodies \subseteq {n}, c.arrivals \subseteq {n},
         c.exit \subseteq {ExitHeight(c, n)},
         HasBase(c) => c.base = n,
         ~HasBase(c) => c.breaks = {} /\ c.bodies = {} /\ c.arrivals = {},
         IsBare(c) => c.exit = {}
  PROVE  Placed(c, n, 0)
<1>1. n + 0 = n
  OBVIOUS
<1>2. Labels(c, n, n)
  BY DEF Labels
<1>3. QED
  BY <1>1, <1>2 DEF Placed

LEMMA HeightsHere ==
  ASSUME Compiles, InPlace, ~InExpression(Current)
  PROVE  Heights \subseteq {Len(Current.locals)} /\ Temporaries(Top) = 0
<1>1. Len(Current.locals) \in Nat
  BY Here
<1>2. Temporaries(Top) = 0 /\ ValueHeight(Current) = 0
  BY DEF InPlace, ValueHeight, InExpression
<1>3. Heights \subseteq {Len(Current.locals) + 0 + 0}
  BY <1>2 DEF InPlace
<1>4. QED
  BY <1>1, <1>2, <1>3

LEMMA NoDiscHere ==
  ASSUME Compiles, ~InExpression(Current), Top.kind # "none"
  PROVE  ~IsDisc(Top)
<1>1. /\ Current \in Frame /\ FrameOK(Current, Base(Level), NoCaseDeclarations)
      /\ Current.open # <<>>
  BY CurrentFacts, Here
<1>2. Top = Last(Current.open)
  BY <1>1, CurrentFacts
<1>3. DiscsOK(Current)
  BY <1>1, SoundFacts DEF Base
<1>4. Quiet(Current)
  BY <1>1, <1>3, QuietIf
<1>5. Top = Current.open[Len(Current.open)] /\ Len(Current.open) \in DOMAIN Current.open
  <2>1. Current.open \in Seq(Construct)
    BY <1>1, FrameFields
  <2>2. Last(Current.open) = Current.open[Len(Current.open)] /\ Extends(Front(Current.open), Current.open, Last(Current.open))
    BY <1>1, <2>1, FrontExtends
  <2>3. Len(Current.open) \in DOMAIN Current.open
    BY <2>2 DEF Extends
  <2>4. QED
    BY <1>2, <2>2, <2>3
<1>6. QED
  BY <1>4, <1>5 DEF Quiet

LEMMA IfThenKeeps ==
  ASSUME Compiles, IfThen
  PROVE  CInv'
<1> DEFINE n == Len(Current.locals)
           c == [Top EXCEPT !.stage = "then", !.exit = Heights]
           depths == Popped(Heights, 1)
<1>1. /\ Current.todo = "value" /\ Top.kind = "if" /\ Top.stage = "cond"
      /\ Set(GoOn(c, depths, "stmt")) /\ NoJump /\ SameScope
  BY DEF IfThen, At, Emit
<1>2. /\ Current \in Frame /\ Heights \in SUBSET Int /\ n \in Nat
      /\ Current.open # <<>> /\ Top \in Construct
  BY <1>1, Here
<1>3. Flags
  BY <1>1, EmissionFlags
<1>4. /\ Top.exit \in SUBSET Int /\ Top.bodies \in SUBSET Int /\ Top.breaks \in SUBSET Int
      /\ Top.arrivals \in SUBSET Int /\ Top.count \in Nat
  BY <1>2, ConstructFields
<1>5. depths \in SUBSET Int
  BY <1>2, <1>4 DEF Popped
<1>6. /\ c \in Construct /\ c.kind = Top.kind /\ c.stage = "then"
      /\ c.count = Top.count /\ c.base = Top.base /\ c.exit = Heights
      /\ c.bodies = Top.bodies /\ c.arrivals = Top.arrivals /\ c.breaks = Top.breaks
      /\ c.breakCount = Top.breakCount
  BY <1>2, <1>4 DEF Construct
<1> HIDE DEF c
<1>7. ~IsDisc(Top) /\ ~IsDisc(c)
  BY <1>1, <1>6 DEF IsDisc
<1>8. ASSUME InPlace
      PROVE  /\ Placed(c, n, 0) /\ depths \subseteq {n + 0} /\ Temporaries(c) = 0
  <2>1. /\ Top.breaks \subseteq {n} /\ Top.bodies \subseteq {n} /\ Top.arrivals \subseteq {n}
        /\ Top.exit \subseteq {ExitHeight(Top, n)}
        /\ HasBase(Top) => Top.base = n
        /\ ~HasBase(Top) => Top.breaks = {} /\ Top.bodies = {} /\ Top.arrivals = {}
        /\ IsBare(Top) => Top.exit = {}
    BY <1>8, LabelsHere
  <2>6. Temporaries(Top) = 0
    BY <1>1 DEF Temporaries
  <2>2. Heights \subseteq {n + 1} /\ Popped(Heights, 1) \subseteq {n}
    BY <1>1, <1>8, <2>6, ValuePopped
  <2>3. Temporaries(c) = 0
    BY <1>1, <1>6, <2>2 DEF Temporaries
  <2>4. Placed(c, n, 0)
    BY <1>1, <1>2, <1>6, <2>1, <2>2, PlacedIf DEF HasBase, IsBare, Declares, IsDisc, ExitHeight
  <2>5. depths \subseteq {n + 0}
    BY <1>1, <1>2, <2>1, <2>2 DEF ExitHeight
  <2>7. QED
    BY <2>3, <2>4, <2>5
<1> HIDE DEF depths
<1>9. Top.kind \notin {"operands", "logical", "var"}
  BY <1>1
<1>10. "stmt" \in {"decl", "stmt", "expr", "done"}
  OBVIOUS
<1>11. QED
  BY <1>1, <1>2, <1>3, <1>5, <1>6, <1>7, <1>8, <1>9, <1>10, GoOnStatement

LEMMA IfElseTo ==
  ASSUME Compiles, At("if", "then", "done"), NEW todo \in {"stmt", "done"},
         EmitPatching(GoOn([Top EXCEPT !.stage = "else", !.exit = Heights],
                           Popped(Top.exit, 1), todo))
  PROVE  CInv'
<1> DEFINE n == Len(Current.locals)
           c == [Top EXCEPT !.stage = "else", !.exit = Heights]
           depths == Popped(Top.exit, 1)
<1>1. /\ Current.todo = "done" /\ Top.kind = "if" /\ Top.stage = "then"
      /\ Set(GoOn(c, depths, todo)) /\ PatchJump /\ SameScope
  BY DEF At, EmitPatching
<1>2. /\ Current \in Frame /\ Heights \in SUBSET Int /\ n \in Nat
      /\ Current.open # <<>> /\ Top \in Construct
  BY <1>1, Here
<1>3. Flags
  BY <1>1, EmissionFlags
<1>4. /\ Top.exit \in SUBSET Int /\ Top.bodies \in SUBSET Int /\ Top.breaks \in SUBSET Int
      /\ Top.arrivals \in SUBSET Int /\ Top.count \in Nat
  BY <1>2, ConstructFields
<1>5. depths \in SUBSET Int
  BY <1>2, <1>4 DEF Popped
<1>6. /\ c \in Construct /\ c.kind = Top.kind /\ c.stage = "else"
      /\ c.count = Top.count /\ c.base = Top.base /\ c.exit = Heights
      /\ c.bodies = Top.bodies /\ c.arrivals = Top.arrivals /\ c.breaks = Top.breaks
      /\ c.breakCount = Top.breakCount
  BY <1>2, <1>4 DEF Construct
<1> HIDE DEF c
<1>7. ~IsDisc(Top) /\ ~IsDisc(c)
  BY <1>1, <1>6 DEF IsDisc
<1>8. ASSUME InPlace
      PROVE  /\ Placed(c, n, 0) /\ depths \subseteq {n + 0} /\ Temporaries(c) = 0
  <2>1. /\ Top.breaks \subseteq {n} /\ Top.bodies \subseteq {n} /\ Top.arrivals \subseteq {n}
        /\ Top.exit \subseteq {ExitHeight(Top, n)}
        /\ HasBase(Top) => Top.base = n
        /\ ~HasBase(Top) => Top.breaks = {} /\ Top.bodies = {} /\ Top.arrivals = {}
        /\ IsBare(Top) => Top.exit = {}
    BY <1>8, LabelsHere
  <2>2. Heights \subseteq {n} /\ Temporaries(Top) = 0
    BY <1>1, <1>8, HeightsHere DEF InExpression
  <2>3. Temporaries(c) = 0
    BY <1>1, <1>6, <2>2 DEF Temporaries
  <2>4. Placed(c, n, 0)
    BY <1>1, <1>2, <1>6, <2>1, <2>2, PlacedIf DEF HasBase, IsBare, Declares, IsDisc, ExitHeight
  <2>5. depths \subseteq {n + 0}
    BY <1>1, <1>2, <1>4, <2>1, <2>2 DEF ExitHeight, Popped
  <2>7. QED
    BY <2>3, <2>4, <2>5
<1> HIDE DEF depths
<1>9. Top.kind \notin {"operands", "logical", "var"}
  BY <1>1
<1>10. todo \in {"decl", "stmt", "expr", "done"}
  OBVIOUS
<1>11. QED
  BY <1>1, <1>2, <1>3, <1>5, <1>6, <1>7, <1>8, <1>9, <1>10, GoOnStatement

LEMMA IfElseKeeps ==
  ASSUME Compiles, IfElse
  PROVE  CInv'
<1>1. At("if", "then", "done")
  BY DEF IfElse
<1>2. PICK todo \in {"stmt", "done"} :
          EmitPatching(GoOn([Top EXCEPT !.stage = "else", !.exit = Heights],
                            Popped(Top.exit, 1), todo))
  BY DEF IfElse
<1>3. QED
  BY <1>1, <1>2, IfElseTo

LEMMA WhileBodyKeeps ==
  ASSUME Compiles, WhileBody
  PROVE  CInv'
<1> DEFINE n == Len(Current.locals)
           c == [Top EXCEPT !.stage = "body", !.exit = Heights]
           depths == Popped(Heights, 1)
<1>1. /\ Current.todo = "value" /\ Top.kind = "while" /\ Top.stage = "cond"
      /\ Set(GoOn(c, depths, "stmt")) /\ NoJump /\ SameScope
  BY DEF WhileBody, At, Emit
<1>2. /\ Current \in Frame /\ Heights \in SUBSET Int /\ n \in Nat
      /\ Current.open # <<>> /\ Top \in Construct
  BY <1>1, Here
<1>3. Flags
  BY <1>1, EmissionFlags
<1>4. /\ Top.exit \in SUBSET Int /\ Top.bodies \in SUBSET Int /\ Top.breaks \in SUBSET Int
      /\ Top.arrivals \in SUBSET Int /\ Top.count \in Nat
  BY <1>2, ConstructFields
<1>5. depths \in SUBSET Int
  BY <1>2, <1>4 DEF Popped
<1>6. /\ c \in Construct /\ c.kind = Top.kind /\ c.stage = "body"
      /\ c.count = Top.count /\ c.base = Top.base /\ c.exit = Heights
      /\ c.bodies = Top.bodies /\ c.arrivals = Top.arrivals /\ c.breaks = Top.breaks
      /\ c.breakCount = Top.breakCount
  BY <1>2, <1>4 DEF Construct
<1> HIDE DEF c
<1>7. ~IsDisc(Top) /\ ~IsDisc(c)
  BY <1>1, <1>6 DEF IsDisc
<1>8. ASSUME InPlace
      PROVE  /\ Placed(c, n, 0) /\ depths \subseteq {n + 0} /\ Temporaries(c) = 0
  <2>1. /\ Top.breaks \subseteq {n} /\ Top.bodies \subseteq {n} /\ Top.arrivals \subseteq {n}
        /\ Top.exit \subseteq {ExitHeight(Top, n)}
        /\ HasBase(Top) => Top.base = n
        /\ ~HasBase(Top) => Top.breaks = {} /\ Top.bodies = {} /\ Top.arrivals = {}
        /\ IsBare(Top) => Top.exit = {}
    BY <1>8, LabelsHere
  <2>6. Temporaries(Top) = 0
    BY <1>1 DEF Temporaries
  <2>2. Heights \subseteq {n + 1} /\ Popped(Heights, 1) \subseteq {n}
    BY <1>1, <1>8, <2>6, ValuePopped
  <2>3. Temporaries(c) = 0
    BY <1>1, <1>6, <2>2 DEF Temporaries
  <2>4. Placed(c, n, 0)
    BY <1>1, <1>2, <1>6, <2>1, <2>2, PlacedIf DEF HasBase, IsBare, Declares, IsDisc, ExitHeight
  <2>5. depths \subseteq {n + 0}
    BY <1>1, <1>2, <2>1, <2>2 DEF ExitHeight
  <2>7. QED
    BY <2>3, <2>4, <2>5
<1> HIDE DEF depths
<1>9. Top.kind \notin {"operands", "logical", "var"}
  BY <1>1
<1>10. "stmt" \in {"decl", "stmt", "expr", "done"}
  OBVIOUS
<1>11. QED
  BY <1>1, <1>2, <1>3, <1>5, <1>6, <1>7, <1>8, <1>9, <1>10, GoOnStatement

LEMMA RepeatKeeps ==
  ASSUME Compiles, Repeat
  PROVE  CInv'
<1> DEFINE n == Len(Current.locals)
           c == Looped(Heights)
           depths == {}
<1>1. /\ Current.todo = "done" /\ Top.kind \in {"while", "for"} /\ Top.stage = "body"
      /\ Set(GoOn(c, depths, "done")) /\ EmitLoop /\ SameScope
  BY DEF Repeat, At, EmitLooping
<1>2. /\ Current \in Frame /\ Heights \in SUBSET Int /\ n \in Nat
      /\ Current.open # <<>> /\ Top \in Construct
  BY <1>1, Here
<1>3. Flags
  BY <1>1, EmissionFlags
<1>4. /\ Top.exit \in SUBSET Int /\ Top.bodies \in SUBSET Int /\ Top.breaks \in SUBSET Int
      /\ Top.arrivals \in SUBSET Int /\ Top.count \in Nat
  BY <1>2, ConstructFields
<1>5. depths \in SUBSET Int
  BY <1>2, <1>4
<1>6. /\ c \in Construct /\ c.kind = Top.kind /\ c.stage = "loop"
      /\ c.count = Top.count /\ c.base = Top.base /\ c.exit = Top.exit
      /\ c.bodies = Top.bodies /\ c.arrivals = Top.arrivals \cup Heights /\ c.breaks = Top.breaks
      /\ c.breakCount = Top.breakCount
  BY <1>2, <1>4 DEF Construct, Looped
<1> HIDE DEF c
<1>7. ~IsDisc(Top) /\ ~IsDisc(c)
  BY <1>1, <1>6 DEF IsDisc
<1>8. ASSUME InPlace
      PROVE  /\ Placed(c, n, 0) /\ depths \subseteq {n + 0} /\ Temporaries(c) = 0
  <2>1. /\ Top.breaks \subseteq {n} /\ Top.bodies \subseteq {n} /\ Top.arrivals \subseteq {n}
        /\ Top.exit \subseteq {ExitHeight(Top, n)}
        /\ HasBase(Top) => Top.base = n
        /\ ~HasBase(Top) => Top.breaks = {} /\ Top.bodies = {} /\ Top.arrivals = {}
        /\ IsBare(Top) => Top.exit = {}
    BY <1>8, LabelsHere
  <2>2. Heights \subseteq {n} /\ Temporaries(Top) = 0
    BY <1>1, <1>8, HeightsHere DEF InExpression
  <2>3. Temporaries(c) = 0
    BY <1>1, <1>6, <2>2 DEF Temporaries
  <2>4. Placed(c, n, 0)
    BY <1>1, <1>2, <1>6, <2>1, <2>2, PlacedIf DEF HasBase, IsBare, Declares, IsDisc, ExitHeight
  <2>5. depths \subseteq {n + 0}
    BY <1>1, <1>2, <2>1, <2>2 DEF ExitHeight
  <2>7. QED
    BY <2>3, <2>4, <2>5
<1> HIDE DEF depths
<1>9. Top.kind \notin {"operands", "logical", "var"}
  BY <1>1
<1>10. "done" \in {"decl", "stmt", "expr", "done"}
  OBVIOUS
<1>11. QED
  BY <1>1, <1>2, <1>3, <1>5, <1>6, <1>7, <1>8, <1>9, <1>10, GoOnStatement

LEMMA DoWhileCondKeeps ==
  ASSUME Compiles, DoWhileCond
  PROVE  CInv'
<1> DEFINE n == Len(Current.locals)
           c == [Top EXCEPT !.stage = "cond"]
           depths == Heights
<1>1. /\ Current.todo = "done" /\ Top.kind = "do" /\ Top.stage = "body"
      /\ Set(GoOn(c, depths, "expr")) /\ NoJump /\ SameScope
  BY DEF DoWhileCond, At, Emit
<1>2. /\ Current \in Frame /\ Heights \in SUBSET Int /\ n \in Nat
      /\ Current.open # <<>> /\ Top \in Construct
  BY <1>1, Here
<1>3. Flags
  BY <1>1, EmissionFlags
<1>4. /\ Top.exit \in SUBSET Int /\ Top.bodies \in SUBSET Int /\ Top.breaks \in SUBSET Int
      /\ Top.arrivals \in SUBSET Int /\ Top.count \in Nat
  BY <1>2, ConstructFields
<1>5. depths \in SUBSET Int
  BY <1>2, <1>4
<1>6. /\ c \in Construct /\ c.kind = Top.kind /\ c.stage = "cond"
      /\ c.count = Top.count /\ c.base = Top.base /\ c.exit = Top.exit
      /\ c.bodies = Top.bodies /\ c.arrivals = Top.arrivals /\ c.breaks = Top.breaks
      /\ c.breakCount = Top.breakCount
  BY <1>2, <1>4 DEF Construct
<1> HIDE DEF c
<1>7. ~IsDisc(Top) /\ ~IsDisc(c)
  BY <1>1, <1>6 DEF IsDisc
<1>8. ASSUME InPlace
      PROVE  /\ Placed(c, n, 0) /\ depths \subseteq {n + 0} /\ Temporaries(c) = 0
  <2>1. /\ Top.breaks \subseteq {n} /\ Top.bodies \subseteq {n} /\ Top.arrivals \subseteq {n}
        /\ Top.exit \subseteq {ExitHeight(Top, n)}
        /\ HasBase(Top) => Top.base = n
        /\ ~HasBase(Top) => Top.breaks = {} /\ Top.bodies = {} /\ Top.arrivals = {}
        /\ IsBare(Top) => Top.exit = {}
    BY <1>8, LabelsHere
  <2>2. Heights \subseteq {n} /\ Temporaries(Top) = 0
    BY <1>1, <1>8, HeightsHere DEF InExpression
  <2>3. Temporaries(c) = 0
    BY <1>1, <1>6, <2>2 DEF Temporaries
  <2>4. Placed(c, n, 0)
    BY <1>1, <1>2, <1>6, <2>1, <2>2, PlacedIf DEF HasBase, IsBare, Declares, IsDisc, ExitHeight
  <2>5. depths \subseteq {n + 0}
    BY <1>1, <1>2, <2>1, <2>2 DEF ExitHeight
  <2>7. QED
    BY <2>3, <2>4, <2>5
<1> HIDE DEF depths
<1>9. Top.kind \notin {"operands", "logical", "var"}
  BY <1>1
<1>10. "expr" \in {"decl", "stmt", "expr", "done"}
  OBVIOUS
<1>11. QED
  BY <1>1, <1>2, <1>3, <1>5, <1>6, <1>7, <1>8, <1>9, <1>10, GoOnStatement

LEMMA DoWhileRepeatsKeeps ==
  ASSUME Compiles, DoWhileRepeats
  PROVE  CInv'
<1> DEFINE n == Len(Current.locals)
           c == [Looped(Popped(Heights, 1)) EXCEPT !.exit = Heights]
           depths == {}
<1>1. /\ Current.todo = "value" /\ Top.kind = "do" /\ Top.stage = "cond"
      /\ Set(GoOn(c, depths, "done")) /\ EmitLoop /\ SameScope
  BY DEF DoWhileRepeats, At, EmitLooping
<1>2. /\ Current \in Frame /\ Heights \in SUBSET Int /\ n \in Nat
      /\ Current.open # <<>> /\ Top \in Construct
  BY <1>1, Here
<1>3. Flags
  BY <1>1, EmissionFlags
<1>4. /\ Top.exit \in SUBSET Int /\ Top.bodies \in SUBSET Int /\ Top.breaks \in SUBSET Int
      /\ Top.arrivals \in SUBSET Int /\ Top.count \in Nat
  BY <1>2, ConstructFields
<1>20. Popped(Heights, 1) \in SUBSET Int
  BY <1>2 DEF Popped
<1>5. depths \in SUBSET Int
  BY <1>2, <1>4, <1>20
<1>6. /\ c \in Construct /\ c.kind = Top.kind /\ c.stage = "loop"
      /\ c.count = Top.count /\ c.base = Top.base /\ c.exit = Heights
      /\ c.bodies = Top.bodies /\ c.arrivals = Top.arrivals \cup Popped(Heights, 1) /\ c.breaks = Top.breaks
      /\ c.breakCount = Top.breakCount
  BY <1>2, <1>4, <1>20 DEF Construct, Looped
<1> HIDE DEF c
<1>7. ~IsDisc(Top) /\ ~IsDisc(c)
  BY <1>1, <1>6 DEF IsDisc
<1>8. ASSUME InPlace
      PROVE  /\ Placed(c, n, 0) /\ depths \subseteq {n + 0} /\ Temporaries(c) = 0
  <2>1. /\ Top.breaks \subseteq {n} /\ Top.bodies \subseteq {n} /\ Top.arrivals \subseteq {n}
        /\ Top.exit \subseteq {ExitHeight(Top, n)}
        /\ HasBase(Top) => Top.base = n
        /\ ~HasBase(Top) => Top.breaks = {} /\ Top.bodies = {} /\ Top.arrivals = {}
        /\ IsBare(Top) => Top.exit = {}
    BY <1>8, LabelsHere
  <2>6. Temporaries(Top) = 0
    BY <1>1 DEF Temporaries
  <2>2. Heights \subseteq {n + 1} /\ Popped(Heights, 1) \subseteq {n}
    BY <1>1, <1>8, <2>6, ValuePopped
  <2>3. Temporaries(c) = 0
    BY <1>1, <1>6, <2>2 DEF Temporaries
  <2>4. Placed(c, n, 0)
    BY <1>1, <1>2, <1>6, <2>1, <2>2, PlacedIf DEF HasBase, IsBare, Declares, IsDisc, ExitHeight
  <2>5. depths \subseteq {n + 0}
    BY <1>1, <1>2, <2>1, <2>2 DEF ExitHeight
  <2>7. QED
    BY <2>3, <2>4, <2>5
<1> HIDE DEF depths
<1>9. Top.kind \notin {"operands", "logical", "var"}
  BY <1>1
<1>10. "done" \in {"decl", "stmt", "expr", "done"}
  OBVIOUS
<1>11. QED
  BY <1>1, <1>2, <1>3, <1>5, <1>6, <1>7, <1>8, <1>9, <1>10, GoOnStatement

LEMMA ForCondTo ==
  ASSUME Compiles, At("for", "", "done"),
         Emit(GoOn(BeginLoop(Top, "cond"), Heights, "expr"))
  PROVE  CInv'
<1> DEFINE n == Len(Current.locals)
           c == BeginLoop(Top, "cond")
           depths == Heights
<1>1. /\ Current.todo = "done" /\ Top.kind = "for" /\ Top.stage = ""
      /\ Set(GoOn(c, depths, "expr")) /\ NoJump /\ SameScope
  BY DEF At, Emit
<1>2. /\ Current \in Frame /\ Heights \in SUBSET Int /\ n \in Nat
      /\ Current.open # <<>> /\ Top \in Construct
  BY <1>1, Here
<1>3. Flags
  BY <1>1, EmissionFlags
<1>4. /\ Top.exit \in SUBSET Int /\ Top.bodies \in SUBSET Int /\ Top.breaks \in SUBSET Int
      /\ Top.arrivals \in SUBSET Int /\ Top.count \in Nat
  BY <1>2, ConstructFields
<1>5. depths \in SUBSET Int
  BY <1>2, <1>4
<1>6. /\ c \in Construct /\ c.kind = Top.kind /\ c.stage = "cond"
      /\ c.count = Top.count /\ c.base = n /\ c.exit = Top.exit
      /\ c.bodies = Top.bodies /\ c.arrivals = Heights /\ c.breaks = Top.breaks
      /\ c.breakCount = Top.breakCount
  BY <1>2, <1>4 DEF Construct, BeginLoop
<1> HIDE DEF c
<1>7. ~IsDisc(Top) /\ ~IsDisc(c)
  BY <1>1, <1>6 DEF IsDisc
<1>8. ASSUME InPlace
      PROVE  /\ Placed(c, n, 0) /\ depths \subseteq {n + 0} /\ Temporaries(c) = 0
  <2>1. /\ Top.breaks \subseteq {n} /\ Top.bodies \subseteq {n} /\ Top.arrivals \subseteq {n}
        /\ Top.exit \subseteq {ExitHeight(Top, n)}
        /\ HasBase(Top) => Top.base = n
        /\ ~HasBase(Top) => Top.breaks = {} /\ Top.bodies = {} /\ Top.arrivals = {}
        /\ IsBare(Top) => Top.exit = {}
    BY <1>8, LabelsHere
  <2>2. Heights \subseteq {n} /\ Temporaries(Top) = 0
    BY <1>1, <1>8, HeightsHere DEF InExpression
  <2>3. Temporaries(c) = 0
    BY <1>1, <1>6, <2>2 DEF Temporaries
  <2>4. Placed(c, n, 0)
    BY <1>1, <1>2, <1>6, <2>1, <2>2, PlacedIf DEF HasBase, IsBare, Declares, IsDisc, ExitHeight
  <2>5. depths \subseteq {n + 0}
    <3>4. n \in Nat
      BY <1>2
    <3>1. n + 0 = n
      BY <3>4, Arithmetic, Zenon
    <3>2. depths \subseteq {n}
      BY <1>1, <2>1, <2>2 DEF ExitHeight
    <3>3. QED
      BY <3>1, <3>2
  <2>7. QED
    BY <2>3, <2>4, <2>5
<1> HIDE DEF depths
<1>9. Top.kind \notin {"operands", "logical", "var"}
  BY <1>1
<1>10. "expr" \in {"decl", "stmt", "expr", "done"}
  OBVIOUS
<1>11. QED
  BY <1>1, <1>2, <1>3, <1>5, <1>6, <1>7, <1>8, <1>9, <1>10, GoOnStatement

LEMMA ForNoCond ==
  ASSUME Compiles, At("for", "", "done"),
         Emit(GoOn(BeginLoop(Top, "incr"), Heights, "done"))
  PROVE  CInv'
<1> DEFINE n == Len(Current.locals)
           c == BeginLoop(Top, "incr")
           depths == Heights
<1>1. /\ Current.todo = "done" /\ Top.kind = "for" /\ Top.stage = ""
      /\ Set(GoOn(c, depths, "done")) /\ NoJump /\ SameScope
  BY DEF At, Emit
<1>2. /\ Current \in Frame /\ Heights \in SUBSET Int /\ n \in Nat
      /\ Current.open # <<>> /\ Top \in Construct
  BY <1>1, Here
<1>3. Flags
  BY <1>1, EmissionFlags
<1>4. /\ Top.exit \in SUBSET Int /\ Top.bodies \in SUBSET Int /\ Top.breaks \in SUBSET Int
      /\ Top.arrivals \in SUBSET Int /\ Top.count \in Nat
  BY <1>2, ConstructFields
<1>5. depths \in SUBSET Int
  BY <1>2, <1>4
<1>6. /\ c \in Construct /\ c.kind = Top.kind /\ c.stage = "incr"
      /\ c.count = Top.count /\ c.base = n /\ c.exit = Top.exit
      /\ c.bodies = Top.bodies /\ c.arrivals = Heights /\ c.breaks = Top.breaks
      /\ c.breakCount = Top.breakCount
  BY <1>2, <1>4 DEF Construct, BeginLoop
<1> HIDE DEF c
<1>7. ~IsDisc(Top) /\ ~IsDisc(c)
  BY <1>1, <1>6 DEF IsDisc
<1>8. ASSUME InPlace
      PROVE  /\ Placed(c, n, 0) /\ depths \subseteq {n + 0} /\ Temporaries(c) = 0
  <2>1. /\ Top.breaks \subseteq {n} /\ Top.bodies \subseteq {n} /\ Top.arrivals \subseteq {n}
        /\ Top.exit \subseteq {ExitHeight(Top, n)}
        /\ HasBase(Top) => Top.base = n
        /\ ~HasBase(Top) => Top.breaks = {} /\ Top.bodies = {} /\ Top.arrivals = {}
        /\ IsBare(Top) => Top.exit = {}
    BY <1>8, LabelsHere
  <2>2. Heights \subseteq {n} /\ Temporaries(Top) = 0
    BY <1>1, <1>8, HeightsHere DEF InExpression
  <2>3. Temporaries(c) = 0
    BY <1>1, <1>6, <2>2 DEF Temporaries
  <2>4. Placed(c, n, 0)
    BY <1>1, <1>2, <1>6, <2>1, <2>2, PlacedIf DEF HasBase, IsBare, Declares, IsDisc, ExitHeight
  <2>5. depths \subseteq {n + 0}
    <3>4. n \in Nat
      BY <1>2
    <3>1. n + 0 = n
      BY <3>4, Arithmetic, Zenon
    <3>2. depths \subseteq {n}
      BY <1>1, <2>1, <2>2 DEF ExitHeight
    <3>3. QED
      BY <3>1, <3>2
  <2>7. QED
    BY <2>3, <2>4, <2>5
<1> HIDE DEF depths
<1>9. Top.kind \notin {"operands", "logical", "var"}
  BY <1>1
<1>10. "done" \in {"decl", "stmt", "expr", "done"}
  OBVIOUS
<1>11. QED
  BY <1>1, <1>2, <1>3, <1>5, <1>6, <1>7, <1>8, <1>9, <1>10, GoOnStatement

LEMMA ForCondKeeps ==
  ASSUME Compiles, ForCond
  PROVE  CInv'
  BY ForCondTo, ForNoCond DEF ForCond

LEMMA ForExitKeeps ==
  ASSUME Compiles, ForExit
  PROVE  CInv'
<1> DEFINE n == Len(Current.locals)
           c == [Top EXCEPT !.stage = "incr", !.exit = Heights]
           depths == Popped(Heights, 1)
<1>1. /\ Current.todo = "value" /\ Top.kind = "for" /\ Top.stage = "cond"
      /\ Set(GoOn(c, depths, "done")) /\ NoJump /\ SameScope
  BY DEF ForExit, At, Emit
<1>2. /\ Current \in Frame /\ Heights \in SUBSET Int /\ n \in Nat
      /\ Current.open # <<>> /\ Top \in Construct
  BY <1>1, Here
<1>3. Flags
  BY <1>1, EmissionFlags
<1>4. /\ Top.exit \in SUBSET Int /\ Top.bodies \in SUBSET Int /\ Top.breaks \in SUBSET Int
      /\ Top.arrivals \in SUBSET Int /\ Top.count \in Nat
  BY <1>2, ConstructFields
<1>5. depths \in SUBSET Int
  BY <1>2, <1>4 DEF Popped
<1>6. /\ c \in Construct /\ c.kind = Top.kind /\ c.stage = "incr"
      /\ c.count = Top.count /\ c.base = Top.base /\ c.exit = Heights
      /\ c.bodies = Top.bodies /\ c.arrivals = Top.arrivals /\ c.breaks = Top.breaks
      /\ c.breakCount = Top.breakCount
  BY <1>2, <1>4 DEF Construct
<1> HIDE DEF c
<1>7. ~IsDisc(Top) /\ ~IsDisc(c)
  BY <1>1, <1>6 DEF IsDisc
<1>8. ASSUME InPlace
      PROVE  /\ Placed(c, n, 0) /\ depths \subseteq {n + 0} /\ Temporaries(c) = 0
  <2>1. /\ Top.breaks \subseteq {n} /\ Top.bodies \subseteq {n} /\ Top.arrivals \subseteq {n}
        /\ Top.exit \subseteq {ExitHeight(Top, n)}
        /\ HasBase(Top) => Top.base = n
        /\ ~HasBase(Top) => Top.breaks = {} /\ Top.bodies = {} /\ Top.arrivals = {}
        /\ IsBare(Top) => Top.exit = {}
    BY <1>8, LabelsHere
  <2>6. Temporaries(Top) = 0
    BY <1>1 DEF Temporaries
  <2>2. Heights \subseteq {n + 1} /\ Popped(Heights, 1) \subseteq {n}
    BY <1>1, <1>8, <2>6, ValuePopped
  <2>3. Temporaries(c) = 0
    BY <1>1, <1>6, <2>2 DEF Temporaries
  <2>4. Placed(c, n, 0)
    BY <1>1, <1>2, <1>6, <2>1, <2>2, PlacedIf DEF HasBase, IsBare, Declares, IsDisc, ExitHeight
  <2>5. depths \subseteq {n + 0}
    BY <1>1, <1>2, <2>1, <2>2 DEF ExitHeight
  <2>7. QED
    BY <2>3, <2>4, <2>5
<1> HIDE DEF depths
<1>9. Top.kind \notin {"operands", "logical", "var"}
  BY <1>1
<1>10. "done" \in {"decl", "stmt", "expr", "done"}
  OBVIOUS
<1>11. QED
  BY <1>1, <1>2, <1>3, <1>5, <1>6, <1>7, <1>8, <1>9, <1>10, GoOnStatement

LEMMA ForIncrTo ==
  ASSUME Compiles, At("for", "incr", "done"),
         Emit(GoOn([Top EXCEPT !.bodies = Heights], Heights, "expr"))
  PROVE  CInv'
<1> DEFINE n == Len(Current.locals)
           c == [Top EXCEPT !.bodies = Heights]
           depths == Heights
<1>1. /\ Current.todo = "done" /\ Top.kind = "for" /\ Top.stage = "incr"
      /\ Set(GoOn(c, depths, "expr")) /\ NoJump /\ SameScope
  BY DEF At, Emit
<1>2. /\ Current \in Frame /\ Heights \in SUBSET Int /\ n \in Nat
      /\ Current.open # <<>> /\ Top \in Construct
  BY <1>1, Here
<1>3. Flags
  BY <1>1, EmissionFlags
<1>4. /\ Top.exit \in SUBSET Int /\ Top.bodies \in SUBSET Int /\ Top.breaks \in SUBSET Int
      /\ Top.arrivals \in SUBSET Int /\ Top.count \in Nat
  BY <1>2, ConstructFields
<1>5. depths \in SUBSET Int
  BY <1>2, <1>4
<1>6. /\ c \in Construct /\ c.kind = Top.kind /\ c.stage = Top.stage
      /\ c.count = Top.count /\ c.base = Top.base /\ c.exit = Top.exit
      /\ c.bodies = Heights /\ c.arrivals = Top.arrivals /\ c.breaks = Top.breaks
      /\ c.breakCount = Top.breakCount
  BY <1>2, <1>4 DEF Construct
<1> HIDE DEF c
<1>7. ~IsDisc(Top) /\ ~IsDisc(c)
  BY <1>1, <1>6 DEF IsDisc
<1>8. ASSUME InPlace
      PROVE  /\ Placed(c, n, 0) /\ depths \subseteq {n + 0} /\ Temporaries(c) = 0
  <2>1. /\ Top.breaks \subseteq {n} /\ Top.bodies \subseteq {n} /\ Top.arrivals \subseteq {n}
        /\ Top.exit \subseteq {ExitHeight(Top, n)}
        /\ HasBase(Top) => Top.base = n
        /\ ~HasBase(Top) => Top.breaks = {} /\ Top.bodies = {} /\ Top.arrivals = {}
        /\ IsBare(Top) => Top.exit = {}
    BY <1>8, LabelsHere
  <2>2. Heights \subseteq {n} /\ Temporaries(Top) = 0
    BY <1>1, <1>8, HeightsHere DEF InExpression
  <2>3. Temporaries(c) = 0
    BY <1>1, <1>6, <2>2 DEF Temporaries
  <2>4. Placed(c, n, 0)
    BY <1>1, <1>2, <1>6, <2>1, <2>2, PlacedIf DEF HasBase, IsBare, Declares, IsDisc, ExitHeight
  <2>5. depths \subseteq {n + 0}
    BY <1>1, <1>2, <2>1, <2>2 DEF ExitHeight
  <2>7. QED
    BY <2>3, <2>4, <2>5
<1> HIDE DEF depths
<1>9. Top.kind \notin {"operands", "logical", "var"}
  BY <1>1
<1>10. "expr" \in {"decl", "stmt", "expr", "done"}
  OBVIOUS
<1>11. QED
  BY <1>1, <1>2, <1>3, <1>5, <1>6, <1>7, <1>8, <1>9, <1>10, GoOnStatement

LEMMA ForNoIncr ==
  ASSUME Compiles, At("for", "incr", "done"),
         Emit(GoOn([Top EXCEPT !.stage = "body"], Heights, "stmt"))
  PROVE  CInv'
<1> DEFINE n == Len(Current.locals)
           c == [Top EXCEPT !.stage = "body"]
           depths == Heights
<1>1. /\ Current.todo = "done" /\ Top.kind = "for" /\ Top.stage = "incr"
      /\ Set(GoOn(c, depths, "stmt")) /\ NoJump /\ SameScope
  BY DEF At, Emit
<1>2. /\ Current \in Frame /\ Heights \in SUBSET Int /\ n \in Nat
      /\ Current.open # <<>> /\ Top \in Construct
  BY <1>1, Here
<1>3. Flags
  BY <1>1, EmissionFlags
<1>4. /\ Top.exit \in SUBSET Int /\ Top.bodies \in SUBSET Int /\ Top.breaks \in SUBSET Int
      /\ Top.arrivals \in SUBSET Int /\ Top.count \in Nat
  BY <1>2, ConstructFields
<1>5. depths \in SUBSET Int
  BY <1>2, <1>4
<1>6. /\ c \in Construct /\ c.kind = Top.kind /\ c.stage = "body"
      /\ c.count = Top.count /\ c.base = Top.base /\ c.exit = Top.exit
      /\ c.bodies = Top.bodies /\ c.arrivals = Top.arrivals /\ c.breaks = Top.breaks
      /\ c.breakCount = Top.breakCount
  BY <1>2, <1>4 DEF Construct
<1> HIDE DEF c
<1>7. ~IsDisc(Top) /\ ~IsDisc(c)
  BY <1>1, <1>6 DEF IsDisc
<1>8. ASSUME InPlace
      PROVE  /\ Placed(c, n, 0) /\ depths \subseteq {n + 0} /\ Temporaries(c) = 0
  <2>1. /\ Top.breaks \subseteq {n} /\ Top.bodies \subseteq {n} /\ Top.arrivals \subseteq {n}
        /\ Top.exit \subseteq {ExitHeight(Top, n)}
        /\ HasBase(Top) => Top.base = n
        /\ ~HasBase(Top) => Top.breaks = {} /\ Top.bodies = {} /\ Top.arrivals = {}
        /\ IsBare(Top) => Top.exit = {}
    BY <1>8, LabelsHere
  <2>2. Heights \subseteq {n} /\ Temporaries(Top) = 0
    BY <1>1, <1>8, HeightsHere DEF InExpression
  <2>3. Temporaries(c) = 0
    BY <1>1, <1>6, <2>2 DEF Temporaries
  <2>4. Placed(c, n, 0)
    BY <1>1, <1>2, <1>6, <2>1, <2>2, PlacedIf DEF HasBase, IsBare, Declares, IsDisc, ExitHeight
  <2>5. depths \subseteq {n + 0}
    BY <1>1, <1>2, <2>1, <2>2 DEF ExitHeight
  <2>7. QED
    BY <2>3, <2>4, <2>5
<1> HIDE DEF depths
<1>9. Top.kind \notin {"operands", "logical", "var"}
  BY <1>1
<1>10. "stmt" \in {"decl", "stmt", "expr", "done"}
  OBVIOUS
<1>11. QED
  BY <1>1, <1>2, <1>3, <1>5, <1>6, <1>7, <1>8, <1>9, <1>10, GoOnStatement

LEMMA ForIncrKeeps ==
  ASSUME Compiles, ForIncr
  PROVE  CInv'
  BY ForIncrTo, ForNoIncr DEF ForIncr

LEMMA ForIncrEndsKeeps ==
  ASSUME Compiles, ForIncrEnds
  PROVE  CInv'
<1> DEFINE n == Len(Current.locals)
           c == [Top EXCEPT !.stage = "body", !.arrivals = @ \cup Popped(Heights, 1)]
           depths == Top.bodies
<1>1. /\ Current.todo = "value" /\ Top.kind = "for" /\ Top.stage = "incr"
      /\ Set(GoOn(c, depths, "stmt")) /\ EmitLoop /\ SameScope
  BY DEF ForIncrEnds, At, EmitLooping
<1>2. /\ Current \in Frame /\ Heights \in SUBSET Int /\ n \in Nat
      /\ Current.open # <<>> /\ Top \in Construct
  BY <1>1, Here
<1>3. Flags
  BY <1>1, EmissionFlags
<1>4. /\ Top.exit \in SUBSET Int /\ Top.bodies \in SUBSET Int /\ Top.breaks \in SUBSET Int
      /\ Top.arrivals \in SUBSET Int /\ Top.count \in Nat
  BY <1>2, ConstructFields
<1>20. Popped(Heights, 1) \in SUBSET Int
  BY <1>2 DEF Popped
<1>5. depths \in SUBSET Int
  BY <1>2, <1>4, <1>20
<1>6. /\ c \in Construct /\ c.kind = Top.kind /\ c.stage = "body"
      /\ c.count = Top.count /\ c.base = Top.base /\ c.exit = Top.exit
      /\ c.bodies = Top.bodies /\ c.arrivals = Top.arrivals \cup Popped(Heights, 1) /\ c.breaks = Top.breaks
      /\ c.breakCount = Top.breakCount
  BY <1>2, <1>4, <1>20 DEF Construct
<1> HIDE DEF c
<1>7. ~IsDisc(Top) /\ ~IsDisc(c)
  BY <1>1, <1>6 DEF IsDisc
<1>8. ASSUME InPlace
      PROVE  /\ Placed(c, n, 0) /\ depths \subseteq {n + 0} /\ Temporaries(c) = 0
  <2>1. /\ Top.breaks \subseteq {n} /\ Top.bodies \subseteq {n} /\ Top.arrivals \subseteq {n}
        /\ Top.exit \subseteq {ExitHeight(Top, n)}
        /\ HasBase(Top) => Top.base = n
        /\ ~HasBase(Top) => Top.breaks = {} /\ Top.bodies = {} /\ Top.arrivals = {}
        /\ IsBare(Top) => Top.exit = {}
    BY <1>8, LabelsHere
  <2>6. Temporaries(Top) = 0
    BY <1>1 DEF Temporaries
  <2>2. Heights \subseteq {n + 1} /\ Popped(Heights, 1) \subseteq {n}
    BY <1>1, <1>8, <2>6, ValuePopped
  <2>3. Temporaries(c) = 0
    BY <1>1, <1>6, <2>2 DEF Temporaries
  <2>4. Placed(c, n, 0)
    BY <1>1, <1>2, <1>6, <2>1, <2>2, PlacedIf DEF HasBase, IsBare, Declares, IsDisc, ExitHeight
  <2>5. depths \subseteq {n + 0}
    BY <1>1, <1>2, <2>1, <2>2 DEF ExitHeight
  <2>7. QED
    BY <2>3, <2>4, <2>5
<1> HIDE DEF depths
<1>9. Top.kind \notin {"operands", "logical", "var"}
  BY <1>1
<1>10. "stmt" \in {"decl", "stmt", "expr", "done"}
  OBVIOUS
<1>11. QED
  BY <1>1, <1>2, <1>3, <1>5, <1>6, <1>7, <1>8, <1>9, <1>10, GoOnStatement

LEMMA TestKeeps ==
  ASSUME Compiles, Test
  PROVE  CInv'
<1> DEFINE n == Len(Current.locals)
           c == [Top EXCEPT !.stage = "case"]
           depths == Pushed(Heights, 1)
<1>1. /\ Current.todo = "done" /\ Top.kind = "switch" /\ Top.stage = "test"
      /\ Set(GoOn(c, depths, "expr")) /\ NoJump /\ SameScope
  BY DEF Test, At, Emit
<1>2. /\ Current \in Frame /\ Heights \in SUBSET Int /\ n \in Nat
      /\ Current.open # <<>> /\ Top \in Construct
  BY <1>1, Here
<1>3. Flags
  BY <1>1, EmissionFlags
<1>4. /\ Top.exit \in SUBSET Int /\ Top.bodies \in SUBSET Int /\ Top.breaks \in SUBSET Int
      /\ Top.arrivals \in SUBSET Int /\ Top.count \in Nat
  BY <1>2, ConstructFields
<1>5. depths \in SUBSET Int
  BY <1>2, <1>4 DEF Pushed
<1>6. /\ c \in Construct /\ c.kind = Top.kind /\ c.stage = "case"
      /\ c.count = Top.count /\ c.base = Top.base /\ c.exit = Top.exit
      /\ c.bodies = Top.bodies /\ c.arrivals = Top.arrivals /\ c.breaks = Top.breaks
      /\ c.breakCount = Top.breakCount
  BY <1>2, <1>4 DEF Construct
<1> HIDE DEF c
<1>7. ~IsDisc(Top) /\ ~IsDisc(c)
  BY <1>1, <1>6 DEF IsDisc
<1>8. ASSUME InPlace
      PROVE  /\ Placed(c, n, 0) /\ depths \subseteq {n + 1} /\ Temporaries(c) = 1
  <2>1. /\ Top.breaks \subseteq {n} /\ Top.bodies \subseteq {n} /\ Top.arrivals \subseteq {n}
        /\ Top.exit \subseteq {ExitHeight(Top, n)}
        /\ HasBase(Top) => Top.base = n
        /\ ~HasBase(Top) => Top.breaks = {} /\ Top.bodies = {} /\ Top.arrivals = {}
        /\ IsBare(Top) => Top.exit = {}
    BY <1>8, LabelsHere
  <2>2. Heights \subseteq {n} /\ Temporaries(Top) = 0
    BY <1>1, <1>8, HeightsHere DEF InExpression
  <2>3. Temporaries(c) = 1
    BY <1>1, <1>6, <2>2 DEF Temporaries
  <2>4. Placed(c, n, 0)
    BY <1>1, <1>2, <1>6, <2>1, <2>2, PlacedIf DEF HasBase, IsBare, Declares, IsDisc, ExitHeight
  <2>5. depths \subseteq {n + 1}
    BY <1>1, <1>2, <2>1, <2>2 DEF ExitHeight, Pushed
  <2>7. QED
    BY <2>3, <2>4, <2>5
<1> HIDE DEF depths
<1>9. Top.kind \notin {"operands", "logical", "var"}
  BY <1>1
<1>10. "expr" \in {"decl", "stmt", "expr", "done"}
  OBVIOUS
<1>11. QED
  BY <1>1, <1>2, <1>3, <1>5, <1>6, <1>7, <1>8, <1>9, <1>10, GoOnStatement

LEMMA TestEndsKeeps ==
  ASSUME Compiles, TestEnds
  PROVE  CInv'
<1> DEFINE n == Len(Current.locals)
           after == Popped(Pushed(Popped(Heights, 2), 1), 1)
           c == [Top EXCEPT !.stage = "test", !.count = @ + 1, !.bodies = @ \cup after]
           depths == after
<1>1. /\ Current.todo = "value" /\ Top.kind = "switch" /\ Top.stage = "case"
      /\ Set(GoOn(c, depths, "done")) /\ PatchJump /\ SameScope
  BY DEF TestEnds, At, EmitPatching
<1>2. /\ Current \in Frame /\ Heights \in SUBSET Int /\ n \in Nat
      /\ Current.open # <<>> /\ Top \in Construct
  BY <1>1, Here
<1>3. Flags
  BY <1>1, EmissionFlags
<1>4. /\ Top.exit \in SUBSET Int /\ Top.bodies \in SUBSET Int /\ Top.breaks \in SUBSET Int
      /\ Top.arrivals \in SUBSET Int /\ Top.count \in Nat
  BY <1>2, ConstructFields
<1>20. after \in SUBSET Int
  BY <1>2 DEF Popped, Pushed
<1>21. Top.count + 1 \in Nat
  BY <1>4
<1>5. depths \in SUBSET Int
  BY <1>2, <1>4, <1>20, <1>21
<1>6. /\ c \in Construct /\ c.kind = Top.kind /\ c.stage = "test"
      /\ c.count = Top.count + 1 /\ c.base = Top.base /\ c.exit = Top.exit
      /\ c.bodies = Top.bodies \cup after /\ c.arrivals = Top.arrivals /\ c.breaks = Top.breaks
      /\ c.breakCount = Top.breakCount
  BY <1>2, <1>4, <1>20, <1>21 DEF Construct
<1> HIDE DEF c
<1>7. ~IsDisc(Top) /\ ~IsDisc(c)
  BY <1>1, <1>6 DEF IsDisc
<1>8. ASSUME InPlace
      PROVE  /\ Placed(c, n, 0) /\ depths \subseteq {n + 0} /\ Temporaries(c) = 0
  <2>1. /\ Top.breaks \subseteq {n} /\ Top.bodies \subseteq {n} /\ Top.arrivals \subseteq {n}
        /\ Top.exit \subseteq {ExitHeight(Top, n)}
        /\ HasBase(Top) => Top.base = n
        /\ ~HasBase(Top) => Top.breaks = {} /\ Top.bodies = {} /\ Top.arrivals = {}
        /\ IsBare(Top) => Top.exit = {}
    BY <1>8, LabelsHere
  <2>6. Temporaries(Top) = 1 /\ ValueHeight(Current) = 1
    BY <1>1 DEF Temporaries, ValueHeight
  <2>8. Heights \subseteq {n + 1 + 1}
    BY <1>8, <2>6 DEF InPlace
  <2>2. after \subseteq {n}
    BY <1>2, <2>8 DEF Popped, Pushed
  <2>3. Temporaries(c) = 0
    BY <1>1, <1>6, <2>2 DEF Temporaries
  <2>4. Placed(c, n, 0)
    BY <1>1, <1>2, <1>6, <2>1, <2>2, PlacedIf DEF HasBase, IsBare, Declares, IsDisc, ExitHeight
  <2>5. depths \subseteq {n + 0}
    BY <1>1, <1>2, <2>1, <2>2 DEF ExitHeight
  <2>7. QED
    BY <2>3, <2>4, <2>5
<1> HIDE DEF depths
<1>9. Top.kind \notin {"operands", "logical", "var"}
  BY <1>1
<1>10. "done" \in {"decl", "stmt", "expr", "done"}
  OBVIOUS
<1>11. QED
  BY <1>1, <1>2, <1>3, <1>5, <1>6, <1>7, <1>8, <1>9, <1>10, GoOnStatement

LEMMA BodiesKeeps ==
  ASSUME Compiles, Bodies
  PROVE  CInv'
<1> DEFINE n == Len(Current.locals)
           c == [Top EXCEPT !.stage = "bodies", !.exit = Heights]
           depths == {}
<1>1. /\ Current.todo = "done" /\ Top.kind = "switch" /\ Top.stage = "test"
      /\ Set(GoOn(c, depths, "decl")) /\ NoJump /\ SameScope
  BY DEF Bodies, At, Emit
<1>2. /\ Current \in Frame /\ Heights \in SUBSET Int /\ n \in Nat
      /\ Current.open # <<>> /\ Top \in Construct
  BY <1>1, Here
<1>3. Flags
  BY <1>1, EmissionFlags
<1>4. /\ Top.exit \in SUBSET Int /\ Top.bodies \in SUBSET Int /\ Top.breaks \in SUBSET Int
      /\ Top.arrivals \in SUBSET Int /\ Top.count \in Nat
  BY <1>2, ConstructFields
<1>5. depths \in SUBSET Int
  BY <1>2, <1>4
<1>6. /\ c \in Construct /\ c.kind = Top.kind /\ c.stage = "bodies"
      /\ c.count = Top.count /\ c.base = Top.base /\ c.exit = Heights
      /\ c.bodies = Top.bodies /\ c.arrivals = Top.arrivals /\ c.breaks = Top.breaks
      /\ c.breakCount = Top.breakCount
  BY <1>2, <1>4 DEF Construct
<1> HIDE DEF c
<1>7. ~IsDisc(Top) /\ ~IsDisc(c)
  BY <1>1, <1>6 DEF IsDisc
<1>8. ASSUME InPlace
      PROVE  /\ Placed(c, n, 0) /\ depths \subseteq {n + 0} /\ Temporaries(c) = 0
  <2>1. /\ Top.breaks \subseteq {n} /\ Top.bodies \subseteq {n} /\ Top.arrivals \subseteq {n}
        /\ Top.exit \subseteq {ExitHeight(Top, n)}
        /\ HasBase(Top) => Top.base = n
        /\ ~HasBase(Top) => Top.breaks = {} /\ Top.bodies = {} /\ Top.arrivals = {}
        /\ IsBare(Top) => Top.exit = {}
    BY <1>8, LabelsHere
  <2>2. Heights \subseteq {n} /\ Temporaries(Top) = 0
    BY <1>1, <1>8, HeightsHere DEF InExpression
  <2>3. Temporaries(c) = 0
    BY <1>1, <1>6, <2>2 DEF Temporaries
  <2>4. Placed(c, n, 0)
    BY <1>1, <1>2, <1>6, <2>1, <2>2, PlacedIf DEF HasBase, IsBare, Declares, IsDisc, ExitHeight
  <2>5. depths \subseteq {n + 0}
    BY <1>1, <1>2, <2>1, <2>2 DEF ExitHeight
  <2>7. QED
    BY <2>3, <2>4, <2>5
<1> HIDE DEF depths
<1>9. Top.kind \notin {"operands", "logical", "var"}
  BY <1>1
<1>10. "decl" \in {"decl", "stmt", "expr", "done"}
  OBVIOUS
<1>11. QED
  BY <1>1, <1>2, <1>3, <1>5, <1>6, <1>7, <1>8, <1>9, <1>10, GoOnStatement

LEMMA CaseBodyKeeps ==
  ASSUME Compiles, CaseBody
  PROVE  CInv'
<1> DEFINE n == Len(Current.locals)
           c == [Top EXCEPT !.count = @ - 1]
           depths == Heights \cup Top.bodies
<1>1. /\ Current.todo = "decl" /\ Top.kind = "switch"
      /\ Set(GoOn(c, depths, "decl")) /\ PatchJump /\ SameScope
  BY DEF CaseBody, EmitPatching
<1>2. /\ Current \in Frame /\ Heights \in SUBSET Int /\ n \in Nat
      /\ Current.open # <<>> /\ Top \in Construct
  BY <1>1, Here
<1>3. Flags
  BY <1>1, EmissionFlags
<1>4. /\ Top.exit \in SUBSET Int /\ Top.bodies \in SUBSET Int /\ Top.breaks \in SUBSET Int
      /\ Top.arrivals \in SUBSET Int /\ Top.count \in Nat
  BY <1>2, ConstructFields
<1>20. Top.count - 1 \in Nat
  BY <1>4 DEF CaseBody
<1>5. depths \in SUBSET Int
  BY <1>2, <1>4, <1>20
<1>6. /\ c \in Construct /\ c.kind = Top.kind /\ c.stage = Top.stage
      /\ c.count = Top.count - 1 /\ c.base = Top.base /\ c.exit = Top.exit
      /\ c.bodies = Top.bodies /\ c.arrivals = Top.arrivals /\ c.breaks = Top.breaks
      /\ c.breakCount = Top.breakCount
  BY <1>2, <1>4, <1>20 DEF Construct
<1> HIDE DEF c
<1>7. ~IsDisc(Top) /\ ~IsDisc(c)
  <2>1. ~IsDisc(Top)
    BY <1>1, NoDiscHere DEF InExpression
  <2>2. QED
    BY <1>6, <2>1 DEF IsDisc
<1>8. ASSUME InPlace
      PROVE  /\ Placed(c, n, 0) /\ depths \subseteq {n + 0} /\ Temporaries(c) = 0
  <2>1. /\ Top.breaks \subseteq {n} /\ Top.bodies \subseteq {n} /\ Top.arrivals \subseteq {n}
        /\ Top.exit \subseteq {ExitHeight(Top, n)}
        /\ HasBase(Top) => Top.base = n
        /\ ~HasBase(Top) => Top.breaks = {} /\ Top.bodies = {} /\ Top.arrivals = {}
        /\ IsBare(Top) => Top.exit = {}
    BY <1>8, LabelsHere
  <2>2. Heights \subseteq {n} /\ Temporaries(Top) = 0
    BY <1>1, <1>8, HeightsHere DEF InExpression
  <2>3. Temporaries(c) = 0
    BY <1>1, <1>6, <2>2 DEF Temporaries
  <2>4. Placed(c, n, 0)
    BY <1>1, <1>2, <1>6, <2>1, <2>2, PlacedIf DEF HasBase, IsBare, Declares, IsDisc, ExitHeight
  <2>5. depths \subseteq {n + 0}
    <3>4. n \in Nat
      BY <1>2
    <3>1. n + 0 = n
      BY <3>4, Arithmetic, Zenon
    <3>2. depths \subseteq {n}
      BY <1>1, <2>1, <2>2 DEF ExitHeight
    <3>3. QED
      BY <3>1, <3>2
  <2>7. QED
    BY <2>3, <2>4, <2>5
<1> HIDE DEF depths
<1>9. Top.kind \notin {"operands", "logical", "var"}
  BY <1>1
<1>10. "decl" \in {"decl", "stmt", "expr", "done"}
  OBVIOUS
<1>11. QED
  BY <1>1, <1>2, <1>3, <1>5, <1>6, <1>7, <1>8, <1>9, <1>10, GoOnStatement

LEMMA DefaultBodyKeeps ==
  ASSUME Compiles, DefaultBody
  PROVE  CInv'
<1> DEFINE n == Len(Current.locals)
           c == [Top EXCEPT !.stage = "default"]
           depths == Heights \cup Top.exit
<1>1. /\ Current.todo = "decl" /\ Top.kind = "switch" /\ Top.stage = "bodies"
      /\ Set(GoOn(c, depths, "decl")) /\ PatchDefault /\ SameScope
  BY DEF DefaultBody, At
<1>2. /\ Current \in Frame /\ Heights \in SUBSET Int /\ n \in Nat
      /\ Current.open # <<>> /\ Top \in Construct
  BY <1>1, Here
<1>3. Flags
  BY <1>1, EmissionFlags
<1>4. /\ Top.exit \in SUBSET Int /\ Top.bodies \in SUBSET Int /\ Top.breaks \in SUBSET Int
      /\ Top.arrivals \in SUBSET Int /\ Top.count \in Nat
  BY <1>2, ConstructFields
<1>5. depths \in SUBSET Int
  BY <1>2, <1>4
<1>6. /\ c \in Construct /\ c.kind = Top.kind /\ c.stage = "default"
      /\ c.count = Top.count /\ c.base = Top.base /\ c.exit = Top.exit
      /\ c.bodies = Top.bodies /\ c.arrivals = Top.arrivals /\ c.breaks = Top.breaks
      /\ c.breakCount = Top.breakCount
  BY <1>2, <1>4 DEF Construct
<1> HIDE DEF c
<1>7. ~IsDisc(Top) /\ ~IsDisc(c)
  BY <1>1, <1>6 DEF IsDisc
<1>8. ASSUME InPlace
      PROVE  /\ Placed(c, n, 0) /\ depths \subseteq {n + 0} /\ Temporaries(c) = 0
  <2>1. /\ Top.breaks \subseteq {n} /\ Top.bodies \subseteq {n} /\ Top.arrivals \subseteq {n}
        /\ Top.exit \subseteq {ExitHeight(Top, n)}
        /\ HasBase(Top) => Top.base = n
        /\ ~HasBase(Top) => Top.breaks = {} /\ Top.bodies = {} /\ Top.arrivals = {}
        /\ IsBare(Top) => Top.exit = {}
    BY <1>8, LabelsHere
  <2>2. Heights \subseteq {n} /\ Temporaries(Top) = 0
    BY <1>1, <1>8, HeightsHere DEF InExpression
  <2>3. Temporaries(c) = 0
    BY <1>1, <1>6, <2>2 DEF Temporaries
  <2>4. Placed(c, n, 0)
    BY <1>1, <1>2, <1>6, <2>1, <2>2, PlacedIf DEF HasBase, IsBare, Declares, IsDisc, ExitHeight
  <2>5. depths \subseteq {n + 0}
    <3>4. n \in Nat
      BY <1>2
    <3>1. n + 0 = n
      BY <3>4, Arithmetic, Zenon
    <3>2. depths \subseteq {n}
      BY <1>1, <2>1, <2>2 DEF ExitHeight
    <3>3. QED
      BY <3>1, <3>2
  <2>7. QED
    BY <2>3, <2>4, <2>5
<1> HIDE DEF depths
<1>9. Top.kind \notin {"operands", "logical", "var"}
  BY <1>1
<1>10. "decl" \in {"decl", "stmt", "expr", "done"}
  OBVIOUS
<1>11. QED
  BY <1>1, <1>2, <1>3, <1>5, <1>6, <1>7, <1>8, <1>9, <1>10, GoOnStatement
----------------------------------------------------------------------------
(* Loops begin; branches, loops and scopes end.                            *)

(* A loop begins at the height that a statement has.                       *)
LEMMA LoopBegins ==
  ASSUME Compiles, Statement, NEW kind \in {"while", "do"}, NEW stage \in {"cond", "body"},
         NEW todo \in {"expr", "stmt"}, Emit(Enter(BeginLoop(Open(kind, ""), stage), todo))
  PROVE  CInv'
<1> DEFINE n == Len(Current.locals)
           c == BeginLoop(Open(kind, ""), stage)
<1>1. Set(Enter(c, todo)) /\ NoJump /\ SameScope
  BY DEF Emit
<1>2. /\ Heights \in SUBSET Int /\ n \in Nat
  BY Here
<1>3. Open(kind, "") \in Construct
  BY DEF Open, Construct, Kinds
<1>4. /\ c \in Construct /\ c.kind = kind /\ c.stage = stage /\ c.exit = {} /\ c.bodies = {}
      /\ c.breaks = {} /\ c.breakCount = 0 /\ c.arrivals = Heights /\ c.base = n
  BY <1>2, <1>3 DEF BeginLoop, Open, Construct
<1> HIDE DEF c
<1>5. Flags
  BY <1>1, EmissionFlags
<1>6. ~IsScope(c) /\ Temporaries(c) = 0 /\ c.kind # "var"
  BY <1>4 DEF IsScope, Temporaries
<1>7. Proper(c)
  BY <1>4, <1>6, FreshIsProper
<1>8. Heights \subseteq {n} => Placed(c, n, 0)
  BY <1>2, <1>4, PlacedIf DEF HasBase
<1>9. ~InExpression(Current) /\ todo \in {"expr", "stmt", "method"} /\ todo # "method"
  BY DEF Statement, InExpression
<1>10. QED
  BY <1>1, <1>4, <1>5, <1>6, <1>7, <1>8, <1>9, EnterStatement

LEMMA WhileKeeps ==
  ASSUME Compiles, While
  PROVE  CInv'
<1>1. Statement /\ Emit(Enter(BeginLoop(Open("while", ""), "cond"), "expr"))
  BY DEF While, Begins
<1>2. QED
  BY <1>1, LoopBegins

LEMMA DoWhileKeeps ==
  ASSUME Compiles, DoWhile
  PROVE  CInv'
<1>1. Statement /\ Emit(Enter(BeginLoop(Open("do", ""), "body"), "stmt"))
  BY DEF DoWhile, Begins
<1>2. QED
  BY <1>1, LoopBegins

LEMMA IfEndsKeeps ==
  ASSUME Compiles, IfEnds
  PROVE  CInv'
<1> DEFINE n == Len(Current.locals)
           depths == Heights \cup Top.exit
<1>1. /\ Current.todo = "done" /\ Top.kind = "if" /\ Top.stage = "else"
      /\ Set(End(depths)) /\ PatchJump /\ SameScope
  BY DEF IfEnds, At, EmitPatching
<1>2. Heights \in SUBSET Int /\ Current.open # <<>> /\ Top \in Construct
  BY <1>1, Here
<1>3. Flags
  BY <1>1, EmissionFlags
<1>4. depths \in SUBSET Int
  BY <1>2, ConstructFields
<1>5. ~IsScope(Top) /\ Top.kind \notin {"operands", "logical"} /\ ~InExpression(Current)
  BY <1>1 DEF IsScope, InExpression
<1>6. ASSUME InPlace PROVE depths \subseteq {n}
  <2>1. Top.exit \subseteq {ExitHeight(Top, n)}
    BY <1>6, LabelsHere
  <2>2. Heights \subseteq {n}
    BY <1>5, <1>6, HeightsHere
  <2>3. QED
    BY <1>1, <2>1, <2>2 DEF ExitHeight
<1> HIDE DEF depths
<1>7. QED
  BY <1>1, <1>2, <1>3, <1>4, <1>5, <1>6, EndStatement

(* What leaves a loop.                                                     *)
LEMMA LeavesLoop ==
  ASSUME Compiles, Top.kind # "none", Top.kind \notin {"switch"}, Top.stage # "else"
  PROVE  /\ AfterLoop \in SUBSET Int
         /\ InPlace => AfterLoop \subseteq {Len(Current.locals)}
<1> DEFINE n == Len(Current.locals)
<1>1. Top \in Construct /\ n \in Nat
  BY Here
<1>2. Top.exit \in SUBSET Int /\ Top.breaks \in SUBSET Int
  BY <1>1, ConstructFields
<1>3. Popped(Top.exit, 1) \in SUBSET Int
  BY <1>2 DEF Popped
<1>4. ASSUME InPlace PROVE AfterLoop \subseteq {n}
  <2>1. Top.exit \subseteq {ExitHeight(Top, n)} /\ Top.breaks \subseteq {n}
    BY <1>4, LabelsHere
  <2>2. ExitHeight(Top, n) = n + 1
    BY DEF ExitHeight
  <2>3. Popped(Top.exit, 1) \subseteq {n}
    BY <1>1, <2>1, <2>2 DEF Popped
  <2>4. QED
    BY <2>1, <2>3 DEF AfterLoop
<1>5. QED
  BY <1>2, <1>3, <1>4 DEF AfterLoop

LEMMA LoopEnds ==
  ASSUME Compiles, NEW kind \in {"while", "do"}, At(kind, "loop", "done"),
         EmitPatching(End(AfterLoop))
  PROVE  CInv'
<1>1. /\ Current.todo = "done" /\ Top.kind = kind /\ Top.stage = "loop"
      /\ Set(End(AfterLoop)) /\ PatchJump /\ SameScope
  BY DEF At, EmitPatching
<1>2. Current.open # <<>>
  BY <1>1, Here
<1>3. Flags
  BY <1>1, EmissionFlags
<1>4. ~IsScope(Top) /\ Top.kind \notin {"operands", "logical"}
  BY <1>1 DEF IsScope
<1>5. AfterLoop \in SUBSET Int /\ (InPlace => AfterLoop \subseteq {Len(Current.locals)})
  BY <1>1, LeavesLoop
<1>6. QED
  BY <1>1, <1>2, <1>3, <1>4, <1>5, EndStatement

LEMMA WhileEndsKeeps ==
  ASSUME Compiles, WhileEnds
  PROVE  CInv'
  BY LoopEnds DEF WhileEnds

LEMMA DoWhileEndsKeeps ==
  ASSUME Compiles, DoWhileEnds
  PROVE  CInv'
  BY LoopEnds DEF DoWhileEnds

LEMMA ForEndsKeeps ==
  ASSUME Compiles, ForEnds
  PROVE  CInv'
<1>1. /\ Current.todo = "done" /\ Top.kind = "for" /\ Top.stage = "loop"
      /\ Set(EndScope(End(AfterLoop))) /\ EndCheckScope /\ PatchJump
  BY DEF ForEnds, At
<1>2. Current.open # <<>>
  BY <1>1, Here
<1>3. Flags
  BY <1>1, EmissionFlags
<1>4. IsScope(Top) /\ ~IsDisc(Top)
  BY <1>1 DEF IsScope, IsDisc
<1>5. AfterLoop \in SUBSET Int /\ (InPlace => AfterLoop \subseteq {Len(Current.locals)})
  BY <1>1, LeavesLoop
<1>6. QED
  BY <1>1, <1>2, <1>3, <1>4, <1>5, EndBlock

LEMMA BlockEndsKeeps ==
  ASSUME Compiles, BlockEnds
  PROVE  CInv'
<1>1. /\ Current.todo = "decl" /\ Top.kind = "block" /\ Top.stage = ""
      /\ Set(EndScope(End(Heights))) /\ EndCheckScope /\ NoJump
  BY DEF BlockEnds, At
<1>2. Current.open # <<>> /\ Heights \in SUBSET Int
  BY <1>1, Here
<1>3. Flags
  BY <1>1, EmissionFlags
<1>4. IsScope(Top) /\ ~IsDisc(Top) /\ ~InExpression(Current)
  BY <1>1 DEF IsScope, IsDisc, InExpression
<1>5. InPlace => Heights \subseteq {Len(Current.locals)}
  BY <1>4, HeightsHere
<1>6. QED
  BY <1>1, <1>2, <1>3, <1>4, <1>5, EndBlock

LEMMA SwitchEndsKeeps ==
  ASSUME Compiles, SwitchEnds
  PROVE  CInv'
<1> DEFINE n == Len(Current.locals)
           noMatch == IF Top.stage = "bodies" THEN Top.exit ELSE {}
           depths == Heights \cup noMatch \cup Top.breaks
<1>1. /\ Current.todo = "decl" /\ Top.kind = "switch"
      /\ Set(EndScope(End(depths))) /\ EndCheckScope /\ PatchJump
  BY DEF SwitchEnds
<1>2. Heights \in SUBSET Int /\ Current.open # <<>> /\ Top \in Construct
  BY <1>1, Here
<1>3. Flags
  BY <1>1, EmissionFlags
<1>4. depths \in SUBSET Int
  BY <1>2, ConstructFields
<1>5. ~InExpression(Current)
  BY <1>1 DEF InExpression
<1>6. IsScope(Top) /\ ~IsDisc(Top)
  BY <1>1, <1>5, NoDiscHere DEF IsScope
<1>7. ASSUME InPlace PROVE depths \subseteq {n}
  <2>1. Top.exit \subseteq {ExitHeight(Top, n)} /\ Top.breaks \subseteq {n}
    BY <1>7, LabelsHere
  <2>2. Heights \subseteq {n}
    BY <1>5, <1>7, HeightsHere
  <2>3. QED
    BY <1>1, <2>1, <2>2 DEF ExitHeight
<1> HIDE DEF depths
<1>8. QED
  BY <1>1, <1>2, <1>3, <1>4, <1>6, <1>7, EndBlock
----------------------------------------------------------------------------
(* Scopes begin.                                                           *)

LEMMA ScopeDeepens ==
  ASSUME NEW f, NEW g, f.scopeDepth \in Nat, checkDepth \in Nat,
         g.scopeDepth = f.scopeDepth + 1, g.locals = f.locals, Pending(f) = 0, Pending(g) = 0,
         g.todo # "method", checkDepth' = checkDepth + 1, vars' = vars
  PROVE  \A off \in Nat : ScopeOK(f, vars, checkDepth, Level, off, NoLocalFunctions)
            => ScopeOK(g, vars', checkDepth', Level, off, NoLocalFunctions /\ ~hadError')
<1> DEFINE d == f.scopeDepth
<1>1. d \in Nat /\ g.scopeDepth = d + 1
  OBVIOUS
<1> SUFFICES ASSUME NEW off \in Nat, ScopeOK(f, vars, checkDepth, Level, off, NoLocalFunctions)
             PROVE  ScopeOK(g, vars', checkDepth', Level, off, NoLocalFunctions /\ ~hadError')
  OBVIOUS
<1>2. checkDepth + 0 = off + d
  BY DEF ScopeOK
<1> HIDE DEF d
<1>3. checkDepth + 1 + 0 = off + (d + 1)
  BY <1>1, <1>2
<1>4. checkDepth' + Pending(g) = off + g.scopeDepth
  BY <1>1, <1>3
<1>5. QED
  BY <1>4 DEF ScopeOK

LEMMA ScopeBegins ==
  ASSUME Compiles, Statement, NEW kind \in {"block", "for"}, NEW todo \in {"decl", "init", "done"},
         Set(BeginScope(Enter(Open(kind, ""), todo))), BeginCheckScope, NoJump
  PROVE  CInv'
<1> DEFINE f == Current
           c == Open(kind, "")
           mid == Enter(c, todo)
           g == BeginScope(mid)
<1>1. /\ f \in Frame /\ FrameOK(f, Base(Level), NoCaseDeclarations)
      /\ vars \in Seq(Variable) /\ checkDepth \in Nat
  BY CurrentFacts
<1>2. f.locals \in Seq(Local) /\ f.scopeDepth \in Nat /\ f.open \in Seq(Construct)
  BY <1>1, FrameFields
<1>3. /\ c \in Construct /\ c.kind = kind /\ c.stage = "" /\ c.exit = {} /\ c.bodies = {}
      /\ c.breaks = {} /\ c.breakCount = 0 /\ c.arrivals = {}
  BY DEF Open, Construct, Kinds
<1> HIDE DEF c
<1>4. todo \in Todo
  BY DEF Todo
<1>5. /\ mid \in Frame /\ mid.locals = f.locals /\ mid.scopeDepth = f.scopeDepth
      /\ mid.open = Append(f.open, c) /\ mid.depths = f.depths /\ mid.todo = todo
      /\ mid.open # <<>> /\ mid.open[Len(mid.open)] = c
  BY <1>1, <1>3, <1>4, Enters
<1> HIDE DEF mid
<1>6. /\ g \in Frame /\ g.locals = f.locals /\ g.scopeDepth = f.scopeDepth + 1
      /\ g.open = Append(f.open, c) /\ g.depths = f.depths /\ g.todo = todo
      /\ g.open # <<>> /\ g.open[Len(g.open)] = c
  BY <1>5, Scopes
<1> HIDE DEF g
<1>7. ~IsDisc(c) /\ ~HasBase(c) /\ Temporaries(c) = 0 /\ c.kind # "var" /\ Declares(c) /\ Deeper(c) = 1
  BY <1>3 DEF IsDisc, HasBase, Temporaries, Declares, Deeper, IsScope
<1>8. Proper(c)
  BY <1>3, <1>7, FreshIsProper
<1>9. Placed(c, Len(f.locals), 0)
  BY <1>3, <1>7, FreshPlaced
<1>10. ~InExpression(f) /\ ~InExpression(g) /\ f.todo # "value"
  BY <1>6 DEF Statement, InExpression
<1>11. Quiet(f)
  <2>1. DiscsOK(f)
    BY <1>1, SoundFacts DEF Base
  <2>2. QED
    BY <1>1, <1>10, <2>1, QuietIf
<1>12. Quiet(g)
  BY <1>2, <1>3, <1>6, <1>7, <1>11, QuietAppend DEF Quiet
<1>13. DiscsOK(g) /\ Pending(g) = 0 /\ Pending(f) = 0
  BY <1>11, <1>12, QuietMeans
<1>14. ASSUME NEW temps \in Nat, Stands(f, temps)
       PROVE  Placed(c, Len(f.locals), temps) /\ Stands(g, temps + Temporaries(c))
  <2>1. temps = 0
    BY <1>10, <1>14 DEF Stands
  <2>2. Stands(f, 0)
    BY <1>14, <2>1
  <2>3. ValueHeight(f) = 0 /\ ValueHeight(g) = 0
    BY <1>6, <1>10 DEF ValueHeight
  <2>4. g.depths \subseteq {Len(g.locals) + 0 + 0}
    BY <1>6, <2>2, <2>3 DEF Stands
  <2>5. Stands(g, 0)
    BY <1>6, <1>7, <2>3, <2>4 DEF Stands
  <2>6. temps + Temporaries(c) = 0
    BY <1>7, <2>1, Arithmetic, Zenon
  <2>7. QED
    BY <1>9, <2>1, <2>5, <2>6
<1>15. FrameOK(g, Base(Level), NoCaseDeclarations /\ ~hadError')
  <2>1. g.scopeDepth = f.scopeDepth + Deeper(c)
    BY <1>6, <1>7
  <2>2. QED
    BY <1>1, <1>3, <1>6, <1>7, <1>8, <1>13, <1>14, <2>1, EnterFrame
<1>16. checkDepth' = checkDepth + 1 /\ vars' = vars
  BY DEF BeginCheckScope
<1>17. \A off \in Nat : ScopeOK(f, vars, checkDepth, Level, off, NoLocalFunctions)
          => ScopeOK(g, vars', checkDepth', Level, off, NoLocalFunctions /\ ~hadError')
  <2>1. g.todo # "method"
    BY <1>6
  <2>2. QED
    BY <1>1, <1>2, <1>6, <1>13, <1>16, <2>1, ScopeDeepens
<1>18. vars' \in Seq(Variable) /\ checkDepth' \in Nat
  <2>1. checkDepth + 1 \in Nat
    BY <1>1, Arithmetic, Zenon
  <2>2. QED
    BY <1>1, <1>16, <2>1
<1>19. Flags
  BY EmissionFlags
<1>20. QED
  BY <1>6, <1>15, <1>17, <1>18, <1>19, SetFrame DEF g, mid, c

LEMMA BlockKeeps ==
  ASSUME Compiles, Block
  PROVE  CInv'
<1>1. /\ Statement /\ Set(BeginScope(Enter(Open("block", ""), "decl")))
      /\ BeginCheckScope /\ NoJump
  BY DEF Block, Begins
<1>2. QED
  BY <1>1, ScopeBegins

LEMMA ForKeeps ==
  ASSUME Compiles, For
  PROVE  CInv'
<1>1. PICK todo \in {"init", "done"} : Set(BeginScope(Enter(Open("for", ""), todo)))
  BY DEF For
<1>2. Statement /\ BeginCheckScope /\ NoJump /\ todo \in {"decl", "init", "done"}
  BY DEF For, Begins
<1>3. QED
  BY <1>1, <1>2, ScopeBegins
----------------------------------------------------------------------------
(* The switch: its discriminant is a local of the compiler's only.         *)

LEMMA DiscOnTop ==
  ASSUME NEW f \in Frame, NEW g, Quiet(f), NEW c \in Construct, IsDisc(c),
         g.open = Append(f.open, c), InExpression(g)
  PROVE  DiscsOK(g) /\ Pending(g) = 1
<1> DEFINE n == Len(f.open)
<1>1. Extends(f.open, g.open, c)
  BY FrameFields, AppendExtends
<1>2. /\ n \in Nat /\ DOMAIN f.open = 1 .. n /\ DOMAIN g.open = 1 .. n + 1
      /\ \A i \in 1 .. n : g.open[i] = f.open[i]
      /\ g.open[n + 1] = c
  BY <1>1, FrameFields, Elements DEF Extends
<1> HIDE DEF n
<1>3. ~Quiet(g)
  <2>1. n + 1 \in DOMAIN g.open
    BY <1>2
  <2>2. QED
    BY <1>2, <2>1 DEF Quiet
<1>4. ASSUME NEW i \in DOMAIN g.open, IsDisc(g.open[i])
      PROVE  \A j \in DOMAIN g.open : ~(i < j)
  <2>1. i \notin 1 .. n
    BY <1>2, <1>4 DEF Quiet
  <2>2. QED
    BY <1>2, <2>1
<1>5. DiscsOK(g)
  BY <1>4 DEF DiscsOK
<1>6. QED
  BY <1>3, <1>5 DEF Pending

LEMMA BelowTheDisc ==
  ASSUME NEW f \in Frame, f.open # <<>>, DiscsOK(f), IsDisc(Last(f.open))
  PROVE  Pending(f) = 1 /\ \A i \in DOMAIN Front(f.open) : ~IsDisc(Front(f.open)[i])
<1> DEFINE n == Len(Front(f.open))
<1>1. Extends(Front(f.open), f.open, Last(f.open))
  BY FrameFields, FrontExtends
<1>2. /\ n \in Nat /\ DOMAIN Front(f.open) = 1 .. n /\ DOMAIN f.open = 1 .. n + 1
      /\ \A i \in 1 .. n : f.open[i] = Front(f.open)[i]
      /\ f.open[n + 1] = Last(f.open)
  BY <1>1, FrameFields, FrontExtends, Elements DEF Extends
<1> HIDE DEF n
<1>3. n + 1 \in DOMAIN f.open
  BY <1>2
<1>4. ~Quiet(f)
  BY <1>2, <1>3 DEF Quiet
<1>5. Last(f.open).kind = "switch"
  BY DEF IsDisc
<1>6. ASSUME NEW i \in DOMAIN Front(f.open), IsDisc(Front(f.open)[i]) PROVE FALSE
  <2>1. i \in DOMAIN f.open /\ IsDisc(f.open[i]) /\ i < n + 1
    BY <1>2, <1>6
  <2>2. f.open[n + 1].kind \in {"operands", "logical"}
    BY <1>3, <2>1 DEF DiscsOK
  <2>3. QED
    BY <1>2, <1>5, <2>2
<1>7. QED
  BY <1>4, <1>6 DEF Pending

LEMMA ScopeAwaits ==
  ASSUME NEW f, NEW g, f.scopeDepth \in Nat, checkDepth \in Nat,
         g.scopeDepth = f.scopeDepth + 1, g.locals = f.locals, Pending(f) = 0, Pending(g) = 1,
         g.todo # "method", checkDepth' = checkDepth, vars' = vars
  PROVE  \A off \in Nat : ScopeOK(f, vars, checkDepth, Level, off, NoLocalFunctions)
            => ScopeOK(g, vars', checkDepth', Level, off, NoLocalFunctions /\ ~hadError')
<1> DEFINE d == f.scopeDepth
<1>1. d \in Nat /\ g.scopeDepth = d + 1
  OBVIOUS
<1> SUFFICES ASSUME NEW off \in Nat, ScopeOK(f, vars, checkDepth, Level, off, NoLocalFunctions)
             PROVE  ScopeOK(g, vars', checkDepth', Level, off, NoLocalFunctions /\ ~hadError')
  OBVIOUS
<1>2. checkDepth + 0 = off + d
  BY DEF ScopeOK
<1> HIDE DEF d
<1>3. checkDepth + 1 = off + (d + 1)
  BY <1>1, <1>2
<1>4. checkDepth' + Pending(g) = off + g.scopeDepth
  BY <1>1, <1>3
<1>5. QED
  BY <1>4 DEF ScopeOK

LEMMA ScopeFollows ==
  ASSUME NEW f, NEW g, f.scopeDepth \in Nat, checkDepth \in Nat,
         g.scopeDepth = f.scopeDepth, Pending(f) = 1, Pending(g) = 0,
         g.todo # "method", checkDepth' = checkDepth + 1, vars' = vars,
         \A off \in Nat : NoLocalFunctions /\ ~hadError' /\ Agree(f.locals, vars, Level, off) =>
            Agree(g.locals, vars, Level, off)
  PROVE  \A off \in Nat : ScopeOK(f, vars, checkDepth, Level, off, NoLocalFunctions)
            => ScopeOK(g, vars', checkDepth', Level, off, NoLocalFunctions /\ ~hadError')
<1> DEFINE d == f.scopeDepth
<1>1. d \in Nat /\ g.scopeDepth = d
  OBVIOUS
<1> SUFFICES ASSUME NEW off \in Nat, ScopeOK(f, vars, checkDepth, Level, off, NoLocalFunctions)
             PROVE  ScopeOK(g, vars', checkDepth', Level, off, NoLocalFunctions /\ ~hadError')
  OBVIOUS
<1>2. checkDepth + 1 = off + d
  BY DEF ScopeOK
<1> HIDE DEF d
<1>3. checkDepth + 1 + 0 = off + d
  BY <1>1, <1>2
<1>4. checkDepth' + Pending(g) = off + g.scopeDepth
  BY <1>1, <1>3
<1>5. QED
  BY <1>4 DEF ScopeOK

LEMMA SwitchKeeps ==
  ASSUME Compiles, Switch
  PROVE  CInv'
<1> DEFINE f == Current
           c == Open("switch", "disc")
           mid == Enter(c, "expr")
           g == BeginScope(mid)
<1>1. Statement /\ Set(g) /\ NoJump /\ checkDepth' = checkDepth /\ vars' = vars
  BY DEF Switch, Begins, Emit, SameScope
<1>2. /\ f \in Frame /\ FrameOK(f, Base(Level), NoCaseDeclarations)
      /\ vars \in Seq(Variable) /\ checkDepth \in Nat
  BY CurrentFacts
<1>3. f.locals \in Seq(Local) /\ f.scopeDepth \in Nat /\ f.open \in Seq(Construct)
  BY <1>2, FrameFields
<1>4. /\ c \in Construct /\ c.kind = "switch" /\ c.stage = "disc" /\ c.exit = {} /\ c.bodies = {}
      /\ c.breaks = {} /\ c.breakCount = 0 /\ c.arrivals = {}
  BY DEF Open, Construct, Kinds
<1> HIDE DEF c
<1>5. "expr" \in Todo
  BY DEF Todo
<1>6. /\ mid \in Frame /\ mid.locals = f.locals /\ mid.scopeDepth = f.scopeDepth
      /\ mid.open = Append(f.open, c) /\ mid.depths = f.depths /\ mid.todo = "expr"
  BY <1>2, <1>4, <1>5, Enters
<1> HIDE DEF mid
<1>7. /\ g \in Frame /\ g.locals = f.locals /\ g.scopeDepth = f.scopeDepth + 1
      /\ g.open = Append(f.open, c) /\ g.depths = f.depths /\ g.todo = "expr"
  BY <1>6, Scopes
<1> HIDE DEF g
<1>8. IsDisc(c) /\ ~HasBase(c) /\ Temporaries(c) = 0 /\ c.kind # "var" /\ Deeper(c) = 1
  BY <1>4 DEF IsDisc, HasBase, Temporaries, Deeper, IsScope
<1>9. Proper(c)
  BY <1>4, <1>8, FreshIsProper
<1>10. Placed(c, Len(f.locals), 0)
  BY <1>4, <1>8, FreshPlaced
<1>11. ~InExpression(f) /\ InExpression(g) /\ f.todo # "value"
  BY <1>1, <1>7 DEF Statement, InExpression
<1>12. Quiet(f)
  <2>1. DiscsOK(f)
    BY <1>2, SoundFacts DEF Base
  <2>2. QED
    BY <1>2, <1>11, <2>1, QuietIf
<1>13. DiscsOK(g) /\ Pending(g) = 1 /\ Pending(f) = 0
  BY <1>2, <1>4, <1>7, <1>8, <1>11, <1>12, DiscOnTop, QuietMeans
<1>14. ASSUME NEW temps \in Nat, Stands(f, temps)
       PROVE  Placed(c, Len(f.locals), temps) /\ Stands(g, temps + Temporaries(c))
  <2>1. temps = 0
    BY <1>11, <1>14 DEF Stands
  <2>2. Stands(f, 0)
    BY <1>14, <2>1
  <2>3. ValueHeight(f) = 0 /\ ValueHeight(g) = 0
    BY <1>7, <1>11 DEF ValueHeight
  <2>4. g.depths \subseteq {Len(g.locals) + 0 + 0}
    BY <1>7, <2>2, <2>3 DEF Stands
  <2>5. Stands(g, 0)
    BY <1>7, <1>11, <2>3, <2>4 DEF Stands
  <2>6. temps + Temporaries(c) = 0
    BY <1>8, <2>1, Arithmetic, Zenon
  <2>7. QED
    BY <1>10, <2>1, <2>5, <2>6
<1>15. FrameOK(g, Base(Level), NoCaseDeclarations /\ ~hadError')
  <2>1. g.scopeDepth = f.scopeDepth + Deeper(c)
    BY <1>7, <1>8
  <2>2. QED
    BY <1>2, <1>4, <1>7, <1>8, <1>9, <1>13, <1>14, <2>1, EnterFrame
<1>16. \A off \in Nat : ScopeOK(f, vars, checkDepth, Level, off, NoLocalFunctions)
          => ScopeOK(g, vars', checkDepth', Level, off, NoLocalFunctions /\ ~hadError')
  <2>1. g.todo # "method"
    BY <1>7
  <2>2. QED
    BY <1>1, <1>2, <1>3, <1>7, <1>13, <2>1, ScopeAwaits
<1>17. Flags
  BY <1>1, EmissionFlags
<1>18. QED
  BY <1>1, <1>2, <1>7, <1>15, <1>16, <1>17, SetFrame DEF f

LEMMA SwitchTestsKeeps ==
  ASSUME Compiles, SwitchTests
  PROVE  CInv'
<1> DEFINE f == Current
           h == IF Full(f) THEN f ELSE AddLocal(f, NULL)
           list == h.locals
           c == [Top EXCEPT !.stage = "test", !.base = Len(list)]
           mid == GoOn(c, Heights, "done")
           g == [mid EXCEPT !.locals = list]
           x == [name |-> NULL, depth |-> f.scopeDepth]
<1>1. /\ Current.todo = "value" /\ Top.kind = "switch" /\ Top.stage = "disc"
      /\ Set(g) /\ (IF Full(f) THEN Error ELSE NoJump)
      /\ checkDepth' = checkDepth + 1 /\ vars' = vars
  BY DEF SwitchTests, At, BeginCheckScope
<1>2. /\ f \in Frame /\ Heights \in SUBSET Int /\ Len(f.locals) \in Nat
      /\ f.open # <<>> /\ Top \in Construct
  BY <1>1, Here
<1>3. /\ FrameOK(f, Base(Level), NoCaseDeclarations) /\ Top = Last(f.open)
      /\ vars \in Seq(Variable) /\ checkDepth \in Nat
  BY <1>2, CurrentFacts
<1>4. f.locals \in Seq(Local) /\ f.scopeDepth \in Nat /\ f.open \in Seq(Construct)
  BY <1>2, FrameFields
<1>5. /\ LocalsOK(f.locals, f.scopeDepth) /\ DiscsOK(f) /\ Proper(Last(f.open))
      /\ f.scopeDepth >= Base(Level) + Deeper(Last(f.open))
  BY <1>2, <1>3, SoundFacts DEF Base
<1>6. IsDisc(Top) /\ Deeper(Last(f.open)) = 1 /\ Temporaries(Top) = 0 /\ ~HasBase(Top) /\ IsBare(Top)
  BY <1>1, <1>3 DEF IsDisc, Deeper, IsScope, Temporaries, HasBase, IsBare
<1>7. f.scopeDepth \in Nat \ {0}
  BY <1>4, <1>5, <1>6 DEF Base
<1>8. x \in Local /\ x.depth = f.scopeDepth
  BY <1>4 DEF Local
<1>9. Flags /\ (Full(f) => hadError')
  BY <1>1, EmissionFlags
<1>10. ASSUME Full(f) PROVE list = f.locals
  BY <1>10
<1>11. ASSUME ~Full(f) PROVE list = Append(f.locals, x)
  <2>1. AddLocal(f, NULL) = [f EXCEPT !.locals = Append(f.locals, x)]
    BY DEF AddLocal
  <2>2. [f EXCEPT !.locals = Append(f.locals, x)].locals = Append(f.locals, x)
    BY <1>2 DEF Frame
  <2>3. QED
    BY <1>11, <2>1, <2>2
<1> HIDE DEF h, list
<1>12. /\ LocalsOK(list, f.scopeDepth) /\ SameBelow(f.locals, list, f.scopeDepth)
       /\ list \in Seq(Local) /\ (~Full(f) => Len(list) = Len(f.locals) + 1)
  <2>1. CASE Full(f)
    BY <1>4, <1>5, <1>10, <2>1, SameBelowItself
  <2>2. CASE ~Full(f)
    <3>1. ~(Len(f.locals) >= MaxLocals)
      BY <2>2 DEF Full
    <3> HIDE DEF x
    <3>2. /\ LocalsOK(Append(f.locals, x), f.scopeDepth)
          /\ SameBelow(f.locals, Append(f.locals, x), f.scopeDepth)
          /\ Append(f.locals, x) \in Seq(Local) /\ Len(Append(f.locals, x)) = Len(f.locals) + 1
      BY <1>4, <1>5, <1>7, <1>8, <3>1, LocalsAppend
    <3>3. QED
      BY <1>11, <2>2, <3>2
  <2>3. QED
    BY <2>1, <2>2
<1>13. Len(list) \in Nat
  BY <1>12, LocalFields
<1>14. /\ c \in Construct /\ c.kind = "switch" /\ c.stage = "test" /\ c.base = Len(list)
       /\ c.exit = Top.exit /\ c.bodies = Top.bodies /\ c.breaks = Top.breaks
       /\ c.arrivals = Top.arrivals /\ c.breakCount = Top.breakCount
  BY <1>1, <1>2, <1>13 DEF Construct
<1> HIDE DEF c
<1>15. "done" \in Todo
  BY DEF Todo
<1>16. /\ mid \in Frame /\ mid.scopeDepth = f.scopeDepth
       /\ mid.open = Append(Front(f.open), c) /\ mid.depths = Heights /\ mid.todo = "done"
  BY <1>2, <1>14, <1>15, GoesOn
<1> HIDE DEF mid
<1>17. /\ g \in Frame /\ g.locals = list /\ g.scopeDepth = f.scopeDepth
       /\ g.open = Append(Front(f.open), c) /\ g.depths = Heights /\ g.todo = "done"
  BY <1>12, <1>16 DEF Frame
<1> HIDE DEF g
<1>18. Pending(f) = 1 /\ \A i \in DOMAIN Front(f.open) : ~IsDisc(Front(f.open)[i])
  BY <1>2, <1>3, <1>5, <1>6, BelowTheDisc
<1>19. ~IsDisc(c) /\ HasBase(c) /\ ~IsBare(c) /\ Temporaries(c) = 0 /\ Deeper(c) = 1 /\ c.kind # "var"
  BY <1>14 DEF IsDisc, HasBase, IsBare, Declares, IsDisc, Temporaries, Deeper, IsScope
<1>20. Quiet(g)
  <2>1. Front(f.open) \in Seq(Construct)
    BY <1>2, <1>4, FrontExtends
  <2>2. QED
    BY <1>14, <1>17, <1>18, <1>19, <2>1, QuietAppend DEF Quiet
<1>21. DiscsOK(g) /\ Pending(g) = 0
  BY <1>20, QuietMeans
<1>22. Proper(c)
  BY <1>3, <1>5, <1>14, <1>19 DEF Proper
<1>23. ASSUME ~hadError', NEW temps \in Nat, Placed(Last(f.open), Len(f.locals), temps),
              Stands(f, temps + Temporaries(Last(f.open)))
       PROVE  Placed(c, Len(g.locals), temps) /\ Stands(g, temps + Temporaries(c))
  <2>1. Top.kind \notin {"operands", "logical"}
    BY <1>1
  <2>2. temps = 0 /\ InPlace
    BY <1>2, <1>3, <1>23, <2>1, StandsMeans DEF f
  <2>3. Heights \subseteq {Len(f.locals) + 0 + 1}
    BY <1>1, <1>6, <2>2 DEF InPlace, ValueHeight
  <2>4. Len(list) = Len(f.locals) + 1
    BY <1>9, <1>12, <1>23
  <2>5. Len(f.locals) + 0 + 1 = Len(list)
    BY <1>2, <2>4, Arithmetic, Zenon
  <2>6. Heights \subseteq {Len(list)}
    BY <2>3, <2>5
  <2>7. Top.breaks = {} /\ Top.bodies = {} /\ Top.arrivals = {} /\ Top.exit = {}
    BY <1>6, <2>2, LabelsHere
  <2>8. Placed(c, Len(list), 0)
    BY <1>13, <1>14, <1>19, <2>7, PlacedIf
  <2>9. ValueHeight(g) = 0 /\ g.todo # "init" /\ ~InExpression(g)
    BY <1>17 DEF ValueHeight, InExpression
  <2>10. Len(list) + 0 + 0 = Len(list)
    BY <1>13
  <2>11. Stands(g, 0)
    BY <1>17, <2>6, <2>9, <2>10 DEF Stands
  <2>12. temps + Temporaries(c) = 0
    BY <1>19, <2>2, Arithmetic, Zenon
  <2>13. QED
    BY <1>17, <2>2, <2>8, <2>11, <2>12
<1>24. FrameOK(g, Base(Level), NoCaseDeclarations /\ ~hadError')
  <2>1. /\ LocalsOK(g.locals, g.scopeDepth) /\ Deeper(c) = Deeper(Last(f.open))
        /\ SameBelow(f.locals, g.locals, f.scopeDepth) /\ Deeper(c) = 1
    BY <1>6, <1>12, <1>17, <1>19
  <2>2. QED
    BY <1>2, <1>3, <1>14, <1>17, <1>19, <1>21, <1>22, <1>23, <2>1, GoOnFrame
<1>25. \A off \in Nat : NoLocalFunctions /\ ~hadError' /\ Agree(f.locals, vars, Level, off) =>
          Agree(g.locals, vars, Level, off)
  <2> SUFFICES ASSUME NEW off \in Nat, ~hadError', Agree(f.locals, vars, Level, off)
               PROVE  Agree(Append(f.locals, [name |-> NULL, depth |-> f.scopeDepth]), vars, Level, off)
    BY <1>9, <1>11, <1>17
  <2>1. QED
    BY <1>3, <1>4, <1>5, AgreeUnnamed
<1>26. \A off \in Nat : ScopeOK(f, vars, checkDepth, Level, off, NoLocalFunctions)
          => ScopeOK(g, vars', checkDepth', Level, off, NoLocalFunctions /\ ~hadError')
  <2>1. g.todo # "method"
    BY <1>17
  <2>2. QED
    BY <1>1, <1>3, <1>4, <1>17, <1>18, <1>21, <1>25, <2>1, ScopeFollows
<1>27. vars' \in Seq(Variable) /\ checkDepth' \in Nat
  <2>1. checkDepth + 1 \in Nat
    BY <1>3, Arithmetic, Zenon
  <2>2. QED
    BY <1>1, <1>3, <2>1
<1>28. QED
  BY <1>1, <1>9, <1>17, <1>24, <1>26, <1>27, SetFrame DEF f

LEMMA CompoundKeeps ==
  ASSUME Compiles, Compound
  PROVE  CInv'
  BY BlockKeeps, BlockEndsKeeps, IfKeeps, IfThenKeeps, IfElseKeeps, IfEndsKeeps,
     WhileKeeps, WhileBodyKeeps, RepeatKeeps, WhileEndsKeeps,
     DoWhileKeeps, DoWhileCondKeeps, DoWhileRepeatsKeeps, DoWhileEndsKeeps,
     ForKeeps, ForCondKeeps, ForExitKeeps, ForIncrKeeps, ForIncrEndsKeeps, ForEndsKeeps,
     SwitchKeeps, SwitchTestsKeeps, TestKeeps, TestEndsKeeps,
     BodiesKeeps, CaseBodyKeeps, DefaultBodyKeeps, SwitchEndsKeeps DEF Compound
----------------------------------------------------------------------------
(* Functions begin and end.                                                *)

LEMMA IsSequence ==
  ASSUME NEW S, NEW n \in Nat, NEW s \in [1 .. n -> S]
  PROVE  s \in Seq(S) /\ Len(s) = n
<1>1. s \in Seq(S)
  BY SeqDef
<1>2. Len(s) \in Nat /\ DOMAIN s = 1 .. Len(s) /\ DOMAIN s = 1 .. n
  BY <1>1, LenProperties
<1>3. Len(s) = n
  <2>1. CASE Len(s) < n
    <3>1. n \in 1 .. n /\ n \notin 1 .. Len(s)
      BY <1>2, <2>1
    <3>2. QED
      BY <1>2, <3>1
  <2>2. CASE n < Len(s)
    <3>1. Len(s) \in 1 .. Len(s) /\ Len(s) \notin 1 .. n
      BY <1>2, <2>2
    <3>2. QED
      BY <1>2, <3>1
  <2>3. QED
    BY <1>2, <2>1, <2>2
<1>4. QED
  BY <1>1, <1>3

(* A list of names without a statement open in it.                         *)
LEMMA EmptyFrame ==
  ASSUME NEW f \in Frame, NEW base \in Nat, NEW s, f.open = <<>>, f.scopeDepth = base,
         LocalsOK(f.locals, base), s => Stands(f, 0)
  PROVE  FrameOK(f, base, s) /\ Quiet(f)
<1> DEFINE sc == [n \in Nat |-> base]
           t == [n \in Nat |-> 0]
<1>1. Len(f.open) = 0 /\ DOMAIN f.open = {}
  <2>1. f.open \in Seq(Construct)
    BY FrameFields
  <2>2. Len(f.open) = 0 /\ DOMAIN f.open = 1 .. Len(f.open)
    BY <2>1, Elements
  <2>3. QED
    BY <2>2
<1>2. sc \in [Nat -> Nat] /\ t \in [Nat -> Nat] /\ sc[0] = base /\ t[0] = 0
  OBVIOUS
<1> HIDE DEF sc, t
<1>3. Nested(f.open, base, sc)
  <2>1. 0 .. Len(f.open) = {0}
    BY <1>1
  <2>2. \A i, j \in 0 .. Len(f.open) : sc[i] <= sc[j]
    BY <1>2, <2>1
  <2>3. QED
    BY <1>1, <1>2, <2>2 DEF Nested
<1>4. Quiet(f)
  BY <1>1 DEF Quiet
<1>5. DiscsOK(f)
  BY <1>4, QuietMeans
<1>6. Sound(f, base, sc)
  BY <1>1, <1>2, <1>3, <1>5 DEF Sound
<1>7. Stacked(f.open, f.locals, sc, t)
  BY <1>1, <1>2 DEF Stacked
<1>8. s => Straight(f, sc, t)
  BY <1>1, <1>2, <1>7 DEF Straight
<1>9. QED
  BY <1>4, <1>6, <1>8 DEF FrameOK

(* What a function starts with.                                            *)
LEMMA ParamsAre ==
  ASSUME NEW params \in Params
  PROVE  /\ Len(params) \in {0, 1} /\ DOMAIN params = 1 .. Len(params)
         /\ \A i \in 1 .. Len(params) : i = 1 /\ params[1] \in Names
<1>1. CASE params = <<>>
  <2>1. Len(params) = 0 /\ DOMAIN params = 1 .. 0
    BY <1>1
  <2>2. QED
    BY <2>1
<1>2. CASE params # <<>>
  <2>1. PICK n \in Names : params = <<n>>
    BY <1>2 DEF Params
  <2>2. Len(params) = 1 /\ DOMAIN params = 1 .. 1 /\ params[1] = n
    BY <2>1
  <2>3. QED
    BY <2>2
<1>3. QED
  BY <1>1, <1>2

LEMMA NewLocals ==
  ASSUME NEW slot0 \in {NULL, This}, NEW params \in Params
  PROVE  LET list == NewFunction(slot0, params).locals
         IN  /\ list \in Seq(Local) /\ LocalsOK(list, 1)
             /\ list[1].name = slot0
             /\ Len(params) < MaxLocals => Len(list) = Len(params) + 1
             /\ \A i \in 2 .. Len(list) : i = 2 /\ list[2].name = params[1] /\ list[2].depth = 1
                                          /\ list[2].name \in Names
<1> DEFINE first == [name |-> slot0, depth |-> 0]
           D == {j \in DOMAIN params : j < MaxLocals}
           k == IF Len(params) < MaxLocals THEN Len(params) ELSE 0
           p == [i \in D |-> [name |-> params[i], depth |-> 1]]
           list == <<first>> \o p
<1>1. /\ Len(params) \in {0, 1} /\ DOMAIN params = 1 .. Len(params)
      /\ \A i \in 1 .. Len(params) : i = 1 /\ params[1] \in Names
  BY ParamsAre
<1>2. MaxLocals \in Nat \ {0}
  BY CompilerAssumption
<1>3. D = 1 .. k /\ k \in {0, 1} /\ k < MaxLocals /\ k <= Len(params)
  BY <1>1, <1>2
<1>20. Len(params) < MaxLocals => k = Len(params)
  OBVIOUS
<1> HIDE DEF k
<1>4. p \in [1 .. k -> Local]
  BY <1>1, <1>3 DEF Local
<1>5. p \in Seq(Local) /\ Len(p) = k /\ \A i \in 1 .. k : p[i].name = params[i] /\ p[i].depth = 1
  BY <1>3, <1>4, IsSequence
<1>6. NewFunction(slot0, params).locals = list
  BY DEF NewFunction
<1>7. first \in Local /\ first.depth = 0 /\ first.name = slot0
  BY DEF Local
<1> HIDE DEF first, p, D
<1>8. <<first>> \in Seq(Local) /\ Len(<<first>>) = 1 /\ <<first>>[1] = first
  BY <1>7
<1>9. /\ list \in Seq(Local) /\ Len(list) = 1 + k
      /\ \A i \in 1 .. 1 + k : list[i] = IF i <= 1 THEN <<first>>[i] ELSE p[i - 1]
  BY <1>5, <1>8, ConcatProperties
<1>10. list[1] = first
  <2>1. 1 \in 1 .. 1 + k
    BY <1>3
  <2>2. QED
    BY <1>8, <1>9, <2>1
<1>11. k = 1 => list[2] = p[1]
  <2>1. ASSUME k = 1 PROVE list[2] = p[1]
    <3>1. 2 \in 1 .. 1 + k /\ ~(2 <= 1) /\ 2 - 1 = 1
      BY <2>1
    <3>2. QED
      BY <1>9, <3>1
  <2>2. QED
    BY <2>1
<1>12. DOMAIN list = 1 .. 1 + k
  BY <1>9, Elements
<1> HIDE DEF list
<1>13. \A i \in 1 .. 1 + k : i = 1 \/ (i = 2 /\ k = 1)
  BY <1>3
<1>14. k = 1 => /\ list[2].name = params[1] /\ list[2].depth = 1 /\ params[1] \in Names
  BY <1>1, <1>3, <1>5, <1>11
<1>15. LocalsOK(list, 1)
  <2>1. Len(list) \in 1 .. MaxLocals
    BY <1>2, <1>3, <1>9
  <2>2. \A i \in DOMAIN list : (i = 1 /\ list[i].depth = 0) \/ (i = 2 /\ list[i].depth = 1)
    BY <1>7, <1>10, <1>12, <1>13, <1>14
  <2>3. QED
    BY <1>7, <1>10, <2>1, <2>2 DEF LocalsOK
<1>16. \A i \in 2 .. Len(list) : i = 2 /\ list[2].name = params[1] /\ list[2].depth = 1
                                  /\ list[2].name \in Names
  <2>1. \A i \in 2 .. 1 + k : i = 2 /\ k = 1
    BY <1>3
  <2>2. QED
    BY <1>9, <1>14, <2>1
<1>17. Len(params) < MaxLocals => Len(list) = Len(params) + 1
  BY <1>1, <1>3, <1>9, <1>20
<1>18. QED
  BY <1>6, <1>7, <1>9, <1>10, <1>15, <1>16, <1>17

LEMMA NewFrame ==
  ASSUME NEW slot0 \in {NULL, This}, NEW params \in Params, NEW s,
         s => Len(params) < MaxLocals
  PROVE  LET g == NewFunction(slot0, params)
         IN  g \in Frame /\ FrameOK(g, 1, s) /\ Pending(g) = 0 /\ g.todo = "decl" /\ g.scopeDepth = 2
<1> DEFINE g == NewFunction(slot0, params)
           c == Open("block", "")
           list == g.locals
           f == [locals |-> list, scopeDepth |-> 1, open |-> <<>>,
                 depths |-> {Len(params) + 1}, todo |-> "decl"]
<1>1. Len(params) \in {0, 1}
  BY ParamsAre
<1>2. /\ list \in Seq(Local) /\ LocalsOK(list, 1)
      /\ s => Len(list) = Len(params) + 1
  BY NewLocals
<1>3. /\ c \in Construct /\ c.kind = "block" /\ c.stage = "" /\ c.exit = {} /\ c.bodies = {}
      /\ c.breaks = {} /\ c.breakCount = 0 /\ c.arrivals = {}
  BY DEF Open, Construct, Kinds
<1>4. /\ g.scopeDepth = 2 /\ g.open = <<c>> /\ g.depths = {Len(params) + 1} /\ g.todo = "decl"
      /\ g = [locals |-> list, scopeDepth |-> 2, open |-> <<c>>,
              depths |-> {Len(params) + 1}, todo |-> "decl"]
  BY DEF NewFunction
<1> HIDE DEF g, c, list
<1>5. {Len(params) + 1} \in SUBSET Int /\ "decl" \in Todo
  BY <1>1 DEF Todo
<1>6. <<>> \in Seq(Construct) /\ <<c>> \in Seq(Construct) /\ <<c>> = Append(<<>>, c)
  <2>5. c \in Construct
    BY <1>3
  <2>6. <<>> \in Seq(Construct)
    BY EmptySeq
  <2>7. <<c>> \in Seq(Construct)
    BY <2>5
  <2>8. Len(<<c>>) = 1 /\ <<c>>[1] = c
    OBVIOUS
  <2>1. <<>> \in Seq(Construct) /\ <<c>> \in Seq(Construct) /\ Len(<<c>>) = 1 /\ <<c>>[1] = c
    BY <2>6, <2>7, <2>8
  <2>2. Append(<<>>, c) \in Seq(Construct) /\ Extends(<<>>, Append(<<>>, c), c)
    BY <1>3, <2>1, AppendExtends
  <2>3. Len(Append(<<>>, c)) = 1 /\ Append(<<>>, c)[1] = c
    BY <2>2 DEF Extends
  <2>4. QED
    BY <2>1, <2>2, <2>3, SeqEqual
<1>7. g \in Frame
  BY <1>2, <1>4, <1>5, <1>6 DEF Frame
<1>8. /\ f \in Frame /\ f.locals = list /\ f.scopeDepth = 1 /\ f.open = <<>>
      /\ f.depths = {Len(params) + 1} /\ f.todo = "decl"
  BY <1>2, <1>5, <1>6 DEF Frame
<1>9. g.locals = list
  BY DEF list
<1> HIDE DEF f
<1>10. ASSUME s PROVE {Len(params) + 1} \subseteq {Len(list) + 0 + 0}
  BY <1>1, <1>2, <1>10
<1>11. s => Stands(f, 0) /\ Stands(g, 0)
  BY <1>4, <1>8, <1>9, <1>10 DEF Stands, ValueHeight, InExpression
<1>12. FrameOK(f, 1, s) /\ Quiet(f)
  BY <1>2, <1>8, <1>11, EmptyFrame
<1>13. ~IsDisc(c) /\ ~HasBase(c) /\ Temporaries(c) = 0 /\ Deeper(c) = 1 /\ Proper(c)
  BY <1>3, FreshIsProper DEF IsDisc, HasBase, Temporaries, Deeper, IsScope
<1>14. Quiet(g)
  <2>1. f.open \in Seq(Construct) /\ g.open = Append(f.open, c)
    BY <1>4, <1>6, <1>8
  <2>2. QED
    BY <1>3, <1>12, <1>13, <2>1, QuietAppend DEF Quiet
<1>15. DiscsOK(g) /\ Pending(g) = 0
  BY <1>14, QuietMeans
<1>16. \A temps \in Nat : Stands(f, temps) => temps = 0
  BY <1>8 DEF Stands, InExpression
<1>17. Placed(c, Len(f.locals), 0)
  BY <1>3, <1>13, FreshPlaced
<1>18. 0 + Temporaries(c) = 0
  BY <1>13
<1>19. s => \A temps \in Nat : Stands(f, temps) =>
               /\ Placed(c, Len(f.locals), temps)
               /\ c.kind = "var" => f.open = <<>> \/ Declares(f.open[Len(f.open)])
               /\ Stands(g, temps + Temporaries(c))
  BY <1>3, <1>11, <1>16, <1>17, <1>18
<1>20. FrameOK(g, 1, s)
  <2>1. /\ g.open = Append(f.open, c) /\ g.locals = f.locals
        /\ g.scopeDepth = f.scopeDepth + Deeper(c)
    BY <1>4, <1>6, <1>8, <1>9, <1>13
  <2>2. QED
    BY <1>3, <1>7, <1>8, <1>12, <1>13, <1>15, <1>19, <2>1, EnterFrame
<1>21. QED
  BY <1>4, <1>7, <1>15, <1>20 DEF g
----------------------------------------------------------------------------
DeclaredFirst(slot0, depth, level) ==
    IF slot0 = NULL THEN <<>>
    ELSE <<[name |-> slot0, depth |-> depth, level |-> level, slot |-> 1]>>
DeclaredParams(params, depth, level) ==
    [i \in DOMAIN params |->
       [name |-> params[i], depth |-> depth, level |-> level, slot |-> i + 1]]

LEMMA DeclaredAre ==
  ASSUME NEW slot0 \in {NULL, This}, NEW params \in Params, NEW depth \in Nat, NEW level \in Nat
  PROVE  LET A == DeclaredFirst(slot0, depth, level)
             B == DeclaredParams(params, depth, level)
             a == IF slot0 = NULL THEN 0 ELSE 1
             b == Len(params)
             ws == A \o B
         IN  /\ ws \in Seq(Variable) /\ Len(ws) = a + b
             /\ a = 1 => ws[1] = [name |-> slot0, depth |-> depth, level |-> level, slot |-> 1]
             /\ b = 1 => ws[a + 1] = [name |-> params[1], depth |-> depth, level |-> level,
                                      slot |-> 2]
<1> DEFINE A == DeclaredFirst(slot0, depth, level)
           B == DeclaredParams(params, depth, level)
           a == IF slot0 = NULL THEN 0 ELSE 1
           b == Len(params)
           ws == A \o B
           x == [name |-> slot0, depth |-> depth, level |-> level, slot |-> 1]
           y == [name |-> params[1], depth |-> depth, level |-> level, slot |-> 2]
<1>1. /\ b \in {0, 1} /\ DOMAIN params = 1 .. b
      /\ \A i \in 1 .. b : i = 1 /\ params[1] \in Names
  BY ParamsAre
<1>2. slot0 # NULL => x \in Variable
  BY DEF Variable
<1>3. A \in Seq(Variable) /\ Len(A) = a /\ (a = 1 => A[1] = x)
  <2>1. CASE slot0 = NULL
    <3>1. A = <<>> /\ a = 0
      BY <2>1 DEF DeclaredFirst
    <3>2. QED
      BY <3>1, EmptySeq
  <2>2. CASE slot0 # NULL
    <3>1. A = <<x>> /\ a = 1 /\ x \in Variable
      BY <1>2, <2>2 DEF DeclaredFirst
    <3> HIDE DEF x, a, A
    <3>2. <<x>> \in Seq(Variable) /\ Len(<<x>>) = 1 /\ <<x>>[1] = x
      BY <3>1
    <3>3. QED
      BY <3>1, <3>2
  <2>3. QED
    BY <2>1, <2>2
<1>4. B \in Seq(Variable) /\ Len(B) = b /\ (b = 1 => B[1] = y)
  <2>1. B = [i \in 1 .. b |->
               [name |-> params[i], depth |-> depth, level |-> level, slot |-> i + 1]]
    BY <1>1 DEF DeclaredParams
  <2>2. B \in [1 .. b -> Variable]
    BY <1>1, <2>1 DEF Variable
  <2>3. B \in Seq(Variable) /\ Len(B) = b
    BY <1>1, <2>2, IsSequence
  <2>4. b = 1 => B[1] = y
    BY <2>1
  <2>5. QED
    BY <2>3, <2>4
<1>5. a \in {0, 1}
  OBVIOUS
<1> HIDE DEF A, B, a, b, x, y
<1>6. /\ ws \in Seq(Variable) /\ Len(ws) = a + b
      /\ \A i \in 1 .. a + b : ws[i] = IF i <= a THEN A[i] ELSE B[i - a]
  BY <1>3, <1>4, ConcatProperties
<1> HIDE DEF ws
<1>7. a = 1 => ws[1] = x
  <2>1. ASSUME a = 1 PROVE 1 \in 1 .. a + b /\ 1 <= a
    BY <1>1, <2>1
  <2>2. QED
    BY <1>3, <1>6, <2>1
<1>8. b = 1 => ws[a + 1] = y
  <2> SUFFICES ASSUME b = 1 PROVE ws[a + 1] = y
    OBVIOUS
  <2> DEFINE k == a + 1
  <2>1. k \in 1 .. a + b /\ ~(k <= a) /\ k - a = 1
    BY <1>5
  <2> HIDE DEF k
  <2>2. ws[k] = B[k - a]
    BY <1>6, <2>1
  <2>3. ws[k] = B[1]
    BY <2>1, <2>2
  <2>4. ws[k] = y
    BY <1>4, <2>3
  <2>5. QED
    BY <2>4 DEF k
<1>9. QED
  BY <1>6, <1>7, <1>8 DEF A, B, a, b, x, y, ws

LEMMA AgreeBegins ==
  ASSUME NEW slot0 \in {NULL, This}, NEW params \in Params, Len(params) < MaxLocals,
         NEW off \in Nat, NEW level \in Nat, level # 1
  PROVE  Agree(NewFunction(slot0, params).locals,
               DeclaredFirst(slot0, off + 1, level) \o DeclaredParams(params, off + 1, level),
               level, off)
<1> DEFINE list == NewFunction(slot0, params).locals
           a == IF slot0 = NULL THEN 0 ELSE 1
           b == Len(params)
           ws == DeclaredFirst(slot0, off + 1, level) \o DeclaredParams(params, off + 1, level)
<1>1. b \in {0, 1} /\ a \in {0, 1} /\ (slot0 # NULL <=> a = 1)
  BY ParamsAre
<1>2. /\ list \in Seq(Local) /\ list[1].name = slot0 /\ Len(list) = b + 1
      /\ \A i \in 2 .. Len(list) : i = 2 /\ list[2].name = params[1] /\ list[2].depth = 1
  BY NewLocals
<1>3. DOMAIN list = 1 .. b + 1
  BY <1>2, Elements
<1>4. off + 1 \in Nat
  OBVIOUS
<1>5. /\ ws \in Seq(Variable) /\ Len(ws) = a + b
      /\ a = 1 => ws[1] = [name |-> slot0, depth |-> off + 1, level |-> level, slot |-> 1]
      /\ b = 1 => ws[a + 1] = [name |-> params[1], depth |-> off + 1, level |-> level, slot |-> 2]
  BY <1>4, DeclaredAre
<1>6. DOMAIN ws = 1 .. a + b
  BY <1>5, Elements
<1> HIDE DEF list, a, b, ws
<1>7. a = 1 => /\ ws[1].name = slot0 /\ ws[1].depth = off + 1 /\ ws[1].level = level
               /\ ws[1].slot = 1
  BY <1>5
<1>8. b = 1 => /\ ws[a + 1].name = params[1] /\ ws[a + 1].depth = off + 1
               /\ ws[a + 1].level = level /\ ws[a + 1].slot = 2
  BY <1>5
<1>9. CheckedDepth(list, 1) = 1 /\ (b = 1 => CheckedDepth(list, 2) = 1 /\ list[2].name = params[1])
  <2>1. b = 1 => 2 \in 2 .. Len(list)
    BY <1>2
  <2>2. QED
    BY <1>2, <2>1 DEF CheckedDepth
<1>10. \A i \in 1 .. a + b : (i = 1 /\ a = 1) \/ (i = a + 1 /\ b = 1)
  BY <1>1
<1>11. ASSUME NEW i \in DOMAIN ws
       PROVE  /\ ws[i].level = level /\ ws[i].slot \in DOMAIN list
              /\ list[ws[i].slot].name = ws[i].name
              /\ ws[i].depth = off + CheckedDepth(list, ws[i].slot)
  <2>1. CASE i = 1 /\ a = 1
    <3>1. 1 \in DOMAIN list
      BY <1>1, <1>3
    <3>2. QED
      BY <1>2, <1>7, <1>9, <2>1, <3>1
  <2>2. CASE i = a + 1 /\ b = 1
    <3>1. 2 \in DOMAIN list
      BY <1>1, <1>3, <2>2
    <3>2. QED
      BY <1>8, <1>9, <2>2, <3>1
  <2>3. QED
    BY <1>6, <1>10, <2>1, <2>2
<1>12. ASSUME NEW i \in DOMAIN ws, NEW j \in DOMAIN ws, i < j PROVE ws[i].slot < ws[j].slot
  <2>1. i = 1 /\ a = 1 /\ j = a + 1 /\ b = 1
    BY <1>1, <1>6, <1>12
  <2>2. ws[i].slot = 1 /\ ws[j].slot = 2
    BY <1>7, <1>8, <2>1
  <2>3. QED
    BY <2>2
<1>13. ASSUME NEW s \in DOMAIN list, list[s].name # NULL PROVE \E i \in DOMAIN ws : ws[i].slot = s
  <2>1. CASE s = 1
    <3>1. a = 1 /\ 1 \in DOMAIN ws
      BY <1>1, <1>2, <1>6, <1>13, <2>1
    <3>2. QED
      BY <1>7, <2>1, <3>1
  <2>2. CASE s # 1
    <3>1. s = 2 /\ b = 1
      BY <1>1, <1>3, <2>2
    <3>2. a + 1 \in DOMAIN ws
      BY <1>1, <1>6, <3>1
    <3>3. QED
      BY <1>8, <3>1, <3>2
  <2>3. QED
    BY <2>1, <2>2
<1>14. Agree(list, ws, level, off)
  BY <1>11, <1>12, <1>13 DEF Agree
<1>15. QED
  BY <1>14 DEF list, ws

LEMMA BeginKeeps ==
  ASSUME Compiles, ~InExpression(Current), NEW slot0 \in {NULL, This}, NEW params \in Params,
         NEW parent \in Frame, parent.locals = Current.locals,
         parent.scopeDepth = Current.scopeDepth, parent.open = Current.open,
         parent.depths = Current.depths, parent.todo \in {"decl", "done", "method"},
         NoLocalFunctions => vars = <<>>,
         Begin(slot0, params, parent)
  PROVE  CInv'
<1> DEFINE f == Current
           g == NewFunction(slot0, params)
           mid == [functions EXCEPT ![Level] = parent]
           declared == DeclaredFirst(slot0, checkDepth + 1, Level + 1)
                       \o DeclaredParams(params, checkDepth + 1, Level + 1)
<1>1. /\ Level \in Nat \ {0} /\ DOMAIN functions = 1 .. Level /\ Level \in DOMAIN functions
      /\ f = functions[Level] /\ f \in Frame /\ FrameOK(f, Base(Level), NoCaseDeclarations)
      /\ functions \in Seq(Frame) /\ result = "none"
      /\ vars \in Seq(Variable) /\ checkDepth \in Nat
  BY CurrentFacts
<1>2. hadError = FALSE
  BY DEF Compiles, CInv, Typed
<1>3. /\ functions' = Append(mid, g) /\ vars' = vars \o declared
      /\ checkDepth' = checkDepth + 2 /\ result' = result
      /\ IF Len(params) + 1 > MaxLocals THEN Error ELSE NoJump
  BY DEF Begin, DeclaredFirst, DeclaredParams
<1>4. Flags /\ (~hadError' => Len(params) < MaxLocals)
  <2>1. Len(params) \in Nat /\ MaxLocals \in Nat
    BY ParamsAre, CompilerAssumption
  <2>2. CASE Len(params) + 1 > MaxLocals
    BY <1>3, <2>2, EmissionFlags
  <2>3. CASE ~(Len(params) + 1 > MaxLocals)
    BY <1>3, <2>1, <2>3, EmissionFlags
  <2>4. QED
    BY <2>2, <2>3
<1>5. /\ g \in Frame /\ Pending(g) = 0 /\ g.todo = "decl" /\ g.scopeDepth = 2
      /\ FrameOK(g, 1, NoCaseDeclarations /\ ~hadError')
  BY <1>4, NewFrame
<1>6. checkDepth + 1 \in Nat /\ checkDepth + 2 \in Nat /\ Level + 1 \in Nat
  BY <1>1
<1>7. declared \in Seq(Variable)
  BY <1>6, DeclaredAre
<1>8. vars' \in Seq(Variable) /\ checkDepth' \in Nat /\ (vars = <<>> => vars' = declared)
  <2>1. vars \o declared \in Seq(Variable) /\ <<>> \o declared = declared
    BY <1>1, <1>7, ConcatProperties, ConcatEmptySeq
  <2>2. QED
    BY <1>3, <1>6, <2>1
<1> HIDE DEF f, g, mid, declared
<1>9. /\ mid \in Seq(Frame) /\ Len(mid) = Level /\ DOMAIN mid = 1 .. Level /\ mid[Level] = parent
      /\ \A l \in 1 .. Level : l # Level => mid[l] = functions[l]
  BY <1>1, Replaced DEF Level, mid
<1>10. functions' \in Seq(Frame) /\ Extends(mid, functions', g)
  BY <1>3, <1>5, <1>9, AppendExtends
<1>11. /\ Len(functions') = Level + 1 /\ DOMAIN functions' = 1 .. Level + 1
       /\ functions'[Level + 1] = g /\ functions'[Level] = parent
       /\ \A l \in 1 .. Level : l # Level => functions'[l] = functions[l]
  BY <1>1, <1>9, <1>10 DEF Extends
<1>12. Typed'
  BY <1>1, <1>3, <1>4, <1>8, <1>10 DEF Flags, Typed
<1>13. Quiet(f) /\ Pending(f) = 0 /\ DiscsOK(parent)
  <2>1. DiscsOK(f)
    BY <1>1, SoundFacts DEF Base
  <2>2. Quiet(f)
    BY <1>1, <2>1, QuietIf DEF f
  <2>3. Quiet(parent)
    BY <2>2 DEF Quiet, f
  <2>4. QED
    BY <2>2, <2>3, QuietMeans
<1>14. ~InExpression(parent)
  BY DEF InExpression
<1>15. FrameOK(parent, Base(Level), NoCaseDeclarations /\ ~hadError')
  <2>1. ASSUME NEW temps \in Nat, Stands(f, temps) PROVE Stands(parent, temps)
    <3>1. ValueHeight(f) = 0 /\ ValueHeight(parent) = 0 /\ parent.todo # "init"
      BY DEF ValueHeight, InExpression, f
    <3>2. QED
      BY <1>14, <2>1, <3>1 DEF Stands, f
  <2>2. /\ parent.locals = f.locals /\ parent.scopeDepth = f.scopeDepth /\ parent.open = f.open
    BY DEF f
  <2>3. QED
    BY <1>1, <1>13, <2>1, <2>2, SameFrame
<1>16. FramesOK'
  <2> SUFFICES ASSUME NEW l \in 1 .. Level + 1
               PROVE  /\ FrameOK(functions'[l], Base(l), NoCaseDeclarations /\ ~hadError')
                      /\ l < Level + 1 => ~InExpression(functions'[l])
    BY <1>11 DEF FramesOK, Level, NoCaseDeclarations
  <2>1. CASE l = Level + 1
    <3>1. Base(l) = 1
      BY <1>1, <2>1 DEF Base
    <3>2. QED
      BY <1>1, <1>5, <1>11, <2>1, <3>1
  <2>2. CASE l = Level
    BY <1>11, <1>14, <1>15, <2>2
  <2>3. CASE l \in 1 .. Level /\ l # Level
    <3>1. functions'[l] = functions[l] /\ l \in DOMAIN functions /\ l < Level
      BY <1>1, <1>11, <2>3
    <3>2. /\ FrameOK(functions[l], Base(l), NoCaseDeclarations /\ ~hadError)
          /\ ~InExpression(functions[l])
      BY <3>1 DEF Compiles, CInv, FramesOK
    <3>3. FrameOK(functions[l], Base(l), NoCaseDeclarations /\ ~hadError')
      BY <1>2, <3>2 DEF FrameOK
    <3>4. QED
      BY <3>1, <3>2, <3>3
  <2>4. QED
    BY <1>1, <2>1, <2>2, <2>3
<1>17. ScopesOK'
  <2>1. (NoLocalFunctions /\ ~hadError) = NoLocalFunctions
    BY <1>2 DEF NoLocalFunctions
  <2>2. PICK off : /\ Offsets(functions, off)
                   /\ ScopeOK(functions[Level], vars, checkDepth, Level, off[Level], NoLocalFunctions)
                   /\ NoLocalFunctions =>
                        \A l \in DOMAIN functions : l < Level => Unnamed(functions[l].locals)
    BY <2>1 DEF Compiles, CInv, ScopesOK, NamesOK
  <2> DEFINE new == Ext(off, Level + 1, checkDepth)
  <2>3. off \in [Nat -> Nat] /\ off[Level] \in Nat
    BY <1>1, <2>2 DEF Offsets
  <2>4. /\ new \in [Nat -> Nat] /\ new[Level + 1] = checkDepth
        /\ \A l \in 1 .. Level : new[l] = off[l]
    <3>1. Level + 1 \in Nat /\ checkDepth \in Nat /\ Level \in Nat
      BY <1>1, <1>6
    <3>2. new \in [Nat -> Nat] /\ new[Level + 1] = checkDepth
      BY <2>3, <3>1 DEF Ext
    <3>3. \A l \in 1 .. Level : l \in Nat /\ l # Level + 1
      BY <3>1
    <3>4. \A l \in Nat : l # Level + 1 => new[l] = off[l]
      BY <2>3 DEF Ext
    <3>5. QED
      BY <3>2, <3>3, <3>4
  <2> HIDE DEF new
  <2>5. checkDepth + 0 = off[Level] + f.scopeDepth
    BY <1>1, <1>13, <2>2 DEF ScopeOK
  <2>6. checkDepth = off[Level] + parent.scopeDepth
    BY <1>1, <2>5 DEF f
  <2>7. Offsets(functions', new)
    <3>1. new[1] = 0
      BY <1>1, <2>2, <2>4 DEF Offsets
    <3>2. ASSUME NEW l \in 1 .. Level + 1, l < Level + 1
          PROVE  new[l + 1] = new[l] + functions'[l].scopeDepth
      <4>1. CASE l = Level
        BY <1>1, <1>11, <2>4, <2>6, <4>1
      <4>2. CASE l # Level
        <5>1. l \in 1 .. Level /\ l + 1 \in 1 .. Level /\ l < Level
          BY <1>1, <3>2, <4>2
        <5>2. off[l + 1] = off[l] + functions[l].scopeDepth
          BY <1>1, <2>2, <5>1 DEF Offsets, Level
        <5>3. functions'[l] = functions[l]
          BY <1>11, <4>2, <5>1
        <5>4. QED
          BY <2>4, <5>1, <5>2, <5>3
      <4>3. QED
        BY <4>1, <4>2
    <3>3. QED
      BY <1>11, <2>4, <3>1, <3>2 DEF Offsets
  <2>8. checkDepth' + Pending(g) = checkDepth + g.scopeDepth
    <3>1. checkDepth + 2 + 0 = checkDepth + 2
      BY <1>6
    <3>2. QED
      BY <1>3, <1>5, <3>1
  <2>9. ASSUME NoLocalFunctions, ~hadError' PROVE Agree(g.locals, vars', Level + 1, checkDepth)
    <3>1. Level + 1 # 1 /\ Len(params) < MaxLocals
      BY <1>1, <1>4, <2>9
    <3>2. vars' = declared
      BY <1>8, <2>9
    <3>3. QED
      BY <1>1, <1>6, <3>1, <3>2, AgreeBegins DEF g, declared
  <2>10. ScopeOK(g, vars', checkDepth', Level + 1, checkDepth, NoLocalFunctions /\ ~hadError')
    BY <1>5, <2>8, <2>9 DEF ScopeOK
  <2>11. ASSUME NoLocalFunctions, NEW l \in 1 .. Level + 1, l < Level + 1
         PROVE  Unnamed(functions'[l].locals)
    <3>1. CASE l = Level
      <4>1. Agree(f.locals, <<>>, Level, off[Level])
        BY <1>1, <2>2, <2>11 DEF ScopeOK
      <4>2. DOMAIN <<>> = {}
        OBVIOUS
      <4>3. Unnamed(f.locals)
        BY <4>1, <4>2 DEF Agree, Unnamed
      <4>4. QED
        BY <1>11, <3>1, <4>3 DEF f
    <3>2. CASE l # Level
      <4>1. l \in 1 .. Level /\ l < Level /\ l \in DOMAIN functions
        BY <1>1, <2>11, <3>2
      <4>2. Unnamed(functions[l].locals)
        BY <2>2, <2>11, <4>1
      <4>3. functions'[l] = functions[l]
        BY <1>11, <3>2, <4>1
      <4>4. QED
        BY <4>2, <4>3
    <3>3. QED
      BY <3>1, <3>2
  <2>12. NamesOK(NoLocalFunctions /\ ~hadError)'
    <3>1. Len(functions') = Level + 1 /\ functions'[Level + 1] = g
      BY <1>11
    <3>2. ScopeOK(functions'[Len(functions')], vars', checkDepth', Len(functions'),
                  new[Len(functions')], NoLocalFunctions /\ ~hadError')
      BY <2>4, <2>10, <3>1
    <3>3. NoLocalFunctions /\ ~hadError' =>
             \A l \in DOMAIN functions' : l < Len(functions') => Unnamed(functions'[l].locals)
      BY <1>11, <2>11
    <3>4. QED
      BY <2>7, <3>2, <3>3 DEF NamesOK, Level, NoLocalFunctions
  <2>13. QED
    BY <2>12 DEF ScopesOK
<1>18. JumpsOK'
  BY <1>1, <1>3, <1>4 DEF Flags, JumpsOK, NoLongSwitch
<1>19. QED
  BY <1>12, <1>16, <1>17, <1>18 DEF CInv
----------------------------------------------------------------------------
LEMMA FunctionKeeps ==
  ASSUME Compiles, Function
  PROVE  CInv'
<1>1. /\ Current.todo = "decl" /\ CanNest
      /\ \E params \in Params : Begin(NULL, params, AfterStatement(Current))
  BY DEF Function
<1>2. PICK params \in Params : Begin(NULL, params, AfterStatement(Current))
  BY <1>1
<1>3. ~InExpression(Current)
  BY <1>1 DEF InExpression
<1>4. NoLocalFunctions => vars = <<>>
  BY <1>1 DEF CanNest, NoLocalFunctions
<1>5. /\ AfterStatement(Current) \in Frame /\ AfterStatement(Current).locals = Current.locals
      /\ AfterStatement(Current).scopeDepth = Current.scopeDepth
      /\ AfterStatement(Current).open = Current.open
      /\ AfterStatement(Current).depths = Current.depths
      /\ AfterStatement(Current).todo \in {"decl", "done", "method"}
  BY CurrentFacts, Statements
<1>6. QED
  BY <1>2, <1>3, <1>4, <1>5, BeginKeeps

LEMMA MethodKeeps ==
  ASSUME Compiles, Method
  PROVE  CInv'
<1>1. Current.todo = "method" /\ \E params \in Params : Begin(This, params, Current)
  BY DEF Method, At
<1>2. PICK params \in Params : Begin(This, params, Current)
  BY <1>1
<1>3. ~InExpression(Current)
  BY <1>1 DEF InExpression
<1>4. NoLocalFunctions => vars = <<>>
  <2>1. PICK off \in Nat : ScopeOK(Current, vars, checkDepth, Level, off, NoLocalFunctions)
    BY OffsetIs
  <2>2. QED
    BY <1>1, <2>1 DEF ScopeOK
<1>5. Current \in Frame /\ Current.todo \in {"decl", "done", "method"}
  BY <1>1, CurrentFacts
<1>6. QED
  BY <1>2, <1>3, <1>4, <1>5, BeginKeeps

(* The variables of a function that ends all lie in its scope.             *)
LEMMA NoneKept ==
  ASSUME NEW list \in Seq(Local), NEW top \in Nat, LocalsOK(list, top),
         NEW vs \in Seq(Variable), NEW level, NEW off \in Nat, Agree(list, vs, level, off)
  PROVE  SubSeq(vs, 1, Kept(vs, off + 1)) = <<>>
<1> DEFINE k == Kept(vs, off + 1)
<1>1. /\ Len(vs) \in Nat /\ DOMAIN vs = 1 .. Len(vs) /\ Depths(vs)
      /\ DOMAIN list = 1 .. Len(list) /\ Len(list) \in Nat
      /\ \A i \in 1 .. Len(list) : list[i].depth \in Nat
  BY VarFields, LocalFields
<1>2. off + 1 \in Nat
  OBVIOUS
<1>3. /\ k \in 0 .. Len(vs)
      /\ k > 0 => vs[k].depth < off + 1
  BY <1>1, <1>2, KeptIs
<1> HIDE DEF k
<1>4. ASSUME k > 0 PROVE FALSE
  <2> DEFINE s == vs[k].slot
             d == CheckedDepth(list, s)
  <2>1. k \in DOMAIN vs
    BY <1>1, <1>3, <1>4
  <2>2. s \in 1 .. Len(list) /\ vs[k].depth = off + d
    BY <1>1, <2>1 DEF Agree
  <2>3. d \in Nat /\ d > 0
    <3>1. s = 1 \/ (s > 1 /\ list[s].depth > 0)
      BY <1>1, <2>2 DEF LocalsOK
    <3>2. CASE s = 1
      BY <3>2 DEF CheckedDepth
    <3>3. CASE s # 1
      <4>1. d = list[s].depth
        BY <3>3 DEF CheckedDepth
      <4>2. QED
        BY <1>1, <2>2, <3>1, <3>3, <4>1
    <3>4. QED
      BY <3>2, <3>3
  <2> HIDE DEF s, d
  <2>4. off + d < off + 1
    BY <1>3, <1>4, <2>2
  <2>5. QED
    BY <2>3, <2>4
<1>5. k = 0
  BY <1>3, <1>4
<1>6. SubSeq(vs, 1, 0) \in Seq(Variable) /\ Len(SubSeq(vs, 1, 0)) = 0
  BY <1>1, Prefix
<1>7. SubSeq(vs, 1, 0) = <<>>
  BY <1>6, Elements
<1>8. QED
  BY <1>5, <1>7 DEF k

LEMMA FunctionEndsKeeps ==
  ASSUME Compiles, FunctionEnds
  PROVE  CInv'
<1> DEFINE f == Current
<1>1. /\ Level \in Nat \ {0} /\ DOMAIN functions = 1 .. Level /\ Level \in DOMAIN functions
      /\ f = functions[Level] /\ f \in Frame /\ FrameOK(f, Base(Level), NoCaseDeclarations)
      /\ functions \in Seq(Frame) /\ result = "none"
      /\ vars \in Seq(Variable) /\ checkDepth \in Nat
  BY CurrentFacts
<1>2. hadError = FALSE
  BY DEF Compiles, CInv, Typed
<1>3. /\ Level > 1 /\ f.open = <<>> /\ functions' = Front(functions)
      /\ checkDepth' = checkDepth - 1 /\ vars' = SubSeq(vars, 1, Kept(vars, checkDepth))
      /\ hadError' = hadError /\ astray' = astray /\ result' = result
  BY DEF FunctionEnds, EndCheckScope, NoJump
<1>4. f.scopeDepth = 1 /\ LocalsOK(f.locals, f.scopeDepth)
  <2>1. Base(Level) = 1
    BY <1>1, <1>3 DEF Base
  <2>2. QED
    BY <1>1, <1>3, <2>1, SoundFacts
<1>5. f.locals \in Seq(Local)
  BY <1>1, FrameFields
<1>6. Pending(f) = 0
  <2>1. DOMAIN f.open = {}
    BY <1>3
  <2>2. QED
    BY <2>1 DEF Quiet, Pending
<1> HIDE DEF f
<1>7. (NoLocalFunctions /\ ~hadError) = NoLocalFunctions
  BY <1>2 DEF NoLocalFunctions
<1>8. PICK off : /\ Offsets(functions, off)
                 /\ ScopeOK(functions[Level], vars, checkDepth, Level, off[Level], NoLocalFunctions)
                 /\ NoLocalFunctions =>
                      \A l \in DOMAIN functions : l < Level => Unnamed(functions[l].locals)
  BY <1>7 DEF Compiles, CInv, ScopesOK, NamesOK
<1>9. off \in [Nat -> Nat] /\ off[Level] \in Nat
  BY <1>1, <1>8 DEF Offsets
<1>10. checkDepth = off[Level] + 1
  <2>1. checkDepth + 0 = off[Level] + 1
    BY <1>1, <1>4, <1>6, <1>8 DEF ScopeOK
  <2>2. QED
    BY <1>1, <2>1
<1> DEFINE m == Level - 1
<1>11. m \in 1 .. Level /\ m < Level /\ m + 1 = Level /\ m \in Nat \ {0}
  BY <1>1, <1>3
<1>12. functions # <<>>
  BY DEF Compiles
<1>13. functions' \in Seq(Frame) /\ Extends(functions', functions, Last(functions))
  BY <1>1, <1>3, <1>12, FrontExtends
<1> HIDE DEF m
<1>14. Len(functions') = m /\ DOMAIN functions' = 1 .. m
       /\ \A l \in 1 .. m : functions'[l] = functions[l] /\ l \in 1 .. Level /\ l < Level
  <2>1. /\ Len(functions') \in Nat /\ DOMAIN functions' = 1 .. Len(functions')
        /\ Level = Len(functions') + 1
        /\ \A l \in 1 .. Len(functions') : functions[l] = functions'[l]
    BY <1>13 DEF Extends, Level
  <2>2. Len(functions') = m
    BY <1>11, <2>1
  <2>3. \A l \in 1 .. m : l \in 1 .. Level /\ l < Level
    BY <1>1, <1>11
  <2>4. QED
    BY <2>1, <2>2, <2>3
<1>15. checkDepth' = off[Level] /\ checkDepth' \in Nat
  BY <1>3, <1>9, <1>10
<1>16. vars' \in Seq(Variable)
  <2>1. Len(vars) \in Nat /\ DOMAIN vars = 1 .. Len(vars) /\ Depths(vars)
    BY <1>1, VarFields
  <2>2. Kept(vars, checkDepth) \in 0 .. Len(vars)
    BY <1>1, <2>1, KeptIs
  <2>3. QED
    BY <1>1, <1>3, <2>2, Prefix
<1>17. Typed'
  <2>1. hadError' \in BOOLEAN /\ astray' \in BOOLEAN /\ result' \in {"none", "script", NULL}
    BY <1>3 DEF Compiles, CInv, Typed
  <2>2. QED
    BY <1>13, <1>15, <1>16, <2>1 DEF Typed
<1>18. ASSUME NEW l \in 1 .. m
       PROVE  /\ FrameOK(functions'[l], Base(l), NoCaseDeclarations /\ ~hadError')
              /\ ~InExpression(functions'[l])
  <2>1. functions'[l] = functions[l] /\ l \in DOMAIN functions /\ l < Level
    BY <1>1, <1>14
  <2>2. /\ FrameOK(functions[l], Base(l), NoCaseDeclarations /\ ~hadError)
        /\ ~InExpression(functions[l])
    BY <2>1 DEF Compiles, CInv, FramesOK
  <2>3. FrameOK(functions[l], Base(l), NoCaseDeclarations /\ ~hadError')
    BY <1>3, <2>2 DEF FrameOK
  <2>4. QED
    BY <2>1, <2>2, <2>3
<1>19. FramesOK'
  BY <1>14, <1>18 DEF FramesOK, Level, NoCaseDeclarations
<1>20. ScopesOK'
  <2> DEFINE p == functions'[m]
  <2>1. p \in Frame /\ p = functions[m] /\ ~InExpression(p) /\ FrameOK(p, Base(m), NoCaseDeclarations /\ ~hadError')
    BY <1>11, <1>13, <1>14, <1>18, Elements
  <2>2. Pending(p) = 0
    <3>1. DiscsOK(p)
      BY <2>1, SoundFacts DEF Base
    <3>2. QED
      BY <2>1, <3>1, QuietIf, QuietMeans
  <2>3. off[m + 1] = off[m] + functions[m].scopeDepth
    BY <1>1, <1>8, <1>11 DEF Offsets, Level
  <2>4. off[m] \in Nat /\ p.scopeDepth \in Nat
    BY <1>9, <1>11, <2>1, FrameFields
  <2>5. checkDepth' = off[m] + p.scopeDepth
    BY <1>11, <1>15, <2>1, <2>3
  <2>6. checkDepth' + Pending(p) = off[m] + p.scopeDepth
    BY <1>15, <2>2, <2>5
  <2>7. NoLocalFunctions => vars' = <<>>
    <3>1. NoLocalFunctions => Agree(f.locals, vars, Level, off[Level])
      BY <1>1, <1>8 DEF ScopeOK
    <3>2. f.scopeDepth \in Nat
      BY <1>4
    <3>3. NoLocalFunctions => SubSeq(vars, 1, Kept(vars, off[Level] + 1)) = <<>>
      BY <1>1, <1>4, <1>5, <1>9, <3>1, <3>2, NoneKept
    <3>4. QED
      BY <1>3, <1>10, <3>3
  <2>8. NoLocalFunctions => \A l \in 1 .. m : Unnamed(functions'[l].locals)
    BY <1>1, <1>8, <1>14
  <2> HIDE DEF p
  <2>9. NoLocalFunctions => Agree(p.locals, vars', m, off[m])
    <3>1. ASSUME NoLocalFunctions PROVE Agree(p.locals, <<>>, m, off[m])
      <4>1. Unnamed(p.locals)
        BY <1>11, <2>8, <3>1 DEF p
      <4>2. DOMAIN <<>> = {}
        OBVIOUS
      <4>3. 1 \in DOMAIN p.locals
        <5>1. LocalsOK(p.locals, p.scopeDepth) /\ p.locals \in Seq(Local)
          BY <2>1, SoundFacts, FrameFields DEF Base
        <5>2. DOMAIN p.locals = 1 .. Len(p.locals) /\ Len(p.locals) \in Nat
          BY <5>1, Elements
        <5>3. QED
          BY <5>1, <5>2 DEF LocalsOK
      <4>4. QED
        BY <4>1, <4>2, <4>3 DEF Agree, Unnamed
    <3>2. QED
      BY <2>7, <3>1
  <2>10. ScopeOK(p, vars', checkDepth', m, off[m], NoLocalFunctions /\ ~hadError')
    BY <2>6, <2>7, <2>9 DEF ScopeOK
  <2>11. Offsets(functions', off)
    <3>1. ASSUME NEW l \in 1 .. m, l < m PROVE off[l + 1] = off[l] + functions'[l].scopeDepth
      BY <1>1, <1>8, <1>14 DEF Offsets, Level
    <3>2. QED
      BY <1>8, <1>9, <1>14, <3>1 DEF Offsets
  <2>12. NamesOK(NoLocalFunctions /\ ~hadError)'
    <3>1. ScopeOK(functions'[Len(functions')], vars', checkDepth', Len(functions'),
                  off[Len(functions')], NoLocalFunctions /\ ~hadError')
      BY <1>14, <2>10 DEF p
    <3>2. NoLocalFunctions /\ ~hadError' =>
             \A l \in DOMAIN functions' : l < Len(functions') => Unnamed(functions'[l].locals)
      BY <1>14, <2>8
    <3>3. QED
      BY <2>11, <3>1, <3>2 DEF NamesOK, Level, NoLocalFunctions
  <2>13. QED
    BY <2>12 DEF ScopesOK
<1>21. JumpsOK'
  BY <1>3 DEF Compiles, CInv, JumpsOK, NoLongSwitch
<1>22. QED
  BY <1>17, <1>19, <1>20, <1>21 DEF CInv

LEMMA FinishKeeps ==
  ASSUME CInv, Finish
  PROVE  CInv'
<1>1. /\ functions' = <<>> /\ vars' = vars /\ checkDepth' = checkDepth
      /\ hadError' = hadError /\ astray' = astray
      /\ result' = IF hadError THEN NULL ELSE "script"
  BY DEF Finish
<1>2. Typed /\ JumpsOK
  BY DEF CInv
<1>3. <<>> \in Seq(Frame) /\ DOMAIN <<>> = {}
  BY EmptySeq
<1>4. Typed'
  BY <1>1, <1>2, <1>3 DEF Typed
<1>5. FramesOK' /\ ScopesOK'
  BY <1>1, <1>3 DEF FramesOK, ScopesOK
<1>6. JumpsOK'
  <2>1. NULL # "script"
    BY CompilerAssumption
  <2>2. QED
    BY <1>1, <1>2, <2>1 DEF JumpsOK, NoLongSwitch
<1>7. QED
  BY <1>4, <1>5, <1>6 DEF CInv

(* A program begins.                                                       *)
LEMMA ScriptOK ==
  /\ <<Script>> \in Seq(Frame) /\ Len(<<Script>>) = 1 /\ DOMAIN <<Script>> = {1}
  /\ <<Script>>[1] = Script /\ ~InExpression(Script)
  /\ \A s : FrameOK(Script, 0, s)
  /\ \E off : Offsets(<<Script>>, off) /\ \A flat : ScopeOK(Script, <<>>, 0, 1, off[1], flat)
<1> DEFINE e == [name |-> NULL, depth |-> 0]
           f == Script
           off == [n \in Nat |-> 0]
<1>1. e \in Local /\ e.depth = 0 /\ e.name = NULL
  BY DEF Local
<1>2. f = [locals |-> <<e>>, scopeDepth |-> 0, open |-> <<>>, depths |-> {1}, todo |-> "decl"]
  BY DEF Script
<1> HIDE DEF e, f
<1>3. <<e>> \in Seq(Local) /\ Len(<<e>>) = 1 /\ <<e>>[1] = e /\ DOMAIN <<e>> = 1 .. 1
  BY <1>1
<1>4. <<>> \in Seq(Construct) /\ {1} \in SUBSET Int /\ "decl" \in Todo /\ 0 \in Nat
  BY EmptySeq DEF Todo
<1>5. /\ f \in Frame /\ f.locals = <<e>> /\ f.scopeDepth = 0 /\ f.open = <<>>
      /\ f.depths = {1} /\ f.todo = "decl"
  BY <1>2, <1>3, <1>4 DEF Frame
<1>6. MaxLocals \in Nat \ {0}
  BY CompilerAssumption
<1>7. LocalsOK(f.locals, 0)
  BY <1>1, <1>3, <1>5, <1>6 DEF LocalsOK
<1>8. Stands(f, 0)
  <2>1. {1} \subseteq {1 + 0 + 0}
    OBVIOUS
  <2>2. QED
    BY <1>3, <1>5, <2>1 DEF Stands, ValueHeight, InExpression
<1>9. (\A s : FrameOK(f, 0, s)) /\ Quiet(f)
  BY <1>4, <1>5, <1>7, <1>8, EmptyFrame
<1>10. Pending(f) = 0
  BY <1>9, QuietMeans
<1>11. <<f>> \in Seq(Frame) /\ Len(<<f>>) = 1 /\ DOMAIN <<f>> = {1} /\ <<f>>[1] = f
  BY <1>5
<1>12. off \in [Nat -> Nat] /\ off[1] = 0
  OBVIOUS
<1> HIDE DEF off
<1>13. Offsets(<<f>>, off)
  BY <1>11, <1>12 DEF Offsets
<1>14. Agree(f.locals, <<>>, 1, 0)
  <2>1. DOMAIN <<>> = {} /\ DOMAIN f.locals = {1} /\ f.locals[1].name = NULL
    BY <1>1, <1>3, <1>5
  <2>2. QED
    BY <2>1 DEF Agree
<1>15. \A flat : ScopeOK(f, <<>>, 0, 1, off[1], flat)
  <2>1. 0 + Pending(f) = off[1] + f.scopeDepth
    BY <1>5, <1>10, <1>12
  <2>2. QED
    BY <1>5, <1>12, <1>14, <2>1 DEF ScopeOK
<1>16. ~InExpression(f)
  BY <1>5 DEF InExpression
<1>17. QED
  BY <1>9, <1>11, <1>13, <1>15, <1>16 DEF f

LEMMA InitCInv == Init => CInv
<1> SUFFICES ASSUME Init PROVE CInv
  OBVIOUS
<1>1. /\ functions = <<Script>> /\ vars = <<>> /\ checkDepth = 0 /\ hadError = FALSE
      /\ astray = FALSE /\ result = "none"
  BY DEF Init
<1> HIDE DEF Script
<1>2. Typed
  BY <1>1, ScriptOK, EmptySeq DEF Typed
<1>3. Base(1) = 0
  BY DEF Base
<1>4. FramesOK
  BY <1>1, <1>3, ScriptOK DEF FramesOK, Level
<1>5. PICK off : Offsets(<<Script>>, off) /\ \A flat : ScopeOK(Script, <<>>, 0, 1, off[1], flat)
  BY ScriptOK
<1>6. NamesOK(NoLocalFunctions /\ ~hadError)
  BY <1>1, <1>5, ScriptOK DEF NamesOK, Level
<1>7. ScopesOK /\ JumpsOK
  BY <1>1, <1>6 DEF ScopesOK, JumpsOK
<1>8. QED
  BY <1>2, <1>4, <1>7 DEF CInv

LEMMA CompileProgramKeeps ==
  ASSUME CompileProgram
  PROVE  CInv'
<1>1. /\ functions' = <<Script>> /\ vars' = <<>> /\ checkDepth' = 0 /\ hadError' = FALSE
      /\ astray' = FALSE /\ result' = "none"
  BY DEF CompileProgram
<1>2. Typed'
  BY <1>1, ScriptOK, EmptySeq DEF Typed
<1>3. Base(1) = 0
  BY DEF Base
<1>4. FramesOK'
  BY <1>1, <1>3, ScriptOK DEF FramesOK, Level
<1>5. PICK off : Offsets(<<Script>>, off) /\ \A flat : ScopeOK(Script, <<>>, 0, 1, off[1], flat)
  BY ScriptOK
<1>6. NamesOK(NoLocalFunctions /\ ~hadError)'
  BY <1>1, <1>5, ScriptOK DEF NamesOK, Level
<1>7. ScopesOK' /\ JumpsOK'
  BY <1>1, <1>6 DEF ScopesOK, JumpsOK
<1>8. QED
  BY <1>2, <1>4, <1>7 DEF CInv

(* Every step preserves the invariant.                                     *)
LEMMA NextKeeps ==
  ASSUME CInv, [Next]_cvars
  PROVE  CInv'
<1>1. CASE functions # <<>> /\ ~hadError /\
           \/ Expression \/ Simple \/ Compound
           \/ Function \/ FunctionEnds \/ Class \/ Method \/ ClassEnds
  <2>1. Compiles
    BY <1>1 DEF Compiles
  <2>2. QED
    BY <1>1, <2>1, ExpressionKeeps, SimpleKeeps, CompoundKeeps, FunctionKeeps,
       FunctionEndsKeeps, ClassKeeps, MethodKeeps, ClassEndsKeeps
<1>2. CASE ScriptEnds \/ Discard
  BY <1>2, FinishKeeps DEF ScriptEnds, Discard
<1>3. CASE CompileProgram
  BY <1>3, CompileProgramKeeps
<1>4. CASE UNCHANGED cvars
  <2>1. /\ functions' = functions /\ vars' = vars /\ checkDepth' = checkDepth
        /\ hadError' = hadError /\ astray' = astray /\ result' = result
    BY <1>4 DEF cvars
  <2>2. QED
    BY <2>1 DEF CInv, Typed, FramesOK, ScopesOK, NamesOK, JumpsOK, Level,
                NoCaseDeclarations, NoLocalFunctions, NoLongSwitch
<1>5. QED
  BY <1>1, <1>2, <1>3, <1>4 DEF Next
----------------------------------------------------------------------------
(* What the invariant means for the tables, the depths and the names.      *)

LEMMA TablesFit ==
  ASSUME CInv
  PROVE  TypeOK
<1>1. /\ functions \in Seq(Frame) /\ vars \in Seq(Variable) /\ checkDepth \in Nat
      /\ hadError \in BOOLEAN /\ astray \in BOOLEAN /\ result \in {"none", "script", NULL}
  BY DEF CInv, Typed
<1>2. ASSUME NEW l \in DOMAIN functions
      PROVE  LET f == functions[l]
             IN  /\ Len(f.locals) <= MaxLocals
                 /\ \A i \in DOMAIN f.locals :
                       f.locals[i] \in [name: Names \cup {NULL, This}, depth: 0 .. f.scopeDepth]
                 /\ \A i \in DOMAIN f.open :
                       f.open[i] \in Construct /\ f.open[i].breakCount <= MaxBreaks
                 /\ f.todo \in Todo
  <2> DEFINE f == functions[l]
  <2>1. f \in Frame
    BY <1>1, Elements
  <2>2. /\ f.locals \in Seq(Local) /\ f.scopeDepth \in Nat /\ f.open \in Seq(Construct)
        /\ f.todo \in Todo
    BY <2>1, FrameFields
  <2>3. FrameOK(f, Base(l), NoCaseDeclarations /\ ~hadError)
    BY DEF CInv, FramesOK
  <2> HIDE DEF f
  <2>4. PICK sc : Sound(f, Base(l), sc)
    BY <2>3 DEF FrameOK
  <2>5. Len(f.locals) <= MaxLocals /\ \A i \in DOMAIN f.locals : f.locals[i].depth <= f.scopeDepth
    BY <2>4, CompilerAssumption DEF Sound, LocalsOK
  <2>6. ASSUME NEW i \in DOMAIN f.locals
        PROVE  f.locals[i] \in [name: Names \cup {NULL, This}, depth: 0 .. f.scopeDepth]
    <3>1. f.locals[i] \in Local /\ f.locals[i].depth <= f.scopeDepth
      BY <2>2, <2>5, Elements
    <3>2. QED
      BY <2>2, <3>1 DEF Local
  <2>7. ASSUME NEW i \in DOMAIN f.open
        PROVE  f.open[i] \in Construct /\ f.open[i].breakCount <= MaxBreaks
    <3>1. f.open[i] \in Construct
      BY <2>2, Elements
    <3>2. Proper(f.open[i])
      BY <2>4 DEF Sound, Nested
    <3>3. QED
      BY <3>1, <3>2 DEF Proper
  <2>8. QED
    BY <2>2, <2>5, <2>6, <2>7 DEF f
<1>3. vars \in Seq([name: Names \cup {This}, depth: Nat, level: Nat, slot: Nat])
  BY <1>1 DEF Variable
<1>4. {hadError, astray} \subseteq BOOLEAN
  BY <1>1
<1>5. QED
  BY <1>1, <1>2, <1>3, <1>4 DEF TypeOK

(* The sum that StaticDepth takes.                                         *)
LEMMA StaticDepthIs ==
  ASSUME NEW f \in Frame, NEW sc, NEW t, Stacked(f.open, f.locals, sc, t)
  PROVE  StaticDepth(f) = Len(f.locals) + t[Len(f.open)] + ValueHeight(f)
<1> DEFINE n == Len(f.open)
           h == Len(f.locals)
           Sum(g) == [i \in 0 .. n |-> IF i = 0 THEN h ELSE g[i - 1] + Temporaries(f.open[i])]
           upTo == CHOOSE g : g = Sum(g)
           s == [i \in 0 .. n |-> h + t[i]]
<1>1. f.locals \in Seq(Local) /\ f.open \in Seq(Construct)
  BY FrameFields
<1>2. n \in Nat /\ DOMAIN f.open = 1 .. n /\ h \in Nat
  BY <1>1, Elements
<1>3. /\ t \in [Nat -> Nat] /\ t[0] = 0
      /\ \A i \in 1 .. n : t[i] = t[i - 1] + Temporaries(f.open[i])
  BY <1>2 DEF Stacked
<1>4. \A i \in 1 .. n : Temporaries(f.open[i]) \in Nat
  <2>1. \A i \in 1 .. n : f.open[i] \in Construct
    BY <1>1, <1>2, Elements
  <2>2. QED
    BY <2>1, TemporariesAre
<1>5. StaticDepth(f) = upTo[n] + (IF f.todo = "value" THEN 1 ELSE 0)
  BY DEF StaticDepth
<1> HIDE DEF n, h
<1>6. ASSUME NEW i \in 0 .. n
      PROVE  s[i] = IF i = 0 THEN h ELSE s[i - 1] + Temporaries(f.open[i])
  <2>1. CASE i = 0
    BY <1>2, <1>3, <2>1
  <2>2. CASE i # 0
    <3>1. i \in 1 .. n /\ i - 1 \in 0 .. n /\ i - 1 \in Nat
      BY <1>2, <2>2
    <3>2. s[i] = h + t[i] /\ s[i - 1] = h + t[i - 1]
      BY <3>1
    <3>3. t[i] = t[i - 1] + Temporaries(f.open[i]) /\ t[i - 1] \in Nat /\ Temporaries(f.open[i]) \in Nat
      BY <1>3, <1>4, <3>1
    <3> HIDE DEF s
    <3>4. s[i] = s[i - 1] + Temporaries(f.open[i])
      BY <1>2, <3>2, <3>3
    <3>5. QED
      BY <2>2, <3>4
  <2>3. QED
    BY <2>1, <2>2
<1>7. s = Sum(s)
  BY <1>6
<1>8. upTo = Sum(upTo)
  <2> HIDE DEF s, Sum
  <2>1. \E g : g = Sum(g)
    BY <1>7
  <2>2. QED
    BY <2>1
<1>9. \A i \in 0 .. n : upTo[i] = IF i = 0 THEN h ELSE upTo[i - 1] + Temporaries(f.open[i])
  <2> HIDE DEF upTo
  <2>1. QED
    BY <1>8
<1>10. \A i \in 0 .. n : s[i] = IF i = 0 THEN h ELSE s[i - 1] + Temporaries(f.open[i])
  BY <1>6
<1>11. s[n] = h + t[n] /\ n \in 0 .. n
  BY <1>2
<1> HIDE DEF upTo, s, Sum
<1> DEFINE Wrong == {i \in 0 .. n : upTo[i] # s[i]}
<1>12. Wrong = {}
  <2> SUFFICES ASSUME Wrong # {} PROVE FALSE
    OBVIOUS
  <2>1. Wrong \in SUBSET Nat
    BY <1>2
  <2>2. PICK i \in Wrong : \A j \in Wrong : i <= j
    BY <2>1, SmallestInSet
  <2>3. i \in 0 .. n /\ upTo[i] # s[i]
    BY <2>2
  <2>4. i # 0
    BY <1>9, <1>10, <2>3
  <2>5. i - 1 \in 0 .. n /\ ~(i <= i - 1)
    BY <1>2, <2>3, <2>4
  <2>6. i - 1 \notin Wrong
    BY <2>2, <2>5
  <2>7. upTo[i - 1] = s[i - 1]
    BY <2>5, <2>6
  <2>8. QED
    BY <1>9, <1>10, <2>3, <2>4, <2>7
<1>13. upTo[n] = s[n]
  BY <1>11, <1>12
<1> HIDE DEF Wrong
<1>14. StaticDepth(f) = h + t[n] + (IF f.todo = "value" THEN 1 ELSE 0)
  BY <1>5, <1>11, <1>13
<1>15. QED
  BY <1>14 DEF ValueHeight, n, h

LEMMA DepthsFit ==
  ASSUME CInv, NoCaseDeclarations
  PROVE  DepthIsStatic
<1> SUFFICES ASSUME ~hadError, NEW l \in DOMAIN functions
             PROVE  /\ functions[l].depths \subseteq {StaticDepth(functions[l])}
                    /\ LoopsKeepTheirBase(functions[l])
  BY DEF DepthIsStatic
<1> DEFINE f == functions[l]
           n == Len(f.open)
<1>1. f \in Frame
  <2>1. functions \in Seq(Frame)
    BY DEF CInv, Typed
  <2>2. QED
    BY <2>1, Elements
<1>2. FrameOK(f, Base(l), TRUE)
  <2>1. FrameOK(f, Base(l), NoCaseDeclarations /\ ~hadError)
    BY DEF CInv, FramesOK
  <2>2. QED
    BY <2>1 DEF FrameOK
<1> HIDE DEF f
<1>3. PICK sc, t : Sound(f, Base(l), sc) /\ Straight(f, sc, t)
  BY <1>2 DEF FrameOK
<1>4. Stacked(f.open, f.locals, sc, t) /\ Stands(f, t[n])
  BY <1>3 DEF Straight
<1>5. f.depths \subseteq {StaticDepth(f)}
  <2>1. f.depths \subseteq {Len(f.locals) + t[n] + ValueHeight(f)}
    BY <1>4 DEF Stands
  <2>2. QED
    BY <1>1, <1>4, <2>1, StaticDepthIs
<1>6. ASSUME NEW i \in DOMAIN f.open PROVE f.open[i].arrivals \subseteq {f.open[i].base}
  <2> DEFINE c == f.open[i]
             at == Kept(f.locals, sc[i] + 1)
  <2>1. Placed(c, at, t[i - 1])
    BY <1>4 DEF Stacked
  <2>2. f.open \in Seq(Construct)
    BY <1>1, FrameFields
  <2>3. c \in Construct
    BY <2>2, Elements
  <2> HIDE DEF c, at
  <2>4. Labels(c, at, at + t[i - 1])
    BY <2>1 DEF Placed
  <2>5. CASE ~HasBase(c)
    BY <2>4, <2>5 DEF Labels, c
  <2>6. CASE HasBase(c)
    <3>1. t[i - 1] = 0
      BY <2>1, <2>6 DEF Placed, HasBase
    <3>2. c.base = at /\ c.arrivals \subseteq {at + t[i - 1]}
      BY <2>4, <2>6 DEF Labels
    <3>3. c.base \in Nat
      BY <2>3, ConstructFields
    <3>4. at + 0 = at
      BY <3>2, <3>3, Arithmetic, Zenon
    <3>5. c.arrivals \subseteq {c.base}
      BY <3>1, <3>2, <3>4
    <3>6. QED
      BY <3>5 DEF c
  <2>7. QED
    BY <2>5, <2>6
<1>7. QED
  BY <1>5, <1>6 DEF LoopsKeepTheirBase, f

(* The innermost entries of a name are each other's.                       *)
LEMMA SameInnermost ==
  ASSUME NEW list \in Seq(Local), NEW vs \in Seq(Variable), NEW level, NEW off,
         Agree(list, vs, level, off), NEW name, name # NULL
  PROVE  LET slot == Innermost(list, name)
             i == Innermost(vs, name)
         IN  IF slot = 0 THEN i = 0
             ELSE i # 0 /\ vs[i].level = level /\ vs[i].slot = slot
<1> DEFINE S == {s \in DOMAIN list : list[s].name = name}
           V == {i \in DOMAIN vs : vs[i].name = name}
<1>1. /\ Len(vs) \in Nat /\ DOMAIN vs = 1 .. Len(vs)
      /\ DOMAIN list = 1 .. Len(list) /\ Len(list) \in Nat
      /\ \A i \in 1 .. Len(vs) : vs[i].slot \in Nat
  BY VarFields, LocalFields
<1>2. S \in SUBSET (0 .. Len(list)) /\ V \in SUBSET (0 .. Len(vs))
  BY <1>1
<1>3. \A i \in V : i \in DOMAIN vs /\ vs[i].level = level /\ vs[i].slot \in S
  BY DEF Agree
<1>4. \A s \in S : \E i \in V : vs[i].slot = s
  <2>1. ASSUME NEW s \in S PROVE \E i \in V : vs[i].slot = s
    <3>1. PICK i \in DOMAIN vs : vs[i].slot = s
      BY DEF Agree
    <3>2. vs[i].name = name
      BY <3>1 DEF Agree
    <3>3. QED
      BY <3>1, <3>2
  <2>2. QED
    BY <2>1
<1>5. /\ Innermost(list, name) = IF S = {} THEN 0 ELSE Max(S)
      /\ Innermost(vs, name) = IF V = {} THEN 0 ELSE Max(V)
  BY DEF Innermost
<1>6. \A s \in S : s # 0
  BY <1>1
<1>7. \A i \in V : i # 0
  BY <1>1
<1> HIDE DEF S, V
<1>8. CASE S = {}
  <2>1. V = {}
    BY <1>3, <1>8
  <2>2. QED
    BY <1>5, <1>8, <2>1
<1>9. CASE S # {}
  <2> DEFINE m == Max(S)
             j == Max(V)
  <2>1. m \in S /\ \A s \in S : s <= m
    BY <1>1, <1>2, <1>9, LargestInSet
  <2>2. PICK i \in V : vs[i].slot = m
    BY <1>4, <2>1
  <2>3. j \in V /\ \A k \in V : k <= j
    BY <1>1, <1>2, <2>2, LargestInSet
  <2> HIDE DEF m, j
  <2>4. i <= j /\ i \in DOMAIN vs /\ j \in DOMAIN vs /\ vs[j].slot <= m
    BY <1>3, <2>1, <2>2, <2>3
  <2>5. ~(i < j)
    <3>1. i < j => vs[i].slot < vs[j].slot
      BY <2>4 DEF Agree
    <3>2. vs[j].slot \in Nat /\ vs[i].slot \in Nat
      BY <1>1, <2>4
    <3>3. QED
      BY <2>2, <2>4, <3>1, <3>2
  <2>6. i = j
    BY <1>1, <2>4, <2>5
  <2>7. Innermost(list, name) = m /\ Innermost(vs, name) = j /\ V # {}
    BY <1>5, <1>9, <2>3 DEF m, j
  <2>8. m # 0 /\ j # 0 /\ vs[j].level = level /\ vs[j].slot = m
    BY <1>3, <1>6, <1>7, <2>1, <2>2, <2>3, <2>6
  <2>9. QED
    BY <2>7, <2>8
<1>10. QED
  BY <1>8, <1>9

LEMMA NamesFit ==
  ASSUME CInv, NoLocalFunctions
  PROVE  NamesAgree
<1> SUFFICES ASSUME functions # <<>>, ~hadError, NEW name \in Names \cup {This}
             PROVE  LET slot == ResolveLocal(Current, name)
                        i    == ResolveVar(name)
                    IN  IF slot = 0 THEN i = 0
                        ELSE i # 0 /\ vars[i].level = Level /\ vars[i].slot = slot
  BY DEF NamesAgree
<1>1. Compiles
  BY DEF Compiles
<1>2. PICK off \in Nat : ScopeOK(Current, vars, checkDepth, Level, off, NoLocalFunctions)
  BY <1>1, OffsetIs
<1>3. Agree(Current.locals, vars, Level, off)
  BY <1>2 DEF ScopeOK
<1>4. Current.locals \in Seq(Local) /\ vars \in Seq(Variable)
  BY <1>1, CurrentFacts, FrameFields
<1>5. name # NULL
  BY CompilerAssumption
<1>6. LET slot == Innermost(Current.locals, name)
          i    == Innermost(vars, name)
      IN  IF slot = 0 THEN i = 0
          ELSE i # 0 /\ vars[i].level = Level /\ vars[i].slot = slot
  BY <1>3, <1>4, <1>5, SameInnermost
<1>7. QED
  BY <1>6 DEF ResolveLocal, ResolveVar

LEMMA JumpsFit ==
  ASSUME CInv, NoLongSwitch
  PROVE  ShippedJumpsArrive
  BY DEF CInv, JumpsOK, ShippedJumpsArrive
----------------------------------------------------------------------------
(* The inductive invariant: every function that is being compiled has its  *)
(* scopes nested as its constructs are, its locals in the order of their   *)
(* scopes, and its labels at the height of the statement they belong to;   *)
(* the checker's variables are the named locals of the current function.   *)
THEOREM CompilerInvariant == Spec => []CInv
<1>1. Init => CInv
  BY InitCInv
<1>2. CInv /\ [Next]_cvars => CInv'
  BY NextKeeps
<1>3. QED
  BY <1>1, <1>2, PTL DEF Spec

(* The array of locals never takes more than MAX_LOCALS entries and that of *)
(* a loop's breaks never more than MAX_BREAKS, whatever is compiled and     *)
(* whatever errors it holds (add_local, emit_break in compiler.c).          *)
THEOREM TypeCorrect == Spec => []TypeOK
<1>1. CInv => TypeOK
  BY TablesFit
<1>2. QED
  BY <1>1, CompilerInvariant, PTL

(* Without declarations in the bodies of a switch, every instruction is    *)
(* reached at one height of the stack, that of its locals and temporaries, *)
(* and every jump to the start of a loop finds the height it was entered   *)
(* with: compile_stmt's scopes, pops and jumps balance, for programs of    *)
(* any size.                                                               *)
THEOREM DepthsAreStatic ==
  ASSUME NoCaseDeclarations
  PROVE  Spec => []DepthIsStatic
<1>1. CInv => DepthIsStatic
  BY DepthsFit
<1>2. QED
  BY <1>1, CompilerInvariant, PTL

(* Without a switch whose default body lies too far away, no program is    *)
(* returned in which a jump does not reach its label.                      *)
THEOREM JumpsArrive ==
  ASSUME NoLongSwitch
  PROVE  Spec => []ShippedJumpsArrive
<1>1. CInv => ShippedJumpsArrive
  BY JumpsFit
<1>2. QED
  BY <1>1, CompilerInvariant, PTL

(* Without functions inside functions with locals in scope, resolve_local  *)
(* and resolve_var find the same variable for every name, at every point   *)
(* of every program.                                                       *)
THEOREM NamesResolveAlike ==
  ASSUME NoLocalFunctions
  PROVE  Spec => []NamesAgree
<1>1. CInv => NamesAgree
  BY NamesFit
<1>2. QED
  BY <1>1, CompilerInvariant, PTL
=============================================================================
