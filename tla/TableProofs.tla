----------------------------- MODULE TableProofs ----------------------------
(***************************************************************************)
(* Proofs about the hash table of module Table, for any keys, hash values  *)
(* and capacities.                                                         *)
(***************************************************************************)
EXTENDS Table, FiniteSetTheorems, WellFoundedInduction, TLAPS

(* An array of n entries.                                                  *)
Pairs == [key : Key, value : Value \cup {Nil}]
Arrays(n) == [0 .. n - 1 -> Pairs \cup {Empty, Tombstone}]

UsedIn(es) == {i \in DOMAIN es : es[i] # Empty}
KeyedIn(es) == {i \in DOMAIN es : es[i].key # NULL}

(* A search for k gets as far as distance d.                               *)
PassedUpTo(es, k, d) ==
    \A e \in 0 .. d - 1 : LET entry == es[Probe(es, k, e)] IN entry # Empty /\ entry.key # k

(* A search for any key in the array gets to it.                           *)
Reachable(es) ==
    \A i \in KeyedIn(es) : \E d \in 0 .. Capacity(es) - 1 :
       Probe(es, es[i].key, d) = i /\ PassedUpTo(es, es[i].key, d)

TInv ==
    /\ hash \in [Key -> Nat]
    /\ \E n \in 0 .. MaxCapacity : entries \in Arrays(n)
    /\ growing \subseteq Key \X (Value \cup {Nil})
    /\ growing # {} => GrowCapacity <= MaxCapacity
    /\ Capacity(entries) = 0 \/ Capacity(entries) >= MinCapacity
    /\ CountIsExact /\ 4 * count <= 3 * Capacity(entries)
    /\ Reachable(entries)
----------------------------------------------------------------------------
(* Arithmetic of probing, and induction over the naturals in terms of sets *)

LEMMA SmallestInSet ==
  ASSUME NEW T \in SUBSET Nat, T # {}
  PROVE  \E x \in T : \A y \in T : x <= y
<1> DEFINE R == OpToRel(<, Nat)
<1>1. IsWellFoundedOn(R, Nat)
  BY NatLessThanWellFounded
<1>2. \A y, x \in Nat : y < x => <<y, x>> \in R
  BY DEF OpToRel
<1> HIDE DEF R
<1>3. PICK x \in T : \A y \in T : ~ (<<y, x>> \in R)
  BY <1>1, WFMin
<1>4. \A y \in T : ~ (y < x)
  BY <1>2, <1>3
<1>5. QED
  BY <1>4

LEMMA SetInduction ==
  ASSUME NEW S, 0 \in S, \A n \in Nat : n \in S => n + 1 \in S
  PROVE  Nat \subseteq S
<1> SUFFICES ASSUME Nat \ S # {} PROVE FALSE
  OBVIOUS
<1>1. PICK x \in Nat \ S : \A y \in Nat \ S : x <= y
  BY SmallestInSet
<1>2. x # 0 /\ x - 1 \in Nat /\ x - 1 \notin Nat \ S
  BY <1>1
<1>3. QED
  BY <1>1, <1>2

LEMMA LeastIs ==
  ASSUME NEW S \in SUBSET Nat, S # {}
  PROVE  Least(S) \in S /\ \A other \in S : Least(S) <= other
  BY SmallestInSet DEF Least

LEMMA OnlyLeast ==
  ASSUME NEW S \in SUBSET Nat, NEW d \in S, \A e \in 0 .. d - 1 : e \notin S
  PROVE  Least(S) = d
<1>1. Least(S) \in Nat /\ Least(S) \in S /\ Least(S) <= d /\ d \in Nat
  BY LeastIs
<1>2. Least(S) \notin 0 .. d - 1
  BY <1>1
<1>3. QED
  BY <1>1, <1>2

(* Every index is probed: h + d runs through all of them.                  *)
LEMMA Wraps ==
  ASSUME NEW h \in Nat, NEW n \in Nat \ {0}, NEW j \in 0 .. n - 1
  PROVE  \E d \in 0 .. n - 1 : (h + d) % n = j
<1> DEFINE q == h \div n
           r == h % n
<1>1. h = n * q + r
  OBVIOUS
<1>2. q \in Nat /\ r \in 0 .. n - 1
  OBVIOUS
<1> HIDE DEF q, r
<1>3. CASE j >= r
  <2>1. (n * q + j) % n = j
    BY <1>2
  <2>2. n * q \in Int
    BY <1>2
  <2>3. h + (j - r) = n * q + j
    BY <1>1, <1>2, <2>2
  <2>4. j - r \in 0 .. n - 1
    BY <1>2, <1>3
  <2>5. QED
    BY <2>1, <2>3, <2>4
<1>4. CASE ~ (j >= r)
  <2>1. (n * (q + 1) + j) % n = j
    BY <1>2
  <2>2. n * q \in Int /\ n * (q + 1) = n * q + n
    BY <1>2
  <2>3. h + (j - r + n) = n * (q + 1) + j
    BY <1>1, <1>2, <2>2
  <2>4. j - r + n \in 0 .. n - 1
    BY <1>2, <1>4
  <2>5. QED
    BY <2>1, <2>3, <2>4
<1>5. QED
  BY <1>3, <1>4

(* Arrays of entries.                                                      *)

LEMMA ArrayFacts ==
  ASSUME NEW n \in Nat, NEW es \in Arrays(n)
  PROVE  /\ Capacity(es) = n /\ DOMAIN es = 0 .. n - 1
         /\ IsFiniteSet(DOMAIN es) /\ Cardinality(DOMAIN es) = n
         /\ \A i \in DOMAIN es : es[i] \in Pairs \cup {Empty, Tombstone}
  BY FS_Interval DEF Arrays, Capacity

LEMMA EntryFacts ==
  /\ Empty.key = NULL /\ Tombstone.key = NULL /\ Empty # Tombstone
  /\ \A p \in Pairs : p.key \in Key /\ p.key # NULL /\ p # Empty /\ p # Tombstone
  /\ \A k \in Key, v \in Value \cup {Nil} :
        Entry(k, v) \in Pairs /\ Entry(k, v).key = k /\ Entry(k, v).value = v
<1>1. Empty.key = NULL /\ Empty.value = Nil /\ Tombstone.key = NULL /\ Tombstone.value = TRUE
  BY DEF Empty, Tombstone, Entry
<1>2. \A p \in Pairs : p.key \in Key
  BY DEF Pairs
<1>3. \A k \in Key, v \in Value \cup {Nil} :
        Entry(k, v) \in Pairs /\ Entry(k, v).key = k /\ Entry(k, v).value = v
  BY DEF Entry, Pairs
<1>4. Empty # Tombstone
  BY <1>1, TableAssumption
<1>5. \A p \in Pairs : p.key # NULL
  BY <1>2, TableAssumption
<1>6. QED
  BY <1>1, <1>2, <1>3, <1>4, <1>5

LEMMA Probes ==
  ASSUME NEW n \in Nat \ {0}, NEW es \in Arrays(n), hash \in [Key -> Nat], NEW k \in Key
  PROVE  /\ \A d \in Nat : Probe(es, k, d) \in 0 .. n - 1
         /\ \A j \in 0 .. n - 1 : \E d \in 0 .. n - 1 : Probe(es, k, d) = j
<1>1. hash[k] \in Nat /\ Capacity(es) = n
  BY ArrayFacts
<1>2. \A d \in Nat : Probe(es, k, d) \in 0 .. n - 1
  BY <1>1 DEF Probe
<1>3. ASSUME NEW j \in 0 .. n - 1 PROVE \E d \in 0 .. n - 1 : Probe(es, k, d) = j
  BY <1>1, Wraps DEF Probe
<1>4. QED
  BY <1>2, <1>3

LEMMA StopsMean ==
  ASSUME NEW n \in Nat, NEW es \in Arrays(n), NEW k
  PROVE  \A d : d \in Stops(es, k) <=>
            /\ d \in 0 .. n - 1
            /\ es[Probe(es, k, d)].key = k \/ es[Probe(es, k, d)] = Empty
  BY ArrayFacts DEF Stops

(* find_entry, for a key in the array.                                     *)
LEMMA FindKeyed ==
  ASSUME NEW n \in Nat, NEW es \in Arrays(n), hash \in [Key -> Nat], Reachable(es),
         NEW i \in KeyedIn(es)
  PROVE  FindEntry(es, es[i].key) = i
<1> DEFINE k == es[i].key
           last == Least(Stops(es, k))
<1>1. Capacity(es) = n
  BY ArrayFacts
<1>2. PICK d \in 0 .. n - 1 : Probe(es, k, d) = i /\ PassedUpTo(es, k, d)
  BY <1>1 DEF Reachable
<1>3. d \in Stops(es, k) /\ Stops(es, k) \subseteq Nat /\ \A e \in 0 .. d - 1 : e \notin Stops(es, k)
  BY <1>1, <1>2 DEF Stops, PassedUpTo
<1>4. last = d
  BY <1>3, OnlyLeast
<1>5. es[Probe(es, k, last)].key = k
  BY <1>2, <1>4
<1>6. FindEntry(es, k) = Probe(es, k, last)
  BY <1>5 DEF FindEntry
<1>7. QED
  BY <1>2, <1>4, <1>6

(* So a key is there once.                                                 *)
LEMMA KeysOnce ==
  ASSUME NEW n \in Nat, NEW es \in Arrays(n), hash \in [Key -> Nat], Reachable(es),
         NEW i \in KeyedIn(es), NEW j \in KeyedIn(es), es[i].key = es[j].key
  PROVE  i = j
  BY FindKeyed

(* find_entry, for one that is not.                                        *)
LEMMA FindNew ==
  ASSUME NEW n \in Nat, NEW es \in Arrays(n), hash \in [Key -> Nat], NEW k \in Key,
         k \notin Keys(es), NEW free \in DOMAIN es, es[free] = Empty
  PROVE  /\ FindEntry(es, k) \in DOMAIN es
         /\ es[FindEntry(es, k)] \in {Empty, Tombstone}
         /\ \E d \in 0 .. n - 1 :
               /\ FindEntry(es, k) = Probe(es, k, d) /\ PassedUpTo(es, k, d)
               /\ \A e \in 0 .. d - 1 : Probe(es, k, e) # FindEntry(es, k)
<1> DEFINE last == Least(Stops(es, k))
           tombstones == {d \in 0 .. last - 1 : es[Probe(es, k, d)] = Tombstone}
<1>1. Capacity(es) = n /\ DOMAIN es = 0 .. n - 1 /\ n > 0
  BY ArrayFacts
<1>2. /\ \A d \in Nat : Probe(es, k, d) \in DOMAIN es
      /\ \E d \in 0 .. n - 1 : Probe(es, k, d) = free
  <2>1. n \in Nat \ {0} /\ free \in 0 .. n - 1
    BY <1>1
  <2>2. /\ \A d \in Nat : Probe(es, k, d) \in 0 .. n - 1
        /\ \A j \in 0 .. n - 1 : \E d \in 0 .. n - 1 : Probe(es, k, d) = j
    BY <2>1, Probes
  <2>3. QED
    BY <1>1, <2>1, <2>2
<1>3. \A i \in DOMAIN es : es[i].key # k
  BY TableAssumption DEF Keys
<1>4. Stops(es, k) # {} /\ Stops(es, k) \in SUBSET Nat
  <2>1. \A d \in Stops(es, k) : d \in Nat
    BY <1>1, StopsMean
  <2>2. QED
    BY <1>1, <1>2, <2>1, StopsMean
<1>5. last \in Stops(es, k) /\ \A d \in Stops(es, k) : last <= d
  BY <1>4, LeastIs
<1>6. last \in 0 .. n - 1 /\ es[Probe(es, k, last)] = Empty
  <2>1. last \in 0 .. n - 1
    BY <1>5, StopsMean
  <2>2. last \in Nat
    BY <1>1, <2>1
  <2>3. Probe(es, k, last) \in DOMAIN es
    BY <1>2, <2>2
  <2>4. QED
    BY <1>3, <1>5, <2>1, <2>3, StopsMean
<1>7. \A e \in 0 .. last - 1 : es[Probe(es, k, e)] # Empty /\ es[Probe(es, k, e)].key # k
  <2> SUFFICES ASSUME NEW e \in 0 .. last - 1
               PROVE  es[Probe(es, k, e)] # Empty /\ es[Probe(es, k, e)].key # k
    OBVIOUS
  <2> HIDE DEF last
  <2>1. e \in 0 .. n - 1 /\ ~ (last <= e)
    BY <1>1, <1>6
  <2>2. e \notin Stops(es, k)
    BY <1>5, <2>1
  <2>3. QED
    BY <2>1, <2>2, StopsMean
<1>8. FindEntry(es, k) = IF tombstones = {} THEN Probe(es, k, last)
                         ELSE Probe(es, k, Least(tombstones))
  BY <1>2, <1>3, <1>6 DEF FindEntry
<1> HIDE DEF last
<1>9. CASE tombstones = {}
  <2>1. FindEntry(es, k) = Probe(es, k, last)
    BY <1>8, <1>9
  <2>2. \A e \in 0 .. last - 1 : Probe(es, k, e) # FindEntry(es, k)
    BY <1>6, <1>7, <2>1
  <2>3. QED
    BY <1>2, <1>6, <1>7, <2>1, <2>2 DEF PassedUpTo
<1>10. CASE tombstones # {}
  <2>1. tombstones \in SUBSET Nat
    BY <1>6
  <2>2. PICK t \in tombstones : t = Least(tombstones) /\ \A d \in tombstones : t <= d
    BY <1>10, <2>1, LeastIs
  <2>3. FindEntry(es, k) = Probe(es, k, t) /\ t \in 0 .. last - 1 /\ es[Probe(es, k, t)] = Tombstone
    BY <1>8, <1>10, <2>2
  <2>4. \A e \in 0 .. t - 1 : e \in 0 .. last - 1 /\ e \notin tombstones
    BY <1>6, <2>2, <2>3
  <2>5. \A e \in 0 .. t - 1 : es[Probe(es, k, e)] # Tombstone
    BY <2>4
  <2>6. QED
    BY <1>2, <1>6, <1>7, <2>3, <2>4, <2>5 DEF PassedUpTo
<1>11. QED
  BY <1>9, <1>10
----------------------------------------------------------------------------
LEMMA SameProbes ==
  ASSUME NEW n \in Nat, NEW es \in Arrays(n), NEW new \in Arrays(n)
  PROVE  \A k, d : Probe(new, k, d) = Probe(es, k, d)
  BY ArrayFacts DEF Probe

LEMMA KeysMean ==
  ASSUME NEW es
  PROVE  \A k : k \in Keys(es) <=> \E i \in KeyedIn(es) : es[i].key = k
  BY DEF Keys, KeyedIn

(* The entry that find_entry answers is filled in.                         *)
Filled(es, k, v) == [es EXCEPT ![FindEntry(es, k)] = Entry(k, v)]

LEMMA InsertArray ==
  ASSUME NEW n \in Nat, NEW es \in Arrays(n), hash \in [Key -> Nat], Reachable(es),
         NEW k \in Key, NEW v \in Value \cup {Nil},
         k \in Keys(es) \/ \E free \in DOMAIN es : es[free] = Empty
  PROVE  LET i   == FindEntry(es, k)
             new == Filled(es, k, v)
         IN  /\ i \in DOMAIN es /\ es[i].key \in {k, NULL} /\ (k \in Keys(es) <=> es[i].key = k)
             /\ new \in Arrays(n) /\ Reachable(new)
             /\ new[i] = Entry(k, v) /\ \A j \in DOMAIN es : j # i => new[j] = es[j]
             /\ KeyedIn(new) = KeyedIn(es) \cup {i} /\ UsedIn(new) = UsedIn(es) \cup {i}
             /\ Keys(new) = Keys(es) \cup {k}
<1> DEFINE i   == FindEntry(es, k)
           new == Filled(es, k, v)
<1>0. i = FindEntry(es, k) /\ new = [es EXCEPT ![i] = Entry(k, v)]
  BY DEF Filled
<1> HIDE DEF i, new
<1>1. /\ DOMAIN es = 0 .. n - 1 /\ Capacity(es) = n
      /\ \A j \in DOMAIN es : es[j] \in Pairs \cup {Empty, Tombstone}
  BY ArrayFacts
<1>2. k # NULL
  BY TableAssumption
<1>3. k \in Keys(es) => i \in KeyedIn(es) /\ es[i].key = k
  BY <1>0, FindKeyed, KeysMean
<1>4. k \notin Keys(es) => i \in DOMAIN es /\ es[i] \in {Empty, Tombstone}
  BY <1>0, FindNew
<1>5. i \in DOMAIN es /\ es[i].key \in {k, NULL} /\ (k \in Keys(es) <=> es[i].key = k)
  BY <1>2, <1>3, <1>4, EntryFacts DEF KeyedIn
<1>6. /\ DOMAIN new = DOMAIN es /\ new[i] = Entry(k, v)
      /\ \A j \in DOMAIN es : j # i => new[j] = es[j]
  BY <1>0, <1>5 DEF Arrays
<1>7. new \in Arrays(n)
  BY <1>0, <1>1, <1>5, EntryFacts DEF Arrays
<1>8. new[i].key = k /\ new[i] # Empty
  BY <1>6, EntryFacts
<1>9. KeyedIn(new) = KeyedIn(es) \cup {i} /\ UsedIn(new) = UsedIn(es) \cup {i}
  BY <1>2, <1>5, <1>6, <1>8 DEF KeyedIn, UsedIn
<1>10. Keys(new) = Keys(es) \cup {k}
  <2>2. ASSUME NEW g \in Keys(es) PROVE g = k \/ g \in Keys(new)
    <3>1. PICK j \in KeyedIn(es) : es[j].key = g
      BY KeysMean
    <3>2. CASE j = i
      BY <1>5, <3>1, <3>2 DEF KeyedIn
    <3>3. CASE j # i
      BY <1>6, <1>9, <3>1, <3>3, KeysMean DEF KeyedIn
    <3>4. QED
      BY <3>2, <3>3
  <2>3. k \in Keys(new)
    BY <1>8, <1>9, KeysMean
  <2>4. ASSUME NEW g \in Keys(new), g # k PROVE g \in Keys(es)
    <3>1. PICK j \in KeyedIn(new) : new[j].key = g
      BY KeysMean
    <3>2. j \in KeyedIn(es) /\ es[j].key = g
      BY <1>6, <1>8, <1>9, <2>4, <3>1 DEF KeyedIn
    <3>3. QED
      BY <3>2, KeysMean
  <2>5. QED
    BY <2>2, <2>3, <2>4
<1>11. \A g, d : Probe(new, g, d) = Probe(es, g, d)
  BY <1>7, SameProbes
<1>12. Capacity(new) = n
  BY <1>7, ArrayFacts
<1>13. ASSUME NEW g \in Key, NEW d \in 0 .. n, g # k, PassedUpTo(es, g, d)
       PROVE  PassedUpTo(new, g, d)
  <2> SUFFICES ASSUME NEW e \in 0 .. d - 1
               PROVE  new[Probe(new, g, e)] # Empty /\ new[Probe(new, g, e)].key # g
    BY DEF PassedUpTo
  <2>1. es[Probe(es, g, e)] # Empty /\ es[Probe(es, g, e)].key # g
    BY <1>13 DEF PassedUpTo
  <2>2. n \in Nat \ {0} /\ e \in Nat
    OBVIOUS
  <2>3. Probe(es, g, e) \in DOMAIN es
    BY <1>1, <2>2, Probes
  <2>4. QED
    BY <1>6, <1>8, <1>11, <1>13, <2>1, <2>3
<1>14. ASSUME NEW j \in KeyedIn(es), j # i
       PROVE  \E d \in 0 .. n - 1 : Probe(new, new[j].key, d) = j /\ PassedUpTo(new, new[j].key, d)
  <2>1. PICK d \in 0 .. n - 1 : Probe(es, es[j].key, d) = j /\ PassedUpTo(es, es[j].key, d)
    BY <1>1 DEF Reachable
  <2>2. new[j] = es[j] /\ es[j].key \in Key
    BY <1>1, <1>6, <1>14, EntryFacts DEF KeyedIn
  <2>3. es[j].key # k
    BY <1>3, <1>14, KeysOnce, KeysMean
  <2>4. PassedUpTo(new, es[j].key, d)
    <3> DEFINE g == es[j].key
    <3>1. d \in 0 .. n /\ g \in Key /\ g # k /\ PassedUpTo(es, g, d)
      BY <2>1, <2>2, <2>3
    <3> HIDE DEF g
    <3>2. PassedUpTo(new, g, d)
      BY <1>13, <3>1
    <3>3. QED
      BY <3>2 DEF g
  <2>5. QED
    BY <1>11, <2>1, <2>2, <2>4
<1>15. \E d \in 0 .. n - 1 : Probe(new, k, d) = i /\ PassedUpTo(new, k, d)
  <2>1. PICK d \in 0 .. n - 1 : Probe(es, k, d) = i /\ PassedUpTo(es, k, d)
                                /\ \A e \in 0 .. d - 1 : Probe(es, k, e) # i
    <3>1. CASE k \in Keys(es)
      <4>1. PICK d \in 0 .. n - 1 : Probe(es, k, d) = i /\ PassedUpTo(es, k, d)
        BY <1>1, <1>3, <3>1 DEF Reachable
      <4>2. \A e \in 0 .. d - 1 : Probe(es, k, e) # i
        BY <1>3, <3>1, <4>1 DEF PassedUpTo
      <4>3. QED
        BY <4>1, <4>2
    <3>2. CASE k \notin Keys(es)
      BY <1>0, <3>2, FindNew
    <3>3. QED
      BY <3>1, <3>2
  <2>2. ASSUME NEW e \in 0 .. d - 1
        PROVE  new[Probe(new, k, e)] # Empty /\ new[Probe(new, k, e)].key # k
    <3>1. n \in Nat \ {0} /\ e \in Nat
      OBVIOUS
    <3>2. Probe(es, k, e) \in DOMAIN es
      BY <1>1, <3>1, Probes
    <3>3. QED
      BY <1>6, <1>11, <2>1, <3>2 DEF PassedUpTo
  <2>3. QED
    BY <1>11, <2>1, <2>2 DEF PassedUpTo
<1>16. Reachable(new)
  <2> SUFFICES ASSUME NEW j \in KeyedIn(new)
               PROVE  \E d \in 0 .. n - 1 : /\ Probe(new, new[j].key, d) = j
                                            /\ PassedUpTo(new, new[j].key, d)
    BY <1>12 DEF Reachable
  <2>1. CASE j = i
    BY <1>8, <1>15, <2>1
  <2>2. CASE j # i
    BY <1>9, <1>14, <2>2
  <2>3. QED
    BY <2>1, <2>2
<1>17. QED
  BY <1>5, <1>6, <1>7, <1>9, <1>10, <1>16 DEF i, new

(* Tombstones take the place of keys.                                      *)
Buried(es, K, new) ==
    \A j \in DOMAIN es :
       new[j] = IF j \in KeyedIn(es) /\ es[j].key \in K THEN Tombstone ELSE es[j]

LEMMA DeleteArray ==
  ASSUME NEW n \in Nat, NEW es \in Arrays(n), hash \in [Key -> Nat], Reachable(es), NEW K,
         NEW new \in Arrays(n), Buried(es, K, new)
  PROVE  /\ new \in Arrays(n) /\ Reachable(new)
         /\ UsedIn(new) = UsedIn(es) /\ Keys(new) = Keys(es) \ K
         /\ \A j \in KeyedIn(new) : j \in KeyedIn(es) /\ new[j] = es[j]
<1>1. /\ DOMAIN es = 0 .. n - 1 /\ Capacity(es) = n
      /\ \A j \in DOMAIN es : es[j] \in Pairs \cup {Empty, Tombstone}
  BY ArrayFacts
<1>2. /\ DOMAIN new = DOMAIN es
      /\ \A j \in DOMAIN es :
            new[j] = IF j \in KeyedIn(es) /\ es[j].key \in K THEN Tombstone ELSE es[j]
  BY <1>1, ArrayFacts DEF Buried
<1>3. /\ \A j : j \in KeyedIn(new) <=> j \in KeyedIn(es) /\ es[j].key \notin K
      /\ \A j \in KeyedIn(new) : new[j] = es[j]
  BY <1>2, EntryFacts DEF KeyedIn
<1>4. UsedIn(new) = UsedIn(es)
  BY <1>1, <1>2, EntryFacts DEF UsedIn, KeyedIn
<1>5. Keys(new) = Keys(es) \ K
  <2>1. \A g : g \in Keys(new) <=> g \in Keys(es) \ K
    BY <1>3, KeysMean
  <2>2. QED
    BY <2>1
<1>6. Reachable(new)
  <2> SUFFICES ASSUME NEW i \in KeyedIn(new)
               PROVE  \E d \in 0 .. n - 1 : /\ Probe(new, new[i].key, d) = i
                                            /\ PassedUpTo(new, new[i].key, d)
    BY <1>2, ArrayFacts DEF Reachable
  <2> DEFINE g == es[i].key
  <2>1. i \in KeyedIn(es) /\ new[i] = es[i] /\ g \in Key /\ g # NULL
    BY <1>1, <1>3, EntryFacts DEF KeyedIn
  <2>2. PICK d \in 0 .. n - 1 : Probe(es, g, d) = i /\ PassedUpTo(es, g, d)
    BY <1>1, <2>1 DEF Reachable
  <2> HIDE DEF g
  <2>3. \A h, e : Probe(new, h, e) = Probe(es, h, e)
    BY <1>2, SameProbes
  <2>4. ASSUME NEW e \in 0 .. d - 1
        PROVE  new[Probe(new, g, e)] # Empty /\ new[Probe(new, g, e)].key # g
    <3>1. n \in Nat \ {0} /\ e \in Nat
      OBVIOUS
    <3>2. Probe(es, g, e) \in DOMAIN es
      BY <1>1, <2>1, <3>1, Probes
    <3>3. es[Probe(es, g, e)] # Empty /\ es[Probe(es, g, e)].key # g
      BY <2>2 DEF PassedUpTo
    <3>4. new[Probe(es, g, e)] \in {Tombstone, es[Probe(es, g, e)]}
      BY <1>2, <3>2
    <3>5. QED
      BY <2>1, <2>3, <3>3, <3>4, EntryFacts
  <2>5. PassedUpTo(new, g, d)
    BY <2>4 DEF PassedUpTo
  <2>6. QED
    BY <2>1, <2>2, <2>3, <2>5 DEF g
<1>7. QED
  BY <1>2, <1>3, <1>4, <1>5, <1>6

(* Numbers of entries.                                                     *)

LEMMA FreeEntry ==
  ASSUME NEW n \in Nat, NEW es \in Arrays(n), Cardinality(UsedIn(es)) < n
  PROVE  \E free \in DOMAIN es : es[free] = Empty
<1> SUFFICES ASSUME \A i \in DOMAIN es : es[i] # Empty PROVE FALSE
  OBVIOUS
<1>1. UsedIn(es) = DOMAIN es
  BY DEF UsedIn
<1>2. QED
  BY <1>1, ArrayFacts

LEMMA UsedFinite ==
  ASSUME NEW n \in Nat, NEW es \in Arrays(n)
  PROVE  /\ IsFiniteSet(UsedIn(es)) /\ IsFiniteSet(KeyedIn(es))
         /\ Cardinality(UsedIn(es)) \in Nat /\ Cardinality(KeyedIn(es)) \in Nat
         /\ Cardinality(KeyedIn(es)) <= Cardinality(UsedIn(es))
<1>1. UsedIn(es) \in SUBSET DOMAIN es /\ KeyedIn(es) \in SUBSET UsedIn(es)
  BY EntryFacts DEF UsedIn, KeyedIn
<1>2. IsFiniteSet(UsedIn(es))
  BY <1>1, ArrayFacts, FS_Subset
<1>3. IsFiniteSet(KeyedIn(es)) /\ Cardinality(KeyedIn(es)) <= Cardinality(UsedIn(es))
  BY <1>1, <1>2, FS_Subset
<1>4. QED
  BY <1>2, <1>3, FS_CardinalityType

LEMMA KeysCount ==
  ASSUME NEW n \in Nat, NEW es \in Arrays(n), hash \in [Key -> Nat], Reachable(es)
  PROVE  IsFiniteSet(Keys(es)) /\ Cardinality(Keys(es)) = Cardinality(KeyedIn(es))
<1> DEFINE f == [i \in KeyedIn(es) |-> es[i].key]
<1>1. f \in [KeyedIn(es) -> Keys(es)]
  BY KeysMean
<1>2. \A i, j \in KeyedIn(es) : f[i] = f[j] => i = j
  BY KeysOnce
<1>3. \A k \in Keys(es) : \E i \in KeyedIn(es) : f[i] = k
  BY KeysMean
<1> HIDE DEF f
<1>4. f \in Bijection(KeyedIn(es), Keys(es))
  <2>1. f \in Injection(KeyedIn(es), Keys(es))
    BY <1>1, <1>2 DEF Injection, IsInjective
  <2>2. f \in Surjection(KeyedIn(es), Keys(es))
    BY <1>1, <1>3 DEF Surjection
  <2>3. QED
    BY <2>1, <2>2 DEF Bijection
<1>5. QED
  BY <1>4, UsedFinite, FS_Bijection DEF ExistsBijection
----------------------------------------------------------------------------
(* adjust_capacity: one entry of the old array after the other.            *)

EmptyArray(capacity) == [i \in 0 .. capacity - 1 |-> Empty]

(* What entry i of es does to the new array.                               *)
Reinsert(es, a, i) ==
    IF es[i].key = NULL THEN a ELSE [a EXCEPT ![FindEntry(a, es[i].key)] = es[i]]

LEMMA RehashedSteps ==
  ASSUME NEW es, Capacity(es) \in Nat, NEW capacity
  PROVE  \E ins : /\ DOMAIN ins = 0 .. Capacity(es)
                  /\ ins[0] = EmptyArray(capacity)
                  /\ \A n \in 1 .. Capacity(es) : ins[n] = Reinsert(es, ins[n - 1], n - 1)
                  /\ Rehashed(es, capacity) = ins[Capacity(es)]
<1> DEFINE N == Capacity(es)
           Next0(g, n) == IF n = 0 THEN EmptyArray(capacity) ELSE Reinsert(es, g[n - 1], n - 1)
           S == {m \in Nat : \E g : g = [n \in 0 .. m |-> Next0(g, n)]}
           ins == CHOOSE g : g = [n \in 0 .. N |-> Next0(g, n)]
<1>1. 0 \in S
  <2> DEFINE g == [n \in 0 .. 0 |-> EmptyArray(capacity)]
  <2>1. g = [n \in 0 .. 0 |-> Next0(g, n)]
    OBVIOUS
  <2>2. QED
    BY <2>1
<1>2. ASSUME NEW m \in Nat, m \in S PROVE m + 1 \in S
  <2>1. PICK g : g = [n \in 0 .. m |-> Next0(g, n)]
    BY <1>2
  <2> DEFINE h == [n \in 0 .. m + 1 |-> IF n = m + 1 THEN Next0(g, n) ELSE g[n]]
  <2> HIDE DEF Next0
  <2>2. \A n \in 0 .. m : g[n] = Next0(g, n)
    BY <2>1
  <2>3. \A n \in 0 .. m : h[n] = g[n]
    OBVIOUS
  <2>4. \A n \in 0 .. m + 1 : Next0(h, n) = Next0(g, n)
    BY <2>3 DEF Next0
  <2>5. \A n \in 0 .. m + 1 : h[n] = Next0(h, n)
    BY <2>2, <2>4
  <2>6. h = [n \in 0 .. m + 1 |-> h[n]]
    OBVIOUS
  <2> HIDE DEF h
  <2>7. h = [n \in 0 .. m + 1 |-> Next0(h, n)]
    BY <2>5, <2>6
  <2>8. QED
    BY <2>7
<1>3. N \in S
  <2> HIDE DEF S
  <2>1. Nat \subseteq S
    BY <1>1, <1>2, SetInduction
  <2>2. QED
    BY <2>1
<1>4. ins = [n \in 0 .. N |-> Next0(ins, n)]
  <2>1. \E g : g = [n \in 0 .. N |-> Next0(g, n)]
    BY <1>3
  <2> HIDE DEF Next0
  <2>2. QED
    BY <2>1
<1>5. Rehashed(es, capacity) = ins[N]
  BY DEF Rehashed, Reinsert, EmptyArray
<1> HIDE DEF ins
<1>6. /\ DOMAIN ins = 0 .. N /\ ins[0] = EmptyArray(capacity)
      /\ \A n \in 1 .. N : ins[n] = Reinsert(es, ins[n - 1], n - 1)
  BY <1>4
<1>7. QED
  BY <1>5, <1>6
----------------------------------------------------------------------------
LEMMA RehashedArray ==
  ASSUME NEW n \in Nat, NEW es \in Arrays(n), hash \in [Key -> Nat], Reachable(es),
         NEW c \in Nat, Cardinality(Keys(es)) < c, NEW new, new = Rehashed(es, c)
  PROVE  /\ new \in Arrays(c) /\ Reachable(new) /\ UsedIn(new) = KeyedIn(new)
         /\ Keys(new) = Keys(es)
         /\ \A j \in KeyedIn(new) : \E i \in KeyedIn(es) : es[i] = new[j]
<1> DEFINE Good(a, m) ==
              /\ a \in Arrays(c) /\ Reachable(a) /\ UsedIn(a) = KeyedIn(a)
              /\ \A k : k \in Keys(a) <=> \E i \in KeyedIn(es) : i < m /\ es[i].key = k
              /\ \A j \in KeyedIn(a) : \E i \in KeyedIn(es) : es[i] = a[j]
<1>1. /\ Capacity(es) = n /\ DOMAIN es = 0 .. n - 1
      /\ \A i \in DOMAIN es : es[i] \in Pairs \cup {Empty, Tombstone}
  BY ArrayFacts
<1>2. PICK ins : /\ ins[0] = EmptyArray(c)
                 /\ \A m \in 1 .. n : ins[m] = Reinsert(es, ins[m - 1], m - 1)
                 /\ new = ins[n]
  BY <1>1, RehashedSteps
<1> DEFINE S == {m \in Nat : m <= n => Good(ins[m], m)}
<1>3. Good(EmptyArray(c), 0)
  <2> DEFINE a == EmptyArray(c)
  <2>1. a \in Arrays(c) /\ \A i \in DOMAIN a : a[i] = Empty
    BY DEF EmptyArray, Arrays
  <2>2. UsedIn(a) = {} /\ KeyedIn(a) = {}
    BY <2>1, EntryFacts DEF UsedIn, KeyedIn
  <2>3. Reachable(a)
    BY <2>2 DEF Reachable
  <2>4. \A k : k \notin Keys(a)
    BY <2>2, KeysMean
  <2>5. \A i \in KeyedIn(es) : ~ (i < 0)
    BY <1>1 DEF KeyedIn
  <2>6. QED
    BY <2>1, <2>2, <2>3, <2>4, <2>5
<1>4. ASSUME NEW m \in 0 .. n - 1, NEW a, Good(a, m) PROVE Good(Reinsert(es, a, m), m + 1)
  <2> DEFINE k == es[m].key
             v == es[m].value
             b == Reinsert(es, a, m)
  <2>1. m \in DOMAIN es /\ \A i \in KeyedIn(es) : i < m + 1 <=> i < m \/ i = m
    BY <1>1 DEF KeyedIn
  <2>2. CASE k = NULL
    <3>1. b = a /\ m \notin KeyedIn(es)
      BY <2>1, <2>2 DEF Reinsert, KeyedIn
    <3>2. QED
      BY <1>4, <2>1, <3>1
  <2>3. CASE k # NULL
    <3>1. m \in KeyedIn(es) /\ es[m] \in Pairs
      BY <1>1, <2>1, <2>3, EntryFacts DEF KeyedIn
    <3>2. k \in Key /\ v \in Value \cup {Nil} /\ es[m] = Entry(k, v)
      BY <3>1 DEF Pairs, Entry
    <3>3. b = Filled(a, k, v)
      <4>1. b = [a EXCEPT ![FindEntry(a, k)] = es[m]]
        BY <2>1, <2>3 DEF Reinsert
      <4> HIDE DEF b
      <4>2. QED
        BY <3>2, <4>1 DEF Filled
    <3>4. Keys(a) \in SUBSET Keys(es)
      BY <1>4, KeysMean
    <3>5. Cardinality(UsedIn(a)) < c
      <4>1. IsFiniteSet(Keys(es)) /\ Cardinality(Keys(es)) \in Nat
        BY KeysCount, FS_CardinalityType
      <4>2. Cardinality(Keys(a)) <= Cardinality(Keys(es)) /\ Cardinality(Keys(a)) \in Nat
        BY <3>4, <4>1, FS_Subset, FS_CardinalityType
      <4>3. Cardinality(UsedIn(a)) = Cardinality(Keys(a))
        BY <1>4, KeysCount
      <4>4. QED
        BY <4>1, <4>2, <4>3
    <3>6. \E free \in DOMAIN a : a[free] = Empty
      BY <1>4, <3>5, FreeEntry
    <3> HIDE DEF k, v, b
    <3> DEFINE i == FindEntry(a, k)
    <3>7. /\ i \in DOMAIN a /\ b \in Arrays(c) /\ Reachable(b)
          /\ b[i] = Entry(k, v) /\ \A j \in DOMAIN a : j # i => b[j] = a[j]
          /\ KeyedIn(b) = KeyedIn(a) \cup {i} /\ UsedIn(b) = UsedIn(a) \cup {i}
          /\ Keys(b) = Keys(a) \cup {k}
      <4>1. a \in Arrays(c) /\ Reachable(a)
        BY <1>4
      <4> HIDE DEF Good
      <4>2. QED
        BY <3>2, <3>3, <3>6, <4>1, InsertArray
    <3> HIDE DEF i
    <3>8. \A g : g \in Keys(b) <=> \E x \in KeyedIn(es) : x < m + 1 /\ es[x].key = g
      <4>1. \A g : g \in Keys(a) <=> \E x \in KeyedIn(es) : x < m /\ es[x].key = g
        BY <1>4
      <4>2. es[m].key = k
        BY DEF k
      <4>3. QED
        BY <2>1, <3>1, <3>7, <4>1, <4>2
    <3>9. \A j \in KeyedIn(b) : \E x \in KeyedIn(es) : es[x] = b[j]
      <4>1. \A j \in KeyedIn(a) : j \in DOMAIN a /\ \E x \in KeyedIn(es) : es[x] = a[j]
        BY <1>4 DEF KeyedIn
      <4>2. QED
        BY <3>1, <3>2, <3>7, <4>1
    <3>10. UsedIn(b) = KeyedIn(b)
      BY <1>4, <3>7
    <3>11. QED
      BY <3>7, <3>8, <3>9, <3>10 DEF b
  <2>4. QED
    BY <2>2, <2>3
<1>5. n \in S
  <2> HIDE DEF Good
  <2>1. 0 \in S
    BY <1>2, <1>3
  <2>2. ASSUME NEW m \in Nat, m \in S PROVE m + 1 \in S
    <3>1. CASE m + 1 <= n
      <4>1. Good(ins[m], m) /\ m \in 0 .. n - 1 /\ m + 1 \in 1 .. n /\ m + 1 - 1 = m
        BY <2>2, <3>1
      <4>2. ins[m + 1] = Reinsert(es, ins[m], m)
        BY <1>2, <4>1
      <4>3. QED
        BY <1>4, <4>1, <4>2
    <3>2. CASE ~ (m + 1 <= n)
      BY <3>2
    <3>3. QED
      BY <3>1, <3>2
  <2> HIDE DEF S
  <2>3. Nat \subseteq S
    BY <2>1, <2>2, SetInduction
  <2>4. QED
    BY <2>3
<1>6. Good(new, n)
  <2> HIDE DEF Good
  <2>1. QED
    BY <1>2, <1>5
<1>7. Keys(new) = Keys(es)
  <2>1. \A i \in KeyedIn(es) : i < n
    BY <1>1 DEF KeyedIn
  <2>2. \A k : k \in Keys(new) <=> k \in Keys(es)
    BY <1>6, <2>1, KeysMean
  <2>3. QED
    BY <2>2
<1>8. QED
  BY <1>6, <1>7

(* Contents.                                                               *)

ContentsOf(es) == [k \in Keys(es) |-> es[CHOOSE i \in DOMAIN es : es[i].key = k].value]

LEMMA ContentsMean ==
  ASSUME NEW n \in Nat, NEW es \in Arrays(n), hash \in [Key -> Nat], Reachable(es)
  PROVE  /\ DOMAIN ContentsOf(es) = Keys(es)
         /\ ContentsOf(es) = [k \in Keys(es) |-> ContentsOf(es)[k]]
         /\ \A i \in KeyedIn(es) : es[i].key \in Keys(es)
                                     /\ ContentsOf(es)[es[i].key] = es[i].value
<1>1. ASSUME NEW i \in KeyedIn(es)
      PROVE  es[i].key \in Keys(es) /\ ContentsOf(es)[es[i].key] = es[i].value
  <2> DEFINE k == es[i].key
             j == CHOOSE x \in DOMAIN es : es[x].key = k
  <2>1. k \in Keys(es)
    BY KeysMean
  <2>2. j \in KeyedIn(es) /\ es[j].key = k
    BY DEF KeyedIn
  <2>3. j = i
    BY <2>2, KeysOnce
  <2>4. ContentsOf(es)[k] = es[j].value
    BY <2>1 DEF ContentsOf
  <2>5. QED
    BY <2>1, <2>3, <2>4
<1>2. DOMAIN ContentsOf(es) = Keys(es)
  BY DEF ContentsOf
<1>3. ContentsOf(es) = [k \in Keys(es) |-> ContentsOf(es)[k]]
  BY DEF ContentsOf
<1>4. QED
  BY <1>1, <1>2, <1>3

LEMMA InsertContents ==
  ASSUME NEW n \in Nat, NEW es \in Arrays(n), hash \in [Key -> Nat], Reachable(es),
         NEW k \in Key, NEW v \in Value \cup {Nil},
         k \in Keys(es) \/ \E free \in DOMAIN es : es[free] = Empty,
         NEW new, new = Filled(es, k, v)
  PROVE  ContentsOf(new) = [j \in DOMAIN ContentsOf(es) \cup {k} |->
                              IF j = k THEN v ELSE ContentsOf(es)[j]]
<1> DEFINE i == FindEntry(es, k)
<1>2. /\ i \in DOMAIN es /\ es[i].key \in {k, NULL}
      /\ new \in Arrays(n) /\ Reachable(new)
      /\ new[i] = Entry(k, v) /\ \A j \in DOMAIN es : j # i => new[j] = es[j]
      /\ KeyedIn(new) = KeyedIn(es) \cup {i} /\ Keys(new) = Keys(es) \cup {k}
  BY InsertArray
<1> HIDE DEF i
<1>3. /\ DOMAIN ContentsOf(es) = Keys(es) /\ DOMAIN ContentsOf(new) = Keys(new)
      /\ ContentsOf(new) = [g \in Keys(new) |-> ContentsOf(new)[g]]
  BY <1>2, ContentsMean
<1>4. ContentsOf(new)[k] = v
  BY <1>2, EntryFacts, ContentsMean
<1>5. ASSUME NEW g \in Keys(es), g # k PROVE ContentsOf(new)[g] = ContentsOf(es)[g]
  <2>1. PICK j \in KeyedIn(es) : es[j].key = g
    BY KeysMean
  <2>2. j # i /\ j \in DOMAIN es
    BY <1>2, <1>5, <2>1 DEF KeyedIn
  <2>3. new[j] = es[j] /\ j \in KeyedIn(new)
    BY <1>2, <2>2
  <2>4. ContentsOf(es)[g] = es[j].value
    BY <2>1, ContentsMean
  <2>5. ContentsOf(new)[g] = es[j].value
    BY <1>2, <2>1, <2>3, ContentsMean
  <2>6. QED
    BY <2>4, <2>5
<1>6. QED
  BY <1>2, <1>3, <1>4, <1>5

LEMMA SubContents ==
  ASSUME NEW n \in Nat, NEW es \in Arrays(n), NEW m \in Nat, NEW new \in Arrays(m),
         hash \in [Key -> Nat], Reachable(es), Reachable(new), Keys(new) \subseteq Keys(es),
         \A j \in KeyedIn(new) : \E i \in KeyedIn(es) : es[i] = new[j]
  PROVE  ContentsOf(new) = [g \in Keys(new) |-> ContentsOf(es)[g]]
<1>1. ASSUME NEW g \in Keys(new) PROVE ContentsOf(new)[g] = ContentsOf(es)[g]
  <2>1. PICK j \in KeyedIn(new) : new[j].key = g
    BY KeysMean
  <2>2. PICK i \in KeyedIn(es) : es[i] = new[j]
    BY <2>1
  <2>3. ContentsOf(es)[g] = es[i].value
    BY <2>1, <2>2, ContentsMean
  <2>4. ContentsOf(new)[g] = new[j].value
    BY <2>1, ContentsMean
  <2>5. QED
    BY <2>2, <2>3, <2>4
<1>2. ContentsOf(new) = [g \in Keys(new) |-> ContentsOf(new)[g]]
  BY ContentsMean
<1>3. QED
  BY <1>1, <1>2
----------------------------------------------------------------------------
(* Steps.                                                                  *)

LEMMA CountMeans == CountIsExact <=> count = Cardinality(UsedIn(entries))
  BY DEF CountIsExact, UsedIn

LEMMA CountThen == CountIsExact' <=> count' = Cardinality(UsedIn(entries'))
  BY DEF CountIsExact, UsedIn

LEMMA ReachableThen ==
  ASSUME hash' = hash
  PROVE  Reachable(entries)' <=> Reachable(entries')
  BY DEF Reachable, KeyedIn, PassedUpTo, Probe, Capacity

LEMMA TInvFacts ==
  ASSUME TInv
  PROVE  \E n \in 0 .. MaxCapacity :
            /\ n \in Nat /\ entries \in Arrays(n) /\ Capacity(entries) = n
            /\ hash \in [Key -> Nat] /\ Reachable(entries)
            /\ count = Cardinality(UsedIn(entries)) /\ count \in Nat /\ 4 * count <= 3 * n
            /\ n = 0 \/ n >= MinCapacity
<1>1. PICK n \in 0 .. MaxCapacity : entries \in Arrays(n)
  BY DEF TInv
<1>2. n \in Nat
  OBVIOUS
<1>3. Capacity(entries) = n /\ count = Cardinality(UsedIn(entries)) /\ count \in Nat
  BY <1>1, <1>2, ArrayFacts, CountMeans, UsedFinite DEF TInv
<1>4. QED
  BY <1>1, <1>2, <1>3 DEF TInv

(* The array es, where an entry is used for k, becomes the table's.        *)
LEMMA InsertTInv ==
  ASSUME TInv, UNCHANGED hash, growing' = {},
         NEW n \in Nat, NEW es \in Arrays(n), Reachable(es), n <= MaxCapacity, n >= MinCapacity,
         4 * (Cardinality(UsedIn(es)) + 1) <= 3 * n,
         NEW k \in Key, NEW v \in Value \cup {Nil},
         Insert(es, Cardinality(UsedIn(es)), k, v)
  PROVE  /\ TInv'
         /\ ContentsOf(entries') = [j \in DOMAIN ContentsOf(es) \cup {k} |->
                                      IF j = k THEN v ELSE ContentsOf(es)[j]]
<1> DEFINE i    == FindEntry(es, k)
           used == Cardinality(UsedIn(es))
<1>1. hash \in [Key -> Nat] /\ MaxCapacity \in Nat /\ used \in Nat
  BY UsedFinite, TableAssumption DEF TInv
<1>2. \E free \in DOMAIN es : es[free] = Empty
  BY <1>1, FreeEntry
<1>3. entries' = Filled(es, k, v) /\ count' = IF es[i] = Empty THEN used + 1 ELSE used
  BY DEF Insert, Filled
<1>4. /\ i \in DOMAIN es /\ entries' \in Arrays(n) /\ Reachable(entries')
      /\ UsedIn(entries') = UsedIn(es) \cup {i}
  BY <1>1, <1>2, <1>3, InsertArray
<1> HIDE DEF i
<1>5. Reachable(entries)' /\ Capacity(entries') = n
  BY <1>4, ReachableThen, ArrayFacts
<1>6. count' = Cardinality(UsedIn(entries')) /\ 4 * count' <= 3 * n
  <2>1. Cardinality(UsedIn(entries')) =
          IF i \in UsedIn(es) THEN Cardinality(UsedIn(es)) ELSE Cardinality(UsedIn(es)) + 1
    BY <1>4, UsedFinite, FS_AddElement
  <2>2. i \in UsedIn(es) <=> es[i] # Empty
    BY <1>4 DEF UsedIn
  <2>3. QED
    BY <1>1, <1>3, <2>1, <2>2
<1>7. TInv'
  <2>1. \E m \in 0 .. MaxCapacity : entries' \in Arrays(m)
    BY <1>1, <1>4
  <2>2. CountIsExact'
    BY <1>6, CountThen
  <2>3. QED
    BY <1>1, <1>5, <1>6, <2>1, <2>2 DEF TInv, Capacity
<1>8. QED
  BY <1>1, <1>2, <1>3, <1>7, InsertContents

LEMMA SetTInv ==
  ASSUME TInv, NEW k \in Key, NEW v \in Value \cup {Nil}, Set(k, v)
  PROVE  /\ TInv'
         /\ ContentsOf(entries') = [j \in DOMAIN ContentsOf(entries) \cup {k} |->
                                      IF j = k THEN v ELSE ContentsOf(entries)[j]]
<1>1. PICK n \in 0 .. MaxCapacity :
            /\ n \in Nat /\ entries \in Arrays(n) /\ Capacity(entries) = n
            /\ hash \in [Key -> Nat] /\ Reachable(entries)
            /\ count = Cardinality(UsedIn(entries)) /\ count \in Nat /\ 4 * count <= 3 * n
            /\ n = 0 \/ n >= MinCapacity
  BY TInvFacts
<1>2. /\ UNCHANGED hash /\ growing' = {} /\ Insert(entries, count, k, v)
      /\ ~ (4 * (count + 1) > 3 * n)
  BY <1>1 DEF Set, Full
<1>3. /\ 4 * (Cardinality(UsedIn(entries)) + 1) <= 3 * n /\ n >= MinCapacity /\ n <= MaxCapacity
      /\ Insert(entries, Cardinality(UsedIn(entries)), k, v)
  BY <1>1, <1>2, TableAssumption
<1>4. /\ n \in Nat /\ entries \in Arrays(n) /\ Reachable(entries)
      /\ UNCHANGED hash /\ growing' = {}
  BY <1>1, <1>2
<1>5. QED
  BY <1>3, <1>4, InsertTInv

LEMMA GrowTInv ==
  ASSUME TInv, Grow
  PROVE  /\ TInv'
         /\ \E k \in Key, v \in Value \cup {Nil} :
               ContentsOf(entries') = [j \in DOMAIN ContentsOf(entries) \cup {k} |->
                                         IF j = k THEN v ELSE ContentsOf(entries)[j]]
<1>1. PICK n \in 0 .. MaxCapacity :
            /\ n \in Nat /\ entries \in Arrays(n) /\ Capacity(entries) = n
            /\ hash \in [Key -> Nat] /\ Reachable(entries)
            /\ count = Cardinality(UsedIn(entries)) /\ count \in Nat /\ 4 * count <= 3 * n
            /\ n = 0 \/ n >= MinCapacity
  BY TInvFacts
<1> DEFINE c    == GrowCapacity
           es   == Rehashed(entries, c)
           used == Cardinality(Keys(entries))
<1>2. PICK pair \in growing : /\ Insert(es, used, pair[1], pair[2])
                              /\ growing' = {} /\ UNCHANGED hash
  BY DEF Grow
<1>3. pair[1] \in Key /\ pair[2] \in Value \cup {Nil}
  BY <1>2 DEF TInv
<1>4. c \in Nat /\ c >= MinCapacity /\ c <= MaxCapacity /\ c = IF n = 0 THEN MinCapacity ELSE 2 * n
  BY <1>1, <1>2, TableAssumption DEF GrowCapacity, TInv
<1>5. used \in Nat /\ used <= count
  <2>1. used = Cardinality(KeyedIn(entries))
    BY <1>1, KeysCount
  <2>2. QED
    BY <1>1, <2>1, UsedFinite
<1>6. 4 * (used + 1) <= 3 * c /\ used < c
  BY <1>1, <1>4, <1>5, TableAssumption
<1> HIDE DEF c
<1>7. /\ es \in Arrays(c) /\ Reachable(es) /\ UsedIn(es) = KeyedIn(es)
      /\ Keys(es) = Keys(entries)
      /\ \A j \in KeyedIn(es) : \E i \in KeyedIn(entries) : entries[i] = es[j]
  BY <1>1, <1>4, <1>6, RehashedArray
<1> HIDE DEF es
<1>8. used = Cardinality(UsedIn(es))
  BY <1>1, <1>4, <1>7, KeysCount
<1>0. /\ Insert(es, Cardinality(UsedIn(es)), pair[1], pair[2])
      /\ 4 * (Cardinality(UsedIn(es)) + 1) <= 3 * c /\ UNCHANGED hash /\ growing' = {}
  BY <1>2, <1>6, <1>8
<1> HIDE DEF used
<1>9. ContentsOf(es) = ContentsOf(entries)
  <2>1. ContentsOf(es) = [g \in Keys(entries) |-> ContentsOf(entries)[g]]
    BY <1>1, <1>4, <1>7, SubContents
  <2>2. QED
    BY <1>1, <2>1, ContentsMean
<1>10. /\ TInv'
       /\ ContentsOf(entries') = [j \in DOMAIN ContentsOf(es) \cup {pair[1]} |->
                                    IF j = pair[1] THEN pair[2] ELSE ContentsOf(es)[j]]
  BY <1>0, <1>3, <1>4, <1>7, InsertTInv, ZenonT(40)
<1>11. QED
  BY <1>3, <1>9, <1>10

(* Keys go, by table_delete or in a collection.                            *)
LEMMA DeletedIs ==
  ASSUME TInv, NEW K \in SUBSET Key
  PROVE  /\ DOMAIN Deleted(K) = DOMAIN entries
         /\ Deleted(K) = [j \in DOMAIN Deleted(K) |-> Deleted(K)[j]]
         /\ Buried(entries, K, Deleted(K))
<1> DEFINE found == {FindEntry(entries, k) : k \in K \cap Keys(entries)}
<1>1. PICK n \in 0 .. MaxCapacity :
            n \in Nat /\ entries \in Arrays(n) /\ hash \in [Key -> Nat] /\ Reachable(entries)
  BY TInvFacts
<1>2. \A i \in KeyedIn(entries) : FindEntry(entries, entries[i].key) = i
  BY <1>1, FindKeyed
<1>3. \A j : j \in found <=> j \in KeyedIn(entries) /\ entries[j].key \in K
  BY <1>2, KeysMean
<1> HIDE DEF found
<1>4. Deleted(K) = [i \in DOMAIN entries |-> IF i \in found THEN Tombstone ELSE entries[i]]
  BY DEF Deleted, found
<1>5. QED
  BY <1>3, <1>4 DEF Buried

LEMMA RemoveTInv ==
  ASSUME TInv, NEW K \in SUBSET Key, entries' = Deleted(K), UNCHANGED <<hash, count, growing>>
  PROVE  /\ TInv'
         /\ ContentsOf(entries') = [g \in DOMAIN ContentsOf(entries) \ K |-> ContentsOf(entries)[g]]
<1>1. PICK n \in 0 .. MaxCapacity :
            /\ n \in Nat /\ entries \in Arrays(n) /\ Capacity(entries) = n
            /\ hash \in [Key -> Nat] /\ Reachable(entries)
            /\ count = Cardinality(UsedIn(entries)) /\ count \in Nat /\ 4 * count <= 3 * n
            /\ n = 0 \/ n >= MinCapacity
  BY TInvFacts
<1>2. /\ entries' \in Arrays(n) /\ Reachable(entries')
      /\ UsedIn(entries') = UsedIn(entries) /\ Keys(entries') = Keys(entries) \ K
      /\ \A j \in KeyedIn(entries') : j \in KeyedIn(entries) /\ entries'[j] = entries[j]
  <2>1. /\ DOMAIN entries' = DOMAIN entries
        /\ entries' = [j \in DOMAIN entries' |-> entries'[j]]
        /\ Buried(entries, K, entries')
    BY DeletedIs
  <2>2. entries' \in Arrays(n)
    BY <1>1, <2>1, ArrayFacts DEF Arrays, Buried
  <2>3. QED
    BY <1>1, <2>1, <2>2, DeleteArray
<1>3. Capacity(entries') = n /\ Reachable(entries)'
  BY <1>1, <1>2, ArrayFacts, ReachableThen
<1>4. CountIsExact'
  BY <1>1, <1>2, CountThen
<1>5. GrowCapacity' = GrowCapacity
  BY <1>1, <1>3 DEF GrowCapacity, Capacity
<1>6. TInv'
  BY <1>1, <1>2, <1>3, <1>4, <1>5 DEF TInv, Capacity
<1>7. ContentsOf(entries') = [g \in Keys(entries') |-> ContentsOf(entries)[g]]
  <2>1. /\ Keys(entries') \subseteq Keys(entries)
        /\ \A j \in KeyedIn(entries') : \E i \in KeyedIn(entries) : entries[i] = entries'[j]
    BY <1>2
  <2>2. QED
    BY <1>1, <1>2, <2>1, SubContents, ZenonT(40)
<1>8. DOMAIN ContentsOf(entries) = Keys(entries)
  BY <1>1, ContentsMean
<1>9. QED
  BY <1>2, <1>6, <1>7, <1>8

LEMMA InitTInv == Init => TInv
<1> SUFFICES ASSUME Init PROVE TInv
  OBVIOUS
<1>1. DOMAIN entries = {} /\ entries \in Arrays(0) /\ Capacity(entries) = 0
  BY FS_EmptySet DEF Init, Arrays, Capacity
<1>2. UsedIn(entries) = {} /\ KeyedIn(entries) = {}
  BY <1>1 DEF UsedIn, KeyedIn
<1>3. CountIsExact /\ Reachable(entries)
  BY <1>2, CountMeans, FS_EmptySet DEF Init, Reachable
<1>4. /\ hash \in [Key -> Hashes] /\ hash \in [Key -> Nat] /\ 0 \in 0 .. MaxCapacity
      /\ count = 0 /\ growing = {}
  <2>1. hash \in [Key -> Hashes] /\ count = 0 /\ growing = {}
    BY DEF Init
  <2>2. Hashes \subseteq Nat /\ 0 \in 0 .. MaxCapacity
    BY TableAssumption
  <2>3. hash \in [Key -> Nat]
    BY <2>1, <2>2
  <2>4. QED
    BY <2>1, <2>2, <2>3
<1>5. QED
  BY <1>1, <1>3, <1>4 DEF TInv

LEMMA SetGrowingTInv ==
  ASSUME TInv, NEW k \in Key, NEW v \in Value \cup {Nil}, SetGrowing(k, v)
  PROVE  TInv' /\ UNCHANGED entries
  BY DEF TInv, SetGrowing, CountIsExact, GrowCapacity, Capacity, Reachable, KeyedIn, PassedUpTo, Probe

LEMMA NextTInv ==
  ASSUME TInv, [Next]_vars
  PROVE  TInv'
<1>1. CASE UNCHANGED vars
  BY <1>1 DEF vars, TInv, CountIsExact, GrowCapacity, Capacity, Reachable, KeyedIn, PassedUpTo, Probe
<1>2. ASSUME NEW k \in Key, Delete(k) PROVE TInv'
  BY <1>2, RemoveTInv DEF Delete
<1>3. ASSUME NEW K \in SUBSET Key, RemoveWhite(K) PROVE TInv'
  BY <1>3, RemoveTInv DEF RemoveWhite
<1>4. QED
  BY <1>1, <1>2, <1>3, SetTInv, SetGrowingTInv, GrowTInv DEF Next

(* The counter is that of the entries in use, below the load factor, and   *)
(* a search for a key that is in the table meets no empty entry before it. *)
THEOREM TableInvariant == Spec => []TInv
<1>1. Init => TInv
  BY InitTInv
<1>2. TInv /\ [Next]_vars => TInv'
  BY NextTInv
<1>3. QED
  BY <1>1, <1>2, PTL DEF Spec

(* table->count is what it is said to count, through deletions that keep   *)
(* it and growth that recounts, with collections in the middle.            *)
THEOREM ExactCount == Spec => []CountIsExact
<1>1. TInv => CountIsExact
  BY DEF TInv
<1>2. QED
  BY <1>1, TableInvariant, PTL

(* The loops of find_entry and table_find_string end at every table that   *)
(* is probed: keys and tombstones never fill it.                           *)
THEOREM EndOfProbing == Spec => []ProbingEnds
<1>1. TInv => ProbingEnds
  <2> SUFFICES ASSUME TInv, DOMAIN entries # {} PROVE \E i \in DOMAIN entries : entries[i] = Empty
    BY DEF ProbingEnds
  <2>1. PICK n \in 0 .. MaxCapacity :
               /\ n \in Nat /\ entries \in Arrays(n)
               /\ count = Cardinality(UsedIn(entries)) /\ count \in Nat /\ 4 * count <= 3 * n
    BY TInvFacts
  <2>2. n > 0
    BY <2>1, ArrayFacts
  <2>3. Cardinality(UsedIn(entries)) < n
    BY <2>1, <2>2
  <2>4. QED
    BY <2>1, <2>3, FreeEntry
<1>2. QED
  BY <1>1, TableInvariant, PTL

(* find_entry answers the place of every key in the table, whatever was    *)
(* deleted or rehashed before.                                             *)
THEOREM EveryKeyFound == Spec => []KeysAreFound
<1>1. TInv => KeysAreFound
  <2> SUFFICES ASSUME TInv, NEW i \in DOMAIN entries, entries[i].key # NULL
               PROVE  FindEntry(entries, entries[i].key) = i
    BY DEF KeysAreFound
  <2>1. i \in KeyedIn(entries)
    BY DEF KeyedIn
  <2>2. PICK n \in 0 .. MaxCapacity :
               n \in Nat /\ entries \in Arrays(n) /\ hash \in [Key -> Nat] /\ Reachable(entries)
    BY TInvFacts
  <2>3. QED
    BY <2>1, <2>2, FindKeyed
<1>2. QED
  BY <1>1, TableInvariant, PTL

(* A table is a partial function from keys to values, and each operation   *)
(* changes it at its keys only: growth moves every entry, and collections  *)
(* in the middle of it remove no other keys than those they delete.        *)
THEOREM TableIsKeyMap == Spec => ImplementsKeyMap
<1>1. Contents = ContentsOf(entries)
  BY DEF Contents, ContentsOf
<1>2. Contents' = ContentsOf(entries')
  BY DEF Contents, ContentsOf, Keys
<1>3. Init => Promised!Init
  <2> SUFFICES ASSUME Init PROVE Contents = [k \in {} |-> k]
    BY DEF Promised!Init
  <2>1. Keys(entries) = {}
    BY DEF Init, Keys
  <2>2. QED
    BY <2>1 DEF Contents
<1>4. TInv /\ [Next]_vars => [Promised!Next]_Contents
  <2> SUFFICES ASSUME TInv, [Next]_vars PROVE [Promised!Next]_Contents
    OBVIOUS
  <2>1. ASSUME NEW k \in Key, NEW v \in Value \cup {Nil},
               ContentsOf(entries') = [j \in DOMAIN ContentsOf(entries) \cup {k} |->
                                         IF j = k THEN v ELSE ContentsOf(entries)[j]]
        PROVE  Promised!Next
    BY <1>1, <1>2, <2>1 DEF Promised!Next, Promised!Set
  <2>2. ASSUME NEW K \in SUBSET Key, entries' = Deleted(K), UNCHANGED <<hash, count, growing>>
        PROVE  Promised!Next
    BY <1>1, <1>2, <2>2, RemoveTInv DEF Promised!Next, Promised!Remove
  <2>3. ASSUME NEW k \in Key, NEW v \in Value \cup {Nil}, Set(k, v) PROVE Promised!Next
    BY <2>1, <2>3, SetTInv
  <2>4. CASE Grow
    BY <2>1, <2>4, GrowTInv
  <2>5. ASSUME NEW k \in Key, Delete(k) PROVE Promised!Next
    BY <2>2, <2>5 DEF Delete
  <2>6. ASSUME NEW K \in SUBSET Key, RemoveWhite(K) PROVE Promised!Next
    BY <2>2, <2>6 DEF RemoveWhite
  <2>7. ASSUME UNCHANGED entries PROVE Contents' = Contents
    BY <1>1, <1>2, <2>7
  <2>8. QED
    BY <2>3, <2>4, <2>5, <2>6, <2>7, SetGrowingTInv DEF Next, vars
<1>5. QED
  BY <1>3, <1>4, TableInvariant, PTL DEF Spec, ImplementsKeyMap, Promised!Spec
=============================================================================
