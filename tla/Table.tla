------------------------------- MODULE Table --------------------------------
(***************************************************************************)
(* The hash table of src/src/table.c: open addressing with linear probing  *)
(* and tombstones.  The same code serves the globals, the fields and       *)
(* methods of classes, maps, and the weak intern table, whose entries the  *)
(* collector deletes at any allocation, the growth of that very table      *)
(* included.                                                               *)
(***************************************************************************)
EXTENDS Naturals, FiniteSets

CONSTANTS
    Key,            \* the interned strings used as keys
    Value,          \* values that are not nil
    NULL,           \* no key
    Nil,            \* NIL_VAL
    Hashes,         \* the hash values explored
    MinCapacity,    \* smallest capacity of a grown table (GROW_CAPACITY: 8)
    MaxCapacity     \* bound: tables grow no further

ASSUME TableAssumption ==
    /\ NULL \notin Key /\ Nil # TRUE
    /\ Hashes \subseteq Nat
    /\ MinCapacity \in Nat \ {0, 1} /\ MaxCapacity \in Nat

VARIABLES
    hash,           \* key->hash, fixed when a string is made
    entries,        \* table->entries, a function on 0 .. table->capacity - 1
    count,          \* table->count: keys and tombstones
    growing         \* {} or {<<key, value>>}: table_set is allocating the
                    \* larger array for this entry

vars == <<hash, entries, count, growing>>

Entry(key, value) == [key |-> key, value |-> value]
Empty     == Entry(NULL, Nil)
Tombstone == Entry(NULL, TRUE)

Capacity(es) == Cardinality(DOMAIN es)

TypeOK ==
    /\ hash \in [Key -> Hashes]
    /\ \E n \in 0 .. MaxCapacity :
          entries \in [0 .. n - 1 ->
                          [key : Key, value : Value \cup {Nil}] \cup {Empty, Tombstone}]
    /\ count \in 0 .. (3 * Capacity(entries)) \div 4
    /\ growing \subseteq Key \X (Value \cup {Nil})

Init ==
    /\ hash \in [Key -> Hashes]
    /\ entries = [i \in {} |-> Empty]
    /\ count = 0
    /\ growing = {}

----------------------------------------------------------------------------
(* find_entry: probe from the key's hash until the key or an empty entry;  *)
(* an absent key gets the first tombstone passed, if any.                  *)
Probe(es, k, distance) == (hash[k] + distance) % Capacity(es)

Stops(es, k) ==
    {d \in 0 .. Capacity(es) - 1 :
        LET e == es[Probe(es, k, d)] IN e.key = k \/ e = Empty}

Least(S) == CHOOSE d \in S : \A other \in S : d <= other

\* Mutant: a tombstone ends the search.
FindEntryStopping(es, k) ==
    Probe(es, k, Least({d \in 0 .. Capacity(es) - 1 :
                           es[Probe(es, k, d)].key \in {k, NULL}}))
FindEntry(es, k) ==
    LET last       == Least(Stops(es, k))
        tombstones == {d \in 0 .. last - 1 : es[Probe(es, k, d)] = Tombstone}
    IN  IF es[Probe(es, k, last)].key = k \/ tombstones = {}
        THEN Probe(es, k, last)
        ELSE Probe(es, k, Least(tombstones))

Keys(es) == {es[i].key : i \in DOMAIN es} \ {NULL}

(* adjust_capacity: the live entries are inserted into an empty array in   *)
(* the order of their indices; tombstones stay behind.                     *)
Rehashed(es, capacity) ==
    LET inserted[n \in 0 .. Capacity(es)] ==
            IF n = 0 THEN [i \in 0 .. capacity - 1 |-> Empty]
            ELSE IF es[n - 1].key = NULL THEN inserted[n - 1]
            ELSE [inserted[n - 1] EXCEPT
                     ![FindEntry(inserted[n - 1], es[n - 1].key)] = es[n - 1]]
    IN  inserted[Capacity(es)]

(* The second half of table_set, in the array es that counts used entries: *)
(* only an entry that was empty adds to the count.                         *)
Insert(es, used, k, v) ==
    LET i == FindEntry(es, k)
    IN  /\ entries' = [es EXCEPT ![i] = Entry(k, v)]
        /\ count' = IF es[i] = Empty THEN used + 1 ELSE used

(* count + 1 > capacity * TABLE_MAX_LOAD.                                  *)
\* Mutant: the table may fill up.
FullAtCapacity == count + 1 > Capacity(entries)
Full == 4 * (count + 1) > 3 * Capacity(entries)

(* table_set, when there is room.                                          *)
Set(k, v) ==
    /\ growing = {}
    /\ ~Full
    /\ Insert(entries, count, k, v)
    /\ UNCHANGED <<hash, growing>>

GrowCapacity ==
    IF Capacity(entries) < MinCapacity THEN MinCapacity ELSE 2 * Capacity(entries)

(* table_set, when there is none: the larger array is allocated first,     *)
(* then the old one, as the collector left it, is rehashed.                *)
SetGrowing(k, v) ==
    /\ growing = {}
    /\ Full
    /\ GrowCapacity <= MaxCapacity
    /\ growing' = {<<k, v>>}
    /\ UNCHANGED <<hash, entries, count>>
\* Mutant: the count still includes the tombstones left behind.
GrowKeepingCount ==
    \E pair \in growing :
       /\ Insert(Rehashed(entries, GrowCapacity), count, pair[1], pair[2])
       /\ growing' = {}
       /\ UNCHANGED hash
Grow ==
    \E pair \in growing :
       /\ Insert(Rehashed(entries, GrowCapacity), Cardinality(Keys(entries)),
                 pair[1], pair[2])
       /\ growing' = {}
       /\ UNCHANGED hash

(* table_delete of every key in K: a tombstone takes the place of each key *)
(* found, and stays counted.                                               *)
Deleted(K) ==
    LET found == {FindEntry(entries, k) : k \in K \cap Keys(entries)}
    IN  [i \in DOMAIN entries |-> IF i \in found THEN Tombstone ELSE entries[i]]

Delete(k) ==
    /\ growing = {}
    /\ entries' = Deleted({k})
    /\ UNCHANGED <<hash, count, growing>>

(* table_remove_white, in a collection: never the key being set, which     *)
(* allocate_string has pushed.                                             *)
RemoveWhite(K) ==
    /\ \A pair \in growing : pair[1] \notin K
    /\ entries' = Deleted(K)
    /\ UNCHANGED <<hash, count, growing>>

Next ==
    \/ \E k \in Key, v \in Value \cup {Nil} : Set(k, v) \/ SetGrowing(k, v)
    \/ Grow
    \/ \E k \in Key : Delete(k)
    \/ \E K \in SUBSET Key : RemoveWhite(K)

Spec == Init /\ [][Next]_vars

----------------------------------------------------------------------------
(* Probing ends (find_entry, table_find_string): a table that is probed at *)
(* all has an empty entry, however many keys came and went.                *)
ProbingEnds ==
    DOMAIN entries # {} => \E i \in DOMAIN entries : entries[i] = Empty

(* A key in the table is found, past the tombstones of deleted keys and in *)
(* the array it was rehashed into (table_get); it is there once.           *)
KeysAreFound ==
    \A i \in DOMAIN entries :
       entries[i].key # NULL => FindEntry(entries, entries[i].key) = i

(* count is the number of entries in use, tombstones included: what the    *)
(* load factor is computed from.                                           *)
CountIsExact == count = Cardinality({i \in DOMAIN entries : entries[i] # Empty})

(* The table behaves as a partial function: a collection in the middle of  *)
(* table_set loses no entry but those it deletes.                          *)
Contents ==
    [k \in Keys(entries) |-> entries[CHOOSE i \in DOMAIN entries : entries[i].key = k].value]

Promised == INSTANCE KeyMap WITH map <- Contents, Value <- Value \cup {Nil}

ImplementsKeyMap == Promised!Spec
=============================================================================
