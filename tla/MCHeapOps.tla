------------------------------ MODULE MCHeapOps -----------------------------
EXTENDS HeapOps, FiniteSets, TLC

CONSTANTS s1, s2, t1, o1, o2, o3, RefMax

String == [s \in Str |-> "string"]

Strings == [depth |-> 3, memory |-> String,
    ops |-> {"copy_string", "concatenate", "pop", "get_variable", "gc", "gc_switch"}]
Arrays == [depth |-> 2,
    memory |-> s1 :> "string" @@ s2 :> "string" @@ o1 :> "array" @@ o2 :> "array",
    ops |-> {"copy_string", "array", "append", "index_set", "load", "args", "pop", "gc"}]
Maps == [depth |-> 3,
    memory |-> s1 :> "string" @@ t1 :> "string" @@ o1 :> "array" @@ o2 :> "map",
    ops |-> {"copy_string", "map_new", "map_set", "map_delete", "get_variable", "pop"}]
Keys == [Maps EXCEPT !.ops = (@ \ {"get_variable"}) \cup {"map_keys"}]

Classes == [depth |-> 2,
    memory |-> s1 :> "string" @@ t1 :> "string" @@
               o1 :> "array" @@ o2 :> "class" @@ o3 :> "instance",
    ops |-> {"copy_string", "array", "make_class", "construct", "pop"}]
Fields == [depth |-> 2,
    memory |-> s1 :> "string" @@ o1 :> "array" @@ o2 :> "class" @@ o3 :> "instance",
    ops |-> {"copy_string", "array", "make_class", "construct", "set_field", "load", "pop"}]
Functions == [depth |-> 2,
    memory |-> s1 :> "string" @@ t1 :> "string" @@ o1 :> "array" @@ o2 :> "function",
    ops |-> {"copy_string", "array", "assemble", "chunk_consts", "pop"}]
Globals == [depth |-> 2,
    memory |-> s1 :> "string" @@ t1 :> "string" @@ o1 :> "array" @@ o2 :> "function",
    ops |-> {"array", "assemble", "define_global", "set_global", "pop"}]
Natives == [depth |-> 1,
    memory |-> s1 :> "string" @@ s2 :> "string" @@ o1 :> "array" @@ o2 :> "native",
    ops |-> {"copy_string", "array", "define_native", "host_set_global",
             "get_variable", "pop"}]

(* No operation that uses the method table again: AddMethod leaves in the  *)
(* class a method name that may be freed.                                  *)
Methods == [depth |-> 3,
    memory |-> s1 :> "string" @@
               o1 :> "array" @@ o2 :> "class" @@ o3 :> "function",
    ops |-> {"copy_string", "array", "make_class", "assemble", "add_method"}]

(* Programs built ahead of time: a script, a function or method, a class.  *)
Image == [depth |-> 2,
    memory |-> s1 :> "string" @@
               o1 :> "function" @@ o2 :> "class" @@ o3 :> "function",
    ops |-> {"bootstrap", "constant", "define_global", "add_method", "gc"}]
NamedImage == [depth |-> 1, memory |-> Image.memory @@ t1 :> "string",
               ops |-> {"bootstrap", "constant", "gc"}]

MCPrograms == {Strings, Arrays, Maps, Keys, Classes, Fields,
               Functions, Globals, Natives, Methods, Image, NamedImage}

(* Two addresses may hold strings with the same contents.                  *)
MCChars == [s \in Str |-> IF s \in {s1, s2} THEN "a" ELSE "b"]

MCRefSets == {R \in SUBSET Obj : Cardinality(R) <= RefMax}
=============================================================================
