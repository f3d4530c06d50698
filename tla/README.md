# Models of brokm in TLA+

brokm is an interpreter for a small C-like language, written in C: a compiler
to bytecode, a stack machine, a generational garbage collector, a JIT, an
ahead-of-time compiler and an embedding API.  This directory models
these parts, model-checks them with TLC and proves the central results about the
heap, the hash table, calls, the embedding API and the compiler with TLAPS.

Paths below are relative to the repository, which is called `src/` here (so
`src/src/gc.c` is the repository's `src/gc.c`).

## 1. Inventory

| Component | Source | State | Operations | Talks to |
|---|---|---|---|---|
| Garbage collector | `gc.c` | mark bits, generations, gray stack, remembered set, `gcEnabled` | `collect_garbage(major)`, `gc_write_barrier` | called by the allocator and by two natives; walks the stack, frames, globals, API roots |
| Allocator | `memory.c` | byte counts and two thresholds | `reallocate` | every component; may run a collection first |
| Heap objects | `object.c` | the list of objects, their fields | constructors, `string_copy`, `string_take`, `array_append`, `map_set` | allocator, intern table, barrier |
| Hash table | `table.c` | entries, count | get, set, delete, grow | globals, fields, methods, maps, intern table; the collector deletes from the last |
| Natives | `natives.c` | raw memory, otherwise none of their own | about ninety functions; some fifteen touch the heap, others print, take strings apart, build functions, read files, run commands | objects, collector, libc, the operating system |
| Virtual machine | `vm.c` | value stack, call frames, globals | the instruction loop, calls, returns, errors, the `jit_h_*` helpers shared by all tiers | everything |
| Embedding API | `api.c`, `brokm.h` | the current-VM pointer, temporary roots | evaluate, call, register, exchange values | the VM, re-entrantly from host functions |
| Compiler | `compiler.c`, `chunk.c` | locals, scopes, loops, the chunk under construction | one function per construct | objects (with the collector off) |
| Type checker | `typecheck.c`, `types.c` | scopes and registries, reset per compile | one walk of the tree | none |
| Lexer | `lexer.c` | position and line, stack of source frames, list of files included | scan, include | files |
| Parser, tree | `parser.c`, `ast.c` | current token, class names | recursive descent | lexer |
| JIT | `jit.c`, `jit_arm64.c`, `jit_x64.c` | page pool shared by all VMs, its count of VMs, call counts | compile when hot, publish, release | frames, values |
| AOT | `aot.c`, `cemit.c` | the files it writes | prints C, runs the C compiler | compiler, the shell |
| Command line | `main.c` | none | options, commands, exit status | AOT, embedding API |
| Output, disassembler | `output.c`, `debug.c` | none | numbers to text, sinks, listings | all |
| Standard library, editor support | `lib/std`, `editors/` | none | programs in brokm; a generated parser for highlighting | none |

What is hard in each, and what makes it correct:

* **Collector.** Correct if nothing reachable is freed.  For minor collections
  this rests on a promise of every other component (the write barrier after
  every store), which tests only exercise when an allocation happens to
  collect at the wrong moment, twice.
* **Operations that allocate.** Correct if all they still use is rooted at each
  allocation, and if the barrier follows each store *even though the owner was
  young when the operation began*.
* **Hash table.** Correct if it is a partial function, whatever the history of
  tombstones, and although the collector deletes entries between the two halves
  of an insertion.
* **Calls and returns.** Correct if each return puts its result where the caller
  expects it, through bytecode, native-code and host frames, and if an error
  unwinds all of them.
* **Embedding.** Correct if handles live as long as `brokm.h` says, and if nested
  calls restore the VM they interrupted.
* **Compiler.** Correct if the depth of the stack at each jump target is the same
  on every path, and if the checker's idea of a name is the compiler's.
* **Parser.** Correct if it accepts the language and nothing else, includes and error
  recovery included, groups expressions as the precedences say, and returns.
* **Checker and operators.** Correct if what is rejected would fail, if static types are
  the types of values, and if each fast path does what the generic one does.
* **Native code.** Correct if it does what the interpreter does, although it keeps the
  top of the stack in a register and shares helpers that read it from memory.
* **Lexer.** Correct if no character of the program is lost between comments, quotes and operators,
  and if each token has its line.
* **Syntax tree.** Correct if every node has one owner, desugaring included, and is given back with
  the size it was allocated with.
* **Ahead-of-time driver.** Correct if status 0 means a whole output, and if it removes what it wrote
  and nothing else, whichever step fails and whichever other build runs beside it.
* **Natives.** Correct if text, numbers, bytes and code read back as they were, at the ends of their
  ranges too; if hosted and freestanding runtime print the same; if output stays in order and no
  failure of the system goes unreported.

The process is single-threaded.  What interleaves is the collector with every
operation, host functions with the interpreter, and several VMs with each
other, the program's output with that of the commands it runs, and two builds in one directory.
Nothing is persisted but the output of a build, and there are no timeouts or messages.

## 2. Plan

Most important first; each line builds on the ones above it.

1. `ManagedHeap` - what memory management promises: nothing reachable is taken away.  Done.
2. `GenHeap` - the heap with generations, a remembered set and a collection as one step.  Done.
3. `GenGC` - `collect_garbage` step by step; implements 1 and 2, both proved.
4. `HeapOps` - the operations of vm.c, object.c, natives.c, api.c and of emitted C that allocate
   or store, cut at their allocation points, over 2; implements 1.  Checked and proved.
5. `KeyMap`, `Table` - the hash table and its promise.  Checked and proved.
6. `CallDiscipline`, `CallStack` - frames, `call_value`, `run_until`, errors, native-code calls,
   host functions that call back, and the promise of a call.  Checked and proved.
7. `EmbeddingApi` - several VMs, the current one, temporary roots, the collector's switch, the
   page pool of the JIT.  Checked and proved.
8. `Compiler` - the stack discipline of emitted code and the scopes of compiler and checker.
   Checked and proved.
9. `Lexer`, `Grammar`, `Parser` - includes, recursive descent, recovery, against a grammar.  Checked.
10. `Operators` - static types, generic and specialised operators, the JIT's and the AOT's.  Checked.
11. `Bytecode`, `Interpreter`, `NativeCode` - the instruction set byte by byte, its execution, and
    its translation, which implements it (model-checked).

12. `Scanner`, `SyntaxTree`, `Checker` - the rest of the front end: characters to tokens, the memory
    of the tree, registries and profiles of the checker.  Checked.
13. `Text`, `Formatting`, `StringNatives`, `RawMemory`, `CodeObjects`, `HostNatives` - the natives
    that the heap does not see.  Checked.
14. `Builder` - the command line with the ahead-of-time driver.  Checked.
15. `MCFrontEnd`, `MCOutside` - compose the modules of 12, and those of 13 and 14, for TLC.

Section 7 names what is left.

How the modules build on each other:

    ManagedHeap <-- GenHeap <-- HeapOps            KeyMap <-- Table
         ^             ^                           CallDiscipline <-- CallStack
         +--- GenGC ---+                           EmbeddingApi
    Lexer <-- Parser (against Grammar)             Compiler
    Bytecode <-- Interpreter <-- NativeCode        Operators
    MCFrontEnd --> Scanner, SyntaxTree, Checker    Text <-- Formatting, StringNatives
    MCOutside --> Builder, Formatting, StringNatives, RawMemory, CodeObjects, HostNatives

The proofs about a module `M` are in `MProofs`; those that `GenGC` implements its two abstract
modules are in `GenGCRefinement`, and of those about `HeapOps`, all but types and interning are in
`HeapOpsSafety`.

## 3. Modules

**`ManagedHeap`** is abstract: objects, references, roots.  `Reachable` is the least
set closed under references, written without recursion so that it can be proved
about.  Its actions allocate, link, move and reclaim; `Reclaim` is limited to what
is not reachable.

**`GenHeap`** is the interface between the collector and the rest.

| TLA+ | Code |
|---|---|
| `objects`, `old`, `refs[o]` | the list `vm->objects`, `gen == GEN_OLD`, what `blacken_object(o)` marks |
| `roots` | what `mark_roots` marks: value stack, functions of frames, globals, API roots |
| `strings` | `vm->strings`, weak |
| `rememberedSet`, `gcEnabled` | the fields of that name |
| `crashed` | a freed object was used and the process was taken down |
| `Barrier`, `Allocate`, `Store`, `Erase`, `Load`, `FindString`, `Release`, `SetGcEnabled` | the primitive effects of the interpreter's operations |
| `CollectGarbage(major)` | `collect_garbage`, as one step |

The remembered set is a set although the code appends an owner again each time: a
duplicate is scanned twice with no further effect.  A collection of either kind may
start at any time it is enabled; the thresholds of `reallocate` only restrict this.
The remembered set may name freed objects (see section 5); scanning one is undefined
behaviour, and the model lets it mark any young objects (what stale memory may hold)
or take the process down.

**`GenGC`** splits the collection: `StartCollection`, `MarkRoots`, `ScanRemembered`,
`ScanFreed`, `TraceReferences`, `RemoveWhiteStrings`, `Sweep`, `FinishCollection`.
Each action is a phase of `collect_garbage`, except that the two loops over objects
(remembered owners, gray stack) take one object per step, in any order.  `Sweep` is one
step: its iterations do not depend on each other.  The variables it adds are the mark
bits, the gray stack, the entries not yet scanned, the mode and the phase.

**`HeapOps`** models operations over `GenHeap`'s state, with the value stack and the
globals in place of `roots`.  `op` holds the operation in progress: the label to run
next, whether it starts with an allocation (then `Reallocate` may collect first), and
the C variables that matter later.  Operations that share code share actions:
`string_copy` and `string_take` are `FindString`, `CopyChars`, `AllocateString` and
`InternString`; all users of `array_append` go through `ArrayAppend`.  Values that are
not objects are left out, and so are the contents of containers beyond the references
they hold: `Slot` is what one slot may hold.  Two addresses may hold strings with the
same contents, so interning is a real property.

`Bootstrap` and the `Image...` actions are the start of a program built ahead of time, which
makes the script's functions, classes and constants again (`cemit.c`, `cemit_program`).  What it
has made so far is named by static variables of the emitted file only (`Statics`), which are no
roots; this is right because `vm_new` leaves the collector off until the script, from which all
of it can be reached, is on the stack.  With the collector on, `NothingInUseIsFreed` fails.

A program of the constant `Programs` is chosen at the start and says which operations a
behaviour uses, what is allocated at which address and how deep the stack may be when an
operation begins.  It only bounds the instance: the union of a few small programs is
checked where the product of all operations could not be.

**`CallStack`** models the control of calls.  The value stack is its height only; the code
that runs is any that keeps above its callee's cell and has its operands on it, which is what
the compiler has to guarantee.  Nothing in the code limits how wide a window gets: the compiler counts
locals (`compiler.c:173`), and operands lie above these.  `WindowMax` only bounds the model.

| TLA+ | Code |
|---|---|
| `height`, `frames` | `stackTop - stack`; `vm->frames` up to `frameCount`, each with its `slots` |
| `acts` | the C stack: activations of `run_until` (`at`: its base), of native code and of host functions (`at`: the callee's cell), of `vm_invoke` and of `interpret` |
| `tier[f]`, `held` | `nativeCode` and `jitDisabled`; the functions that globals and method tables refer to |
| `CallSites(argc)` | the places that reach `call_value`: both kinds of code, and `vm_invoke` |
| `CallBytecode`, `CallNativeCode`, `CallHost`, `CallLeaf`, `CallRefused` | `call_value` and `call_function` by what the callee is, with the nested `run_until` of `jit_h_call` and `vm_invoke` (`Saved` is its base) |
| `EvalScript` | `interpret`, from the compiled script on |
| `ReturnBytecode`, `ReturnNativeCode`, `ReturnHost`, `ReturnTo` | `OP_RETURN`, the epilogue of generated code, `call_value` after a host function, and what the caller then does |
| `RuntimeError` | `runtime_error` and the `false` that it hands down to the entry point |
| `Compute`, `OperationFails`, `Rebind` | any other instruction, one that fails, one that replaces a global or a method |

`Behaviours` lists what the program and the host may do beyond the ordinary; three of the six
lead to what section 5 describes, so the passing run leaves those out.  **`CallDiscipline`**
is the promise: a set of windows, a new one above the others or taken together with all
above it, and one value left in its place.  Bytecode frames and C activations map to the
same kind of window (`Windows`), so the refinement says that the tiers cannot be told apart.

**`Table`** models `table.c` for one table.  `table_set` is one step when there is room,
and two when it grows: `SetGrowing` allocates, then `RemoveWhite` may run, then `Grow`
rehashes and inserts.  Hashes are arbitrary per key and fixed from the start.  **`KeyMap`**
is its promise.

**`EmbeddingApi`** drives several VMs.  `calls` is the C stack of entry points of `api.c` and of
host functions; each entry has the VM it works on (`target`) and the one it will restore
(`prev`).

| TLA+ | Code |
|---|---|
| `vm`, `live` | the current-VM pointer; the VMs that exist |
| `New`, `Free` | `brokm_vm_new`, `brokm_vm_free` with `vm_destroy` |
| `EnterEval`, `EnterString`, `EnterGetGlobal`, `EnterWithValues` | the beginnings of the entry points; the last is `brokm_set_global` and `brokm_call` |
| `LeaveString`, `LeaveGetGlobal`, `LeaveSetGlobal`, `LeaveProgram` | their ends, where temporary roots are made or cleared |
| `Start`, `StartWithCollectorOff`, `CompileFails`, `LookupFails`, `Finish`, `RuntimeError` | `interpret` and `vm_invoke`: what they do to `gcEnabled`, and their error paths |
| `GcDisable`, `GcEnable`, `CallHost`, `ReturnHost`, `JitCompile`, `Collect`, `Compute` | what a program does |
| `apiRoots` | `vm->apiRoots`, up to `ApiRootsMax` |
| `g_vmCount`, `g_jitUsable`, `g_regions` | the statics of `jit.c` of the page pool |

A handle is a `BrokmValue` that holds a string: `made` ones are kept by `apiRoots`, `borrowed`
ones come from `brokm_get_global` and live as long as the global does.  `Usable` says which a
host that follows `brokm.h` may still use.

**`Compiler`** walks every syntax tree of bounded nesting, which it makes up as it goes: a
construct is opened, goes through its stages and is closed, in the compiler and in the checker
at once.  An instruction is what it does to the height of the stack.  `depths` is the *set* of
heights with which execution reaches the code emitted next, `{}` after a jump; labels collect the
heights that jumps bring.  `locals` are the compiler's, `vars` the checker's.  The tables of
locals and breaks, the one-byte operand counts and the two-byte jumps have their limits.

**`Lexer`** is the include stack of `lexer_next`: a token (`ScanToken`, `ScanError`, `ScanEnd`), a
directive (`IncludeFile`, `SkipInclude` for a file that was included before) and the return to
the including file (`ResumeParent`); `Resolve` finds a path from a directory or the library.  **`Parser`** extends it by the recursive descent.  Its
`todo` is the C stack of the parser; an item is what one call has still to do, and its action is
the code up to the next call or token.  Desugaring (`x++`, compound assignment) builds the trees
that the code builds.  **`Grammar`** is the reference: which sequences of tokens are sentences
and what trees an expression has, stated as sets and without the parser's control.  `Pasted`
states what a program with includes stands for.

**`Operators`** takes the checker and the VM over the same expression: an operand is its static
type, its value, and whether it is `pure`, that is, whether all it was made from is of the type
the checker gave it (values of type unknown may be anything).  `Generic` is the opcode,
`Interpreter` what the compiler selects from static types, `Jit` the inlined native code.
Integers have `Bits` bits and wrap, floats have `FloatBits` significant bits, so that integers
round; floats that are computed are their operands and operator, and never equal by luck.

| TLA+ | Code |
|---|---|
| `CheckBinary`, `CheckUnary`, `CheckIndex`, `CheckIndexSet`, `CheckField`, `Assignable` | `typecheck.c`, `types.c` |
| `ApplyBinary`, `IntOp`, `Quotient`, `Unary`, `ValueEqual`, `Truthy` | `vm.c`, `value.c` |
| `GuardTop`, `Guard`, `Inlined` | the guards in `jit_x64.c`, `jit_arm64.c`, `cemit.c` |
| `Call`, `Construct`, `GetField`, `SetField`, `Invoke`, `Declare`, `DeclareEmpty`, `Assign` | their cases of the checker and of the VM |

**`Bytecode`** writes a function byte by byte with the emit helpers of `compiler.c` (short and wide
forms, patched jumps, loops), and measures instructions as `cemit.c` and `debug.c` do.
**`Interpreter`** runs it: one action per kind of instruction, operands read from the bytes, one
call of one function; helpers are uninterpreted and answer any value or fail.  **`NativeCode`**
translates it, by one of three back ends, into steps, patches the branches and runs them.
`reg` is the top of the stack as the native code knows it, `vmTop` is `vm->stackTop`; helpers see
and move the second only and may overwrite what is above it (`Junk`).  The refinement maps
the stack to whichever of the two counts at that point.

**`Scanner`** is `lexer_next` on one source: each step skips blanks and comments and takes one token,
with `current` and `line` as in the code and an array `tokens` of what was answered.  `Lexer` begins
where it ends, at tokens, and has the include stack.

**`Checker`** is the walk of `typecheck.c` over functions, classes and calls: `funcs` and `classes` are the
two registries, `vars` and `depth` the scopes, `functions` the functions entered with what each saved.
Types are in `Operators` and unknown here, so that only the number of arguments can be wrong.  A history
of what the names mean at run time says whether a call would fail.

**`SyntaxTree`** is the tree as memory: `heap` has the nodes and arrays with the bytes that were asked
for, `held` the pointers in the parser's local variables, `todo` the stack of the recursive walk
that frees.  `Shape` is `ast.h`; an action makes a node of what is held, grows a list, or drops what an
error leaves.

**`Builder`** is `main`, `cmd_build` and `aot_build`, one action per step that may fail, for processes that
share the file system.  File contents say which program they are of and for which profile; a
path is a sequence of parts, so that quotes, blanks, `.bk` and `.c` are seen.  libc, the shell and the
C compiler are external.

**`Text`** has the conversions of `output.c` and `value_print` as functions to sequences of characters,
integers of `Bits` bits and floats as sign, numerator and denominator, rounded to `FloatBits` significant bits
wherever the code makes a float of a number or a product (`FloatNear`); **`Formatting`** is
`bk_format_sink`, which runs in both runtimes at once (`out` has two sinks); **`StringNatives`** calls one
native and keeps the answer.  **`RawMemory`** is the store of bytes of `MAlloc` to `PokePtr`, with a
history of what was written over each byte last.  **`CodeObjects`** has the arrays, functions and
classes of a program that generates code; its `given` is the history of what `Assemble` was given.
**`HostNatives`** has the disk, the terminal and what `stdout` holds back; natives that make several calls of
the system take a step for each.

**`MCFrontEnd`** and **`MCOutside`** compose these by INSTANCE.  The parts share no state in the code, so that
`part` says which of them a behaviour is of, and the variables of the others are `None`; the next-state relation
is the disjunction of theirs, and each property of the run a conjunction of theirs, by name.  What a part
assumes of its constants is a definition (`ScannerAssumption` ...) that the composing module assumes of its
instances.

`MC*` modules give constants their values; operators preceded by a comment that begins
"Mutant:" are wrong variants of the definition they stand above.  Replacing the
definition by the variant makes a property fail; each property of a passing run has one, and
so have some of the conjuncts in `frontend` and `outside`.

## 4. Runs

| Run | Question | Instance |
|---|---|---|
| `gengc` | Is nothing reachable freed, no old owner forgotten and no garbage kept, at every step of every collection, does it implement `ManagedHeap` and `GenHeap`, and does each collection end? | 2 containers, 1 string, at most 2 references per object; 135 thousand states |
| `heapops` | Are operands and temporaries kept, strings unique, barriers complete (but for `AddMethod`'s name), and do the operations implement `ManagedHeap`? | twelve programs of up to 3 strings and up to 3 other objects; 643 thousand states |
| `table` | Is the table a partial function, and does probing end? | 4 keys, 3 hash values that collide and wrap around, capacities 4 and 8 |
| `callstack` | Do calls of all tiers, and host functions that call back, keep the discipline? | 2 functions, 2 frames of 3 cells each in the stack, windows of up to 4, 10 C activations; 607 thousand states |
| `callstack_overflow` | Does the value stack hold what the checks let through? No: section 5 | 2 functions, 3 frames, 7 C activations, native code |
| `embedding` | Is the current VM the one that runs, do handles live, are VMs separate, is the collector on when it should be? | 2 VMs, 2 handles, 2 temporary roots, 5 calls in progress; 2.5 million states |
| `compiler` | Is there one stack height at each instruction, do jumps arrive, do compiler and checker agree on names? | four families of constructs nested 4 or 5 deep, or 3 in each of two functions; 3 locals, 1 break per loop; 2.6 million states |
| `parser` | Does the parser decide the grammar, build its trees, read the pasted text and return? | all texts one edit away from 17 sentences, and 2662 projects of four files; 704 thousand states |
| `operators` | Do the ways to execute an operator agree, with each other and with the checker? | integers of 3 bits, floats of 1, two classes with fields and methods, five functions; 646 thousand states |
| `native` | Does translated code implement the interpreter, and do the readers of bytecode agree? | six families of instructions, programs of 4 and the final two, three back ends, bytes of 3 values; 1 million states |
| `frontend` | *Scanner*: do tokens, blanks and comments cover the text, is each token the longest, are lines counted? *Tree*: one owner, right sizes, nothing left? *Checker*: would every rejected call fail, is every accepted one there, are returns judged by their own function? | all texts of 4 or 5 characters over six alphabets of characters that interact; eight families of kinds of node, 5 to 8 pieces, lists of 3 over a least capacity of 2; three programs of two or three declarations, two nested functions, 2 variables, 3 scopes; 1.5 million states |
| `outside` | *Builds*: what do they leave on disk and report, do options and commands mean what they say? *Output*: does it follow the call, do runtimes agree, do numbers read back? *Strings*: do strings, substrings, positions and bounds agree? *Memory*: does a slot keep its value, is an integer its bytes? *Code*: does it read back, can every constant be named? *Host*: is output in order, is everything read, are buffers given back? | pairs of eleven commands with different outputs, and all lines of up to three words behind `build`; formats of up to 3 pieces, integers of 7 bits, floats of 11; strings of up to 3 characters, integers of 5 bits, floats of 3; 4 bytes of 4 values, words of two bytes; two arrays of two elements, one function, one class; one file, outputs of up to 5 over a first buffer of 1, three calls; 2 million states |

Why the bounds are enough.

* *Heap.*  A barrier bug needs an old owner and a young value, and a second object to keep
  either alive: two containers and a string.  Two references per object give cycles, sharing and
  chains.  The bound on references only restricts which heaps are explored.
* *Operations.*  Each program has one or two addresses of each kind that its operations involve
  and a stack that holds the longest operation's operands and temporaries.  A fresh address is
  needed to allocate, so when all are in use an allocation cannot go on, as in the code, where
  it ends the process (`memory.c:36`).  This is why deadlock is not checked there, nor in
  `GenGC`, where a crash ends the process.
* *Calls.*  Two frames and ten activations let each tier be called from each other, over a
  suspended script, and bytecode stop at the limit of frames.  `StackMax` is
  `FramesMax * SlotCount`, as in `common.h:26`; a window may have one cell more than `SlotCount`, as
  operands above 256 locals make it in the code.
* *Table.*  A table never uses more entries than there were distinct keys, so that `table`
  takes 4 and 8 for the capacities 8 and 16 of the code: four keys then pass the load limit, with
  live keys and with tombstones.
* *Embedding.*  Five calls are a program that calls a host function that enters the other VM,
  whose program calls a host function that enters the first again.
* *Compiler.*  A family combines constructs whose jumps and scopes interfere; all kinds of construct
  occur.  Three locals and one break per loop reach both limits.  A local's index, a
  count of operands and a jump are within reach of their limits at that size too.
* *Parser.*  A wrong decision of a recursive descent shows at the place of one wrong, missing or
  extra token; what follows exercises the recovery.  The include projects have nested,
  repeated, mutual, missing and too deep inclusion, the main file included by itself and by
  others, and more files than are recorded.
* *Operators.*  Three bits are the least at which a product wraps to both signs and a shift may reach
  the width; one significant bit makes two integers round to one float.  All operators, types and
  values meet in pairs, as checker and VM take them.
* *Native code.*  Bytes of 3 values make wide operands start at index 3; four instructions are
  a branch over an instruction that needs a flush, or a loop with a condition.
  Two integers and an object are what the guards tell apart.
* *Scanner.*  The longest decision looks at three characters; a fourth and a fifth are its neighbours.
  Characters that the code treats alike are one.
* *Checker.*  A call looks one name up in each registry and in the scopes; two entries of one name and a
  scope over it are all it can meet.  Three scopes nest a function in a method or a function.
* *Tree.*  A list grows past its capacity at the third element, and a block's neighbours do not matter;
  a family holds the kinds that share an owner.
* *Builds.*  Two processes interfere through the file system only.  The command buffer is so short that
  one command line of the list does not fit.
* *Natives.*  Widths are the least at which signs, carries and an overflow of `start + len` occur; with 11
  significant bits and denominators up to 2048 each product that makes a digit of a fraction may be rounded, as
  with 1843/2048, which is below 0.9 and prints as 0.9; the first buffer of `ShellStr` doubles three times; one constant more
  than bytes can name is within reach.

What the theorems of section 6 state and no run lists: `TypeOK` of `GenGC`, `HeapOps` and `Compiler`, `BlackSeesNoWhite`,
`CountIsExact` and `RunnersOwnFrames`.  They hold in the runs too, when they are added to the cfg.

Fairness.  `gengc`: weak fairness of the collector's steps.  A collection is a function call of
the only thread, so nothing can suspend it; none is assumed of the program.  `parser`: weak
fairness of the parser's next step, for the same reason.  The other
specifications are safety only.

## 5. Where the code differs from what it says

The run `callstack_overflow` shows one; the others below show when a property is added to a run
or put in the place of a conjunct.

* **The stack under native recursion** (`vm.c:145`, run `callstack_overflow`).  `call_function`
  compares the depth of the value stack with its limit before native code, and only the number
  of frames before bytecode.  Native recursion, which takes no frame, may fill the stack up to
  the last window, and a bytecode callee and those it calls then push beyond the array, against
  `common.h:20`.  Bytecode alone leaves the array, too, when its windows are wider than 256
  cells: the compiler limits the locals to that number (`compiler.c:173`), and the operands of a call or
  of an array (up to 255, `compiler.c:333`) come on top, which nothing counts.  `callstack.cfg` with
  `Behaviours = {}` shows that as a violation of `StackWithinBounds`.  `FullWindowsFit` says what the two
  checks are enough for: windows of up to `SlotCount` cells.
* **Remembered entries of freed objects** (`gc.c:219`; `ScansOnlyObjects` as an invariant of `gengc`).  A major
  collection leaves the remembered set alone, so that an owner it frees stays in it; the next
  minor collection blackens freed memory.  `vm.h:37` describes the entries as old objects.
  All theorems about the heap, and its runs, hold with this behaviour in the model: they say that the
  heap stays consistent *unless* the access itself takes the process down.
* **A class body that is not one** (`parser.c:757`; `parser` with `Projects <- BodyProjects` and the property
  `ParsingEnds`).  The loop over
  members reports a token that begins no member and does not advance; `class A { I64 x = 5; }`
  ends when memory does.  `parser.h:9` says that a syntax error returns false.  `OnlyClassBodiesLoop`
  says that nothing else in the parser loops.

In `MCFrontEnd` and `MCOutside` (each operator stands behind `part = ... =>`, as its
neighbours there do; `H!WritesAreReported` is an action property):

| Where | Set | What happens |
|---|---|---|
| `lexer.c:210` | `S!LinesAreCounted` | in a literal, a backslash skips the next character without looking; if that ends a line the line is not counted, and errors are reported too high up, against `typecheck.h:5`.  `LinesAreCountedButContinued` is what is left |
| `lexer.c:210` | `S!StaysInSource` | if the text ends in a backslash within a literal, the lexer steps over the terminator and reads on; `lexer.c:213` shows what is meant |
| `typecheck.c:386` | `VariableNames <- {"v", "f"}` in `C` | a called name is looked up in the registries first: a parameter `f` that holds a function of one argument, beside a function `f` of none, cannot be called; `RejectedCallsFail` is violated, against `typecheck.h:6` |
| `typecheck.c:119` | a prototype and a definition that differ among the programs of `C` | the checker keeps the first and the program the last: `RejectedCallsFail` is violated |
| `aot.c:203` | `"disk"` among the `Faults` of `U` | text that stdio holds back is written by `fclose`, whose result nobody looks at: `brokm build --emit=c` exits with 0 (`aot.h:24`) while the file is cut; `SuccessMeansBuilt` is violated |
| `natives.c:505` | property `H!WritesAreReported` | the same in `WriteFile`, which is true (`natives.c:498`) |
| `aot.c:258` | `U!CompilerStatusIsReported` | the C compiler's status is replaced by 1, against `aot.h:25` |
| `natives.c:436` | `S!SubstrIsClamped` | `start + len` overflows for the greatest lengths, so that they are not clamped (`natives.c:426`) and the copy is of characters that are not the string's |
| `natives.c:469` | `S!ToStrMatchesPrint` | arrays, maps, functions, objects and pointers become the empty string, against `natives.c:457` |
| `natives.c:651`, `natives.c:754` | `C!ClassesAreDescribed` | `MakeClass` leaves out names that are not strings, and `ValueDesc` reads all of them |

The older models show more when a constant is changed; the listed runs leave these behaviours out, so
that their properties speak about the rest.

| Where | Set | Violated | What happens |
|---|---|---|---|
| `natives.c:670` | `heapops.cfg` with the program `Image`, depth 4, the address `t1` added and the operations `bootstrap`, `constant`, `copy_string`, `add_method`, `gc` | `OldToYoungRemembered`, `NothingInUseIsFreed` | a minor collection frees the name of a method of an old class: `AddMethod` tells the barrier of the function and not of the name, against `docs/CODEMAP.md:33`; `map_set`, which the comment names as the model, tells it of both |
| `vm.c:54` | `callstack.cfg`, `"nested_failure"` and `"host_call"`, three frames, seven activations | `InnermostRuns` | `runtime_error` resets all frames; when a host function has called `brokm_call` and that fails, it returns into a `run_until` whose frames are gone (`vm.c:384` reads `frames[-1]`), against `vm.c:353` |
| `vm.c:596` | invariant `RunnersOwnFrames`, `"host_eval"` | itself | `brokm_eval` from a host function runs the script with base 0 above its caller's frames; `OP_RETURN` does not find the count at 0 and goes on with the outer frame, against `vm.c:351` |
| `vm.c:597` | `"return_in_block"` | `IdleIsEmpty` | `OP_RETURN` of a script pops the result and one value and leaves the locals of the block on the stack, which `vm.c:593` says is discarded whole |
| `vm.c:143` | invariant `NativeCalleesAreHeld` | itself | `OP_INVOKE` puts the receiver into `slots[0]` and native code has no frame, so that only the class refers to the function; replacing the method lets a collection free running code (`jit.h:15`) |
| `vm.c:861` | `embedding.cfg`, `ApiRootsMax = 1` and `"full_roots"` | `HandlesStayValid` | a value beyond the last temporary root is not kept, against `brokm.h:53` |
| `vm.c:870`, `vm.c:845` | `"gc_sections"` | `CollectorAsProgramSays` | `vm_invoke` and `interpret` turn the collector on inside a section that `GcDisable` began (`natives.c:391`) |
| `vm.c:820` | `"nested_error"` | `CollectorAsProgramSays` | a compile error leaves the collector off for the program that evaluated it |
| `compiler.c:594` | `compiler.cfg`, `"long_switch"` | `ShippedJumpsArrive` | the jump to the default body is written without the check that all others have |
| `compiler.c:531` | `"case_declarations"` | `DepthIsStatic` | a declaration in a case is one local on one path only; `docs/SYNTAX.md:347` says not to |
| `lexer.c:48` | invariant `FilesAreScannedOnce` of `parser.cfg` | itself | `lexer_init` does not record the main file, so that a cycle of includes through it scans it twice, against `lexer.c:7` and `docs/SYNTAX.md:30`; `Pasted`, and so `StreamIsPasted`, read it twice, as the code does |
| `typecheck.c:98` | `"local_functions"` | `NamesAgree` | a function body sees the enclosing function's locals in the checker, globals in the compiler |
| `jit_arm64.c:102` | `native.cfg`, `Reach = 8`, the family `Relations` | `ImplementsInterpreter` | a conditional branch's distance is masked to 19 bits without a check, so that one of a function longer than a megabyte of code goes elsewhere, against `jit_arm64.c:4`; found by reading and in the model, not executed |

Read in the code and modelled as they are, without a property that they violate:

* `vm.c:843`: `interpret` ignores that `call_function` refused the script for want of a frame.
* Class names beyond 256 are dropped silently.
* `output.c:109`: each digit of a fraction comes from a rounded product, so that a build without libc
  prints the float next to 0.3, which is below it, as 0.3.  `FloatsAreNear` bounds the difference.
* `(5 && 6) * 2` is rejected although `&&` yields 6; the checker says bool.  `U8 a = [1, 2]; a[0]` is
  rejected too.  `RejectedWouldFail` and `StaticTypesHold` speak of operands whose static type
  is certain (`exact`, `pure`), and do not count these.
* U0 is the type unknown, so that `typecheck.c:663` ("returning a value from a U0 function") is
  never reported.  Of a prototype and a definition that differ, the first counts (`typecheck.c:119`).
* `f++` of a float gives back `f + 1 - 1`, which is not the old value when that rounds
  (`parser.c:396`).  The least integer divided by -1 traps on x86 (`Traps`).
* A source that is not named `*.bk` and is built in its own directory with no `-o` is overwritten by its
  output (`aot.c:186` strips that suffix only); `SourcesStay` speaks of sources named as the
  documentation does.
* Printing an array that contains itself does not end (`object.c:138`).
* `IndexOf` stops at a character 0 (`natives.c:444`): `IndexOf("a" + Chr(0) + "b", "b")` is -1.  `Min` and `Max` of
  an integer beyond 2^53 and a float compare them as floats (`natives.c:526`).  `IndexAgreesWithSubstr` and
  `BoundsAreBounds` leave these out, by name.
* `continue` in a do-while jumps to the top of the body and not to the condition, as
  `docs/SYNTAX.md:345` says.

## 6. Proofs

`GenGCProofs` proves, for every set of addresses, every set of strings among them and every
bound on references (`ASSUME StrAssumption == Str \subseteq Obj`, nothing else):

| Theorem | States |
|---|---|
| `TypeCorrect` | the type invariant |
| `Safety` | `NoDangling`: roots, fields of live objects and the intern table name live objects only |
| `BarrierComplete` | `OldToYoungRemembered` |
| `TriColour` | `BlackSeesNoWhite` |
| `MajorExact` | `MajorKeepsExactlyReachable` |
| `MinorPromotes` | `MinorLeavesNoYoung` |

None of these is inductive alone.  `IInv` adds `CollectorInv`: gray objects are marked and
marked ones are live and in scope; roots in scope, and references of remembered owners that
were scanned, are marked; all that a major collection marks is reachable; between
collections nothing is marked.  The argument for safety: when the gray stack is empty the
marked set is closed under references in scope (`TriColour`), holds the roots in scope, and
in a minor collection holds the young references of every old object, because each such owner
was remembered (`BarrierComplete`) and scanned.  So nothing unmarked in scope is referred to by
a survivor.  `OldToYoungRemembered` survives the clearing of the set because a minor
collection promotes all its survivors, and survives a major one because the set is kept: this
is why the code clears it in one case only.

`GenGCRefinement` proves that `GenGC` implements both abstract modules: `RefinesManagedHeap`
(mapping: the same variables) and `RefinesGenHeap` (mapping: the step of `CollectGarbage`
happens in `RemoveWhiteStrings`; from there to the end of the collection the swept heap and
the cleared set are already shown).  Every other step of the collector is a stutter.

`HeapOpsProofs` and `HeapOpsSafety` prove, for all programs, addresses, string contents and bounds
(`HeapOpsAssumption`: strings have addresses of their own, `NULL` is no address):

| Theorem | States |
|---|---|
| `TypeCorrect` | the type invariant |
| `StringsInterned` | `StringsAreInterned` |
| `UsedObjectsSurvive` | `NothingInUseIsFreed` |
| `StoresAreRemembered` | `OldToYoungRemembered`, and with it `OldToYoungButMethodNames` |
| `OperationsImplementManagedHeap` | `ImplementsManagedHeap` (`roots` is what stack, globals and the operation in progress hold) |

The last three assume `Told`, that the program does not use `AddMethod`.  They are false without it
(section 5, `natives.c:670`); the run checks `NothingInUseIsFreed` and the refinement with
`AddMethod` too, in programs that end before the name is missed.

The invariants are in three parts.  `TInv` is about types and operands: what each label
of `op` has in hand, and how many operands are on the stack.  `SInv` is about interning: while a
string is between its allocation and the intern table it is the only one that is not there, and
no other one has its contents.  `PInv` says why an operation may be interrupted by a collection:

* `HeapSound`, `InUse`: live objects refer to live objects, what is in use is live, and each old
  owner of a young object is remembered;
* `InReach`: whenever the operation may allocate, what it works on is `Held`, that is, on the stack,
  in a global, or referred to by one of these (the names that `Construct` reads out of the class, the
  constants that `Assemble` reads out of an array), so that a collection finds it;
* `CollectorOff`: but for `MakeClass` and the start of an image, which hold nothing and have the
  collector off;
* `Untold`: the stores that no barrier follows.  The object under construction may have been promoted
  by a collection since it was made, but that collection has promoted what is still to be stored too,
  since both were held.  This is the part that a change of the code would break unnoticed:
  one more allocation whose result is stored without a barrier is enough.

The refinement needs `InReach` once more: what an operation takes up in a later step it can still
reach then (`Follow`), and what a collection takes away is outside a closed set around all in use.

`TableProofs` proves, for every set of keys, every assignment of hash values and every capacity
(`TableAssumption`: `NULL` is no key, nil and true differ, hashes are naturals and the least
capacity is more than 1):

| Theorem | States |
|---|---|
| `TableInvariant` | the inductive invariant `TInv` |
| `ExactCount` | `CountIsExact` |
| `EndOfProbing` | `ProbingEnds` |
| `EveryKeyFound` | `KeysAreFound`: a search for a key in the table ends at its entry |
| `TableIsKeyMap` | `ImplementsKeyMap`, the refinement of `KeyMap` |

The heart of `TInv` is `Reachable`: the entries that a search for a key passes before its own are
neither empty nor another entry of that key.  Deletion keeps this because it leaves a tombstone, and
insertion because `find_entry` gives back a tombstone only when the key is nowhere.
`4 * count <= 3 * capacity` makes an empty entry certain, so that every search ends.  Rehashing is a
recursive function; `RehashedSteps` gives its equations, and an induction over the entries not
yet copied (`SetInduction`, which is proved from the well-foundedness of `<`) shows that the new
array holds the same keys.

`CallStackProofs` proves, for every number of functions, frames and activations:

| Theorem | States |
|---|---|
| `CallsNest` | the inductive invariant `NInv` |
| `LoopsOwnFrames` | `RunnersOwnFrames` |
| `InnermostExecutes` | `InnermostRuns` |
| `IdleStack` | `IdleIsEmpty` |
| `FullWindows` | `FullWindowsFit` |
| `CallsKeepDiscipline` | `KeepsDiscipline`, the refinement of `CallDiscipline` |

All assume that `Behaviours` has none of `host_eval`, `nested_failure` and `return_in_block`: section
5 describes what each of them breaks.  `FullWindows` assumes also that
`FramesMax * SlotCount <= StackMax`, as in `common.h:26`, and nothing of how wide windows are or how
many arguments a call has: that windows are full ones at most is a condition of `FullWindowsFit`, on the
state at hand, which the compiler does not guarantee.
`NInv` says where each entry of the C stack and each frame begins: an interpreter loop owns a
non-empty range of frames, windows start in the order of their calls whatever tier runs them, and a
window lies above the operands of its caller.  Frames and C activations are two sequences, so the
order between an element of one and an element of the other (`Over`) has to be derived from the
loops in between; most of the proof is this.  For `FullWindows` a second invariant, `RInv`, says
that there are at most `FramesMax` frames and that native code begins a full window below the end of the
stack.  With bytecode only, the C stack is one loop from the first frame on (`BytecodeAlone`), each window
begins where the one below ends, and `k` of them that are not too wide take `k * SlotCount` cells at
most (`WindowsPileUp`, by `InductionInSet`, which is proved from the well-foundedness of `<`).

`EmbeddingApiProofs` proves, for every number of VMs, handles, temporary roots and nested calls:

| Theorem | States |
|---|---|
| `NestingInvariant` | the inductive invariant `NInv` |
| `CurrentVm` | `CurrentVmRuns` |
| `MappedCode` | `NativeCodeIsMapped` |
| `Separation` | `VMsAreSeparate`, an action property |
| `Collector` | `CollectorAsProgramSays` |
| `ValidHandles` | `HandlesStayValid` |

`NInv` says that host and program take turns in `calls` and that each call will restore the VM of
the one below it.  `Collector` assumes that no program closes a section another opened and that no
error skips the end of one (`gc_sections`, `nested_error`), and `ValidHandles` that the temporary
roots do not run out (`full_roots`): section 5 again.  Its invariant `HInv` follows each handle from the
root that keeps it, through the calls it is passed to, to the moment the root is cleared.

`CompilerProofs` proves, for every size of the compiler's tables, every set of names and programs of
any size and nesting (`CompilerAssumption`: a table of locals has at least one entry, and `NULL` and
`This` are no names):

| Theorem | States |
|---|---|
| `CompilerInvariant` | the inductive invariant `CInv` |
| `TypeCorrect` | the type invariant, with the limits of the tables |
| `DepthsAreStatic` | `DepthIsStatic` |
| `JumpsArrive` | `ShippedJumpsArrive` |
| `NamesResolveAlike` | `NamesAgree` |

The last three assume that `Behaviours` has no `case_declarations`, no `long_switch` and no
`local_functions`, each only its own: section 5 has the programs that these let in.  `DepthIsStatic` and
`NamesAgree` say nothing of how the compiler got to where it is, so `CInv` gives every construct
in progress its place:

* `FramesOK`, `Sound`: the scope depth inside the construct `open[i]` is `sc[i]`, one more for each block, for
  and switch, and the locals are sorted by depth.  So a scope that ends removes the locals that were
  declared in it and no others;
* `Straight`: the first `t[i]` temporaries belong to the expressions below, and each label is `Placed`,
  at the number of locals there were when its construct began (`Kept` of the present locals) and the
  temporaries below it.  A statement has none below it;
* a declaration stands in a block or in the first clause of a for only, so that a local
  never appears between a label and what jumps to it.  This is the step that fails for
  `case_declarations`;
* `ScopesOK`, `Agree`: the checker's variables are the named locals of the current function in the same
  order, each deeper by the same offset, that of the scopes around the function.  While a switch's
  discriminant is compiled the compiler has begun its scope and the checker has not (`Pending`);
* suspended functions have no named local (`Unnamed`).  This is the step that fails for
  `local_functions`.

All of it is stated up to the first error, since a compiler that goes on after one emits what is thrown
away; the limits of the tables hold beyond it.

Only model-checked:

* `CollectionEnds` and `OnlyClassBodiesLoop`, as liveness is beyond the prover;
* `Operators`, which uses the recursive operators of `Bitwise`, that no theorem may reach;
* `Lexer`, `Grammar` and `Parser`: that parser and grammar agree would need induction over the text,
  and `Pasted` is recursive;
* `NativeCode`: what a translated program does is known only by induction over its bytes;
* `Scanner`, `Text`, `Formatting` and `StringNatives`: each property compares what a
  recursion over the characters or digits has computed with a definition of another form, which
  again is an induction over data;
* `Checker`, `SyntaxTree`, `Builder`, `RawMemory`, `CodeObjects` and `HostNatives`: the eight modules of proofs
  are about the parts whose instances are unbounded by nature, the heap, tables, calls, VMs and the
  compiler.  These six depend on finite case distinctions, of options, kinds of node and
  failures, which their runs enumerate.

## 7. Not modelled

* **Layout**: the listings of `debug.c`, the text of the C that `cemit.c` writes, the wording of errors, and
  what `Print` makes of maps, classes and instances.  The flags of a conversion are a width, `-` and `0`.
* **The read-evaluate loop** of `main.c`: it hands one line after the other to the embedding API, and
  forgets class names between lines.
* **Floats beyond the integers**: `ToInt` of a float that no integer is near, which is undefined in C, and the
  digits that libc's `%g` chooses.
* **Natives that hand on one answer of libc**: mathematics, `Env`, `Args`, `Input`, `Time`, `Sleep`, and `Opcode`,
  which is a table.
* **Machine instructions**: their encoding, the self-test, failures of allocation in the code
  generators, the search for room in a page; `NativeCode` has the steps that they encode.
* **Part of the checker**: a function declared twice with different arguments.
* **Thresholds** of the collector and of the JIT: when a collection or a compilation happens is a choice.
* **Other directories**: the standard library and the examples are programs in brokm;
  `editors/tree-sitter-brokm/src/parser.c` is generated, and more than half of all lines of C.
