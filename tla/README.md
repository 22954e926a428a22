# Acorn VM in TLA+

A verification development for the Acorn virtual machine (`src/`): TLA+ modules translated from the
C++ source, configurations that check them with TLC, and proofs checked with TLAPS. Paths below are
relative to the repository unless they start with `tla/`.

## 1. The system

The Acorn VM runs byte code of a dynamic language. It is a library: a host program calls `newVM`,
gets the main thread, and works with values through the API of `avm_api.h`. Everything runs on one
operating-system thread. The hard behaviour does not come from parallelism; it comes from a
**garbage collector that runs a few steps inside any allocation**, from **yielders** (threads with a
stack of their own that hand control to each other in the middle of a method), and from data
structures that are edited while somebody walks them.

| Component | State | Operations | Interacts with | Correct when |
|---|---|---|---|---|
| Garbage collector (`avm_gc.cpp`) | colours, old bits, three kinds of lists, gray list, state, two modes, sweep position | `mem_gcstep`, `mem_gcfull`, `mem_markChk`, `mem_keepalive` | every allocation runs steps; every store into a collection runs the barrier | no reachable object is freed; garbage of a full cycle is; cycles end |
| Allocation (`avm_memory.cpp`) | `totalbytes` | `mem_new`, `mem_newnolink`, `mem_gcrealloc`, `mem_growaux_` | collector, before; full collection, when `realloc` fails | bytes are accounted; the new object is anchored before the next allocation |
| Symbol table (`avm_symbol.cpp`) | array of chains, two counts | `newSym`, `sym_resize_tbl` | swept chain by chain; shrunk at the end of a cycle | one object per name; chains stay in age order for generational sweeps |
| Hash tables (`avm_table.cpp`) | nodes, `lastfree`, size | `tblSet`, `tblRemove`, `tblResize`, `tblNext` | globals, types, resources; collector | a map; a key out of place is chained from its place; free nodes are found |
| Threads and stacks (`avm_thread.cpp`, `avm_stack.cpp`) | value stack, `stk_top`, call frames with pointers into stacks | push, pop, `needMoreLocal`, `stkRealloc`, `newThread` | scanned by the collector up to `stk_top` | pointers into a stack follow it when it moves |
| Methods and interpreter (`avm_method.cpp`) | the current frame, `ip` | call, tail call, return, yield | all of the above | results arrive where the caller expects them, on the stack it had |
| Arrays (`avm_array.cpp`, `typ_list.cpp`) | block, `avail`, `size` | get, set, add, insert, delete, substitute | barrier | positions below `size` were written |
| Types and properties (`avm_value.cpp`, `typ_object.cpp`, `typ_mixin.cpp`) | each value's type; what a type hands down: a type or an array of types | `getProperty`, `addMixin`, `setType`, `object_match` | tables, arrays | lookups end and go in order; a mixin changes one value only |
| Compiler (`src/acorn`) | lexer position and indentation; AST arrays, scopes; registers and jump lists | `lexGetNextToken`, `parseProgram`, `genBMethod` | allocates while holding parse state | braces balance; the tree is the one that was written; the code does what it means |
| Resource loader (`typ_resource.cpp`) | tables of values and of loaders | load, deserialize, link, `resource_setvalue` | calls methods while it walks its tables | every resource resolves once |
| Core types, file scheme, zip, VM start | - | library methods, I/O | - | - |

What is hard to test here is listed line by line in `tla/PROJECT.json` under `hazards`, with the
property that covers each one or the reason none does yet.

## 2. The plan

Ordered by how much of the system's correctness rests on each part.

1. **Heap, GC** - done: the collector with the program, the symbol table and the threads around it.
2. **GCInv, GCProofs** - done: the inductive invariant and the theorems of section 6.
3. **KeyMap, Table** - done: the hash tables implement a map.
4. **Coroutines, Calls** - done: call frames, `retTo`, stack reallocation, calls, returns, yields, tail
   calls and reset; abstract specification: every call gets its results in its own frame.
   **Frames, Stacks** - done: parameters, results, `stk_top` and the stack's limits; abstract
   specification: methods with values of their own. Open: several threads in one model.
5. **Lists, Arrays** - done: blocks, sizes, what they add to `totalbytes`, the list methods against
   sequences. Open: closures' arrays, a sort within a sort.
6. **Loader** - done: loaders and values, the linker, the scan of `resource_setvalue`, circular
   resources. Open: archives.
7. **Acorn, Parser, Syntax, CodeGen, Compiler, Machine** - done: the parser against a writer of
   programs, the byte-code generator against the meaning of the source (TLC only, because syntax
   trees are walked recursively).
8. **LexIndent** - done: the layout of sources. Open: single tokens.
   **Traits, Types** - done: types, mixins and property lookup.
9. **GCFullInv, LoaderInv, LoaderProofs, CallsInv, CallsProofs, StacksInv, StacksProofs,
   FramesProofs, TableProofs, ArraysInv, ArrayProofs** - done: the collector's lists, full cycles and symbols, the
   loader, calls, returns and yields with their refinement of `Coroutines`, the data stack with its refinement of
   `Frames`, the hash tables with theirs of `KeyMap`, the lists with theirs of `Lists`.
   **SeqProofs** - done: the facts about sequences and recursive functions that several of these need.

## 3. Modules

### Heap (abstract)
What the memory manager promises, with no colour or list in it: `alloc`, `refs`, and two kinds of
steps. The program creates objects and changes references without making a dangling one; the
collector gives back unreachable objects and changes no survivor.

### GC
One module for `avm_gc.cpp`, `avm_symbol.cpp`, the constructors of `avm_memory.cpp` and
`avm_thread.cpp`, and the program's side of the barrier.

*State.* `color` and `old` are the bits of `marked` (`white0` and `white1` are the two whites; gray is
neither white nor black). `lists` holds `vm->objlist` and `vm->threads` under the name of the state
that sweeps them, newest first; `symArray` is the symbol table. `sweepgc` is a pointer into a list: the
number of elements before the position, or `NULL`. `refs[x]` abstracts what an object points to to a
set; a thread's set is its stack up to `stk_top` and `yieldTo`. Literals and the standard index, which
the VM holds besides the global table, are abstracted into `Global`. `stale`, `building`, `request` and
`doomed` stand for stack slots above the top, an allocation that was interrupted, the program counter
of `mem_gcfull`, and (history) what was garbage when a full cycle began.

*Actions.* One per case of `mem_gconestep`, with three exceptions that make a loop body a step of its
own: marking one gray object, sweeping one list element, and the atomic phase, which is `AtomicBegin`,
`MarkTopGray`..., `MarkThreads`, `MarkTopGray`..., `AtomicEnd`; the program does not run in between
(`Runs`). Sweeping the chains of one step (`GCSWEEPMAX`) is one action, because a step is. The program
has one action per kind of write: to its own stack with a barrier (`pushValue`, `setLocal`), to stacks
without one (`copyToStack`: registers, return values, parameters and yielded values of another thread),
to collections (`setElement`, `removeElement`), to `stk_top` (`popValue`, `callMorCPrep`); and one per
constructor. A constructor in the middle of which collector steps may run is two actions (`newSymGrows`
and `newSymAdded`, `newThread` and `thrInit`). The program only uses pointers it can load (`held`).

*Left out.* How many steps an allocation runs (`gctrigger`, `gcstepunits`): any number, so every
schedule of the code is one of the model's. The order of the gray list. Finalizers. `mem_gcfull` is
called with any mode in `FullRequests`: in the code only a failed `realloc` calls it, with 1.

*Deviations as constants.* Three things the code does break the properties, and are switched by
constants so that the rest can still be checked and proved: emergency requests
(`1 \in FullRequests`), collector steps inside `thrInit` (`StepInThrInit`), registers that keep old
values (`StaleRegisters`). `GCInv!Regular` says they are off. Section 7 reports each.

### GCInv, GCFullInv, GCProofs, MCGC
The inductive invariants (`IInv`, and on top of it `FInv` and, for the symbol table, `SInv`), their proofs and those
of the theorems, and the instances for TLC. The modules of invariants have no proofs, so that TLC checks an invariant before
anybody tries to prove it.

### KeyMap (abstract), Table, TableProofs, MCTable
`KeyMap` is a map of which one key changes at a time. `Table` is `avm_table.cpp` operation by
operation, each a function from table to table named like the code's: `tblSet`, `tblRemove`,
`tblResize` and what they call. `put` is `tblAdd` once there is room; `tblAdd` grows the table at most
once, because a fresh vector has a free node for every key of the old one. The refinement mapping
looks every key up with `tblGet`, so `ImplementsMap` says that no operation on one key can be noticed
under another. The hashes are chosen in `Init`: every assignment of hashes is covered. Pointers and
symbols are reduced to a place in different ways (`Pointer`). The barrier and the collector step inside
`tblResize` belong to `GC` and are left out here.

### Coroutines (abstract), Calls, CallsInv, CallsProofs, MCCalls
`Coroutines` is what a program may rely on: one chain of frames that wait for each other, of which the
last runs; results go to the frame before; a yielder leaves the chain and joins it again with one frame.

`Calls` is the calling half of `avm_method.cpp`, the reallocation in `avm_stack.cpp` and
`context_reset`. Two stacks are in it. `frames[t]` is the call stack of thread t (`CallInfo`), first
`entrymethod`, last `curmethod`. `native` is the C stack of the process: the activations of
`methodRunBC` and of methods written in C, of which the last executes. They do not grow and shrink
together: a loop that calls byte code, or resumes a yielder, goes on with other frames (`methCall`); a C
method that calls byte code (`getCall`) starts another loop, and that loop must stop exactly when it
comes back to a C frame (`Continue`), on whatever thread that is.

*Pointers.* `retTo`, and the address of the registers that a loop keeps in `stkbeg`, are symbolic: the
thread, how often its stack had moved when the pointer was taken, the frame and the slot. Moving a
stack (`Grown`) is the loop of `stkRealloc` over the frames of its thread. A pointer shifted by the
distance another stack moved is `wild`.

*Actions.* `CallBytecode`, `CallC`, `CallYieldMethod` and `CallYielder` are the outcomes of
`callMorCPrep` and `callYielderPrep`, each with the slot asked for (`each` asks for the second) and with
or without the stack moving. `OpReturn`, `OpYield` and `CReturn` (`methodRunC`) give back. Tail calls
are `TailCall` (`tailcallMorCPrep`), and, in a yielder's first frame and for yield methods,
`CallThenReturn` or `MakeThenReturn` followed, when the nested call has come back, by `ThenReturn`.
`NeedMoreLocal` and `Reset` are what C methods do.

*Left out.* Values, parameters, the number of results, `stk_top`: see `Stacks`. What cannot be called is replaced by
null at once, so those calls change nothing here, or are an `OpReturn` (tail calls).

*Deviations as a constant.* `Irregular` switches on what the code accepts and does wrong; section 7
says what each of its elements breaks. Without it a stack moves only if it is the main one and no
loop outlives the call with the address of its registers, a yielder is resumed or reset only while it
waits for nobody, and tail calls are those that work.

### Frames (abstract), Stacks, StacksInv, StacksProofs, FramesProofs, MCStacks
`Frames` is what methods of one thread may rely on: each has values of its own, takes the last of them
for a call, and gets as many values back in their place as it wants. `Most` is the highest number of values it counts
in: the larger of the bounds of `Stacks`. `Stacks` is `avm_stack.cpp` with
what `avm_method.cpp` does to the stack: one array of slots, `stk_top`, the number of slots allocated, and
for each frame `base` (`methodbase`), `begin`, `end` and `retTo`, all as positions. Parameters are
padded with nulls, moved above the variable ones, moved down by a tail call; results are copied down;
the array grows (`needMoreLocal`, `stkGrow`). Definitions are named like the functions.

*Actions.* One per operation of the API on the local stack; `Call` is `getCall` and `OpGetCall`,
`setCall` and `OpSetCall`; then `OpEachCall`, `OpTailCall`, `popSetActProp`, `Return` (`OpReturn` and the
end of a C method), and the loading instructions. C methods and byte code alternate in any order: a
frame's `run` says which it is, so that every combination of caller and callee occurs. What a
property lookup finds is any of `Properties`. What `Frames` sees of a thread is, of each frame, the values from `base` up to
where the next frame's parameters begin, without registers that nothing was put into (`framesOf`).

*Data.* The registers of byte code from `used` on are `Junk`: nothing reads them. `did`, the last operation
with its operands, is in both modules, so that `ImplementsFrames` compares them operation by operation.

*Left out.* Other threads: a yielder is made, with the values on its new stack (`yielderFrame`), and not
run. Pointers are positions, so moving the array changes nothing here (`Calls` has that).

*Deviations as a constant.* `Irregular`; section 7.

### Traits (abstract), Types, MCTypes
`Traits` says where a value looks for a property: in itself if it is a type, in its types one after the
other, each with all that it inherits before the next, and last in `All`; and that adding a mixin puts
it first among the types of that value. `Types` is what the code has for it: `type`, and `inheritype`,
which is nothing, a type, or an array of types that `addMixin` makes or changes in place. `getProperty`
and `object_match` are translated as they are, including what they treat differently: a type twice in
the same table, arrays directly as a type and arrays below one. Every set of types that hold a property is
asked about.

*Left out.* What properties are (a set of types holds one), values of fixed types, and the call of a
mixin's `Init`, which is one more call. What `Irregular` switches on: section 7.

### Loader, LoaderInv, LoaderProofs, MCLoader
`Loader` is `typ_resource.cpp` with the linker of `acn_main.cpp` and the file scheme. Its functions
call each other through the program (`Load` and `Link` are methods), so that a load may be in the middle
of linking another resource's method, and `resource_setvalue` may be anywhere below it. `stack` holds the
activations with their local variables; `pc` says where one goes on, and is also where a function that
returns leaves its result. `values` and `loaders` are the keys of the two tables of the type `Resource`,
`linking` the loaders that hold a method; `asked` stands for schemes that call back later (`Remote`).
What a resource decodes to is chosen when it is decoded; which resources its method refers to is chosen
in `Init`, so that every graph of references is covered, circles and self-references too.

One action is what a function does between two calls. The scan of the loaders passes by loaders without
a method at once. The order of the table is any order, and as in `tblNext` a scan ends when the key it is at has
been removed. `DecodePlain` is a decoded value that is no method, and also a scheme's failure: both end in
`resource_setvalue`.

*Left out.* Building urls from strings, archives, and the methods enclosed in a method, whose externs are
taken for its own. A scheme that calls back later does so when nothing else is going on.

*Deviation as a constant.* `ScanLoads` allows a method that `resource_setvalue` runs to load a resource
nobody has asked for before. Its value makes `resource_setvalue` scan the loaders from inside the scan, against
`typ_resource.cpp:399` ("we won't recursively call ourself"): the method that is running there still
waits in its loader, is found linked, and is run once more. With `ScanLoads` TLC finds `OnlyOnce`,
`RunsComplete` and `NotReentered` violated; `NoneForgotten` still holds.

### Acorn, Syntax (abstract), Parser, CodeGen, Machine, Compiler, MCMachine
`Acorn` gives a method's syntax tree its meaning: the calls it makes, with their arguments and in their
order, its yields and what it returns, given what the called methods answer. `CodeGen` is `acn_gen.cpp`
function by function, a walk over the tree whose state (`CompInfo`: the code so far, the next register,
the scopes, the loop it is in) is a record; definitions are named like the functions. `Machine` is the
loop of `methodRunBC` on one frame: the instructions that move values (`Move`) and those that jump
(`Branch`), and for the rest what is called (`Invoke`) and what comes back (`Answered`). A called method
answers anything in `Answers` and leaves junk in the registers above its results; that it comes back to
the right frame is the subject of `Calls`. The invariant `MeansSource` compares each run with the
meaning of its source whenever the run has called somebody or returned. The parser, the generator and
the meaning are parameters of `Machine` (`Parsed`, `Compile`, `Means`): the configurations give it `Read`
of `Compiler`, `BMethod` of `CodeGen` and `Meaning` of `Acorn`.

`Parser` is `acn_parser.cpp` function by function, a recursive descent over tokens whose state
(the operands of the segment being built, the scopes, the closure) is a record. `Syntax` is its
reference: it writes a tree down with as few parentheses as the levels of the operators allow, and
statements as clauses of others where it can. `ParsedAsWritten` says that the parser gets the very
tree back, with each variable declared in the block it belongs to, and complains of nothing. `Read`
(module `Compiler`) is the whole way from a program to the tree that is compiled; a method that uses variables of
the method around it is written into one.

*Data.* A value is a name; only null, false and how two values compare are told apart. The meaning of an
operator is taken from its use in the code and in `src/test/testlang.acn`: a comparison of what cannot be
compared does not hold, `and` and `or` give the operand that decides. A property that is got is taken
for a method: what `OpGetActProp` does with several variables to the left of a property that is none (it
sets the first only) is left out.

*Left out.* The table of literals (an instruction carries its literal itself), `OpLoadLitx`, code longer
than a jump reaches, and the characters of tokens. Sources with errors: a message is counted, and what the
parser makes of them is not compared with anything.

*Deviations as a constant.* `Irregular` of `MCMachine` adds methods that the parser accepts and the
generator gets wrong; section 7.

### Lists (abstract), Arrays, ArraysInv, ArrayProofs, MCArrays
`Lists` says what each method of a list does to a sequence and what it answers. `Arrays` is
`avm_array.cpp` with the methods of `typ_list.cpp`. An array is a `block`, of which `size` slots are in
use; `Len(block)` is `avail`. Slots that were never written, or are not in use any more, hold `Junk`,
and `wild` records a write or a `memmove` outside the block. Each function of `avm_array.cpp` is an
operator from array to array, in the arithmetic of `AuintIdx` (`Word`); each method of lists is an action, and
`Loop` is what the rounds of a `while` in it make of an array, one call of `avm_array.cpp` each.
`called` and `answer` are the interface: the refinement is checked for every transition, call by call.

`list_sort` is two actions, because it calls the program in the middle: it stops where it calls the
comparison, and `Compared` goes on. In between any method may be called for another list. `total` is
what blocks contribute to `totalbytes` (`mem_gcrealloc` is given the old size by its caller).

*Left out.* Parameters of a wrong kind, for which a method returns at once; a sort within a sort; the
barrier and the collector step of `arrMakeRoom`, which are part of `GC`.

*Deviations as a constant.* `Irregular` adds the calls that are not executed as they should be; section 7.

### LexIndent, MCLexIndent
`LexIndent` is `lexScanWhite` of `acn_lexer.cpp`: one action per turn of its loop over white space and
per token it puts in. `Meaning` is the reference: it goes line by line, from the tabs of each, and knows
nothing of flags. `OffsideRule` compares the two at every token. A token is one character; strings that
go over lines, and the position that messages name, are left out. `Irregular` adds two kinds of sources;
section 7.

## 4. What the runs show

Properties in the order of `tla/PROJECT.json`.

| Run | Instance | Shows |
|---|---|---|
| `gc_nodes` | global table and two collections, old trigger 3 | `TriColour`, `GrayListSound`, `OldSuffix`, `FullCycleCollects`, `MemorySafety` (implements Heap), `TypeOK` |
| `gc_symbols` | three symbols, two of one hash; table from 1 slot | `NoDangling`, `OldSuffix`, `ChainsHoldHeap` while the table grows and shrinks during its sweep |
| `gc_mixed` | one object of each kind, among them a yielder whose stack two threads write; fairness | `IInv` (which implies `NoDangling`), `CycleCompletes`, `RequestCompletes` |
| `table` | four keys, one of them a pointer; hashes 0..3; up to 4 nodes | `OwnMainPosition`, `TraversalComplete`, `RemoveInPlace`, `ImplementsMap` |
| `calls` | two yielders, chains of up to four frames, the main stack moves once | `RetToCaller`, `StkbegCurrent`, `NativeMatches`, `YieldersAsleep`, `ImplementsCoroutines` |
| `loader` | three resources with up to two references each, one remote; fairness | `OnlyOnce`, `RunsComplete`, `NotReentered`, `NoneForgotten`, `LoadingEnds` |
| `codegen` | some 200 methods: every tree of `and`, `or`, `not` of height 2, every comparison, every level of operator in another, every kind of block and clause, nested, closures; fairness | `MeansSource`, `KeepsGoing`, `RegistersFit`, `ParsedAsWritten` |
| `lists` | two lists of two values and null, five slots in all | `BlocksHold`, `Accounted`, `ImplementsLists` |
| `lexindent` | every source of up to four lines with up to two tabs; fairness | `OffsideRule`, `Ends` |
| `stacks` | three frames, eight slots that grow from five, methods of every kind with 0 to 4 parameters, 0, 2 or all values wanted | `WithinStack`, `RoomForC`, `ImplementsFrames` |
| `types` | `Object`, `All` and two more tables; two arrays of up to three types | `AnswersRight`, `ImplementsTraits` |
| `v_newthread` | a thread that is being set up | the disagreement of section 7, 1 |

Type correctness (`TypeOK`) is a conjunct of one invariant of each module: `RunsComplete`, `NativeMatches`,
`RegistersFit`, `BlocksHold`, `OffsideRule`, `OwnMainPosition`, `WithinStack`, `AnswersRight`; of `GC` it is checked by itself in `gc_nodes`.

*Bounds.* `MaxRefs` and `MaxStack` (1 unless a cfg says more) bound how many pointers an object and a
stack hold. One pointer per object is enough for chains, cycles, and for moving the last reference to
an object from one holder to another, which is what the barrier is about. `OldTrigger` is 1000 in the
code; it has to be at least 3 (4 in `gc_symbols`) for a generational sweep to meet an object that was
old before, and is no larger, so that full cycles follow generational ones. `SweepMax` is 1 so that the
program runs between any two chains. `LoadContext` bounds which threads load themselves as a value.
`MaxNodes` bounds a table; a set that would grow beyond it is not followed. Three keys in one chain and
a fourth that gets in its way need all of four nodes. With `MaxNodes` = 8 the same properties hold
(three minutes, so it is not one of the runs). `MaxChain` bounds the frames that wait for each other:
four are enough for a main method that resumes a yielder whose method calls a C method that resumes
another, which is the deepest mixture of native and switched control that is not two simpler ones. With
one yielder and `MaxChain` = 5 the same properties hold. A stack moves once (`MaxMoves`): the second move
corrects the same pointers as the first. Three resources with two references each (`MaxExterns`) give
every circle up to three, and a method that waits for one resource while it loads another; each can be
referred to before and after it is loaded. Nodes, yielders and keys of one kind are interchangeable
and declared symmetric; resources are not, nor anything in `gc_mixed`, as liveness is checked there. Deadlock is checked in every
other run.

Conditions of height 2 hand chains of jumps through two levels, with every way `not` exchanges them; the
conditions whose code is wrong (`Sound` says which, section 7) are left to `Irregular`. `MaxCalls` bounds
the calls of a run: nine let each loop go round two or three times. A run stops there, and a method
that has returned stops too, so deadlock is not checked in `codegen`.

`MaxRoom` bounds the slots of all lists, `MaxPos` the positions and lengths that are passed; a call that would
need more is not followed. Five slots let a list double its block, leave a gap and be merged with another,
and three values are sorted with every outcome of the comparison, equal ones and null included. `Width`
is the number of positions there are; 32 is small enough for negative positions to wrap around into the
range that is checked (`ConstantTypes` says how small it may be). In `lists` a `VIEW` leaves out the last call
and its answer, which no action reads: TLC still checks every transition against `Lists`.

The constants of `stacks` are the code's (`avm_config.h`) made small, with their order kept: a C method is
given 2 slots instead of 20, a stack starts with 5 and may have 7. So it has to grow for the third
frame, and every way to run out is near. `MaxFrames` 3 gives a caller, a called method that calls, and the
called one; a tail call replaces the middle one while the first waits. `MaxLive` is all of the
slots that may be used, `MaxWant` bounds the values wanted, one more than a method is left with when it has returned few.
`Properties` has no closure without a second method (`"getter"`), which is called like one that has it, and like a value when it is set;
with it the same properties hold. The `VIEW` leaves out `did`: TLC still checks every transition.

Two tables that are made, and `Object`, can be mixed into each other in every order; an array of three types
is one that was made and changed in place once. `Root` keeps `All` as it is: it is what every search ends in. A value that can take no
more types stops, so deadlock is not checked in `types`. With three tables, arrays of two types and `Object` as it is, the
same properties hold.

Four lines let two blocks be opened and closed at once by a line that goes on with an outer statement. A
source that has been read stops, so deadlock is not checked in `lexindent`.

*Fairness.* `FairSpec` assumes that collector steps go on to be taken, and that an allocation that has
begun ends. The code justifies the first as long as the program keeps allocating: every allocation
counts `gctrigger` up and runs steps beyond zero, at least one each time (`mem_gcstep`), and inside
`mem_gcfull` steps run in a loop. A program that stops allocating stops collecting. `FairSpec` of `Loader` assumes that what has been called
goes on, which is the execution of a program, and that each scheme that was asked calls back in the end.
The last is an assumption on schemes: an unknown scheme, or the url of an archive, never does. `FairSpec` of `LexIndent`
assumes that the parser goes on asking for tokens, as its loops do until they get the end of the source. `FairSpec` of `Machine` assumes that the interpreter executes the next instruction
whenever there is one, not that called methods come back.

*Deliberate mistakes.* Definitions whose comment starts with "a slip" are not part of the model. Each is
the definition that follows it with a mistake in it; putting it in that definition's place must make the
property of the same row of `mutants` in `tla/PROJECT.json` fail, which shows that the property depends
on the code it is about.

## 5. Running

    tlc -workers 2 -config gc_nodes.cfg MCGC.tla
    tlc -workers 2 -config table.cfg MCTable.tla
    tlc -workers 2 -config calls.cfg MCCalls.tla
    tlc -workers 2 -config loader.cfg MCLoader.tla
    tlc -workers 2 -config codegen.cfg MCMachine.tla
    tlc -workers 2 -config lists.cfg MCArrays.tla
    tlc -workers 2 -config lexindent.cfg MCLexIndent.tla
    tlc -workers 2 -config stacks.cfg MCStacks.tla
    tlc -workers 2 -config types.cfg MCTypes.tla
    tlapm GCProofs.tla          # likewise StacksProofs, FramesProofs, LoaderProofs,
                                # CallsProofs, TableProofs, ArrayProofs, SeqProofs

`FramesProofs` is the longest, with a quarter of an hour.

The inductive invariants can be checked with TLC too: put `FInv` under `INVARIANTS` of `gc_nodes.cfg`, `SInv` of
`gc_symbols.cfg` (of `GCFullInv`) or of `stacks.cfg` (of `StacksInv`), `IInv` of `loader.cfg`, or `ListsInv` of `lists.cfg`.

## 6. What is proved

Every theorem holds for all values of the constants: finite or infinite sets of objects and values, any number
of yielders, every hash function, all bounds and sizes. The only assumptions are the named ones that each module makes of its
constants, and that the deviations of section 7 are off; each module has one definition for that
(`Regular`, `~ScanLoads`) and every theorem states it.

| Module | Theorems | Properties of section 4 that they state |
|---|---|---|
| `GCProofs` | `Inductive`, `NeverDangling`, `AlwaysTriColour`, `MainIsMarked`, `NewThreadIsKept`, `ImplementsHeap`, `FullInductive`, `GrayListIsSound`, `FullCycleFreesAll`, `SymbolsInductive`, `OldBehindOld`, `ChainsHoldAll`, `TypeIsKept` | `IInv`, `NoDangling`, `TriColour`, `MemorySafety`, `GrayListSound`, `FullCycleCollects`, `OldSuffix`, `ChainsHoldHeap`, `TypeOK` |
| `StacksProofs` | `StackInvariant`, `NoOverrun`, `RoomIsThere` | `WithinStack`, `RoomForC` |
| `FramesProofs` | `CallsKeepFrames` | `ImplementsFrames` |
| `LoaderProofs` | `Invariant`, `LoadedOnce`, `RunComplete`, `Unnested`, `Remembers` | `OnlyOnce`, `RunsComplete`, `NotReentered`, `NoneForgotten` |
| `CallsProofs` | `LoopsKnowRegisters`, `ResultsArrive`, `SleepersHaveOneFrame`, `CallsAreCoroutines`, `NativeFollowsFrames` | `StkbegCurrent`, `RetToCaller`, `YieldersAsleep`, `ImplementsCoroutines`, `NativeMatches` |
| `TableProofs` | `TableInvariant`, `KeysInTheirPlaces`, `RemovedInPlace`, `TablesAreMaps`, `TraversalsComplete` | `OwnMainPosition`, `RemoveInPlace`, `ImplementsMap`, `TraversalComplete` |
| `ArrayProofs` | `ListsInductive`, `BlocksAlwaysHold`, `MemoryAccounted`, `ListsImplemented` | `BlocksHold`, `Accounted`, `ImplementsLists` |

**The collector frees nothing that is used** (`GCInv`, `GCProofs`).

- `Inductive`: `IInv` is an invariant. The collector must never free what can be reached
  (`LiveAllocated`), which is not inductive. It needs `LiveNotDead`: no reachable object has the white
  being swept. That holds when the whites are exchanged only if marking missed nothing: a gray object
  is listed (`GrayListed`), a black one has no white child (`BlackAboveNoWhite`), and the stacks, which
  have no barrier, were scanned since the program last ran (`StacksScanned`). Two facts carry this from one
  cycle to the next: before a full cycle everything is white, so the root's marking meets no black
  object (`WhiteAtBegin`, prepared by `SweptWhite` during the sweep), and before a generational one the
  barrier has been on ever since the last marking (`Barrier`).
- `NeverDangling`, `AlwaysTriColour`: the properties of the same meaning, from `IInv`.
- `MainIsMarked`, `NewThreadIsKept`: what section 7 reports of emergency cycles and of `newThread` does not
  happen without the deviation.
- `ImplementsHeap`: every step of the collector maps to a step of Heap or to none.

The proofs treat reachability as the least set closed under `refs` (`Reach`), equal to the set
the abstract module computes (`ReachableIsLive`); `ReachLeast` and `ReachSame` replace induction over
paths. The proof that the invariant is preserved has one lemma per action; `ProgramStep`,
`PlainStoreStep` and `LinkedAhead` gather what the program's actions have in common.

**A full cycle frees all the rest** (`GCFullInv`, `GCProofs`). `IInv` speaks of what is reachable only; about
garbage it says nothing. `FInv` does, in five parts:

- `Listed`: each list holds the allocated objects of its kind, each once, so that a sweep passes all of them.
- `Olds`: the old objects of what the sweep has before it are a suffix, so that an incremental sweep that stops
  at the first old object misses no young one; a constructor puts the new object before all of them.
- `Fresh`: the sweep before a full cycle leaves everything white and young, or the cycle would take
  garbage for marked.
- `Grays`: there is a set of allocated objects closed under `refs` that holds the gray list and all stacks, also
  those of unreachable threads. Marking stays inside it, so the gray list never names freed memory.
- `Doomed`: what was unreachable at the beginning of a full cycle (`doomed`) is pointed to by nobody else, is never
  marked, never becomes old, and is ahead of the sweep until it is freed. When the sweeps are over nothing
  is ahead of them.

`FullCycleCollects` and `GrayListSound` follow. Symbols are left out of it: their chains are swept by other code.

**The symbol table and the sweep of its chains** (`GCFullInv`, `GCProofs`). `SInv` says where each symbol is: in the chain of its
hash, in one chain only and there once, and that behind an old symbol of a chain all are old (`Symbols`). What makes it hard is that the sweep stops between two chains, the program then asks for symbols,
old, new and dying ones, and the table may double, which puts every chain together anew, in another order (`sym_resize_tbl`); the
table is halved at the end of a cycle. `Counts` says that what the table counts as used is what is in it, and bounds the
number of chains the sweep has passed. Sweeping, resizing and adding are each a lemma about sets and orders of sequences
(`SymbolsSweepStep`, `SymbolsResized`, `SymbolsAdded`); `AmongIs` and `SlotIs` say what the recursive `among` and the flattened slots of a resize are.
`OldBehindOld` and `ChainsHoldAll` follow from it with `FInv`, and `TypeIsKept` needs all three invariants, as a sweep
position is a number inside a list.

**The stack is never overrun** (`StacksInv`, `StacksProofs`). `WithinStack` speaks of the current frame; when a method
returns, its caller becomes current again and its results are copied to where the caller wanted them. So
`SInv` has one condition on every frame (`FrameOK`: it ends below the limit, its results find room,
byte code has room for `MaxStack` registers) and one on every two neighbours (`Nested`: the called frame lies above what
its caller keeps, and byte code asks for no more results than it has registers for). It is preserved because the stack never
becomes smaller, and because room is asked for before anything is pushed; a failed `stkGrow` leaves the frame as it was.
The lemmas follow the code: what `needMoreLocal`, `stkGrow`, `callMorCPrep`, `yielderFrame`,
`tailcallMorCPrep` and `OpReturn`'s copying do to a thread that fits, then each
operation. `Regular` rules out `"short"`, `"full"` and `"low"`; `"rest"` may happen. The bounds `MaxFrames`
and `MaxLive` remain in the actions' guards as numbers of any size.

**Methods find their values** (`FramesProofs`). `CallsKeepFrames`: every operation on the stack is, seen from the methods, the operation of
`Frames` that `did` names, with the same operands, or none. `SInv` gives that frames do not overlap; from there on each operation needs what it writes,
position by position, compared with what `Frames` says of sequences of values. One group of lemmas says what a slice of the
stack is after a push, a pop, a copy or a growth (`upTo`), one what becomes of the values of a frame that is not the current
one (nothing), and one per way to call or return how parameters and results are padded, dropped and moved. `"rest"` is the one element of `Irregular` that is ruled
out in addition, as a yield method then loses values.

**Resources are loaded once** (`LoaderInv`, `LoaderProofs`). A counter that is 1 does not say that it will not
become 2. `IInv` says of every resource in which stage it is, and that it is in one only (`Owned`, `Once`); which
activations can call which (`Shape`), so that a scan never begins inside a scan; and what the linker has already seen
(`Linked`: everything before `next` is known, and has its value if nothing was counted). `NoneForgotten` needs
the hardest part, `Remembered`: a method that was once found complete will be looked at by a scan that is still
going on. For a method that could not be linked while it was decoded there is, in `Waits`, a set of
resources each of which waits for the program, for an activation below or for another of the set: none of them
can get its value before that activation returns.

**The interpreter's loop knows its registers** (`CallsProofs`). `NativeInv` says that the stack a loop works on has not moved
since it took its address, unless it takes it anew when it goes on (`after`). It holds under `Regular`, which lets the main
stack move only while no loop works on it.

**Results arrive where they are waited for** (`CallsInv`, `CallsProofs`). What runs next is found in two
ways. Byte code that returns goes on with the frame that its thread, or the thread in `yieldTo`, has on top now; a method
in C goes on because its `methodRunC` is the last on the native stack. `RetToCaller` is not inductive because it does not know that
both find the same frame: a C method that returns with another one's frame on top would pop the wrong one. `CInv` says it, with two
witnesses:

- `w` is the path of the threads that resumed each other, from the main one to the one that runs (`Path`). The first
  frame of each is what the thread was made with, the others are calls, and only threads on the path
  have others (`Stacked`). Each frame's `retTo` is the frame below it in its thread, or the last frame of
  the thread before it on the path (`Returns`).
- `q` maps the activations of C methods, which are on the native stack, to the positions of C frames on the path: in
  the same order, all of them, and each in its own thread (`Matched`). No loop calls a loop; between two neighbours
  (`Called`) a C method that calls a C method is the frame below it, and so is the byte code of a loop that calls
  one, unless the loop takes its frame anew when the call is over (`"goto"`). The last activation executes the last frame (`AtTop`).

That `CInv` is preserved takes one lemma per action (`Step...`), and under them two groups: what pushing, popping and replacing
a frame, resuming a yielder and leaving it do to the frames and to the set of C positions (`PushedFrame`, `ReplacedFrame`, `LeftFrames`
and others), and what the four ways to change the native stack do to the matching (`PushLoop`, `PopLoop`, `PopCall`, `PushCall`). A loop that
returns stops exactly if the frame it returned to is in C (`Continue`): then that is the
C method below it, because nothing between can be one.

The chain itself is a recursive function followed by a flattening. `SeqProofs` shows what both are by induction over
numbers, for sets of them (`Induct`, `Iterated`, `Flattened`); the length of the path is bounded by the number of threads, which is why
the module assumes `YieldersAreFinite`, as a process has finitely many. Each lemma `Step...` also says what the step did to
the chain (`Arrives`), in the terms of the steps of `Coroutines`; `CallsAreCoroutines` is the comparison of the two.
The bound `MaxChain` remains as a number of any size.

`NativeFollowsFrames` states `NativeMatches`. `IndexedPath` says that the chain is the path's frames in the order
of the positions; with that, `Matched` is the correspondence of the active methods with the frames. `NativeMatches` includes the
types, which are an invariant of their own (`TypeInv`): `MaxMoves` bounds every address.

**A table is a map** (`TableProofs`). `Inv` says that there are a length L and a map m with `Fine(tbl, L, {}, m)`:

- `Shows`: each key in use has a node of its own with the value m gives it, and m has no other key. So what `tblGet`
  finds is m (`GetIs`), and the refinement mapping is m.
- `Ranked`: each node in use has a rank, its distance from the node where its key belongs. That node has rank 0, a link
  leads to the next rank of the same place, and no two nodes of one place have one rank (`Linked`, `Apart`). This is
  what makes `tblFind` meet every key (`WalkIs`, `FindIs`): ranks are below L, so no chain is a circle. It is `OwnMainPosition`
  with the distance made explicit, which is not inductive without the ranks being unique.
- P, empty between operations: the nodes behind a key that is being removed whose keys `tblRemove` has still to add
  again. They are in use, but their links mean nothing and they have no rank.

`put` adds a node to a chain in one of three ways, each with the ranks that come of it (`RankFree`, `RankBehind`,
`RankInstead`; the last one moves a key in the way out of the middle of its own chain). `ResizeIs` puts the keys into a
longer vector: it has room for all of them, and every free node is below `lastfree` (`Bounded`), so that
`tblLastFreeNode` finds one. `Bounded` is `LastFreeBound` of section 7 and does not survive `tblRemove`; what does, and what
keeps `tblRemove` from growing the table, is `Ready`: `lastfree` is not at a pending node, or a node below it is free. So
the node just emptied, or another one, can be taken (`ReaddIs`). In a removal the key in the way always belongs where it
is, so the links of pending nodes are never followed. `RemoveIs` cuts the chain and goes through the ranks behind the cut.
`RemoveInPlace` follows with `SizeIs`: the nodes in use are as many as the keys of m, so only a removal makes them fewer.

The loops of `tblFind`, `tblResize`, `tblRemove` and of a traversal are recursive functions; what they compute is shown by
induction over sets of numbers (`LoopExists`, `LoopKeeps`, `ToldStep`). The theorems need no bound and no finite set of keys;
`MaxNodes` is any number.

**A list is a sequence** (`ArraysInv`, `ArrayProofs`). `ListsInv` is about a state, `Holds(a, s)` about an array: its
block has room for `size` slots, and those are the values s. The proof has three layers.

- What each function of `avm_array.cpp` does: from an array that holds s it makes one that holds t, where t is
  given by length and values (`SetHolds`, `AddHolds`, `RptHolds`, `DelHolds`, `InsHolds`, `SubHolds`). This is where unsigned
  positions matter: `Width` is more than twice what blocks and positions can reach (`ConstantTypes`), so none of the
  sums that the functions test for an overflow wraps around.
- What a method does (`NewDoes` to `ComparedDoes`). A method with a loop is an induction over its rounds: after k
  rounds the array holds a sequence that is written down for each k (`LoopPasses`). `total` changes by the difference of one
  block (`SumChanged`).
- That this is what `Lists` says (`NewPromised` to `ComparedPromised`). `Lists` puts sequences together out of parts; each
  part's length and values are a lemma (`PartsAre`, `ReplacedIs`, `OverwrittenIs`), and two sequences with the same length and
  values are one (`SameSeq`).

Sorting needs an invariant of its own (`SortingRight`), because other methods run between two comparisons: the values before `i`
are ascending, those below `low` are not greater than the new one, and those above `high` are not less. A comparison
moves `low` or `high`, or tells where the value belongs (`LookedIs`), and putting it there keeps the order ascending for one more
(`MoveAscends`) and is an exchange of places (`MoveShuffles`), so every value occurs as often as before
(`ShuffledCounts`). It is what makes the last step of a sort end ascending. A list with a null in it, which the
comparison cannot place, is still exchanged only.

The theorems assume `Regular`, so the kinds of calls in section 7 are left out; `MaxRoom` and `MaxPos` are of any size.

*Only model-checked.* Liveness, and everything about what a step enables, is out of the prover's reach. A module
with a `RECURSIVE` operator cannot hold a theorem: trees and types are walked recursively, so `Types`, `Parser`, `CodeGen` and `Machine`
(`AnswersRight`, `ImplementsTraits`, `MeansSource`, `RegistersFit`, `ParsedAsWritten`) are checked by TLC only. The
library's induction theorems cannot be instantiated; what a recursive function computes can still be shown by induction over a set of
numbers (`Induct`), one lemma per function. That was done for the flattened chains and slots and for the loops of tables and lists that
the theorems above need, and not for `LexIndent` (`OffsideRule`, whose reference goes over all lines of a source).

## 7. Where the source disagrees with itself

1. `v_newthread`: the collector may run inside `thrInit` while nothing the collector looks at refers to
   the new thread, and free it.
Not runs of their own, found with the constants named (add the element to `Irregular` of the module's
configuration):

- With `"moves"` in `Irregular`, `StkbegCurrent` of `Calls`: the interpreter's loop keeps `stkbeg` across
  `needMoreLocal` in `OpLoadVararg` (`avm_method.cpp:415`, where a comment warns that the "previous call may change
  the stack") and across calls of C methods, which take 20 slots of their own and may take more. When that moves the
  stack, the next instruction fails `assert(stkbeg == ci->begin)` (`:365`), or uses the freed block.
- With `"or"` in `Irregular`, `KeepsGoing` of `Machine`: an operand of an `or` that is itself an `and` has a chain of
  jumps for failure, of which only the first is given a destination (`acn_gen.cpp:244`), although `:150` has the
  function that walks the chain. With three operands or more, `if a and b and c or d` jumps to itself for ever
  when `a` holds and `b` does not.
- With `"ifs"`, `ParsedAsWritten` and `MeansSource`: after a block `if` the parser goes on to the other statements in the same turn
  (`acn_parser.cpp:904` is `if`, not `else if`). A second block `if` right behind it, as in
  `src/test/testlang.acn:14`, is taken for an expression behind which its condition stands as a clause, and its block is lost;
  a `return`, `break` or `continue` there is made with the operator of the statement before.
- With `StaleRegisters`, `StacksMarkable` of `GC`: `callMorCPrep` raises `stk_top` over registers that were not
  cleared; the stack scan then follows pointers to freed objects. `OpReturn` and `OpYield`
  (`avm_method.cpp:783`, `:832`) raise it the same way.
- With `"moves"` in `Irregular`, `RetToCaller` of `Calls`: `stkRealloc` corrects the `retTo` of a yielder's first frame
  by the distance the yielder's stack moved, although it points into its caller's, and leaves it alone when the
  caller's stack moves.
- With `1 \in FullRequests`, `MainMarked` of `GC`: `mem_gconestep` marks the root only in mode `GC_FULLMODE`.
  An emergency cycle, which a failed allocation asks for, marks nothing and fails
  `assert(!iswhite(mainthread))` (`avm_gc.cpp:259`); without assertions it would sweep whatever the stacks
  do not hold.
- `LastFreeBound` of `Table`: `tblRemove` compares `lastfree < n` where a node at `lastfree` itself has become
  free too. The node is lost until the next resize, against `avm_table.h:59`; adding and removing one
  colliding key doubles the table each time its free nodes are used up. With `<=` in `zero` the invariant
  holds in the instance of run `table`.
- No code calls it so, but `mem_gcfull(th, 0)` would write `GC_FULLMODE`, that is 0, into
  `gcnextmode`, where 0 also means undecided; the cycle it calls "the requested full/emergency cycle"
  (`avm_gc.cpp:594`) would be generational unless many objects are old.

With the other elements of `Irregular` of `Calls`, TLC finds these properties violated (no run of the project, as no
comment or test of the repository promises otherwise):

| `Irregular` | What is then allowed | Breaks |
|---|---|---|
| `"tail"` | tail calls of a yielder (`case MethodY` is missing, `avm_method.cpp:725`), of byte code in a yielder's first frame (a second loop returns into the first's frame and goes on behind `OpTailCall`, `:678`), of a yield method that is a property or in a closure (`:677`), of anything in a frame called by `each` (`:219`), and of a yield method in a yielder's inner frame (`:698`) | `RetToCaller`, `NativeMatches`, `YieldersAsleep`, `ImplementsCoroutines` |
| `"reenter"` | resuming a yielder that waits for somebody (`:282` asks only if it is done) | `RetToCaller`, `NativeMatches`, `ImplementsCoroutines` |
| `"reset"` | resetting a yielder that waits for another thread (`typ_thread.cpp:23`) | `RetToCaller`, `NativeMatches`, `ImplementsCoroutines`; a return of the yielder then switches to `yieldTo` = null |

With the elements of `Irregular` of `MCMachine`:

| `Irregular` | Methods | Breaks |
|---|---|---|
| `"or"` | also: an `or` that is an operand of an `or`, but not the last, sends its successes just behind itself, where the next operand is tested (`acn_gen.cpp:247`); `!=` of what cannot be compared jumps (`OpJNe`), so it holds as an operand of `or` and not elsewhere | `MeansSource`, `KeepsGoing` |
| `"parallel"` | `self.p, x = self.f()`: `genAssign` does not keep the registers of the values it expects, and `genDoProp` loads the first property's name into the second (`:338`) | `MeansSource` |
| `"wide"` | `x, y, z = self.a`: for the same reason the values may lie beyond the registers of the frame | `RegistersFit` |
| `"do"` | `do x, y = ...`: the register of the call grows with each value (`:858`), so the second is never told that the block begins or ends | `MeansSource` |
| `"empty"` | an empty block at the end of a method gets no return (`:938`): the interpreter runs off the end of the code | `KeepsGoing` |
| `"yield"` | `x = yield y`, with a variable: the answer goes to `y` (`:281`), and is taken from elsewhere; `return yield 1` returns nothing, and what follows a yield in an expression is loaded over its answer, as `genReturn` gives the register back (`:315`) | `MeansSource` |

With the elements of `Irregular` of `Arrays`:

| `Irregular` | Calls | Breaks |
|---|---|---|
| `"first"` | `RemoveValue` of a value at position 0, at which the loop does not look (`typ_list.cpp:140`) | `ImplementsLists` |
| `"end"` | `Fill` without a length: it is one too long (`:224`) | `ImplementsLists` |
| `"clone"` | `Clone` of anything: the new list stays empty, as `arrSub` takes replacing more values than there are for an overflow (`avm_array.cpp:223`) | `ImplementsLists` |
| `"method"` | `Sort` with a method: the list is called in its place (`typ_list.cpp:289`) | `ImplementsLists` |
| `"alias"` | `Sub` of a list into itself whose values were moved before they are copied, although `avm_array.cpp:216` allows it | `ImplementsLists` |
| `"gap"`, `"grow"` | `Insert` behind the end, and a `size` that grows: slots count as used that nothing was written to (`avm_array.cpp:209`, `:81`) | `BlocksHold`, `ImplementsLists` |
| `"before"`, `"negative"`, `"beyond"` | positions before the start, negative lengths, and a `Sub` of more than there is: unsigned numbers wrap around, and `memmove` leaves the block | `BlocksHold`, `ImplementsLists` |
| `"busy"` | a comparison that changes the list being sorted | `BlocksHold`, `ImplementsLists` |
| `"force"` | `Resize` of a block that exists: its old size is taken for 0 (`avm_array.cpp:94`), which fails the assertion `avm_memory.cpp:26` or leaves `totalbytes` wrong | `Accounted` |

`list_sub` asks for five parameters and reads its last length from a sixth (`typ_list.cpp:195`), and the comment of `list_remove`
speaks of a second position where the code takes a length; the model follows the code, with that sixth parameter passed.

With the elements of `Irregular` of `Stacks`:

| `Irregular` | What is then allowed | Breaks |
|---|---|---|
| `"short"` | calling a method that takes any number of parameters with fewer than it declares: room was asked for before nulls were added and the fixed parameters moved up (`avm_method.cpp:158` before `:161`), so its registers reach beyond its frame (with two parameters declared, in run `stacks` with `MaxLive` 7) | `WithinStack` |
| `"rest"` | calling a yield method with more parameters than it declares: only the fixed ones are copied to its stack (`:94`), and its `...` is empty | `ImplementsFrames` |
| `"full"` | a call when there is no room left: what `needMoreLocal` answers is not looked at (`:143`, `:158`) | `RoomForC`, `ImplementsFrames` |
| `"low"` | `...` with all values, after a call has left `stk_top` at the end of its results, below registers that are used since: `needMoreLocal` (`:415`) counts from there (needs a stack of 11 slots) | `WithinStack` |

For the same reason as with `"low"` the collector, which scans up to `stk_top`, does not see such registers.
Not modelled, because the code cannot go on: a C method tail called by the first method of a host (`:244` looks into a null), and a
yield method called for as many results as there are, for which `:126` counts 255 nulls down. With the code's constants
`stkGrow` never gives `STACK_ERRORSIZE`: `needMoreLocal` refuses before, which is a part of `WithinStack`.

With those of `Types`:

| `Irregular` | What is then allowed | Breaks |
|---|---|---|
| `"cycle"` | `o.Mixin(o)`, or a type change that makes a type inherit from itself: nothing looks for circles, and a lookup that finds nothing recurses without end (`avm_value.cpp:191`) | `AnswersRight` |
| `"alias"` | an index made by a type whose `traits` is the array of types of another value (`typ_index.cpp:18`): `addMixin` on one changes both (`avm_value.cpp:88`) | `ImplementsTraits`, `AnswersRight` |

An array of types is also visible to the program, as the value's `type`, and its methods can put anything into it; `getPropR` does not
ask whether an element is a table (`:205`). The parser, besides `"ifs"`, does not end on two semicolons in a
row (`acn_parser.cpp:1015` takes no token), and passes its own state for the thread at `:911`.

With those of `LexIndent`, `OffsideRule` is violated:

- `"tail"`: a source that ends, without a newline, in tabs or a comment deeper than its last line gets an empty block
  (`acn_lexer.cpp:227` comes before the end is looked at, `:248`).
- `"backslash"`: after a line that consists of a backslash and is indented less than the one before, `undentcont` is
  left over, and the semicolon of a later statement is missing (`:177`).

`OpLoadNulls` clears one register more than the generator asks for (`avm_method.cpp:396` counts from 0,
`acn_gen.cpp:81` from 1). It lies above the variables, where nothing is kept; for the locals of a method it
may be the one slot above its frame, which `RegistersFit` allows for.

## 8. Not modelled

The parts the plan lists for later; byte buffers (strings, text, numbers: no state that outlives a
call); file and zip reading (I/O and third-party code); `mem_freeAll` and `vmClose`; pacing by
`totalbytes` and the growth of vectors; finalizers. `tla/PROJECT.json` gives the status of every component.
