# A verification project for cabor

cabor is a compiler for a small language and a server that compiles on
request. The program (`src/src`, C99) keeps its state in a few places only: the
connections of the compile server, the memory counter and the log buffer that
all threads share, the containers, and the data the passes of the compiler hand
on. This directory holds TLA+ models of those places, TLC runs over small
instances, and TLAPS proofs for every instance.

## 1. The system

| component | source | state it keeps | operations |
|---|---|---|---|
| compile server | `network/network.c` | per connection a tcp handle, an idle timer, a data vector, a work request, a response, a write request; the listening handle; one libuv loop | accept, read, time out, queue work, decode, compile, respond, write, close, shut down |
| allocator | `core/memory.c` | `allocated_mem`, `alloc_lock`, two arrays of debug strings | malloc, calloc, realloc, free |
| mutex | `core/mutex.c` | a pthread mutex | lock, unlock, create, destroy |
| logger | `logging/logging.c` | the log buffer (a vector of chars), `log_buffer_lock` | push a line, dump to `CABOR_LOG.txt` |
| vector | `core/vector.c` | size, capacity, memory | push, get, resize, reserve |
| stack | `core/stack.c` | top, capacity, a vector's memory | push with growth, pop, peek |
| hash map | `core/hashmap.c` | a table of chained entries | insert with shadowing, two lookups, destroy |
| tokenizer | `language/tokenizer.c` | cursor, line, column | one scanner per token class, in a fixed order |
| parser | `language/parser.c` | cursor into the tokens, the tree built so far | one function per construct; listing and freeing a tree |
| type checker | `language/type_checker.c` | a chain of scopes, the type of each node | one function per kind of node |
| IR generation | `language/ir.c` | vectors of instructions, variables and call arguments, a chain of scopes | one function per kind of node |
| code generation | `language/codegen.c` | stack slots | one translation per instruction |
| compiler driver | `language/compiler.c` | none | the passes in order; write, assemble and link |
| file system, time, command line, asserts, tests, build | the rest | none that matters here | |

How they interact. `main` creates the allocator, then the logger, and either
runs the tests, compiles one file, or runs the server. The server's callbacks
all run on the loop thread; `on_work` runs on one of `UV_THREADPOOL_SIZE` worker
threads and there calls the whole compiler. Loop and workers share the client
structure through raw pointers, without a lock: the protocol between
`uv_queue_work` and `on_after_work` is the only thing that keeps the one from
freeing what the other uses. Every thread calls the allocator (one lock) and the
logger (another lock, inside which it calls the allocator when the buffer is
full). The compiler passes hand data on by value and by pointer: tokens to the
parser, the tree to the type checker, which writes into its nodes, and to the
IR generator, which keeps pointers into hash maps.

What is hard here, and rarely reached by the repository's tests (which run
single functions on one thread): the order of libuv's callbacks for the handles
of one connection; the idle timer against slow work; a reset peer; a second
shutdown; errors of one step after which the next steps go on; two locks taken
in one order here and perhaps in another there; updates of a shared counter;
pieces of log lines from different threads; containers at the limit of their
capacity; pointers into containers that later grow; two workers at the same
files; the result of a command that nobody looks at. `PROJECT.json` lists each at
its line ("hazards") with the properties that would see it go wrong.

What makes each component correct:

- server: whatever a worker uses stays allocated and open; a buffer outlives the
  write that reads it; every request received whole is answered; a shutdown
  ends the process's loop; nothing is left allocated and nothing crashes.
- allocator: the counter equals the memory held, whatever threads do.
- logger: lines are whole; nobody waits for ever.
- hash map: it is a map, and pointers to its entries stay valid.
- stack: it is a LIFO; and the tree search that uses it lists each node once.
- files of a request: a request that has them to itself gets its own program.
- the compiler passes: no character of a source is lost or read twice, what is
  accepted is what the grammar says, every node allocated is in the tree that
  is freed, and what the generated code does is what the tree means.

## 2. Modules

| module | models | how |
|---|---|---|
| `CaborServer` | `network.c`, `main.c:108-112` | one action per callback, peers and libuv as environment |
| `CompileService` | the promise in `network.c:24-31` | abstract specification |
| `ServerRefinement` | | `CaborServer` implements `CompileService` |
| `CaborMemory` | `memory.c`, `logging.c`, `mutex.c` | one action per lock, load, store, system call and piece of a line |
| `CaborHashMap`, `AbstractMap` | `hashmap.c` | chains as sequences; the map they implement |
| `CaborStack`, `AbstractStack` | `stack.c`, the growth of `vector.c` | memory cell by cell; the bounded LIFO it implements |
| `CaborAstList` | `parser.c:743-881` | the search over every tree, on `CaborStack` |
| `CompileFiles` | `network.c:199-265`, `filesystem.c`, gcc | one action per access of a worker to the files |
| `CaborTokenizer` | `tokenizer.c` | one operator per scanner, and the loop that runs them |
| `CaborAst` | `parser.h`, `hashmap.c` as symbol tables use it | nodes numbered in the order of their allocation; the names of a scope |
| `CaborParser` | `parser.c:19-741` | one operator per function of the recursive descent |
| `CaborTypeChecker` | `type_checker.c` | one operator per kind of node |
| `CaborIrData` | `ir.c:18-257` | variables, labels and instructions, and what an instruction does to a store |
| `CaborIr` | `ir.c:271-692` | one operator per visit function |
| `CaborCodegen` | `codegen.c` | one operator per kind of instruction; the assembler and the processor beside them |
| `CaborLanguage` | | the reference: how programs are written and spelled and what they compute |
| `CaborCompile` | `compiler.c:6-39` | the passes in order, then the intermediate code and the assembly instruction by instruction |
| `MC_*` | | values for the constants of a run |
| `ServerProofs`, `MemoryProofs`, `HashMapProofs`, `AstListProofs`, `CompileFilesProofs` | | theorems about `CaborServer` and `ServerRefinement`, and about the modules of these names |
| `SyntaxProofs`, `CodegenProofs`, `CompileProofs` | | theorems about the tokenizer and the parser, about the two generators, about `CaborCompile` |

### CaborServer

`sock`, `timer`, `job`, `write` are the states of the four libuv objects of a
connection; `data`, `request`, `response`, `shut` the fields the callbacks read;
`heap` the set of live allocations, each named by its kind and connection;
`wire` what the socket reports next; `process` and `listener` the process and
the listening handle. Each callback is one action, atomic because they all run
on one thread; `on_work` runs on another and is split where it reads its input
(`OnWorkDecode`) and writes its results (`OnWorkRespond`), so every callback may
come between. A freed pointer used, or a libuv assertion, is an explicit
`Crash` step (`AfterWorkCrashes`, `WorkCrashes`, `CloseCrashes`): a step that
*may* be taken, since the behaviour is undefined, beside the step that happens
to survive; after a crash nothing is modelled.

The bytes of a request are abstracted to what they amount to: `none`, `partial`
or one of the three commands. A command that fails to decode leaves an
uninitialised request type, which is a choice over all values.

`source` is the kind of source a compile command carries, by what becomes of memory
when `cabor_compile` has run on it. A `plain` one leaves nothing. A `spilling` one
leaves blocks: two blocks in one scope, whose second symbol table replaces the first
as `child_scope` (`type_checker.c:34-40`, in the type checker and again at `ir.c:559`), or a
call that is never closed. An `empty` one also leaves its own block of no bytes, which
`network.c:275` does not free, and what is compiled then is whatever memory holds.
A `rejected` one does not come to an end: the parser calls `exit(1)`
(`WorkExits`), or the type checker reads the NULL that the parser put for a node
(`WorkCrashes`). What the compiler leaves of one request is one block of kind
`compiler`; which kind of source leaves which symbol tables is shown by `ScopesFreed`
of `CaborCompile`.

libuv (1.50, the version `CMakeLists.txt` fetches) is modelled from how
`network.c` uses it: close callbacks come later; pending writes are called back
before the close callback; `uv_close` on a closing handle aborts; a stream that
had a read error refuses writes; `uv_run` returns when no handle and no request
is active. These definitions are marked external in `PROJECT.json`.

`Faults` names what may go wrong in the environment; a run or a theorem that
depends on a fault being absent says so.

### CaborMemory

An allocator call goes lock, load, store, unlock, system call; the counter is
read and written in two steps because `+=` is. A line of the log is pushed piece
by piece under `log_buffer_lock`; a full buffer makes the vector call `realloc`,
which takes `alloc_lock`. The debug build is modelled (the locks and the fat
pointers exist in it); a failing system allocation exits. An address is the
identity of a block; characters are pieces.

### CaborHashMap and AbstractMap

`chain[s]` is the sequence of entries of slot `s`; the hash is the constant
`Slot`, any function. `held` is a pointer a caller keeps from an insertion or an
entry lookup, so that `WriteThrough` may come at any time. A lookup that leaves
the chain is `PastTheEnd`.

### CaborStack, AbstractStack and CaborAstList

The memory of the stack is a sequence of cells of the vector's capacity, written
by index, with the vector's own `size` beside it because growing the stack
uses it. `CaborAstList` chooses any tree of `NodeCount` nodes (a node is a number
greater than its parent's, so every shape of ordered tree occurs) and follows
`cabor_get_ast_node_list_al` and `cabor_free_ast` step by step. After an overrun
nothing is modelled.

### CompileFiles

What a worker does in `on_work` between the callbacks of `CaborServer`. A file
is named for the hash of the source, and the content of a file is the set of
requests whose code is in it: none while it has been opened and not written,
more than one where writers came between each other. `listing` is
`compile_request_<hash>.s`, `program` the executable, `present` which
executables exist; `taken` is what the linking gcc has read. Opening, writing,
linking (three steps: gcc reads the listing, makes its output anew, writes it)
and loading are separate actions, since other processes run between them. The
results of both runs of gcc are ignored, as in the code: `LinkReads` goes on to
`ready` when the listing cannot be assembled, and `Load` then takes whatever is
there or ends the process. What becomes of a source on its own is the constant
`Verdict`, for any assignment. `Hash` is `cabor_hash_string_with_size` with its
comparison of an address with a size; so the files of all requests have one
name (`SharedName`), `compile_request_2166136261`.

A source may be taken by the assembler and not by the linker (`unlinked`): every listing
defines `_start` (`compiler.c:30`), and so does what gcc links by default. Whether the
gcc at hand accepts that is left to `Verdict`.

`CaborServer` keeps only the outcome of this, its `"link"` fault (`WorkExits`);
the response it sends does not depend on the program, because `on_work` always
answers with the dummy program (`network.c:253-260`).

### CaborAst, CaborTokenizer, CaborParser, CaborTypeChecker, CaborIr, CaborCodegen, CaborCompile and CaborLanguage

The passes are sequential and pure, so each function of them is an operator from
the state it is given to the state it leaves: the text and cursor for the
tokenizer; the token vector, the cursor, the node and the heap for the parser;
the types of the nodes, the innermost scope and the last type for the checker;
variables, instructions, labels and scope for the IR.

Parser, checker and IR generator are recursive in the code, and how deep they nest
is up to the source. They are modelled as recursive functions of the depth that the
process stack has room for: with `MaxDepth` calls left, a function may call those
with one call less (`below`), and with none left the end is `undefined`. The
constant is any number, so that the theorems hold for every stack. A loop of the
parser is a number of rounds (`Repeat`) that no source needs more of. None of this
needs a RECURSIVE operator, which the prover could not take.

A tree is a heap: the sequence of all nodes ever allocated, each a record of its
kind, its token's number and the numbers of its edges, so that a node has a higher
number than those below it. The types the checker writes into the nodes are a
sequence beside it. The parser state counts in `made` the nodes it has allocated
and not freed, and keeps the freed ones in the heap: that they are lost, or freed
with something still below them, is what `NoNodeLost` is about.

The checker's state has the symbol tables too, each with the number of its
`child_scope`, so that the chain which `cabor_destroy_symbol_table` follows can be compared
with what was made (`Destroyed`). `ScopesFreed` says which are lost: those of the blocks
that some later block neither contains nor is contained in. The IR generator makes and
destroys its tables by the same two functions, one for each block again.

Each state also says how the pass ended: `exited` (the
code calls `exit(1)`), `aborted` (an assertion of the debug build) or
`undefined` (a NULL token or node is used, a function ends without its return,
an array is overrun, or a function calls itself for ever on the last token).

The tokenizer model works on strings, character by character where the scanners
do. What they read follows from the order of the scanners and from
`match_operator`, which takes a run of operator characters and of the words
`or`, `and` and `not` wherever they begin, so that `order` becomes `or` and
`der` although `tokenizer.c:205` means it to be an identifier, a comment
directly behind an operator belongs to the operator, and a line comment without
its newline is the operator `//`. What it takes and then gives up it has collected
in its array all the same, which too long a run of that kind overruns. When it
gives up at the end of the text, `match_punctuation` reads the character behind it
(`Stray`); only a text in which a word operator begins next to a sign or to
another (`Crowded`) can bring it there.

`CaborCompile` is the machine around the passes: `TokenizeSource`,
`ParseTokens`, `TypeCheck`, `GenerateIr` and `GenerateAssembly` are the calls of
`cabor_compile`, which nothing stops but an end of the kinds above; a type error
does not. What the intermediate code means is said by executing it (`Step`,
`Halt`), in a store that cannot be read where it was not written. Then
`Assemble` asks whether the assembler takes the listing, and `RunStep` executes
it on registers and stack slots. `Addressable` and `Roomy` are the variables the
generator insists on finding and the arguments it has room for; a call of an
operator by its name, `unary_not()`, with fewer arguments than the operator has,
reads what happens to be in their place. A call without a value (`Known`: a division
by zero, `not` of a number that is no Bool, a print of nothing) leaves the
intermediate machine `"stuck"`.

The assembler refuses most programs with an operator: the generator emits
instructions with two operands in memory, a `setcc` line without its end
(`codegen.c:117`), and behind every operator's own code a call of a function of
that name (`codegen.c:382`). For those, `IntrinsicRight` compares what the
code of each operator leaves in the slots with what the call is meant to leave in
the store (`OperatorRight`), as the intermediate code is run, on the values that
occur: the result's slot has the value, every other variable its own. It leaves
`<` and `<=` out, which the generator exchanges (`codegen.c:349-356`), and asks
nothing where the operator has no value (`HasValue`: a division by zero, `not` of
a number that is no Bool). The processor's `idivq` divides only what `cqto` has
prepared (`AfterIdiv`): `rdx` must be the sign of `rax`.

`CaborLanguage` shares nothing with the code: it writes a tree as tokens, with
parentheses only where its own table of levels asks for them, spells the tokens
with blanks, with comments or with nothing between them where that is enough,
and evaluates the tree directly. Its programs are the part of the language the
compiler means to support: Int and Bool literals, `+ - * / %`, `== !=` of Bools, `- not`, `if` with
both branches of one type other than Unit, `while`, blocks, variables. Left out of
the programs, because the code does not support them although nothing it says
decides what they should do: `=` as an operator, `and` and `or` (no function of
that name exists behind the IR), comparisons of Ints (the checker gives them the
type Int), calls (a block's scope hides every global name), branches of type Unit
(the generator reads variable -2), a `var` whose value is used. `Trees` has those
too, to be parsed only.

## 3. Runs

| run | instance | what it shows |
|---|---|---|
| `server_faults` | 2 connections, 2 workers, any command, every fault, every kind of source | what holds anyway: buffers outlive their writes, what a return leaves allocated is exactly accounted for, the server returns drained |
| `server_live` | 2 connections, 1 worker, resets, plain and spilling sources | types; queued or running work keeps its connection, timer and blocks; no crash; every whole request is answered, a shutdown ends the loop, the server implements `CompileService` |
| `slow_work` (violation) | 2 connections, slow work | the idle timer closes a connection under its worker |
| `reset_leak` (violation) | 2 connections, resets | a refused write leaks its request and its response |
| `memory_log` | 2 threads, 1 block of 1 or 2 bytes, a log buffer of 1 piece | exact accounting, whole lines, no deadlock between the locks |
| `hash_map` | 4 names, 3 in one slot of 2, 2 values | the table is a map, keys are unique, entries stay |
| `absent_key` (violation) | the same | a lookup of an absent name walks off the chain |
| `ast_list` | every tree of 6 nodes, stack of 3 | every node is listed and freed once, the stack is a LIFO, the search ends |
| `stack_growth` (violation) | the same | growing the full stack makes no room |
| `compile` | about 1000 programs, 800 trees and 100 ill-typed trees in three spellings, 47000 token sequences, 9700 texts | what is written is read back token by token; no character of a text is lost; trees are parsed back; no token is used twice or out of order and no node is lost; the checker's type is right, and the symbol tables that are lost are those of blocks with later ones beside or around them; jumps have their labels; the intermediate code, and the assembly where the assembler takes it, print the program's value and halt |
| `compile_files` | 5 requests (two good, one refused by the assembler, one by the linker, one that ends the compiler), 2 workers, one name | a request alone at the files loads its own program whatever is left in them; the server exits only for a cause |
| `optional_else` (violation) | two trees | an if without else loses the token behind it |

Deadlock checking is off in all of them because each system really stops: the
server returns, the process exits, the map is destroyed, the list is freed.

Why the bounds are enough. Connections do not interact except through the pool,
the listening handle and the loop's exit: two of them with one worker give one
that runs and one that waits, idles or shuts down; two with two workers give two
that run at once, and a second shutdown. The theorems hold for any number. One
block and two threads suffice for every conflict on the counter, since only a thread in the
critical section conflicts with another; a log buffer of one piece grows twice
while a line is pushed, and `MaxLog` = 3 lets a second line begin behind a first.
Three colliding names put an entry at the head, in the middle and at the end of
a chain. With six nodes and a stack of three there are trees that fit exactly,
trees that leave room and trees that overrun.

In `compile` every construct stands in every place of every other construct,
one compound operand at a time, so that a mistake in how any two of them pass
the cursor, a scope, a variable or a label to each other shows; the trees have
every pair of operators of all levels, nested to the left and to the right, and
triples of one operator of each level. The token sequences are all those of
three of 21 tokens and all those of four and five of eight that nest or join;
those have most of the malformed sources too. The texts are all those of three
of 12 pieces that can be part of more than one token and all those of five of six
that begin and end comments and operators. Six odd sources call
`unary_not` and `print_int` by name with too many arguments, too few or none, divide by
zero and negate a number. `MaxToken` is 10 in the place of 64, so
that a text can have a token of the longest length, one longer and two longer.

In `compile_files` two workers share every file, and a third request comes to them
when either is done; the two refused ones may come before, beside and behind the
good ones, and the fatal one ends the process at any point of the others. A third
worker adds only more of the same conflicts, for millions of states; the theorems
hold for any number.

Named bounds: `MaxSize`, `MaxLog`, `MaxToken`, `MaxDepth` (100, more than any source of
the run needs: it is there for the sources that would nest for ever), the guard `file = <<>>` of `DumpLog` (one dump
while the file is empty, two may still race), `NodeCount`.

Fairness. libuv runs the callback of every event that stays ready, so each
connection's callbacks are weakly fair; the pool serves its queue, so the workers
together are weakly fair; peers owe nothing. `ShutdownReturns` assumes that
peers stop sending pieces, since each piece restarts the idle timer
(`network.c:336`). In `CaborMemory` a thread inside a section keeps running (weak
fairness) and a mutex given back again and again is not denied for ever (strong
fairness on the two lock steps); threads need not start anything. The search of
`CaborAstList` is one sequential program: weak fairness of its next step.
So is `CaborCompile`, where the condition is written out (`Busy`), since ENABLED
would run the whole parser for every state.

## 4. Findings

Each is a run whose single property a comment of the code states.

- `slow_work`: `on_read` leaves the idle timer running when it queues the work
  (`network.c:339`); `on_timeout` then frees the client a worker is using.
- `reset_leak`: `on_after_work` ignores the result of `uv_write`
  (`network.c:308`).
- `absent_key`: `cabor_map_get` reads `entry->key` of NULL (`hashmap.c:140`).
- `stack_growth`: `cabor_stack_push` "grows" a vector whose size is 0
  (`stack.c:28`).
- `optional_else`: `cabor_parse_if_then_else_expression` consumes the token
  behind the then-branch whether it is `else` or not (`parser.c:448`), so
  `{ if true then 1; 2 }` does not parse.

## 5. Proofs

| module | theorem | for every | argument |
|---|---|---|---|
| `ServerProofs` | `Typing`, `Invariance` | clients, commands, faults, pool size | `IInv`: how socket, timer, work and write of a connection go together (`InStep`), exactly which blocks it owns (`Owns`), and what is known of the listener and the return |
| | `BufferSafe`, `LeakBound`, `Drained` | also under every fault, every kind of source | from `IInv`, where `Owns` says which blocks each state of a request leaves; `Drained` needs `ListenerInv`: the listener closes only after a shutdown was answered |
| | `JobPinned` | without `"slow"` | `Pinned`: work in flight keeps the socket open; false when the timer can outrun the work, as `slow_work` shows |
| | `NoLeak` | without `"reset"`, `"listen"` and `"malformed"`, plain sources | `Unbroken`: no write is refused; a worker has decoded a whole command (`Whole`), so that no compilation without a source leaves blocks; with `Owns` an empty heap follows |
| | `NoCrash` | `CalmEnvironment` | work in time, accepts succeed, commands whole, sources plain or spilling, one peer may shut down |
| | `Refinement` | without `"slow"` | every action maps to an action of `CompileService` or a stutter |
| `MemoryProofs` | `CounterExclusive` | threads, blocks, sizes | the thread between load and store holds `alloc_lock`, so the value it read is current |
| | `Accounting`, `Typing` | | `MemoryInv`: a block is in at most one call (the log buffer because of `log_buffer_lock`, the others because their owner knows them), and the bytes of the live blocks are the cardinality of a set of pairs of a block and a number (`CountedBytes`), so that each step adds or takes an interval of them |
| | `WholeLines` | threads, any log | the holder of `log_buffer_lock` pushed the last piece (`TailInv`); without it the buffer ends in a newline |
| `HashMapProofs` | `Typing`, `Unique`, `Stay` | names, values, hash, size | `IInv`: types, unique keys in their slot, held entries exist |
| | `Refinement` | | with unique keys the first match is the only one, so each operation is `Put`, `Look` or `Clear` of `AbstractMap` |
| `CompileFilesProofs` | `Typing`, `Invariance` | requests, verdicts, hashes, workers | `IInv`: `Meeting`, workers at the same files have met; `Fresh`, nobody's code is in a file before it was compiled; `Whole`, a program that is there and empty is being linked; `Lone`, what a request that met nobody finds in its files at each stage |
| | `LoneCompileRight`, `ExitsForCause` | | both are read off `Lone`: a step of another worker leaves a lone request's files alone (`Undisturbed`), a step of its own moves `Straight` on |
| `AstListProofs` | `Complete`, `StackIsLifo` | every tree, every capacity | `StackInv`: until it overruns the stack was never grown; `ParentFirst`: a node comes to the stack only behind its parent, so no node is pushed twice |
| | `Typing`, `Whole` | | `WholeInv`: what is listed and what is on the stack are disjoint, and the part of the list that has been freed is gone from the heap. That the list then has every node is the smallest-counterexample form of induction: a smallest node that is not listed has a listed parent |
| | `SmallTreesFit` | trees of at most `StackCapacity` nodes | the stack holds distinct nodes only, so it never needs the growth that `stack_growth` shows to fail |
| `SyntaxProofs` | `TokensInOrder`, `TokenizerEnds` | text, token length | what each scanner stops at (`StopsAt`, `OperatorEnds`), then that one round of the loop reads one token, which begins at or behind the cursor, or none, and goes on (`ScanStep`); then all positions from the end of the text backwards, since what is read from one uses only later ones (`Tokenized`) |
| | `NoCharacterLost`, `StaysInText` | text that is not `Crowded` | the same: where the words keep away from signs no operator is ever given up, so a round skips blanks, a comment or a character foreign to the language, nothing else |
| | `ParseBuilds` | tokens, depth of the stack, edges of a node | see below |
| `CodegenProofs` | `LabelsLand` | tree, depth | `Good`: the code names only variables that were made, and each instruction writes to one that was made for it; in a tree without an if without an else also `Owing`: all labels are placed once but those that somebody above has made and not placed yet; see below |
| | `OperatorsRight` | operator but `<` and `<=`, at least as many integers as it has operands, contents of the registers | what each instruction does to the cells (`Effect`), then what the sequence of them does (`Executed`); each sequence is followed to cells that differ from the first in the result's slot only (`Puts`) |
| | `LessIsLessOrEqual` | integers | the same, with the two exchanged: what `IntrinsicRight` leaves out is wrong in this way and no other |
| | `MovesRight`, `BranchesRight` | constants, variables, labels | the same |
| | `UniqueIsNew` | IR state | justifies the hypothesis of `OperatorsRight` that the result of a call is none of its operands |
| `CompileProofs` | `PassesFit` | inputs, depth, bounds | `IInv`: what each pass hands on is what the next one takes for granted |
| | `SourceOrderHolds`, `NoNodeLostHolds`, `JumpsLandHolds` | | read off `IInv` |
| | `IntrinsicRightHolds` | | `IInv` gives `OperatorsRight` what it assumes: the operands of a call that runs are there (`Translated`), are numbers (`Numbers`), and none is the result (`Fresh`) |

How the compiler is proved about. `IInv` of `CompileProofs` says that a text has
a length until it is read, that what comes from the tokenizer is a vector of tokens,
that what comes from the parser is a sound tree, that the intermediate code names
what was made and writes to new variables (`CodeFits`) and, of a tree without a missing
else, owes no label, that what runs has been translated (`Translated`), and that the
store holds numbers of variables (`Numbers`). The step of each pass is one theorem.

- `Sound` is what is true of the heap of a parse that returns. Its parts are
  `Family` (edges lead to earlier nodes, no node is below two others, every kind has
  the number of edges its readers rely on), `Whole` (nothing that was allocated is lost,
  unless an expression was given up and NULL put in its place, or a call was),
  `Ordered` (the nodes of an operator's operands are at tokens before and behind
  its own), and that no two nodes are at one token.
- None of these can be shown for one function alone, since a function may call
  all others. `Calling(toks, below)` says of the functions one call deeper that,
  given a parser that is `Ready`, they hand back a parser that has `Grown`: its heap
  is the old one with nodes behind it, those nodes are sound among themselves and
  at tokens between the cursor then and the cursor now, and the node returned is the
  last of them or NULL. `CallsCalling` shows it of the functions that call those, one
  lemma per function of `parser.c`, and `Nesting` of every depth by the least depth
  that breaks it. A unit that a block puts behind the tokens is `InPlace` there, since
  the blocks that end earlier put theirs earlier.
- For the loops of blocks and of argument lists the invariant (`Along`) adds that
  the edges collected so far are the roots of what has grown.
- `LabelsLand` follows the same pattern with `Visiting(ast, below)`: a visit adds
  instructions behind the others, which name what was made and write to new variables,
  makes labels and, where no else is missing, places them all and leaves those
  that are owed (`Settled`, `Pays`). An if places its own three, in whichever order
  its parts leave them.

Assumptions: the named ASSUMEs of the modules (finite non-empty sets, positive
sizes, the sentinel values outside the sets they complete, that `or`, `and`
and `not` have a positive length and that no operator is taken for a name or a
number, which TLC knows and the provers, to whom a string is opaque, do not),
nothing else. Of a text the theorems ask only that it has a length
(`InputAssumption`).

`IInv` is needed because none of the properties is inductive: that nothing is
allocated at exit, for instance, says nothing of a running server; which blocks
each state of a connection owns is what every callback preserves.

Only model-checked. Liveness (`RequestAnswered`, `ShutdownReturns`,
`KeepsWholePromise`, `LogReturns`, `Terminates`): the prover has no fairness or
ENABLED. What the passes compute, as opposed to the shape of what they build:
`TokensRight`, `ParsesBack`, `TypedRight`, `CompiledRight` and `AssemblyRight`
compare with the programs as `CaborLanguage` spells and evaluates them, by
recursion over the tree, and a proof would be an induction over data on both
sides. `NothingLost` puts the characters of all tokens together, again by
recursion; its core is `NoCharacterLost`.

What recursive functions compute for every input can be proved only where it
follows from a step at a time, as `Executed` does for sequences of a known
length: the library's induction theorems take an operator as parameter, which
the installed provers cannot use. Where an induction is needed over a set (the
nodes of a tree, the length of a run, the positions of a text), a smallest
counterexample is taken instead (`SmallestNode` in `AstListProofs`, `WFMin` of the
library in `CodegenProofs` and `SyntaxProofs`).

## 6. Not modelled

- The JSON and base64 texts: the base64 of the program is computed and freed
  (`network.c:234-261`).
- The bytes behind a source, which is copied without its terminator
  (`network.c:475-479`) and compiled up to the next zero: `Verdict` is arbitrary.
- Programs on disk between two runs of the server, and the object file of the
  first gcc, which nobody reads.
- The frame of the generated `main`, which sets none up: `CaborCodegen` gives every
  slot a cell.
- The width of machine integers: the programs' values are small.
- Collisions of names in the hash maps of scopes, where a lookup of an unknown name
  may leave the chain (`absent_key`).
- Which blocks the compiler leaves behind a source, beyond the symbol tables of the
  type checker (`ScopesFreed`) and whether any node is lost (`NoNodeLost`): for the
  server they are one block.
- Partial writes: libuv calls `on_write` once, when all is written or failed.
- The two arrays of debug strings of the allocator: they influence nothing
  until they overrun.
- What the process does after undefined behaviour.
- Formatting, wording and copies to stdout.
- The typed accessors of `cabor_vector`, the clock, the assert macros, the test
  framework, the build files and the preamble of the generated assembly.

## 7. Plan

1. The memory of the compiler passes: the nodes that a failed block leaves, the tables of
   the IR generator, pointers into the vector of call arguments.
2. `CompileFiles` composed with `CaborServer`, in the place of its `WorkExits`.
3. base64 against its definition by groups of bits, if the program is ever sent.
4. Proofs: the refinement of the server with the `"slow"` fault, where a dropped
   request is allowed; of the type checker, that a node it has visited has the type
   of its kind; that `Addressable` holds of the code of every well-typed program.
