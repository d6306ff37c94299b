# TLA+ models of the new-cl-lang compiler and runtime

`new-cl-lang` is a small compiled language. The compiler (`compiler/`, Python) turns `.nc` sources
into LLVM IR; a compiled program links the C runtime `runtime/ncrt.c`, which schedules green threads
on OS worker threads, collects garbage, and implements maps, slices and strings. The modules here
model the runtime where the order of events matters, the compiler from characters to basic blocks,
and its caches; TLC checks them on small instances, and TLAPS proves the invariants of the scheduler, the
mutex, the collector, the maps, the object caches, the module loader and the loops that instantiate generics, and the
refinements of the mutex and of the map, for every value of the constants.

Source paths below are relative to `src/`. "green thread" is `nc_green_thread`, `g` for short.

## 1. Inventory

| Component | State | Operations | Interacts with |
|---|---|---|---|
| Green-thread scheduler, `runtime/ncrt.c:690-1227` | `run_head/run_tail`, `all_g_head`, `sched.{accepting, live_workers, live_g_count, cs, cv, handles}`, per green thread `state`, `rsp`, per worker `current_g` | `__nc_spawn`, `__nc_g_yield`, `__nc_g_check_yield`, `__nc_g_exit`, `worker_loop`, `__nc_scheduler_init`, `_run`, `_shutdown` | timers, mutexes, collector (`gc_root_handle`), context switch |
| Mutex, `runtime/ncrt.c:1247-1351` | `locked`, `head..tail` | `__nc_mutex_lock`, `nc_mutex_park_and_unlock`, `__nc_mutex_unlock` | run queue, `sched.cv` |
| Timers, `runtime/ncrt.c:1355-1423` | `timer_head..` ordered by deadline | `__nc_sleep`, `wake_expired_timers`, `timer_next_deadline_ms` | run queue, the workers' timed wait |
| Collector, `runtime/ncrt.c:19-231`, with `compiler/llvm_codegen.py:427-541` and `compiler/llvm_function.py` | `__nc_gc_blocks`, `__nc_gc_roots[0..root_count)`, `__nc_gc_alloc_since_collect` | alloc, collect, push/drop root, mark, rewind | every allocation of compiled code, spawn |
| Maps, `runtime/ncrt.c:495-655`, `compiler/llvm_map.py`, `compiler/llvm_loop.py` | `nc_map` header per variable, shared entries | put, get, has, delete, clear, rehash, next; header copy; `for k, v in m` | collector |
| Slices and strings, `runtime/ncrt.c:233-494` | `{ptr, len, cap}` headers, shared arrays | append, copy, clear, concatenation, UTF-8 | collector |
| Context switch, `runtime/ncrt_switch_win64.S` | saved registers of a green thread | `__nc_g_switch`, entry trampoline | scheduler |
| Module loader and alias expansion, `compiler/__init__.py` | loaded modules, import stack | load, qualify, expand aliases | parser |
| Lexer, `compiler/lexer.py` | position | numbers, words, literals with interpolation, operators | parser |
| Parser and AST, `compiler/parser.py`, `ast.py` | token position | recursive descent with lookahead and backtracking | lexer, type references |
| Type references and rules, `compiler/type_ref.py`, `type_rules.py` | none | keys and back; hashing, equality, zero, order, size | everything that compares types |
| Type checker, symbol table, `compiler/typecheck.py`, `symtab.py` | scope stack, inferred results, who is fallible, narrowed names; break, defer and handler depth | look for fallible bodies, infer results, walk bodies | type rules, generics |
| Generics, `compiler/generics.py`, `erase_generics.py` | made instances, the list of declarations that grows while it is walked | request, substitute, walk, erase | type checker, code generation |
| Code generation, `compiler/llvm_codegen.py`, `llvm_function.py`, `llvm_control_expr.py`, `llvm_loop.py` | current block, names and their slots, root mark, deferred statements, break stack | one emitter per construct | runtime ABI, LLVM |
| Object caches, `compiler/ncrt.py`, `compiler/llvm_codegen.py:2013-2102` | the shared directory of runtime objects, the module objects of a build directory, in-process memo | hash, compile to a temporary, rename, copy; write in place | gcc, other compilers |
| Standard library, `stdlib/*` | none, or a C object | sort, strconv, strings, json, fs, os, math, sync | runtime |

What is hard in it: critical sections that end *before* the context switch they belong to; unlocked
reads of a state that another worker changes; a list of all green threads that is edited without a lock; one condition variable for two kinds of waiters; a
timed wait whose limit 0 has two meanings; a process-wide root stack used by all threads; map
headers that are copied while their entries are shared, one of them unknown to the collector. In the compiler: a language without statement
ends; types compared by their text; a walk over a list that grows by walking; code for deferred statements that
is copied to every exit, with the names of that exit; slots whose names outlive their blocks; functions whose results are inferred in the
midst of another function. `PROJECT.json` lists every such point with its
line ("hazards") and the property that watches it, or the reason that none does.

What makes each component correct:

* scheduler: a live green thread is in exactly one place; nothing runnable waits for a wakeup that
  never comes; shutdown waits for all, terminates, and reports true deadlocks;
* mutex: exclusion, no lost handoff, first come first served;
* timers: expiry in order, and nobody sleeps past a deadline for ever;
* collector: nothing reachable is freed, everything else is, and the root array describes exactly the
  live variables;
* map: a partial function, whatever history of inserts, deletions and growth lies behind the table;
* object caches: an object that is visible is whole and belongs to its key, with any number of compilers at work, and a
  build links what its sources say;
* module loader: every module once, and a verdict that the import graph justifies;
* lexer and parser: what was written is read as it was meant;
* types: a key stands for one type, and the rules on types agree with the documented matrix on recursive structs too;
* type checker: the verdict and the results do not depend on the order of the declarations;
* generics: exactly the needed instances, each once, after finitely many rounds;
* code generation: the blocks are well formed and do what the body means, deferred statements on every way out included.

## 2. Modules

| Module | Models | State and actions |
|---|---|---|
| `SchedCore` | lists and clock of the scheduler | constant operators: expiry and insertion in the timer list, the limit of a wait |
| `WorkerPool` | worker pool, mutexes, timers, shutdown | one action per critical section, and one for each unlocked step between two of them |
| `FifoLock` | what a mutex promises | a queue of threads per mutex; its head owns it |
| `MCWorkerPool` | instance for TLC | symmetry of green threads and mutexes |
| `WorkerPoolProofs` | TLAPS | lemmas on lists and the timer list; types, exclusion and handoff of the mutexes |
| `WorkerPoolFifo` | TLAPS | the refinement of `FifoLock` |
| `WorkerPoolSafety` | TLAPS | places, wakeups and counts: the rest of the inductive invariant |
| `GcRoots` | collector and root discipline | allocation, collection, call, declaration, assignment, field store, return, spawn, first dispatch, end |
| `MCGcRoots`, `GcRootsProofs` | TLC instance; TLAPS | the inductive invariant of the root discipline, soundness and completeness |
| `AbstractMap` | what `map[K,V]` promises | a function from keys to values |
| `NcMap` | open-addressing table, copied headers, loops | put, delete, clear, literal, copy, loop, the collection that frees a loop's entries |
| `MCNcMap` | instance for TLC | a hash with collisions, wrap-around and a split on growth |
| `NcMapProofs` | TLAPS | probing, growth, the inductive invariant, the refinement of `AbstractMap` |
| `BuildCache` | the cache of runtime objects that all compilers share, and the module objects of `build --keep-objs` | one action per system call that another compiler could come between; edits, kills, failures of gcc, deletions |
| `MCBuildCache`, `BuildCacheProofs` | TLC instance; TLAPS | symmetry of compilers and versions; the inductive invariant of the caches |
| `ModuleLoader` | the walk over the imports | one action per turn of the loop in `load`, by kind of import, and its return |
| `ModuleLoaderProofs` | TLAPS | the inductive invariant of the walk; the verdict; the progress of each step |
| `Lexer` | `lex` and what it calls | recursive operators on sequences of characters; `Munches`, `ReadsBack` say what tokens should be |
| `Parser` | the parser's methods | a rule for each construct, chosen by the code's lookahead; one recursive reader of rules |
| `TypeRef`, `TypeRules` | `type_ref.py`, `type_rules.py` | types as records, keys as token sequences; a world of declarations |
| `Instantiation` | the loops of `monomorphize` over any declarations | what a declaration asks for is a constant operator; one action for each loop's step, one for their ends |
| `InstantiationProofs` | TLAPS | the inductive invariant of the loops; what they have made when they end, and how much at most |
| `Monomorphize` | `monomorphize`, erasure and descriptors | one action for each walked declaration and for the ends of the loops |
| `Emit` | `emit_stmt`, `emit_expr` and the collection of closures | from a body to basic blocks |
| `Checker` | `infer_types` with the symbol table | the checker's variables as a record that each construct takes and returns |
| `Meaning` | the checker's scopes in `Emit`'s bodies; LLVM's verifier and execution (external); what a body means | the reference for `Emit` |
| `MCFrontEnd` | instance for TLC: the compiler's parts side by side | import lists, sources, trees, types, worlds, generic programs, declarations, bodies |

### WorkerPool

A worker is a program counter `wpc[w]`:

    loop      holds sched.cs in worker_loop, before its wait or pop
    wait      SCHED_WAIT (unlimited)          timedwait  SleepConditionVariableCS with a limit
    run       executes the code of wcur[w]    switch     wcur[w] is queued, its context not yet saved
    after     back in worker_loop, about to read g->state
    finish    in g_finish_dead                free       in __nc_g_free, walking all_g_head
    exited    the worker thread returned

`main` is `mpc`: user code, `drain` and `drainwait` inside `__nc_scheduler_shutdown`, `join`, `done`.
Everything the code does while it holds `sched.cs`, or a mutex's internal lock, is one action; the
lock order is mutex before `sched.cs`, never the reverse. `Yield`, `Sleep` and `LockPark` end in pc
`switch`, and only `SwitchOut` saves the context: in between another worker may `Dispatch` the same
green thread, which is recorded as `fatal = "resume_unsaved"` because the outcome is undefined. A
behaviour ends at `fatal`; what the process does after undefined behaviour is not described.
`AfterSwitch` reads `gstate` of a green thread that may by then run, sleep, have died or have been freed. `wcur[w]` is the local `g` of an
iteration of `worker_loop`, and NULL outside it.

`allG` is the list from `all_g_head`, which no lock protects. A spawn is two steps: `AllocG` (`__nc_g_alloc` loads the head) and `SpawnG` (it
stores the new head, then `sched.cs` guards the count and the run queue); main and every worker may be between the two, `fresh[t]`. A removal lasts
from the end of `g_finish_dead`, pc `free`, to the end of `__nc_g_free`, which is a little longer than the walk. Two edits that last at the same
time are a data race: `overlapped` becomes TRUE, and from then on the model does not say what the list holds (`allG` is empty), and each later
walk may read a green thread that was freed (`fatal = "use_after_free"`) or not.

Time: a deadline is the number of clock units left, which stops at 0. `Tick` is enabled when something
counts down. `Wait` may see the clock advance by one unit between the two readings of it that
`wake_expired_timers` and `timer_next_deadline_ms` make; this is the only place where the code reads
the clock twice and the difference matters. `GetTickCount64` moves in steps far longer than a
critical section, so at most one step is allowed there.

Four variables are ghosts: `holds[t]`, the mutexes whose `__nc_mutex_lock` has returned to `t`; `parkedOn[t]`; `overlapped`; and `overtaken`, that
a green thread was dispatched before the worker it ran on had left it (`Leaving`), which is the other origin of races. The only assumption about user code is that a thread unlocks what it holds; it may lock
a mutex it holds already, sleep or end while it holds one.

### GcRoots

A slot is the address of a managed variable, a block has one pointer field, and the conservative scan of
the code is the reachability closure over fields. `Declare` pushes the slot *before* the variable has its
value, as `emit_stmt` does, and leaves any old value of that piece of stack in it. Values of unfinished
expressions are `temps`; `MaxTemps <= 1` is a program without an expression that holds one block while it
allocates another. Arguments are temporaries of the caller that the callee takes into its parameters. An
allocation counts as one unit toward the threshold. `Spawn` roots `&g->entry_arg`; `Start` is the prologue of the
closure; `Finish` is `g_finish_dead`. A store through a dangling pointer is not followed: `Sound` is false by then.

Two conditions separate what the collector guarantees from what it does not. `NoneSpawned`: no green thread
was spawned yet, so one thread uses the root array. `OneThread`: besides, `MaxTemps <= 1`. They are premises of
`RootsExact`, `CollectsGarbage` and `SoundAlone`; `gc_spawn_env` shows what happens without the first.

### NcMap

A table is a function from `0..cap-1` to entries; `hdr[v]` is the header of variable `v`. Scans are
the least index at which the code's loop stops. Hash values come from the constant `Hash`. Tables that
nothing refers to are dropped at once, which loses nothing: an address is only compared for identity, and that is
also why the address of a new table is any free one. The ghost `shared` holds the tables that two headers have
referred to.

The copy of the header that a loop walks, `iter`, is no root (`__nc_map_iter` gets no root slot). While it is the only one that refers to its entries,
`Collect`, an allocation in the loop's body, may free them: `iter.tab` becomes `NoTable`, and `VisitFreed` goes on over what may be anything. So what
is `InUse` is what variables refer to (`Rooted`), and the loop's entries for as long as no collection has come by. The ghost `parted` holds the
variables that have been off the loop's entries since it began; `LoopCovers` promises each key once while the entries live, and that they are freed
only if all variables have parted.

`AbstractMap` says what may be seen through aliases: an operation changes one key, of the variable
it is applied to and perhaps of variables that were equal to it. A put that a full shared table drops is a step that changes
nothing there.

`MapAssumption` has `InitCap >= 4` (the code's is 16). It is needed, and the proof shows for what: a table of 1, 2 or 3 entries is not
above the load factor of 0.70 with all of its entries but one in use, so a put could take the last empty one.

### BuildCache

A compiler goes through `module`, `modwrite` (the two halves of an in-place write), then for each part `hash` (file by
file), `lookup`, `gcc`, `write`, `check`, `publish`, `copy`, `copying`, and `link`. `lookup` and `check` are the two
`os.path.exists` of `_cached_ncrt_obj`, and every other compiler may act between either of them and what follows from it.
`OpenBlocks` says that a file somebody has open can be neither replaced nor deleted, as on Windows, the only target whose switch
exists: then a build can fail because another one is just copying the object that both made (`PublishBlocked`). gcc
takes its input in one step. A build has a number, and its temporaries are named by it, as by the process in the code: `started` counts the
builds, `process[c]` is the one of `c`. `troubles` bounds what the environment does, and the ghost `met` says in which ways it has interfered.
More ghosts: `raced` and `disturbed`, compilers during whose work a source was edited; `poisoned`, the entries that
a compiler which raced has published; `misled`, the parts that a compiler copied from such an entry; `abandoned`, the temporaries of builds that
were killed or could not replace an open object. Such an entry outlives the race: when the edit is undone, the key comes back, and the object
under it is of the other version. `PublishedFaithful` and `BuildExact` say that nothing else can make an object wrong.

### ModuleLoader

`frames` is the recursion of `load`, `loaded` and the stack hold names, a module is a directory. A name of the standard library is
looked up in the library even when the entry directory is called the same, so that two directories may have one name; that the
compiler then reports a cycle is the exception in `VerdictExact`. Parsing, and the errors of it, are left out.

### Lexer and Parser

Characters are one-character strings, so a source is a sequence of them; a token is a string of its own in `Parser`, where names and
literals are constants. Trees keep all their tokens as leaves: the text of a tree is its leaves, and the source's AST is the tree
without its punctuation. `PartRule`, `StatementRule`, ... say which items a construct is made of at a position, with
exactly the lookahead of the code (`BeginsFields`, `AfterBracket`, `ListedComma`), and `Parse` reads them; the two places
where the code tries and goes back are `Tried` and `PostfixRule`'s `types`. `ReadsAsMeant` is the property of a
language without statement ends: a text is read as the tree it was written for *if and only if* no statement swallows the next and no
header takes the brace of its block. The exceptions are spelled out (`Swallows`, `TakesBrace`), so a change of the lookahead in
either direction breaks it.

`Lexer!ReadsBack` spells parts into a literal and asks for the same parts back. Its premise `DeepQuote` is the one case that fails: a
quote inside a string inside an expression inside a string (`lexer.py:158`).

### TypeRef and TypeRules

Types are compared by key everywhere in the compiler, so `KeysFaithful` is about identity: two types with one key are the same. The
exception is the place of the final `err` in functions that return functions, `Outermost`. `RulesExact` compares the recursive checks,
which share a set of seen types, with the least set of parts of a type and the matrix in `docs/generics.md`; an `__lt__` makes a struct ordered only
if it takes one argument of that struct and gives `bool` or states no result. `SizedExact` says which types have a size.

### Instantiation and Monomorphize

`Instantiation` is the three loops of `generics.py:388-402` and nothing else: a declaration is what it asks for (`Asks`) and what the
defaults that its calls omit ask for (`Omits`). `generated` grows while it is walked; the last loop walks `ordinary + generated`, a copy, so it stops
at `limit`; and a round that has added something is followed by another. `Request` leaves open in which order a declaration's new instances are
appended.

In `Monomorphize`, `ordinary` and `generated` hold declarations, which the walk rewrites; an instance carries the `args` it was requested with. A
declaration is reduced to the types it mentions, the uses of its body and those of its parameters' defaults. `Closure` is the least set
of instances a program needs, stated in the types of the source and without names; `InstancesExact` says the walk makes these and no
others. Its premises are `Collides`, the mangling that drops `*`, `?` and `[]`, and `LeftOut`, a default that only a call in another default omits:
no loop gets to such a call. `ImplementsInstantiation` maps each instance to the request it was made for. The code rewrites copies, looks functions up by
rewritten names and asks for defaults of instances; the refinement says that it finds just what the source asks for, walked by the loops of
`Instantiation` in their order, unless two instances have one name. `InstantiationEnds` has both directions: the walk goes
beyond every bound exactly if a type parameter flows back to itself in a larger type (`Expansive`); refusals are justified by
a declaration that was needed. `MaxGenerated` cuts the endless programs.

### Checker

`Checked(decls, FALSE)` is `infer_types`: the look for fallible bodies (`Direct`), the marks, a result for every function that states none
(`Resolve`), and the walk over the bodies (`Walked`). The record `c` has the variables that `infer_types` shares among its nested functions:
`scopes` (the symbol table), `ret`, `values` and `void` (the results seen so far), `callable`, `ops`, `defers`, `loops` (depths), `narrowed`,
`closures`, `resolving`; and what it writes into the tree, `given` (results) and `fallible`. Nothing happens after a refusal but that
`ok` stays FALSE. A closure whose result is inferred is walked twice, as in the code.

What makes this hard is that `Resolve` is called in the midst of another body, and that `Infer` puts back five of the variables
(`Restored`) while the others are those of the caller: its depths of defers and handlers, its narrowed names, its scopes. And the walk changes
`fallible` after it has been read. `Checked(decls, TRUE)` is the same checker without these dependences: a function is inferred by itself,
narrowing belongs to a binding, a closure's body is in no loop, and `err` and `??` are found wherever they stand. `CheckedFaithful` compares the verdicts and
the inferred results. The ways in which they may part are conditions on the text of the program:

* `Late`: a fallible function that `Direct` misses. It is refused its `err` mark, and if it states its result, those that were walked before
  it may call it with the failure unhandled (accepted wrongly) or may not handle it (refused wrongly);
* `StrayBreak`: a `break` in a closure inside a loop is accepted (`typecheck.py:1542` counts the caller's loops);
* `Rebinds`: a name declared anew where it is known not to be nil is taken for the old one (`typecheck.py:719`);
* `Leaks`: a function declared further down is inferred inside a defer, a narrowing, or under a local of the name of a function, and refused
  for it. Wrong results do not come from that, only refusals.

Types are strings of a fixed set: `i32`, `str`, `bool`, a pointer and a nullable pointer to one struct with one field, functions without parameters. Default
arguments, methods, interfaces, aggregates, arithmetic, match on values and loops over slices and maps are left out.

### Emit and Meaning

`Emit` is a function from a checked body to basic blocks of abstract instructions; the builder record is the state of the code generator:
the current block, the names' slots, the deferred bodies so far, the loop exits. Expressions are numbers, variables, a test with an
unknown answer (`ask`), an observable call (`show`), fallible calls, and all control constructs. `Meaning` has what LLVM would do (`Verified` is
its verifier: one terminator at the end of each block, definitions that dominate uses, phis that fit the predecessors; `Run` executes), the names
as the checker resolves them, and `MeaningOf`, a direct reading of the body. `CompiledFaithful` says that, for all answers, the blocks
show and return the same. It has premises, `Excused`, each at its line in the code: they are what the code generator gets wrong. They are not one
condition for many: every one is stated on the body's text, and a body outside of all of them must compile faithfully.

## 3. Runs

Passing runs (`PROJECT.json` has a line on each):

| Run | Properties | Bounds | Why they are enough |
|---|---|---|---|
| `pool_safety` | `MutualExclusion`, `HandoffExact`, `ImplementsFifoLock` on mutexes; `OnePlace`, `NoLostWakeup`, `NoStrandedWork` on lists and wakeups; `LiveCountCovers` on the count; `RacesExplained` on undefined behaviour | 2 workers, 3 green threads and main, 1 mutex, sleeps of 0 or 1 unit | two workers give every race between a push, a save and a read, and with main three threads that edit the list of all green threads; three green threads give a queue of two behind an owner; equal and different deadlines both occur |
| `pool_liveness` | `ShutdownReturns`, `DeadlockReported`, `SleeperWakes`, `RunnableRuns` | 2 workers, 2 green threads, 1 mutex, polls and a deadline of 1 unit | a poll finds the deadline passed and reports a deadlock or resets it, a wakeup before finds it pending; a green thread that yields for ever competes with another |
| `gc_roots` | `IInv`, with the types; `RootsExact`, `SoundAlone`, `CollectsGarbage`, `EnvironmentRooted` | 1 green thread, 2 blocks, 2 variables on all stacks, a call only while fewer than 2 are open (a first dispatch always), threshold 2 | a field leads from one block to the other, every second allocation collects, calls of both threads mark and rewind in every order |
| `map` | `MapInv`, with the types; `TableSound`, `ImplementsMap` | 2 variables, 3 keys, capacity 4 to 8, 2 tables | two keys collide until the table grows and separates them, one wraps around the end; a shared table gets full |
| `map_loop` | `LoopCovers` | 1 variable, 3 keys, 3 tables, a loop | the loop's body rehashes, reuses tombstones and rehashes again; the entries are collected before, in the midst of and behind the walk |
| `cache` | `IInv`, with the types; `PublishedFaithful`, `BuildExact`, `NoLeftovers`, `FailureExplained` | 2 compilers, 2 builds together, 2 versions, 2 troubles (edits, kills, gcc failures, deletions) | two compilers miss, publish and copy in every order; an edit and its undoing, or an edit and a kill or a deletion, are two troubles; the proof is for any number of them |
| `frontend` | `VerdictExact`, `LoaderInv`, `LoaderEnds` | an entry of two possible names, 2 siblings, 4 library modules, import lists of up to 2 | chains, diamonds, self-imports, cycles with and without the entry, repeated, missing and refused imports |
| | `TokensExact` | all sources of 3 chunks and of 5 short ones; literals of up to 3 parts, nested twice | every pair of tokens that could merge; operators of 1 to 3 characters; quotes and braces at each depth |
| | `TreesExact` | function bodies of one statement over operators of three levels, or of two statements | every statement before every kind of next statement, every header before its block |
| | `TypesExact` | pairs of types of depth 3 | each constructor in each other; functions that return functions |
| | `WorldsExact` | two structs with 14 types of fields, embedding, `__lt__` of 0 to 2 parameters and three results; sizes of types built from the fields' types | structs that contain each other, wrong fields before and behind what was seen; maps in maps and in slices |
| | `InstancesExact`, `ImplementsInstantiation`, `InstantiationEnds`, `ErasedCallsExact` | templates `f`, `g`, `B`, three that are erased; at most 10 instances | chains of instances through types, calls and omitted defaults, a default that omits another, growth by each constructor; three erased calls in a row |
| | `CheckedExact` | functions `f`, `g`, `h` in two orders: `f` uses `g` in 16 contexts and 8 ways to cope with a failure, `g` has 27 bodies, with and without stated results and marks, `h` 3 where `g` uses it; bodies by themselves | each function comes before and behind the one it needs; cycles, chains of two inferences, fallibility found late, each context on the way |
| | `BodiesExact` | a block statement around one or two others, or another one, behind declarations and deferred statements; 3 answers | every way out of every construct, with deferred statements before, inside and behind it |

Violation runs check what a document, a comment or a test says and the code does not do ("findings" quotes
each): `pool_unsaved_context`, `gc_spawn_env`, `cache_torn_module`, `generic_descriptor` and `defer_skipped`.

`frontend` is one run with many inputs: an initial state is a program for the loader, one for generics, or a task, which is one input of a part
without state; the task's property is due when it is done.

Deadlock is checked for the pool, the collector and maps: `Terminated` and `Done` are the only ends, and a map can always be changed.
It is not checked where the system stops: compilers that have used up their builds, and a walk that has its verdict.

The safety run of the pool is about programs that do reach races: it says that up to the moment an undefined outcome is reached the lock, the lists
and the wakeups are right, and where the undefined outcomes come from. `RacesExplained`: an unsaved context that is resumed, a green thread that is finished
or freed twice or read after its free, an abort for a count of 0, all need that some green thread was dispatched before its last worker had left it
(`overtaken`, which takes two workers) or that two edits of `all_g_head` were under way at once (`overlapped`). The second happens with one worker too:
main spawns while the worker frees. So on one worker the scheduler's outcome is defined if main spawns nothing while a green thread
is being freed. `LiveCountCovers` has the premise `~overtaken`, whatever happens to the list.

### Divergences met while modelling that have no run

The models contain these behaviours as the code has them; no property forbids them.

* `__nc_scheduler_shutdown` (`runtime/ncrt.c:1204`) reports a deadlock when the run queue and the timer list are empty for five seconds;
  `docs/concurrency.md:202` says that a running green thread rules a deadlock out.
* `timer_next_deadline_ms` (`runtime/ncrt.c:1371`) returns 0 for a deadline that has just passed and `worker_loop` takes 0 for "no
  timer"; `docs/concurrency.md:165` waits until the deadline.
* A worker returns when nothing is queued and no timer is pending (`runtime/ncrt.c:1081`); `docs/concurrency.md:181` also asks for
  `user_g_count == 0`.
* Shutdown joins the first `live_workers` handles (`runtime/ncrt.c:1213`), a count that workers which returned early have lowered; the
  comment at line 1216 says "join all workers".
* `nc_mutex_park_and_unlock` (`runtime/ncrt.c:1299`) uses `current_worker`, which is NULL on the thread that runs main;
  `docs/concurrency.md:170` has main run on a worker.
* `wake_expired_timers` (`runtime/ncrt.c:1382`) enqueues without a signal; `docs/concurrency.md:137` says that an enqueue must signal.
* `all_g_head` is edited without a lock by `__nc_g_alloc` (`runtime/ncrt.c:724`) and `__nc_g_free` (`runtime/ncrt.c:733`), on different threads even with
  one worker. Nothing but `__nc_g_free` reads the list.
* The header copy that a `for` over a map walks has no root slot (`compiler/llvm_loop.py:113`): after a rehash or an assignment in the body, a collection
  frees the entries that `__nc_map_next` goes on reading.
* `size_of` checks the key and value of a map only in a map type itself and in its value (`compiler/type_rules.py:217` passes the whole type): the type
  `[]map[f64, i32]` has a size, though `docs/generics.md` rules out `f64` as a key.
* Temporaries have no root (`runtime/ncrt.c:171`): with `MaxTemps` above 1, a block that only an unfinished expression holds can be
  freed by the allocation of the next operand.
* Two workers can finish the same green thread after the stale read of `g->state` (`runtime/ncrt.c:1072`): the live count falls twice, and
  shutdown goes on while one lives; `docs/concurrency.md:188` says the process exits only after all have.
* Each copy of a map value counts for itself (`runtime/ncrt.c:574`), so `len` of a copy is not "当前条目数" of `docs/stdlib.md:188`.
* An instance of a generic is named after its type arguments without `*`, `?` and `[]` (`compiler/generics.py:38`): a program with both
  `Box[i32]` and `Box[[]i32]` gets two structs of one name, `Collides`. Generic types inside `fn(...)` types are not
  instantiated at all (`generics.py:296`). A polymorphic recursion never ends.
* A default that only another default omits is not instantiated (`generics.py:396` looks for omitted defaults in bodies): when the one call of `f` that
  omits an argument stands in an anonymous function that is itself a parameter's default, the default of `f`'s instance keeps its uses of templates, and
  the type checker does not find their names. `design.md:150` has a default instantiated when a call omits the argument. `LeftOut`.
* An erased function returns its first parameter, whichever its body names (`erase_generics.py:88`): `second[A, B](a: A, b: B): B { b }`
  gives `a`. Its constraints are not checked (`type_rules.py:327`).
* The keys of `fn()->fn()->T err` with the inner or the outer function fallible are one text (`type_ref.py:163`).
* A function whose only `??` stands in the call of a `try`, in an interpolated string or in the condition of a loop is not found fallible before the bodies
  are walked (`typecheck.py:1667`): if it states its result, a function above it may call it without handling the failure, against `design.md:285`, by which
  every fallible call must be handled; with the mark `err` it is refused.
* The other exceptions of `Checker!CheckedFaithful`: `StrayBreak`, `Rebinds` and `Leaks`.
* What `Meaning!Excused` lists, with the line of each in the module: statements behind a return in a block with a value
  (`llvm_control_expr.py:95`), deferred bodies that use names of inner blocks (`llvm_codegen.py:787`) or leave themselves, shadowing
  in the bodies of `if` and `for` (`llvm_codegen.py:539`), assignments to the counter of a loop (`llvm_loop.py:55`), closures in error
  handlers and spawns in an `if` (`llvm_codegen.py:95`).

### Fairness

`Fairness` asks weak fairness of the steps of each worker and of shutdown, since they are OS threads
and `SleepConditionVariableCS` with a limit returns; of `Tick`, since time passes; and of `GiveUp`:
user code on a worker reaches the check at some function's entry (`__nc_g_check_yield`, inserted by `_inject_scheduler_calls`), blocks or
ends. A green thread in a loop without calls would break that, as it breaks the program. There is no
fairness for locking, unlocking or spawning: a program may hold a mutex for ever. Signals choose any waiter, and spurious
wakeups are allowed but never assumed. `ModuleLoader` is sequential: weak fairness of its next step says that the compiler goes on.

## 4. Proofs

Each theorem is of the module's specification, for every value of the constants that its one assumption allows; `Instantiation` has none. The assumptions
(`PoolAssumption`, `GcAssumption`, `MapAssumption`, `BuildAssumption`, `LoaderAssumption`) say that identifiers
are distinct, that bounds are naturals, and besides only: there is a worker; there is a version; the threshold of the collector is positive; the
initial capacity of a map is at least 4; import lists are finite sequences, the library imports only itself, and a sibling is not called
like a library or builtin module. No set of threads, keys, compilers or modules needs to be finite. The runs check the
inductive invariants of the collector, the maps, the caches and the loader under the names they have in the theorems. That of the pool repeats
the properties of its run, which follow from it, and is only proved; for `LoopInv` of `Instantiation` a run checks instead that
`Monomorphize` implements the module.

| Theorem | States | Run |
|---|---|---|
| `PoolInductive`; `MutualExclusionHolds`, `HandoffIsExact`, `InOnePlace`, `WakeupsAreKept`, `WorkIsNotStranded`, `CountCovers`, `RacesAreExplained`, `OneWorkerRacesOnTheList` | the safety invariants of the pool; with one worker, only the list's edits race | `pool_safety` |
| `FifoLockImplemented` | `WorkerPool` implements `FifoLock` | `pool_safety` |
| `GcInductive`; `RootsAreExact`, `CollectorSound`, `CollectorComplete`, `EnvironmentIsRooted` | root discipline; what a collection frees | `gc_roots` |
| `MapInductive`; `TablesAreSound`, `LoopsCover` | tables, counters and loops | `map`, `map_loop` |
| `MapImplemented` | `NcMap` implements `AbstractMap` | `map` |
| `CacheInductive`; `PublishedIsFaithful`, `BuildsAreExact`, `NothingIsLeft`, `FailuresAreExplained` | the object caches | `cache` |
| `LoaderInductive`; `VerdictIsExact`, `WalkAdvances` | the walk over the imports | `frontend` |
| `LoopsInductive`; `OnlyNeededMade`, `LeastSetMade`, `InstancesBounded` | the loops that instantiate generics | `frontend` (the refinement) |

`TypeCorrect` and `GcTypeCorrect` state the types of the pool and of the collector by themselves; `gc_roots` checks the latter as part of `IInv`.

*Pool: exclusion.* `MutualExclusion` is not inductive: whether the handoff gives the mutex to a second thread
depends on where the waiters are. `LockInv` adds: a worker that runs user code runs a green thread whose state is
running, and no two run the same (`RunnersInv`); each list contains green threads in the state
that belongs to it, once (`ListsInv`); a green thread inside `__nc_mutex_lock` does not run (`ParkedInv`); and
`HandoffExact`, which ties `locked` to the one owner; and a green thread that is being inserted in `all_g_head` is in no other place (`FreshInv`). `WorkerPoolProofs` has one lemma per action for
`LockInv /\ [Next]_vars => LockInv'`. The unlocked read in `AfterSwitch` is harmless for this invariant, and that is why it holds with
any number of workers: `g_finish_dead` and `__nc_g_free` touch no list and no mutex. The module begins with the facts on the timer list: expiry
splits the list, and insertion keeps and adds exactly what it should.

*Pool: first come, first served.* Under the refinement mapping the queue of a mutex is its owner, followed by those parked. `Acquire` on a free
mutex and `LockPark` append, `Unlock` takes the head off whether it hands over or frees; each other action leaves
owner and waiters alone, which needs `LockInv` for the unlocked steps.

*Pool: places, wakeups, counts.* Three more conjuncts make `IInv`. `PlacesInv` is the converse of `ListsInv`: who is runnable is in the run
queue, and so on, so a `push` or a state change that is forgotten loses a green thread. `AwakeInv`: no worker returns while `sched.accepting`, and main
only adds work before it clears that; this is what makes a wakeup arrive at somebody. `RaceInv` has a part for
each origin of races. `HeldInv`, until `overtaken`: a green thread is in the hands of one worker from its dispatch to its end there (`Holding`), so nobody
else finishes or frees it, `live_g_count` counts those that live or whose end has not been noted (`Counted`), and one that is queued has its context saved or
a worker about to save it. With one worker nothing is overtaken, since the worker that leaves a green thread is the one that would dispatch it. `EditsInv`, until
`overlapped`: the list holds exactly the green threads submitted and not freed, so a walk reads none that was freed.

*Collector.* `StackInv` says that the root array is the list of live variables (`RootsExact`), that the marks of the
calls are nested counts of those variables (`MarksInv`) and that no pointer held anywhere dangles
(`PointersInv`), each under its condition; the first spawn ends the conditions for good, since a status never returns to
"unborn". `CollectorSound` makes precise when the collector is right: one thread, and no temporary kept across an allocation.
`CollectorComplete` is an action property: the collection keeps exactly the closure of the live variables, since the root array holds
nothing else. `RootedInv` is the part for `EnvironmentIsRooted`: every mark taken since the spawn, by main's calls or the green thread's own,
lies above the entry of the environment. Its premise `GT = {g}` is real: with a second green thread, the rewind of one call cuts off entries
of the others.

*Maps.* `MapInv` says of each header that it is zero or describes a table, alone unless the table is shared (`HeadersInv`); of each table that it
uses a key once, and that no entry between the key's hash and its place is empty (`Chained`); of headers of unshared tables that
their counters are exact and leave an entry free (`CountsInv`); of a loop that each key that stays has one place and
was visited if the cursor is behind it, that a variable that has not parted still refers to the entries, and that once they are freed all have parted (`LoopInv`). The scans of the code are least indices, and a set of naturals has a least element
(`LeastNat`, from the well-foundedness of `<`); so `ScanFinds` and `ScanMisses` give what a lookup returns in a chained table. `ProbeOnce` and
`ProbeAll` are the arithmetic of linear probing for any capacity. The loop of `__nc_map_rehash` is a recursive function over the slots;
`RehashUnfolds` shows that it satisfies its equation and `RehashFacts`, by induction, that the new table uses the same
entries, is chained and has no tombstone. The refinement is on what variables read: `SetObserved` says what a header that is set changes for
the variable and for those that share its table, and each operation is a case of it. A put that finds no room in a
shared table is a stutter.

*Object caches.* `IInv` says, for each compiler, what it may believe at each point: that the hash it has computed is of files that have not changed, unless
it raced (`HashInv`); that its temporary is what gcc made for its key (`TmpInv`); what it has collected for the link (`OutInv`); that an object it found is still
there (`GoneInv`); and for the directories what is in them (`ModulesInv`, `PublishedFaithful`, `NoLeftovers`). A step of one compiler leaves what
the others believe alone (`LocalKept`), because temporaries are named by the build and what is published is only replaced by something whole; so each action is looked at
once, for the compiler that takes it.

*Module loader.* `LoaderInv` says that the stack is a path of imports from the entry, with each name once; that what a call has looked at is
loaded and allowed; and that what has been returned from stands behind all its imports (`HandledInv`). A verdict "done" then means that `order` contains the
whole program: it contains the entry and is closed under imports. That the program has no cycle follows from the order: each prefix is closed under
imports, so a module cannot be reached from its own imports. The other verdicts have their reason in the stack (`ReasonInv`). Names and
directories differ: two directories of one name are the exception `Homonym`. `WalkAdvances` is the safety half of `LoaderEnds`: the imports that a call has gone
past and the modules that were returned from (`Passed`) only grow, and each step adds to them or ends the walk, so with finitely many modules there is
at most one step more than imports and modules. It needs that the top of the stack is there once and not yet in `order`. That the steps are taken is fairness and stays with the run.

*Generics.* `LoopInv` says what each loop has left behind: the declarations it has passed are *served*, all that they ask for is in `generated`. Served stays
served, since `generated` only grows, but a loop has not passed what is appended behind its end. The walk of `generated` ends at the end of the list as it is then; the walk
of the defaults at `limit`, which is at least `before`, the length when the round began. So a round that added nothing has passed
everything. That nothing is superfluous needs the order of the list (`OnlyNeeded`): the first instance that a smaller closed set lacks is needed by an ordinary declaration
or by one before it, which that set has (`ClosedCovers`). The same argument bounds the list by any finite closed set (`InstancesBounded`): only a program
whose needs never close keeps the loops going. Nothing is assumed about what declarations ask for. That the code's own walk is an instance of these loops,
`ImplementsInstantiation`, is checked by the run.

Only model-checked:

* liveness, which needs fairness and `ENABLED`: `ShutdownReturns`, `DeadlockReported`, `SleeperWakes`, `RunnableRuns`, `LoaderEnds`,
  `InstantiationEnds`;
* the refinement of `Instantiation` by `Monomorphize`, `ImplementsInstantiation`;
* the compiler from characters to basic blocks (`TokensExact`, `TreesExact`, `TypesExact`, `WorldsExact`, `InstancesExact`, `ErasedCallsExact`, `CheckedExact`, `BodiesExact`):
  their modules declare recursive operators on trees or reach some, and each property compares two recursive definitions for every input.

## 5. Not modelled

`PROJECT.json` "components" gives the reason for each part. In the modelled parts: the abort of
`__nc_sleep` and `__nc_g_yield` on the OS main thread; the inline driver `__nc_scheduler_run`; allocation
failure; data races of the collector between workers (every part of it is unlocked, so with two workers in the collector nothing at
all is guaranteed); root slots of arrays and interfaces; the C stack used by marking; the build manifest. Of the compiler: source spans and
messages, methods, interfaces, default arguments and the types of aggregates and arithmetic, layout,
arithmetic (`&&` and `||` evaluate both operands, `llvm_codegen.py:1062`), memory of slots (a declaration in a loop
grows the stack, `llvm_codegen.py:420`), the renaming of top-level names by the loader.

## 6. Plan

1. Alias expansion and renaming in the loader; `InlineScheduler` on `SchedCore`: `__nc_scheduler_run`.
2. Methods, interfaces and default arguments in `Checker`.
3. Proofs: the rewinds with several green threads in `GcRoots`; a front end without recursive operators, types as functions on paths, so that
   `ImplementsInstantiation` could be a theorem too.
