# A TLA+ model of W#

W# is a small garbage-collected language: a compiler in Rust
(`src/crates/wsharp-syntax`, `-sema`, `-codegen`, `-cli`), a runtime it links
into every program (`wsharp-runtime`), and a standard library and package manager
written in W# itself. This directory models two things:

* the parts of the **runtime** in which several threads, or a long history of
  calls, decide whether the program is correct: the collector, the heap, the
  workers and their calls, and the message broker;
* the **algorithms of the compiler** whose result no single test case settles:
  reading a text, finding the files and names of a program, unification,
  coercions and constraints, overloads, monomorphisation, layout, equality, and
  the way from statements to blocks of instructions.

TLC checks each model on a small instance. For all seven models of the
runtime TLAPS proves the safety properties for every instance, refinements
included. Paths without a directory are under
`src/crates/`.

Contents: [the system](#the-system), [modules](#the-modules),
[runs](#what-the-runs-show), [fairness](#fairness), [proofs](#what-is-proved),
[disagreements](#where-the-code-and-its-comments-disagree),
[observations](#observations), [limits](#what-is-not-modelled), [plan](#plan).

## The system

### The runtime

| component | where | state | operations | hard because |
|---|---|---|---|---|
| shared flag words | `worker.rs` 489-573 | two bytes generated code reads, a count behind each, one boolean per worker | `request_safepoint`, `clear_poll`, `set_evacuating` | every worker writes them, readers take no lock |
| safe region | `worker.rs` 268-446 | `parked`, the parked frame, `pinned_depth` | `blocking`, `unpark`, `claim_parked`, `release_parked` | a system call returns while its stack is being walked |
| trace | `mark.rs` | `phase`, `tracing`, `abandon`, work lists, `cset` | `start_with_roots`, the three pauses, `collector_main`, `quiesce` | three threads may run the same pause; exit at any moment |
| counting | `gc.rs`, `header.rs` | `Buffers`, count, mark and flag bits of each header | write barrier, `on_allocation`, `collect` | concurrent with marking and with the sweep |
| heap | `heap.rs` | spaces, block states, lines, starts, each thread's buffer, statistics | `allocate`, `free`, `sweep_block`, `select_evacuation`, copies | addresses are reused; two allocators and the sweeper share blocks |
| evacuation | `evacuate.rs` | forwarding words in headers, `remembered`, `to_scan` | `ws_resolve`, `evacuate_one`, `fix_references` | program and collector copy the same object |
| workers and calls | `rpc.rs` | handles: a queue, `alive`, `serving`, the `JoinHandle`; reply channels | `ws_spawn`, `ws_rpc_call`, `ws_join`, `worker_main`, `stop_all` | shutdown against calls, joins and spawns |
| transfer | `transfer.rs` | a graph flattened to a `Wire` | `encode`, `decode` | allocates, and so may collect, half way |
| broker | `broker.rs` | topics of partitions, committed offsets, positions | topic, publish, subscribe, poll, commit, seek | consumers read ahead of what they commit, and die |
| pauses, processes, net, signals, builtins | `pause.rs`, `process.rs`, `net.rs`, `signals.rs`, `builtins.rs`, `sys/` ... | a histogram, descriptors, deadlines | library calls | the operating system's answers |
| traps, stack walk | `trap.rs`, `stackwalk.rs` | frames | the root walk | machine level |

A **worker** is a thread with a heap of its own (`README.md` 76-90). It shares with
the others only the two flag words, the handles and the broker; values cross by
being copied (`transfer`). Each worker that ever traces has a **collector
thread**, which marks, copies and sweeps beside it and asks it to stop for three
short pauses. A worker stops at a *poll* on a loop's back edge
(`emit_gc_poll`), in `ws_alloc`, or not at all while it is parked in a system
call, when the collector may run the pause for it.

### The compiler

| component | where | takes | makes | hard because |
|---|---|---|---|---|
| lexer, source map | `wsharp-syntax/src/lexer.rs`, `diag.rs` | bytes of several files | tokens, spans; a line for a span | characters of several bytes; texts that end anywhere |
| parser | `parser.rs` | tokens | declarations and diagnostics | recovery must neither stop nor loop nor lose |
| loader | `wsharp-cli/src/load.rs` | a root file | modules, each once | one file by several paths; cycles; packages |
| names | `wsharp-sema/src/infer.rs` 600-2000 | modules | a table of qualified names | re-exports of re-exports, overload sets |
| struct tree | `infer.rs` 1150-1330 | declared supertypes | a tree and its numbering | cycles; one unsigned comparison decides |
| order | `infer.rs` 2290-2480, 7325 | bodies | groups in dependency order | read off syntax, before types |
| types | `ty.rs` | equations | substitutions | trials undone; generalisation levels |
| constraints, coercions | `infer.rs` 5978-6780 | values and wanted types; waiting constraints | wrapped values; solved or refused | each looked at once, in order |
| overloads | `infer.rs` 5076-5460 | a call | a list of run-time tests | ambiguity, abstract and untyped arguments |
| statements, closures | `infer.rs`, `lower.rs` | bodies | blocks; closures | jumps out of values; captures through depths |
| monomorphisation | `mono.rs` | generic functions | copies without variables | what a copy is known by |
| layout, tables, equality | `layout.rs`, `repr.rs`, `equality.rs`, `tables.rs`, `aot.rs` | types | offsets, pointer maps, a blob, functions | several walks that must agree |
| command line, link | `wsharp-cli` | arguments | files | I/O |
| package manager, library | `ingot/*.ws`, `std/*.ws` | | | written in W# |

The passes run one after the other: `Loader` reads what `Lexer` and `Parser`
make of each file; `Names` binds what the modules declare; `StructTree`,
`InferOrder`, then for each group `TypeStore`, `Constraints`, `Dispatch`,
`Statements` and `Closures` are what inference does; `Mono`, `Layout`, `Equality`
and `Lowering` follow. `Names` is composed with `Loader` (it is given the modules
`Load` makes of a project), `Lowering` with `Statements`, `Dispatch` with
`StructTree`, and `Constraints` with `TypeStore`. The compiled program meets the
runtime in the type ids and pointer maps of `Layout`, the closures of `Closures`,
the tests of `StructTree`, and in the polls and barriers, which the runtime modules
take as steps of the program.

What makes each part correct, in a sentence each:

* flags: a worker that wants a pause is never silenced by another that does not;
* trace: at most one thread is in a pause, the program is stopped then, a request
  is up from before the phase that needs it to the end of the pause, a trace
  always ends, and an exit neither hangs nor strands a moved object;
* counting and marking: nothing reachable is freed, nothing freed is named, and
  what nobody reaches goes;
* heap: the side metadata is what one would count, and what an allocator hands out
  is clean and nobody else's;
* evacuation: the program cannot tell that anything moved, and nothing points into
  a block that is released;
* calls: a call is run at most once, nobody waits for a worker that has gone, and
  the process ends when `main` has returned, not before the workers that serve;
* broker: what is not committed is read again, and messages of a key stay in order;
* compiler: each pass computes what its reference definition says, whatever the
  input: see [the runs](#the-compiler-1).

`PROJECT.json` lists the hazards behind these, each at the line where it bites.

## The modules

| module | models | implements, or is checked against |
|---|---|---|
| `SharedFlag` | `set_shared`, one atomic operation per step | `FlagBoard` (refinement, proved) |
| `TracePhases` | one worker's trace: mutator, collector, exiting thread | -- |
| `Reclaim` | counting, barrier, marker and sweep of one heap | `ManagedHeap` (refinement, proved) |
| `Evacuation` | a trace that moves objects | `ManagedHeap` (refinement, proved) |
| `Blocks` | blocks, lines, buffers and statistics of one heap | -- |
| `Broker` | the broker, one critical section per step | -- |
| `Rpc` | spawn, call, join, message loop, exit | `Service` (refinement, proved) |
| `Lexer`, `Parser` | tokens and spans; declarations and recovery | every byte and token accounted for |
| `Loader`, `Names` | files of a program; what names mean | reachability; declarations at the end of a chain |
| `StructTree`, `Dispatch` | numbering of subtypes; overloaded calls | the ancestor relation; the most specific applicable overload |
| `TypeStore`, `Constraints` | unification; coercions and constraints | ground instances; what values a type has |
| `InferOrder`, `Mono` | groups of functions; specialised copies | reachability among uses; substitution along the path |
| `Layout`, `Equality` | objects and tables; generated `==` | bytes of each field; equality of unfolded values |
| `Statements`, `Lowering`, `Closures` | bodies, blocks of instructions, captures | an interpreter of the source |
| `...Proofs` | the theorems about the seven runtime modules | |
| `MC...` | the instances TLC checks | |

### Runtime modules

**SharedFlag.** `own`, `count` and `flag` are the per-worker booleans, the
counters and the bytes; `holder` is `SHARED_TRANSITION`. `Enter`, `Swap`,
`Count`, `Store` and `Leave` are the lines of `set_shared` in order; a reader can
look between any two of them. `FlagBoard` is what the readers are promised: a set
of requesters and a byte, updated together. The refinement maps a contribution
whose byte has not been stored yet to one not yet made.

**TracePhases.** A control-flow model: `pc` says where each of three threads
is and `ret` where a pause or a wait returns to, since `safepoint` is called from
polls, from allocation, from `gc_trace_finish`, from the collector on behalf of a
parked program, and from the exiting thread. A section under `mark.state` that
stores one word and notifies is one step. The condition variables are modelled
with the set `asleep`, so a missing notification is a thread that never runs; a
sleeper may also wake for no reason. Of the heap there remain the blocks the trace
has chosen (`chosen`, `cset`), those its own evacuation has moved something out of
(`moved`), and those put back to use in that state (`torn`). The load barrier is
compiled against one byte for the whole process (`lower.rs` 707-735), and `ws_resolve`
asks for no phase: `LoadBarrier` may therefore move an object out of a chosen block at
any time after `start_with_roots`, on account of another worker's evacuation. Those
blocks are `early` until this worker's own second pause, and `spoilt` if the trace is
dropped before. The constant `StatePinned` says
whether the thread is a worker in a method, with `worker_main`'s pin. The exit
runs `quiesce` for this worker either on its own thread, which has returned, or
on that of `main` while the worker runs on, which is what `stop_all` leaves
behind when an `init` never returns (`LeftRunning`). Some properties fail there,
as the code does; those say `LeftRunning \/ ...`, and the others hold in both.
That the poll and evacuating bytes are right is what `SharedFlag` shows, so here
they are the worker's own contribution.

**Reclaim.** The variables are those of the code: counts, mark bits and the
parity, `FLAG_LOGGED`, the lists of `Buffers` (`dec` is a bag), the marker's
list, the object it is in the middle of and the fields it has yet to read, the
blocks the sweep has yet to visit, and the thread's allocation buffer. The
program loads, forgets, allocates and stores; the barrier and the store are two
steps with no safepoint between, which the marker may step into. `gc::collect`
is `Settle`, any number of `FreeOne`, and `CollectEnds`; the sweep and the marker
run beside it. The order in which the dead are freed is left open. `doomed` and
`missed` are history variables: the garbage of the snapshot, and what a sweep left
behind in the allocator's block. An object is one line of a block, so a hole is a
set of objects; nothing is evacuated; a collection may be due at any allocation, and
a trace on top of it, which begins if none is running once the collection is over.

**Evacuation.** One trace, for a heap that `Reclaim` shows is counted rightly. An
address is an object with its place: where the trace found it, or one of the two
copies that may be made of it, one by the program's load barrier (`Resolve`) and
one by the collector (`ForwardOne`), whoever installs its forwarding word first.
`Load` takes the slow path when this worker's trace moves objects and may take it at
any other time, since another worker's evacuation arms the same byte; an object moved
while this trace still marks sets the history variable `early`.
The marker remembers slots that point into the block (`remembered`), marks a field
at a time, and scans fresh objects; the second pause moves the roots; the third
repoints roots, remembered slots and scanned objects, and releases the block. The
pinned slot of an rpc worker's state is a root, and `state` is the local variable
`worker_main` keeps beside it.

**Blocks.** `heap.lines`, `heap.state`, `heap.starts` and the counters are the side
metadata; `tlab` is each thread's allocation buffer, `bump` the position of the
copies. Whatever takes the heap lock is one step. Choosing sparse blocks, copying
out of them on two threads, releasing them, sweeping and freeing object by object
are actions; which object dies or moves is chosen freely among those the other
modules allow. An object goes to the thread's buffer if it has room, whatever its
size; if not, a large one gets memory of its own (`large` counts those) and a small
one a new buffer; copies under the lock go by size alone. A copy that loses the race to
forward is handed back, unless its header, copied after the word was installed, is
an address with the tombstone's bit in it: free then does nothing (`mistaken`), and
the copy stays (`leaked`, and `deaf` if it has a place in a block, since walks over
the block pass over it). `clean` is the set of bytes known to be zero.

**ManagedHeap** is the promise to the program: objects appear empty, change by
its stores alone, and go away only when they can no longer be reached. Both
`Reclaim` and `Evacuation` implement it, the second with addresses hidden.

**Broker.** One step per entry point; each takes the lock once. A message is its
key and its place in the topic. The program's side of the contract -- commit when
done with what was read -- is the guard of `Commit`; `Finish` is the program
being done with one message, and a consumer that dies is one that takes no more
steps. `settled` and `last` are history variables.

**Rpc.** `queue`, `alive`, `serving` and `thread` are the fields of a handle,
`asleep` the waiters of `arrived`, `reply` the one-shot channel of a call. A
thread's place in its program is `at` and its place inside the runtime is `op`;
a push and its notification are two steps, as in the code. A `JoinHandle` is
`"none"` until `ws_spawn` stores it, `"held"`, or `"taken"`. `Service` promises
that calls run one at a time, at most once, and are refused only by a worker
that has gone.

### Compiler modules

They are operators: the functions of the code, over small terms. Each ends with one
definition that says what the algorithm is for without saying how, and `MCCompile`
(with `MCTypes` and `MCBackEnd`, which only build inputs) hands each every input of
a bounded kind. A kind is a disjunct of its next-state relation.

* **Lexer** works on bytes, a character of two bytes being a lead and a trail;
  positions are spans. **Parser** writes each function of `parser.rs` as a *rule*,
  what it expects in order, and `Run` is the plumbing they share: tokens eaten,
  errors pushed once per place, nesting entered and left, recovery to the next
  statement or item.
* **Loader** canonicalises paths, follows relative, library and package imports, and
  keeps the stack of files being read. **Names** fills the table from the modules
  `Load` returns: imports, structs, aliases, globals, functions, then re-exports
  until a round settles nothing.
* **StructTree** breaks parent cycles, numbers the tree and compares numbers modulo
  2^w. **Dispatch** keeps the candidates that could apply, sorts them by
  specificity, reports ambiguity, settles open arguments, compiles each case to
  tests, and runs them.
* **TypeStore** has the trail, levels and snapshots of `ty.rs`. **Constraints** is
  `try_coerce` step by step (literal, subtype, optional, error union, narrower) and
  the waiting constraints with defaults and error-set unions.
* **InferOrder** collects what a body may depend on from every form that names
  something and takes Tarjan's components; **Mono** is the worklist with its cache
  keyed by how types are shown.
* **Layout** is sizes, alignment, slots, tags and pointer offsets, the layouts
  registered for structs, instantiations, closures and arrays, and the bytes of the
  tables as `tables.rs` writes and `aot.rs` reads them. **Equality** is the plan of
  functions and the functions.
* **Statements** is what inference does to a body (places before values, `for` to
  `while`, blocks that stand for values) and an interpreter of the source;
  **Lowering** builds blocks and runs them; **Closures** resolves names through
  frames and scopes, builds closure objects and runs the prologue that reads them.

## What the runs show

Distinct states and times are for two TLC workers on an ordinary machine.

| run | states | shows |
|---|---|---|
| `shared_flag` | 784 | count and byte agree at unlock; no announced request is silenced; refinement of `FlagBoard` |
| `trace_phases` | 427 k, 90 s | pauses exclude each other and the program; request, barrier and phase are in step; every pass finds the heap it expects; no exit of the worker's own tears a block its own evacuation has begun to empty; no wake-up is lost; traces end, unparked programs run, the exit of a worker's own thread returns |
| `reclaim` | 2.7 M, 70 s | lists name live objects, and counting and sweep stay apart; counts cover; a trace takes all the garbage of its snapshot but what sat in the allocator's block; refinement of `ManagedHeap` |
| `blocks` | 2.1 M, 90 s | metadata is what one counts by looking; holes are clean, in open blocks, one allocator each; the live count is the objects, and one more for each lost copy taken for a freed one |
| `evacuation` | 1.6 M, 90 s | as long as no other worker's evacuation makes this one's program move objects before its own second pause: while objects move, nobody holds or has logged an address in the block; once it is released nothing points there; refinement of `ManagedHeap` |
| `broker` | 986 k, 110 s | types; at least once; key order |
| `rpc` | 88 k, 6 s | nobody waits for nobody; refinement of `Service` |
| `rpc_live` | 217 k, 110 s | calls answered, joins return, the exit returns, and waits for those that serve, beside a worker whose `init` never returns |
| `compile` | 146 k, 75 s | below |

### The compiler

A step of `compile` gives one input to one pass, so its properties are properties of
steps: whatever a step hands over, the pass deals with it as they say. There is one
per algorithm.

| property | over | says |
|---|---|---|
| `TextsAreRead` | texts of up to five bytes; short runs of tokens where an expression, a statement or an item is due; programs that use every form, each with a token dropped or replaced; spans over several files | tokens are in order and without overlap, on character boundaries; what is parsed and what is reported accounts for every token; right programs report nothing; a span is found again |
| `ProjectsAreRead` | projects of up to three files, packages, several spellings of a path | what is reached is read, once, under one name, and what cannot be is reported |
| `NamesMeanOneThing` | modules with structs, functions, overloads, aliases and chains of re-exports | what is accepted: a name that means something means what its module presents under it; and in projects where no re-export can settle in parts (`NothingSettlesInParts`), all of it: the declarations at the end of its chain |
| `TreesAreSound` | all parents for three structs, and for four; statuses | the comparison of numbers is the ancestor relation, cycles broken |
| `TheMostSpecificRuns` | overload sets of two or three over three trees, scalars and abstract types, one and two arguments | an accepted call runs an overload that applies, and none only if none does; and the most specific one where the comparison the candidates are sorted by is an order on them (`IsAnOrder`) |
| `TypesAreSolved` | lists of equations over three variables, kept or undone | a most general solution when there is one, and none left behind |
| `ValuesFit`, `WhatHoldsIsAccepted` | pairs of a value and a wanted type; lists of constraints in every order | accepted values have the wanted type; of constraints whose type was decided when they were looked at, those accepted hold (but for a lookup whose result had a type before, and a comparison or transfer that meets one struct at two types) and those refused do not |
| `FunctionsAreOrdered` | three functions whose bodies name each other through every form | a function comes after what it uses, together with what uses it back |
| `CopiesFitTheirUses` | a program of five functions, generic ones used at several types, recursively, from a literal | each use gets the copy at its types, and no copy has a variable |
| `ObjectsAreTraceable` | structs below structs, instantiations, closures, arrays of every slot shape; tables with every padding | fields do not overlap, the pointer map is exactly the references, tables read back |
| `StructsCompareByValue` | heaps of two objects, cyclic ones included, with NaN, optionals, subtypes and a generic struct at two types | `==` is equality of the unfolded values, to the depth limit |
| `BodiesRunAsWritten` | each statement form inside each other; places and values that affect each other | blocks end once and do what the interpreter does, of bodies in which nothing follows a jump in a block that stands for a value, and no continue expression leaves a loop (`LeavesLast`) |
| `FunctionsSeeWhatWasThere` | literals in literals, generic or not, through definitions and overloads | a literal sees what its names meant where it was written |

The other three runs (`evac_state`, `mono_names`, `trace_daemon`) each end in a
counterexample to something a comment of the code says; see
[below](#where-the-code-and-its-comments-disagree).

### Bounds, and why they are enough

* `shared_flag`: three threads, two workers, two flags. Two threads are needed to
  overlap and a third to catch a count left wrong; two flags share the mutex and
  nothing else. The theorems remove the bound.
* `trace_phases`: two blocks to empty, the least with the collector in the middle of
  copying (one block done, one not) while the program moves objects out of the
  other. The violation runs need one.
* `reclaim`: two objects, one field each, two locals, `RcMax = 2`. Two objects
  make a list, a cycle, a self-loop, and a parent whose child dies with it; as
  there are only two addresses, every long run reuses one while the other may
  still name it. `RC_MAX` is reached when both fields and a pending increment
  meet. One block is then free, recyclable, open and full in turn. Only the
  allocator's own block is skipped by a sweep, so more blocks add only blocks it
  visits. The run uses symmetry over objects and locals, which is sound: no
  operator chooses among them, and no liveness is checked.
* `blocks`: three blocks, each a space of its own, of two lines of two granules; an
  object of one granule, or of two, which is large: it goes to a hole of its thread's
  buffer where there is one, over two lines if the hole begins in the middle of one,
  and to memory of its own otherwise. At most two objects at a time, and one lost copy
  taken for a freed one (`MaxLeaked`). A block is then refilled behind an object that
  is still there, two threads have buffers while a third block is emptied, large
  objects are copied both ways, and `MaxSpaces` is hit.
* `evacuation`: one object in the emptied block, one that stays and is the worker's
  state, one that comes into being during the trace, and one that is garbage already
  when the trace begins, for the sweep to free; two locals and one field
  (`MaxStores = 2` stores of the program). Every slot that could name the moved
  object -- a local, a field of an object already marked, of one not yet marked, of a
  fresh one, of itself, the pin -- occurs. Locals are symmetric. `evac_state` puts
  the state into the emptied block. `CONSTRAINT NobodyElseMoves` follows no behaviour
  past the step that makes `early` true, since the properties say `early \/ ...` and
  it stays true; without it there are 7.1 M states.
* `broker`: `MaxMessages = 3` in a topic of two partitions (or, asked for none,
  one), two consumers, seeks to either side of the log's start. Two messages
  of a key and one of another is the least that can be out of order. The
  two properties are proved without the bounds.
* `rpc`: main and two workers, each with everybody's handle, two calls or joins a
  thread. Two workers give a call on behalf of a call, two callers of one worker
  and two joiners of one worker. `CHECK_DEADLOCK FALSE`, because workers that
  call each other in a circle really do wait for ever.
* `rpc_live`: main, two workers that serve and a daemon. main calls `w1`, which
  calls `w2`, which main joins; the daemon calls `w1` too. `w2` is thus joined
  while it is being called, and `w1` stopped by the exit while two others call it.
  main makes two calls or joins, the others one. Nobody calls in a circle, and
  deadlock is checked.
* `compile`: `CHECK_DEADLOCK FALSE`, since a compiler that has finished stops. Each
  kind is as large as shows every branch of its algorithm: constants the code has as
  numbers are small (`MAX_DEPTH = 6`, `EQ_MAX_DEPTH = 4`, integers end at 99 where
  they are lexed) so that the limits are reached. No input is left out because the
  code does badly on it: where a property needs a condition, the condition is in the
  property, and the property without it is a definition of its own that can be tried
  (see below). There are two inputs for which that does not do, as they are one program
  and one struct and not one case among many: two structs of one name for `Mono`, the
  `mono_names` run, and a generic struct instantiated so that it cannot be compared.
  `Rough = TRUE` adds them.

Every property has a mutant in `PROJECT.json`: a plausible slip in one mapped
definition (a flag stored instead of compare-exchanged, a forgotten early
return, an unsigned comparison made signed, a trail not kept) under which TLC finds
that property violated. The mutated definitions stand above the true ones in the
modules.

## Fairness

`TracePhases`: every thread that is in the runtime goes on (weak fairness of the
collector, of the exiting thread and of the mutator inside a pause or a wait),
and a pinned decode comes to its end. W# code that runs on reaches a poll, since
`emit_gc_poll` puts one on every back edge: a poll is enabled only between
other steps of the program, so that is strong fairness of `Poll`. Nothing says that
a system call returns, that the program allocates, traces or exits. That traces
complete therefore holds because a parked program's pauses are run for it, not
because it comes back. `ExitFairSpec` strengthens the exiting thread to strong
fairness, and is used only to show that even then an exit may not return.

`Rpc`: a thread inside a runtime call, and a worker in its loop, in a method that is
not waiting, or in an init that returns, goes on. No fairness makes a program spawn,
call, join or return from `main`, and none lets a daemon's `init` return.

`Reclaim`, `Evacuation`, `Blocks` and `Broker` state no liveness: when a trace ends
is the business of `TracePhases`.

## What is proved

Checked by TLAPS, for all values of the constants, from the named assumptions of
the modules (finite sets where a cardinality is taken, the special values being
outside the sets they are used beside) and from two hypotheses that are written in
the theorems they belong to, `State \notin Cset` and `OnlyMain`: see below.

| theorem | says |
|---|---|
| `SharedFlagProofs` `TypeCorrect`, `UnlockConsistent`, `RequestsNeverSilenced` | `Spec => []TypeOK`, `[]ConsistentAtUnlock`, `[]NeverSilenced` |
| `SharedFlagProofs` `SharedFlagImplementsBoard` | `Spec => ImplementsBoard`, that is `Board!Spec` |
| `TracePhasesProofs` `OnePauseAtATime`, `RequestsArePaired` | `Spec => []PauseStopsTheWorld`, `[]RequestsMatchPauses` |
| `TracePhasesProofs` `MovesCovered`, `PassesFindTheirs` | `Spec => []MovesAreCovered`, `[]PassesFindTheirHeap` |
| `TracePhasesProofs` `NobodyMissesAWakeUp` | `Spec => []NobodySleepsThrough` |
| `ReclaimProofs` `ListsSafe`, `CountsCovered`, `EverythingReclaimed` | `Spec => []ListsAreSafe`, `[]CountsCover`, `[]TraceReclaims` |
| `ReclaimProofs` `PromiseKept` | `Spec => KeepsPromise`, that is `H!HSpec` of `ManagedHeap` |
| `EvacuationProofs` `HoldsTheMoved`, `NothingStale` | if `State \notin Cset`: `Spec => []ProgramHoldsTheMoved`, `[]NoStaleReferences`, both of which say `early \/ ...` |
| `EvacuationProofs` `HeapImplemented` | if `State \notin Cset`: `Spec => ImplementsHeap`: each step until `early` is a step of `ManagedHeap` or a stutter |
| `BlocksProofs` `MetadataStaysExact`, `HolesStayClean`, `StatsStayExact` | `Spec => []MetadataExact`, `[]HolesAreClean`, `[]StatsExact` |
| `BrokerProofs` `TypeCorrect`, `NothingLost`, `KeysInOrder` | `Spec => []TypeOK`, `[]AtLeastOnce`, `KeyOrder` |
| `RpcProofs` `TypeCorrect`, `NobodyWaitsForNobody` | `Spec => []TypeOK`, `[]Answerable` |
| `RpcProofs` `ExitWaitsForThem` | if `OnlyMain`: `Spec => []ExitWaits` |
| `RpcProofs` `RpcImplementsService` | `Spec => ImplementsService`, that is `S!SSpec` |

Each proof has one inductive invariant (`IInv`, a conjunction of named parts),
one lemma per action that says the action keeps it, and theorems that follow from
it. TLC tried each invariant on the instance of the module's run, or a smaller one,
before it was proved.

*SharedFlag.* The properties at unlock are not inductive: inside the critical
section count and contributions differ. The invariant relates them through the
program counter of the holder -- one contribution ahead of the count between the
swap and the count, equal after it, with `now` a copy of the count and the byte one
step behind -- and that the holder is alone. The cardinality lemmas (adding and
removing one contributor) are stated once. Refinement: `Store` is the step of the
board; everything before it stutters, because a pending contribution is mapped to
its old value.

*TracePhases.* `Control` says where each thread can be and where a procedure it
is in returns to; `Handshake` ties the safe-region word to those places, so that two
threads are never both serving the parked program; `PhaseFits` and `RequestFits` give
the phase and the poll request each place goes with, `HeapFits` the heap it finds. What
makes them more than a table is abandonment. An exit from another thread may take
a trace from a program that is in the middle of a pause: the pause goes on with
nobody to hand its phase to (`PauseOverrun`). The invariant admits that state and shows
what it cannot spoil; the heap is claimed only for a worker whose own thread ends
it, which is why `trace_daemon` is a finding and no contradiction. Blocks that another
worker's evacuation makes the program move something out of are accounted for as well:
they are chosen ones, the trace still marks, and the second pause takes them over into
`moved`. That an exit or an abandonment puts none of them back is not proved, as it is
false (`EarlyMovesAreNotPutBack`).
`NobodySleepsThrough` needs only the handshake of this, and is then inductive. What
a sleeper waits for comes about in a step of another thread, which either wakes
everyone asleep on `changed` or leaves the sleeper's condition false; what remains is
the exiting thread, whose `release_parked` notifies `park_changed` alone. It may
leave the collector asleep beside a parked program that could be served, and the
theorem says that it is then itself on its way back to that program. It is the
safety half of `EveryoneGoesOn`: that whoever is awake goes on is the
fairness, which stays with TLC.

*Reclaim.* Everything is said of the `Sound` objects, those that the last snapshot
reached or that came into being after it. `Apart`: the program holds nothing else,
they refer to nothing else, and no list names anything else. `Counting`: a count
that has not stuck is at least the references from Sound objects that are not
logged, with the decrements still to come; this is the coalescing barrier's
bargain, and it is not true of unreachable objects, whose fields the sweep takes away
without decrements. The marking part says that each object of the snapshot
is marked, or listed, or an unmarked step away from a listed one, a deletion
barrier's argument. Counting then frees a Sound object only at a true zero, and the sweep
frees none. `ManagedHeap` follows, as reachable objects are Sound.

*Evacuation.* There is a set of addresses (`Snapshot`) closed under reference that is
the least to have what is marked or waits to be; it is what is marked when there is
nothing left, and is kept from then on, copies joining and originals leaving (`Keep`).
Two copies of an object are told apart by the forwarding word. A copy that the word
does not name is in somebody's hands, or has had its own header overwritten by a
forwarding word before it lost (`Losers`), and nothing leads there. A slot that leads
into the block is remembered, or is in an object still to be scanned (`Noted`). `Sound`
says that references lead only where an object was found or where its word says it
now is, `Imaged` that its fields there are what the program stored last, which is the
refinement mapping. The hypothesis `State \notin Cset` is not one the code
establishes: `worker_main` keeps a second reference to its state, and `evac_state` is the
counterexample without it. So the theorems are about a worker whose state stays where it
is, and a program thread, which has none; `evacuation` checks an instance that
satisfies the hypothesis. The other condition is in the properties: until a load moves
an object, for another worker's evacuation, while this trace marks. `Invariance` is
`[](early \/ IInv)`, as nothing is claimed of the marker's work after that: it
may have passed the original, and the snapshot argument is about one place of each
object (`ImplementsHeapWhoeverMoves`).

*Blocks.* An operation takes a heap to a heap, and a step is up to a dozen of them, so
the invariant is mostly one of heaps, `Good`, and each operation has a lemma that says
what it keeps and what it changes. Objects lie within a block and apart from each
other and from the clean bytes (`Placed`); line counts and live lines are
cardinalities (`Tallied`); a block that is not in use is empty and one that can be
filled has room (`StatesFit`); an allocator's hole is clean, in an open block that
nobody else holds, and goes no further than the block does (`HolesFit`). None of these
keeps itself: opening a hole zeroes nobody's bytes because a line that is counted
empty has no object on it (`Tallied`); a fresh object overlaps no other because it
takes clean bytes, and clean bytes are nobody's (`Placed`, `HolesFit`); and a block
goes to one allocator because what is searched is Free or Recyclable while every block
in hand is Open (`HolesFit`). The live count needs the phase: a copy that won is
counted before its original is not (`Balanced`), and what has been forwarded lies in a
block that is being emptied (`CopyFits`, `PhaseFits`). A lost copy that free took for
a freed one keeps its lines, its start and its count, and stays an object in all but
the walks. Large objects need nothing but their number, except that one which fits the
buffer is placed like any other. Frees, moves and copies of a
whole set are folds over it. The partial results of a fold are a function over the
subsets (`FoldsExist`), the subsets on which it does well are a set, and proper
inclusion is well-founded, so that the induction is about sets and no operator needs
to be instantiated (`SubsetInduction`). An allocation may open a space past
`MaxSpaces`, which `Next` then does not take; since no operation gives a space back
(`Wider`), none of the heaps on the way had one too many.

*Broker.* A committed offset is safe because it was somebody's position when
nothing was in hand. So the invariant speaks of positions: whatever lies below a
consumer's position is in its hands or settled, and whatever lies below a
group's committed offset is settled. `Subscribe` starts from the second to establish
the first; `Commit` does the reverse. The order of a key's messages uses the first
part once more, with what a log is (`InOrder`): the key decides the log, and a log is
in order of publication, so the earlier message lies below the consumer's position.

*Rpc.* `Answerable` needs to know that a call is in one place only. The
invariant adds: a thread's call is in at most one queue and once, that of the
worker it is about, and only while it waits with no reply; a worker's caller
waits for it; a worker that is not alive has an empty queue of calls; a reply is
there only for a thread that is waiting. The refinement then goes step by step,
with the shutdown (`StopServing`) as `Go`, which answers all pending calls at once.
`ExitWaits` is false as soon as a worker joins a worker, or spawns one while the process
ends (`MCRpcWatch.cfg`). It is proved for programs in which only main does either
(`OnlyMain`, which `rpc_live` satisfies): then every handle that main has seen is in
the list `stop_all` goes through, and a `JoinHandle` is taken only by
main, which waits for the thread before it goes on.

Model-checked only:

* All liveness (`EveryoneGoesOn`, `EveryoneComesBack`): the prover has no rules for
  fairness and `ENABLED`.
* The compiler modules, which are recursive throughout: that a recursive
  definition computes the right thing for every input is an induction over data whose
  library theorems take an operator, which the provers do not instantiate, and in a
  module with recursive operators the SMT backend is not to be had.

## Where the code and its comments disagree

Each of these is a run that ends in a counterexample, and a finding in
`PROJECT.json` with the line it quotes.

* **`trace_daemon`** -- `stop_all` leaves a worker running whose `init` never
  returns. `quiesce` then sees its phase `MarkDone` and raises `abandon` while the
  worker, at its own safepoint, is moving its roots. The collector reverts the
  blocks afterwards, with forwarded objects in them. `abandon` says it is
  "only reachable before anything has been copied".
* **`evac_state`** -- `worker_main` keeps the state in a local variable beside the
  pinned slot. A trace that moves the state rewrites the slot; the methods go on
  being called with the variable.
* **`mono_names`** -- copies of a generic function are cached by how their types are
  printed, and two structs called `Point` print alike: the second gets the code
  made for the first.

### Further counterexamples

These are kept as configurations beside the runs, or are properties of the modules
to be tried with the constants given.

| try | fails because |
|---|---|
| `MCTraceService.cfg` (`ParkedHoldsNoRoots`) | `worker_main` keeps its state pinned while a method runs (`rpc.rs` 269), so a method that blocks parks with a runtime root, which `blocking` asserts against and which makes the collector decline to serve it |
| `MCTraceDaemonExit.cfg` (`QuiesceReturns`) | `quiesce` may wait for a worker left running for ever: its phase passes through Idle again and again, and the exiting thread looks at other moments (`gc.rs` 500) |
| `MCBroker.cfg` with `RoundRobin` | `poll` is documented as round-robin and always looks from the first partition (`broker.rs` 161, 176) |
| `MCRpcWatch.cfg` (`ExitWaits`) | a worker being joined by another worker has given its `JoinHandle` away; `stop_all` finds none and does not wait (`rpc.rs` 438) |
| `MCRpcHang.cfg` (`ExitReturns`) | a serving worker whose method calls a worker that never leaves `init` is joined by `stop_all` for ever (`rpc.rs` 481) |
| `MCBlocks.cfg` with `FreeNeverRunsAhead` | a pause run by the collector's thread counts its copies in that thread's own count, which `flush_local_counters` of the program does not publish; the original and the copy can both be taken off before: the live count passes below zero, against `gc.rs` 639 |
| `MCEvacuation.cfg` with `LosersGoBack` | a copy that took the header while it was already an address is not handed back: freeing sets a tombstone bit which the address may have set already, and then does nothing, against `evacuate.rs` 66 |
| `MCTracePhases` with one block, `Spec`, `EarlyMovesAreNotPutBack` | a load that moves an object out of a chosen block because another worker evacuates, while this trace marks; then the exit drops the trace, and `revert_evacuation` puts the block back with a forwarded object in it (`mark.rs` 505, "half-moved is not a state the heap can be left in") |
| `MCEvacuation.cfg` with `ImplementsHeapWhoeverMoves`, no `CONSTRAINT` | the same move, in a trace that goes on: a store through the original, which a local still holds, is not seen through the copy a load has returned (`mark.rs` 353-375 moves the roots only at the second pause) |
| `MCBlocks.cfg` with `CountsTheLiving` | a lost copy taken for a freed one stays in the live count for good (`heap.rs` 767), which `HeapStats` calls "What is still alive right now" |
| `MCCompile`, `Kinds = {"dispatch"}`, `AnyOrderWillDo` | candidates are sorted by a comparison that is not an order, as it is not transitive (`infer.rs` 5179, "Most specific first"): three of them may end with a less specific one first |
| `Kinds = {"equality"}`, `Rough = TRUE`, `StructsCompareByValue` | which structs compare is remembered by struct, not by instantiation (`cone_equatable`) |
| `Kinds = {"names"}`, `RoundsReachTheEnd` | a re-export of a re-export of a struct without fields settles on the type alone, before the inner one has installed the value (`infer.rs` 1490, against `tests/cases/modules/shapesinner.ws` 7) |
| `Kinds = {"file"}`, `NestingIsLimited` | forms that recurse without `enter` nest deeper than the limit its comment promises (`parser.rs` 156) |
| `Kinds = {"constraints"}`, `WhatIsAcceptedHolds` | a constraint met while its type was open is not looked at again when a later one gives it a type, against `infer.rs` 6244; a lookup whose result has another type already is not compared with it |
| `Kinds = {"body"}`, `EachBlockEndsOnce` | `orelse { return; 2 }` adds to a block that has ended (`value_block`) |

## Observations

Met while modelling, and no property is stated of them:

* A recyclable block taken by the allocator ahead of the sweep may hold garbage that
  is not marked, where `sweep_block` says that all is (`heap.rs` 841): it stays for
  the next trace. A cycle made since the last collection is a root of the trace by
  the grace given to new objects (`gc.rs` 771), so one `gc_trace` does not reclaim
  it; several tests call it twice.
* `break_parent_cycles` reports a struct that leads into a cycle as part of it.
* An argument whose type stays open is neither pinned nor tested: the call goes to
  the first candidate. `check_overloads` compares types as printed, so `f` of two
  structs with one name are duplicates.
* `first_untransferable` looks at the fields of the declared struct, not at those of
  the structs below it.
* The continue expression of a `while` is not asked whether it assigns to a place;
  `12abc` is an integer and an identifier.
* `fixup_expr` does not visit the worker expression of a call to a worker.
* `Printable` and `Transferable` are accepted of a variable that a later default
  gives a type.
* `break` in a continue expression, or in a function literal inside a loop, passes
  inference.
* An empty struct named like an import overwrites the import; a re-exported type
  overwrites the module's own function of that name; the order of two re-exports can
  decide whether a program is accepted when one is also a type; a re-export of a
  merged name may settle with half the overload set; `check_visible` takes a module
  whose path extends its own for itself; `owner_of` is asked of the path as it was
  spelled.

## What is not modelled

* **Two consumers of a group** can take its offsets back by committing in turn.
  Nothing promises otherwise; messages are then handled twice, which at-least-once
  allows. **Workers that call each other in a circle** wait for ever; nothing
  promises otherwise.
* **Memory ordering** below the level of one atomic operation: the models are
  sequentially consistent. The code's pairs are acquire/release, and the
  conditions it sleeps on are tested under the mutex under which they are set.
* **The stack walk and the stack maps**: a root is found exactly when the program
  holds it.
* **Value transfer** (`transfer.rs`) and **the pause histogram**: sequential, pure;
  the first is worth a module, see the plan.
* **I/O**: `net`, `fs`, `process`, `signals`, `sys/*`, command line and linker. What
  can go wrong there is in the answers of the operating system, which a model would
  have to make up.
* **Builtins and strings**: sequential library functions, one by one; those that
  are entry points of the collector, the workers and the broker are in the modules.
* **The whole of inference**: the algorithms it is made of are modelled one by one
  (unification, coercion, constraints, overloads, order, names, statements,
  closures), not the walk over every expression form that feeds them. An input large
  enough to make them interact is beyond enumeration.
* **Instruction selection** beyond statements, closures, dispatch and equality:
  arithmetic, strings, field access and the C interface (`ffi.rs`).
* **The package manager and the standard library**, which are W# programs.

## Plan

Built: flags, trace phases, reclaim, broker, calls; then evacuation, blocks, and the
compiler's algorithms. Next:

1. `Transfer`: encode and decode of graphs over bounded inputs against graph
   isomorphism, with a collection at any allocation of the decode.
2. `Map`, `List` (`std`), `Semver` and `PubGrub` version sets (`ingot`), as
   algorithms against reference definitions; the `ingot` store with crashes.
3. Deadlines of `process` and `net` against late completions.
