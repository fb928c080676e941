# Verification of purescript-rs

`purescript-rs` compiles PureScript to WebAssembly components. Most of it is a
sequential translator over unbounded terms; the parts that keep state, run
beside others or must survive failures are what this directory models in TLA+,
checks with TLC and proves about with TLAPS:

* the **control machine**, the closed runtime of delimited continuations that the
  backend emits into every module that uses handlers;
* the **stack budget**, the counter the backend emits into every function so that
  deep recursion ends in an exception and not in an engine trap;
* the **canonical allocator**, `cabi_realloc` of the runtime module;
* the **diagnosis run**, a parent that supervises worker processes;
* the **module graph**, the driver's walk over the modules of a program;
* the **structurer**, which turns a control-flow graph into nested Wasm.

All paths below are relative to `src/crates/`.

## 1. Inventory

| Component | State it keeps | Operations | Hard behaviour | What makes it correct |
|---|---|---|---|---|
| Control machine (`psrs-backend/src/cc/lower/control/plan/*`, `control/schema.rs`) | immutable queue nodes and contexts; mutable extents (live/closed) and one-shot owners (Pending/Running/Consumed/Cancelled); executor registers | run, perform, bind, resume, handle, return, once, cancel, owned transfer, replay helpers | guest code runs inside every `Apply`, may nest runs, carry resumptions between runs, resume twice, throw a channel exception, exhaust the stack | the machine behaves as flat one-step continuations; no pending work under a closed extent; nothing escapes its run; owners are one-shot |
| Reference interpreter (`plan/model/reference/*`) | the same, over lists | the test oracle of the plans | none (sequential) | agrees with the plans |
| Plan IR, structural and boundary checks, expansion (`plan/ir.rs`, `shape.rs`, `check/`, `boundary/`, `expand.rs`) | construction plans | static checks, emission to CC | none | emission keeps the order of a plan's operations |
| Stack budget (`psrs-backend/src/wasm/lower/budget.rs`, `structure/`, `entry.rs`, `mir/budget.rs`) | one global depth counter; a watermark local per try region | prologue check, epilogue, tail decrement, watermark save and restore, the `run` entry | exceptions skip epilogues, pass regions that do not catch, are rethrown by handlers; two emitters of control flow | counter = weight of live frames; no code runs above the budget |
| Canonical allocator (`psrs-runtime/src/allocator/*`) | the linked list of records in linear memory, the phase, the acquisition cursor | `cabi_realloc`: allocate, replace, free, initialise on first use, take pages | a record shares memory with the buffers; the replacement fails half-way; sizes wrap; growth is refused; a failed start leaves the provider busy | buffers are apart and keep their contents; no record is lost or leaked; a call that traps changes no buffer |
| Diagnosis run (`psrs-cli/src/diagnose/*`) | a worker process, its response file, the clock, bundles, the snapshot | launch, poll, kill, record, write bundles and snapshot | the answer races the poll and the deadline; either process dies between two file operations; ids of processes are reused | what is recorded is what the worker left; the snapshot is never torn by the death of a process; a hung worker hangs nobody |
| Module graph (`psrs-driver/src/program/*`, `psrs-resolve/src/resolver/program/mod.rs`) | edges, marks and open visits, resolved and checked modules, diagnostics | order, resolve, desugar, kind check, order again, type check | two walks over two graphs; modules that failed leave gaps; a failed dependency is passed over silently | cycles are reported, dependencies come first, a program is accepted exactly when nothing is wrong with it |
| Structurer (`psrs-backend/src/wasm/lower/structure/*`) | none at run time but the dispatcher's state local; a plan of regions at compile time | analyse, plan, emit, dispatch | branch depths counted apart from the blocks they name; loops that share headers, nest or have two entries; try regions across loops | the emitted code follows the graph; every graph gets code |
| Component linker (`psrs-linker/src/*`) | package graph | provider selection, closure | ambiguity | closed, unique selection |
| Layout (`psrs-syntax/src/layout.rs`) | context stack | virtual braces | parse-error rule | balanced output |
| Lexer, parser, AST, desugar, resolve, kinds, types, Core, CC, MIR, Wasm encoding, ABI tables, numbers, CLI, coverage, explorer | compile-time trees | sequential passes | none that a state machine shows | out of scope, see section 7 |

The machine's neighbours meet it in three places. *Guest code* is every closure
an executor transition applies; it runs on the same native stack and calls the
helpers `Run`, `Once`, `Cancel` and raw resume closures. *Channel exceptions*
are native Wasm exceptions that pass through the executor; the plans wrap only
two regions, the body of `Run` and the acquired callback of an owned transfer, in
a `Protect` (a catch-all that cleans up and rethrows). *The stack budget* throws from the
prologue of any instrumented function, helpers included. A rejected guard is a
Wasm trap and ends the instance. The structurer decides which functions the
dispatcher emits, which is the constant `Dispatched` of the budget. The allocator
runs in a module of its own, is called by the canonical ABI only and calls nothing
but the application's heap getter. The diagnosis worker runs the front end on
a case; the module graph is the front end's order of work.

## 2. Modules

| Module | What it is |
|---|---|
| `ControlMachine` | the machine as emitted: one action per arm of the executor and of the replay helpers, one per helper the guest calls |
| `HandlerContract` | the abstract specification: work is a flat list, scopes are a stack, a replay is one step |
| `ControlRefinement` | the refinement mapping, and the properties that need to see a queue as a list |
| `MCControlMachine` + three cfgs | small program texts and bounds |
| `ControlMachineProofs` | types, owners and roots: `TypeCorrect`, `OwnersCorrect`, `OwnerLifeCorrect`, `RootsCorrect`; queues and contexts as lists: `CapturesExpire`, `OutstandingCorrect`, `FlatLeft` |
| `ControlRefinementProofs` | the machine implements the contract: `MachineImplementsContract` |
| `StackProgram` | what the budget needs to know of a lowered program: weights, try regions, clauses, and where an exception lands |
| `StackContract` | the abstract specification: the height of the stack is known, a call that does not fit raises exhaustion, an exception is one jump |
| `NativeBudget` | the emitted code: counter, checks, watermarks and the entry, over the engine's frames and unwinding |
| `MCNativeBudget` + four cfgs | a small program with and without a dispatched function |
| `NativeBudgetProofs` | the counter, the watermarks, the budget, and that `NativeBudget` implements `StackContract` |
| `StackLemmas` | sequences used as stacks, for the proof modules |
| `CanonicalAllocator` | `cabi_realloc`: one action per way a call ends, and a client that writes its buffers |
| `AllocatorContract` | the abstract specification: a set of buffers with their contents |
| `MCCanonicalAllocator` + cfg | a wasm32 of 32 cells |
| `CanonicalAllocatorProofs` | type invariant, registry, disjointness, segments, phase, alignment and the refinement |
| `DiagnoseRun` + `MCDiagnoseRun.cfg` | the parent, the worker, their files and the clock |
| `DiagnoseRunProofs` | the type invariant and the three safety invariants |
| `ModuleGraph`, `MCModuleGraph` + cfg | the walk over the modules, stage by stage; all small graphs |
| `ModuleGraphProofs` | cycles, order, verdict, skipped modules and instance scopes |
| `Structurer`, `MCStructurer` + two cfgs | verification, analysis, plan, emission, and the Wasm machine that runs the result; small graphs with and without try regions |
| `StructurerProofs` | the analysis, the plan, the code and its execution: `CodeFollowsGraphHolds`, `ReducibleIsStructuredHolds`, `PlanAcceptedAlways`, `RegionsNestAlways`, `DominatorsFacts` |

### How the control machine's state corresponds to the code

* `nodes`, `contexts`, `extents`, `owners` are the heaps of `SequenceCase`,
  `ContextCase`, `ExtentCase`, `OwnerCase` objects; a reference is an index.
  Queue nodes, contexts and raw resume closures are immutable and never
  compared by reference in the code, so equal allocations share an index (this
  only identifies states nothing can tell apart). Extents and owners have
  mutable cells, so each allocation is its own index.
* `stack` has one record per `Run` on the native stack with the executor's
  registers. The handler value, the threaded state, payloads and requests are
  data the properties do not distinguish and are left out. `root` is the extent
  `Run` keeps in a local for its cleanup.
* `await` names the `Apply` an activation is suspended in. What follows the `Apply`
  in the same transition (`enter_target`, `advance_here`, marking the owner
  Consumed) is the other half, taken when the guest returns.
* `replay` holds the parameters of `CloneSequence`/`RebuildSequence`, which are
  self tail calls: one action per iteration.
* `minted` is the set of raw closures for which the guest already holds the inert
  `Resume` computation; the checkpoint is checked at both ends, as in the code.
* `outcome = "trapped"` is a Wasm trap.

The guest is unconstrained: whenever it runs it may return any computation it can
hold, start a nested run, call `raw_resume`, `once` or `cancel`, or throw. The
written computations are the constant `Text`, a table in which each entry only
mentions earlier ones. `Exhaust` is the stack budget seen from the machine: at
every call the machine makes to a function of its own, the callee's prologue may
throw; the run cleanup closes the root by a direct write and control reaches the
code that called `run`. Exhaustion inside a closure is `Throw`. When the very call
of `Run` or of the executor exhausts the stack, only objects nobody refers to are
left, which changes no later behaviour, so no action stands for it.

### How the stack budget's state corresponds to the code

* `depth` is the mutable i32 global of `Budget::for_module`; `increment` and
  `decrement` wrap as i32 arithmetic does.
* `frames` is the engine's stack. A frame has the function, its armed
  `try_table`s, the exception references its handlers received, its watermark
  locals and a `height`, the weight of the stack up to it. Compiled code cannot
  read a height: only properties do.
* `flight` is the exception the engine is unwinding. `Catch`, `Pass` and `Discard`
  are the engine's; the watermark restore is the first thing a handler does and
  is part of `Catch`.
* The program is the constants of `StackProgram`. Its control flow is free within
  what MIR admits: a protected block never tail-calls (`mir/lower/tail/mod.rs`
  skips it and the verifier rejects it), regions nest, only MIR tags are thrown,
  and a `throw_ref` rethrows what a `catch_all_ref` delivered. A direct self tail call
  outside protection is a loop and moves nothing here. A callee of `Call` may be
  direct or a closure: the emitted budget is the callee's and the same.
* `Dispatched` are the functions `wasm/lower/structure/dispatcher.rs` emits, those
  with an irreducible control flow; they have no try region. They get the prologue
  like all others but neither epilogue nor tail decrement (`Epilogue`). `Reducible`
  says there are none.
* Without WASI CLI the host may call `run` again in the same instance
  (`ExitCodes = FALSE`); a trap ends the instance.

### How the allocator's state corresponds to the code

* A memory is a row of cells. A record (`Live` in `algorithm.rs`) occupies the first
  `Record` cells of its chunk. `header` maps the first cell of every *intact* record
  to its fields: a write over any of its cells removes it, so a lost record shows.
  `head` and the `next` fields are the list; `Registry` follows it.
* `content` is what the owners of buffers wrote. `Junk` is written wherever the code
  lets dlmalloc or a fresh record use a cell.
* dlmalloc is external. `chunks` is what it has handed out, `pool` the cells it was
  given; it may return any aligned free chunk, or none, and ask `Provision` for any
  segment between the request and `Slack` more.
* `memory` and `cursor` are `memory.size` and the acquisition cursor; the engine may
  refuse to grow. The allocator is the only owner of growth (`catalog/allocator.rs:93`).
* A call is one step: the module is single-threaded. What the code does before a
  trap or a null is done in the step too. A trap does *not* end the behaviour: the
  models ask what the memory looks like afterwards, which is stricter than the engine.

### How the diagnosis run's state corresponds to the code

* The parent is one program counter, `phase`, with a step per file or process
  operation that another process or a crash can come between: launching, `try_wait`,
  reading the response, looking at the clock, replacing a bundle, the two halves of
  `atomic_write`. `outcome` is the local that `run_worker` returns.
* `worker` is the child; `draft` its temporary file, `response` the file of every case,
  which may be "stale", left by a process with the same id. What a report says is
  its verdict only.
* `Fail` is any operation that returns an error, which ends the run; `Die` is the death
  of the parent, whose worker goes on. Errors the code ignores are not `Fail`.
* The host does not crash: what a process wrote stays written in that order. `atomic_write`
  and `write_bundle` never sync, so after a host crash a renamed snapshot may be empty
  or name bundles whose files are lost; the code promises nothing there, and neither
  do the properties.

### How the module graph's state corresponds to the code

* A module is its position in the source list. `imports` are the edges, `faults` what
  a stage finds wrong with a module: inputs, chosen at the start.
* `phase` is the stage: reading, the resolver's depth-first walk, resolution along it,
  desugaring, kinds, the second walk over `deps`, type checking. `mark`, `path`,
  `left` and `order` are the states, the recursion's open visits with the edges
  each still has to follow, and the post-order. The edges of a visit are followed in any order,
  which covers every order of import declarations and of the hash sets.
* `mode` is the entry point: strict, strict with the support sources prepended
  (`complete`), or lenient. `checked` are the modules with an interface, `visible` whose
  instances each was given.

### How the structurer's state corresponds to the code

* `function` is the function, and what the compiler finds out about it. Of the
  function it has `entry`, `succ`, `throws` and `tries`; what its blocks compute and the
  arguments of a jump are left out. A region is its protected entry, one handler (the
  structurer wants all clauses to agree), its normal continuation and the tags it catches.
* `Verify` is the part of `mir/verify/exception.rs` and `mir/try_region.rs` that concerns
  regions: `raw` is the partition, `edges` the `UnwindGraph` over it. Every throw is taken
  for opaque, as a `throw_ref`; a throw of a known tag has fewer edges. The check of
  `try_region::plan` that regions nest is left out, for it never fails (`RegionsNestAlways`).
* `Lowered` is what `mir/lower` ensures and nobody verifies: a Try protects a new block,
  where nothing else leads, and a handler does not start with another Try, for a cleanup
  may only hold stores (`cc/lower/control/plan/check/operations.rs:27`). Without the first,
  `build_region` would not end on some graphs; without the second it would reject the function.
* `Structure` is `ControlFlowPlan::build` and the emission in one
  step, for they are one pure function; `frames` is then the emitted code. `EmitRegion` is
  a function on regions and the labels around them. Whatever the code rejects on the
  way, a region without an order, a block claimed twice, a branch without a label, leaves `NoCode`,
  and so does everything around it.
* The code is executed as Wasm does: `frames` has the rest of every open body, and for
  a loop what a branch to it restarts. `Step` is one instruction on the way to the next
  block (`Stepped`); in a block, `Take`, `Select`, `Arm`, `Raise` and `Exit` say how it ends. A branch,
  a table or a switch may take any of its targets: they differ in data only.
* Any block may raise any tag, for its calls may; the exception leaves the bodies up to the last
  `try_table` that catches the tag (`Caught`), while `chosen` is what the partition says.
* `chosen` is the block the program was to go to, `at` the one whose code was reached.

## 3. Properties

Control machine:

| Property | Says |
|---|---|
| `TypeOK` | every reference points into its heap to the right family, nodes only refer to older nodes, no Finish or Scoped context holds a root extent |
| `RootsMatchRuns` | a root is live exactly while its `Run` is on the native stack |
| `OwnersMatchTransfers` | an owner is Running exactly while its callback is on the stack, once; the slot is full exactly while Pending |
| `OwnerLife` | Pending to Running to Consumed, or Pending to Cancelled, and nothing else (the table of `docs/design/backend/fp/control-exception-bridge.md`) |
| `OutstandingIsLinear` | every extent an activation still has to close is owed once, usable, and descends from the root of its own run, even for continuations captured elsewhere and replayed several times |
| `CapturesExpireWithRun` | a continuation captured by a run that ended can never be resumed |
| `AppendLeftIsFlat` | the left part of a dispatched Append is never an Append |
| `ImplementsContract` | the machine implements `HandlerContract` |
| `MachineYields` | dispatch always reaches guest code, an answer or a trap |

`AppendLeftIsFlat` is an observation about the code: `CloneSequence` always returns
a list without Append, so the Append-left arms of `append` and `handle_normalize`
are defensive. The model keeps them.

Stack budget:

| Property | Says |
|---|---|
| `TypeOK` | the counter never wraps; the stack is the entry with lowered functions above it, whose heights add up; the entry's region is armed while anything runs or is thrown above it |
| `CounterIsHeight` | whenever code runs the counter is the weight of the stack, and 0 between runs; it needs `Reducible` |
| `CounterCovers` | whatever emitted the functions, running code has height <= counter <= budget |
| `WatermarksFit` | every armed region, in every frame, has saved the height of its own frame; it needs `Reducible` |
| `WithinBudget` | the only frame ever above the budget is one whose prologue has just thrown |
| `ExceptionsSettle` | an exception always reaches a handler, at the latest the entry's |
| `ImplementsStackContract` | with `Reducible`, the emitted code implements `StackContract` |

Allocator:

| Property | Says |
|---|---|
| `TypeOK` | addresses, lengths and links stay in range: no size wraps |
| `RegistryIsChunks` | the list reaches every intact record, and dlmalloc's outstanding chunks are exactly theirs, with the size and alignment they were requested with |
| `BuffersApart` | chunks of two records never share a cell, and a buffer lies in its chunk behind its record |
| `SegmentsBelowCursor` | dlmalloc's cells are above the application's data, below the cursor and inside the memory |
| `BusyOnlyAfterFailedStart` | the provider stays busy only if its initialisation failed, and then nothing was handed out |
| `ReturnedPointerAligned` | a returned pointer has the alignment asked for |
| `ImplementsContract` | `cabi_realloc` implements `AllocatorContract` |

Diagnosis run:

| Property | Says |
|---|---|
| `RecordsMatchResponses` | a recorded verdict is the one its own worker left, and a worker recorded as crashed left none, not even later |
| `NoWorkerLeftBehind` | no two workers at once, and none when the run is complete |
| `SnapshotWhole` | wherever the parent dies or gives up, the snapshot is the old one or the new one with all its cases and bundles; a crash of the host is not covered |
| `RunEnds` | every run ends, whatever the workers do |

Module graph:

| Property | Says |
|---|---|
| `CyclesReported` | the resolver reports a cycle exactly when there is one |
| `DependenciesFirst` | a module is resolved after its imports, and checked only against checked interfaces |
| `InstancesInScope` | a checked module saw the instances of what it depends on, and no others |
| `VerdictIsRight` | a program is accepted exactly when no stage has a fault and nothing depends on itself, and then all of it was checked |
| `SkipsExplained` | a module that was passed over depends on one with a diagnostic of its own |

Structurer:

| Property | Says |
|---|---|
| `CodeFollowsGraph` | the code visits exactly the blocks the chosen edges lead to and has a way for every edge, an exception lands at the handler of the innermost region that catches it, and control never runs off the end |
| `ReducibleIsStructured` | reducible graphs, judged by a definition over sets of blocks, get structured code, with regions or without; without regions no others do |
| `IrreducibleIsDispatched` | an irreducible graph is not rejected (violated, see below) |

## 4. Runs, bounds, fairness

| Run | Question | Bounds |
|---|---|---|
| `control_queues` | queues of several continuations, captured and resumed several times: order, replay, termination of dispatch | one run, no owners, 2 resumptions, at most 14 nodes and 5 extents provoked |
| `control_scopes` | handlers in and around continuations, shared and fresh extents, resuming under another handler | one run, 2 resumptions, 5 nodes, 4 extents |
| `control_nested` | nested runs, exceptions, exhaustion, a one-shot owner, resumptions carried between runs | two runs, one owner, 2 resumptions, 4 nodes, 3 extents |
| `budget_counter` | the counter and the watermarks through every mix of calls, tail calls, nested regions, throws, rethrows and exhaustion | two functions of weight 2 and 3, three regions, one tag, budget 10 |
| `budget_contract` | the same code against the contract without a counter | the same, budget 7 |
| `budget_dispatched` | what still holds when the dispatcher emits a function | three functions, one of them dispatched, budget 10 |
| `budget_irreducible` | that the counter is then no longer the weight of the stack (a violation) | the same |
| `allocator` | any sequence of calls, with every placement dlmalloc may choose, refused growth and clients that write | addresses of 5 bits, 4 pages of 8 cells, records of 3, four heap boundaries |
| `diagnose` | races of answer, poll and deadline; a crash of either process, or a failure, between any two steps | three cases, two ticks |
| `modules` | every import graph, fault and kind of build | four sources, 4 imports, 1 fault, a prefix of up to 2 |
| `structurer` | every graph, and every path through its code | four blocks, 3 targets each; five and six blocks, 2 targets each, with one or two nested regions, two tags |
| `structurer_nested` | that some irreducible graph is rejected (a violation) | three blocks, 2 targets each |

In the control runs, the bounds limit what the *guest* may provoke (`Room`, `MaxRaws`, `MaxOwners`,
`MaxRuns`): once a bound is reached the guest only returns or throws, but the
machine finishes every transition and replay it has begun, so no replay is cut
off in the middle. Two runs are enough for a resumption to cross from an outer to an inner run and
back; two resumptions are enough for one to capture the replay of another; one owner
suffices because owners do not interact. The three texts contain a perform
alone, a perform under one and two binds, a handler with and without a bind
after it, and a handler in tail position, which are the shapes the arms of
`handle` and `return` distinguish.

In the budget runs the program's constants bound everything: the budget is the depth of
the stack. Ten units hold five frames of the lightest function, so that a region's
handler, its callees and an outer region are on the stack together, and exhaustion can be raised in a
frame above any of them. `MaxInt` is the budget plus the heaviest frame, the least
`WeightAssumption` admits, so a counter one unit off would wrap. A dispatched
function costs `budget_dispatched` more states because the leak makes the counter
independent of the stack. The contract run has a smaller budget: TLC evaluates the
refinement mapping, which looks for the innermost catching region, in every state.

The allocator's 32 cells are the whole address space, so that a segment may end at the
last address and sums that pass it wrap; the lengths 0, 1, 2 and 28 are empty, small, larger and
never satisfiable, and the alignments include one that is no power of two and one
above that of a chunk. The boundaries 0, 6, 7 and 20 are missing, aligned, misaligned and
beyond the pages the memory starts with. More than two records fit at once, so that one is unlinked from the front, the middle
and the end of the list. `Pointers` holds the addresses a caller may name, those of the
buffers that are worth releasing and some that never are one.

Three cases are a first, a middle and a last one, each of them foreign or not, with or without
stale responses and bundles. A deadline of two ticks has a poll before, at and after it.

Four modules hold a cycle with a tail into it, a diamond and two components. Several
faults multiply the states; the theorems of section 5 have no such bound. In `structurer` the entry is block 1 of 0..3,
so that ties between units go both to lower and to higher blocks; four blocks are the least
with an irreducible cycle beside a loop, two loops in a row and a loop in a loop
with an exit from both. Three targets are a switch with two cases and a default; a
fourth would reach every block there is. With one region, two blocks beside it hold a loop around
the region, a loop inside it or a join behind it, and the handler may end, go on, loop back or throw; with two, the inner
one catches one tag of two, so that the other passes it on the way to the outer one.
A normal continuation makes a graph look less reducible than its code is, which is why
`ReducibleIsStructured` is an equivalence only without regions.

The cfgs say `CHECK_DEADLOCK FALSE` because a trapped program stops, and so does a
guest that has reached the bounds with no run on the stack; a diagnosis run, a build and
a function that has returned have ended. The allocator always accepts another
call: its deadlock is checked.

`MachineYields` assumes `WF_vars(MachineStep)`. The executor and the
helpers are straight native code on one thread and are never preempted, so an
enabled step of theirs is always taken. `ExceptionsSettle` assumes `WF_vars(Unwind)`: an
engine completes an unwinding it has begun. Nothing is assumed of guest or compiled
code, which may loop for ever. `RunEnds` assumes `WF_vars(ParentStep)`, because the parent
polls in a loop that sleeps a bounded time and none of its calls blocks on the worker
before it was killed, and `WF_vars(Tick)`, because time passes; nothing is assumed
of the worker. The weak fairness of the one disjunction is enough: whatever step of
the parent is enabled, it is the only one.

### Finding: functions emitted by the dispatcher leak their weight

`budget_irreducible` ends in a violation of `CounterIsHeight` after four states: `main`
calls a dispatched function, which returns, and the counter keeps its weight. In the
code, `lower_function` (`psrs-backend/src/wasm/lower/function/mod.rs:90-93`) gives
every function the prologue, but the epilogue and the tail decrement are emitted
only by `structure/region/mod.rs` (lines 157, 214 and 222);
`structure/dispatcher.rs:117-121` and `150-165` emit the bare `return` and
`return_call`s. EH-13 in `docs/implementation/backend/exception-handling.md:52`
promises them to every lowered function, and `mir/budget.rs:20` says that the counter is the
current call stack's weight. The effect is a stack-exhaustion exception on a
shallow stack, in a program that returns from or tail-calls out of such a function often
enough between two catches. The leak is on the safe side: `budget_dispatched`
and the theorem `CounterCoversStack` show that the counter still never falls below
the stack.

### Finding: an irreducible cycle inside a loop is rejected

`structurer_nested` ends in a violation of `IrreducibleIsDispatched` on a graph of three
blocks: the entry 1 leads to 0 and 2, 0 leads to 2, and 2 leads to 0 and 1. The whole
graph is one strongly connected component, entered at 1 only, so
`has_irreducible_component` (`psrs-backend/src/wasm/lower/structure/cfg/irreducible.rs:67-85`)
finds nothing; but inside the loop of 1 the cycle of 0 and 2 has two entries and no header.
`build_region` finds no order of the loop's units and rejects the function
(`cfg/build.rs:155-160`). `docs/implementation/backend/control-flow-and-tail-calls.md:143`
says of the same case "An irreducible graph with retreating non-back edges is routed to
the dispatcher rather than rejected". Nothing wrong is emitted, and no reducible
graph is affected (`ReducibleIsStructured`, which section 5 proves).

## 5. Proofs

Those of the control machine are about `Spec` for every `Text`, `Callbacks` and every bound.

* `TypeCorrect` (`Spec => []TypeOK`). `TypeOK` is inductive as stated: the parts that
  look like more than typing (immutable nodes refer to older ones, a Finish never
  holds a root, a suspended clause has a Scoped context) are there because the
  induction needs them. The proof has one lemma per action; the library
  part shows that heaps only grow, so references stay valid (`Grows`,
  `ReferencesStayValid`), and what allocating a node, replacing and popping the
  top activation do.
* `OwnersCorrect` (`Spec => []OwnersMatchTransfers`): relative to `TypeOK`. Quiet steps
  keep owners and activations; the acquiring step adds the owner to the top
  activation, which by `TypeOK` had none; a return and an exception remove it.
* `OwnerLifeCorrect` (`Spec => OwnerLife`): an action property from the two above; that a
  transfer ends in Consumed *from Running* needs `OwnersMatchTransfers`.
* `RootsCorrect` (`Spec => []RootsMatchRuns`): relative to `TypeOK`; the step that closes a
  Finish closes no root because of `TypeOK`'s `IsScoped`.
* `CapturesExpire` (`Spec => []CapturesExpireWithRun`). `FlatNodes`, `ScopeWork`, `RootOf` and
  `Usable` are functions defined by recursion along references to older objects; that
  such a function exists, is unique, and that old entries keep their value while the
  heap grows are proved from well-foundedness once for each (`FlatStep`, `RootStep`, `ListKept`,
  `RootKept`, `WorkKept`). `Usable` is turned into the existence of a *line*, a
  set of extents closed under parents whose members are all live, so that arguments about
  chains need no induction. A line through a checkpoint holds its root, a live root is that of a
  run on the stack.
* `OutstandingCorrect` (`Spec => []OutstandingIsLinear`). The invariant the property follows from,
  `LinearInv`, says of every activation that its work is `Linear`: each item of the list
  (`Pending`, and for the top activation in front of it what a replay has rebuilt so far) refers to extents
  that are `Sound`, usable and in the run's own tree, and closing an item's extent leaves
  all items after it usable (`Apart`: there is a line through theirs that avoids it). Uniqueness alone
  is not inductive: an extent that is owed once could still be an ancestor of one
  owed later. Pushing a fresh child (`FreshSound`, `PushIsLinear`), closing the first
  item (`LinearCloses`), popping a run (`RunsApart`) and rearranging without changing the list (`RotateList`)
  cover all steps; that a saved queue's old finishes never come back, only fresh ones, is why replay keeps it.
* `FlatLeft` (`Spec => []AppendLeftIsFlat`). Queues under dispatch and in contexts are *combs*
  (every Append that can be reached has a *chain*, a queue without Append, on its left); a replay
  reverses and rebuilds chains only. What is captured or being traversed may be anything.
* `MachineImplementsContract` (`Spec => ImplementsContract`). Outside a replay every action is the
  contract's action on the lists (`FlatRuns`, `FlatRaws`, `Published`), or, for rotation and
  normalisation, leaves the lists as they are. `LinearInv` gives the extent a request and a replay
  are dispatched in (`SameDispatchExtent`: the Root at the end of the contexts holds the run's own
  root), and only an activation that calls a continuation names one (`CalleeIdle`). The hard part is the replay, many steps that the contract makes
  in one. `ReplayInv` relates its registers to the captured list. While it traverses, the
  reversed queue mirrors a prefix whose finishes are all usable (`Mirrors`, `FinishesUsable`), the queue
  and the stack of Append nodes hold the rest (`Follows`), and that stack is a `Spine`, so when its
  top is Empty nothing is left. While it rebuilds, what is rebuilt is the end of the contract's result
  (`Result`), and the extents allocated so far, one for each finish in it, are the last ones of the
  contract's chain (`ExtentsFrom`), which `Published` hides until `RebuildDone`. That a finish gets the
  number the contract counts from the end of the list is a bijection of places (`RebuiltCount`).
  `CombsInv` says that at the end the reversed queue is Empty. A trap in the traversal is the
  contract's trap although the machine has checked only a prefix: one unusable finish is enough.

The proofs about the budget are for every program, every weight and budget an i32 can
hold (`WeightAssumption`) and, unless they say `Reducible`, every set of dispatched
functions.

* `BudgetInvariant` (`Spec => []Inv`). `TypeOK`, `CounterFits`, `WatermarksCover` and `WithinBudget`
  are inductive together: the counter after a catch is a watermark, so the
  watermarks of all frames have to fit; a watermark is saved from the counter;
  the counter does not wrap because no frame is above the budget; and which frame
  a return or a catch uncovers needs the shape of the stack. `Fits(counter, height)`
  says both cases at once: never below the height, never above the budget, and
  equal to the height with `Reducible`. One lemma per action; the prologue, which
  `Start`, `Call` and `TailCall` share, has its own.
* From it: `BudgetTypeCorrect`, `CounterCoversStack` and `BudgetRespected` for every program,
  `CounterCorrect` and `WatermarksCorrect` under `Reducible`.
* `BudgetImplementsContract`: under `Reducible`, `Spec => ImplementsStackContract`. While
  code runs, the contract's stack is the engine's without the watermarks. While an
  exception is in flight, it is the stack *after* the landing: the innermost
  catching region is settled at the throw. A passed region and a discarded frame
  do not change it (`PassedRegion`, `BareTop`), and the catch reaches exactly it
  (`CatchStutters`). That there is an innermost region uses that the entry catches
  everything and that a finite set of numbers has a greatest element, which is
  derived from the well-foundedness of strict inclusion because the library's
  induction theorems cannot be cited.

The proofs about the allocator are for every word size, page, record, boundary and set of
arguments the three assumptions of the module admit.

* `TypesCorrect`, `RecordsNeverLost`, `BuffersDisjoint`, `SegmentsBounded`, `BusyIsDead`,
  `PointersAligned`: one inductive invariant. That the list reaches every record is the hard
  part, for a list is defined by following it: the invariant (`ChainOK`) says instead that no two
  records link to the same one, none to the head, and that a set with the head and closed under
  the links is all of them, which insertion at the head and unlinking anywhere preserve. No write loses a record because
  buffers are apart, and they are apart because chunks are and the sizes `insert` computes suffice.
* `AllocatorRefinement` (`Spec => ImplementsContract`): each way a call ends maps to one step
  of the contract or to a stutter.

About the diagnosis run, for every number of cases and every deadline: `TypeCorrect`, `RecordsCorrect`,
`WorkersReaped`, `SnapshotCorrect`, from an invariant that says for each `phase` what is
already known of the current case's worker, response and bundle, and of the recorded ones. Like
the model they assume that the host keeps what was written.

About the module graph, for every number of sources, every graph, any set of faults and every prefix:

* `CyclesFound`. A cycle is a nonempty set of modules each with an edge into it, so no
  argument about paths is needed: as long as nothing is reported the ended visits never
  hold such a set, and in the end all have ended. When one is reported, the open
  visits from the target of the edge on are such a set.
* `DependenciesComeFirst` and `VerdictCorrect`: the same invariant for both walks, with what
  every stage has done so far.

* `SkipsHaveCause`. The modules that neither have a diagnostic nor depend on one that has (`Spared`) are
  closed under dependencies; the invariant says that every cycle leads to a reported one
  (`CycleOK`), that what a stage dropped has a diagnostic (`LossOK`) and that a spared module that came
  up was checked (`PassedOK`). That the support prefix adds no cycle needs the property's own
  proviso, and `Calm` says where the second walk, which reports nothing, can meet none.
* `ScopeIsClosure`. What the work list still adds to the modules it has seen is `Reached`, the least set with
  the dependencies of both; popping any module keeps it, and the recursion agrees with it
  because the set of unseen modules shrinks (`InstancesReached`).

About the structurer, for every finite set of blocks, every set of tags and every function that is lowered as
`Lowered` says, with any number of nested regions and throws:

* `DominatorsFacts`. A closure that grows ends because its blocks are finite, and it is the least
  closed set (`ClosureFacts`). The sweeps of the analysis end because each drops a pair of blocks;
  what they end with is a *dominator tree* (`DomTree`): what dominates a block dominates its
  predecessors, and what guards a set of blocks, so that no way leads into it past the guard,
  dominates all of it. From these two facts follows that dominance is transitive, antisymmetric and a
  chain above each block, without any path being named.
* `RegionsNestAlways`: two regions that share a block are nested, because both entries dominate it
  (`RawNested`).
* `CodeFollowsGraphHolds`. The invariant, `Follows`, says where control can be: on its way to `chosen`, in it,
  or gone. It rests on three parts.
  - *Analysis* (`Verified`, `Looped`). A region is entered through its entry only, and a
    handler is outside its region and otherwise wherever its try block is; unwinding leads to no block
    the seed edges do not; a loop is entered at its header only. So the units of a region share no
    block, each is entered at its header only, and the order puts a unit behind all that lead to it.
    Contained units end: how deep regions may nest is bounded by a number that falls with each.
  - *Code*. Every place in the code has its list of enclosing labels. `GoesTo(ops, L, b)` says that the code
    `ops` under the labels `L` goes to block `b` without a choice, and `Resting` that it is the rest of
    `b`. What a region emits goes to its first block, what stands behind the block of a label goes to the label's
    target, and the tables that are open around a block, the tries of `OpenTries(L)`, are
    those whose region holds it, the innermost last: so what it raises is caught where `Landing` says.
  - *Machine*. `StackFits` says that the frames are the labels: each holds what a branch to it
    needs (`LabelHolds`). A step keeps this whatever the instruction (`Heads` or `Rests`); a branch cuts the
    stack to a label, an exception to the last table that catches. As every label in reach leads
    to the block it names, it does not matter which of two `branch_depth` picks.

  For the dispatcher the same is said with numbers: on the way down to the table the stack has a
  frame for each block passed (`Descends`), the table cuts it to the frame the state stands for (`Enters`), and the
  jump behind that block's code cuts it to the loop (`Turning`).

* `PlanAcceptedAlways`. The validations of the plan never fail, reducible graph or not. A natural
  loop is the least set that holds its header and what leads to a back edge without it (`Natural`);
  its header dominates such a set (`LoopDominated`), and holds all between itself and any of its blocks
  (`LoopBetween`), so of two loops that meet the one with the dominating header contains the other.
  A region is entered at its entry only, so a loop around or beside it cannot stop inside it.
* `ReducibleIsStructuredHolds`. A set of blocks is *tied* when each of them reaches each other inside it
  (`Tied`: every set that is closed from one of them on holds all), which is what `Reducible`
  quantifies over, and `Headed` says that one of them dominates it (`ReducibleMeans`).
  - *No dispatcher*. A component of more than one block is tied (`ComponentTied`), and an entry
    other than the block that dominates it would have that block behind itself, hence inside (`HeadedIsReducible`).
  - *Order*. If each of some units of a region were led to by another, there would be a tied set
    across them (`TiedExists`, the smallest set without a way in from the rest). The block that dominates
    it is the header of its unit, and the edge to it from another unit is a back edge, so a natural loop
    holds both and they are in one unit (`SomeReady`). What comes out is sorted: no unit
    leads to an earlier one (`OrderedInOrder`).
  - *Labels*. What leaves a region finds a label around it (`Covers`). What leaves a unit enters another at its
    header, which is the loop the region is, or stands behind it in the order and has its label there
    (`UnitCovered`); what leaves a try is neither its handler nor, because `RegionsVerified` forbids it, its
    own try block (`TryLeavings`). By the height of regions all of them have code (`RegionEmits`).
  - *Conversely*, without tries, a tied set has a smallest region around it. If that has code, its units have an
    order, and the set comes back to the first of them that it meets from a later one: at the header of the loop
    the region is, which dominates it (`CodeIsHeaded`).

Every safety property, action property and refinement that a run checks is stated by one of these theorems, for
every value of the constants and under the assumptions its module names. Only model-checked, because they
are liveness: `RunEnds` of the diagnosis run, `ExceptionsSettle` of the budget and `MachineYields` of the
control machine.

## 6. Plan

Done, in the order of what is hardest to test: `ControlMachine` with its contract and lifetime
proofs; `NativeBudget` with its contract; `CanonicalAllocator` with its contract; `DiagnoseRun`;
`ModuleGraph`; `Structurer`, with protected regions, and its proofs. What is left:

* The component linker's closure and the layout algorithm as pure operators, if a definition
  can be found that is shorter than the code and says something it does not.

## 7. Not modelled

Parsers, name resolution inside a module, type inference, Core and MIR optimisation, closure
conversion, pattern-match compilation and ABI tables are pure functions over unbounded terms;
stating their correctness needs a semantics of both sides, and the interesting
inputs are larger than what TLC enumerates. Numbers and storage providers are single instructions or decimal
formatting. The CLI and the renderers are I/O. That is by far the larger part of the
repository's lines; the models are about the part with behaviour.

The layout algorithm and the component linker are deterministic passes over token lists and
package graphs: the reference a model of them would be checked against is the algorithm again.

The weight of a function is an estimate of engine memory recorded at lowering, and the optimiser
may add locals afterwards (`psrs-backend/src/mir/opt/inline.rs:102`); the headroom below the
engine's limit absorbs the error. Nothing in the code relates weights to bytes, so no
property here does.

Inside modelled components: what a diagnosis report contains, grouping and comparing snapshots,
a crash of the host between its unsynced writes;
lowering and linking after the driver's verdict; block arguments, instruction lowering and
binary encoding beside the structurer.
