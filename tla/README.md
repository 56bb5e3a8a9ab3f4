# Must in TLA+

Specifications, model-checking instances and proofs for the Must toolchain: a
compiler front end, a MIR interpreter, a language server, a debug adapter and
a WebAssembly back end, all under `crates/`. This directory holds the modules,
the TLC configurations, the proofs and `PROJECT.json`, which ties every
definition to the lines it models, every property to a mutant that breaks it
and every hazard to the properties that watch it.

```
tlc -workers 2 -config BorrowTree.cfg MCBorrowTree      # one run
tlapm Memory_proofs.tla                                 # one proof module
```

## 1. Inventory

| Part | Code | State it keeps | Operations | What is hard |
|---|---|---|---|---|
| Borrow tree | `eval/src/machine.rs` 3740-4180 | `borrow_nodes`, `borrow_roots`, `borrow_nodes_of` | `aliasing_access`, `aliasing_access_range`, `mint_borrow`, `borrow_root` | long histories; scan lists that must forget exactly the right nodes; one state standing for many locations |
| Compile-time forcing | `eval/src/machine.rs` 426-640, `eval/src/lib.rs` | `forcing`, `forced`, `forcing_blocks`, `forced_blocks`, `const_depth`, `const_fuel` | `force_item`, `force_const_block`, queries | cycles across items and blocks, budgets swapped and restored, failures memoized |
| Memory and execution | `eval/src/machine.rs` | `frames`, `memory`, `static_allocs`, `next_alloc` | `step`, `read_place`, `write_through`, builtins | a local's two homes, dangling pointers, moved-out storage, poison, ranges |
| Language server | `must-lsp/src/lib.rs`, `pool.rs`, `ide/src/lib.rs` | `FileMaps`, salsa inputs, `diagnostics_generation`, the pool's channel | notifications, requests, publish, tasks | a loop and two workers, cancellation, panics, reopen races, blocking setters |
| Debug session | `must-lsp/src/dap/mod.rs` | `Session` | one handler per request | launches parked until `configurationDone`, several ways to end |
| Debuggee | `must-lsp/src/dap/debuggee.rs` | `breakpoints` with hits, `sat_at`, the machine | `resume`, `record`, `arrives` | recursion, indices reused by other frames, breakpoints replaced while paused |
| Lowering to MIR | `mir/src/lower.rs` | builder of one body | tree walk | drops at scope ends and loop exits |
| Move checker | `mir/src/moves.rs`, `cfg.rs` | per block, what each local may hold | transfer, join, worklist, walks back | joins, loops, halted paths, which move a report blames |
| Loan checker | `mir/src/loans.rs`, `cfg.rs` | loans, live loans per point, loans in scope per block | set-up, scope fixpoint, report | reborrows, loops, temps that stand for places, returns |
| Unused values, trap guards | `mir/src/{unused,trap_guard}.rs` | none beyond a walk | walk | |
| Inference groups | `hir/src/groups.rs` | the mention graph; per group one solver table, a table per body | components, check, export, vote, publish | order independence, tables that must agree |
| Inference, constraints | `hir/src/{infer,ty,constraint,capability,outlives,traits}.rs` | unification table, constraint sets | unify, solve, close | snapshots rolled back, fixpoints |
| Flow checks | `hir/src/{linear_check,const_check,unsafe_check,scopes,trap_sites}.rs` | state along one walk | tree walk | branch and loop joins |
| Syntax | `syntax/src/*` | token position, event list, positions into it | lexer, parser, builder, validation | events patched after the fact, trivia, recovery, whom an error blames |
| Editor features | `ide/src/*` | none, reads a snapshot | completion, hover, definition, highlighting | cancellation only |
| Code generation | `codegen-wasm/src/*` | worklist, instance cache, layouts | monomorphize, lay out, emit | caps, recursion, widths |
| Commands, transports, conversions | `must-lsp/src/{runner,check,compile,cli,to_proto,from_proto}.rs`, `dap/transport.rs`, `base-db` | none | glue and I/O | UTF-16 positions |
| Grammar for editors, extensions, tools | `editors/`, `tools/`, `.github/` | none | | not program logic |

How they interact. The server's main loop owns a salsa database; a task takes
a snapshot and calls `ide`, which calls `hir`, `mir` and, for compile-time
values, `eval` (`const_value`, which is the machine with `const_depth` 1).
`must.run` and `must dap` build a database of their own and drive the same
machine with `const_depth` 0: `must.run` to the end, the debugger one `step` at
a time. Reads and writes of memory in the machine go through the borrow tree.
`mir`'s checkers refuse statically what the borrow tree would report; `codegen`
consumes the same MIR.

What makes each part correct:

* Borrow tree: it reports every conflict that per-location tracking would, the
  owner is never refused, the scan lists change nothing but the cost.
* Memory: a local named by a frame has one live home, poison is never a value, each write
  makes its access in the tree.
* Forcing: every query over finitely many instances ends; a memoized answer is the body's own.
* Server: exactly one answer per request, no stale squiggles, none lost
  silently, memory bounded by documents, a main loop that always comes back.
* Debugger: a step stops where its mode says, arrivals counted once per frame,
  each launch answered, each end announced once.
* Move checker: no path of a checked body uses a value twice or loses one; what
  it says of a place is what the paths do; each report names a real move.
* Loan checker: on no path of a checked body is a pointer used after an access
  that invalidates it, nor does one to the frame leave it.
* Inference groups: groups are components, a body's view of a member is the
  published one, the order of the items decides nothing.
* Parser events: a position held names what it named when it was taken; the
  tree built is what the grammar's calls meant, with every token in it.

## 2. Modules

| Module | Models | State and actions |
|---|---|---|
| `TreeBorrows` | the promise: every access lets the whole tree of its allocation react | `tree`, `refused`; `Use`, `Borrow`, `Plant` |
| `BorrowTree` | the code: node table, roots, scan lists | variables named as the fields; `AccessThrough` (`aliasing_access` and `_range`), `AccessUntracked` (`Provenance(None)`), `MintBelow`, `MintFirst` (with `borrow_root`) |
| `BorrowLocations` | the code beside exact per-location permissions | extends `BorrowTree` with `perm`, updated by the same steps |
| `Memory` | the machine's frames and abstract memory, every access judged by `BorrowTree` | extends `BorrowTree` with `frames` (`locals`, `promoted`) and `memory`; one action per statement shape (`Load`, `Store`, `LoadThrough`, `StoreThrough`, `AddrOf`, `Borrow`, `Reborrow`, `AddrOfStatic`, `Move`, `StorageDead`, `Call`, `Return`) and per builtin that touches memory |
| `ConstForcing` | on-demand evaluation of items and const blocks | `forcing` (both in-progress stacks and the saved fuel), `forced` (both memos), `const_depth`, `const_fuel`; `Query`, `Mention`, `Receive`, `Return`, `Hear` |
| `DiagnosticsFeed` | the promise about what a client sees | `latest`, `shown` |
| `Server` | main loop, queue, workers, files, generations | a notification is split where another thread can see it: `BeginSet`, `SetText`, `BumpGeneration`, `PublishDiagnostics`, `RetireGeneration`, `ClearDiagnostics`; `DispatchRequest`; `Take`, `Compute`, `Finish` |
| `Debuggee` | the resume loop over an arbitrary program | `frames` and `next_serial` of the machine, `sat_at`, `breakpoints`; `Look` (one turn of the loop up to the step), `Advance`, `Call`, `Return`, `Finish`, `Crash` (what a step can do) |
| `DapSession` | the session's handlers | one action per request; helper operators are the helper methods |
| `Cfg` | bodies of MIR as the checkers see them | operators: points, edges, reads, definitions, `liveness`, `reverse_postorder`; `Bodies` is a constant |
| `Moves` | the move checker, and the body it lets run | `entry`, `work`, `before` as in `run`; `Pop`, `Walk`, `Propagate` to the fixpoint, `Open`, `Report`; then `Execute` and `Stop` over `conc`, what each local really holds |
| `Loans` | the loan checker, and the body it lets run | fields of `BodyCheck`; `New`, `Sweep`, `Report`; then `Execute` over real pointers that foreign accesses make `stale` |
| `Groups` | the partition of a library into groups, and the call cycles | operators: `biedges`, `Tarjan`, `inference_groups`, `call_cycles` |
| `Votes` | the inference of a group, twice, in two orders | `solver`, `checked` (a table per body); `Partition`, `CheckCycle`, `MemberFills`, `CheckSources`, `Publish` |
| `TreeBuilder` | the replay of the events into a tree, its errors and whom they blame | operators: the helpers of `Builder`, `ForwardParents`, `OwnerAt`, `build` |
| `Parser` | the calls a grammar makes, and the events they leave | `events`, `lexed_pos`; `live`, `lhs` and `slot` are the positions the grammar holds; one action per call, `EatDigitGroupCommas` with its splice; `Finish` builds |
| `Memory_proofs` | proofs about `BorrowTree`, `BorrowLocations`, `TreeBorrows` and `Memory` | |
| `ConstForcing_proofs`, `Server_proofs`, `Debuggee_proofs`, `DapSession_proofs`, `Moves_proofs`, `Loans_proofs`, `Parser_proofs` | proofs about the module each is named after | |

`MC*.tla` give the constants their small values; no configuration replaces a
definition.

Modelling choices worth knowing:

* A scan list is a set: the code's order decides nothing, since reactions to
  one access are independent. A range access is one `aliasing_access` per
  element; the model lets all elements react at once, and
  `RangeIsAccessPerElement` compares that with doing it element by element.
* `above`, the closed parent chain, stands for the walk in
  `is_descendant_of`; `ParentChain` says it is that.
* `Memory` keeps no pointers: a local that is never addressed holds one, and any pointer
  a program could have been given up to now is in `Held`, so each step through a pointer
  takes one of those (`.&raw`, `add` and `offset` only make them, and are there). Places
  are one step deep because `lower.rs` emits at most one leading dereference, on a local
  that is never addressed. Such a local is one cell: a value without poison in it is any
  value. An aggregate is an array of scalars. A run that stops (undefined behaviour, a
  trap, its end) keeps only the reason.
* The const-param environment is part of a block's identity, so a `Block` of
  `ConstForcing` is one block under one environment. A machine is taken to meet finitely
  many (`UnitAssumption`), which nothing in the code ensures (Findings). The two in-progress
  stacks are one, because they are only ever searched and popped in step.
* In `Server` a text is the number of the edit that brought it, so "stale"
  means "a smaller number". Salsa's setter is modelled by how this code uses
  it: it flags the snapshots alive as cancelled, and with `SetterWaits` writes
  only once they are dropped. `create_file` takes `&db`: it neither cancels nor waits.
  A cancelled query may still finish (it may be past its last
  query; `must.run` evaluates in a database of its own), so cancellation is a
  possible outcome, not a forced one. Check and send share one lock and one
  step.
* In `Debuggee` a frame may move to any point and call anything, so loops and
  recursion are all there; the entry's frame has no position. A condition that
  fails to evaluate stops the program, as one that holds does. `seen` and
  `arrivals` are history, for the properties only.
* In `DapSession` a handler is one step, because the session reads the next
  request only after the last is handled, resumes included. An orderly client
  launches one program at a time and drives it only when told it is stopped;
  the session checks neither, so both kinds of client are modelled and each
  property says which it is about.

* In `Cfg` a value is the reads it makes, in evaluation order, and a type is the
  few facts the checkers ask of it. A statement and a terminator are both
  instructions; a block is a sequence of them ending in its one terminator.
* `Moves` takes any block of the worklist next where the code pops the last one
  pushed; what is proved holds for every order. The running body knows nothing
  of the analysis: it is what the machine does to a local, and it only stops at
  the points trapped. A trap of lowering's and a const trap both have a target, and the
  checkers walk on to it (`successors`): past a trap the locals it writes or blames are
  halted, and a halted local silences reports of it until it is written again. A running
  body never goes past a trap; at a const trap it stops when it is being forced and goes
  on when it is the runner's entry, and both are steps of the model.
* In `Loans` a local is a record or one pointer to a record, so a place dereferences its
  root or nothing, and the region constraints that inference hands over are computed from
  the assignments and the calls: what a call gives may be any of the pointers of that kind
  it was given (`Handed`), and the callee may in between access what each of them points
  at, by writing if it may (`Touches`). The running body is a small borrow tree of its
  own, in which an access makes stale what it is foreign to and overlaps, as
  `aliasing_access` does to nodes; a foreign read counts an exclusive pointer stale where
  the code still lets it read, so what is checked is more than the machine asks. A pointer
  keeps the set of those it was borrowed through where the code walks up from parent to
  parent.
* A body in `Loans` keeps what inference and lowering see to (`LoanBodiesAssumption`).
  `Typed`: only a borrow is dereferenced, only an exclusive one is written or borrowed
  exclusively through (`shared_step_governing`), a borrow is assigned a new one of its own
  kind or the whole of another, and a call that gives one was given one of its kind.
  `Lowered`: a place temp is copied from its place before it is used and neither outlives
  the other's use; what is read was written before; and as each mention of an exclusive
  borrow reborrows it (`lower_expr`; "a bare borrow is exempt, since every mention of one
  reborrows", `moves.rs`), one that is read whole, other than into a place temp, is not
  read again. TLC evaluates both on every body of the run.
* In `Votes` a signature is `Arity` parts, the last one what the member produces,
  each part an atom, an error or a variable. That keeps sharing of variables
  between parts and between members, number literals, errors and holes, which
  are what a vote decides by; it leaves out nesting (and so the occurs check),
  regions, safety edges and what a member writes itself. A body is an arbitrary
  list of equations about its own signature and those of the members it
  mentions. `Publish` starts over with two neighbouring items exchanged:
  exchanges of neighbours generate every order.
* In `Parser` the grammar is any sequence of calls that keeps what `parser.rs` asks of a
  caller: markers close in the order of a stack, a completed node may be wrapped until
  something else is written, and no marker past the literal is held when its digit groups
  are taken. It holds one reserved error at a time, and neither `change_kind` nor `parent`
  of a completed node (`parser.rs` 427-451) is among the calls. `marked` receives each
  bracket, token and error at its place in the tree at once and so needs no positions: it
  is what the calls meant. Every token is two characters long, a message is the number of
  its error and a node is named by the order of its marker.

## 3. Runs

| Run | States | Shows |
|---|---|---|
| `BorrowTree` | 94 thousand | invariants and refinement over two allocations of `{a, b}`, one range over both fields, four nodes; no access accepted that exact tracking refuses |
| `ConstForcing` | 326 thousand | memo, re-entry and termination over finitely many instances, for every program of two items and one block, in both machines |
| `ConstForcingSameAnswer` | | the depth cap makes an answer depend on who asked |
| `Server` | 2.5 million | two documents, two workers, one request, three edits; setter only cancels |
| `ServerLiveness` | 57 thousand | requests answered, main loop returns, diagnostics settle; two documents, panics, a program that never ends |
| `Debuggee` | 2.5 million | history, hit counts and step modes, three calls, two breakpoints |
| `DapSession` | 7 thousand | launches, breakpoints, ends; three launches, three breakpoints |
| `Moves` | 417 thousand | soundness, leaks, precision of the flags, blame and termination, bodies of four blocks, with traps and const traps |
| `Loans` | 134 thousand | soundness, place temps and the scope fixpoint, seven thousand bodies of three blocks, with calls and const traps |
| `Votes` | 154 thousand | components, copies and order, libraries of five items |
| `Parser` | 663 thousand | positions, the tree and the errors, up to five nodes and errors over two texts |
| `Memory` | 59 thousand | homes of locals, poison, and that every write makes its access; two named locals, two allocations, two frames, two borrows |

Why the bounds are enough. Four nodes are a root and three borrows: enough for a
reborrow of a reborrow with a cousin, and for a range to reach two of them; the theorems
remove the bound. The run of `BorrowTree` drives `BorrowLocations`, whose steps are
those of `BorrowTree` with the exact permissions carried along; the two allocations are
interchangeable, hence the symmetry. Two items and a block make every cycle (item,
block, mixed), and a depth of three is reached and passed. Two documents are needed for
an edit to one to cancel the other's task; three edits make open, edit, close, reopen
with a task of each in flight. Three calls reuse a stack index with another frame on top
of a live one. Three launches make "parked, replaced, launched again".

Four blocks of one statement make a branch, a join, a loop, and a loop left from its
middle; the statements of `MCMoves` give, move, copy, borrow, overwrite and end a linear
local and fill and consume a temporary. One block may end in a trap of lowering's, in a
branch or in a loop, blaming the local or not, so that a halted state meets another at a
join and walks back cross the trap; or in a const trap that goes on round a loop.
Three blocks of up to four statements make, in `MCLoans`, a copy of a pointer into a
place temp, an exclusive borrow, a shared one beside or below it, a foreign access (or a
walk on: `p` given what was borrowed through it) and a late use, round a loop, across
a branch, past a const trap, or with a pointer given to a call that gives one back, to be
used again or returned; five pointers are a parameter's and four made. Of the bodies written so,
`MCBodies` are those `Lowered` of. Five items make, in `MCVotes`, a callee, a second
member or caller that may be in its cycle, and three more uses: the least at which a
majority, a tie, an abstaining use and two linked members all occur. Five nodes and
errors make, in `MCParser`, a wrapper begun past a literal whose digit groups are then
spliced in, with an error reserved before it and one reported after; one text has the
groups, the other trivia at its start and between its tokens.

`MCMemory` bounds the sum of frames, allocations, borrow nodes and named locals in use
(`MCSmall`), which lets each be large while the others are small: two borrows of one
local, a borrow beside a second local, a heap or static one beside a borrowed one, a
promoted local in each of two frames. `x` may be written by name and `y` is bound without
`mut`; an aggregate has two elements, so that a range may be half outside it.

`CHECK_DEADLOCK FALSE` everywhere: an interpreter run stops at undefined
behaviour or its bound, a client may stop sending, a program may end.

Two contracts of the setter. `Server` assumes the weaker one (cancel, do not
wait): the generation check is then what keeps a late result out. Liveness is checked
under the stronger one, which is also the one that can block.

Fairness. `ServerLiveness` assumes that the main loop and each worker go on
when they can (they are threads; the channel is unbounded) and nothing of the
client. `ConstForcing` assumes that the machine goes on once asked.
`Moves` assumes that the analysis, a plain loop, goes on; nothing of the body.

Programs that never end. `must.run` may loop, and `ServerLiveness` lets it (`MayHang`).
What it shows is then that nothing else is in the way: the main loop comes back unless a
setter waits for such a program's snapshot (`HeldUp`), and a request is answered unless it
is such a program or they have every worker.

### Findings

*Same answer whoever forces* (`machine.rs` 495) is true of fuel, not of depth: the run
`ConstForcingSameAnswer` refutes it, and `PROJECT.json` quotes it.

*The result never depends on the order of the items* (`docs/design/types-and-data.md`
89, `groups.rs` 1110) is true without literals only: a vote won by a use with a literal,
`f(1, true)`, leaves the number open; the uses that abstained, `f(u8, y)` and `f(i32,
y)`, are folded in by index, so the first one fills it. No run is kept for it:
`OrderDecidesNothing` as the invariant of `Votes.cfg` is violated,
`OrderDecidesNothingWithoutLiterals` holds.

A range given to `copy` or the host's `read` by a raw pointer into an array that was moved
out stops as an internal error, not as the read of a moved value (`machine.rs` 3206: the
moved-out storage is no array; `RangeRefusal` says "ill typed").

Also seen: that a slow request never holds up the main loop (`must-lsp/src/lib.rs` 44-45)
is true of tasks that end: a program of `must.run` that loops keeps its snapshot, and
`set_file_text` waits for it at the next edit (`HeldUp`). A second `launch` before
`configurationDone` overwrites the parked one, which is then never answered; `continue`
while a launch is parked starts the program early. Both need a client that breaks the
protocol, and the properties of `DapSession` say so (`LaunchesAnswered`,
`StartsAndEndsOnce`). A later breakpoint at a place where an earlier one stops is not
counted (`HitsNeverDrift` says which are). Three comments are out of date with no run of
their own, since each is visible in one line of the model: disabling is not transitive
(`machine.rs` 410; a write to field `b` disables a borrow of the record and not the
reborrow of `a` below it, which `TreeBorrows` has too); nested const forcing is not
bounded by `MAX_CONST_DEPTH` (`machine.rs` 196), since `force_const_block` counts the
depth and compares it with nothing (`Refusal` compares it for items only); `continue` need
not come back, since the language has loops (`debuggee.rs` 2).

The second of those goes further. A const argument may be computed from a const parameter
(`machine.rs` 1760-1780), so a block that mentions itself at the next argument makes new
instances without end, each with a fuel of its own (578): there the query does not end,
against 206 ("a salsa query must terminate even on adversarial input"). That is why
`QueriesEnd` is about finitely many instances, and says so.

## 4. Proofs

### Borrow tree

The first half of `Memory_proofs` proves, for every set of allocations, paths and ranges
and every bound, `TypeOK`, `ScanListsExact`, `Exclusive`, `OwnerNeverRefused`,
`FrozenStory` and `PermissionsOnlyShrink` (both only proved, in no run), that
`BorrowTree` implements `TreeBorrows`, `RangeIsAccessPerElement`, and
`NoViolationMissed` of `BorrowLocations`. The assumptions are those the modules state on
their constants: paths are sequences over the steps and include the empty one, a range
is a set of paths, the bound is a natural number, locations are sequences over the
steps.

None of the checked invariants is inductive by itself: that two unrelated borrows are
exclusive after an access needs to know that the scan lists held every node the access had
to look at; that they do needs the nodes' states; that an access through a node does not
hurt the owner needs every node to be below the root. `IInv` is their conjunction plus
`AboveIn` (ancestors are older, in the same allocation, and transitively closed) and the
half of `StoryIn` that a `Unique` node was minted exclusive. An access and a borrow share
one step, so the work is in three lemmas over explicit nodes and lists: `TouchKeeps` (the
step preserves the tree), `TouchClears` (what overlaps the access and is unrelated to the
accessor is not left exclusive, nor alive after a write) and `LeafKeeps` (a new leaf may
be added where the step has cleared the way). `TouchIsFullScan` then turns the lists into
the full scan of `TreeBorrows`, and the refinement follows action by action.
`NoViolationMissed` rests on the invariant that the code's one state is at most the exact
permission at every location of the node's path. `RangeIsAccessPerElement` says that two
elements of a range at once are one after the other: the second is never refused on
account of the first, because an access never weakens the node it goes through, and what
the first did to the other nodes the second may do again.

### Abstract memory

The second half of `Memory_proofs` proves `OneHome`, `PoisonStaysInMemory` and
`WritesLeaveOneChain` for any locals, statics, sizes, depth and allocations.
`MemoryAssumption`, `ArrayAssumption` (an array is neither a scalar nor a pointer: a
`Value` is of one variant) and `ShallowAssumption` are the module's own; the last, that
a path has at most one step, is the model's bound on projections, and only the third
theorem uses it. The invariant of the first two is stated of any frames `F` and memory
`M`, so that each thing a statement does (bind a local, promote one, allocate, free,
write a cell, push a frame, pop one with its promoted allocations) is one lemma, and an
action cites those of its parts in their order. `OneHome` is inductive only with it that
an allocation is the home of one local of one frame and that a frame's homes are alive
while it is; `PoisonStaysInMemory` holds because every way a value leaves memory goes
through a read that stops at poison. The borrow tree plays no part in either.

It does in `WritesLeaveOneChain`, which rests on `WInv`: while the program runs, the
tree satisfies its own invariant, the ancestors of a node form one line and those of an
exclusive borrow are exclusive (`LinesIn`), each allocation with a root is in memory,
and a cell holds an array or poison. `WriteLeavesLine` is the heart: what a permitted
write leaves valid where it wrote is on one line through the node it went through. The
rest shows of each way to write that it changes no place outside those its access was
made for (`SameOutside`: `ProjectMutShows`, `LandedShows`). `copy` is judged on the tree
its read has left, so the lemmas about an access are stated of any nodes and lists
(`Touched`), and those about the tree as it stands follow.

### Compile-time forcing

`ConstForcing_proofs` proves `TypeOK`, `NeverReentered`, `FuelIsPerBody` and
`EvaluatedOnce` (the last two in no run) for any finite set of items and blocks, any
bodies, depth cap and budget. The first three are inductive only together: that an answer
is never overwritten needs the innermost body to be unanswered, which needs the stack to
be free of repeats; that a popped body leaves its forcer the right fuel needs the meter of
every body on the stack, not of the top one. The invariant is stated of any stack, so that
one lemma each says what a push, a pop and a statement do to it.

`MemoIsRight` compares the memo with a definition by rounds, and no induction over data
is asked of the provers for it. The rounds only grow and there are finitely many bodies
(`UnitAssumption`), so by their cardinality they have stopped growing by the last one
counted, and what they reach is the least set closed under "every mention has a value";
then a memoized value is in every closed set, and a memoized failure in no round. The
latter needs what a body on the stack has heard so far (`Heard`: values, all of them
right) and, for a cycle, that each body on the stack mentions the next one.

### Language server

`Server_proofs` proves `DocumentsInStep`, `OneResponsePerRequest` and that `Server`
implements `DiagnosticsFeed`, for any finite set of documents, any workers, requests
and number of edits, whether or not the setter waits. `IInv` says where the
main loop stands: between two steps of a notification the
generations may be one document ahead of or behind the files, and only in that
document (`DocInv`). That a late result is harmless needs of every task alive, queued
or in a worker's hands, that if its generation is the document's, its text is
the one stamped last, and that none has a generation still to be issued (`Fresh`);
that a new text is newer than anything shown, that the edit on its way in is
(`Bringing`). `Once` names the one place a request's answer can be, so that no
counting is needed until the end.

`NoDiagnosticsLost` rests on `LossInv`: a task that carries its document's generation and was
cancelled by an edit of that very document exists only while the main loop stands
between setting that text and dating it. So the cancelled task is out of date by the time another
is queued, and a document's last task can be lost only to an edit of another.

### Debuggee

`Debuggee_proofs` proves `HistoryLosesNothing` and `HitsNeverDrift` for any
points, breakpoints and bounds. What makes them inductive is the serials: they
grow along the stack, and neither the record nor the ghost holds one the machine
has not handed out, so a new frame at a reused index starts with no history.
`HitsNeverDrift` then follows from `ArrivesIsFirstTime`: with the right history, the
code's test for an arrival is the test for a first time. `StepsKeepTheirPromise`
needs `Begun`: whatever frame now has the serial the resume began in is at the depth it
began at; the depth the code compares then tells what the serial does.

`TypeCorrect` is here and in the session's module too: what a run of TLC says of
types on two instances is proved of all.

### Session

`DapSession_proofs` proves the four properties the run checks, `NoDebugNeverPauses` (in
no run) and the session's types from one invariant, `Good`, of a session and its client.
It is their conjunction plus what a parked launch implies (its program is there, was not
begun, and the client was told nothing) and that a program without a parked launch is
past `configurationDone`. `Ready` names what each handler must establish before it sets
a program going, and `ResumedGood` shows that to be enough however the resume ends.

### Move checker

`Moves_proofs` proves `NoMisuse` for every set of bodies, of any size, any order of
the worklist and any path: a body that runs past the checker's traps never reads
what is moved or missing, never overwrites or abandons a linear value. Two
invariants carry it. `FixpointClosed`: once the worklist is empty, the flags entering
a block include what every edge into it carries, and the entry block's include the
start. It is inductive only with the worklist in it: a block not waiting has handed on
what it holds *now* to all its successors. And: where the running body is,
each local's content is among the flags there, and none is halted there only: the path
that runs has passed no trap, so where it meets one that has, at a join, its own flags
are kept beside the halted ones. The step from one point to the next is then one lemma
(`step` covers `Executed`), split by what the instruction does to the local.
The bodies are assumed to be bodies (`BodiesAssumption` of `Cfg`: finitely many blocks, each
ending in its one terminator; a trap and a const trap go on to one target, a return
to none); a parameter without a name is destructured at the start or trapped there
(`ParamsAssumption`, as lowering does).

`FlagsAreThePaths` proves the fixpoint exact: the flags entering a block are the contents
some path leaves there. It is about bodies without a trap of lowering's: past one, whether
a local is halted depends on the others a value was computed from, and its flags are no
longer those of its own paths. The set the paths reach is defined by a recursion that
grows it; as `Block` is finite it stops, at the least set closed under running a block
(`GrownIs`). That the flags miss none is then `FixpointClosed` once more; that they
imagine none is `PathInv`: each flag kept at any moment of the worklist is one that some
path leaves there.

`BlameIsReal` and `TemporariesAreNotLost` are about the walks back that name a site.
Those and the order of the blocks are depth-first walks, recursive functions over a
stack; `TailRecursion` says that a function which only goes from state to state exists,
`TailEnds` that where the steps sink it ends in a state its invariant holds of. So a
walk back that finds a point finds one from which the edges it may take lead to where it
started (`WalkBackIs`), and where it finds nothing there is nothing (`NothingBack`);
each said with sets of points closed under a step, as is `LeadsTo`. That the walk does
find a move is the flags' doing: whatever "moved" a state holds was brought there by a
path from a move (`BroughtInv`), traps' edges being edges like any other; and the value a
temporary really holds was brought to its point by one from what filled it (`HeldInv`), so
where it would be lost the report is made and the trap is set (`TempInv`).
A parameter without a name is the exception, filled by no point, which is what
`ParamsAssumption` is for.

### Loan checker

`Loans_proofs` proves `ScopeIsSomePath` for any bodies: when `compute_scope` stops, the
loans in scope entering a block are those some path brings there from their mint, live
and not ended on the way. The first half is the `changed` flag's: while a sweep has
changed nothing, every block it has passed hands on what it holds (`Closed`), so a sweep
that ends unchanged leaves all of them closed (`SweepInv`). The second is `PathInv`:
whatever is in scope entering a block, at any moment of any sweep, has come there on
some path. Both are stated of sets closed under a step, and `GrowthEnds` says once and
for all that a recursive function which grows a subset of a finite set to its fixpoint
gives the least closed one.

`NoPointerUsedStale` and `PlaceTempsStayExact` are about the body that then runs.
Neither holds of an arbitrary one, so both rest on `LoanBodiesAssumption` (section 2: the
fragment modelled, and what inference and lowering see to in it) and on `DerefAssumption`
(a dereference is a step of a place), besides what `Cfg` assumes of bodies, where traps
have their edges; `InstrIs`, `TypedIs` and `LoweredIs` are what the
proofs use of it. What the checker knows by then is gathered first: `live` is liveness,
a backward fixpoint that every edge respects (`LivenessIs`); a region covers what flows
into it (`ReachesOn`, `CoversIs`); a place resolves to one not of a place temp
(`ResolveIs`); the loans in scope at a point go on to the next while they are live
(`ScopeOn`); and where the run passes a point without a trap, no loan in scope conflicts
with an access made there (`HeedInv`, `Guarded`).

The invariant of the run is `Running`; each part is there because another fails without it.

* `Pointers`: a pointer points into what those it was borrowed through point at
  (`Within`), along one line of them (`Tree`), and never at a local that holds a pointer
  (`Grounded`).
* `Held`: a live local has a pointer, of the kind its type says.
* `Fresh`: a live local's pointer is not stale. This is the theorem; the rest keeps it.
* `OwnLoaned`, `ThroughLoaned`: whatever a live pointer was borrowed from, a local of
  the body's or what another live, exclusive pointer points at, has a loan in scope that
  is kept as long as the pointer is. An access that would make the pointer stale
  conflicts with that loan, so the point is trapped.
* `Apart`: two pointers to the same storage, neither borrowed through the other nor
  stale, cannot write. It settles accesses through pointers without a loan in common:
  two parameters', or two borrows of one local.
* `Unique`: an exclusive pointer is held by one local and its place temps, so the loan
  made through one of them is judged when another is used. This is where lowering's
  reborrows are needed.
* `Exact`: a place temp holds what its place does, which is `PlaceTempsStayExact`; a
  write that would change it while the temp lives is what `pinned_by` reports.

One lemma per part (`StepPointers`, ..., `StepThroughLoaned`) says that an instruction
the checker lets through keeps it; `Sources` is what they share: whatever a live local's
pointer was borrowed from after a step was so, for a live local with the same loans,
before it, or is the borrow just made. A call is one step: the callee's accesses are each
made through a pointer it was given, and the checker has judged the read or the move of
that pointer; what it gives is one of them (`HandedIs`), whose loans flow to the
destination.

### Parser events

`Parser_proofs` proves `PositionsHold` for any texts and any number of nodes and
errors: so no call of `parser.rs` and no forward parent of `builder.rs` meets one
of their `unreachable!()`. The invariant speaks of any list of events, so that an
event written (`Extended`), a Start closed (`Closing`), popped (`PoppedStart`),
wrapped or filled, and the splice each are one fact about the list they leave.
It is inductive only with one thing more: a marker that wraps nothing is no node's
forward parent, or popping it would leave one dangling. The splice
rests on `MovedApart`: every event has one place it went to, what was put in opens
nothing, and a patched forward parent names the place its wrapper went to
(`PatchedNames`); that the markers held are all before the literal is what
`parser.rs` asks of the caller.

### Left to TLC

* All liveness, and what needs `ENABLED`: TLAPS does not reach them.
* What `Groups` and `Votes` compute: `Tarjan` and the walks of types are `RECURSIVE` operators.
* Of `Parser`, the built tree (`TreeIsAsMarked`, `ErrorsAreWhereReported`): the builder
  folds over the events, and what a prefix of them has built is another invariant
  than the one of its positions.
* Of `Loans`, that inference and lowering do make only bodies that `LoanBodiesAssumption`
  holds of: neither is modelled, and it is read off their source.

A recursive function that grows a set to its fixpoint can be proved about, as `MemoIsRight` and
`ScopeIsSomePath` show: `Least`, from the well-foundedness of the naturals, stands in for
the induction theorem, whose operator parameter the provers cannot instantiate.

## 5. Not modelled, and the plan

Not modelled now: the flow checks on HIR and code
generation (planned below); lowering, the grammar's rules and inference's expression
rules, which are tens of thousands of lines of syntax-directed translation, one case
per construct and hardly a state between them: a model would be a second
compiler, and its properties a second test suite; diagnostics texts, editor
features, transports (no state, or no property a small model would say more about
than a test); editor packaging and scripts (not program logic). This is why the map
covers a small share of the implementation's lines: the lines with state,
interleaving, fixpoints and order are covered, and most lines have none.

What the modelled components leave out: of the machine, what changes no memory
(arithmetic, the construction of values, strings, output, jumps), nested aggregates and
pointers stored in memory; nested places and the tracker of linear results in `Moves`
beyond the facts of a type; more than one level of pointers, calls that relate regions in
any way but handing a pointer on, and unused borrows in `Loans`; structured types,
regions, safety and written annotations in `Votes`; fixes and wording of errors in
`TreeBuilder`; unused.rs and trap_guard.rs.

Order of what comes next, most important first:

1. `Closure`: outlives and capabilities as least fixpoints; safety edges in `Votes`.
2. `Mono`: the worklist and its caps; `Layout`, `Leb128` on bounded inputs.
3. Proofs: `TreeIsAsMarked`.
