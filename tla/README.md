# Velune: models, checks and proofs

TLA+ models of the Velune JavaScript engine, translated from its C++ source,
with the TLC configurations that check them and TLAPS proofs of the results
that hold for every value of the constants. Paths are relative to the
repository root, which `PROJECT.json` writes with the prefix `src/`.

## 1. The system

| Component | State it keeps | Operations | What makes it correct |
|---|---|---|---|
| VM execution core (`src/vm/vm.cpp`) | `frames_`, `stack_`, `pending_completions`, the C++ recursion of `execute_loop` | one per opcode, `propagate_completion`, `invoke`, `construct` | a program runs as its source means; operand depths are those the verifier computed; an activation never touches what lies below its boundary |
| Generators (`vm.cpp`, `heap.hpp`) | `generator_state`, `generator_suspended_` | create, `YIELD`, `resume_generator` | suspension loses nothing; one frame per generator; the resumer learns whether the generator ended |
| Bytecode verifier (`src/bytecode/verifier.cpp`) | worklist and depth map | `verify` | accepted code never underflows |
| Compiler (`src/compiler/*.cpp`) | chunk, loop and label contexts, scopes, upvalue lists, the compiler of the enclosing function | `compile_*`, `resolve_*`, `ScopeStack` | code, slots and handler ranges realise the program's meaning: every name finds its variable, every target is evaluated once |
| Promises and jobs (`src/runtime/runtime.cpp`, `context.cpp`) | `promise_state`, `promise_result`, `promise_reactions`, `jobs_` | `promise_resolve/reject/then/catch`, `settle_promise`, `run_jobs` | each pending promise is settled once, by the one who undertook it; reactions run in order |
| Module system (`src/module/module.cpp`) | `Record::state`, bindings | `load`, `link`, `evaluate`, `get_export` | a body runs once, after what it imports; success means done |
| Upvalues (`vm.cpp`, `heap.hpp`) | `captured_locals`, `HeapUpvalue::location` | capture, close, reset, clone per iteration | closures share a binding exactly when the source says so; no upvalue outlives its slot |
| Heap and collector (`runtime.cpp`) | `heap_`, roots, mark stack | `collect_garbage`, root handles | nothing reachable by the program is freed |
| Realms, contexts, VM registration (`runtime.cpp`, `context.cpp`) | `active_vms_`, `active_contexts_`, `realms_` | register, unregister, re-entrant `invoke` | every running VM is a root exactly while it runs |
| Global environment (`environment.cpp`) | declarative and object records, var names | declare, get, set, delete | precedence and conflict rules |
| Dynamic references (`dynamic_reference.cpp`) | `retained_references`, with regions | resolve, get, put, delete, release | a reference is resolved once and used as resolved |
| Objects (`context.cpp`, `value.cpp`) | properties, elements, prototype | `define_property`, `get/set_property_semantic`, delete | descriptor invariants, array length, acyclic prototypes |
| Abstract operations (`abstract_operations.cpp`) | none | conversions, comparisons, calls, iterators | a conversion calls what it must, once, in the language's order |
| Front end (`include/js/frontend`, `static_semantics.cpp`) | none | tokenize, parse, validate | what the language forbids is refused, and nothing else |

The engine is single-threaded. What makes it hard is not threads but
*re-entry*: a native function, a getter or `Generator.next` starts another
`execute_loop` on the same frame and operand stacks, so a throw, a return, a
yield or an engine failure crosses an alternation of JavaScript frames and C++
activations. The second difficulty is what is left behind by an early exit: a
pending completion, a flag, a job at the head of the queue, a module record
in the state `linking`. The third is order: reactions, finalizers and module
bodies must run once and in sequence through cycles, errors and retries.

A fourth difficulty is that one promise is kept by several parts together. Whether
`x += 1` means what it should depends on how the scope of `x` was resolved (a
local, an upvalue, a module cell, a name looked up in `with` objects), on
the instructions that keep its key or its reference, on the handler that drops
them and on the environment the frame is in. A test fixes one combination.

Interactions: the static semantics refuse trees before the compiler sees them
and the compiler refuses what its scopes cannot hold; the compiler's chunks are checked by the verifier and run by the
VM; the VM calls the context for properties, and the context calls back
`VM::invoke`; `run_jobs` makes a VM per handler, and handlers call the promise
API, which appends to the queue being drained; `evaluate` runs a VM per module
body, which reads other modules' bindings through upvalues.

## 2. Modules of the project

| Module | Models | Remarks |
|---|---|---|
| `Bytecode` | handler tables and handler search | pure operators, shared by VM and verifier |
| `Interpreter` | the VM execution core and generators | one action per opcode or group of opcodes with one control effect; `loops` is the C++ stack of `execute_loop` calls |
| `Verifier` | `BytecodeVerifier::verify` | `Depths` is the fixpoint the worklist computes |
| `Lowering` | `compile_*` for statements | recursive; a statement tree to a chunk |
| `Semantics` | the meaning of statements | reference definition, written over trees and independent of bytecode |
| `Completions` | properties of `Interpreter` | |
| `Syntax` | the tree (`ast.hpp`), values, bound and var names | one constructor per node |
| `EarlyErrors` | `static_semantics.cpp` | an operator that says whether there is an error |
| `Scopes` | `ScopeStack` | names to slots, initial binding states, refused declarations |
| `Compiler` | the compiler, from trees to chunks | one operator per `compile_*`; an `e` is a `Compiler` object |
| `World` | objects of a run, abstract operations, operators | functions from a world to an outcome |
| `References` | global environment, `with` lookup, references | composed over `World` |
| `Machine` | VM with values: variables, upvalues, references, `with`, calls, propagation | composed over `References` and `Bytecode` |
| `Engine` | early errors, compiler and machine in sequence | one action per group of opcodes; several scripts and modules in a row |
| `Meaning` | what a program means, evaluated on its tree | reference definition: no slots, upvalues, instructions or handlers |
| `Conformance` | properties of `Engine`, and what the language forbids | compares `Engine` with `Meaning` |
| `MCPrograms` | families of source programs | |
| `Harness` | compile, verify, run, compare | supplies the notation for source programs |
| `MCControlFlow`, `MCInvocation`, `MCGenerators`, `MCDeviations` | families of programs | |
| `PromiseJobs` | promises and the job queue | `run_jobs` is not atomic: a handler runs between reading the front job and popping it |
| `PromiseChain` | what a chain of promises promises | abstract: no reactions, no queue |
| `Modules` | loading, linking, evaluation | the recursion is the stack `calls` |
| `Heap` | cells, pointers, roots, and a collection in one step | abstract specification of the collector; its fields and roots are those of `heap.hpp` and `runtime.cpp` |
| `Collector` | `collect_garbage` | mark stack, tracing and sweep |
| `Objects` | property tables of ordinary objects, arrays, arguments objects, String wrappers and functions | operations are operators from an object to an object, so that the definitions can be compared with a reference in every state |
| `ObjectContract` | what ECMAScript promises of any object | abstract: own properties, extensibility and prototype only |
| `MCPromiseJobs`, `MCModules`, `MCCollector`, `MCObjects` | instances | no symmetry sets, because the runs check liveness; `MCModules` takes one import graph of each isomorphism class instead |
| `StackProofs`, `ExecutionProofs` | theorems about the execution core and generators | the first holds the lemmas on handler search and on stacks |
| `VerifierProofs` | theorems about the verifier, and about what its acceptance is worth to the VM | extends `ExecutionProofs` |
| `PromiseProofs` | theorems about promises and the order of reactions | |
| `CollectorProofs` | theorems about the collector | |
| `ModuleProofs` | theorems about linking and evaluation | |
| `ObjectProofs` | theorems about objects and `ObjectContract` | |
| `StorageProofs` | theorems about where objects keep properties, and about definitions and their reference | extends `ObjectProofs` |

### Correspondence with the code

**Interpreter.** `frames`, `stack`, `suspended` and `gens` are the fields of
`VM` and of generator objects. `loops` makes the C++ stack explicit: one entry
per active `execute_loop`, with its `boundary_depth`, the operand height its
caller restores, the generator it resumes and what the caller does with the
result. `result` is what the innermost activation has just returned. One step
is one turn of `execute_loop` with all the propagation it causes, or the return
of one activation. Values keep their kind (function, generator, object,
iterator result, boolean, other data) and a name. Tests, getters and operators
read an input from `inputs`, a nondeterministic bit that says which way they
went; after `MaxReads` the bit is FALSE, which ends every loop.

**Syntax, EarlyErrors, Scopes, Compiler.** A node is a record tagged with its
`ASTNodeType`. A `Compiler` object is the record `e`: its chunk so far, its
scopes, its controls, its upvalues and, in `up`, the enclosing compiler, because
resolving a name may add upvalues to every compiler in between. Code is laid out
with labels, and jumps and handler ranges become positions when the chunk is
finished (`Finish`), as `patch_jump` does. An instruction carries the number of
`with` statements around it (`with`), which stands for the chunk's table of
`with` regions.

**World and References.** A world is the sequence of objects and what the host
function `log` was given. An operation gives an outcome: normal, a throw (a
completion with an exception, which handlers see), or an error (an `Error` or
`EngineFailure` of the engine, which they do not). The object record is the one of
`HeapObject` for data properties; getters and setters are left to
`Interpreter` (as nested calls) and `Objects` (as descriptors), except the one of
`arguments.callee` in strict code, which throws.

**Machine and Engine.** `frames`, `stack`, `upvalues`, `cells` (the module
environments), `environments` (the `HeapDynamicEnvironment`s), `world`
and `result`. An open upvalue is a frame and a slot, a closed one has its own
variable; a frame has `captured` beside `locals` and, in `refs`, its
`retained_references`. A step is one turn of `execute_loop`. The early errors and
the compilation are each a step, so that a program is refused or runs.
`Machine` runs chunks without the bytecode verifier; depths are the concern of
`Harness`, and `StatementsStartClean` finds the same mistakes here.

**PromiseJobs.** The four API calls are enabled whenever the host or a handler
runs. `phase` says whether the host, the loop of `run_jobs` or a handler is
running. A handler returns any value or promise, throws, or fails with an
`EngineFailure`; a failure, and the self-resolution error, leave the job at the
head of the queue as the code does. The variables `source`, `kind` and
`registered` are history: no guard reads them. `make_promise` is a fixed choice of a
promise not made before: a cell's address means nothing to the code, so
behaviours that differ only in the names of promises are checked once, also for
liveness.

**Modules.** Every activation of `link_record` and `evaluate_record` is an
entry of `calls`. Errors return through all activations without changing a
record (`Unwind`), which is what the code does. The loader, the compiler and
a body may fail at each call.

**Heap and Collector.** A pointer is a triple of a cell, a field and a cell;
`HeapFunction`, `HeapObject` and so on list the fields of the structures with
the kinds of cell each may point to, and `Traced` the fields `trace_cell`
follows, so that the two can be compared. `held` lists what has a cell from
outside the heap: the realm, global bindings, host handles, jobs, module
environments and registered VMs. The program is any sequence of allocations,
loads, stores, deletions and changes of the holders, over cells that the VM
holds. `collect_garbage` is called by the host or by a native function and the
program does not run meanwhile. An upvalue has its value as a field, whether
open or closed; what an open upvalue's location points into is in `Machine`.

**Objects.** An object record has the fields of `HeapObject`: the table and its
insertion order, the dense elements with holes, the array length and its
attribute, the parameters that arguments are tied to, extensibility and
prototype. A descriptor is a record over the fields that are present. The
operators `define_own_property`, `delete_property`, `get_own_property_descriptor`
and `own_property_keys` follow the functions of those names branch by branch; an
action applies one of them. `array_pop` is two actions when reading the element
runs a getter, and any operation may happen in between. The constants
`Definitions`, `Writes`, `Deletions` and `Reparentings` list what a script may
ask for, `DenseReach` and `DenseLimit` stand for 1024 and 2^20, `MaxLength` for
2^32 - 1.

## 3. Runs

| Run | Question | Bounds | Result |
|---|---|---|---|
| `control_flow` | do nested try statements in loops, left in every way, run as their meaning says, with the verifier's depths, and end? | all pairs of an outer and inner try of three forms with five exits, three catch clauses and three finalizers each; two inputs | holds |
| `generators` | do suspension, resumption, chaining and abandonment keep the state consistent, do calls through frames, constructors, natives and getters keep their boundaries (also with the operand that `COPY_OBJECT_REST` leaves behind), and does all of it run as it means? | two generators, seven producers, seven consumer bodies, explicit `next`; calls three functions deep, four kinds of call at each level, seven innermost bodies; four kinds of call and three handlers around an object rest | holds |
| `programs` | is a program refused exactly when the language forbids it; does it otherwise do what it means, with the engine's structures in order, and end? | some 1,500 programs, below | holds |
| `promise_jobs` | does each pending promise keep exactly one resolver, in order; is the queue an implementation of `PromiseChain`; does a host that keeps calling `run_jobs` see every job run? | four promises, one handler function, two values | holds |
| `modules` | is a body run once, after its dependencies, is success true, and do host calls return? | every import graph of three modules with at most two imports each, up to renaming | holds |
| `collector` | does a collection free exactly what is unreachable, and does it end? | the global object, a prototype, a function and an upvalue; two pointers; two cells held by the program | holds |
| `objects` | do the storages of an object agree, does every definition have the result of the reference, are the essential invariants kept? | one object of each of five kinds and its prototype, two indices and `length`, ten descriptors, one mapped parameter, one getter running inside a pop | holds |
| `nested_handler`, `inner_target`, `rest_depth`, `module_retry`, `intrinsic_roots` | see section 6 | smallest instance that shows it | violated |

The programs of `programs` vary one part of the language over the others:
every operation on a reference (read, write, compound and logical assignment,
update, delete, typeof, call) over every place its name can be bound (local,
captured, upvalue, parameter, property of a `with` object, hidden by
`@@unscopables`, behind a `with` object, in a closure made under `with`, global, nowhere), and over
properties with fixed and computed keys, the key an object whose conversion the
host sees; every exit of a block out of handlers, finalizers and `with`
statements; every loop with every jump; every pattern wherever one may stand;
closures that share, outlive, copy and constrain variables; receivers, arguments,
constructors, classes, templates, optional chains; operators on all pairs of kinds
of value; scripts and modules after one another; and some seventy lists of
declarations and jumps, legal and not, in five kinds of body, sloppy, strict and
as a module. A program calls the host's `log` at each observable point, so
`MeansTheSame` compares orders and not only results. Loops run at most three
rounds; arrays have at most `MaxIndex` = 4 elements.

Why the bounds are enough: the handler search compares ranges pairwise, so two
nested try statements with an exit from each part exercise every outcome of
the comparison, and a loop around them every jump; three call levels put an
activation between two others; four promises allow a chain with an adoption, a promise
adopted twice, and two reactions on a promise that is pending and settles later, both
registered before it settles or one before and one after (the pending promise needs a settled one it waits
for); more reactions on one promise are covered by the proof; three modules give every cycle with and without a tail;
two pointers give a chain of two, a cycle and a cell reached on two ways; two
indices put a blocking element above and below the cut of an array, with
`DenseReach = 0` so that one of them is past the dense vector. Except for
what depends on `Lowering`, `Semantics` and the modules of `programs`, nearly all safety
results are also proved without a bound (section 4).

**Fairness.** The engine is a sequential program: `WF_vars(Next)` (`control_flow`, `programs`),
`WF_vars(Step)` (`modules`) and weak fairness of the marking loop (`collector`)
say only that the running call goes on.
In `LiveSpec` of `PromiseJobs`, weak fairness of `RunJobs`, of the loop and of
the handler's return says that the host calls `run_jobs` again and that a
handler ends; the host is documented to drive the queue. Programs whose loops
do not end are excluded by the input bound in `control_flow` and do not occur in
`programs`. A jump to itself, which changes no variable, is not a step of `Engine`
(`Spins`), so that a program it would hold for ever counts as one that does not end. Jobs that fail for ever are
excluded by the antecedent of `JobsDrain`: the code leaves such a job at the
head of the queue, and everything behind it waits.

## 4. Proofs

A theorem holds for every value of the constants that satisfies the assumptions
below; a run checks the same formula on an instance. Each safety theorem rests on an
inductive invariant, which TLC checked on a run before it was proved, and has one lemma per
action.

### The execution core and generators

`ExecutionProofs` (with the lemmas of `StackProofs` on the handler search,
on sequences and on nesting) proves, for every set of programs,
every bound and every set of generators:

* `TypesHold`: `Spec => []TypeOK`;
* `StacksNest`: `Spec => []StackDiscipline`;
* `BoundaryHolds`: `Spec => BoundaryRespected`;
* `FailureIsFinal`: `Spec => FailureBypassesHandlers`;
* `GeneratorsRunOnce`: `Spec => []GeneratorExclusive`.

The inductive invariant is `ExecInv`: `TypeOK`, the program is one of
`Programs`, `StackDiscipline`, `GeneratorFrames` and `GeneratorsSaved`.
`StackDiscipline` alone is not inductive, because `Yield` pops one frame and
returns from the activation: that this frame is the only one above the
boundary needs `GeneratorFrames` (the frame of a generator is the first one of
the activation that resumed it, and `YIELD` runs only there), and that a
resumed frame is again the frame of a generator needs `GeneratorsSaved` (a
suspended generator's saved frame is a frame of a generator function). Every
abrupt completion goes through the lemma for `Propagate`.

`GeneratorExclusive` needs `GeneratorInv`: two activations never run one generator;
a generator is `executing` exactly while an activation runs it, with the
exception of the one whose activation has just returned and whose resumer has not
yet looked (`StatesMatch`); and `generator_suspended_` is set only between that
yield and that resumer (`FlagOwned`), so that no other resumer can take it
for its own.

### What the verifier's acceptance is worth

`VerifierProofs` takes chunks as `verify` accepts them, with the depths it
finds, laid out as `compile_try` and `compile_break` lay them out (assumption
`ProgramsVerified`, below), and proves:

* `AcceptedIsSound`: what `verify` accepts is a fixed point of the control flow: each
  reached instruction finds the operands it requires, and passes control to
  instructions recorded at the depth it leaves, handlers included;
* `HeightsMatch`: `Spec => [](~LeavesOperand => HeightMatchesVerifier)`;
* `OperandsAreThere`: in such a program no instruction finds too few operands, and
  `RETURN` finds exactly one;
* `CallersAreKept`: `Spec => []CallersKeepOperands`;
* `CompletionsWaitInside`: `Spec => []PendingInsideItsFinalizer`;
* `OneCompletionWaits`: at most one completion waits in a frame.

*The verifier.* `Depths` is what is left when the rounds of the worklist find nothing
more. `verify` refuses a chunk with two depths for one instruction, so an
accepted chunk has at most as many pairs of an instruction and a depth as it
has instructions; every round that is not the last finds a new pair, so as many rounds
as there are instructions reach the fixed point. The induction over rounds is one
over a set of naturals (`NatSetInduction`, from the least element of a set),
since the library's theorems on induction cannot be used here. The hypothesis
on the number of pairs is a condition of `verify`, and not an assumption.

*Operands.* Neither `HeightMatchesVerifier` (about the running frame) nor `CallersKeepOperands`
(about suspended ones) is inductive: a return puts its value on the
operands of the caller, a throw cuts the stack at a frame below, and a
resumed generator brings its operands along. `HeightInv` says of every frame what it
owes: `CallersFit` and `NativesFit` (a callee starts, and a native's result is
put, one below the depth recorded at the place the caller goes on from),
`JumpsWait` (a break or continue that waits for a finalizer goes to a statement,
where the depth is 0), `SavedFit` (a suspended generator has the operands of the
place it resumes at, less the value `next` hands in), `TopFits` (the running
frame) and `Rooted`. It speaks of programs without an object rest that may throw:
`COPY_OBJECT_REST` leaves an operand behind when its getter throws
(`rest_depth`, section 6), which is why `HeightsMatch` has the hypothesis
`~LeavesOperand`; `CallersKeepOperands` states it itself.

*Saved completions.* `FinalizerInv` says where the completion of each frame
waits: for the running frame at the instruction it comes to, for a suspended one
both at the call and at the instruction after it, because a throw leaves from
the first and a return goes on to the second; after a failure at the instruction that failed. It also
says that at most one completion waits. Without that the invariant is not
inductive: `END_FINALLY` takes the last completion and goes on outside the
finalizer, where an earlier one would have no finalizer to wait in. The bound is
the other face of the finding `nested_handler`: whatever is raised inside a
finalizer replaces what was saved there, and does not join it.

### Promises

`PromiseProofs` proves, for every set of promises, values and functions:

* `TypesHold`: `Spec => []TypeOK`;
* `OneResolver`: `Spec => []SingleResolver`;
* `ChainsImplemented`: `Spec => ImplementsChains` (refinement of `PromiseChain`);
* `DrainedSettles`: `Spec => []OnlyCyclesStayPending`: with an empty queue
  every pending promise waits for another pending one;
* `ReactionsRunInOrder`: `Spec => []RegistrationOrder`.

The inductive invariant is the conjunction of `TypeOK`, `ReactionsWait` (a
reaction sits on the pending promise that is the source of its target),
`JobsCarryOutcomes` (a job carries the outcome of the settled source of its
target and no other reaction or job has that target), `PendingResolved`,
`FulfilledNeverPromise` (no promise is fulfilled with a promise, so an outcome
is never adopted twice), `HandlerOwnsFront` (while a handler runs, its job is
still the first one, whatever it enqueues) and `UnmadePending`.

`RegistrationOrder` says that what has run is a prefix of what was registered, and
that is inductive only with `OrderKept`: two registrations that have not run keep
their order among the reactions of the promise and, once it is settled, among the jobs, with jobs
of other promises between them. `RegisteredOnce` keeps apart the two
registrations one promise may make, as a handler and when it adopts.

### The collector

`CollectorProofs` proves, for every finite set of cells of any kinds:

* `TypesHold`: `Spec => []TypeOK`;
* `NothingDangles`: `Spec => []NoDangling`;
* `CollectionIsExact`: `Spec => CollectsExactly`, the refinement of `Heap`.

`NoDangling` is not inductive: that the sweep frees nothing in use needs
`Marking`, which holds during a collection: the stack is marked, the roots are
marked, every marked cell that has left the stack has marked children, and what
is marked is in every closed set of cells. When the stack is empty the marked
cells are therefore the least closed set. That the freed cells have no pointer
left to them rests on the lemma `EveryFieldFollowed`, which compares the fields
of the structures with those `trace_cell` visits, kind by kind.

### Modules

`ModuleProofs` proves, for every set of names and every set of import graphs,
with cycles, and every failure of the loader, a binding or a body:

* `TypesHold`: `Spec => []TypeOK`;
* `BodiesRunOnce`: `Spec => []EvaluatedOnce`;
* `DependenciesRunFirst`: `Spec => []DependenciesFirst`;
* `SuccessIsTrue`: `Spec => []SuccessMeansDone`.

The inductive invariant ties the three things the recursion works with. The
stack: `CallsNest` (the calls are of one kind, each for another record, which it keeps busy, and
only the innermost runs a body), `ImportsReached` (a call has dealt with the imports
before its position) and `RequestServed`. The records: `BindingsStored` (as many bindings as the
link has passed, all of them once linked) and `BusyExplained` (a record that is `linking` or
`evaluating` is so for a call on the stack or because of a failure). The history: `BodiesStarted`
(a body that started is running, done or failed). A record is never taken back from
`linking` or `evaluating` when a call fails, and `BusyExplained` is where that
enters: it is why `SuccessMeansDone` must except modules that once failed
(`module_retry`, section 6).

### Objects

`ObjectProofs` proves, for every set of objects, keys and inputs:

* `TypesHold`: `Spec => []TypeOK`;
* `MappedStayWritable`: `Spec => []MappedAreWritable`;
* `PrototypesEnd`: `Spec => []ChainsEnd`;
* `ContractKept`: `Spec => KeepsContract`, the refinement of `ObjectContract`.

The invariant is `TypeOK` (descriptors in tables are complete, and an object has the
parts its kind has), `MappedAreWritable`, `ChainsEnd` and the type of the pops under
way. The weight is in the lemmas on `define_own_property`, `delete_property`,
`set_array_length` and the writes: for every kind of object and every
descriptor, what `get_own_property_descriptor` answers afterwards is what the contract allows after what it answered
before. For a mapped argument this needs `MappedAreWritable`, because
the value is then read from the parameter and not from the table; for an array
whose length is cut it needs that the cut stops above the first
element that is not configurable. `ChainsEnd` says that the prototype relation is
well founded; `creates_cycle` looks for the object in the chain of
the new prototype, and a chain through the changed object would be such a chain.

`StorageProofs` adds, for the same constants:

* `StorageStaysInAgreement`: `Spec => []StorageAgrees`;
* `DefinitionsConform`: `Spec => []DefineConforms`.

For the first the invariant is extended by `TablesAgree`: the insertion order
lists each key of the table once, an index of an array is dense or in the table
but not both and lies below the length, the units of a string are not in its
table, and two keys never stand for one parameter. Each lemma says of one
operation what it does to these parts together: `CreateAgrees` and `PlaceAgrees` for an
element that becomes or stays dense, `SpillAgrees` for one that moves to the table,
`CutAgrees` for a length that is cut down to the last element that may not be deleted
(`ShrunkAs`: the code finds it in the insertion order, so the cut is right
only if that order is), `DeleteAgrees` and `PopAgrees` for removals. That the
listed keys are then the own properties (`KeysAreOwn`) rests on lemmas about
`Selected`, the filter on `property_order`, and `ByIndex`, the sort of the indices: a
sorted list is determined by its elements, so the sort of what the dense
elements and the table hold is the part of the ascending names that the object has.
Both operators are recursion on positions or a choice of a permutation, and
the lemmas show by the least counterexample that the first exists and that the
choice has something to choose.

The second compares `define_own_property` with the reference `Expected`,
which knows own properties only. `DefinedConforms` has one lemma per place that holds
the property: the fixed properties of a string (`StringConforms`), the length of an array
(`LengthConforms`), a new element (`CreateConforms`), a dense element that
stays dense (`PlaceConforms`) or leaves (`SpillSame`, after which it is as if it had always been in
the table), and the table, where `StoredConforms` also follows the value of a mapped argument to its
parameter. For the length, the code computes a target from the blocking
elements and the reference takes the lowest length the elements allow;
`LengthTarget` shows that they are the same number, which is false without `TablesAgree`. The
invariant has `ParametersKept` besides, because a definition writes parameters.
What `InReference` excludes is listed in section 6.

### Assumptions

TLC evaluates each of them on the instances of the runs.

* `ProgramsWellFormed`, `ProgramsVerified` (`Completions`): each chunk is one that
  `verify` accepts with the depths it computes, and is `Structured`: a jump
  that runs finalizers and `END_FINALLY` stand where the stack is empty, a
  finalizer belongs to one handler, and no other instruction leads out of a finalizer. `run_impl`
  verifies a chunk before it runs; `Structured` is how the statements of
  `compiler.cpp` come out. TLC evaluates both on everything `Lowering` compiles
  in `control_flow` and `generators`.
* `ConstantsTyped`, `LiteralsAreStrings` (`Completions`), `ConstantsDistinct`
  (`PromiseJobs`): sentinels differ from the values they stand beside, and the names the
  interpreter makes up itself are strings.
* `HeapConstants` (`Heap`): finitely many cells, kinds from `heap.hpp`.
* `GraphsAssumption` (`Modules`): an import graph gives each name a sequence of names.
* `BoundsAssumption`, `KeysAssumption`, `HeapsAssumption`, `InputsAssumption`
  (`Objects`): the names of indices are keys other than `length`, the heaps to start from
  satisfy the invariant with `TableAgrees`, and the inputs are objects, keys and
  descriptors, whose value is never `Hole`: it marks an empty `std::optional` in the
  dense elements and is no value of the language.

### Only model-checked

* The temporal properties under fairness: `Termination`, `JobsDrain`,
  `HostCallReturns`, `CollectionEnds`.
* What mentions `Lowering` or `Semantics`, which are recursive: `RunsAsSpecified`. `SavedCompletionSurvives`
  is false in general (`nested_handler`).
* `HeightMatchesVerifier` in programs with an object rest, as far as it holds there.
* The properties of `Conformance`, whose compiler and conversions recur over
  trees and objects.
* Of `Modules` and `PromiseJobs`, only the liveness properties; of `Objects`, nothing.

## 5. What is abstracted or left out

* Values in `Interpreter`: no arithmetic, strings or property tables. An operator
  that may throw reads an input bit.
* `with` regions, dynamic references, upvalues, classes, destructuring and
  switch are not in `Lowering` or `Interpreter`, whose catch clauses bind no name;
  they are in `Compiler` and `Machine`, which leave out generators, natives that
  call back, getters and setters. A function of the program that a conversion,
  an iterator or `instanceof` would have to call ends a run of `Engine` with the
  error `nested`, which no program of the runs meets.
* Numbers in `World` are small integers and NaN. Fractions, infinities, negative zero,
  `/`, `%`, `**`, the bitwise operators and shifts are left out, and so are BigInt and
  symbols other than the well-known ones the operators use.
* `Interpreter` checks the operand of `POP` and `SET_LOCAL`, which `execute_loop` takes
  unchecked; by `HeightMatchesVerifier` it is there in every chunk that is run.
* The elements of an arguments object of `World` are not tied to the parameters of a
  sloppy function; that mapping is in `Objects`, and no program of the runs
  assigns one and reads the other.
* Objects made in a run have data properties, an array has its dense elements and
  its length (holes, attributes and the sparse table are in `Objects`).
* The verification in `run_impl` is left out of `Machine`: `Verifier` has it.
* Modules are run in the order given; how that order comes about is in `Modules`.
* The code has no IteratorClose; an early exit from `for-of` abandons the
  generator, and the model does the same.
* A generator resumed with no running frame (`run_impl` with a generator), and
  `propagate_completion`'s failure for a boundary with no frame, which no
  caller can reach, are not modelled.
* `run_jobs` called from inside a handler, and `link` or `evaluate` called from
  inside a module body, are not modelled. The first runs the front job twice
  and pops a queue the inner call has emptied.
* In `Objects` a setter is not run: it is the last thing [[Set]] does, and what it
  does to the heap is further operations of the script. Objects are not allocated
  during a run, receivers are objects, and property keys are already converted.
* `get_export` only reads; the destructor of `ModuleSystem` is not modelled.

### Not modelled

* The tokenizer and the parser: pure functions whose input is text, without state that
  outlives a call. What they could get wrong is which tree a text has, and a model of
  that is the grammar a second time, character by character. The models start from trees.
* Regular expressions, the library functions of `ensure_builtins`, atoms and
  error texts: library code over values the models keep abstract.
* The declarative half of the global environment and its list of var names: the
  class has them, and no caller declares a name in them.
* Registration of VMs and realms as roots, and the lifetime of `FunctionCode`: planned.
* The builder's encoding, the disassembler and the limits on sizes (32-bit offsets, slots).
* The command line, the test262 runner and the fuzz target: input and output.

## 6. Where code and documents disagree

Each is a run whose property states the document's sentence and which TLC
violates; `PROJECT.json` quotes the sentence.

* `nested_handler`: a throw caught inside a finally block drops the return or
  throw the block was entered with.
* `inner_target`: a break resumed after an inner finalizer also runs the
  finalizer of an outer try statement that contains its target.
* `rest_depth`: after an object rest whose getter throws, the handler runs with
  one operand too many. `CallersKeepOperands` and `RunsAsSpecified` except programs with
  an object rest and a handler (`LeavesOperand`); the other properties of
  `generators` are checked for them too.
* `module_retry`: a module whose linking failed is reported as linked by the
  next call, because the state `linking` is never taken back (evaluation does
  the same with the state `evaluating`).
* `intrinsic_roots`: `mark_roots` visits five of the realm's thirteen object
  fields. The prototype objects of TypeError, ReferenceError, Symbol, Boolean and
  others are kept alive only by properties, such as the constructors on the
  global object, that a program may delete; a collection then frees what the
  realm still points to.

`YIELD` saves no pending completions (`vm.cpp:1763`): a generator that yields in a
finally block forgets the return or throw the block was entered with, and
continues after the try statement when it is resumed. The model does the same,
and the programs that are checked do not yield in a finally block.

A generator that calls its own `next` ends the run with an `EngineFailure` that
its own catch clause cannot see; no document promises otherwise.

In `define_own_property` a change between data and accessor resets `enumerable`
and `configurable` where ECMA-262 keeps them (`context.cpp:983`), and a function's
`length` and `name` are answered for by `get_own_property_descriptor` but have no
table entry, so they are not listed, survive their deletion and are redefined as
if absent. No document of the repository speaks of either; `DefineConforms` and
`KeysAreOwn` leave them out and say so.

The programs of `control_flow` and `generators` avoid these shapes, so
that what holds otherwise is still checked.

### Found with `programs`

The following is in the code and in the model alike. The documents promise
"lexical scopes and closures" and say no more, so no run states a sentence of
theirs; the programs of `programs` avoid each shape, and adding one makes the
named property fail.

* A block that declares a `let`, `const` or class, or a catch clause with a parameter,
  that one frame enters twice fails with "binding initialized more than once"
  (`vm.cpp:66`): only the heads of loops reset their slots (`NoInternalFailure`).
* An import read two functions down gets the index of its module cell as the index of
  an upvalue (`compiler.cpp:179`), and making the closure fails (`NoInternalFailure`).
* A name declared inside a `with` body and read from a closure or from another `with`
  in it is looked up in the object first, though its declaration is nearer
  (`MeansTheSame`).
* `delete x` of a name the program made global is decided when it is compiled, and never
  deletes (`MeansTheSame`).
* The computed key of an object literal is converted after its value is evaluated;
  `undefined[k]` converts `k` before it throws; `call_method` looks the method up after
  the arguments are evaluated; a destructuring assignment evaluates a member
  target after it has read the value (`MeansTheSame`).
* An unlabelled `break` inside a labelled block leaves the block and not the loop
  around it (`MeansTheSame`).
* The initializer of a `var` under `with` is evaluated before its target is
  resolved, and a destructuring `var` there ignores the `with` object (`MeansTheSame`).
* A `var` in a body that repeats a parameter with a default starts undefined; a
  closure in the head of a `for` shares the first round's variable; a named function
  expression may assign its own name; `for (let x of x)` sees the outer `x`; a method
  body sees its own name (`MeansTheSame`).
* Optional calls and tagged templates of a name found in a `with` object lose their
  receiver; a strict assignment to a deleted global makes it again (`MeansTheSame`).
* Reading a variable before its declaration, or writing a constant, is an `Error` of
  the engine when the variable is a local or an upvalue, and no catch clause sees it.
  `MeansTheSame` compares it with the exception of the language, in programs that do not catch it.
* `for-in` over an ordinary object also visits the built-in functions of
  `Object.prototype`, which are enumerable (`context.cpp:1355`).
* Array patterns call `next` after the iterator is done and never close it.
* Module code is validated as sloppy code (`static_semantics.cpp:13`): strict names in a
  module are accepted. So is `[eval] = [1]` in strict code (`RefusedWhenIllegal`).
* Refused though legal: a function declaration with the name of a parameter or of a `var`, two
  function declarations of one name, functions in blocks, `catch (x) { var x }`
  (`RefusedWhenIllegal`). Accepted though illegal: an arrow's `let` with the name of
  a destructured parameter, a `var` in the body of `for-of` with the name of its head.

## 7. Plan

Done: the execution core with generators, its verifier and compiler; promises;
modules; the heap and its collector; objects; the front end from trees on, the
whole compiler, closures, references, the global environment and the
conversions, compared with the meaning of programs; the proofs of section 4. To
come, in this order:

1. The operations of `Machine` on upvalues apart from the recursive modules, and the
   theorem that an open upvalue names the slot that knows it.
2. `VmRegistration`: `active_vms_` and nested `run`, `call` and `invoke`, with the lifetime
   of `FunctionCode`.
