# Formal models of MQT Core

TLA+ specifications of the parts of MQT Core whose correctness rests on the
order of events: device sessions and jobs that worker threads run, device
libraries that are shared and torn down, tables that identify objects by their
addresses and collect them, a runtime that many programs share, and compiler
passes that rewrite a program while they keep records of it. TLC checks
small instances; TLAPS proofs cover the central modules for every instance.

Contents: [the system](#the-system) · [modules](#modules) ·
[runs](#runs-bounds-and-fairness) · [what the code does not keep](#what-the-code-does-not-keep) ·
[proofs](#proofs) · [not modelled](#not-modelled) · [plan](#plan)

## The system

MQT Core is a C++ library of data structures for quantum software (paths are
below `src/`; the `.cpp` files are in `src/src`, the headers in
`src/include/mqt-core`).

| Component | State | Operations | Hard behaviour |
|---|---|---|---|
| DDSIM QDMI device (`qdmi/devices/dd`) | a singleton with an atomic counter of running jobs and an atomic status; sessions in a map under a mutex; jobs with an atomic status, parameters, a future and results | allocate, initialise and free a session; create, configure, submit, cancel, wait for, read and free a job | every submitted job is a `std::async` worker; clients, workers and destructors interleave on unguarded members |
| QDMI driver (`qdmi/driver/Driver.cpp`, class `Driver`) | ordered registry of definitions, disabled identifiers, opened devices, the client catalog and client sessions | register, register if absent, open, open fresh, allocate sessions | openings fail in the middle of building the catalog; definitions are replaced around openings |
| Device opening (`Driver.cpp`, classes `DynamicDeviceLibrary`, `QDMI_Device_impl_d`) | cache of weak pointers to loaded libraries, device and child sessions, jobs | load and initialise a library, construct a device with its children, destroy it | two threads share a library while a third destroys the last user; every library call may fail |
| Device registry and configuration (`DeviceRegistry.cpp`, `DeviceConfiguration.cpp`) | none beyond one call | read and merge layered files | precedence and re-definition of identifiers |
| FoMaC (`fomac`) | shared handles on driver objects | queries, job submission | life times of wrappers |
| NA and SC devices (`qdmi/devices/na`, `sc`) | constant descriptions, sessions | property queries; jobs are refused | none |
| DD package (`dd/Package`, `UniqueTable`, `ComputeTable`, `UnaryComputeTable`) | nodes by address, a unique table per level, twelve compute tables, counted root edges | make nodes, look up weights, incRef, decRef, collect, resize, reset | three tables that become due independently; results remembered by address |
| Real number table (`dd/RealNumberUniqueTable`) | buckets of linked lists, tail table, flags in link words, collection limit | look up, collect, clear | tolerance intervals across buckets; flags lost on relinking |
| Memory manager (`dd/MemoryManager`) | chunks and a free list | get, return, reset | growth |
| DD clients (`dd/Simulation`, `FunctionalityConstruction`, `Approximation`, `StateGeneration`) | diagrams under construction | simulate, build, approximate | each must pair incRef and decRef on every path |
| QIR runtime (`qir/runtime`) | a singleton: address mode, qubit and result registers, permutation, state, output | the QIR intrinsics; reset per shot | one address of the wrong kind changes the meaning of all; programs follow one another, and workers run them at once |
| QIR session (`qir/jit`, `runner`) | a compiled module | compile, rewrite, run shots | errors of LLVM |
| Circuit optimizer (`circuit_optimizer`) | during a pass: the circuit, per qubit the list of the operations on it, open blocks | fifteen passes | operations far back are rewritten, moved and cancelled while lists and iterators point at them |
| MLIR lowering between QC and QCO (`mlir/lib/Conversion/QCToQCO`, `QCOToQC`) | maps per region from references to current values, captures, modes | convert every operation; convert the terminators | references become values that may be used once, through registers, modifiers, loops and branches |
| MLIR place-and-route (`mlir/lib/Dialect/QCO/Transforms/Mapping`) | lines with iterators, layout, a stack of blocks | place, route, dispatch regions, restore, converge, vote | three records of where a qubit is; ways out of a region must agree |
| Intermediate representation, OpenQASM 3 front end, ZX calculus, algorithms, NA computations | sequential containers | build, parse, validate | layouts under rewriting |
| Python bindings, rest of the MLIR collection, vendored TOML | | glue, LLVM-driven rewriting | |

How they interact: a FoMaC client calls the **driver**, which opens devices
through **device opening**; the driver's wrappers create sessions and jobs in
the **DDSIM device**; a job's worker simulates with its own **DD package**
(which owns a **real number table**) or, for QIR programs, calls a JIT session
that drives the one **QIR runtime** of the process. Programs that are compiled
rather than run go through the **circuit optimizer** (as
`QuantumComputation`) or through MLIR, where a QC program is **lowered** to QCO,
**placed and routed**, and lowered back; each works on a program of its own.

What makes each correct: the device's counter, status and life times agree with
its workers and every call returns; registry, opened devices and catalog agree
after any sequence of calls; a library is loaded once, used only while it is
initialised and nothing leaks on any failure path; equal diagrams are equal
pointers and nothing in use is collected; equal numbers share an entry; a
program sees qubits and results of its own; a compiler pass keeps what the
program computes, in every iteration that other rewrites may observe.

## Modules

| Module | Models | Source |
|---|---|---|
| `QDMIJob` | abstract life cycle of a job as its client polls it | (specification) |
| `DDSIMDevice` | sessions, jobs, client threads, workers | `qdmi/devices/dd/Device.cpp` |
| `QDMIDriver` | class `Driver` | `qdmi/driver/Driver.cpp` |
| `DeviceOpening` | library cache, constructor and destructor of a device | `qdmi/driver/Driver.cpp`, `.hpp` |
| `DDPackage` | nodes, unique tables, roots, compute tables, collection | `dd/Package.*`, `UniqueTable.*`, ... |
| `RealNumberTable` | buckets, tails, flags, limits | `dd/RealNumberUniqueTable.*` |
| `QIRProgram` | abstract: what a QIR program may rely on | (specification) |
| `QIRRuntime` | the runtime | `qir/runtime/Runtime.*`, `QIR.cpp` |
| `CircuitSemantics` | operations, what the optimizer asks of them, what a circuit computes | `ir/operations`, `ir/QuantumComputation.cpp` |
| `BlockCollection` | collecting operations in blocks | `circuit_optimizer/CircuitOptimizer.cpp` |
| `CircuitOptimizer` | the fifteen passes | `circuit_optimizer/CircuitOptimizer.cpp` |
| `QCToQCO` | writing a QC program and lowering it to QCO | `mlir/lib/Conversion/QCToQCO` |
| `QCOToQC` | the way back, and the round trip | `mlir/lib/Conversion/QCOToQC` |
| `TokenSwapping` | layouts, coupling graph, SWAP sequences between layouts | `mlir/lib/Dialect/QCO/Utils`, `Mapping.cpp` |
| `Mapping` | place and route, with regions | `mlir/lib/Dialect/QCO/Transforms/Mapping` |
| `MC*` | symmetry sets, alphabets, programs for TLC | |
| `*_proofs` | theorems | |

Definitions have the names of the functions they model where TLA+ allows; the
`map` of `PROJECT.json` gives the lines. A definition named `Bug_...` is a
plausible mistake in the definition that follows it; no specification uses it,
and each property is violated when one of them takes the place of the
definition after it.

### DDSIMDevice

Each access to an atomic (`status_` of a job, `runningJobs_` and `status_` of
the device) and each access to a job's future is a step; `pc[c]` is where client
thread `c` is inside a call and `worker[j]` where the worker of job `j` is.
`submit` is `submitLoad` (the check), `submitStore` (SUBMITTED), `submitSpawn`
(`std::async`) and `submitAssign` (the future reaches `jobHandle_`); a worker is
`increase`, `setBusy`, `setRunning`, `body`, `setFinished`, `decrease`,
`setIdle`. The session destructor runs under the session mutex and destroys jobs
one by one, the results of a job (declared last) before its future, whose
destructor waits for the worker. A program is its format, whether its payload is
text or bytes, and whether it is sampled; its execution succeeds or throws.

Clients honour the life time of handles, and the creator of a job configures,
submits and frees it: without that, two threads racing in unguarded members are
undefined behaviour that no property survives. Two more promises are the
parameter `Contract`: `ownerCancels` (no other thread cancels the job) and
`jobsFreedFirst` (sessions are freed after their jobs, as the driver does).
Properties are checked with as few promises as they need.

`JobLifeCycle` is the refinement of `QDMIJob`: `status[j]` as polled (NONE and
FREED outside of the job's life) goes from CREATED through SUBMITTED and RUNNING to
DONE or FAILED, runs at most once and never leaves CANCELED.

### QDMIDriver

A call is one step, since no member of the driver has a lock and it is therefore
used by one thread, except the construction of the catalog, which is a loop over
`open` and is stepped through (`materializeClientCatalog`); every opening
succeeds or fails. A call that throws without an effect is a stuttering step.
The registry's files are the nondeterministic `Init`: any list of distinct,
enabled definitions beside any set of disabled identifiers. `CatalogOfConfiguration` says where the
catalog's devices come from and in which order (`CatalogInOrder`), that none is missing which could be opened
(`CatalogComplete`, until the first session exists; afterwards the catalog stays as it is) and
that every session shows it.

### DeviceOpening

One process is one device object: `lookup`, `reuse` or `load` and `initialize`,
then the constructor of the device and of each child (`sessionAlloc`,
`setParameters`, `sessionInit`, `queryChildren`), jobs, and the destructor
(`clearJob`, `sessionFree`, `release`, `finalize`, `close`). `openFresh` reads
the registry only, so threads may run it at once; they share the library cache.
The library itself is external: every call into it may fail. `cached` is the
weak pointer, `refs[i]` the owners of library object `i`; the last owner runs
`device_finalize` and `DL_CLOSE` with no lock held. All objects of one path share what the
loader has loaded: `code` is its state (unloaded, loaded, initialized or finalized), `codeBy`
the object that initialized or finalized it last, while `lib[i]` is how far object `i` itself
is; the loader unloads the code with the last handle (`CloseHandle`). `FreedInsideOut` asks that a session runs
on code that its own object has initialized and that nobody has finalized since but an object that had lost
its last owner before: that one exception (`UsableCode`) the code does not exclude, see
[below](#what-the-code-does-not-keep).

### DDPackage

A node is an address, its content the level and the successor edges; a weight is
an entry of the number table or a static number. Arithmetic is left out: any
node whose successors lie below it may be built, any result may be remembered.
What is kept is everything that decides which memory is in use: lookup or
insertion in the unique table, skipped identities, return to the memory manager,
counted roots, marking, the three sweeps in their order with the forcing of the
node tables when a number was collected, which compute tables each sweep clears,
`reset` and `resize`. The number 0.5, which the package enters as immortal, is `Half`; its mark may have been
lost (see `RealNumberTable`), so a sweep may take it or not. A sweep of the numbers, a forced one too, ends
at once when the table has no more entries than there are immortal numbers (`Minimal`,
`RealNumberUniqueTable.cpp:137-139`): a single unused number stays then. As the compute tables do not influence
each other, a behaviour follows one of them (`op`), and one bucket of it (`entry`). The run follows three of
the twelve, `vectorAdd`, `matrixVectorMultiplication` and `matrixTrace`; the theorem covers the nine that
a collection clears at all. `cutOff` is a history variable: the
nodes whose level a smaller `resize` dropped, which the code leaks.

### RealNumberTable

Numbers are integers in multiples of a unit with a tolerance `Eps` and a bucket
`Width`; a bucket is a sequence, the tail table separate state. `findOrInsert`
is the scan with the tail shortcut, `lookupAtBorder` the case of an interval
that touches two buckets. The mark and immortal flags are bits of the link word
which `LLBase::setNext` overwrites: `Link` and `Relinked` clear them where the
code does. `live` stands for what the package's roots reach, which it marks
before and unmarks after a collection.

### QIRRuntime

A pointer is a number; static programs use small ones and dynamic programs those
the runtime hands out from `Base`. The quantum state is one of `0 1 + -` per
level, enough to tell levels apart and closed under X, H, measurement and an X
controlled by a classical qubit; multi-qubit gates share the control flow of
`createOperation`. `ModeAfter`, `Id`, `SizeAfter` and `PermutationAfter` are
`translateAddresses` and `enlargeState`; `swap` only touches the permutation. Programs
use only what they hold; after `reset` another program, possibly of the other
kind, starts on the same object. `ProgramView` is the refinement of `QIRProgram`,
in which qubits have values of their own; the history variable `call` makes the
call and its arguments visible, so that a gate on the wrong qubit is not excused
by being a right gate on another one.

### CircuitSemantics, BlockCollection, CircuitOptimizer

A caller appends operations to a circuit (`Build`) and runs one pass. Three
passes build the DAG, per qubit the list of the operations on it, while they
rewrite (`swapReconstruction`, `cancelCNOTs`, `singleQubitGateFusion`); they
take a step per operation, as do `collectBlocks` and `collectCliffordBlocks`,
so that the properties see every iteration. The other ten passes are one action
each, and the backward walks of `removeDiagonalGatesBeforeMeasure` and
`removeFinalMeasurements` recurse over iterators as the code does. A refused
circuit (an exception of `deferMeasurements`) is an outcome of its own, and it
keeps what the pass had already done to it. An
iterator that is dereferenced at `rend` ends in `pc = "crashed"` or goes on.

What a circuit computes is exact: amplitudes are integers modulo the prime
7681, in which 1/2, -1 and i have square roots, so that H, X, Z, S, T, CX, CZ
and SWAP are the images of the real gates, and two circuits are compared on a vector without
symmetries. `Outcomes` is the distribution of the classical bits through
measurements, resets and if-else operations.

The translation was compared with the compiled library: on about 50,000 circuits,
within and outside of the premises below, all fifteen passes of the model return
exactly the operations and layouts that the library returns.

### QCToQCO and QCOToQC

A QC program is written one operation at a time and lowered as it is written,
which is the order in which the dialect conversion visits it; the captures of a
region are known when its operation is written, as the code collects them
before it converts. `low` has the maps
of every region (`qubitMap`, `tensorMap`), aliases for the arguments of
modifiers, and the emitted QCO operations. Beside each value stands what it
means: the content that a cell has after some operation. `materializeQubits` and
`commitQubits` extract the qubits of a register and insert them in the reverse
order; modifiers, loops and branches pass their captures in as operands and get
results back; terminators are converted when the program is complete.
`QCOToQC` is a fold over the emitted operations, and `RoundTrip` says that the
program comes back as it was written. Programs are
those the code accepts: distinct operands, qubits of a region deallocated in it,
static qubits at function level, an `if` without else has no classical
results. Mixing the two allocation modes is written too and rejected. A region that captures nothing has no maps; what is allocated in it
is entered in the map of a region around it, if one has a map (`Placed`). Such a program is followed in phase `stray`, with all it may do
in between, until the conversion of the deallocation finds the region's own map empty and aborts (`DeallocNotFound`). `NamesAssumption` says that registers and slots are finite in
number and that the references of qubits, registers, slots and modifier arguments are told
apart, as they are different values of the program.

### TokenSwapping and Mapping

The block that is being routed is a set of lines, one per hardware qubit: the
operations its value flows through. `route` passes what is executable and
inserts SWAPs, which exchange the tails of two lines, the recorded program qubits
and the layout; `dispatch` enters the regions of a loop or a branch,
`endRegion` realigns and restores, `merge` steps through `converge` and
the vote among the layouts of a `switch`. The heuristic search is left open: any SWAP sequence that
moves a qubit of the front, repeats no layout and ends with neighbours. `held`
is a history variable: the program qubit whose state really is on a line.
`TokenSwapping` has the F-graph, happy chains and unhappy SWAPs of `restore`.
The target is a connected graph (`ConnectedAssumption`, which its construction checks),
has a vertex, and a program is a sequence of `Operations`: these have their qubits once
each, act on at least one unless they have regions, and have as many regions as their kind
(`ProgramsAssumption`); regions nest finitely (`NestingAssumption`). An operation on no qubit is on no
line, so the pass never meets it.

## Runs, bounds and fairness

| Run | Configuration | Question |
|---|---|---|
| `ddsim` | 2 clients, 1 session, 2 jobs, both promises | counter and BUSY status exact in every interleaving of two workers, life cycle, waits |
| `ddsim_live` | 2 clients, 2 sessions, 1 job, two formats, no promise | readers, life times, extraction, termination of every call |
| `qdmi_driver` | 3 identifiers, 2 payloads, 3 devices, 2 sessions | consistency of registry, devices and catalog |
| `device_opening` | 3 threads on one library, 2 children, 1 job per wrapper | sharing, life times, failures, termination |
| `real_table` | 8 numbers in 3 buckets, 4 entries, limit 2 | lists, tails, live numbers, limits, lookups away from borders |
| `dd_package` | 2 vector nodes, 1 matrix node, 2 levels, 0.5 and one other number, 3 of the compute tables | canonicity, leaks, life times through collections and resizing |
| `qir_runtime` | 3 static qubits; 2 allocated qubits, 3 results, 2 references | registers, modes, permutation, refinement |
| `qc_round_trip` | all programs of 5 operations on 2 qubits and a register of 2 slots, regions nested twice | current values, linearity, yields, round trip |
| `mapping` | 573 programs on a line of 3 vertices, any initial layout, searches of up to 2 SWAPs | adjacency, records, regions, operands, restoration within four times the optimum, termination |
| `circuit_optimizer` | for each pass all circuits of up to 3, 4 or 5 operations from an alphabet of up to 11, on 3 qubits | meaning, outcomes, DAG, layouts |
| `mapping_branches` | as `mapping` | violation: see below |
| `collect_blocks` | circuits of gates, any block size | violation: see below |

Why the bounds are enough. Two workers give every order of the two-step
updates of counter and status; one more repeats them (and the invariants are
proved for any number). A single job with two clients contains every race on one
job, and the second session the interference through the session mutex. Three
device threads allow one to open while a second destroys and a third uses the
library; two children are needed for a failure after one child was built. Three
identifiers let a catalog entry fail between two that succeed. Buckets hold up
to three entries, so that insertions at the front, in the middle and at the end
and the removal of each occur; the 8 numbers include pairs within the tolerance,
at it and beyond it, and both sides of a border. Two vector nodes are the least that share
structure and can be duplicates; with one number beside 0.5 the table of numbers is both at and above the size
at which a sweep ends at once; one root with one reference is enough, as a collection only asks whether a count is zero; the three compute tables are one invalidated by
vectors only, one by all three kinds and one by matrices and numbers. Three
static qubits are needed for a permutation that differs from its inverse.

In `qc_round_trip` a region-bearing operation, one operation in it that uses what the
region captures, its end, one operation behind it and the allocations are five; two
levels nest a modifier or a loop in a loop or a branch. A line of three vertices is the least
on which qubits are not neighbours and on which three of them rotate; the programs have every
pair of gates around and inside each kind of region, and two nested ones.
The passes of the optimizer look at one earlier operation of each qubit and
recurse from one qubit into another: three qubits and four operations give a
walk that comes back to the qubit it started from.

The circuits given to a pass satisfy its premises, `MCSupported`: `deferMeasurements` gets
circuits that leave a measured qubit and its bit alone, except for if-else operations
on the bit, and of these not those that compare a register by `!=`, `eliminateResets` has a compound operation with a reset only behind a reset outside,
`collectBlocks` has gates whose blocks cannot pass one another, and
`collectCliffordBlocks` blocks that can hold every Clifford gate, on two qubits. What the passes do without
them is told under [what the code does not keep](#what-the-code-does-not-keep).

Deadlock checking is off for `ddsim`, `ddsim_live` and `qdmi_driver`: there the
bounded supply of jobs, sessions and device objects runs out and clients may simply stop. It is
off for `qc_round_trip`, `circuit_optimizer` and `collect_blocks` as well, where
the pass returns and nothing is left to do. In the others some step is always possible.

Fairness. `ddsim_live` assumes weak fairness of each worker and of each client
that is inside a call: the operating system schedules started threads. No client
is obliged to call anything. A timed wait may expire and needs no worker. The
session mutex needs no fairness for `CallsReturn`, because in the model a call
counts as entered when it has the mutex. `device_opening` assumes weak fairness of each constructor and
destructor that is under way, and nothing about who gets the cache's mutex next.
`mapping` assumes that the one thread of the pass goes on until the pass ends. The choices of
the search and of the coin in `converge` are free; `RoutingEnds` holds for all of them.

## What the code does not keep

Two `violation` runs check a sentence of a comment or a document that TLC finds
violated; `findings` in `PROJECT.json` quotes it.

* `OperandsKeptInBranches` (`mapping_branches`): `dispatch` enters the layout a branch or a
  while loop ends with in the records of the parent but does not exchange the uses of
  its results, so later gates act on other program qubits.
* `MeaningKept` (`collect_blocks`): a gate that joins a block is written at the
  block's position, in front of blocks on its other qubits that were finalized since.
  `collectCliffordBlocks` does the same when a Clifford gate is larger than
  a block (nothing is blocked), when a new block is opened (the older ones are not
  blocked) and when a block moves behind gates on qubits it has blocked.

Observations made while modelling, kept out of the runs:

* A worker that ends decreases the counter to 0 and is delayed before it stores
  IDLE; another job starts and stores BUSY; the late IDLE hides it for its
  whole run (`Device.cpp:238`).
* The weak pointer of the library cache expires before the last owner has called
  `device_finalize`; an opening in between initializes a library object of its own, on the same
  loaded code, which the late call then finalizes under the sessions of the new object
  (`Driver.cpp:173, 209`). From then on the cache hands out that object, whose code is finalized: the third opening
  allocates its session on it, although `docs/qdmi/configuration.md:155-156` says that
  "MQT Core reuses the initialized library". In the model both are reached in 10 and 13 steps. The
  `device_finalize` of the DD device does nothing (`qdmi/devices/dd/Device.cpp:812`).
* A configured identifier that the application has replaced or opened before the first session
  is in the client catalog with that device (`Driver.cpp:691-695, 722-724, 763`), although
  `docs/qdmi/configuration.md:152-153` says of runtime registrations and explicit opens that
  they are not added to it. Identifiers that are not configured never get there.
* The client catalog is opened once: an identifier that failed then stays
  absent after it has been replaced by a working definition (`Driver.cpp:757`).
* A number whose interval reaches into the next bucket is put at the front of its
  own bucket, where the next lookup does not look: it gets a twin
  (`RealNumberUniqueTable.cpp:124`).
* `garbageCollect` never clears `vectorAddMagnitudes`, `matrixAddMagnitudes` and
  `conjugateVector`: their entries may name freed nodes (`Package.cpp:117`).
* The first allocated results of the QIR runtime share the addresses of the constants zero and one
  (`Runtime.hpp:245`).
* A worker publishes DONE before it decreases the counter and stores IDLE, so a
  client that returns from a poll of DONE can still read BUSY
  (`test/qdmi/devices/dd/device_status_test.cpp:65` expects IDLE after
  completion, and gets it because it waits for the future).
* A cancel from another thread between the check and the store of `submit` is
  overwritten by SUBMITTED, and a cancel that waited for the worker overwrites
  DONE; hence `ownerCancels`.
* A session that is freed over a running job destroys the results the worker
  still writes to (`Device.hpp:205-226`), hence `jobsFreedFirst` for
  `WorkerOwnsResults`.
* `setNext` clears the immortal flag of 0.5, which a later collection then takes
  (`RealNumberUniqueTable.hpp:31`).
* In `Runtime::deref` the mode test is inverted (`Runtime.cpp:149`) and nothing ever
  sets the dynamic mode, so "Result not allocated" is unreachable.
* Lowering from QC: a qubit (or register) that is allocated and deallocated in a loop or branch that uses no qubit from above,
  while qubits are allocated around it, is entered in the map of the outer region (`QCToQCO.cpp:276-291`); its deallocation
  creates an empty map for the inner one and fails the assertion of the lookup (lines 985-989, 260). So does
  deallocating in a region a qubit that was allocated outside of it. `func.return` sinks the qubits that the program left
  allocated, but not the registers.
* Mapping sinks the qubit of site `s` as `staticQubits[s]` (`Mapping.cpp:691`),
  which is right when sites are numbered like the vertices, as in the model; a yield
  that permutes qubits is taken to keep them in place.
* The DAG has no if-else operations, so the passes over it look through them:
  `removeFinalMeasurements` removes a measurement whose bit or qubit a later
  if-else operation uses (`CircuitOptimizer.cpp:41, 516`), and `reorderOperations` drops them.
* `singleQubitGateFusion` fuses a gate with a measurement or a reset. `decomposeSWAP` drops
  controls. `removeDiagonalGate` may dereference `rend` (line 390).
* Diagonal gates with two targets, barriers and diagonal members of a compound operation are removed in
  front of a measurement without a look at their other qubits. `removeFinalMeasurements` also
  takes gates out of a compound operation that has a measurement.
* `deferMeasurements` moves a measurement behind later operations on its qubit, and behind
  later writes of its bit; it skips the operation behind one that it has erased, never looks into compound operations, and
  leaves a circuit that it refuses without the measurements it has already taken out (line 826).
  It does not ask for the comparison of a condition on a one-bit register (lines 854-887), so that `!=` is taken for `==`
  and the gate gets the opposite control; an if-else operation on a register that has an else-operation only
  is stored as such a `!=` (`IfElseOperation.cpp:268-272`).
* `eliminateResets` ignores a reset in a compound operation unless one outside came
  before it. `collectBlocks` moves gates over resets.

## Proofs

All proofs are for every value of the constants that the modules' assumptions
admit (finite `Jobs` and `Ids`, distinct addresses, ...). Theorems and their
statements are in the eight `_proofs` modules. The modules of components have an inductive invariant
`IInv`, which TLC checked on the instances of the runs before it was proved, a
lemma for each action, and a short theorem for each property.

**DDSIMDevice.** `IInv` is the inductive invariant. Besides types (`TypeInv`) it says that
a call keeps its argument alive (`CallInv`), how the future and the worker are
related, namely that a worker without a valid future is in the window between
`submitSpawn` and `submitAssign` of its owner (`HandleInv`), that the status
follows the worker when only the owner cancels (`StatusInv`), that results are
complete before DONE is stored (`ResultInv`), that adaptive programs without
shots stop in `submitStore` (`ExtractionInv`) and that a session whose jobs were
freed has none left (`AliveInv`). `RunningJobsExact` is not inductive without
the types of `worker`, `FreedAfterWorker` not without `HandleInv`: `free` skips
the wait when the future is not valid. From `IInv` follow all safety invariants of the runs
and, with `ownerCancels`, `Refinement`: `Spec => JobLifeCycle`. The action property
`WaitSound` holds under both contracts and needs `WaitInv` beside `IInv`: the status
of a job whose worker is past its body is final, whoever stored it last, and a
client inside a call has no return code yet.

**QDMIDriver.** `IInv` adds to the four registry and catalog invariants that
fresh devices exist, that no opened device is a fresh one, how far the loop is
while a session is being allocated, and that each live session shows the whole
catalog. Each action has a lemma; all seven properties are theorems,
`RegistrationOrder` as an action property.

**DeviceOpening.** `LibraryInv` ties the cache to the threads: `refs[i]` are the
devices in a phase that owns a share of object `i`, an object with owners is the
cached one and initialized, who loads or initializes holds the mutex, and an
object without owners has at most one thread at it, the one that finalizes it.
`OneLibraryInUse` alone is not inductive because a `load` must know that nobody
owns a share any more. `CodeInv` ties the loaded code to its objects: it is loaded while one of them exists, and whoever
owns a share has initialized it, with no later change but a finalization by an object
without owners. `SessionInv` says for one device how far the constructor
is (`current`): the sessions before it are initialized, those after it are not
made, and jobs exist in initialized sessions only. `LibraryShared`,
`NothingLeaksCorrect` and `FreedInsideOutCorrect` follow, for any number of
devices, library objects and children and with every library call failing at will.

**DDPackage.** `Alive` is the key: every node reached from roots and unique
tables is in use and its weights exist. It is stronger than `NoDangling` in that
it speaks of the union of both sources; it is inductive because a collection
keeps what is marked, and a node table that is not due is forced when a number went.
The closure `Reach` is defined as an intersection of closed sets, which the
lemmas `ReachFacts`, `ReachClosed` and `ReachMonotone` turn into first-order
facts. `NothingLost`, `Canonical` and `EntriesAlive` follow in turn, the last
from `ClearedMatchesSignature`: each table that is invalidated at all is
invalidated for both kinds of node in its signature. It assumes
`Ops \subseteq Cleared`; for the three other tables the property is false. `CollectionCompleteCorrect`: after a
forced collection there are exactly the marked nodes and numbers, except that `Half` may be there too and that a
number table of one entry is left as it is.

**RealNumberTable.** `ListsIntact` and `LiveNumbersKept` are inductive together:
a collection removes only what is neither marked nor immortal, so the entries in
use stay disjoint lists, and `tailTable` names the last survivor. The work is
in the lists: that the survivors of a bucket are its subsequence on a set of positions
(`Subsequence`; counting a position's predecessors is an order-preserving bijection
onto an initial segment, which the cardinality of finite sets gives without induction), and what inserting at a
position does to membership, order and tails. `InnerLookupCorrect` then shows the
action property: the tail shortcut and the scan find the same place as a search
of the whole sorted bucket would.

**QIRRuntime.** `QubitsInv` (registered qubits are dynamic and numbered by their
address), `StateInv` (the permutation is one, the state has a value for each of
its levels) and `ResultsInv` (a held result is registered and its count is the
number of references the program holds) are inductive. The refinement
`ProgramViewCorrect` maps each qubit to the value of the state at its permuted
level; each lemma `...Step` shows that a call of the runtime, with the growth of
the state and of the permutation that its addresses cause (`Enlarged`), is the
step of the same name of `QIRProgram`. They reason about `QIRProgram` through an
instance whose qubits and results are the functions `QubitView` and `ResultsView`, which
`Mapping` shows to be those of the run's `Program`; `Bridge` carries the steps over.

**TokenSwapping.** `RestoreReachesLayout` and `ConvergeReachesLayout` are the two
assertions behind the loops of `restore` and `converge`: a round has no SWAP left exactly
when the layout is reached, on every connected target. From a qubit that is not at its
place an edge of the F-graph leads to a neighbour that is closer; if every edge ends
at a qubit that is not at its place, a longest injective walk closes a cycle, hence there
is a happy chain, and otherwise there is an unhappy SWAP. That all happy chains and unhappy SWAPs are
couplings is `ChainFacts`. `RoundPays` is the price of a round, for the bound below: with `D` the steps that the
qubits have to go together and `M` the number of qubits that are not at their places, a round of `m` SWAPs takes
at least `m` off `2 D - M`. A happy chain of `m` SWAPs takes `m + 1` qubits a step closer, each of which may
reach its place. An unhappy SWAP takes one closer and one away, but the latter was at its place, so `M` grows; the
distance being symmetric and changing by at most one along a coupling (`DistanceSymmetric`, `OneStep`) no more is needed.
`D` is the cardinality of the set of steps, so that sums need no induction. `VoteIsLayout`: the order by score and number is total, so
each place is taken by one vertex.

**Mapping.** The records of the pass (`infos`, `layout`) say nothing about the tails of the
lines, so none of its four properties is inductive by itself. The invariant gives each line an
owner (`Owned`): a permutation of the program qubits such that all that is ahead of
the iterator of line `h` are the operations of qubit `owner[h]`, in the position that
qubit has there. A SWAP exchanges the tails of two lines and their owners (`InsertFacts`, `SwapSound`),
provided that the iterators stepped back first. So the lines that wait at an operation are its operands
(`OperandFacts`), at an operation with regions they are all lines (`RegionLines`), and
a region starts with the owners of the block around it (`ChildFrame`), through
`permutation`. `realign` yields what the block expects (`YieldsFacts`), and with the
theorems on the rounds all ways out of a region end with the layout that the pass goes on with
(`EndLayouts`, `WaysOutAgree`). Without branches and while loops, owners and `held` are the same
throughout: that is `OperandsKept`; where an `if` ends with another layout they come apart, as
`mapping_branches` shows. The invariant speaks of every block of the stack, of the regions that
each has finished, and of how many those are (`Blocks`).

`AllRouted` needs a second invariant on top of it, `DoneInv`: every operation of a block has been
routed, with all in its regions, or its path is on some line at or behind the iterator
(`Covers`); what is ahead are operations of the block and terminators (`Named`); the regions of an
operation that are done have been routed as a whole (`RegionsDone`); and each block of the stack is
the next region of the operation that the block below is at (`Linked`). An iterator passes an operation when it
is routed (`PassWaits`), stepping back and forth around insertions loses none (`BackWaits`,
`ForthWaits`), and a SWAP exchanges tails, on which every token stays ahead (`SwapWaits`). A block is left with
only terminators ahead, so all in it is routed (`FinishedDone`). The paths of a program are a
recursive function: `PathsDefined` shows that it satisfies its equation, as the least family of
sets does, and `PathsAreSequences` that regions, nesting finitely, give finite paths.

`FourApproximation` needs a third, `CostInv`: while regions are merged, the SWAPs inserted so far and what is left of
`2 D - M` are together at most twice the distance when the goal was set (`Paid`; for the two
branches of an `if`, which move towards each other, the sum of their SWAPs), and the blocks below and those being
routed have none (`Free`). `D >= M`, so the SWAPs are at most twice the distance, whichever rounds are chosen.
The bound of the SWAPs alone is not inductive, as it does not say how far the layouts still are.

**QCToQCO.** The theorem is about programs that allocate where there is a map, or none around (phase `write`);
those that have gone astray stay so (`NeverBack`) and are model-checked only. `MapsFollowProgram` speaks of what a lookup finds, so it is not inductive: it does not say in
which map the value was found, nor anything about a second region, whose maps are made with those of the first and which
is opened later. `IInv` says that each open region has maps of its own with a value of the right meaning for every qubit and
register it may use (`Holds`, `Home`), that a region that waits has them too (`Waiting`), that a renamed
argument of a modifier is no key of anything else (`AliasesOk`, `KeyFacts`), and that open regions and their arguments are
older than the next operation (`Standing`, `FrameOk`). The operands of an operation are taken out of the registers one after
another, so that in between a register has holes (`Holes`), and put back, the last one first (`Filled`);
`OperationLowered` says that in the end they are renewed and nothing else is, for two slots of one register
as well. `StructuredLowered` says the same of all that regions capture, and what their block
arguments mean. All else that is lowered changes the maps of its own region and of new ones only (`Keeps`), hence
`HoldsKept` for the other open regions. `materializeQubits` and `commitQubits` are recursive functions; that they
satisfy their equations is shown with the least element of a set of numbers (`OneAfterAnother`, `LastOneFirst`).

Some theorems state invariants that no run has as a property, because a run's
property implies them or they are steps of the argument: type correctness, `NeverStuckBusy` (a device
without jobs is not left BUSY), `AdaptiveSafe`, `DriverSessionsAgree`, `DriverFreshPrivate`,
`DriverRegistrationOrder`, `AliveCorrect` and `CollectionCompleteCorrect`.

Model-checked only: all liveness (`StartedFinishes`, `CallsReturn`, `OpeningEnds`,
`RoutingEnds`), which like `ENABLED` is outside of what TLAPS proves. Of the lowering,
`EveryValueUsedOnce`, which counts the uses of a value over all emitted operations, and `RegionsYieldContents`, which
speaks of terminators rewritten at the end: both need an invariant over all operations emitted so far, beyond that of
the maps; it is within TLAPS's reach but not proved here. And `RoundTrip`, whose `QCOToQC` is
a fold over all that was emitted and needs induction over data. Of the other compiler passes everything: what circuits compute,
and the walks of `CircuitOptimizer`, are recursive operators, which TLAPS 1.4.5 does not reason about.

## Not modelled

* Floating-point arithmetic of numbers and weights, and with it what decision
  diagram operations compute, rotations and ZX rules: TLC has no reals.
* Parsing, printing, file formats, bindings, build files: no state over time.
* The rest of the MLIR collection (dialects, translations from and to OpenQASM, QIR and Jeff,
  canonicalization, gate decomposition): tree rewriting by LLVM's drivers and
  matrix arithmetic. Of the lowering: functions that call one another, unstructured
  branches, parameters of gates. Of mapping: the heuristics that choose a layout and SWAPs (any are
  taken), targets without a topology. These files and the Python bindings are most of the
  repository's lines; they have no state over time.
* Of the circuit optimizer: flattening of custom gates only, conditions on several bits, comparisons of a one-bit register other than `==` and `!=`,
  rotations and symbolic gates, marking garbage.
* Undefined behaviour by clients that break the life-time rules of handles, and
  by unlocked concurrent use of the driver; listed as hazards with a note.
* In the DDSIM device, null arguments, malformed enumeration values, `check` and
  the property queries: they change nothing.

## Plan

In this order; each module brings its run.

1. `QIRJobs`: the workers of `DDSIMDevice` composed with one `QIRRuntime` without a
   lock (`Device.cpp:484, 518, 532`): a shot resets the registers of another job.
2. `DDSIMResults`: the lazily computed results (`Device.cpp:650-762`; two caches
   filled under `call_once`, one of which `getProbabilities` also fills, without
   the flag) under concurrent readers.
3. `MemoryManager`: free list and chunks, an abstract pool that `DDPackage` and
   `RealNumberTable` rely on, with the refinement to it.
4. `DDClients`: `incRef`/`decRef` of simulation, functionality construction and
   approximation against the roots of `DDPackage`.
5. `DeviceRegistry`: merging of layered configuration against a reference definition;
   it establishes what `QDMIDriver` assumes of its initial state.
6. `CircuitLayout`: registers, ancillaries, garbage and permutations of
   `QuantumComputation`, of which `CircuitOptimizer` has the two permutations.
7. `NAValidation`: replay of loads, moves and stores.
8. `ZXSimplify`: adjacency bookkeeping and termination.
