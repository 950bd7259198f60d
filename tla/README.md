# TLA+ verification of lower-ir-utils

`lower-ir-utils` is a Rust crate that helps a program generate code with
Cranelift: it derives signatures from Rust types, lowers Rust values to IR
values, declares and builds functions, exports host functions to the JIT, and
contains an interpreter for the generated IR. This directory holds TLA+ models
of it, the TLC runs that check them and TLAPS proofs of most of what the runs
check, for every value of the constants.
Paths such as `sim.rs:311` are relative to the repository's `src/` directory
(`macros/src/lib.rs` to its root).

## The system

| Part | State | Operations | Talks to |
|---|---|---|---|
| Interpreter (`sim.rs`: `Simulator`, `step`) | memory, step budget; during a run the register table, the block, the position | `new`, `with_memory`, `run`; one arm of `step` per instruction format | reads Cranelift's `Function`; its result is dumped, or its memory goes into the next simulator |
| Values (`sim.rs`: `SimValue`, `apply_*`, `icmp`, `fcmp`, `load_from`, `store_to`) | none | arithmetic, conversions, comparisons, memory access | called by `step` |
| Dump (`sim.rs`: `dump_to`, `write_hexdump`) | the previous row, whether a star is out | one row at a time | prints a result |
| Builder (`builder.rs`: `define_function`, `declare_and_build`) | none of its own; drives the module | declare, run the body closure, define | the body gets the module back and may call everything again |
| Disassembly (`disasm.rs`) | none | `define_function_with_disasm`, `format_disassembly` | builder, Capstone |
| Exported helpers (`macros/src/lib.rs`: `jit_export`) | none; a table in `JITBuilder`, declarations in the module | `register`, `try_declare`, `declare`, `call` | builder bodies, the linker of `finalize_definitions` |
| Macros (`macros.rs`) | none | `jit_signature!`, `define_jit_fn!`, `jit_call!` | builder, lowering |
| Lowering (`abi.rs`, `external/chrono.rs`) | none | `JitParam::push_params`, `JitArg::lower` | signatures and call sites |
| Async build (`runtime.rs`: `spawn_blocking_build`) | ownership of the module | move to the blocking pool, build, await | tokio |
| Crate root (`lib.rs`) | none | re-exports | |

What is hard about it, and what makes each part correct:

* **Interpreter.** One flat register table serves all blocks and is never
  cleared (stale values on loops and on the other branch); block parameters are
  assigned in parallel on a jump; a budget is all that ends a loop; an error
  leaves a partial result; `run` takes the memory out of the simulator. It is
  correct if a verified function, called with the arguments it declares, never
  gets stuck and returns what the program computes; if memory changes only
  where a store addresses it; if every run ends; and if a fault leaves behind
  what had been written before it.
* **Values.** Operands are kept sign-extended in 64 bits whatever their width;
  division, shifts and unsigned comparisons have to undo that. Correct if every
  helper agrees with a definition on bit patterns.
* **Dump.** Correct if a reader can recover every byte and the size.
* **Builder, disassembly, helpers.** The body runs between declaration and
  definition and may build functions itself, under the same name too; every
  step may fail after the one before it succeeded; names are bare identifiers.
  Correct if the answer of a build tells what became of the function, if linked
  calls have the signature of what they reach, and if finalization fails only on
  helpers nobody registered.
* **Trace.** Correct if it alone retells the run, and if the text it shows
  behind a pointer is the text the program means.
* **Lowering.** Two traits written independently of each other meet at a call.
  Correct if what stands for the declared types is accepted on every target,
  and if the callee reads what the caller wrote.
* **Async build.** The module moves through a future, a closure and a result,
  each of which can vanish. Correct if it comes back whole or not at all, if no
  copy of it is left over, if its code is never called after it is gone, and if
  builds and calls end although shims block pool threads, as long as these do not
  block all of them.

`PROJECT.json` lists each hazard at its line with the properties that cover it.

## The modules

| Module | Models | Used by |
|---|---|---|
| `SimValues` | `SimValue` and the pure helpers of `sim.rs` | `Clif`, `SimArith`, `Lanes` |
| `Clif` | Cranelift functions as `sim.rs` reads them; what the CLIF verifier guarantees | `Sim`, `SsaMachine` |
| `Sim` | `Simulator`: one action per arm of `step`, the exits of `run`, the caller | `SimTrace`, `SimRefine`, `MCSimDocs` |
| `SimTrace` | the trace of a run and the previews of call arguments, on top of `Sim` | `MCSim` |
| `SsaMachine` | abstract specification: what evaluating a verified function means | `SimRefine` |
| `SimRefine` | the refinement mapping from `Sim` to `SsaMachine` | `MCSim`, `MCSimAll` |
| `SimArith` | reference definitions for the helpers of `SimValues` | `MCArith` |
| `HexDump` | `write_hexdump` | `MCHexDump` |
| `JitModule` | life of a JIT module: helpers, nested builds, finalization | `MCJit`, `SpawnBuild` |
| `SpawnBuild` | `spawn_blocking_build`, composed with `JitModule` and calls of finished code | `MCSpawn` |
| `Lanes` | types to signatures, values to operands, one generated call, one native call | `MCLanes` |
| `MCHost` | bytewise logic and a toy IEEE format for TLC | the MC modules over `SimValues` |
| `MCPrograms` | constructors and a library of IR functions | `MCSim`, `MCSimAll`, `MCSimDocs`, `SimProofs` |
| `ValueProofs` | lemmas about the values of `SimValues` | `SimProofs`, `ArithProofs`, `LanesProofs` |
| `SimProofs` | proofs about `Sim`, and about one program it runs | `RefineProofs`, `TraceProofs` |
| `RefineProofs` | `Sim` implements `SsaMachine`, and itself with a larger budget | |
| `TraceProofs` | proofs about `SimTrace` | |
| `ArithProofs` | proofs about `SimArith` | |
| `LanesProofs` | proofs about `Lanes` | |
| `BuildProofs` | proofs about `JitModule` and `SpawnBuild` | |
| `HexProofs` | proofs about `HexDump` | |

### SimValues

A `SimValue` is a record of its variant and its number (floats: their bit
pattern). All definitions are written over the number of values of one byte,
`ByteMod`. With `ByteMod = 256` they are the program; with 4 the types I8, I16,
I32 and I64 have 2, 4, 8 and 16 bits; with 2 they have 1, 2, 4 and 8, few enough
to try every pair of operands. Nothing in `sim.rs` depends on a byte having
eight bits, only on the types having 1, 2, 4 and 8 bytes and, for the mask of
a shift amount, on a byte having a power of two of them. `Cast` is Rust's
`as iN`. Bitwise operations act on bytes and are put together by halves, so that
no definition is recursive and the proofs can use them. The host's `f64`
arithmetic and the conversions between the float widths are parameters: what
they compute is the machine's business. The sum and product of `apply_int` are
taken without the wrap at 64 bits because the cast that follows wraps at a
divisor of 2^64.

### Clif

`InstructionData` becomes one record shape; the formats without an arm in
`step` are one format, `Other`. `Verified` is the set of functions of the
supported subset the verifier accepts: well typed, every block ends in a
terminator, every use dominated by its definition. Dominance is stated through
a certificate, `Avail`, that has to be consistent along every edge (`EdgeOk`).
A shift amount is required to have the type of the shifted value; CLIF is more
liberal, and the run `doc_shifts` shows what happens then.

### Sim

`Simulator` is `memory` and `max_steps`; a call of `run` in progress is
`func`, `args`, `registers`, `mem`, `current`, `pc`, `steps`; a `SimResult` is
`registers`, `mem`, `returns`, `error` once `phase` is `"done"`. Each arm of
`step` is an action (`Iconst` .. `Call`, `Unsupported`), `get!` of an unbound
value is `UndefinedOperand`, the exits of the loop are `StepLimit` and
`FallOff`. Reading an operand precedes every other effect in every arm, so the
actions share the guard `OperandsBound`. The caller builds simulators
(`NewSimulator`), moves the memory of a result into the next (`ReuseMemory`) and
runs any function on any argument vector, twice on one simulator as well
(`CallRun`). The functions of the model have no value aliases, except the one
of `MCSimDocs` that shows what the code does with them.

### SimTrace

Each action of `Sim` is taken as it is and adds the lines the code pushes: a
value line at the end of a straight arm, a line before a jump, a return or the
binding of a call's results, a halt line when the loop sees an error. A line
holds the data its text shows. `format_call_args` is a recursive function over
the cursor `i`; `PreviewEnd` is the saturating addition. `TSpec` restricted to
the variables of `Sim` is `Spec`, so the properties of `Sim` are checked in the
same run. `TraceReplays` is stated with a reader (`Follow`) that has the
function and the arguments, does not know what any opcode computes, and must
end up at the interpreter's block, position and registers, also behind a call
that was shown and then failed at a result without a zero. `BufferAssumption`,
here and in `SimArith`, is Rust's bound on a `Vec`: no more than `isize::MAX`
bytes. The preview of a pointer needs it, because the saturated end of a slice
must not be an end some buffer has.

### SimArith

One state per operand; `MemoryExact` tries every address of the host, not only
those near the buffer. It states the order of the code, which is little-endian
on every host (`from_le_bytes`, `to_le_bytes`, `sim.rs:807-836`), and not the
"host-endian byte order" of the comment at `sim.rs:43`: the two differ on a
big-endian host. `SignAssumption` and `OrderAssumption` say what the float
comparison needs of `as f64` on an `f32`: the sign of a number is kept, a NaN
stays a NaN, zero stays zero, and numbers keep their order.

### SsaMachine and SimRefine

`SsaMachine` has no register table, no step count and no error path: `env` is
exactly what is in scope at the next instruction, a branch forgets everything
else and binds the parameters at once, and an evaluation returns, faults on an
access outside of memory, or is given up. `SimRefine` maps the interpreter to
it: `env` is the register table cut down to what dominates the next
instruction. That `Sim` implements it (`ImplementsSsa`) says that the stale
entries of the flat table cannot be seen, on verified functions called with
matching arguments; of other calls it says nothing (`Misuse`).

### HexDump

One step per row: `Collapse` (the star) or `PrintRow`. The layout of a line is
left out; a line is its address and its bytes. `Reads` is a reader that knows
the conventions of `hexdump -C`.

### JitModule

Cranelift's `declare_function`, `define_function` and `finalize_definitions`
are external and modelled as this crate uses them. `Begin` is
`declare_and_build` up to the call of the body, `End` is everything after it:
`define_function`, and for the variant with disassembly `format_disassembly`.
Between the two the body acts: it declares helpers, emits calls, or begins
another build; `open` is the stack of builds whose bodies are running. Whether
the IR of a body compiles, and whether Capstone decodes the bytes, is a free
choice at `End`. `Target` is the linker: the code of the module, the table of the
`JITBuilder`, and, when neither has the name, the symbols of the process itself
(`ProcessSymbol`), which is what `JITBuilder::new` looks up last. A helper that
nobody registered is then not missed, and its calls go wherever the process's
symbol leads, whatever its signature. `Refusal` gives the first reason for which `define_function`
refuses, in the order in which Cranelift looks. A panic of `declare` or of
finalization ends the behaviour. `NothingTakenBack` says what no step may do:
drop or change a declaration, a compiled function, a link, or an id that a
client was handed.
What the client may do is bounded by `Effort`: builds begun plus helpers used.

### SpawnBuild

The module is in one place (`holder`): with the task, in a future not polled
yet, in the closure, in its result, or dropped. `Spawn` is the call of the
async function, `Poll` the first poll with `tokio::task::spawn_blocking`,
`Resume` the end of the `.await` with its `expect`, `Cancel` a drop of the
future at any time. `ClosureStep` is any step of `JitModule`; `ClosureReturns`
and `ClosurePanics` end the closure. The blocking pool is external: a queue and
`PoolSize` threads. `Call` runs finished code: on the worker, or on a pool
thread when it reaches a shim (the rule of `lib.rs:136-139`); a shim blocks its
thread (`BlockOn`) on a future that may need a thread itself, the worst case.

One rule of the client is part of the model, and `CodeOutlivesCalls` holds
because of it: a module is handed on, dropped or put at risk of a panic only
while none of its code is being called (`Quiet`; `lib.rs:89-91`). A panic of
`declare` unwinds through the owner, and a rebuild whose closure panics or whose
future is dropped takes the module with it.

Nothing bounds the calls in flight, in the code or in the rules, so there may be
as many blocked shims as the pool has threads, each waiting for a future that
needs one (`Exhausted`). This state is reached in the model, and the properties
say what it is: the only way to get stuck (`NeverStuck`: while a build or a call
waits, some job can be taken, can go on or can be handed back, or the pool is
exhausted), and a deadlock nothing resolves, not even dropping the future that
waits (`ExhaustedForGood`). `BuildEnds` and `CallsEnd` promise an end up to there.
A client who keeps fewer calls in flight than the pool has threads never gets
there (`SpareThreadSuffices`).

### Lanes

One helper is exported (`Export`), one wrapper is opened around a call of it
(`Open`), argument expressions are lowered one by one (`Lower`), the call is
emitted (`EmitCall`), the wrapper is defined (`Define`) and called by the host
(`Invoke`). `ParamLane` is every `JitParam`, `lower` every `JitArg`, the chrono
wrappers included; `way` tells the generated `call`, which takes one expression
per parameter, from `jit_call!`, which takes any number. Lane values are the
`SimValue`s of `SimValues`. `meant` is a history variable: the Rust scalars the
documentation says an expression stands for. `Open` and `Lower` take only
scalars that exist on the target (`Representable`): an `i8` is a number of its
eight bits, an address fits a pointer. `Invoke` is the native ABI: a lane
narrower than an int arrives with any bits above it.

## Runs

| Run | Question | States |
|---|---|---|
| `sim_programs` (`MCSim`) | Do the programs of `tests/sim.rs` in small (branch maximum, loop sum, load and store, calls, casts, NaNs, a loop that swaps its parameters, a call with strings in memory) compute what they should, with exact budgets, with a trace that retells them, as the lexically scoped machine would; and do broken functions and wrong arguments leave a sound partial result? | 104,232 |
| `sim_all_functions` (`MCSimAll`) | Do the inductive invariant of the proof and the refinement hold of every two-block function over a menu of instructions? (It uses `SimTrace` with the trace switched off.) | 78,458 |
| `sim_arithmetic` (`MCArith`) | Do the helpers agree with bitwise reference definitions on all operands? | 550 |
| `hexdump` (`MCHexDump`) | Is a dump lossless? | 54,613 |
| `jit_module` (`MCJit`) | Are the answers of builds true and calls well linked, with nested builds and helpers that share a name? | 462,386 |
| `lanes` (`MCLanes`) | Is a call whose arguments stand for the declared types accepted, and does the helper read what was meant? | 1,345,615 |
| `spawn_build` (`MCSpawn`) | Does an awaited module come back whole or not at all, do builds and calls end unless every thread is blocked in a shim, is that the only way to get stuck, and for good, is code never called after its module is gone? | 110,840 |

Each passing property has in `PROJECT.json` a faulty variant of a modelled
definition (the operators commented "Faulty variant") that TLC finds to violate
it.

Bounds, and why they are enough:

* `MCSim`: bytes of two bits; memories of 0, 6 and 8 bytes, so that every access
  size fits, just fails to fit, or lies outside; pointers include negative ones
  that wrap; step budgets 0, 4, 9, 10, 100 lie below, at and above the lengths
  of the programs; two calls of `run`, enough for every pair of successive uses
  of one simulator; loops of up to 15 turns; previews of at most two bytes (64
  in the program), so that lengths 0, 1, 2 and 3 lie on both sides.
* `MCSimAll`: two blocks, four values, 6 x 14 x 6 x 14 functions: two blocks are
  the least that have a back edge, a join and a value that does not dominate.
* `MCArith`: bytes of one bit: every operand of every width, every second
  operand, opcode and condition. A narrow type is still narrower than the
  64-bit word its operands are extended to.
* `MCHexDump`: rows of two bytes, up to six rows over two byte values: two
  separate stars, and a short or full last row equal to the one above.
* `MCJit`: four builds or helpers in use in any mixture, nested two deep: a body
  that builds the function its own build is about, and a later caller of both;
  two helpers with one name and two signatures, next to a third whose name is
  also a symbol of the process.
* `MCLanes`: helpers with up to two parameters out of seven kinds of types, all
  pairs, and some with three; two expressions for a `jit_call!`, enough for a
  wrong number, order or width; a second of three nanoseconds, so that a leap
  second has 3 to 5; pointers of four and eight bytes.
* `MCSpawn`: two builds or helpers in use, two calls in flight and two threads:
  with one thread blocked in a shim the pool still works, with two it is
  exhausted, by calls of the module's code or of other code; a build may be
  repeated on the module that came back.

Deadlock is not an error where the system may stop: the caller stops after
`MaxRuns` runs, a dump ends, a panic ends the host, a call is made once.

Five runs expect a violation: each states what a comment of the source says
and TLC shows the code to do otherwise (the findings of `PROJECT.json`):

* `doc_aliases`: an operand that is an alias of a computed value is reported as
  a value no instruction wrote to.
* `doc_other_ops`: loads and stores of other opcodes are executed rather than
  refused.
* `doc_shifts`: a shift with an amount of another type is refused.
* `doc_unit_alias`: the generated `call` of a helper that returns an alias of
  `()` indexes a result that does not exist.
* `doc_narrow_lanes`: lanes of eight and sixteen bits are declared without the
  extension the C ABI asks of the caller.

Four more comments are inaccurate in ways that need no run: `sim.rs:43` (reads
and writes are little-endian on every host, not host-endian: `sim.rs:807-836`
uses `from_le_bytes` and `to_le_bytes`, and `MemoryExact` states that),
`sim.rs:113-114` (entry parameters without an argument are not zeroed),
`sim.rs:234-236` (a second `run` has no memory, as `sim.rs:277-279` says),
`macros/src/lib.rs:86-87` (`declare` of a name declared with the same signature
does not panic).

**Fairness.** `FairTSpec` asks `WF_tvars(TStep)`. `run` is a loop on the
caller's thread without locks or waiting; once entered, its next iteration is
always possible, so weak fairness says no more than that the thread keeps
running. Nothing obliges the caller to call. `Terminates` needs the fairness and
the budget: without the count on jumps TLC finds a loop.

`SpawnSpec` asks weak fairness of `Dispatch` (a free pool thread takes the next
job), `Closure` (the thread of a build keeps running, and a build does finitely
much), `Resume` (the executor polls a woken task) and each `CallStep` (a thread
in a call keeps running). Nobody is obliged to start a build, to poll it, to
cancel it or to call. Fairness does not help an exhausted pool: none of these
actions is possible there.

## Proofs

Everything below is proved for every value of the constants that satisfies the
named assumptions: for bytes of 1, 2, 4, 8, .. bits, the real ones included, every function
and host, every depth of nesting.

| Theorem | States |
|---|---|
| `SimProofs!TypeCorrect` | `Spec => []TypeOK` |
| `SimProofs!BudgetKept` | `Spec => []WithinBudget` |
| `SimProofs!TurnsAreBounded` | every turn of the loop ends the run or uses up budget |
| `SimProofs!StoresFramed` | `Spec => WriteFrame` |
| `SimProofs!FailureIsPartial` | `Spec => PartialResult` |
| `SimProofs!MemoryHasOneOwner` | `Spec => []OneOwner` |
| `SimProofs!Soundness`, `VerifiedRunsEndWell` | `Spec => []SoundInv`, `Spec => []Sound` |
| `SimProofs!LoopSumComputed` | `loop_sum` of `tests/sim.rs` returns 0 + 1 + .. + (n - 1) after exactly 8 + 5n instructions, or is stopped by a smaller budget, for every n |
| `RefineProofs!InterpreterImplementsSsa` | `Spec => ImplementsSsa` |
| `RefineProofs!StoppedRunIsPrefix` | every step but giving up is one of the interpreter with any larger budget |
| `RefineProofs!BudgetOnlyStops` | a behaviour in which no run is stopped by its budget is one of every larger budget |
| `TraceProofs!TracedRunsAreRuns` | `TSpec => Spec` |
| `TraceProofs!PreviewsNeverLie` | `TSpec => []PreviewsFit` |
| `TraceProofs!TraceRetellsTheRun` | `TSpec => []TraceReplays` |
| `ArithProofs!IntegersComputeExactly` | `Spec => []ArithmeticExact` |
| `ArithProofs!BitsActExactly` | `Spec => []BitsExact` |
| `ArithProofs!IntegersCompareExactly` | `Spec => []CompareExact` |
| `ArithProofs!FloatsCompareExactly` | `Spec => []FloatCompareExact` |
| `ArithProofs!ConversionsExact` | `Spec => []ConvertExact` |
| `ArithProofs!MemoryIsExact` | `Spec => []MemoryExact` |
| `HexProofs!DumpIsLossless` | `Spec => []Lossless` |
| `HexProofs!DumpShowsTheSize` | `Spec => []SizeReadable` |
| `LanesProofs!LanesTypes` | `Spec => []TypeOK` |
| `LanesProofs!TraitsAgree` | `Spec => []CallAccepted` |
| `LanesProofs!ValuesReachTheHelper` | `Spec => []ValuesArrive` |
| `BuildProofs!JitTypes` | `Spec => []TypeOK` |
| `BuildProofs!AnswersAreTrue` | `Spec => []AnswerTruthful` |
| `BuildProofs!FinalizeCannotMiss` | `Spec => []FinalizeSafe` |
| `BuildProofs!LinkedCallsAgree` | `Spec => []CallsAgree` |
| `BuildProofs!PromisesKept` | `Spec => NothingTakenBack` |
| `BuildProofs!SpawnedModuleIsModule` | `SpawnSpec => Spec`, the one of `JitModule` |
| `BuildProofs!SpawnTypes` | `SpawnSpec => []SpawnTypeOK` |
| `BuildProofs!ModuleComesBackWhole` | `SpawnSpec => []HandedBackWhole` |
| `BuildProofs!CallsKeepModule` | `SpawnSpec => []CodeOutlivesCalls` |
| `BuildProofs!NoModuleLeftOver` | `SpawnSpec => []NoOrphan` |
| `BuildProofs!NoUseAfterDrop` | a dropped module stays dropped, and no build or call touches it |
| `BuildProofs!PoolStuckOnlyExhausted` | `SpawnSpec => []NeverStuck` |
| `BuildProofs!ExhaustionIsFinal` | `SpawnSpec => ExhaustedForGood` |
| `BuildProofs!SpareThreadSuffices` | with fewer calls than threads, something can go on whenever a build or a call waits |
| `BuildProofs!PoolRunsDown` | every move of the pool, of a call or of the awaiting task leaves less work; only starting something adds some |
| `BuildProofs!NoCallIsSetBack` | a waiting call moves up with every job the pool takes, and is never overtaken |

**Assumptions.** They are those the modules name, and TLC evaluates each of them
on every run. Of the machine: a byte has an even number of values, 2^`ByteBits`,
and `ByteBits` is a power of two (`ByteAssumption`); a power of two is twice the
one before it (`PowerAssumption`, true, but stated because the backends do not
know the powers); the host's `&`, `|` and `^` of two bytes do to each bit what
their names say, and float conversions yield patterns (`HostAssumption`); widening a
float keeps its sign (`SignAssumption`) and the order of numbers
(`OrderAssumption`); `usize`
has at least one value (`UsizeAssumption`) and no `Vec<u8>` is longer than
`isize::MAX` (`BufferAssumption`). Of the input: functions and certificates have
their shape (`CodeAssumption`, `AvailAssumption`), the caller passes values
(`CallerAssumption`), helpers have names and signatures, symbols of the process names (`JitAssumption`), and
the host calls a wrapper with as many numbers as it has native parameters, an
argument expression has one number per scalar it stands for
(`LanesAssumption`, which also says that pointers have 32 or 64 bits), a row of
a dump has at least one byte (`HexDumpAssumption`). Of the blocking pool: it has
at least one thread, and the calls in flight are finitely many
(`SpawnAssumption`); how many of the one and of the other is left open.

**Interpreter.** `TypeOK` is inductive: each arithmetic helper is shown to end in
a `Cast`, which lands in the range of its type, and `store_to` to write bytes
(splitting a word into digits is the lemma `Digits`). One lemma per arm of
`step` gives the outcome of its helper; `StepEffects` and `StepFrames` collect
what a step may change, from which the budget, the write frame and the partial
result follow; of a call that fails half way they say which results it has bound. `Sound` by itself is not inductive: to know that an operand is
bound one must know why, and the reason is `DominatorsBound`: while a run
executes, every value whose definition dominates the next instruction is bound
to a value of its type. A straight step adds its result to what is available;
a jump keeps at least what the target's certificate asks for because `EdgeOk`
holds on the edge, and binds the parameters because their number and types
match. Entering a function makes it true because the entry block is dominated
by nothing and the arguments match. With it, `UndefinedOperand`, `Unsupported`
and `FallOff` are never enabled in such a run and no helper reports a type
mismatch, which gives `Sound`.

**Refinement.** `SoundInv` is also what the refinement needs. `Same...` lemmas
say that both machines compute with the same definitions; one lemma per action
of `Sim` says which action of `SsaMachine` it is. What makes a straight step an
`Evaluate` is that the operands an instruction names are in scope, so that
cutting the register table down does not hide them (`InstInScope`), and that
values written to registers out of scope are cut off again (`OutOfSight`). A jump
rebinds exactly the parameters. Calls outside the contract are `Misuse`, of
which `SsaMachine` promises nothing, and stay so until the next call
(`MisuseStep`).

**Budget.** `Larger(extra)` is `Sim` itself, instantiated with `max_steps + extra`
for its budget and the same for all budgets a caller picks; its other variables and
constants are those of `Sim`. The `Still...` lemmas say that its operators compute
the same, `LargerStep` goes through the arms of `step`, and the guard
`~BudgetSpent` is the only place where the budget is read: what is within it is
within a larger one. So `StepLimit` is the only step that is not also one with more
budget, which is the general reason for `BudgetExact`.

**One program.** `LoopSumComputed` is what a test can say only of the arguments it
tries (`tests/sim.rs:164`, n = 10): a proof about a program by running it
symbolically. `TakesItsArm` says that an instruction whose operands are bound
takes its own arm and no other, `Computes` and `Moves` what that does to the
registers. The invariant (`LoopSumRuns`) has a clause for each instruction; at the
head of the loop, after i turns, the index is i, the sum is that of the numbers
below i modulo 2^64 and the count of instructions is 2 + 5i. The header computes the
next index and sum before it compares, also in the last turn, where for the
largest n the index overflows; the branch does not pass it on. The loop counts in
signed numbers, so a negative n makes no turn. TLC checks the same program for
n = -1, 0, 1 and 10 in `sim_programs`.

**Trace.** Each action of `SimTrace` contains the one of `Sim`, so
`TSpec => Spec`, and all theorems about `Sim` hold of traced runs. Both readers
of the trace are recursive functions. `SetInduction` is induction over the
naturals on a set in the place of a formula, derived from the library's
`WFMin`, which needs no operator parameter; with it `LoopExists` shows that the
function `format_call_args` defines by recursion exists, and `ToldOnce` that a
trace tells one story only. The invariant `TraceInv` says that the reader who has
followed all lines so far stands where the interpreter stands (`Told`), that
every preview lies in the present memory, and that buffers are as short as
`BufferAssumption` says, which holds because no step changes the length of a
memory (`BuffersFit`).

**Values.** The invariant of `SimArith` is only that the operand is a value
(`Operand`); the properties are about arithmetic. `Residue` (a quotient and a
remainder with the right range are the only ones) carries most of it:
`ModAdd`, `ModMultiply` and `ModMod` follow, then `CastBits` (a cast keeps the
pattern modulo the type), `QuotientMagnitude` for division towards zero,
`UnsignedOrder` for the comparison of sign-extended words, `Reassembled` and
`StoredDigit` for the bytes of a word in memory. For `BitsExact`, bit i
of x is `(x \div 2^i) % 2`, also of a negative x: the low bits of a number are
those of its remainder by 2^w (`LowBits`), the high ones those of its quotient
(`HighBits`), so that a cast does not disturb the bits of its type, logic on two
halves is logic on the whole (`ActsOnHalves`), a shift moves bits
(`LeftShift`, `HighBits`), and what comes in on the right shift of a number is
its sign (`ShiftedIn`). The powers of two multiply as they should by induction on
the exponent (`PowerSum`, with `SetInduction`). The theorem about floats is
about the order `fcmp` derives from the bit patterns: `KeyOfNumber` gives the key
of a number by its pattern without the sign, `Ordered` compares two of them. The
divisions without a quotient are `ZeroDivisor` and `SmallestByMinusOne`, of which
the second needs that only the 64-bit type has the smallest number of 64 bits
(`NarrowHalf`).

**Dump.** `DumpInv` says that every byte of the rows done is told by exactly one
line or by the stars after it, and is what a reader sees there (`ToldOnce`), and
that nothing is told beyond the rows done (`NotAhead`). Collapsing a row keeps
this because the newest line that is no star reaches to the end of the rows done
and `prev_row` is the last of them (`CursorOK`): a row equal to it is column by
column what the reader repeats. The last row is never collapsed, so a star is
never the last line, and the address and length of the last line give the size;
`RowCount` relates the number of rows, the index the code compares with and the
length of the buffer.

**Lanes.** `LanesInv` says that the operands lowered so far carry the scalars
they stand for, lane by lane (`Carries`): an operand is the `Cast` of its scalar
to the lane `ParamLane` gives the scalar's type. `ParamLane` and the lanes
`JitArg` picks are two definitions, as the two traits are; that they give the
same lane for every constant is `ConstantsLower`, by the kinds of types. It needs
that a constant's passage through `i64` does not change it (`IconstIsCast`:
residues modulo 2^64 decide those modulo a narrower type). `push_params` is a
recursive function; that it exists and has one entry per type not equivalent to
unit is proved with `SetInduction` (`PushesExist`, `NativeType`). If the operands
stand for the helper's declared types, their lanes are then those of the
signature, which gives `CallAccepted`, given that what the call hands to the body
fits what the wrapper returns (`ReturnsFit`). Reading a lane undoes the cast
(`WideRead`), and of a narrow lane up to a multiple of its modulus
(`NarrowRead`), whatever the upper bits are. That narrow lanes arrive in full is
not a theorem: `doc_narrow_lanes` refutes it.

**Module.** `JitInv`: a name has one `FuncId`; a call site carries the signature
of the declaration it names, and names a function already handed out or the one
declared for its helper; compiled code is never that of an import; the frames of
builds whose bodies are running have the signatures of their declarations; and
every link made so far is one `Target` would make, of code that is still there.
The last two are what `CallsAgree` and `AnswerTruthful` need across nested
builds: a body may build the function its own build is about, so what `Begin` saw
is not what `End` finds. `Grows` and `Keeps` say that declarations and code only
grow, which is why sites compiled earlier stay right. `OutsideOK`, an invariant of
its own, says that a site was linked to a symbol of the process only for want of
a registered one: registration ends before the first link is made.

**Async build.** `SpawnBuild` contains the steps of `JitModule`, so `JitInv` holds
of it too. `SpawnInv` says where the module is for every pair of states of task
and closure (`PlaceOK`), that each job is queued at most once and is awaited by
what it belongs to (`QueueOK`), and that running jobs and calls never exceed the
pool (`ThreadsOK`). `WaitersQueued` adds the converse of `QueueOK`: what waits for
a thread has its job in the queue, so that no wake-up and no build is lost. When
nothing can go on, the queue is empty or every thread is taken. If it is empty,
no build and no call waits, because a blocked call's wake-up is in it. If every
thread is taken, then by calls that are blocked, since all others can go on: the
pool is exhausted (`RestMeansExhausted`). That is `PoolStuckOnlyExhausted`, for
every size of the pool and every number of calls. An exhausted pool has no free
thread (`ExhaustedThreads`), and what could free one needs one (`ExhaustedStep`,
one case per action): `ExhaustionIsFinal`. `SpareThreadSuffices` adds that fewer
calls than threads cannot block them all. `WorkLeft` counts the
stages that calls and the build have before them: every move except those that
start a build or a call makes it smaller (`PoolRunsDown`), so that the pool cannot
go in circles. And since the queue is served in order, a job in it gets a place
nearer to the front with each job taken, whatever is called meanwhile
(`NoCallIsSetBack`), which is what lets `CallsEnd` hold with a client who never
stops calling, up to the exhausted pool. `NoUseAfterDrop` follows from `PlaceOK`: in no state with a dropped
module is there a task, a closure or a result that could still use it.

Four things were changed because a proof failed on them: `Refusal` and the
`StatusOf` of the refinement mapping were `CASE`s with overlapping arms, of which
TLC takes the first and the logic any. Both are now chains in the order of the
code. And `Lanes` let an expression hold any number; it now holds one its Rust
type has, without which `ValuesArrive` is false. And `ByteBits` could be any number:
with bytes of three bits the amount of a shift is not the same of a number and
of its pattern, and `BitsExact` fails. The program masks the amount with
`width - 1` (`sim.rs:648`), which is a remainder only of a power of two;
`ByteAssumption` now says so.

## Checked but not proved, and not modelled

Only model-checked:

* `Terminates`, `BuildEnds` and `CallsEnd`: liveness under fairness is beyond the
  prover, as are `ENABLED` and the induction over `Left` or `WorkLeft` that leads
  from "each step leaves less" to "it ends". Their safety halves are proved:
  `TurnsAreBounded`; `PoolStuckOnlyExhausted`, `PoolRunsDown` and
  `NoCallIsSetBack`.
* `ReturnsReference` and `BudgetExact`: what particular programs return and cost. The
  MC module that states them uses the bitwise operators of TLC, which the prover
  cannot read. The first program of `tests/sim.rs` with a loop is proved about
  (`LoopSumComputed`), and for all programs at once that the budget decides
  nothing but when a run stops (`BudgetOnlyStops`).

Not modelled:

* Text: the wording of trace lines and errors, the layout of a dump line, the
  sections of `dump_to`, the side-by-side disassembly and what Capstone makes of
  the bytes.
* The host: `f64` arithmetic, the machine code Cranelift emits, the memory of a
  real `JITModule` (which `drop` may leave mapped; the model takes the rule of the
  documentation, that the module owns it).
* tokio beyond its blocking pool: shutdown of the runtime, starvation of async
  workers by a build that is not moved off them.
* Lifetimes of addresses embedded by `JitArg`: they are rustc's (`'static`) or the
  caller's (raw pointers).
* Multi-value returns of `[Value; N]`, `Vec` and `SmallVec` bodies: every type of a
  native signature returns at most one lane.
* The crate root: re-exports.

## What is left open

* Liveness itself, for the reasons above.
* That a run is a function of its function, arguments, memory and budget. The
  interpreter draws on nothing else, which is visible in the actions; a theorem
  would need two interpreters side by side.
* Other programs of the library, along the lines of `LoopSumComputed`: each needs an
  invariant of its own.
