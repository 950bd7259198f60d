--------------------------------- MODULE Sim ---------------------------------
(***************************************************************************)
(* The CLIF interpreter of src/src/sim.rs: Simulator::new, with_memory and  *)
(* run, one action per arm of Simulator::step, and the exits of the run     *)
(* loop.  The caller is part of the model: it builds simulators, runs any   *)
(* function on any of its argument vectors, runs a simulator twice, and     *)
(* moves the memory of a result into the next simulator.                    *)
(*                                                                          *)
(* The trace, which no code reads back, is left out.                        *)
(***************************************************************************)
EXTENDS Clif

CONSTANTS
    MemorySizes,    \* arguments of Simulator::new
    MemoryImages,   \* arguments of Simulator::with_memory
    StepBudgets,    \* values the caller gives max_steps
    ArgVectors,     \* ArgVectors[f]: argument slices run(f, ..) is called with
    MaxRuns         \* bound: calls of run in one behaviour

ASSUME CallerAssumption == /\ FuncId # {} /\ Block # {}
                           /\ MemorySizes \subseteq Nat
                           /\ MemoryImages \subseteq Seq(Byte)
                           /\ StepBudgets \subseteq Nat
                           /\ ArgVectors \in [FuncId -> SUBSET Seq(SimValue)]
                           /\ MaxRuns \in Nat

VARIABLES
    memory,     \* Simulator.memory
    max_steps,  \* Simulator.max_steps
    phase,      \* "idle": no result; "running": inside run; "done": a SimResult
    func,       \* the function of the current or last run
    args,       \* its arguments
    registers,  \* RunState.registers, then SimResult.registers
    mem,        \* RunState.memory, then SimResult.memory
    current,    \* the block being executed
    pc,         \* index of the next instruction in the snapshot of that block
    steps,      \* instructions counted against max_steps
    returns,    \* SimResult.returns
    error,      \* SimResult.error, "none" for None
    runs        \* calls of run so far (bounded by MaxRuns)

simulator == <<memory, max_steps>>
call      == <<phase, func, args, runs>>
control   == <<current, pc, steps>>
result    == <<registers, mem, returns, error>>
vars      == <<simulator, call, control, result>>

\* A Value with no entry in the register table.
Undef == [ty |-> "undef", n |-> 0]
NoRegisters == [v \in Value |-> Undef]

NewMemory(size) == [j \in 1 .. size |-> 0]
Memories == { NewMemory(size) : size \in MemorySizes } \cup MemoryImages

(***************************************************************************)
(* The instruction about to be executed.                                    *)
(***************************************************************************)
block_insts == Code[func].body[current]
inst        == block_insts[pc]

\* Faulty variant: the budget is compared one instruction late.
BudgetSpent_late == steps > max_steps

InBlock     == phase = "running" /\ pc <= Len(block_insts)
BudgetSpent == steps >= max_steps
Executing   == InBlock /\ ~BudgetSpent

\* result_ty(0), with the arm's default
result_ty(default) == IF Len(inst.res) > 0 THEN Code[func].vty[inst.res[1]]
                                           ELSE default

Reg(v) == registers[v]
Arg(k) == Reg(inst.args[k])

\* Faulty variant: the destinations change places.
Chosen_swapped == IF as_i64(Arg(1)) # 0 THEN inst.dst[2] ELSE inst.dst[1]

\* brif takes its first destination on a nonzero condition.
Chosen == IF as_i64(Arg(1)) # 0 THEN inst.dst[1] ELSE inst.dst[2]

\* The instructions some arm of step() matches.
Matched ==
  \/ inst.fmt = "UnaryImm" /\ inst.op = "iconst"
  \/ inst.fmt = "UnaryIeee32" /\ inst.op = "f32const"
  \/ inst.fmt = "UnaryIeee64" /\ inst.op = "f64const"
  \/ inst.fmt \in {"Binary", "Unary", "IntCompare", "FloatCompare",
                   "Load", "Store", "Jump", "Brif", "Call"}
  \/ inst.fmt = "LoadNoOffset" /\ inst.op = "bitcast"
  \/ inst.fmt = "Ternary" /\ inst.op = "select"
  \/ inst.fmt = "MultiAry" /\ inst.op = "return"

\* Every arm starts by reading its operands with get!, a branch reads the
\* arguments of the destination it takes.
AllBound(vs) == \A v \in Range(vs) : Reg(v) # Undef

OperandsBound ==
  /\ AllBound(inst.args)
  /\ inst.fmt = "Jump" => AllBound(inst.dst[1].args)
  /\ inst.fmt = "Brif" => AllBound(Chosen.args)

(***************************************************************************)
(* slots.iter().zip(vals): the shorter side decides, and a slot without a   *)
(* value keeps its register.  Slots are the distinct parameters of a block  *)
(* or results of an instruction.                                            *)
(***************************************************************************)
Bind(regs, slots, vals) ==
  [v \in Value |->
     IF \E j \in DOMAIN slots \cap DOMAIN vals : slots[j] = v
     THEN vals[CHOOSE j \in DOMAIN slots \cap DOMAIN vals : slots[j] = v]
     ELSE regs[v]]

(***************************************************************************)
(* How a step ends: Continue with the produced values, or the error that    *)
(* makes run break out of its loop with a partial result.                   *)
(***************************************************************************)
\* Faulty variant: jumps are not counted.
Counted_straight == steps' = IF inst.fmt = "Jump" THEN steps ELSE steps + 1

Counted == steps' = steps + 1

Continue(regs, m) ==
  /\ registers' = regs
  /\ mem' = m
  /\ pc' = pc + 1
  /\ Counted
  /\ UNCHANGED <<simulator, call, current, returns, error>>

Halt(e, regs, m) ==
  /\ error' = e
  /\ phase' = "done"
  /\ registers' = regs
  /\ mem' = m
  /\ Counted
  /\ UNCHANGED <<simulator, func, args, runs, current, pc, returns>>

Deliver(r) ==
  IF r.err = "none" THEN Continue(Bind(registers, inst.res, <<r.val>>), mem)
                    ELSE Halt(r.err, registers, mem)

\* An arm of step(): the formats it matches, its operands all read.
Arm(fmts) == Executing /\ inst.fmt \in fmts /\ Matched /\ OperandsBound

(***************************************************************************)
(* The arms of Simulator::step                                              *)
(***************************************************************************)
Iconst ==
  /\ Arm({"UnaryImm"})
  /\ Deliver(Convert(inst.imm, result_ty("I64"), IntTypes))

FloatConst ==
  /\ Arm({"UnaryIeee32", "UnaryIeee64"})
  /\ Deliver(Ok(Cast(IF inst.fmt = "UnaryIeee32" THEN "F32" ELSE "F64", inst.imm)))

Binary ==
  /\ Arm({"Binary"})
  /\ Deliver(apply_binary(inst.op, Arg(1), Arg(2)))

Unary ==
  /\ Arm({"Unary", "LoadNoOffset"})
  /\ Deliver(apply_unary(inst.op, Arg(1), result_ty(Arg(1).ty)))

IntCompare ==
  /\ Arm({"IntCompare"})
  /\ Deliver(Ok(Flag(icmp(inst.op, Arg(1), Arg(2)))))

FloatCompare ==
  /\ Arm({"FloatCompare"})
  /\ Deliver(Ok(Flag(fcmp(inst.op, Arg(1), Arg(2)))))

Select ==
  /\ Arm({"Ternary"})
  /\ Deliver(Ok(IF as_i64(Arg(1)) # 0 THEN Arg(2) ELSE Arg(3)))

\* The format alone is matched: the narrow loads (uload8, ...) and stores
\* (istore8, ...) share it and are executed at the full width of the value.
Load ==
  /\ Arm({"Load"})
  /\ Deliver(load_from(mem, Address(Arg(1), inst.imm), result_ty("I64")))

Store ==
  /\ Arm({"Store"})
  /\ LET r == store_to(mem, Address(Arg(2), inst.imm), Arg(1))
     IN  IF r.err = "none" THEN Continue(registers, r.mem)
                           ELSE Halt(r.err, registers, r.mem)

\* Faulty variants: parameters are written one at a time while the arguments
\* are still being read; only the first parameter is written; the table is
\* cleared when a block is entered.
Transfer_sequential(d) ==
  LET slots == Code[func].params[d.block]
      Late(j) == \E k \in DOMAIN slots : k < j /\ slots[k] = d.args[j]
      Moved(j) == IF Late(j)
                  THEN Reg(d.args[CHOOSE k \in DOMAIN slots : slots[k] = d.args[j]])
                  ELSE Reg(d.args[j])
  IN  Bind(registers, slots, [j \in DOMAIN d.args |-> Moved(j)])

Transfer_first(d) ==
  Bind(registers, Code[func].params[d.block],
       [j \in DOMAIN d.args \cap {1} |-> Reg(d.args[j])])

Transfer_cleared(d) ==
  Bind(NoRegisters, Code[func].params[d.block], [j \in DOMAIN d.args |-> Reg(d.args[j])])

\* The arguments are all read before the first parameter is written.
Transfer(d) ==
  Bind(registers, Code[func].params[d.block], [j \in DOMAIN d.args |-> Reg(d.args[j])])

Enter(d) ==
  /\ registers' = Transfer(d)
  /\ current' = d.block
  /\ pc' = 1
  /\ Counted
  /\ UNCHANGED <<simulator, call, mem, returns, error>>

Jump == Arm({"Jump"}) /\ Enter(inst.dst[1])

Brif == Arm({"Brif"}) /\ Enter(Chosen)

Return ==
  /\ Arm({"MultiAry"})
  /\ returns' = [j \in DOMAIN inst.args |-> Arg(j)]
  /\ phase' = "done"
  /\ Counted
  /\ UNCHANGED <<simulator, func, args, runs, current, pc, registers, mem, error>>

\* The stub binds the results to zero one by one, until one has a type
\* SimValue cannot hold.
Zeroable(k) == Code[func].vty[inst.res[k]] \in Types

\* Faulty variant: it leaves that one out and goes on to the next.
Call_skip ==
  /\ Arm({"Call"})
  /\ LET bound == { k \in DOMAIN inst.res : Zeroable(k) }
         regs  == Bind(registers, inst.res,
                       [k \in bound |-> zero_of(Code[func].vty[inst.res[k]])])
     IN  IF bound = DOMAIN inst.res THEN Continue(regs, mem)
                                    ELSE Halt("TypeMismatch", regs, mem)

Call ==
  /\ Arm({"Call"})
  /\ LET bound == { k \in DOMAIN inst.res : \A j \in 1 .. k : Zeroable(j) }
         regs  == Bind(registers, inst.res,
                       [k \in bound |-> zero_of(Code[func].vty[inst.res[k]])])
     IN  IF bound = DOMAIN inst.res THEN Continue(regs, mem)
                                    ELSE Halt("TypeMismatch", regs, mem)

Unsupported ==
  /\ Executing
  /\ ~Matched
  /\ Halt("UnsupportedOpcode", registers, mem)

\* get! met a Value no instruction wrote.
UndefinedOperand ==
  /\ Executing
  /\ Matched
  /\ ~OperandsBound
  /\ Halt("UndefinedValue", registers, mem)

(***************************************************************************)
(* The other exits of the loop in run(): the budget, checked before an      *)
(* instruction is counted, and the end of a block without a terminator.     *)
(***************************************************************************)
StepLimit ==
  /\ InBlock
  /\ BudgetSpent
  /\ error' = "StepLimitExceeded"
  /\ phase' = "done"
  /\ UNCHANGED <<simulator, func, args, runs, control, registers, mem, returns>>

FallOff ==
  /\ phase = "running"
  /\ pc > Len(block_insts)
  /\ error' = "NoTerminator"
  /\ phase' = "done"
  /\ UNCHANGED <<simulator, func, args, runs, control, registers, mem, returns>>

(***************************************************************************)
(* The caller                                                               *)
(***************************************************************************)
\* Faulty variant: the buffer is cloned.
TakeMemory_clone == mem' = memory /\ UNCHANGED memory

\* std::mem::take(&mut self.memory)
TakeMemory == mem' = memory /\ memory' = <<>>

\* The entry seam: memory moves out of the simulator, the parameters of the
\* entry block are zipped with the arguments, whose number and types nothing
\* checks.
Run(f, a) ==
  /\ runs' = runs + 1
  /\ func' = f
  /\ args' = a
  /\ TakeMemory
  /\ steps' = 0
  /\ pc' = 1
  /\ returns' = <<>>
  /\ IF Code[f].entry = NoBlock
     THEN /\ phase' = "done"
          /\ error' = "NoEntryBlock"
          /\ registers' = NoRegisters
          /\ UNCHANGED current
     ELSE /\ phase' = "running"
          /\ error' = "none"
          /\ registers' = Bind(NoRegisters, Code[f].params[Code[f].entry], a)
          /\ current' = Code[f].entry
  /\ UNCHANGED max_steps

\* Before a run its locals and its result do not exist.
NoRun == [func |-> CHOOSE f \in FuncId : TRUE, current |-> CHOOSE b \in Block : TRUE]

\* Simulator::new or with_memory; the caller drops the last result.
Build(m, limit) ==
  /\ memory' = m
  /\ max_steps' = limit
  /\ phase' = "idle"
  /\ func' = NoRun.func
  /\ args' = <<>>
  /\ registers' = NoRegisters
  /\ mem' = <<>>
  /\ current' = NoRun.current
  /\ pc' = 1
  /\ steps' = 0
  /\ returns' = <<>>
  /\ error' = "none"
  /\ UNCHANGED runs

NewSimulator ==
  /\ phase = "done"
  /\ runs < MaxRuns
  /\ \E m \in Memories, limit \in StepBudgets : Build(m, limit)

\* Simulator::with_memory(result.memory)
ReuseMemory ==
  /\ phase = "done"
  /\ runs < MaxRuns
  /\ \E limit \in StepBudgets : Build(mem, limit)

Init ==
  /\ memory \in Memories
  /\ max_steps \in StepBudgets
  /\ phase = "idle"
  /\ func = NoRun.func
  /\ args = <<>>
  /\ registers = NoRegisters
  /\ mem = <<>>
  /\ current = NoRun.current
  /\ pc = 1
  /\ steps = 0
  /\ returns = <<>>
  /\ error = "none"
  /\ runs = 0

Step ==
  \/ Iconst \/ FloatConst \/ Binary \/ Unary \/ IntCompare \/ FloatCompare
  \/ Select \/ Load \/ Store \/ Jump \/ Brif \/ Return \/ Call
  \/ Unsupported \/ UndefinedOperand \/ StepLimit \/ FallOff

CallRun ==
  /\ phase # "running"
  /\ runs < MaxRuns
  /\ \E f \in FuncId : \E a \in ArgVectors[f] : Run(f, a)

Caller == CallRun \/ NewSimulator \/ ReuseMemory

Next == Step \/ Caller

Spec == Init /\ [][Next]_vars

(***************************************************************************)
(* Properties                                                               *)
(***************************************************************************)
\* Every variable has its type; in particular every register holds a number
\* its SimValue variant can represent and memory holds bytes.
TypeOK ==
  /\ memory \in Seq(Byte)
  /\ max_steps \in Nat
  /\ phase \in {"idle", "running", "done"}
  /\ func \in FuncId
  /\ args \in Seq(SimValue)
  /\ registers \in [Value -> SimValue \cup {Undef}]
  /\ mem \in Seq(Byte)
  /\ current \in Block
  /\ pc \in Nat \ {0}
  /\ steps \in Nat
  /\ returns \in Seq(SimValue)
  /\ error \in SimError \cup {"none"}
  /\ runs \in 0 .. MaxRuns

\* What the caller of run() owes: as many arguments as the entry block has
\* parameters, of their types.
ArgumentsMatch ==
  LET entry_params == Code[func].params[Code[func].entry]
  IN  /\ Len(args) = Len(entry_params)
      /\ \A j \in 1 .. Len(args) : args[j].ty = Code[func].vty[entry_params[j]]

WellFormedRun == func \in Verified /\ ArgumentsMatch

\* A verified function of the supported subset, called with matching
\* arguments, ends in a return of the types its signature promises, in an
\* out-of-bounds access or at the step limit; never in an undefined value, a
\* type mismatch, an unsupported opcode or at the end of a block.  One flat
\* register table that is never cleared between blocks is enough for SSA.
Sound ==
  (phase = "done" /\ WellFormedRun) =>
    /\ error \in {"none", "OutOfBounds", "StepLimitExceeded"}
    /\ error = "none" =>
         /\ Len(returns) = Len(Code[func].rets)
         /\ \A j \in 1 .. Len(returns) : returns[j].ty = Code[func].rets[j]

\* The reason: while such a run executes, it is inside a block of the
\* function, and every value whose definition dominates the next instruction
\* is bound to a value of its type.
DominatorsBound ==
  (phase = "running" /\ WellFormedRun) =>
    /\ current \in Code[func].blocks
    /\ pc <= Len(block_insts)
    /\ \A v \in AvailAt(func, current, pc) :
         Reg(v) \in SimValue /\ Reg(v).ty = Code[func].vty[v]

\* Parts of the inductive invariant that say when a result exists.
ResultShape ==
  /\ phase = "running" => error = "none" /\ returns = <<>>
  /\ error # "none" => returns = <<>>

SoundInv == TypeOK /\ ResultShape /\ DominatorsBound /\ Sound

\* run() never counts more instructions than its budget, and gives up for
\* lack of budget only when all of it has been used.
WithinBudget ==
  /\ steps <= max_steps
  /\ error = "StepLimitExceeded" => steps = max_steps

\* A memory buffer has one owner: the simulator before a run, the run or its
\* result after it.
OneOwner == memory = <<>> \/ mem = <<>>

\* The results a stubbed call binds before it meets one that has no zero.
FirstResults ==
  { inst.res[k] : k \in { n \in DOMAIN inst.res : \A j \in 1 .. n :
                             Code[func].vty[inst.res[j]] \in Types } }

\* A faulting instruction leaves memory alone, and the partial result holds
\* exactly the values written before the fault; those of a stubbed call that
\* fails half way are the zeros of its first results, none after the one that
\* has no zero.
PartialResult ==
  [][(phase = "running" /\ error' # "none") =>
       /\ mem' = mem
       /\ \A v \in Value :
            registers'[v] =
              IF error' = "TypeMismatch" /\ inst.fmt = "Call" /\ v \in FirstResults
              THEN zero_of(Code[func].vty[v]) ELSE registers[v]]_vars

\* Only a store changes memory, only at the bytes it addresses, and no step
\* changes the size of the buffer.
WriteFrame ==
  [][phase = "running" =>
       /\ Len(mem') = Len(mem)
       /\ \A j \in DOMAIN mem : mem'[j] # mem[j] =>
            /\ inst.fmt = "Store"
            /\ LET addr == Address(Arg(2), inst.imm)
               IN  j - 1 \in addr .. addr + Bytes(Arg(1).ty) - 1]_vars

\* Every run returns to its caller, whatever the function: the step budget
\* stops loops.
Terminates == phase = "running" ~> phase = "done"
=============================================================================
