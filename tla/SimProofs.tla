------------------------------ MODULE SimProofs ------------------------------
(***************************************************************************)
(* Proofs about the interpreter, for every set of functions, every memory,  *)
(* every budget and the real width of a byte: type correctness, the step    *)
(* budget, single ownership of memory, soundness on verified functions, and *)
(* what one program computes.                                               *)
(***************************************************************************)
EXTENDS Sim, ValueProofs

(***************************************************************************)
(* What the helpers return on well typed operands                           *)
(***************************************************************************)
LEMMA BinaryOutcome ==
  ASSUME NEW op, NEW a \in SimValue, NEW b \in SimValue
  PROVE  /\ apply_binary(op, a, b) \in Outcome
         /\ BinaryTyped(op, a.ty, b.ty) => /\ apply_binary(op, a, b).err = "none"
                                           /\ apply_binary(op, a, b).val.ty = a.ty
<1>0. a.ty \in Types /\ a.n \in Int /\ b.n \in Int
  BY ValueFields
<1>1. CASE a.ty # b.ty
  BY <1>1, ErrOutcome DEF apply_binary, BinaryTyped, StepError
<1>2. CASE a.ty = b.ty /\ a.ty \in IntTypes
  <2>1. apply_binary(op, a, b) = apply_int(op, a.n, b.n, a.ty)
    BY <1>2 DEF apply_binary
  <2>2. CASE op \in IntOps
    BY <1>0, <1>2, <2>1, <2>2, IntResultType, CastOutcome DEF apply_int
  <2>3. CASE op \notin IntOps
    <3>1. apply_int(op, a.n, b.n, a.ty) = Err("UnsupportedOpcode")
      BY <2>3 DEF apply_int
    <3>2. ~BinaryTyped(op, a.ty, b.ty)
      BY <1>2, <2>3 DEF BinaryTyped, FloatTypes, IntTypes
    <3> QED
      BY <2>1, <3>1, <3>2, ErrOutcome DEF StepError
  <2> QED
    BY <2>2, <2>3
<1>3. CASE a.ty = b.ty /\ a.ty \notin IntTypes
  <2>1. a.ty \in FloatTypes
    BY <1>0, <1>3 DEF Types
  <2>2. apply_binary(op, a, b) = apply_float(op, a.n, b.n, a.ty)
    BY <1>3 DEF apply_binary
  <2>3. BinaryTyped(op, a.ty, b.ty) => op \in FloatOps
    BY <1>3 DEF BinaryTyped
  <2>4. /\ apply_float(op, a.n, b.n, a.ty) \in Outcome
        /\ op \in FloatOps => /\ apply_float(op, a.n, b.n, a.ty).err = "none"
                              /\ apply_float(op, a.n, b.n, a.ty).val.ty = a.ty
    BY <1>3, <2>1, FloatOutcome
  <2> QED
    BY <2>2, <2>3, <2>4
<1> QED
  BY <1>1, <1>2, <1>3

LEMMA UnaryOutcome ==
  ASSUME NEW op, NEW a \in SimValue, NEW ty
  PROVE  /\ apply_unary(op, a, ty) \in Outcome
         /\ (\/ UnaryTyped(op, a.ty, ty)
             \/ op = "bitcast" /\ ty \in Types) =>
              /\ apply_unary(op, a, ty).err = "none"
              /\ apply_unary(op, a, ty).val.ty = ty
<1> DEFINE r == apply_unary(op, a, ty)
<1>0. /\ a.ty \in Types /\ a.n \in Int /\ as_i64(a) \in Int /\ as_u64(a) \in Int
      /\ Bits(a) \in Int /\ Half(a.ty) \in Int
      /\ IntTypes \subseteq Types /\ FloatTypes \subseteq Types
  BY ValueFields, ModulusEven, Sizes DEF U64, Types
<1>1. ASSUME NEW tys \in {IntTypes, FloatTypes}, NEW raw \in Int
      PROVE  /\ SameType(a, tys, raw) \in Outcome
             /\ a.ty \in tys => /\ SameType(a, tys, raw).err = "none"
                                /\ SameType(a, tys, raw).val.ty = a.ty
  <2>1. CASE a.ty \in tys
    BY <1>0, <2>1, CastOutcome DEF SameType
  <2>2. CASE a.ty \notin tys
    BY <2>2, ErrOutcome DEF SameType, StepError
  <2> QED
    BY <2>1, <2>2
<1>2. CASE op = "ineg"
  BY <1>0, <1>1, <1>2 DEF apply_unary, UnaryTyped
<1>3. CASE op = "fneg"
  BY <1>0, <1>1, <1>3 DEF apply_unary, UnaryTyped
<1>4. CASE op = "bnot"
  BY <1>0, <1>1, <1>4 DEF apply_unary, UnaryTyped
<1>5. CASE op = "uextend"
  <2>1. CASE a.ty \in IntTypes
    BY <1>0, <1>5, <2>1, ConvertOutcome DEF apply_unary, uextend, UnaryTyped
  <2>2. CASE a.ty \notin IntTypes
    BY <1>5, <2>2, ErrOutcome DEF apply_unary, uextend, UnaryTyped, StepError
  <2> QED
    BY <2>1, <2>2
<1>6. CASE op \in {"sextend", "ireduce"}
  BY <1>0, <1>6, ConvertOutcome DEF apply_unary, UnaryTyped
<1>7. CASE op = "bitcast"
  BY <1>0, <1>7, ConvertOutcome DEF apply_unary, UnaryTyped
<1>8. CASE op \notin {"ineg", "fneg", "bnot", "uextend", "sextend", "ireduce", "bitcast"}
  BY <1>8, ErrOutcome DEF apply_unary, UnaryTyped, StepError
<1> QED
  BY <1>2, <1>3, <1>4, <1>5, <1>6, <1>7, <1>8

(***************************************************************************)
(* Registers                                                                *)
(***************************************************************************)
Registers == [Value -> SimValue \cup {Undef}]

LEMMA UndefIsNoValue == Undef \notin SimValue
BY DEF Undef, SimValue, Types, IntTypes, FloatTypes

LEMMA BindType ==
  ASSUME NEW regs \in Registers, NEW slots \in Seq(Value), NEW vals,
         \A j \in DOMAIN slots \cap DOMAIN vals : vals[j] \in SimValue
  PROVE  Bind(regs, slots, vals) \in Registers
<1> SUFFICES ASSUME NEW v \in Value
             PROVE  Bind(regs, slots, vals)[v] \in SimValue \cup {Undef}
  BY DEF Bind, Registers
<1>1. CASE \E j \in DOMAIN slots \cap DOMAIN vals : slots[j] = v
  <2> DEFINE k == CHOOSE j \in DOMAIN slots \cap DOMAIN vals : slots[j] = v
  <2>1. k \in DOMAIN slots \cap DOMAIN vals
    BY <1>1
  <2>2. Bind(regs, slots, vals)[v] = vals[k]
    BY <1>1 DEF Bind
  <2> QED
    BY <2>1, <2>2
<1>2. CASE ~\E j \in DOMAIN slots \cap DOMAIN vals : slots[j] = v
  BY <1>2 DEF Bind, Registers
<1> QED
  BY <1>1, <1>2

\* A register that is no slot keeps its value; a slot with a value gets it.
LEMMA BindKeeps ==
  ASSUME NEW regs, NEW slots \in Seq(Value), NEW vals,
         NEW v \in Value, v \notin Range(slots)
  PROVE  Bind(regs, slots, vals)[v] = regs[v]
<1>1. \A j \in DOMAIN slots : slots[j] # v
  BY DEF Range
<1> QED
  BY <1>1 DEF Bind

LEMMA BindSets ==
  ASSUME NEW regs, NEW slots \in Seq(Value), IsInjective(slots), NEW vals,
         NEW j \in DOMAIN slots, j \in DOMAIN vals
  PROVE  Bind(regs, slots, vals)[slots[j]] = vals[j]
<1> DEFINE k == CHOOSE i \in DOMAIN slots \cap DOMAIN vals : slots[i] = slots[j]
<1>1. k \in DOMAIN slots \cap DOMAIN vals /\ slots[k] = slots[j]
  OBVIOUS
<1>2. k = j
  BY <1>1 DEF IsInjective
<1>3. slots[j] \in Value
  OBVIOUS
<1>4. Bind(regs, slots, vals)[slots[j]] = vals[k]
  BY <1>3 DEF Bind
<1> QED
  BY <1>2, <1>4

(***************************************************************************)
(* The instruction about to be executed                                     *)
(***************************************************************************)
LEMMA CodeType ==
  ASSUME NEW f \in FuncId
  PROVE  /\ Code[f] \in ClifFunction
         /\ Code[f].entry \in Block \cup {NoBlock}
         /\ \A b \in Block : /\ Code[f].params[b] \in Seq(Value)
                             /\ IsInjective(Code[f].params[b])
                             /\ Code[f].body[b] \in Seq(Instruction)
         /\ \A v \in Value : Code[f].vty[v] \in ClifTypes
BY CodeAssumption DEF ClifFunction

LEMMA InstructionType ==
  ASSUME NEW i \in Instruction
  PROVE  /\ i.fmt \in Formats /\ i.imm \in Int
         /\ i.args \in Seq(Value)
         /\ i.res \in Seq(Value) /\ IsInjective(i.res)
         /\ i.dst \in Seq(BlockCall)
         /\ i.fmt \in {"MultiAry", "Call"} \/ Len(i.args) = Arity(i.fmt)
         /\ Len(i.dst) = Fanout(i.fmt)
BY DEF Instruction

LEMMA InstType ==
  ASSUME TypeOK, InBlock
  PROVE  /\ inst \in Instruction
         /\ Code[func].body[current] \in Seq(Instruction)
         /\ pc \in 1 .. Len(Code[func].body[current])
<1>1. func \in FuncId /\ current \in Block /\ pc \in Nat \ {0}
  BY DEF TypeOK
<1>2. Code[func].body[current] \in Seq(Instruction)
  BY <1>1, CodeType
<1>3. pc <= Len(Code[func].body[current])
  BY DEF InBlock, block_insts
<1> QED
  BY <1>1, <1>2, <1>3 DEF inst, block_insts

LEMMA OperandValues ==
  ASSUME TypeOK, InBlock, OperandsBound
  PROVE  \A k \in DOMAIN inst.args : inst.args[k] \in Value /\ Arg(k) \in SimValue
<1>1. inst.args \in Seq(Value)
  BY InstType, InstructionType
<1> SUFFICES ASSUME NEW k \in DOMAIN inst.args
             PROVE  inst.args[k] \in Value /\ Arg(k) \in SimValue
  OBVIOUS
<1>2. inst.args[k] \in Value /\ inst.args[k] \in Range(inst.args)
  BY <1>1 DEF Range
<1>3. Reg(inst.args[k]) # Undef
  BY <1>2 DEF OperandsBound, AllBound
<1> QED
  BY <1>2, <1>3 DEF Arg, Reg, TypeOK

\* The destination a branch takes is one of its destinations, and the
\* arguments passed to it have values.
LEMMA BranchTarget ==
  ASSUME TypeOK, InBlock, OperandsBound, inst.fmt \in {"Jump", "Brif"},
         NEW d, d = IF inst.fmt = "Jump" THEN inst.dst[1] ELSE Chosen
  PROVE  /\ \E j \in 1 .. Len(inst.dst) : d = inst.dst[j]
         /\ d \in BlockCall
         /\ \A j \in DOMAIN d.args : d.args[j] \in Value /\ Reg(d.args[j]) \in SimValue
<1>1. inst.dst \in Seq(BlockCall) /\ Len(inst.dst) = Fanout(inst.fmt)
  BY InstType, InstructionType
<1>2. PICK j \in 1 .. Len(inst.dst) : d = inst.dst[j]
  BY <1>1 DEF Chosen, Fanout
<1>3. d \in BlockCall
  BY <1>1, <1>2
<1>4. d.args \in Seq(Value)
  BY <1>3 DEF BlockCall
<1>5. AllBound(d.args)
  BY DEF OperandsBound
<1>6. ASSUME NEW k \in DOMAIN d.args
      PROVE  d.args[k] \in Value /\ Reg(d.args[k]) \in SimValue
  <2>1. d.args[k] \in Value /\ d.args[k] \in Range(d.args)
    BY <1>4 DEF Range
  <2>2. Reg(d.args[k]) # Undef
    BY <1>5, <2>1 DEF AllBound
  <2> QED
    BY <2>1, <2>2 DEF Reg, TypeOK
<1> QED
  BY <1>2, <1>3, <1>6

(***************************************************************************)
(* What the arms produce.  Each arm that delivers a value delivers an       *)
(* outcome; on an instruction that is well typed, with operands of their    *)
(* declared types, the value has the declared type of the result.           *)
(***************************************************************************)
OperandsTyped ==
  \A k \in DOMAIN inst.args : Arg(k).ty = Code[func].vty[inst.args[k]]

Delivers(r) == Yields(func, inst, r.val.ty)

LEMMA ResultType ==
  ASSUME TypeOK, InBlock, NEW default \in Types
  PROVE  /\ Len(inst.res) > 0 => result_ty(default) = Code[func].vty[inst.res[1]]
         /\ result_ty(default) \in ClifTypes
<1>1. inst.res \in Seq(Value) /\ func \in FuncId
  BY InstType, InstructionType DEF TypeOK
<1>2. CASE Len(inst.res) > 0
  BY <1>1, <1>2, CodeType DEF result_ty
<1>3. CASE ~(Len(inst.res) > 0)
  BY <1>3 DEF result_ty, ClifTypes
<1> QED
  BY <1>2, <1>3

LEMMA OperandCount ==
  ASSUME TypeOK, InBlock
  PROVE  /\ inst.fmt \in {"Unary", "LoadNoOffset", "Load", "Brif"} => 1 \in DOMAIN inst.args
         /\ inst.fmt \in {"Binary", "IntCompare", "FloatCompare", "Store"} =>
              {1, 2} \subseteq DOMAIN inst.args
         /\ inst.fmt = "Ternary" => {1, 2, 3} \subseteq DOMAIN inst.args
<1>1. inst.args \in Seq(Value)
  BY InstType, InstructionType
<1>2. inst.fmt \in {"MultiAry", "Call"} \/ Len(inst.args) = Arity(inst.fmt)
  BY InstType, InstructionType
<1> QED
  BY <1>1, <1>2 DEF Arity

LEMMA IconstOutcome ==
  ASSUME TypeOK, InBlock, inst.fmt = "UnaryImm"
  PROVE  LET r == Convert(inst.imm, result_ty("I64"), IntTypes)
         IN  /\ r \in Outcome
             /\ WellTyped(func, inst) => r.err = "none" /\ Delivers(r)
<1>1. inst.imm \in Int
  BY InstType, InstructionType
<1>2. WellTyped(func, inst) =>
        result_ty("I64") \in IntTypes /\ Yields(func, inst, result_ty("I64"))
  BY ResultType DEF WellTyped, YieldsIn, Yields, Types, IntTypes
<1> QED
  BY <1>1, <1>2, ConvertOutcome DEF Delivers, Types

LEMMA ConstOutcome ==
  ASSUME TypeOK, InBlock, inst.fmt \in {"UnaryIeee32", "UnaryIeee64"}
  PROVE  LET r == Ok(Cast(IF inst.fmt = "UnaryIeee32" THEN "F32" ELSE "F64", inst.imm))
         IN  /\ r \in Outcome
             /\ WellTyped(func, inst) => r.err = "none" /\ Delivers(r)
<1> DEFINE ty == IF inst.fmt = "UnaryIeee32" THEN "F32" ELSE "F64"
<1>1. inst.imm \in Int /\ ty \in Types
  BY InstType, InstructionType DEF Types, FloatTypes
<1>2. WellTyped(func, inst) => Yields(func, inst, ty)
  BY DEF WellTyped
<1> QED
  BY <1>1, <1>2, CastOutcome DEF Delivers

LEMMA BinaryArm ==
  ASSUME TypeOK, InBlock, OperandsBound, inst.fmt = "Binary"
  PROVE  LET r == apply_binary(inst.op, Arg(1), Arg(2))
         IN  /\ r \in Outcome
             /\ WellTyped(func, inst) /\ OperandsTyped => r.err = "none" /\ Delivers(r)
<1>1. Arg(1) \in SimValue /\ Arg(2) \in SimValue /\ {1, 2} \subseteq DOMAIN inst.args
  BY OperandValues, OperandCount
<1>2. WellTyped(func, inst) /\ OperandsTyped =>
        /\ BinaryTyped(inst.op, Arg(1).ty, Arg(2).ty)
        /\ Yields(func, inst, Arg(1).ty)
  BY <1>1 DEF WellTyped, OperandsTyped, Operand
<1> QED
  BY <1>1, <1>2, BinaryOutcome DEF Delivers

LEMMA UnaryArm ==
  ASSUME TypeOK, InBlock, OperandsBound, Matched, inst.fmt \in {"Unary", "LoadNoOffset"}
  PROVE  LET r == apply_unary(inst.op, Arg(1), result_ty(Arg(1).ty))
         IN  /\ r \in Outcome
             /\ WellTyped(func, inst) /\ OperandsTyped => r.err = "none" /\ Delivers(r)
<1> DEFINE to == result_ty(Arg(1).ty)
<1>1. Arg(1) \in SimValue /\ 1 \in DOMAIN inst.args /\ Arg(1).ty \in Types
  BY OperandValues, OperandCount, ValueFields
<1>2. ASSUME WellTyped(func, inst), OperandsTyped
      PROVE  /\ Yields(func, inst, to)
             /\ \/ UnaryTyped(inst.op, Arg(1).ty, to)
                \/ inst.op = "bitcast" /\ to \in Types
  <2>1. Len(inst.res) = 1 => to = Code[func].vty[inst.res[1]]
    BY <1>1, ResultType
  <2>2. Arg(1).ty = Operand(func, inst, 1)
    BY <1>1, <1>2 DEF OperandsTyped, Operand
  <2>3. CASE inst.fmt = "Unary"
    BY <1>2, <2>1, <2>2, <2>3 DEF WellTyped, Yields
  <2>4. CASE inst.fmt = "LoadNoOffset"
    BY <1>2, <2>1, <2>4 DEF WellTyped, Yields, YieldsIn
  <2> QED
    BY <2>3, <2>4
<1> HIDE DEF to
<1>3. /\ apply_unary(inst.op, Arg(1), to) \in Outcome
      /\ (\/ UnaryTyped(inst.op, Arg(1).ty, to)
          \/ inst.op = "bitcast" /\ to \in Types) =>
           /\ apply_unary(inst.op, Arg(1), to).err = "none"
           /\ apply_unary(inst.op, Arg(1), to).val.ty = to
  BY <1>1, UnaryOutcome
<1> QED
  BY <1>2, <1>3 DEF Delivers, to

LEMMA CompareArm ==
  ASSUME TypeOK, InBlock, inst.fmt \in {"IntCompare", "FloatCompare"}, NEW b
  PROVE  LET r == Ok(Flag(b))
         IN  /\ r \in Outcome
             /\ WellTyped(func, inst) => r.err = "none" /\ Delivers(r)
<1>1. WellTyped(func, inst) => Yields(func, inst, "I8")
  BY DEF WellTyped
<1> QED
  BY <1>1, FlagType, OkOutcome DEF Delivers

LEMMA SelectArm ==
  ASSUME TypeOK, InBlock, OperandsBound, inst.fmt = "Ternary"
  PROVE  LET r == Ok(IF as_i64(Arg(1)) # 0 THEN Arg(2) ELSE Arg(3))
         IN  /\ r \in Outcome
             /\ WellTyped(func, inst) /\ OperandsTyped => r.err = "none" /\ Delivers(r)
<1> DEFINE v == IF as_i64(Arg(1)) # 0 THEN Arg(2) ELSE Arg(3)
<1>1. /\ Arg(2) \in SimValue /\ Arg(3) \in SimValue
      /\ {1, 2, 3} \subseteq DOMAIN inst.args
  BY OperandValues, OperandCount
<1>2. v \in SimValue
  BY <1>1
<1>3. WellTyped(func, inst) /\ OperandsTyped => Yields(func, inst, v.ty)
  BY <1>1 DEF WellTyped, OperandsTyped, Operand
<1> QED
  BY <1>2, <1>3, OkOutcome DEF Delivers

LEMMA LoadArm ==
  ASSUME TypeOK, InBlock, OperandsBound, inst.fmt = "Load"
  PROVE  LET r == load_from(mem, Address(Arg(1), inst.imm), result_ty("I64"))
         IN  /\ r \in Outcome
             /\ WellTyped(func, inst) => /\ r.err \in {"none", "OutOfBounds"}
                                         /\ r.err = "none" => Delivers(r)
<1> DEFINE to == result_ty("I64")
           addr == Address(Arg(1), inst.imm)
<1>1. addr \in Nat
  BY OperandValues, OperandCount, InstType, InstructionType, AddressType
<1>2. mem \in Seq(Byte)
  BY DEF TypeOK
<1>3. WellTyped(func, inst) => to \in Types /\ Yields(func, inst, to)
  BY ResultType DEF WellTyped, YieldsIn, Yields, Types, IntTypes
<1> HIDE DEF to, addr
<1>4. /\ load_from(mem, addr, to) \in Outcome
      /\ to \in Types => /\ load_from(mem, addr, to).err \in {"none", "OutOfBounds"}
                         /\ load_from(mem, addr, to).err = "none" =>
                              load_from(mem, addr, to).val.ty = to
  BY <1>1, <1>2, LoadOutcome
<1> QED
  BY <1>3, <1>4 DEF Delivers, to, addr

(***************************************************************************)
(* Type correctness                                                         *)
(***************************************************************************)
LEMMA ContinueType ==
  ASSUME TypeOK, NEW regs \in Registers, NEW m \in Seq(Byte), Continue(regs, m)
  PROVE  TypeOK'
BY DEF TypeOK, Continue, Counted, simulator, call, Registers

LEMMA HaltType ==
  ASSUME TypeOK, NEW regs \in Registers, NEW m \in Seq(Byte),
         NEW e \in StepError, Halt(e, regs, m)
  PROVE  TypeOK'
BY DEF TypeOK, Halt, Counted, simulator, Registers, StepError, SimError

LEMMA DeliverBinds ==
  ASSUME TypeOK, InBlock, NEW r \in Outcome
  PROVE  Bind(registers, inst.res, <<r.val>>) \in Registers
<1>1. registers \in Registers /\ inst.res \in Seq(Value)
  BY InstType, InstructionType DEF TypeOK, Registers
<1>2. \A j \in DOMAIN inst.res \cap DOMAIN <<r.val>> : <<r.val>>[j] \in SimValue
  BY DEF Outcome
<1> QED
  BY <1>1, <1>2, BindType

LEMMA DeliverType ==
  ASSUME TypeOK, InBlock, NEW r \in Outcome, Deliver(r)
  PROVE  TypeOK'
<1>1. registers \in Registers /\ mem \in Seq(Byte)
  BY DEF TypeOK, Registers
<1>2. CASE r.err = "none"
  BY <1>1, <1>2, DeliverBinds, ContinueType DEF Deliver
<1>3. CASE r.err # "none"
  BY <1>1, <1>3, HaltType DEF Deliver, Outcome
<1> QED
  BY <1>2, <1>3

LEMMA ArmFacts ==
  ASSUME NEW fmts, Arm(fmts)
  PROVE  InBlock /\ OperandsBound /\ Matched /\ inst.fmt \in fmts
BY DEF Arm, Executing

LEMMA TransferType ==
  ASSUME TypeOK, InBlock, OperandsBound, inst.fmt \in {"Jump", "Brif"},
         NEW d, d = IF inst.fmt = "Jump" THEN inst.dst[1] ELSE Chosen
  PROVE  Transfer(d) \in Registers /\ d.block \in Block
<1>1. d \in BlockCall /\ \A j \in DOMAIN d.args : Reg(d.args[j]) \in SimValue
  BY BranchTarget
<1>2. d.block \in Block /\ func \in FuncId /\ registers \in Registers
  BY <1>1 DEF BlockCall, TypeOK, Registers
<1>3. Code[func].params[d.block] \in Seq(Value)
  BY <1>2, CodeType
<1> QED
  BY <1>1, <1>2, <1>3, BindType DEF Transfer

LEMMA EnterType ==
  ASSUME TypeOK, InBlock, OperandsBound, inst.fmt \in {"Jump", "Brif"},
         NEW d, d = (IF inst.fmt = "Jump" THEN inst.dst[1] ELSE Chosen), Enter(d)
  PROVE  TypeOK'
<1>1. Transfer(d) \in Registers /\ d.block \in Block
  BY TransferType
<1> QED
  BY <1>1 DEF TypeOK, Enter, Counted, simulator, call, Registers

LEMMA StoreType ==
  ASSUME TypeOK, Store
  PROVE  LET r == store_to(mem, Address(Arg(2), inst.imm), Arg(1))
         IN  /\ r.err \in {"none", "OutOfBounds"}
             /\ r.mem \in Seq(Byte) /\ Len(r.mem) = Len(mem)
             /\ r.err # "none" => r.mem = mem
             /\ \A j \in DOMAIN mem : r.mem[j] # mem[j] =>
                  j - 1 \in Address(Arg(2), inst.imm)
                              .. Address(Arg(2), inst.imm) + Bytes(Arg(1).ty) - 1
<1>1. InBlock /\ OperandsBound /\ inst.fmt = "Store"
  BY ArmFacts DEF Store
<1>2. Arg(1) \in SimValue /\ Arg(2) \in SimValue
  BY <1>1, OperandValues, OperandCount
<1>3. Address(Arg(2), inst.imm) \in Nat /\ mem \in Seq(Byte)
  BY <1>1, <1>2, InstType, InstructionType, AddressType DEF TypeOK
<1> QED
  BY <1>2, <1>3, StoreOutcome

\* The registers after a call: its results up to the first that cannot be
\* zeroed are zero.
LEMMA CallBinds ==
  ASSUME TypeOK, InBlock, inst.fmt = "Call",
         NEW bound, bound = { k \in DOMAIN inst.res : \A j \in 1 .. k : Zeroable(j) }
  PROVE  /\ \A k \in bound : /\ zero_of(Code[func].vty[inst.res[k]]) \in SimValue
                             /\ zero_of(Code[func].vty[inst.res[k]]).ty
                                  = Code[func].vty[inst.res[k]]
         /\ Bind(registers, inst.res,
                 [k \in bound |-> zero_of(Code[func].vty[inst.res[k]])]) \in Registers
<1>1. inst.res \in Seq(Value) /\ registers \in Registers
  BY InstType, InstructionType DEF TypeOK, Registers
<1>2. \A k \in bound : Code[func].vty[inst.res[k]] \in Types
  <2> TAKE k \in bound
  <2>1. k \in 1 .. k /\ Zeroable(k)
    BY <1>1
  <2> QED
    BY <2>1 DEF Zeroable
<1>3. \A k \in bound : /\ zero_of(Code[func].vty[inst.res[k]]) \in SimValue
                       /\ zero_of(Code[func].vty[inst.res[k]]).ty
                            = Code[func].vty[inst.res[k]]
  BY <1>2, CastType DEF zero_of
<1> QED
  BY <1>1, <1>3, BindType

LEMMA RunType ==
  ASSUME TypeOK, NEW f \in FuncId, NEW a \in ArgVectors[f], Run(f, a), runs < MaxRuns
  PROVE  TypeOK'
<1>1. a \in Seq(SimValue)
  BY CallerAssumption
<1>2. /\ memory' \in Seq(Byte) /\ mem' \in Seq(Byte) /\ max_steps' \in Nat
      /\ func' \in FuncId /\ args' \in Seq(SimValue)
      /\ steps' \in Nat /\ pc' \in Nat \ {0} /\ returns' \in Seq(SimValue)
      /\ runs' \in 0 .. MaxRuns
  BY <1>1, CallerAssumption DEF TypeOK, Run, TakeMemory
<1>3. NoRegisters \in Registers
  BY DEF NoRegisters, Registers
<1>4. CASE Code[f].entry = NoBlock
  BY <1>2, <1>3, <1>4 DEF TypeOK, Run, Registers, SimError
<1>5. CASE Code[f].entry # NoBlock
  <2>1. Code[f].entry \in Block /\ Code[f].params[Code[f].entry] \in Seq(Value)
    BY <1>5, CodeType
  <2>2. Bind(NoRegisters, Code[f].params[Code[f].entry], a) \in Registers
    BY <1>1, <1>3, <2>1, BindType
  <2> QED
    BY <1>2, <1>5, <2>1, <2>2 DEF TypeOK, Run, Registers
<1> QED
  BY <1>4, <1>5

LEMMA NoRunType ==
  NoRun.func \in FuncId /\ NoRun.current \in Block /\ NoRegisters \in Registers
BY CallerAssumption DEF NoRun, NoRegisters, Registers

LEMMA MemoriesType == Memories \subseteq Seq(Byte)
<1>1. \A size \in MemorySizes : NewMemory(size) \in Seq(Byte)
  <2> TAKE size \in MemorySizes
  <2>1. size \in Nat /\ 0 \in Byte
    BY CallerAssumption, Sizes DEF Byte
  <2> QED
    BY <2>1 DEF NewMemory
<1> QED
  BY <1>1, CallerAssumption DEF Memories

LEMMA BuildType ==
  ASSUME TypeOK, NEW m \in Seq(Byte), NEW limit \in StepBudgets, Build(m, limit)
  PROVE  TypeOK'
BY NoRunType, CallerAssumption DEF TypeOK, Build, Registers

LEMMA InitType == Init => TypeOK
BY NoRunType, MemoriesType, CallerAssumption DEF Init, TypeOK, Registers

LEMMA StepType ==
  ASSUME TypeOK, Step
  PROVE  TypeOK'
<1>0. registers \in Registers /\ mem \in Seq(Byte)
  BY DEF TypeOK, Registers
<1>1. CASE Iconst
  BY <1>1, ArmFacts, IconstOutcome, DeliverType DEF Iconst
<1>2. CASE FloatConst
  BY <1>2, ArmFacts, ConstOutcome, DeliverType DEF FloatConst
<1>3. CASE Binary
  BY <1>3, ArmFacts, BinaryArm, DeliverType DEF Binary
<1>4. CASE Unary
  BY <1>4, ArmFacts, UnaryArm, DeliverType DEF Unary
<1>5. CASE IntCompare
  BY <1>5, ArmFacts, CompareArm, DeliverType DEF IntCompare
<1>6. CASE FloatCompare
  BY <1>6, ArmFacts, CompareArm, DeliverType DEF FloatCompare
<1>7. CASE Select
  BY <1>7, ArmFacts, SelectArm, DeliverType DEF Select
<1>8. CASE Load
  BY <1>8, ArmFacts, LoadArm, DeliverType DEF Load
<1>9. CASE Store
  <2> DEFINE r == store_to(mem, Address(Arg(2), inst.imm), Arg(1))
  <2>1. r.err \in {"none", "OutOfBounds"} /\ r.mem \in Seq(Byte)
    BY <1>9, StoreType
  <2>2. CASE r.err = "none"
    BY <1>0, <1>9, <2>1, <2>2, ContinueType DEF Store
  <2>3. CASE r.err # "none"
    BY <1>0, <1>9, <2>1, <2>3, HaltType DEF Store, StepError
  <2> QED
    BY <2>2, <2>3
<1>10. CASE Jump
  BY <1>10, ArmFacts, EnterType DEF Jump
<1>11. CASE Brif
  BY <1>11, ArmFacts, EnterType DEF Brif
<1>12. CASE Return
  <2>1. InBlock /\ OperandsBound
    BY <1>12, ArmFacts DEF Return
  <2>2. inst.args \in Seq(Value) /\ \A k \in DOMAIN inst.args : Arg(k) \in SimValue
    BY <2>1, InstType, InstructionType, OperandValues
  <2>3. [j \in DOMAIN inst.args |-> Arg(j)] \in Seq(SimValue)
    BY <2>2
  <2> QED
    BY <1>12, <2>3 DEF TypeOK, Return, Counted, simulator
<1>13. CASE Call
  <2> DEFINE bound == { k \in DOMAIN inst.res : \A j \in 1 .. k : Zeroable(j) }
             regs == Bind(registers, inst.res,
                          [k \in bound |-> zero_of(Code[func].vty[inst.res[k]])])
  <2>1. regs \in Registers
    BY <1>13, ArmFacts, CallBinds DEF Call
  <2>2. CASE bound = DOMAIN inst.res
    BY <1>0, <1>13, <2>1, <2>2, ContinueType DEF Call
  <2>3. CASE bound # DOMAIN inst.res
    BY <1>0, <1>13, <2>1, <2>3, HaltType DEF Call, StepError
  <2> QED
    BY <2>2, <2>3
<1>14. CASE Unsupported
  BY <1>0, <1>14, HaltType DEF Unsupported, StepError
<1>15. CASE UndefinedOperand
  BY <1>0, <1>15, HaltType DEF UndefinedOperand, StepError
<1>16. CASE StepLimit
  BY <1>16 DEF TypeOK, StepLimit, simulator, control, SimError
<1>17. CASE FallOff
  BY <1>17 DEF TypeOK, FallOff, simulator, control, SimError
<1> QED
  BY <1>1, <1>2, <1>3, <1>4, <1>5, <1>6, <1>7, <1>8, <1>9, <1>10, <1>11, <1>12,
     <1>13, <1>14, <1>15, <1>16, <1>17 DEF Step

LEMMA CallerType ==
  ASSUME TypeOK, Caller
  PROVE  TypeOK'
<1>1. CASE CallRun
  BY <1>1, RunType DEF CallRun
<1>2. CASE NewSimulator
  BY <1>2, MemoriesType, BuildType DEF NewSimulator
<1>3. CASE ReuseMemory
  BY <1>3, BuildType DEF ReuseMemory, TypeOK
<1> QED
  BY <1>1, <1>2, <1>3 DEF Caller

\* Whatever the functions, their arguments, memory and budgets, and however
\* the caller mixes runs and simulators: every register holds a number its
\* variant can represent, memory holds bytes, and a run ends with returns or
\* with one of the errors of SimError.
THEOREM TypeCorrect == Spec => []TypeOK
<1>1. Init => TypeOK
  BY InitType
<1>2. TypeOK /\ [Next]_vars => TypeOK'
  <2>1. TypeOK /\ Next => TypeOK'
    BY StepType, CallerType DEF Next
  <2>2. TypeOK /\ UNCHANGED vars => TypeOK'
    BY DEF TypeOK, vars, simulator, call, control, result
  <2> QED
    BY <2>1, <2>2
<1> QED
  BY <1>1, <1>2, PTL DEF Spec

(***************************************************************************)
(* The budget                                                               *)
(***************************************************************************)
\* What every step does to the counter and the outcome of the run.
StepEffect ==
  /\ UNCHANGED <<memory, max_steps>>
  /\ \/ /\ ~BudgetSpent /\ steps' = steps + 1
        /\ error' = error \/ error' \in StepError
        /\ error' # error => phase' = "done" /\ returns' = returns
        /\ phase' = "running" => returns' = returns /\ error' = error
     \/ /\ BudgetSpent /\ steps' = steps /\ phase' = "done"
        /\ error' = "StepLimitExceeded" /\ returns' = returns
     \/ /\ steps' = steps /\ phase' = "done"
        /\ error' = "NoTerminator" /\ returns' = returns

LEMMA StepEffects ==
  ASSUME TypeOK, Step
  PROVE  phase = "running" /\ StepEffect
<1>1. ASSUME NEW regs, NEW m, Executing, Continue(regs, m)
      PROVE  StepEffect
  BY <1>1 DEF StepEffect, Continue, Executing, Counted, simulator, call
<1>2. ASSUME NEW regs, NEW m, NEW e \in StepError, Executing, Halt(e, regs, m)
      PROVE  StepEffect
  BY <1>2 DEF StepEffect, Halt, Executing, Counted, simulator
<1>3. ASSUME NEW r \in Outcome, Executing, Deliver(r)
      PROVE  StepEffect
  BY <1>1, <1>2, <1>3 DEF Deliver, Outcome
<1>4. ASSUME NEW d, Executing, Enter(d)
      PROVE  StepEffect
  BY <1>4 DEF StepEffect, Enter, Executing, Counted, simulator, call
<1>5. ASSUME Executing
      PROVE  phase = "running" /\ InBlock
  BY <1>5 DEF Executing, InBlock
<1>6. \A fmts : Arm(fmts) => Executing
  BY DEF Arm
<1>7. CASE Iconst
  BY <1>3, <1>5, <1>6, <1>7, ArmFacts, IconstOutcome DEF Iconst
<1>8. CASE FloatConst
  BY <1>3, <1>5, <1>6, <1>8, ArmFacts, ConstOutcome DEF FloatConst
<1>9. CASE Binary
  BY <1>3, <1>5, <1>6, <1>9, ArmFacts, BinaryArm DEF Binary
<1>10. CASE Unary
  BY <1>3, <1>5, <1>6, <1>10, ArmFacts, UnaryArm DEF Unary
<1>11. CASE IntCompare
  BY <1>3, <1>5, <1>6, <1>11, ArmFacts, CompareArm DEF IntCompare
<1>12. CASE FloatCompare
  BY <1>3, <1>5, <1>6, <1>12, ArmFacts, CompareArm DEF FloatCompare
<1>13. CASE Select
  BY <1>3, <1>5, <1>6, <1>13, ArmFacts, SelectArm DEF Select
<1>14. CASE Load
  BY <1>3, <1>5, <1>6, <1>14, ArmFacts, LoadArm DEF Load
<1>15. CASE Store
  BY <1>1, <1>2, <1>5, <1>6, <1>15, StoreType DEF Store, StepError
<1>16. CASE Jump
  BY <1>4, <1>5, <1>6, <1>16 DEF Jump
<1>17. CASE Brif
  BY <1>4, <1>5, <1>6, <1>17 DEF Brif
<1>18. CASE Return
  <2>1. Executing
    BY <1>6, <1>18 DEF Return
  <2> QED
    BY <1>18, <2>1 DEF Return, StepEffect, Executing, InBlock, Counted, simulator
<1>19. CASE Call
  BY <1>1, <1>2, <1>5, <1>6, <1>19 DEF Call, StepError
<1>20. CASE Unsupported
  BY <1>2, <1>5, <1>20 DEF Unsupported, StepError
<1>21. CASE UndefinedOperand
  BY <1>2, <1>5, <1>21 DEF UndefinedOperand, StepError
<1>22. CASE StepLimit
  BY <1>22 DEF StepLimit, StepEffect, InBlock, simulator, control
<1>23. CASE FallOff
  BY <1>23 DEF FallOff, StepEffect, simulator, control
<1> QED
  BY <1>7, <1>8, <1>9, <1>10, <1>11, <1>12, <1>13, <1>14, <1>15, <1>16, <1>17,
     <1>18, <1>19, <1>20, <1>21, <1>22, <1>23 DEF Step

BudgetInv == ResultShape /\ WithinBudget

LEMMA BudgetNext ==
  ASSUME TypeOK, BudgetInv, [Next]_vars
  PROVE  BudgetInv'
<1>0. steps \in Nat /\ max_steps \in Nat
  BY DEF TypeOK
<1>1. CASE Step
  <2>1. phase = "running" /\ StepEffect
    BY <1>1, StepEffects
  <2> QED
    BY <1>0, <2>1 DEF StepEffect, BudgetInv, ResultShape, WithinBudget, BudgetSpent, StepError
<1>2. CASE CallRun
  BY <1>0, <1>2 DEF CallRun, Run, BudgetInv, ResultShape, WithinBudget
<1>3. ASSUME NEW m, NEW limit \in StepBudgets, Build(m, limit)
      PROVE  BudgetInv'
  <2>1. limit \in Nat
    BY CallerAssumption
  <2> QED
    BY <1>3, <2>1 DEF Build, BudgetInv, ResultShape, WithinBudget
<1>4. CASE NewSimulator \/ ReuseMemory
  BY <1>3, <1>4 DEF NewSimulator, ReuseMemory
<1>5. CASE UNCHANGED vars
  BY <1>5 DEF vars, simulator, call, control, result, BudgetInv, ResultShape, WithinBudget
<1> QED
  BY <1>1, <1>2, <1>4, <1>5 DEF Next, Caller

\* No run counts more instructions than its budget, and a run that reports the
\* step limit has used all of it.
THEOREM BudgetKept == Spec => []WithinBudget
<1>1. Init => BudgetInv
  BY CallerAssumption DEF Init, BudgetInv, ResultShape, WithinBudget
<1>2. TypeOK /\ BudgetInv /\ [Next]_vars => BudgetInv'
  BY BudgetNext
<1>3. BudgetInv => WithinBudget
  BY DEF BudgetInv
<1> QED
  BY <1>1, <1>2, <1>3, TypeCorrect, PTL DEF Spec

LEMMA RunningStep ==
  ASSUME Next, phase = "running"
  PROVE  Step
BY DEF Next, Caller, CallRun, NewSimulator, ReuseMemory

\* What Terminates rests on: the budget that is left.
Left == max_steps - steps

BudgetShrinks ==
  [][phase = "running" => phase' = "done" \/ (Left' \in Nat /\ Left' < Left)]_vars

\* Every turn of the loop in run() ends the run or uses up budget, branches as
\* well as straight instructions, so no run makes more turns than its budget
\* and one.
THEOREM TurnsAreBounded == Spec => BudgetShrinks
<1>1. ASSUME TypeOK, BudgetInv, BudgetInv', Next, phase = "running"
      PROVE  phase' = "done" \/ (Left' \in Nat /\ Left' < Left)
  <2>1. Step
    BY <1>1, RunningStep
  <2>2. StepEffect
    BY <1>1, <2>1, StepEffects
  <2>3. steps \in Nat /\ max_steps \in Nat /\ steps' <= max_steps'
    BY <1>1 DEF TypeOK, BudgetInv, WithinBudget
  <2> QED
    BY <2>2, <2>3 DEF StepEffect, Left
<1>2. Init => BudgetInv
  BY CallerAssumption DEF Init, BudgetInv, ResultShape, WithinBudget
<1>3. TypeOK /\ BudgetInv /\ [Next]_vars => BudgetInv'
  BY BudgetNext
<1> QED
  BY <1>1, <1>2, <1>3, TypeCorrect, PTL DEF Spec, BudgetShrinks

(***************************************************************************)
(* Memory and partial results                                               *)
(***************************************************************************)
Stored == store_to(mem, Address(Arg(2), inst.imm), Arg(1))

Kept(v) ==
  registers'[v] = IF error' = "TypeMismatch" /\ inst.fmt = "Call" /\ v \in FirstResults
                  THEN zero_of(Code[func].vty[v]) ELSE registers[v]

\* Only Store touches memory, and a step that ends in an error keeps memory
\* and registers, but for the first results of a failing call.
StepFrame ==
  /\ mem' = mem \/ (Store /\ mem' = Stored.mem)
  /\ error' # error => mem' = mem /\ \A v \in Value : Kept(v)

LEMMA StepFrames ==
  ASSUME TypeOK, Step
  PROVE  StepFrame
<1>1. ASSUME NEW regs, Continue(regs, mem)
      PROVE  StepFrame
  BY <1>1 DEF StepFrame, Continue
<1>2. ASSUME NEW e, Halt(e, registers, mem), inst.fmt # "Call" \/ e # "TypeMismatch"
      PROVE  StepFrame
  BY <1>2 DEF StepFrame, Halt, Kept
<1>3. ASSUME NEW r, Deliver(r), inst.fmt # "Call"
      PROVE  StepFrame
  BY <1>1, <1>2, <1>3 DEF Deliver
<1>4. ASSUME NEW d, Enter(d)
      PROVE  StepFrame
  BY <1>4 DEF StepFrame, Enter
<1>5. CASE Iconst \/ FloatConst \/ Binary \/ Unary \/ IntCompare \/ FloatCompare
           \/ Select \/ Load
  <2>1. inst.fmt # "Call"
    BY <1>5, ArmFacts DEF Iconst, FloatConst, Binary, Unary, IntCompare,
                          FloatCompare, Select, Load
  <2> QED
    BY <1>3, <1>5, <2>1 DEF Iconst, FloatConst, Binary, Unary, IntCompare,
                            FloatCompare, Select, Load
<1>6. CASE Store
  <2>1. Stored.err # "none" => Stored.mem = mem
    BY <1>6, StoreType DEF Stored
  <2>2. CASE Stored.err = "none"
    <3>1. Continue(registers, Stored.mem)
      BY <1>6, <2>2 DEF Store, Stored
    <3> QED
      BY <1>6, <3>1 DEF StepFrame, Continue
  <2>3. CASE Stored.err # "none"
    <3>1. Halt(Stored.err, registers, mem)
      BY <1>6, <2>1, <2>3 DEF Store, Stored
    <3>2. inst.fmt = "Store"
      BY <1>6, ArmFacts DEF Store
    <3> QED
      BY <1>2, <3>1, <3>2
  <2> QED
    BY <2>2, <2>3
<1>7. CASE Jump \/ Brif
  BY <1>4, <1>7 DEF Jump, Brif
<1>8. CASE Call
  <2> DEFINE bound == { k \in DOMAIN inst.res : \A j \in 1 .. k : Zeroable(j) }
             vals  == [k \in bound |-> zero_of(Code[func].vty[inst.res[k]])]
             regs  == Bind(registers, inst.res, vals)
  <2>1. inst.fmt = "Call" /\ FirstResults = { inst.res[k] : k \in bound }
    BY <1>8, ArmFacts DEF Call, FirstResults, Zeroable
  <2>2. ASSUME NEW v \in Value
        PROVE  regs[v] = IF v \in FirstResults THEN zero_of(Code[func].vty[v])
                                               ELSE registers[v]
    <3>1. DOMAIN inst.res \cap DOMAIN vals = bound
      OBVIOUS
    <3>2. CASE v \in FirstResults
      <4> DEFINE c == CHOOSE j \in bound : inst.res[j] = v
      <4>1. \E j \in bound : inst.res[j] = v
        BY <2>1, <3>2
      <4>2. c \in bound /\ inst.res[c] = v
        BY <4>1
      <4>3. regs[v] = vals[c]
        BY <3>1, <4>1 DEF Bind
      <4> QED
        BY <3>2, <4>2, <4>3
    <3>3. CASE v \notin FirstResults
      <4>1. \A j \in bound : inst.res[j] # v
        BY <2>1, <3>3
      <4> QED
        BY <3>1, <3>3, <4>1 DEF Bind
    <3> QED
      BY <3>2, <3>3
  <2>3. CASE bound = DOMAIN inst.res
    BY <1>1, <1>8, <2>3 DEF Call
  <2>4. CASE bound # DOMAIN inst.res
    <3>1. Halt("TypeMismatch", regs, mem)
      BY <1>8, <2>4 DEF Call
    <3> QED
      BY <2>1, <2>2, <3>1 DEF Halt, StepFrame, Kept
  <2> QED
    BY <2>3, <2>4
<1>9. CASE Return
  BY <1>9 DEF Return, StepFrame
<1>10. CASE Unsupported \/ UndefinedOperand
  BY <1>2, <1>10 DEF Unsupported, UndefinedOperand
<1>11. CASE StepLimit \/ FallOff
  BY <1>11 DEF StepLimit, FallOff, StepFrame, Kept
<1> QED
  BY <1>5, <1>6, <1>7, <1>8, <1>9, <1>10, <1>11 DEF Step

LEMMA MemoryFrame ==
  ASSUME TypeOK, Next, phase = "running"
  PROVE  /\ Len(mem') = Len(mem)
         /\ \A j \in DOMAIN mem : mem'[j] # mem[j] =>
              /\ inst.fmt = "Store"
              /\ LET addr == Address(Arg(2), inst.imm)
                 IN  j - 1 \in addr .. addr + Bytes(Arg(1).ty) - 1
<1>1. Step
  BY RunningStep
<1>2. mem' = mem \/ (Store /\ mem' = Stored.mem)
  BY <1>1, StepFrames DEF StepFrame
<1>3. CASE mem' = mem
  BY <1>3
<1>4. CASE Store /\ mem' = Stored.mem
  <2>1. inst.fmt = "Store"
    BY <1>4, ArmFacts DEF Store
  <2> QED
    BY <1>4, <2>1, StoreType DEF Stored
<1> QED
  BY <1>2, <1>3, <1>4

\* A store writes exactly the bytes it addresses; nothing else writes memory,
\* and nothing resizes it during a run.
THEOREM StoresFramed == Spec => WriteFrame
BY MemoryFrame, TypeCorrect, PTL DEF Spec, WriteFrame

\* The result of a run that fails is the state just before the instruction
\* that failed: no byte of memory has changed, and no register but the results
\* a failing call has bound to zero before the one it cannot bind.
THEOREM FailureIsPartial == Spec => PartialResult
<1>1. ASSUME TypeOK, ResultShape, Next, phase = "running", error' # "none"
      PROVE  /\ mem' = mem
             /\ \A v \in Value :
                  registers'[v] =
                    IF error' = "TypeMismatch" /\ inst.fmt = "Call" /\ v \in FirstResults
                    THEN zero_of(Code[func].vty[v]) ELSE registers[v]
  <2>1. Step /\ error = "none"
    BY <1>1, RunningStep DEF ResultShape
  <2> QED
    BY <1>1, <2>1, StepFrames DEF StepFrame, Kept
<1>2. Spec => []BudgetInv
  <2>1. Init => BudgetInv
    BY CallerAssumption DEF Init, BudgetInv, ResultShape, WithinBudget
  <2>2. TypeOK /\ BudgetInv /\ [Next]_vars => BudgetInv'
    BY BudgetNext
  <2> QED
    BY <2>1, <2>2, TypeCorrect, PTL DEF Spec
<1>3. BudgetInv => ResultShape
  BY DEF BudgetInv
<1> QED
  BY <1>1, <1>2, <1>3, TypeCorrect, PTL DEF Spec, PartialResult

(***************************************************************************)
(* Ownership of memory                                                      *)
(***************************************************************************)
Owner == /\ phase = "idle" => mem = <<>>
         /\ phase # "idle" => memory = <<>>

\* A buffer is in the simulator or in the run and its result, never in both:
\* run() takes it, and the caller moves it from the result to a simulator.
THEOREM MemoryHasOneOwner == Spec => []OneOwner
<1>1. Init => Owner
  BY DEF Init, Owner
<1>2. TypeOK /\ Owner /\ [Next]_vars => Owner'
  <2> SUFFICES ASSUME TypeOK, Owner, [Next]_vars
               PROVE  Owner'
    OBVIOUS
  <2>1. CASE Step
    <3>1. phase = "running" /\ memory' = memory /\ phase' # "idle"
      <4>1. phase = "running" /\ StepEffect
        BY <2>1, StepEffects
      <4>2. phase' # "idle"
        BY <2>1, <4>1 DEF Step, Iconst, FloatConst, Binary, Unary, IntCompare,
           FloatCompare, Select, Load, Store, Jump, Brif, Return, Call, Unsupported,
           UndefinedOperand, StepLimit, FallOff, Deliver, Continue, Halt, Enter, call
      <4> QED
        BY <4>1, <4>2 DEF StepEffect
    <3> QED
      BY <3>1 DEF Owner
  <2>2. CASE CallRun
    BY <2>2 DEF CallRun, Run, TakeMemory, Owner
  <2>3. CASE NewSimulator \/ ReuseMemory
    BY <2>3 DEF NewSimulator, ReuseMemory, Build, Owner
  <2>4. CASE UNCHANGED vars
    BY <2>4 DEF vars, simulator, call, result, Owner
  <2> QED
    BY <2>1, <2>2, <2>3, <2>4 DEF Next, Caller
<1>3. Owner => OneOwner
  BY DEF Owner, OneOwner
<1> QED
  BY <1>1, <1>2, <1>3, TypeCorrect, PTL DEF Spec

(***************************************************************************)
(* Soundness: while a verified function called with matching arguments      *)
(* runs, every value whose definition dominates the next instruction is     *)
(* bound to a value of its type.                                            *)
(***************************************************************************)
Typed(v) == Reg(v) \in SimValue /\ Reg(v).ty = Code[func].vty[v]

Running == phase = "running" /\ WellFormedRun

\* What is known about the next instruction of such a run.
LEMMA Here ==
  ASSUME TypeOK, DominatorsBound, Running
  PROVE  /\ InBlock /\ InstructionOk(func, current, pc)
         /\ current \in Code[func].blocks /\ BlockOk(func, current)
         /\ WellTyped(func, inst)
         /\ Matched /\ OperandsBound /\ OperandsTyped
         /\ \A v \in AvailAt(func, current, pc) : Typed(v)
         /\ \A j \in 1 .. Len(inst.dst) :
              EdgeOk(func, inst.dst[j], AvailAt(func, current, pc))
<1>1. InBlock /\ current \in Code[func].blocks
  BY DEF DominatorsBound, Running, InBlock
<1>2. \A v \in AvailAt(func, current, pc) : Typed(v)
  BY DEF DominatorsBound, Running, Typed
<1>3. BlockOk(func, current)
  BY <1>1 DEF Running, WellFormedRun, Verified
<1>4. InstructionOk(func, current, pc)
  BY <1>1, <1>3, InstType DEF BlockOk
<1>5. /\ WellTyped(func, inst)
      /\ Range(inst.args) \subseteq AvailAt(func, current, pc)
      /\ \A j \in 1 .. Len(inst.dst) :
           EdgeOk(func, inst.dst[j], AvailAt(func, current, pc))
  BY <1>4 DEF InstructionOk, inst, block_insts
<1>6. Matched
  BY <1>5 DEF WellTyped, Matched
<1>7. ASSUME NEW vs, Range(vs) \subseteq AvailAt(func, current, pc)
      PROVE  AllBound(vs)
  BY <1>2, <1>7, UndefIsNoValue DEF AllBound, Typed
<1>8. OperandsBound
  <2>1. inst.dst \in Seq(BlockCall) /\ Len(inst.dst) = Fanout(inst.fmt)
    BY <1>1, InstType, InstructionType
  <2>2. \A j \in 1 .. Len(inst.dst) : AllBound(inst.dst[j].args)
    BY <1>5, <1>7 DEF EdgeOk
  <2>3. inst.fmt = "Jump" => AllBound(inst.dst[1].args)
    BY <2>1, <2>2 DEF Fanout
  <2>4. inst.fmt = "Brif" => AllBound(Chosen.args)
    BY <2>1, <2>2 DEF Fanout, Chosen
  <2> QED
    BY <1>5, <1>7, <2>3, <2>4 DEF OperandsBound
<1>9. OperandsTyped
  <2>1. inst.args \in Seq(Value)
    BY <1>1, InstType, InstructionType
  <2>2. \A k \in DOMAIN inst.args : inst.args[k] \in AvailAt(func, current, pc)
    BY <1>5, <2>1 DEF Range
  <2> QED
    BY <1>2, <2>2 DEF OperandsTyped, Typed, Arg
<1> QED
  BY <1>1, <1>2, <1>3, <1>4, <1>5, <1>6, <1>8, <1>9

\* Only values are available, and an instruction adds its results.
LEMMA AvailableNext ==
  ASSUME TypeOK, InBlock
  PROVE  /\ AvailAt(func, current, pc) \subseteq Value
         /\ AvailAt(func, current, pc + 1) = AvailAt(func, current, pc) \cup Range(inst.res)
<1>1. /\ Code[func].body[current] \in Seq(Instruction) /\ func \in FuncId
      /\ pc \in 1 .. Len(Code[func].body[current]) /\ current \in Block
  BY InstType DEF TypeOK
<1>2. DefinedBefore(func, current, pc + 1)
        = DefinedBefore(func, current, pc) \cup Range(inst.res)
  <2>1. \A j : j \in 1 .. (pc + 1) - 1 <=> j \in 1 .. pc - 1 \/ j = pc
    BY <1>1
  <2> QED
    BY <2>1 DEF DefinedBefore, inst, block_insts
<1>3. Range(Code[func].params[current]) \subseteq Value
  BY <1>1, CodeType DEF Range
<1>4. \A j \in 1 .. pc - 1 : Range(Code[func].body[current][j].res) \subseteq Value
  <2> TAKE j \in 1 .. pc - 1
  <2>1. Code[func].body[current][j] \in Instruction
    BY <1>1
  <2>2. Code[func].body[current][j].res \in Seq(Value)
    BY <2>1, InstructionType
  <2> QED
    BY <2>2 DEF Range
<1>5. Avail[func][current] \subseteq Value
  BY <1>1, AvailAssumption
<1> QED
  BY <1>2, <1>3, <1>4, <1>5 DEF AvailAt, DefinedBefore

\* The next instruction of the same block sees what this one sees, and its
\* results.
LEMMA NextInBlock ==
  ASSUME TypeOK, DominatorsBound, Running,
         inst.fmt \notin Terminators, NEW vals, NEW m,
         DOMAIN inst.res \subseteq DOMAIN vals,
         \A j \in DOMAIN inst.res :
            vals[j] \in SimValue /\ vals[j].ty = Code[func].vty[inst.res[j]],
         Continue(Bind(registers, inst.res, vals), m)
  PROVE  DominatorsBound'
<1> DEFINE regs == Bind(registers, inst.res, vals)
<1>1. /\ InBlock /\ current \in Code[func].blocks /\ BlockOk(func, current)
      /\ \A v \in AvailAt(func, current, pc) : Typed(v)
  BY Here
<1>2. /\ func' = func /\ current' = current /\ pc' = pc + 1 /\ registers' = regs
  BY DEF Continue, call
<1>3. /\ Code[func].body[current] \in Seq(Instruction) /\ func \in FuncId
      /\ pc \in 1 .. Len(Code[func].body[current]) /\ current \in Block
      /\ inst.res \in Seq(Value) /\ IsInjective(inst.res)
  BY <1>1, InstType, InstructionType DEF TypeOK
<1>4. pc + 1 <= Len(Code[func].body[current])
  BY <1>1, <1>3 DEF BlockOk, inst, block_insts
<1>5. /\ AvailAt(func, current, pc + 1) = AvailAt(func, current, pc) \cup Range(inst.res)
      /\ AvailAt(func, current, pc) \subseteq Value
  BY <1>1, AvailableNext
<1>7. ASSUME NEW v \in AvailAt(func, current, pc + 1)
      PROVE  regs[v] \in SimValue /\ regs[v].ty = Code[func].vty[v]
  <2>1. CASE v \in Range(inst.res)
    <3>1. PICK j \in DOMAIN inst.res : inst.res[j] = v
      BY <2>1 DEF Range
    <3>2. j \in DOMAIN inst.res \cap DOMAIN vals
      BY <3>1
    <3>3. regs[inst.res[j]] = vals[j]
      BY <1>3, <3>2, BindSets
    <3> QED
      BY <3>1, <3>3
  <2>2. CASE v \notin Range(inst.res)
    <3>1. v \in AvailAt(func, current, pc) /\ v \in Value
      BY <1>5, <1>7, <2>2
    <3>2. regs[v] = registers[v]
      BY <1>3, <2>2, <3>1, BindKeeps
    <3> QED
      BY <1>1, <3>1, <3>2 DEF Typed, Reg
  <2> QED
    BY <2>1, <2>2
<1> HIDE DEF regs
<1>8. AvailAt(func, current, pc)' = AvailAt(func, current, pc + 1)
  BY <1>2 DEF AvailAt, DefinedBefore
<1> QED
  BY <1>1, <1>2, <1>4, <1>7, <1>8 DEF DominatorsBound, block_insts, Reg

\* The first instruction of the destination sees what the branch sees, and
\* the parameters of the block.
LEMMA NextBlock ==
  ASSUME TypeOK, DominatorsBound, Running, inst.fmt \in {"Jump", "Brif"},
         NEW d, d = (IF inst.fmt = "Jump" THEN inst.dst[1] ELSE Chosen), Enter(d)
  PROVE  DominatorsBound'
<1> DEFINE here  == AvailAt(func, current, pc)
           slots == Code[func].params[d.block]
           vals  == [j \in DOMAIN d.args |-> Reg(d.args[j])]
           regs  == Bind(registers, slots, vals)
<1>1. InBlock /\ OperandsBound /\ \A v \in here : Typed(v)
  BY Here
<1>2. d \in BlockCall /\ \E j \in 1 .. Len(inst.dst) : d = inst.dst[j]
  BY <1>1, BranchTarget
<1>3. EdgeOk(func, d, here)
  BY <1>2, Here
<1>4. /\ func' = func /\ current' = d.block /\ pc' = 1 /\ registers' = regs
  BY DEF Enter, Transfer, call
<1>5. /\ func \in FuncId /\ d.block \in Block /\ d.args \in Seq(Value)
      /\ slots \in Seq(Value) /\ IsInjective(slots)
      /\ Avail[func][d.block] \subseteq Value
  BY <1>2, CodeType, AvailAssumption DEF TypeOK, BlockCall
<1>6. d.block \in Code[func].blocks /\ 1 <= Len(Code[func].body[d.block])
  <2>1. d.block \in Code[func].blocks
    BY <1>3 DEF EdgeOk
  <2>2. BlockOk(func, d.block)
    BY <2>1 DEF Running, WellFormedRun, Verified
  <2>3. Code[func].body[d.block] \in Seq(Instruction)
    BY <1>5, CodeType
  <2> QED
    BY <2>1, <2>2, <2>3 DEF BlockOk
<1>7. /\ Range(d.args) \subseteq here /\ Avail[func][d.block] \subseteq here
      /\ Len(d.args) = Len(slots)
      /\ \A j \in 1 .. Len(d.args) : Code[func].vty[d.args[j]] = Code[func].vty[slots[j]]
  BY <1>3 DEF EdgeOk
<1>v. DOMAIN vals = DOMAIN d.args /\ \A j \in DOMAIN d.args : vals[j] = Reg(d.args[j])
  OBVIOUS
<1> HIDE DEF vals, slots, here
<1>8. /\ DOMAIN slots = DOMAIN d.args /\ DOMAIN vals = DOMAIN d.args
      /\ \A j \in DOMAIN d.args : /\ vals[j] = Reg(d.args[j]) /\ d.args[j] \in here
                                 /\ Code[func].vty[d.args[j]] = Code[func].vty[slots[j]]
  <2>1. DOMAIN slots = DOMAIN d.args /\ DOMAIN d.args = 1 .. Len(d.args)
    BY <1>5, <1>7
  <2>2. \A j \in DOMAIN d.args : d.args[j] \in here
    BY <1>5, <1>7 DEF Range
  <2> QED
    BY <1>7, <1>v, <2>1, <2>2
<1>9. /\ \A v \in Value : v \notin Range(slots) => regs[v] = registers[v]
      /\ \A j \in DOMAIN slots : j \in DOMAIN vals => regs[slots[j]] = vals[j]
  BY <1>5, BindKeeps, BindSets
<1>10. AvailAt(func, d.block, 1) = Avail[func][d.block] \cup Range(slots)
  BY DEF AvailAt, DefinedBefore, slots
<1> HIDE DEF regs
<1>11. ASSUME NEW v \in Avail[func][d.block] \cup Range(slots)
       PROVE  regs[v] \in SimValue /\ regs[v].ty = Code[func].vty[v]
  <2>1. CASE v \in Range(slots)
    <3>1. PICK j \in DOMAIN slots : slots[j] = v
      BY <2>1 DEF Range
    <3>2. regs[v] = Reg(d.args[j]) /\ d.args[j] \in here
      BY <1>8, <1>9, <3>1
    <3> QED
      BY <1>1, <1>8, <3>1, <3>2 DEF Typed
  <2>2. CASE v \notin Range(slots)
    <3>1. v \in Avail[func][d.block]
      BY <1>11, <2>2
    <3>2. regs[v] = registers[v] /\ v \in here
      BY <1>5, <1>7, <1>9, <2>2, <3>1
    <3> QED
      BY <1>1, <3>2 DEF Typed, Reg
  <2> QED
    BY <2>1, <2>2
<1>12. AvailAt(func, current, pc)' = AvailAt(func, d.block, 1)
  BY <1>4 DEF AvailAt, DefinedBefore
<1> QED
  BY <1>4, <1>6, <1>10, <1>11, <1>12 DEF DominatorsBound, block_insts, Reg

\* Why a run may end: outside of Return only by a fault or the budget.
Ended ==
  /\ error' \in {"none", "OutOfBounds", "StepLimitExceeded"}
  /\ error' = "none" =>
       /\ Len(returns') = Len(Code[func].rets)
       /\ \A j \in 1 .. Len(returns') : returns'[j].ty = Code[func].rets[j]

\* A step of such a run goes on to an instruction with bound operands, or
\* ends the run as Sound says.
StepSound ==
  \/ phase' = "running" /\ DominatorsBound'
  \/ phase' = "done" /\ Ended

LEMMA DeliverSound ==
  ASSUME TypeOK, DominatorsBound, Running, inst.fmt \notin Terminators,
         NEW r \in Outcome, Deliver(r),
         r.err \in {"none", "OutOfBounds"}, r.err = "none" => Delivers(r)
  PROVE  StepSound
<1>1. inst.res \in Seq(Value)
  BY Here, InstType, InstructionType
<1>2. CASE r.err = "none"
  <2>1. Len(inst.res) = 1 /\ Code[func].vty[inst.res[1]] = r.val.ty
    BY <1>2 DEF Delivers, Yields
  <2>2. DOMAIN inst.res = {1} /\ DOMAIN <<r.val>> = {1} /\ <<r.val>>[1] = r.val
    BY <1>1, <2>1
  <2>3. r.val \in SimValue
    BY DEF Outcome
  <2>4. Continue(Bind(registers, inst.res, <<r.val>>), mem)
    BY <1>2 DEF Deliver
  <2>5. DominatorsBound'
    <3> DEFINE vals == <<r.val>>
    <3>1. /\ DOMAIN inst.res \subseteq DOMAIN vals
          /\ \A j \in DOMAIN inst.res :
               vals[j] \in SimValue /\ vals[j].ty = Code[func].vty[inst.res[j]]
      BY <2>1, <2>2, <2>3
    <3>2. Continue(Bind(registers, inst.res, vals), mem)
      BY <2>4
    <3> HIDE DEF vals
    <3> QED
      BY <3>1, <3>2, NextInBlock
  <2>6. phase' = "running"
    BY <2>4 DEF Continue, call, Running
  <2> QED
    BY <2>5, <2>6 DEF StepSound
<1>3. CASE r.err = "OutOfBounds"
  BY <1>3 DEF Deliver, Halt, StepSound, Ended
<1> QED
  BY <1>2, <1>3

LEMMA EnterSound ==
  ASSUME TypeOK, DominatorsBound, Running, inst.fmt \in {"Jump", "Brif"},
         NEW d, d = (IF inst.fmt = "Jump" THEN inst.dst[1] ELSE Chosen), Enter(d)
  PROVE  StepSound
BY NextBlock DEF StepSound, Enter, call, Running

LEMMA StoreSound ==
  ASSUME TypeOK, DominatorsBound, Running, Store
  PROVE  StepSound
<1> DEFINE r == store_to(mem, Address(Arg(2), inst.imm), Arg(1))
<1>1. inst.fmt = "Store" /\ inst.res = <<>> /\ registers \in Registers
  <2>1. inst.fmt = "Store" /\ inst.res \in Seq(Value) /\ WellTyped(func, inst)
    BY Here, InstType, InstructionType, ArmFacts DEF Store
  <2>2. Len(inst.res) = 0
    BY <2>1 DEF WellTyped
  <2> QED
    BY <2>1, <2>2 DEF TypeOK, Registers
<1>2. r.err \in {"none", "OutOfBounds"}
  BY StoreType
<1>3. CASE r.err = "none"
  <2>1. Continue(registers, r.mem)
    BY <1>3 DEF Store
  <2>2. Bind(registers, inst.res, <<>>) = registers
    BY <1>1 DEF Bind, Registers
  <2>3. Continue(Bind(registers, inst.res, <<>>), r.mem)
    BY <2>1, <2>2
  <2>4. inst.fmt \notin Terminators /\ DOMAIN inst.res = {}
    BY <1>1 DEF Terminators
  <2>5. DominatorsBound'
    <3> DEFINE vals == <<>>
               m == r.mem
    <3>1. Continue(Bind(registers, inst.res, vals), m)
      BY <2>3
    <3> HIDE DEF vals, m
    <3> QED
      BY <2>4, <3>1, NextInBlock
  <2>6. phase' = "running"
    BY <2>1 DEF Continue, call, Running
  <2> QED
    BY <2>5, <2>6 DEF StepSound
<1>4. CASE r.err # "none"
  BY <1>2, <1>4 DEF Store, Halt, StepSound, Ended
<1> QED
  BY <1>3, <1>4

LEMMA CallSound ==
  ASSUME TypeOK, DominatorsBound, Running, Call
  PROVE  StepSound
<1> DEFINE bound == { k \in DOMAIN inst.res : \A j \in 1 .. k : Zeroable(j) }
           vals  == [k \in bound |-> zero_of(Code[func].vty[inst.res[k]])]
<1>1. inst.fmt = "Call" /\ inst.res \in Seq(Value) /\ WellTyped(func, inst) /\ InBlock
  BY Here, InstType, InstructionType, ArmFacts DEF Call
<1>2. bound = DOMAIN inst.res
  <2>1. \A j \in 1 .. Len(inst.res) : Zeroable(j)
    BY <1>1 DEF WellTyped, Zeroable
  <2>2. DOMAIN inst.res = 1 .. Len(inst.res)
    BY <1>1
  <2>3. \A k \in 1 .. Len(inst.res) : 1 .. k \subseteq 1 .. Len(inst.res)
    BY <1>1
  <2> QED
    BY <2>1, <2>2, <2>3
<1>3. Continue(Bind(registers, inst.res, vals), mem)
  BY <1>2 DEF Call
<1>4. /\ DOMAIN inst.res \subseteq DOMAIN vals
      /\ \A j \in DOMAIN inst.res :
           vals[j] \in SimValue /\ vals[j].ty = Code[func].vty[inst.res[j]]
  BY <1>1, <1>2, CallBinds
<1> HIDE DEF bound, vals
<1>5. DominatorsBound'
  BY <1>1, <1>3, <1>4, NextInBlock DEF Terminators
<1>6. phase' = "running"
  BY <1>3 DEF Continue, call, Running
<1> QED
  BY <1>5, <1>6 DEF StepSound

LEMMA StepIsSound ==
  ASSUME TypeOK, ResultShape, DominatorsBound, Running, Step
  PROVE  StepSound
<1>0. /\ InBlock /\ WellTyped(func, inst) /\ Matched /\ OperandsBound /\ OperandsTyped
      /\ phase = "running" /\ error = "none"
  BY Here DEF Running, ResultShape
<1>1. CASE Iconst
  BY <1>0, <1>1, ArmFacts, IconstOutcome, DeliverSound DEF Iconst, Terminators
<1>2. CASE FloatConst
  BY <1>0, <1>2, ArmFacts, ConstOutcome, DeliverSound DEF FloatConst, Terminators
<1>3. CASE Binary
  BY <1>0, <1>3, ArmFacts, BinaryArm, DeliverSound DEF Binary, Terminators
<1>4. CASE Unary
  BY <1>0, <1>4, ArmFacts, UnaryArm, DeliverSound DEF Unary, Terminators
<1>5. CASE IntCompare
  BY <1>0, <1>5, ArmFacts, CompareArm, DeliverSound DEF IntCompare, Terminators
<1>6. CASE FloatCompare
  BY <1>0, <1>6, ArmFacts, CompareArm, DeliverSound DEF FloatCompare, Terminators
<1>7. CASE Select
  BY <1>0, <1>7, ArmFacts, SelectArm, DeliverSound DEF Select, Terminators
<1>8. CASE Load
  BY <1>0, <1>8, ArmFacts, LoadArm, DeliverSound DEF Load, Terminators
<1>9. CASE Store
  BY <1>9, StoreSound
<1>10. CASE Jump
  BY <1>10, ArmFacts, EnterSound DEF Jump
<1>11. CASE Brif
  BY <1>11, ArmFacts, EnterSound DEF Brif
<1>12. CASE Return
  <2>1. /\ inst.fmt = "MultiAry" /\ inst.args \in Seq(Value)
        /\ returns' = [j \in DOMAIN inst.args |-> Arg(j)]
        /\ phase' = "done" /\ error' = "none"
    BY <1>0, <1>12, ArmFacts, InstType, InstructionType DEF Return
  <2>2. /\ Len(inst.args) = Len(Code[func].rets)
        /\ \A k \in 1 .. Len(inst.args) : Operand(func, inst, k) = Code[func].rets[k]
    BY <1>0, <2>1 DEF WellTyped
  <2>3. DOMAIN inst.args = 1 .. Len(inst.args) /\ Len(inst.args) \in Nat
    BY <2>1
  <2>4. Len(returns') = Len(inst.args)
    BY <2>1, <2>3
  <2>5. \A j \in 1 .. Len(inst.args) : returns'[j].ty = Code[func].rets[j]
    BY <1>0, <2>1, <2>2, <2>3 DEF OperandsTyped, Operand
  <2> QED
    BY <2>1, <2>2, <2>4, <2>5 DEF StepSound, Ended
<1>13. CASE Call
  BY <1>13, CallSound
<1>14. CASE Unsupported
  BY <1>0, <1>14 DEF Unsupported
<1>15. CASE UndefinedOperand
  BY <1>0, <1>15 DEF UndefinedOperand
<1>16. CASE StepLimit
  BY <1>16 DEF StepLimit, StepSound, Ended
<1>17. CASE FallOff
  BY <1>0, <1>17 DEF FallOff, InBlock, DominatorsBound, TypeOK
<1> QED
  BY <1>1, <1>2, <1>3, <1>4, <1>5, <1>6, <1>7, <1>8, <1>9, <1>10, <1>11, <1>12,
     <1>13, <1>14, <1>15, <1>16, <1>17 DEF Step

LEMMA StepCall ==
  ASSUME Step
  PROVE  func' = func /\ args' = args /\ phase' # "idle"
<1>1. phase = "running"
  BY DEF Step, Iconst, FloatConst, Binary, Unary, IntCompare, FloatCompare, Select,
     Load, Store, Jump, Brif, Return, Call, Unsupported, UndefinedOperand,
     StepLimit, FallOff, Arm, Executing, InBlock
<1> QED
  BY <1>1 DEF Step, Iconst, FloatConst, Binary, Unary, IntCompare, FloatCompare,
     Select, Load, Store, Jump, Brif, Return, Call, Unsupported, UndefinedOperand,
     StepLimit, FallOff, Deliver, Continue, Halt, Enter, call

\* The parameters of the entry block are what is available to its first
\* instruction, and matching arguments bind them all.
LEMMA EntrySound ==
  ASSUME TypeOK, NEW f \in FuncId, NEW a \in ArgVectors[f], Run(f, a)
  PROVE  DominatorsBound' /\ Sound' /\ phase' # "idle"
<1> SUFFICES ASSUME WellFormedRun'
             PROVE  phase' = "running" /\ DominatorsBound'
  BY DEF Run, DominatorsBound, Sound
<1> DEFINE e     == Code[f].entry
           slots == Code[f].params[e]
           regs  == Bind(NoRegisters, slots, a)
<1>1. f \in Verified
  BY DEF Run, WellFormedRun
<1>2. e \in Code[f].blocks /\ e \in Block /\ e # NoBlock /\ BlockOk(f, e) /\ Avail[f][e] = {}
  <2>1. e \in Code[f].blocks /\ BlockOk(f, e) /\ Avail[f][e] = {}
    BY <1>1 DEF Verified
  <2>2. Code[f].blocks \subseteq Block
    BY CodeAssumption DEF ClifFunction
  <2> QED
    BY <2>1, <2>2, CodeAssumption
<1>3. /\ phase' = "running" /\ func' = f /\ args' = a /\ current' = e /\ pc' = 1
      /\ registers' = regs
  BY <1>2 DEF Run
<1>4. /\ Code[f].body[e] \in Seq(Instruction) /\ slots \in Seq(Value)
      /\ IsInjective(slots) /\ a \in Seq(SimValue)
  BY <1>2, CodeType, CallerAssumption
<1>5. 1 <= Len(Code[f].body[e])
  BY <1>2, <1>4 DEF BlockOk
<1>6. Len(a) = Len(slots) /\ \A j \in 1 .. Len(a) : a[j].ty = Code[f].vty[slots[j]]
  BY <1>3 DEF WellFormedRun, ArgumentsMatch
<1>7. AvailAt(f, e, 1) = Range(slots)
  BY <1>2 DEF AvailAt, DefinedBefore
<1> HIDE DEF slots
<1>8. \A j \in DOMAIN slots : regs[slots[j]] = a[j]
  BY <1>4, <1>6, BindSets
<1> HIDE DEF regs
<1>9. ASSUME NEW v \in Range(slots)
      PROVE  regs[v] \in SimValue /\ regs[v].ty = Code[f].vty[v]
  <2>1. PICK j \in DOMAIN slots : slots[j] = v
    BY DEF Range
  <2>2. j \in 1 .. Len(a) /\ a[j] \in SimValue
    BY <1>4, <1>6
  <2> QED
    BY <1>6, <1>8, <2>1, <2>2
<1>10. AvailAt(func, current, pc)' = AvailAt(f, e, 1)
  BY <1>3 DEF AvailAt, DefinedBefore
<1> QED
  BY <1>2, <1>3, <1>5, <1>7, <1>9, <1>10 DEF DominatorsBound, block_insts, Reg

LEMMA SoundNext ==
  ASSUME TypeOK, ResultShape, DominatorsBound, Sound, [Next]_vars
  PROVE  DominatorsBound' /\ Sound'
<1>1. CASE Step
  <2>1. phase = "running"
    BY <1>1, StepEffects
  <2>2. func' = func /\ args' = args
    BY <1>1, StepCall
  <2>3. WellFormedRun' <=> WellFormedRun
    BY <2>2 DEF WellFormedRun, ArgumentsMatch
  <2>4. CASE WellFormedRun
    <3>1. StepSound
      BY <1>1, <2>1, <2>4, StepIsSound DEF Running
    <3> QED
      BY <2>2, <3>1 DEF StepSound, Ended, DominatorsBound, Sound
  <2>5. CASE ~WellFormedRun
    BY <2>3, <2>5 DEF DominatorsBound, Sound
  <2> QED
    BY <2>4, <2>5
<1>2. CASE CallRun
  BY <1>2, EntrySound DEF CallRun
<1>3. CASE NewSimulator \/ ReuseMemory
  BY <1>3 DEF NewSimulator, ReuseMemory, Build, DominatorsBound, Sound
<1>4. CASE UNCHANGED vars
  <2>1. WellFormedRun' <=> WellFormedRun
    BY <1>4 DEF vars, call, WellFormedRun, ArgumentsMatch
  <2>2. AvailAt(func, current, pc)' = AvailAt(func, current, pc)
    BY <1>4 DEF vars, call, control, AvailAt, DefinedBefore
  <2> QED
    BY <1>4, <2>1, <2>2 DEF vars, simulator, call, control, result, DominatorsBound,
       Sound, block_insts, Reg
<1> QED
  BY <1>1, <1>2, <1>3, <1>4 DEF Next, Caller

\* A verified function of the supported subset, called with arguments that
\* match its parameters, never meets an undefined value, a type mismatch, an
\* unsupported opcode or the end of a block; if it returns, it returns values
\* of the types its signature promises.
THEOREM Soundness == Spec => []SoundInv
<1> DEFINE Inv == BudgetInv /\ DominatorsBound /\ Sound
<1>1. Init => Inv
  <2>1. Init => BudgetInv
    BY CallerAssumption DEF Init, BudgetInv, ResultShape, WithinBudget
  <2>2. Init => DominatorsBound /\ Sound
    BY DEF Init, DominatorsBound, Sound
  <2> QED
    BY <2>1, <2>2
<1>2. TypeOK /\ Inv /\ [Next]_vars => Inv'
  BY BudgetNext, SoundNext DEF BudgetInv
<1>3. TypeOK /\ Inv => SoundInv
  BY DEF SoundInv, BudgetInv
<1> QED
  BY <1>1, <1>2, <1>3, TypeCorrect, PTL DEF Spec

\* The promise itself: a verified function called with matching arguments
\* returns what its signature says, faults out of bounds, or uses up its budget.
THEOREM VerifiedRunsEndWell == Spec => []Sound
<1>1. SoundInv => Sound
  BY DEF SoundInv
<1> QED
  BY <1>1, Soundness, PTL

(***************************************************************************)
(* One program for all its arguments: loop_sum of tests/sim.rs.  What       *)
(* follows runs it symbolically, with an invariant at the head of its loop. *)
(***************************************************************************)
Programs == INSTANCE MCPrograms

W(x)   == Cast("I64", x)
Tri(k) == (k * (k - 1)) \div 2

LEMMA TriNext ==
  ASSUME NEW k \in Int
  PROVE  Tri(k) \in Int /\ Tri(k + 1) = Tri(k) + k
<1> DEFINE a == k * (k - 1)
<1>1. a \in Int /\ (k + 1) * ((k + 1) - 1) = a + 2 * k
  OBVIOUS
<1>2. \A b \in Int : b \div 2 \in Int /\ (b + 2 * k) \div 2 = (b \div 2) + k
  OBVIOUS
<1> HIDE DEF a
<1>3. Tri(k) = a \div 2 /\ Tri(k + 1) = (a + 2 * k) \div 2
  BY <1>1 DEF Tri, a
<1> QED
  BY <1>1, <1>2, <1>3

\* Adding two casts is casting the sum.
LEMMA CastSum ==
  ASSUME NEW x \in Int, NEW y \in Int
  PROVE  /\ W(x) \in SimValue /\ W(x).ty = "I64"
         /\ apply_binary("iadd", W(x), W(y)) = Ok(W(x + y))
<1> DEFINE m == Modulus("I64")
<1>0. "I64" \in Types /\ "I64" \in IntTypes /\ m \in Nat \ {0}
  BY ModulusEven DEF Types, IntTypes
<1>1. /\ W(x) \in SimValue /\ W(x).ty = "I64" /\ W(x).n \in Int
      /\ W(y) \in SimValue /\ W(y).ty = "I64" /\ W(y).n \in Int
  BY <1>0, CastType, ValueFields DEF W
<1>2. W(x).n % m = x % m /\ W(y).n % m = y % m
  BY <1>0, <1>1, CastBits DEF W, Bits
<1> HIDE DEF m
<1>3. (W(x).n + W(y).n) % m = (x + y) % m
  <2>1. ASSUME NEW p \in Int, NEW q \in Int, p % m = x % m, q % m = y % m
        PROVE  (p + q) % m = (x + y) % m
    <3>1. (p + q) % m = ((p % m) + (q % m)) % m
      BY <1>0, ModAdd
    <3>2. (x + y) % m = ((x % m) + (y % m)) % m
      BY <1>0, ModAdd
    <3> QED
      BY <2>1, <3>1, <3>2
  <2> QED
    BY <1>1, <1>2, <2>1
<1>4. Cast("I64", W(x).n + W(y).n) = W(x + y)
  <2>1. \A a, b : a % m = b % m => Cast("I64", a) = Cast("I64", b)
    BY DEF Cast, m
  <2> QED
    BY <1>3, <2>1 DEF W
<1>5. apply_binary("iadd", W(x), W(y)) = Ok(Cast("I64", W(x).n + W(y).n))
  BY <1>0, <1>1 DEF apply_binary, apply_int, IntResult, IntOps
<1> QED
  BY <1>1, <1>4, <1>5

LEMMA LoopSumCode ==
  ASSUME NEW f \in FuncId, Code[f] = Programs!LoopSum
  PROVE  /\ Code[f].entry = 0 /\ {0, 1, 2} \subseteq Block /\ NoBlock # 0
         /\ Value = 0 .. 8
         /\ Code[f].params[0] = <<0>> /\ Code[f].params[1] = <<2, 3>>
         /\ Code[f].params[2] = <<8>>
         /\ Code[f].body[0] = << Programs!i_iconst(1, 0), Programs!i_jump(Programs!To(1, <<1, 1>>)) >>
         /\ Code[f].body[1] = << Programs!i_icmp(4, "slt", 2, 0), Programs!i_binary(5, "iadd", 3, 2),
                                 Programs!i_iconst(6, 1), Programs!i_binary(7, "iadd", 2, 6),
                                 Programs!i_brif(4, Programs!To(1, <<7, 5>>), Programs!To(2, <<3>>)) >>
         /\ Code[f].body[2] = << Programs!i_return(<<8>>) >>
         /\ Len(Code[f].body[0]) = 2 /\ Len(Code[f].body[1]) = 5 /\ Len(Code[f].body[2]) = 1
         /\ \A v \in 0 .. 8 : Code[f].vty[v] = IF v = 4 THEN "I8" ELSE "I64"
<1>1. /\ Code[f].entry = 0 /\ Code[f].blocks = 0 .. 2
      /\ DOMAIN Code[f].vty = 0 .. 8
      /\ Code[f].params[0] = <<0>> /\ Code[f].params[1] = <<2, 3>>
      /\ Code[f].params[2] = <<8>>
  BY DEF Programs!LoopSum, Programs!Func, Programs!MCBlock, Programs!MCValue
<1>2. /\ Code[f].body[0] = << Programs!i_iconst(1, 0), Programs!i_jump(Programs!To(1, <<1, 1>>)) >>
      /\ Code[f].body[1] = << Programs!i_icmp(4, "slt", 2, 0), Programs!i_binary(5, "iadd", 3, 2),
                              Programs!i_iconst(6, 1), Programs!i_binary(7, "iadd", 2, 6),
                              Programs!i_brif(4, Programs!To(1, <<7, 5>>), Programs!To(2, <<3>>)) >>
      /\ Code[f].body[2] = << Programs!i_return(<<8>>) >>
  BY DEF Programs!LoopSum, Programs!Func, Programs!MCBlock
<1>3. \A v \in 0 .. 8 : Code[f].vty[v] = IF v = 4 THEN "I8" ELSE "I64"
  BY DEF Programs!LoopSum, Programs!Func, Programs!MCValue
<1>4. Code[f].blocks \subseteq Block /\ DOMAIN Code[f].vty = Value /\ NoBlock \notin Block
  BY CodeAssumption DEF ClifFunction
<1>5. Len(Code[f].body[0]) = 2 /\ Len(Code[f].body[1]) = 5 /\ Len(Code[f].body[2]) = 1
  <2>1. \A a, b : Len(<<a, b>>) = 2
    OBVIOUS
  <2>2. \A a, b, c, d, e : Len(<<a, b, c, d, e>>) = 5
    OBVIOUS
  <2>3. \A a : Len(<<a>>) = 1
    OBVIOUS
  <2> QED
    BY <1>2, <2>1, <2>2, <2>3, Zenon
<1> QED
  BY <1>1, <1>2, <1>3, <1>4, <1>5

\* A step that finds its operands and has budget is the arm of its format.
LEMMA TakesItsArm ==
  ASSUME TypeOK, Step, InBlock, ~BudgetSpent, Matched, OperandsBound
  PROVE  /\ inst.fmt = "UnaryImm" => Iconst
         /\ inst.fmt = "Binary" => Binary
         /\ inst.fmt = "IntCompare" => IntCompare
         /\ inst.fmt = "Jump" => Jump
         /\ inst.fmt = "Brif" => Brif
         /\ inst.fmt = "MultiAry" => Return
<1>1. ~Unsupported /\ ~UndefinedOperand /\ ~StepLimit /\ ~FallOff
  <2>1. pc \in Nat /\ Len(block_insts) \in Nat /\ pc <= Len(block_insts)
    BY CodeType DEF TypeOK, InBlock, block_insts
  <2>2. ~FallOff
    BY <2>1 DEF FallOff
  <2> QED
    BY <2>2 DEF Unsupported, UndefinedOperand, StepLimit
<1>2. \A fmts : inst.fmt \notin fmts => ~Arm(fmts)
  BY DEF Arm
<1>3. /\ inst.fmt # "UnaryImm" => ~Iconst
      /\ inst.fmt \notin {"UnaryIeee32", "UnaryIeee64"} => ~FloatConst
      /\ inst.fmt # "Binary" => ~Binary
      /\ inst.fmt \notin {"Unary", "LoadNoOffset"} => ~Unary
      /\ inst.fmt # "IntCompare" => ~IntCompare
      /\ inst.fmt # "FloatCompare" => ~FloatCompare
      /\ inst.fmt # "Ternary" => ~Select
  BY <1>2 DEF Iconst, FloatConst, Binary, Unary, IntCompare, FloatCompare, Select
<1>4. /\ inst.fmt # "Load" => ~Load
      /\ inst.fmt # "Store" => ~Store
      /\ inst.fmt # "Jump" => ~Jump
      /\ inst.fmt # "Brif" => ~Brif
      /\ inst.fmt # "MultiAry" => ~Return
      /\ inst.fmt # "Call" => ~Call
  BY <1>2 DEF Load, Store, Jump, Brif, Return, Call
<1> QED
  BY <1>1, <1>3, <1>4 DEF Step

\* What an arm with one result does to the registers.
LEMMA Computes ==
  ASSUME registers \in Registers, NEW v \in SimValue, NEW x \in Value,
         inst.res = <<x>>, Deliver(Ok(v))
  PROVE  /\ registers'[x] = v
         /\ \A y \in Value \ {x} : registers'[y] = registers[y]
         /\ pc' = pc + 1 /\ steps' = steps + 1 /\ phase' = phase /\ error' = error
         /\ UNCHANGED <<max_steps, func, args, current, returns>>
<1>1. registers' = Bind(registers, <<x>>, <<v>>) /\ Continue(Bind(registers, <<x>>, <<v>>), mem)
  BY DEF Deliver, Ok, Continue
<1> DEFINE slots == <<x>>
           vals  == <<v>>
<1>2. /\ slots \in Seq(Value) /\ IsInjective(slots) /\ Range(slots) = {x}
      /\ 1 \in DOMAIN slots /\ 1 \in DOMAIN vals /\ slots[1] = x /\ vals[1] = v
      /\ registers' = Bind(registers, slots, vals)
  BY <1>1 DEF IsInjective, Range
<1> HIDE DEF slots, vals
<1>3. registers'[x] = v
  <2>1. Bind(registers, slots, vals)[slots[1]] = vals[1]
    BY <1>2, BindSets
  <2> QED
    BY <1>2, <2>1
<1>4. \A y \in Value \ {x} : registers'[y] = registers[y]
  <2>1. \A y \in Value : y \notin Range(slots) => Bind(registers, slots, vals)[y] = registers[y]
    BY <1>2, BindKeeps
  <2> QED
    BY <1>2, <2>1
<1> QED
  BY <1>1, <1>3, <1>4 DEF Continue, Counted, simulator, call

Turns == IF args[1].n > 0 THEN args[1].n ELSE 0

\* i turns of the loop are done.
Header(i) ==
  /\ current = 1 /\ pc \in 1 .. 5
  /\ steps = 2 + 5 * i + (pc - 1)
  /\ registers[2] = W(i) /\ registers[3] = W(Tri(i))
  /\ pc > 1 => registers[4] = Flag(i < args[1].n)
  /\ pc > 2 => registers[5] = W(Tri(i + 1))
  /\ pc > 3 => registers[6] = W(1)
  /\ pc > 4 => registers[7] = W(i + 1)

LoopSumRuns(f) ==
  (phase = "running" /\ func = f /\ ArgumentsMatch) =>
    /\ error = "none" /\ returns = <<>>
    /\ registers[0] = args[1]
    /\ \/ current = 0 /\ pc = 1 /\ steps = 0
       \/ current = 0 /\ pc = 2 /\ steps = 1 /\ registers[1] = W(0)
       \/ \E i \in 0 .. Turns : Header(i)
       \/ current = 2 /\ pc = 1 /\ steps = 7 + 5 * Turns /\ registers[8] = W(Tri(Turns))

LoopSumEnds(f) ==
  (phase = "done" /\ func = f /\ ArgumentsMatch) =>
    IF 8 + 5 * Turns <= max_steps
    THEN /\ error = "none" /\ steps = 8 + 5 * Turns
         /\ returns = << W(Tri(Turns)) >>
    ELSE error = "StepLimitExceeded"

\* The indices the header sees are the numbers they stand for.
LEMMA TurnsFacts ==
  ASSUME NEW f \in FuncId, Code[f] = Programs!LoopSum, TypeOK, func = f, ArgumentsMatch
  PROVE  /\ args[1] \in SimValue /\ args[1].ty = "I64" /\ Len(args) = 1
         /\ args[1].n \in Int /\ Turns \in Nat
         /\ as_i64(args[1]) = args[1].n
         /\ \A i \in 0 .. Turns : as_i64(W(i)) = i
         /\ \A i \in 0 .. Turns : i < args[1].n <=> i < Turns
<1>1. Len(args) = 1 /\ args[1].ty = "I64" /\ args \in Seq(SimValue)
  <2>1. Code[f].params[Code[f].entry] = <<0>> /\ Code[f].vty[0] = "I64"
    BY LoopSumCode
  <2> QED
    BY <2>1 DEF ArgumentsMatch, TypeOK
<1>2. args[1] \in SimValue /\ args[1].ty \in IntTypes
  BY <1>1 DEF IntTypes
<1>3. /\ args[1].n \in Int /\ as_i64(args[1]) = args[1].n
      /\ args[1].n \in -Half("I64") .. Half("I64") - 1
  BY <1>1, <1>2, IntWidened, ValueFields
<1>4. Half("I64") \in Nat \ {0}
  BY ModulusEven
<1>5. ASSUME NEW i \in 0 .. Turns
      PROVE  as_i64(W(i)) = i
  <2>1. i \in -Half("I64") .. Half("I64") - 1
    BY <1>3, <1>4, <1>5 DEF Turns
  <2>2. i \in Payload("I64") /\ "I64" \in Types /\ "I64" \in IntTypes
    BY <2>1 DEF Payload, IntTypes, Types
  <2>3. W(i) = [ty |-> "I64", n |-> i]
    BY <2>2, CastKeeps DEF W
  <2> QED
    BY <2>2, <2>3, CastKeeps DEF as_i64
<1> QED
  BY <1>1, <1>2, <1>3, <1>5 DEF Turns
\* What a jump does to the registers.
LEMMA Moves ==
  ASSUME registers \in Registers, NEW d, NEW slots \in Seq(Value), IsInjective(slots),
         Code[func].params[d.block] = slots, DOMAIN slots = DOMAIN d.args, Enter(d)
  PROVE  /\ \A j \in DOMAIN slots : registers'[slots[j]] = Reg(d.args[j])
         /\ \A y \in Value : y \notin Range(slots) => registers'[y] = registers[y]
         /\ current' = d.block /\ pc' = 1 /\ steps' = steps + 1
         /\ UNCHANGED <<max_steps, phase, func, args, returns, error>>
<1> DEFINE vals == [j \in DOMAIN d.args |-> Reg(d.args[j])]
<1>1. registers' = Bind(registers, slots, vals)
  BY DEF Enter, Transfer
<1>2. \A j \in DOMAIN slots : Bind(registers, slots, vals)[slots[j]] = vals[j]
  BY BindSets
<1>3. \A y \in Value : y \notin Range(slots) => Bind(registers, slots, vals)[y] = registers[y]
  BY BindKeeps
<1> QED
  BY <1>1, <1>2, <1>3 DEF Enter, Counted, simulator, call

\* The entry block.
LEMMA LoopSumEnters ==
  ASSUME NEW f \in FuncId, Code[f] = Programs!LoopSum, TypeOK, func = f, ArgumentsMatch,
         phase = "running", LoopSumRuns(f), Step, current = 0, ~BudgetSpent
  PROVE  LoopSumRuns(f)' /\ phase' = "running"
<1>0. /\ registers \in Registers /\ args[1] \in SimValue /\ Turns \in Nat /\ steps \in Nat
      /\ Value = 0 .. 8 /\ error = "none" /\ returns = <<>> /\ registers[0] = args[1]
      /\ \/ pc = 1 /\ steps = 0
         \/ pc = 2 /\ steps = 1 /\ registers[1] = W(0)
  BY TurnsFacts, LoopSumCode DEF LoopSumRuns, TypeOK, Registers, Header
<1>1. block_insts = << Programs!i_iconst(1, 0), Programs!i_jump(Programs!To(1, <<1, 1>>)) >>
  BY LoopSumCode DEF block_insts
<1>2. W(0) \in SimValue
  BY CastSum
<1>3. CASE pc = 1
  <2>1. inst = Programs!i_iconst(1, 0) /\ InBlock
    BY <1>1, <1>3 DEF inst, InBlock
  <2>2. /\ inst.fmt = "UnaryImm" /\ inst.op = "iconst" /\ inst.imm = 0
        /\ inst.args = <<>> /\ inst.res = <<1>>
    BY <2>1 DEF Programs!i_iconst, Programs!I
  <2>3. Matched /\ OperandsBound
    BY <2>2 DEF Matched, OperandsBound, AllBound, Range
  <2>4. result_ty("I64") = "I64"
    BY <2>2, LoopSumCode DEF result_ty
  <2>5. Deliver(Ok(W(0)))
    BY <2>1, <2>2, <2>3, <2>4, TakesItsArm DEF Iconst, Convert, IntTypes, W
  <2>6. /\ registers'[1] = W(0) /\ registers'[0] = registers[0] /\ pc' = 2 /\ steps' = 1
        /\ phase' = "running" /\ error' = error
        /\ UNCHANGED <<max_steps, func, args, current, returns>>
    BY <1>0, <1>2, <1>3, <2>2, <2>5, Computes
  <2> QED
    BY <1>0, <2>6 DEF LoopSumRuns
<1>4. CASE pc = 2
  <2> DEFINE d == Programs!To(1, <<1, 1>>)
  <2>1. inst = Programs!i_jump(d) /\ InBlock
    BY <1>1, <1>4 DEF inst, InBlock
  <2>2. /\ inst.fmt = "Jump" /\ inst.args = <<>> /\ inst.dst[1] = d
        /\ d.block = 1 /\ d.args = <<1, 1>>
    BY <2>1 DEF Programs!i_jump, Programs!I, Programs!To
  <2> HIDE DEF d
  <2>3. Matched /\ OperandsBound
    <3>1. Reg(1) # Undef
      BY <1>0, <1>2, <1>4, UndefIsNoValue DEF Reg
    <3> QED
      BY <2>2, <3>1 DEF Matched, OperandsBound, AllBound, Range
  <2>4. Enter(d)
    BY <2>1, <2>2, <2>3, TakesItsArm DEF Jump
  <2>5. Code[func].params[d.block] = <<2, 3>> /\ IsInjective(<<2, 3>>) /\ <<2, 3>> \in Seq(Value)
        /\ Range(<<2, 3>>) = {2, 3}
    BY <1>0, <2>2, LoopSumCode DEF IsInjective, Range
  <2>6. /\ registers'[2] = W(0) /\ registers'[3] = W(0) /\ registers'[0] = registers[0]
        /\ current' = 1 /\ pc' = 1 /\ steps' = 2
        /\ UNCHANGED <<max_steps, phase, func, args, returns, error>>
    <3>1. DOMAIN <<2, 3>> = DOMAIN d.args
      BY <2>2
    <3>2. /\ \A j \in DOMAIN <<2, 3>> : registers'[<<2, 3>>[j]] = Reg(d.args[j])
          /\ \A y \in Value : y \notin {2, 3} => registers'[y] = registers[y]
          /\ current' = d.block /\ pc' = 1 /\ steps' = steps + 1
          /\ UNCHANGED <<max_steps, phase, func, args, returns, error>>
      BY <1>0, <2>4, <2>5, <3>1, Moves
    <3>3. registers'[2] = Reg(1) /\ registers'[3] = Reg(1)
      BY <2>2, <3>2
    <3> QED
      BY <1>0, <1>4, <2>2, <3>2, <3>3 DEF Reg
  <2>7. Tri(0) = 0
    BY DEF Tri
  <2>8. Header(0)'
    BY <1>0, <2>6, <2>7 DEF Header
  <2> QED
    BY <1>0, <2>6, <2>8 DEF LoopSumRuns, Turns
<1> QED
  BY <1>0, <1>3, <1>4
\* The straight instructions of the loop.
LEMMA LoopSumComputes ==
  ASSUME NEW f \in FuncId, Code[f] = Programs!LoopSum, TypeOK, func = f, ArgumentsMatch,
         phase = "running", error = "none", returns = <<>>, registers[0] = args[1],
         NEW i \in 0 .. Turns, Header(i), pc < 5, Step, ~BudgetSpent
  PROVE  /\ Header(i)' /\ phase' = "running" /\ error' = "none" /\ returns' = <<>>
         /\ registers'[0] = registers[0] /\ UNCHANGED <<max_steps, func, args>>
<1>0. /\ registers \in Registers /\ args[1] \in SimValue /\ args[1].ty = "I64"
      /\ steps \in Nat /\ Value = 0 .. 8 /\ pc \in 1 .. 4 /\ i \in Nat
      /\ registers[2] = W(i) /\ registers[3] = W(Tri(i))
      /\ steps = 2 + 5 * i + (pc - 1) /\ current = 1
  <2>1. registers \in Registers /\ steps \in Nat
    BY DEF TypeOK, Registers
  <2>2. args[1] \in SimValue /\ args[1].ty = "I64" /\ Turns \in Nat
    BY TurnsFacts
  <2>3. Value = 0 .. 8
    BY LoopSumCode
  <2> QED
    BY <2>1, <2>2, <2>3 DEF Header
<1>1. block_insts = << Programs!i_icmp(4, "slt", 2, 0), Programs!i_binary(5, "iadd", 3, 2),
                       Programs!i_iconst(6, 1), Programs!i_binary(7, "iadd", 2, 6),
                       Programs!i_brif(4, Programs!To(1, <<7, 5>>), Programs!To(2, <<3>>)) >>
  BY <1>0, LoopSumCode DEF block_insts
<1>2. InBlock
  BY <1>0, <1>1 DEF InBlock
<1>3. /\ Tri(i) \in Int /\ Tri(i + 1) = Tri(i) + i
      /\ W(i) \in SimValue /\ W(Tri(i)) \in SimValue /\ W(1) \in SimValue
  <2>1. Tri(i) \in Int /\ Tri(i + 1) = Tri(i) + i
    BY <1>0, TriNext
  <2>2. \A x \in Int : W(x) \in SimValue
    BY CastSum
  <2> QED
    BY <1>0, <2>1, <2>2
<1>4. \A k \in {0, 2, 3} : Reg(k) # Undef
  BY <1>0, <1>3, UndefIsNoValue DEF Reg
\* An instruction computes v into x, which the next one finds there.
<1>5. ASSUME NEW x \in {4, 5, 6, 7}, NEW v \in SimValue, inst.res = <<x>>, Deliver(Ok(v)),
             pc = x - 3,
             v = CASE x = 4 -> Flag(i < args[1].n) [] x = 5 -> W(Tri(i + 1))
                   [] x = 6 -> W(1) [] x = 7 -> W(i + 1)
      PROVE  /\ Header(i)' /\ phase' = "running" /\ error' = "none" /\ returns' = <<>>
             /\ registers'[0] = registers[0] /\ UNCHANGED <<max_steps, func, args>>
  <2>1. /\ registers'[x] = v
        /\ \A y \in Value \ {x} : registers'[y] = registers[y]
        /\ pc' = pc + 1 /\ steps' = steps + 1 /\ phase' = phase /\ error' = error
        /\ UNCHANGED <<max_steps, func, args, current, returns>>
    BY <1>0, <1>5, Computes
  <2>2. \A y \in {0, 2, 3} : registers'[y] = registers[y]
    BY <1>0, <2>1
  <2>3. CASE x = 4
    BY <1>0, <1>5, <2>1, <2>2, <2>3 DEF Header
  <2>4. CASE x = 5
    <3>1. registers'[4] = registers[4]
      BY <1>0, <2>1, <2>4
    <3> QED
      BY <1>0, <1>5, <2>1, <2>2, <2>4, <3>1 DEF Header
  <2>5. CASE x = 6
    <3>1. registers'[4] = registers[4] /\ registers'[5] = registers[5]
      BY <1>0, <2>1, <2>5
    <3> QED
      BY <1>0, <1>5, <2>1, <2>2, <2>5, <3>1 DEF Header
  <2>6. CASE x = 7
    <3>1. /\ registers'[4] = registers[4] /\ registers'[5] = registers[5]
          /\ registers'[6] = registers[6]
      BY <1>0, <2>1, <2>6
    <3> QED
      BY <1>0, <1>5, <2>1, <2>2, <2>6, <3>1 DEF Header
  <2> QED
    BY <2>3, <2>4, <2>5, <2>6
<1>6. CASE pc = 1
  <2>1. inst = Programs!i_icmp(4, "slt", 2, 0)
    BY <1>1, <1>6 DEF inst
  <2>2. /\ inst.fmt = "IntCompare" /\ inst.op = "slt" /\ inst.args = <<2, 0>> /\ inst.res = <<4>>
    BY <2>1 DEF Programs!i_icmp, Programs!I
  <2>3. Matched /\ OperandsBound
    BY <1>4, <2>2 DEF Matched, OperandsBound, AllBound, Range
  <2>4. icmp("slt", W(i), args[1]) <=> i < args[1].n
    BY TurnsFacts DEF icmp
  <2>5. Arg(1) = W(i) /\ Arg(2) = args[1]
    BY <1>0, <2>2 DEF Arg, Reg
  <2>6. Flag(icmp(inst.op, Arg(1), Arg(2))) = Flag(i < args[1].n)
    BY <2>2, <2>4, <2>5 DEF Flag
  <2>7. Deliver(Ok(Flag(i < args[1].n)))
    BY <1>2, <2>2, <2>3, <2>6, TakesItsArm DEF IntCompare
  <2>8. Flag(i < args[1].n) \in SimValue
    BY CastType DEF Flag, Types, IntTypes
  <2> QED
    BY <1>5, <1>6, <2>2, <2>7, <2>8
<1>7. CASE pc = 2
  <2>1. inst = Programs!i_binary(5, "iadd", 3, 2)
    BY <1>1, <1>7 DEF inst
  <2>2. /\ inst.fmt = "Binary" /\ inst.op = "iadd" /\ inst.args = <<3, 2>> /\ inst.res = <<5>>
    BY <2>1 DEF Programs!i_binary, Programs!I
  <2>3. Matched /\ OperandsBound
    BY <1>4, <2>2 DEF Matched, OperandsBound, AllBound, Range
  <2>4. Arg(1) = W(Tri(i)) /\ Arg(2) = W(i)
    BY <1>0, <2>2 DEF Arg, Reg
  <2>5. apply_binary("iadd", W(Tri(i)), W(i)) = Ok(W(Tri(i + 1))) /\ W(Tri(i + 1)) \in SimValue
    BY <1>0, <1>3, CastSum
  <2>6. Deliver(Ok(W(Tri(i + 1))))
    BY <1>2, <2>2, <2>3, <2>4, <2>5, TakesItsArm DEF Binary
  <2> QED
    BY <1>5, <1>7, <2>2, <2>5, <2>6
<1>8. CASE pc = 3
  <2>1. inst = Programs!i_iconst(6, 1)
    BY <1>1, <1>8 DEF inst
  <2>2. /\ inst.fmt = "UnaryImm" /\ inst.op = "iconst" /\ inst.imm = 1
        /\ inst.args = <<>> /\ inst.res = <<6>>
    BY <2>1 DEF Programs!i_iconst, Programs!I
  <2>3. Matched /\ OperandsBound
    BY <2>2 DEF Matched, OperandsBound, AllBound, Range
  <2>4. result_ty("I64") = "I64"
    BY <2>2, LoopSumCode DEF result_ty
  <2>5. Deliver(Ok(W(1)))
    BY <1>2, <2>2, <2>3, <2>4, TakesItsArm DEF Iconst, Convert, IntTypes, W
  <2> QED
    BY <1>3, <1>5, <1>8, <2>2, <2>5
<1>9. CASE pc = 4
  <2>1. inst = Programs!i_binary(7, "iadd", 2, 6)
    BY <1>1, <1>9 DEF inst
  <2>2. /\ inst.fmt = "Binary" /\ inst.op = "iadd" /\ inst.args = <<2, 6>> /\ inst.res = <<7>>
    BY <2>1 DEF Programs!i_binary, Programs!I
  <2>3. Reg(6) = W(1)
    BY <1>9 DEF Header, Reg
  <2>4. Matched /\ OperandsBound
    <3>1. Reg(6) # Undef
      BY <1>3, <2>3, UndefIsNoValue
    <3> QED
      BY <1>4, <2>2, <3>1 DEF Matched, OperandsBound, AllBound, Range
  <2>5. Arg(1) = W(i) /\ Arg(2) = W(1)
    BY <1>0, <2>2, <2>3 DEF Arg, Reg
  <2>6. apply_binary("iadd", W(i), W(1)) = Ok(W(i + 1)) /\ W(i + 1) \in SimValue
    BY <1>0, CastSum
  <2>7. Deliver(Ok(W(i + 1)))
    BY <1>2, <2>2, <2>4, <2>5, <2>6, TakesItsArm DEF Binary
  <2> QED
    BY <1>5, <1>9, <2>2, <2>6, <2>7
<1> QED
  BY <1>0, <1>6, <1>7, <1>8, <1>9
\* The branch: back with what was computed, or out with what the header had.
LEMMA LoopSumBranches ==
  ASSUME NEW f \in FuncId, Code[f] = Programs!LoopSum, TypeOK, func = f, ArgumentsMatch,
         phase = "running", error = "none", returns = <<>>, registers[0] = args[1],
         NEW i \in 0 .. Turns, Header(i), pc = 5, Step, ~BudgetSpent
  PROVE  LoopSumRuns(f)' /\ phase' = "running"
<1> DEFINE d == Programs!To(1, <<7, 5>>)
           e == Programs!To(2, <<3>>)
<1>0. /\ registers \in Registers /\ args[1] \in SimValue /\ Turns \in Nat
      /\ steps \in Nat /\ Value = 0 .. 8 /\ i \in Nat /\ current = 1
      /\ registers[3] = W(Tri(i)) /\ registers[4] = Flag(i < args[1].n)
      /\ registers[5] = W(Tri(i + 1)) /\ registers[7] = W(i + 1)
      /\ steps = 2 + 5 * i + 4
  BY TurnsFacts, LoopSumCode DEF TypeOK, Registers, Header
<1>1. block_insts = << Programs!i_icmp(4, "slt", 2, 0), Programs!i_binary(5, "iadd", 3, 2),
                       Programs!i_iconst(6, 1), Programs!i_binary(7, "iadd", 2, 6),
                       Programs!i_brif(4, d, e) >>
  BY <1>0, LoopSumCode DEF block_insts
<1>2. InBlock /\ inst = Programs!i_brif(4, d, e)
  BY <1>0, <1>1 DEF InBlock, inst
<1>3. /\ inst.fmt = "Brif" /\ inst.args = <<4>> /\ inst.dst[1] = d /\ inst.dst[2] = e
      /\ d.block = 1 /\ d.args = <<7, 5>> /\ e.block = 2 /\ e.args = <<3>>
  BY <1>2 DEF Programs!i_brif, Programs!I, Programs!To
<1> HIDE DEF d, e
<1>4. as_i64(Flag(i < args[1].n)) # 0 <=> i < Turns
  <2>1. as_i64(Flag(TRUE)) # 0 /\ as_i64(Flag(FALSE)) = 0
    <3>1. /\ Half("I8") \in Nat \ {0} /\ Modulus("I8") = 2 * Half("I8")
          /\ Modulus("I8") \in Nat \ {0}
      BY ModulusEven
    <3>2. 1 % Modulus("I8") = 1 /\ 0 % Modulus("I8") = 0
      BY <3>1, ModOnce
    <3>3. Bits(Flag(TRUE)) = 1 /\ Bits(Flag(FALSE)) = 0
      BY <3>2, CastBits DEF Flag, Types, IntTypes
    <3>4. /\ Flag(TRUE) \in SimValue /\ Flag(TRUE).ty = "I8"
          /\ Flag(FALSE) \in SimValue /\ Flag(FALSE).ty = "I8"
      BY CastType DEF Flag, Types, IntTypes
    <3>5. ASSUME NEW v \in SimValue, v.ty = "I8"
          PROVE  Bits(v) = 0 <=> as_i64(v) = 0
      <4>1. /\ v.n \in -Half("I8") .. Half("I8") - 1 /\ as_i64(v) = v.n
            /\ Bits(v) = IF v.n < 0 THEN v.n + Modulus("I8") ELSE v.n
        BY <3>5, IntWidened DEF IntTypes
      <4> QED
        BY <3>1, <4>1
    <3>6. \A v : v \in SimValue /\ v.ty = "I8" => (Bits(v) = 0 <=> as_i64(v) = 0)
      BY <3>5
    <3>7. 1 # 0
      OBVIOUS
    <3>8. Bits(Flag(TRUE)) # 0 /\ Bits(Flag(FALSE)) = 0
      BY <3>3, <3>7, Zenon
    <3> QED
      BY <3>4, <3>6, <3>8, Zenon
  <2>2. i < args[1].n <=> i < Turns
    BY TurnsFacts
  <2> QED
    BY <2>1, <2>2 DEF Flag
<1>5. Chosen = IF i < Turns THEN d ELSE e
  BY <1>0, <1>3, <1>4 DEF Chosen, Arg, Reg
<1>6. Matched /\ OperandsBound
  <2>1. /\ W(Tri(i)) \in SimValue /\ W(Tri(i + 1)) \in SimValue /\ W(i + 1) \in SimValue
        /\ Flag(i < args[1].n) \in SimValue
    <3>1. Tri(i) \in Int /\ Tri(i + 1) \in Int /\ i + 1 \in Int
      BY <1>0, TriNext
    <3>2. \A x \in Int : W(x) \in SimValue
      BY CastSum
    <3>3. Flag(i < args[1].n) \in SimValue
      BY CastType DEF Flag, Types, IntTypes
    <3> QED
      BY <3>1, <3>2, <3>3
  <2>2. \A k \in {3, 4, 5, 7} : Reg(k) # Undef
    BY <1>0, <2>1, UndefIsNoValue DEF Reg
  <2>3. Range(Chosen.args) \subseteq {3, 5, 7}
    BY <1>3, <1>5 DEF Range
  <2>4. AllBound(inst.args) /\ AllBound(Chosen.args)
    <3>1. Range(inst.args) = {4}
      BY <1>3 DEF Range
    <3> QED
      BY <2>2, <2>3, <3>1 DEF AllBound
  <2> QED
    BY <1>3, <2>4 DEF Matched, OperandsBound
<1>7. Enter(Chosen)
  BY <1>2, <1>3, <1>6, TakesItsArm DEF Brif
<1>8. CASE i < Turns
  <2>1. Code[func].params[d.block] = <<2, 3>> /\ IsInjective(<<2, 3>>) /\ <<2, 3>> \in Seq(Value)
        /\ Range(<<2, 3>>) = {2, 3} /\ DOMAIN <<2, 3>> = DOMAIN d.args
    BY <1>0, <1>3, LoopSumCode DEF IsInjective, Range
  <2>2. /\ \A j \in DOMAIN <<2, 3>> : registers'[<<2, 3>>[j]] = Reg(d.args[j])
        /\ \A y \in Value : y \notin {2, 3} => registers'[y] = registers[y]
        /\ current' = d.block /\ pc' = 1 /\ steps' = steps + 1
        /\ UNCHANGED <<max_steps, phase, func, args, returns, error>>
    BY <1>0, <1>5, <1>7, <1>8, <2>1, Moves
  <2>3. registers'[2] = Reg(7) /\ registers'[3] = Reg(5)
    BY <1>3, <2>2
  <2>4. registers'[0] = registers[0]
    BY <1>0, <2>2
  <2>5. i + 1 \in 0 .. Turns
    BY <1>0, <1>8
  <2>6. /\ current' = 1 /\ pc' = 1 /\ steps' = 2 + 5 * (i + 1)
        /\ registers'[2] = W(i + 1) /\ registers'[3] = W(Tri(i + 1))
    BY <1>0, <1>3, <2>2, <2>3 DEF Reg
  <2>7. Header(i + 1)'
    BY <1>0, <2>6 DEF Header
  <2> QED
    BY <2>2, <2>4, <2>5, <2>7 DEF LoopSumRuns, Turns
<1>9. CASE ~(i < Turns)
  <2>0. i = Turns
    BY <1>0, <1>9
  <2>1. Code[func].params[e.block] = <<8>> /\ IsInjective(<<8>>) /\ <<8>> \in Seq(Value)
        /\ Range(<<8>>) = {8} /\ DOMAIN <<8>> = DOMAIN e.args
    BY <1>0, <1>3, LoopSumCode DEF IsInjective, Range
  <2>2. /\ \A j \in DOMAIN <<8>> : registers'[<<8>>[j]] = Reg(e.args[j])
        /\ \A y \in Value : y \notin {8} => registers'[y] = registers[y]
        /\ current' = e.block /\ pc' = 1 /\ steps' = steps + 1
        /\ UNCHANGED <<max_steps, phase, func, args, returns, error>>
    BY <1>0, <1>5, <1>7, <1>9, <2>1, Moves
  <2>3. registers'[8] = Reg(3)
    BY <1>3, <2>2
  <2>4. registers'[0] = registers[0] /\ Turns' = Turns
    BY <1>0, <2>2 DEF Turns
  <2>5. registers'[8] = W(Tri(Turns)) /\ steps' = 7 + 5 * Turns /\ current' = 2
    BY <1>0, <1>3, <2>0, <2>2, <2>3 DEF Reg
  <2> QED
    BY <2>2, <2>4, <2>5 DEF LoopSumRuns
<1> QED
  BY <1>8, <1>9

\* Whatever instruction of loop_sum it is at, the interpreter goes on as the
\* invariant says, returns the sum, or is out of budget too early for it.
LEMMA LoopSumStep ==
  ASSUME NEW f \in FuncId, Code[f] = Programs!LoopSum, TypeOK, func = f, ArgumentsMatch,
         LoopSumRuns(f), Step
  PROVE  LoopSumRuns(f)' /\ LoopSumEnds(f)'
<1>0. /\ phase = "running" /\ error = "none" /\ returns = <<>> /\ registers[0] = args[1]
      /\ Turns \in Nat /\ max_steps \in Nat /\ steps \in Nat /\ steps <= 7 + 5 * Turns
      /\ InBlock
  <2>1. phase = "running"
    BY StepEffects
  <2>2. Turns \in Nat /\ max_steps \in Nat /\ steps \in Nat
    BY TurnsFacts DEF TypeOK
  <2>3. error = "none" /\ returns = <<>> /\ registers[0] = args[1]
    BY <2>1 DEF LoopSumRuns
  <2>4. Len(Code[f].body[0]) = 2 /\ Len(Code[f].body[1]) = 5 /\ Len(Code[f].body[2]) = 1
    BY LoopSumCode
  <2>5. CASE current = 0
    <3>1. pc \in {1, 2} /\ steps \in {0, 1}
      BY <2>1, <2>5 DEF LoopSumRuns, Header
    <3>2. Len(block_insts) = 2
      BY <2>4, <2>5 DEF block_insts
    <3> QED
      BY <2>1, <2>2, <2>3, <3>1, <3>2 DEF InBlock
  <2>6. CASE \E i \in 0 .. Turns : Header(i)
    <3>1. PICK i \in 0 .. Turns : Header(i)
      BY <2>6
    <3>2. current = 1 /\ pc \in 1 .. 5 /\ steps = 2 + 5 * i + (pc - 1)
      BY <3>1 DEF Header
    <3>3. steps <= 7 + 5 * Turns
      BY <2>2, <3>2
    <3>4. Len(block_insts) = 5
      BY <2>4, <3>2 DEF block_insts
    <3> QED
      BY <2>1, <2>2, <2>3, <3>2, <3>3, <3>4 DEF InBlock
  <2>7. CASE current = 2
    <3>1. pc = 1 /\ steps = 7 + 5 * Turns
      BY <2>1, <2>7 DEF LoopSumRuns, Header
    <3>2. Len(block_insts) = 1
      BY <2>4, <2>7 DEF block_insts
    <3> QED
      BY <2>1, <2>2, <2>3, <3>1, <3>2 DEF InBlock
  <2>8. current = 0 \/ (\E i \in 0 .. Turns : Header(i)) \/ current = 2
    BY <2>1 DEF LoopSumRuns
  <2> QED
    BY <2>1, <2>2, <2>3, <2>5, <2>6, <2>7, <2>8
<1>1. CASE BudgetSpent
  <2>1. StepLimit
    <3>1. ~Executing /\ \A fmts : ~Arm(fmts)
      BY <1>1 DEF Executing, Arm
    <3>2. pc \in Nat /\ Len(block_insts) \in Nat /\ pc <= Len(block_insts)
      BY <1>0, CodeType DEF TypeOK, InBlock, block_insts
    <3>3. ~FallOff
      BY <3>2 DEF FallOff
    <3>4. ~Iconst /\ ~FloatConst /\ ~Binary /\ ~Unary /\ ~IntCompare /\ ~FloatCompare /\ ~Select
      BY <3>1 DEF Iconst, FloatConst, Binary, Unary, IntCompare, FloatCompare, Select
    <3>5. ~Load /\ ~Store /\ ~Jump /\ ~Brif /\ ~Return /\ ~Call
      BY <3>1 DEF Load, Store, Jump, Brif, Return, Call
    <3>6. ~Unsupported /\ ~UndefinedOperand
      BY <3>1 DEF Unsupported, UndefinedOperand
    <3> QED
      BY <3>3, <3>4, <3>5, <3>6 DEF Step
  <2>2. max_steps < 8 + 5 * Turns
    BY <1>0, <1>1 DEF BudgetSpent
  <2> QED
    BY <1>0, <2>1, <2>2 DEF StepLimit, LoopSumRuns, LoopSumEnds, Turns, simulator
<1>2. CASE ~BudgetSpent /\ current = 0
  BY <1>0, <1>2, LoopSumEnters DEF LoopSumEnds
<1>3. CASE ~BudgetSpent /\ current = 1
  <2>1. PICK i \in 0 .. Turns : Header(i)
    BY <1>0, <1>3 DEF LoopSumRuns
  <2>2. CASE pc = 5
    BY <1>0, <1>3, <2>1, <2>2, LoopSumBranches DEF LoopSumEnds
  <2>3. CASE pc # 5
    <3>1. pc < 5
      BY <2>1, <2>3 DEF Header
    <3>2. /\ Header(i)' /\ phase' = "running" /\ error' = "none" /\ returns' = <<>>
          /\ registers'[0] = registers[0] /\ UNCHANGED <<max_steps, func, args>>
      BY <1>0, <1>3, <2>1, <3>1, LoopSumComputes
    <3> QED
      BY <1>0, <2>1, <3>2 DEF LoopSumRuns, LoopSumEnds, Turns
  <2> QED
    BY <2>2, <2>3
<1>4. CASE ~BudgetSpent /\ current \notin {0, 1}
  <2>1. /\ current = 2 /\ pc = 1 /\ steps = 7 + 5 * Turns /\ registers[8] = W(Tri(Turns))
    BY <1>0, <1>4 DEF LoopSumRuns, Header
  <2>2. inst = Programs!i_return(<<8>>)
    BY <2>1, LoopSumCode DEF inst, block_insts
  <2>3. inst.fmt = "MultiAry" /\ inst.op = "return" /\ inst.args = <<8>>
    BY <2>2 DEF Programs!i_return, Programs!I
  <2>4. Reg(8) # Undef
    BY <1>0, <2>1, TriNext, CastSum, UndefIsNoValue DEF Reg
  <2>5. Matched /\ OperandsBound
    BY <2>3, <2>4 DEF Matched, OperandsBound, AllBound, Range
  <2>6. Return
    BY <1>0, <1>4, <2>3, <2>5, TakesItsArm
  <2>7. returns' = << W(Tri(Turns)) >>
    BY <2>1, <2>3, <2>6 DEF Return, Arg, Reg
  <2>8. /\ phase' = "done" /\ steps' = 8 + 5 * Turns /\ error' = "none"
        /\ UNCHANGED <<max_steps, func, args>>
    BY <1>0, <2>1, <2>6 DEF Return, Counted, simulator
  <2>9. 8 + 5 * Turns <= max_steps
    BY <1>0, <1>4, <2>1 DEF BudgetSpent
  <2> QED
    BY <2>7, <2>8, <2>9 DEF LoopSumRuns, LoopSumEnds, Turns
<1> QED
  BY <1>1, <1>2, <1>3, <1>4

LEMMA LoopSumNext ==
  ASSUME NEW f \in FuncId, Code[f] = Programs!LoopSum, TypeOK, LoopSumRuns(f), LoopSumEnds(f),
         [Next]_vars
  PROVE  LoopSumRuns(f)' /\ LoopSumEnds(f)'
<1>1. CASE Step
  <2>1. func' = func /\ args' = args
    BY <1>1, StepCall
  <2>2. CASE func = f /\ ArgumentsMatch
    BY <1>1, <2>2, LoopSumStep
  <2>3. CASE ~(func = f /\ ArgumentsMatch)
    BY <2>1, <2>3, Zenon DEF LoopSumRuns, LoopSumEnds, ArgumentsMatch
  <2> QED
    BY <2>2, <2>3
<1>2. CASE CallRun
  <2>1. PICK g \in FuncId : \E a \in ArgVectors[g] : Run(g, a)
    BY <1>2 DEF CallRun
  <2>2. PICK a \in ArgVectors[g] : Run(g, a)
    BY <2>1
  <2>3. CASE g = f /\ ArgumentsMatch'
    <3>1. Code[f].entry = 0 /\ NoBlock # 0 /\ Code[f].params[0] = <<0>> /\ Value = 0 .. 8
      BY LoopSumCode
    <3>2. /\ phase' = "running" /\ error' = "none" /\ returns' = <<>>
          /\ registers' = Bind(NoRegisters, <<0>>, a)
          /\ current' = 0 /\ pc' = 1 /\ steps' = 0 /\ args' = a /\ func' = f
      BY <2>2, <2>3, <3>1 DEF Run
    <3>3. a \in Seq(SimValue) /\ Len(a) = 1
      BY <2>2, <2>3, <3>1, <3>2, CallerAssumption DEF ArgumentsMatch
    <3>4. registers'[0] = args'[1]
      <4> DEFINE slots == <<0>>
      <4>1. /\ slots \in Seq(Value) /\ IsInjective(slots) /\ slots[1] = 0
            /\ 1 \in DOMAIN slots /\ 1 \in DOMAIN a
            /\ registers' = Bind(NoRegisters, slots, a)
        BY <3>1, <3>2, <3>3 DEF IsInjective
      <4> HIDE DEF slots
      <4>2. Bind(NoRegisters, slots, a)[slots[1]] = a[1]
        BY <4>1, BindSets
      <4> QED
        BY <3>2, <4>1, <4>2
    <3> QED
      BY <3>2, <3>4 DEF LoopSumRuns, LoopSumEnds
  <2>4. CASE ~(g = f /\ ArgumentsMatch')
    BY <2>2, <2>4 DEF Run, LoopSumRuns, LoopSumEnds
  <2> QED
    BY <2>3, <2>4
<1>3. CASE NewSimulator \/ ReuseMemory
  BY <1>3 DEF NewSimulator, ReuseMemory, Build, LoopSumRuns, LoopSumEnds
<1>4. CASE UNCHANGED vars
  BY <1>4 DEF vars, simulator, call, control, result, LoopSumRuns, LoopSumEnds, ArgumentsMatch,
     Header, Turns
<1> QED
  BY <1>1, <1>2, <1>3, <1>4 DEF Next, Caller

\* loop_sum of tests/sim.rs, for every n and every budget: with 8 + 5 n
\* instructions to spend (8 if n is negative) the interpreter returns
\* 0 + 1 + ... + (n - 1) in 64 bits after exactly as many, and with fewer it
\* is stopped.  The index the last turn computes overflows for the largest n
\* and is never looked at.
THEOREM LoopSumComputed ==
  ASSUME NEW f \in FuncId, Code[f] = Programs!LoopSum
  PROVE  Spec => []LoopSumEnds(f)
<1>1. Init => LoopSumRuns(f) /\ LoopSumEnds(f)
  BY DEF Init, LoopSumRuns, LoopSumEnds
<1>2. TypeOK /\ LoopSumRuns(f) /\ LoopSumEnds(f) /\ [Next]_vars
        => LoopSumRuns(f)' /\ LoopSumEnds(f)'
  BY LoopSumNext
<1> QED
  BY <1>1, <1>2, TypeCorrect, PTL DEF Spec
=============================================================================
