---------------------------- MODULE RefineProofs ----------------------------
(***************************************************************************)
(* The interpreter implements the lexically scoped machine, for every set   *)
(* of functions, every memory, every budget and the real width of a byte:   *)
(* each step of Sim is, through the refinement mapping of SimRefine, a step *)
(* of SsaMachine or a stutter.  And it implements itself with a larger      *)
(* budget: max_steps decides when a run is stopped and nothing else.        *)
(***************************************************************************)
EXTENDS SimRefine, SimProofs

(***************************************************************************)
(* Both machines read the same programs and compute with the same values:   *)
(* what SsaMachine takes from Clif and SimValues is what Sim takes.         *)
(***************************************************************************)
LEMMA SameSets ==
  /\ Ssa!IntTypes = IntTypes /\ Ssa!FloatTypes = FloatTypes /\ Ssa!Types = Types
  /\ Ssa!B2 = B2 /\ Ssa!B4 = B4 /\ Ssa!B8 = B8 /\ Ssa!Byte = Byte /\ Ssa!U64 = U64
  /\ Ssa!IntOps = IntOps /\ Ssa!FloatOps = FloatOps
  /\ Ssa!Terminators = Terminators
BY DEF Ssa!IntTypes, IntTypes, Ssa!FloatTypes, FloatTypes, Ssa!Types, Types, Ssa!B2, B2,
   Ssa!B4, B4, Ssa!B8, B8, Ssa!Byte, Byte, Ssa!U64, U64, Ssa!IntOps, IntOps,
   Ssa!FloatOps, FloatOps, Ssa!Terminators, Terminators

LEMMA SameSizes ==
  /\ \A ty : Ssa!Modulus(ty) = Modulus(ty)
  /\ \A ty : Ssa!Half(ty) = Half(ty)
  /\ \A ty : Ssa!Bytes(ty) = Bytes(ty)
  /\ \A ty : Ssa!Width(ty) = Width(ty)
<1>1. \A ty : Ssa!Modulus(ty) = Modulus(ty)
  BY SameSets DEF Ssa!Modulus, Modulus
<1>2. \A ty : Ssa!Bytes(ty) = Bytes(ty)
  BY DEF Ssa!Bytes, Bytes
<1> QED
  BY <1>1, <1>2 DEF Ssa!Half, Half, Ssa!Width, Width

LEMMA SameCasts ==
  /\ \A ty, raw : Ssa!Cast(ty, raw) = Cast(ty, raw)
  /\ \A ty : Ssa!zero_of(ty) = zero_of(ty)
  /\ \A b : Ssa!Flag(b) = Flag(b)
  /\ \A v : Ssa!as_i64(v) = as_i64(v) /\ Ssa!as_u64(v) = as_u64(v) /\ Ssa!Bits(v) = Bits(v)
  /\ \A v : Ssa!Ok(v) = Ok(v)
  /\ \A e : Ssa!Err(e) = Err(e)
  /\ Ssa!SimValue = SimValue
<1>1. \A ty, raw : Ssa!Cast(ty, raw) = Cast(ty, raw)
  BY SameSets, SameSizes DEF Ssa!Cast, Cast
<1>2. \A ty : Ssa!zero_of(ty) = zero_of(ty)
  BY <1>1 DEF Ssa!zero_of, zero_of
<1>3. Ssa!SimValue = SimValue
  BY SameSets, SameSizes DEF Ssa!SimValue, SimValue, Ssa!Payload, Payload
<1> QED
  BY <1>1, <1>2, <1>3, SameSets, SameSizes
     DEF Ssa!Flag, Flag, Ssa!as_i64, as_i64, Ssa!as_u64, as_u64, Ssa!Bits, Bits,
         Ssa!Ok, Ok, Ssa!Err, Err

LEMMA SameBinary ==
  \A op, a, b : Ssa!apply_binary(op, a, b) = apply_binary(op, a, b)
<1>1. \A op, x, y, ty : Ssa!IntResult(op, x, y, ty) = IntResult(op, x, y, ty)
  BY SMT DEF Ssa!IntResult, IntResult, Ssa!Masked, Masked, Ssa!ShiftAmount, ShiftAmount,
     Ssa!Modulus, Modulus, Ssa!Width, Width, Ssa!Bytes, Bytes, Ssa!NoQuotient, NoQuotient,
     Ssa!Quotient, Quotient, Ssa!Half, Half, Ssa!Abs, Abs, Ssa!BitOp, BitOp,
     Ssa!BitOp4, BitOp4, Ssa!BitOp2, BitOp2, Ssa!B8, B8, Ssa!B4, B4, Ssa!B2, B2
<1>2. \A op, x, y, ty : Ssa!apply_int(op, x, y, ty) = apply_int(op, x, y, ty)
  BY <1>1, SameSets, SameCasts DEF Ssa!apply_int, apply_int
<1>3. \A op, x, y : Ssa!FloatArith(op, x, y) = FloatArith(op, x, y)
  BY SameSets DEF Ssa!FloatArith, FloatArith
<1>4. \A op, x, y, ty : Ssa!apply_float(op, x, y, ty) = apply_float(op, x, y, ty)
  BY <1>3, SameSets, SameCasts DEF Ssa!apply_float, apply_float
<1> QED
  BY <1>2, <1>4, SameSets, SameCasts DEF Ssa!apply_binary, apply_binary

LEMMA SameUnary ==
  \A op, a, ty : Ssa!apply_unary(op, a, ty) = apply_unary(op, a, ty)
<1>1. \A raw, ty, tys : Ssa!Convert(raw, ty, tys) = Convert(raw, ty, tys)
  BY SameCasts DEF Ssa!Convert, Convert
<1>2. \A a, tys, raw : Ssa!SameType(a, tys, raw) = SameType(a, tys, raw)
  BY SameCasts DEF Ssa!SameType, SameType
<1>3. \A a, ty : Ssa!uextend(a, ty) = uextend(a, ty)
  BY <1>1, SameSets, SameCasts DEF Ssa!uextend, uextend
<1> QED
  BY <1>1, <1>2, <1>3, SameSets, SameSizes, SameCasts DEF Ssa!apply_unary, apply_unary

LEMMA SameCompare ==
  /\ \A cond, a, b : Ssa!icmp(cond, a, b) = icmp(cond, a, b)
  /\ \A cond, a, b : Ssa!fcmp(cond, a, b) = fcmp(cond, a, b)
<1>1. \A cond, a, b : Ssa!icmp(cond, a, b) = icmp(cond, a, b)
  BY SameCasts DEF Ssa!icmp, icmp
<1>2. \A v : Ssa!to_f64(v) = to_f64(v)
  BY SameSizes DEF Ssa!to_f64, to_f64
<1>3. \A x : Ssa!IsNaN(x) = IsNaN(x) /\ Ssa!FloatKey(x) = FloatKey(x)
  BY SameSizes DEF Ssa!IsNaN, IsNaN, Ssa!FloatKey, FloatKey, Ssa!Magnitude, Magnitude
<1>4. \A cond, a, b : Ssa!fcmp(cond, a, b) = fcmp(cond, a, b)
  BY <1>2, <1>3 DEF Ssa!fcmp, fcmp
<1> QED
  BY <1>1, <1>4

LEMMA SameMemory ==
  /\ \A base, off : Ssa!Address(base, off) = Address(base, off)
  /\ \A m, addr, size : Ssa!OutOfBounds(m, addr, size) <=> OutOfBounds(m, addr, size)
  /\ \A m, addr, ty : Ssa!load_from(m, addr, ty) = load_from(m, addr, ty)
  /\ \A m, addr, v : Ssa!store_to(m, addr, v) = store_to(m, addr, v)
<1>1. \A base, off : Ssa!Address(base, off) = Address(base, off)
  BY SameSets, SameCasts DEF Ssa!Address, Address
<1>2. \A m, addr, size : Ssa!OutOfBounds(m, addr, size) <=> OutOfBounds(m, addr, size)
  BY DEF Ssa!OutOfBounds, OutOfBounds
<1>3. \A m, addr, size : Ssa!from_le_bytes(m, addr, size) = from_le_bytes(m, addr, size)
  BY SMT DEF Ssa!from_le_bytes, from_le_bytes, Ssa!LE8, LE8, Ssa!LE4, LE4, Ssa!LE2, LE2,
     Ssa!B4, B4, Ssa!B2, B2
<1>4. \A u, i, size : Ssa!to_le_bytes(u, i, size) = to_le_bytes(u, i, size)
  BY SMT DEF Ssa!to_le_bytes, to_le_bytes, Ssa!Byte8, Byte8, Ssa!Byte4, Byte4,
     Ssa!Byte2, Byte2, Ssa!B4, B4, Ssa!B2, B2
<1>5. \A m, addr, ty : Ssa!load_from(m, addr, ty) = load_from(m, addr, ty)
  BY <1>2, <1>3, SameSets, SameSizes, SameCasts DEF Ssa!load_from, load_from
<1>6. \A m, addr, v : Ssa!store_to(m, addr, v) = store_to(m, addr, v)
  BY <1>2, <1>4, SameSizes, SameCasts DEF Ssa!store_to, store_to
<1> QED
  BY <1>1, <1>2, <1>5, <1>6

LEMMA SameScope ==
  /\ \A s : Ssa!Range(s) = Range(s)
  /\ \A f, b, k : Ssa!AvailAt(f, b, k) = AvailAt(f, b, k)
BY DEF Ssa!AvailAt, AvailAt, Ssa!DefinedBefore, DefinedBefore, Ssa!Range, Range

LEMMA SameVerified == Ssa!Verified = Verified
<1>1. ASSUME NEW f, NEW i
      PROVE  Ssa!WellTyped(f, i) <=> WellTyped(f, i)
  <2>1. \A ty : Ssa!Yields(f, i, ty) <=> Yields(f, i, ty)
    BY DEF Ssa!Yields, Yields
  <2>2. \A tys : Ssa!YieldsIn(f, i, tys) <=> YieldsIn(f, i, tys)
    BY <2>1 DEF Ssa!YieldsIn, YieldsIn
  <2>3. \A k : Ssa!Operand(f, i, k) = Operand(f, i, k)
    BY DEF Ssa!Operand, Operand
  <2>4. \A op, a, b : Ssa!BinaryTyped(op, a, b) <=> BinaryTyped(op, a, b)
    BY SameSets DEF Ssa!BinaryTyped, BinaryTyped
  <2>5. \A op, a, b : Ssa!UnaryTyped(op, a, b) <=> UnaryTyped(op, a, b)
    BY SameSets DEF Ssa!UnaryTyped, UnaryTyped
  <2> QED
    BY <2>1, <2>2, <2>3, <2>4, <2>5, SameSets, SMT DEF Ssa!WellTyped, WellTyped
<1>2. \A f, d, here : Ssa!EdgeOk(f, d, here) <=> EdgeOk(f, d, here)
  BY SameScope DEF Ssa!EdgeOk, EdgeOk
<1>3. \A f, b, k : Ssa!InstructionOk(f, b, k) <=> InstructionOk(f, b, k)
  BY <1>1, <1>2, SameScope DEF Ssa!InstructionOk, InstructionOk
<1>4. \A f, b : Ssa!BlockOk(f, b) <=> BlockOk(f, b)
  BY <1>3, SameSets DEF Ssa!BlockOk, BlockOk
<1> QED
  BY <1>4 DEF Ssa!Verified, Verified

(***************************************************************************)
(* The mapping                                                              *)
(***************************************************************************)
\* The contract the abstract machine states by two equal functions is the
\* contract of Sim.
LEMMA SameContract ==
  ASSUME NEW f \in FuncId, NEW a \in Seq(SimValue)
  PROVE  Ssa!Meets(f, a) <=>
           /\ f \in Verified
           /\ Len(a) = Len(Code[f].params[Code[f].entry])
           /\ \A j \in 1 .. Len(a) :
                a[j].ty = Code[f].vty[Code[f].params[Code[f].entry][j]]
<1> DEFINE ps    == Code[f].params[Code[f].entry]
           given == [j \in DOMAIN a |-> a[j].ty]
           asked == [j \in DOMAIN ps |-> Code[f].vty[ps[j]]]
<1>1. Ssa!Meets(f, a) <=> f \in Verified /\ given = asked
  BY SameVerified DEF Ssa!Meets
<1>2. ASSUME f \in Verified
      PROVE  given = asked <=> /\ Len(a) = Len(ps)
                               /\ \A j \in 1 .. Len(a) : a[j].ty = Code[f].vty[ps[j]]
  <2>1. Code[f].entry \in Block
    BY <1>2, CodeAssumption DEF Verified, ClifFunction
  <2>2. ps \in Seq(Value)
    BY <2>1, CodeType
  <2> HIDE DEF ps
  <2>3. /\ DOMAIN a = 1 .. Len(a) /\ Len(a) \in Nat
        /\ DOMAIN ps = 1 .. Len(ps) /\ Len(ps) \in Nat
    BY <2>2
  <2>4. DOMAIN a = DOMAIN ps <=> Len(a) = Len(ps)
    <3>1. ASSUME NEW m \in Nat, NEW n \in Nat, 1 .. m = 1 .. n, m < n
          PROVE  FALSE
      <4>1. n \in 1 .. n /\ n \notin 1 .. m
        BY <3>1
      <4> QED
        BY <3>1, <4>1
    <3>2. \A m, n \in Nat : 1 .. m = 1 .. n => m = n
      BY <3>1
    <3> QED
      BY <2>3, <3>2
  <2>5. given = asked <=> /\ DOMAIN a = DOMAIN ps
                          /\ \A j \in DOMAIN a : a[j].ty = Code[f].vty[ps[j]]
    <3>1. /\ DOMAIN given = DOMAIN a
          /\ \A j \in DOMAIN a : given[j] = a[j].ty
      OBVIOUS
    <3>2. /\ DOMAIN asked = DOMAIN ps
          /\ \A j \in DOMAIN ps : asked[j] = Code[f].vty[ps[j]]
      OBVIOUS
    <3>3. ASSUME DOMAIN a = DOMAIN ps, \A j \in DOMAIN a : a[j].ty = Code[f].vty[ps[j]]
          PROVE  given = asked
      BY <3>3
    <3>4. ASSUME given = asked
          PROVE  /\ DOMAIN a = DOMAIN ps
                 /\ \A j \in DOMAIN a : a[j].ty = Code[f].vty[ps[j]]
      <4> HIDE DEF given, asked
      <4> QED
        BY <3>1, <3>2, <3>4
    <3> QED
      BY <3>3, <3>4
  <2> QED
    BY <2>3, <2>4, <2>5
<1> QED
  BY <1>1, <1>2

LEMMA WellFormedMeets ==
  ASSUME func \in FuncId, args \in Seq(SimValue)
  PROVE  WellFormedRun <=> Ssa!Meets(func, args)
BY SameContract DEF WellFormedRun, ArgumentsMatch

\* Where the evaluation stands.
LEMMA StatusNow ==
  /\ phase = "idle" => StatusOf = "none"
  /\ phase # "idle" /\ ~WellFormedRun => StatusOf = "unspecified"
  /\ Visible => StatusOf = "running"
  /\ phase \notin {"idle", "running"} /\ WellFormedRun =>
       /\ error = "none" => StatusOf = "returned"
       /\ error = "OutOfBounds" => StatusOf = "faulted"
       /\ error = "StepLimitExceeded" => StatusOf = "gave up"
  /\ ~Visible => StatusOf # "running"
<1>1. phase = "idle" => StatusOf = "none"
  BY DEF StatusOf
<1>2. phase # "idle" /\ ~WellFormedRun => StatusOf = "unspecified"
  BY DEF StatusOf
<1>3. Visible => StatusOf = "running"
  BY DEF StatusOf, Visible
<1>4. phase \notin {"idle", "running"} /\ WellFormedRun => StatusOf = Ending
  BY DEF StatusOf
<1>5. /\ error = "none" => Ending = "returned"
      /\ error = "OutOfBounds" => Ending = "faulted"
      /\ error = "StepLimitExceeded" => Ending = "gave up"
      /\ Ending # "running"
  BY DEF Ending
<1> QED
  BY <1>1, <1>2, <1>3, <1>4, <1>5 DEF Visible

\* The instruction in sight is the one the abstract machine looks at, and its
\* operands are in scope.
LEMMA InstInScope ==
  ASSUME TypeOK, DominatorsBound, Visible
  PROVE  /\ Ssa!here = inst
         /\ inst \in Instruction
         /\ DOMAIN InScope = AvailAt(func, current, pc)
         /\ \A v \in AvailAt(func, current, pc) : InScope[v] = Reg(v)
         /\ \A k \in DOMAIN inst.args : /\ inst.args[k] \in AvailAt(func, current, pc)
                                        /\ Ssa!X(k) = Arg(k)
                                        /\ Arg(k) \in SimValue
                                        /\ Arg(k).ty = Code[func].vty[inst.args[k]]
<1>1. InBlock /\ InstructionOk(func, current, pc) /\ OperandsBound /\ OperandsTyped
  BY Here DEF Running, Visible
<1>2. inst \in Instruction /\ inst.args \in Seq(Value)
  BY <1>1, InstType, InstructionType
<1>3. Ssa!here = inst
  <2>1. <<current, pc>>[1] = current /\ <<current, pc>>[2] = pc
    OBVIOUS
  <2> QED
    BY <2>1 DEF Visible, Ssa!here, inst, block_insts
<1>4. /\ DOMAIN InScope = AvailAt(func, current, pc)
      /\ \A v \in AvailAt(func, current, pc) : InScope[v] = Reg(v)
  BY DEF InScope, Visible, Reg
<1>5. Range(inst.args) \subseteq AvailAt(func, current, pc)
  BY <1>1 DEF InstructionOk, inst, block_insts
<1>6. ASSUME NEW k \in DOMAIN inst.args
      PROVE  /\ inst.args[k] \in AvailAt(func, current, pc)
             /\ Ssa!X(k) = Arg(k)
  <2>1. inst.args[k] \in AvailAt(func, current, pc)
    BY <1>2, <1>5 DEF Range
  <2>2. Ssa!X(k) = InScope[inst.args[k]]
    BY <1>3 DEF Ssa!X
  <2> QED
    BY <1>4, <2>1, <2>2 DEF Arg
<1>7. \A k \in DOMAIN inst.args : Arg(k) \in SimValue
  BY <1>1, OperandValues
<1> QED
  BY <1>1, <1>2, <1>3, <1>4, <1>6, <1>7 DEF OperandsTyped

\* Nothing of an evaluation that has ended is in sight.
LEMMA OutOfSight ==
  ASSUME ~Visible
  PROVE  InScope = [v \in {} |-> Ssa!Nowhere]
BY DEF InScope

(***************************************************************************)
(* The condition of select and brif: as_i64 is zero for zero only.          *)
(***************************************************************************)
LEMMA ZeroOnly ==
  ASSUME NEW m \in Nat \ {0}, NEW x \in Int, -m < x, x < m, x % m = 0
  PROVE  x = 0
<1>1. x = m * (x \div m) + 0 /\ x \div m \in Int
  BY DivMod
<1> DEFINE q == x \div m
<1> HIDE DEF q
<1>2. q \in Int /\ x = m * q
  BY <1>1 DEF q
<1>3. CASE q >= 1
  <2>1. m * 1 <= m * q
    BY <1>2, <1>3, ProductMonotone
  <2> QED
    BY <1>2, <2>1
<1>4. CASE q <= -1
  <2>1. m * q <= m * (-1)
    BY <1>2, <1>4, ProductMonotone
  <2> QED
    BY <1>2, <2>1
<1>5. CASE q = 0
  BY <1>2, <1>5
<1> QED
  BY <1>2, <1>3, <1>4, <1>5

LEMMA ConditionIsZero ==
  ASSUME NEW v \in SimValue
  PROVE  as_i64(v) = 0 <=> v.n = 0
<1>1. v.n \in Int /\ v.n \in Payload(v.ty)
  BY ValueFields
<1>2. /\ Modulus(v.ty) \in Nat /\ Half(v.ty) \in Nat /\ Modulus(v.ty) = 2 * Half(v.ty)
      /\ Modulus(v.ty) <= B8 /\ Modulus(v.ty) # 0
  BY ModulusEven, ModulusBound
<1>3. B8 \in Nat \ {0} /\ -B8 < v.n /\ v.n < B8
  BY <1>1, <1>2, Sizes DEF Payload
<1>4. Modulus("I64") = B8 /\ Half("I64") \in Nat /\ B8 = 2 * Half("I64")
  BY ModulusEven DEF Modulus
<1>5. v.n % B8 = 0 <=> v.n = 0
  <2>1. v.n % B8 = 0 => v.n = 0
    BY <1>1, <1>3, ZeroOnly
  <2>2. 0 % B8 = 0
    BY <1>3
  <2> QED
    BY <2>1, <2>2
<1>6. as_i64(v) = IF v.n % B8 >= Half("I64") THEN (v.n % B8) - B8 ELSE v.n % B8
  BY <1>4 DEF as_i64, Cast, IntTypes
<1>7. v.n % B8 \in 0 .. B8 - 1
  BY <1>1, <1>3
<1> DEFINE u == v.n % B8
<1> HIDE DEF u
<1>8. as_i64(v) = 0 <=> u = 0
  BY <1>3, <1>4, <1>6, <1>7 DEF u
<1> QED
  BY <1>5, <1>8 DEF u

(***************************************************************************)
(* One step of a run in sight                                               *)
(***************************************************************************)
\* A step that goes on in its block evaluates its instruction: the registers
\* in scope are the scope before, and the results.
LEMMA EvaluateStep ==
  ASSUME TypeOK, DominatorsBound, Visible,
         inst.fmt \notin Terminators, ~Ssa!Faulty, NEW vals, NEW m,
         DOMAIN inst.res \subseteq DOMAIN vals,
         \A j \in DOMAIN inst.res : vals[j] = Ssa!Denoted(Code[func].vty[inst.res[j]]),
         m = IF inst.fmt = "Store" THEN Stored.mem ELSE mem,
         Continue(Bind(registers, inst.res, vals), m)
  PROVE  Ssa!Evaluate
<1> DEFINE regs  == Bind(registers, inst.res, vals)
           scope == AvailAt(func, current, pc)
           D(v)  == Ssa!Denoted(Code[func].vty[v])
<1>1. /\ phase' = phase /\ func' = func /\ args' = args /\ current' = current
      /\ pc' = pc + 1 /\ returns' = returns /\ mem' = m /\ registers' = regs
  BY DEF Continue, call
<1>2. Visible' /\ WellFormedRun'
  BY <1>1 DEF Visible, WellFormedRun, ArgumentsMatch
<1>3. StatusOf = "running" /\ StatusOf' = "running"
  BY <1>2 DEF Visible, StatusOf
<1>4. /\ Ssa!here = inst /\ inst \in Instruction
      /\ DOMAIN InScope = scope /\ \A v \in scope : InScope[v] = registers[v]
      /\ \A k \in DOMAIN inst.args : Ssa!X(k) = Arg(k)
  BY InstInScope DEF Reg
<1>5. InBlock
  BY Here DEF Running, Visible
<1>6. inst.res \in Seq(Value) /\ IsInjective(inst.res)
  BY <1>4, InstructionType
<1>7. scope \subseteq Value /\ AvailAt(func, current, pc)' = scope \cup Range(inst.res)
  <2>1. AvailAt(func, current, pc)' = AvailAt(func, current, pc + 1)
    BY <1>1 DEF AvailAt, DefinedBefore
  <2> QED
    BY <1>5, <2>1, AvailableNext
<1>8. InScope' = [v \in scope \cup Range(inst.res) |-> regs[v]]
  BY <1>1, <1>2, <1>7 DEF InScope
<1>9. ASSUME NEW v \in scope \cup Range(inst.res)
      PROVE  regs[v] = IF v \in Range(inst.res) THEN D(v) ELSE InScope[v]
  <2>1. CASE v \in Range(inst.res)
    <3>1. PICK j \in DOMAIN inst.res : inst.res[j] = v
      BY <2>1 DEF Range
    <3>2. regs[inst.res[j]] = vals[j]
      BY <1>6, <3>1, BindSets
    <3> QED
      BY <2>1, <3>1, <3>2
  <2>2. CASE v \notin Range(inst.res)
    <3>1. v \in scope /\ v \in Value
      BY <1>7, <1>9, <2>2
    <3>2. regs[v] = registers[v]
      BY <1>6, <2>2, <3>1, BindKeeps
    <3> QED
      BY <1>4, <2>2, <3>1, <3>2
  <2> QED
    BY <2>1, <2>2
<1> HIDE DEF regs, D
<1>10. InScope' = [v \in DOMAIN InScope \cup Range(inst.res) |->
                     IF v \in Range(inst.res) THEN D(v) ELSE InScope[v]]
  BY <1>4, <1>8, <1>9
<1>11. mem' = IF inst.fmt = "Store" THEN Ssa!store_to(mem, Ssa!Place(2), Ssa!X(1)).mem
                                    ELSE mem
  <2>1. CASE inst.fmt = "Store"
    <3>1. {1, 2} \subseteq DOMAIN inst.args
      BY <1>5, <2>1, OperandCount
    <3>2. Ssa!Place(2) = Address(Arg(2), inst.imm) /\ Ssa!X(1) = Arg(1)
      BY <1>4, <3>1, SameMemory DEF Ssa!Place
    <3> QED
      BY <1>1, <2>1, <3>2, SameMemory DEF Stored
  <2>2. CASE inst.fmt # "Store"
    BY <1>1, <2>2
  <2> QED
    BY <2>1, <2>2
<1>12. <<current, pc>>[1] = current /\ <<current, pc>>[2] = pc
  OBVIOUS
<1>13. /\ (IF Visible THEN <<current, pc>> ELSE <<>>) = <<current, pc>>
       /\ (IF Visible THEN <<current, pc>> ELSE <<>>)' = <<current, pc + 1>>
  BY <1>1, <1>2
<1>14. inst.fmt \notin Ssa!Terminators /\ Ssa!Range(inst.res) = Range(inst.res)
  BY SameSets, SameScope
<1> QED
  BY <1>1, <1>3, <1>4, <1>10, <1>11, <1>12, <1>13, <1>14 DEF Ssa!Evaluate, D

\* A step that ends the run ends the evaluation.
LEMMA EndStep ==
  ASSUME Visible, NEW how,
         func' = func, args' = args, mem' = mem, phase' = "done",
         \/ error' = "none" /\ how = "returned"
         \/ error' = "OutOfBounds" /\ how = "faulted"
         \/ error' = "StepLimitExceeded" /\ how = "gave up"
  PROVE  Ssa!End(how, returns')
<1>1. WellFormedRun' /\ ~Visible'
  BY DEF Visible, WellFormedRun, ArgumentsMatch
<1>2. StatusOf = "running"
  BY DEF Visible, StatusOf
<1>3. StatusOf' = how
  <2>1. StatusOf' = Ending'
    BY <1>1 DEF StatusOf
  <2>2. Ending' = how
    BY DEF Ending
  <2> QED
    BY <2>1, <2>2
<1>4. InScope' = [v \in {} |-> Ssa!Nowhere]
  BY <1>1 DEF InScope
<1>5. (IF Visible THEN <<current, pc>> ELSE <<>>)' = Ssa!Nowhere
  BY <1>1 DEF Ssa!Nowhere
<1> QED
  BY <1>2, <1>3, <1>4, <1>5 DEF Ssa!End

\* An arm that delivers a value evaluates its instruction when the value is
\* the denoted one, and faults when the access is out of bounds.
LEMMA DeliverRefines ==
  ASSUME TypeOK, ResultShape, DominatorsBound, Visible,
         inst.fmt \notin Terminators, inst.fmt # "Store",
         NEW r \in Outcome, Deliver(r),
         r.err = "none" => /\ Delivers(r) /\ ~Ssa!Faulty
                           /\ r.val = Ssa!Denoted(Code[func].vty[inst.res[1]]),
         r.err # "none" => r.err = "OutOfBounds" /\ Ssa!Faulty
  PROVE  Ssa!Evaluate \/ Ssa!Fault
<1>1. CASE r.err = "none"
  <2>1. inst.res \in Seq(Value)
    BY InstInScope, InstructionType
  <2>2. Len(inst.res) = 1
    BY <1>1 DEF Delivers, Yields
  <2> DEFINE vals == <<r.val>>
  <2>3. DOMAIN vals = {1} /\ vals[1] = r.val
    OBVIOUS
  <2>4. Continue(Bind(registers, inst.res, vals), mem)
    BY <1>1 DEF Deliver
  <2> HIDE DEF vals
  <2>5. DOMAIN inst.res = {1}
    BY <2>1, <2>2
  <2>6. /\ DOMAIN inst.res \subseteq DOMAIN vals
        /\ \A j \in DOMAIN inst.res : vals[j] = Ssa!Denoted(Code[func].vty[inst.res[j]])
    BY <1>1, <2>3, <2>5
  <2> QED
    BY <1>1, <2>4, <2>6, EvaluateStep
<1>2. CASE r.err # "none"
  <2>1. /\ func' = func /\ args' = args /\ mem' = mem /\ phase' = "done"
        /\ error' = "OutOfBounds" /\ returns' = returns /\ returns = <<>>
    BY <1>2 DEF Deliver, Halt, ResultShape, Visible
  <2>2. Ssa!End("faulted", <<>>)
    BY <2>1, EndStep
  <2> QED
    BY <1>2, <2>2, StatusNow DEF Ssa!Fault
<1> QED
  BY <1>1, <1>2

\* Loads and stores aside, an instruction of the supported subset cannot
\* fault.
LEMMA OnlyMemoryFaults ==
  ASSUME TypeOK, DominatorsBound, Visible, inst.fmt \notin {"Load", "Store"}
  PROVE  ~Ssa!Faulty
BY InstInScope DEF Ssa!Faulty

LEMMA IconstRefines ==
  ASSUME TypeOK, ResultShape, DominatorsBound, Visible, Iconst
  PROVE  Ssa!Evaluate \/ Ssa!Fault
<1> DEFINE r == Convert(inst.imm, result_ty("I64"), IntTypes)
<1>1. inst.fmt = "UnaryImm" /\ InBlock /\ WellTyped(func, inst) /\ Deliver(r)
  BY Here, ArmFacts DEF Iconst, Running, Visible
<1>2. r \in Outcome /\ r.err = "none" /\ Delivers(r)
  BY <1>1, IconstOutcome
<1>3. result_ty("I64") = Code[func].vty[inst.res[1]]
  BY <1>1, ResultType DEF WellTyped, YieldsIn, Yields, Types, IntTypes
<1>4. r.val = Ssa!Denoted(Code[func].vty[inst.res[1]])
  <2>1. r.val = Cast(result_ty("I64"), inst.imm)
    BY <1>2, ErrOutcome DEF Convert, Ok, Err
  <2>2. \A ty : Ssa!Denoted(ty) = Cast(ty, inst.imm)
    BY <1>1, InstInScope, SameCasts DEF Ssa!Denoted
  <2> QED
    BY <1>3, <2>1, <2>2
<1> HIDE DEF r
<1>5. inst.fmt \notin Terminators
  BY <1>1 DEF Terminators
<1>6. ~Ssa!Faulty
  BY <1>1, OnlyMemoryFaults
<1> QED
  BY <1>1, <1>2, <1>4, <1>5, <1>6, DeliverRefines

LEMMA FloatConstRefines ==
  ASSUME TypeOK, ResultShape, DominatorsBound, Visible, FloatConst
  PROVE  Ssa!Evaluate \/ Ssa!Fault
<1> DEFINE ty == IF inst.fmt = "UnaryIeee32" THEN "F32" ELSE "F64"
           r  == Ok(Cast(ty, inst.imm))
<1>1. /\ inst.fmt \in {"UnaryIeee32", "UnaryIeee64"} /\ InBlock
      /\ WellTyped(func, inst) /\ Deliver(r)
  BY Here, ArmFacts DEF FloatConst, Running, Visible
<1>2. r \in Outcome /\ r.err = "none" /\ Delivers(r)
  BY <1>1, ConstOutcome
<1>3. ty = Code[func].vty[inst.res[1]]
  BY <1>1 DEF WellTyped, Yields
<1>4. r.val = Ssa!Denoted(Code[func].vty[inst.res[1]])
  <2>1. r.val = Cast(ty, inst.imm)
    BY DEF Ok
  <2>2. \A t : Ssa!Denoted(t) = Cast(t, inst.imm)
    BY <1>1, InstInScope, SameCasts DEF Ssa!Denoted
  <2> QED
    BY <1>3, <2>1, <2>2
<1> HIDE DEF r
<1>5. inst.fmt \notin Terminators /\ inst.fmt \notin {"Load", "Store"}
  BY <1>1 DEF Terminators
<1>6. ~Ssa!Faulty
  BY <1>5, OnlyMemoryFaults
<1> QED
  BY <1>1, <1>2, <1>4, <1>5, <1>6, DeliverRefines

LEMMA BinaryRefines ==
  ASSUME TypeOK, ResultShape, DominatorsBound, Visible, Binary
  PROVE  Ssa!Evaluate \/ Ssa!Fault
<1> DEFINE r == apply_binary(inst.op, Arg(1), Arg(2))
<1>1. /\ inst.fmt = "Binary" /\ InBlock /\ WellTyped(func, inst) /\ Deliver(r)
      /\ OperandsBound /\ OperandsTyped
  BY Here, ArmFacts DEF Binary, Running, Visible
<1>2. r \in Outcome /\ r.err = "none" /\ Delivers(r)
  BY <1>1, BinaryArm
<1>3. Ssa!X(1) = Arg(1) /\ Ssa!X(2) = Arg(2)
  BY <1>1, InstInScope, OperandCount
<1>4. r.val = Ssa!Denoted(Code[func].vty[inst.res[1]])
  BY <1>1, <1>3, InstInScope, SameBinary DEF Ssa!Denoted
<1> HIDE DEF r
<1>5. inst.fmt \notin Terminators
  BY <1>1 DEF Terminators
<1>6. ~Ssa!Faulty
  BY <1>1, OnlyMemoryFaults
<1> QED
  BY <1>1, <1>2, <1>4, <1>5, <1>6, DeliverRefines

LEMMA UnaryRefines ==
  ASSUME TypeOK, ResultShape, DominatorsBound, Visible, Unary
  PROVE  Ssa!Evaluate \/ Ssa!Fault
<1> DEFINE to == result_ty(Arg(1).ty)
           r  == apply_unary(inst.op, Arg(1), to)
<1>1. /\ inst.fmt \in {"Unary", "LoadNoOffset"} /\ InBlock /\ WellTyped(func, inst)
      /\ Deliver(r) /\ Matched /\ OperandsBound /\ OperandsTyped
  BY Here, ArmFacts DEF Unary, Running, Visible
<1>2. r \in Outcome /\ r.err = "none" /\ Delivers(r)
  BY <1>1, UnaryArm
<1>3. Ssa!X(1) = Arg(1) /\ Arg(1).ty \in Types
  BY <1>1, InstInScope, OperandCount, ValueFields
<1>4. to = Code[func].vty[inst.res[1]]
  BY <1>1, <1>2, <1>3, ResultType DEF Delivers, Yields
<1>5. r.val = Ssa!Denoted(Code[func].vty[inst.res[1]])
  <2>1. \A ty : Ssa!Denoted(ty) = apply_unary(inst.op, Arg(1), ty).val
    BY <1>1, <1>3, InstInScope, SameUnary DEF Ssa!Denoted
  <2> QED
    BY <1>4, <2>1
<1> HIDE DEF r
<1>6. inst.fmt \notin Terminators /\ inst.fmt \notin {"Load", "Store"}
  BY <1>1 DEF Terminators
<1>7. ~Ssa!Faulty
  BY <1>6, OnlyMemoryFaults
<1> QED
  BY <1>1, <1>2, <1>5, <1>6, <1>7, DeliverRefines

LEMMA CompareRefines ==
  ASSUME TypeOK, ResultShape, DominatorsBound, Visible, IntCompare \/ FloatCompare
  PROVE  Ssa!Evaluate \/ Ssa!Fault
<1> DEFINE b == IF inst.fmt = "IntCompare" THEN icmp(inst.op, Arg(1), Arg(2))
                                           ELSE fcmp(inst.op, Arg(1), Arg(2))
           r == Ok(Flag(b))
<1>1. /\ inst.fmt \in {"IntCompare", "FloatCompare"} /\ InBlock
      /\ WellTyped(func, inst) /\ Deliver(r)
  BY Here, ArmFacts DEF IntCompare, FloatCompare, Running, Visible
<1>2. r \in Outcome /\ r.err = "none" /\ Delivers(r)
  BY <1>1, CompareArm
<1>3. Ssa!X(1) = Arg(1) /\ Ssa!X(2) = Arg(2)
  BY <1>1, InstInScope, OperandCount
<1>4. r.val = Ssa!Denoted(Code[func].vty[inst.res[1]])
  <2>1. r.val = Flag(b)
    BY DEF Ok
  <2>2. inst.fmt = "IntCompare" =>
          Ssa!Denoted(Code[func].vty[inst.res[1]]) = Flag(icmp(inst.op, Arg(1), Arg(2)))
    BY <1>3, InstInScope, SameCompare, SameCasts DEF Ssa!Denoted
  <2>3. inst.fmt = "FloatCompare" =>
          Ssa!Denoted(Code[func].vty[inst.res[1]]) = Flag(fcmp(inst.op, Arg(1), Arg(2)))
    BY <1>3, InstInScope, SameCompare, SameCasts DEF Ssa!Denoted
  <2> QED
    BY <1>1, <2>1, <2>2, <2>3
<1> HIDE DEF r
<1>5. inst.fmt \notin Terminators /\ inst.fmt \notin {"Load", "Store"}
  BY <1>1 DEF Terminators
<1>6. ~Ssa!Faulty
  BY <1>5, OnlyMemoryFaults
<1> QED
  BY <1>1, <1>2, <1>4, <1>5, <1>6, DeliverRefines

LEMMA SelectRefines ==
  ASSUME TypeOK, ResultShape, DominatorsBound, Visible, Select
  PROVE  Ssa!Evaluate \/ Ssa!Fault
<1> DEFINE r == Ok(IF as_i64(Arg(1)) # 0 THEN Arg(2) ELSE Arg(3))
<1>1. /\ inst.fmt = "Ternary" /\ InBlock /\ WellTyped(func, inst) /\ Deliver(r)
      /\ OperandsBound /\ OperandsTyped
  BY Here, ArmFacts DEF Select, Running, Visible
<1>2. r \in Outcome /\ r.err = "none" /\ Delivers(r)
  BY <1>1, SelectArm
<1>3. Ssa!X(1) = Arg(1) /\ Ssa!X(2) = Arg(2) /\ Ssa!X(3) = Arg(3) /\ Arg(1) \in SimValue
  BY <1>1, InstInScope, OperandCount
<1>4. r.val = Ssa!Denoted(Code[func].vty[inst.res[1]])
  <2>1. as_i64(Arg(1)) # 0 <=> Arg(1).n # 0
    BY <1>3, ConditionIsZero
  <2>2. r.val = IF Arg(1).n # 0 THEN Arg(2) ELSE Arg(3)
    BY <2>1 DEF Ok
  <2> QED
    BY <1>1, <1>3, <2>2, InstInScope DEF Ssa!Denoted
<1> HIDE DEF r
<1>5. inst.fmt \notin Terminators
  BY <1>1 DEF Terminators
<1>6. ~Ssa!Faulty
  BY <1>1, OnlyMemoryFaults
<1> QED
  BY <1>1, <1>2, <1>4, <1>5, <1>6, DeliverRefines

LEMMA LoadRefines ==
  ASSUME TypeOK, ResultShape, DominatorsBound, Visible, Load
  PROVE  Ssa!Evaluate \/ Ssa!Fault
<1> DEFINE to   == result_ty("I64")
           addr == Address(Arg(1), inst.imm)
           r    == load_from(mem, addr, to)
<1>1. /\ inst.fmt = "Load" /\ InBlock /\ WellTyped(func, inst) /\ Deliver(r)
      /\ OperandsBound
  BY Here, ArmFacts DEF Load, Running, Visible
<1>2. /\ r \in Outcome /\ r.err \in {"none", "OutOfBounds"}
      /\ r.err = "none" => Delivers(r)
  BY <1>1, LoadArm
<1>3. to = Code[func].vty[inst.res[1]] /\ to \in Types
  BY <1>1, ResultType DEF WellTyped, YieldsIn, Yields, Types, IntTypes
<1>4. Ssa!Place(1) = addr
  BY <1>1, InstInScope, OperandCount, SameMemory DEF Ssa!Place
<1> HIDE DEF to, addr
<1>5. Ssa!Faulty <=> OutOfBounds(mem, addr, Bytes(to))
  BY <1>1, <1>3, <1>4, InstInScope, SameMemory, SameSizes DEF Ssa!Faulty, Ssa!Outside
<1>6. r.err = "OutOfBounds" <=> OutOfBounds(mem, addr, Bytes(to))
  BY <1>3 DEF load_from, Ok, Err
<1>7. r.val = Ssa!Denoted(Code[func].vty[inst.res[1]])
  BY <1>1, <1>3, <1>4, InstInScope, SameMemory DEF Ssa!Denoted
<1> HIDE DEF r
<1>8. inst.fmt \notin Terminators /\ inst.fmt # "Store"
  BY <1>1 DEF Terminators
<1> QED
  BY <1>1, <1>2, <1>5, <1>6, <1>7, <1>8, DeliverRefines

LEMMA StoreRefines ==
  ASSUME TypeOK, ResultShape, DominatorsBound, Visible, Store
  PROVE  Ssa!Evaluate \/ Ssa!Fault
<1> DEFINE addr == Address(Arg(2), inst.imm)
<1>1. inst.fmt = "Store" /\ InBlock /\ WellTyped(func, inst) /\ OperandsBound
  BY Here, ArmFacts DEF Store, Running, Visible
<1>2. inst.res = <<>> /\ registers \in Registers
  <2>1. inst.res \in Seq(Value) /\ Len(inst.res) = 0
    BY <1>1, InstInScope, InstructionType DEF WellTyped
  <2> QED
    BY <2>1 DEF TypeOK, Registers
<1>3. Ssa!Place(2) = addr /\ Ssa!X(1) = Arg(1)
  BY <1>1, InstInScope, OperandCount, SameMemory DEF Ssa!Place
<1> HIDE DEF addr
<1>4. Ssa!Faulty <=> OutOfBounds(mem, addr, Bytes(Arg(1).ty))
  BY <1>1, <1>3, InstInScope, SameMemory, SameSizes DEF Ssa!Faulty, Ssa!Outside
<1>5. Stored = store_to(mem, addr, Arg(1))
  BY DEF Stored, addr
<1>6. /\ Ssa!Faulty => Stored.err = "OutOfBounds" /\ Stored.mem = mem
      /\ ~Ssa!Faulty => Stored.err = "none"
  BY <1>4, <1>5 DEF store_to
<1>7. CASE Ssa!Faulty
  <2>1. Halt("OutOfBounds", registers, mem)
    BY <1>6, <1>7 DEF Store, Stored
  <2>2. /\ func' = func /\ args' = args /\ mem' = mem /\ phase' = "done"
        /\ error' = "OutOfBounds" /\ returns' = <<>>
    BY <2>1 DEF Halt, ResultShape, Visible
  <2>3. Ssa!End("faulted", <<>>)
    BY <2>2, EndStep
  <2> QED
    BY <1>7, <2>3, StatusNow DEF Ssa!Fault
<1>8. CASE ~Ssa!Faulty
  <2> DEFINE vals == <<>>
             m    == Stored.mem
  <2>1. Continue(registers, m)
    BY <1>6, <1>8 DEF Store, Stored
  <2>2. Bind(registers, inst.res, vals) = registers
    BY <1>2 DEF Bind, Registers
  <2>3. /\ DOMAIN inst.res \subseteq DOMAIN vals
        /\ \A j \in DOMAIN inst.res : vals[j] = Ssa!Denoted(Code[func].vty[inst.res[j]])
    BY <1>2
  <2>4. inst.fmt \notin Terminators
    BY <1>1 DEF Terminators
  <2>5. m = IF inst.fmt = "Store" THEN Stored.mem ELSE mem
    BY <1>1
  <2>6. Continue(Bind(registers, inst.res, vals), m)
    BY <2>1, <2>2
  <2> HIDE DEF vals, m
  <2> QED
    BY <1>8, <2>3, <2>4, <2>5, <2>6, EvaluateStep
<1> QED
  BY <1>7, <1>8

LEMMA CallRefines ==
  ASSUME TypeOK, ResultShape, DominatorsBound, Visible, Call
  PROVE  Ssa!Evaluate
<1> DEFINE bound == { k \in DOMAIN inst.res : \A j \in 1 .. k : Zeroable(j) }
           vals  == [k \in bound |-> zero_of(Code[func].vty[inst.res[k]])]
<1>1. inst.fmt = "Call" /\ inst.res \in Seq(Value) /\ WellTyped(func, inst)
  BY Here, ArmFacts, InstInScope, InstructionType DEF Call, Running, Visible
<1>2. bound = DOMAIN inst.res
  <2>1. \A j \in 1 .. Len(inst.res) : Zeroable(j)
    BY <1>1 DEF WellTyped, Zeroable
  <2>2. \A k \in 1 .. Len(inst.res) : 1 .. k \subseteq 1 .. Len(inst.res)
    BY <1>1
  <2>3. DOMAIN inst.res = 1 .. Len(inst.res)
    BY <1>1
  <2> QED
    BY <2>1, <2>2, <2>3
<1>3. Continue(Bind(registers, inst.res, vals), mem)
  BY <1>2 DEF Call
<1>4. \A ty : Ssa!Denoted(ty) = zero_of(ty)
  BY <1>1, InstInScope, SameCasts DEF Ssa!Denoted
<1>5. /\ DOMAIN inst.res \subseteq DOMAIN vals
      /\ \A j \in DOMAIN inst.res : vals[j] = Ssa!Denoted(Code[func].vty[inst.res[j]])
  BY <1>2, <1>4
<1>6. inst.fmt \notin Terminators /\ ~Ssa!Faulty
  BY <1>1, OnlyMemoryFaults DEF Terminators
<1> HIDE DEF bound, vals
<1> QED
  BY <1>1, <1>3, <1>5, <1>6, EvaluateStep

\* In a sequence of distinct values a value has one position.
LEMMA PositionOf ==
  ASSUME NEW vs, IsInjective(vs), NEW j \in DOMAIN vs
  PROVE  Ssa!Position(vs, vs[j]) = j
BY DEF Ssa!Position, IsInjective

\* A branch enters its destination: the registers in scope there are what the
\* abstract machine binds, the parameters to the arguments of the branch and
\* everything else that dominates the block to what it was.
LEMMA BranchStep ==
  ASSUME TypeOK, DominatorsBound, Visible, inst.fmt \in {"Jump", "Brif"},
         NEW d, d = (IF inst.fmt = "Jump" THEN inst.dst[1] ELSE Chosen), Enter(d)
  PROVE  Ssa!Branch
<1> DEFINE here  == AvailAt(func, current, pc)
           ps    == Code[func].params[d.block]
           vals  == [j \in DOMAIN d.args |-> Reg(d.args[j])]
           regs  == Bind(registers, ps, vals)
           there == AvailAt(func, d.block, 1)
<1>1. InBlock /\ OperandsBound
  BY Here DEF Running, Visible
<1>2. d \in BlockCall /\ \E j \in 1 .. Len(inst.dst) : d = inst.dst[j]
  BY <1>1, BranchTarget
<1>3. EdgeOk(func, d, here)
  BY <1>2, Here DEF Running, Visible
<1>4. /\ phase' = phase /\ func' = func /\ args' = args /\ current' = d.block /\ pc' = 1
      /\ returns' = returns /\ mem' = mem /\ registers' = regs
  BY DEF Enter, Transfer, call
<1>5. /\ func \in FuncId /\ d.block \in Block /\ d.args \in Seq(Value)
      /\ ps \in Seq(Value) /\ IsInjective(ps)
      /\ Avail[func][d.block] \subseteq Value
  BY <1>2, CodeType, AvailAssumption DEF TypeOK, BlockCall
<1>6. /\ Range(d.args) \subseteq here /\ Avail[func][d.block] \subseteq here
      /\ DOMAIN ps = DOMAIN d.args
  <2>1. Len(d.args) = Len(ps)
    BY <1>3 DEF EdgeOk
  <2>2. DOMAIN ps = DOMAIN d.args
    <3> HIDE DEF ps
    <3> QED
      BY <1>5, <2>1
  <2> QED
    BY <1>3, <2>2 DEF EdgeOk
<1>7. /\ DOMAIN vals = DOMAIN d.args
      /\ \A j \in DOMAIN d.args : vals[j] = Reg(d.args[j]) /\ d.args[j] \in here
  BY <1>5, <1>6 DEF Range
<1>8. there = Avail[func][d.block] \cup Range(ps)
  BY DEF AvailAt, DefinedBefore
<1>9. /\ Ssa!here = inst /\ DOMAIN InScope = here
      /\ \A v \in here : InScope[v] = registers[v]
  BY InstInScope DEF Reg
<1> HIDE DEF ps, vals, here
<1>10. Visible' /\ StatusOf = "running" /\ StatusOf' = "running"
  BY <1>4 DEF Visible, WellFormedRun, ArgumentsMatch, StatusOf
<1>11. InScope' = [v \in there |-> regs[v]]
  <2>1. AvailAt(func, current, pc)' = there
    BY <1>4 DEF AvailAt, DefinedBefore
  <2> QED
    BY <1>4, <1>10, <2>1 DEF InScope
<1>12. ASSUME NEW v \in there
       PROVE  regs[v] = IF v \in Range(ps) THEN InScope[d.args[Ssa!Position(ps, v)]]
                                           ELSE InScope[v]
  <2>1. CASE v \in Range(ps)
    <3>1. PICK j \in DOMAIN ps : ps[j] = v
      BY <2>1 DEF Range
    <3>2. regs[v] = vals[j] /\ Ssa!Position(ps, v) = j
      BY <1>5, <1>6, <1>7, <3>1, BindSets, PositionOf
    <3> QED
      BY <1>6, <1>7, <1>9, <2>1, <3>1, <3>2 DEF Reg
  <2>2. CASE v \notin Range(ps)
    <3>1. v \in here /\ v \in Value
      BY <1>5, <1>6, <1>8, <2>2
    <3>2. regs[v] = registers[v]
      BY <1>5, <2>2, <3>1, BindKeeps
    <3> QED
      BY <1>9, <2>2, <3>1, <3>2
  <2> QED
    BY <2>1, <2>2
<1> HIDE DEF regs
<1>13. InScope' = [v \in there |-> IF v \in Range(ps)
                                   THEN InScope[d.args[Ssa!Position(ps, v)]]
                                   ELSE InScope[v]]
  BY <1>11, <1>12
<1>14. d = IF inst.fmt = "Brif" /\ Ssa!X(1).n = 0 THEN inst.dst[2] ELSE inst.dst[1]
  <2>1. CASE inst.fmt = "Jump"
    BY <2>1
  <2>2. CASE inst.fmt = "Brif"
    <3>1. Ssa!X(1) = Arg(1) /\ Arg(1) \in SimValue
      BY <1>1, <2>2, InstInScope, OperandCount
    <3> QED
      BY <2>2, <3>1, ConditionIsZero DEF Chosen
  <2> QED
    BY <2>1, <2>2
<1>15. Ssa!Scope(d.block, 1) = there /\ Ssa!Range(ps) = Range(ps)
  BY SameScope DEF Ssa!Scope
<1>16. (IF Visible THEN <<current, pc>> ELSE <<>>)' = <<d.block, 1>>
  BY <1>4, <1>10
<1> HIDE DEF there
<1> DEFINE e == IF Ssa!here.fmt = "Brif" /\ Ssa!X(1).n = 0 THEN Ssa!here.dst[2]
                                                           ELSE Ssa!here.dst[1]
<1>17. e = d
  BY <1>9, <1>14
<1> HIDE DEF e
<1>18. InScope' = [v \in Ssa!Scope(e.block, 1) |->
                     IF v \in Ssa!Range(Code[func].params[e.block])
                     THEN InScope[e.args[Ssa!Position(Code[func].params[e.block], v)]]
                     ELSE InScope[v]]
  BY <1>13, <1>15, <1>17 DEF ps
<1> QED
  BY <1>4, <1>9, <1>10, <1>16, <1>17, <1>18 DEF Ssa!Branch, e

LEMMA ReturnRefines ==
  ASSUME TypeOK, ResultShape, DominatorsBound, Visible, Return
  PROVE  Ssa!Return
<1>1. inst.fmt = "MultiAry" /\ Ssa!here = inst
  BY ArmFacts, InstInScope DEF Return
<1>2. /\ func' = func /\ args' = args /\ mem' = mem /\ phase' = "done"
      /\ error' = "none" /\ returns' = [j \in DOMAIN inst.args |-> Arg(j)]
  BY DEF Return, ResultShape, Visible
<1>3. [j \in DOMAIN inst.args |-> Ssa!X(j)] = [j \in DOMAIN inst.args |-> Arg(j)]
  BY InstInScope
<1>4. Ssa!End("returned", returns')
  BY <1>2, EndStep
<1> QED
  BY <1>1, <1>2, <1>3, <1>4, StatusNow DEF Ssa!Return

LEMMA StepRefines ==
  ASSUME TypeOK, ResultShape, DominatorsBound, Visible, Step
  PROVE  Ssa!Evaluate \/ Ssa!Branch \/ Ssa!Return \/ Ssa!Fault \/ Ssa!GiveUp
<1>0. /\ InBlock /\ Matched /\ OperandsBound /\ returns = <<>>
  BY Here DEF Running, Visible, ResultShape
<1>1. CASE Iconst
  BY <1>1, IconstRefines
<1>2. CASE FloatConst
  BY <1>2, FloatConstRefines
<1>3. CASE Binary
  BY <1>3, BinaryRefines
<1>4. CASE Unary
  BY <1>4, UnaryRefines
<1>5. CASE IntCompare \/ FloatCompare
  BY <1>5, CompareRefines
<1>6. CASE Select
  BY <1>6, SelectRefines
<1>7. CASE Load
  BY <1>7, LoadRefines
<1>8. CASE Store
  BY <1>8, StoreRefines
<1>9. CASE Jump
  <2>1. inst.fmt = "Jump" /\ Enter(inst.dst[1])
    BY <1>9, ArmFacts DEF Jump
  <2> QED
    BY <2>1, BranchStep
<1>10. CASE Brif
  <2>1. inst.fmt = "Brif" /\ Enter(Chosen)
    BY <1>10, ArmFacts DEF Brif
  <2> QED
    BY <2>1, BranchStep
<1>11. CASE Return
  BY <1>11, ReturnRefines
<1>12. CASE Call
  BY <1>12, CallRefines
<1>13. CASE Unsupported \/ UndefinedOperand
  BY <1>0, <1>13 DEF Unsupported, UndefinedOperand
<1>14. CASE StepLimit
  <2>1. /\ func' = func /\ args' = args /\ mem' = mem /\ phase' = "done"
        /\ error' = "StepLimitExceeded" /\ returns' = <<>>
    BY <1>0, <1>14 DEF StepLimit
  <2>2. Ssa!End("gave up", <<>>)
    BY <2>1, EndStep
  <2> QED
    BY <2>2 DEF Ssa!GiveUp
<1>15. CASE FallOff
  BY <1>0, <1>15 DEF FallOff, InBlock, TypeOK
<1> QED
  BY <1>1, <1>2, <1>3, <1>4, <1>5, <1>6, <1>7, <1>8, <1>9, <1>10, <1>11, <1>12,
     <1>13, <1>14, <1>15 DEF Step

(***************************************************************************)
(* The caller                                                               *)
(***************************************************************************)
\* A call outside of the contract, and every step of the run it starts.
LEMMA MisuseStep ==
  ASSUME ~Visible, func' \in FuncId, args' \in Seq(SimValue),
         ~WellFormedRun', phase' # "idle"
  PROVE  Ssa!Misuse
<1>1. StatusOf # "running"
  BY StatusNow
<1>2. StatusOf' = "unspecified"
  BY DEF StatusOf
<1>3. ~Ssa!Meets(func', args')
  BY SameContract DEF WellFormedRun, ArgumentsMatch
<1> QED
  BY <1>1, <1>2, <1>3 DEF Ssa!Misuse

\* A call that meets it: the entry block's parameters are bound to the
\* arguments, and nothing else is in scope.
LEMMA StartStep ==
  ASSUME TypeOK, ~Visible, NEW f \in FuncId, NEW a \in ArgVectors[f], Run(f, a),
         WellFormedRun'
  PROVE  Ssa!Start
<1> DEFINE entry == Code[f].entry
           ps    == Code[f].params[entry]
           regs  == Bind(NoRegisters, ps, a)
<1>1. func' = f /\ args' = a /\ a \in Seq(SimValue)
  BY CallerAssumption DEF Run
<1>2. f \in Verified
  BY <1>1 DEF WellFormedRun
<1>3. entry \in Block /\ entry # NoBlock /\ Avail[f][entry] = {}
  BY <1>2, CodeAssumption DEF Verified, ClifFunction
<1>4. /\ phase' = "running" /\ current' = entry /\ pc' = 1 /\ registers' = regs
      /\ mem' = memory /\ returns' = <<>>
  BY <1>3 DEF Run, TakeMemory
<1>5. Ssa!Meets(f, a) /\ Len(a) = Len(ps)
  BY <1>1, SameContract DEF WellFormedRun, ArgumentsMatch
<1>6. ps \in Seq(Value) /\ IsInjective(ps)
  BY <1>3, CodeType
<1>7. AvailAt(f, entry, 1) = Range(ps)
  BY <1>3 DEF AvailAt, DefinedBefore
<1>8. StatusOf # "running" /\ Visible' /\ StatusOf' = "running"
  BY <1>4, StatusNow DEF Visible, StatusOf
<1> HIDE DEF ps, entry
<1>9. DOMAIN ps = DOMAIN a
  BY <1>1, <1>5, <1>6
<1>10. InScope' = [v \in Range(ps) |-> regs[v]]
  <2>1. AvailAt(func, current, pc)' = Range(ps)
    BY <1>1, <1>4, <1>7 DEF AvailAt, DefinedBefore
  <2> QED
    BY <1>4, <1>8, <2>1 DEF InScope
<1>11. \A v \in Range(ps) : regs[v] = a[Ssa!Position(ps, v)]
  <2> TAKE v \in Range(ps)
  <2>1. PICK j \in DOMAIN ps : ps[j] = v
    BY DEF Range
  <2>2. regs[v] = a[j] /\ Ssa!Position(ps, v) = j
    BY <1>6, <1>9, <2>1, BindSets, PositionOf
  <2> QED
    BY <2>2
<1> HIDE DEF regs
<1>12. InScope' = [v \in Ssa!Range(ps) |-> args'[Ssa!Position(ps, v)]]
  BY <1>1, <1>10, <1>11, SameScope
<1>13. (IF Visible THEN <<current, pc>> ELSE <<>>)' = <<entry, 1>>
  BY <1>4, <1>8
<1>14. func' \in FuncId /\ args' \in Seq(Ssa!SimValue) /\ mem' \in Seq(Ssa!Byte)
  BY <1>1, <1>4, SameSets, SameCasts DEF TypeOK
<1> QED
  BY <1>1, <1>4, <1>5, <1>8, <1>12, <1>13, <1>14 DEF Ssa!Start, ps, entry

LEMMA DropStep ==
  ASSUME ~Visible, NEW m, NEW limit, Build(m, limit)
  PROVE  Ssa!Drop
<1>1. phase' = "idle" /\ mem' = <<>> /\ returns' = <<>>
  BY DEF Build
<1>2. ~Visible' /\ StatusOf' = "none"
  BY <1>1 DEF Visible, StatusOf
<1>3. StatusOf # "running"
  BY StatusNow
<1>4. InScope' = [v \in {} |-> Ssa!Nowhere]
  BY <1>2 DEF InScope
<1>5. (IF Visible THEN <<current, pc>> ELSE <<>>)' = Ssa!Nowhere
  BY <1>2 DEF Ssa!Nowhere
<1>6. mem' \in Seq(Ssa!Byte)
  BY <1>1
<1> QED
  BY <1>1, <1>2, <1>3, <1>4, <1>5, <1>6 DEF Ssa!Drop

(***************************************************************************)
(* The refinement                                                           *)
(***************************************************************************)
LEMMA InitRefines == Init => Ssa!SInit
<1> SUFFICES ASSUME Init
             PROVE  Ssa!SInit
  OBVIOUS
<1>1. phase = "idle" /\ returns = <<>>
  BY DEF Init
<1>2. ~Visible /\ StatusOf = "none"
  BY <1>1 DEF Visible, StatusOf
<1>3. InScope = [v \in {} |-> Ssa!Nowhere]
  BY <1>2, OutOfSight
<1> QED
  BY <1>1, <1>2, <1>3 DEF Ssa!SInit, Ssa!Nowhere

LEMMA NextRefines ==
  ASSUME TypeOK, TypeOK', ResultShape, DominatorsBound, [Next]_vars
  PROVE  [Ssa!SNext]_(Ssa!svars)
<1>0. func' \in FuncId /\ args' \in Seq(SimValue)
  BY DEF TypeOK
<1>1. CASE Step
  <2>1. phase = "running"
    BY <1>1, StepEffects
  <2>2. CASE WellFormedRun
    BY <1>1, <2>1, <2>2, StepRefines DEF Visible, Ssa!SNext
  <2>3. CASE ~WellFormedRun
    <3>1. func' = func /\ args' = args /\ phase' # "idle"
      BY <1>1, StepCall
    <3>2. ~Visible /\ ~WellFormedRun'
      BY <2>3, <3>1 DEF Visible, WellFormedRun, ArgumentsMatch
    <3> QED
      BY <1>0, <3>1, <3>2, MisuseStep DEF Ssa!SNext
  <2> QED
    BY <2>2, <2>3
<1>2. CASE CallRun
  <2>1. PICK f \in FuncId : \E a \in ArgVectors[f] : Run(f, a)
    BY <1>2 DEF CallRun
  <2>2. PICK a \in ArgVectors[f] : Run(f, a)
    BY <2>1
  <2>3. ~Visible /\ phase' # "idle"
    BY <1>2, <2>2 DEF CallRun, Run, Visible
  <2>4. CASE WellFormedRun'
    BY <2>2, <2>3, <2>4, StartStep DEF Ssa!SNext
  <2>5. CASE ~WellFormedRun'
    BY <1>0, <2>3, <2>5, MisuseStep DEF Ssa!SNext
  <2> QED
    BY <2>4, <2>5
<1>3. CASE NewSimulator \/ ReuseMemory
  <2>1. ~Visible /\ \E m, limit : Build(m, limit)
    BY <1>3 DEF NewSimulator, ReuseMemory, Visible
  <2> QED
    BY <2>1, DropStep DEF Ssa!SNext
<1>4. CASE UNCHANGED vars
  <2>1. /\ phase' = phase /\ func' = func /\ args' = args /\ current' = current /\ pc' = pc
        /\ registers' = registers /\ mem' = mem /\ returns' = returns /\ error' = error
    BY <1>4 DEF vars, call, control, result
  <2>2. WellFormedRun' = WellFormedRun /\ Visible' = Visible /\ Ending' = Ending
    BY <2>1 DEF WellFormedRun, ArgumentsMatch, Visible, Ending
  <2>3. StatusOf' = StatusOf
    BY <2>1, <2>2 DEF StatusOf
  <2>4. InScope' = InScope
    BY <2>1, <2>2 DEF InScope, AvailAt, DefinedBefore
  <2>5. (IF Visible THEN <<current, pc>> ELSE <<>>)' = IF Visible THEN <<current, pc>> ELSE <<>>
    BY <2>1, <2>2
  <2> QED
    BY <2>1, <2>3, <2>4, <2>5 DEF Ssa!svars
<1> QED
  BY <1>1, <1>2, <1>3, <1>4 DEF Next, Caller

\* Every run of the interpreter on a verified function with matching
\* arguments is an evaluation of its CLIF with lexical scope: one register
\* table, never cleared between blocks and written one instruction at a time,
\* cannot be told from bindings that scope creates and forgets, and returned
\* values, memory, faults and the exit at the budget are those of the meaning.
THEOREM InterpreterImplementsSsa == Spec => ImplementsSsa
<1>1. Init => Ssa!SInit
  BY InitRefines
<1>2. SoundInv /\ SoundInv' /\ [Next]_vars => [Ssa!SNext]_(Ssa!svars)
  BY NextRefines DEF SoundInv
<1> QED
  BY <1>1, <1>2, Soundness, PTL DEF Spec, ImplementsSsa, Ssa!SSpec

(***************************************************************************)
(* The budget: the same interpreter with extra more steps to spend, in the  *)
(* same state otherwise.                                                    *)
(***************************************************************************)
Larger(extra) == INSTANCE Sim WITH
                   max_steps   <- max_steps + extra,
                   StepBudgets <- { b + extra : b \in StepBudgets }

\* It reads the same programs and computes with the same values.
LEMMA StillSets ==
  ASSUME NEW extra
  PROVE  /\ Larger(extra)!IntTypes = IntTypes /\ Larger(extra)!FloatTypes = FloatTypes
         /\ Larger(extra)!Types = Types
         /\ Larger(extra)!B2 = B2 /\ Larger(extra)!B4 = B4 /\ Larger(extra)!B8 = B8
         /\ Larger(extra)!Byte = Byte /\ Larger(extra)!U64 = U64
         /\ Larger(extra)!IntOps = IntOps /\ Larger(extra)!FloatOps = FloatOps
         /\ Larger(extra)!Terminators = Terminators
BY DEF Larger!IntTypes, IntTypes, Larger!FloatTypes, FloatTypes, Larger!Types, Types, Larger!B2, B2,
   Larger!B4, B4, Larger!B8, B8, Larger!Byte, Byte, Larger!U64, U64, Larger!IntOps, IntOps,
   Larger!FloatOps, FloatOps, Larger!Terminators, Terminators

LEMMA StillSizes ==
  ASSUME NEW extra
  PROVE  /\ \A ty : Larger(extra)!Modulus(ty) = Modulus(ty)
         /\ \A ty : Larger(extra)!Half(ty) = Half(ty)
         /\ \A ty : Larger(extra)!Bytes(ty) = Bytes(ty)
         /\ \A ty : Larger(extra)!Width(ty) = Width(ty)
<1>1. \A ty : Larger(extra)!Modulus(ty) = Modulus(ty)
  BY StillSets DEF Larger!Modulus, Modulus
<1>2. \A ty : Larger(extra)!Bytes(ty) = Bytes(ty)
  BY DEF Larger!Bytes, Bytes
<1> QED
  BY <1>1, <1>2 DEF Larger!Half, Half, Larger!Width, Width

LEMMA StillCasts ==
  ASSUME NEW extra
  PROVE  /\ \A ty, raw : Larger(extra)!Cast(ty, raw) = Cast(ty, raw)
         /\ \A ty : Larger(extra)!zero_of(ty) = zero_of(ty)
         /\ \A b : Larger(extra)!Flag(b) = Flag(b)
         /\ \A v : Larger(extra)!as_i64(v) = as_i64(v) /\ Larger(extra)!as_u64(v) = as_u64(v)
         /\ \A v : Larger(extra)!Bits(v) = Bits(v)
         /\ \A v : Larger(extra)!Ok(v) = Ok(v)
         /\ \A e : Larger(extra)!Err(e) = Err(e)
         /\ Larger(extra)!SimValue = SimValue
<1>1. \A ty, raw : Larger(extra)!Cast(ty, raw) = Cast(ty, raw)
  BY StillSets, StillSizes DEF Larger!Cast, Cast
<1>2. \A ty : Larger(extra)!zero_of(ty) = zero_of(ty)
  BY <1>1 DEF Larger!zero_of, zero_of
<1>3. Larger(extra)!SimValue = SimValue
  BY StillSets, StillSizes DEF Larger!SimValue, SimValue, Larger!Payload, Payload
<1> QED
  BY <1>1, <1>2, <1>3, StillSets, StillSizes
     DEF Larger!Flag, Flag, Larger!as_i64, as_i64, Larger!as_u64, as_u64, Larger!Bits, Bits,
         Larger!Ok, Ok, Larger!Err, Err

LEMMA StillBinary ==
  ASSUME NEW extra
  PROVE  \A op, a, b : Larger(extra)!apply_binary(op, a, b) = apply_binary(op, a, b)
<1>1. \A op, x, y, ty : Larger(extra)!IntResult(op, x, y, ty) = IntResult(op, x, y, ty)
  BY SMT DEF Larger!IntResult, IntResult, Larger!Masked, Masked, Larger!ShiftAmount, ShiftAmount,
     Larger!Modulus, Modulus, Larger!Width, Width, Larger!Bytes, Bytes, Larger!NoQuotient, NoQuotient,
     Larger!Quotient, Quotient, Larger!Half, Half, Larger!Abs, Abs, Larger!BitOp, BitOp,
     Larger!BitOp4, BitOp4, Larger!BitOp2, BitOp2, Larger!B8, B8, Larger!B4, B4, Larger!B2, B2
<1>2. \A op, x, y, ty : Larger(extra)!apply_int(op, x, y, ty) = apply_int(op, x, y, ty)
  BY <1>1, StillSets, StillCasts DEF Larger!apply_int, apply_int
<1>3. \A op, x, y : Larger(extra)!FloatArith(op, x, y) = FloatArith(op, x, y)
  BY StillSets DEF Larger!FloatArith, FloatArith
<1>4. \A op, x, y, ty : Larger(extra)!apply_float(op, x, y, ty) = apply_float(op, x, y, ty)
  BY <1>3, StillSets, StillCasts DEF Larger!apply_float, apply_float
<1> QED
  BY <1>2, <1>4, StillSets, StillCasts DEF Larger!apply_binary, apply_binary

LEMMA StillUnary ==
  ASSUME NEW extra
  PROVE  \A op, a, ty : Larger(extra)!apply_unary(op, a, ty) = apply_unary(op, a, ty)
<1>1. \A raw, ty, tys : Larger(extra)!Convert(raw, ty, tys) = Convert(raw, ty, tys)
  BY StillCasts DEF Larger!Convert, Convert
<1>2. \A a, tys, raw : Larger(extra)!SameType(a, tys, raw) = SameType(a, tys, raw)
  BY StillCasts DEF Larger!SameType, SameType
<1>3. \A a, ty : Larger(extra)!uextend(a, ty) = uextend(a, ty)
  BY <1>1, StillSets, StillCasts DEF Larger!uextend, uextend
<1> QED
  BY <1>1, <1>2, <1>3, StillSets, StillSizes, StillCasts DEF Larger!apply_unary, apply_unary

LEMMA StillCompare ==
  ASSUME NEW extra
  PROVE  /\ \A cond, a, b : Larger(extra)!icmp(cond, a, b) = icmp(cond, a, b)
         /\ \A cond, a, b : Larger(extra)!fcmp(cond, a, b) = fcmp(cond, a, b)
<1>1. \A cond, a, b : Larger(extra)!icmp(cond, a, b) = icmp(cond, a, b)
  BY StillCasts DEF Larger!icmp, icmp
<1>2. \A v : Larger(extra)!to_f64(v) = to_f64(v)
  BY StillSizes DEF Larger!to_f64, to_f64
<1>3. \A x : Larger(extra)!IsNaN(x) = IsNaN(x) /\ Larger(extra)!FloatKey(x) = FloatKey(x)
  BY StillSizes DEF Larger!IsNaN, IsNaN, Larger!FloatKey, FloatKey, Larger!Magnitude, Magnitude
<1>4. \A cond, a, b : Larger(extra)!fcmp(cond, a, b) = fcmp(cond, a, b)
  BY <1>2, <1>3 DEF Larger!fcmp, fcmp
<1> QED
  BY <1>1, <1>4

LEMMA StillMemory ==
  ASSUME NEW extra
  PROVE  /\ \A base, off : Larger(extra)!Address(base, off) = Address(base, off)
         /\ \A m, addr, size : Larger(extra)!OutOfBounds(m, addr, size) <=> OutOfBounds(m, addr, size)
         /\ \A m, addr, ty : Larger(extra)!load_from(m, addr, ty) = load_from(m, addr, ty)
         /\ \A m, addr, v : Larger(extra)!store_to(m, addr, v) = store_to(m, addr, v)
<1>1. \A base, off : Larger(extra)!Address(base, off) = Address(base, off)
  BY StillSets, StillCasts DEF Larger!Address, Address
<1>2. \A m, addr, size : Larger(extra)!OutOfBounds(m, addr, size) <=> OutOfBounds(m, addr, size)
  BY DEF Larger!OutOfBounds, OutOfBounds
<1>3. \A m, addr, size : Larger(extra)!from_le_bytes(m, addr, size) = from_le_bytes(m, addr, size)
  BY SMT DEF Larger!from_le_bytes, from_le_bytes, Larger!LE8, LE8, Larger!LE4, LE4, Larger!LE2, LE2,
     Larger!B4, B4, Larger!B2, B2
<1>4. \A u, i, size : Larger(extra)!to_le_bytes(u, i, size) = to_le_bytes(u, i, size)
  BY SMT DEF Larger!to_le_bytes, to_le_bytes, Larger!Byte8, Byte8, Larger!Byte4, Byte4,
     Larger!Byte2, Byte2, Larger!B4, B4, Larger!B2, B2
<1>5. \A m, addr, ty : Larger(extra)!load_from(m, addr, ty) = load_from(m, addr, ty)
  BY <1>2, <1>3, StillSets, StillSizes, StillCasts DEF Larger!load_from, load_from
<1>6. ASSUME NEW m, NEW addr, NEW v
      PROVE  Larger(extra)!store_to(m, addr, v) = store_to(m, addr, v)
  <2>1. Larger(extra)!Bytes(v.ty) = Bytes(v.ty) /\ Larger(extra)!Bits(v) = Bits(v)
    BY StillSizes, StillCasts
  <2>2. \A i, size : Larger(extra)!to_le_bytes(Bits(v), i, size) = to_le_bytes(Bits(v), i, size)
    BY <1>4
  <2>3. CASE OutOfBounds(m, addr, Bytes(v.ty))
    BY <1>2, <2>1, <2>3 DEF Larger!store_to, store_to
  <2>4. CASE ~OutOfBounds(m, addr, Bytes(v.ty))
    BY <1>2, <2>1, <2>2, <2>4 DEF Larger!store_to, store_to
  <2> QED
    BY <2>3, <2>4
<1> QED
  BY <1>1, <1>2, <1>5, <1>6

\* The instruction at hand, its operands and whether an arm takes it.
LEMMA StillHere ==
  ASSUME NEW extra
  PROVE  /\ Larger(extra)!block_insts = block_insts /\ Larger(extra)!inst = inst
         /\ \A v : Larger(extra)!Reg(v) = Reg(v)
         /\ \A k : Larger(extra)!Arg(k) = Arg(k)
         /\ \A ty : Larger(extra)!result_ty(ty) = result_ty(ty)
         /\ Larger(extra)!Chosen = Chosen
         /\ Larger(extra)!Matched <=> Matched
         /\ Larger(extra)!OperandsBound <=> OperandsBound
         /\ Larger(extra)!InBlock <=> InBlock
         /\ Larger(extra)!Undef = Undef /\ Larger(extra)!NoRegisters = NoRegisters
         /\ \A regs, slots, vals : Larger(extra)!Bind(regs, slots, vals) = Bind(regs, slots, vals)
<1>1. Larger(extra)!block_insts = block_insts /\ Larger(extra)!inst = inst
  BY DEF Larger!block_insts, block_insts, Larger!inst, inst
<1>2. /\ \A v : Larger(extra)!Reg(v) = Reg(v)
      /\ \A k : Larger(extra)!Arg(k) = Arg(k)
      /\ Larger(extra)!Undef = Undef
  BY <1>1 DEF Larger!Reg, Reg, Larger!Arg, Arg, Larger!Undef, Undef
<1>3. Larger(extra)!Chosen = Chosen
  BY <1>1, <1>2, StillCasts DEF Larger!Chosen, Chosen
<1>4. Larger(extra)!Matched <=> Matched
  BY <1>1 DEF Larger!Matched, Matched
<1>5. \A vs : Larger(extra)!AllBound(vs) <=> AllBound(vs)
  BY <1>2 DEF Larger!AllBound, AllBound, Larger!Range, Range
<1>6. Larger(extra)!OperandsBound <=> OperandsBound
  BY <1>1, <1>3, <1>5 DEF Larger!OperandsBound, OperandsBound
<1>7. Larger(extra)!InBlock <=> InBlock
  BY <1>1 DEF Larger!InBlock, InBlock
<1>8. \A ty : Larger(extra)!result_ty(ty) = result_ty(ty)
  BY <1>1 DEF Larger!result_ty, result_ty
<1>9. /\ Larger(extra)!NoRegisters = NoRegisters
      /\ \A regs, slots, vals : Larger(extra)!Bind(regs, slots, vals) = Bind(regs, slots, vals)
  BY <1>2 DEF Larger!NoRegisters, NoRegisters, Larger!Bind, Bind
<1> QED
  BY <1>1, <1>2, <1>3, <1>4, <1>6, <1>7, <1>8, <1>9

\* How a step ends does not depend on the budget.
LEMMA StillEnds ==
  ASSUME NEW extra
  PROVE  /\ \A regs, m : Continue(regs, m) => Larger(extra)!Continue(regs, m)
         /\ \A e, regs, m : Halt(e, regs, m) => Larger(extra)!Halt(e, regs, m)
         /\ \A r : Deliver(r) => Larger(extra)!Deliver(r)
         /\ \A d : Enter(d) => Larger(extra)!Enter(d)
<1>1. ASSUME NEW regs, NEW m, Continue(regs, m)
      PROVE  Larger(extra)!Continue(regs, m)
  BY <1>1 DEF Continue, Larger!Continue, Counted, Larger!Counted, simulator, Larger!simulator,
     call, Larger!call
<1>2. ASSUME NEW e, NEW regs, NEW m, Halt(e, regs, m)
      PROVE  Larger(extra)!Halt(e, regs, m)
  BY <1>2 DEF Halt, Larger!Halt, Counted, Larger!Counted, simulator, Larger!simulator
<1>3. ASSUME NEW r, Deliver(r)
      PROVE  Larger(extra)!Deliver(r)
  <2>1. Larger(extra)!Bind(registers, inst.res, <<r.val>>) = Bind(registers, inst.res, <<r.val>>)
    BY StillHere
  <2>2. Larger(extra)!inst = inst
    BY StillHere
  <2>3. CASE r.err = "none"
    BY <1>1, <1>3, <2>1, <2>2, <2>3 DEF Deliver, Larger!Deliver
  <2>4. CASE r.err # "none"
    BY <1>2, <1>3, <2>4 DEF Deliver, Larger!Deliver
  <2> QED
    BY <2>3, <2>4
<1>4. ASSUME NEW d, Enter(d)
      PROVE  Larger(extra)!Enter(d)
  <2>1. Larger(extra)!Transfer(d) = Transfer(d)
    BY StillHere DEF Larger!Transfer, Transfer
  <2> QED
    BY <1>4, <2>1 DEF Enter, Larger!Enter, Counted, Larger!Counted, simulator, Larger!simulator,
       call, Larger!call
<1> QED
  BY <1>1, <1>2, <1>3, <1>4

\* An interpreter with a larger budget goes through every step of one with
\* less but the one that gives up.
LEMMA LargerStep ==
  ASSUME NEW extra \in Nat, max_steps \in Nat, steps \in Nat, Step, ~StepLimit
  PROVE  Larger(extra)!Step
<1>1. Executing => Larger(extra)!Executing
  <2>1. ~BudgetSpent => ~Larger(extra)!BudgetSpent
    BY DEF BudgetSpent, Larger!BudgetSpent
  <2> QED
    BY <2>1, StillHere DEF Executing, Larger!Executing
<1>2. \A fmts : Arm(fmts) => Larger(extra)!Arm(fmts)
  BY <1>1, StillHere DEF Arm, Larger!Arm
<1>3. Iconst => Larger(extra)!Iconst
  <2>1. \A raw, ty, tys : Larger(extra)!Convert(raw, ty, tys) = Convert(raw, ty, tys)
    BY StillCasts DEF Larger!Convert, Convert
  <2> QED
    BY <1>2, <2>1, StillHere, StillEnds, StillSets DEF Iconst, Larger!Iconst
<1>4. FloatConst => Larger(extra)!FloatConst
  BY <1>2, StillHere, StillEnds, StillCasts DEF FloatConst, Larger!FloatConst
<1>5. Binary => Larger(extra)!Binary
  BY <1>2, StillHere, StillEnds, StillBinary DEF Binary, Larger!Binary
<1>6. Unary => Larger(extra)!Unary
  BY <1>2, StillHere, StillEnds, StillUnary DEF Unary, Larger!Unary
<1>7. IntCompare => Larger(extra)!IntCompare
  BY <1>2, StillHere, StillEnds, StillCompare, StillCasts DEF IntCompare, Larger!IntCompare
<1>8. FloatCompare => Larger(extra)!FloatCompare
  BY <1>2, StillHere, StillEnds, StillCompare, StillCasts DEF FloatCompare, Larger!FloatCompare
<1>9. Select => Larger(extra)!Select
  BY <1>2, StillHere, StillEnds, StillCasts DEF Select, Larger!Select
<1>10. Load => Larger(extra)!Load
  BY <1>2, StillHere, StillEnds, StillMemory DEF Load, Larger!Load
<1>11. Store => Larger(extra)!Store
  <2>1. ASSUME Store
        PROVE  Larger(extra)!Store
    <3> DEFINE r == store_to(mem, Address(Arg(2), inst.imm), Arg(1))
    <3>1. Larger(extra)!store_to(mem, Larger(extra)!Address(Larger(extra)!Arg(2),
            Larger(extra)!inst.imm), Larger(extra)!Arg(1)) = r
      BY StillHere, StillMemory
    <3>2. /\ Arm({"Store"})
          /\ IF r.err = "none" THEN Continue(registers, r.mem) ELSE Halt(r.err, registers, r.mem)
      BY <2>1 DEF Store
    <3> HIDE DEF r
    <3>3. IF r.err = "none" THEN Larger(extra)!Continue(registers, r.mem)
                            ELSE Larger(extra)!Halt(r.err, registers, r.mem)
      BY <3>2, StillEnds
    <3> QED
      BY <1>2, <3>1, <3>2, <3>3 DEF Larger!Store
  <2> QED
    BY <2>1
<1>12. Jump => Larger(extra)!Jump
  BY <1>2, StillHere, StillEnds DEF Jump, Larger!Jump
<1>13. Brif => Larger(extra)!Brif
  BY <1>2, StillHere, StillEnds DEF Brif, Larger!Brif
<1>14. Return => Larger(extra)!Return
  BY <1>2, StillHere DEF Return, Larger!Return, Counted, Larger!Counted, simulator,
     Larger!simulator
<1>15. Call => Larger(extra)!Call
  <2>1. \A k : Larger(extra)!Zeroable(k) <=> Zeroable(k)
    BY StillHere, StillSets DEF Zeroable, Larger!Zeroable
  <2> DEFINE bound == { k \in DOMAIN inst.res : \A j \in 1 .. k : Zeroable(j) }
             regs  == Bind(registers, inst.res,
                           [k \in bound |-> zero_of(Code[func].vty[inst.res[k]])])
  <2>2. ASSUME Call
        PROVE  Larger(extra)!Call
    <3>1. /\ Arm({"Call"})
          /\ IF bound = DOMAIN inst.res THEN Continue(regs, mem)
                                        ELSE Halt("TypeMismatch", regs, mem)
      BY <2>2 DEF Call
    <3>2. IF bound = DOMAIN inst.res THEN Larger(extra)!Continue(regs, mem)
                                     ELSE Larger(extra)!Halt("TypeMismatch", regs, mem)
      BY <3>1, StillEnds
    <3>3. { k \in DOMAIN Larger(extra)!inst.res :
              \A j \in 1 .. k : Larger(extra)!Zeroable(j) } = bound
      BY <2>1, StillHere
    <3>4. [k \in bound |-> Larger(extra)!zero_of(Code[func].vty[Larger(extra)!inst.res[k]])]
            = [k \in bound |-> zero_of(Code[func].vty[inst.res[k]])]
      BY StillHere, StillCasts
    <3>5. Larger(extra)!Bind(registers, Larger(extra)!inst.res,
            [k \in bound |-> Larger(extra)!zero_of(Code[func].vty[Larger(extra)!inst.res[k]])])
            = regs
      BY <3>4, StillHere
    <3>6. Larger(extra)!Arm({"Call"}) /\ Larger(extra)!inst.res = inst.res
      BY <1>2, <3>1, StillHere
    <3> HIDE DEF bound, regs
    <3> QED
      BY <3>2, <3>3, <3>5, <3>6 DEF Larger!Call
  <2> QED
    BY <2>2
<1>16. Unsupported => Larger(extra)!Unsupported
  BY <1>1, StillHere, StillEnds DEF Unsupported, Larger!Unsupported
<1>17. UndefinedOperand => Larger(extra)!UndefinedOperand
  BY <1>1, StillHere, StillEnds DEF UndefinedOperand, Larger!UndefinedOperand
<1>18. FallOff => Larger(extra)!FallOff
  BY StillHere DEF FallOff, Larger!FallOff, simulator, Larger!simulator, control, Larger!control
<1> QED
  BY <1>3, <1>4, <1>5, <1>6, <1>7, <1>8, <1>9, <1>10, <1>11, <1>12, <1>13, <1>14, <1>15, <1>16,
     <1>17, <1>18 DEF Step, Larger!Step

LEMMA LargerCaller ==
  ASSUME NEW extra \in Nat, Caller
  PROVE  Larger(extra)!Caller
<1>1. Larger(extra)!Memories = Memories /\ Larger(extra)!NoRun = NoRun
  BY DEF Memories, Larger!Memories, NewMemory, Larger!NewMemory, NoRun, Larger!NoRun
<1>2. ASSUME NEW m, NEW limit \in StepBudgets, Build(m, limit)
      PROVE  limit + extra \in { b + extra : b \in StepBudgets }
             /\ Larger(extra)!Build(m, limit + extra)
  BY <1>1, <1>2, StillHere DEF Build, Larger!Build
<1>3. CASE CallRun
  <2>0. PICK f \in FuncId : \E a \in ArgVectors[f] : Run(f, a)
    BY <1>3 DEF CallRun
  <2>1. PICK a \in ArgVectors[f] : Run(f, a)
    BY <2>0
  <2>2. Larger(extra)!Run(f, a)
    BY <2>1, StillHere DEF Run, Larger!Run, TakeMemory, Larger!TakeMemory
  <2> QED
    BY <1>3, <2>1, <2>2 DEF CallRun, Larger!CallRun, Larger!Caller
<1>4. CASE NewSimulator
  BY <1>1, <1>2, <1>4 DEF NewSimulator, Larger!NewSimulator, Larger!Caller
<1>5. CASE ReuseMemory
  BY <1>2, <1>5 DEF ReuseMemory, Larger!ReuseMemory, Larger!Caller
<1> QED
  BY <1>3, <1>4, <1>5 DEF Caller

LEMMA LargerInit ==
  ASSUME NEW extra \in Nat, Init
  PROVE  Larger(extra)!Init
<1>1. Larger(extra)!Memories = Memories /\ Larger(extra)!NoRun = NoRun
  BY DEF Memories, Larger!Memories, NewMemory, Larger!NewMemory, NoRun, Larger!NoRun
<1> QED
  BY <1>1, StillHere DEF Init, Larger!Init

LEMMA LargerNext ==
  ASSUME NEW extra \in Nat, TypeOK, [Next]_vars
  PROVE  StepLimit \/ [Larger(extra)!Next]_(Larger(extra)!vars)
<1>1. max_steps \in Nat /\ steps \in Nat
  BY DEF TypeOK
<1>2. CASE Next
  BY <1>1, <1>2, LargerStep, LargerCaller DEF Next, Larger!Next
<1>3. CASE UNCHANGED vars
  BY <1>3 DEF vars, Larger!vars, simulator, Larger!simulator, call, Larger!call,
     control, Larger!control, result, Larger!result
<1> QED
  BY <1>2, <1>3

\* Up to the instruction it stops at, a run does what it would do with more
\* budget: giving up is the only step of the interpreter, and of its caller,
\* that depends on the budget.
THEOREM StoppedRunIsPrefix ==
  ASSUME NEW extra \in Nat
  PROVE  Spec => [][StepLimit \/ [Larger(extra)!Next]_(Larger(extra)!vars)]_vars
<1>1. TypeOK /\ [Next]_vars => [StepLimit \/ [Larger(extra)!Next]_(Larger(extra)!vars)]_vars
  BY LargerNext
<1> QED
  BY <1>1, TypeCorrect, PTL DEF Spec

\* max_steps decides only whether a run is stopped: a caller none of whose
\* runs is stopped by it sees the same registers, memory, results and errors,
\* step by step, with every larger budget.
THEOREM BudgetOnlyStops ==
  ASSUME NEW extra \in Nat
  PROVE  Spec /\ [](error # "StepLimitExceeded") => Larger(extra)!Spec
<1>1. Init => Larger(extra)!Init
  BY LargerInit
<1>2. TypeOK /\ [Next]_vars /\ (error # "StepLimitExceeded")'
        => [Larger(extra)!Next]_(Larger(extra)!vars)
  BY LargerNext DEF StepLimit
<1> QED
  BY <1>1, <1>2, TypeCorrect, PTL DEF Spec, Larger!Spec
=============================================================================
