-------------------------------- MODULE Clif --------------------------------
(***************************************************************************)
(* The programs the interpreter walks: finalized Cranelift functions, as    *)
(* src/src/sim.rs sees them through func.layout and func.dfg, and the two   *)
(* facts the CLIF verifier establishes about a function before anybody      *)
(* compiles it: it is well typed, and a definition dominates every use.     *)
(*                                                                          *)
(* Cranelift itself is not part of this repository: this module is a model  *)
(* of how sim.rs uses it.                                                   *)
(***************************************************************************)
EXTENDS SimValues, Functions

CONSTANTS
    FuncId,     \* names of the functions at hand
    Block,      \* block ids
    Value,      \* SSA value ids
    NoBlock,    \* layout.entry_block() of a function without blocks
    Code,       \* the functions themselves
    Avail       \* Avail[f][b]: values defined in blocks that dominate b

(***************************************************************************)
(* One record shape for every InstructionData variant.  op is the opcode,   *)
(* or the condition code of a compare; imm the immediate or the offset;     *)
(* res the result values; dst the branch destinations with their arguments. *)
(***************************************************************************)
Formats == {"UnaryImm", "UnaryIeee32", "UnaryIeee64", "Binary", "Unary",
            "LoadNoOffset", "IntCompare", "FloatCompare", "Ternary", "Load",
            "Store", "Jump", "Brif", "MultiAry", "Call", "Other"}

Terminators == {"Jump", "Brif", "MultiAry"}

\* The number of operands and of destinations a variant carries by its type.
Arity(fmt) == CASE fmt \in {"Unary", "LoadNoOffset", "Load", "Brif"} -> 1
                [] fmt \in {"Binary", "IntCompare", "FloatCompare", "Store"} -> 2
                [] fmt = "Ternary" -> 3
                [] OTHER -> 0
Fanout(fmt) == CASE fmt = "Jump" -> 1 [] fmt = "Brif" -> 2 [] OTHER -> 0

BlockCall == [block : Block, args : Seq(Value)]

Instruction ==
  { i \in [fmt : Formats, op : STRING, imm : Int, args : Seq(Value),
           res : Seq(Value), dst : Seq(BlockCall)] :
      /\ i.fmt \in {"MultiAry", "Call"} \/ Len(i.args) = Arity(i.fmt)
      /\ Len(i.dst) = Fanout(i.fmt)
      /\ IsInjective(i.res) }

ClifFunction ==
  [entry : Block \cup {NoBlock}, blocks : SUBSET Block,
   params : [Block -> { s \in Seq(Value) : IsInjective(s) }],
   body : [Block -> Seq(Instruction)], vty : [Value -> ClifTypes],
   rets : Seq(ClifTypes)]

ASSUME CodeAssumption  == NoBlock \notin Block /\ Code \in [FuncId -> ClifFunction]
ASSUME AvailAssumption == Avail \in [FuncId -> [Block -> SUBSET Value]]

(***************************************************************************)
(* Dominance.  Avail is a certificate: AvailAt(f, b, k), the values that    *)
(* are defined whenever instruction k of block b is reached, starts from    *)
(* Avail[f][b], and every edge into b must come from a place where at least *)
(* Avail[f][b] is available.                                                *)
(***************************************************************************)
DefinedBefore(f, b, k) ==
  UNION { Range(Code[f].body[b][j].res) : j \in 1 .. k - 1 }

AvailAt(f, b, k) ==
  Avail[f][b] \cup Range(Code[f].params[b]) \cup DefinedBefore(f, b, k)

EdgeOk(f, d, here) ==
  /\ d.block \in Code[f].blocks
  /\ Avail[f][d.block] \subseteq here
  /\ Range(d.args) \subseteq here
  /\ Len(d.args) = Len(Code[f].params[d.block])
  /\ \A j \in 1 .. Len(d.args) :
        Code[f].vty[d.args[j]] = Code[f].vty[Code[f].params[d.block][j]]

(***************************************************************************)
(* Types, over the instructions the header of sim.rs lists as supported.    *)
(* The amount of a shift is required to have the type of the shifted value, *)
(* which is what apply_binary accepts; CLIF itself lets the two differ.     *)
(***************************************************************************)
Operand(f, i, k) == Code[f].vty[i.args[k]]
Yields(f, i, ty) == Len(i.res) = 1 /\ Code[f].vty[i.res[1]] = ty
YieldsIn(f, i, tys) == \E ty \in tys : Yields(f, i, ty)

BinaryTyped(op, a, b) ==
  a = b /\ \/ a \in IntTypes /\ op \in IntOps
           \/ a \in FloatTypes /\ op \in FloatOps

UnaryTyped(op, from, to) ==
  \/ op \in {"ineg", "bnot"} /\ from \in IntTypes /\ to = from
  \/ op = "fneg" /\ from \in FloatTypes /\ to = from
  \/ op \in {"uextend", "sextend", "ireduce"} /\ from \in IntTypes /\ to \in IntTypes

WellTyped(f, i) ==
  CASE i.fmt = "UnaryImm" -> i.op = "iconst" /\ YieldsIn(f, i, IntTypes)
    [] i.fmt = "UnaryIeee32" -> i.op = "f32const" /\ Yields(f, i, "F32")
    [] i.fmt = "UnaryIeee64" -> i.op = "f64const" /\ Yields(f, i, "F64")
    [] i.fmt = "Binary" -> /\ BinaryTyped(i.op, Operand(f, i, 1), Operand(f, i, 2))
                           /\ Yields(f, i, Operand(f, i, 1))
    [] i.fmt = "Unary" ->
         \E to \in Types : UnaryTyped(i.op, Operand(f, i, 1), to) /\ Yields(f, i, to)
    [] i.fmt = "LoadNoOffset" -> /\ i.op = "bitcast"
                                 /\ Operand(f, i, 1) \in Types
                                 /\ YieldsIn(f, i, Types)
    [] i.fmt = "IntCompare" -> /\ Operand(f, i, 1) = Operand(f, i, 2)
                               /\ Operand(f, i, 1) \in IntTypes
                               /\ Yields(f, i, "I8")
    [] i.fmt = "FloatCompare" -> /\ Operand(f, i, 1) = Operand(f, i, 2)
                                 /\ Operand(f, i, 1) \in FloatTypes
                                 /\ Yields(f, i, "I8")
    [] i.fmt = "Ternary" -> /\ i.op = "select"
                            /\ Operand(f, i, 1) \in IntTypes
                            /\ Operand(f, i, 2) = Operand(f, i, 3)
                            /\ Operand(f, i, 2) \in Types
                            /\ Yields(f, i, Operand(f, i, 2))
    [] i.fmt = "Load" -> i.op = "load" /\ YieldsIn(f, i, Types)
    [] i.fmt = "Store" -> i.op = "store" /\ Len(i.res) = 0
    [] i.fmt \in {"Jump", "Brif"} -> Len(i.res) = 0
    [] i.fmt = "MultiAry" ->
         /\ i.op = "return"
         /\ Len(i.res) = 0
         /\ Len(i.args) = Len(Code[f].rets)
         /\ \A k \in 1 .. Len(i.args) : Operand(f, i, k) = Code[f].rets[k]
    [] i.fmt = "Call" -> \A k \in 1 .. Len(i.res) : Code[f].vty[i.res[k]] \in Types
    [] OTHER -> FALSE

InstructionOk(f, b, k) ==
  LET i == Code[f].body[b][k]
  IN  /\ WellTyped(f, i)
      /\ Range(i.args) \subseteq AvailAt(f, b, k)
      /\ \A j \in 1 .. Len(i.dst) : EdgeOk(f, i.dst[j], AvailAt(f, b, k))

BlockOk(f, b) ==
  /\ Len(Code[f].body[b]) > 0
  /\ Code[f].body[b][Len(Code[f].body[b])].fmt \in Terminators
  /\ \A k \in 1 .. Len(Code[f].body[b]) : InstructionOk(f, b, k)

\* The functions of the supported subset that the verifier accepts.
Verified ==
  { f \in FuncId : /\ Code[f].entry \in Code[f].blocks
                   /\ Avail[f][Code[f].entry] = {}
                   /\ \A b \in Code[f].blocks : BlockOk(f, b) }
=============================================================================
