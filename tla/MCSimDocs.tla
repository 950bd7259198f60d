------------------------------ MODULE MCSimDocs ------------------------------
(***************************************************************************)
(* Statements of the documentation of sim.rs that the code does not keep,   *)
(* each with the smallest function that shows it.                           *)
(***************************************************************************)
EXTENDS Sim, MCHost, MCPrograms

Programs ==
  \* value 1 is an alias of value 0 (change_to_alias): no instruction has it
  \* as a result, the verifier and the compiler read it as value 0
  "alias" :> Func(<<"I32", "I32", "I32">>, <<"I32">>,
    << << <<0>>, <<i_binary(2, "iadd", 1, 0), i_return(<<2>>)>> >> >>)
  @@
  \* uload8.i32 p: the Load format with another opcode
  "uload8" :> Func(<<"I64", "I32">>, <<"I32">>,
    << << <<0>>, << [i_load(1, 0, 0) EXCEPT !.op = "uload8"], i_return(<<1>>) >> >> >>)
  @@
  "shift" :> Func(<<"I32", "I8", "I32">>, <<"I32">>,
    << << <<0, 1>>, << i_binary(2, "ishl", 0, 1), i_return(<<2>>) >> >> >>)

MCFuncId == DOMAIN Programs
MCCode   == Programs
MCAvail  == [f \in MCFuncId |-> [b \in MCBlock |-> {}]]

MCMemorySizes  == {}
MCMemoryImages == { <<1, 2, 3, 0>> }
MCStepBudgets  == {9}

MCArgVectors ==
  [f \in MCFuncId |->
     CASE f = "alias" -> { <<I32(3)>> }
       [] f = "shift" -> { <<I32(3), I8(1)>> }
       [] OTHER -> { <<I64(0)>> }]

\* The alias table of the function's DataFlowGraph, resolved.
Original(v) == IF func = "alias" /\ v = 1 THEN 0 ELSE v

\* sim.rs:166, of UndefinedValue: "A `Value` was referenced before any
\* instruction wrote to it."  get! looks the operand up as it is spelled: an
\* alias of a value that has been written is reported as undefined.
UndefinedMeansUnwritten ==
  [][(Executing /\ error' = "UndefinedValue") =>
       \E v \in Range(inst.args) : Reg(Original(v)) = Undef]_vars

\* sim.rs:18: "Anything not in that set produces a
\* SimError::UnsupportedOpcode and halts execution".  The arms for Load and
\* Store match the format, not the opcode.
DocumentedOps ==
  IntOps \cup FloatOps \cup IntCC \cup FloatCC
    \cup {"iconst", "f32const", "f64const", "ineg", "fneg", "bnot", "select",
          "load", "store", "brif", "jump", "return", "call", "bitcast",
          "uextend", "sextend", "ireduce"}

OtherOpsRefused ==
  [][(Executing /\ OperandsBound /\ inst.op \notin DocumentedOps) =>
       error' = "UnsupportedOpcode"]_vars

\* sim.rs:12-13 lists shifts as supported.  CLIF lets the shift amount have
\* an integer type of its own; apply_binary refuses operands of two types.
ShiftsSupported ==
  [][(/\ Executing /\ OperandsBound /\ inst.op \in {"ishl", "ushr", "sshr"}
      /\ {Arg(1).ty, Arg(2).ty} \subseteq IntTypes) => error' = "none"]_vars
=============================================================================
