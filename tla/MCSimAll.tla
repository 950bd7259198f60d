------------------------------- MODULE MCSimAll -------------------------------
(***************************************************************************)
(* The interpreter on every function of two blocks over a menu of           *)
(* instructions and terminators: block 0 with parameter 0 and result 1,     *)
(* block 1 with parameter 2 and result 3, any operand from 0 .. 3, so that  *)
(* most functions use a value that does not dominate, pass too few or       *)
(* mistyped block arguments, or loop; a few hundred are verified.  No trace *)
(* is recorded.                                                             *)
(***************************************************************************)
EXTENDS SimTrace, SimRefine, MCHost, MCPrograms

\* Result 1 is an I8, result 3 an I16.
Ops0 == << <<>>, <<i_iconst(1, 1)>>, <<i_binary(1, "iadd", 0, 0)>>,
           <<i_binary(1, "isub", 0, 2)>>, <<i_unary(1, "ireduce", 3)>>,
           <<i_call(<<1>>, <<0>>)>> >>
Ops1 == << <<>>, <<i_unary(3, "uextend", 0)>>, <<i_unary(3, "uextend", 1)>>,
           <<i_unary(3, "sextend", 2)>>, <<i_binary(3, "iadd", 3, 3)>>,
           <<i_load(3, 2, 0)>> >>

Ends == << i_return(<<0>>), i_return(<<1>>), i_return(<<2>>), i_return(<<3>>),
           i_jump(To(0, <<1>>)), i_jump(To(0, <<2>>)),
           i_jump(To(1, <<0>>)), i_jump(To(1, <<1>>)), i_jump(To(1, <<3>>)),
           i_jump(To(1, <<>>)),
           i_brif(0, To(1, <<1>>), To(0, <<0>>)),
           i_brif(2, To(1, <<0>>), To(0, <<2>>)),
           i_brif(3, To(1, <<2>>), To(1, <<1>>)),
           i_brif(1, To(1, <<0>>), To(1, <<>>)) >>

\* A function is the number its four choices make in mixed radix (TLC looks
\* an integer up faster than a tuple).
MCFuncId == 0 .. 6 * 14 * 6 * 14 - 1

Op0(f)  == Ops0[(f % 6) + 1]
End0(f) == Ends[((f \div 6) % 14) + 1]
Op1(f)  == Ops1[((f \div 84) % 6) + 1]
End1(f) == Ends[(f \div 504) + 1]

AllFunctions ==
  [f \in MCFuncId |->
     Func(<<"I8", "I8", "I8", "I16">>, <<"I8">>,
          << << <<0>>, Op0(f) \o <<End0(f)>> >>, << <<2>>, Op1(f) \o <<End1(f)>> >> >>)]

MCCode == AllFunctions

\* Block 0 dominates block 1 because it is the entry.
MCAvail ==
  [f \in MCFuncId |->
     [b \in MCBlock |-> IF b # 1 THEN {} ELSE {0} \cup (IF Op0(f) = <<>> THEN {} ELSE {1})]]

MCArgVectors   == [f \in MCFuncId |-> { <<I8(0)>>, <<I8(1)>>, <<I16(1)>> }]
MCMemorySizes  == {3}
MCMemoryImages == {}
MCStepBudgets  == {9}

MCUtf8(bytes) == TRUE
=============================================================================
