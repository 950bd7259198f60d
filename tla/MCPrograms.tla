----------------------------- MODULE MCPrograms -----------------------------
(***************************************************************************)
(* Constructors for the functions the model-checking modules run, and a     *)
(* library of them: the shapes of tests/sim.rs (arithmetic chain, branch    *)
(* maximum, loop sum, store and load, stubbed call, runaway loop), a loop   *)
(* that permutes its parameters, and functions no verifier would accept.    *)
(***************************************************************************)
EXTENDS Integers, Sequences, TLC

I(fmt, op, imm, ops, res, dst) ==
  [fmt |-> fmt, op |-> op, imm |-> imm, args |-> ops, res |-> res, dst |-> dst]

To(b, vs) == [block |-> b, args |-> vs]

i_iconst(v, n)        == I("UnaryImm", "iconst", n, <<>>, <<v>>, <<>>)
i_f32const(v, n)      == I("UnaryIeee32", "f32const", n, <<>>, <<v>>, <<>>)
i_f64const(v, n)      == I("UnaryIeee64", "f64const", n, <<>>, <<v>>, <<>>)
i_binary(v, op, x, y) == I("Binary", op, 0, <<x, y>>, <<v>>, <<>>)
i_unary(v, op, x)     == I("Unary", op, 0, <<x>>, <<v>>, <<>>)
i_bitcast(v, x)       == I("LoadNoOffset", "bitcast", 0, <<x>>, <<v>>, <<>>)
i_icmp(v, cc, x, y)   == I("IntCompare", cc, 0, <<x, y>>, <<v>>, <<>>)
i_fcmp(v, cc, x, y)   == I("FloatCompare", cc, 0, <<x, y>>, <<v>>, <<>>)
i_select(v, c, x, y)  == I("Ternary", "select", 0, <<c, x, y>>, <<v>>, <<>>)
i_load(v, p, off)     == I("Load", "load", off, <<p>>, <<v>>, <<>>)
i_store(x, p, off)    == I("Store", "store", off, <<x, p>>, <<>>, <<>>)
i_jump(d)             == I("Jump", "jump", 0, <<>>, <<>>, <<d>>)
i_brif(c, d, e)       == I("Brif", "brif", 0, <<c>>, <<>>, <<d, e>>)
i_return(vs)          == I("MultiAry", "return", 0, vs, <<>>, <<>>)
i_call(vs, ops)       == I("Call", "call", 0, ops, vs, <<>>)
i_other(v)            == I("Other", "rotl", 0, <<>>, <<v>>, <<>>)

\* A function whose blocks are 0 .. Len(code) - 1, each <<params, insts>>.
MCBlock == 0 .. 3
MCValue == 0 .. 8

Func(vty, rets, code) ==
  [entry  |-> 0,
   blocks |-> 0 .. Len(code) - 1,
   params |-> [b \in MCBlock |-> IF b < Len(code) THEN code[b + 1][1] ELSE <<>>],
   body   |-> [b \in MCBlock |-> IF b < Len(code) THEN code[b + 1][2] ELSE <<>>],
   vty    |-> [v \in MCValue |-> IF v < Len(vty) THEN vty[v + 1] ELSE "I64"],
   rets   |-> rets]

I8(n)  == [ty |-> "I8",  n |-> n]
I16(n) == [ty |-> "I16", n |-> n]
I32(n) == [ty |-> "I32", n |-> n]
I64(n) == [ty |-> "I64", n |-> n]
F32(n) == [ty |-> "F32", n |-> n]

\* loop_sum of tests/sim.rs: 0 + 1 + ... + (n - 1), by a loop whose header
\* computes the next index and the next sum before it knows whether they are
\* wanted.
LoopSum ==
  Func(<<"I64", "I64", "I64", "I64", "I8", "I64", "I64", "I64", "I64">>, <<"I64">>,
    << << <<0>>, << i_iconst(1, 0), i_jump(To(1, <<1, 1>>)) >> >>,
       << <<2, 3>>, << i_icmp(4, "slt", 2, 0), i_binary(5, "iadd", 3, 2), i_iconst(6, 1),
                       i_binary(7, "iadd", 2, 6),
                       i_brif(4, To(1, <<7, 5>>), To(2, <<3>>)) >> >>,
       << <<8>>, << i_return(<<8>>) >> >> >>)

Library ==
  "loop_sum" :> LoopSum
  @@
  \* 0 + n + (n-1) + ... + 1, by a loop with two parameters
  "sum" :> Func(<<"I16", "I16", "I16", "I16", "I16", "I16", "I16", "I16">>, <<"I16">>,
    << << <<0>>, << i_iconst(1, 0), i_jump(To(1, <<0, 1>>)) >> >>,
       << <<2, 3>>, << i_brif(2, To(2, <<>>), To(3, <<3>>)) >> >>,
       << <<>>, << i_binary(4, "iadd", 3, 2), i_iconst(5, 1), i_binary(6, "isub", 2, 5),
                   i_jump(To(1, <<6, 4>>)) >> >>,
       << <<7>>, << i_return(<<7>>) >> >> >>)
  @@
  \* the back edge exchanges two parameters
  "swap" :> Func(<<"I16", "I32", "I32", "I16", "I32", "I32", "I16", "I16">>,
                 <<"I32", "I32">>,
    << << <<0, 1, 2>>, << i_jump(To(1, <<0, 1, 2>>)) >> >>,
       << <<3, 4, 5>>, << i_brif(3, To(2, <<>>), To(3, <<>>)) >> >>,
       << <<>>, << i_iconst(6, 1), i_binary(7, "isub", 3, 6),
                   i_jump(To(1, <<7, 5, 4>>)) >> >>,
       << <<>>, << i_return(<<4, 5>>) >> >> >>)
  @@
  \* the unsigned maximum, by a branch and by a select
  "umax" :> Func(<<"I8", "I8", "I8", "I8", "I8", "I8">>, <<"I8", "I8">>,
    << << <<0, 1>>, << i_icmp(2, "ugt", 0, 1), i_brif(2, To(1, <<0>>), To(1, <<1>>)) >> >>,
       << <<3>>, << i_icmp(4, "ule", 0, 1), i_select(5, 4, 1, 0), i_return(<<3, 5>>) >> >> >>)
  @@
  \* a word stored at p + 1, its two halves loaded again
  "halves" :> Func(<<"I64", "I32", "I16", "I16">>, <<"I16", "I16">>,
    << << <<0, 1>>, << i_store(1, 0, 1), i_load(2, 0, 1), i_load(3, 0, 3),
                       i_return(<<2, 3>>) >> >> >>)
  @@
  \* ones written from p upwards, until the buffer or the budget ends
  "fill" :> Func(<<"I64", "I64", "I8", "I64", "I64">>, <<>>,
    << << <<0>>, << i_jump(To(1, <<0>>)) >> >>,
       << <<1>>, << i_iconst(2, 1), i_store(2, 1, 0), i_iconst(3, 1),
                    i_binary(4, "iadd", 1, 3), i_jump(To(1, <<4>>)) >> >> >>)
  @@
  \* conversions: zero- and sign-extension, reduction, a float and back
  "casts" :> Func(<<"I8", "I32", "I32", "F32", "I32", "I8", "I32", "I32">>,
                  <<"I32", "I32", "I32", "I8", "I32">>,
    << << <<0>>, << i_unary(1, "uextend", 0), i_unary(2, "sextend", 0), i_bitcast(3, 2),
                    i_bitcast(4, 3), i_unary(5, "ireduce", 4), i_unary(6, "bnot", 2),
                    i_unary(7, "ineg", 6), i_return(<<1, 2, 4, 5, 7>>) >> >> >>)
  @@
  \* |x| unless x is a NaN, in which case 1.0 (pattern 48): fcmp ne x x
  "fabs" :> Func(<<"F32", "I8", "F32", "F32", "I8", "F32", "F32", "F32">>, <<"F32">>,
    << << <<0>>, << i_fcmp(1, "ne", 0, 0), i_f32const(2, 48), i_unary(3, "fneg", 0),
                    i_fcmp(4, "ult", 0, 3), i_select(5, 4, 3, 0), i_select(6, 1, 2, 5),
                    i_binary(7, "fsub", 6, 3), i_return(<<6>>) >> >> >>)
  @@
  \* a stubbed call with a result of every width
  "call" :> Func(<<"I64", "I32", "F64", "I8">>, <<"I32", "F64", "I8">>,
    << << <<0>>, << i_call(<<1, 2, 3>>, <<0, 0>>), i_f64const(2, 48),
                    i_return(<<1, 2, 3>>) >> >> >>)
  @@
  \* a fat pointer passed in both orders: (p, l, l, p)
  "show" :> Func(<<"I64", "I64", "I8">>, <<"I8">>,
    << << <<0, 1>>, << i_call(<<2>>, <<0, 1, 1, 0>>), i_return(<<2>>) >> >> >>)
  @@
  "spin" :> Func(<<>>, <<>>, << << <<>>, << i_jump(To(0, <<>>)) >> >> >>)
  @@
  \* ---- functions outside the supported, verified subset ----
  \* the second result of the call has no SimValue
  "call128" :> Func(<<"I64", "I32", "I128", "I8">>, <<"I32">>,
    << << <<0>>, << i_call(<<1, 2, 3>>, <<0>>), i_return(<<1>>) >> >> >>)
  @@
  \* the back edge passes no argument: the parameter keeps its last value
  "stale" :> Func(<<"I16", "I16", "I16">>, <<"I16">>,
    << << <<0>>, << i_jump(To(1, <<0>>)) >> >>,
       << <<1>>, << i_iconst(2, 1), i_binary(1, "isub", 1, 2),
                    i_brif(1, To(1, <<>>), To(2, <<>>)) >> >>,
       << <<>>, << i_return(<<1>>) >> >> >>)
  @@
  "undefined" :> Func(<<"I16", "I16", "I16">>, <<"I16">>,
    << << <<0>>, << i_brif(0, To(1, <<>>), To(2, <<>>)) >> >>,
       << <<>>, << i_iconst(1, 3), i_jump(To(2, <<>>)) >> >>,
       << <<>>, << i_binary(2, "iadd", 1, 0), i_return(<<2>>) >> >> >>)
  @@
  "mixed" :> Func(<<"I8", "I16", "I16">>, <<"I16">>,
    << << <<0, 1>>, << i_binary(2, "iadd", 1, 0), i_return(<<2>>) >> >> >>)
  @@
  "iadd_f32" :> Func(<<"F32", "F32">>, <<"F32">>,
    << << <<0>>, << i_binary(1, "iadd", 0, 0), i_return(<<1>>) >> >> >>)
  @@
  "rotl" :> Func(<<"I8", "I8">>, <<"I8">>,
    << << <<0>>, << i_other(1), i_return(<<1>>) >> >> >>)
  @@
  "no_end" :> Func(<<"I8", "I8">>, <<>>, << << <<0>>, << i_iconst(1, 1) >> >> >>)
  @@
  "empty" :> [Func(<<>>, <<>>, <<>>) EXCEPT !.entry = -1]

\* Values defined in dominating blocks, for the functions above that have
\* more than one block and pass the verifier.
LibraryAvail ==
  [f \in DOMAIN Library |->
     [b \in MCBlock |->
        CASE f = "sum" -> (CASE b = 0 -> {} [] b = 1 -> {0, 1} [] OTHER -> 0 .. 3)
          [] f = "loop_sum" -> (CASE b = 0 -> {} [] b = 1 -> {0, 1} [] OTHER -> 0 .. 7)
          [] f = "swap" -> (CASE b = 0 -> {} [] b = 1 -> 0 .. 2 [] OTHER -> 0 .. 5)
          [] f = "umax" -> (IF b = 1 THEN 0 .. 2 ELSE {})
          [] f = "fill" -> (IF b = 1 THEN {0} ELSE {})
          [] OTHER -> {}]]

MCNoBlock == -1
=============================================================================
