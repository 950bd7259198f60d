------------------------------- MODULE MCLanes -------------------------------
(***************************************************************************)
(* Lanes on bytes of two bits: helpers with up to two parameters of every   *)
(* kind of type or three of i32, wrappers that pass parameters on, and one  *)
(* or two constants of each type, the extreme ones where sign and width     *)
(* matter.                                                                  *)
(***************************************************************************)
EXTENDS Lanes, MCHost

Fn(params, ret) == [async |-> FALSE, abi |-> "", params |-> params, ret |-> ret]

ParamMenu == {"i8", "u16", "i32", "u64", "usize", "bool", "()"}

MCItem ==
  { Fn(params, "") : params \in UNION { [1 .. n -> ParamMenu] : n \in 0 .. 2 } }
  \cup { Fn(<<"i32", "i32", "i32">>, "i64"), Fn(<<"*const T", "usize">>, "bool"),
         Fn(<<"&T", "f32">>, "isize"), Fn(<<"i64", "u8">>, "") }
  \cup { Fn(<<"i64">>, ret) : ret \in {"()", "Alias", "i16", "f64", "isize", "*mut T", "&str"} }
  \cup { Fn(<<ty>>, "") : ty \in {"(i64, i64)", "&str", "JitNaiveDate"} }
  \cup { [Fn(<<"i32">>, "") EXCEPT !.abi = abi] : abi \in {"extern", "C", "sysv64"} }
  \cup { [Fn(<<"i32">>, "i32") EXCEPT !.async = TRUE] }

W(params, given, ret) == [params |-> params, given |-> given, ret |-> ret]

MCWrapper ==
  { W(<<>>, <<>>, ret) : ret \in {"", "Alias", "bool"} }
  \cup { W(<<"i64">>, <<-5>>, "i16"),
         W(<<"u16", "()", "i8">>, <<15, -2>>, ""), W(<<"&T", "f32">>, <<200, 48>>, "isize") }

E(ty, v) == [ty |-> ty, v |-> v]

MCExpr ==
  { E("Value", <<1>>), E("[Value; N]", <<1, 2>>), E("[Value; N]", <<>>),
    E("i8", <<-2>>), E("u8", <<3>>), E("u16", <<15>>), E("i32", <<-128>>),
    E("i64", <<-1>>), E("u64", <<B8 - 1>>), E("bool", <<1>>),
    E("usize", <<255>>), E("usize", <<B8 - 2>>), E("f32", <<112>>),
    E("*const T", <<254>>), E("&T", <<129>>),
    E("&str", <<7, 2>>), E("JitNaiveDate", <<-3>>), E("JitNaiveTime", <<1, 5>>),
    E("JitNaiveDateTime", <<4, 2, 3>>) }
=============================================================================
