-------------------------------- MODULE Lanes --------------------------------
(***************************************************************************)
(* From Rust types to a signature and from Rust values to the operands of a *)
(* call: JitParam and JitArg (src/src/abi.rs), the chrono wrappers          *)
(* (src/src/external/chrono.rs), jit_signature!, jit_call! and              *)
(* define_jit_fn! (src/src/macros.rs), IntoReturns (src/src/builder.rs) and *)
(* the code #[jit_export] generates (macros/src/lib.rs).                    *)
(*                                                                          *)
(* One helper is exported, one wrapper is built around a call of it, and    *)
(* the host calls the wrapper.  A lane is a scalar of the signature; its    *)
(* value is a SimValue, the same one the interpreter gives the constant.    *)
(***************************************************************************)
EXTENDS SimValues

CONSTANTS
    Item,           \* Rust functions #[jit_export] is applied to
    Wrapper,        \* signatures of wrappers, with the host's arguments
    Expr,           \* argument expressions of the wrapper's body
    PointerTypes,   \* pointer types of the targets: I64, I32
    SecondNanos,    \* nanoseconds of a second: 10^9
    MaxExprs        \* bound: argument expressions of a jit_call!

VARIABLES
    ptr_ty,     \* module.target_config().pointer_type()
    phase,      \* how far the helper and the wrapper have come
    helper,     \* the annotated function
    sig,        \* its Signature: lanes of the parameters and of the return
    wrapper,    \* the function built around the call
    way,        \* "call", the generated one, or "jit_call"
    taken,      \* argument expressions lowered so far
    args_buf,   \* the operands they gave
    meant,      \* history: the Rust scalars they stand for
    result,     \* what the call handed to the body: "Inst", "Value"
    received    \* what the helper reads from its parameters

setting == <<ptr_ty, helper, sig>>
lowered == <<taken, args_buf, meant>>
vars    == <<setting, phase, wrapper, way, lowered, result, received>>

(***************************************************************************)
(* JitParam                                                                 *)
(***************************************************************************)
\* Types ABI-equivalent to unit; "Alias" is another name for ().  "" is an
\* omitted return type.
Units    == {"()", "Alias"}
Signed   == {"i8", "i16", "i32", "i64", "isize"}
Unsigned == {"u8", "u16", "u32", "u64", "usize", "bool"}
Floats   == {"f32", "f64"}
Pointers == {"*const T", "*mut T", "&T", "&mut T"}

\* The types that implement JitParam: tuples, fat pointers and the chrono
\* wrappers do not.
JitParam == Units \cup Signed \cup Unsigned \cup Floats \cup Pointers

ParamLane(ty, ptr) == CASE ty \in {"i8", "u8", "bool"} -> "I8"
                        [] ty \in {"i16", "u16"} -> "I16"
                        [] ty \in {"i32", "u32"} -> "I32"
                        [] ty \in {"i64", "u64"} -> "I64"
                        [] ty = "f32" -> "F32"
                        [] ty = "f64" -> "F64"
                        [] OTHER -> ptr

\* The numbers a scalar of a type can be: of a signed integer the number, of
\* anything else the pattern of its lane.
RustValue(ty, ptr) ==
  LET lane == ParamLane(ty, ptr)
  IN  IF ty = "bool" THEN {0, 1}
      ELSE IF ty \in Signed THEN -Half(lane) .. Half(lane) - 1 ELSE 0 .. Modulus(lane) - 1

\* push_params of the types one after the other: unit adds nothing.
NativeParams(types) ==
  LET first[n \in 0 .. Len(types)] ==
        IF n = 0 THEN <<>>
        ELSE IF types[n] \in Units \cup {""} THEN first[n - 1]
        ELSE Append(first[n - 1], types[n])
  IN  first[Len(types)]

push_params(types, ptr) ==
  [j \in DOMAIN NativeParams(types) |-> ParamLane(NativeParams(types)[j], ptr)]

\* jit_signature!(module; fn(params) -> ret)
jit_signature(params, ret, ptr) ==
  [params |-> push_params(params, ptr), returns |-> push_params(<<ret>>, ptr)]

(***************************************************************************)
(* JitArg.  An expression is a Rust type with its value, a sequence of      *)
(* numbers: an address and a length, seconds and nanoseconds, the indices   *)
(* of the wrapper's entry parameters.                                       *)
(***************************************************************************)
JitArg == Signed \cup Unsigned \cup Floats \cup Pointers
          \cup {"Value", "[Value; N]", "&str", "&[T]",
                "JitNaiveDate", "JitNaiveTime", "JitNaiveDateTime"}

\* The Rust scalars the documentation says a constant of the type stands for.
Scalars(ty) == CASE ty \in {"&str", "&[T]"} -> <<"*const T", "usize">>
                 [] ty = "JitNaiveDate" -> <<"i32">>
                 [] ty = "JitNaiveTime" -> <<"i32", "i32">>
                 [] ty = "JitNaiveDateTime" -> <<"i32", "i32", "i32">>
                 [] OTHER -> <<ty>>

ASSUME LanesAssumption ==
  /\ PointerTypes \subseteq {"I32", "I64"}
  /\ SecondNanos \in Nat \ {0} /\ MaxExprs \in Nat
  /\ Item \subseteq [async : BOOLEAN, abi : STRING, params : Seq(STRING), ret : STRING]
  /\ \A w \in Wrapper :
       /\ w.params \in Seq(JitParam) /\ w.ret \in JitParam \cup {""}
       /\ w.given \in Seq(Int) /\ Len(w.given) = Len(NativeParams(w.params))
  /\ \A e \in Expr : /\ e.ty \in JitArg /\ e.v \in Seq(Int)
                     /\ e.ty # "[Value; N]" => Len(e.v) = Len(Scalars(e.ty))

\* Faulty variant: usize has the width of a word whatever the target.
ArgLane_word(ty, ptr) == CASE ty \in {"i8", "u8", "bool"} -> "I8"
                           [] ty \in {"i16", "u16"} -> "I16"
                           [] ty \in {"i32", "u32"} -> "I32"
                           [] ty \in {"i64", "u64", "usize", "isize"} -> "I64"
                           [] OTHER -> ptr

ArgLane(ty, ptr) == CASE ty \in {"i8", "u8", "bool"} -> "I8"
                      [] ty \in {"i16", "u16"} -> "I16"
                      [] ty \in {"i32", "u32"} -> "I32"
                      [] ty \in {"i64", "u64"} -> "I64"
                      [] OTHER -> ptr

\* `raw as i64` as the immediate of an iconst of type ty.
iconst(ty, raw) == Convert(Cast("I64", raw).n, ty, IntTypes).val

\* The scalars and the lanes of the entry parameters of wrapper w, as the host
\* passes them.
Given(w) == [j \in DOMAIN NativeParams(w.params) |->
               [ty |-> NativeParams(w.params)[j], n |-> w.given[j]]]
Entry(w, ptr) == [j \in DOMAIN Given(w) |-> Cast(ParamLane(Given(w)[j].ty, ptr), Given(w)[j].n)]

\* Faulty variant: a leap second folds into the second it extends.
lower_time_folded(secs, nano) == <<iconst("I32", secs), iconst("I32", nano % SecondNanos)>>

\* JitNaiveTime: seconds from midnight, then nanoseconds, 10^9 and more in a
\* leap second.
lower_time(secs, nano) == <<iconst("I32", secs), iconst("I32", nano)>>

lower(e, entry, ptr) ==
  CASE e.ty \in {"Value", "[Value; N]"} -> [j \in DOMAIN e.v |-> entry[e.v[j]]]
    [] e.ty \in {"&str", "&[T]"} -> <<iconst(ptr, e.v[1]), iconst(ptr, e.v[2])>>
    [] e.ty = "f32" -> <<Cast("F32", e.v[1])>>
    [] e.ty = "f64" -> <<Cast("F64", e.v[1])>>
    [] e.ty = "JitNaiveDate" -> <<iconst("I32", e.v[1])>>
    [] e.ty = "JitNaiveTime" -> lower_time(e.v[1], e.v[2])
    [] e.ty = "JitNaiveDateTime" -> <<iconst("I32", e.v[1])>> \o lower_time(e.v[2], e.v[3])
    [] OTHER -> <<iconst(ArgLane(e.ty, ptr), e.v[1])>>

(***************************************************************************)
(* #[jit_export]                                                            *)
(***************************************************************************)
\* expand_jit_export: async functions and explicit ABIs other than "C" become
\* a compile_error!; an omitted ABI becomes extern "C".
Rejected(item) == item.async \/ item.abi \notin {"", "extern", "C"}

\* return_type looks at the syntax: only an omitted type and a literal () are
\* unit to it.
ReturnsInst(item) == item.ret \in {"", "()"}

Compiles(params, ret) ==
  /\ \A j \in DOMAIN params : params[j] \in JitParam
  /\ ret \in JitParam \cup {""}

Export(item) ==
  /\ phase = "source"
  /\ helper' = item
  /\ IF Rejected(item) \/ ~Compiles(item.params, item.ret)
     THEN phase' = "compile error" /\ UNCHANGED sig
     ELSE phase' = "exported" /\ sig' = jit_signature(item.params, item.ret, ptr_ty)
  /\ UNCHANGED <<ptr_ty, wrapper, way, lowered, result, received>>

(***************************************************************************)
(* The wrapper: define_jit_fn! around one call                              *)
(***************************************************************************)
\* Scalars that exist on this target: addresses and lengths fit a pointer.
Representable(scalars) == \A j \in DOMAIN scalars : scalars[j].n \in RustValue(scalars[j].ty, ptr_ty)

Open(w, how) ==
  /\ phase = "exported"
  /\ Representable(Given(w))
  /\ phase' = "lowering"
  /\ wrapper' = w
  /\ way' = how
  /\ UNCHANGED <<setting, lowered, result, received>>

\* The generated call takes one expression per parameter of the function.
Wanted == IF way = "call" THEN Len(helper.params) ELSE MaxExprs

\* The scalars an expression in the body of wrapper w stands for.
Stands(e, w) ==
  IF e.ty \in {"Value", "[Value; N]"} THEN [j \in DOMAIN e.v |-> Given(w)[e.v[j]]]
  ELSE [j \in DOMAIN Scalars(e.ty) |-> [ty |-> Scalars(e.ty)[j], n |-> e.v[j]]]

\* The expression is one the body can write on this target: its Values are
\* entry parameters of the wrapper, its constants exist.
Writable(e) ==
  /\ e.ty \in {"Value", "[Value; N]"} => \A j \in DOMAIN e.v : e.v[j] \in DOMAIN Given(wrapper)
  /\ Representable(Stands(e, wrapper))

Lower(e) ==
  /\ phase = "lowering"
  /\ taken < Wanted
  /\ Writable(e)
  /\ taken' = taken + 1
  /\ args_buf' = args_buf \o lower(e, Entry(wrapper, ptr_ty), ptr_ty)
  /\ meant' = meant \o Stands(e, wrapper)
  /\ UNCHANGED <<setting, phase, wrapper, way, result, received>>

\* The generated call returns the instruction or inst_results(inst)[0], which
\* panics if the signature has no result; the body of a jit_call! indexes the
\* results only if the wrapper returns something.
EmitCall ==
  /\ phase = "lowering"
  /\ way = "call" => taken = Wanted
  /\ LET inst == IF way = "call" THEN ReturnsInst(helper)
                 ELSE wrapper.ret \in Units \cup {""}
     IN  /\ phase' = IF inst \/ sig.returns # <<>> THEN "built" ELSE "panicked"
         /\ result' = IF inst THEN "Inst" ELSE "Value"
  /\ UNCHANGED <<setting, wrapper, way, lowered, received>>

\* IntoReturns of what the body returns: () after an Inst, a Value as it is.
Returns == IF result = "Inst" THEN <<>> ELSE sig.returns

\* module.define_function: the verifier compares the operands of the call and
\* of the return with the two signatures.
Define ==
  /\ phase = "built"
  /\ phase' = IF /\ [j \in DOMAIN args_buf |-> args_buf[j].ty] = sig.params
                 /\ Returns = push_params(<<wrapper.ret>>, ptr_ty)
              THEN "defined" ELSE "refused"
  /\ UNCHANGED <<setting, wrapper, way, lowered, result, received>>

(***************************************************************************)
(* The native call.  push_params asks for no extension of a lane narrower   *)
(* than an int, so the bits above it are whatever the register held; a      *)
(* Rust extern "C" function reads an int it expects the caller to extend.   *)
(***************************************************************************)
IsNarrow(lane) == Bytes(lane) < 4

HostRead(ty, lane, upper) ==
  LET bits == IF IsNarrow(lane.ty) THEN Bits(lane) + upper * Modulus(lane.ty) ELSE Bits(lane)
  IN  IF ty \notin Signed THEN bits
      ELSE Cast(IF IsNarrow(lane.ty) THEN "I32" ELSE lane.ty, bits).n

\* All ones above a narrow lane.
Ones(ty) == Modulus("I32") \div Modulus(ty) - 1

Invoke ==
  /\ phase = "defined"
  /\ phase' = "called"
  /\ \E dirty \in SUBSET { j \in DOMAIN args_buf : IsNarrow(args_buf[j].ty) } :
       received' = [j \in DOMAIN args_buf |->
                      HostRead(NativeParams(helper.params)[j], args_buf[j],
                               IF j \in dirty THEN Ones(args_buf[j].ty) ELSE 0)]
  /\ UNCHANGED <<setting, wrapper, way, lowered, result>>

NoItem == [async |-> FALSE, abi |-> "", params |-> <<>>, ret |-> ""]
NoWrapper == [params |-> <<>>, given |-> <<>>, ret |-> ""]

Init ==
  /\ ptr_ty \in PointerTypes
  /\ phase = "source"
  /\ helper = NoItem
  /\ sig = jit_signature(<<>>, "", ptr_ty)
  /\ wrapper = NoWrapper
  /\ way = "call"
  /\ taken = 0
  /\ args_buf = <<>>
  /\ meant = <<>>
  /\ result = "Inst"
  /\ received = <<>>

Next ==
  \/ \E item \in Item : Export(item)
  \/ \E w \in Wrapper, how \in {"call", "jit_call"} : Open(w, how)
  \/ \E e \in Expr : Lower(e)
  \/ EmitCall \/ Define \/ Invoke

Spec == Init /\ [][Next]_vars

(***************************************************************************)
(* Properties                                                               *)
(***************************************************************************)
\* Every lane is a SimValue of a native type, and what has been lowered is as
\* long as what it stands for.
TypeOK ==
  /\ phase \in {"source", "compile error", "exported", "lowering", "built", "panicked",
                "defined", "refused", "called"}
  /\ sig.params \in Seq(Types) /\ sig.returns \in Seq(Types) /\ Len(sig.returns) <= 1
  /\ args_buf \in Seq(SimValue) /\ Len(args_buf) = Len(meant)
  /\ taken \in 0 .. Wanted
  /\ received \in Seq(Int)

\* The arguments stand for the types the helper declares, in their order.
Faithful == [j \in DOMAIN meant |-> meant[j].ty] = NativeParams(helper.params)

SameReturn == \/ wrapper.ret = helper.ret
              \/ {wrapper.ret, helper.ret} \subseteq Units \cup {""}

\* JitParam and JitArg are written independently of each other: a call whose
\* arguments stand for the types of the helper, in a wrapper that returns the
\* helper's type, is accepted by the verifier on every target.
CallAccepted ==
  phase = "refused" => ~(Faithful /\ SameReturn)

\* Then the helper reads what the caller wrote: signed, unsigned and pointer
\* constants survive the passage through i64, the (address, length) and the
\* chrono encodings arrive in order, leap seconds included.  Of a lane
\* narrower than an int the low bits arrive.
ValuesArrive ==
  (phase = "called" /\ Faithful) =>
    \A j \in DOMAIN received :
      \/ received[j] = meant[j].n
      \/ /\ IsNarrow(sig.params[j])
         /\ (received[j] - meant[j].n) % Modulus(sig.params[j]) = 0

\* abi.rs:81, of every scalar JitParam: "This primitive has the corresponding
\* scalar C ABI."  A lane of eight or sixteen bits carries no extension, which
\* the C ABI asks of the caller.
NarrowArrives ==
  (phase = "called" /\ Faithful) => \A j \in DOMAIN received : received[j] = meant[j].n

\* macros/src/lib.rs:95-96: "`-> ()` (or no return): returns
\* `cranelift_codegen::ir::Inst`".  The macro recognises unit by its syntax,
\* JitParam by its type.
UnitReturnsInst ==
  (phase = "panicked" /\ way = "call") => helper.ret \notin Units \cup {""}
=============================================================================
