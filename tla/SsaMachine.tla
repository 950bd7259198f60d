------------------------------ MODULE SsaMachine ------------------------------
(***************************************************************************)
(* What Simulator::run promises of a function the verifier accepts: the     *)
(* meaning of its CLIF, with lexical scope.  A value exists only where its   *)
(* definition dominates: entering a block forgets everything else and binds *)
(* the block's parameters at once.  There is no register table, no step      *)
(* count and no error path: an evaluation returns, meets an access outside   *)
(* of memory, or is given up.                                               *)
(*                                                                          *)
(* Nothing is said of a call that breaks the caller's side of the contract. *)
(***************************************************************************)
EXTENDS Clif

VARIABLES
    status,     \* where the evaluation stands
    func,       \* the function
    args,       \* its arguments
    at,         \* the block and the index of the next instruction
    env,        \* the values in scope there
    heap,       \* the memory
    answer      \* the returned values

svars == <<status, func, args, at, env, heap, answer>>

Ended  == {"returned", "faulted", "gave up"}
Status == {"none", "running", "unspecified"} \cup Ended

\* The contract of a call.
Meets(f, a) ==
  /\ f \in Verified
  /\ LET ps == Code[f].params[Code[f].entry]
     IN  [j \in DOMAIN a |-> a[j].ty] = [j \in DOMAIN ps |-> Code[f].vty[ps[j]]]

Scope(b, k) == AvailAt(func, b, k)

here == Code[func].body[at[1]][at[2]]
X(k) == env[here.args[k]]

\* The position of v in a sequence of distinct values.
Position(vs, v) == CHOOSE j \in DOMAIN vs : vs[j] = v

Place(k)  == Address(X(k), here.imm)
Outside(k, size) == OutOfBounds(heap, Place(k), size)

Faulty ==
  \/ here.fmt = "Load"  /\ Outside(1, Bytes(Code[func].vty[here.res[1]]))
  \/ here.fmt = "Store" /\ Outside(2, Bytes(X(1).ty))

\* The value of a result of type ty.  What the operators of the arithmetic
\* mean is the subject of SimArith.
Denoted(ty) ==
  CASE here.fmt \in {"UnaryImm", "UnaryIeee32", "UnaryIeee64"} -> Cast(ty, here.imm)
    [] here.fmt = "Binary"       -> apply_binary(here.op, X(1), X(2)).val
    [] here.fmt \in {"Unary", "LoadNoOffset"} -> apply_unary(here.op, X(1), ty).val
    [] here.fmt = "IntCompare"   -> Flag(icmp(here.op, X(1), X(2)))
    [] here.fmt = "FloatCompare" -> Flag(fcmp(here.op, X(1), X(2)))
    [] here.fmt = "Ternary"      -> IF X(1).n # 0 THEN X(2) ELSE X(3)
    [] here.fmt = "Load"         -> load_from(heap, Place(1), ty).val
    [] here.fmt = "Call"         -> zero_of(ty)

Evaluate ==
  /\ status = "running"
  /\ here.fmt \notin Terminators
  /\ ~Faulty
  /\ at' = <<at[1], at[2] + 1>>
  /\ env' = [v \in DOMAIN env \cup Range(here.res) |->
               IF v \in Range(here.res) THEN Denoted(Code[func].vty[v]) ELSE env[v]]
  /\ heap' = IF here.fmt = "Store" THEN store_to(heap, Place(2), X(1)).mem ELSE heap
  /\ UNCHANGED <<status, func, args, answer>>

Branch ==
  /\ status = "running"
  /\ here.fmt \in {"Jump", "Brif"}
  /\ LET d  == IF here.fmt = "Brif" /\ X(1).n = 0 THEN here.dst[2] ELSE here.dst[1]
         ps == Code[func].params[d.block]
     IN  /\ at' = <<d.block, 1>>
         /\ env' = [v \in Scope(d.block, 1) |->
                      IF v \in Range(ps) THEN env[d.args[Position(ps, v)]] ELSE env[v]]
  /\ UNCHANGED <<status, func, args, heap, answer>>

\* An evaluation that has ended has no place and no scope.
Nowhere == <<>>

End(how, vals) ==
  /\ status = "running"
  /\ status' = how
  /\ at' = Nowhere
  /\ env' = [v \in {} |-> Nowhere]
  /\ answer' = vals
  /\ UNCHANGED <<func, args, heap>>

Return ==
  /\ status = "running"
  /\ here.fmt = "MultiAry"
  /\ End("returned", [j \in DOMAIN here.args |-> X(j)])

Fault  == status = "running" /\ Faulty /\ End("faulted", <<>>)
GiveUp == End("gave up", <<>>)

\* The caller starts an evaluation on a memory of its choice, or drops the
\* result of the last one.
Start ==
  /\ status # "running"
  /\ status' = "running"
  /\ func' \in FuncId
  /\ args' \in Seq(SimValue)
  /\ Meets(func', args')
  /\ heap' \in Seq(Byte)
  /\ answer' = <<>>
  /\ LET entry == Code[func'].entry
         ps    == Code[func'].params[entry]
     IN  /\ at' = <<entry, 1>>
         /\ env' = [v \in Range(ps) |-> args'[Position(ps, v)]]

Drop ==
  /\ status # "running"
  /\ status' = "none"
  /\ heap' \in Seq(Byte)
  /\ at' = Nowhere
  /\ env' = [v \in {} |-> Nowhere]
  /\ answer' = <<>>

\* Everything a call outside of the contract may do.
Misuse ==
  /\ status # "running"
  /\ status' = "unspecified"
  /\ ~Meets(func', args')

SInit == status = "none" /\ at = Nowhere /\ env = [v \in {} |-> Nowhere] /\ answer = <<>>

SNext == Evaluate \/ Branch \/ Return \/ Fault \/ GiveUp \/ Start \/ Drop \/ Misuse

SSpec == SInit /\ [][SNext]_svars
=============================================================================
