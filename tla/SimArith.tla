------------------------------ MODULE SimArith ------------------------------
(***************************************************************************)
(* The arithmetic, comparison, conversion and memory helpers of sim.rs      *)
(* against reference definitions written on bit patterns, for every operand *)
(* of every type.  One state per first operand; the second operand, the     *)
(* opcode and the address are quantified in the properties.                 *)
(***************************************************************************)
EXTENDS SimValues

CONSTANTS Buffer        \* the memory loads and stores are tried on

\* No Vec<u8> is longer than isize::MAX.
ASSUME BufferAssumption == Buffer \in Seq(Byte) /\ Len(Buffer) < UsizeMod \div 2

\* `as f64` keeps the sign of an f32 that is a number and the order of numbers,
\* zero stays zero, and a NaN stays a NaN, of either sign.
ASSUME SignAssumption ==
  \A x \in 0 .. Half("F32") - 1 :
     LET y == x + Half("F32")
     IN  \/ IsNaN(Widen(x)) /\ IsNaN(Widen(y))
         \/ Widen(x) < Half("F64") /\ Widen(y) = Widen(x) + Half("F64")

ASSUME OrderAssumption ==
  /\ Widen(0) = 0
  /\ \A x, y \in 0 .. Half("F32") - 1 :
       ~IsNaN(Widen(x)) /\ ~IsNaN(Widen(y)) => (Widen(x) < Widen(y)) = (x < y)

VARIABLE a

Smallest(ty) == [ty |-> ty, n |-> IF ty \in IntTypes THEN -Half(ty) ELSE 0]

Init == a \in { Smallest(ty) : ty \in Types }

Successor == a' = Cast(a.ty, a.n + 1)

Spec == Init /\ [][Successor]_a

Peers  == { [ty |-> a.ty, n |-> n] : n \in Payload(a.ty) }
Bit(v, i) == BitAt(Bits(v), i)
Places(ty) == 0 .. Width(ty) - 1
IsInt   == a.ty \in IntTypes
IsFloat == a.ty \in FloatTypes

Res(op, b) == apply_binary(op, a, b).val

(***************************************************************************)
(* Properties                                                               *)
(***************************************************************************)
\* Addition, subtraction and multiplication are those of N-bit words; a
\* quotient and a remainder belong together, unsigned ones on the operand's
\* own width.  No division panics: a zero divisor yields zero, the smallest
\* number divided by -1 wraps, at 64 bits it yields zero.
ArithmeticExact ==
  IsInt => \A b \in Peers :
    LET m == Modulus(a.ty)
        au == Bits(a)  bu == Bits(b)
        q == Res("sdiv", b).n  r == Res("srem", b).n
        uq == Bits(Res("udiv", b))  ur == Bits(Res("urem", b))
    IN  /\ \A op \in IntOps : Res(op, b) \in SimValue /\ Res(op, b).ty = a.ty
        /\ Bits(Res("iadd", b)) = (au + bu) % m
        /\ (Bits(Res("isub", b)) + bu) % m = au
        /\ Bits(Res("imul", b)) = (au * bu) % m
        /\ bu # 0 => uq * bu + ur = au /\ ur < bu
        /\ b.n = 0 => uq = 0 /\ ur = 0 /\ q = 0 /\ r = 0
        /\ (a.n = -Half(a.ty) /\ b.n = -1) =>
             r = 0 /\ q = (IF a.ty = "I64" THEN 0 ELSE a.n)
        /\ (b.n # 0 /\ ~(a.n = -Half(a.ty) /\ b.n = -1)) =>
             /\ q * b.n + r = a.n
             /\ Abs(r) < Abs(b.n)
             /\ r = 0 \/ (r < 0) = (a.n < 0)

\* Logic and shifts act on the bits of the operand's own width; the shift
\* amount is taken modulo the width, and only sshr keeps the sign.
BitsExact ==
  IsInt => \A b \in Peers :
    LET w == Width(a.ty)
        s == Bits(b) % w
        band == Res("band", b)  bor == Res("bor", b)    bxor == Res("bxor", b)
        bnot == apply_unary("bnot", a, a.ty).val
        ishl == Res("ishl", b)  ushr == Res("ushr", b)  sshr == Res("sshr", b)
    IN  \A i \in Places(a.ty) :
          /\ Bit(band, i) = (IF Bit(a, i) + Bit(b, i) = 2 THEN 1 ELSE 0)
          /\ Bit(bor, i) = (IF Bit(a, i) + Bit(b, i) = 0 THEN 0 ELSE 1)
          /\ Bit(bxor, i) = (Bit(a, i) + Bit(b, i)) % 2
          /\ Bit(bnot, i) = 1 - Bit(a, i)
          /\ Bit(ishl, i) = (IF i < s THEN 0 ELSE Bit(a, i - s))
          /\ Bit(ushr, i) = (IF i + s < w THEN Bit(a, i + s) ELSE 0)
          /\ Bit(sshr, i) = Bit(a, IF i + s < w THEN i + s ELSE w - 1)

\* icmp compares the signed numbers or the unsigned patterns of the operands'
\* own width, although it looks at sign-extended 64-bit forms of both.
CompareExact ==
  IsInt => \A b \in Peers :
    LET Is(cc) == icmp(cc, a, b)
    IN  /\ Is("eq") = (a = b) /\ Is("ne") = (a # b)
        /\ Is("slt") = (a.n < b.n) /\ Is("sge") = ~Is("slt")
        /\ Is("sgt") = (a.n > b.n) /\ Is("sle") = ~Is("sgt")
        /\ Is("ult") = (Bits(a) < Bits(b)) /\ Is("uge") = ~Is("ult")
        /\ Is("ugt") = (Bits(a) > Bits(b)) /\ Is("ule") = ~Is("ugt")

\* Exactly one of lt, eq, gt and uno holds of two floats, and every other
\* condition is the union of the ones its name says: uno of a NaN; of numbers,
\* the patterns decide between those that are not negative, a negative one lies
\* below them but for the two zeros, and negating both reverses their order.
FloatCompareExact ==
  IsFloat => \A b \in Peers :
    LET Is(cc) == fcmp(cc, a, b)
        NotANumber(v) == IsNaN(to_f64(v))
        Negative(v) == v.n >= Half(v.ty)
        Zero(v) == v.n % Half(v.ty) = 0
        Holding == { cc \in {"lt", "eq", "gt", "uno"} : Is(cc) }
        Union(ccs) == Holding \cap ccs # {}
    IN  /\ \E cc \in {"lt", "eq", "gt", "uno"} : Holding = {cc}
        /\ Is("lt") = fcmp("gt", b, a)
        /\ Is("lt") = fcmp("gt", apply_unary("fneg", a, a.ty).val,
                                  apply_unary("fneg", b, b.ty).val)
        /\ Is("uno") = (NotANumber(a) \/ NotANumber(b))
        /\ ~Is("uno") /\ ~Negative(b) =>
             Is("lt") = IF Negative(a) THEN ~(Zero(a) /\ Zero(b)) ELSE a.n < b.n
        /\ Is("ord") = ~Is("uno")
        /\ Is("ne")  = Union({"lt", "gt", "uno"}) /\ Is("one") = Union({"lt", "gt"})
        /\ Is("ueq") = Union({"eq", "uno"})
        /\ Is("le")  = Union({"lt", "eq"})   /\ Is("ge")  = Union({"gt", "eq"})
        /\ Is("ult") = Union({"lt", "uno"})  /\ Is("ugt") = Union({"gt", "uno"})
        /\ Is("ule") = Union({"lt", "eq", "uno"})
        /\ Is("uge") = Union({"gt", "eq", "uno"})

\* uextend keeps the pattern, sextend the number, ireduce the low part of the
\* pattern; reducing an extension gives the operand back; a bitcast there and
\* back is the identity on every pattern, NaNs included; negation is that of
\* N-bit words, fneg flips the sign of any pattern and undoes itself.
ConvertExact ==
  LET To(op, ty) == apply_unary(op, a, ty).val
      Back(op, v) == apply_unary(op, v, a.ty).val
  IN  /\ IsInt =>
           /\ \A ty \in { t \in IntTypes : Bytes(t) >= Bytes(a.ty) } :
                /\ Bits(To("uextend", ty)) = Bits(a)
                /\ To("sextend", ty).n = a.n
                /\ Back("ireduce", To("uextend", ty)) = a
                /\ Back("ireduce", To("sextend", ty)) = a
           /\ \A ty \in { t \in IntTypes : Bytes(t) <= Bytes(a.ty) } :
                Bits(To("ireduce", ty)) = Bits(a) % Modulus(ty)
           /\ (Bits(To("ineg", a.ty)) + Bits(a)) % Modulus(a.ty) = 0
           /\ Bits(To("bnot", a.ty)) + Bits(a) = Modulus(a.ty) - 1
      /\ IsFloat =>
           /\ Back("fneg", To("fneg", a.ty)) = a
           /\ To("fneg", a.ty).n % Half(a.ty) = a.n % Half(a.ty)
           /\ To("fneg", a.ty) # a
      /\ \A ty \in { t \in Types : Bytes(t) = Bytes(a.ty) } :
           Back("bitcast", To("bitcast", ty)) = a

\* The value of a byte of a word, the least significant first.
Weight == << 1, ByteMod, B2, B2 * ByteMod, B4, B4 * ByteMod, B4 * B2,
             B4 * B2 * ByteMod >>

\* What is stored is loaded again; its bytes lie at ascending addresses, the
\* least significant first; no other byte changes; an access that does not
\* fit, or whose end overflows usize, is refused and writes nothing.  The order
\* does not depend on the host: sim.rs:43 speaks of "host-endian byte order",
\* but the code converts with from_le_bytes and to_le_bytes.
MemoryExact ==
  \A addr \in 0 .. UsizeMod - 1 :
    LET size == Bytes(a.ty)
        after == store_to(Buffer, addr, a)
        Byte_at(j) == Bits(load_from(after.mem, addr + j, "I8").val)
    IN  IF addr + size <= Len(Buffer)
        THEN /\ after.err = "none"
             /\ load_from(after.mem, addr, a.ty) = Ok(a)
             /\ \A j \in 0 .. size - 1 :
                  Byte_at(j) = (Bits(a) \div Weight[j + 1]) % ByteMod
             /\ Len(after.mem) = Len(Buffer)
             /\ \A j \in DOMAIN Buffer :
                  j \notin addr + 1 .. addr + size => after.mem[j] = Buffer[j]
        ELSE /\ after = [err |-> "OutOfBounds", mem |-> Buffer]
             /\ load_from(Buffer, addr, a.ty).err = "OutOfBounds"
=============================================================================
