------------------------------ MODULE SimValues ------------------------------
(***************************************************************************)
(* The values of the CLIF interpreter of src/src/sim.rs: the SimValue enum, *)
(* its conversions, the arithmetic helpers (apply_int, apply_float,         *)
(* apply_unary, icmp, fcmp) and the two memory helpers (load_from,          *)
(* store_to).                                                               *)
(*                                                                          *)
(* Everything is written over the number of values of one byte, ByteMod, so *)
(* that the same definitions are the real machine (ByteMod = 256) for the   *)
(* proofs and a machine small enough to enumerate (ByteMod = 4, whose       *)
(* 1-, 2-, 4- and 8-byte integers have 2, 4, 8 and 16 bits) for TLC.        *)
(***************************************************************************)
EXTENDS Integers, Sequences

CONSTANTS
    ByteBits,       \* bits of a byte: 8 in the program
    ByteMod,        \* values of a byte: 256 in the program
    UsizeMod,       \* number of values of the host's usize
    ByteOp(_, _, _),  \* the host's band, bor and bxor on two bytes
    FloatOp(_, _, _), \* the host's f64 arithmetic, on bit patterns
    Widen(_),       \* `as f64` on an f32 pattern
    Narrow(_),      \* `as f32` on an f64 pattern
    Inf64           \* the bit pattern of f64 infinity

B2 == ByteMod * ByteMod
B4 == B2 * B2
B8 == B4 * B4

(***************************************************************************)
(* Types.  Types are those SimValue has a variant for; CLIF has others      *)
(* (I128, vectors), which "I128" stands for.                                *)
(***************************************************************************)
IntTypes   == {"I8", "I16", "I32", "I64"}
FloatTypes == {"F32", "F64"}
Types      == IntTypes \cup FloatTypes
ClifTypes  == Types \cup {"I128"}

\* ty.bytes()
Bytes(ty) == CASE ty = "I8" -> 1
               [] ty = "I16" -> 2
               [] ty \in {"I32", "F32"} -> 4
               [] ty \in {"I64", "F64"} -> 8
               [] OTHER -> 16

Modulus(ty) == CASE ty = "I8" -> ByteMod
                 [] ty = "I16" -> B2
                 [] ty \in {"I32", "F32"} -> B4
                 [] OTHER -> B8

Half(ty)  == Modulus(ty) \div 2
Width(ty) == ByteBits * Bytes(ty)

Byte == 0 .. ByteMod - 1
U64  == 0 .. B8 - 1

\* Bit i of a number, a negative one in two's complement.
BitAt(x, i) == (x \div 2 ^ i) % 2

\* What the host's logic does to two bits.
OnBits(op, p, q) == CASE op = "band" -> IF p + q = 2 THEN 1 ELSE 0
                      [] op = "bor"  -> IF p + q = 0 THEN 0 ELSE 1
                      [] OTHER       -> (p + q) % 2

\* The bits of a byte, and so those of every type, are a power of two: what
\* is taken modulo the width here is masked with width - 1 in the program.
ASSUME ByteAssumption  == /\ ByteBits \in Nat \ {0}
                          /\ \E k \in 0 .. ByteBits : ByteBits = 2 ^ k
                          /\ ByteMod \in Nat \ {0}
                          /\ ByteMod = 2 * (ByteMod \div 2)
                          /\ ByteMod = 2 ^ ByteBits
ASSUME UsizeAssumption == UsizeMod \in Nat \ {0}
ASSUME PowerAssumption == /\ 2 ^ 0 = 1
                          /\ \A k \in 0 .. 8 * ByteBits - 1 : 2 ^ (k + 1) = 2 * 2 ^ k
ASSUME HostAssumption  == /\ Inf64 \in Nat
                          /\ \A op \in {"band", "bor", "bxor"} :
                               \A x, y \in Byte :
                                 /\ ByteOp(op, x, y) \in Byte
                                 /\ \A i \in 0 .. ByteBits - 1 :
                                      BitAt(ByteOp(op, x, y), i)
                                      = OnBits(op, BitAt(x, i), BitAt(y, i))
                          /\ \A x \in 0 .. B4 - 1 : Widen(x) \in U64
                          /\ \A x \in U64 : Narrow(x) \in 0 .. B4 - 1

(***************************************************************************)
(* A SimValue is a record: an integer variant holds its signed number, a    *)
(* float variant its bit pattern.                                           *)
(***************************************************************************)
Payload(ty) == IF ty \in IntTypes THEN -Half(ty) .. Half(ty) - 1
                                  ELSE 0 .. Modulus(ty) - 1

SimValue == { v \in [ty : Types, n : Int] : v.n \in Payload(v.ty) }

\* Faulty variant: the number is not brought back into the type's range.
Cast_unwrapped(ty, raw) == [ty |-> ty, n |-> raw]

\* `raw as iN` on any integer, and fN::from_bits on a pattern.
Cast(ty, raw) ==
  LET u == raw % Modulus(ty)
  IN  [ty |-> ty, n |-> IF ty \in IntTypes /\ u >= Half(ty)
                        THEN u - Modulus(ty) ELSE u]

\* The bit pattern of a value, in its own width.
Bits(v) == v.n % Modulus(v.ty)

\* Integers sign-extend, floats go through to_bits.
as_u64(v) == v.n % B8

\* Faulty variant: zero-extension.
as_i64_zext(v) == Cast("I64", Bits(v)).n

as_i64(v) == Cast("I64", v.n).n

zero_of(ty) == Cast(ty, 0)

(***************************************************************************)
(* Result<SimValue, SimError>.  An error keeps its variant only; the two    *)
(* uses UnsupportedOpcode has outside the opcode match (no entry block,     *)
(* block without terminator) are told apart.                                *)
(***************************************************************************)
SimError == {"UnsupportedOpcode", "OutOfBounds", "UndefinedValue",
             "TypeMismatch", "StepLimitExceeded", "NoEntryBlock",
             "NoTerminator"}

Ok(v)  == [err |-> "none", val |-> v]
Err(e) == [err |-> e, val |-> zero_of("I64")]

(***************************************************************************)
(* Integer arithmetic                                                       *)
(***************************************************************************)
IntOps   == {"iadd", "isub", "imul", "sdiv", "udiv", "srem", "urem",
             "band", "bor", "bxor", "ishl", "ushr", "sshr"}
FloatOps == {"fadd", "fsub", "fmul", "fdiv"}

Abs(x) == IF x < 0 THEN -x ELSE x

\* i64 division rounds towards zero; checked_div is None for a zero divisor
\* and for i64::MIN / -1, at the 64-bit width only.
Quotient(x, y) == IF (x < 0) = (y < 0) THEN Abs(x) \div Abs(y)
                                       ELSE -(Abs(x) \div Abs(y))

NoQuotient(x, y) == y = 0 \/ (x = -Half("I64") /\ y = -1)

\* &, | and ^ act byte by byte: on 2, 4 and 8 bytes by halves.
BitOp2(op, x, y) == ByteOp(op, x % ByteMod, y % ByteMod)
                    + ByteMod * ByteOp(op, x \div ByteMod, y \div ByteMod)
BitOp4(op, x, y) == BitOp2(op, x % B2, y % B2)
                    + B2 * BitOp2(op, x \div B2, y \div B2)
BitOp(op, x, y)  == BitOp4(op, x % B4, y % B4)
                    + B4 * BitOp4(op, x \div B4, y \div B4)

\* Unsigned operations see the operand in its own width.
\* Faulty variant: they see the sign-extended operand.
Masked_not(x, ty) == x % B8

Masked(x, ty) == x % Modulus(ty)

\* Faulty variant: every shift amount is taken modulo 64.
ShiftAmount_64(y, ty) == y % Width("I64")

ShiftAmount(y, ty) == y % Width(ty)

\* Result of apply_int before the caller's `as iN`.
IntResult(op, x, y, ty) ==
  LET xu == Masked(x, ty)
      yu == Masked(y, ty)
      shamt == ShiftAmount(y, ty)
  IN  CASE op = "iadd" -> x + y
        [] op = "isub" -> x - y
        [] op = "imul" -> x * y
        [] op = "sdiv" -> IF NoQuotient(x, y) THEN 0 ELSE Quotient(x, y)
        [] op = "udiv" -> IF yu = 0 THEN 0 ELSE xu \div yu
        [] op = "srem" -> IF NoQuotient(x, y) THEN 0
                          ELSE x - y * Quotient(x, y)
        [] op = "urem" -> IF yu = 0 THEN 0 ELSE xu % yu
        [] op \in {"band", "bor", "bxor"} -> BitOp(op, x % B8, y % B8)
        [] op = "ishl" -> x * 2 ^ shamt
        [] op = "ushr" -> xu \div 2 ^ shamt
        [] OTHER -> x \div 2 ^ shamt

apply_int(op, x, y, ty) ==
  IF op \in IntOps THEN Ok(Cast(ty, IntResult(op, x, y, ty)))
                   ELSE Err("UnsupportedOpcode")

\* f64 arithmetic is the host's; the guard keeps the operator total on
\* patterns whatever FloatOp is.
FloatArith(op, x, y) == LET r == FloatOp(op, x, y) IN IF r \in U64 THEN r ELSE 0

\* F32 operands are widened to f64 and the result narrowed back.
apply_float(op, x, y, ty) ==
  IF op \notin FloatOps THEN Err("UnsupportedOpcode")
  ELSE Ok([ty |-> ty, n |-> IF ty = "F32"
                            THEN Narrow(FloatArith(op, Widen(x), Widen(y)))
                            ELSE FloatArith(op, x, y)])

apply_binary(op, a, b) ==
  IF a.ty # b.ty THEN Err("TypeMismatch")
  ELSE IF a.ty \in IntTypes THEN apply_int(op, a.n, b.n, a.ty)
                            ELSE apply_float(op, a.n, b.n, a.ty)

(***************************************************************************)
(* Unary operations and conversions                                         *)
(***************************************************************************)
\* The result type of a conversion has to be one of tys.
Convert(raw, ty, tys) == IF ty \in tys THEN Ok(Cast(ty, raw))
                                       ELSE Err("TypeMismatch")

\* An operation defined on one family of types keeps the operand's type.
SameType(a, tys, raw) == IF a.ty \in tys THEN Ok(Cast(a.ty, raw))
                                         ELSE Err("TypeMismatch")

\* Faulty variant: as_u64 sign-extends before the zero-extension.
uextend_signed(a, ty) == IF a.ty \in IntTypes THEN Convert(as_u64(a), ty, IntTypes)
                                              ELSE Err("TypeMismatch")

uextend(a, ty) == IF a.ty \in IntTypes THEN Convert(Bits(a), ty, IntTypes)
                                       ELSE Err("TypeMismatch")

apply_unary(op, a, ty) ==
  CASE op = "ineg" -> SameType(a, IntTypes, -a.n)
    [] op = "fneg" -> SameType(a, FloatTypes, a.n + Half(a.ty))
    [] op = "bnot" -> SameType(a, IntTypes, -a.n - 1)
    [] op = "uextend" -> uextend(a, ty)
    [] op \in {"sextend", "ireduce"} -> Convert(as_i64(a), ty, IntTypes)
    [] op = "bitcast" -> Convert(as_u64(a), ty, Types)
    [] OTHER -> Err("UnsupportedOpcode")

(***************************************************************************)
(* Comparisons                                                              *)
(***************************************************************************)
IntCC   == {"eq", "ne", "slt", "sle", "sgt", "sge", "ult", "ule", "ugt", "uge"}
FloatCC == {"ord", "uno", "eq", "ne", "one", "ueq", "lt", "le", "gt", "ge",
            "ult", "ule", "ugt", "uge"}

icmp(cond, a, b) ==
  LET xs == as_i64(a)  ys == as_i64(b)
      xu == as_u64(a)  yu == as_u64(b)
  IN  CASE cond = "eq"  -> xs = ys
        [] cond = "ne"  -> xs # ys
        [] cond = "slt" -> xs < ys
        [] cond = "sle" -> xs <= ys
        [] cond = "sgt" -> xs > ys
        [] cond = "sge" -> xs >= ys
        [] cond = "ult" -> xu < yu
        [] cond = "ule" -> xu <= yu
        [] cond = "ugt" -> xu > yu
        [] OTHER        -> xu >= yu

\* f64 patterns: sign bit and magnitude; a magnitude above infinity is a NaN,
\* and the two zeros are equal.
Magnitude(x) == x % Half("F64")
IsNaN(x)     == Magnitude(x) > Inf64

\* Faulty variant: patterns are compared as unsigned numbers.
FloatKey_unsigned(x) == x

FloatKey(x)  == IF x < Half("F64") THEN x ELSE -Magnitude(x)

\* The closure to_f64 of fcmp: an integer operand counts as f64::NAN.
to_f64(v) == CASE v.ty = "F32" -> Widen(v.n)
               [] v.ty = "F64" -> v.n
               [] OTHER -> Half("F64") - 1

fcmp(cond, a, b) ==
  LET x   == to_f64(a)    y  == to_f64(b)
      kx  == FloatKey(x)  ky == FloatKey(y)
      ord == ~(IsNaN(x) \/ IsNaN(y))
  IN  CASE cond = "ord" -> ord
        [] cond = "uno" -> ~ord
        [] cond = "eq"  -> ord /\ kx = ky
        [] cond = "ne"  -> ~ord \/ kx # ky
        [] cond = "one" -> ord /\ kx # ky
        [] cond = "ueq" -> ~ord \/ kx = ky
        [] cond = "lt"  -> ord /\ kx < ky
        [] cond = "le"  -> ord /\ kx <= ky
        [] cond = "gt"  -> ord /\ kx > ky
        [] cond = "ge"  -> ord /\ kx >= ky
        [] cond = "ult" -> ~ord \/ kx < ky
        [] cond = "ule" -> ~ord \/ kx <= ky
        [] cond = "ugt" -> ~ord \/ kx > ky
        [] OTHER        -> ~ord \/ kx >= ky

\* `cmp(..) as i8`
Flag(b) == Cast("I8", IF b THEN 1 ELSE 0)

(***************************************************************************)
(* Memory: a sequence of bytes, address a at index a + 1.  from_le_bytes    *)
(* and to_le_bytes double: the low half of a word is at the low address.    *)
(***************************************************************************)
\* Faulty variant: the bytes of a half word are read in the other order.
LE2_swapped(mem, a) == mem[a + 2] + ByteMod * mem[a + 1]

LE2(mem, a) == mem[a + 1] + ByteMod * mem[a + 2]
LE4(mem, a) == LE2(mem, a) + B2 * LE2(mem, a + 2)
LE8(mem, a) == LE4(mem, a) + B4 * LE4(mem, a + 4)

from_le_bytes(mem, a, size) == CASE size = 1 -> mem[a + 1]
                                 [] size = 2 -> LE2(mem, a)
                                 [] size = 4 -> LE4(mem, a)
                                 [] OTHER -> LE8(mem, a)

Byte2(u, i) == IF i = 0 THEN u % ByteMod ELSE u \div ByteMod
Byte4(u, i) == IF i < 2 THEN Byte2(u % B2, i) ELSE Byte2(u \div B2, i - 2)
Byte8(u, i) == IF i < 4 THEN Byte4(u % B4, i) ELSE Byte4(u \div B4, i - 4)

to_le_bytes(u, i, size) == CASE size = 1 -> u
                             [] size = 2 -> Byte2(u, i)
                             [] size = 4 -> Byte4(u, i)
                             [] OTHER -> Byte8(u, i)

\* addr.checked_add(size) is None, or the end is past the buffer.
OutOfBounds(mem, addr, size) ==
  addr + size >= UsizeMod \/ addr + size > Len(mem)

load_from(mem, addr, ty) ==
  IF OutOfBounds(mem, addr, Bytes(ty)) THEN Err("OutOfBounds")
  ELSE IF ty \notin Types THEN Err("TypeMismatch")
  ELSE Ok(Cast(ty, from_le_bytes(mem, addr, Bytes(ty))))

\* Faulty variants: the part of the value that fits is written before the
\* fault is reported; one byte too many is written.
store_to_partial(mem, addr, v) ==
  [err |-> IF OutOfBounds(mem, addr, Bytes(v.ty)) THEN "OutOfBounds" ELSE "none",
   mem |-> [j \in 1 .. Len(mem) |->
              IF addr < j /\ j <= addr + Bytes(v.ty)
              THEN to_le_bytes(Bits(v), j - 1 - addr, Bytes(v.ty)) ELSE mem[j]]]

store_to_wide(mem, addr, v) ==
  IF OutOfBounds(mem, addr, Bytes(v.ty)) THEN [err |-> "OutOfBounds", mem |-> mem]
  ELSE [err |-> "none",
        mem |-> [j \in 1 .. Len(mem) |->
                   IF addr < j /\ j <= addr + Bytes(v.ty)
                   THEN to_le_bytes(Bits(v), j - 1 - addr, Bytes(v.ty))
                   ELSE IF j = addr + Bytes(v.ty) + 1 THEN 0 ELSE mem[j]]]

store_to(mem, addr, v) ==
  IF OutOfBounds(mem, addr, Bytes(v.ty)) THEN [err |-> "OutOfBounds", mem |-> mem]
  ELSE [err |-> "none",
        mem |-> [j \in 1 .. Len(mem) |->
                   IF addr < j /\ j <= addr + Bytes(v.ty)
                   THEN to_le_bytes(Bits(v), j - 1 - addr, Bytes(v.ty))
                   ELSE mem[j]]]

\* base.wrapping_add(off as u64) as usize
Address(base, off) == ((as_u64(base) + off) % B8) % UsizeMod
=============================================================================
