----------------------------- MODULE ArithProofs -----------------------------
(***************************************************************************)
(* Proofs that the helpers of sim.rs compute what their reference           *)
(* definitions say, for the real width of a byte and every pair of operands *)
(* of every type: the runs of SimArith try one width of one bit.            *)
(***************************************************************************)
EXTENDS SimArith, ValueProofs

(***************************************************************************)
(* The operand                                                              *)
(***************************************************************************)
LEMMA SmallestIsValue ==
  ASSUME NEW ty \in Types
  PROVE  Smallest(ty) \in SimValue /\ Smallest(ty).ty = ty
<1>1. Modulus(ty) \in Nat \ {0} /\ Half(ty) \in Nat /\ Modulus(ty) = 2 * Half(ty)
  BY ModulusEven
<1>2. Half(ty) >= 1
  BY <1>1
<1> QED
  BY <1>1, <1>2 DEF Smallest, SimValue, Payload

Operand == a \in SimValue

LEMMA OperandIsValue == Spec => []Operand
<1>1. Init => Operand
  BY SmallestIsValue DEF Init, Operand
<1>2. Operand /\ [Successor]_a => Operand'
  <2>1. CASE Successor
    <3> SUFFICES ASSUME Operand
                 PROVE  Operand'
      OBVIOUS
    <3>1. a.ty \in Types /\ a.n \in Int
      BY ValueFields DEF Operand
    <3> QED
      BY <2>1, <3>1, CastType DEF Successor, Operand
  <2>2. CASE UNCHANGED a
    BY <2>2 DEF Operand
  <2> QED
    BY <2>1, <2>2
<1> QED
  BY <1>1, <1>2, PTL DEF Spec

LEMMA PeersAreValues ==
  ASSUME a \in SimValue, NEW b \in Peers
  PROVE  b \in SimValue /\ b.ty = a.ty
<1>1. a.ty \in Types
  BY ValueFields
<1>2. PICK n \in Payload(a.ty) : b = [ty |-> a.ty, n |-> n]
  BY DEF Peers
<1>3. n \in Int
  BY <1>2, ModulusEven DEF Payload
<1> QED
  BY <1>1, <1>2, <1>3 DEF SimValue

\* Two values of one type are the same when their numbers are.
LEMMA SameNumber ==
  ASSUME NEW v \in SimValue, NEW w \in SimValue, v.ty = w.ty
  PROVE  (v = w) <=> (v.n = w.n)
BY DEF SimValue

(***************************************************************************)
(* Comparison of integers: sign-extending both operands of one type keeps   *)
(* the order of their numbers and the order of their patterns.              *)
(***************************************************************************)
LEMMA UnsignedOrder ==
  ASSUME NEW v \in SimValue, NEW w \in SimValue, v.ty = w.ty, v.ty \in IntTypes
  PROVE  /\ (as_u64(v) < as_u64(w)) <=> (Bits(v) < Bits(w))
         /\ Bits(v) \in Int /\ as_u64(v) \in Int
<1> DEFINE m == Modulus(v.ty)
           h == Half(v.ty)
<1>1. m \in Nat \ {0} /\ h \in Nat /\ m = 2 * h /\ m <= B8 /\ B8 \in Nat
  BY ModulusEven, ModulusBound, Sizes
<1>2. /\ v.n \in -h .. h - 1
      /\ as_u64(v) = IF v.n < 0 THEN v.n + B8 ELSE v.n
      /\ Bits(v) = IF v.n < 0 THEN v.n + m ELSE v.n
  BY IntWidened
<1>3. /\ w.n \in -h .. h - 1
      /\ as_u64(w) = IF w.n < 0 THEN w.n + B8 ELSE w.n
      /\ Bits(w) = IF w.n < 0 THEN w.n + m ELSE w.n
  BY IntWidened
<1> HIDE DEF m, h
<1> QED
  BY <1>1, <1>2, <1>3

LEMMA Comparisons ==
  ASSUME NEW v \in SimValue, NEW w \in SimValue, v.ty = w.ty, v.ty \in IntTypes
  PROVE  /\ icmp("eq", v, w) = (v = w)    /\ icmp("ne", v, w) = (v # w)
         /\ icmp("slt", v, w) = (v.n < w.n) /\ icmp("sge", v, w) = ~icmp("slt", v, w)
         /\ icmp("sgt", v, w) = (v.n > w.n) /\ icmp("sle", v, w) = ~icmp("sgt", v, w)
         /\ icmp("ult", v, w) = (Bits(v) < Bits(w))
         /\ icmp("uge", v, w) = ~icmp("ult", v, w)
         /\ icmp("ugt", v, w) = (Bits(v) > Bits(w))
         /\ icmp("ule", v, w) = ~icmp("ugt", v, w)
<1>1. as_i64(v) = v.n /\ as_i64(w) = w.n /\ v.n \in Int /\ w.n \in Int
  BY IntWidened, ValueFields
<1>2. /\ (as_u64(v) < as_u64(w)) <=> (Bits(v) < Bits(w))
      /\ (as_u64(w) < as_u64(v)) <=> (Bits(w) < Bits(v))
      /\ Bits(v) \in Int /\ as_u64(v) \in Int /\ Bits(w) \in Int /\ as_u64(w) \in Int
  BY UnsignedOrder
<1>3. (v = w) <=> (v.n = w.n)
  BY SameNumber
<1>4. icmp("eq", v, w) = (v = w) /\ icmp("ne", v, w) = (v # w)
  BY <1>1, <1>3 DEF icmp
<1>5. icmp("slt", v, w) = (v.n < w.n) /\ icmp("sge", v, w) = ~icmp("slt", v, w)
  BY <1>1 DEF icmp
<1>6. icmp("sgt", v, w) = (v.n > w.n) /\ icmp("sle", v, w) = ~icmp("sgt", v, w)
  BY <1>1 DEF icmp
<1>7. icmp("ult", v, w) = (Bits(v) < Bits(w)) /\ icmp("uge", v, w) = ~icmp("ult", v, w)
  BY <1>2 DEF icmp
<1>8. icmp("ugt", v, w) = (Bits(v) > Bits(w)) /\ icmp("ule", v, w) = ~icmp("ugt", v, w)
  BY <1>2 DEF icmp
<1> QED
  BY <1>4, <1>5, <1>6, <1>7, <1>8

\* icmp compares what its condition names, for every pair of operands of one
\* type, although it looks at the sign-extended 64-bit forms of both.
THEOREM IntegersCompareExactly == Spec => []CompareExact
<1>1. Operand => CompareExact
  <2> SUFFICES ASSUME a \in SimValue
               PROVE  CompareExact
    BY DEF Operand
  <2> SUFFICES ASSUME IsInt, NEW b \in Peers
               PROVE  LET Is(cc) == icmp(cc, a, b)
                      IN  /\ Is("eq") = (a = b) /\ Is("ne") = (a # b)
                          /\ Is("slt") = (a.n < b.n) /\ Is("sge") = ~Is("slt")
                          /\ Is("sgt") = (a.n > b.n) /\ Is("sle") = ~Is("sgt")
                          /\ Is("ult") = (Bits(a) < Bits(b)) /\ Is("uge") = ~Is("ult")
                          /\ Is("ugt") = (Bits(a) > Bits(b)) /\ Is("ule") = ~Is("ugt")
    BY DEF CompareExact
  <2>1. b \in SimValue /\ b.ty = a.ty /\ a.ty \in IntTypes
    BY PeersAreValues DEF IsInt
  <2> QED
    BY <2>1, Comparisons
<1> QED
  BY <1>1, OperandIsValue, PTL

(***************************************************************************)
(* The quotient that rounds towards zero and the remainder that goes with   *)
(* it.                                                                      *)
(***************************************************************************)
LEMMA QuotientMagnitude ==
  ASSUME NEW x \in Int, NEW y \in Int, y # 0
  PROVE  \E d \in Nat, e \in Nat :
            /\ Abs(x) = Abs(y) * d + e /\ e < Abs(y)
            /\ Quotient(x, y) = (IF (x < 0) = (y < 0) THEN d ELSE -d)
            /\ x - y * Quotient(x, y) = (IF x < 0 THEN -e ELSE e)
<1> DEFINE X == Abs(x)
           Y == Abs(y)
           d == X \div Y
           e == X % Y
<1>1. X \in Nat /\ Y \in Nat \ {0}
  BY DEF Abs
<1>2. X = IF x < 0 THEN -x ELSE x
  BY DEF Abs
<1>3. Y = IF y < 0 THEN -y ELSE y
  BY DEF Abs
<1>4. Quotient(x, y) = IF (x < 0) = (y < 0) THEN d ELSE -d
  BY DEF Quotient
<1> HIDE DEF X, Y
<1>5. d \in Nat /\ e \in Nat /\ X = Y * d + e /\ e < Y
  <2>1. X \in Int
    BY <1>1
  <2>2. d \in Int /\ e \in 0 .. Y - 1 /\ X = Y * d + e
    BY <1>1, <2>1, DivMod
  <2>3. d \in Nat
    BY <1>1
  <2> QED
    BY <1>1, <2>2, <2>3
<1> HIDE DEF d, e
<1>6. PICK z \in Int : z = Y * d
  <2>1. Y * d \in Int
    BY <1>1, <1>5
  <2> QED
    BY <2>1
<1>7. y * Quotient(x, y) = IF x < 0 THEN -z ELSE z
  <2>1. CASE y < 0 /\ x < 0
    <3>1. Quotient(x, y) = d /\ y = -Y
      BY <1>1, <1>3, <1>4, <2>1
    <3>2. y * Quotient(x, y) = -(Y * d)
      BY <1>1, <1>5, <3>1
    <3> QED
      BY <1>6, <2>1, <3>2
  <2>2. CASE y < 0 /\ ~(x < 0)
    <3>1. Quotient(x, y) = -d /\ y = -Y
      BY <1>1, <1>3, <1>4, <2>2
    <3>2. y * Quotient(x, y) = Y * d
      BY <1>1, <1>5, <3>1
    <3> QED
      BY <1>6, <2>2, <3>2
  <2>3. CASE ~(y < 0) /\ x < 0
    <3>1. Quotient(x, y) = -d /\ y = Y
      BY <1>1, <1>3, <1>4, <2>3
    <3>2. y * Quotient(x, y) = -(Y * d)
      BY <1>1, <1>5, <3>1
    <3> QED
      BY <1>6, <2>3, <3>2
  <2>4. CASE ~(y < 0) /\ ~(x < 0)
    <3>1. Quotient(x, y) = d /\ y = Y
      BY <1>1, <1>3, <1>4, <2>4
    <3> QED
      BY <1>6, <2>4, <3>1
  <2> QED
    BY <2>1, <2>2, <2>3, <2>4
<1>8. x - y * Quotient(x, y) = IF x < 0 THEN -e ELSE e
  BY <1>2, <1>5, <1>6, <1>7
<1> QED
  BY <1>4, <1>5, <1>8 DEF X, Y

\* On the range -h .. h - 1 of a type only -h / -1 has no quotient.
LEMMA QuotientRange ==
  ASSUME NEW h \in Nat \ {0}, NEW x \in -h .. h - 1, NEW y \in -h .. h - 1,
         y # 0, ~(x = -h /\ y = -1)
  PROVE  LET q == Quotient(x, y)
             r == x - y * q
         IN  /\ q \in -h .. h - 1 /\ r \in -h .. h - 1
             /\ q * y + r = x
             /\ Abs(r) < Abs(y)
             /\ r = 0 \/ (r < 0) = (x < 0)
<1> DEFINE q == Quotient(x, y)
           r == x - y * q
<1>1. x \in Int /\ y \in Int /\ -h <= x /\ x <= h - 1 /\ -h <= y /\ y <= h - 1
  OBVIOUS
<1>2. PICK d \in Nat, e \in Nat :
            /\ Abs(x) = Abs(y) * d + e /\ e < Abs(y)
            /\ q = (IF (x < 0) = (y < 0) THEN d ELSE -d)
            /\ r = (IF x < 0 THEN -e ELSE e)
  BY <1>1, QuotientMagnitude
<1>3. PICK X \in Nat : X = Abs(x)
  BY <1>1 DEF Abs
<1>4. PICK Y \in Nat \ {0} : Y = Abs(y)
  BY <1>1 DEF Abs
<1>5. /\ X = IF x < 0 THEN -x ELSE x
      /\ Y = IF y < 0 THEN -y ELSE y
  BY <1>3, <1>4 DEF Abs
<1>6. q \in Int /\ r \in Int /\ r = x - y * q /\ y * q \in Int
  BY <1>1, <1>2
<1>7. X = Y * d + e /\ e < Y /\ X <= h /\ Y <= h
  BY <1>1, <1>2, <1>3, <1>4, <1>5
<1>8. q * y + r = x
  BY <1>1, <1>6
<1> HIDE DEF q, r
<1>9. d <= Y * d /\ Y * d \in Nat
  <2>1. d * 1 <= d * Y
    BY <1>1
  <2> QED
    BY <2>1
<1>10. d <= h
  BY <1>7, <1>9
<1>11. ~(d = h /\ (x < 0) = (y < 0))
  <2> SUFFICES ASSUME d = h, (x < 0) = (y < 0)
               PROVE  FALSE
    OBVIOUS
  <2>1. X = h /\ Y * h <= h
    BY <1>7, <1>9
  <2>2. x = -h
    BY <1>1, <1>5, <2>1
  <2>3. y < 0
    BY <2>2
  <2>4. Y # 1
    BY <1>1, <1>5, <2>2, <2>3
  <2>5. h * 2 <= h * Y
    BY <2>4, ProductMonotone
  <2> QED
    BY <2>1, <2>5
<1>12. q \in -h .. h - 1
  BY <1>2, <1>10, <1>11
<1>13. r \in -h .. h - 1 /\ (r = 0 \/ (r < 0) = (x < 0))
  BY <1>1, <1>2, <1>7
<1>14. Abs(r) < Abs(y)
  BY <1>2, <1>4, <1>7 DEF Abs
<1> QED
  BY <1>8, <1>12, <1>13, <1>14 DEF q, r

(***************************************************************************)
(* Integer arithmetic                                                       *)
(***************************************************************************)
LEMMA IntegerResult ==
  ASSUME NEW v \in SimValue, NEW w \in SimValue, v.ty = w.ty, v.ty \in IntTypes,
         NEW op \in IntOps
  PROVE  LET r == apply_binary(op, v, w).val
         IN  /\ r = Cast(v.ty, IntResult(op, v.n, w.n, v.ty))
             /\ r \in SimValue /\ r.ty = v.ty
             /\ Bits(r) = IntResult(op, v.n, w.n, v.ty) % Modulus(v.ty)
<1>1. v.ty \in Types /\ v.n \in Int /\ w.n \in Int
  BY ValueFields
<1>2. IntResult(op, v.n, w.n, v.ty) \in Int
  BY <1>1, IntResultType
<1>3. apply_binary(op, v, w).val = Cast(v.ty, IntResult(op, v.n, w.n, v.ty))
  BY DEF apply_binary, apply_int, Ok
<1> QED
  BY <1>1, <1>2, <1>3, CastType, CastBits

LEMMA WordSums ==
  ASSUME NEW v \in SimValue, NEW w \in SimValue, v.ty = w.ty, v.ty \in IntTypes
  PROVE  LET m == Modulus(v.ty)
         IN  /\ Bits(apply_binary("iadd", v, w).val) = (Bits(v) + Bits(w)) % m
             /\ (Bits(apply_binary("isub", v, w).val) + Bits(w)) % m = Bits(v)
             /\ Bits(apply_binary("imul", v, w).val) = (Bits(v) * Bits(w)) % m
<1> DEFINE m == Modulus(v.ty)
<1>1. v.n \in Int /\ w.n \in Int /\ m \in Nat \ {0}
  BY ValueFields, ModulusEven
<1>2. Bits(v) = v.n % m /\ Bits(w) = w.n % m
  BY DEF Bits
<1>3. {"iadd", "isub", "imul"} \subseteq IntOps
  BY DEF IntOps
<1>4. /\ IntResult("iadd", v.n, w.n, v.ty) = v.n + w.n
      /\ IntResult("isub", v.n, w.n, v.ty) = v.n - w.n
      /\ IntResult("imul", v.n, w.n, v.ty) = v.n * w.n
  BY DEF IntResult
<1>5. /\ Bits(apply_binary("iadd", v, w).val) = (v.n + w.n) % m
      /\ Bits(apply_binary("isub", v, w).val) = (v.n - w.n) % m
      /\ Bits(apply_binary("imul", v, w).val) = (v.n * w.n) % m
  BY <1>3, <1>4, IntegerResult
<1> HIDE DEF m
<1>6. (v.n + w.n) % m = ((v.n % m) + (w.n % m)) % m
  BY <1>1, ModAdd
<1>7. (v.n * w.n) % m = ((v.n % m) * (w.n % m)) % m
  BY <1>1, ModMultiply
<1>8. (((v.n - w.n) % m) + (w.n % m)) % m = v.n % m
  <2>1. PICK d \in Int : d = v.n - w.n
    BY <1>1
  <2>2. d + w.n = v.n
    BY <1>1, <2>1
  <2>3. (d + w.n) % m = ((d % m) + (w.n % m)) % m
    BY <1>1, ModAdd
  <2> QED
    BY <2>1, <2>2, <2>3
<1> QED
  BY <1>2, <1>5, <1>6, <1>7, <1>8 DEF m

LEMMA UnsignedQuotient ==
  ASSUME NEW v \in SimValue, NEW w \in SimValue, v.ty = w.ty, v.ty \in IntTypes,
         Bits(w) # 0
  PROVE  LET uq == Bits(apply_binary("udiv", v, w).val)
             ur == Bits(apply_binary("urem", v, w).val)
         IN  uq * Bits(w) + ur = Bits(v) /\ ur < Bits(w)
<1> DEFINE m == Modulus(v.ty)
           x == Bits(v)
           y == Bits(w)
<1>1. m \in Nat \ {0} /\ x \in 0 .. m - 1 /\ y \in 0 .. m - 1 /\ y # 0
  BY ValueFields, ModulusEven
<1>2. Masked(v.n, v.ty) = x /\ Masked(w.n, v.ty) = y
  BY DEF Masked, Bits
<1>3. /\ IntResult("udiv", v.n, w.n, v.ty) = x \div y
      /\ IntResult("urem", v.n, w.n, v.ty) = x % y
  BY <1>1, <1>2 DEF IntResult
<1>4. {"udiv", "urem"} \subseteq IntOps
  BY DEF IntOps
<1>5. /\ Bits(apply_binary("udiv", v, w).val) = (x \div y) % m
      /\ Bits(apply_binary("urem", v, w).val) = (x % y) % m
  BY <1>3, <1>4, IntegerResult
<1> HIDE DEF m, x, y
<1>6. PICK q \in Int, r \in 0 .. y - 1 :
        x = y * q + r /\ x \div y = q /\ x % y = r
  <2>1. x \in Int /\ y \in Nat \ {0}
    BY <1>1
  <2> QED
    BY <2>1, DivMod
<1>7. q \in Nat
  <2>1. x \div y \in Nat
    BY <1>1
  <2> QED
    BY <1>6, <2>1
<1>8. q <= q * y /\ q * y = y * q
  <2>1. y \in Int /\ 1 <= y
    BY <1>1
  <2>2. CASE q = 0
    BY <2>1, <2>2
  <2>3. CASE q # 0
    <3>1. q * 1 <= q * y
      BY <1>7, <2>1, <2>3, ProductMonotone
    <3> QED
      BY <1>7, <2>1, <3>1
  <2> QED
    BY <2>2, <2>3
<1>9. q \in 0 .. m - 1 /\ r \in 0 .. m - 1
  <2>1. y * q \in Int
    BY <1>1
  <2> QED
    BY <1>1, <1>6, <1>7, <1>8, <2>1
<1>10. q % m = q /\ r % m = r
  BY <1>1, <1>9, ModOnce
<1> QED
  BY <1>1, <1>5, <1>6, <1>8, <1>10 DEF x, y

LEMMA SignedQuotient ==
  ASSUME NEW v \in SimValue, NEW w \in SimValue, v.ty = w.ty, v.ty \in IntTypes,
         w.n # 0, ~(v.n = -Half(v.ty) /\ w.n = -1)
  PROVE  LET q == apply_binary("sdiv", v, w).val.n
             r == apply_binary("srem", v, w).val.n
         IN  /\ q * w.n + r = v.n
             /\ Abs(r) < Abs(w.n)
             /\ r = 0 \/ (r < 0) = (v.n < 0)
<1> DEFINE h == Half(v.ty)
           x == v.n
           y == w.n
           q == Quotient(x, y)
           r == x - y * q
<1>1. h \in Nat \ {0} /\ Half("I64") \in Nat /\ h <= Half("I64")
  <2>1. /\ Modulus(v.ty) \in Nat \ {0} /\ h \in Nat /\ Modulus(v.ty) = 2 * h
        /\ Half("I64") \in Nat /\ Modulus("I64") = 2 * Half("I64")
    BY ModulusEven
  <2>2. Modulus(v.ty) <= Modulus("I64")
    BY ModulusBound DEF Modulus
  <2> HIDE DEF h
  <2> QED
    BY <2>1, <2>2
<1>2. x \in -h .. h - 1 /\ y \in -h .. h - 1
  BY IntWidened
<1>3. ~NoQuotient(x, y)
  BY <1>1, <1>2 DEF NoQuotient
<1>4. /\ IntResult("sdiv", v.n, w.n, v.ty) = q
      /\ IntResult("srem", v.n, w.n, v.ty) = r
  BY <1>3 DEF IntResult
<1>5. {"sdiv", "srem"} \subseteq IntOps
  BY DEF IntOps
<1>6. /\ apply_binary("sdiv", v, w).val = Cast(v.ty, q)
      /\ apply_binary("srem", v, w).val = Cast(v.ty, r)
  BY <1>4, <1>5, IntegerResult
<1>7. /\ q \in -h .. h - 1 /\ r \in -h .. h - 1
      /\ q * y + r = x
      /\ Abs(r) < Abs(y)
      /\ r = 0 \/ (r < 0) = (x < 0)
  BY <1>1, <1>2, QuotientRange
<1>8. q \in Payload(v.ty) /\ r \in Payload(v.ty) /\ v.ty \in Types
  BY <1>7, ValueFields DEF Payload
<1> HIDE DEF q, r
<1>9. Cast(v.ty, q).n = q /\ Cast(v.ty, r).n = r
  BY <1>8, CastKeeps
<1> QED
  BY <1>6, <1>7, <1>9

\* Only the 64-bit type has the smallest number of 64 bits.
LEMMA NarrowHalf ==
  ASSUME NEW ty \in IntTypes, ty # "I64"
  PROVE  Half(ty) < Half("I64")
<1>1. ASSUME NEW m \in Nat \ {0}, m # 1
      PROVE  m < m * m
  <2>1. m * 2 <= m * m
    BY <1>1, ProductMonotone
  <2> QED
    BY <1>1, <2>1
<1>2. ByteMod # 1 /\ B2 # 1 /\ B4 # 1
  BY Sizes
<1>3. ByteMod < B2 /\ B2 < B4 /\ B4 < B8
  BY <1>1, <1>2, Sizes DEF B2, B4, B8
<1>4. Modulus(ty) < Modulus("I64")
  BY <1>3, Sizes DEF Modulus, IntTypes
<1>5. /\ Half(ty) \in Nat /\ Modulus(ty) = 2 * Half(ty)
      /\ Half("I64") \in Nat /\ Modulus("I64") = 2 * Half("I64")
  BY ModulusEven
<1> QED
  BY <1>4, <1>5

\* checked_div and checked_rem answer None, and the code 0, for a zero divisor.
LEMMA ZeroDivisor ==
  ASSUME NEW v \in SimValue, NEW w \in SimValue, v.ty = w.ty, v.ty \in IntTypes,
         w.n = 0, NEW op \in {"sdiv", "srem", "udiv", "urem"}
  PROVE  LET r == apply_binary(op, v, w).val
         IN  r.n = 0 /\ Bits(r) = 0
<1>1. op \in IntOps /\ v.ty \in Types
  BY ValueFields DEF IntOps
<1>2. Modulus(v.ty) \in Nat \ {0} /\ Half(v.ty) \in Nat /\ Modulus(v.ty) = 2 * Half(v.ty)
  BY ModulusEven
<1>3. Masked(w.n, v.ty) = 0 /\ 0 % Modulus(v.ty) = 0
  BY <1>2, ModOnce DEF Masked
<1>4. NoQuotient(v.n, w.n)
  BY DEF NoQuotient
<1>5. IntResult(op, v.n, w.n, v.ty) = 0
  BY <1>3, <1>4 DEF IntResult
<1>6. 0 \in Payload(v.ty)
  BY <1>2 DEF Payload
<1>7. Cast(v.ty, 0).n = 0
  BY <1>1, <1>6, CastKeeps
<1> QED
  BY <1>1, <1>3, <1>5, <1>7, IntegerResult

\* The smallest number divided by -1: None at 64 bits, so zero; a narrower
\* type has the quotient in 64 bits, and the cast wraps it.
LEMMA SmallestByMinusOne ==
  ASSUME NEW v \in SimValue, NEW w \in SimValue, v.ty = w.ty, v.ty \in IntTypes,
         v.n = -Half(v.ty), w.n = -1
  PROVE  /\ apply_binary("srem", v, w).val.n = 0
         /\ apply_binary("sdiv", v, w).val.n = (IF v.ty = "I64" THEN 0 ELSE v.n)
<1> DEFINE h == Half(v.ty)
<1>1. /\ h \in Nat \ {0} /\ Modulus(v.ty) = 2 * h /\ Modulus(v.ty) \in Nat \ {0}
      /\ v.ty \in Types /\ {"sdiv", "srem"} \subseteq IntOps
  BY ModulusEven, ValueFields DEF IntOps
<1>2. 0 \in Payload(v.ty)
  BY <1>1 DEF Payload
<1>3. Cast(v.ty, 0).n = 0
  BY <1>1, <1>2, CastKeeps
<1>6. /\ apply_binary("sdiv", v, w).val = Cast(v.ty, IntResult("sdiv", v.n, w.n, v.ty))
      /\ apply_binary("srem", v, w).val = Cast(v.ty, IntResult("srem", v.n, w.n, v.ty))
  BY <1>1, IntegerResult
<1>4. CASE v.ty = "I64"
  <2>1. NoQuotient(v.n, w.n)
    BY <1>4 DEF NoQuotient
  <2>2. IntResult("sdiv", v.n, w.n, v.ty) = 0 /\ IntResult("srem", v.n, w.n, v.ty) = 0
    BY <2>1 DEF IntResult
  <2> QED
    BY <1>3, <1>4, <1>6, <2>2
<1>5. CASE v.ty # "I64"
  <2>1. ~NoQuotient(v.n, w.n)
    <3>1. h < Half("I64") /\ Half("I64") \in Nat
      BY <1>5, NarrowHalf, ModulusEven
    <3> QED
      BY <1>1, <3>1 DEF NoQuotient
  <2>2. Quotient(v.n, w.n) = h
    <3>1. v.n < 0 /\ w.n < 0 /\ Abs(v.n) = h /\ Abs(w.n) = 1
      <4>1. \A n \in Nat \ {0} : -n < 0 /\ -(-n) = n
        OBVIOUS
      <4>2. v.n < 0 /\ -v.n = h
        BY <1>1, <4>1
      <4>3. PICK z \in Int : z = -1
        OBVIOUS
      <4>4. w.n = z
        BY <4>3
      <4>5. z < 0
        BY <4>3
      <4>6. -z = 1
        <5>1. z + 1 = 0
          BY <4>3
        <5> QED
          BY <5>1
      <4> QED
        BY <4>2, <4>4, <4>5, <4>6 DEF Abs
    <3>2. h \div 1 = h
      BY <1>1
    <3> QED
      BY <3>1, <3>2 DEF Quotient
  <2>3. v.n - w.n * Quotient(v.n, w.n) = 0
    BY <1>1, <2>2
  <2>4. IntResult("sdiv", v.n, w.n, v.ty) = h /\ IntResult("srem", v.n, w.n, v.ty) = 0
    BY <2>1, <2>2, <2>3 DEF IntResult
  <2>5. Cast(v.ty, h).n = -h
    <3>1. h \in 0 .. Modulus(v.ty) - 1
      BY <1>1
    <3>2. h % Modulus(v.ty) = h
      BY <1>1, <3>1, ModOnce
    <3>3. Cast(v.ty, h).n = h - Modulus(v.ty)
      BY <1>1, <3>2 DEF Cast
    <3> QED
      BY <1>1, <3>3
  <2> QED
    BY <1>3, <1>5, <1>6, <2>4, <2>5
<1> QED
  BY <1>4, <1>5

\* Addition, subtraction and multiplication are those of N-bit words, a
\* quotient belongs to its remainder, and a division without one has the value
\* the code chooses, for all operands of the four integer types, although the
\* code computes every one of them in 64 bits.
THEOREM IntegersComputeExactly == Spec => []ArithmeticExact
<1>1. Operand => ArithmeticExact
  <2> SUFFICES ASSUME a \in SimValue
               PROVE  ArithmeticExact
    BY DEF Operand
  <2> SUFFICES ASSUME IsInt, NEW b \in Peers
               PROVE  LET m == Modulus(a.ty)
                          au == Bits(a)  bu == Bits(b)
                          q == Res("sdiv", b).n  r == Res("srem", b).n
                          uq == Bits(Res("udiv", b))  ur == Bits(Res("urem", b))
                      IN  /\ \A op \in IntOps :
                               Res(op, b) \in SimValue /\ Res(op, b).ty = a.ty
                          /\ Bits(Res("iadd", b)) = (au + bu) % m
                          /\ (Bits(Res("isub", b)) + bu) % m = au
                          /\ Bits(Res("imul", b)) = (au * bu) % m
                          /\ bu # 0 => uq * bu + ur = au /\ ur < bu
                          /\ b.n = 0 => uq = 0 /\ ur = 0 /\ q = 0 /\ r = 0
                          /\ (a.n = -Half(a.ty) /\ b.n = -1) =>
                               r = 0 /\ q = (IF a.ty = "I64" THEN 0 ELSE a.n)
                          /\ (b.n # 0 /\ ~(a.n = -Half(a.ty) /\ b.n = -1)) =>
                               /\ q * b.n + r = a.n
                               /\ Abs(r) < Abs(b.n)
                               /\ r = 0 \/ (r < 0) = (a.n < 0)
    BY DEF ArithmeticExact
  <2>1. b \in SimValue /\ b.ty = a.ty /\ a.ty \in IntTypes
    BY PeersAreValues DEF IsInt
  <2>2. \A op \in IntOps : Res(op, b) \in SimValue /\ Res(op, b).ty = a.ty
    BY <2>1, IntegerResult DEF Res
  <2>3. /\ Bits(Res("iadd", b)) = (Bits(a) + Bits(b)) % Modulus(a.ty)
        /\ (Bits(Res("isub", b)) + Bits(b)) % Modulus(a.ty) = Bits(a)
        /\ Bits(Res("imul", b)) = (Bits(a) * Bits(b)) % Modulus(a.ty)
    BY <2>1, WordSums DEF Res
  <2>4. Bits(b) # 0 =>
          /\ Bits(Res("udiv", b)) * Bits(b) + Bits(Res("urem", b)) = Bits(a)
          /\ Bits(Res("urem", b)) < Bits(b)
    BY <2>1, UnsignedQuotient DEF Res
  <2>5. (b.n # 0 /\ ~(a.n = -Half(a.ty) /\ b.n = -1)) =>
          LET q == Res("sdiv", b).n
              r == Res("srem", b).n
          IN  /\ q * b.n + r = a.n
              /\ Abs(r) < Abs(b.n)
              /\ r = 0 \/ (r < 0) = (a.n < 0)
    BY <2>1, SignedQuotient DEF Res
  <2>6. b.n = 0 => /\ Bits(Res("udiv", b)) = 0 /\ Bits(Res("urem", b)) = 0
                   /\ Res("sdiv", b).n = 0 /\ Res("srem", b).n = 0
    BY <2>1, ZeroDivisor DEF Res
  <2>7. (a.n = -Half(a.ty) /\ b.n = -1) =>
          /\ Res("srem", b).n = 0
          /\ Res("sdiv", b).n = (IF a.ty = "I64" THEN 0 ELSE a.n)
    BY <2>1, SmallestByMinusOne DEF Res
  <2> QED
    BY <2>2, <2>3, <2>4, <2>5, <2>6, <2>7
<1> QED
  BY <1>1, OperandIsValue, PTL

(***************************************************************************)
(* Conversions                                                              *)
(***************************************************************************)
LEMMA Extensions ==
  ASSUME NEW v \in SimValue, v.ty \in IntTypes,
         NEW ty \in IntTypes, Bytes(ty) >= Bytes(v.ty)
  PROVE  LET u == apply_unary("uextend", v, ty).val
             s == apply_unary("sextend", v, ty).val
         IN  /\ Bits(u) = Bits(v) /\ s.n = v.n
             /\ apply_unary("ireduce", u, v.ty).val = v
             /\ apply_unary("ireduce", s, v.ty).val = v
<1> DEFINE m == Modulus(v.ty)
           M == Modulus(ty)
           u == Cast(ty, Bits(v))
           s == Cast(ty, as_i64(v))
<1>1. /\ v.ty \in Types /\ ty \in Types /\ v.n \in Int
      /\ Bits(v) \in 0 .. m - 1 /\ Bits(v) \in Int
  BY ValueFields, ModulusEven DEF Types
<1>2. m \in Nat \ {0} /\ M \in Nat \ {0} /\ m <= M /\ Half(v.ty) <= Half(ty)
  <2>1. Bytes(v.ty) <= Bytes(ty) /\ v.ty \in Types /\ ty \in Types
    BY <1>1, BytesType
  <2>2. PICK k \in Nat \ {0} : M = m * k
    BY <2>1, ModulusDivides DEF Divides
  <2>3. m \in Nat \ {0} /\ M \in Nat \ {0} /\ m = 2 * Half(v.ty) /\ M = 2 * Half(ty)
        /\ Half(v.ty) \in Nat /\ Half(ty) \in Nat
    BY ModulusEven
  <2>4. m * 1 <= m * k
    BY <2>3, ProductMonotone
  <2> HIDE DEF m, M
  <2> QED
    BY <2>2, <2>3, <2>4
<1>3. /\ apply_unary("uextend", v, ty).val = u
      /\ apply_unary("sextend", v, ty).val = s
  BY DEF apply_unary, uextend, Convert, Ok
<1>4. u \in SimValue /\ u.ty = ty /\ s \in SimValue /\ s.ty = ty
  BY <1>1, CastType, ValueFields
<1>5. Bits(u) = Bits(v)
  <2>1. Bits(u) = Bits(v) % M
    BY <1>1, CastBits
  <2>2. Bits(v) \in 0 .. M - 1
    BY <1>1, <1>2
  <2> HIDE DEF M, u
  <2> QED
    BY <1>2, <2>1, <2>2, ModOnce
<1>6. s.n = v.n
  <2>1. as_i64(v) = v.n /\ v.n \in -Half(v.ty) .. Half(v.ty) - 1
    BY IntWidened
  <2>2. v.n \in Payload(ty)
    BY <1>1, <1>2, <2>1, ModulusEven DEF Payload
  <2> QED
    BY <1>1, <2>1, <2>2, CastKeeps
<1> HIDE DEF u, s
<1>7. as_i64(u) = u.n /\ as_i64(s) = s.n /\ u.n \in Int
  BY <1>4, IntWidened, ValueFields
<1>8. /\ apply_unary("ireduce", u, v.ty).val = Cast(v.ty, u.n)
      /\ apply_unary("ireduce", s, v.ty).val = Cast(v.ty, s.n)
  BY <1>4, <1>7 DEF apply_unary, Convert, Ok
<1>9. u.n % m = v.n % m
  <2>1. Divides(m, M)
    BY <1>1, BytesType, ModulusDivides
  <2>2. (u.n % M) % m = u.n % m
    BY <1>2, <1>7, <2>1, DividesMod
  <2>3. u.n % M = Bits(v)
    BY <1>4, <1>5 DEF Bits
  <2>4. Bits(v) % m = Bits(v) /\ Bits(v) = v.n % m
    <3>1. Bits(v) = v.n % m
      BY DEF Bits
    <3> QED
      BY <1>1, <1>2, <3>1, ModOnce
  <2> QED
    BY <2>2, <2>3, <2>4
<1>10. Cast(v.ty, u.n) = v
  BY <1>7, <1>9, CastAgain
<1>11. Cast(v.ty, s.n) = v
  BY <1>6, CastOwn
<1> QED
  BY <1>3, <1>5, <1>6, <1>8, <1>10, <1>11

LEMMA Reductions ==
  ASSUME NEW v \in SimValue, v.ty \in IntTypes,
         NEW ty \in IntTypes, Bytes(ty) <= Bytes(v.ty)
  PROVE  Bits(apply_unary("ireduce", v, ty).val) = Bits(v) % Modulus(ty)
<1>1. v.ty \in Types /\ ty \in Types /\ v.n \in Int /\ as_i64(v) = v.n
  BY ValueFields, IntWidened DEF Types
<1>2. apply_unary("ireduce", v, ty).val = Cast(ty, v.n)
  BY <1>1 DEF apply_unary, Convert, Ok
<1>3. Divides(Modulus(ty), Modulus(v.ty)) /\ Modulus(ty) \in Nat \ {0}
  BY <1>1, ModulusDivides, ModulusEven
<1>4. (v.n % Modulus(v.ty)) % Modulus(ty) = v.n % Modulus(ty)
  BY <1>1, <1>3, DividesMod
<1> QED
  BY <1>1, <1>2, <1>4, CastBits DEF Bits

LEMMA Negations ==
  ASSUME NEW v \in SimValue, v.ty \in IntTypes
  PROVE  LET m == Modulus(v.ty)
         IN  /\ (Bits(apply_unary("ineg", v, v.ty).val) + Bits(v)) % m = 0
             /\ Bits(apply_unary("bnot", v, v.ty).val) + Bits(v) = m - 1
<1> DEFINE m == Modulus(v.ty)
<1>1. v.ty \in Types /\ v.n \in Int /\ m \in Nat \ {0}
  BY ValueFields, ModulusEven
<1>2. PICK x \in Int : x = v.n
  BY <1>1
<1>3. PICK y \in Int : y = -x
  OBVIOUS
<1>4. PICK z \in Int : z = -x - 1
  OBVIOUS
<1>5. /\ Bits(apply_unary("ineg", v, v.ty).val) = y % m
      /\ Bits(apply_unary("bnot", v, v.ty).val) = z % m
      /\ Bits(v) = x % m
  <2>1. apply_unary("ineg", v, v.ty).val = Cast(v.ty, y)
    BY <1>2, <1>3 DEF apply_unary, SameType, Ok
  <2>2. apply_unary("bnot", v, v.ty).val = Cast(v.ty, z)
    BY <1>2, <1>4 DEF apply_unary, SameType, Ok
  <2>3. Bits(v) = x % m
    BY <1>2 DEF Bits
  <2> QED
    BY <1>1, <2>1, <2>2, <2>3, CastBits
<1> HIDE DEF m
<1>6. ((y % m) + (x % m)) % m = 0
  <2>1. y + x = 0 /\ 0 \in 0 .. m - 1
    BY <1>1, <1>3
  <2>2. (y + x) % m = ((y % m) + (x % m)) % m
    BY <1>1, ModAdd
  <2>3. 0 % m = 0
    BY <1>1, <2>1, ModOnce
  <2> QED
    BY <2>1, <2>2, <2>3
<1>7. (z % m) + (x % m) = m - 1
  <2>1. PICK q \in Int, u \in 0 .. m - 1 : x = m * q + u /\ x % m = u
    BY <1>1, DivMod
  <2>2. PICK p \in Int : p = -q - 1
    OBVIOUS
  <2>3. PICK r \in 0 .. m - 1 : r = m - 1 - u
    <3>1. m - 1 - u \in 0 .. m - 1
      BY <1>1
    <3> QED
      BY <3>1
  <2>4. z = m * p + r
    <3>1. m * p = -(m * q) - m
      BY <1>1, <2>2
    <3>2. m * q \in Int
      BY <1>1
    <3> QED
      BY <1>1, <1>4, <2>1, <2>3, <3>1, <3>2
  <2>5. z % m = r
    BY <1>1, <2>4, Residue
  <2> QED
    BY <1>1, <2>1, <2>3, <2>5
<1> QED
  BY <1>5, <1>6, <1>7 DEF m

\* Negating a float changes the upper half of the patterns with the lower.
LEMMA FloatNegated ==
  ASSUME NEW v \in SimValue, v.ty \in FloatTypes
  PROVE  LET h == Half(v.ty)
             r == apply_unary("fneg", v, v.ty).val
         IN  /\ r \in SimValue /\ r.ty = v.ty /\ v.n \in 0 .. 2 * h - 1
             /\ r.n = IF v.n < h THEN v.n + h ELSE v.n - h
             /\ h \in Nat \ {0}
<1> DEFINE h == Half(v.ty)
           m == Modulus(v.ty)
           r == apply_unary("fneg", v, v.ty).val
<1>1. m \in Nat \ {0} /\ h \in Nat /\ m = 2 * h /\ v.ty \in Types \ IntTypes
  BY ModulusEven DEF Types, IntTypes, FloatTypes
<1>2. v.n \in 0 .. m - 1
  BY <1>1, ValueFields DEF Payload
<1>3. r = Cast(v.ty, v.n + h)
  BY DEF apply_unary, SameType, Ok
<1>4. r.n = (v.n + h) % m
  BY <1>1, <1>3 DEF Cast
<1>5. r \in SimValue /\ r.ty = v.ty
  BY <1>1, <1>2, <1>3, CastType
<1> HIDE DEF h, m, r
<1>6. CASE v.n < h
  <2>1. v.n + h \in 0 .. m - 1
    BY <1>1, <1>2, <1>6
  <2>2. (v.n + h) % m = v.n + h
    BY <1>1, <2>1, ModOnce
  <2> QED
    BY <1>1, <1>2, <1>4, <1>5, <1>6, <2>2 DEF h, r
<1>7. CASE ~(v.n < h)
  <2>1. PICK x \in Int, y \in 0 .. m - 1 : x = v.n + h /\ y = v.n - h
    <3>1. v.n + h \in Int /\ v.n - h \in 0 .. m - 1
      BY <1>1, <1>2, <1>7
    <3> QED
      BY <3>1
  <2>2. x = m * 1 + y
    BY <1>1, <1>2, <2>1
  <2>3. x % m = y
    BY <1>1, <2>2, Residue
  <2> QED
    BY <1>1, <1>2, <1>4, <1>5, <1>7, <2>1, <2>3 DEF h, r
<1> QED
  BY <1>6, <1>7

LEMMA FloatNegations ==
  ASSUME NEW v \in SimValue, v.ty \in FloatTypes
  PROVE  LET r == apply_unary("fneg", v, v.ty).val
         IN  /\ apply_unary("fneg", r, v.ty).val = v
             /\ r.n % Half(v.ty) = v.n % Half(v.ty)
             /\ r # v
<1> DEFINE h == Half(v.ty)
           r == apply_unary("fneg", v, v.ty).val
           w == apply_unary("fneg", r, r.ty).val
<1>1. /\ r \in SimValue /\ r.ty = v.ty /\ v.n \in 0 .. 2 * h - 1
      /\ r.n = IF v.n < h THEN v.n + h ELSE v.n - h
      /\ h \in Nat \ {0}
  BY FloatNegated
<1> HIDE DEF r
<1>2. /\ w \in SimValue /\ w.ty = r.ty
      /\ w.n = IF r.n < h THEN r.n + h ELSE r.n - h
  BY <1>1, FloatNegated
<1>3. w.n = v.n
  BY <1>1, <1>2
<1>4. w = v
  BY <1>1, <1>2, <1>3, SameNumber
<1>5. r.n % h = v.n % h
  <2> HIDE DEF h
  <2>1. PICK x \in Int, y \in Int : x = r.n /\ y = v.n
    BY <1>1
  <2>2. PICK q \in Int, u \in 0 .. h - 1 : y = h * q + u /\ y % h = u
    BY <1>1, DivMod
  <2>3. CASE v.n < h
    <3>1. PICK p \in Int : p = q + 1
      OBVIOUS
    <3>2. h * p = h * q + h
      BY <1>1, <3>1
    <3>3. x = h * p + u
      <4>1. h * q \in Int
        BY <1>1
      <4> QED
        BY <1>1, <2>1, <2>2, <2>3, <3>2, <4>1
    <3>4. x % h = u
      BY <1>1, <3>3, Residue
    <3> QED
      BY <2>1, <2>2, <3>4
  <2>4. CASE ~(v.n < h)
    <3>1. PICK p \in Int : p = q - 1
      OBVIOUS
    <3>2. h * p = h * q - h
      BY <1>1, <3>1
    <3>3. x = h * p + u
      <4>1. h * q \in Int
        BY <1>1
      <4> QED
        BY <1>1, <2>1, <2>2, <2>4, <3>2, <4>1
    <3>4. x % h = u
      BY <1>1, <3>3, Residue
    <3> QED
      BY <2>1, <2>2, <3>4
  <2> QED
    BY <2>3, <2>4
<1>6. r # v
  BY <1>1
<1> QED
  BY <1>1, <1>4, <1>5, <1>6 DEF r

LEMMA Bitcasts ==
  ASSUME NEW v \in SimValue, NEW ty \in Types, Bytes(ty) = Bytes(v.ty)
  PROVE  apply_unary("bitcast", apply_unary("bitcast", v, ty).val, v.ty).val = v
<1> DEFINE m == Modulus(v.ty)
           u == Cast(ty, as_u64(v))
<1>1. v.ty \in Types /\ v.n \in Int /\ as_u64(v) \in Int /\ m \in Nat \ {0}
  BY ValueFields, ModulusEven, Sizes DEF U64
<1>2. Divides(m, Modulus(ty)) /\ Divides(m, B8)
  BY <1>1, BytesType, ModulusDivides
<1>3. Modulus(ty) = m
  BY <1>1 DEF Modulus, Bytes, Types, IntTypes, FloatTypes
<1>4. apply_unary("bitcast", v, ty).val = u
  BY DEF apply_unary, Convert, Ok
<1>5. u \in SimValue /\ u.ty = ty
  BY <1>1, CastType
<1>6. u.n \in Int /\ as_u64(u) \in Int
  BY <1>5, ValueFields, Sizes DEF U64
<1>7. apply_unary("bitcast", u, v.ty).val = Cast(v.ty, as_u64(u))
  BY <1>1 DEF apply_unary, Convert, Ok
<1>8. u.n % m = as_u64(v) % m
  BY <1>1, <1>3, <1>5, CastBits DEF Bits
<1> HIDE DEF u
<1>9. as_u64(u) % m = u.n % m /\ as_u64(v) % m = v.n % m
  BY <1>1, <1>2, <1>6, DividesMod DEF as_u64
<1>10. as_u64(u) % m = v.n % m
  BY <1>8, <1>9
<1>11. Cast(v.ty, as_u64(u)) = v
  BY <1>6, <1>10, CastAgain
<1> QED
  BY <1>4, <1>7, <1>11

\* Extensions, reductions, negations and bitcasts keep exactly what their
\* names say, for every value and every pair of types.
THEOREM ConversionsExact == Spec => []ConvertExact
<1>1. Operand => ConvertExact
  <2> SUFFICES ASSUME a \in SimValue
               PROVE  ConvertExact
    BY DEF Operand
  <2> DEFINE To(op, ty) == apply_unary(op, a, ty).val
             Back(op, v) == apply_unary(op, v, a.ty).val
  <2>1. ASSUME IsInt
        PROVE  /\ \A ty \in { t \in IntTypes : Bytes(t) >= Bytes(a.ty) } :
                    /\ Bits(To("uextend", ty)) = Bits(a)
                    /\ To("sextend", ty).n = a.n
                    /\ Back("ireduce", To("uextend", ty)) = a
                    /\ Back("ireduce", To("sextend", ty)) = a
               /\ \A ty \in { t \in IntTypes : Bytes(t) <= Bytes(a.ty) } :
                    Bits(To("ireduce", ty)) = Bits(a) % Modulus(ty)
               /\ (Bits(To("ineg", a.ty)) + Bits(a)) % Modulus(a.ty) = 0
               /\ Bits(To("bnot", a.ty)) + Bits(a) = Modulus(a.ty) - 1
    <3>1. a.ty \in IntTypes
      BY <2>1 DEF IsInt
    <3>2. ASSUME NEW ty \in { t \in IntTypes : Bytes(t) >= Bytes(a.ty) }
          PROVE  /\ Bits(To("uextend", ty)) = Bits(a)
                 /\ To("sextend", ty).n = a.n
                 /\ Back("ireduce", To("uextend", ty)) = a
                 /\ Back("ireduce", To("sextend", ty)) = a
      BY <3>1, Extensions
    <3>3. ASSUME NEW ty \in { t \in IntTypes : Bytes(t) <= Bytes(a.ty) }
          PROVE  Bits(To("ireduce", ty)) = Bits(a) % Modulus(ty)
      BY <3>1, Reductions
    <3> QED
      BY <3>1, <3>2, <3>3, Negations
  <2>2. ASSUME IsFloat
        PROVE  /\ Back("fneg", To("fneg", a.ty)) = a
               /\ To("fneg", a.ty).n % Half(a.ty) = a.n % Half(a.ty)
               /\ To("fneg", a.ty) # a
    BY <2>2, FloatNegations DEF IsFloat
  <2>3. \A ty \in { t \in Types : Bytes(t) = Bytes(a.ty) } :
           Back("bitcast", To("bitcast", ty)) = a
    BY Bitcasts
  <2> QED
    BY <2>1, <2>2, <2>3 DEF ConvertExact
<1> QED
  BY <1>1, OperandIsValue, PTL

(***************************************************************************)
(* Comparison of floats                                                     *)
(***************************************************************************)
\* Two patterns that differ in the sign bit alone.
Opposite(x, y) ==
  \E k \in 0 .. Half("F64") - 1 : {x, y} = {k, k + Half("F64")}

LEMMA HalfPositive == Half("F64") \in Nat \ {0} /\ B8 = 2 * Half("F64")
<1>1. Modulus("F64") \in Nat \ {0} /\ Half("F64") \in Nat
      /\ Modulus("F64") = 2 * Half("F64")
  BY ModulusEven
<1> QED
  BY <1>1 DEF Modulus

LEMMA SignFlipped ==
  ASSUME NEW x, NEW y, Opposite(x, y)
  PROVE  (IsNaN(x) <=> IsNaN(y)) /\ FloatKey(x) = -FloatKey(y)
<1> DEFINE h == Half("F64")
<1>1. h \in Nat \ {0}
  BY HalfPositive
<1>2. PICK k \in 0 .. h - 1 : {x, y} = {k, k + h}
  BY DEF Opposite
<1>3. PICK l \in Int : l = k + h
  BY <1>1
<1>4. Magnitude(k) = k /\ Magnitude(l) = k
  <2>1. k % h = k
    BY <1>1, ModOnce
  <2>2. l = h * 1 + k
    BY <1>1, <1>3
  <2>3. l % h = k
    BY <1>1, <2>2, Residue
  <2> QED
    BY <2>1, <2>3 DEF Magnitude
<1>5. FloatKey(k) = k /\ FloatKey(l) = -k
  <2>1. k < h /\ ~(l < h)
    BY <1>1, <1>3
  <2> QED
    BY <1>4, <2>1 DEF FloatKey
<1>6. (x = k /\ y = l) \/ (x = l /\ y = k)
  BY <1>2, <1>3
<1>7. CASE x = k /\ y = l
  BY <1>1, <1>4, <1>5, <1>7 DEF IsNaN
<1>8. CASE x = l /\ y = k
  BY <1>1, <1>4, <1>5, <1>8 DEF IsNaN
<1> QED
  BY <1>6, <1>7, <1>8

LEMMA FloatOperand ==
  ASSUME NEW v \in SimValue, v.ty \in FloatTypes
  PROVE  to_f64(v) \in Int /\ FloatKey(to_f64(v)) \in Int
<1>1. v.n \in 0 .. Modulus(v.ty) - 1
  BY ValueFields DEF Payload, IntTypes, FloatTypes
<1>2. to_f64(v) \in U64
  BY <1>1, HostAssumption DEF to_f64, FloatTypes, Modulus, U64
<1>3. to_f64(v) \in Int
  BY <1>2, Sizes DEF U64
<1>4. Magnitude(to_f64(v)) \in Int
  BY <1>3, HalfPositive DEF Magnitude
<1> QED
  BY <1>3, <1>4 DEF FloatKey

\* fneg changes the order of the operand among numbers to the opposite one,
\* and whether it is a NaN not at all, in both float types.
LEMMA Negated ==
  ASSUME NEW v \in SimValue, v.ty \in FloatTypes
  PROVE  LET x == to_f64(v)
             y == to_f64(apply_unary("fneg", v, v.ty).val)
         IN  /\ IsNaN(x) <=> IsNaN(y)
             /\ ~IsNaN(x) => FloatKey(x) = -FloatKey(y)
<1> DEFINE r == apply_unary("fneg", v, v.ty).val
           H == Half(v.ty)
<1>1. /\ r.ty = v.ty /\ v.n \in 0 .. 2 * H - 1
      /\ r.n = IF v.n < H THEN v.n + H ELSE v.n - H
      /\ H \in Nat \ {0}
  BY FloatNegated
<1> HIDE DEF r
<1>2. PICK k \in 0 .. H - 1 : {v.n, r.n} = {k, k + H}
  <2>1. CASE v.n < H
    <3>1. v.n \in 0 .. H - 1 /\ r.n = v.n + H
      BY <1>1, <2>1
    <3> QED
      BY <3>1
  <2>2. CASE ~(v.n < H)
    <3>1. r.n \in 0 .. H - 1 /\ v.n = r.n + H
      BY <1>1, <2>2
    <3> QED
      BY <3>1
  <2> QED
    BY <2>1, <2>2
<1>3. CASE v.ty = "F64"
  <2>1. Opposite(v.n, r.n)
    BY <1>2, <1>3 DEF Opposite
  <2>2. to_f64(v) = v.n /\ to_f64(r) = r.n
    BY <1>1, <1>3 DEF to_f64
  <2> QED
    BY <2>1, <2>2, SignFlipped DEF r
<1>4. CASE v.ty = "F32"
  <2>1. to_f64(v) = Widen(v.n) /\ to_f64(r) = Widen(r.n)
    BY <1>1, <1>4 DEF to_f64
  <2>2. {to_f64(v), to_f64(r)} = {Widen(k), Widen(k + H)}
    BY <1>2, <2>1
  <2>3. \/ IsNaN(Widen(k)) /\ IsNaN(Widen(k + H))
        \/ Widen(k) < Half("F64") /\ Widen(k + H) = Widen(k) + Half("F64")
    BY <1>4, SignAssumption
  <2>4. CASE IsNaN(Widen(k)) /\ IsNaN(Widen(k + H))
    <3>1. IsNaN(to_f64(v)) /\ IsNaN(to_f64(r))
      BY <2>2, <2>4
    <3> QED
      BY <3>1 DEF r
  <2>5. CASE Widen(k) < Half("F64") /\ Widen(k + H) = Widen(k) + Half("F64")
    <3>1. Widen(k) \in U64
      <4>1. 2 * H = B4
        BY <1>4, ModulusEven DEF Modulus
      <4>2. k \in 0 .. B4 - 1
        BY <1>1, <4>1
      <4> QED
        BY <4>2, HostAssumption
    <3>2. Widen(k) \in 0 .. Half("F64") - 1
      BY <2>5, <3>1, Sizes, HalfPositive DEF U64
    <3>3. Opposite(to_f64(v), to_f64(r))
      BY <2>2, <2>5, <3>2 DEF Opposite
    <3> QED
      BY <3>3, SignFlipped DEF r
  <2> QED
    BY <2>3, <2>4, <2>5
<1> QED
  BY <1>3, <1>4 DEF FloatTypes

\* What fcmp answers, condition by condition.
LEMMA Answers ==
  ASSUME NEW v, NEW w
  PROVE  LET x == to_f64(v)  kx == FloatKey(x)
             y == to_f64(w)  ky == FloatKey(y)
             nan == IsNaN(x) \/ IsNaN(y)
         IN  /\ fcmp("ord", v, w) = ~nan /\ fcmp("uno", v, w) = nan
             /\ fcmp("eq", v, w) = (~nan /\ kx = ky)
             /\ fcmp("ne", v, w) = (nan \/ kx # ky)
             /\ fcmp("one", v, w) = (~nan /\ kx # ky)
             /\ fcmp("ueq", v, w) = (nan \/ kx = ky)
             /\ fcmp("lt", v, w) = (~nan /\ kx < ky)
             /\ fcmp("le", v, w) = (~nan /\ kx <= ky)
             /\ fcmp("gt", v, w) = (~nan /\ kx > ky)
             /\ fcmp("ge", v, w) = (~nan /\ kx >= ky)
             /\ fcmp("ult", v, w) = (nan \/ kx < ky)
             /\ fcmp("ule", v, w) = (nan \/ kx <= ky)
             /\ fcmp("ugt", v, w) = (nan \/ kx > ky)
             /\ fcmp("uge", v, w) = (nan \/ kx >= ky)
BY DEF fcmp

\* Exactly one of lt, eq, gt and uno.
LEMMA OneHolds ==
  ASSUME NEW v \in SimValue, NEW w \in SimValue,
         v.ty \in FloatTypes, w.ty \in FloatTypes
  PROVE  LET Holding == { cc \in {"lt", "eq", "gt", "uno"} : fcmp(cc, v, w) }
         IN  \E cc \in {"lt", "eq", "gt", "uno"} : Holding = {cc}
<1> DEFINE Holding == { cc \in {"lt", "eq", "gt", "uno"} : fcmp(cc, v, w) }
           kx == FloatKey(to_f64(v))
           ky == FloatKey(to_f64(w))
           nan == IsNaN(to_f64(v)) \/ IsNaN(to_f64(w))
<1>1. kx \in Int /\ ky \in Int
  BY FloatOperand
<1>2. /\ fcmp("uno", v, w) <=> nan
      /\ fcmp("lt", v, w) <=> (~nan /\ kx < ky)
      /\ fcmp("eq", v, w) <=> (~nan /\ kx = ky)
      /\ fcmp("gt", v, w) <=> (~nan /\ kx > ky)
  BY Answers
<1> HIDE DEF kx, ky, nan
<1>3. CASE nan
  <2>1. Holding = {"uno"}
    BY <1>2, <1>3
  <2> QED
    BY <2>1
<1>4. CASE ~nan /\ kx < ky
  <2>1. Holding = {"lt"}
    BY <1>1, <1>2, <1>4
  <2> QED
    BY <2>1
<1>5. CASE ~nan /\ kx = ky
  <2>1. Holding = {"eq"}
    BY <1>1, <1>2, <1>5
  <2> QED
    BY <2>1
<1>6. CASE ~nan /\ kx > ky
  <2>1. Holding = {"gt"}
    BY <1>1, <1>2, <1>6
  <2> QED
    BY <2>1
<1> QED
  BY <1>1, <1>3, <1>4, <1>5, <1>6

\* Every other condition is the union its name says.
LEMMA Unions ==
  ASSUME NEW v \in SimValue, NEW w \in SimValue,
         v.ty \in FloatTypes, w.ty \in FloatTypes
  PROVE  LET Is(cc) == fcmp(cc, v, w)
         IN  /\ Is("ord") <=> ~Is("uno")
             /\ Is("ne") <=> (Is("lt") \/ Is("gt") \/ Is("uno"))
             /\ Is("one") <=> (Is("lt") \/ Is("gt"))
             /\ Is("ueq") <=> (Is("eq") \/ Is("uno"))
             /\ Is("le") <=> (Is("lt") \/ Is("eq"))
             /\ Is("ge") <=> (Is("gt") \/ Is("eq"))
             /\ Is("ult") <=> (Is("lt") \/ Is("uno"))
             /\ Is("ugt") <=> (Is("gt") \/ Is("uno"))
             /\ Is("ule") <=> (Is("lt") \/ Is("eq") \/ Is("uno"))
             /\ Is("uge") <=> (Is("gt") \/ Is("eq") \/ Is("uno"))
<1> DEFINE kx == FloatKey(to_f64(v))
           ky == FloatKey(to_f64(w))
<1>1. kx \in Int /\ ky \in Int
  BY FloatOperand
<1>2. /\ (kx # ky) <=> (kx < ky \/ kx > ky)
      /\ (kx <= ky) <=> (kx < ky \/ kx = ky)
      /\ (kx >= ky) <=> (kx > ky \/ kx = ky)
  BY <1>1
<1> QED
  BY <1>2, Answers

LEMMA Reversed ==
  ASSUME NEW v \in SimValue, NEW w \in SimValue,
         v.ty \in FloatTypes, w.ty \in FloatTypes
  PROVE  /\ fcmp("lt", v, w) <=> fcmp("gt", w, v)
         /\ fcmp("lt", v, w) <=> fcmp("gt", apply_unary("fneg", v, v.ty).val,
                                            apply_unary("fneg", w, w.ty).val)
<1> DEFINE p == apply_unary("fneg", v, v.ty).val
           q == apply_unary("fneg", w, w.ty).val
           kx == FloatKey(to_f64(v))
           ky == FloatKey(to_f64(w))
           kp == FloatKey(to_f64(p))
           kq == FloatKey(to_f64(q))
<1>1. /\ p \in SimValue /\ p.ty \in FloatTypes
      /\ q \in SimValue /\ q.ty \in FloatTypes
  BY FloatNegated
<1> HIDE DEF p, q
<1>2. kx \in Int /\ ky \in Int /\ kp \in Int /\ kq \in Int
  BY <1>1, FloatOperand
<1>3. /\ IsNaN(to_f64(v)) <=> IsNaN(to_f64(p))
      /\ ~IsNaN(to_f64(v)) => kx = -kp
      /\ IsNaN(to_f64(w)) <=> IsNaN(to_f64(q))
      /\ ~IsNaN(to_f64(w)) => ky = -kq
  BY Negated DEF p, q
<1>4. /\ fcmp("lt", v, w) <=> (~(IsNaN(to_f64(v)) \/ IsNaN(to_f64(w))) /\ kx < ky)
      /\ fcmp("gt", w, v) <=> (~(IsNaN(to_f64(v)) \/ IsNaN(to_f64(w))) /\ ky > kx)
      /\ fcmp("gt", p, q) <=> (~(IsNaN(to_f64(p)) \/ IsNaN(to_f64(q))) /\ kp > kq)
  BY Answers
<1> HIDE DEF kx, ky, kp, kq
<1>5. fcmp("lt", v, w) <=> fcmp("gt", w, v)
  BY <1>2, <1>4
<1>6. fcmp("lt", v, w) <=> fcmp("gt", p, q)
  BY <1>2, <1>3, <1>4
<1> QED
  BY <1>5, <1>6 DEF p, q

\* The key of a number is the pattern without its sign bit, widened, and
\* negative under a sign bit.
LEMMA KeyOfNumber ==
  ASSUME NEW v \in SimValue, v.ty \in FloatTypes, ~IsNaN(to_f64(v)),
         NEW k \in 0 .. Half(v.ty) - 1, v.n \in {k, k + Half(v.ty)}
  PROVE  LET wide == IF v.ty = "F32" THEN Widen(k) ELSE k
         IN  /\ v.n % Half(v.ty) = k
             /\ wide \in Nat /\ ~IsNaN(wide)
             /\ FloatKey(to_f64(v)) = IF v.n < Half(v.ty) THEN wide ELSE -wide
<1> DEFINE H == Half(v.ty)
           h == Half("F64")
           wide == IF v.ty = "F32" THEN Widen(k) ELSE k
<1>1. H \in Nat /\ h \in Nat \ {0} /\ k \in Nat /\ k < H /\ Modulus(v.ty) = 2 * H
  BY ModulusEven, HalfPositive
<1>2. v.n % H = k
  <2>1. k % H = k
    BY <1>1, ModOnce
  <2>2. v.n = k \/ v.n = H * 1 + k
    BY <1>1
  <2>3. H \in Nat \ {0} /\ v.n \in Int
    BY <1>1
  <2>4. ASSUME v.n = H * 1 + k
        PROVE  v.n % H = k
    BY <2>3, <2>4, Residue
  <2> QED
    BY <2>1, <2>2, <2>4
<1>3. wide \in 0 .. h - 1 /\ to_f64(v) = IF v.n < H THEN wide ELSE wide + h
  <2>1. CASE v.ty = "F64"
    BY <1>1, <2>1 DEF to_f64
  <2>2. CASE v.ty = "F32"
    <3>1. to_f64(v) = Widen(v.n)
      BY <2>2 DEF to_f64
    <3>2. \/ IsNaN(Widen(k)) /\ IsNaN(Widen(k + H))
          \/ Widen(k) < h /\ Widen(k + H) = Widen(k) + h
      BY <2>2, SignAssumption
    <3>3. Widen(k) < h /\ Widen(k + H) = Widen(k) + h
      BY <3>1, <3>2
    <3>4. Widen(k) \in U64
      <4>1. k \in 0 .. B4 - 1
        BY <1>1, <2>2 DEF Modulus
      <4> QED
        BY <4>1, HostAssumption
    <3>5. Widen(k) \in 0 .. h - 1
      BY <1>1, <3>3, <3>4, Sizes DEF U64
    <3>6. v.n < H => v.n = k
      BY <1>1
    <3>7. ~(v.n < H) => v.n = k + H
      BY <1>1
    <3> QED
      BY <2>2, <3>1, <3>3, <3>5, <3>6, <3>7
  <2> QED
    BY <2>1, <2>2 DEF FloatTypes
<1> HIDE DEF wide, h
<1>4. Magnitude(to_f64(v)) = wide /\ Magnitude(wide) = wide
  <2>1. to_f64(v) = wide \/ to_f64(v) = h * 1 + wide
    BY <1>1, <1>3
  <2>2. to_f64(v) \in Int /\ h \in Nat \ {0}
    BY <1>1, <1>3
  <2>3. wide % h = wide
    BY <1>1, <1>3, ModOnce
  <2>4. ASSUME to_f64(v) = h * 1 + wide
        PROVE  to_f64(v) % h = wide
    BY <1>3, <2>2, <2>4, Residue
  <2>5. to_f64(v) % h = wide
    BY <2>1, <2>3, <2>4
  <2> QED
    BY <2>3, <2>5 DEF Magnitude, h
<1>5. FloatKey(to_f64(v)) = IF v.n < H THEN wide ELSE -wide
  <2>1. to_f64(v) < h <=> v.n < H
    BY <1>1, <1>3
  <2> QED
    BY <1>3, <1>4, <2>1 DEF FloatKey, h
<1>6. ~IsNaN(wide)
  BY <1>4 DEF IsNaN
<1> QED
  BY <1>2, <1>3, <1>5, <1>6 DEF wide

\* Below a number that is not negative lie the smaller patterns, and every
\* negative number but for a zero below a zero.
LEMMA Ordered ==
  ASSUME NEW v \in SimValue, NEW w \in SimValue,
         v.ty \in FloatTypes, w.ty = v.ty,
         ~IsNaN(to_f64(v)), ~IsNaN(to_f64(w)), w.n < Half(v.ty)
  PROVE  FloatKey(to_f64(v)) < FloatKey(to_f64(w)) <=>
           IF v.n < Half(v.ty) THEN v.n < w.n
           ELSE ~(v.n % Half(v.ty) = 0 /\ w.n % Half(v.ty) = 0)
<1> DEFINE H == Half(v.ty)
           wide(k) == IF v.ty = "F32" THEN Widen(k) ELSE k
<1>1. H \in Nat \ {0} /\ v.n \in 0 .. 2 * H - 1 /\ w.n \in 0 .. 2 * H - 1
  <2>1. Modulus(v.ty) = 2 * H /\ H \in Nat /\ Modulus(v.ty) \in Nat \ {0}
    BY ModulusEven
  <2>2. v.n \in 0 .. Modulus(v.ty) - 1 /\ w.n \in 0 .. Modulus(v.ty) - 1
    BY ValueFields DEF Payload, IntTypes, FloatTypes
  <2> QED
    BY <2>1, <2>2
<1>2. PICK k \in 0 .. H - 1 : v.n \in {k, k + H}
  <2>1. v.n \in 0 .. H - 1 \/ (v.n - H \in 0 .. H - 1 /\ v.n = (v.n - H) + H)
    BY <1>1
  <2> QED
    BY <2>1
<1>3. w.n \in 0 .. H - 1
  BY <1>1
<1>4. /\ v.n % H = k /\ wide(k) \in Nat /\ ~IsNaN(wide(k))
      /\ FloatKey(to_f64(v)) = IF v.n < H THEN wide(k) ELSE -wide(k)
  BY <1>2, KeyOfNumber
<1>5. /\ w.n % H = w.n /\ wide(w.n) \in Nat /\ ~IsNaN(wide(w.n))
      /\ FloatKey(to_f64(w)) = wide(w.n)
  BY <1>3, KeyOfNumber
<1>6. ~IsNaN(0) /\ 0 \in 0 .. H - 1
  <2>1. Magnitude(0) = 0
    BY HalfPositive, ModOnce DEF Magnitude
  <2> QED
    BY <1>1, <2>1, HostAssumption DEF IsNaN
<1>7. /\ wide(0) = 0
      /\ wide(0) < wide(k) <=> 0 < k
      /\ wide(0) < wide(w.n) <=> 0 < w.n
      /\ wide(k) < wide(w.n) <=> k < w.n
  BY <1>2, <1>3, <1>4, <1>5, <1>6, OrderAssumption
<1> HIDE DEF wide
<1>8. CASE v.n < H
  <2>1. v.n = k
    BY <1>1, <1>2, <1>8
  <2> QED
    BY <1>4, <1>5, <1>7, <1>8, <2>1
<1>9. CASE ~(v.n < H)
  <2>1. -wide(k) < wide(w.n) <=> ~(k = 0 /\ w.n = 0)
    BY <1>1, <1>2, <1>3, <1>4, <1>5, <1>7
  <2> QED
    BY <1>4, <1>5, <1>9, <2>1
<1> QED
  BY <1>8, <1>9

\* The fourteen conditions of fcmp split the pairs of floats as their names
\* say, NaNs and both zeros included, for f64 and for widened f32 operands.
THEOREM FloatsCompareExactly == Spec => []FloatCompareExact
<1>1. Operand => FloatCompareExact
  <2> SUFFICES ASSUME a \in SimValue, IsFloat, NEW b \in Peers
               PROVE  LET Is(cc) == fcmp(cc, a, b)
                          NotANumber(v) == IsNaN(to_f64(v))
                          Negative(v) == v.n >= Half(v.ty)
                          Zero(v) == v.n % Half(v.ty) = 0
                          Holding == { cc \in {"lt", "eq", "gt", "uno"} : Is(cc) }
                          Union(ccs) == Holding \cap ccs # {}
                      IN  /\ \E cc \in {"lt", "eq", "gt", "uno"} : Holding = {cc}
                          /\ Is("lt") = fcmp("gt", b, a)
                          /\ Is("lt") = fcmp("gt", apply_unary("fneg", a, a.ty).val,
                                                   apply_unary("fneg", b, b.ty).val)
                          /\ Is("uno") = (NotANumber(a) \/ NotANumber(b))
                          /\ ~Is("uno") /\ ~Negative(b) =>
                               Is("lt") = IF Negative(a) THEN ~(Zero(a) /\ Zero(b))
                                                         ELSE a.n < b.n
                          /\ Is("ord") = ~Is("uno")
                          /\ Is("ne")  = Union({"lt", "gt", "uno"})
                          /\ Is("one") = Union({"lt", "gt"})
                          /\ Is("ueq") = Union({"eq", "uno"})
                          /\ Is("le")  = Union({"lt", "eq"})
                          /\ Is("ge")  = Union({"gt", "eq"})
                          /\ Is("ult") = Union({"lt", "uno"})
                          /\ Is("ugt") = Union({"gt", "uno"})
                          /\ Is("ule") = Union({"lt", "eq", "uno"})
                          /\ Is("uge") = Union({"gt", "eq", "uno"})
    BY DEF FloatCompareExact, Operand
  <2> DEFINE Is(cc) == fcmp(cc, a, b)
             Holding == { cc \in {"lt", "eq", "gt", "uno"} : Is(cc) }
             Union(ccs) == Holding \cap ccs # {}
  <2>1. b \in SimValue /\ a.ty \in FloatTypes /\ b.ty \in FloatTypes
    BY PeersAreValues DEF IsFloat
  <2>2. \A cc \in FloatCC : Is(cc) \in BOOLEAN
    BY DEF fcmp, FloatCC
  <2>3. fcmp("gt", b, a) \in BOOLEAN
        /\ fcmp("gt", apply_unary("fneg", a, a.ty).val,
                      apply_unary("fneg", b, b.ty).val) \in BOOLEAN
    BY DEF fcmp
  <2>4. \E cc \in {"lt", "eq", "gt", "uno"} : Holding = {cc}
    BY <2>1, OneHolds
  <2>5. /\ Is("lt") <=> fcmp("gt", b, a)
        /\ Is("lt") <=> fcmp("gt", apply_unary("fneg", a, a.ty).val,
                                   apply_unary("fneg", b, b.ty).val)
    BY <2>1, Reversed
  <2>6. /\ Is("ord") <=> ~Is("uno")
        /\ Is("ne") <=> (Is("lt") \/ Is("gt") \/ Is("uno"))
        /\ Is("one") <=> (Is("lt") \/ Is("gt"))
        /\ Is("ueq") <=> (Is("eq") \/ Is("uno"))
        /\ Is("le") <=> (Is("lt") \/ Is("eq"))
        /\ Is("ge") <=> (Is("gt") \/ Is("eq"))
        /\ Is("ult") <=> (Is("lt") \/ Is("uno"))
        /\ Is("ugt") <=> (Is("gt") \/ Is("uno"))
        /\ Is("ule") <=> (Is("lt") \/ Is("eq") \/ Is("uno"))
        /\ Is("uge") <=> (Is("gt") \/ Is("eq") \/ Is("uno"))
    BY <2>1, Unions
  <2>11. Is("uno") = (IsNaN(to_f64(a)) \/ IsNaN(to_f64(b)))
    BY Answers
  <2>12. ASSUME ~Is("uno"), ~(b.n >= Half(b.ty))
         PROVE  Is("lt") = IF a.n >= Half(a.ty)
                           THEN ~(a.n % Half(a.ty) = 0 /\ b.n % Half(b.ty) = 0)
                           ELSE a.n < b.n
    <3>1. ~IsNaN(to_f64(a)) /\ ~IsNaN(to_f64(b)) /\ b.ty = a.ty
      BY <2>11, <2>12, PeersAreValues
    <3>2. a.n \in Int /\ b.n \in Int /\ Half(a.ty) \in Int
      BY <2>1, ValueFields, ModulusEven
    <3>3. b.n < Half(a.ty) /\ (a.n < Half(a.ty) <=> ~(a.n >= Half(a.ty)))
      BY <2>12, <3>1, <3>2
    <3>4. Is("lt") <=> FloatKey(to_f64(a)) < FloatKey(to_f64(b))
      BY <3>1, Answers
    <3>5. Is("lt") <=> IF a.n < Half(a.ty) THEN a.n < b.n
                       ELSE ~(a.n % Half(a.ty) = 0 /\ b.n % Half(a.ty) = 0)
      BY <2>1, <3>1, <3>3, <3>4, Ordered
    <3>6. Is("lt") \in BOOLEAN
      BY <2>2 DEF FloatCC
    <3> QED
      BY <3>1, <3>3, <3>5, <3>6
  <2> HIDE DEF Is
  <2>7. \A ccs \in SUBSET {"lt", "eq", "gt", "uno"} :
          Union(ccs) <=> \E cc \in ccs : Is(cc)
    OBVIOUS
  <2>8. /\ Union({"lt", "gt", "uno"}) <=> (Is("lt") \/ Is("gt") \/ Is("uno"))
        /\ Union({"lt", "gt"}) <=> (Is("lt") \/ Is("gt"))
        /\ Union({"eq", "uno"}) <=> (Is("eq") \/ Is("uno"))
        /\ Union({"lt", "eq"}) <=> (Is("lt") \/ Is("eq"))
        /\ Union({"gt", "eq"}) <=> (Is("gt") \/ Is("eq"))
        /\ Union({"lt", "uno"}) <=> (Is("lt") \/ Is("uno"))
        /\ Union({"gt", "uno"}) <=> (Is("gt") \/ Is("uno"))
        /\ Union({"lt", "eq", "uno"}) <=> (Is("lt") \/ Is("eq") \/ Is("uno"))
        /\ Union({"gt", "eq", "uno"}) <=> (Is("gt") \/ Is("eq") \/ Is("uno"))
    BY <2>7
  <2>9. /\ Is("ord") \in BOOLEAN /\ Is("ne") \in BOOLEAN /\ Is("one") \in BOOLEAN
        /\ Is("ueq") \in BOOLEAN /\ Is("le") \in BOOLEAN /\ Is("ge") \in BOOLEAN
        /\ Is("ult") \in BOOLEAN /\ Is("ugt") \in BOOLEAN /\ Is("ule") \in BOOLEAN
        /\ Is("uge") \in BOOLEAN /\ Is("lt") \in BOOLEAN
    BY <2>2 DEF FloatCC
  <2>10. /\ Is("ord") = ~Is("uno")
         /\ Is("ne")  = Union({"lt", "gt", "uno"}) /\ Is("one") = Union({"lt", "gt"})
         /\ Is("ueq") = Union({"eq", "uno"})
         /\ Is("le")  = Union({"lt", "eq"})   /\ Is("ge")  = Union({"gt", "eq"})
         /\ Is("ult") = Union({"lt", "uno"})  /\ Is("ugt") = Union({"gt", "uno"})
         /\ Is("ule") = Union({"lt", "eq", "uno"})
         /\ Is("uge") = Union({"gt", "eq", "uno"})
    BY <2>6, <2>8, <2>9
  <2> QED
    BY <2>3, <2>4, <2>5, <2>9, <2>10, <2>11, <2>12 DEF Is
<1> QED
  BY <1>1, OperandIsValue, PTL

(***************************************************************************)
(* Bytes of a word                                                          *)
(***************************************************************************)
LEMMA TwoDigits ==
  ASSUME NEW m \in Nat \ {0}, NEW k \in Nat \ {0}, NEW x \in Nat
  PROVE  /\ (x \div m) \div k = x \div (m * k)
         /\ (x % (m * k)) \div m = (x \div m) % k
<1>1. PICK q \in Int, r \in 0 .. m - 1 : x = m * q + r /\ x \div m = q
  BY DivMod
<1>2. PICK p \in Int, s \in 0 .. k - 1 : q = k * p + s /\ q % k = s /\ q \div k = p
  BY DivMod
<1>3. PICK t \in Int : t = m * s + r
  <2>1. m * s + r \in Int
    OBVIOUS
  <2> QED
    BY <2>1
<1>4. m * s \in Nat /\ m * s <= m * (k - 1) /\ m * (k - 1) = m * k - m
  <2>1. s \in Int /\ k - 1 \in Int /\ s <= k - 1 /\ 0 <= s
    OBVIOUS
  <2>2. m * s <= m * (k - 1) /\ m * 0 <= m * s
    BY <2>1, ProductMonotone
  <2>3. m * s \in Int /\ m * 0 = 0 /\ m * (k - 1) = m * k - m
    OBVIOUS
  <2> QED
    BY <2>2, <2>3
<1>5. m * k \in Nat \ {0}
  BY PositiveProduct
<1>6. t \in 0 .. m * k - 1
  BY <1>3, <1>4, <1>5
<1>7. x = (m * k) * p + t
  <2>1. m * q = (m * k) * p + m * s
    BY <1>2
  <2>2. (m * k) * p \in Int
    BY <1>5
  <2> QED
    BY <1>1, <1>3, <1>4, <2>1, <2>2
<1>8. x % (m * k) = t /\ x \div (m * k) = p
  BY <1>5, <1>6, <1>7, Residue
<1>9. t \div m = s
  BY <1>3, Residue
<1> QED
  BY <1>1, <1>2, <1>8, <1>9

LEMMA Weights ==
  /\ \A j \in 1 .. 8 : Weight[j] \in Nat \ {0}
  /\ \A i \in 0 .. 3 : Weight[i + 5] = B4 * Weight[i + 1]
  /\ \A i \in 0 .. 1 : Weight[i + 3] = B2 * Weight[i + 1]
  /\ Weight[1] = 1 /\ Weight[2] = ByteMod
<1>1. /\ Weight[1] = 1 /\ Weight[2] = ByteMod /\ Weight[3] = B2
      /\ Weight[4] = B2 * ByteMod /\ Weight[5] = B4 /\ Weight[6] = B4 * ByteMod
      /\ Weight[7] = B4 * B2 /\ Weight[8] = B4 * B2 * ByteMod
  BY DEF Weight
<1>2. ByteMod \in Nat \ {0} /\ B2 \in Nat \ {0} /\ B4 \in Nat \ {0}
  BY Sizes
<1>3. /\ B2 * ByteMod \in Nat \ {0} /\ B4 * ByteMod \in Nat \ {0}
      /\ B4 * B2 \in Nat \ {0}
  BY <1>2, PositiveProduct
<1>4. B4 * B2 * ByteMod \in Nat \ {0}
  BY <1>2, <1>3, PositiveProduct
<1>5. \A x, y, z \in Nat : (x * y) * z = x * (y * z) /\ x * 1 = x
  OBVIOUS
<1>6. B4 * B2 * ByteMod = B4 * (B2 * ByteMod) /\ B4 * 1 = B4 /\ B2 * 1 = B2
  BY <1>2, <1>5
<1>7. \A j \in 1 .. 8 : Weight[j] \in Nat \ {0}
  <2> TAKE j \in 1 .. 8
  <2>1. j = 1 \/ j = 2 \/ j = 3 \/ j = 4 \/ j = 5 \/ j = 6 \/ j = 7 \/ j = 8
    OBVIOUS
  <2>2. 1 \in Nat \ {0}
    OBVIOUS
  <2> QED
    BY <1>1, <1>2, <1>3, <1>4, <2>1, <2>2
<1>8. \A i \in 0 .. 3 : Weight[i + 5] = B4 * Weight[i + 1]
  <2> TAKE i \in 0 .. 3
  <2>1. i = 0 \/ i = 1 \/ i = 2 \/ i = 3
    OBVIOUS
  <2>2. CASE i = 0
    BY <1>1, <1>6, <2>2
  <2>3. CASE i = 1
    BY <1>1, <2>3
  <2>4. CASE i = 2
    BY <1>1, <2>4
  <2>5. CASE i = 3
    BY <1>1, <1>6, <2>5
  <2> QED
    BY <2>1, <2>2, <2>3, <2>4, <2>5
<1>9. \A i \in 0 .. 1 : Weight[i + 3] = B2 * Weight[i + 1]
  <2> TAKE i \in 0 .. 1
  <2>1. i = 0 \/ i = 1
    OBVIOUS
  <2>2. CASE i = 0
    BY <1>1, <1>6, <2>2
  <2>3. CASE i = 1
    BY <1>1, <2>3
  <2> QED
    BY <2>1, <2>2, <2>3
<1> QED
  BY <1>1, <1>7, <1>8, <1>9

LEMMA ByteOf2 ==
  ASSUME NEW u \in 0 .. B2 - 1, NEW i \in 0 .. 1
  PROVE  Byte2(u, i) = (u \div Weight[i + 1]) % ByteMod
<1>1. ByteMod \in Nat \ {0} /\ B2 = ByteMod * ByteMod /\ B2 \in Nat \ {0}
  BY Sizes DEF B2
<1>2. u \in Int
  BY <1>1
<1>3. CASE i = 0
  <2>1. u = 1 * u + 0 /\ 0 \in 0 .. 1 - 1 /\ 1 \in Nat \ {0}
    BY <1>2
  <2>2. u \div 1 = u
    BY <1>2, <2>1, Residue
  <2>3. Weight[i + 1] = 1
    BY <1>3, Weights
  <2> QED
    BY <1>3, <2>2, <2>3 DEF Byte2
<1>4. CASE i = 1
  <2>1. u \div ByteMod \in 0 .. ByteMod - 1
    BY <1>1, Digits
  <2>2. (u \div ByteMod) % ByteMod = u \div ByteMod
    BY <1>1, <2>1, ModOnce
  <2>3. Weight[i + 1] = ByteMod
    BY <1>4, Weights
  <2> QED
    BY <1>4, <2>2, <2>3 DEF Byte2
<1> QED
  BY <1>3, <1>4

\* A byte of the low half is that byte of the word, a byte of the high half
\* the one so many places up.
LEMMA HalfBytes ==
  ASSUME NEW H \in Nat \ {0}, Divides(ByteMod, H), NEW u \in Nat,
         NEW W \in Nat \ {0}, NEW k \in Nat \ {0}, H = W * k, Divides(ByteMod, k)
  PROVE  /\ ((u % H) \div W) % ByteMod = (u \div W) % ByteMod
         /\ ((u \div H) \div W) % ByteMod = (u \div (H * W)) % ByteMod
<1>1. (u % H) \div W = (u \div W) % k
  <2>1. (u % (W * k)) \div W = (u \div W) % k
    BY TwoDigits
  <2> QED
    BY <2>1
<1>2. (u \div H) \div W = u \div (H * W)
  BY TwoDigits
<1>3. u \div W \in Int /\ ByteMod \in Nat \ {0}
  BY Sizes
<1>4. ((u \div W) % k) % ByteMod = (u \div W) % ByteMod
  BY <1>3, DividesMod
<1> QED
  BY <1>1, <1>2, <1>4

LEMMA ByteOf4 ==
  ASSUME NEW u \in 0 .. B4 - 1, NEW i \in 0 .. 3
  PROVE  Byte4(u, i) = (u \div Weight[i + 1]) % ByteMod
<1>1. B2 \in Nat \ {0} /\ B4 = B2 * B2 /\ B4 \in Nat \ {0} /\ ByteMod \in Nat \ {0}
  BY Sizes DEF B4
<1>2. u \in Nat /\ u % B2 \in 0 .. B2 - 1 /\ u \div B2 \in 0 .. B2 - 1
  <2>1. u \in Nat
    BY Sizes
  <2> QED
    BY <2>1, ByteHalves
<1>3. \A j \in 0 .. 1 : \E k \in Nat \ {0} : B2 = Weight[j + 1] * k /\ Divides(ByteMod, k)
  <2> TAKE j \in 0 .. 1
  <2>1. j = 0 \/ j = 1
    OBVIOUS
  <2>2. CASE j = 0
    <3>1. B2 = 1 * B2 /\ Weight[j + 1] = 1
      BY <1>1, <2>2, Weights
    <3> QED
      BY <1>1, <3>1, SizesDivide
  <2>3. CASE j = 1
    <3>1. B2 = ByteMod * ByteMod /\ Weight[j + 1] = ByteMod
      BY <2>3, Weights DEF B2
    <3> QED
      BY <1>1, <3>1, SizesDivide
  <2> QED
    BY <2>1, <2>2, <2>3
<1>4. CASE i < 2
  <2>1. i \in 0 .. 1
    BY <1>4
  <2>2. Byte4(u, i) = ((u % B2) \div Weight[i + 1]) % ByteMod
    BY <1>2, <1>4, <2>1, ByteOf2 DEF Byte4
  <2>3. PICK k \in Nat \ {0} : B2 = Weight[i + 1] * k /\ Divides(ByteMod, k)
    BY <1>3, <2>1
  <2>4. Weight[i + 1] \in Nat \ {0}
    BY Weights
  <2> QED
    BY <1>1, <1>2, <2>2, <2>3, <2>4, HalfBytes, SizesDivide
<1>5. CASE ~(i < 2)
  <2>1. PICK j \in 0 .. 1 : j = i - 2
    <3>1. i - 2 \in 0 .. 1
      BY <1>5
    <3> QED
      BY <3>1
  <2>2. Byte4(u, i) = ((u \div B2) \div Weight[j + 1]) % ByteMod
    BY <1>2, <1>5, <2>1, ByteOf2 DEF Byte4
  <2>3. PICK k \in Nat \ {0} : B2 = Weight[j + 1] * k /\ Divides(ByteMod, k)
    BY <1>3
  <2>4. Weight[j + 1] \in Nat \ {0}
    BY Weights
  <2>5. Weight[j + 3] = B2 * Weight[j + 1] /\ j + 3 = i + 1
    BY <2>1, Weights
  <2> QED
    BY <1>1, <1>2, <2>2, <2>3, <2>4, <2>5, HalfBytes, SizesDivide
<1> QED
  BY <1>4, <1>5

LEMMA ByteOf8 ==
  ASSUME NEW u \in 0 .. B8 - 1, NEW i \in 0 .. 7
  PROVE  Byte8(u, i) = (u \div Weight[i + 1]) % ByteMod
<1>1. /\ B4 \in Nat \ {0} /\ B8 = B4 * B4 /\ B8 \in Nat \ {0} /\ ByteMod \in Nat \ {0}
      /\ B2 \in Nat \ {0} /\ B4 = B2 * B2 /\ B2 = ByteMod * ByteMod
  BY Sizes DEF B8, B4, B2
<1>2. u \in Nat /\ u % B4 \in 0 .. B4 - 1 /\ u \div B4 \in 0 .. B4 - 1
  <2>1. u \in Nat
    BY Sizes
  <2> QED
    BY <2>1, ByteHalves
<1>3. \A j \in 0 .. 3 : \E k \in Nat \ {0} : B4 = Weight[j + 1] * k /\ Divides(ByteMod, k)
  <2> TAKE j \in 0 .. 3
  <2>1. j = 0 \/ j = 1 \/ j = 2 \/ j = 3
    OBVIOUS
  <2>2. CASE j = 0
    <3>1. B4 = 1 * B4 /\ Weight[j + 1] = 1
      BY <1>1, <2>2, Weights
    <3> QED
      BY <1>1, <3>1, SizesDivide
  <2>3. CASE j = 1
    <3>1. B4 = ByteMod * (ByteMod * B2) /\ Weight[j + 1] = ByteMod
      BY <1>1, <2>3, Weights
    <3>2. ByteMod * B2 \in Nat \ {0}
      BY <1>1, PositiveProduct
    <3> QED
      BY <1>1, <3>1, <3>2 DEF Divides
  <2>4. CASE j = 2
    <3>1. Weight[2 + 1] = B2
      BY DEF Weight
    <3>2. B4 = B2 * B2 /\ Weight[j + 1] = B2
      BY <1>1, <2>4, <3>1
    <3> QED
      BY <1>1, <3>2, SizesDivide
  <2>5. CASE j = 3
    <3>1. Weight[3 + 1] = B2 * ByteMod
      BY DEF Weight
    <3>2. B4 = (B2 * ByteMod) * ByteMod /\ Weight[j + 1] = B2 * ByteMod
      BY <1>1, <2>5, <3>1
    <3> QED
      BY <1>1, <3>2, SizesDivide
  <2> QED
    BY <2>1, <2>2, <2>3, <2>4, <2>5
<1>4. CASE i < 4
  <2>1. i \in 0 .. 3
    BY <1>4
  <2>2. Byte8(u, i) = ((u % B4) \div Weight[i + 1]) % ByteMod
    BY <1>2, <1>4, <2>1, ByteOf4 DEF Byte8
  <2>3. PICK k \in Nat \ {0} : B4 = Weight[i + 1] * k /\ Divides(ByteMod, k)
    BY <1>3, <2>1
  <2>4. Weight[i + 1] \in Nat \ {0}
    BY Weights
  <2> QED
    BY <1>1, <1>2, <2>2, <2>3, <2>4, HalfBytes, SizesDivide
<1>5. CASE ~(i < 4)
  <2>1. PICK j \in 0 .. 3 : j = i - 4
    <3>1. i - 4 \in 0 .. 3
      BY <1>5
    <3> QED
      BY <3>1
  <2>2. Byte8(u, i) = ((u \div B4) \div Weight[j + 1]) % ByteMod
    BY <1>2, <1>5, <2>1, ByteOf4 DEF Byte8
  <2>3. PICK k \in Nat \ {0} : B4 = Weight[j + 1] * k /\ Divides(ByteMod, k)
    BY <1>3
  <2>4. Weight[j + 1] \in Nat \ {0}
    BY Weights
  <2>5. Weight[j + 5] = B4 * Weight[j + 1] /\ j + 5 = i + 1
    BY <2>1, Weights
  <2> QED
    BY <1>1, <1>2, <2>2, <2>3, <2>4, <2>5, HalfBytes, SizesDivide
<1> QED
  BY <1>4, <1>5

\* Bytes written one after the other are read as the word they came from.
LEMMA Reassembled ==
  ASSUME NEW m, NEW addr \in Nat, NEW ty \in Types, NEW u \in 0 .. Modulus(ty) - 1,
         \A i \in 0 .. Bytes(ty) - 1 : m[addr + i + 1] = to_le_bytes(u, i, Bytes(ty))
  PROVE  from_le_bytes(m, addr, Bytes(ty)) = u
<1>1. ASSUME NEW M \in Nat \ {0}, NEW x \in Int
      PROVE  (x % M) + M * (x \div M) = x
  <2>1. x \div M \in Int /\ x % M \in 0 .. M - 1 /\ x = M * (x \div M) + (x % M)
    BY <1>1, DivMod
  <2>2. M * (x \div M) \in Int
    BY <2>1
  <2> QED
    BY <2>1, <2>2
<1>2. /\ ByteMod \in Nat \ {0} /\ B2 \in Nat \ {0} /\ B4 \in Nat \ {0}
      /\ B8 \in Nat \ {0} /\ u \in Int
  BY Sizes, ModulusEven
<1>3. \A x \in Int : /\ Byte2(x, 0) + ByteMod * Byte2(x, 1) = x
                     /\ x % B2 \in Int /\ x \div B2 \in Int
                     /\ x % B4 \in Int /\ x \div B4 \in Int
  BY <1>1, <1>2 DEF Byte2
<1>4. \A x \in Int : /\ Byte4(x, 0) + ByteMod * Byte4(x, 1) = x % B2
                     /\ Byte4(x, 2) + ByteMod * Byte4(x, 3) = x \div B2
  BY <1>3 DEF Byte4
<1>5. /\ Byte8(u, 0) + ByteMod * Byte8(u, 1) = (u % B4) % B2
      /\ Byte8(u, 2) + ByteMod * Byte8(u, 3) = (u % B4) \div B2
      /\ Byte8(u, 4) + ByteMod * Byte8(u, 5) = (u \div B4) % B2
      /\ Byte8(u, 6) + ByteMod * Byte8(u, 7) = (u \div B4) \div B2
  <2>1. /\ Byte8(u, 0) = Byte4(u % B4, 0) /\ Byte8(u, 1) = Byte4(u % B4, 1)
        /\ Byte8(u, 2) = Byte4(u % B4, 2) /\ Byte8(u, 3) = Byte4(u % B4, 3)
        /\ Byte8(u, 4) = Byte4(u \div B4, 0) /\ Byte8(u, 5) = Byte4(u \div B4, 1)
        /\ Byte8(u, 6) = Byte4(u \div B4, 2) /\ Byte8(u, 7) = Byte4(u \div B4, 3)
    BY DEF Byte8
  <2>2. u % B4 \in Int /\ u \div B4 \in Int
    BY <1>2, <1>3
  <2> QED
    BY <1>4, <2>1, <2>2
<1>6. Bytes(ty) \in {1, 2, 4, 8}
  BY DEF Bytes, Types, IntTypes, FloatTypes
<1>7. CASE Bytes(ty) = 1
  <2>1. m[addr + 1] = u
    BY <1>7 DEF to_le_bytes
  <2> QED
    BY <1>7, <2>1 DEF from_le_bytes
<1>8. CASE Bytes(ty) = 2
  <2>1. m[addr + 1] = Byte2(u, 0) /\ m[addr + 2] = Byte2(u, 1)
    BY <1>8 DEF to_le_bytes
  <2> QED
    BY <1>2, <1>3, <1>8, <2>1 DEF from_le_bytes, LE2
<1>9. CASE Bytes(ty) = 4
  <2>1. /\ m[addr + 1] = Byte4(u, 0) /\ m[addr + 2] = Byte4(u, 1)
        /\ m[addr + 3] = Byte4(u, 2) /\ m[addr + 4] = Byte4(u, 3)
    BY <1>9 DEF to_le_bytes
  <2>2. LE2(m, addr) = u % B2 /\ LE2(m, addr + 2) = u \div B2
    BY <1>2, <1>4, <2>1 DEF LE2
  <2>3. (u % B2) + B2 * (u \div B2) = u
    BY <1>1, <1>2
  <2> QED
    BY <1>9, <2>2, <2>3 DEF from_le_bytes, LE4
<1>10. CASE Bytes(ty) = 8
  <2>1. /\ m[addr + 1] = Byte8(u, 0) /\ m[addr + 2] = Byte8(u, 1)
        /\ m[addr + 3] = Byte8(u, 2) /\ m[addr + 4] = Byte8(u, 3)
        /\ m[addr + 5] = Byte8(u, 4) /\ m[addr + 6] = Byte8(u, 5)
        /\ m[addr + 7] = Byte8(u, 6) /\ m[addr + 8] = Byte8(u, 7)
    BY <1>10 DEF to_le_bytes
  <2>2. /\ LE2(m, addr) = (u % B4) % B2 /\ LE2(m, addr + 2) = (u % B4) \div B2
        /\ LE2(m, addr + 4) = (u \div B4) % B2
        /\ LE2(m, addr + 6) = (u \div B4) \div B2
    BY <1>5, <2>1 DEF LE2
  <2>3. /\ ((u % B4) % B2) + B2 * ((u % B4) \div B2) = u % B4
        /\ ((u \div B4) % B2) + B2 * ((u \div B4) \div B2) = u \div B4
        /\ (u % B4) + B4 * (u \div B4) = u
    BY <1>1, <1>2, <1>3
  <2>4. (addr + 4) + 2 = addr + 6
    OBVIOUS
  <2>5. LE4(m, addr) = u % B4 /\ LE4(m, addr + 4) = u \div B4
    BY <2>2, <2>3, <2>4 DEF LE4
  <2> QED
    BY <1>10, <2>3, <2>5 DEF from_le_bytes, LE8
<1> QED
  BY <1>6, <1>7, <1>8, <1>9, <1>10

LEMMA StoredDigit ==
  ASSUME NEW v \in SimValue, NEW i \in 0 .. Bytes(v.ty) - 1
  PROVE  to_le_bytes(Bits(v), i, Bytes(v.ty)) = (Bits(v) \div Weight[i + 1]) % ByteMod
<1>1. v.ty \in Types /\ Bits(v) \in 0 .. Modulus(v.ty) - 1
  BY ValueFields
<1>2. CASE v.ty = "I8"
  <2>1. Bits(v) \in 0 .. ByteMod - 1 /\ Bytes(v.ty) = 1 /\ i = 0
    BY <1>1, <1>2 DEF Bytes, Modulus
  <2>2. Bits(v) % ByteMod = Bits(v) /\ Bits(v) \in Int
    BY <2>1, Sizes, ModOnce
  <2>3. Bits(v) \div 1 = Bits(v)
    <3>1. Bits(v) = 1 * Bits(v) + 0 /\ 0 \in 0 .. 1 - 1 /\ 1 \in Nat \ {0}
      BY <2>2
    <3> QED
      BY <2>2, <3>1, Residue
  <2> QED
    BY <2>1, <2>2, <2>3, Weights DEF to_le_bytes
<1>3. CASE v.ty = "I16"
  <2>1. Bits(v) \in 0 .. B2 - 1 /\ Bytes(v.ty) = 2 /\ i \in 0 .. 1
    BY <1>1, <1>3 DEF Bytes, Modulus
  <2> QED
    BY <2>1, ByteOf2 DEF to_le_bytes
<1>4. CASE v.ty \in {"I32", "F32"}
  <2>1. Bits(v) \in 0 .. B4 - 1 /\ Bytes(v.ty) = 4 /\ i \in 0 .. 3
    BY <1>1, <1>4 DEF Bytes, Modulus
  <2> QED
    BY <2>1, ByteOf4 DEF to_le_bytes
<1>5. CASE v.ty \in {"I64", "F64"}
  <2>1. Bits(v) \in 0 .. B8 - 1 /\ Bytes(v.ty) = 8 /\ i \in 0 .. 7
    BY <1>1, <1>5 DEF Bytes, Modulus
  <2> QED
    BY <2>1, ByteOf8 DEF to_le_bytes
<1> QED
  BY <1>1, <1>2, <1>3, <1>4, <1>5 DEF Types, IntTypes, FloatTypes

(***************************************************************************)
(* Stores and loads                                                         *)
(***************************************************************************)
\* What a store that fits leaves in memory.
LEMMA Stored ==
  ASSUME NEW m \in Seq(Byte), Len(m) < UsizeMod \div 2, NEW addr \in Nat,
         NEW v \in SimValue, addr + Bytes(v.ty) <= Len(m)
  PROVE  LET r == store_to(m, addr, v)
         IN  /\ r.err = "none" /\ Len(r.mem) = Len(m) /\ r.mem \in Seq(Byte)
             /\ \A i \in 0 .. Bytes(v.ty) - 1 :
                  r.mem[addr + i + 1] = to_le_bytes(Bits(v), i, Bytes(v.ty))
             /\ \A j \in DOMAIN m :
                  j \notin addr + 1 .. addr + Bytes(v.ty) => r.mem[j] = m[j]
<1> DEFINE size == Bytes(v.ty)
           r == store_to(m, addr, v)
           after == [j \in 1 .. Len(m) |->
                       IF addr < j /\ j <= addr + size
                       THEN to_le_bytes(Bits(v), j - 1 - addr, size) ELSE m[j]]
<1>1. size \in Nat \ {0} /\ Len(m) \in Nat /\ UsizeMod \in Nat
      /\ Len(m) < UsizeMod /\ DOMAIN m = 1 .. Len(m)
  <2>1. size \in Nat \ {0}
    BY BytesType
  <2>2. Len(m) \in Nat /\ UsizeMod \in Nat \ {0} /\ DOMAIN m = 1 .. Len(m)
    BY UsizeAssumption
  <2>3. UsizeMod \div 2 \in Nat /\ UsizeMod \div 2 <= UsizeMod
    BY <2>2
  <2> QED
    BY <2>1, <2>2, <2>3
<1>2. ~OutOfBounds(m, addr, size)
  BY <1>1 DEF OutOfBounds
<1>3. r = [err |-> "none", mem |-> after]
  BY <1>2 DEF store_to
<1>4. r.mem \in Seq(Byte) /\ Len(r.mem) = Len(m)
  BY StoreOutcome
<1>5. ASSUME NEW i \in 0 .. size - 1
      PROVE  r.mem[addr + i + 1] = to_le_bytes(Bits(v), i, size)
  <2>1. /\ addr + i + 1 \in 1 .. Len(m) /\ addr < addr + i + 1
        /\ addr + i + 1 <= addr + size /\ (addr + i + 1) - 1 - addr = i
    BY <1>1
  <2> HIDE DEF size
  <2> QED
    BY <1>3, <2>1
<1>6. ASSUME NEW j \in DOMAIN m, j \notin addr + 1 .. addr + size
      PROVE  r.mem[j] = m[j]
  <2>1. j \in 1 .. Len(m) /\ ~(addr < j /\ j <= addr + size)
    BY <1>1, <1>6
  <2> HIDE DEF size
  <2> QED
    BY <1>3, <2>1
<1> QED
  BY <1>3, <1>4, <1>5, <1>6

LEMMA LoadsInBounds ==
  ASSUME NEW m \in Seq(Byte), Len(m) < UsizeMod \div 2, NEW addr \in Nat,
         NEW ty \in Types, addr + Bytes(ty) <= Len(m)
  PROVE  load_from(m, addr, ty) = Ok(Cast(ty, from_le_bytes(m, addr, Bytes(ty))))
<1>1. Bytes(ty) \in Nat /\ Len(m) \in Nat /\ UsizeMod \in Nat /\ Len(m) < UsizeMod
  <2>1. Bytes(ty) \in Nat
    BY BytesType
  <2>2. Len(m) \in Nat /\ UsizeMod \in Nat \ {0}
    BY UsizeAssumption
  <2>3. UsizeMod \div 2 \in Nat /\ UsizeMod \div 2 <= UsizeMod
    BY <2>2
  <2> QED
    BY <2>1, <2>2, <2>3
<1>2. ~OutOfBounds(m, addr, Bytes(ty))
  BY <1>1 DEF OutOfBounds
<1> QED
  BY <1>2 DEF load_from

\* What is stored is loaded again, byte by byte in little-endian order, no
\* other byte changes and an access that does not fit writes nothing: at every
\* address of the host and for every buffer a Vec can hold.
THEOREM MemoryIsExact == Spec => []MemoryExact
<1>1. Operand => MemoryExact
  <2> SUFFICES ASSUME a \in SimValue, NEW addr \in 0 .. UsizeMod - 1
               PROVE  LET size == Bytes(a.ty)
                          after == store_to(Buffer, addr, a)
                          Byte_at(j) == Bits(load_from(after.mem, addr + j, "I8").val)
                      IN  IF addr + size <= Len(Buffer)
                          THEN /\ after.err = "none"
                               /\ load_from(after.mem, addr, a.ty) = Ok(a)
                               /\ \A j \in 0 .. size - 1 :
                                    Byte_at(j) = (Bits(a) \div Weight[j + 1]) % ByteMod
                               /\ Len(after.mem) = Len(Buffer)
                               /\ \A j \in DOMAIN Buffer :
                                    j \notin addr + 1 .. addr + size =>
                                      after.mem[j] = Buffer[j]
                          ELSE /\ after = [err |-> "OutOfBounds", mem |-> Buffer]
                               /\ load_from(Buffer, addr, a.ty).err = "OutOfBounds"
    BY DEF MemoryExact, Operand
  <2> DEFINE size == Bytes(a.ty)
             r == store_to(Buffer, addr, a)
  <2>1. /\ addr \in Nat /\ size \in Nat \ {0} /\ a.ty \in Types /\ a.n \in Int
        /\ Bits(a) \in 0 .. Modulus(a.ty) - 1 /\ Bits(a) \in Int
        /\ Buffer \in Seq(Byte) /\ Len(Buffer) < UsizeMod \div 2
    <3>1. addr \in Nat
      BY UsizeAssumption
    <3>2. size \in Nat \ {0}
      BY BytesType
    <3>3. a.ty \in Types /\ a.n \in Int /\ Bits(a) \in 0 .. Modulus(a.ty) - 1
      BY ValueFields
    <3>4. Bits(a) \in Int
      BY <3>3, ModulusEven
    <3> QED
      BY <3>1, <3>2, <3>3, <3>4, BufferAssumption
  <2>2. CASE addr + size <= Len(Buffer)
    <3>1. /\ r.err = "none" /\ Len(r.mem) = Len(Buffer) /\ r.mem \in Seq(Byte)
          /\ \A i \in 0 .. size - 1 :
               r.mem[addr + i + 1] = to_le_bytes(Bits(a), i, size)
          /\ \A j \in DOMAIN Buffer :
               j \notin addr + 1 .. addr + size => r.mem[j] = Buffer[j]
      BY <2>1, <2>2, Stored
    <3> HIDE DEF r
    <3>2. load_from(r.mem, addr, a.ty) = Ok(a)
      <4>1. from_le_bytes(r.mem, addr, size) = Bits(a)
        BY <2>1, <3>1, Reassembled
      <4>2. load_from(r.mem, addr, a.ty) = Ok(Cast(a.ty, Bits(a)))
        BY <2>1, <2>2, <3>1, <4>1, LoadsInBounds
      <4>3. Bits(a) % Modulus(a.ty) = a.n % Modulus(a.ty)
        <5>1. Bits(a) % Modulus(a.ty) = Bits(a)
          BY <2>1, ModulusEven, ModOnce
        <5> QED
          BY <5>1 DEF Bits
      <4>4. Cast(a.ty, Bits(a)) = a
        BY <2>1, <4>3, CastAgain
      <4> QED
        BY <4>2, <4>4
    <3>3. ASSUME NEW j \in 0 .. size - 1
          PROVE  Bits(load_from(r.mem, addr + j, "I8").val)
                   = (Bits(a) \div Weight[j + 1]) % ByteMod
      <4> DEFINE x == r.mem[addr + j + 1]
      <4>1. x = to_le_bytes(Bits(a), j, size)
        BY <3>1
      <4>2. x \in 0 .. ByteMod - 1
        <5>1. j \in Nat /\ j < size
          BY <2>1
        <5> QED
          BY <4>1, <5>1, StoredByte DEF Byte
      <4>3. x = (Bits(a) \div Weight[j + 1]) % ByteMod
        BY <4>1, StoredDigit
      <4>4. addr + j \in Nat /\ (addr + j) + 1 <= Len(r.mem) /\ Bytes("I8") = 1
        BY <2>1, <2>2, <3>1 DEF Bytes
      <4>5. from_le_bytes(r.mem, addr + j, 1) = x
        BY DEF from_le_bytes
      <4>6. load_from(r.mem, addr + j, "I8") = Ok(Cast("I8", x))
        BY <2>1, <3>1, <4>4, <4>5, LoadsInBounds DEF Types, IntTypes
      <4> HIDE DEF x
      <4>7. x \in Int /\ x % ByteMod = x
        BY <4>2, Sizes, ModOnce
      <4>8. Bits(Cast("I8", x)) = x
        BY <4>7, CastBits DEF Types, IntTypes, Modulus
      <4> QED
        BY <4>3, <4>6, <4>8 DEF Ok
    <3> QED
      BY <2>2, <3>1, <3>2, <3>3 DEF r
  <2>3. CASE ~(addr + size <= Len(Buffer))
    <3>1. OutOfBounds(Buffer, addr, size)
      BY <2>1, <2>3 DEF OutOfBounds
    <3>2. r = [err |-> "OutOfBounds", mem |-> Buffer]
      BY <3>1 DEF store_to
    <3>3. load_from(Buffer, addr, a.ty).err = "OutOfBounds"
      BY <3>1 DEF load_from, Err
    <3> QED
      BY <2>3, <3>2, <3>3
  <2> QED
    BY <2>2, <2>3
<1> QED
  BY <1>1, OperandIsValue, PTL

(***************************************************************************)
(* Bits                                                                     *)
(***************************************************************************)
\* The bits of a word are the powers of two that have their own law.
WordBits == 8 * ByteBits

LEMMA PowerSum ==
  ASSUME NEW i \in Nat, NEW j \in Nat, i + j <= WordBits
  PROVE  2 ^ (i + j) = 2 ^ i * 2 ^ j
<1> DEFINE S == { k \in Nat : i + k <= WordBits => 2 ^ (i + k) = 2 ^ i * 2 ^ k }
<1>1. WordBits \in Nat
  BY ByteAssumption DEF WordBits
<1>2. \A k \in 0 .. WordBits : 2 ^ k \in Nat \ {0}
  BY Powers DEF WordBits
<1>3. 0 \in S
  <2>1. i + 0 = i /\ 2 ^ 0 = 1
    BY PowerAssumption
  <2>2. i \in 0 .. WordBits
    BY <1>1
  <2>3. 2 ^ i * 1 = 2 ^ i
    BY <1>2, <2>2
  <2> QED
    BY <2>1, <2>3
<1>4. ASSUME NEW k \in Nat, k \in S PROVE k + 1 \in S
  <2> SUFFICES ASSUME i + (k + 1) <= WordBits
               PROVE  2 ^ (i + (k + 1)) = 2 ^ i * 2 ^ (k + 1)
    OBVIOUS
  <2>1. /\ k \in 0 .. WordBits - 1 /\ i + k \in 0 .. WordBits - 1 /\ i \in 0 .. WordBits
        /\ i + (k + 1) = (i + k) + 1
    BY <1>1, <1>4
  <2>2. 2 ^ (k + 1) = 2 * 2 ^ k /\ 2 ^ ((i + k) + 1) = 2 * 2 ^ (i + k)
    BY <2>1, PowerAssumption DEF WordBits
  <2>3. 2 ^ (i + k) = 2 ^ i * 2 ^ k
    BY <1>1, <1>4, <2>1
  <2>4. PICK p \in Nat : p = 2 ^ i
    BY <1>2, <2>1
  <2>5. PICK q \in Nat : q = 2 ^ k
    BY <1>1, <1>2, <2>1
  <2>6. 2 * (p * q) = p * (2 * q)
    OBVIOUS
  <2> QED
    BY <2>1, <2>2, <2>3, <2>4, <2>5, <2>6
<1> HIDE DEF S
<1>5. Nat \subseteq S
  BY <1>3, <1>4, SetInduction
<1> QED
  BY <1>5 DEF S

\* The types have as many values as their bits say, and the bits, a power of
\* two, divide the values.
LEMMA ModulusPower ==
  ASSUME NEW ty \in IntTypes
  PROVE  /\ Width(ty) \in 1 .. WordBits
         /\ Modulus(ty) = 2 ^ Width(ty)
<1>1. ByteBits \in Nat \ {0} /\ ByteMod = 2 ^ ByteBits
  BY ByteAssumption
<1>2. Width(ty) \in 1 .. WordBits
  BY <1>1 DEF Width, Bytes, IntTypes, WordBits
<1>3. B2 = 2 ^ (ByteBits + ByteBits)
  BY <1>1, PowerSum DEF B2, WordBits
<1>4. B4 = 2 ^ ((ByteBits + ByteBits) + (ByteBits + ByteBits))
  BY <1>1, <1>3, PowerSum DEF B4, WordBits
<1>5. PICK w \in Nat : w = (ByteBits + ByteBits) + (ByteBits + ByteBits)
  BY <1>1
<1>6. B8 = 2 ^ (w + w)
  BY <1>1, <1>4, <1>5, PowerSum DEF B8, WordBits
<1>7. /\ ByteBits * 1 = ByteBits /\ ByteBits * 2 = ByteBits + ByteBits
      /\ ByteBits * 4 = (ByteBits + ByteBits) + (ByteBits + ByteBits)
      /\ ByteBits * 8 = w + w
  BY <1>1, <1>5
<1>8. /\ ty = "I8" => Bytes(ty) = 1 /\ Modulus(ty) = ByteMod
      /\ ty = "I16" => Bytes(ty) = 2 /\ Modulus(ty) = B2
      /\ ty = "I32" => Bytes(ty) = 4 /\ Modulus(ty) = B4
      /\ ty = "I64" => Bytes(ty) = 8 /\ Modulus(ty) = B8
  BY DEF Bytes, Modulus
<1>9. ty \in {"I8", "I16", "I32", "I64"}
  BY DEF IntTypes
<1>10. Modulus(ty) = 2 ^ (ByteBits * Bytes(ty))
  BY <1>1, <1>3, <1>4, <1>6, <1>7, <1>8, <1>9, Zenon
<1> QED
  BY <1>2, <1>10 DEF Width

\* Dividing twice is dividing by the product.
LEMMA DivideTwice ==
  ASSUME NEW x \in Int, NEW p \in Nat \ {0}, NEW q \in Nat \ {0}
  PROVE  (x \div p) \div q = x \div (p * q)
<1>1. PICK u \in Int, r \in 0 .. p - 1 : x = p * u + r /\ x \div p = u
  BY DivMod
<1>2. PICK v \in Int, s \in 0 .. q - 1 : u = q * v + s /\ u \div q = v
  BY DivMod
<1>3. p * q \in Nat \ {0}
  BY PositiveProduct
<1>4. PICK t \in Int : t = p * s + r
  <2>1. p * s + r \in Int
    OBVIOUS
  <2> QED
    BY <2>1
<1>5. t \in 0 .. p * q - 1
  <2>1. p * 0 <= p * s /\ p * s <= p * (q - 1)
    BY ProductMonotone
  <2>2. p * 0 = 0 /\ p * (q - 1) = p * q - p /\ p * s \in Int
    OBVIOUS
  <2> QED
    BY <1>3, <1>4, <2>1, <2>2
<1>6. x = (p * q) * v + t
  <2>1. p * u = p * (q * v) + p * s
    BY <1>2
  <2>2. p * (q * v) = (p * q) * v
    OBVIOUS
  <2>3. (p * q) * v \in Int /\ p * s \in Int
    OBVIOUS
  <2> QED
    BY <1>1, <1>4, <2>1, <2>2, <2>3
<1>7. x \div (p * q) = v
  BY <1>3, <1>5, <1>6, Residue
<1> QED
  BY <1>1, <1>2, <1>7

\* A multiple of the divisor adds to the quotient, a multiple of two does not
\* change the parity.
LEMMA AddMultiple ==
  ASSUME NEW p \in Nat \ {0}, NEW z \in Int, NEW u \in Int
  PROVE  (p * z + u) \div p = z + (u \div p) /\ (p * z + u) % p = u % p
<1>1. PICK e \in Int, f \in 0 .. p - 1 : u = p * e + f /\ u \div p = e /\ u % p = f
  BY DivMod
<1>2. PICK d \in Int : d = z + e
  OBVIOUS
<1>3. PICK x \in Int : x = p * z + u
  <2>1. p * z + u \in Int
    OBVIOUS
  <2> QED
    BY <2>1
<1>4. x = p * d + f
  <2>1. p * d = p * z + p * e
    BY <1>2
  <2>2. p * z \in Int /\ p * e \in Int
    OBVIOUS
  <2> QED
    BY <1>1, <1>3, <2>1, <2>2
<1>5. x \div p = d /\ x % p = f
  BY <1>4, Residue
<1> QED
  BY <1>1, <1>2, <1>3, <1>5

LEMMA BitIsBit ==
  ASSUME NEW x \in Int, NEW i \in 0 .. WordBits
  PROVE  BitAt(x, i) \in {0, 1}
<1>1. 2 ^ i \in Nat \ {0}
  BY Powers DEF WordBits
<1>2. PICK p \in Nat \ {0} : p = 2 ^ i
  BY <1>1
<1>3. x \div p \in Int
  OBVIOUS
<1>4. \A z \in Int : z % 2 \in {0, 1}
  OBVIOUS
<1> QED
  BY <1>2, <1>3, <1>4 DEF BitAt

\* The low bits are those of the remainder, the high ones of the quotient.
LEMMA LowBits ==
  ASSUME NEW x \in Int, NEW w \in 0 .. WordBits, NEW i \in 0 .. w - 1
  PROVE  BitAt(x % 2 ^ w, i) = BitAt(x, i)
<1>1. WordBits \in Nat
  BY ByteAssumption DEF WordBits
<1>2. /\ 2 ^ i \in Nat \ {0} /\ 2 ^ (w - (i + 1)) \in Nat \ {0} /\ 2 ^ w \in Nat \ {0}
      /\ 2 ^ (i + 1) = 2 * 2 ^ i
      /\ 2 ^ w = 2 ^ (i + 1) * 2 ^ (w - (i + 1))
  <2>1. /\ i \in 0 .. WordBits /\ w - (i + 1) \in 0 .. WordBits /\ w \in 0 .. WordBits
        /\ i \in 0 .. WordBits - 1
    BY <1>1
  <2>2. /\ i + 1 \in Nat /\ w - (i + 1) \in Nat
        /\ (i + 1) + (w - (i + 1)) = w /\ w <= WordBits
    BY <1>1
  <2>3. 2 ^ ((i + 1) + (w - (i + 1))) = 2 ^ (i + 1) * 2 ^ (w - (i + 1))
    BY <2>2, PowerSum
  <2>4. /\ 2 ^ i \in Nat \ {0} /\ 2 ^ (w - (i + 1)) \in Nat \ {0} /\ 2 ^ w \in Nat \ {0}
    BY <2>1, Powers DEF WordBits
  <2>5. 2 ^ (i + 1) = 2 * 2 ^ i
    BY <2>1, PowerAssumption DEF WordBits
  <2> QED
    BY <2>2, <2>3, <2>4, <2>5
<1>3. PICK p \in Nat \ {0} : p = 2 ^ i
  BY <1>2
<1>4. PICK h \in Nat \ {0} : h = 2 ^ (w - (i + 1))
  BY <1>2
<1>5. PICK m \in Nat \ {0} : m = 2 ^ w /\ m = (2 * p) * h
  BY <1>2, <1>3, <1>4
<1>6. PICK q \in Int, u \in 0 .. m - 1 : x = m * q + u /\ x % m = u
  BY DivMod
<1>7. PICK z \in Int : z = h * q
  OBVIOUS
<1>8. PICK y \in Int : y = 2 * z
  OBVIOUS
<1>9. x = p * y + u /\ u \in Int
  <2>1. ((2 * p) * h) * q = p * (2 * (h * q))
    OBVIOUS
  <2> QED
    BY <1>5, <1>6, <1>7, <1>8, <2>1
<1>10. PICK e \in Int : e = u \div p
  BY <1>9
<1>11. x \div p = 2 * z + e
  BY <1>8, <1>9, <1>10, AddMultiple
<1>12. (2 * z + e) % 2 = e % 2
  BY AddMultiple
<1> QED
  BY <1>3, <1>5, <1>6, <1>10, <1>11, <1>12 DEF BitAt

LEMMA HighBits ==
  ASSUME NEW x \in Int, NEW m \in Nat, NEW i \in Nat, m + i <= WordBits
  PROVE  BitAt(x \div 2 ^ m, i) = BitAt(x, m + i)
<1>1. WordBits \in Nat
  BY ByteAssumption DEF WordBits
<1>2. 2 ^ m \in Nat \ {0} /\ 2 ^ i \in Nat \ {0}
  <2>1. m \in 0 .. WordBits /\ i \in 0 .. WordBits
    BY <1>1
  <2> QED
    BY <2>1, Powers DEF WordBits
<1>3. (x \div 2 ^ m) \div 2 ^ i = x \div (2 ^ m * 2 ^ i)
  BY <1>2, DivideTwice
<1>4. 2 ^ (m + i) = 2 ^ m * 2 ^ i
  BY PowerSum
<1> QED
  BY <1>3, <1>4 DEF BitAt

(***************************************************************************)
(* Logic                                                                    *)
(***************************************************************************)
\* z is the word of w bits that op makes of x and y.
Acts(op, x, y, z, w) ==
  /\ z \in 0 .. 2 ^ w - 1
  /\ \A i \in 0 .. w - 1 : BitAt(z, i) = OnBits(op, BitAt(x, i), BitAt(y, i))

LEMMA ActsOnHalves ==
  ASSUME NEW op, NEW x \in Int, NEW y \in Int, NEW lo, NEW hi,
         NEW m \in Nat, m + m <= WordBits, NEW M, M = 2 ^ m,
         Acts(op, x % M, y % M, lo, m), Acts(op, x \div M, y \div M, hi, m)
  PROVE  Acts(op, x, y, lo + M * hi, m + m)
<1>1. WordBits \in Nat /\ m \in 0 .. WordBits
  BY ByteAssumption DEF WordBits
<1>2. M \in Nat \ {0}
  BY <1>1, Powers DEF WordBits
<1>3. lo \in 0 .. M - 1 /\ hi \in 0 .. M - 1
  BY DEF Acts
<1>4. PICK z \in Int : z = lo + M * hi
  <2>1. lo + M * hi \in Int
    BY <1>2, <1>3
  <2> QED
    BY <2>1
<1>5. z % M = lo /\ z \div M = hi
  <2>1. z = M * hi + lo /\ hi \in Int
    BY <1>2, <1>3, <1>4
  <2> QED
    BY <1>2, <1>3, <2>1, Residue
<1>6. z \in 0 .. M * M - 1
  <2>1. M * 0 <= M * hi /\ M * hi <= M * (M - 1)
    BY <1>2, <1>3, ProductMonotone
  <2>2. M * 0 = 0 /\ M * (M - 1) = M * M - M /\ M * hi \in Int /\ M * M \in Int
    BY <1>2, <1>3
  <2> QED
    BY <1>2, <1>3, <1>4, <2>1, <2>2
<1>7. 2 ^ (m + m) = M * M
  BY PowerSum
<1>8. ASSUME NEW i \in 0 .. (m + m) - 1
      PROVE  BitAt(z, i) = OnBits(op, BitAt(x, i), BitAt(y, i))
  <2>1. CASE i < m
    <3>1. i \in 0 .. m - 1
      BY <1>8, <2>1
    <3>2. /\ BitAt(z % 2 ^ m, i) = BitAt(z, i)
          /\ BitAt(x % 2 ^ m, i) = BitAt(x, i) /\ BitAt(y % 2 ^ m, i) = BitAt(y, i)
      BY <1>1, <3>1, LowBits
    <3>3. BitAt(lo, i) = OnBits(op, BitAt(x % M, i), BitAt(y % M, i))
      BY <3>1 DEF Acts
    <3> QED
      BY <1>5, <3>2, <3>3
  <2>2. CASE i >= m
    <3>1. PICK j \in 0 .. m - 1 : i = m + j
      <4>1. i - m \in 0 .. m - 1 /\ i = m + (i - m)
        BY <1>8, <2>2
      <4> QED
        BY <4>1
    <3>2. j \in Nat /\ m + j <= WordBits
      BY <1>1
    <3>3. /\ BitAt(z \div 2 ^ m, j) = BitAt(z, m + j)
          /\ BitAt(x \div 2 ^ m, j) = BitAt(x, m + j)
          /\ BitAt(y \div 2 ^ m, j) = BitAt(y, m + j)
      BY <3>2, HighBits
    <3>4. BitAt(hi, j) = OnBits(op, BitAt(x \div M, j), BitAt(y \div M, j))
      BY DEF Acts
    <3> QED
      BY <1>5, <3>1, <3>3, <3>4
  <2> QED
    BY <1>8, <2>1, <2>2
<1>9. z \in 0 .. 2 ^ (m + m) - 1
  BY <1>6, <1>7
<1> QED
  BY <1>4, <1>8, <1>9 DEF Acts

\* Byte by byte and by halves, so the whole word.
LEMMA BitOpActs ==
  ASSUME NEW op \in {"band", "bor", "bxor"}, NEW x \in U64, NEW y \in U64
  PROVE  Acts(op, x, y, BitOp(op, x, y), WordBits)
<1>1. PICK b \in Nat \ {0} : b = ByteBits /\ 2 ^ b = ByteMod
  BY ByteAssumption
<1>2. PICK c \in Nat : c = b + b
  OBVIOUS
<1>3. PICK d \in Nat : d = c + c
  OBVIOUS
<1>4. d + d = WordBits /\ d + d <= WordBits /\ c + c <= WordBits /\ b + b <= WordBits
  BY <1>1, <1>2, <1>3 DEF WordBits
<1>5. B2 = 2 ^ c /\ B4 = 2 ^ d
  <2>1. B2 = 2 ^ c
    BY <1>1, <1>2, <1>4, PowerSum DEF B2
  <2> QED
    BY <2>1, <1>3, <1>4, PowerSum DEF B4
<1>6. ASSUME NEW u \in Byte, NEW v \in Byte
      PROVE  Acts(op, u, v, ByteOp(op, u, v), b)
  <2>1. /\ ByteOp(op, u, v) \in Byte
        /\ \A i \in 0 .. ByteBits - 1 :
             BitAt(ByteOp(op, u, v), i) = OnBits(op, BitAt(u, i), BitAt(v, i))
    BY <1>6, HostAssumption, Zenon
  <2> QED
    BY <1>1, <2>1, Zenon DEF Acts, Byte
<1>7. ASSUME NEW u \in 0 .. B2 - 1, NEW v \in 0 .. B2 - 1
      PROVE  Acts(op, u, v, BitOp2(op, u, v), c)
  <2>1. /\ u % ByteMod \in Byte /\ v % ByteMod \in Byte
        /\ u \div ByteMod \in Byte /\ v \div ByteMod \in Byte
    BY <1>7, ByteHalves
  <2>2. u \in Int /\ v \in Int
    BY <1>7, Sizes
  <2>3. /\ Acts(op, u % ByteMod, v % ByteMod, ByteOp(op, u % ByteMod, v % ByteMod), b)
        /\ Acts(op, u \div ByteMod, v \div ByteMod, ByteOp(op, u \div ByteMod, v \div ByteMod), b)
    BY <1>6, <2>1, Zenon
  <2>4. Acts(op, u, v, BitOp2(op, u, v), b + b)
    BY <1>1, <1>4, <2>2, <2>3, ActsOnHalves DEF BitOp2
  <2> QED
    BY <1>2, <2>4
<1>8. ASSUME NEW u \in 0 .. B4 - 1, NEW v \in 0 .. B4 - 1
      PROVE  Acts(op, u, v, BitOp4(op, u, v), d)
  <2>1. /\ u % B2 \in 0 .. B2 - 1 /\ v % B2 \in 0 .. B2 - 1
        /\ u \div B2 \in 0 .. B2 - 1 /\ v \div B2 \in 0 .. B2 - 1
    BY <1>8, ByteHalves
  <2>2. u \in Int /\ v \in Int
    BY <1>8, Sizes
  <2>3. /\ Acts(op, u % B2, v % B2, BitOp2(op, u % B2, v % B2), c)
        /\ Acts(op, u \div B2, v \div B2, BitOp2(op, u \div B2, v \div B2), c)
    BY <1>7, <2>1, Zenon
  <2>4. Acts(op, u, v, BitOp4(op, u, v), c + c)
    BY <1>4, <1>5, <2>2, <2>3, ActsOnHalves DEF BitOp4
  <2> QED
    BY <1>3, <2>4
<1>9. /\ x % B4 \in 0 .. B4 - 1 /\ y % B4 \in 0 .. B4 - 1
      /\ x \div B4 \in 0 .. B4 - 1 /\ y \div B4 \in 0 .. B4 - 1
  BY ByteHalves DEF U64
<1>10. x \in Int /\ y \in Int
  BY Sizes DEF U64
<1>11. /\ Acts(op, x % B4, y % B4, BitOp4(op, x % B4, y % B4), d)
       /\ Acts(op, x \div B4, y \div B4, BitOp4(op, x \div B4, y \div B4), d)
  BY <1>8, <1>9, Zenon
<1>12. Acts(op, x, y, BitOp(op, x, y), d + d)
  BY <1>4, <1>5, <1>10, <1>11, ActsOnHalves DEF BitOp
<1> QED
  BY <1>4, <1>12

(***************************************************************************)
(* Bits of values                                                           *)
(***************************************************************************)
LEMMA BitOfNumber ==
  ASSUME NEW v \in SimValue, v.ty \in IntTypes, NEW i \in Places(v.ty)
  PROVE  Bit(v, i) = BitAt(v.n, i)
<1>1. v.n \in Int
  BY ValueFields
<1>2. Width(v.ty) \in 0 .. WordBits /\ Modulus(v.ty) = 2 ^ Width(v.ty)
  <2>1. WordBits \in Nat
    BY ByteAssumption DEF WordBits
  <2> QED
    BY <2>1, ModulusPower
<1> QED
  BY <1>1, <1>2, LowBits DEF Bit, Bits, Places

LEMMA BitOfResult ==
  ASSUME NEW v \in SimValue, NEW w \in SimValue, v.ty = w.ty, v.ty \in IntTypes,
         NEW op \in IntOps, NEW i \in Places(v.ty)
  PROVE  Bit(apply_binary(op, v, w).val, i) = BitAt(IntResult(op, v.n, w.n, v.ty), i)
<1>1. IntResult(op, v.n, w.n, v.ty) \in Int
  BY ValueFields, IntResultType
<1>2. Width(v.ty) \in 0 .. WordBits /\ Modulus(v.ty) = 2 ^ Width(v.ty)
  <2>1. WordBits \in Nat
    BY ByteAssumption DEF WordBits
  <2> QED
    BY <2>1, ModulusPower
<1>3. Bits(apply_binary(op, v, w).val) = IntResult(op, v.n, w.n, v.ty) % Modulus(v.ty)
  BY IntegerResult
<1> QED
  BY <1>1, <1>2, <1>3, LowBits DEF Bit, Places

LEMMA LogicBits ==
  ASSUME NEW v \in SimValue, NEW w \in SimValue, v.ty = w.ty, v.ty \in IntTypes,
         NEW op \in {"band", "bor", "bxor"}, NEW i \in Places(v.ty)
  PROVE  Bit(apply_binary(op, v, w).val, i) = OnBits(op, Bit(v, i), Bit(w, i))
<1>1. v.n \in Int /\ w.n \in Int
  BY ValueFields
<1>2. WordBits \in Nat /\ i \in 0 .. WordBits - 1
  <2>1. WordBits \in Nat
    BY ByteAssumption DEF WordBits
  <2> QED
    BY <2>1, ModulusPower DEF Places
<1>3. B8 = 2 ^ WordBits
  <2>1. Modulus("I64") = B8 /\ Width("I64") = ByteBits * 8 /\ "I64" \in IntTypes
    BY DEF Modulus, Width, Bytes, IntTypes
  <2>2. ByteBits * 8 = WordBits
    BY ByteAssumption DEF WordBits
  <2> QED
    BY <2>1, <2>2, ModulusPower
<1>4. v.n % B8 \in U64 /\ w.n % B8 \in U64
  BY <1>1, Sizes DEF U64
<1>5. BitAt(BitOp(op, v.n % B8, w.n % B8), i)
      = OnBits(op, BitAt(v.n % B8, i), BitAt(w.n % B8, i))
  BY <1>2, <1>4, BitOpActs DEF Acts
<1>6. BitAt(v.n % B8, i) = BitAt(v.n, i) /\ BitAt(w.n % B8, i) = BitAt(w.n, i)
  BY <1>1, <1>2, <1>3, LowBits
<1>7. IntResult(op, v.n, w.n, v.ty) = BitOp(op, v.n % B8, w.n % B8)
  BY DEF IntResult
<1>8. op \in IntOps
  BY DEF IntOps
<1>9. Bit(v, i) = BitAt(v.n, i) /\ Bit(w, i) = BitAt(w.n, i)
  BY BitOfNumber
<1> QED
  BY <1>5, <1>6, <1>7, <1>8, <1>9, BitOfResult

LEMMA NotBits ==
  ASSUME NEW v \in SimValue, v.ty \in IntTypes, NEW i \in Places(v.ty)
  PROVE  Bit(apply_unary("bnot", v, v.ty).val, i) = 1 - Bit(v, i)
<1>1. v.ty \in Types /\ v.n \in Int
  BY ValueFields
<1>2. PICK x \in Int : x = v.n
  BY <1>1
<1>3. PICK z \in Int : z = -x - 1
  OBVIOUS
<1>4. apply_unary("bnot", v, v.ty).val = Cast(v.ty, z)
  BY <1>2, <1>3 DEF apply_unary, SameType, Ok
<1>5. Width(v.ty) \in 1 .. WordBits /\ WordBits \in Nat /\ Modulus(v.ty) = 2 ^ Width(v.ty)
  BY ModulusPower, ByteAssumption DEF WordBits
<1>6. Bit(Cast(v.ty, z), i) = BitAt(z, i)
  <2>1. Bits(Cast(v.ty, z)) = z % 2 ^ Width(v.ty)
    BY <1>1, <1>5, CastBits
  <2>2. Width(v.ty) \in 0 .. WordBits
    BY <1>5
  <2> QED
    BY <2>1, <2>2, LowBits DEF Bit, Places
<1>7. PICK p \in Nat \ {0} : p = 2 ^ i
  <2>1. i \in 0 .. WordBits
    BY <1>5 DEF Places
  <2> QED
    BY <2>1, Powers DEF WordBits
<1>8. PICK q \in Int, r \in 0 .. p - 1 : x = p * q + r /\ x \div p = q
  BY DivMod
<1>9. PICK u \in Int : u = -q - 1
  OBVIOUS
<1>10. PICK t \in 0 .. p - 1 : t = p - 1 - r
  <2>1. p - 1 - r \in 0 .. p - 1
    OBVIOUS
  <2> QED
    BY <2>1
<1>11. z = p * u + t
  <2>1. p * u = -(p * q) - p
    BY <1>9
  <2>2. p * q \in Int
    OBVIOUS
  <2> QED
    BY <1>3, <1>8, <1>10, <2>1, <2>2
<1>12. z \div p = u
  BY <1>11, Residue
<1>13. u % 2 = 1 - (q % 2)
  BY <1>9
<1>14. BitAt(z, i) = 1 - BitAt(x, i)
  BY <1>7, <1>8, <1>12, <1>13 DEF BitAt
<1>15. Bit(v, i) = BitAt(x, i)
  BY <1>2, BitOfNumber
<1> QED
  BY <1>4, <1>6, <1>14, <1>15

(***************************************************************************)
(* Shifts                                                                   *)
(***************************************************************************)
\* The width of a type is a power of two and divides the number of values,
\* so that the amount may be taken of the number as well as of the pattern.
LEMMA WidthDivides ==
  ASSUME NEW ty \in IntTypes
  PROVE  Divides(Width(ty), Modulus(ty))
<1>1. PICK k \in 0 .. ByteBits : ByteBits = 2 ^ k
  BY ByteAssumption
<1>2. ByteBits \in Nat \ {0} /\ WordBits = 8 * ByteBits
  BY ByteAssumption DEF WordBits
<1>3. 2 ^ 0 = 1 /\ 2 ^ 1 = 2 /\ 2 ^ 2 = 4 /\ 2 ^ 3 = 8
  <2>1. 0 \in 0 .. 8 * ByteBits - 1 /\ 1 \in 0 .. 8 * ByteBits - 1 /\ 2 \in 0 .. 8 * ByteBits - 1
    BY <1>2
  <2>2. 2 ^ (0 + 1) = 2 * 2 ^ 0 /\ 2 ^ (1 + 1) = 2 * 2 ^ 1 /\ 2 ^ (2 + 1) = 2 * 2 ^ 2
    BY <2>1, PowerAssumption
  <2>3. 2 ^ 0 = 1
    BY PowerAssumption
  <2>4. 0 + 1 = 1 /\ 1 + 1 = 2 /\ 2 + 1 = 3
    OBVIOUS
  <2>5. 2 ^ 1 = 2
    BY <2>2, <2>3, <2>4
  <2>6. 2 ^ 2 = 4
    BY <2>2, <2>5, <2>4
  <2> QED
    BY <2>2, <2>3, <2>4, <2>5, <2>6
<1>4. PICK j \in 0 .. 3 : Bytes(ty) = 2 ^ j /\ j < Bytes(ty)
  <2>1. Bytes(ty) \in {1, 2, 4, 8}
    BY DEF Bytes, IntTypes
  <2> QED
    BY <1>3, <2>1
<1>5. /\ Bytes(ty) \in 1 .. 8 /\ Width(ty) = ByteBits * Bytes(ty)
      /\ Width(ty) \in 1 .. WordBits /\ Modulus(ty) = 2 ^ Width(ty)
  BY ModulusPower DEF Width, Bytes, IntTypes
<1>6. k + j <= Width(ty)
  <2>1. PICK c \in 1 .. 8 : c = Bytes(ty) /\ j <= c - 1
    BY <1>4, <1>5
  <2>2. ByteBits * c = ByteBits + ByteBits * (c - 1)
    BY <1>2
  <2>3. ByteBits * (c - 1) >= c - 1
    <3>1. PICK e \in Nat : e = c - 1
      OBVIOUS
    <3>2. e * 1 <= e * ByteBits
      <4>1. CASE e = 0
        BY <1>2, <4>1
      <4>2. CASE e # 0
        BY <1>2, <4>2, ProductMonotone
      <4> QED
        BY <4>1, <4>2
    <3> QED
      BY <1>2, <3>1, <3>2
  <2>4. ByteBits * (c - 1) \in Int
    BY <1>2
  <2> QED
    BY <1>2, <1>5, <2>1, <2>2, <2>3, <2>4
<1>7. PICK g \in Nat : g = Width(ty) - (k + j)
  BY <1>2, <1>5, <1>6
<1>8. k + j \in Nat /\ (k + j) + g = Width(ty) /\ k + j <= WordBits /\ Width(ty) <= WordBits
      /\ g \in 0 .. WordBits
  BY <1>2, <1>5, <1>6, <1>7
<1>9. 2 ^ (k + j) = Width(ty)
  <2>1. 2 ^ (k + j) = 2 ^ k * 2 ^ j
    BY <1>2, <1>8, PowerSum
  <2> QED
    BY <1>1, <1>4, <1>5, <2>1
<1>10. Modulus(ty) = Width(ty) * 2 ^ g
  <2>1. 2 ^ ((k + j) + g) = 2 ^ (k + j) * 2 ^ g
    BY <1>8, PowerSum
  <2> QED
    BY <1>5, <1>8, <1>9, <2>1
<1>11. 2 ^ g \in Nat \ {0}
  BY <1>8, Powers DEF WordBits
<1> QED
  BY <1>10, <1>11 DEF Divides

LEMMA AmountOwn ==
  ASSUME NEW v \in SimValue, v.ty \in IntTypes
  PROVE  /\ ShiftAmount(v.n, v.ty) = Bits(v) % Width(v.ty)
         /\ ShiftAmount(v.n, v.ty) \in 0 .. Width(v.ty) - 1
<1>1. v.n \in Int /\ Width(v.ty) \in Nat \ {0}
  BY ValueFields, ModulusPower
<1>2. (v.n % Modulus(v.ty)) % Width(v.ty) = v.n % Width(v.ty)
  BY <1>1, WidthDivides, DividesMod
<1>3. v.n % Width(v.ty) \in 0 .. Width(v.ty) - 1
  BY <1>1
<1> QED
  BY <1>2, <1>3 DEF ShiftAmount, Bits

LEMMA LeftShift ==
  ASSUME NEW x \in Int, NEW s \in 0 .. WordBits, NEW i \in 0 .. WordBits
  PROVE  BitAt(x * 2 ^ s, i) = IF i < s THEN 0 ELSE BitAt(x, i - s)
<1>1. WordBits \in Nat
  BY ByteAssumption DEF WordBits
<1>2. PICK p \in Nat \ {0} : p = 2 ^ i
  BY Powers DEF WordBits
<1>3. PICK f \in Nat \ {0} : f = 2 ^ s
  BY Powers DEF WordBits
<1>4. PICK y \in Int : y = x * f
  <2>1. x * f \in Int
    OBVIOUS
  <2> QED
    BY <2>1
<1>5. CASE i < s
  <2>1. PICK j \in Nat : s = i + (j + 1) /\ j \in 0 .. WordBits - 1
    <3>1. s - (i + 1) \in Nat /\ s = i + ((s - (i + 1)) + 1)
          /\ s - (i + 1) \in 0 .. WordBits - 1
      BY <1>1, <1>5
    <3> QED
      BY <3>1
  <2>2. PICK h \in Nat \ {0} : h = 2 ^ j
    <3>1. j \in 0 .. WordBits
      BY <1>1, <2>1
    <3> QED
      BY <3>1, Powers DEF WordBits
  <2>3. f = p * (2 * h)
    <3>1. 2 ^ (i + (j + 1)) = 2 ^ i * 2 ^ (j + 1)
      <4>1. i \in Nat /\ j + 1 \in Nat /\ i + (j + 1) <= WordBits
        BY <1>1, <2>1
      <4> QED
        BY <4>1, PowerSum
    <3>2. 2 ^ (j + 1) = 2 * 2 ^ j
      BY <2>1, PowerAssumption DEF WordBits
    <3> QED
      BY <1>2, <1>3, <2>1, <2>2, <3>1, <3>2
  <2>4. PICK z \in Int : z = x * h
    <3>1. x * h \in Int
      OBVIOUS
    <3> QED
      BY <3>1
  <2>5. PICK d \in Int : d = 2 * z
    OBVIOUS
  <2>6. y = p * d + 0
    <3>1. x * (p * (2 * h)) = p * (2 * (x * h))
      OBVIOUS
    <3>2. p * d \in Int
      OBVIOUS
    <3> QED
      BY <1>4, <2>3, <2>4, <2>5, <3>1, <3>2
  <2>7. y \div p = d
    <3>1. 0 \in 0 .. p - 1
      OBVIOUS
    <3> QED
      BY <2>6, <3>1, Residue
  <2>8. d % 2 = 0
    BY <2>5
  <2> QED
    BY <1>2, <1>3, <1>4, <1>5, <2>7, <2>8 DEF BitAt
<1>6. CASE i >= s
  <2>1. PICK j \in Nat : i = s + j /\ j = i - s /\ j \in 0 .. WordBits
    <3>1. i - s \in Nat /\ i = s + (i - s) /\ i - s \in 0 .. WordBits
      BY <1>1, <1>6
    <3> QED
      BY <3>1
  <2>2. PICK h \in Nat \ {0} : h = 2 ^ j
    BY <2>1, Powers DEF WordBits
  <2>3. p = f * h
    <3>1. s \in Nat /\ s + j <= WordBits
      BY <1>1, <2>1
    <3>2. 2 ^ (s + j) = 2 ^ s * 2 ^ j
      BY <3>1, PowerSum
    <3> QED
      BY <1>2, <1>3, <2>1, <2>2, <3>2
  <2>4. y = f * x + 0 /\ 0 \in 0 .. f - 1
    BY <1>4
  <2>5. y \div f = x
    BY <2>4, Residue
  <2>6. y \div (f * h) = (y \div f) \div h
    BY DivideTwice
  <2> QED
    BY <1>2, <1>3, <1>4, <1>6, <2>1, <2>2, <2>3, <2>5, <2>6 DEF BitAt
<1> QED
  BY <1>5, <1>6

\* What is shifted in on the left of a number of w bits is its sign.
LEMMA ShiftedIn ==
  ASSUME NEW x \in Int, NEW w \in 1 .. WordBits, x \div 2 ^ w \in {0, -1},
         NEW s \in 0 .. w - 1, NEW i \in 0 .. w - 1, i + s >= w
  PROVE  BitAt(x \div 2 ^ s, i) = IF x \div 2 ^ w = 0 THEN 0 ELSE 1
<1>1. WordBits \in Nat
  BY ByteAssumption DEF WordBits
<1>2. PICK g \in Nat : g = w - s /\ g \in 0 .. WordBits
  BY <1>1
<1>3. PICK j \in Nat : j = i - g /\ j \in 0 .. WordBits
  <2>1. i - g \in Nat /\ i - g \in 0 .. WordBits
    BY <1>1, <1>2
  <2> QED
    BY <2>1
<1>4. PICK f \in Nat \ {0} : f = 2 ^ s
  <2>1. s \in 0 .. WordBits
    BY <1>1
  <2> QED
    BY <2>1, Powers DEF WordBits
<1>5. PICK h \in Nat \ {0} : h = 2 ^ g
  BY <1>2, Powers DEF WordBits
<1>6. PICK q \in Nat \ {0} : q = 2 ^ j
  BY <1>3, Powers DEF WordBits
<1>7. 2 ^ w = f * h
  <2>1. s \in Nat /\ s + g = w /\ s + g <= WordBits
    BY <1>1, <1>2
  <2> QED
    BY <1>4, <1>5, <2>1, PowerSum
<1>8. 2 ^ i = h * q
  <2>1. g + j = i /\ g + j <= WordBits
    BY <1>1, <1>2, <1>3
  <2> QED
    BY <1>2, <1>5, <1>6, <2>1, PowerSum
<1>9. PICK y \in Int : y = x \div f
  BY DivMod
<1>10. PICK e \in {0, -1} : e = x \div 2 ^ w
  OBVIOUS
<1>11. y \div h = e
  <2>1. (x \div f) \div h = x \div (f * h)
    BY DivideTwice
  <2> QED
    BY <1>7, <1>9, <1>10, <2>1, Zenon
<1>12. y \div (h * q) = e \div q
  BY <1>11, DivideTwice
<1>13. e \div q = e
  <2>1. CASE e = 0
    <3>1. e = q * 0 + 0 /\ 0 \in 0 .. q - 1 /\ e \in Int
      BY <2>1
    <3> QED
      BY <2>1, <3>1, Residue
  <2>2. CASE e = -1
    <3>1. PICK n \in Int : n = -1
      OBVIOUS
    <3>2. e = q * n + (q - 1) /\ q - 1 \in 0 .. q - 1 /\ e \in Int
      BY <2>2, <3>1
    <3>3. e \div q = n
      BY <3>2, Residue
    <3> QED
      BY <2>2, <3>1, <3>3
  <2> QED
    BY <2>1, <2>2
<1>14. e % 2 = IF e = 0 THEN 0 ELSE 1
  OBVIOUS
<1> QED
  BY <1>4, <1>8, <1>9, <1>10, <1>12, <1>13, <1>14 DEF BitAt

LEMMA LeftShiftBits ==
  ASSUME NEW v \in SimValue, NEW w \in SimValue, v.ty = w.ty, v.ty \in IntTypes,
         NEW i \in Places(v.ty), NEW s, s = Bits(w) % Width(v.ty)
  PROVE  Bit(apply_binary("ishl", v, w).val, i) = IF i < s THEN 0 ELSE Bit(v, i - s)
<1>1. v.n \in Int /\ WordBits \in Nat /\ Width(v.ty) \in 1 .. WordBits
  BY ValueFields, ModulusPower, ByteAssumption DEF WordBits
<1>2. ShiftAmount(w.n, v.ty) = s /\ s \in 0 .. Width(v.ty) - 1
  BY AmountOwn
<1>3. IntResult("ishl", v.n, w.n, v.ty) = v.n * 2 ^ s /\ "ishl" \in IntOps
  BY <1>2 DEF IntResult, IntOps
<1>4. Bit(apply_binary("ishl", v, w).val, i) = BitAt(v.n * 2 ^ s, i)
  BY <1>3, BitOfResult
<1>5. s \in 0 .. WordBits /\ i \in 0 .. WordBits
  BY <1>1, <1>2 DEF Places
<1>6. BitAt(v.n * 2 ^ s, i) = IF i < s THEN 0 ELSE BitAt(v.n, i - s)
  BY <1>1, <1>5, LeftShift
<1>7. i >= s => Bit(v, i - s) = BitAt(v.n, i - s)
  <2>1. i >= s => i - s \in Places(v.ty)
    BY <1>1, <1>2 DEF Places
  <2> QED
    BY <2>1, BitOfNumber
<1>8. i < s \/ i >= s
  BY <1>5
<1> QED
  BY <1>4, <1>6, <1>7, <1>8

LEMMA UnsignedShiftBits ==
  ASSUME NEW v \in SimValue, NEW w \in SimValue, v.ty = w.ty, v.ty \in IntTypes,
         NEW i \in Places(v.ty), NEW s, s = Bits(w) % Width(v.ty)
  PROVE  Bit(apply_binary("ushr", v, w).val, i)
         = IF i + s < Width(v.ty) THEN Bit(v, i + s) ELSE 0
<1>1. /\ WordBits \in Nat /\ Width(v.ty) \in 1 .. WordBits
      /\ Modulus(v.ty) = 2 ^ Width(v.ty) /\ Modulus(v.ty) \in Nat \ {0}
  BY ModulusPower, ModulusEven, ByteAssumption DEF WordBits
<1>2. ShiftAmount(w.n, v.ty) = s /\ s \in 0 .. Width(v.ty) - 1
  BY AmountOwn
<1>3. IntResult("ushr", v.n, w.n, v.ty) = Bits(v) \div 2 ^ s /\ "ushr" \in IntOps
  BY <1>2 DEF IntResult, IntOps, Masked, Bits
<1>4. Bit(apply_binary("ushr", v, w).val, i) = BitAt(Bits(v) \div 2 ^ s, i)
  BY <1>3, BitOfResult
<1>5. Bits(v) \in 0 .. Modulus(v.ty) - 1 /\ Bits(v) \in Int
  BY <1>1, ValueFields
<1>6. s \in Nat /\ i \in Nat /\ i \in 0 .. Width(v.ty) - 1 /\ i + s = s + i
  BY <1>1, <1>2 DEF Places
<1>7. CASE i + s < Width(v.ty)
  <2>1. s + i <= WordBits
    BY <1>1, <1>6, <1>7
  <2>2. BitAt(Bits(v) \div 2 ^ s, i) = BitAt(Bits(v), s + i)
    BY <1>5, <1>6, <2>1, HighBits
  <2> QED
    BY <1>4, <1>6, <1>7, <2>2 DEF Bit
<1>8. CASE ~(i + s < Width(v.ty))
  <2>1. Bits(v) \div Modulus(v.ty) = 0
    <3>1. Bits(v) = Modulus(v.ty) * 0 + Bits(v)
      BY <1>1, <1>5
    <3> QED
      BY <1>1, <1>5, <3>1, Residue
  <2>2. i + s >= Width(v.ty)
    BY <1>1, <1>6, <1>8
  <2>3. BitAt(Bits(v) \div 2 ^ s, i) = 0
    BY <1>1, <1>2, <1>5, <1>6, <2>1, <2>2, ShiftedIn
  <2> QED
    BY <1>4, <1>8, <2>3
<1> QED
  BY <1>7, <1>8

LEMMA SignedShiftBits ==
  ASSUME NEW v \in SimValue, NEW w \in SimValue, v.ty = w.ty, v.ty \in IntTypes,
         NEW i \in Places(v.ty), NEW s, s = Bits(w) % Width(v.ty)
  PROVE  Bit(apply_binary("sshr", v, w).val, i)
         = Bit(v, IF i + s < Width(v.ty) THEN i + s ELSE Width(v.ty) - 1)
<1>1. /\ WordBits \in Nat /\ Width(v.ty) \in 1 .. WordBits
      /\ Modulus(v.ty) = 2 ^ Width(v.ty) /\ Modulus(v.ty) \in Nat \ {0}
      /\ Half(v.ty) \in Nat /\ Modulus(v.ty) = 2 * Half(v.ty)
  BY ModulusPower, ModulusEven, ByteAssumption DEF WordBits
<1>2. ShiftAmount(w.n, v.ty) = s /\ s \in 0 .. Width(v.ty) - 1
  BY AmountOwn
<1>3. IntResult("sshr", v.n, w.n, v.ty) = v.n \div 2 ^ s /\ "sshr" \in IntOps
  BY <1>2 DEF IntResult, IntOps
<1>4. Bit(apply_binary("sshr", v, w).val, i) = BitAt(v.n \div 2 ^ s, i)
  BY <1>3, BitOfResult
<1>5. v.n \in Int /\ v.n \in -Half(v.ty) .. Half(v.ty) - 1
  BY ValueFields, IntWidened
<1>6. s \in Nat /\ i \in Nat /\ i \in 0 .. Width(v.ty) - 1 /\ i + s = s + i
  BY <1>1, <1>2 DEF Places
<1>7. CASE i + s < Width(v.ty)
  <2>1. s + i <= WordBits /\ s + i \in Places(v.ty)
    BY <1>1, <1>6, <1>7 DEF Places
  <2>2. BitAt(v.n \div 2 ^ s, i) = BitAt(v.n, s + i)
    BY <1>5, <1>6, <2>1, HighBits
  <2>3. Bit(v, s + i) = BitAt(v.n, s + i)
    BY <2>1, BitOfNumber
  <2> QED
    BY <1>4, <1>6, <1>7, <2>2, <2>3
<1>8. CASE ~(i + s < Width(v.ty))
  <2>1. PICK x \in Int, h \in Nat \ {0} : x = v.n /\ h = Half(v.ty)
    BY <1>1, <1>5
  <2>2. 2 ^ (Width(v.ty) - 1) = h /\ Modulus(v.ty) = 2 * h
    <3>1. Width(v.ty) - 1 \in 0 .. 8 * ByteBits - 1 /\ (Width(v.ty) - 1) + 1 = Width(v.ty)
      BY <1>1 DEF WordBits
    <3>2. 2 ^ Width(v.ty) = 2 * 2 ^ (Width(v.ty) - 1)
      BY <3>1, PowerAssumption
    <3>3. 2 ^ (Width(v.ty) - 1) \in Nat
      <4>1. Width(v.ty) - 1 \in 0 .. 8 * ByteBits
        BY <1>1 DEF WordBits
      <4> QED
        BY <4>1, Powers
    <3> QED
      BY <1>1, <2>1, <3>2, <3>3
  <2>3. PICK e \in Int : e = IF x < 0 THEN -1 ELSE 0
    OBVIOUS
  <2>4. x \div h = e
    <3>1. PICK r \in 0 .. h - 1 : r = IF x < 0 THEN x + h ELSE x
      <4>1. (IF x < 0 THEN x + h ELSE x) \in 0 .. h - 1
        BY <1>5, <2>1
      <4> QED
        BY <4>1
    <3>2. x = h * e + r
      BY <2>3, <3>1
    <3> QED
      BY <3>2, Residue
  <2>5. x \div (2 * h) = e
    <3>1. PICK r \in 0 .. 2 * h - 1 : r = IF x < 0 THEN x + 2 * h ELSE x
      <4>1. (IF x < 0 THEN x + 2 * h ELSE x) \in 0 .. 2 * h - 1
        BY <1>5, <2>1
      <4> QED
        BY <4>1
    <3>2. PICK m \in Nat \ {0} : m = 2 * h
      OBVIOUS
    <3>3. x = m * e + r /\ r \in 0 .. m - 1
      BY <2>3, <3>1, <3>2
    <3>4. x \div m = e
      BY <3>3, Residue
    <3> QED
      BY <3>2, <3>4
  <2>6. BitAt(x \div 2 ^ s, i) = IF e = 0 THEN 0 ELSE 1
    <3>1. x \div 2 ^ Width(v.ty) = e /\ e \in {0, -1}
      BY <1>1, <2>2, <2>3, <2>5
    <3>2. i + s >= Width(v.ty)
      BY <1>1, <1>6, <1>8
    <3> QED
      BY <1>1, <1>2, <1>6, <3>1, <3>2, ShiftedIn
  <2>7. BitAt(x, Width(v.ty) - 1) = IF e = 0 THEN 0 ELSE 1
    <3>1. e % 2 = IF e = 0 THEN 0 ELSE 1
      BY <2>3
    <3> QED
      BY <2>2, <2>4, <3>1 DEF BitAt
  <2>8. Bit(v, Width(v.ty) - 1) = BitAt(x, Width(v.ty) - 1)
    <3>1. Width(v.ty) - 1 \in Places(v.ty)
      BY <1>1 DEF Places
    <3> QED
      BY <2>1, <3>1, BitOfNumber
  <2> QED
    BY <1>4, <1>8, <2>1, <2>6, <2>7, <2>8
<1> QED
  BY <1>7, <1>8

\* The logical operations, the complement and the three shifts do to each bit
\* of an operand what they should, on every width.
THEOREM BitsActExactly == Spec => []BitsExact
<1>1. Operand => BitsExact
  <2> SUFFICES ASSUME a \in SimValue
               PROVE  BitsExact
    BY DEF Operand
  <2> SUFFICES ASSUME IsInt, NEW b \in Peers, NEW i \in Places(a.ty)
               PROVE  LET w == Width(a.ty)
                          s == Bits(b) % w
                      IN  /\ Bit(Res("band", b), i) = (IF Bit(a, i) + Bit(b, i) = 2 THEN 1 ELSE 0)
                          /\ Bit(Res("bor", b), i) = (IF Bit(a, i) + Bit(b, i) = 0 THEN 0 ELSE 1)
                          /\ Bit(Res("bxor", b), i) = (Bit(a, i) + Bit(b, i)) % 2
                          /\ Bit(apply_unary("bnot", a, a.ty).val, i) = 1 - Bit(a, i)
                          /\ Bit(Res("ishl", b), i) = (IF i < s THEN 0 ELSE Bit(a, i - s))
                          /\ Bit(Res("ushr", b), i) = (IF i + s < w THEN Bit(a, i + s) ELSE 0)
                          /\ Bit(Res("sshr", b), i) = Bit(a, IF i + s < w THEN i + s ELSE w - 1)
    BY DEF BitsExact
  <2>1. b \in SimValue /\ a.ty = b.ty /\ a.ty \in IntTypes
    BY PeersAreValues DEF IsInt
  <2>2. /\ Bit(Res("band", b), i) = OnBits("band", Bit(a, i), Bit(b, i))
        /\ Bit(Res("bor", b), i) = OnBits("bor", Bit(a, i), Bit(b, i))
        /\ Bit(Res("bxor", b), i) = OnBits("bxor", Bit(a, i), Bit(b, i))
    BY <2>1, LogicBits DEF Res
  <2>3. /\ OnBits("band", Bit(a, i), Bit(b, i)) = IF Bit(a, i) + Bit(b, i) = 2 THEN 1 ELSE 0
        /\ OnBits("bor", Bit(a, i), Bit(b, i)) = IF Bit(a, i) + Bit(b, i) = 0 THEN 0 ELSE 1
        /\ OnBits("bxor", Bit(a, i), Bit(b, i)) = (Bit(a, i) + Bit(b, i)) % 2
    BY DEF OnBits
  <2>4. Bit(apply_unary("bnot", a, a.ty).val, i) = 1 - Bit(a, i)
    BY <2>1, NotBits
  <2>5. PICK s : s = Bits(b) % Width(a.ty)
    OBVIOUS
  <2>6. Bit(Res("ishl", b), i) = IF i < s THEN 0 ELSE Bit(a, i - s)
    BY <2>1, <2>5, LeftShiftBits DEF Res
  <2>7. Bit(Res("ushr", b), i) = IF i + s < Width(a.ty) THEN Bit(a, i + s) ELSE 0
    BY <2>1, <2>5, UnsignedShiftBits DEF Res
  <2>8. Bit(Res("sshr", b), i) = Bit(a, IF i + s < Width(a.ty) THEN i + s ELSE Width(a.ty) - 1)
    BY <2>1, <2>5, SignedShiftBits DEF Res
  <2> QED
    BY <2>2, <2>3, <2>4, <2>5, <2>6, <2>7, <2>8
<1> QED
  BY <1>1, OperandIsValue, PTL
=============================================================================
