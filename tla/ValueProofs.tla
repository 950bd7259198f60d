----------------------------- MODULE ValueProofs -----------------------------
(***************************************************************************)
(* Lemmas about the values of the interpreter, for the real width of a byte *)
(* and any other: what the conversions, the arithmetic helpers and the two  *)
(* memory helpers return.  SetInduction, of which every proof about a        *)
(* recursive function here makes use, comes first.                          *)
(***************************************************************************)
EXTENDS SimValues, WellFoundedInduction, TLAPS

\* Induction on the natural numbers, with the set of the numbers that satisfy
\* the formula in the place of the formula.
LEMMA SetInduction ==
  ASSUME NEW S, 0 \in S, \A n \in Nat : n \in S => n + 1 \in S
  PROVE  Nat \subseteq S
<1> DEFINE R == OpToRel(<, Nat)
           T == Nat \ S
<1>1. IsWellFoundedOn(R, Nat)
  BY NatLessThanWellFounded
<1>2. \A x, y \in Nat : y < x => <<y, x>> \in R
  BY DEF OpToRel
<1> HIDE DEF R
<1>3. SUFFICES ASSUME T # {} PROVE FALSE
  OBVIOUS
<1>4. T \subseteq Nat
  OBVIOUS
<1> HIDE DEF T
<1>5. PICK x \in T : \A y \in T : ~(<<y, x>> \in R)
  BY <1>1, <1>3, <1>4, WFMin
<1>6. x \in Nat /\ x \notin S /\ x # 0
  BY <1>5 DEF T
<1>7. x - 1 \in Nat /\ x - 1 < x /\ x = (x - 1) + 1
  BY <1>6
<1>8. x - 1 \in T
  BY <1>6, <1>7 DEF T
<1> QED
  BY <1>2, <1>5, <1>6, <1>7, <1>8

(***************************************************************************)
(* The sizes: every modulus is a positive even number, a word has the      *)
(* values of two halves.                                                    *)
(***************************************************************************)
LEMMA EvenProduct ==
  ASSUME NEW h \in Nat, NEW m \in Nat
  PROVE  (2 * h) * m = 2 * (h * m) /\ h * m \in Nat
OBVIOUS

LEMMA PositiveProduct ==
  ASSUME NEW k \in Nat \ {0}, NEW m \in Nat \ {0}
  PROVE  k * m \in Nat \ {0}
OBVIOUS

LEMMA Sizes ==
  /\ ByteMod \in Nat \ {0} /\ B2 \in Nat \ {0} /\ B4 \in Nat \ {0} /\ B8 \in Nat \ {0}
  /\ ByteMod = 2 * (ByteMod \div 2) /\ B2 = 2 * (B2 \div 2)
  /\ B4 = 2 * (B4 \div 2) /\ B8 = 2 * (B8 \div 2)
<1>1. ByteMod \in Nat \ {0} /\ ByteMod = 2 * (ByteMod \div 2)
  BY ByteAssumption
<1>2. ASSUME NEW m \in Nat \ {0}, m = 2 * (m \div 2)
      PROVE  m * m \in Nat \ {0} /\ m * m = 2 * ((m * m) \div 2)
  <2>1. PICK h \in Nat : m = 2 * h
    BY <1>2
  <2>2. m * m = 2 * (h * m) /\ h * m \in Nat
    BY <2>1, EvenProduct
  <2>3. m * m \in Nat \ {0}
    BY PositiveProduct
  <2>4. PICK z \in Nat : m * m = 2 * z
    BY <2>2
  <2>5. (2 * z) \div 2 = z
    OBVIOUS
  <2> QED
    BY <2>3, <2>4, <2>5
<1>3. B2 \in Nat \ {0} /\ B2 = 2 * (B2 \div 2)
  BY <1>1, <1>2 DEF B2
<1>4. B4 \in Nat \ {0} /\ B4 = 2 * (B4 \div 2)
  BY <1>2, <1>3 DEF B4
<1>5. B8 \in Nat \ {0} /\ B8 = 2 * (B8 \div 2)
  BY <1>2, <1>4 DEF B8
<1> QED
  BY <1>1, <1>3, <1>4, <1>5

LEMMA ModulusEven ==
  ASSUME NEW ty
  PROVE  /\ Modulus(ty) \in Nat \ {0} /\ Half(ty) \in Nat
         /\ Modulus(ty) = 2 * Half(ty)
<1>1. Modulus(ty) \in {ByteMod, B2, B4, B8}
  BY DEF Modulus
<1>2. \A m \in {ByteMod, B2, B4, B8} : m \in Nat \ {0} /\ m = 2 * (m \div 2)
  BY Sizes
<1> QED
  BY <1>1, <1>2 DEF Half

LEMMA DivMod ==
  ASSUME NEW x \in Int, NEW m \in Nat \ {0}
  PROVE  /\ x \div m \in Int /\ x % m \in 0 .. m - 1
         /\ x = m * (x \div m) + (x % m)
<1>1. x \div m \in Int /\ x % m \in 0 .. m - 1
  OBVIOUS
<1>2. x = m * (x \div m) + (x % m)
  OBVIOUS
<1> QED
  BY <1>1, <1>2

LEMMA ProductMonotone ==
  ASSUME NEW m \in Nat \ {0}, NEW p \in Int, NEW q \in Int, p <= q
  PROVE  m * p <= m * q
<1>1. PICK k \in Nat : q = p + k
  <2> WITNESS q - p \in Nat
  <2> QED OBVIOUS
<1>2. m * q = m * p + m * k
  BY <1>1
<1>3. m * k \in Nat /\ m * p \in Int
  OBVIOUS
<1> QED
  BY <1>2, <1>3

\* A remainder and a quotient are the only ones.
LEMMA Residue ==
  ASSUME NEW m \in Nat \ {0}, NEW x \in Int, NEW q \in Int, NEW r \in 0 .. m - 1,
         x = m * q + r
  PROVE  x % m = r /\ x \div m = q
<1> DEFINE p == x \div m
           s == x % m
<1>1. p \in Int /\ s \in 0 .. m - 1 /\ x = m * p + s
  BY DivMod
<1> HIDE DEF p, s
<1>2. m * q \in Int /\ m * p \in Int /\ m * p + s = m * q + r
  BY <1>1
<1>3. CASE p >= q + 1
  <2>1. m * (q + 1) <= m * p
    BY <1>1, <1>3, ProductMonotone
  <2>2. m * (q + 1) = m * q + m
    OBVIOUS
  <2> QED
    BY <1>1, <1>2, <2>1, <2>2
<1>4. CASE p + 1 <= q
  <2>1. m * (p + 1) <= m * q
    BY <1>1, <1>4, ProductMonotone
  <2>2. m * (p + 1) = m * p + m
    BY <1>1
  <2> QED
    BY <1>1, <1>2, <2>1, <2>2
<1>5. CASE p = q
  BY <1>1, <1>2, <1>5 DEF p, s
<1> QED
  BY <1>1, <1>3, <1>4, <1>5

\* A number below m * m splits into two digits below m.
LEMMA Digits ==
  ASSUME NEW m \in Nat \ {0}, NEW x \in 0 .. m * m - 1
  PROVE  x % m \in 0 .. m - 1 /\ x \div m \in 0 .. m - 1
<1> DEFINE q == x \div m
<1>0. m * m \in Nat /\ x \in Int /\ 0 <= x /\ x <= m * m - 1
  OBVIOUS
<1>1. x = m * q + (x % m) /\ x % m \in 0 .. m - 1 /\ q \in Int
  BY <1>0, DivMod
<1> HIDE DEF q
<1>2. q >= 0
  <2> SUFFICES ASSUME q <= -1 PROVE FALSE
    BY <1>1
  <2>1. m * q <= m * (-1)
    BY <1>1, ProductMonotone
  <2> QED
    BY <1>0, <1>1, <2>1
<1>3. q < m
  <2> SUFFICES ASSUME q >= m PROVE FALSE
    BY <1>1
  <2>1. m * m <= m * q
    BY <1>1, ProductMonotone
  <2> QED
    BY <1>0, <1>1, <2>1
<1> QED
  BY <1>1, <1>2, <1>3 DEF q

(***************************************************************************)
(* Remainders                                                               *)
(***************************************************************************)
LEMMA ModOnce ==
  ASSUME NEW m \in Nat \ {0}, NEW x \in 0 .. m - 1
  PROVE  x % m = x
<1>1. PICK q \in Int : x = m * q + x
  <2> WITNESS 0 \in Int
  <2> QED
    OBVIOUS
<1> QED
  BY <1>1, Residue

LEMMA ModAdd ==
  ASSUME NEW m \in Nat \ {0}, NEW x \in Int, NEW y \in Int
  PROVE  (x + y) % m = ((x % m) + (y % m)) % m
<1>1. PICK p \in Int, u \in 0 .. m - 1 : x = m * p + u /\ x % m = u
  BY DivMod
<1>2. PICK q \in Int, v \in 0 .. m - 1 : y = m * q + v /\ y % m = v
  BY DivMod
<1>3. PICK t \in Int, r \in 0 .. m - 1 : u + v = m * t + r /\ (u + v) % m = r
  <2>1. u + v \in Int
    OBVIOUS
  <2> QED
    BY <2>1, DivMod
<1>4. PICK z \in Int : z = p + q + t
  OBVIOUS
<1>5. x + y = m * z + r
  <2>1. m * z = m * p + m * q + m * t
    BY <1>4
  <2>2. m * p \in Int /\ m * q \in Int /\ m * t \in Int
    OBVIOUS
  <2> QED
    BY <1>1, <1>2, <1>3, <2>1, <2>2
<1>6. (x + y) % m = r
  <2>1. x + y \in Int
    OBVIOUS
  <2> QED
    BY <1>5, <2>1, Residue
<1> QED
  BY <1>1, <1>2, <1>3, <1>6

LEMMA ModMultiply ==
  ASSUME NEW m \in Nat \ {0}, NEW x \in Int, NEW y \in Int
  PROVE  (x * y) % m = ((x % m) * (y % m)) % m
<1>1. PICK p \in Int, u \in 0 .. m - 1 : x = m * p + u /\ x % m = u
  BY DivMod
<1>2. PICK q \in Int, v \in 0 .. m - 1 : y = m * q + v /\ y % m = v
  BY DivMod
<1>3. PICK t \in Int, r \in 0 .. m - 1 : u * v = m * t + r /\ (u * v) % m = r
  <2>1. u * v \in Int
    OBVIOUS
  <2> QED
    BY <2>1, DivMod
<1>4. PICK z \in Int : z = m * p * q + p * v + q * u + t
  <2>1. m * p * q + p * v + q * u + t \in Int
    OBVIOUS
  <2> QED
    BY <2>1
<1>5. x * y = m * z + r
  <2>1. x * y = (m * p + u) * (m * q + v)
    BY <1>1, <1>2
  <2>2. (m * p + u) * (m * q + v) = m * (m * p * q + p * v + q * u) + u * v
    OBVIOUS
  <2>3. m * (m * p * q + p * v + q * u) + m * t = m * z
    BY <1>4
  <2>4. m * (m * p * q + p * v + q * u) \in Int /\ m * t \in Int
    OBVIOUS
  <2> QED
    BY <1>3, <2>1, <2>2, <2>3, <2>4
<1>6. x * y \in Int
  OBVIOUS
<1>7. (x * y) % m = r
  BY <1>5, <1>6, Residue
<1> QED
  BY <1>1, <1>2, <1>3, <1>7

\* A remainder by a multiple of m says what the remainder by m is.
LEMMA ModMod ==
  ASSUME NEW m \in Nat \ {0}, NEW k \in Nat \ {0}, NEW x \in Int
  PROVE  (x % (m * k)) % m = x % m
<1>1. m * k \in Nat \ {0}
  BY PositiveProduct
<1>2. PICK p \in Int, u \in 0 .. m * k - 1 : x = (m * k) * p + u /\ x % (m * k) = u
  BY <1>1, DivMod
<1>3. u \in Int
  BY <1>1
<1>4. PICK q \in Int, r \in 0 .. m - 1 : u = m * q + r /\ u % m = r
  BY <1>3, DivMod
<1>5. PICK z \in Int : z = k * p + q
  <2>1. k * p + q \in Int
    OBVIOUS
  <2> QED
    BY <2>1
<1>6. x = m * z + r
  <2>1. m * z = (m * k) * p + m * q
    BY <1>5
  <2>2. (m * k) * p \in Int /\ m * q \in Int
    BY <1>1
  <2> QED
    BY <1>2, <1>4, <2>1, <2>2
<1>7. x % m = r
  BY <1>6, Residue
<1> QED
  BY <1>2, <1>4, <1>7

(***************************************************************************)
(* Values and arithmetic                                                    *)
(***************************************************************************)
LEMMA CastType ==
  ASSUME NEW ty \in Types, NEW raw \in Int
  PROVE  Cast(ty, raw) \in SimValue /\ Cast(ty, raw).ty = ty
<1> DEFINE u == raw % Modulus(ty)
<1>1. Modulus(ty) \in Nat \ {0} /\ Half(ty) \in Nat /\ Modulus(ty) = 2 * Half(ty)
  BY ModulusEven
<1>2. u \in 0 .. Modulus(ty) - 1
  BY <1>1
<1>3. Cast(ty, raw).ty = ty /\ Cast(ty, raw).n \in Payload(ty)
  BY <1>1, <1>2 DEF Cast, Payload
<1>4. Cast(ty, raw) \in [ty : Types, n : Int]
  BY <1>1, <1>2 DEF Cast
<1> QED
  BY <1>3, <1>4 DEF SimValue

LEMMA ValueFields ==
  ASSUME NEW v \in SimValue
  PROVE  /\ v.ty \in Types /\ v.n \in Int
         /\ v.n \in Payload(v.ty)
         /\ as_i64(v) \in Int /\ as_u64(v) \in U64
         /\ Bits(v) \in 0 .. Modulus(v.ty) - 1
<1>1. v.ty \in Types /\ v.n \in Int /\ v.n \in Payload(v.ty)
  BY DEF SimValue
<1>2. as_i64(v) \in Int
  BY <1>1, CastType DEF as_i64, SimValue, Types, IntTypes
<1>3. as_u64(v) \in U64 /\ Bits(v) \in 0 .. Modulus(v.ty) - 1
  BY <1>1, Sizes, ModulusEven DEF as_u64, Bits, U64
<1> QED
  BY <1>1, <1>2, <1>3

\* A value is the one its own number is cast to, and its pattern determines
\* its number: a negative number is a modulus below its pattern.
LEMMA CastOwn ==
  ASSUME NEW v \in SimValue
  PROVE  /\ Cast(v.ty, v.n) = v
         /\ v.n < 0 => Bits(v) = v.n + Modulus(v.ty)
         /\ v.n >= 0 => Bits(v) = v.n
<1> DEFINE m == Modulus(v.ty)
           h == Half(v.ty)
<1>1. v.ty \in Types /\ v.n \in Int /\ v.n \in Payload(v.ty)
  BY ValueFields
<1>2. m \in Nat \ {0} /\ h \in Nat /\ m = 2 * h
  BY ModulusEven
<1> HIDE DEF m, h
<1>3. v = [ty |-> v.ty, n |-> v.n]
  BY DEF SimValue
<1>4. CASE v.n >= 0
  <2>1. v.n \in 0 .. m - 1 /\ (v.ty \in IntTypes => v.n < h)
    BY <1>1, <1>2, <1>4 DEF Payload, m, h
  <2>2. v.n % m = v.n
    BY <2>1, <1>1, <1>2
  <2> QED
    BY <2>1, <2>2, <1>1, <1>2, <1>3, <1>4 DEF Cast, Bits, m, h
<1>5. CASE v.n < 0
  <2>1. v.ty \in IntTypes /\ v.n + m \in h .. m - 1
    BY <1>1, <1>2, <1>5 DEF Payload, m, h
  <2>2. PICK q \in Int : v.n = m * q + (v.n + m)
    <3> WITNESS -1 \in Int
    <3> QED
      BY <1>1, <1>2
  <2>4. v.n + m \in 0 .. m - 1
    BY <2>1, <1>1, <1>2
  <2>3. v.n % m = v.n + m
    BY <2>2, <2>4, <1>1, <1>2, Residue
  <2> QED
    BY <2>1, <2>3, <1>1, <1>2, <1>3, <1>5 DEF Cast, Bits, m, h
<1> QED
  BY <1>1, <1>4, <1>5

LEMMA ModulusBound ==
  ASSUME NEW ty
  PROVE  Modulus(ty) <= B8
<1>1. \A m \in Nat \ {0} : m <= m * m
  <2> TAKE m \in Nat \ {0}
  <2>1. m * 1 <= m * m
    BY ProductMonotone
  <2> QED
    BY <2>1
<1>2. ByteMod <= B2 /\ B2 <= B4 /\ B4 <= B8
  BY <1>1, Sizes DEF B2, B4, B8
<1> QED
  BY <1>2, Sizes DEF Modulus

\* Sign extension keeps the number of an integer, and its 64-bit pattern adds
\* the 64-bit modulus to a negative one.
LEMMA IntWidened ==
  ASSUME NEW v \in SimValue, v.ty \in IntTypes
  PROVE  /\ v.n \in -Half(v.ty) .. Half(v.ty) - 1
         /\ as_i64(v) = v.n
         /\ as_u64(v) = IF v.n < 0 THEN v.n + B8 ELSE v.n
         /\ Bits(v) = IF v.n < 0 THEN v.n + Modulus(v.ty) ELSE v.n
<1> DEFINE w == [ty |-> "I64", n |-> v.n]
<1>1. v.n \in Int /\ v.n \in -Half(v.ty) .. Half(v.ty) - 1
  BY ValueFields DEF Payload
<1>2. /\ Half(v.ty) \in Nat /\ Modulus(v.ty) = 2 * Half(v.ty) /\ Modulus(v.ty) <= B8
      /\ Half("I64") \in Nat /\ Modulus("I64") = 2 * Half("I64") /\ Modulus("I64") = B8
  BY ModulusEven, ModulusBound DEF Modulus
<1>3. v.n \in -Half("I64") .. Half("I64") - 1
  BY <1>1, <1>2
<1>4. w \in SimValue /\ w.ty = "I64" /\ w.n = v.n
  BY <1>1, <1>3 DEF SimValue, Types, IntTypes, Payload
<1>5. /\ Cast("I64", v.n) = w
      /\ v.n < 0 => v.n % B8 = v.n + B8
      /\ v.n >= 0 => v.n % B8 = v.n
  BY <1>2, <1>4, CastOwn DEF Bits
<1>6. as_i64(v) = v.n /\ as_u64(v) = IF v.n < 0 THEN v.n + B8 ELSE v.n
  BY <1>1, <1>4, <1>5 DEF as_i64, as_u64
<1>7. Bits(v) = IF v.n < 0 THEN v.n + Modulus(v.ty) ELSE v.n
  BY <1>1, CastOwn
<1> QED
  BY <1>1, <1>6, <1>7

LEMMA CastBits ==
  ASSUME NEW ty \in Types, NEW raw \in Int
  PROVE  Bits(Cast(ty, raw)) = raw % Modulus(ty)
<1> DEFINE m == Modulus(ty)
           u == raw % m
<1>1. m \in Nat \ {0}
  BY ModulusEven
<1>2. u \in 0 .. m - 1
  BY <1>1
<1>3. PICK q \in Int : Cast(ty, raw).n = m * q + u
  <2>1. CASE Cast(ty, raw).n = u
    <3>1. Cast(ty, raw).n = m * 0 + u
      BY <1>1, <1>2, <2>1
    <3> QED
      BY <3>1
  <2>2. CASE Cast(ty, raw).n = u - m
    <3>1. PICK z \in Int : z = -1
      OBVIOUS
    <3>2. Cast(ty, raw).n = m * z + u
      BY <1>1, <1>2, <2>2, <3>1
    <3> QED
      BY <3>2
  <2> QED
    BY <2>1, <2>2 DEF Cast
<1>4. Cast(ty, raw).n \in Int /\ Cast(ty, raw).ty = ty
  BY CastType, ValueFields
<1> HIDE DEF u
<1>5. Cast(ty, raw).n % m = u
  BY <1>1, <1>2, <1>3, <1>4, Residue
<1> QED
  BY <1>4, <1>5 DEF Bits, u

\* A cast to a type keeps a number the type has.
LEMMA CastKeeps ==
  ASSUME NEW ty \in Types, NEW x \in Payload(ty)
  PROVE  Cast(ty, x) = [ty |-> ty, n |-> x]
<1>1. x \in Int
  BY ModulusEven DEF Payload
<1>2. [ty |-> ty, n |-> x] \in SimValue
  BY <1>1 DEF SimValue
<1> QED
  BY <1>2, CastOwn

\* The sizes divide one another.
Divides(m, n) == \E k \in Nat \ {0} : n = m * k

LEMMA SizesDivide ==
  /\ Divides(ByteMod, ByteMod) /\ Divides(ByteMod, B2)
  /\ Divides(ByteMod, B4) /\ Divides(ByteMod, B8)
  /\ Divides(B2, B2) /\ Divides(B2, B4) /\ Divides(B2, B8)
  /\ Divides(B4, B4) /\ Divides(B4, B8) /\ Divides(B8, B8)
<1>1. \A m \in Nat \ {0} : Divides(m, m) /\ Divides(m, m * m)
  <2> TAKE m \in Nat \ {0}
  <2>1. m = m * 1
    OBVIOUS
  <2> QED
    BY <2>1 DEF Divides
<1>2. \A l, m \in Nat \ {0} : Divides(l, m) => Divides(l, m * m)
  <2> SUFFICES ASSUME NEW l \in Nat \ {0}, NEW m \in Nat \ {0}, Divides(l, m)
               PROVE  Divides(l, m * m)
    OBVIOUS
  <2>1. PICK k \in Nat \ {0} : m = l * k
    BY DEF Divides
  <2>2. k * m \in Nat \ {0}
    BY PositiveProduct
  <2>3. m * m = l * (k * m)
    <3>1. (l * k) * m = l * (k * m)
      OBVIOUS
    <3> QED
      BY <2>1, <3>1
  <2> QED
    BY <2>2, <2>3 DEF Divides
<1>3. B2 = ByteMod * ByteMod /\ B4 = B2 * B2 /\ B8 = B4 * B4
  BY DEF B2, B4, B8
<1>4. Divides(ByteMod, B2) /\ Divides(B2, B4) /\ Divides(B4, B8)
  BY <1>1, <1>3, Sizes
<1>5. Divides(ByteMod, B4) /\ Divides(B2, B8)
  BY <1>2, <1>3, <1>4, Sizes
<1>6. Divides(ByteMod, B8)
  BY <1>2, <1>3, <1>5, Sizes
<1> QED
  BY <1>1, <1>4, <1>5, <1>6, Sizes

\* A type of at least as many bytes has a multiple of the values.
LEMMA ModulusDivides ==
  ASSUME NEW s \in Types, NEW ty \in Types, Bytes(s) <= Bytes(ty)
  PROVE  Divides(Modulus(s), Modulus(ty)) /\ Divides(Modulus(s), B8)
<1>1. CASE s = "I8"
  BY <1>1, SizesDivide DEF Modulus, Types, IntTypes, FloatTypes
<1>2. CASE s = "I16"
  BY <1>2, SizesDivide DEF Modulus, Bytes, Types, IntTypes, FloatTypes
<1>3. CASE s \in {"I32", "F32"}
  BY <1>3, SizesDivide DEF Modulus, Bytes, Types, IntTypes, FloatTypes
<1>4. CASE s \in {"I64", "F64"}
  BY <1>4, SizesDivide DEF Modulus, Bytes, Types, IntTypes, FloatTypes
<1> QED
  BY <1>1, <1>2, <1>3, <1>4 DEF Types, IntTypes, FloatTypes

LEMMA DividesMod ==
  ASSUME NEW m \in Nat \ {0}, NEW n, Divides(m, n), NEW x \in Int
  PROVE  (x % n) % m = x % m
BY ModMod DEF Divides

\* A cast looks at the remainder alone.
LEMMA CastAgain ==
  ASSUME NEW v \in SimValue, NEW raw \in Int,
         raw % Modulus(v.ty) = v.n % Modulus(v.ty)
  PROVE  Cast(v.ty, raw) = v
<1>1. Cast(v.ty, raw) = Cast(v.ty, v.n)
  BY DEF Cast
<1> QED
  BY <1>1, CastOwn

LEMMA ByteHalves ==
  /\ \A x \in 0 .. B2 - 1 : x % ByteMod \in Byte /\ x \div ByteMod \in Byte
  /\ \A x \in 0 .. B4 - 1 : x % B2 \in 0 .. B2 - 1 /\ x \div B2 \in 0 .. B2 - 1
  /\ \A x \in 0 .. B8 - 1 : x % B4 \in 0 .. B4 - 1 /\ x \div B4 \in 0 .. B4 - 1
<1>1. \A m \in Nat \ {0} : \A x \in 0 .. m * m - 1 :
        x % m \in 0 .. m - 1 /\ x \div m \in 0 .. m - 1
  BY Digits
<1>2. B2 = ByteMod * ByteMod /\ B4 = B2 * B2 /\ B8 = B4 * B4
  BY DEF B2, B4, B8
<1> QED
  BY <1>1, <1>2, Sizes DEF Byte

LEMMA BitOpType ==
  ASSUME NEW op \in {"band", "bor", "bxor"}, NEW x \in U64, NEW y \in U64
  PROVE  BitOp(op, x, y) \in Int
<1>0. \A a, b \in Byte : ByteOp(op, a, b) \in Byte
  BY HostAssumption, Zenon
<1>1. \A a, b \in Byte : ByteOp(op, a, b) \in Int
  BY <1>0, Sizes DEF Byte
<1>2. ASSUME NEW k \in Int, NEW p \in Int, NEW q \in Int
      PROVE  p + k * q \in Int
  OBVIOUS
<1>3. ASSUME NEW a \in 0 .. B2 - 1, NEW b \in 0 .. B2 - 1
      PROVE  BitOp2(op, a, b) \in Int
  <2>1. /\ ByteOp(op, a % ByteMod, b % ByteMod) \in Int
        /\ ByteOp(op, a \div ByteMod, b \div ByteMod) \in Int
    BY <1>1, ByteHalves
  <2> QED
    BY <1>2, <2>1, Sizes DEF BitOp2
<1>4. ASSUME NEW a \in 0 .. B4 - 1, NEW b \in 0 .. B4 - 1
      PROVE  BitOp4(op, a, b) \in Int
  <2>1. BitOp2(op, a % B2, b % B2) \in Int /\ BitOp2(op, a \div B2, b \div B2) \in Int
    BY <1>3, ByteHalves
  <2> QED
    BY <1>2, <2>1, Sizes DEF BitOp4
<1>5. BitOp4(op, x % B4, y % B4) \in Int /\ BitOp4(op, x \div B4, y \div B4) \in Int
  BY <1>4, ByteHalves DEF U64
<1> QED
  BY <1>2, <1>5, Sizes DEF BitOp

LEMMA QuotientType ==
  ASSUME NEW x \in Int, NEW y \in Int, y # 0
  PROVE  Quotient(x, y) \in Int
BY DEF Quotient, Abs

\* The powers of two PowerAssumption speaks of.
LEMMA Powers == \A k \in 0 .. 8 * ByteBits : 2 ^ k \in Nat \ {0}
<1> DEFINE S == { k \in Nat : k <= 8 * ByteBits => 2 ^ k \in Nat \ {0} }
<1>1. ByteBits \in Nat
  BY ByteAssumption
<1>2. 0 \in S
  BY PowerAssumption
<1>3. ASSUME NEW k \in Nat, k \in S PROVE k + 1 \in S
  <2> SUFFICES ASSUME k + 1 <= 8 * ByteBits PROVE 2 ^ (k + 1) \in Nat \ {0}
    OBVIOUS
  <2>1. k \in 0 .. 8 * ByteBits - 1 /\ 2 ^ k \in Nat \ {0}
    BY <1>1, <1>3
  <2>2. 2 ^ (k + 1) = 2 * 2 ^ k
    BY <2>1, PowerAssumption
  <2>3. \A x \in Nat \ {0} : 2 * x \in Nat \ {0}
    OBVIOUS
  <2> QED
    BY <2>1, <2>2, <2>3
<1> HIDE DEF S
<1>4. Nat \subseteq S
  BY <1>2, <1>3, SetInduction
<1> QED
  BY <1>1, <1>4 DEF S

LEMMA ShiftFactor ==
  ASSUME NEW ty \in IntTypes, NEW y \in Int
  PROVE  2 ^ ShiftAmount(y, ty) \in Nat \ {0}
<1>1. Width(ty) \in 1 .. 8 * ByteBits
  BY ByteAssumption DEF Width, Bytes, IntTypes
<1>2. ByteBits \in Nat
  BY ByteAssumption
<1>3. ShiftAmount(y, ty) \in 0 .. 8 * ByteBits - 1
  BY <1>1, <1>2 DEF ShiftAmount
<1> QED
  BY <1>2, <1>3, Powers

LEMMA IntResultType ==
  ASSUME NEW op \in IntOps, NEW x \in Int, NEW y \in Int, NEW ty \in IntTypes
  PROVE  IntResult(op, x, y, ty) \in Int
<1> DEFINE xu == Masked(x, ty)
           yu == Masked(y, ty)
           shift == 2 ^ ShiftAmount(y, ty)
<1>1. xu \in Nat /\ yu \in Nat
  BY ModulusEven DEF Masked
<1>2. shift \in Nat \ {0}
  BY ShiftFactor
<1>3. x % B8 \in U64 /\ y % B8 \in U64
  BY Sizes DEF U64
<1> HIDE DEF xu, yu, shift
<1>4. x + y \in Int /\ x - y \in Int /\ x * y \in Int
  OBVIOUS
<1>5. ~NoQuotient(x, y) => Quotient(x, y) \in Int /\ x - y * Quotient(x, y) \in Int
  <2>1. ~NoQuotient(x, y) => y # 0
    BY DEF NoQuotient
  <2>2. ~NoQuotient(x, y) => Quotient(x, y) \in Int
    BY <2>1, QuotientType
  <2>3. \A q \in Int : x - y * q \in Int
    OBVIOUS
  <2> QED
    BY <2>2, <2>3
<1>6. yu # 0 => xu \div yu \in Int /\ xu % yu \in Int
  BY <1>1
<1>7. x * shift \in Int /\ xu \div shift \in Int /\ x \div shift \in Int
  BY <1>1, <1>2
<1>8. op \in {"band", "bor", "bxor"} => BitOp(op, x % B8, y % B8) \in Int
  BY <1>3, BitOpType
<1> QED
  BY <1>4, <1>5, <1>6, <1>7, <1>8 DEF IntResult, xu, yu, shift

(***************************************************************************)
(* Results.  Every helper returns a value or an error of SimError; on well  *)
(* typed operands it returns a value of the type the instruction promises.  *)
(***************************************************************************)
\* The errors an instruction can end in, the budget and the end of a block
\* aside.
StepError == {"UnsupportedOpcode", "OutOfBounds", "UndefinedValue", "TypeMismatch"}

Outcome == [err : StepError \cup {"none"}, val : SimValue]

LEMMA OkOutcome ==
  ASSUME NEW v \in SimValue
  PROVE  Ok(v) \in Outcome /\ Ok(v).err = "none" /\ Ok(v).val = v
BY DEF Ok, Outcome

LEMMA ErrOutcome ==
  ASSUME NEW e \in StepError
  PROVE  Err(e) \in Outcome /\ Err(e).err = e /\ e # "none"
<1>1. zero_of("I64") \in SimValue
  BY CastType DEF zero_of, Types, IntTypes
<1> QED
  BY <1>1 DEF Err, Outcome, StepError

LEMMA CastOutcome ==
  ASSUME NEW ty \in Types, NEW raw \in Int
  PROVE  /\ Ok(Cast(ty, raw)) \in Outcome
         /\ Ok(Cast(ty, raw)).err = "none"
         /\ Ok(Cast(ty, raw)).val.ty = ty
BY CastType, OkOutcome

LEMMA FloatOutcome ==
  ASSUME NEW op, NEW a \in SimValue, NEW b \in SimValue,
         a.ty = b.ty, a.ty \in FloatTypes
  PROVE  /\ apply_float(op, a.n, b.n, a.ty) \in Outcome
         /\ op \in FloatOps => /\ apply_float(op, a.n, b.n, a.ty).err = "none"
                               /\ apply_float(op, a.n, b.n, a.ty).val.ty = a.ty
<1>1. CASE op \notin FloatOps
  BY <1>1, ErrOutcome DEF apply_float, StepError
<1>2. CASE op \in FloatOps
  <2> DEFINE n == IF a.ty = "F32" THEN Narrow(FloatArith(op, Widen(a.n), Widen(b.n)))
                                  ELSE FloatArith(op, a.n, b.n)
  <2>1. \A x, y : FloatArith(op, x, y) \in U64
    BY Sizes DEF FloatArith, U64
  <2>2. \A x \in U64 : Narrow(x) \in 0 .. B4 - 1
    BY HostAssumption, Zenon
  <2>3. n \in Payload(a.ty) /\ n \in Int
    <3>1. CASE a.ty = "F32"
      <4>1. n \in 0 .. B4 - 1
        BY <2>1, <2>2, <3>1
      <4> QED
        BY <3>1, <4>1, Sizes DEF Payload, Modulus, IntTypes
    <3>2. CASE a.ty # "F32"
      <4>1. n \in U64
        BY <2>1, <3>2
      <4>2. a.ty = "F64"
        BY <3>2 DEF FloatTypes
      <4> QED
        BY <4>1, <4>2, Sizes DEF Payload, Modulus, IntTypes, U64
    <3> QED
      BY <3>1, <3>2
  <2> HIDE DEF n
  <2>4. [ty |-> a.ty, n |-> n] \in SimValue
    BY <2>3 DEF SimValue, Types
  <2>5. apply_float(op, a.n, b.n, a.ty) = Ok([ty |-> a.ty, n |-> n])
    BY <1>2 DEF apply_float, n
  <2> QED
    BY <2>4, <2>5, OkOutcome
<1> QED
  BY <1>1, <1>2

LEMMA ConvertOutcome ==
  ASSUME NEW raw \in Int, NEW ty, NEW tys \in SUBSET Types
  PROVE  /\ Convert(raw, ty, tys) \in Outcome
         /\ ty \in tys => /\ Convert(raw, ty, tys).err = "none"
                          /\ Convert(raw, ty, tys).val.ty = ty
<1>1. CASE ty \in tys
  BY <1>1, CastOutcome DEF Convert
<1>2. CASE ty \notin tys
  BY <1>2, ErrOutcome DEF Convert, StepError
<1> QED
  BY <1>1, <1>2

(***************************************************************************)
(* Memory                                                                   *)
(***************************************************************************)
LEMMA AddressType ==
  ASSUME NEW base \in SimValue, NEW off \in Int
  PROVE  Address(base, off) \in Nat
<1>1. (as_u64(base) + off) % B8 \in Int
  BY ValueFields, Sizes DEF U64
<1> QED
  BY <1>1, UsizeAssumption DEF Address

LEMMA BytesType ==
  ASSUME NEW ty
  PROVE  Bytes(ty) \in {1, 2, 4, 8, 16}
BY DEF Bytes

LEMMA FlagType ==
  ASSUME NEW b
  PROVE  Flag(b) \in SimValue /\ Flag(b).ty = "I8"
BY CastType DEF Flag, Types, IntTypes

LEMMA WordType ==
  ASSUME NEW m \in Seq(Byte), NEW addr \in Nat
  PROVE  /\ addr + 1 <= Len(m) => m[addr + 1] \in Int
         /\ addr + 2 <= Len(m) => LE2(m, addr) \in Int
         /\ addr + 4 <= Len(m) => LE4(m, addr) \in Int
         /\ addr + 8 <= Len(m) => LE8(m, addr) \in Int
<1>0. \A p, k, q \in Int : p + k * q \in Int
  OBVIOUS
<1>1. \A j \in 1 .. Len(m) : m[j] \in Int
  <2>1. \A j \in 1 .. Len(m) : m[j] \in Byte
    OBVIOUS
  <2> QED
    BY <2>1, Sizes DEF Byte
<1>2. \A a \in Nat : a + 2 <= Len(m) => LE2(m, a) \in Int
  <2> TAKE a \in Nat
  <2> HAVE a + 2 <= Len(m)
  <2>1. m[a + 1] \in Int /\ m[a + 2] \in Int
    BY <1>1
  <2> QED
    BY <1>0, <2>1, Sizes DEF LE2
<1>3. \A a \in Nat : a + 4 <= Len(m) => LE4(m, a) \in Int
  <2> TAKE a \in Nat
  <2> HAVE a + 4 <= Len(m)
  <2>1. LE2(m, a) \in Int /\ LE2(m, a + 2) \in Int
    BY <1>2
  <2> QED
    BY <1>0, <2>1, Sizes DEF LE4
<1>4. \A a \in Nat : a + 8 <= Len(m) => LE8(m, a) \in Int
  <2> TAKE a \in Nat
  <2> HAVE a + 8 <= Len(m)
  <2>1. LE4(m, a) \in Int /\ LE4(m, a + 4) \in Int
    BY <1>3
  <2> QED
    BY <1>0, <2>1, Sizes DEF LE8
<1> QED
  BY <1>1, <1>2, <1>3, <1>4

LEMMA LoadOutcome ==
  ASSUME NEW m \in Seq(Byte), NEW addr \in Nat, NEW ty
  PROVE  /\ load_from(m, addr, ty) \in Outcome
         /\ ty \in Types =>
              /\ load_from(m, addr, ty).err \in {"none", "OutOfBounds"}
              /\ load_from(m, addr, ty).err = "none" => load_from(m, addr, ty).val.ty = ty
<1>1. CASE OutOfBounds(m, addr, Bytes(ty))
  BY <1>1, ErrOutcome DEF load_from, StepError
<1>2. CASE ~OutOfBounds(m, addr, Bytes(ty)) /\ ty \notin Types
  BY <1>2, ErrOutcome DEF load_from, StepError
<1>3. CASE ~OutOfBounds(m, addr, Bytes(ty)) /\ ty \in Types
  <2>1. addr + Bytes(ty) <= Len(m) /\ Bytes(ty) \in {1, 2, 4, 8}
    BY <1>3, UsizeAssumption DEF OutOfBounds, Bytes, Types, IntTypes, FloatTypes
  <2>2. from_le_bytes(m, addr, Bytes(ty)) \in Int
    BY <2>1, WordType DEF from_le_bytes
  <2>3. load_from(m, addr, ty) = Ok(Cast(ty, from_le_bytes(m, addr, Bytes(ty))))
    BY <1>3 DEF load_from
  <2> QED
    BY <1>3, <2>2, <2>3, CastOutcome
<1> QED
  BY <1>1, <1>2, <1>3

LEMMA StoredByte ==
  ASSUME NEW v \in SimValue, NEW i \in Nat, i < Bytes(v.ty)
  PROVE  to_le_bytes(Bits(v), i, Bytes(v.ty)) \in Byte
<1>1. \A u \in 0 .. B2 - 1, k \in Int : Byte2(u, k) \in Byte
  BY ByteHalves DEF Byte2
<1>2. \A u \in 0 .. B4 - 1, k \in Int : Byte4(u, k) \in Byte
  BY <1>1, ByteHalves DEF Byte4
<1>3. \A u \in 0 .. B8 - 1, k \in Int : Byte8(u, k) \in Byte
  BY <1>2, ByteHalves DEF Byte8
<1>4. Bits(v) \in 0 .. Modulus(v.ty) - 1 /\ v.ty \in Types
  BY ValueFields
<1>5. CASE v.ty = "I8"
  BY <1>4, <1>5 DEF to_le_bytes, Bytes, Modulus, Byte
<1>6. CASE v.ty = "I16"
  BY <1>1, <1>4, <1>6 DEF to_le_bytes, Bytes, Modulus
<1>7. CASE v.ty \in {"I32", "F32"}
  BY <1>2, <1>4, <1>7 DEF to_le_bytes, Bytes, Modulus
<1>8. CASE v.ty \in {"I64", "F64"}
  BY <1>3, <1>4, <1>8 DEF to_le_bytes, Bytes, Modulus
<1> QED
  BY <1>4, <1>5, <1>6, <1>7, <1>8 DEF Types, IntTypes, FloatTypes

\* A store changes the bytes it addresses and no other, or reports a fault
\* and changes nothing.
LEMMA StoreOutcome ==
  ASSUME NEW m \in Seq(Byte), NEW addr \in Nat, NEW v \in SimValue
  PROVE  LET r == store_to(m, addr, v)
         IN  /\ r.err \in {"none", "OutOfBounds"}
             /\ r.mem \in Seq(Byte)
             /\ Len(r.mem) = Len(m)
             /\ r.err # "none" => r.mem = m
             /\ \A j \in DOMAIN m : r.mem[j] # m[j] =>
                  j - 1 \in addr .. addr + Bytes(v.ty) - 1
<1>1. CASE OutOfBounds(m, addr, Bytes(v.ty))
  BY <1>1 DEF store_to
<1>2. CASE ~OutOfBounds(m, addr, Bytes(v.ty))
  <2> DEFINE w == [j \in 1 .. Len(m) |->
                     IF addr < j /\ j <= addr + Bytes(v.ty)
                     THEN to_le_bytes(Bits(v), j - 1 - addr, Bytes(v.ty)) ELSE m[j]]
  <2>1. store_to(m, addr, v) = [err |-> "none", mem |-> w]
    BY <1>2 DEF store_to
  <2>2. Bytes(v.ty) \in Nat
    BY BytesType
  <2>3. \A j \in 1 .. Len(m) : w[j] \in Byte
    <3> TAKE j \in 1 .. Len(m)
    <3>1. CASE addr < j /\ j <= addr + Bytes(v.ty)
      <4>1. j - 1 - addr \in Nat /\ j - 1 - addr < Bytes(v.ty)
        BY <2>2, <3>1
      <4> QED
        BY <3>1, <4>1, StoredByte
    <3>2. CASE ~(addr < j /\ j <= addr + Bytes(v.ty))
      BY <3>2
    <3> QED
      BY <3>1, <3>2
  <2>4. w \in Seq(Byte) /\ Len(w) = Len(m)
    BY <2>3
  <2>5. \A j \in DOMAIN m : w[j] # m[j] => j - 1 \in addr .. addr + Bytes(v.ty) - 1
    BY <2>2
  <2> HIDE DEF w
  <2> QED
    BY <2>1, <2>4, <2>5
<1> QED
  BY <1>1, <1>2
=============================================================================
