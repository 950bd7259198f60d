---------------------------- MODULE LanesProofs ----------------------------
(***************************************************************************)
(* Proofs about signatures and lowered arguments, for every helper, every   *)
(* wrapper, every list of expressions, both pointer widths and the real     *)
(* width of a byte: the two traits agree, and the helper reads what the     *)
(* caller meant.                                                            *)
(***************************************************************************)
EXTENDS Lanes, ValueProofs, SequenceTheorems

(***************************************************************************)
(* push_params of a list of types                                           *)
(***************************************************************************)
Unitary == Units \cup {""}

\* One turn: what the first n types push, from what the first n - 1 do.
Turn(types, g, n) ==
  IF n = 0 THEN <<>>
  ELSE IF types[n] \in Units \cup {""} THEN g[n - 1]
  ELSE Append(g[n - 1], types[n])

Pushes(types) == CHOOSE first : first = [n \in 0 .. Len(types) |-> Turn(types, first, n)]

LEMMA TurnCases ==
  ASSUME NEW types, NEW g
  PROVE  /\ Turn(types, g, 0) = <<>>
         /\ \A n : n # 0 => Turn(types, g, n) = IF types[n] \in Unitary THEN g[n - 1]
                                               ELSE Append(g[n - 1], types[n])
BY Zenon DEF Turn, Unitary

LEMMA PushesExist ==
  ASSUME NEW types, Len(types) \in Nat
  PROVE  \E g : g = [n \in 0 .. Len(types) |-> Turn(types, g, n)]
<1> DEFINE L == Len(types)
           D == 0 .. L
           Filled(g, k) == \A n \in D : n <= k => g[n] = Turn(types, g, n)
           S == { k \in Nat : \E g : g = [n \in D |-> g[n]] /\ Filled(g, k) }
<1>1. L \in Nat
  OBVIOUS
<1>2. 0 \in S
  <2> DEFINE g == [n \in D |-> << >>]
  <2>1. g[0] = <<>> /\ \A n \in D : n <= 0 => n = 0
    BY <1>1
  <2>2. g = [n \in D |-> g[n]] /\ Filled(g, 0)
    <3> HIDE DEF D
    <3> QED
      BY Zenon, <2>1, TurnCases
  <2> QED
    BY <2>2
<1>3. ASSUME NEW k \in Nat, k \in S PROVE k + 1 \in S
  <2>1. PICK g : g = [n \in D |-> g[n]] /\ Filled(g, k)
    BY <1>3
  <2> DEFINE h == [n \in D |-> IF n = k + 1 THEN Turn(types, g, n) ELSE g[n]]
  <2>2. h = [n \in D |-> h[n]]
    OBVIOUS
  <2>3. ASSUME NEW n \in D, n <= k + 1
        PROVE  Turn(types, h, n) = Turn(types, g, n)
    <3>1. n # 0 => n - 1 \in D /\ h[n - 1] = g[n - 1]
      BY <1>1, <2>3
    <3> HIDE DEF h
    <3> QED
      BY <3>1 DEF Turn
  <2>4. Filled(h, k + 1)
    <3> SUFFICES ASSUME NEW n \in D, n <= k + 1 PROVE h[n] = Turn(types, h, n)
      OBVIOUS
    <3>1. CASE n = k + 1
      BY <2>3, <3>1
    <3>2. CASE n # k + 1
      <4>1. n <= k /\ h[n] = g[n]
        BY <1>1, <3>2
      <4> QED
        BY <2>1, <2>3, <4>1
    <3> QED
      BY <3>1, <3>2
  <2> HIDE DEF h
  <2> QED
    BY <2>2, <2>4
<1> HIDE DEF S
<1>4. L \in S
  BY <1>1, <1>2, <1>3, SetInduction
<1>5. PICK g : g = [n \in D |-> g[n]] /\ Filled(g, L)
  BY <1>4 DEF S
<1>6. \A n \in D : g[n] = Turn(types, g, n)
  BY <1>1, <1>5
<1>7. g = [n \in D |-> Turn(types, g, n)]
  BY <1>5, <1>6
<1> QED
  BY <1>7

LEMMA PushesTurn ==
  ASSUME NEW types, Len(types) \in Nat
  PROVE  /\ NativeParams(types) = Pushes(types)[Len(types)]
         /\ \A n \in 0 .. Len(types) : Pushes(types)[n] = Turn(types, Pushes(types), n)
<1>1. PICK g : g = [n \in 0 .. Len(types) |-> Turn(types, g, n)]
  BY PushesExist
<1>2. Pushes(types) = [n \in 0 .. Len(types) |-> Turn(types, Pushes(types), n)]
  BY <1>1 DEF Pushes
<1>3. NativeParams(types) = Pushes(types)[Len(types)]
  BY Zenon DEF NativeParams, Pushes, Turn
<1> QED
  BY <1>2, <1>3

\* The types that push a lane, none of them equivalent to unit.
LEMMA NativeType ==
  ASSUME NEW T, NEW types \in Seq(T)
  PROVE  NativeParams(types) \in Seq(T \ Unitary)
<1> DEFINE p == Pushes(types)
           S == { n \in Nat : n <= Len(types) => p[n] \in Seq(T \ Unitary) }
<1>1. Len(types) \in Nat /\ \A n \in 1 .. Len(types) : types[n] \in T
  BY ElementOfSeq
<1>2. /\ NativeParams(types) = p[Len(types)]
      /\ \A n \in 0 .. Len(types) : p[n] = Turn(types, p, n)
  BY <1>1, PushesTurn
<1> HIDE DEF p
<1>3. 0 \in S
  <2>1. p[0] = <<>> /\ <<>> \in Seq(T \ Unitary)
    BY <1>1, <1>2, TurnCases
  <2> QED
    BY <2>1
<1>4. ASSUME NEW n \in Nat, n \in S PROVE n + 1 \in S
  <2> SUFFICES ASSUME n + 1 <= Len(types) PROVE p[n + 1] \in Seq(T \ Unitary)
    OBVIOUS
  <2>1. p[n] \in Seq(T \ Unitary) /\ types[n + 1] \in T
    BY <1>1, <1>4
  <2>2. p[n + 1] = Turn(types, p, n + 1) /\ n + 1 # 0 /\ (n + 1) - 1 = n
    BY <1>1, <1>2
  <2>3. p[n + 1] = IF types[n + 1] \in Unitary THEN p[n] ELSE Append(p[n], types[n + 1])
    BY <2>2, TurnCases
  <2> QED
    BY <2>1, <2>3
<1> HIDE DEF S
<1>5. Len(types) \in S
  BY <1>1, <1>3, <1>4, SetInduction
<1> QED
  BY <1>2, <1>5 DEF S

LEMMA NativeOne ==
  ASSUME NEW ty
  PROVE  NativeParams(<<ty>>) = IF ty \in Unitary THEN <<>> ELSE <<ty>>
<1> DEFINE p == Pushes(<<ty>>)
<1>1. Len(<<ty>>) = 1 /\ <<ty>>[1] = ty
  OBVIOUS
<1>2. NativeParams(<<ty>>) = p[1] /\ p[1] = Turn(<<ty>>, p, 1) /\ p[0] = Turn(<<ty>>, p, 0)
  <2>1. Len(<<ty>>) \in Nat /\ 0 \in 0 .. Len(<<ty>>) /\ 1 \in 0 .. Len(<<ty>>)
    BY <1>1
  <2> QED
    BY <1>1, <2>1, PushesTurn
<1> HIDE DEF p
<1>3. p[0] = <<>>
  BY <1>2, TurnCases
<1>4. p[1] = IF ty \in Unitary THEN <<>> ELSE Append(<<>>, ty)
  <2>1. 1 - 1 = 0
    OBVIOUS
  <2> QED
    BY <1>1, <1>2, <1>3, <2>1, TurnCases
<1> QED
  BY <1>2, <1>4

(***************************************************************************)
(* Lanes                                                                    *)
(***************************************************************************)
Widths == {"I32", "I64"}

LEMMA LaneType ==
  ASSUME NEW ty, NEW ptr \in Widths
  PROVE  /\ ParamLane(ty, ptr) \in Types
         /\ ty \notin Floats => ParamLane(ty, ptr) \in IntTypes
         /\ ty \notin Floats => ArgLane(ty, ptr) = ParamLane(ty, ptr)
BY DEF ParamLane, ArgLane, Floats, Types, IntTypes, FloatTypes, Widths

LEMMA PushType ==
  ASSUME NEW T, NEW types \in Seq(T), NEW ptr \in Widths
  PROVE  /\ push_params(types, ptr) \in Seq(Types)
         /\ DOMAIN push_params(types, ptr) = DOMAIN NativeParams(types)
         /\ \A j \in DOMAIN NativeParams(types) :
              push_params(types, ptr)[j] = ParamLane(NativeParams(types)[j], ptr)
<1>1. NativeParams(types) \in Seq(T \ Unitary)
  BY NativeType
<1>2. DOMAIN NativeParams(types) = 1 .. Len(NativeParams(types))
      /\ Len(NativeParams(types)) \in Nat
  BY <1>1, LenProperties
<1>3. \A j \in DOMAIN NativeParams(types) : ParamLane(NativeParams(types)[j], ptr) \in Types
  BY LaneType
<1> QED
  BY <1>2, <1>3 DEF push_params

LEMMA PushOne ==
  ASSUME NEW ty, NEW ptr \in Widths
  PROVE  /\ push_params(<<ty>>, ptr) = IF ty \in Unitary THEN <<>> ELSE <<ParamLane(ty, ptr)>>
         /\ push_params(<<ty>>, ptr) \in Seq(Types) /\ Len(push_params(<<ty>>, ptr)) <= 1
<1>1. CASE ty \in Unitary
  <2>1. push_params(<<ty>>, ptr) = <<>>
    BY <1>1, NativeOne DEF push_params
  <2>2. <<>> \in Seq(Types) /\ Len(<<>>) = 0
    OBVIOUS
  <2> QED
    BY <1>1, <2>1, <2>2
<1>2. CASE ty \notin Unitary
  <2>1. NativeParams(<<ty>>) = <<ty>>
    BY <1>2, NativeOne
  <2>2. push_params(<<ty>>, ptr) = <<ParamLane(ty, ptr)>>
    BY <2>1 DEF push_params
  <2>3. PICK lane \in Types : lane = ParamLane(ty, ptr)
    BY LaneType
  <2>4. <<lane>> \in Seq(Types) /\ Len(<<lane>>) <= 1
    OBVIOUS
  <2>5. push_params(<<ty>>, ptr) \in Seq(Types) /\ Len(push_params(<<ty>>, ptr)) <= 1
    BY Zenon, <2>2, <2>3, <2>4
  <2> QED
    BY Zenon, <1>2, <2>2, <2>5
<1> QED
  BY <1>1, <1>2

\* The passage of a constant through i64 leaves its lane as it is.
LEMMA IconstIsCast ==
  ASSUME NEW ty \in IntTypes, NEW raw \in Int
  PROVE  iconst(ty, raw) = Cast(ty, raw)
<1> DEFINE w == Cast("I64", raw)
<1>1. ty \in Types /\ "I64" \in Types /\ Modulus("I64") = B8 /\ "I64" \in IntTypes
  BY DEF Types, IntTypes, Modulus
<1>2. w \in SimValue /\ w.ty = "I64" /\ w.n \in Int
  BY <1>1, CastType, ValueFields
<1>3. w.n % B8 = raw % B8
  BY <1>1, <1>2, CastBits DEF Bits
<1> HIDE DEF w
<1>4. Modulus(ty) \in Nat \ {0} /\ Divides(Modulus(ty), B8)
  <2>1. Bytes(ty) <= Bytes("I64")
    BY DEF Bytes, IntTypes
  <2> QED
    BY <1>1, <2>1, ModulusEven, ModulusDivides
<1>5. (w.n % B8) % Modulus(ty) = w.n % Modulus(ty)
  BY <1>2, <1>4, DividesMod
<1>6. (raw % B8) % Modulus(ty) = raw % Modulus(ty)
  BY <1>4, DividesMod
<1>7. w.n % Modulus(ty) = raw % Modulus(ty)
  BY <1>3, <1>5, <1>6
<1>8. Cast(ty, w.n) = Cast(ty, raw)
  BY <1>7 DEF Cast
<1>9. iconst(ty, raw) = Cast(ty, w.n)
  BY DEF iconst, Convert, Ok, w
<1> QED
  BY <1>8, <1>9

(***************************************************************************)
(* What the lowered operands carry                                          *)
(***************************************************************************)
\* A Rust scalar that exists on the target, and the lane that carries it.
Scalar(ptr) == { s \in [ty : JitParam, n : Int] : s.n \in RustValue(s.ty, ptr) }
Lane(s, ptr) == Cast(ParamLane(s.ty, ptr), s.n)

Carries(lanes, scalars, ptr) ==
  /\ lanes \in Seq(SimValue) /\ scalars \in Seq(Scalar(ptr)) /\ Len(lanes) = Len(scalars)
  /\ \A j \in 1 .. Len(lanes) : lanes[j] = Lane(scalars[j], ptr)

LEMMA ScalarLane ==
  ASSUME NEW ptr \in Widths, NEW s \in Scalar(ptr)
  PROVE  /\ s.ty \in JitParam /\ s.n \in Int /\ s.n \in RustValue(s.ty, ptr)
         /\ Lane(s, ptr) \in SimValue /\ Lane(s, ptr).ty = ParamLane(s.ty, ptr)
<1>1. s.ty \in JitParam /\ s.n \in Int /\ s.n \in RustValue(s.ty, ptr)
  BY DEF Scalar
<1>2. ParamLane(s.ty, ptr) \in Types
  BY LaneType
<1> QED
  BY <1>1, <1>2, CastType DEF Lane

\* Two sequences that carry what they should carry it one after the other.
LEMMA CarriesJoin ==
  ASSUME NEW ptr, NEW a, NEW b, NEW s, NEW t, Carries(a, s, ptr), Carries(b, t, ptr)
  PROVE  Carries(a \o b, s \o t, ptr)
<1>1. /\ a \in Seq(SimValue) /\ b \in Seq(SimValue)
      /\ s \in Seq(Scalar(ptr)) /\ t \in Seq(Scalar(ptr))
      /\ Len(a) = Len(s) /\ Len(b) = Len(t)
      /\ \A j \in 1 .. Len(a) : a[j] = Lane(s[j], ptr)
      /\ \A j \in 1 .. Len(b) : b[j] = Lane(t[j], ptr)
  BY DEF Carries
<1>2. /\ a \o b \in Seq(SimValue) /\ Len(a \o b) = Len(a) + Len(b)
      /\ s \o t \in Seq(Scalar(ptr)) /\ Len(s \o t) = Len(a) + Len(b)
      /\ Len(a) \in Nat /\ Len(b) \in Nat
  <2>1. a \o b \in Seq(SimValue) /\ Len(a \o b) = Len(a) + Len(b)
    BY <1>1, ConcatProperties
  <2>2. s \o t \in Seq(Scalar(ptr)) /\ Len(s \o t) = Len(s) + Len(t)
    BY <1>1, ConcatProperties
  <2>3. Len(a) \in Nat /\ Len(b) \in Nat
    BY <1>1, LenProperties
  <2> QED
    BY <1>1, <2>1, <2>2, <2>3
<1>3. ASSUME NEW j \in 1 .. Len(a \o b)
      PROVE  (a \o b)[j] = Lane((s \o t)[j], ptr)
  <2>1. CASE j <= Len(a)
    <3>1. j \in 1 .. Len(a) /\ (a \o b)[j] = a[j] /\ (s \o t)[j] = s[j]
      BY <1>1, <1>2, <2>1
    <3> QED
      BY <1>1, <3>1
  <2>2. CASE j > Len(a)
    <3>1. /\ j - Len(a) \in 1 .. Len(b)
          /\ (a \o b)[j] = b[j - Len(a)] /\ (s \o t)[j] = t[j - Len(a)]
      BY <1>1, <1>2, <2>2
    <3> QED
      BY <1>1, <3>1
  <2> QED
    BY <1>2, <2>1, <2>2
<1> QED
  BY <1>2, <1>3 DEF Carries

\* The entry parameters of a wrapper carry what the host passes.
WrapperOK(w) ==
  /\ w.params \in Seq(JitParam)
  /\ w.given \in Seq(Int) /\ Len(w.given) = Len(NativeParams(w.params))

LEMMA EntryCarries ==
  ASSUME NEW w, WrapperOK(w), NEW ptr \in Widths
  PROVE  \A k \in DOMAIN Given(w) :
            /\ Given(w)[k] \in [ty : JitParam, n : Int]
            /\ Entry(w, ptr)[k] = Lane(Given(w)[k], ptr)
<1>1. NativeParams(w.params) \in Seq(JitParam \ Unitary)
  BY NativeType DEF WrapperOK
<1>2. DOMAIN NativeParams(w.params) = 1 .. Len(w.given)
  BY <1>1, LenProperties DEF WrapperOK
<1>3. \A k \in 1 .. Len(w.given) : w.given[k] \in Int
  BY ElementOfSeq DEF WrapperOK
<1>4. \A k \in DOMAIN NativeParams(w.params) : NativeParams(w.params)[k] \in JitParam
  BY <1>1, ElementOfSeq
<1>5. DOMAIN Given(w) = DOMAIN NativeParams(w.params)
  BY DEF Given
<1>6. ASSUME NEW k \in DOMAIN Given(w)
      PROVE  /\ Given(w)[k] \in [ty : JitParam, n : Int]
             /\ Entry(w, ptr)[k] = Lane(Given(w)[k], ptr)
  <2>1. Given(w)[k] = [ty |-> NativeParams(w.params)[k], n |-> w.given[k]]
    BY <1>5, <1>6 DEF Given
  <2>2. Entry(w, ptr)[k] = Lane(Given(w)[k], ptr)
    BY <1>6 DEF Entry, Lane
  <2> QED
    BY <1>2, <1>3, <1>4, <1>5, <1>6, <2>1, <2>2
<1> QED
  BY <1>6

(***************************************************************************)
(* JitArg::lower                                                            *)
(***************************************************************************)
Passed == {"Value", "[Value; N]"}

LEMMA ValuesLower ==
  ASSUME NEW w, WrapperOK(w), NEW ptr \in Widths, NEW e, e.ty \in Passed, e.v \in Seq(Int),
         \A j \in DOMAIN e.v : e.v[j] \in DOMAIN Given(w),
         \A j \in DOMAIN Stands(e, w) : Stands(e, w)[j].n \in RustValue(Stands(e, w)[j].ty, ptr)
  PROVE  Carries(lower(e, Entry(w, ptr), ptr), Stands(e, w), ptr)
<1> DEFINE n == Len(e.v)
           scalars == Stands(e, w)
           lanes == lower(e, Entry(w, ptr), ptr)
<1>1. n \in Nat /\ DOMAIN e.v = 1 .. n
  BY LenProperties
<1>2. scalars = [j \in 1 .. n |-> Given(w)[e.v[j]]]
  BY <1>1 DEF Stands, Passed
<1>3. lanes = [j \in 1 .. n |-> Entry(w, ptr)[e.v[j]]]
  BY <1>1 DEF lower, Passed
<1>4. \A j \in 1 .. n : scalars[j].n \in RustValue(scalars[j].ty, ptr)
  BY <1>2
<1> HIDE DEF scalars, lanes, n
<1>5. ASSUME NEW j \in 1 .. n
      PROVE  scalars[j] \in Scalar(ptr) /\ lanes[j] = Lane(scalars[j], ptr)
  <2>1. scalars[j] = Given(w)[e.v[j]] /\ lanes[j] = Entry(w, ptr)[e.v[j]]
    BY <1>2, <1>3
  <2>2. e.v[j] \in DOMAIN Given(w)
    BY <1>1
  <2>3. scalars[j] \in [ty : JitParam, n : Int] /\ lanes[j] = Lane(scalars[j], ptr)
    BY <2>1, <2>2, EntryCarries
  <2> QED
    BY <1>4, <2>3 DEF Scalar
<1>6. \A j \in 1 .. n : lanes[j] \in SimValue
  BY <1>5, ScalarLane
<1>7. scalars \in Seq(Scalar(ptr)) /\ lanes \in Seq(SimValue) /\ Len(scalars) = n /\ Len(lanes) = n
  BY <1>1, <1>2, <1>3, <1>5, <1>6
<1> QED
  BY <1>5, <1>7 DEF Carries, scalars, lanes

\* The scalars of a constant, one after the other.
LEMMA ScalarsType ==
  ASSUME NEW ty \in JitArg \ Passed
  PROVE  /\ Scalars(ty) \in Seq(JitParam) /\ Len(Scalars(ty)) \in 1 .. 3
         /\ DOMAIN Scalars(ty) = 1 .. Len(Scalars(ty))
         /\ \A j \in DOMAIN Scalars(ty) : Scalars(ty)[j] \in JitParam
<1>1. {"*const T", "usize", "i32"} \subseteq JitParam
  BY DEF JitParam, Units, Signed, Unsigned, Floats, Pointers
<1>2. \A x, y, z \in JitParam :
        /\ <<x>> \in Seq(JitParam) /\ Len(<<x>>) = 1
        /\ <<x, y>> \in Seq(JitParam) /\ Len(<<x, y>>) = 2
        /\ <<x, y, z>> \in Seq(JitParam) /\ Len(<<x, y, z>>) = 3
  <2> HIDE DEF JitParam
  <2> QED
    OBVIOUS
<1>3. CASE ty \in {"&str", "&[T]"}
  <2>1. Scalars(ty) = <<"*const T", "usize">>
    BY <1>3 DEF Scalars
  <2>2. Scalars(ty) \in Seq(JitParam) /\ Len(Scalars(ty)) = 2
    BY Zenon, <1>1, <1>2, <2>1
  <2> QED
    BY <2>2, LenProperties, ElementOfSeq
<1>4. CASE ty = "JitNaiveDate"
  <2>1. Scalars(ty) = <<"i32">>
    BY <1>4 DEF Scalars
  <2>2. Scalars(ty) \in Seq(JitParam) /\ Len(Scalars(ty)) = 1
    BY Zenon, <1>1, <1>2, <2>1
  <2> QED
    BY <2>2, LenProperties, ElementOfSeq
<1>5. CASE ty = "JitNaiveTime"
  <2>1. Scalars(ty) = <<"i32", "i32">>
    BY <1>5 DEF Scalars
  <2>2. Scalars(ty) \in Seq(JitParam) /\ Len(Scalars(ty)) = 2
    BY Zenon, <1>1, <1>2, <2>1
  <2> QED
    BY <2>2, LenProperties, ElementOfSeq
<1>6. CASE ty = "JitNaiveDateTime"
  <2>1. Scalars(ty) = <<"i32", "i32", "i32">>
    BY <1>6 DEF Scalars
  <2>2. Scalars(ty) \in Seq(JitParam) /\ Len(Scalars(ty)) = 3
    BY Zenon, <1>1, <1>2, <2>1
  <2> QED
    BY <2>2, LenProperties, ElementOfSeq
<1>7. CASE ty \notin {"&str", "&[T]", "JitNaiveDate", "JitNaiveTime", "JitNaiveDateTime"}
  <2>1. Scalars(ty) = <<ty>> /\ ty \in JitParam
    BY <1>7 DEF Scalars, JitArg, JitParam, Passed
  <2>2. Scalars(ty) \in Seq(JitParam) /\ Len(Scalars(ty)) = 1
    BY Zenon, <1>2, <2>1
  <2> QED
    BY <2>2, LenProperties, ElementOfSeq
<1> QED
  BY <1>3, <1>4, <1>5, <1>6, <1>7

\* The scalar x of type ty.
Is(ty, x) == [ty |-> ty, n |-> x]

LEMMA ConstantLane ==
  ASSUME NEW ptr \in Widths, NEW ty, ty \notin Floats, NEW x \in Int
  PROVE  /\ iconst(ParamLane(ty, ptr), x) = Lane(Is(ty, x), ptr)
         /\ iconst(ArgLane(ty, ptr), x) = Lane(Is(ty, x), ptr)
BY LaneType, IconstIsCast DEF Lane, Is

LEMMA SmallLanes ==
  ASSUME NEW ptr \in Widths, NEW x \in Int
  PROVE  /\ iconst(ptr, x) = Lane(Is("*const T", x), ptr)
         /\ iconst(ptr, x) = Lane(Is("usize", x), ptr)
         /\ iconst("I32", x) = Lane(Is("i32", x), ptr)
         /\ Cast("F32", x) = Lane(Is("f32", x), ptr)
         /\ Cast("F64", x) = Lane(Is("f64", x), ptr)
<1>1. /\ ParamLane("*const T", ptr) = ptr /\ ParamLane("usize", ptr) = ptr
      /\ ParamLane("i32", ptr) = "I32"
      /\ ParamLane("f32", ptr) = "F32" /\ ParamLane("f64", ptr) = "F64"
  BY DEF ParamLane
<1>2. "*const T" \notin Floats /\ "usize" \notin Floats /\ "i32" \notin Floats
  BY DEF Floats
<1>3. /\ Cast("F32", x) = Lane(Is("f32", x), ptr)
      /\ Cast("F64", x) = Lane(Is("f64", x), ptr)
  BY <1>1 DEF Lane, Is
<1> QED
  BY <1>1, <1>2, <1>3, ConstantLane

LEMMA Triple ==
  ASSUME NEW T, NEW x \in T, NEW y \in T, NEW z \in T
  PROVE  <<x>> \o <<y, z>> = <<x, y, z>>
<1> DEFINE s == <<x>> \o <<y, z>>
           t == <<x, y, z>>
<1>1. <<x>> \in Seq(T) /\ <<y, z>> \in Seq(T) /\ t \in Seq(T)
  OBVIOUS
<1>2. Len(<<x>>) = 1 /\ Len(<<y, z>>) = 2 /\ Len(t) = 3
  OBVIOUS
<1>3. s \in Seq(T) /\ Len(s) = 3
  BY <1>1, <1>2, ConcatProperties
<1>4. s[1] = x /\ s[2] = y /\ s[3] = z
  BY <1>1, <1>2
<1>5. t[1] = x /\ t[2] = y /\ t[3] = z
  OBVIOUS
<1> HIDE DEF s, t
<1>6. \A i \in 1 .. 3 : s[i] = t[i]
  BY <1>4, <1>5
<1>7. s = t
  BY <1>1, <1>2, <1>3, <1>6, SeqEqual
<1> QED
  BY <1>7 DEF s, t

LEMMA CarriesTuple ==
  ASSUME NEW ptr \in Widths, NEW s \in Seq(Scalar(ptr))
  PROVE  /\ Len(s) = 1 => Carries(<<Lane(s[1], ptr)>>, s, ptr)
         /\ Len(s) = 2 => Carries(<<Lane(s[1], ptr), Lane(s[2], ptr)>>, s, ptr)
         /\ Len(s) = 3 => Carries(<<Lane(s[1], ptr), Lane(s[2], ptr), Lane(s[3], ptr)>>, s, ptr)
<1>1. \A j \in 1 .. Len(s) : s[j] \in Scalar(ptr)
  BY ElementOfSeq
<1>2. ASSUME NEW j \in 1 .. Len(s) PROVE Lane(s[j], ptr) \in SimValue
  BY <1>1, ScalarLane
<1>3. ASSUME Len(s) = 1 PROVE Carries(<<Lane(s[1], ptr)>>, s, ptr)
  <2>1. PICK x \in SimValue : x = Lane(s[1], ptr)
    BY <1>2, <1>3
  <2>2. <<x>> \in Seq(SimValue) /\ Len(<<x>>) = 1 /\ <<x>>[1] = x
    OBVIOUS
  <2>3. \A j \in 1 .. 1 : <<x>>[j] = Lane(s[j], ptr)
    BY <2>1, <2>2
  <2>4. Carries(<<x>>, s, ptr)
    BY <1>3, <2>2, <2>3 DEF Carries
  <2> QED
    BY <2>1, <2>4
<1>4. ASSUME Len(s) = 2 PROVE Carries(<<Lane(s[1], ptr), Lane(s[2], ptr)>>, s, ptr)
  <2>1. PICK x \in SimValue : x = Lane(s[1], ptr)
    BY <1>2, <1>4
  <2>2. PICK y \in SimValue : y = Lane(s[2], ptr)
    BY <1>2, <1>4
  <2>3. /\ <<x, y>> \in Seq(SimValue) /\ Len(<<x, y>>) = 2
        /\ <<x, y>>[1] = x /\ <<x, y>>[2] = y
    OBVIOUS
  <2>4. \A j \in 1 .. 2 : <<x, y>>[j] = Lane(s[j], ptr)
    BY <2>1, <2>2, <2>3
  <2>5. Carries(<<x, y>>, s, ptr)
    BY <1>4, <2>3, <2>4 DEF Carries
  <2> QED
    BY <2>1, <2>2, <2>5
<1>5. ASSUME Len(s) = 3
      PROVE  Carries(<<Lane(s[1], ptr), Lane(s[2], ptr), Lane(s[3], ptr)>>, s, ptr)
  <2>1. PICK x \in SimValue : x = Lane(s[1], ptr)
    BY <1>2, <1>5
  <2>2. PICK y \in SimValue : y = Lane(s[2], ptr)
    BY <1>2, <1>5
  <2>3. PICK z \in SimValue : z = Lane(s[3], ptr)
    BY <1>2, <1>5
  <2>4. /\ <<x, y, z>> \in Seq(SimValue) /\ Len(<<x, y, z>>) = 3
        /\ <<x, y, z>>[1] = x /\ <<x, y, z>>[2] = y /\ <<x, y, z>>[3] = z
    OBVIOUS
  <2>5. \A j \in 1 .. 3 : <<x, y, z>>[j] = Lane(s[j], ptr)
    BY <2>1, <2>2, <2>3, <2>4
  <2>6. Carries(<<x, y, z>>, s, ptr)
    BY <1>5, <2>4, <2>5 DEF Carries
  <2> QED
    BY <2>1, <2>2, <2>3, <2>6
<1> QED
  BY <1>3, <1>4, <1>5

\* What a constant of each type stands for.
LEMMA ConstantStands ==
  ASSUME NEW w, NEW ptr \in Widths, NEW e, e.ty \in JitArg \ Passed, e.v \in Seq(Int),
         Len(e.v) = Len(Scalars(e.ty)),
         \A j \in DOMAIN Stands(e, w) : Stands(e, w)[j].n \in RustValue(Stands(e, w)[j].ty, ptr)
  PROVE  /\ Stands(e, w) \in Seq(Scalar(ptr)) /\ Len(Stands(e, w)) = Len(Scalars(e.ty))
         /\ \A j \in 1 .. Len(Scalars(e.ty)) :
              e.v[j] \in Int /\ Stands(e, w)[j] = Is(Scalars(e.ty)[j], e.v[j])
<1> DEFINE n == Len(e.v)
           scalars == Stands(e, w)
<1>1. /\ n \in 1 .. 3 /\ DOMAIN Scalars(e.ty) = 1 .. n
      /\ \A j \in 1 .. n : Scalars(e.ty)[j] \in JitParam
  BY ScalarsType
<1>2. \A j \in 1 .. n : e.v[j] \in Int
  BY <1>1, ElementOfSeq
<1>3. scalars = [j \in 1 .. n |-> Is(Scalars(e.ty)[j], e.v[j])]
  BY <1>1 DEF Stands, Passed, Is
<1>4. \A j \in 1 .. n : scalars[j].n \in RustValue(scalars[j].ty, ptr)
  BY <1>3
<1> HIDE DEF scalars
<1>5. \A j \in 1 .. n : scalars[j] = Is(Scalars(e.ty)[j], e.v[j])
  BY <1>3
<1>6. \A j \in 1 .. n : scalars[j] \in Scalar(ptr)
  <2> TAKE j \in 1 .. n
  <2>1. Is(Scalars(e.ty)[j], e.v[j]) \in [ty : JitParam, n : Int]
    BY <1>1, <1>2 DEF Is
  <2>2. scalars[j] \in [ty : JitParam, n : Int]
    BY Zenon, <1>5, <2>1
  <2> QED
    BY <1>4, <2>2 DEF Scalar
<1>7. scalars \in Seq(Scalar(ptr)) /\ Len(scalars) = n
  BY <1>1, <1>3, <1>6
<1> QED
  BY <1>2, <1>5, <1>7 DEF scalars

\* Every constant becomes the lanes of what it stands for.
LEMMA ConstantsLower ==
  ASSUME NEW w, NEW ptr \in Widths, NEW e, e.ty \in JitArg \ Passed, e.v \in Seq(Int),
         Len(e.v) = Len(Scalars(e.ty)),
         \A j \in DOMAIN Stands(e, w) : Stands(e, w)[j].n \in RustValue(Stands(e, w)[j].ty, ptr)
  PROVE  Carries(lower(e, Entry(w, ptr), ptr), Stands(e, w), ptr)
<1> DEFINE s == Stands(e, w)
           lanes == lower(e, Entry(w, ptr), ptr)
<1>1. /\ s \in Seq(Scalar(ptr)) /\ Len(s) = Len(Scalars(e.ty))
      /\ \A j \in 1 .. Len(Scalars(e.ty)) :
           e.v[j] \in Int /\ s[j] = Is(Scalars(e.ty)[j], e.v[j])
  BY ConstantStands
<1> HIDE DEF s
<1>2. /\ Len(s) = 1 => Carries(<<Lane(s[1], ptr)>>, s, ptr)
      /\ Len(s) = 2 => Carries(<<Lane(s[1], ptr), Lane(s[2], ptr)>>, s, ptr)
      /\ Len(s) = 3 => Carries(<<Lane(s[1], ptr), Lane(s[2], ptr), Lane(s[3], ptr)>>, s, ptr)
  BY <1>1, CarriesTuple
<1>3. CASE e.ty \in {"&str", "&[T]"}
  <2>1. Scalars(e.ty) = <<"*const T", "usize">>
    BY <1>3 DEF Scalars
  <2>2. /\ Len(s) = 2 /\ e.v[1] \in Int /\ e.v[2] \in Int
        /\ s[1] = Is("*const T", e.v[1]) /\ s[2] = Is("usize", e.v[2])
    <3>1. PICK p, q : p = "*const T" /\ q = "usize"
      OBVIOUS
    <3>2. Scalars(e.ty) = <<p, q>>
      BY Zenon, <2>1, <3>1
    <3>3. Len(<<p, q>>) = 2 /\ <<p, q>>[1] = p /\ <<p, q>>[2] = q
      OBVIOUS
    <3>4. /\ Len(s) = 2 /\ e.v[1] \in Int /\ e.v[2] \in Int
          /\ s[1] = Is(p, e.v[1]) /\ s[2] = Is(q, e.v[2])
      BY <1>1, <3>2, <3>3
    <3> QED
      BY Zenon, <3>1, <3>4
  <2>3. lanes = <<iconst(ptr, e.v[1]), iconst(ptr, e.v[2])>>
    BY <1>3 DEF lower
  <2>4. iconst(ptr, e.v[1]) = Lane(s[1], ptr) /\ iconst(ptr, e.v[2]) = Lane(s[2], ptr)
    BY <2>2, SmallLanes
  <2> QED
    BY Zenon, <1>2, <2>2, <2>3, <2>4 DEF s
<1>4. CASE e.ty = "JitNaiveDate"
  <2>1. Scalars(e.ty) = <<"i32">>
    BY <1>4 DEF Scalars
  <2>2. Len(s) = 1 /\ e.v[1] \in Int /\ s[1] = Is("i32", e.v[1])
    BY <1>1, <2>1
  <2>3. lanes = <<iconst("I32", e.v[1])>>
    BY <1>4 DEF lower
  <2>4. iconst("I32", e.v[1]) = Lane(s[1], ptr)
    BY <2>2, SmallLanes
  <2> QED
    BY Zenon, <1>2, <2>2, <2>3, <2>4 DEF s
<1>5. CASE e.ty = "JitNaiveTime"
  <2>1. Scalars(e.ty) = <<"i32", "i32">>
    BY <1>5 DEF Scalars
  <2>2. /\ Len(s) = 2 /\ e.v[1] \in Int /\ e.v[2] \in Int
        /\ s[1] = Is("i32", e.v[1]) /\ s[2] = Is("i32", e.v[2])
    BY <1>1, <2>1
  <2>3. lanes = <<iconst("I32", e.v[1]), iconst("I32", e.v[2])>>
    BY <1>5 DEF lower, lower_time
  <2>4. iconst("I32", e.v[1]) = Lane(s[1], ptr) /\ iconst("I32", e.v[2]) = Lane(s[2], ptr)
    BY <2>2, SmallLanes
  <2> QED
    BY Zenon, <1>2, <2>2, <2>3, <2>4 DEF s
<1>6. CASE e.ty = "JitNaiveDateTime"
  <2>1. Scalars(e.ty) = <<"i32", "i32", "i32">>
    BY <1>6 DEF Scalars
  <2>2. /\ Len(s) = 3 /\ e.v[1] \in Int /\ e.v[2] \in Int /\ e.v[3] \in Int
        /\ s[1] = Is("i32", e.v[1]) /\ s[2] = Is("i32", e.v[2]) /\ s[3] = Is("i32", e.v[3])
    BY <1>1, <2>1
  <2>3. lanes = <<iconst("I32", e.v[1])>> \o <<iconst("I32", e.v[2]), iconst("I32", e.v[3])>>
    BY <1>6 DEF lower, lower_time
  <2>4. /\ iconst("I32", e.v[1]) = Lane(s[1], ptr) /\ iconst("I32", e.v[2]) = Lane(s[2], ptr)
        /\ iconst("I32", e.v[3]) = Lane(s[3], ptr)
    BY <2>2, SmallLanes
  <2>5. \A x, y, z : <<x>> \o <<y, z>> = <<x, y, z>>
    <3> TAKE x, y, z
    <3>1. x \in {x, y, z} /\ y \in {x, y, z} /\ z \in {x, y, z}
      OBVIOUS
    <3> QED
      BY <3>1, Triple
  <2> QED
    BY Zenon, <1>2, <2>2, <2>3, <2>4, <2>5 DEF s
<1>7. CASE e.ty \notin {"&str", "&[T]", "JitNaiveDate", "JitNaiveTime", "JitNaiveDateTime"}
  <2>1. Scalars(e.ty) = <<e.ty>>
    BY <1>7 DEF Scalars
  <2>2. Len(s) = 1 /\ e.v[1] \in Int /\ s[1] = Is(e.ty, e.v[1])
    BY <1>1, <2>1
  <2>3. PICK x : lanes = <<x>> /\ x = Lane(s[1], ptr)
    <3>1. CASE e.ty = "f32"
      <4>1. lanes = <<Cast("F32", e.v[1])>>
        BY <3>1 DEF lower
      <4> QED
        BY <2>2, <3>1, <4>1, SmallLanes
    <3>2. CASE e.ty = "f64"
      <4>1. lanes = <<Cast("F64", e.v[1])>>
        BY <3>2 DEF lower
      <4> QED
        BY <2>2, <3>2, <4>1, SmallLanes
    <3>3. CASE e.ty \notin Floats
      <4>1. lanes = <<iconst(ArgLane(e.ty, ptr), e.v[1])>>
        BY <1>7, <3>3 DEF lower, Floats, Passed
      <4> QED
        BY <2>2, <3>3, <4>1, ConstantLane
    <3> QED
      BY <3>1, <3>2, <3>3 DEF Floats
  <2> QED
    BY Zenon, <1>2, <2>2, <2>3 DEF s
<1> QED
  BY <1>3, <1>4, <1>5, <1>6, <1>7

(***************************************************************************)
(* Reading a lane                                                           *)
(***************************************************************************)
LEMMA SameResidue ==
  ASSUME NEW m \in Nat \ {0}, NEW x \in Int, NEW y \in Int, x % m = y % m
  PROVE  (x - y) % m = 0
<1>1. PICK p \in Int, u \in 0 .. m - 1 : x = m * p + u /\ x % m = u
  BY DivMod
<1>2. PICK q \in Int, v \in 0 .. m - 1 : y = m * q + v /\ y % m = v
  BY DivMod
<1>3. PICK z \in Int : z = p - q
  OBVIOUS
<1>4. m * z = m * p - m * q /\ m * p \in Int /\ m * q \in Int
  BY <1>3
<1>5. x - y \in Int /\ x - y = m * z + 0 /\ 0 \in 0 .. m - 1
  BY <1>1, <1>2, <1>4
<1> QED
  BY <1>3, <1>5, Residue

\* Bits above a lane do not change its remainder.
LEMMA UpperBits ==
  ASSUME NEW m \in Nat \ {0}, NEW x \in Int, NEW upper \in Int
  PROVE  ((x % m) + upper * m) % m = x % m /\ (x % m) + upper * m \in Int
<1>1. PICK u \in 0 .. m - 1 : u = x % m
  BY DivMod
<1>2. u + upper * m \in Int /\ u + upper * m = m * upper + u
  OBVIOUS
<1>3. (u + upper * m) % m = u
  BY <1>2, Residue
<1> QED
  BY <1>1, <1>2, <1>3

LEMMA RustPayload ==
  ASSUME NEW ptr \in Widths, NEW s \in Scalar(ptr), ~IsNarrow(ParamLane(s.ty, ptr))
  PROVE  /\ s.ty \in Signed => /\ ParamLane(s.ty, ptr) \in IntTypes
                               /\ s.n \in Payload(ParamLane(s.ty, ptr))
         /\ s.ty \notin Signed => s.n \in 0 .. Modulus(ParamLane(s.ty, ptr)) - 1
<1> DEFINE lane == ParamLane(s.ty, ptr)
<1>1. s.n \in RustValue(s.ty, ptr)
  BY ScalarLane
<1>2. s.ty # "bool"
  <2>1. ParamLane("bool", ptr) = "I8" /\ IsNarrow("I8")
    BY DEF ParamLane, IsNarrow, Bytes
  <2> QED
    BY <2>1
<1>3. s.ty \in Signed => lane \in IntTypes
  BY LaneType DEF Signed, Floats
<1>4. s.n \in IF s.ty \in Signed THEN -Half(lane) .. Half(lane) - 1 ELSE 0 .. Modulus(lane) - 1
  BY <1>1, <1>2 DEF RustValue
<1> QED
  BY <1>3, <1>4 DEF Payload

LEMMA WideRead ==
  ASSUME NEW ptr \in Widths, NEW s \in Scalar(ptr), ~IsNarrow(ParamLane(s.ty, ptr)), NEW upper
  PROVE  HostRead(s.ty, Lane(s, ptr), upper) = s.n
<1> DEFINE lane == ParamLane(s.ty, ptr)
           v == Lane(s, ptr)
           m == Modulus(lane)
<1>1. v \in SimValue /\ v.ty = lane /\ lane \in Types /\ s.n \in Int /\ v = Cast(lane, s.n)
  BY ScalarLane, LaneType DEF Lane
<1>2. m \in Nat \ {0} /\ Bits(v) = s.n % m
  BY <1>1, CastBits, ModulusEven
<1>3. /\ s.ty \in Signed => lane \in IntTypes /\ s.n \in Payload(lane)
      /\ s.ty \notin Signed => s.n \in 0 .. m - 1
  BY RustPayload
<1>4. HostRead(s.ty, v, upper) = IF s.ty \notin Signed THEN Bits(v) ELSE Cast(lane, Bits(v)).n
  BY <1>1 DEF HostRead
<1> HIDE DEF lane, v, m
<1>5. CASE s.ty \notin Signed
  BY <1>2, <1>3, <1>4, <1>5, ModOnce DEF v
<1>6. CASE s.ty \in Signed
  <2>1. v.n = s.n
    BY <1>1, <1>3, <1>6, CastKeeps
  <2>2. Bits(v) \in 0 .. m - 1 /\ Bits(v) = v.n % m
    BY <1>1, <1>2, <2>1, DivMod
  <2>3. Bits(v) % m = v.n % m /\ Bits(v) \in Int
    BY <1>2, <2>2, ModOnce
  <2>4. Cast(v.ty, Bits(v)) = v
    BY <1>1, <2>3, CastAgain DEF m
  <2> QED
    BY <1>1, <1>4, <1>6, <2>1, <2>4 DEF v
<1> QED
  BY <1>5, <1>6

LEMMA NarrowRead ==
  ASSUME NEW ptr \in Widths, NEW s \in Scalar(ptr), IsNarrow(ParamLane(s.ty, ptr)),
         NEW upper \in Int
  PROVE  LET r == HostRead(s.ty, Lane(s, ptr), upper)
         IN  r \in Int /\ (r - s.n) % Modulus(ParamLane(s.ty, ptr)) = 0
<1> DEFINE lane == ParamLane(s.ty, ptr)
           v == Lane(s, ptr)
           m == Modulus(lane)
           bits == Bits(v) + upper * m
           r == HostRead(s.ty, v, upper)
<1>1. v \in SimValue /\ v.ty = lane /\ lane \in Types /\ s.n \in Int /\ v = Cast(lane, s.n)
  BY ScalarLane, LaneType DEF Lane
<1>2. m \in Nat \ {0} /\ Bits(v) = s.n % m
  BY <1>1, CastBits, ModulusEven
<1>3. bits % m = s.n % m /\ bits \in Int
  BY <1>1, <1>2, UpperBits
<1>4. r = IF s.ty \notin Signed THEN bits ELSE Cast("I32", bits).n
  BY <1>1 DEF HostRead
<1>5. Divides(m, B4)
  <2>1. lane \in {"I8", "I16"}
    BY <1>1 DEF IsNarrow, Bytes, Types, IntTypes, FloatTypes
  <2>2. m \in {ByteMod, B2}
    BY <2>1 DEF Modulus
  <2> QED
    BY <2>2, SizesDivide
<1> HIDE DEF lane, v, m, bits, r
<1>6. r \in Int /\ r % m = bits % m
  <2>1. CASE s.ty \notin Signed
    BY <1>3, <1>4, <2>1
  <2>2. CASE s.ty \in Signed
    <3>1. "I32" \in Types /\ Modulus("I32") = B4
      BY DEF Types, IntTypes, Modulus
    <3> DEFINE c == Cast("I32", bits)
    <3>2. c \in SimValue /\ c.ty = "I32" /\ c.n \in Int
      BY <1>3, <3>1, CastType, ValueFields
    <3>3. c.n % B4 = bits % B4
      BY <1>3, <3>1, <3>2, CastBits DEF Bits
    <3> HIDE DEF c
    <3>4. (c.n % B4) % m = c.n % m /\ (bits % B4) % m = bits % m
      BY <1>2, <1>3, <1>5, <3>2, DividesMod
    <3>5. r = c.n
      BY <1>4, <2>2 DEF c
    <3> QED
      BY <3>2, <3>3, <3>4, <3>5
  <2> QED
    BY <2>1, <2>2
<1>7. (r - s.n) % m = 0
  BY <1>1, <1>2, <1>3, <1>6, SameResidue
<1> QED
  BY <1>6, <1>7 DEF r, v, m, lane

(***************************************************************************)
(* The inductive invariant                                                  *)
(***************************************************************************)
Exported == {"exported", "lowering", "built", "panicked", "defined", "refused", "called"}
Emitted  == {"built", "defined", "refused", "called"}

\* The signature is that of the helper once it is exported.
SignatureOK ==
  /\ ptr_ty \in Widths
  /\ phase \in {"source", "compile error"} \cup Exported
  /\ sig.params \in Seq(Types) /\ sig.returns \in Seq(Types) /\ Len(sig.returns) <= 1
  /\ helper.params \in Seq(STRING)
  /\ phase \in Exported => sig = jit_signature(helper.params, helper.ret, ptr_ty)

\* The wrapper and the expressions its body has lowered.
BodyOK ==
  /\ WrapperOK(wrapper)
  /\ way \in {"call", "jit_call"}
  /\ taken \in 0 .. Wanted
  /\ phase \in {"source", "compile error", "exported"} => taken = 0
  /\ Carries(args_buf, meant, ptr_ty)

\* What the call hands to the body.
GivesInst == IF way = "call" THEN ReturnsInst(helper) ELSE wrapper.ret \in Units \cup {""}

ResultOK ==
  phase \in Emitted => /\ result = IF GivesInst THEN "Inst" ELSE "Value"
                       /\ GivesInst \/ sig.returns # <<>>

\* What the verifier accepts.
Fits ==
  /\ [j \in DOMAIN args_buf |-> args_buf[j].ty] = sig.params
  /\ Returns = push_params(<<wrapper.ret>>, ptr_ty)

RefusedOK == phase = "refused" => ~Fits

ReadOK ==
  /\ received \in Seq(Int)
  /\ phase = "called" =>
       /\ DOMAIN received = DOMAIN args_buf
       /\ \A j \in DOMAIN args_buf : \E upper \in Int :
            received[j] = HostRead(NativeParams(helper.params)[j], args_buf[j], upper)

LanesInv == SignatureOK /\ BodyOK /\ ResultOK /\ RefusedOK /\ ReadOK

LEMMA LanesInit == Init => LanesInv
<1> SUFFICES ASSUME Init PROVE LanesInv
  OBVIOUS
<1>1. /\ ptr_ty \in Widths /\ phase = "source" /\ helper = NoItem /\ wrapper = NoWrapper
      /\ sig = jit_signature(<<>>, "", ptr_ty) /\ way = "call" /\ taken = 0
      /\ args_buf = <<>> /\ meant = <<>> /\ received = <<>>
  BY LanesAssumption DEF Init, Widths
<1>2. /\ helper.params = <<>> /\ wrapper.params = <<>> /\ wrapper.given = <<>>
  BY <1>1 DEF NoItem, NoWrapper
<1>3. \A T : <<>> \in Seq(T) /\ Len(<<>>) = 0
  OBVIOUS
<1>4. NativeParams(<<>>) = <<>>
  <2>1. /\ NativeParams(<<>>) = Pushes(<<>>)[0]
        /\ Pushes(<<>>)[0] = Turn(<<>>, Pushes(<<>>), 0)
    BY <1>3, PushesTurn
  <2> QED
    BY <2>1, TurnCases
<1>5. SignatureOK
  <2>1. push_params(<<>>, ptr_ty) \in Seq(Types)
    BY <1>1, <1>3, PushType
  <2>2. /\ sig.params = push_params(<<>>, ptr_ty) /\ sig.returns = push_params(<<"">>, ptr_ty)
    BY <1>1 DEF jit_signature
  <2>3. sig.returns \in Seq(Types) /\ Len(sig.returns) <= 1
    BY <1>1, <2>2, PushOne
  <2>4. phase \in {"source", "compile error"} \cup Exported /\ phase \notin Exported
    BY <1>1 DEF Exported
  <2> QED
    BY <1>1, <1>2, <1>3, <2>1, <2>2, <2>3, <2>4 DEF SignatureOK
<1>6. BodyOK
  <2>1. WrapperOK(wrapper)
    BY <1>2, <1>3, <1>4 DEF WrapperOK
  <2>2. Wanted = 0
    BY <1>1, <1>2, <1>3 DEF Wanted
  <2>3. Carries(args_buf, meant, ptr_ty)
    <3>1. Len(<<>>) = 0 /\ 1 .. 0 = {}
      OBVIOUS
    <3>2. Len(args_buf) = 0 /\ Len(meant) = 0
      BY Zenon, <1>1, <3>1
    <3>3. args_buf \in Seq(SimValue) /\ meant \in Seq(Scalar(ptr_ty))
      BY <1>1, <1>3
    <3> QED
      BY <3>1, <3>2, <3>3 DEF Carries
  <2>4. taken \in 0 .. Wanted /\ way \in {"call", "jit_call"}
    <3>1. 0 \in 0 .. 0
      OBVIOUS
    <3> QED
      BY Zenon, <1>1, <2>2, <3>1
  <2> QED
    BY Zenon, <1>1, <2>1, <2>3, <2>4 DEF BodyOK
<1>7. ResultOK /\ RefusedOK /\ ReadOK
  BY <1>1, <1>3 DEF ResultOK, RefusedOK, ReadOK, Emitted
<1> QED
  BY <1>5, <1>6, <1>7 DEF LanesInv

\* #[jit_export]: the signature is pushed from the types of the function.
LEMMA ExportInv ==
  ASSUME LanesInv, NEW item \in Item, Export(item)
  PROVE  LanesInv'
<1>1. SignatureOK /\ BodyOK /\ ResultOK /\ RefusedOK /\ ReadOK
  BY DEF LanesInv
<1>2. /\ phase = "source" /\ helper' = item /\ ptr_ty' = ptr_ty /\ ptr_ty \in Widths
      /\ wrapper' = wrapper /\ way' = way /\ taken' = taken /\ args_buf' = args_buf
      /\ meant' = meant /\ received' = received /\ phase' \in {"compile error", "exported"}
      /\ phase' = "compile error" => sig' = sig
      /\ phase' = "exported" => sig' = jit_signature(item.params, item.ret, ptr_ty)
  BY <1>1 DEF Export, lowered, SignatureOK
<1>3. item.params \in Seq(STRING)
  BY LanesAssumption
<1>4. SignatureOK'
  <2>1. CASE phase' = "compile error"
    BY <1>1, <1>2, <1>3, <2>1 DEF SignatureOK, Exported
  <2>2. CASE phase' = "exported"
    <3>1. /\ sig'.params = push_params(item.params, ptr_ty)
          /\ sig'.returns = push_params(<<item.ret>>, ptr_ty)
      BY <1>2, <2>2 DEF jit_signature
    <3>2. sig'.params \in Seq(Types)
      BY <1>2, <1>3, <3>1, PushType
    <3>3. sig'.returns \in Seq(Types) /\ Len(sig'.returns) <= 1
      BY <1>2, <3>1, PushOne
    <3> QED
      BY <1>2, <1>3, <2>2, <3>2, <3>3 DEF SignatureOK, Exported
  <2> QED
    BY <1>2, <2>1, <2>2
<1>5. BodyOK'
  <2>1. taken = 0
    BY <1>1, <1>2 DEF BodyOK
  <2>2. Wanted' \in Nat
    <3>1. Len(item.params) \in Nat
      BY <1>3, LenProperties
    <3> QED
      BY <1>2, <3>1, LanesAssumption DEF Wanted
  <2>3. WrapperOK(wrapper') /\ Carries(args_buf', meant', ptr_ty')
    BY <1>1, <1>2 DEF BodyOK
  <2>4. taken' = 0 /\ taken' \in 0 .. Wanted' /\ way' \in {"call", "jit_call"}
    <3>1. \A n \in Nat : 0 \in 0 .. n
      OBVIOUS
    <3>2. taken' = 0 /\ way' \in {"call", "jit_call"}
      BY Zenon, <1>1, <1>2, <2>1 DEF BodyOK
    <3> QED
      BY Zenon, <2>2, <3>1, <3>2
  <2> QED
    BY <2>3, <2>4 DEF BodyOK
<1>6. (ResultOK /\ RefusedOK /\ ReadOK)'
  BY <1>1, <1>2 DEF ResultOK, RefusedOK, ReadOK, Emitted
<1> QED
  BY <1>4, <1>5, <1>6 DEF LanesInv

\* A wrapper is opened before anything is lowered.
LEMMA OpenInv ==
  ASSUME LanesInv, NEW w \in Wrapper, NEW how \in {"call", "jit_call"}, Open(w, how)
  PROVE  LanesInv'
<1>1. SignatureOK /\ BodyOK /\ ResultOK /\ RefusedOK /\ ReadOK
  BY DEF LanesInv
<1>2. /\ phase = "exported" /\ phase' = "lowering" /\ wrapper' = w /\ way' = how
      /\ ptr_ty' = ptr_ty /\ helper' = helper /\ sig' = sig /\ taken' = taken
      /\ args_buf' = args_buf /\ meant' = meant /\ received' = received
  BY DEF Open, setting, lowered
<1>3. SignatureOK'
  BY <1>1, <1>2 DEF SignatureOK, Exported
<1>4. BodyOK'
  <2>1. WrapperOK(w)
    BY LanesAssumption DEF WrapperOK
  <2>2. taken = 0
    BY <1>1, <1>2 DEF BodyOK
  <2>3. Wanted' \in Nat
    <3>1. Len(helper.params) \in Nat
      BY <1>1, LenProperties DEF SignatureOK
    <3> QED
      BY <1>2, <3>1, LanesAssumption DEF Wanted
  <2>4. taken' \in 0 .. Wanted'
    BY <1>2, <2>2, <2>3
  <2>5. WrapperOK(wrapper')
    BY <1>2, <2>1
  <2>6. Carries(args_buf', meant', ptr_ty')
    BY <1>1, <1>2 DEF BodyOK
  <2> QED
    BY <1>2, <2>2, <2>4, <2>5, <2>6 DEF BodyOK
<1>5. (ResultOK /\ RefusedOK /\ ReadOK)'
  BY <1>1, <1>2 DEF ResultOK, RefusedOK, ReadOK, Emitted
<1> QED
  BY <1>3, <1>4, <1>5 DEF LanesInv

\* What is lowered carries what the expression stands for.
LEMMA LowerInv ==
  ASSUME LanesInv, NEW e \in Expr, Lower(e)
  PROVE  LanesInv'
<1>1. SignatureOK /\ BodyOK /\ ResultOK /\ RefusedOK /\ ReadOK
  BY DEF LanesInv
<1>2. /\ phase = "lowering" /\ phase' = phase /\ wrapper' = wrapper /\ way' = way
      /\ ptr_ty' = ptr_ty /\ helper' = helper /\ sig' = sig /\ received' = received
      /\ taken < Wanted /\ Writable(e) /\ taken' = taken + 1
      /\ args_buf' = args_buf \o lower(e, Entry(wrapper, ptr_ty), ptr_ty)
      /\ meant' = meant \o Stands(e, wrapper)
  BY DEF Lower, setting
<1>3. SignatureOK'
  BY <1>1, <1>2 DEF SignatureOK, Exported
<1>4. BodyOK'
  <2>1. /\ WrapperOK(wrapper) /\ taken \in 0 .. Wanted /\ ptr_ty \in Widths
        /\ Carries(args_buf, meant, ptr_ty)
    BY <1>1 DEF BodyOK, SignatureOK
  <2>2. /\ e.ty \in JitArg /\ e.v \in Seq(Int)
        /\ e.ty # "[Value; N]" => Len(e.v) = Len(Scalars(e.ty))
    BY LanesAssumption
  <2>3. /\ e.ty \in Passed => \A j \in DOMAIN e.v : e.v[j] \in DOMAIN Given(wrapper)
        /\ \A j \in DOMAIN Stands(e, wrapper) :
             Stands(e, wrapper)[j].n \in RustValue(Stands(e, wrapper)[j].ty, ptr_ty)
    BY <1>2 DEF Writable, Representable, Passed
  <2>4. Carries(lower(e, Entry(wrapper, ptr_ty), ptr_ty), Stands(e, wrapper), ptr_ty)
    <3>1. CASE e.ty \in Passed
      BY <2>1, <2>2, <2>3, <3>1, ValuesLower
    <3>2. CASE e.ty \notin Passed
      <4>1. e.ty \in JitArg \ Passed /\ Len(e.v) = Len(Scalars(e.ty))
        BY <2>2, <3>2 DEF Passed
      <4> QED
        BY <2>1, <2>2, <2>3, <4>1, ConstantsLower
    <3> QED
      BY <3>1, <3>2
  <2>5. Carries(args_buf', meant', ptr_ty')
    BY <1>2, <2>1, <2>4, CarriesJoin
  <2>6. Wanted' = Wanted /\ Wanted \in Nat
    <3>1. Len(helper.params) \in Nat
      BY <1>1, LenProperties DEF SignatureOK
    <3> QED
      BY <1>2, <3>1, LanesAssumption DEF Wanted
  <2>7. taken' \in 0 .. Wanted'
    BY <1>2, <2>1, <2>6
  <2>8. WrapperOK(wrapper')
    BY <1>2, <2>1
  <2>9. way' \in {"call", "jit_call"} /\ phase' = "lowering"
    BY <1>1, <1>2 DEF BodyOK
  <2> QED
    BY <2>5, <2>7, <2>8, <2>9 DEF BodyOK
<1>5. (ResultOK /\ RefusedOK /\ ReadOK)'
  BY <1>1, <1>2 DEF ResultOK, RefusedOK, ReadOK, Emitted
<1> QED
  BY <1>3, <1>4, <1>5 DEF LanesInv

\* The call takes all its expressions, and panics if it indexes no result.
LEMMA EmitCallInv ==
  ASSUME LanesInv, EmitCall
  PROVE  LanesInv'
<1>1. SignatureOK /\ BodyOK /\ ResultOK /\ RefusedOK /\ ReadOK
  BY DEF LanesInv
<1>2. /\ phase = "lowering" /\ wrapper' = wrapper /\ way' = way
      /\ ptr_ty' = ptr_ty /\ helper' = helper /\ sig' = sig /\ taken' = taken
      /\ args_buf' = args_buf /\ meant' = meant /\ received' = received
      /\ phase' = IF GivesInst \/ sig.returns # <<>> THEN "built" ELSE "panicked"
      /\ result' = IF GivesInst THEN "Inst" ELSE "Value"
  BY DEF EmitCall, setting, lowered, GivesInst
<1>3. phase' \in {"built", "panicked"}
  BY <1>2
<1>4. SignatureOK'
  BY <1>1, <1>2, <1>3 DEF SignatureOK, Exported
<1>5. BodyOK'
  <2>1. Wanted' = Wanted
    BY <1>2 DEF Wanted
  <2> QED
    BY <1>1, <1>2, <1>3, <2>1 DEF BodyOK
<1>6. ResultOK'
  <2>1. GivesInst' = GivesInst
    BY <1>2 DEF GivesInst
  <2> QED
    BY <1>2, <2>1 DEF ResultOK, Emitted
<1>7. RefusedOK' /\ ReadOK'
  BY <1>1, <1>2, <1>3 DEF RefusedOK, ReadOK
<1> QED
  BY <1>4, <1>5, <1>6, <1>7 DEF LanesInv

\* The verifier refuses what does not fit.
LEMMA DefineInv ==
  ASSUME LanesInv, Define
  PROVE  LanesInv'
<1>1. SignatureOK /\ BodyOK /\ ResultOK /\ RefusedOK /\ ReadOK
  BY DEF LanesInv
<1>2. /\ phase = "built" /\ wrapper' = wrapper /\ way' = way
      /\ ptr_ty' = ptr_ty /\ helper' = helper /\ sig' = sig /\ taken' = taken
      /\ args_buf' = args_buf /\ meant' = meant /\ received' = received /\ result' = result
      /\ phase' = IF Fits THEN "defined" ELSE "refused"
  BY DEF Define, setting, lowered, Fits
<1>3. phase' \in {"defined", "refused"}
  BY <1>2
<1>4. SignatureOK'
  BY <1>1, <1>2, <1>3 DEF SignatureOK, Exported
<1>5. BodyOK'
  <2>1. Wanted' = Wanted
    BY <1>2 DEF Wanted
  <2> QED
    BY <1>1, <1>2, <1>3, <2>1 DEF BodyOK
<1>6. ResultOK'
  <2>1. GivesInst' = GivesInst
    BY <1>2 DEF GivesInst
  <2> QED
    BY <1>1, <1>2, <2>1 DEF ResultOK, Emitted
<1>7. RefusedOK'
  <2>1. Fits' = Fits
    BY <1>2 DEF Fits, Returns
  <2> QED
    BY <1>2, <2>1 DEF RefusedOK
<1>8. ReadOK'
  BY <1>1, <1>2, <1>3 DEF ReadOK
<1> QED
  BY <1>4, <1>5, <1>6, <1>7, <1>8 DEF LanesInv

LEMMA HostReadType ==
  ASSUME NEW ty, NEW lane \in SimValue, NEW upper \in Int
  PROVE  HostRead(ty, lane, upper) \in Int
<1> DEFINE bits == IF IsNarrow(lane.ty) THEN Bits(lane) + upper * Modulus(lane.ty) ELSE Bits(lane)
           read == IF IsNarrow(lane.ty) THEN "I32" ELSE lane.ty
<1>1. lane.ty \in Types /\ lane.n \in Int /\ "I32" \in Types
  BY ValueFields DEF Types, IntTypes
<1>2. Modulus(lane.ty) \in Nat \ {0} /\ read \in Types
  BY <1>1, ModulusEven
<1>3. bits \in Int
  <2>1. Bits(lane) \in Int
    BY <1>1, <1>2, DivMod DEF Bits
  <2>2. upper * Modulus(lane.ty) \in Int
    BY <1>2
  <2> QED
    BY <2>1, <2>2
<1>4. HostRead(ty, lane, upper) = IF ty \notin Signed THEN bits ELSE Cast(read, bits).n
  BY DEF HostRead
<1> HIDE DEF bits, read
<1>5. Cast(read, bits).n \in Int
  BY <1>2, <1>3, CastType, ValueFields
<1> QED
  BY <1>3, <1>4, <1>5

\* The helper reads a number from each lane, whatever is above it.
LEMMA InvokeInv ==
  ASSUME LanesInv, Invoke
  PROVE  LanesInv'
<1>1. SignatureOK /\ BodyOK /\ ResultOK /\ RefusedOK /\ ReadOK
  BY DEF LanesInv
<1>2. /\ phase = "defined" /\ phase' = "called" /\ wrapper' = wrapper /\ way' = way
      /\ ptr_ty' = ptr_ty /\ helper' = helper /\ sig' = sig /\ taken' = taken
      /\ args_buf' = args_buf /\ meant' = meant /\ result' = result
  BY DEF Invoke, setting, lowered
<1>3. SignatureOK'
  BY <1>1, <1>2 DEF SignatureOK, Exported
<1>4. BodyOK'
  <2>1. Wanted' = Wanted
    BY <1>2 DEF Wanted
  <2> QED
    BY <1>1, <1>2, <2>1 DEF BodyOK
<1>5. ResultOK'
  <2>1. GivesInst' = GivesInst
    BY <1>2 DEF GivesInst
  <2> QED
    BY <1>1, <1>2, <2>1 DEF ResultOK, Emitted
<1>6. RefusedOK'
  BY <1>2 DEF RefusedOK
<1>7. ReadOK'
  <2> DEFINE upper(dirty, j) == IF j \in dirty THEN Ones(args_buf[j].ty) ELSE 0
             read(dirty, j) ==
               HostRead(NativeParams(helper.params)[j], args_buf[j], upper(dirty, j))
  <2>1. PICK dirty : received' = [j \in DOMAIN args_buf |-> read(dirty, j)]
    BY DEF Invoke
  <2>2. /\ args_buf \in Seq(SimValue) /\ DOMAIN args_buf = 1 .. Len(args_buf)
        /\ Len(args_buf) \in Nat
    BY <1>1, LenProperties DEF BodyOK, Carries
  <2>3. ASSUME NEW j \in DOMAIN args_buf
        PROVE  upper(dirty, j) \in Int /\ read(dirty, j) \in Int
    <3>1. args_buf[j] \in SimValue
      BY <2>2, <2>3, ElementOfSeq
    <3>2. Ones(args_buf[j].ty) \in Int
      <4>1. args_buf[j].ty \in Types /\ "I32" \in Types
        BY <3>1, ValueFields DEF Types, IntTypes
      <4>2. PICK b \in Nat \ {0} : b = Modulus("I32")
        BY <4>1, ModulusEven
      <4>3. PICK m \in Nat \ {0} : m = Modulus(args_buf[j].ty)
        BY <4>1, ModulusEven
      <4>4. b \div m - 1 \in Int
        BY DivMod
      <4> QED
        BY Zenon, <4>2, <4>3, <4>4 DEF Ones
    <3>3. upper(dirty, j) \in Int
      BY <3>2
    <3> QED
      BY <3>1, <3>3, HostReadType
  <2>4. DOMAIN received' = DOMAIN args_buf
    BY <2>1
  <2>5. \A j \in DOMAIN args_buf : \E u \in Int :
           received'[j] = HostRead(NativeParams(helper.params)[j], args_buf[j], u)
    BY <2>1, <2>3
  <2>6. received' \in Seq(Int)
    <3> HIDE DEF read
    <3> QED
      BY <2>1, <2>2, <2>3
  <2> QED
    BY <1>2, <2>4, <2>5, <2>6 DEF ReadOK
<1> QED
  BY <1>3, <1>4, <1>5, <1>6, <1>7 DEF LanesInv

LEMMA LanesStep ==
  ASSUME LanesInv, [Next]_vars
  PROVE  LanesInv'
<1>1. CASE UNCHANGED vars
  BY <1>1 DEF LanesInv, vars, setting, lowered, SignatureOK, BodyOK, ResultOK, RefusedOK, ReadOK,
              Wanted, GivesInst, Fits, Returns
<1>2. CASE Next
  BY <1>2, ExportInv, OpenInv, LowerInv, EmitCallInv, DefineInv, InvokeInv DEF Next
<1> QED
  BY <1>1, <1>2

LEMMA LanesInvariant == Spec => []LanesInv
BY LanesInit, LanesStep, PTL DEF Spec

(***************************************************************************)
(* Theorems                                                                 *)
(***************************************************************************)
LEMMA InvTypeOK ==
  ASSUME LanesInv
  PROVE  TypeOK
BY DEF LanesInv, SignatureOK, BodyOK, ReadOK, Carries, TypeOK, Exported

LEMMA SignatureOfHelper ==
  ASSUME LanesInv, phase \in Exported
  PROVE  /\ ptr_ty \in Widths /\ helper.params \in Seq(STRING)
         /\ sig.params = push_params(helper.params, ptr_ty)
         /\ sig.returns = push_params(<<helper.ret>>, ptr_ty)
<1>1. /\ ptr_ty \in Widths /\ helper.params \in Seq(STRING)
      /\ sig = jit_signature(helper.params, helper.ret, ptr_ty)
  BY Zenon DEF LanesInv, SignatureOK
<1>2. /\ sig.params = push_params(helper.params, ptr_ty)
      /\ sig.returns = push_params(<<helper.ret>>, ptr_ty)
  BY <1>1 DEF jit_signature
<1> QED
  BY <1>1, <1>2

\* Where each operand carries the type the helper declares, its lane is the
\* one of the signature.
LEMMA FaithfulLanes ==
  ASSUME LanesInv, phase \in Exported, Faithful
  PROVE  /\ sig.params = [j \in DOMAIN args_buf |-> args_buf[j].ty]
         /\ \A j \in DOMAIN args_buf :
              /\ meant[j] \in Scalar(ptr_ty) /\ args_buf[j] = Lane(meant[j], ptr_ty)
              /\ NativeParams(helper.params)[j] = meant[j].ty
              /\ sig.params[j] = ParamLane(meant[j].ty, ptr_ty)
<1>1. /\ ptr_ty \in Widths /\ helper.params \in Seq(STRING)
      /\ sig.params = push_params(helper.params, ptr_ty)
  BY SignatureOfHelper
<1>2. /\ args_buf \in Seq(SimValue) /\ meant \in Seq(Scalar(ptr_ty)) /\ Len(args_buf) = Len(meant)
      /\ \A j \in 1 .. Len(args_buf) : args_buf[j] = Lane(meant[j], ptr_ty)
  BY DEF LanesInv, BodyOK, Carries
<1>3. DOMAIN args_buf = 1 .. Len(args_buf) /\ DOMAIN meant = DOMAIN args_buf
  BY <1>2, LenProperties
<1>4. NativeParams(helper.params) = [j \in DOMAIN args_buf |-> meant[j].ty]
  BY <1>3 DEF Faithful
<1>5. sig.params = [j \in DOMAIN args_buf |-> ParamLane(meant[j].ty, ptr_ty)]
  <2> DEFINE native == NativeParams(helper.params)
  <2>1. sig.params = [j \in DOMAIN native |-> ParamLane(native[j], ptr_ty)]
    BY <1>1 DEF push_params
  <2>2. native = [j \in DOMAIN args_buf |-> meant[j].ty]
    BY <1>4
  <2> HIDE DEF native
  <2>3. DOMAIN native = DOMAIN args_buf /\ \A j \in DOMAIN args_buf : native[j] = meant[j].ty
    BY <2>2
  <2> QED
    BY <2>1, <2>3
<1>6. ASSUME NEW j \in DOMAIN args_buf
      PROVE  /\ meant[j] \in Scalar(ptr_ty) /\ args_buf[j] = Lane(meant[j], ptr_ty)
             /\ args_buf[j].ty = ParamLane(meant[j].ty, ptr_ty)
  <2>1. meant[j] \in Scalar(ptr_ty) /\ args_buf[j] = Lane(meant[j], ptr_ty)
    BY <1>2, <1>3, <1>6, ElementOfSeq
  <2> QED
    BY <1>1, <2>1, ScalarLane
<1> QED
  BY <1>4, <1>5, <1>6

\* What the body returns is what the wrapper declares.
LEMMA ReturnsFit ==
  ASSUME LanesInv, phase \in Emitted, SameReturn
  PROVE  Returns = push_params(<<wrapper.ret>>, ptr_ty)
<1>1. /\ ptr_ty \in Widths /\ sig.returns = push_params(<<helper.ret>>, ptr_ty)
      /\ result = IF GivesInst THEN "Inst" ELSE "Value"
      /\ GivesInst \/ sig.returns # <<>>
  <2>1. phase \in Exported
    BY DEF Exported, Emitted
  <2>2. ptr_ty \in Widths /\ sig.returns = push_params(<<helper.ret>>, ptr_ty)
    BY <2>1, SignatureOfHelper
  <2>3. /\ result = IF GivesInst THEN "Inst" ELSE "Value"
        /\ GivesInst \/ sig.returns # <<>>
    BY Zenon DEF LanesInv, ResultOK
  <2> QED
    BY <2>2, <2>3
<1>2. \A ty \in Unitary : push_params(<<ty>>, ptr_ty) = <<>>
  BY <1>1, PushOne
<1>3. CASE GivesInst
  <2>1. Returns = <<>>
    BY <1>1, <1>3 DEF Returns
  <2>2. helper.ret \in Unitary \/ wrapper.ret \in Unitary
    BY <1>3 DEF GivesInst, ReturnsInst, Unitary, Units
  <2>3. wrapper.ret \in Unitary
    BY <2>2 DEF SameReturn, Unitary
  <2> QED
    BY <1>2, <2>1, <2>3
<1>4. CASE ~GivesInst
  <2>1. Returns = sig.returns /\ sig.returns # <<>>
    BY <1>1, <1>4 DEF Returns
  <2>2. helper.ret \notin Unitary
    BY <1>1, <1>2, <2>1
  <2>3. wrapper.ret = helper.ret
    BY <2>2 DEF SameReturn, Unitary
  <2> QED
    BY <1>1, <2>1, <2>3
<1> QED
  BY <1>3, <1>4

LEMMA InvCallAccepted ==
  ASSUME LanesInv
  PROVE  CallAccepted
<1> SUFFICES ASSUME phase = "refused", Faithful, SameReturn PROVE FALSE
  BY DEF CallAccepted
<1>1. phase \in Exported /\ phase \in Emitted
  BY DEF Exported, Emitted
<1>2. Fits
  BY <1>1, FaithfulLanes, ReturnsFit DEF Fits
<1> QED
  BY <1>2 DEF LanesInv, RefusedOK

LEMMA InvValuesArrive ==
  ASSUME LanesInv
  PROVE  ValuesArrive
<1> SUFFICES ASSUME phase = "called", Faithful, NEW j \in DOMAIN received
             PROVE  \/ received[j] = meant[j].n
                    \/ /\ IsNarrow(sig.params[j])
                       /\ (received[j] - meant[j].n) % Modulus(sig.params[j]) = 0
  BY DEF ValuesArrive
<1>1. phase \in Exported /\ ptr_ty \in Widths
  BY DEF Exported, LanesInv, SignatureOK
<1>2. /\ j \in DOMAIN args_buf
      /\ \E upper \in Int :
           received[j] = HostRead(NativeParams(helper.params)[j], args_buf[j], upper)
  BY DEF LanesInv, ReadOK
<1>3. /\ meant[j] \in Scalar(ptr_ty) /\ args_buf[j] = Lane(meant[j], ptr_ty)
      /\ NativeParams(helper.params)[j] = meant[j].ty
      /\ sig.params[j] = ParamLane(meant[j].ty, ptr_ty)
  BY <1>1, <1>2, FaithfulLanes
<1>4. PICK upper \in Int : received[j] = HostRead(meant[j].ty, Lane(meant[j], ptr_ty), upper)
  BY <1>2, <1>3
<1>5. CASE IsNarrow(ParamLane(meant[j].ty, ptr_ty))
  BY <1>1, <1>3, <1>4, <1>5, NarrowRead
<1>6. CASE ~IsNarrow(ParamLane(meant[j].ty, ptr_ty))
  BY <1>1, <1>3, <1>4, <1>6, WideRead
<1> QED
  BY <1>5, <1>6

\* Every lane of the signature is a native type, a helper returns at most one,
\* and each operand a call has lowered stands for one scalar of the source.
THEOREM LanesTypes == Spec => []TypeOK
BY LanesInvariant, InvTypeOK, PTL

\* JitParam and JitArg agree for every helper, wrapper, list of expressions and
\* pointer width: a call that passes the types the helper declares, in a
\* wrapper that returns what the helper returns, is never refused by the
\* verifier, whether the generated call or jit_call! emits it.
THEOREM TraitsAgree == Spec => []CallAccepted
BY LanesInvariant, InvCallAccepted, PTL

\* And every argument of every value arrives: a lane of an int or more is read
\* as the number the caller wrote, a narrower one up to the bits above it.
THEOREM ValuesReachTheHelper == Spec => []ValuesArrive
BY LanesInvariant, InvValuesArrive, PTL
=============================================================================
