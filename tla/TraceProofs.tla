----------------------------- MODULE TraceProofs -----------------------------
(***************************************************************************)
(* Proofs about the trace, for every program, every memory, every preview  *)
(* bound and every run: the traced interpreter is the interpreter, the      *)
(* previews of call arguments lie where they say, and the lines of a run    *)
(* retell it.                                                               *)
(*                                                                          *)
(* The two readers of the trace are recursive functions over its data.     *)
(* What is proved of them is proved by induction on a set of numbers, which *)
(* the library's well-founded induction gives without an operator           *)
(* parameter.                                                               *)
(***************************************************************************)
EXTENDS SimTrace, SimProofs, SequenceTheorems

(***************************************************************************)
(* format_call_args                                                         *)
(***************************************************************************)
\* One element of the line of a call.
Part == [val : SimValue, preview : BOOLEAN, text : Seq(Byte)]

\* The body of the loop, over the rest of the parts, and the parts from every
\* position on as the loop computes them.
Emit(vs, m, g, i) ==
  IF i > Len(vs) THEN <<>>
  ELSE IF Previewed(vs, i, m)
  THEN << Pointing(vs[i], Slice(m, i, vs)), Plain(vs[i + 1]) >> \o g[i + 2]
  ELSE << Plain(vs[i]) >> \o g[i + 1]

Loop(vs, m) ==
  CHOOSE from : from =
    [i \in 1 .. Len(vs) + 2 |->
       IF i > Len(vs) THEN <<>>
       ELSE IF Previewed(vs, i, m)
       THEN << Pointing(vs[i], Slice(m, i, vs)), Plain(vs[i + 1]) >> \o from[i + 2]
       ELSE << Plain(vs[i]) >> \o from[i + 1]]

LEMMA LoopResult ==
  ASSUME NEW vs, NEW m
  PROVE  format_call_args(vs, m) = Loop(vs, m)[1]
BY Zenon DEF format_call_args, Loop

\* What the parts s from position i on are: every value once, in order, and
\* every preview the text its length announces, inside memory.
PartsFit(s, m) ==
  \A j \in DOMAIN s : s[j].preview =>
     /\ j < Len(s)
     /\ s[j + 1].val = Cast("I64", Len(s[j].text))
     /\ Len(s[j].text) <= Len(m)

PartsFrom(vs, m, s, i) ==
  /\ s \in Seq(Part)
  /\ i <= Len(vs) => Len(s) = Len(vs) - i + 1
  /\ i > Len(vs) => Len(s) = 0
  /\ \A j \in 1 .. Len(s) : s[j].val = vs[i + j - 1]
  /\ PartsFit(s, m)

\* A preview is cut from memory between two addresses that lie in it.
LEMMA PreviewText ==
  ASSUME NEW vs \in Seq(SimValue), NEW m \in Seq(Byte), NEW i \in 1 .. Len(vs),
         Previewed(vs, i, m), Len(m) < UsizeMod \div 2
  PROVE  /\ i + 1 \in 1 .. Len(vs)
         /\ Slice(m, i, vs) \in Seq(Byte)
         /\ Len(Slice(m, i, vs)) <= Len(m)
         /\ vs[i + 1] = Cast("I64", Len(Slice(m, i, vs)))
<1> DEFINE lo == Start(vs[i])
           n  == vs[i + 1].n
<1>1. /\ i + 1 \in 1 .. Len(vs) /\ n \in 1 .. PreviewMax /\ vs[i + 1].ty = "I64"
      /\ PreviewEnd(lo, n) <= Len(m)
  BY DEF Previewed, FatPointer
<1>2. vs[i] \in SimValue /\ vs[i + 1] \in SimValue
  BY <1>1
<1>3. lo \in Nat /\ lo < UsizeMod
  <2>1. as_u64(vs[i]) \in Int
    <3>1. as_u64(vs[i]) \in U64
      BY <1>2, ValueFields
    <3> QED
      BY <3>1, Sizes DEF U64
  <2> QED
    BY <2>1, UsizeAssumption DEF Start
<1>4. n \in Nat /\ n > 0
  BY <1>1, TraceAssumption
<1>5. PreviewEnd(lo, n) = lo + n
  BY <1>1, <1>3, <1>4, UsizeAssumption DEF PreviewEnd
<1>6. lo + n <= Len(m)
  BY <1>1, <1>5
<1>7. Slice(m, i, vs) = SubSeq(m, lo + 1, lo + n)
  BY <1>5 DEF Slice, lo
<1> HIDE DEF lo, n
<1>8. Slice(m, i, vs) \in Seq(Byte) /\ Len(Slice(m, i, vs)) = n
  <2>1. /\ lo + 1 \in 1 .. Len(m) /\ lo + n \in 1 .. Len(m) /\ lo + 1 <= lo + n
        /\ n = (lo + n) - (lo + 1) + 1
    BY <1>3, <1>4, <1>6
  <2> DEFINE p == lo + 1
             q == lo + n
  <2> HIDE DEF p, q
  <2>2. p \in 1 .. Len(m) /\ q \in 1 .. Len(m) /\ p <= q /\ n = q - p + 1
    BY <2>1 DEF p, q
  <2>3. SubSeq(m, p, q) \in Seq(Byte) /\ Len(SubSeq(m, p, q)) = q - p + 1
    BY <2>2, SubSeqProperties
  <2> QED
    BY <1>7, <2>2, <2>3 DEF p, q
<1>9. vs[i + 1] = Cast("I64", n)
  BY <1>1, <1>2, CastOwn DEF n
<1> QED
  BY <1>1, <1>3, <1>4, <1>6, <1>8, <1>9 DEF lo, n

LEMMA Joined ==
  ASSUME NEW S, NEW s \in Seq(S), NEW t \in Seq(S)
  PROVE  /\ s \o t \in Seq(S) /\ Len(s \o t) = Len(s) + Len(t)
         /\ \A j \in 1 .. Len(s) : (s \o t)[j] = s[j]
         /\ \A j \in 1 .. Len(s) + Len(t) : j > Len(s) => (s \o t)[j] = t[j - Len(s)]
BY ConcatProperties

LEMMA PartsJoin ==
  ASSUME NEW m, NEW s \in Seq(Part), NEW t \in Seq(Part), PartsFit(s, m), PartsFit(t, m)
  PROVE  PartsFit(s \o t, m)
<1> DEFINE r == s \o t
<1>1. /\ r \in Seq(Part) /\ Len(r) = Len(s) + Len(t) /\ DOMAIN r = 1 .. Len(r)
      /\ \A j \in 1 .. Len(s) : r[j] = s[j]
      /\ \A j \in 1 .. Len(r) : j > Len(s) => r[j] = t[j - Len(s)]
  BY Joined
<1> HIDE DEF r
<1> SUFFICES ASSUME NEW j \in DOMAIN r, r[j].preview
             PROVE  /\ j < Len(r)
                    /\ r[j + 1].val = Cast("I64", Len(r[j].text))
                    /\ Len(r[j].text) <= Len(m)
  BY DEF PartsFit, r
<1>2. CASE j <= Len(s)
  <2>1. j \in DOMAIN s /\ r[j] = s[j]
    BY <1>1, <1>2
  <2>2. /\ j < Len(s)
        /\ s[j + 1].val = Cast("I64", Len(s[j].text))
        /\ Len(s[j].text) <= Len(m)
    BY <2>1 DEF PartsFit
  <2>3. r[j + 1] = s[j + 1]
    BY <1>1, <2>1, <2>2
  <2> QED
    BY <1>1, <2>1, <2>2, <2>3
<1>3. CASE j > Len(s)
  <2> DEFINE k == j - Len(s)
  <2>1. k \in DOMAIN t /\ j = Len(s) + k /\ r[j] = t[k]
    BY <1>1, <1>3
  <2>2. j + 1 > Len(s) /\ j + 1 - Len(s) = k + 1
    BY <1>1, <1>3
  <2> HIDE DEF k
  <2>3. /\ k < Len(t)
        /\ t[k + 1].val = Cast("I64", Len(t[k].text))
        /\ Len(t[k].text) <= Len(m)
    BY <2>1 DEF PartsFit
  <2>4. r[j + 1] = t[k + 1]
    <3>1. j + 1 \in 1 .. Len(r)
      BY <1>1, <2>1, <2>3
    <3> QED
      BY <1>1, <2>2, <3>1
  <2> QED
    BY <1>1, <2>1, <2>2, <2>3, <2>4
<1> QED
  BY <1>1, <1>2, <1>3

\* One turn of the loop keeps the parts it is put in front of.
LEMMA EmitFits ==
  ASSUME NEW vs \in Seq(SimValue), NEW m \in Seq(Byte), Len(m) < UsizeMod \div 2,
         NEW g, NEW i \in 1 .. Len(vs) + 2,
         \A k \in i + 1 .. Len(vs) + 2 : PartsFrom(vs, m, g[k], k)
  PROVE  PartsFrom(vs, m, Emit(vs, m, g, i), i)
<1>1. CASE i > Len(vs)
  BY <1>1 DEF Emit, PartsFrom, PartsFit
<1>2. CASE i <= Len(vs) /\ Previewed(vs, i, m)
  <2> DEFINE head == << Pointing(vs[i], Slice(m, i, vs)), Plain(vs[i + 1]) >>
             rest == g[i + 2]
             s == head \o rest
  <2>1. i \in 1 .. Len(vs)
    BY <1>2
  <2>2. /\ i + 1 \in 1 .. Len(vs)
        /\ Slice(m, i, vs) \in Seq(Byte)
        /\ Len(Slice(m, i, vs)) <= Len(m)
        /\ vs[i + 1] = Cast("I64", Len(Slice(m, i, vs)))
    BY <1>2, <2>1, PreviewText
  <2>3. /\ head \in Seq(Part) /\ Len(head) = 2
        /\ head[1] = Pointing(vs[i], Slice(m, i, vs)) /\ head[2] = Plain(vs[i + 1])
    BY <2>1, <2>2 DEF Part, Pointing, Plain
  <2>4. PartsFit(head, m) /\ head[1].val = vs[i] /\ head[2].val = vs[i + 1]
    BY <2>2, <2>3 DEF PartsFit, Pointing, Plain
  <2>5. PartsFrom(vs, m, rest, i + 2)
    BY <2>1, <2>2
  <2>6. rest \in Seq(Part) /\ Len(rest) = Len(vs) - i - 1
    BY <2>1, <2>2, <2>5 DEF PartsFrom
  <2> HIDE DEF head, rest
  <2>7. /\ s \in Seq(Part) /\ Len(s) = Len(vs) - i + 1
        /\ s[1] = head[1] /\ s[2] = head[2]
        /\ \A j \in 1 .. Len(s) : j > 2 => s[j] = rest[j - 2]
    <3>1. s \in Seq(Part) /\ Len(s) = Len(head) + Len(rest)
      BY <2>3, <2>6, Joined
    <3>2. \A j \in 1 .. Len(head) : s[j] = head[j]
      BY <2>3, <2>6, Joined
    <3>3. \A j \in 1 .. Len(head) + Len(rest) : j > Len(head) => s[j] = rest[j - Len(head)]
      BY <2>3, <2>6, Joined
    <3> HIDE DEF s
    <3>4. Len(rest) \in Nat /\ Len(vs) \in Nat /\ Len(s) = 2 + Len(rest)
      BY <2>3, <2>6, <3>1
    <3>5. s[1] = head[1] /\ s[2] = head[2]
      BY <2>3, <3>2
    <3>6. \A j \in 1 .. Len(s) : j > 2 => s[j] = rest[j - 2]
      BY <2>3, <3>3, <3>4
    <3>7. Len(s) = Len(vs) - i + 1
      BY <2>1, <2>6, <3>4
    <3> QED
      BY <3>1, <3>5, <3>6, <3>7
  <2>8. PartsFit(s, m)
    BY <2>3, <2>4, <2>5, PartsJoin DEF PartsFrom
  <2> HIDE DEF s
  <2>9. \A j \in 1 .. Len(rest) : rest[j].val = vs[i + 1 + j]
    <3> TAKE j \in 1 .. Len(rest)
    <3>1. rest[j].val = vs[i + 2 + j - 1] /\ i + 2 + j - 1 = i + 1 + j
      BY <2>5, <2>6, <2>1 DEF PartsFrom
    <3> QED
      BY <3>1
  <2>10. ASSUME NEW j \in 1 .. Len(s) PROVE s[j].val = vs[i + j - 1]
    <3>1. CASE j = 1
      BY <2>1, <2>4, <2>7, <3>1
    <3>2. CASE j = 2
      BY <2>1, <2>4, <2>7, <3>2
    <3>3. CASE j > 2
      <4>1. j - 2 \in 1 .. Len(rest) /\ i + 1 + (j - 2) = i + j - 1
        BY <2>1, <2>6, <2>7, <3>3
      <4>2. s[j] = rest[j - 2] /\ rest[j - 2].val = vs[i + 1 + (j - 2)]
        BY <2>7, <2>9, <3>3, <4>1
      <4> QED
        BY <4>1, <4>2
    <3> QED
      BY <2>7, <3>1, <3>2, <3>3
  <2>11. s = Emit(vs, m, g, i)
    BY <1>2, <2>1 DEF Emit, s, head, rest
  <2> QED
    BY <1>2, <2>7, <2>8, <2>10, <2>11 DEF PartsFrom
<1>3. CASE i <= Len(vs) /\ ~Previewed(vs, i, m)
  <2> DEFINE head == << Plain(vs[i]) >>
             rest == g[i + 1]
             s == head \o rest
  <2>1. i \in 1 .. Len(vs) /\ vs[i] \in SimValue
    BY <1>3
  <2>2. head \in Seq(Part) /\ Len(head) = 1 /\ head[1] = Plain(vs[i])
    BY <2>1 DEF Part, Plain
  <2>3. PartsFit(head, m) /\ head[1].val = vs[i]
    BY <2>2 DEF PartsFit, Plain
  <2>4. PartsFrom(vs, m, rest, i + 1)
    BY <2>1
  <2>5. rest \in Seq(Part) /\ Len(rest) = Len(vs) - i
    BY <2>1, <2>4 DEF PartsFrom
  <2> HIDE DEF head, rest
  <2>6. /\ s \in Seq(Part) /\ Len(s) = Len(vs) - i + 1
        /\ s[1] = head[1]
        /\ \A j \in 1 .. Len(s) : j > 1 => s[j] = rest[j - 1]
    <3>1. s \in Seq(Part) /\ Len(s) = Len(head) + Len(rest)
      BY <2>2, <2>5, Joined
    <3>2. \A j \in 1 .. Len(head) : s[j] = head[j]
      BY <2>2, <2>5, Joined
    <3>3. \A j \in 1 .. Len(head) + Len(rest) : j > Len(head) => s[j] = rest[j - Len(head)]
      BY <2>2, <2>5, Joined
    <3> HIDE DEF s
    <3>4. Len(rest) \in Nat /\ Len(vs) \in Nat /\ Len(s) = 1 + Len(rest)
      BY <2>2, <2>5, <3>1
    <3>5. s[1] = head[1]
      BY <2>2, <3>2
    <3>6. \A j \in 1 .. Len(s) : j > 1 => s[j] = rest[j - 1]
      BY <2>2, <3>3, <3>4
    <3>7. Len(s) = Len(vs) - i + 1
      BY <2>1, <2>5, <3>4
    <3> QED
      BY <3>1, <3>5, <3>6, <3>7
  <2>7. PartsFit(s, m)
    BY <2>2, <2>3, <2>4, PartsJoin DEF PartsFrom
  <2> HIDE DEF s
  <2>8. ASSUME NEW j \in 1 .. Len(s) PROVE s[j].val = vs[i + j - 1]
    <3>1. CASE j = 1
      BY <2>1, <2>3, <2>6, <3>1
    <3>2. CASE j > 1
      <4>1. j - 1 \in 1 .. Len(rest) /\ i + 1 + (j - 1) - 1 = i + j - 1
        BY <2>1, <2>5, <2>6, <3>2
      <4>2. s[j] = rest[j - 1] /\ rest[j - 1].val = vs[i + 1 + (j - 1) - 1]
        BY <2>4, <2>6, <3>2, <4>1 DEF PartsFrom
      <4> QED
        BY <4>1, <4>2
    <3> QED
      BY <2>6, <3>1, <3>2
  <2>9. s = Emit(vs, m, g, i)
    BY <1>3, <2>1 DEF Emit, s, head, rest
  <2> QED
    BY <1>3, <2>6, <2>7, <2>8, <2>9 DEF PartsFrom
<1> QED
  BY <1>1, <1>2, <1>3

\* The loop ends: the recursive function that stands for it exists, since the
\* entries can be filled in from the last one down.
LEMMA LoopExists ==
  ASSUME NEW vs \in Seq(SimValue), NEW m
  PROVE  \E g : g = [i \in 1 .. Len(vs) + 2 |-> Emit(vs, m, g, i)]
<1> DEFINE L == Len(vs)
           D == 1 .. Len(vs) + 2
           Filled(g, k) == \A i \in D : i > L - k => g[i] = Emit(vs, m, g, i)
           S == { k \in Nat : \E g : g = [i \in D |-> g[i]] /\ Filled(g, k) }
<1>1. L \in Nat
  OBVIOUS
<1>2. 0 \in S
  <2> DEFINE g == [i \in D |-> << >>]
  <2>1. g = [i \in D |-> g[i]] /\ Filled(g, 0)
    BY <1>1 DEF Emit
  <2> QED
    BY <2>1
<1>3. ASSUME NEW k \in Nat, k \in S PROVE k + 1 \in S
  <2>1. PICK g : g = [i \in D |-> g[i]] /\ Filled(g, k)
    BY <1>3
  <2>2. CASE k >= L
    <3>1. Filled(g, k + 1)
      BY <1>1, <2>1, <2>2
    <3> QED
      BY <2>1, <3>1
  <2>3. CASE k < L
    <3> DEFINE p == L - k
               h == [i \in D |-> IF i = p THEN Emit(vs, m, g, p) ELSE g[i]]
    <3>1. p \in 1 .. L /\ p \in D
      BY <1>1, <2>3
    <3>2. h = [i \in D |-> h[i]]
      OBVIOUS
    <3>3. \A i \in D : i >= p => Emit(vs, m, h, i) = Emit(vs, m, g, i)
      <4> TAKE i \in D
      <4> HAVE i >= p
      <4>1. i <= L => /\ i + 1 \in D /\ h[i + 1] = g[i + 1]
                      /\ i + 2 \in D /\ h[i + 2] = g[i + 2]
        BY <1>1, <3>1
      <4> HIDE DEF h
      <4> QED
        BY <4>1, <1>1 DEF Emit
    <3>4. Filled(h, k + 1)
      <4> SUFFICES ASSUME NEW i \in D, i > L - (k + 1) PROVE h[i] = Emit(vs, m, h, i)
        OBVIOUS
      <4>1. i >= p
        BY <1>1
      <4>2. CASE i = p
        BY <3>1, <3>3, <4>1, <4>2
      <4>3. CASE i # p
        <5>1. g[i] = Emit(vs, m, g, i)
          BY <1>1, <2>1, <4>1, <4>3
        <5>2. h[i] = g[i] /\ Emit(vs, m, h, i) = Emit(vs, m, g, i)
          BY <3>3, <4>1, <4>3
        <5> QED
          BY <5>1, <5>2
      <4> QED
        BY <4>2, <4>3
    <3> HIDE DEF h
    <3> QED
      BY <3>2, <3>4
  <2> QED
    BY <1>1, <2>2, <2>3
<1> HIDE DEF S
<1>4. L \in S
  BY <1>1, <1>2, <1>3, SetInduction
<1>5. PICK g : g = [i \in D |-> g[i]] /\ Filled(g, L)
  BY <1>4 DEF S
<1>6. \A i \in D : g[i] = Emit(vs, m, g, i)
  BY <1>1, <1>5
<1>7. g = [i \in D |-> Emit(vs, m, g, i)]
  BY <1>5, <1>6
<1> QED
  BY <1>7

LEMMA LoopEquation ==
  ASSUME NEW vs \in Seq(SimValue), NEW m
  PROVE  \A i \in 1 .. Len(vs) + 2 : Loop(vs, m)[i] = Emit(vs, m, Loop(vs, m), i)
<1>1. PICK g : g = [i \in 1 .. Len(vs) + 2 |-> Emit(vs, m, g, i)]
  BY LoopExists
<1>2. Loop(vs, m) = CHOOSE from : from = [i \in 1 .. Len(vs) + 2 |-> Emit(vs, m, from, i)]
  BY Zenon DEF Loop, Emit
<1>3. Loop(vs, m) = [i \in 1 .. Len(vs) + 2 |-> Emit(vs, m, Loop(vs, m), i)]
  BY <1>1, <1>2
<1> QED
  BY <1>3

\* The parts of a call line: every argument once, in order, and every preview
\* the text its length announces, inside memory.
LEMMA CallParts ==
  ASSUME NEW vs \in Seq(SimValue), NEW m \in Seq(Byte), Len(m) < UsizeMod \div 2
  PROVE  /\ format_call_args(vs, m) \in Seq(Part)
         /\ Len(format_call_args(vs, m)) = Len(vs)
         /\ \A j \in 1 .. Len(vs) : format_call_args(vs, m)[j].val = vs[j]
         /\ PartsFit(format_call_args(vs, m), m)
<1> DEFINE L == Len(vs)
           g == Loop(vs, m)
           S == { k \in Nat : \A i \in 1 .. L + 2 : i > L + 2 - k => PartsFrom(vs, m, g[i], i) }
<1>1. L \in Nat
  OBVIOUS
<1>2. \A i \in 1 .. L + 2 : g[i] = Emit(vs, m, g, i)
  BY LoopEquation
<1> HIDE DEF g
<1>3. 0 \in S
  BY <1>1
<1>4. ASSUME NEW k \in Nat, k \in S PROVE k + 1 \in S
  <2> SUFFICES ASSUME NEW i \in 1 .. L + 2, i > L + 2 - (k + 1)
               PROVE  PartsFrom(vs, m, g[i], i)
    OBVIOUS
  <2>1. \A j \in i + 1 .. L + 2 : PartsFrom(vs, m, g[j], j)
    BY <1>1, <1>4
  <2> QED
    BY <1>2, <2>1, EmitFits
<1> HIDE DEF S
<1>5. L + 2 \in S
  BY <1>1, <1>3, <1>4, SetInduction
<1>6. PartsFrom(vs, m, g[1], 1)
  BY <1>1, <1>5 DEF S
<1>7. format_call_args(vs, m) = g[1]
  BY LoopResult DEF g
<1>8. Len(g[1]) = L
  BY <1>1, <1>6 DEF PartsFrom
<1>9. \A j \in 1 .. L : g[1][j].val = vs[j]
  <2> TAKE j \in 1 .. L
  <2>1. g[1][j].val = vs[1 + j - 1] /\ 1 + j - 1 = j
    BY <1>6, <1>8 DEF PartsFrom
  <2> QED
    BY <2>1
<1> QED
  BY <1>6, <1>7, <1>8, <1>9 DEF PartsFrom

(***************************************************************************)
(* The traced interpreter is the interpreter                                *)
(***************************************************************************)
LEMMA TracedStep ==
  ASSUME TStep
  PROVE  Step
BY DEF TStep, TStraight, TStore, TCall, TJump, TBrif, TReturn, THalt, TFallOff,
   Straight, Step

LEMMA TracedNext ==
  ASSUME [TNext]_tvars
  PROVE  [Next]_vars
<1>1. CASE TStep
  BY <1>1, TracedStep DEF Next
<1>2. CASE TRun \/ TBuild
  BY <1>2 DEF TRun, TBuild, Next, Caller
<1>3. CASE UNCHANGED tvars
  BY <1>3 DEF tvars
<1> QED
  BY <1>1, <1>2, <1>3 DEF TNext

\* Recording a trace changes nothing: every behaviour of the traced
\* interpreter is a behaviour of the interpreter, so that what is proved of
\* Spec holds of the runs TLC makes under TSpec.
THEOREM TracedRunsAreRuns == TSpec => Spec
<1>1. TInit => Init
  BY DEF TInit
<1>2. [TNext]_tvars => [Next]_vars
  BY TracedNext
<1> QED
  BY <1>1, <1>2, PTL DEF TSpec, Spec

(***************************************************************************)
(* Buffers                                                                  *)
(***************************************************************************)
\* Memory changes hands and is written, it never grows.
BuffersFit == Len(memory) < UsizeMod \div 2 /\ Len(mem) < UsizeMod \div 2

LEMMA BuffersInit ==
  ASSUME Init
  PROVE  BuffersFit
<1>1. memory \in Seq(Byte) /\ Len(memory) < UsizeMod \div 2 /\ mem = << >>
  BY MemoriesType, BufferAssumption DEF Init
<1>2. Len(memory) \in Nat /\ Len(mem) = 0 /\ UsizeMod \div 2 \in Int
  BY <1>1, UsizeAssumption
<1> QED
  BY <1>1, <1>2 DEF BuffersFit

LEMMA BuffersNext ==
  ASSUME TypeOK, BuffersFit, [Next]_vars
  PROVE  BuffersFit'
<1>1. /\ Len(memory) \in Nat /\ Len(mem) \in Nat /\ UsizeMod \div 2 \in Int
      /\ Len(<< >>) = 0
  BY UsizeAssumption DEF TypeOK
<1>2. CASE Step
  <2>1. phase = "running" /\ memory' = memory
    BY <1>2, StepEffects DEF StepEffect
  <2>2. Len(mem') = Len(mem)
    BY <1>2, <2>1, MemoryFrame DEF Next
  <2> QED
    BY <2>1, <2>2 DEF BuffersFit
<1>3. CASE CallRun
  BY <1>1, <1>3 DEF CallRun, Run, TakeMemory, BuffersFit
<1>4. CASE NewSimulator
  BY <1>1, <1>4, BufferAssumption DEF NewSimulator, Build, BuffersFit
<1>5. CASE ReuseMemory
  BY <1>1, <1>5 DEF ReuseMemory, Build, BuffersFit
<1>6. CASE UNCHANGED vars
  BY <1>6 DEF vars, simulator, result, BuffersFit
<1> QED
  BY <1>2, <1>3, <1>4, <1>5, <1>6 DEF Next, Caller

(***************************************************************************)
(* The lines                                                                *)
(***************************************************************************)
Line == [kind : {"value"}, lhs : Seq(Value), rhs : Seq(SimValue \cup {Undef})]
        \cup [kind : {"jump"}, block : Block]
        \cup [kind : {"brif"}, cond : BOOLEAN, block : Block]
        \cup [kind : {"return"}, vals : Seq(SimValue)]
        \cup [kind : {"call"}, parts : Seq(Part), lhs : Seq(Value)]
        \cup [kind : {"halt"}, err : SimError, inst : Block \X Nat]

TraceType == record_trace \in BOOLEAN /\ trace \in Seq(Line)

\* A line whose previews lie in memory m.
LineFits(line, m) == line.kind = "call" => PartsFit(line.parts, m)

LEMMA HaltLinesType ==
  ASSUME TypeOK, TypeOK'
  PROVE  /\ HaltLines \in Seq(Line)
         /\ \A k \in DOMAIN HaltLines : LineFits(HaltLines[k], mem)
<1>1. error' # "none" => HaltLine(error') \in Line
  BY DEF TypeOK, HaltLine, Line
<1>2. error' # "none" => LineFits(HaltLine(error'), mem)
  BY DEF HaltLine, LineFits
<1>3. CASE error' = "none"
  BY <1>3 DEF HaltLines
<1>4. CASE error' # "none"
  BY <1>1, <1>2, <1>4 DEF HaltLines
<1> QED
  BY <1>3, <1>4

LEMMA CallLineType ==
  ASSUME TypeOK, BuffersFit, InBlock, OperandsBound
  PROVE  /\ CallLine \in Line /\ LineFits(CallLine, mem)
         /\ CallLine.lhs = inst.res
         /\ [j \in DOMAIN CallLine.parts |-> CallLine.parts[j].val]
              = [j \in DOMAIN inst.args |-> Arg(j)]
<1> DEFINE vs == [j \in DOMAIN inst.args |-> Arg(j)]
           parts == format_call_args(vs, mem)
<1>1. inst.args \in Seq(Value) /\ inst.res \in Seq(Value)
  BY InstType, InstructionType
<1>2. vs \in Seq(SimValue) /\ Len(vs) = Len(inst.args) /\ DOMAIN vs = DOMAIN inst.args
  BY <1>1, OperandValues
<1>3. mem \in Seq(Byte) /\ Len(mem) < UsizeMod \div 2
  BY DEF TypeOK, BuffersFit
<1> HIDE DEF vs
<1>4. /\ parts \in Seq(Part) /\ Len(parts) = Len(vs)
      /\ \A j \in 1 .. Len(vs) : parts[j].val = vs[j]
      /\ PartsFit(parts, mem)
  BY <1>2, <1>3, CallParts
<1>5. CallLine = [kind |-> "call", parts |-> parts, lhs |-> inst.res]
  BY DEF CallLine, vs
<1> HIDE DEF parts
<1>6. CallLine \in Line /\ LineFits(CallLine, mem) /\ CallLine.lhs = inst.res /\ CallLine.parts = parts
  BY <1>1, <1>4, <1>5 DEF Line, LineFits
<1>7. [j \in DOMAIN parts |-> parts[j].val] = vs
  <2>1. DOMAIN parts = DOMAIN vs /\ DOMAIN vs = 1 .. Len(vs)
    BY <1>2, <1>4
  <2>2. vs = [j \in DOMAIN vs |-> vs[j]]
    BY <1>2
  <2> QED
    BY <1>4, <2>1, <2>2
<1> QED
  BY <1>6, <1>7 DEF vs

(***************************************************************************)
(* One line read at the place of the interpreter                            *)
(***************************************************************************)
LEMMA FollowHere ==
  ASSUME TypeOK, InBlock, NEW line
  PROVE  Follow(func, Place, line) = FollowAt(func, Place, inst, line)
<1>1. Place # Lost
  <2>1. current # NoBlock
    BY CodeAssumption DEF TypeOK
  <2> QED
    BY <2>1 DEF Place, Lost
<1>2. Place.pc <= Len(Code[func].body[Place.block]) /\ Place.pc \in Int
      /\ Len(Code[func].body[Place.block]) \in Int
  BY InstType DEF Place
<1> QED
  BY <1>1, <1>2 DEF Follow, Place, inst, block_insts

LEMMA HaltFollowed ==
  ASSUME TypeOK, InBlock, NEW e, NEW regs
  PROVE  LET here == [block |-> current, pc |-> pc, regs |-> regs]
         IN  Follow(func, here, HaltLine(e)) = here
<1> DEFINE here == [block |-> current, pc |-> pc, regs |-> regs]
<1>1. FollowAt(func, here, inst, HaltLine(e)) = here
  BY DEF FollowAt, HaltLine
<1>2. here # Lost
  <2>1. current # NoBlock
    BY CodeAssumption DEF TypeOK
  <2> QED
    BY <2>1 DEF Lost
<1>3. pc <= Len(Code[func].body[current]) /\ pc \in Int
      /\ Len(Code[func].body[current]) \in Int
  BY InstType
<1> QED
  BY <1>1, <1>2, <1>3 DEF Follow, inst, block_insts

\* Binding the results again to the values they were just bound to gives the
\* same registers, however few of them the step had a value for.
LEMMA BindAgain ==
  ASSUME NEW regs, NEW slots \in Seq(Value), NEW vals, NEW bound,
         bound = Bind(regs, slots, vals)
  PROVE  Bind(regs, slots, [j \in DOMAIN slots |-> bound[slots[j]]]) = bound
<1> DEFINE again == [j \in DOMAIN slots |-> bound[slots[j]]]
           both == Bind(regs, slots, again)
<1>1. both = [v \in Value |-> both[v]] /\ bound = [v \in Value |-> bound[v]]
  BY DEF Bind
<1>2. ASSUME NEW v \in Value PROVE both[v] = bound[v]
  <2>1. CASE \E j \in DOMAIN slots : slots[j] = v
    <3> DEFINE k == CHOOSE j \in DOMAIN slots \cap DOMAIN again : slots[j] = v
    <3>1. k \in DOMAIN slots /\ slots[k] = v
      BY <2>1
    <3>2. both[v] = again[k]
      BY <2>1 DEF Bind
    <3> HIDE DEF k
    <3> QED
      BY <3>1, <3>2
  <2>2. CASE ~\E j \in DOMAIN slots : slots[j] = v
    BY <2>2 DEF Bind
  <2> QED
    BY <2>1, <2>2
<1> HIDE DEF both
<1>3. both = bound
  BY <1>1, <1>2
<1> QED
  BY <1>3 DEF both

LEMMA ValueFollowed ==
  ASSUME TypeOK, InBlock, NEW vals, Continue(Bind(registers, inst.res, vals), mem)
  PROVE  Follow(func, Place,
                ValueLine([j \in DOMAIN inst.res |-> registers'[inst.res[j]]])) = Place'
<1> DEFINE rhs == [j \in DOMAIN inst.res |-> registers'[inst.res[j]]]
<1>1. inst.res \in Seq(Value)
  BY InstType, InstructionType
<1>2. registers' = Bind(registers, inst.res, vals) /\ pc' = pc + 1 /\ current' = current
  BY DEF Continue
<1>3. Bind(registers, inst.res, rhs) = registers'
  BY <1>1, <1>2, BindAgain
<1> HIDE DEF rhs
<1>4. FollowAt(func, Place, inst, ValueLine(rhs))
        = [Place EXCEPT !.pc = @ + 1, !.regs = Bind(Place.regs, inst.res, rhs)]
  BY DEF FollowAt, ValueLine
<1>5. FollowAt(func, Place, inst, ValueLine(rhs)) = Place'
  BY <1>2, <1>3, <1>4 DEF Place
<1> QED
  BY <1>5, FollowHere DEF rhs

LEMMA JumpFollowed ==
  ASSUME TypeOK, InBlock, inst.fmt = "Jump", Enter(inst.dst[1])
  PROVE  Follow(func, Place, JumpLine) = Place'
<1> DEFINE d == inst.dst[1]
           went == [block |-> d.block, pc |-> 1,
                    regs  |-> Bind(Place.regs, Code[func].params[d.block],
                                   [j \in DOMAIN d.args |-> Place.regs[d.args[j]]])]
<1>1. FollowAt(func, Place, inst, JumpLine) = went
  BY DEF FollowAt, JumpLine
<1>2. went = Place'
  BY DEF Enter, Transfer, Place, Reg
<1> QED
  BY <1>1, <1>2, FollowHere

LEMMA BrifFollowed ==
  ASSUME TypeOK, InBlock, inst.fmt = "Brif", Enter(Chosen)
  PROVE  Follow(func, Place, BrifLine) = Place'
<1> DEFINE d == Chosen
           went == [block |-> d.block, pc |-> 1,
                    regs  |-> Bind(Place.regs, Code[func].params[d.block],
                                   [j \in DOMAIN d.args |-> Place.regs[d.args[j]]])]
<1>1. /\ BrifLine.kind = "brif" /\ BrifLine.block = d.block
      /\ inst.dst[IF BrifLine.cond THEN 1 ELSE 2] = d
  BY DEF BrifLine, Chosen
<1> HIDE DEF d
<1>2. FollowAt(func, Place, inst, BrifLine) = went
  BY <1>1 DEF FollowAt
<1>3. went = Place'
  BY DEF Enter, Transfer, Place, Reg, d
<1> QED
  BY <1>2, <1>3, FollowHere

LEMMA ReturnFollowed ==
  ASSUME TypeOK, InBlock
  PROVE  Follow(func, Place, ReturnLine) = Place
<1>1. /\ ReturnLine.kind = "return"
      /\ ReturnLine.vals = [j \in DOMAIN inst.args |-> Place.regs[inst.args[j]]]
  BY DEF ReturnLine, Place, Arg, Reg
<1>2. FollowAt(func, Place, inst, ReturnLine) = Place
  BY <1>1 DEF FollowAt
<1> QED
  BY <1>2, FollowHere

LEMMA CallFollowed ==
  ASSUME TypeOK, BuffersFit, InBlock, OperandsBound, inst.fmt = "Call", Call
  PROVE  Follow(func, Place, CallLine) = Place'
<1> DEFINE bound == { k \in DOMAIN inst.res : \A j \in 1 .. k : Zeroable(j) }
           regs  == Bind(registers, inst.res,
                         [k \in bound |-> zero_of(Code[func].vty[inst.res[k]])])
<1>1. /\ CallLine.kind = "call" /\ CallLine.lhs = inst.res
      /\ [j \in DOMAIN CallLine.parts |-> CallLine.parts[j].val]
           = [j \in DOMAIN inst.args |-> Place.regs[inst.args[j]]]
  <2>1. CallLine.kind = "call"
    BY DEF CallLine
  <2>2. [j \in DOMAIN inst.args |-> Arg(j)] = [j \in DOMAIN inst.args |-> Place.regs[inst.args[j]]]
    BY DEF Place, Arg, Reg
  <2> QED
    BY <2>1, <2>2, CallLineType
<1>2. FollowAt(func, Place, inst, CallLine)
        = [[Place EXCEPT !.pc = @ + 1, !.regs = regs]
             EXCEPT !.pc = IF bound = DOMAIN inst.res THEN @ ELSE Place.pc]
  BY <1>1 DEF FollowAt, Zeroable, Place
<1>3. IF bound = DOMAIN inst.res THEN Continue(regs, mem) ELSE Halt("TypeMismatch", regs, mem)
  BY DEF Call
<1> HIDE DEF bound, regs
<1>4. FollowAt(func, Place, inst, CallLine) = Place'
  <2>1. CASE bound = DOMAIN inst.res
    BY <1>2, <1>3, <2>1 DEF Continue, Place
  <2>2. CASE bound # DOMAIN inst.res
    BY <1>2, <1>3, <2>2 DEF Halt, Place
  <2> QED
    BY <2>1, <2>2
<1> QED
  BY <1>4, FollowHere

(***************************************************************************)
(* One step of a run                                                        *)
(***************************************************************************)
\* A step pushes lines of the right shape, with previews inside memory: no
\* line, and it stays, one that leads to where it goes, or two of a call that
\* fails, which together do.
Tells(lines) ==
  /\ lines \in Seq(Line)
  /\ \A k \in DOMAIN lines : LineFits(lines[k], mem)
  /\ Push(lines)
  /\ \/ lines = << >> /\ Place' = Place
     \/ \E line \in Line : lines = << line >> /\ Follow(func, Place, line) = Place'
     \/ \E one, two \in Line :
          /\ lines = << one >> \o << two >>
          /\ Follow(func, Follow(func, Place, one), two) = Place'

LEMMA OneLine ==
  ASSUME NEW line \in Line, LineFits(line, mem), Push(<< line >>),
         Follow(func, Place, line) = Place'
  PROVE  Tells(<< line >>)
BY DEF Tells

LEMMA HaltTells ==
  ASSUME TypeOK, TypeOK', InBlock, error' # "none", Push(HaltLines),
         UNCHANGED <<current, pc, registers>>
  PROVE  Tells(HaltLines)
<1>1. HaltLines = << HaltLine(error') >>
  BY DEF HaltLines
<1>2. HaltLine(error') \in Line /\ LineFits(HaltLine(error'), mem)
  BY DEF TypeOK, HaltLine, Line, LineFits
<1>3. Follow(func, Place, HaltLine(error')) = Place /\ Place' = Place
  BY HaltFollowed DEF Place
<1> QED
  BY <1>1, <1>2, <1>3, OneLine

\* A new sequence of results, as a line shows them.
LEMMA ValueLineType ==
  ASSUME TypeOK, TypeOK', InBlock
  PROVE  /\ ValueLine([j \in DOMAIN inst.res |-> registers'[inst.res[j]]]) \in Line
         /\ LineFits(ValueLine([j \in DOMAIN inst.res |-> registers'[inst.res[j]]]), mem)
<1>1. inst.res \in Seq(Value)
  BY InstType, InstructionType
<1> DEFINE rhs == [j \in DOMAIN inst.res |-> registers'[inst.res[j]]]
<1>2. rhs \in Seq(SimValue \cup {Undef})
  <2>1. \A v \in Value : registers'[v] \in SimValue \cup {Undef}
    BY DEF TypeOK
  <2>2. \A j \in 1 .. Len(inst.res) : registers'[inst.res[j]] \in SimValue \cup {Undef}
    BY <1>1, <2>1
  <2>3. DOMAIN inst.res = 1 .. Len(inst.res) /\ Len(inst.res) \in Nat
    BY <1>1
  <2> DEFINE S == SimValue \cup {Undef}
             at(j) == registers'[inst.res[j]]
  <2>4. rhs = [j \in 1 .. Len(inst.res) |-> at(j)]
    BY <2>3
  <2>5. \A j \in 1 .. Len(inst.res) : at(j) \in S
    BY <2>2
  <2> HIDE DEF S, at, rhs
  <2>6. rhs \in Seq(S)
    BY <2>3, <2>4, <2>5
  <2> QED
    BY <2>6 DEF S
<1> HIDE DEF rhs
<1>3. ValueLine(rhs) \in Line /\ LineFits(ValueLine(rhs), mem)
  BY <1>1, <1>2 DEF ValueLine, Line, LineFits
<1> QED
  BY <1>3 DEF rhs

LEMMA StraightTells ==
  ASSUME TypeOK, TypeOK', ResultShape, TStraight
  PROVE  \E lines : Tells(lines)
<1>1. Executing /\ \E r : Deliver(r)
  BY DEF TStraight, Straight, Iconst, FloatConst, Binary, Unary, IntCompare,
     FloatCompare, Select, Load, Arm
<1>2. InBlock /\ error = "none"
  BY <1>1 DEF Executing, InBlock, ResultShape
<1>3. PICK r : Deliver(r)
  BY <1>1
<1>4. CASE r.err = "none"
  <2> DEFINE line == ValueLine([j \in DOMAIN inst.res |-> registers'[inst.res[j]]])
  <2>1. Continue(Bind(registers, inst.res, <<r.val>>), mem)
    BY <1>3, <1>4 DEF Deliver
  <2>2. error' = "none"
    BY <1>2, <2>1 DEF Continue
  <2>3. Push(<< line >>)
    BY <2>2 DEF TStraight
  <2>4. Follow(func, Place, line) = Place'
    BY <1>2, <2>1, ValueFollowed
  <2>5. line \in Line /\ LineFits(line, mem)
    BY <1>2, ValueLineType
  <2> HIDE DEF line
  <2> QED
    BY <2>3, <2>4, <2>5, OneLine
<1>5. CASE r.err # "none"
  <2>1. Halt(r.err, registers, mem)
    BY <1>3, <1>5 DEF Deliver
  <2>2. error' # "none" /\ UNCHANGED <<current, pc, registers>>
    BY <1>5, <2>1 DEF Halt
  <2>3. Push(HaltLines)
    BY <2>2 DEF TStraight
  <2> QED
    BY <1>2, <2>2, <2>3, HaltTells
<1> QED
  BY <1>4, <1>5

LEMMA StoreTells ==
  ASSUME TypeOK, TypeOK', ResultShape, TStore
  PROVE  \E lines : Tells(lines)
<1> DEFINE r == store_to(mem, Address(Arg(2), inst.imm), Arg(1))
<1>1. InBlock /\ OperandsBound /\ inst.fmt = "Store" /\ error = "none"
  BY ArmFacts DEF TStore, Store, InBlock, ResultShape
<1>2. IF r.err = "none" THEN Continue(registers, r.mem) ELSE Halt(r.err, registers, r.mem)
  BY DEF TStore, Store
<1> HIDE DEF r
<1>3. CASE r.err = "none"
  <2>1. error' = "none" /\ registers' = registers /\ current' = current /\ pc' = pc + 1
    BY <1>1, <1>2, <1>3 DEF Continue
  <2>2. Push(<< ValueLine(<< >>) >>)
    BY <2>1 DEF TStore
  <2>3. ValueLine(<< >>) \in Line /\ LineFits(ValueLine(<< >>), mem)
    BY <1>1, InstType, InstructionType DEF ValueLine, Line, LineFits
  <2>4. FollowAt(func, Place, inst, ValueLine(<< >>))
          = [Place EXCEPT !.pc = @ + 1, !.regs = Bind(Place.regs, inst.res, << >>)]
    BY DEF FollowAt, ValueLine
  <2>5. Bind(registers, inst.res, << >>) = registers
    <3>1. registers = [v \in Value |-> registers[v]]
      BY DEF TypeOK
    <3>2. DOMAIN << >> = {}
      OBVIOUS
    <3> QED
      BY <3>1, <3>2 DEF Bind
  <2>6. FollowAt(func, Place, inst, ValueLine(<< >>)) = Place'
    BY <2>1, <2>4, <2>5 DEF Place
  <2> QED
    BY <1>1, <2>2, <2>3, <2>6, FollowHere, OneLine
<1>4. CASE r.err # "none"
  <2>1. error' # "none" /\ UNCHANGED <<current, pc, registers>>
    BY <1>2, <1>4 DEF Halt
  <2>2. Push(HaltLines)
    BY <2>1 DEF TStore
  <2> QED
    BY <1>1, <2>1, <2>2, HaltTells
<1> QED
  BY <1>3, <1>4

LEMMA CallTells ==
  ASSUME TypeOK, TypeOK', BuffersFit, ResultShape, TCall
  PROVE  \E lines : Tells(lines)
<1> DEFINE bound == { k \in DOMAIN inst.res : \A j \in 1 .. k : Zeroable(j) }
           regs  == Bind(registers, inst.res,
                         [k \in bound |-> zero_of(Code[func].vty[inst.res[k]])])
<1>0. Call
  BY DEF TCall
<1>1. InBlock /\ OperandsBound /\ inst.fmt = "Call" /\ error = "none"
  BY ArmFacts DEF TCall, Call, InBlock, ResultShape
<1>2. IF bound = DOMAIN inst.res THEN Continue(regs, mem) ELSE Halt("TypeMismatch", regs, mem)
  BY DEF TCall, Call
<1>3. CallLine \in Line /\ LineFits(CallLine, mem)
  BY <1>1, CallLineType
<1>4. CASE bound = DOMAIN inst.res
  <2>1. Continue(Bind(registers, inst.res,
                      [k \in DOMAIN inst.res |-> zero_of(Code[func].vty[inst.res[k]])]), mem)
    BY <1>2, <1>4
  <2>2. error' = "none"
    BY <1>1, <2>1 DEF Continue
  <2>3. HaltLines = << >>
    BY <2>2 DEF HaltLines
  <2>4. << CallLine >> \o << >> = << CallLine >>
    BY <1>3, ConcatEmptySeq
  <2>5. Push(<< CallLine >>)
    BY <2>3, <2>4 DEF TCall
  <2>6. Follow(func, Place, CallLine) = Place'
    BY <1>0, <1>1, CallFollowed
  <2> QED
    BY <1>3, <2>5, <2>6, OneLine
<1>5. CASE bound # DOMAIN inst.res
  <2> DEFINE lines == << CallLine >> \o HaltLines
  <2>1. Halt("TypeMismatch", regs, mem)
    BY <1>2, <1>5
  <2>2. /\ error' = "TypeMismatch" /\ func' = func /\ current' = current /\ pc' = pc
    BY <2>1 DEF Halt
  <2>3. Follow(func, Follow(func, Place, CallLine), HaltLine(error')) = Place'
    <3>1. Follow(func, Place, CallLine) = Place'
      BY <1>0, <1>1, CallFollowed
    <3>2. Place' = [block |-> current, pc |-> pc, regs |-> registers']
      BY <2>2 DEF Place
    <3>3. Follow(func, [block |-> current, pc |-> pc, regs |-> registers'], HaltLine(error'))
            = [block |-> current, pc |-> pc, regs |-> registers']
      BY <1>1, HaltFollowed
    <3> QED
      BY <3>1, <3>2, <3>3
  <2>4. HaltLine(error') \in Line /\ LineFits(HaltLine(error'), mem)
    BY <2>2 DEF TypeOK, HaltLine, Line, LineFits
  <2>5. HaltLines = << HaltLine(error') >>
    BY <2>2 DEF HaltLines
  <2>6. Push(lines)
    BY DEF TCall
  <2>7. lines \in Seq(Line) /\ \A k \in DOMAIN lines : LineFits(lines[k], mem)
    <3> DEFINE a == CallLine
               b == HaltLine(error')
    <3>1. a \in Line /\ LineFits(a, mem) /\ b \in Line /\ LineFits(b, mem) /\ lines = << a >> \o << b >>
      BY <1>3, <2>4, <2>5
    <3> HIDE DEF a, b, lines
    <3>2. /\ << a >> \in Seq(Line) /\ << b >> \in Seq(Line)
          /\ Len(<< a >>) = 1 /\ Len(<< b >>) = 1 /\ << a >>[1] = a /\ << b >>[1] = b
      BY <3>1
    <3>3. lines \in Seq(Line) /\ Len(lines) = 2
      BY <3>1, <3>2, Joined
    <3>4. lines[1] = a /\ lines[2] = b
      BY <3>1, <3>2, Joined
    <3> QED
      BY <3>1, <3>3, <3>4
  <2> HIDE DEF lines
  <2> QED
    BY <1>3, <2>3, <2>4, <2>5, <2>6, <2>7 DEF Tells, lines
<1> QED
  BY <1>4, <1>5

LEMMA StepTells ==
  ASSUME TypeOK, TypeOK', BuffersFit, ResultShape, TStep
  PROVE  \E lines : Tells(lines)
<1>1. CASE TJump
  <2>1. InBlock /\ OperandsBound /\ inst.fmt = "Jump"
    BY <1>1, ArmFacts DEF TJump, Jump
  <2>2. inst.dst[1] \in BlockCall
    BY <2>1, BranchTarget
  <2>3. JumpLine \in Line /\ LineFits(JumpLine, mem)
    BY <2>2 DEF JumpLine, Line, LineFits, BlockCall
  <2> QED
    BY <1>1, <2>1, <2>3, JumpFollowed, OneLine DEF TJump, Jump
<1>2. CASE TBrif
  <2>1. InBlock /\ OperandsBound /\ inst.fmt = "Brif"
    BY <1>2, ArmFacts DEF TBrif, Brif
  <2>2. Chosen \in BlockCall
    BY <2>1, BranchTarget
  <2>3. BrifLine \in Line /\ LineFits(BrifLine, mem)
    BY <2>2 DEF BrifLine, Line, LineFits, BlockCall
  <2> QED
    BY <1>2, <2>1, <2>3, BrifFollowed, OneLine DEF TBrif, Brif
<1>3. CASE TReturn
  <2>1. InBlock /\ OperandsBound
    BY <1>3, ArmFacts DEF TReturn, Return
  <2>2. ReturnLine \in Line /\ LineFits(ReturnLine, mem)
    <3>1. inst.args \in Seq(Value)
      BY <2>1, InstType, InstructionType
    <3>2. [j \in DOMAIN inst.args |-> Arg(j)] \in Seq(SimValue)
      BY <2>1, <3>1, OperandValues
    <3> QED
      BY <3>2 DEF ReturnLine, Line, LineFits
  <2>3. Follow(func, Place, ReturnLine) = Place'
    BY <1>3, <2>1, ReturnFollowed DEF TReturn, Return, Place
  <2> QED
    BY <1>3, <2>2, <2>3, OneLine DEF TReturn
<1>4. CASE THalt
  <2>1. InBlock /\ error' # "none" /\ UNCHANGED <<current, pc, registers>>
    BY <1>4 DEF THalt, Unsupported, UndefinedOperand, StepLimit, Executing, Halt, control
  <2> QED
    BY <1>4, <2>1, HaltTells DEF THalt
<1>5. CASE TFallOff
  <2>1. Place' = Place
    BY <1>5 DEF TFallOff, FallOff, control, Place
  <2>2. Tells(<< >>)
    BY <1>5, <2>1 DEF TFallOff, Tells
  <2> QED
    BY <2>2
<1>6. CASE TStraight
  BY <1>6, StraightTells
<1>7. CASE TStore
  BY <1>7, StoreTells
<1>8. CASE TCall
  BY <1>8, CallTells
<1> QED
  BY <1>1, <1>2, <1>3, <1>4, <1>5, <1>6, <1>7, <1>8 DEF TStep

(***************************************************************************)
(* Following a whole trace                                                  *)
(***************************************************************************)
\* Some function reads the lines one after the other, from s to r.
Retells(f, s, lines, u) ==
  u = [k \in 0 .. Len(lines) |-> IF k = 0 THEN s ELSE Follow(f, u[k - 1], lines[k])]

Told(f, s, lines, r) == \E u : Retells(f, s, lines, u) /\ u[Len(lines)] = r

LEMMA ToldStart ==
  ASSUME NEW f, NEW s
  PROVE  Told(f, s, << >>, s)
<1> DEFINE u == [k \in 0 .. Len(<< >>) |-> s]
<1>1. Len(<< >>) = 0
  OBVIOUS
<1>2. \A k \in 0 .. Len(<< >>) : k = 0
  BY <1>1
<1>3. Retells(f, s, << >>, u) /\ u[Len(<< >>)] = s
  BY <1>1, <1>2 DEF Retells
<1> QED
  BY <1>3 DEF Told

LEMMA ToldNext ==
  ASSUME NEW f, NEW s, NEW lines \in Seq(Line), NEW line \in Line, NEW r,
         Told(f, s, lines, r)
  PROVE  Told(f, s, lines \o << line >>, Follow(f, r, line))
<1> DEFINE n == Len(lines)
           all == lines \o << line >>
<1>1. PICK u : Retells(f, s, lines, u) /\ u[n] = r
  BY DEF Told
<1> DEFINE w == [k \in 0 .. n + 1 |-> IF k <= n THEN u[k] ELSE Follow(f, r, line)]
<1>2. n \in Nat /\ << line >> \in Seq(Line) /\ Len(<< line >>) = 1 /\ << line >>[1] = line
  OBVIOUS
<1>3. /\ Len(all) = n + 1 /\ all[n + 1] = line
      /\ \A k \in 1 .. n : all[k] = lines[k]
  <2>1. Len(all) = n + 1
    BY <1>2, Joined
  <2>2. \A k \in 1 .. n : all[k] = lines[k]
    BY <1>2, Joined
  <2>3. n + 1 \in 1 .. n + 1 /\ n + 1 > n /\ n + 1 - n = 1
    BY <1>2
  <2>4. all[n + 1] = << line >>[n + 1 - n]
    BY <1>2, <2>3, Joined
  <2> QED
    BY <1>2, <2>1, <2>2, <2>3, <2>4
<1> HIDE DEF all, n
<1>4. \A k \in 0 .. n : u[k] = IF k = 0 THEN s ELSE Follow(f, u[k - 1], lines[k])
  BY <1>1 DEF Retells, n
<1>5. ASSUME NEW k \in 0 .. n + 1
      PROVE  w[k] = IF k = 0 THEN s ELSE Follow(f, w[k - 1], all[k])
  <2>1. CASE k <= n
    <3>1. k # 0 => k - 1 \in 0 .. n /\ k \in 1 .. n
      BY <1>2, <2>1
    <3> QED
      BY <1>2, <1>3, <1>4, <2>1, <3>1
  <2>2. CASE k = n + 1
    <3>1. k # 0 /\ k - 1 = n /\ n \in 0 .. n + 1 /\ ~(k <= n)
      BY <1>2, <2>2
    <3>2. w[k - 1] = u[n] /\ w[k] = Follow(f, r, line) /\ all[k] = line
      BY <1>2, <1>3, <2>2, <3>1
    <3> QED
      BY <1>1, <3>1, <3>2
  <2> QED
    BY <1>2, <2>1, <2>2
<1>6. w = [k \in 0 .. n + 1 |-> w[k]]
  OBVIOUS
<1>7. w[n + 1] = Follow(f, r, line)
  BY <1>2
<1> HIDE DEF w
<1>8. Retells(f, s, all, w) /\ w[Len(all)] = Follow(f, r, line)
  BY <1>3, <1>5, <1>6, <1>7 DEF Retells
<1> QED
  BY <1>8 DEF Told, all

\* Two functions that read the same lines are the same.
LEMMA ToldOnce ==
  ASSUME NEW f, NEW s, NEW lines \in Seq(Line), NEW u, NEW w,
         Retells(f, s, lines, u), Retells(f, s, lines, w)
  PROVE  u[Len(lines)] = w[Len(lines)]
<1> DEFINE n == Len(lines)
           S == { k \in Nat : k <= n => u[k] = w[k] }
<1>1. n \in Nat
  OBVIOUS
<1>2. \A k \in 0 .. n : /\ u[k] = IF k = 0 THEN s ELSE Follow(f, u[k - 1], lines[k])
                        /\ w[k] = IF k = 0 THEN s ELSE Follow(f, w[k - 1], lines[k])
  BY DEF Retells
<1>3. 0 \in S
  BY <1>1, <1>2
<1>4. ASSUME NEW k \in Nat, k \in S PROVE k + 1 \in S
  <2> SUFFICES ASSUME k + 1 <= n PROVE u[k + 1] = w[k + 1]
    OBVIOUS
  <2>1. k + 1 \in 0 .. n /\ k + 1 # 0 /\ (k + 1) - 1 = k /\ k <= n
    BY <1>1
  <2>2. u[k] = w[k]
    BY <1>4, <2>1
  <2> QED
    BY <1>2, <2>1, <2>2
<1> HIDE DEF S
<1>5. n \in S
  BY <1>1, <1>3, <1>4, SetInduction
<1> QED
  BY <1>1, <1>5 DEF S

LEMMA ReadingTold ==
  ASSUME trace \in Seq(Line), NEW r, Told(func, Beginning, trace, r)
  PROVE  Reading = r
<1> DEFINE upto == CHOOSE u : u = [k \in 0 .. Len(trace) |->
                                     IF k = 0 THEN Beginning
                                     ELSE Follow(func, u[k - 1], trace[k])]
<1>1. Reading = upto[Len(trace)]
  BY Zenon DEF Reading
<1>2. PICK u : Retells(func, Beginning, trace, u) /\ u[Len(trace)] = r
  BY DEF Told
<1>3. upto = CHOOSE w : Retells(func, Beginning, trace, w)
  BY Zenon DEF Retells
<1> HIDE DEF upto
<1>4. Retells(func, Beginning, trace, upto)
  BY <1>2, <1>3
<1> QED
  BY <1>1, <1>2, <1>4, ToldOnce

(***************************************************************************)
(* The invariant of the trace                                               *)
(***************************************************************************)
Judged == record_trace /\ phase # "idle" /\ error # "NoEntryBlock"

TraceInv ==
  /\ TraceType
  /\ BuffersFit
  /\ PreviewsFit
  /\ Judged => Told(func, Beginning, trace, Place)

LEMMA PreviewsAre ==
  PreviewsFit <=> \A k \in DOMAIN trace : LineFits(trace[k], mem)
BY DEF PreviewsFit, LineFits, PartsFit

LEMMA TraceStep ==
  ASSUME TypeOK, TypeOK', ResultShape, TraceInv, TStep
  PROVE  TraceType' /\ PreviewsFit' /\ (Judged' => Told(func, Beginning, trace, Place)')
<1>1. Step /\ phase = "running" /\ error = "none"
  BY TracedStep, StepEffects DEF ResultShape
<1>2. func' = func /\ args' = args /\ Beginning' = Beginning
  BY <1>1, StepCall DEF Beginning
<1>3. PICK lines : Tells(lines)
  BY StepTells DEF TraceInv
<1>4. /\ lines \in Seq(Line) /\ \A k \in DOMAIN lines : LineFits(lines[k], mem)
      /\ record_trace' = record_trace
      /\ trace' = IF record_trace THEN trace \o lines ELSE trace
  BY <1>3 DEF Tells, Push
<1>5. trace \in Seq(Line) /\ record_trace \in BOOLEAN
      /\ \A k \in DOMAIN trace : LineFits(trace[k], mem)
  BY PreviewsAre DEF TraceInv, TraceType
<1>6. trace' \in Seq(Line) /\ \A k \in DOMAIN trace' : LineFits(trace'[k], mem)
  <2>1. CASE ~record_trace
    BY <1>4, <1>5, <2>1
  <2>2. CASE record_trace
    <3>1. /\ trace' \in Seq(Line) /\ Len(trace') = Len(trace) + Len(lines)
          /\ \A j \in 1 .. Len(trace) : trace'[j] = trace[j]
          /\ \A j \in 1 .. Len(trace) + Len(lines) :
                j > Len(trace) => trace'[j] = lines[j - Len(trace)]
      BY <1>4, <1>5, <2>2, Joined
    <3> SUFFICES ASSUME NEW k \in DOMAIN trace' PROVE LineFits(trace'[k], mem)
      BY <3>1
    <3>2. k \in 1 .. Len(trace) + Len(lines)
      BY <3>1
    <3>3. CASE k <= Len(trace)
      BY <1>5, <3>1, <3>2, <3>3
    <3>4. CASE k > Len(trace)
      <4>1. k - Len(trace) \in DOMAIN lines
        BY <1>4, <1>5, <3>2, <3>4
      <4> QED
        BY <1>4, <3>1, <3>2, <3>4, <4>1
    <3> QED
      BY <1>4, <1>5, <3>2, <3>3, <3>4
  <2> QED
    BY <1>5, <2>1, <2>2
<1>7. PreviewsFit'
  <2>1. Len(mem') = Len(mem)
    BY <1>1, MemoryFrame DEF Next
  <2>2. \A k \in DOMAIN trace' :
           trace'[k].kind = "call" => PartsFit(trace'[k].parts, mem')
    BY <1>6, <2>1 DEF LineFits, PartsFit
  <2> QED
    BY <2>2 DEF PreviewsFit, PartsFit
<1>8. ASSUME Judged' PROVE Told(func, Beginning, trace, Place)'
  <2>1. record_trace /\ trace' = trace \o lines
    BY <1>4, <1>8 DEF Judged
  <2>2. Judged
    BY <1>1, <2>1 DEF Judged
  <2>3. Told(func, Beginning, trace, Place)
    BY <2>2 DEF TraceInv
  <2>4. Told(func, Beginning, trace', Place')
    <3>1. CASE lines = << >> /\ Place' = Place
      <4>1. trace' = trace
        BY <1>5, <2>1, <3>1, ConcatEmptySeq
      <4> QED
        BY <2>3, <3>1, <4>1
    <3>2. CASE \E line \in Line : lines = << line >> /\ Follow(func, Place, line) = Place'
      BY <1>5, <2>1, <2>3, <3>2, ToldNext
    <3>3. CASE \E one, two \in Line :
                 /\ lines = << one >> \o << two >>
                 /\ Follow(func, Follow(func, Place, one), two) = Place'
      <4>1. PICK one \in Line, two \in Line :
              /\ lines = << one >> \o << two >>
              /\ Follow(func, Follow(func, Place, one), two) = Place'
        BY <3>3
      <4>2. Told(func, Beginning, trace \o << one >>, Follow(func, Place, one))
        BY <1>5, <2>3, ToldNext
      <4>3. trace \o << one >> \in Seq(Line)
        BY <1>5
      <4>4. Told(func, Beginning, (trace \o << one >>) \o << two >>, Place')
        BY <4>1, <4>2, <4>3, ToldNext
      <4>5. (trace \o << one >>) \o << two >> = trace'
        BY <1>5, <2>1, <4>1
      <4> QED
        BY <4>4, <4>5
    <3> QED
      BY <1>3, <2>1, <3>1, <3>2, <3>3 DEF Tells
  <2> QED
    BY <1>2, <2>4
<1> QED
  BY <1>4, <1>5, <1>6, <1>7, <1>8 DEF TraceType

\* A call of run clears the trace and goes to its first place.
LEMMA TraceCaller ==
  ASSUME TypeOK, TraceInv, TRun \/ TBuild
  PROVE  TraceType' /\ PreviewsFit' /\ (Judged' => Told(func, Beginning, trace, Place)')
<1>1. trace' = << >> /\ record_trace' \in BOOLEAN
  BY TraceAssumption DEF TRun, TBuild, TraceInv, TraceType
<1>2. TraceType' /\ PreviewsFit'
  BY <1>1 DEF TraceType, PreviewsFit
<1>3. ASSUME Judged' PROVE Place' = Beginning'
  <2>1. TRun /\ error' # "NoEntryBlock"
    BY <1>3 DEF Judged, TBuild, NewSimulator, ReuseMemory, Build
  <2>2. PICK f \in FuncId : \E a \in ArgVectors[f] : Run(f, a)
    BY <2>1 DEF TRun, CallRun
  <2>3. PICK a \in ArgVectors[f] : Run(f, a)
    BY <2>2
  <2>4. /\ func' = f /\ args' = a /\ pc' = 1 /\ current' = Code[f].entry
        /\ registers' = Bind(NoRegisters, Code[f].params[Code[f].entry], a)
    BY <2>1, <2>3 DEF Run
  <2> QED
    BY <2>4 DEF Place, Beginning
<1>4. ASSUME Judged' PROVE Told(func, Beginning, trace, Place)'
  <2>1. Told(func', Beginning', << >>, Beginning')
    BY ToldStart
  <2>2. Told(func', Beginning', trace', Place')
    BY <1>1, <1>3, <1>4, <2>1
  <2> QED
    BY <2>2
<1> QED
  BY <1>2, <1>4

LEMMA TraceStutter ==
  ASSUME TraceInv, UNCHANGED tvars
  PROVE  TraceInv'
<1>1. /\ UNCHANGED <<func, args, phase, error, current, pc, registers, mem, memory>>
      /\ trace' = trace /\ record_trace' = record_trace
  BY DEF tvars, vars, call, control, result, simulator
<1>2. TraceType' /\ BuffersFit' /\ PreviewsFit'
  BY <1>1 DEF TraceInv, TraceType, BuffersFit, PreviewsFit
<1>3. Place' = Place /\ Beginning' = Beginning /\ (Judged' <=> Judged)
  BY <1>1 DEF Place, Beginning, Judged
<1>4. Judged' => Told(func', Beginning', trace', Place')
  BY <1>1, <1>3 DEF TraceInv
<1>5. (Judged => Told(func, Beginning, trace, Place))'
  BY <1>4
<1> QED
  BY <1>2, <1>5 DEF TraceInv

LEMMA TraceInvInit ==
  ASSUME TInit
  PROVE  TraceInv
<1>1. trace = << >> /\ record_trace \in BOOLEAN /\ phase = "idle" /\ Init
  BY TraceAssumption DEF TInit, Init
<1> QED
  BY <1>1, BuffersInit DEF TraceInv, TraceType, PreviewsFit, Judged

LEMMA TraceInvNext ==
  ASSUME TypeOK, TypeOK', ResultShape, TraceInv, [TNext]_tvars
  PROVE  TraceInv'
<1>1. BuffersFit'
  BY TracedNext, BuffersNext DEF TraceInv
<1>2. CASE TStep
  BY <1>1, <1>2, TraceStep DEF TraceInv
<1>3. CASE TRun \/ TBuild
  BY <1>1, <1>3, TraceCaller DEF TraceInv
<1>4. CASE UNCHANGED tvars
  BY <1>4, TraceStutter
<1> QED
  BY <1>2, <1>3, <1>4 DEF TNext

LEMMA TraceInvariant == TSpec => []TraceInv
<1>1. TSpec => []TypeOK
  BY TracedRunsAreRuns, TypeCorrect, PTL
<1>2. TSpec => []SoundInv
  BY TracedRunsAreRuns, Soundness, PTL
<1>3. SoundInv => ResultShape
  BY DEF SoundInv
<1>4. TInit => TraceInv
  BY TraceInvInit
<1>5. TypeOK /\ TypeOK' /\ ResultShape /\ TraceInv /\ [TNext]_tvars => TraceInv'
  BY TraceInvNext
<1> QED
  BY <1>1, <1>2, <1>3, <1>4, <1>5, PTL DEF TSpec

\* Every preview in the trace of a run is the text its length argument
\* announces and lies in the memory of the run: the bounds test of
\* format_call_args, a saturating addition compared with the length of memory,
\* is enough for every memory and every address.
THEOREM PreviewsNeverLie == TSpec => []PreviewsFit
<1>1. TraceInv => PreviewsFit
  BY DEF TraceInv
<1> QED
  BY <1>1, TraceInvariant, PTL

\* For every function, every argument vector and every budget, the lines of a
\* trace lead from the entry block to the block, the instruction and the
\* registers of the interpreter: step() pushes one line for every instruction
\* and each says enough.
THEOREM TraceRetellsTheRun == TSpec => []TraceReplays
<1>1. TraceInv => TraceReplays
  BY ReadingTold DEF TraceInv, TraceType, Judged, TraceReplays
<1> QED
  BY <1>1, TraceInvariant, PTL
=============================================================================
