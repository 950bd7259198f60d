-------------------------------- MODULE MCSim --------------------------------
(***************************************************************************)
(* The interpreter on the program library: every program on a few argument  *)
(* vectors, matching ones and ones that miss, exceed or mistype parameters, *)
(* with step budgets around the length of a run.                            *)
(***************************************************************************)
EXTENDS SimTrace, SimRefine, MCHost, MCPrograms

\* TLC tabulates Library and LibraryAvail once.
MCFuncId == DOMAIN Library
MCCode   == Library
MCAvail  == LibraryAvail

MCMemorySizes  == {0, 6}
MCMemoryImages == {<<1, 2, 3, 0, 1, 2, 3, 0>>}
\* Bytes below 2 stand for ASCII text, the others for no text at all.
MCUtf8(bytes) == \A j \in DOMAIN bytes : bytes[j] < 2

MCStepBudgets  == {0, 4, 9, 10, 100}

\* Pointers at the start, near the end and outside of the buffer, and two
\* whose offset wraps around the address space or overflows usize.
Pointers == {0, 1, 2, 3, 5, 7, -1, -2, -4, 300, 255}

MCArgVectors ==
  [f \in MCFuncId |->
     CASE f = "sum" -> { <<I16(n)>> : n \in {0, 1, 3, -1} }
                         \cup { <<>>, <<I8(1)>>, <<I16(1), I16(1)>> }
       [] f = "loop_sum" -> { <<I64(n)>> : n \in {-1, 0, 1, 10} }
       [] f = "swap" -> { <<I16(n), I32(5), I32(-9)>> : n \in 0 .. 3 }
                         \cup { <<I16(1), I32(1)>> }
       [] f = "umax" -> { <<I8(m), I8(n)>> : m, n \in -2 .. 1 }
       [] f = "halves" -> { <<I64(p), I32(27)>> : p \in Pointers }
       [] f = "fill" -> { <<I64(p)>> : p \in {0, 4} }
       [] f = "casts" -> { <<I8(n)>> : n \in -2 .. 1 }
       [] f = "fabs" -> { <<F32(n)>> : n \in {0, 5, 128, 133, 112, 240, 121, 250} }
       [] f = "show" -> { <<I64(p), I64(l)>> : p \in {0, 2, -1}, l \in 1 .. 3 }
       [] f \in {"call", "call128"} -> { <<I64(0)>> }
       [] f \in {"stale", "undefined"} -> { <<I16(n)>> : n \in 0 .. 2 }
       [] f = "mixed" -> { <<I8(1), I16(1)>> }
       [] f = "iadd_f32" -> { <<F32(5)>> }
       [] f \in {"rotl", "no_end"} -> { <<I8(1)>> }
       [] OTHER -> { <<>> }]

(***************************************************************************)
(* What the library functions compute, and how many instructions they take. *)
(***************************************************************************)
Loops(n) == n % Modulus("I16")
Turns(n) == IF n > 0 THEN n ELSE 0

Reference(f, a) ==
  CASE f = "sum" -> LET n == Loops(a[1].n)
                    IN  <<Cast("I16", (n * (n + 1)) \div 2)>>
    [] f = "loop_sum" -> LET n == Turns(a[1].n) IN <<Cast("I64", (n * (n - 1)) \div 2)>>
    [] f = "swap" -> IF Loops(a[1].n) % 2 = 0 THEN <<a[2], a[3]>> ELSE <<a[3], a[2]>>
    [] f = "umax" -> LET m == IF Bits(a[1]) > Bits(a[2]) THEN a[1] ELSE a[2]
                     IN  <<m, m>>
    [] f = "halves" -> << Cast("I16", Bits(a[2]) % Modulus("I16")),
                          Cast("I16", Bits(a[2]) \div Modulus("I16")) >>
    [] f = "casts" -> << I32(Bits(a[1])), I32(a[1].n), I32(a[1].n),
                         a[1], I32(a[1].n + 1) >>
    [] f = "fabs" -> IF a[1].n % 128 > 112 THEN <<F32(48)>>
                     ELSE IF a[1].n = 0 THEN <<F32(0)>>
                     ELSE IF a[1].n = 128 THEN <<F32(128)>>
                     ELSE <<F32(a[1].n % 128)>>
    [] f = "call" -> << I32(0), [ty |-> "F64", n |-> 48], I8(0) >>
    [] f = "show" -> << I8(0) >>

Length(f, a) ==
  CASE f = "sum"  -> 4 + 5 * Loops(a[1].n)
    [] f = "loop_sum" -> 8 + 5 * Turns(a[1].n)
    [] f = "swap" -> 3 + 4 * Loops(a[1].n)
    [] f = "umax" -> 5
    [] f = "halves" -> 4
    [] f \in {"casts", "fabs"} -> 8
    [] f = "call" -> 3
    [] f = "show" -> 2

Referenced == {"sum", "loop_sum", "swap", "umax", "halves", "casts", "fabs", "call", "show"}

Measured == phase = "done" /\ func \in Referenced /\ WellFormedRun /\ error # "OutOfBounds"

\* A program that returns, returns what it computes: block parameters are
\* assigned in parallel on a back edge, narrow unsigned comparisons look at
\* the narrow bits, a word and its halves agree in little-endian order, and a
\* NaN is unequal to itself.
ReturnsReference ==
  (Measured /\ error = "none") => returns = Reference(func, args)

\* The budget is exact: a run of n instructions returns under a budget of n
\* and is stopped under a budget of n - 1.
BudgetExact ==
  Measured => IF Length(func, args) <= max_steps
              THEN error = "none" /\ steps = Length(func, args)
              ELSE error = "StepLimitExceeded"
=============================================================================
