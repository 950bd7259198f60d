------------------------------- MODULE MCHost -------------------------------
(***************************************************************************)
(* A host for TLC: bytewise logic by the Bitwise module, and a toy IEEE     *)
(* format in which an f64 is an f32 with as many more mantissa bits as it   *)
(* is longer.                                                               *)
(***************************************************************************)
EXTENDS SimValues, Bitwise

HostByteOp(op, x, y) == CASE op = "band" -> x & y
                          [] op = "bor"  -> x | y
                          [] OTHER       -> x ^^ y

Half32     == B4 \div 2
Half64     == B8 \div 2
HostNaN64  == Half64 - 1
HostNaN32  == Half32 - 1

HostKey(x) == IF x < Half64 THEN x ELSE Half64 - x
HostNaN(x) == x % Half64 > Inf64

HostWiden(x)  == (x \div Half32) * Half64 + (x % Half32) * (B8 \div B4)
HostNarrow(x) == IF HostNaN(x) THEN HostNaN32
                 ELSE (x \div Half64) * Half32 + (x % Half64) \div (B8 \div B4)

\* Saturating arithmetic on the ordered patterns: any total function of two
\* patterns that yields patterns and propagates NaN serves.
HostPattern(k) == LET c == IF k > Inf64 THEN Inf64 ELSE IF k < -Inf64 THEN -Inf64 ELSE k
                  IN  IF c >= 0 THEN c ELSE Half64 - c

HostFloatOp(op, x, y) ==
  LET kx == HostKey(x)
      ky == HostKey(y)
  IN  IF HostNaN(x) \/ HostNaN(y) THEN HostNaN64
      ELSE CASE op = "fadd" -> HostPattern(kx + ky)
             [] op = "fsub" -> HostPattern(kx - ky)
             [] op = "fmul" -> HostPattern((kx \div B2) * (ky \div B2))
             [] OTHER -> IF ky = 0 THEN HostNaN64
                         ELSE HostPattern(kx \div HostKey(y % Half64))
=============================================================================
