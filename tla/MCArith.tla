------------------------------- MODULE MCArith -------------------------------
(***************************************************************************)
(* SimArith with bytes of one bit: I8, I16, I32 and I64 have 1, 2, 4 and 8  *)
(* bits and every pair of operands of every type is checked.                *)
(***************************************************************************)
EXTENDS SimArith, MCHost

MCBuffer == <<1, 0, 1, 1, 0, 0, 1, 0, 1>>
=============================================================================
