------------------------------ MODULE MCHexDump ------------------------------
(***************************************************************************)
(* Every buffer of up to 12 bytes over two values, in rows of two: six      *)
(* rows are enough for two separate stars, a star before the last row and   *)
(* a short last row equal to the row above it.                              *)
(***************************************************************************)
EXTENDS HexDump
=============================================================================
