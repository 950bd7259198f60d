------------------------------- MODULE HexDump -------------------------------
(***************************************************************************)
(* write_hexdump of src/src/sim.rs: the memory section of a dump.  One step *)
(* per row of the buffer; a line of the output is a row with its address,   *)
(* or a star that stands for rows equal to the one before it.  The layout   *)
(* of a line (hex digits, gap, ASCII gutter) is left out.                   *)
(***************************************************************************)
EXTENDS Integers, Sequences

CONSTANTS
    Width,      \* bytes of a row: 16 in the program
    Byte,       \* values of a byte
    MaxLen      \* bound: length of the buffers dumped

ASSUME HexDumpAssumption == Width \in Nat \ {0} /\ MaxLen \in Nat /\ 0 \in Byte

VARIABLES
    mem,            \* the buffer
    offset,         \* index of the next row
    prev_row,       \* Option<[u8; 16]>, <<>> for None
    star_active,    \* a star stands for the rows since the last line
    out             \* the lines written

vars == <<mem, offset, prev_row, star_active, out>>

Star == [addr |-> -1, bytes |-> <<>>]

\* mem.chunks(16): the last one may be short
Rows(m) == (Len(m) + Width - 1) \div Width
Chunk(m, k) == SubSeq(m, k * Width + 1,
                      IF (k + 1) * Width < Len(m) THEN (k + 1) * Width ELSE Len(m))

\* The chunk in a zeroed row.
Row(chunk) == [j \in 1 .. Width |-> IF j <= Len(chunk) THEN chunk[j] ELSE 0]

Line(k) == [addr |-> k * Width, bytes |-> Chunk(mem, k)]

\* Faulty variant: the last row may be collapsed too.
Repeats_last(chunk) == Len(chunk) = Width /\ prev_row = Row(chunk)

\* A full row, not the last, equal to the row before it.
Repeats(chunk) ==
  /\ Len(chunk) = Width
  /\ offset # (IF Len(mem) = 0 THEN 0 ELSE Len(mem) - 1) \div Width
  /\ prev_row = Row(chunk)

Init ==
  /\ mem \in UNION { [1 .. n -> Byte] : n \in 0 .. MaxLen }
  /\ offset = 0
  /\ prev_row = <<>>
  /\ star_active = FALSE
  /\ out = <<>>

NextRow == offset < Rows(mem) /\ offset' = offset + 1 /\ UNCHANGED mem
           /\ prev_row' = Row(Chunk(mem, offset))

Collapse ==
  /\ NextRow
  /\ Repeats(Chunk(mem, offset))
  /\ star_active' = TRUE
  /\ out' = IF star_active THEN out ELSE Append(out, Star)

\* Faulty variant: a second run of equal rows gets no star.
PrintRow_sticky ==
  /\ NextRow
  /\ ~Repeats(Chunk(mem, offset))
  /\ out' = Append(out, Line(offset))
  /\ UNCHANGED star_active

PrintRow ==
  /\ NextRow
  /\ ~Repeats(Chunk(mem, offset))
  /\ star_active' = FALSE
  /\ out' = Append(out, Line(offset))

Next == Collapse \/ PrintRow

Spec == Init /\ [][Next]_vars

Done == offset = Rows(mem)

(***************************************************************************)
(* What a reader makes of the lines: a star repeats the line before it up   *)
(* to the address of the line after it, and the dump ends where its last    *)
(* line ends.                                                               *)
(***************************************************************************)
Ends(i) == IF i < Len(out) /\ out[i + 1] = Star
           THEN IF i + 1 < Len(out) THEN out[i + 2].addr ELSE out[i].addr
           ELSE out[i].addr + Len(out[i].bytes)

Reads(a) ==
  { out[i].bytes[((a - out[i].addr) % Width) + 1] :
      i \in { j \in DOMAIN out : out[j] # Star /\ out[j].addr <= a /\ a < Ends(j) } }

DumpLen == IF out = <<>> THEN 0
           ELSE IF out[Len(out)] = Star THEN -1
           ELSE out[Len(out)].addr + Len(out[Len(out)].bytes)

(***************************************************************************)
(* Properties                                                               *)
(***************************************************************************)
\* The dump loses nothing: a reader recovers every byte at its address, in
\* collapsed rows as well.
Lossless ==
  Done => \A a \in 0 .. Len(mem) - 1 : Reads(a) = {mem[a + 1]}

\* The dump always ends in a printed row, so that a reader recovers the size
\* of the buffer, whatever its last rows hold.
SizeReadable == Done => DumpLen = Len(mem)
=============================================================================
