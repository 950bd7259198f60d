------------------------------ MODULE HexProofs ------------------------------
(***************************************************************************)
(* Proofs about the collapsing of rows, for rows of every width and buffers *)
(* of every length: a dump loses no byte and shows where the buffer ends.   *)
(***************************************************************************)
EXTENDS HexDump, SequenceTheorems, TLAPS

(***************************************************************************)
(* Rows                                                                     *)
(***************************************************************************)
LEMMA Division ==
  ASSUME NEW x \in Int, NEW m \in Nat \ {0}
  PROVE  /\ x \div m \in Int /\ x % m \in 0 .. m - 1
         /\ x = m * (x \div m) + (x % m)
<1>1. x \div m \in Int /\ x % m \in 0 .. m - 1
  OBVIOUS
<1>2. x = m * (x \div m) + (x % m)
  OBVIOUS
<1> QED
  BY <1>1, <1>2

LEMMA Monotone ==
  ASSUME NEW m \in Nat \ {0}, NEW p \in Int, NEW q \in Int, p <= q
  PROVE  p * m <= q * m
<1>1. PICK k \in Nat : q = p + k
  <2> WITNESS q - p \in Nat
  <2> QED OBVIOUS
<1>2. q * m = p * m + k * m
  BY <1>1
<1>3. k * m \in Nat /\ p * m \in Int
  OBVIOUS
<1> QED
  BY <1>2, <1>3

LEMMA OneDivision ==
  ASSUME NEW m \in Nat \ {0}, NEW x \in Int, NEW q \in Int, NEW r \in 0 .. m - 1,
         x = q * m + r
  PROVE  x \div m = q /\ x % m = r
<1>1. PICK p \in Int, s \in 0 .. m - 1 : x = p * m + s /\ x \div m = p /\ x % m = s
  BY Division
<1>2. q * m \in Int /\ p * m \in Int /\ (q + 1) * m = q * m + m /\ (p + 1) * m = p * m + m
  OBVIOUS
<1>3. ~(p + 1 <= q)
  <2> SUFFICES ASSUME p + 1 <= q PROVE FALSE
    OBVIOUS
  <2>1. (p + 1) * m <= q * m
    BY Monotone
  <2> QED
    BY <1>1, <1>2, <2>1
<1>4. ~(q + 1 <= p)
  <2> SUFFICES ASSUME q + 1 <= p PROVE FALSE
    OBVIOUS
  <2>1. (q + 1) * m <= p * m
    BY Monotone
  <2> QED
    BY <1>1, <1>2, <2>1
<1>5. p = q
  BY <1>3, <1>4
<1> QED
  BY <1>1, <1>2, <1>5

\* Turning a row on does not move a byte in its row.
LEMMA SameColumn ==
  ASSUME NEW m \in Nat \ {0}, NEW x \in Int
  PROVE  (x + m) % m = x % m
<1>1. PICK q \in Int, r \in 0 .. m - 1 : x = q * m + r /\ x % m = r
  <2>1. x = (x \div m) * m + (x % m) /\ x \div m \in Int /\ x % m \in 0 .. m - 1
    BY Division
  <2> QED
    BY <2>1
<1>2. q * m \in Int /\ (q + 1) * m = q * m + m
  OBVIOUS
<1>3. x + m = (q + 1) * m + r
  BY <1>1, <1>2
<1> QED
  BY <1>1, <1>3, OneDivision

\* Bytes of the first k rows.
Upto(k, m) == IF k * Width < Len(m) THEN k * Width ELSE Len(m)

\* The index of the last row, as write_hexdump computes it.
LastRow(m) == (IF Len(m) = 0 THEN 0 ELSE Len(m) - 1) \div Width

LEMMA RowCount ==
  ASSUME NEW m, Len(m) \in Nat
  PROVE  /\ Rows(m) \in Nat
         /\ \A k \in Nat : k < Rows(m) <=> k * Width < Len(m)
         /\ \A k \in Nat : k < Rows(m) /\ k # LastRow(m) => k + 1 < Rows(m)
<1> DEFINE n == Len(m)
           q == (n + Width - 1) \div Width
           r == (n + Width - 1) % Width
<1>1. Width \in Nat \ {0} /\ n \in Nat
  BY HexDumpAssumption
<1>2. q \in Int /\ r \in 0 .. Width - 1 /\ n + Width - 1 = q * Width + r
  <2>1. n + Width - 1 \in Int
    BY <1>1
  <2>2. q \in Int /\ r \in 0 .. Width - 1 /\ n + Width - 1 = Width * q + r
    BY <1>1, <2>1, Division
  <2> HIDE DEF q, r, n
  <2>3. Width * q = q * Width
    BY <1>1, <2>2
  <2> QED
    BY <2>2, <2>3
<1>3. Rows(m) = q
  BY DEF Rows
<1> HIDE DEF q, r
<1>4. q * Width \in Int /\ (q - 1) * Width = q * Width - Width
  BY <1>1, <1>2
<1>5. q \in Nat
  <2> SUFFICES ASSUME q < 0 PROVE FALSE
    BY <1>2
  <2>1. q * Width <= (-1) * Width
    BY <1>1, <1>2, Monotone
  <2>2. (-1) * Width = -Width
    BY <1>1
  <2> QED
    BY <1>1, <1>2, <1>4, <2>1, <2>2
<1>6. ASSUME NEW k \in Nat PROVE k < q <=> k * Width < n
  <2>1. k * Width \in Int
    BY <1>1
  <2>2. ASSUME k < q PROVE k * Width < n
    <3>1. k * Width <= (q - 1) * Width
      <4>1. k <= q - 1 /\ q - 1 \in Int
        BY <1>2, <2>2
      <4> QED
        BY <1>1, <4>1, Monotone
    <3> QED
      BY <1>1, <1>2, <1>4, <2>1, <3>1
  <2>3. ASSUME q <= k PROVE n <= k * Width
    <3>1. q * Width <= k * Width
      BY <1>1, <1>2, <2>3, Monotone
    <3> QED
      BY <1>1, <1>2, <1>4, <2>1, <3>1
  <2> QED
    BY <1>1, <1>2, <2>1, <2>2, <2>3
<1>7. ASSUME NEW k \in Nat, k < q, k # LastRow(m) PROVE k + 1 < q
  <2>1. n - 1 \in Int /\ q - 1 \in Int /\ n - 1 = (q - 1) * Width + r
    BY <1>1, <1>2, <1>4
  <2>2. (n - 1) \div Width = q - 1
    BY <1>1, <1>2, <2>1, OneDivision
  <2>3. n # 0
    <3>1. k * Width < n /\ k * Width \in Nat
      BY <1>1, <1>6, <1>7
    <3> QED
      BY <1>1, <3>1
  <2>4. LastRow(m) = q - 1
    BY <2>2, <2>3 DEF LastRow
  <2> QED
    BY <1>5, <1>7, <2>4
<1> QED
  BY <1>3, <1>5, <1>6, <1>7

\* A row holds the bytes at its address.
LEMMA ChunkBytes ==
  ASSUME NEW m \in Seq(Byte), NEW k \in Nat, k * Width < Len(m)
  PROVE  /\ Chunk(m, k) \in Seq(Byte)
         /\ Len(Chunk(m, k)) \in 1 .. Width
         /\ k * Width + Len(Chunk(m, k)) = Upto(k + 1, m)
         /\ \A j \in 1 .. Len(Chunk(m, k)) : Chunk(m, k)[j] = m[k * Width + j]
<1> DEFINE b == k * Width
           e == Upto(k + 1, m)
<1>1. Width \in Nat \ {0} /\ Len(m) \in Nat
  BY HexDumpAssumption, LenProperties
<1>2. b \in Nat /\ b < Len(m) /\ (k + 1) * Width = b + Width
  BY <1>1
<1>3. e = IF b + Width < Len(m) THEN b + Width ELSE Len(m)
  BY <1>2 DEF Upto
<1>4. Chunk(m, k) = SubSeq(m, b + 1, e)
  BY DEF Chunk, Upto
<1> HIDE DEF b, e
<1>5. e \in Nat /\ b < e /\ e <= Len(m) /\ e - b \in 1 .. Width
  BY <1>1, <1>2, <1>3
<1>6. /\ SubSeq(m, b + 1, e) \in Seq(Byte)
      /\ Len(SubSeq(m, b + 1, e)) = e - b
      /\ \A j \in 1 .. e - b : SubSeq(m, b + 1, e)[j] = m[b + j]
  <2>1. PICK c \in Int : c = b + 1
    BY <1>2
  <2>2. \A j \in c .. e : m[j] \in Byte
    BY <1>1, <1>2, <1>5, <2>1, ElementOfSeq
  <2>3. /\ SubSeq(m, c, e) \in Seq(Byte)
        /\ Len(SubSeq(m, c, e)) = IF c <= e THEN e - c + 1 ELSE 0
        /\ \A j \in 1 .. e - c + 1 : SubSeq(m, c, e)[j] = m[c + j - 1]
    BY <1>5, <2>1, <2>2, SubSeqProperties
  <2>4. c <= e /\ e - c + 1 = e - b /\ \A j \in Int : c + j - 1 = b + j
    BY <1>2, <1>5, <2>1
  <2>5. ASSUME NEW j \in 1 .. e - b PROVE SubSeq(m, c, e)[j] = m[b + j]
    <3>1. j \in 1 .. e - c + 1 /\ c + j - 1 = b + j
      BY <1>2, <1>5, <2>1
    <3>2. SubSeq(m, c, e)[j] = m[c + j - 1]
      BY <2>3, <3>1
    <3> QED
      BY Zenon, <3>1, <3>2
  <2> QED
    BY <2>1, <2>3, <2>4, <2>5
<1>7. PICK s : s = Chunk(m, k)
  OBVIOUS
<1>8. s \in Seq(Byte) /\ Len(s) = e - b /\ \A j \in 1 .. e - b : s[j] = m[b + j]
  BY <1>4, <1>6, <1>7
<1>9. Len(s) \in 1 .. Width /\ b + Len(s) = e
  BY <1>2, <1>5, <1>8
<1> QED
  BY <1>7, <1>8, <1>9 DEF b, e

(***************************************************************************)
(* The inductive invariant                                                  *)
(***************************************************************************)
Entry == {Star} \cup [addr : Nat, bytes : Seq(Byte)]

\* The bytes of the rows done, and the address up to which line i tells them.
Filled == Upto(offset, mem)
Reach(i) == IF i < Len(out) /\ out[i + 1] = Star
            THEN IF i + 1 < Len(out) THEN out[i + 2].addr ELSE Filled
            ELSE out[i].addr + Len(out[i].bytes)

Tells(i, a) == out[i] # Star /\ out[i].addr <= a /\ a < Reach(i)
Shown(i, a) == out[i].bytes[((a - out[i].addr) % Width) + 1]

\* The last line that is not a star.
Newest == IF star_active THEN Len(out) - 1 ELSE Len(out)

DumpType ==
  /\ mem \in Seq(Byte) /\ offset \in 0 .. Rows(mem) /\ star_active \in BOOLEAN
  /\ out \in Seq(Entry)

StartOK == offset = 0 => out = <<>> /\ prev_row = <<>> /\ ~star_active

\* The newest line tells the row before the next one; a star is never last.
CursorOK ==
  offset > 0 =>
    /\ prev_row = Row(Chunk(mem, offset - 1))
    /\ Newest \in 1 .. Len(out) /\ out[Newest] # Star
    /\ out[Newest].addr <= (offset - 1) * Width /\ Reach(Newest) = Filled
    /\ star_active => out[Len(out)] = Star /\ offset < Rows(mem)

NotAhead == \A i \in 1 .. Len(out) : out[i] # Star => Reach(i) <= Filled

\* Each byte of the rows done is told by one line, and is what it shows.
ToldOnce ==
  \A a \in 0 .. Filled - 1 : \E i \in 1 .. Len(out) :
    /\ Tells(i, a) /\ Shown(i, a) = mem[a + 1]
    /\ \A j \in 1 .. Len(out) : Tells(j, a) => j = i

DumpInv == DumpType /\ StartOK /\ CursorOK /\ NotAhead /\ ToldOnce

LEMMA EntryFields ==
  ASSUME NEW x \in Entry, x # Star
  PROVE  x.addr \in Nat /\ x.bytes \in Seq(Byte) /\ Len(x.bytes) \in Nat
BY LenProperties DEF Entry

LEMMA LineEntry ==
  ASSUME NEW m \in Seq(Byte), NEW k \in Nat, k * Width < Len(m)
  PROVE  LET l == [addr |-> k * Width, bytes |-> Chunk(m, k)] IN l \in Entry /\ l # Star
<1>1. k * Width \in Nat /\ Chunk(m, k) \in Seq(Byte)
  BY HexDumpAssumption, ChunkBytes
<1> QED
  BY <1>1 DEF Entry, Star

LEMMA DumpInit == Init => DumpInv
<1> SUFFICES ASSUME Init PROVE DumpInv
  OBVIOUS
<1>1. mem \in Seq(Byte) /\ offset = 0 /\ prev_row = <<>> /\ star_active = FALSE /\ out = <<>>
  BY HexDumpAssumption DEF Init
<1>2. Len(mem) \in Nat /\ Rows(mem) \in Nat
  BY <1>1, LenProperties, RowCount
<1>3. Filled = 0
  <2>1. 0 * Width = 0
    BY HexDumpAssumption
  <2> QED
    BY <1>1, <1>2, <2>1 DEF Filled, Upto
<1>4. Len(<<>>) = 0 /\ 1 .. 0 = {} /\ 0 .. 0 - 1 = {} /\ <<>> \in Seq(Entry)
  OBVIOUS
<1>5. Len(out) = 0
  BY Zenon, <1>1, <1>4
<1>6. DumpType
  <2>1. offset \in 0 .. Rows(mem)
    BY <1>1, <1>2
  <2>2. out \in Seq(Entry) /\ star_active \in BOOLEAN
    BY Zenon, <1>1, <1>4
  <2> QED
    BY <1>1, <2>1, <2>2 DEF DumpType
<1>7. StartOK /\ CursorOK
  BY <1>1 DEF StartOK, CursorOK
<1>8. NotAhead /\ ToldOnce
  BY <1>3, <1>4, <1>5 DEF NotAhead, ToldOnce
<1> QED
  BY <1>6, <1>7, <1>8 DEF DumpInv

\* What the cursor moves over.
LEMMA RowDone ==
  ASSUME DumpInv, NextRow
  PROVE  LET c == Chunk(mem, offset) IN
         /\ Width \in Nat \ {0} /\ offset \in Nat /\ mem' = mem /\ offset' = offset + 1
         /\ offset' \in 0 .. Rows(mem) /\ prev_row' = Row(c)
         /\ Filled \in Nat /\ Filled = offset * Width /\ Filled < Len(mem)
         /\ Filled' = Filled + Len(c) /\ Len(c) \in 1 .. Width /\ c \in Seq(Byte)
         /\ \A j \in 1 .. Len(c) : c[j] = mem[Filled + j]
         /\ Len(mem) \in Nat /\ Len(out) \in Nat
         /\ \A i \in 1 .. Len(out) : out[i] \in Entry
<1> DEFINE c == Chunk(mem, offset)
<1>1. /\ mem \in Seq(Byte) /\ offset \in 0 .. Rows(mem) /\ out \in Seq(Entry)
      /\ offset < Rows(mem) /\ offset' = offset + 1 /\ mem' = mem /\ prev_row' = Row(c)
  BY DEF DumpInv, DumpType, NextRow
<1>2. Width \in Nat \ {0} /\ Len(mem) \in Nat /\ Len(out) \in Nat
      /\ \A i \in 1 .. Len(out) : out[i] \in Entry
  BY <1>1, HexDumpAssumption, LenProperties, ElementOfSeq
<1>3. Rows(mem) \in Nat /\ offset \in Nat /\ offset * Width < Len(mem)
  BY <1>1, <1>2, RowCount
<1>4. Filled = offset * Width /\ Filled \in Nat
  BY <1>2, <1>3 DEF Filled, Upto
<1>5. Filled' = Upto(offset + 1, mem)
  BY <1>1 DEF Filled, Upto
<1>6. /\ c \in Seq(Byte) /\ Len(c) \in 1 .. Width /\ offset * Width + Len(c) = Upto(offset + 1, mem)
      /\ \A j \in 1 .. Len(c) : c[j] = mem[offset * Width + j]
  BY <1>1, <1>3, ChunkBytes
<1>7. offset' \in 0 .. Rows(mem)
  BY <1>1, <1>3
<1> HIDE DEF c
<1>8. Filled' = Filled + Len(c) /\ \A j \in 1 .. Len(c) : c[j] = mem[Filled + j]
  BY <1>4, <1>5, <1>6
<1>9. Filled < Len(mem)
  BY <1>3, <1>4
<1> QED
  BY <1>1, <1>2, <1>3, <1>4, <1>6, <1>7, <1>8, <1>9 DEF c

\* A line is added, and tells as far as the row goes; the lines before it tell
\* as far as they did.
LEMMA PrintLines ==
  ASSUME DumpInv, PrintRow
  PROVE  LET l == Line(offset) IN
         /\ Len(out') = Len(out) + 1 /\ out'[Len(out) + 1] = l /\ l \in Entry /\ l # Star
         /\ l.addr = Filled /\ l.bytes = Chunk(mem, offset)
         /\ \A i \in 1 .. Len(out) : out'[i] = out[i]
         /\ \A i \in 1 .. Len(out) : out[i] # Star => Reach(i)' = Reach(i)
         /\ \A n \in Nat : n = Len(out) + 1 => Reach(n)' = Filled'
         /\ ~star_active' /\ out' \in Seq(Entry)
<1> DEFINE l == Line(offset)
<1>1. /\ Width \in Nat \ {0} /\ offset \in Nat /\ offset * Width < Len(mem)
      /\ Filled = offset * Width /\ Filled' = Filled + Len(Chunk(mem, offset))
      /\ Len(out) \in Nat /\ Filled \in Nat
  BY RowDone DEF PrintRow
<1>2. l = [addr |-> offset * Width, bytes |-> Chunk(mem, offset)]
  BY DEF Line
<1>3. l \in Entry /\ l # Star /\ l.addr = Filled /\ l.bytes = Chunk(mem, offset)
  <2>1. mem \in Seq(Byte)
    BY DEF DumpInv, DumpType
  <2>2. l \in Entry /\ l # Star
    BY <1>1, <1>2, <2>1, LineEntry
  <2> QED
    BY <1>1, <1>2, <2>2
<1>4. out \in Seq(Entry) /\ out' = Append(out, l) /\ star_active' = FALSE
  BY DEF DumpInv, DumpType, PrintRow
<1> HIDE DEF l
<1>5. /\ out' \in Seq(Entry) /\ Len(out') = Len(out) + 1 /\ out'[Len(out) + 1] = l
      /\ \A i \in 1 .. Len(out) : out'[i] = out[i]
  BY <1>3, <1>4, AppendProperties
<1>6. ASSUME NEW i \in 1 .. Len(out), out[i] # Star
      PROVE  Reach(i)' = Reach(i)
  <2>1. CASE i = Len(out)
    <3>1. Reach(i) = out[i].addr + Len(out[i].bytes)
      BY <1>1, <2>1 DEF Reach
    <3>2. Reach(i)' = out'[i].addr + Len(out'[i].bytes)
      BY <1>1, <1>3, <1>5, <2>1 DEF Reach
    <3> QED
      BY <1>5, <3>1, <3>2
  <2>2. CASE i < Len(out) /\ out[i + 1] # Star
    <3>1. i + 1 \in 1 .. Len(out)
      BY <1>1, <2>2
    <3>2. Reach(i) = out[i].addr + Len(out[i].bytes)
      BY <2>2 DEF Reach
    <3>3. Reach(i)' = out'[i].addr + Len(out'[i].bytes)
      BY <1>5, <2>2, <3>1 DEF Reach
    <3> QED
      BY <1>5, <3>2, <3>3
  <2>3. CASE i < Len(out) /\ out[i + 1] = Star /\ i + 1 < Len(out)
    <3>1. i + 1 \in 1 .. Len(out) /\ i + 2 \in 1 .. Len(out)
      BY <1>1, <2>3
    <3>2. Reach(i) = out[i + 2].addr
      BY <2>3 DEF Reach
    <3>3. Reach(i)' = out'[i + 2].addr
      BY <1>1, <1>5, <2>3, <3>1 DEF Reach
    <3> QED
      BY <1>5, <3>1, <3>2, <3>3
  <2>4. CASE i < Len(out) /\ out[i + 1] = Star /\ i + 1 = Len(out)
    <3>1. i + 1 \in 1 .. Len(out) /\ i + 2 = Len(out) + 1
      BY <1>1, <2>4
    <3>2. Reach(i) = Filled
      BY <2>4 DEF Reach
    <3>3. Reach(i)' = out'[i + 2].addr
      BY <1>1, <1>5, <2>4, <3>1 DEF Reach
    <3> QED
      BY <1>3, <1>5, <3>1, <3>2, <3>3
  <2> QED
    BY <1>1, <2>1, <2>2, <2>3, <2>4
<1>7. ASSUME NEW n \in Nat, n = Len(out) + 1 PROVE Reach(n)' = Filled'
  <2>1. ~(n < Len(out')) /\ out'[n] = l
    BY <1>1, <1>5, <1>7
  <2>2. Reach(n)' = out'[n].addr + Len(out'[n].bytes)
    BY Zenon, <2>1 DEF Reach
  <2> QED
    BY <1>1, <1>3, <2>1, <2>2
<1> QED
  BY <1>3, <1>4, <1>5, <1>6, <1>7 DEF l

\* The star that stands for the row is there already or is added; the newest
\* line tells a row more.
LEMMA CollapseLines ==
  ASSUME DumpInv, Collapse
  PROVE  /\ offset > 0 /\ Newest \in 1 .. Len(out) /\ Newest' = Newest /\ star_active'
         /\ out' \in Seq(Entry) /\ Len(out') >= Len(out) /\ out'[Len(out')] = Star
         /\ Len(out') = Newest + 1
         /\ \A i \in 1 .. Len(out) : out'[i] = out[i]
         /\ \A i \in Len(out) + 1 .. Len(out') : out'[i] = Star
         /\ \A i \in 1 .. Len(out) :
              out[i] # Star => Reach(i)' = IF i = Newest THEN Filled' ELSE Reach(i)
<1>1. /\ Width \in Nat \ {0} /\ offset \in Nat /\ Len(out) \in Nat
      /\ out \in Seq(Entry) /\ star_active \in BOOLEAN
  BY RowDone DEF Collapse, DumpInv, DumpType
<1>2. offset > 0
  <2> SUFFICES ASSUME offset = 0 PROVE FALSE
    BY <1>1
  <2>1. prev_row = <<>> /\ prev_row = Row(Chunk(mem, offset))
    BY DEF DumpInv, StartOK, Collapse, Repeats
  <2>2. DOMAIN Row(Chunk(mem, offset)) = 1 .. Width
    BY DEF Row
  <2>3. 1 \in 1 .. Width /\ DOMAIN <<>> = {}
    BY <1>1
  <2> QED
    BY Zenon, <2>1, <2>2, <2>3
<1>3. /\ Newest \in 1 .. Len(out) /\ out[Newest] # Star
      /\ star_active => out[Len(out)] = Star
  BY <1>2 DEF DumpInv, CursorOK
<1>4. star_active' = TRUE /\ out' = IF star_active THEN out ELSE Append(out, Star)
  BY DEF Collapse
<1>5. CASE star_active
  <2>1. out' = out /\ Newest = Len(out) - 1 /\ Newest' = Len(out) - 1
    BY <1>4, <1>5 DEF Newest
  <2>2. out[Len(out)] = Star
    BY <1>3, <1>5
  <2>3. ASSUME NEW i \in 1 .. Len(out), out[i] # Star
        PROVE  Reach(i)' = IF i = Newest THEN Filled' ELSE Reach(i)
    <3>1. i < Len(out)
      BY <1>1, <2>2, <2>3
    <3>2. CASE i = Newest
      <4>1. i + 1 = Len(out)
        BY <1>1, <2>1, <3>2
      <4>2. Reach(i)' = Filled'
        BY <1>1, <2>1, <2>2, <3>1, <4>1 DEF Reach
      <4> QED
        BY <3>2, <4>2
    <3>3. CASE i # Newest
      <4>1. i + 1 < Len(out)
        BY <1>1, <2>1, <3>1, <3>3
      <4>2. Reach(i)' = Reach(i)
        BY <1>1, <2>1, <3>1, <4>1 DEF Reach
      <4> QED
        BY <3>3, <4>2
    <3> QED
      BY <3>2, <3>3
  <2>4. Len(out) + 1 .. Len(out) = {}
    BY <1>1
  <2> QED
    BY <1>1, <1>2, <1>3, <1>4, <2>1, <2>2, <2>3, <2>4
<1>6. CASE ~star_active
  <2>1. out' = Append(out, Star) /\ Newest = Len(out)
    BY <1>4, <1>6 DEF Newest
  <2>2. /\ out' \in Seq(Entry) /\ Len(out') = Len(out) + 1 /\ out'[Len(out) + 1] = Star
        /\ \A i \in 1 .. Len(out) : out'[i] = out[i]
    <3>1. Star \in Entry
      BY DEF Entry
    <3> QED
      BY <1>1, <2>1, <3>1, AppendProperties
  <2>3. Newest' = Len(out)
    BY <1>1, <1>4, <2>2 DEF Newest
  <2>4. ASSUME NEW i \in 1 .. Len(out), out[i] # Star
        PROVE  Reach(i)' = IF i = Newest THEN Filled' ELSE Reach(i)
    <3>1. CASE i = Newest
      <4>1. Reach(i)' = Filled'
        BY <1>1, <2>1, <2>2, <3>1 DEF Reach
      <4> QED
        BY <3>1, <4>1
    <3>2. CASE i # Newest /\ out[i + 1] # Star
      <4>1. i < Len(out) /\ i + 1 \in 1 .. Len(out)
        BY <1>1, <2>1, <3>2
      <4>2. Reach(i) = out[i].addr + Len(out[i].bytes)
        BY <3>2 DEF Reach
      <4>3. Reach(i)' = out'[i].addr + Len(out'[i].bytes)
        BY <2>2, <3>2, <4>1 DEF Reach
      <4> QED
        BY <2>2, <3>2, <4>2, <4>3
    <3>3. CASE i # Newest /\ out[i + 1] = Star
      <4>1. i < Len(out) /\ i + 1 < Len(out)
        BY <1>1, <1>3, <2>1, <3>3
      <4>2. i + 1 \in 1 .. Len(out) /\ i + 2 \in 1 .. Len(out)
        BY <1>1, <4>1
      <4>3. Reach(i) = out[i + 2].addr
        BY <3>3, <4>1 DEF Reach
      <4>4. Reach(i)' = out'[i + 2].addr
        BY <1>1, <2>2, <3>3, <4>1, <4>2 DEF Reach
      <4> QED
        BY <2>2, <3>3, <4>2, <4>3, <4>4
    <3> QED
      BY <3>1, <3>2, <3>3
  <2>5. \A i \in Len(out) + 1 .. Len(out') : i = Len(out) + 1
    BY <1>1, <2>2
  <2> QED
    BY <1>1, <1>2, <1>3, <1>4, <2>1, <2>2, <2>3, <2>4, <2>5
<1> QED
  BY <1>1, <1>5, <1>6

LEMMA ReachType ==
  ASSUME DumpInv, NEW i \in 1 .. Len(out), out[i] # Star
  PROVE  Reach(i) \in Int
<1>1. /\ out \in Seq(Entry) /\ Len(out) \in Nat /\ Filled \in Int
  BY HexDumpAssumption, LenProperties, RowCount DEF DumpInv, DumpType, Filled, Upto
<1>2. \A j \in 1 .. Len(out) : out[j] \in Entry
  BY <1>1, ElementOfSeq
<1>3. out[i].addr + Len(out[i].bytes) \in Int
  BY <1>2, EntryFields
<1>4. ASSUME i + 1 < Len(out) PROVE out[i + 2].addr \in Int
  <2>1. i + 2 \in 1 .. Len(out)
    BY <1>1, <1>4
  <2>2. PICK x \in Entry : x = out[i + 2]
    BY <1>2, <2>1
  <2>3. x.addr \in Int
    BY DEF Entry, Star
  <2> QED
    BY <2>2, <2>3
<1> QED
  BY <1>1, <1>3, <1>4 DEF Reach

\* A byte of a row done before is told as it was.
LEMMA PrintInv ==
  ASSUME DumpInv, PrintRow
  PROVE  DumpInv'
<1> DEFINE c == Chunk(mem, offset)
<1>1. /\ Width \in Nat \ {0} /\ offset \in Nat /\ mem' = mem /\ offset' = offset + 1
      /\ offset' \in 0 .. Rows(mem) /\ prev_row' = Row(c)
      /\ Filled \in Nat /\ Filled = offset * Width /\ Filled < Len(mem)
      /\ Filled' = Filled + Len(c) /\ Len(c) \in 1 .. Width /\ c \in Seq(Byte)
      /\ \A j \in 1 .. Len(c) : c[j] = mem[Filled + j]
      /\ Len(out) \in Nat /\ \A i \in 1 .. Len(out) : out[i] \in Entry
  BY RowDone DEF PrintRow
<1>0. PICK n \in Nat : n = Len(out) + 1
  BY <1>1
<1>2. /\ Len(out') = n /\ out'[n] # Star /\ out'[n].addr = Filled /\ out'[n].bytes = c
      /\ \A i \in 1 .. Len(out) : out'[i] = out[i]
      /\ \A i \in 1 .. Len(out) : out[i] # Star => Reach(i)' = Reach(i)
      /\ Reach(n)' = Filled' /\ ~star_active' /\ out' \in Seq(Entry)
  BY <1>0, PrintLines
<1>3. \A i \in 1 .. Len(out') : i = n \/ i \in 1 .. Len(out)
  BY <1>1, <1>2, <1>0
<1>4. n \in 1 .. Len(out') /\ n \notin 1 .. Len(out) /\ \A i \in 1 .. Len(out) : i \in 1 .. Len(out')
  BY <1>1, <1>2, <1>0
<1>5. DumpType'
  BY <1>1, <1>2 DEF DumpInv, DumpType, PrintRow
<1>6. StartOK'
  BY <1>1 DEF StartOK
<1> HIDE DEF c
<1>7. CursorOK'
  <2>1. Newest' = n
    BY <1>2 DEF Newest
  <2>2. offset' - 1 = offset
    BY <1>1
  <2>3. prev_row' = Row(Chunk(mem', offset' - 1))
    BY <1>1, <2>2 DEF c
  <2>4. out'[n].addr <= (offset' - 1) * Width
    BY <1>1, <1>2, <2>2
  <2> QED
    BY <1>2, <1>4, <2>1, <2>3, <2>4 DEF CursorOK
<1>8. NotAhead'
  <2> SUFFICES ASSUME NEW i \in 1 .. Len(out'), out'[i] # Star PROVE Reach(i)' <= Filled'
    BY DEF NotAhead
  <2>1. CASE i = n
    BY <1>1, <1>2, <2>1
  <2>2. CASE i \in 1 .. Len(out)
    <3>1. Reach(i) <= Filled /\ Reach(i)' = Reach(i) /\ Reach(i) \in Int
      <4>1. out[i] # Star
        BY <1>2, <2>2
      <4>2. Reach(i) <= Filled
        BY <2>2, <4>1 DEF DumpInv, NotAhead
      <4>3. Reach(i) \in Int
        BY <2>2, <4>1, ReachType
      <4> QED
        BY <1>2, <2>2, <4>1, <4>2, <4>3
    <3> QED
      BY <1>1, <3>1
  <2> QED
    BY <1>3, <2>1, <2>2
<1>9. ToldOnce'
  <2> SUFFICES ASSUME NEW a \in 0 .. Filled' - 1
               PROVE  \E i \in 1 .. Len(out') :
                        /\ Tells(i, a)' /\ Shown(i, a)' = mem'[a + 1]
                        /\ \A j \in 1 .. Len(out') : Tells(j, a)' => j = i
    BY DEF ToldOnce
  <2>1. ASSUME NEW i \in 1 .. Len(out) PROVE Tells(i, a)' <=> Tells(i, a)
    BY <1>2 DEF Tells
  <2>2. CASE a < Filled
    <3>1. PICK i \in 1 .. Len(out) :
            /\ Tells(i, a) /\ Shown(i, a) = mem[a + 1]
            /\ \A j \in 1 .. Len(out) : Tells(j, a) => j = i
      <4>1. a \in 0 .. Filled - 1
        BY <1>1, <2>2
      <4> QED
        BY Zenon, <4>1 DEF DumpInv, ToldOnce
    <3>2. ~Tells(n, a)'
      BY <1>1, <1>2, <2>2 DEF Tells
    <3>3. Shown(i, a)' = Shown(i, a)
      BY <1>2 DEF Shown
    <3> QED
      BY <1>1, <1>3, <1>4, <2>1, <3>1, <3>2, <3>3
  <2>3. CASE a >= Filled
    <3>1. Tells(n, a)'
      BY <1>1, <1>2, <2>3 DEF Tells
    <3>2. ASSUME NEW j \in 1 .. Len(out) PROVE ~Tells(j, a)
      <4> SUFFICES ASSUME Tells(j, a) PROVE FALSE
        OBVIOUS
      <4>1. out[j] # Star /\ a < Reach(j)
        BY DEF Tells
      <4>2. Reach(j) <= Filled /\ Reach(j) \in Int
        BY <3>2, <4>1, ReachType DEF DumpInv, NotAhead
      <4> QED
        BY <1>1, <2>3, <4>1, <4>2
    <3>3. Shown(n, a)' = mem'[a + 1]
      <4>1. a - Filled \in 0 .. Width - 1 /\ a - Filled + 1 \in 1 .. Len(c)
            /\ Filled + (a - Filled + 1) = a + 1
        BY <1>1, <2>3
      <4>2. (a - Filled) % Width = a - Filled
        <5>1. PICK x \in 0 .. Width - 1 : x = a - Filled
          BY <4>1
        <5>2. x \in Int /\ 0 \in Int /\ x = 0 * Width + x
          BY <1>1
        <5>3. x % Width = x
          BY <1>1, <5>2, OneDivision
        <5> QED
          BY <5>1, <5>3
      <4>3. Shown(n, a)' = c[((a - Filled) % Width) + 1]
        BY <1>2 DEF Shown
      <4> QED
        BY <1>1, <4>1, <4>2, <4>3
    <3> QED
      BY <1>3, <1>4, <2>1, <3>1, <3>2, <3>3
  <2> QED
    BY <1>1, <2>2, <2>3
<1> QED
  BY <1>5, <1>6, <1>7, <1>8, <1>9 DEF DumpInv

\* The newest line tells the row that equals the one before it.
LEMMA CollapseInv ==
  ASSUME DumpInv, Collapse
  PROVE  DumpInv'
<1> DEFINE c == Chunk(mem, offset)
           p == Chunk(mem, offset - 1)
<1>0. PICK n : n = Newest
  OBVIOUS
<1>1. /\ Width \in Nat \ {0} /\ offset \in Nat /\ mem' = mem /\ offset' = offset + 1
      /\ offset' \in 0 .. Rows(mem) /\ prev_row' = Row(c)
      /\ Filled \in Nat /\ Filled = offset * Width /\ Filled < Len(mem)
      /\ Filled' = Filled + Len(c) /\ Len(c) \in 1 .. Width
      /\ \A j \in 1 .. Len(c) : c[j] = mem[Filled + j]
      /\ Len(out) \in Nat /\ Len(mem) \in Nat /\ \A i \in 1 .. Len(out) : out[i] \in Entry
  BY RowDone DEF Collapse
<1>2. /\ offset > 0 /\ n \in 1 .. Len(out) /\ Newest' = n /\ star_active'
      /\ out' \in Seq(Entry) /\ Len(out') >= Len(out) /\ out'[Len(out')] = Star
      /\ Len(out') = n + 1
      /\ \A i \in 1 .. Len(out) : out'[i] = out[i]
      /\ \A i \in Len(out) + 1 .. Len(out') : out'[i] = Star
      /\ \A i \in 1 .. Len(out) :
           out[i] # Star => Reach(i)' = IF i = n THEN Filled' ELSE Reach(i)
  BY <1>0, CollapseLines
<1>3. /\ Len(c) = Width /\ prev_row = Row(c) /\ offset < Rows(mem) /\ offset # LastRow(mem)
  BY DEF Collapse, NextRow, Repeats, LastRow
<1>4. /\ prev_row = Row(p) /\ out[n] # Star /\ Reach(n) = Filled
      /\ out[n].addr <= (offset - 1) * Width
  BY <1>2, <1>0 DEF DumpInv, CursorOK
<1>5. /\ offset - 1 \in Nat /\ (offset - 1) * Width = Filled - Width
      /\ Filled - Width \in Nat /\ Filled - Width < Len(mem)
  <2>1. offset - 1 \in Nat
    BY <1>1, <1>2
  <2>2. (offset - 1) * Width = offset * Width - Width /\ (offset - 1) * Width \in Nat
    BY <1>1, <2>1
  <2> QED
    BY <1>1, <2>1, <2>2
<1>6. /\ Len(p) = Width /\ \A j \in 1 .. Width : p[j] = mem[(Filled - Width) + j]
  <2>1. mem \in Seq(Byte)
    BY DEF DumpInv, DumpType
  <2>2. /\ (offset - 1) * Width + Len(p) = Upto((offset - 1) + 1, mem)
        /\ \A j \in 1 .. Len(p) : p[j] = mem[(offset - 1) * Width + j]
        /\ Len(p) \in 1 .. Width
    BY <1>5, <2>1, ChunkBytes
  <2>3. Upto((offset - 1) + 1, mem) = Filled
    <3>1. (offset - 1) + 1 = offset
      BY <1>1
    <3> QED
      BY <3>1 DEF Filled
  <2>5. PICK d \in Int : d = (offset - 1) * Width
    BY <1>5
  <2> HIDE DEF p
  <2>4. Len(p) = Width
    <3>1. d + Len(p) = Filled /\ d = Filled - Width /\ Len(p) \in Int
      BY <1>1, <1>5, <2>2, <2>3, <2>5
    <3> QED
      BY <1>1, <3>1
  <2> QED
    BY <1>5, <2>2, <2>4
<1>7. ASSUME NEW j \in 1 .. Width PROVE mem[Filled + j] = mem[(Filled - Width) + j]
  <2>1. Row(c)[j] = c[j] /\ Row(p)[j] = p[j]
    BY <1>1, <1>3, <1>6 DEF Row
  <2>2. Row(c) = Row(p)
    BY <1>3, <1>4
  <2> QED
    BY <1>1, <1>3, <1>6, <2>1, <2>2
<1>8. out[n].addr \in Nat
  BY <1>1, <1>2, <1>4, EntryFields
<1> HIDE DEF p, c
<1>9. /\ Filled \in Nat /\ Width \in Nat \ {0} /\ Filled' = Filled + Width
       /\ Filled - Width \in Nat /\ out[n].addr \in Nat /\ out[n].addr <= Filled - Width
  <2>1. Filled' = Filled + Width
    BY <1>1, <1>3
  <2>2. out[n].addr <= Filled - Width
    BY Zenon, <1>4, <1>5
  <2> QED
    BY <1>1, <1>5, <1>8, <2>1, <2>2
<1>10. \A i \in 1 .. Len(out') : out'[i] # Star => i \in 1 .. Len(out) /\ out[i] # Star
  <2> TAKE i \in 1 .. Len(out')
  <2>1. i \in 1 .. Len(out) \/ i \in Len(out) + 1 .. Len(out')
    BY <1>1, <1>2
  <2> QED
    BY <1>2, <2>1
<1>11. Len(out') \in Nat /\ \A i \in 1 .. Len(out) : i \in 1 .. Len(out')
  <2>1. Len(out') \in Nat
    BY <1>2, LenProperties
  <2> QED
    BY <1>1, <1>2, <2>1
<1>12. DumpType'
  BY <1>1, <1>2 DEF DumpInv, DumpType, Collapse
<1>13. StartOK'
  BY <1>1 DEF StartOK
<1>14. CursorOK'
  <2>1. offset' - 1 = offset
    BY <1>1
  <2>2. prev_row' = Row(Chunk(mem', offset' - 1))
    BY <1>1, <2>1 DEF c
  <2>3. out'[n] = out[n] /\ n \in 1 .. Len(out')
    BY <1>2, <1>11
  <2>4. out'[n].addr <= (offset' - 1) * Width
    <3>1. (offset' - 1) * Width = Filled
      BY Zenon, <1>1, <2>1
    <3>2. out[n].addr <= Filled
      BY <1>9
    <3> QED
      BY <2>3, <3>1, <3>2
  <2>5. Reach(n)' = Filled'
    BY <1>2, <1>4
  <2>6. offset + 1 < Rows(mem)
    BY <1>1, <1>3, RowCount
  <2> QED
    BY <1>1, <1>2, <1>4, <2>2, <2>3, <2>4, <2>5, <2>6 DEF CursorOK
<1>15. NotAhead'
  <2> SUFFICES ASSUME NEW i \in 1 .. Len(out'), out'[i] # Star PROVE Reach(i)' <= Filled'
    BY DEF NotAhead
  <2>1. i \in 1 .. Len(out) /\ out[i] # Star
    BY <1>10
  <2>2. Reach(i) <= Filled /\ Reach(i) \in Int
    BY <2>1, ReachType DEF DumpInv, NotAhead
  <2>3. Reach(i)' = Filled' \/ Reach(i)' = Reach(i)
    BY <1>2, <2>1
  <2> QED
    BY <1>1, <2>2, <2>3
<1>16. ToldOnce'
  <2> SUFFICES ASSUME NEW a \in 0 .. Filled' - 1
               PROVE  \E i \in 1 .. Len(out') :
                        /\ Tells(i, a)' /\ Shown(i, a)' = mem'[a + 1]
                        /\ \A j \in 1 .. Len(out') : Tells(j, a)' => j = i
    BY DEF ToldOnce
  <2>1. ASSUME NEW i \in 1 .. Len(out') PROVE Tells(i, a)' => i \in 1 .. Len(out)
    BY <1>10 DEF Tells
  <2>2. CASE a < Filled
    <3>1. PICK i \in 1 .. Len(out) :
            /\ Tells(i, a) /\ Shown(i, a) = mem[a + 1]
            /\ \A j \in 1 .. Len(out) : Tells(j, a) => j = i
      <4>1. a \in 0 .. Filled - 1
        BY <1>1, <2>2
      <4> QED
        BY Zenon, <4>1 DEF DumpInv, ToldOnce
    <3>2. ASSUME NEW j \in 1 .. Len(out) PROVE Tells(j, a)' <=> Tells(j, a)
      <4>1. CASE j = n
        <5>1. Reach(n)' = Filled' /\ out'[n] = out[n] /\ Reach(n) = Filled
          BY <1>2, <1>4
        <5>2. a < Filled /\ a < Filled'
          BY <1>9, <2>2
        <5> QED
          BY <4>1, <5>1, <5>2 DEF Tells
      <4>2. CASE j # n
        BY <1>2, <4>2 DEF Tells
      <4> QED
        BY <4>1, <4>2
    <3>3. Shown(i, a)' = Shown(i, a)
      BY <1>2 DEF Shown
    <3> QED
      BY <1>1, <1>11, <2>1, <3>1, <3>2, <3>3
  <2>3. CASE a >= Filled
    <3>1. Tells(n, a)'
      <4>1. out[n].addr <= a /\ a < Filled'
        BY <1>9, <2>3
      <4>2. Reach(n)' = Filled' /\ out'[n] = out[n]
        BY <1>2, <1>4
      <4> QED
        BY <1>4, <4>1, <4>2 DEF Tells
    <3>2. ASSUME NEW j \in 1 .. Len(out), Tells(j, a)' PROVE j = n
      <4> SUFFICES ASSUME j # n PROVE FALSE
        OBVIOUS
      <4>1. out[j] # Star /\ a < Reach(j)
        BY <1>2, <3>2 DEF Tells
      <4>2. Reach(j) <= Filled /\ Reach(j) \in Int
        BY <4>1, ReachType DEF DumpInv, NotAhead
      <4> QED
        BY <1>1, <2>3, <4>1, <4>2
    <3>3. Shown(n, a)' = mem'[a + 1]
      <4> DEFINE b == a - Width
      <4>1. b \in 0 .. Filled - 1 /\ Filled - Width <= b
        BY <1>9, <2>3
      <4>2. Tells(n, b)
        <5>1. out[n].addr <= b /\ b < Filled
          BY <1>9, <4>1
        <5> QED
          BY <1>4, <5>1 DEF Tells
      <4>3. Shown(n, b) = mem[b + 1]
        <5>1. PICK i \in 1 .. Len(out) :
                /\ Tells(i, b) /\ Shown(i, b) = mem[b + 1]
                /\ \A j \in 1 .. Len(out) : Tells(j, b) => j = i
          BY <4>1 DEF DumpInv, ToldOnce
        <5> HIDE DEF b
        <5> QED
          BY <1>2, <4>2, <5>1
      <4>4. (a - out[n].addr) % Width = (b - out[n].addr) % Width
        <5>1. b - out[n].addr \in Int /\ (b - out[n].addr) + Width = a - out[n].addr
          BY <1>9
        <5> HIDE DEF b
        <5> QED
          BY <1>1, <5>1, SameColumn
      <4>5. Shown(n, a)' = Shown(n, b)
        <5> HIDE DEF b
        <5> QED
          BY <1>2, <4>4 DEF Shown
      <4>6. mem[b + 1] = mem[a + 1]
        <5>1. a - Filled + 1 \in 1 .. Width /\ Filled + (a - Filled + 1) = a + 1
              /\ (Filled - Width) + (a - Filled + 1) = b + 1
          BY <1>9, <2>3
        <5> HIDE DEF b
        <5> QED
          BY <1>7, <5>1
      <4> QED
        BY <1>1, <4>3, <4>5, <4>6
    <3> QED
      BY <1>2, <1>11, <2>1, <3>1, <3>2, <3>3
  <2> QED
    BY <1>1, <2>2, <2>3
<1> QED
  BY <1>12, <1>13, <1>14, <1>15, <1>16 DEF DumpInv

LEMMA DumpStep ==
  ASSUME DumpInv, [Next]_vars
  PROVE  DumpInv'
<1>1. CASE UNCHANGED vars
  BY <1>1 DEF vars, DumpInv, DumpType, StartOK, CursorOK, NotAhead, ToldOnce, Newest, Reach,
              Filled, Tells, Shown
<1>2. CASE Next
  BY <1>2, PrintInv, CollapseInv DEF Next
<1> QED
  BY <1>1, <1>2

LEMMA DumpInvariant == Spec => []DumpInv
BY DumpInit, DumpStep, PTL DEF Spec

(***************************************************************************)
(* Theorems                                                                 *)
(***************************************************************************)
\* When the dump is done it ends in a line, and every line tells what the
\* reader takes it to tell.
LEMMA DumpDone ==
  ASSUME DumpInv, Done
  PROVE  /\ Len(mem) \in Nat /\ Len(out) \in Nat /\ Filled = Len(mem) /\ ~star_active
         /\ offset > 0 => /\ Len(out) \in 1 .. Len(out) /\ out[Len(out)] # Star
                          /\ out[Len(out)].addr + Len(out[Len(out)].bytes) = Len(mem)
         /\ offset = 0 => out = <<>> /\ Len(mem) = 0
         /\ offset \in Nat
<1>1. /\ mem \in Seq(Byte) /\ out \in Seq(Entry) /\ offset = Rows(mem) /\ star_active \in BOOLEAN
  BY DEF DumpInv, DumpType, Done
<1>2. Len(mem) \in Nat /\ Len(out) \in Nat /\ Width \in Nat \ {0}
  BY <1>1, LenProperties, HexDumpAssumption
<1>3. offset \in Nat /\ ~(offset * Width < Len(mem))
  BY <1>1, <1>2, RowCount
<1>4. Filled = Len(mem)
  BY <1>3 DEF Filled, Upto
<1>5. ~star_active
  <2>1. offset = 0 => ~star_active
    BY DEF DumpInv, StartOK
  <2>2. offset > 0 => ~star_active
    BY <1>1, <1>3 DEF DumpInv, CursorOK
  <2> QED
    BY <1>3, <2>1, <2>2
<1>6. offset = 0 => out = <<>> /\ Len(mem) = 0
  BY <1>2, <1>3 DEF DumpInv, StartOK
<1>7. ASSUME offset > 0
      PROVE  /\ Len(out) \in 1 .. Len(out) /\ out[Len(out)] # Star
             /\ out[Len(out)].addr + Len(out[Len(out)].bytes) = Len(mem)
  <2>1. Newest = Len(out)
    BY <1>5 DEF Newest
  <2>2. Len(out) \in 1 .. Len(out) /\ out[Len(out)] # Star /\ Reach(Len(out)) = Filled
    BY <1>7, <2>1 DEF DumpInv, CursorOK
  <2>3. Reach(Len(out)) = out[Len(out)].addr + Len(out[Len(out)].bytes)
    BY <1>2 DEF Reach
  <2> QED
    BY <1>4, <2>2, <2>3
<1> QED
  BY <1>2, <1>3, <1>4, <1>5, <1>6, <1>7

LEMMA InvLossless ==
  ASSUME DumpInv
  PROVE  Lossless
<1> SUFFICES ASSUME Done, NEW a \in 0 .. Len(mem) - 1 PROVE Reads(a) = {mem[a + 1]}
  BY DEF Lossless
<1>1. /\ Len(mem) \in Nat /\ Len(out) \in Nat /\ Filled = Len(mem)
      /\ offset > 0 => out[Len(out)] # Star
      /\ offset = 0 => Len(mem) = 0
      /\ offset \in Nat /\ DOMAIN out = 1 .. Len(out)
  BY DumpDone, LenProperties DEF DumpInv, DumpType
<1>2. out[Len(out)] # Star
  BY <1>1
<1>3. ASSUME NEW i \in 1 .. Len(out) PROVE Ends(i) = Reach(i)
  <2>1. i < Len(out) /\ out[i + 1] = Star => i + 1 < Len(out)
    <3> SUFFICES ASSUME i < Len(out), out[i + 1] = Star, ~(i + 1 < Len(out)) PROVE FALSE
      OBVIOUS
    <3>1. i + 1 = Len(out)
      <4>1. Len(out) \in Nat /\ i \in 1 .. Len(out)
        BY <1>1, <1>3
      <4> QED
        BY <4>1
    <3> QED
      BY <1>2, <3>1
  <2> QED
    BY <2>1 DEF Ends, Reach
<1>4. PICK i \in 1 .. Len(out) :
        /\ Tells(i, a) /\ Shown(i, a) = mem[a + 1]
        /\ \A j \in 1 .. Len(out) : Tells(j, a) => j = i
  BY <1>1 DEF DumpInv, ToldOnce
<1>5. { j \in DOMAIN out : out[j] # Star /\ out[j].addr <= a /\ a < Ends(j) } = {i}
  BY <1>1, <1>3, <1>4 DEF Tells
<1>6. Reads(a) = { Shown(j, a) : j \in {i} }
  BY <1>5 DEF Reads, Shown
<1> QED
  BY <1>4, <1>6

LEMMA InvSizeReadable ==
  ASSUME DumpInv
  PROVE  SizeReadable
<1> SUFFICES ASSUME Done PROVE DumpLen = Len(mem)
  BY DEF SizeReadable
<1>1. /\ Len(mem) \in Nat /\ Len(out) \in Nat /\ offset \in Nat
      /\ offset > 0 => /\ Len(out) \in 1 .. Len(out) /\ out[Len(out)] # Star
                       /\ out[Len(out)].addr + Len(out[Len(out)].bytes) = Len(mem)
      /\ offset = 0 => out = <<>> /\ Len(mem) = 0
  BY DumpDone
<1>2. CASE offset = 0
  BY <1>1, <1>2 DEF DumpLen
<1>3. CASE offset > 0
  <2>1. out # <<>>
    <3>1. Len(<<>>) = 0 /\ 0 \notin 1 .. 0
      OBVIOUS
    <3> QED
      BY Zenon, <1>1, <1>3, <3>1
  <2> QED
    BY <1>1, <1>3, <2>1 DEF DumpLen
<1> QED
  BY <1>1, <1>2, <1>3

\* A dump loses nothing, for every buffer and rows of every width: exactly one
\* line tells each byte, and shows it, in collapsed rows as well.
THEOREM DumpIsLossless == Spec => []Lossless
BY DumpInvariant, InvLossless, PTL

\* The dump ends in a printed line that ends where the buffer does, whatever
\* its last rows hold.
THEOREM DumpShowsTheSize == Spec => []SizeReadable
BY DumpInvariant, InvSizeReadable, PTL
=============================================================================
