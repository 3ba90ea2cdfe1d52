---------------------------- MODULE HexDumpProofs ---------------------------
(***************************************************************************)
(* Proofs about HexDump, for buffers of any size and content.              *)
(***************************************************************************)
EXTENDS HexDump, TLAPS

\* From the dump on, what is left out is only zeros.
Dumping == {"dump", "pad", "report", "done"}

\* bytes is the first n bytes of the buffer.
Prefix(n) == Len(bytes) = n /\ \A k \in 1..n : bytes[k] = d[k]

Inv ==
  /\ d \in Seq(Byte) /\ size <= MaxSize
  /\ bytes \in Seq(Byte)
  /\ pc \in Pcs
  /\ pc \in {"start", "scan"} => ~trimming /\ i = 0 /\ bytes = <<>>
  /\ pc = "scan" => /\ trim_offset \in -1..size - 1
                    /\ trim_size = size
                    /\ \A k \in trim_offset + 2..size : d[k] = 0
  /\ pc \in Dumping => /\ trim_size \in 0..size
                       /\ ~trimming => trim_size = size
                       /\ \A k \in trim_size + 1..size : d[k] = 0
  /\ pc = "dump" => i \in 0..trim_size /\ Prefix(i)
  /\ pc \in {"pad", "report", "done"} => Prefix(trim_size)
  /\ repeated = IF pc = "done" /\ trimming THEN size - trim_size ELSE -1

\* The last offset of the buffer is -1 for an empty one.
LEMMA LastOffset ==
  ASSUME NEW n \in 0..MaxSize
  PROVE  Signed((n - 1) % SizeMod) = n - 1
<1>1. SizeMod \in Nat /\ MaxSize \in Nat /\ 2 * MaxSize < SizeMod
  BY SizeAssumption
<1>2. CASE n = 0
  <2>1. (n - 1) % SizeMod = SizeMod - 1
    BY <1>1, <1>2
  <2>2. SizeMod - 1 >= SizeMod \div 2
    BY <1>1
  <2> QED
    BY <1>1, <1>2, <2>1, <2>2 DEF Signed
<1>3. CASE n > 0
  <2>1. (n - 1) % SizeMod = n - 1
    BY <1>1, <1>3
  <2>2. ~(n - 1 >= SizeMod \div 2)
    BY <1>1, <1>3
  <2> QED
    BY <2>1, <2>2 DEF Signed
<1> QED
  BY <1>2, <1>3

\* Nothing is shown, trimmed or reported when the function is entered.
LEMMA InvInit == Init => Inv
<1> SUFFICES ASSUME Init
             PROVE  Inv
  OBVIOUS
<1>1. PICK n \in 0..MaxSize : d \in [1..n -> Byte]
  BY DEF Init
<1>2. d \in Seq(Byte) /\ size = n
  BY <1>1, SizeAssumption DEF size
<1>3. n <= MaxSize
  BY SizeAssumption
<1> QED
  BY <1>2, <1>3 DEF Init, Inv, Pcs, Dumping

\* size - 1 as an off_t is the last offset, or -1 for an empty buffer.
LEMMA StartInv ==
  ASSUME Inv, Start
  PROVE  Inv'
<1>1. /\ d \in Seq(Byte) /\ size \in 0..MaxSize
      /\ UNCHANGED <<d, trimming, i, bytes, repeated>>
      /\ size' = size /\ trim_size' = size
      /\ ~trimming /\ i = 0 /\ bytes = <<>> /\ repeated = -1
  BY SizeAssumption DEF Inv, Start, size
<1>2. CASE pc' = "dump"
  BY <1>1, <1>2 DEF Inv, Pcs, Dumping, Prefix
<1>3. CASE pc' = "scan" /\ trim_offset' = Signed((size - 1) % SizeMod)
  <2>1. trim_offset' = size - 1
    BY <1>1, <1>3, LastOffset
  <2> QED
    BY <1>1, <1>3, <2>1 DEF Inv, Pcs, Dumping
<1> QED
  BY <1>2, <1>3 DEF Start

\* The zero the scan steps over joins the zeros behind it.
LEMMA ScanInv ==
  ASSUME Inv, Scan
  PROVE  Inv'
<1>1. /\ pc = "scan" /\ trim_offset \in -1..size - 1 /\ size \in Nat
      /\ trim_offset # -1 /\ d[trim_offset + 1] = 0
      /\ trim_offset' = trim_offset - 1
      /\ UNCHANGED <<d, pc, trim_size, trimming, i, bytes, repeated>>
  BY DEF Inv, Scan, At, size
<1>2. size' = size
  BY <1>1 DEF size
<1>3. \A k \in trim_offset' + 2..size : d[k] = 0
  <2> SUFFICES ASSUME NEW k \in trim_offset + 1..size
               PROVE  d[k] = 0
    BY <1>1
  <2>1. k = trim_offset + 1 \/ k \in trim_offset + 2..size
    BY <1>1
  <2> QED
    BY <1>1, <2>1 DEF Inv
<1>4. trim_offset' \in -1..size - 1
  BY <1>1
<1> QED
  BY <1>1, <1>2, <1>3, <1>4 DEF Inv, Dumping

\* What is left after the scan ends with a byte that is not zero, or is the
\* whole buffer when trimming found nothing to keep.
LEMMA ScanEndsInv ==
  ASSUME Inv, ScanEnds
  PROVE  Inv'
<1>1. /\ pc = "scan" /\ trim_offset \in -1..size - 1 /\ size \in Nat
      /\ trim_size = size /\ ~trimming /\ i = 0 /\ bytes = <<>>
      /\ \A k \in trim_offset + 2..size : d[k] = 0
      /\ repeated = -1
      /\ pc' = "dump" /\ UNCHANGED <<d, i, bytes, repeated>>
  BY DEF Inv, ScanEnds, size
<1>2. size' = size
  BY <1>1 DEF size
<1>3. /\ trim_size' \in 0..size
      /\ ~trimming' => trim_size' = size
      /\ \A k \in trim_size' + 1..size : d[k] = 0
  <2>1. CASE trim_offset < 0
    BY <1>1, <2>1 DEF ScanEnds
  <2>2. CASE ~(trim_offset < 0)
    <3>1. trimming' = TRUE /\ trim_size' = trim_offset + 1
      BY <2>2 DEF ScanEnds, Trimmed
    <3> QED
      BY <1>1, <2>2, <3>1
  <2> QED
    BY <2>1, <2>2
<1>4. /\ d' \in Seq(Byte) /\ size' <= MaxSize /\ bytes' \in Seq(Byte)
  BY <1>1, <1>2 DEF Inv
<1>5. i' \in 0..trim_size' /\ Prefix(i)'
  BY <1>1, <1>3 DEF Prefix
<1>6. repeated' = -1 /\ pc' = "dump" /\ size' = size
  BY <1>1, <1>2
<1>7. /\ trim_size' \in 0..size'
      /\ ~trimming' => trim_size' = size'
      /\ \A k \in trim_size' + 1..size' : d'[k] = 0
  BY <1>1, <1>3, <1>6
<1>8. repeated' = IF pc' = "done" /\ trimming' THEN size' - trim_size' ELSE -1
  BY <1>6
<1>9. /\ pc' \in Pcs /\ pc' \notin {"start", "scan"}
      /\ pc' \notin {"pad", "report", "done"}
  BY <1>6 DEF Pcs
<1> QED
  BY <1>4, <1>5, <1>7, <1>8, <1>9 DEF Inv

\* One iteration shows the next byte of the buffer.
LEMMA DumpInv ==
  ASSUME Inv, Dump
  PROVE  Inv'
<1>1. /\ pc = "dump" /\ i \in 0..trim_size /\ trim_size \in 0..size
      /\ i < trim_size /\ size \in Nat /\ d \in Seq(Byte)
      /\ bytes \in Seq(Byte) /\ Prefix(i)
      /\ bytes' = Append(bytes, d[i + 1]) /\ i' = i + 1
      /\ UNCHANGED <<d, pc, trim_size, trimming, repeated>>
  BY DEF Inv, Dump, At, size, Dumping
<1>2. size' = size /\ d[i + 1] \in Byte
  BY <1>1 DEF size
<1>3. Prefix(i)'
  <2>1. Len(bytes') = i + 1 /\ bytes'[i + 1] = d[i + 1]
    BY <1>1, <1>2 DEF Prefix
  <2>2. \A k \in 1..i : bytes'[k] = d[k]
    BY <1>1, <1>2 DEF Prefix
  <2> QED
    BY <1>1, <2>1, <2>2 DEF Prefix
<1>4. bytes' \in Seq(Byte) /\ i' \in 0..trim_size
  BY <1>1, <1>2
<1> QED
  BY <1>1, <1>2, <1>3, <1>4 DEF Inv, Dumping

\* When the loop ends every byte of the trimmed buffer was shown.
LEMMA DumpEndsInv ==
  ASSUME Inv, DumpEnds
  PROVE  Inv'
<1>1. /\ pc = "dump" /\ i \in 0..trim_size /\ trim_size \in 0..size
      /\ i >= trim_size /\ size \in Nat /\ Prefix(i)
      /\ UNCHANGED <<d, trim_size, trimming, bytes, repeated>>
      /\ pc' \in {"pad", "report"}
  BY DEF Inv, DumpEnds, size, Dumping
<1>2. size' = size /\ i = trim_size
  BY <1>1 DEF size
<1>3. Prefix(trim_size)'
  BY <1>1, <1>2 DEF Prefix
<1> QED
  BY <1>1, <1>2, <1>3 DEF Inv, Dumping, Pcs

\* Filling the last row shows no further byte.
LEMMA PadInv ==
  ASSUME Inv, Pad
  PROVE  Inv'
<1>1. /\ pc = "pad" /\ pc' \in {"pad", "report"}
      /\ UNCHANGED <<d, trim_size, trimming, bytes, repeated>>
  BY DEF Pad
<1>2. size' = size
  BY <1>1 DEF size
<1> QED
  BY <1>1, <1>2 DEF Inv, Dumping, Pcs, Prefix

\* The number reported is that of the bytes left out.
LEMMA ReportInv ==
  ASSUME Inv, Report
  PROVE  Inv'
<1>1. /\ pc = "report" /\ pc' = "done"
      /\ UNCHANGED <<d, trim_size, trimming, bytes>>
      /\ repeated' = IF trimming THEN size - trim_size ELSE repeated
      /\ repeated = -1
  BY DEF Inv, Report, Repeated
<1>2. size' = size
  BY <1>1 DEF size
<1> QED
  BY <1>1, <1>2 DEF Inv, Dumping, Pcs, Prefix

\* The invariant holds in every reachable state.
LEMMA InvHolds == Spec => []Inv
<1>1. Inv /\ [Next]_vars => Inv'
  <2> SUFFICES ASSUME Inv, [Next]_vars
               PROVE  Inv'
    OBVIOUS
  <2>1. CASE UNCHANGED vars
    <3>1. size' = size
      BY <2>1 DEF vars, size
    <3> QED
      BY <2>1, <3>1 DEF vars, Inv, Prefix
  <2> QED
    BY <2>1, StartInv, ScanInv, ScanEndsInv, DumpInv, DumpEndsInv, PadInv,
       ReportInv
    DEF Next
<1> QED
  BY <1>1, InvInit, PTL DEF Spec

(***************************************************************************)
(* A trimmed dump loses nothing: the bytes shown, followed by the zeros    *)
(* counted, are the buffer, of whatever size, trimming enabled or not.     *)
(***************************************************************************)
THEOREM TrimmingLosesNothing == Spec => []BufferShown
<1>1. Inv => BufferShown
  <2> SUFFICES ASSUME Inv, pc = "done"
               PROVE  Seen = d
    BY DEF BufferShown
  <2>1. /\ d \in Seq(Byte) /\ bytes \in Seq(Byte)
        /\ size = Len(d) /\ size \in Nat
        /\ trim_size \in 0..size /\ Prefix(trim_size)
        /\ ~trimming => trim_size = size
        /\ \A k \in trim_size + 1..size : d[k] = 0
        /\ repeated = IF trimming THEN size - trim_size ELSE -1
    BY DEF Inv, Dumping, size
  <2>2. CASE ~trimming
    <3>1. Seen = bytes
      BY <2>1, <2>2 DEF Seen
    <3> QED
      BY <2>1, <2>2, <3>1 DEF Prefix
  <2>3. CASE trimming
    <3> DEFINE z == Zeros(size - trim_size)
    <3>1. Seen = bytes \o z
      BY <2>1, <2>3 DEF Seen
    <3>2. /\ z \in Seq(Byte) /\ Len(z) = size - trim_size
          /\ \A k \in 1..size - trim_size : z[k] = 0
      BY <2>1, ByteAssumption DEF Zeros
    <3> HIDE DEF z
    <3>3. Seen \in Seq(Byte) /\ Len(Seen) = size
      BY <2>1, <3>1, <3>2 DEF Prefix
    <3>4. \A k \in 1..size : Seen[k] = d[k]
      <4>1. \A k \in 1..trim_size : Seen[k] = d[k]
        BY <2>1, <3>1, <3>2 DEF Prefix
      <4>2. \A k \in trim_size + 1..size : Seen[k] = 0
        BY <2>1, <3>1, <3>2, SMTT(30) DEF Prefix
      <4> QED
        BY <2>1, <4>1, <4>2
    <3> QED
      BY <2>1, <3>3, <3>4
  <2> QED
    BY <2>2, <2>3
<1> QED
  BY <1>1, InvHolds, PTL

-----------------------------------------------------------------------------
(* Rows.                                                                   *)

\* Columns of the row that is being shown, and complete rows.
RowsInv ==
  /\ alpha \in 0..RowLen - 1 /\ rows \in Nat
  /\ pc \in {"start", "scan"} => rows = 0 /\ alpha = 0
  /\ pc = "dump" => i = rows * RowLen + alpha
  /\ pc = "pad" => /\ i = alpha /\ i # 0
                   /\ rows * RowLen < trim_size
                   /\ trim_size <= rows * RowLen + i
  /\ pc \in {"report", "done"} => /\ alpha = 0
                                  /\ trim_size <= rows * RowLen
                                  /\ trim_size > (rows - 1) * RowLen

\* The remainder of a division is the only one.
LEMMA Remainder ==
  ASSUME NEW q \in Nat, NEW a \in 0..RowLen - 1
  PROVE  (q * RowLen + a) % RowLen = a
<1> DEFINE n == q * RowLen + a
           p == n \div RowLen
           b == n % RowLen
<1>1. RowLen \in Nat /\ RowLen > 0
  BY SizeAssumption
<1>2. n \in Nat /\ q * RowLen \in Nat
  BY <1>1
<1>3. /\ p \in Int /\ b \in 0..RowLen - 1
      /\ n = p * RowLen + b
  BY <1>1, <1>2
<1> HIDE DEF p, b
<1>4. (q - p) * RowLen = b - a
  BY <1>1, <1>2, <1>3
<1>5. ASSUME NEW x \in Int, x >= 1
      PROVE  x * RowLen >= RowLen
  BY <1>1, <1>5
<1>6. ~(q - p >= 1)
  BY <1>1, <1>3, <1>4, <1>5
<1>7. ~(p - q >= 1)
  <2>1. (p - q) * RowLen = a - b
    BY <1>1, <1>3, <1>4
  <2> QED
    BY <1>1, <1>3, <1>5, <2>1
<1>8. b = a
  BY <1>1, <1>3, <1>4, <1>6, <1>7
<1> QED
  BY <1>8 DEF b

\* The column after the last one is the first of the next row.
LEMMA NextColumn ==
  ASSUME NEW q \in Nat, NEW a \in 0..RowLen - 1
  PROVE  NextCharacter(q * RowLen + a) = IF a = RowLen - 1 THEN 0 ELSE a + 1
<1>1. RowLen \in Nat /\ RowLen > 0
  BY SizeAssumption
<1>2. q * RowLen \in Nat /\ (q + 1) * RowLen = q * RowLen + RowLen
  BY <1>1
<1>3. CASE a = RowLen - 1
  <2>1. (q * RowLen + a) + 1 = (q + 1) * RowLen + 0
    BY <1>1, <1>2, <1>3
  <2>2. ((q + 1) * RowLen + 0) % RowLen = 0
    BY <1>1, Remainder
  <2> QED
    BY <1>3, <2>1, <2>2 DEF NextCharacter
<1>4. CASE a # RowLen - 1
  <2>1. a + 1 \in 0..RowLen - 1
    BY <1>1, <1>4
  <2>2. (q * RowLen + a) + 1 = q * RowLen + (a + 1)
    BY <1>1, <1>2
  <2>3. (q * RowLen + (a + 1)) % RowLen = a + 1
    BY <2>1, Remainder
  <2> QED
    BY <1>4, <2>2, <2>3 DEF NextCharacter
<1> QED
  BY <1>3, <1>4

\* A byte goes to the next column, and ends its row in the last one.
LEMMA DumpRows ==
  ASSUME RowsInv, Dump
  PROVE  RowsInv'
<1>1. /\ RowLen \in Nat /\ RowLen > 0
      /\ alpha \in 0..RowLen - 1 /\ rows \in Nat
      /\ pc = "dump" /\ pc' = "dump" /\ i = rows * RowLen + alpha
      /\ alpha' = NextCharacter(i) /\ i' = i + 1
      /\ rows' = IF i % RowLen = RowLen - 1 THEN rows + 1 ELSE rows
  BY SizeAssumption DEF RowsInv, Dump
<1>2. i % RowLen = alpha /\ alpha' = IF alpha = RowLen - 1 THEN 0 ELSE alpha + 1
  BY <1>1, Remainder, NextColumn
<1>3. rows * RowLen \in Nat /\ (rows + 1) * RowLen = rows * RowLen + RowLen
  BY <1>1
<1>4. /\ alpha' \in 0..RowLen - 1 /\ rows' \in Nat
      /\ i' = rows' * RowLen + alpha'
  <2>1. CASE alpha = RowLen - 1
    <3>1. rows' = rows + 1 /\ alpha' = 0 /\ i' = rows * RowLen + RowLen
      BY <1>1, <1>2, <1>3, <2>1
    <3> QED
      BY <1>1, <1>3, <3>1
  <2>2. CASE alpha # RowLen - 1
    <3>1. rows' = rows /\ alpha' = alpha + 1 /\ i' = rows * RowLen + (alpha + 1)
      BY <1>1, <1>2, <1>3, <2>2
    <3> QED
      BY <1>1, <2>2, <3>1
  <2> QED
    BY <2>1, <2>2
<1> QED
  BY <1>1, <1>4 DEF RowsInv

\* What is left to fill is the rest of a row that has a byte.
LEMMA DumpEndsRows ==
  ASSUME Inv, RowsInv, DumpEnds
  PROVE  RowsInv'
<1>1. /\ RowLen \in Nat /\ RowLen > 0
      /\ alpha \in 0..RowLen - 1 /\ rows \in Nat
      /\ pc = "dump" /\ i = rows * RowLen + alpha
      /\ i = trim_size /\ trim_size \in Nat
      /\ UNCHANGED <<alpha, rows, trim_size>>
  BY SizeAssumption DEF Inv, RowsInv, DumpEnds, size, Dumping
<1>2. i % RowLen = alpha
  BY <1>1, Remainder
<1>3. /\ rows * RowLen \in Nat
      /\ (rows - 1) * RowLen = rows * RowLen - RowLen
  BY <1>1
<1>4. CASE alpha # 0
  <2>1. pc' = "pad" /\ i' = alpha
    BY <1>2, <1>4 DEF DumpEnds, RowOpen
  <2> QED
    BY <1>1, <1>3, <1>4, <2>1 DEF RowsInv
<1>5. CASE alpha = 0
  <2>1. pc' = "report"
    BY <1>2, <1>5 DEF DumpEnds, RowOpen
  <2> QED
    BY <1>1, <1>3, <1>5, <2>1 DEF RowsInv
<1> QED
  BY <1>4, <1>5

\* The row is filled up to its last column, and is then a row.
LEMMA PadRows ==
  ASSUME Inv, RowsInv, Pad
  PROVE  RowsInv'
<1>1. /\ RowLen \in Nat /\ RowLen > 0
      /\ pc = "pad" /\ i = alpha /\ alpha \in 0..RowLen - 1 /\ i # 0
      /\ rows \in Nat /\ trim_size \in Nat /\ trim_size' = trim_size
      /\ rows * RowLen < trim_size /\ trim_size <= rows * RowLen + i
      /\ i' = i + 1 /\ alpha' = NextCharacter(i)
      /\ rows' = IF i = RowLen - 1 THEN rows + 1 ELSE rows
      /\ pc' = IF i + 1 < RowLen THEN "pad" ELSE "report"
  BY SizeAssumption DEF Inv, RowsInv, Pad, size, Dumping
<1>2. alpha' = IF i = RowLen - 1 THEN 0 ELSE i + 1
  <2>1. i = 0 * RowLen + i
    BY <1>1
  <2>2. NextCharacter(0 * RowLen + i) = IF i = RowLen - 1 THEN 0 ELSE i + 1
    BY <1>1, NextColumn
  <2> QED
    BY <1>1, <2>1, <2>2
<1>3. /\ rows * RowLen \in Nat
      /\ (rows + 1) * RowLen = rows * RowLen + RowLen
  BY <1>1
<1>4. CASE i = RowLen - 1
  <2>1. rows' = rows + 1 /\ alpha' = 0 /\ pc' = "report" /\ rows' - 1 = rows
    BY <1>1, <1>2, <1>4
  <2> QED
    BY <1>1, <1>3, <1>4, <2>1 DEF RowsInv
<1>5. CASE i # RowLen - 1
  <2>1. rows' = rows /\ alpha' = i + 1 /\ pc' = "pad"
    BY <1>1, <1>2, <1>5
  <2> QED
    BY <1>1, <1>3, <1>5, <2>1 DEF RowsInv
<1> QED
  BY <1>4, <1>5

(***************************************************************************)
(* The rows of a dump are whole, for buffers and rows of any length: the   *)
(* last one is filled when it is short, and no row is empty, also when the *)
(* buffer ends with a row or is empty.                                     *)
(***************************************************************************)
THEOREM NoRowIsPartial == Spec => []RowsWhole
<1>1. Init => RowsInv
  BY SizeAssumption DEF Init, RowsInv
<1>2. Inv /\ RowsInv /\ [Next]_vars => RowsInv'
  <2> SUFFICES ASSUME Inv, RowsInv, [Next]_vars
               PROVE  RowsInv'
    OBVIOUS
  <2>1. CASE Start
    <3>1. /\ rows' = 0 /\ alpha' = 0 /\ i' = 0 /\ 0 \in 0..RowLen - 1
          /\ pc' \in {"scan", "dump"} /\ 0 * RowLen + 0 = 0
      BY <2>1, SizeAssumption DEF Inv, RowsInv, Start
    <3> QED
      BY <3>1 DEF RowsInv
  <2>2. CASE Scan
    BY <2>2 DEF RowsInv, Scan
  <2>3. CASE ScanEnds
    <3>1. /\ rows' = 0 /\ alpha' = 0 /\ i' = 0 /\ 0 \in 0..RowLen - 1
          /\ pc' = "dump" /\ 0 * RowLen + 0 = 0
      BY <2>3, SizeAssumption DEF Inv, RowsInv, ScanEnds
    <3> QED
      BY <3>1 DEF RowsInv
  <2>4. CASE Report
    BY <2>4 DEF RowsInv, Report
  <2>5. CASE UNCHANGED vars
    BY <2>5 DEF RowsInv, vars
  <2> QED
    BY <2>1, <2>2, <2>3, <2>4, <2>5, DumpRows, DumpEndsRows, PadRows DEF Next
<1>3. Inv /\ RowsInv => RowsWhole
  BY DEF Inv, RowsInv, RowsWhole, Prefix
<1> QED
  BY <1>1, <1>2, <1>3, InvHolds, PTL DEF Spec

=============================================================================
