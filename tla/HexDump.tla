------------------------------ MODULE HexDump -------------------------------
(***************************************************************************)
(* panwrap_log_hexdump_trimmed() and panwrap_log_hexdump() of              *)
(* panwrap/panwrap-util.c: the zeros at the end of a buffer are left out   *)
(* and counted, and the bytes before them are shown in rows with a column  *)
(* of characters.  One step is one iteration of a loop.  A byte is a       *)
(* member of a small set; size_t wraps around at SizeMod.                  *)
(***************************************************************************)
EXTENDS Integers, Sequences

CONSTANTS
  Byte,        \* values of bytes, 0 among them
  MaxSize,     \* bound: size of a buffer
  RowLen,      \* HEXDUMP_ROW_LEN
  SizeMod      \* 2 to the width of size_t and off_t

ASSUME ByteAssumption == Byte \subseteq Int /\ 0 \in Byte
ASSUME SizeAssumption ==
  /\ MaxSize \in Nat /\ RowLen \in Nat \ {0}
  /\ SizeMod \in Nat /\ 2 * MaxSize < SizeMod

VARIABLES
  d, enabled,    \* the buffer, enable_hexdump_trimming
  pc,
  trim_offset, trim_size, trimming,
  i,             \* the loop variable of panwrap_log_hexdump()
  bytes,         \* the bytes shown
  alpha,         \* the characters of the current row
  rows,          \* the rows that are complete
  repeated       \* the number of zeros reported, -1 for none

vars == <<d, enabled, pc, trim_offset, trim_size, trimming, i, bytes, alpha,
          rows, repeated>>

size == Len(d)

\* d[k] of the code.
At(k) == d[k + 1]

\* The conversion of a size_t to off_t, which is signed.
Signed(n) == IF n >= SizeMod \div 2 THEN n - SizeMod ELSE n

Pcs == {"start", "scan", "dump", "pad", "report", "done"}

TypeOK ==
  /\ d \in Seq(Byte) /\ size <= MaxSize /\ enabled \in BOOLEAN
  /\ pc \in Pcs
  /\ trim_offset \in -1..size /\ trim_size \in 0..size
  /\ trimming \in BOOLEAN
  /\ i \in 0..size + RowLen
  /\ bytes \in Seq(Byte)
  /\ alpha \in 0..RowLen - 1
  /\ rows \in Nat
  /\ repeated \in -1..size

Init ==
  /\ d \in UNION {[1..n -> Byte] : n \in 0..MaxSize} /\ enabled \in BOOLEAN
  /\ pc = "start"
  /\ trim_offset = 0 /\ trim_size = 0 /\ trimming = FALSE
  /\ i = 0 /\ bytes = <<>> /\ alpha = 0 /\ rows = 0 /\ repeated = -1

-----------------------------------------------------------------------------
(* panwrap_log_hexdump_trimmed()                                           *)

Start ==
  /\ pc = "start"
  /\ trim_size' = size
  /\ \/ ~enabled /\ pc' = "dump" /\ UNCHANGED trim_offset
     \/ /\ enabled /\ pc' = "scan"
        /\ trim_offset' = Signed((size - 1) % SizeMod)
  /\ UNCHANGED <<d, enabled, trimming, i, bytes, alpha, rows, repeated>>

Scan ==
  /\ pc = "scan" /\ trim_offset # -1
  /\ At(trim_offset) = 0
  /\ trim_offset' = trim_offset - 1
  /\ UNCHANGED <<d, enabled, pc, trim_size, trimming, i, bytes, alpha, rows,
                 repeated>>

\* A mutant: the last byte that is not zero is trimmed too.
TrimmedOne == trim_offset

Trimmed == trim_offset + 1

ScanEnds ==
  /\ pc = "scan" /\ (IF trim_offset = -1 THEN TRUE ELSE At(trim_offset) # 0)
  /\ IF trim_offset < 0 THEN UNCHANGED <<trimming, trim_size>>
     ELSE trimming' = TRUE /\ trim_size' = Trimmed
  /\ pc' = "dump"
  /\ UNCHANGED <<d, enabled, trim_offset, i, bytes, alpha, rows, repeated>>

-----------------------------------------------------------------------------
(* panwrap_log_hexdump(data, trim_size)                                    *)

\* The column of characters after the one for byte k.
NextCharacter(k) == (k + 1) % RowLen

Dump ==
  /\ pc = "dump" /\ i < trim_size
  /\ bytes' = Append(bytes, At(i))
  /\ alpha' = NextCharacter(i)
  /\ rows' = IF i % RowLen = RowLen - 1 THEN rows + 1 ELSE rows
  /\ i' = i + 1
  /\ UNCHANGED <<d, enabled, pc, trim_offset, trim_size, trimming, repeated>>

\* A mutant: a row of one byte is not filled.
RowOpenAfterTwo(k) == k % RowLen > 1

RowOpen(k) == k % RowLen # 0

\* The rest of the last row is filled when there is one.
DumpEnds ==
  /\ pc = "dump" /\ i >= trim_size
  /\ IF RowOpen(i) THEN pc' = "pad" /\ i' = i % RowLen
     ELSE pc' = "report" /\ UNCHANGED i
  /\ UNCHANGED <<d, enabled, trim_offset, trim_size, trimming, bytes, alpha,
                 rows, repeated>>

Pad ==
  /\ pc = "pad"
  /\ alpha' = NextCharacter(i)
  /\ rows' = IF i = RowLen - 1 THEN rows + 1 ELSE rows
  /\ i' = i + 1
  /\ pc' = IF i + 1 < RowLen THEN "pad" ELSE "report"
  /\ UNCHANGED <<d, enabled, trim_offset, trim_size, trimming, bytes,
                 repeated>>

Repeated == size - trim_size

Report ==
  /\ pc = "report"
  /\ repeated' = IF trimming THEN Repeated ELSE repeated
  /\ pc' = "done"
  /\ UNCHANGED <<d, enabled, trim_offset, trim_size, trimming, i, bytes,
                 alpha, rows>>

Next == Start \/ Scan \/ ScanEnds \/ Dump \/ DumpEnds \/ Pad \/ Report

Spec == Init /\ [][Next]_vars

-----------------------------------------------------------------------------
(* Properties.                                                             *)

\* The bytes a reader of the log sees, with the zeros that are only counted.
Zeros(n) == [k \in 1..n |-> 0]
Seen == IF repeated = -1 THEN bytes ELSE bytes \o Zeros(repeated)

(***************************************************************************)
(* Nothing is lost by trimming: the bytes shown and the zeros counted are  *)
(* the buffer.                                                             *)
(***************************************************************************)
BufferShown == pc = "done" => Seen = d

(***************************************************************************)
(* Rows are whole: every byte shown is in one, and no row is shown that    *)
(* has no byte.                                                            *)
(***************************************************************************)
RowsWhole ==
  pc = "done" => /\ alpha = 0
                 /\ Len(bytes) <= rows * RowLen
                 /\ Len(bytes) > (rows - 1) * RowLen

(***************************************************************************)
(* "trims off sections of the memory that look empty": no zero byte is at  *)
(* the end of what is shown.                                               *)
(***************************************************************************)
EmptyTrimmed ==
  pc = "done" /\ enabled /\ bytes # <<>> => bytes[Len(bytes)] # 0

=============================================================================
