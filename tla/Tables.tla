------------------------------- MODULE Tables -------------------------------
(***************************************************************************)
(* EaTableInst and the table instructions of easm, as operators: the tests *)
(* of the interpreter (interp.c) and of the helpers that generated code    *)
(* calls (jit_a64_rt.c), and what the instruction then does to the         *)
(* elements.  A table is a record with is64, size, max, has_max and blk,   *)
(* the identity of the elems array.                                        *)
(*                                                                         *)
(* The widths are scaled: N32 stands for 2^32 and M64 for 2^64.  Sums that *)
(* the code forms in a u64 are taken modulo M64; a 32-bit table's operands *)
(* are zero-extended, so they are below N32.                               *)
(***************************************************************************)
EXTENDS Integers, Sequences

CONSTANTS N32, M64

ASSUME TableWidths == N32 \in Nat \ {0} /\ M64 \in Nat /\ 2 * N32 <= M64

Engines == {"interp", "jit"}

U64(x) == x % M64

\* operands an index or length of the table can have
Operands(is64) == IF is64 THEN 0 .. M64 - 1 ELSE 0 .. N32 - 1

NoMax == -1

\* the limit the instance stores for a declared one
StoredMax(max, is64) ==
  IF max # NoMax THEN max ELSE IF is64 THEN M64 - 1 ELSE N32 - 1

----------------------------------------------------------------------------
(* Bounds tests, with the arithmetic the code uses.                        *)

\* table.get, table.set, and the element lookup of call_indirect
AtOK(t, i) == i < t.size

\* table.fill; the helper avoids the sum
FillOK(e, t, d, n) ==
  IF e = "interp" THEN U64(d + n) <= t.size
  ELSE d <= t.size /\ n <= t.size - d

\* table.copy
CopyOK(e, td, ts, d, s, n) == FillOK(e, td, d, n) /\ FillOK(e, ts, s, n)

\* the items table.init takes from a segment of `len' items
SegOK(len, s, n) == U64(s + n) <= len

\* table.init
InitOK(e, t, len, d, s, n) ==
  /\ SegOK(len, s, n)
  /\ IF e = "interp" THEN U64(d + n) <= t.size
     ELSE n <= t.size /\ d <= t.size - n

\* table.grow, the same in both engines
GrowTo(t, delta) == U64(t.size + delta)
CanGrow(t, delta) == GrowTo(t, delta) <= t.max /\ GrowTo(t, delta) <= N32

\* an active element segment
ActiveAtOK(t, off, n) == off < t.size
ActiveOK(t, off, n) == n <= t.size /\ off <= t.size - n

----------------------------------------------------------------------------
(* What an instruction means: its range, in unbounded arithmetic, and the  *)
(* elements it leaves.                                                     *)

InRange(size, d, n) == d + n <= size

\* els with vals stored from index d on
Stored(els, d, vals) ==
  [x \in 1 .. Len(els) |->
     IF x \in d + 1 .. d + Len(vals) THEN vals[x - d] ELSE els[x]]

Repeat(v, n) == [x \in 1 .. n |-> v]

\* n elements from index s on; beyond the array anything is read
Wild == <<-1, -1>>
Slice(els, s, n) ==
  [x \in 1 .. n |-> IF s + x \in 1 .. Len(els) THEN els[s + x] ELSE Wild]
=============================================================================
