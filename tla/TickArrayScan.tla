----------------------------- MODULE TickArrayScan -----------------------------
(***************************************************************************)
(* PoolInfo::calculate_all_tick_array_keys: from a pool's default bitmap   *)
(* and its two bitmap extensions to the start indexes of the tick arrays   *)
(* that exist on chain, one iteration of its four loops per step.          *)
(*                                                                         *)
(* A tick array covers TickCount ticks and is named by its first one.  The *)
(* default bitmap has a bit for each of the BitmapSize arrays on either    *)
(* side of tick 0; each extension continues on its side with ExtSize       *)
(* bitmaps of BitmapSize bits.  The PDA of a start index is an injective   *)
(* hash of it, so the start indexes stand for the keys.                    *)
(***************************************************************************)
EXTENDS Integers, Sequences, Functions

CONSTANTS
  BitmapSize,  \* TICK_ARRAY_BITMAP_SIZE, 512
  ExtSize,     \* EXTENSION_TICKARRAY_BITMAP_SIZE, 14
  TickCount    \* get_tick_count_in_tick_array, 60 * tick_spacing

ASSUME TickArrayAssumption ==
  /\ BitmapSize \in Nat \ {0} /\ ExtSize \in Nat \ {0} /\ TickCount \in Nat \ {0}

VARIABLES
  bitmap,   \* bits set in tick_array_bitmap, the negative side in its lower half
  negative, \* bits set in each negative extension bitmap, the nearest first
  positive, \* bits set in each positive extension bitmap, the nearest first
  loop,     \* which loop is running
  offset,   \* extension bitmap of that loop, 0 in the loops over the default bitmap
  bit,      \* bit of that bitmap
  keys      \* start indexes pushed so far

vars == <<bitmap, negative, positive, loop, offset, bit, keys>>

Bits       == 0..(BitmapSize - 1)
Extensions == [0..(ExtSize - 1) -> SUBSET Bits]
BitmapTicks == BitmapSize * TickCount  \* get_max_tick_in_tickarray_bitmap

-----------------------------------------------------------------------------
(* Start index of a set bit, as each loop computes it                      *)

NegativeExtStartUncorrected(o, b) ==  \* mutant: bit 0 is not moved one bitmap down
  -(o + 1) * BitmapTicks - (IF b = 0 THEN 0 ELSE BitmapSize - b) * TickCount

NegativeExtStart(o, b) ==
  LET base == -(o + 1) * BitmapTicks
      real == IF b = 0 THEN 0 ELSE BitmapSize - b
  IN  base - real * TickCount - (IF b = 0 THEN BitmapTicks ELSE 0)

NegativeStartMirrored(b) == -(b + 1) * TickCount  \* mutant: bit 0 is taken as the nearest array
NegativeStart(b) == (b - BitmapSize) * TickCount

PositiveStart(b) == b * TickCount

PositiveExtStart(o, b) == (o + 1) * BitmapTicks + b * TickCount

-----------------------------------------------------------------------------
Init ==
  /\ bitmap \in SUBSET (0..(2 * BitmapSize - 1))
  /\ negative \in Extensions /\ positive \in Extensions
  /\ loop = "negativeExt" /\ offset = ExtSize - 1 /\ bit = 0
  /\ keys = <<>>

PushIf(set, start) == keys' = IF set THEN Append(keys, start) ELSE keys

NextBitPastEnd ==  \* mutant: the inner loop runs over 0..=TICK_ARRAY_BITMAP_SIZE
  /\ bit < BitmapSize
  /\ bit' = bit + 1 /\ UNCHANGED <<loop, offset>>

\* Inner loop: the next bit of the same bitmap.
NextBit ==
  /\ bit + 1 \in Bits
  /\ bit' = bit + 1 /\ UNCHANGED <<loop, offset>>

\* Outer loop: bit 0 of bitmap o of loop l.
EnterBitmap(l, o) ==
  /\ bit + 1 \notin Bits
  /\ bit' = 0 /\ loop' = l /\ offset' = o

VisitNegativeExt ==
  /\ loop = "negativeExt"
  /\ PushIf(bit \in negative[offset], NegativeExtStart(offset, bit))
  /\ \/ NextBit
     \/ offset > 0 /\ EnterBitmap("negativeExt", offset - 1)
     \/ offset = 0 /\ EnterBitmap("negative", 0)
  /\ UNCHANGED <<bitmap, negative, positive>>

VisitNegative ==
  /\ loop = "negative"
  /\ PushIf(bit \in bitmap, NegativeStart(bit))
  /\ NextBit \/ EnterBitmap("positive", 0)
  /\ UNCHANGED <<bitmap, negative, positive>>

VisitPositive ==
  /\ loop = "positive"
  /\ PushIf(bit + BitmapSize \in bitmap, PositiveStart(bit))
  /\ NextBit \/ EnterBitmap("positiveExt", 0)
  /\ UNCHANGED <<bitmap, negative, positive>>

VisitPositiveExt ==
  /\ loop = "positiveExt"
  /\ PushIf(bit \in positive[offset], PositiveExtStart(offset, bit))
  /\ \/ NextBit
     \/ offset + 1 < ExtSize /\ EnterBitmap("positiveExt", offset + 1)
     \/ offset + 1 = ExtSize /\ EnterBitmap("done", 0)
  /\ UNCHANGED <<bitmap, negative, positive>>

Returned == loop = "done" /\ UNCHANGED vars

Next ==
  \/ VisitNegativeExt \/ VisitNegative \/ VisitPositive \/ VisitPositiveExt
  \/ Returned

Spec == Init /\ [][Next]_vars

-----------------------------------------------------------------------------
(* What the chain means by a bit (library raydium_amm_v3)                  *)

Abs(n) == IF n < 0 THEN -n ELSE n

\* Bit of a start index inside its extension bitmap.
OffsetInBitmap(start) ==
  LET n == (Abs(start) % BitmapTicks) \div TickCount
  IN  IF start < 0 /\ Abs(start) % BitmapTicks # 0 THEN BitmapSize - n ELSE n

\* Extension bitmap of a start index.
BitmapOffset(start) ==
  LET n == Abs(start) \div BitmapTicks - 1
  IN  IF start < 0 /\ Abs(start) % BitmapTicks = 0 THEN n - 1 ELSE n

InDefault(start) == -BitmapTicks <= start /\ start < BitmapTicks

Initialized(start) ==
  IF InDefault(start) THEN start \div TickCount + BitmapSize \in bitmap
  ELSE OffsetInBitmap(start) \in (IF start < 0 THEN negative ELSE positive)[BitmapOffset(start)]

StartIndexes == {n * TickCount : n \in -((ExtSize + 1) * BitmapSize)..((ExtSize + 1) * BitmapSize - 1)}

-----------------------------------------------------------------------------
(* Properties                                                              *)

TypeOK ==
  /\ bitmap \subseteq 0..(2 * BitmapSize - 1)
  /\ negative \in Extensions /\ positive \in Extensions
  /\ loop \in {"negativeExt", "negative", "positive", "positiveExt", "done"}
  /\ offset \in 0..(ExtSize - 1)
  /\ bit \in Bits
  /\ keys \in Seq(Int)

\* The keys come in strictly ascending order of start index across the four
\* loops: get_tick_array_dequeue and generate_tick_liquidity_info walk the fetched
\* arrays in this order and never sort them.
KeysAscending == \A i, j \in 1..Len(keys) : i < j => keys[i] < keys[j]

\* The keys returned are those of exactly the arrays the chain has initialized: the
\* code inverts the chain's offset formulas, the zero bit of a negative bitmap included.
KeysExact == loop = "done" => Range(keys) = {s \in StartIndexes : Initialized(s)}
=============================================================================
