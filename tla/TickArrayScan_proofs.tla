------------------------- MODULE TickArrayScan_proofs -------------------------
(***************************************************************************)
(* The scan of the bitmaps is exact, in order, for every bitmap size, number of     *)
(* extensions and tick spacing.                                            *)
(*                                                                         *)
(* The argument: the start index of the bit under the cursor advances by   *)
(* exactly one tick array at every iteration, also from one bitmap and     *)
(* from one loop to the next, and every key pushed is below it.  At every  *)
(* iteration the keys are the initialized arrays below the cursor, so that *)
(* none is missing and none is added when the loops are done.              *)
(***************************************************************************)
EXTENDS TickArrayScan, TLAPS

\* Start index of the bit under the cursor, one tick array past the last bit once
\* the loops are done.
Cursor ==
  CASE loop = "negativeExt" -> NegativeExtStart(offset, bit)
    [] loop = "negative"    -> NegativeStart(bit)
    [] loop = "positive"    -> PositiveStart(bit)
    [] loop = "positiveExt" -> PositiveExtStart(offset, bit)
    [] OTHER                -> PositiveExtStart(ExtSize, 0)

Ordered ==
  /\ KeysAscending
  /\ \A i \in 1..Len(keys) : keys[i] < Cursor

-----------------------------------------------------------------------------
\* The two adjustments for the zero bit amount to one formula, as the code's own
\* comment claims.
LEMMA NegativeExtUniform ==
  ASSUME NEW o \in Nat, NEW b \in Bits
  PROVE  NegativeExtStart(o, b) = -(o + 1) * BitmapTicks - (BitmapSize - b) * TickCount
<1>1. CASE b = 0
  <2>1. NegativeExtStart(o, b) = -(o + 1) * BitmapTicks - 0 * TickCount - BitmapTicks
    BY <1>1 DEF NegativeExtStart
  <2>2. 0 * TickCount = 0 /\ (BitmapSize - b) * TickCount = BitmapTicks
    BY <1>1, TickArrayAssumption DEF BitmapTicks
  <2> DEFINE base == -(o + 1) * BitmapTicks
  <2>3. base \in Int /\ BitmapTicks \in Int
    BY TickArrayAssumption DEF BitmapTicks
  <2>4. NegativeExtStart(o, b) = base - 0 - BitmapTicks
    BY <2>1, <2>2
  <2> HIDE DEF base
  <2>5. base - 0 - BitmapTicks = base - BitmapTicks
    BY <2>3
  <2>6. NegativeExtStart(o, b) = base - (BitmapSize - b) * TickCount
    BY <2>2, <2>4, <2>5
  <2> QED
    BY <2>6 DEF base
<1>2. CASE b # 0
  <2> DEFINE start == -(o + 1) * BitmapTicks - (BitmapSize - b) * TickCount
  <2>1. NegativeExtStart(o, b) = start - 0
    BY <1>2 DEF NegativeExtStart
  <2>2. start \in Int
    BY TickArrayAssumption DEF BitmapTicks, Bits
  <2> HIDE DEF start
  <2>3. NegativeExtStart(o, b) = start
    BY <2>1, <2>2
  <2> QED
    BY <2>3 DEF start
<1> QED
  BY <1>1, <1>2

\* The ticks of a bitmap, get_max_tick_in_tickarray_bitmap.
LEMMA TicksAreInt == BitmapTicks \in Nat /\ BitmapTicks = BitmapSize * TickCount
BY TickArrayAssumption DEF BitmapTicks

\* Multiplication by the ticks of an array distributes over a step of the loops.
LEMMA Distribute ==
  ASSUME NEW m \in Int, NEW n \in Int, NEW k \in Int
  PROVE  (m + n) * k = m * k + n * k /\ (m - n) * k = m * k - n * k
         /\ m * k \in Int /\ (-m) * k = -(m * k)
OBVIOUS

\* The negative extension loop advances by one tick array per bit and joins the
\* next bitmap, and the last one the default bitmap, without a gap.
LEMMA NegativeExtSteps ==
  ASSUME NEW o \in Nat, NEW b \in Bits
  PROVE  /\ NegativeExtStart(o, b) \in Int
         /\ b + 1 \in Bits => NegativeExtStart(o, b + 1) = NegativeExtStart(o, b) + TickCount
         /\ b + 1 \notin Bits /\ o > 0 => NegativeExtStart(o - 1, 0) = NegativeExtStart(o, b) + TickCount
         /\ b + 1 \notin Bits /\ o = 0 => NegativeStart(0) = NegativeExtStart(o, b) + TickCount
<1> USE TickArrayAssumption, TicksAreInt DEF Bits
<1> DEFINE N == BitmapTicks  T == TickCount
<1>1. N \in Int /\ T \in Int /\ b \in Int /\ o \in Int /\ BitmapSize \in Int
  OBVIOUS
<1>2. NegativeExtStart(o, b) = -((o + 1) * N) - (BitmapSize - b) * T
  BY <1>1, NegativeExtUniform, Distribute
<1>3. NegativeExtStart(o, b) \in Int
  BY <1>1, <1>2
<1>4. ASSUME b + 1 \in Bits PROVE NegativeExtStart(o, b + 1) = NegativeExtStart(o, b) + T
  <2>1. NegativeExtStart(o, b + 1) = -((o + 1) * N) - (BitmapSize - (b + 1)) * T
    BY <1>1, <1>4, NegativeExtUniform, Distribute
  <2>2. (BitmapSize - (b + 1)) * T = (BitmapSize - b) * T - T
    BY <1>1
  <2> QED
    BY <1>1, <1>2, <2>1, <2>2
<1>5. ASSUME b + 1 \notin Bits PROVE b = BitmapSize - 1 /\ (BitmapSize - b) * T = T /\ 0 \in Bits
  BY <1>5
<1>6. ASSUME b + 1 \notin Bits, o > 0 PROVE NegativeExtStart(o - 1, 0) = NegativeExtStart(o, b) + T
  <2>1. NegativeExtStart(o - 1, 0) = -(o * N) - BitmapSize * T
    BY <1>1, <1>5, <1>6, NegativeExtUniform
  <2>2. (o + 1) * N = o * N + N
    BY <1>1
  <2> QED
    BY <1>1, <1>2, <1>5, <1>6, <2>1, <2>2
<1>7. ASSUME b + 1 \notin Bits, o = 0 PROVE NegativeStart(0) = NegativeExtStart(o, b) + T
  <2>1. NegativeStart(0) = -(BitmapSize * T)
    BY <1>1 DEF NegativeStart
  <2> QED
    BY <1>1, <1>2, <1>5, <1>7, <2>1
<1> QED
  BY <1>3, <1>4, <1>6, <1>7

\* So do the loops over the default bitmap and over the positive extension.
LEMMA OtherSteps ==
  ASSUME NEW o \in Nat, NEW b \in Bits
  PROVE  /\ NegativeStart(b) \in Int /\ PositiveStart(b) \in Int /\ PositiveExtStart(o, b) \in Int
         /\ b + 1 \in Bits =>
              /\ NegativeStart(b + 1) = NegativeStart(b) + TickCount
              /\ PositiveStart(b + 1) = PositiveStart(b) + TickCount
              /\ PositiveExtStart(o, b + 1) = PositiveExtStart(o, b) + TickCount
         /\ b + 1 \notin Bits =>
              /\ PositiveStart(0) = NegativeStart(b) + TickCount
              /\ PositiveExtStart(0, 0) = PositiveStart(b) + TickCount
              /\ PositiveExtStart(o + 1, 0) = PositiveExtStart(o, b) + TickCount
<1> USE TickArrayAssumption DEF Bits
<1> DEFINE T == TickCount
<1>1. T \in Int /\ b \in Int /\ o \in Int /\ BitmapSize \in Int
  OBVIOUS
<1>2. /\ (b - BitmapSize) * T \in Int /\ b * T \in Int /\ (o + 1) * BitmapTicks \in Int
      /\ (b + 1) * T = b * T + T /\ (b + 1 - BitmapSize) * T = (b - BitmapSize) * T + T
  BY <1>1, TicksAreInt
<1>3. ASSUME b + 1 \in Bits
      PROVE  /\ NegativeStart(b + 1) = NegativeStart(b) + TickCount
             /\ PositiveStart(b + 1) = PositiveStart(b) + TickCount
             /\ PositiveExtStart(o, b + 1) = PositiveExtStart(o, b) + TickCount
  BY <1>1, <1>2 DEF NegativeStart, PositiveStart, PositiveExtStart
<1>4. ASSUME b + 1 \notin Bits
      PROVE  /\ PositiveStart(0) = NegativeStart(b) + TickCount
             /\ PositiveExtStart(0, 0) = PositiveStart(b) + TickCount
             /\ PositiveExtStart(o + 1, 0) = PositiveExtStart(o, b) + TickCount
  <2>1. b = BitmapSize - 1
    BY <1>4
  <2>2. /\ 0 * T = 0 /\ (b - BitmapSize) * T = -T /\ b * T = BitmapTicks - T
        /\ (o + 1 + 1) * BitmapTicks = (o + 1) * BitmapTicks + BitmapTicks
        /\ (0 + 1) * BitmapTicks = BitmapTicks
    BY <2>1, TicksAreInt
  <2> QED
    BY <1>2, <2>2, TicksAreInt DEF NegativeStart, PositiveStart, PositiveExtStart
<1> QED
  BY <1>2, <1>3, <1>4 DEF NegativeStart, PositiveStart, PositiveExtStart

-----------------------------------------------------------------------------
(* Type correctness                                                        *)

\* The first bit of the farthest negative bitmap is inside the bitmaps.
LEMMA InitType == Init => TypeOK
BY TickArrayAssumption DEF Init, TypeOK, Bits

\* The start index under the cursor is an integer.
LEMMA CursorType == TypeOK => Cursor \in Int /\ offset \in Nat /\ bit \in Bits
<1> SUFFICES ASSUME TypeOK PROVE Cursor \in Int /\ offset \in Nat /\ bit \in Bits
  OBVIOUS
<1>1. offset \in Nat /\ bit \in Bits
  BY DEF TypeOK
<1>2. /\ NegativeExtStart(offset, bit) \in Int /\ NegativeStart(bit) \in Int
      /\ PositiveStart(bit) \in Int /\ PositiveExtStart(offset, bit) \in Int
  BY <1>1, NegativeExtSteps, OtherSteps
<1>3. PositiveExtStart(ExtSize, 0) \in Int
  BY TickArrayAssumption, OtherSteps DEF Bits
<1> QED
  BY <1>1, <1>2, <1>3 DEF Cursor, TypeOK

Visit == VisitNegativeExt \/ VisitNegative \/ VisitPositive \/ VisitPositiveExt

\* One iteration: a key is the start index under the cursor, and the cursor
\* advances by one tick array.
LEMMA VisitStep ==
  ASSUME TypeOK, Visit
  PROVE  /\ keys' = keys \/ keys' = Append(keys, Cursor)
         /\ Cursor' = Cursor + TickCount
<1> USE TickArrayAssumption DEF NextBit, EnterBitmap
<1>1. offset \in Nat /\ bit \in Bits /\ bit \in Int /\ 0 \in Bits
  BY CursorType DEF Bits
<1>2. CASE VisitNegativeExt
  <2>1. Cursor = NegativeExtStart(offset, bit)
    BY <1>2 DEF VisitNegativeExt, Cursor
  <2>2. Cursor' = Cursor + TickCount
    BY <1>1, <1>2, <2>1, NegativeExtSteps DEF VisitNegativeExt, Cursor
  <2> QED
    BY <1>2, <2>1, <2>2 DEF VisitNegativeExt, PushIf
<1>3. CASE VisitNegative
  <2>1. Cursor = NegativeStart(bit)
    BY <1>3 DEF VisitNegative, Cursor
  <2>2. Cursor' = Cursor + TickCount
    BY <1>1, <1>3, <2>1, OtherSteps DEF VisitNegative, Cursor
  <2> QED
    BY <1>3, <2>1, <2>2 DEF VisitNegative, PushIf
<1>4. CASE VisitPositive
  <2>1. Cursor = PositiveStart(bit)
    BY <1>4 DEF VisitPositive, Cursor
  <2>2. Cursor' = Cursor + TickCount
    BY <1>1, <1>4, <2>1, OtherSteps DEF VisitPositive, Cursor
  <2> QED
    BY <1>4, <2>1, <2>2 DEF VisitPositive, PushIf
<1>5. CASE VisitPositiveExt
  <2>1. Cursor = PositiveExtStart(offset, bit)
    BY <1>5 DEF VisitPositiveExt, Cursor
  <2>2. Cursor' = Cursor + TickCount
    BY <1>1, <1>5, <2>1, OtherSteps DEF VisitPositiveExt, Cursor
  <2> QED
    BY <1>5, <2>1, <2>2 DEF VisitPositiveExt, PushIf
<1> QED
  BY <1>2, <1>3, <1>4, <1>5 DEF Visit

\* No iteration leaves the bitmaps.
LEMMA NextType == TypeOK /\ [Next]_vars => TypeOK'
<1> SUFFICES ASSUME TypeOK, [Next]_vars PROVE TypeOK'
  OBVIOUS
<1> USE TickArrayAssumption
<1>1. CASE Visit
  <2>1. keys' \in Seq(Int)
    <3> HIDE TickArrayAssumption
    <3>1. keys' = keys \/ keys' = Append(keys, Cursor)
      BY <1>1, VisitStep
    <3>2. keys \in Seq(Int)
      BY DEF TypeOK
    <3>3. Cursor \in Int
      BY CursorType
    <3>4. Append(keys, Cursor) \in Seq(Int)
      BY <3>2, <3>3
    <3> QED
      BY <3>1, <3>2, <3>4
  <2>2. UNCHANGED <<bitmap, negative, positive>>
    BY <1>1 DEF Visit, VisitNegativeExt, VisitNegative, VisitPositive, VisitPositiveExt
  <2>3. bit' \in Bits
    BY <1>1 DEF Visit, VisitNegativeExt, VisitNegative, VisitPositive, VisitPositiveExt,
                NextBit, EnterBitmap, Bits
  <2>4. /\ offset' \in 0..(ExtSize - 1)
        /\ loop' \in {"negativeExt", "negative", "positive", "positiveExt", "done"}
    <3>1. offset \in 0..(ExtSize - 1)
      BY DEF TypeOK
    <3>2. CASE NextBit
      BY <3>1, <3>2 DEF NextBit, TypeOK
    <3>3. CASE ~NextBit
      BY <1>1, <3>1, <3>3 DEF Visit, VisitNegativeExt, VisitNegative, VisitPositive,
                              VisitPositiveExt, EnterBitmap
    <3> QED
      BY <3>2, <3>3
  <2> QED
    BY <2>1, <2>2, <2>3, <2>4 DEF TypeOK
<1>2. CASE UNCHANGED vars
  BY <1>2 DEF vars, TypeOK
<1> QED
  BY <1>1, <1>2 DEF Next, Returned, Visit

\* The loop variables stay inside the bitmaps they index.
THEOREM TypeCorrect == Spec => []TypeOK
<1> QED
  BY InitType, NextType, PTL DEF Spec

-----------------------------------------------------------------------------
(* The order of the keys                                                   *)

\* An iteration keeps the keys ascending and below the cursor.
LEMMA OrderedNext == TypeOK /\ Ordered /\ [Next]_vars => Ordered'
<1> SUFFICES ASSUME TypeOK, Ordered, [Next]_vars PROVE Ordered'
  OBVIOUS
<1>1. CASE UNCHANGED vars
  BY <1>1 DEF vars, Ordered, KeysAscending, Cursor
<1>2. CASE Visit
  <2>1. Cursor \in Int /\ Cursor < Cursor' /\ Cursor' \in Int
    BY <1>2, VisitStep, CursorType, TickArrayAssumption
  <2>2. keys \in Seq(Int) /\ Len(keys) \in Nat /\ \A i \in 1..Len(keys) : keys[i] \in Int
    BY DEF TypeOK
  <2>3. CASE keys' = keys
    BY <2>1, <2>2, <2>3 DEF Ordered, KeysAscending
  <2>4. CASE keys' = Append(keys, Cursor)
    <3>1. /\ Len(keys') = Len(keys) + 1
          /\ keys'[Len(keys) + 1] = Cursor
          /\ \A i \in 1..Len(keys) : keys'[i] = keys[i]
      BY <2>1, <2>2, <2>4
    <3>2. \A i \in 1..Len(keys') : i \in 1..Len(keys) \/ i = Len(keys) + 1
      BY <2>2, <3>1
    <3>3. \A i \in 1..Len(keys) : keys'[i] < Cursor
      BY <3>1 DEF Ordered
    <3>4. \A i \in 1..Len(keys') : keys'[i] < Cursor'
      BY <2>1, <2>2, <3>1, <3>2, <3>3
    <3>5. ASSUME NEW i \in 1..Len(keys'), NEW j \in 1..Len(keys'), i < j
          PROVE  keys'[i] < keys'[j]
      <4>1. i \in 1..Len(keys)
        BY <2>2, <3>1, <3>5
      <4>2. CASE j \in 1..Len(keys)
        BY <3>1, <3>5, <4>1, <4>2 DEF Ordered, KeysAscending
      <4>3. CASE j = Len(keys) + 1
        BY <3>1, <3>3, <4>1, <4>3
      <4> QED
        BY <3>2, <4>2, <4>3
    <3> QED
      BY <3>4, <3>5 DEF Ordered, KeysAscending
  <2> QED
    BY <1>2, <2>3, <2>4, VisitStep
<1> QED
  BY <1>1, <1>2 DEF Next, Returned, Visit

\* Whatever the bitmaps hold, the start indexes are returned in strictly
\* ascending order, so no array is fetched twice and none out of order.
THEOREM KeysAreAscending == Spec => []KeysAscending
<1>1. Init => Ordered
  BY DEF Init, Ordered, KeysAscending
<1>2. Ordered => KeysAscending
  BY DEF Ordered
<1> QED
  BY <1>1, <1>2, OrderedNext, TypeCorrect, PTL DEF Spec
-----------------------------------------------------------------------------
(* The keys are those of the initialized arrays                            *)

\* Division by the ticks of an array or of a bitmap.
LEMMA Quotient ==
  ASSUME NEW q \in Int, NEW r \in Int, NEW k \in Nat \ {0}, 0 <= r, r < k
  PROVE  (q * k + r) \div k = q /\ (q * k + r) % k = r
OBVIOUS

\* A bitmap covers the ticks of its bits, so that less than all bits fall short of it.
LEMMA BitsFit ==
  ASSUME NEW n \in Int, 0 <= n, n < BitmapSize
  PROVE  /\ n * TickCount \in Int /\ 0 <= n * TickCount /\ n * TickCount < BitmapTicks
         /\ (n * TickCount) \div TickCount = n
         /\ n * TickCount + TickCount <= BitmapTicks
<1> USE TickArrayAssumption
<1>1. /\ BitmapSize * TickCount = n * TickCount + (BitmapSize - n) * TickCount
      /\ 0 <= n * TickCount /\ TickCount <= (BitmapSize - n) * TickCount
  OBVIOUS
<1>2. n * TickCount + 0 = n * TickCount
  OBVIOUS
<1>3. (n * TickCount) \div TickCount = n
  BY <1>2, Quotient
<1> QED
  BY <1>1, <1>3, TicksAreInt

\* The bits of the default bitmap: the chain tests the one the loops test.
LEMMA DefaultBits ==
  ASSUME NEW b \in Bits
  PROVE  /\ Initialized(NegativeStart(b)) <=> b \in bitmap
         /\ Initialized(PositiveStart(b)) <=> b + BitmapSize \in bitmap
<1> USE TickArrayAssumption
<1>1. b \in Int /\ 0 <= b /\ b < BitmapSize /\ BitmapSize - b \in Int
  BY DEF Bits
<1>2. /\ (b - BitmapSize) * TickCount + 0 = (b - BitmapSize) * TickCount
      /\ (b - BitmapSize) * TickCount = b * TickCount - BitmapTicks
  BY <1>1, TicksAreInt
<1>3. NegativeStart(b) \div TickCount = b - BitmapSize /\ InDefault(NegativeStart(b))
  BY <1>1, <1>2, Quotient, BitsFit, TicksAreInt DEF NegativeStart, InDefault
<1>4. PositiveStart(b) \div TickCount = b /\ InDefault(PositiveStart(b))
  BY <1>1, BitsFit, TicksAreInt DEF PositiveStart, InDefault
<1>5. b - BitmapSize + BitmapSize = b
  BY <1>1
<1> QED
  BY <1>3, <1>4, <1>5 DEF Initialized

\* So do the bits of the positive extension.
LEMMA PositiveExtBits ==
  ASSUME NEW o \in Nat, NEW b \in Bits
  PROVE  Initialized(PositiveExtStart(o, b)) <=> b \in positive[o]
<1> USE TickArrayAssumption
<1> DEFINE start == PositiveExtStart(o, b)
           r     == b * TickCount
           N     == BitmapTicks
<1>1. b \in Int /\ 0 <= b /\ b < BitmapSize
  BY DEF Bits
<1>2. /\ start = (o + 1) * N + r /\ r \in Int /\ 0 <= r /\ r < N /\ r \div TickCount = b
      /\ N \in Nat \ {0}
  BY <1>1, BitsFit, TicksAreInt DEF PositiveExtStart
<1>3. start \in Int /\ start >= N
  BY <1>2
<1> HIDE DEF start, r, N
<1>4. start \div N = o + 1 /\ start % N = r
  BY <1>2, Quotient
<1>5. Abs(start) = start /\ ~(start < 0) /\ ~InDefault(start)
  BY <1>2, <1>3 DEF Abs, InDefault, N
<1>6. OffsetInBitmap(start) = b /\ BitmapOffset(start) = o
  BY <1>1, <1>2, <1>4, <1>5 DEF OffsetInBitmap, BitmapOffset, N
<1> QED
  BY <1>5, <1>6 DEF Initialized, start

\* And of the negative extension, where bit 0 names the farthest array of its bitmap,
\* which is the first tick below the next bitmap.
LEMMA NegativeExtBits ==
  ASSUME NEW o \in Nat, NEW b \in Bits
  PROVE  Initialized(NegativeExtStart(o, b)) <=> b \in negative[o]
<1> USE TickArrayAssumption
<1> DEFINE start == NegativeExtStart(o, b)
           r     == (BitmapSize - b) * TickCount
           N     == BitmapTicks
<1>1. b \in Int /\ 0 <= b /\ b < BitmapSize /\ N \in Nat \ {0}
  BY TicksAreInt DEF Bits
<1>2. start = -((o + 1) * N) - r /\ r \in Int
  BY <1>1, NegativeExtUniform, Distribute
<1>3. r >= TickCount /\ (o + 1) * N >= N
  BY <1>1
<1>4. start \in Int /\ start < -N /\ -start = (o + 1) * N + r
  BY <1>1, <1>2, <1>3
<1>5. CASE b = 0
  <2>1. r = N /\ (o + 1) * N + N = (o + 2) * N + 0
    BY <1>1, <1>5, TicksAreInt
  <2>2. 0 \div TickCount = 0
    OBVIOUS
  <2> HIDE DEF start, r, N
  <2>3. ASSUME NEW z \in Int, z = 0
        PROVE  (-start) \div N = o + 2 /\ (-start) % N = z
    <3>1. -start = (o + 2) * N + z /\ o + 2 \in Int /\ 0 <= z /\ z < N
      BY <1>1, <1>4, <2>1, <2>3
    <3>2. ((o + 2) * N + z) \div N = o + 2 /\ ((o + 2) * N + z) % N = z
      BY <1>1, <3>1, Quotient
    <3> QED
      BY <3>1, <3>2
  <2>4. Abs(start) = -start /\ start < 0 /\ ~InDefault(start)
    BY <1>1, <1>4 DEF Abs, InDefault, N
  <2>5. OffsetInBitmap(start) = 0 /\ BitmapOffset(start) = o
    BY <2>2, <2>3, <2>4 DEF OffsetInBitmap, BitmapOffset, N
  <2> QED
    BY <1>5, <2>4, <2>5 DEF Initialized, start
<1>6. CASE b # 0
  <2>1. 0 <= r /\ r < N /\ r # 0 /\ r \div TickCount = BitmapSize - b
    BY <1>1, <1>3, <1>6, BitsFit
  <2> HIDE DEF start, r, N
  <2>2. (-start) \div N = o + 1 /\ (-start) % N = r
    <3>1. o + 1 \in Int /\ r \in Int /\ N \in Nat \ {0}
      BY <1>1, <1>2
    <3>2. ((o + 1) * N + r) \div N = o + 1 /\ ((o + 1) * N + r) % N = r
      BY <2>1, <3>1, Quotient
    <3> QED
      BY <1>4, <3>2
  <2>3. Abs(start) = -start /\ start < 0 /\ ~InDefault(start)
    BY <1>1, <1>4 DEF Abs, InDefault, N
  <2>4. OffsetInBitmap(start) = b /\ BitmapOffset(start) = o
    BY <1>1, <2>1, <2>2, <2>3 DEF OffsetInBitmap, BitmapOffset, N
  <2> QED
    BY <2>3, <2>4 DEF Initialized, start
<1> QED
  BY <1>5, <1>6
\* The number of the array under the cursor; the loops take them one by one.
Reached ==
  CASE loop = "negativeExt" -> -((offset + 1) * BitmapSize) - (BitmapSize - bit)
    [] loop = "negative"    -> bit - BitmapSize
    [] loop = "positive"    -> bit
    [] loop = "positiveExt" -> (offset + 1) * BitmapSize + bit
    [] OTHER                -> (ExtSize + 1) * BitmapSize

\* Arrays on one side of tick 0.
Side == (ExtSize + 1) * BitmapSize

\* The keys are those of the initialized arrays below the cursor.
ExactSoFar == Range(keys) = {s \in StartIndexes : s < Cursor /\ Initialized(s)}

\* The cursor names an array that can exist until the loops are done, and then the one
\* past the last of them.
LEMMA CursorReached ==
  ASSUME TypeOK
  PROVE  /\ Cursor = Reached * TickCount /\ Side \in Nat
         /\ loop = "done" => Reached = Side
         /\ loop # "done" => Reached \in -Side..(Side - 1)
<1> USE TickArrayAssumption
<1>1. /\ bit \in Int /\ 0 <= bit /\ bit < BitmapSize /\ BitmapSize \in Nat \ {0} /\ Side \in Nat
      /\ offset \in Nat /\ offset + 1 <= ExtSize /\ Side = ExtSize * BitmapSize + BitmapSize
  BY DEF TypeOK, Bits, Side
<1>2. /\ (offset + 1) * BitmapSize \in Nat /\ (offset + 1) * BitmapSize <= ExtSize * BitmapSize
      /\ ExtSize * BitmapSize \in Nat /\ BitmapSize <= ExtSize * BitmapSize
      /\ BitmapSize <= (offset + 1) * BitmapSize
  BY <1>1
<1>3. \A n \in Int : (n + 1) * BitmapSize * TickCount = (n + 1) * BitmapTicks
  BY TicksAreInt
<1>4. CASE loop = "negativeExt"
  <2>1. Cursor = -((offset + 1) * BitmapTicks) - (BitmapSize - bit) * TickCount
    BY <1>1, <1>4, NegativeExtUniform, Distribute, TicksAreInt DEF Cursor, Bits
  <2>2. Reached = -((offset + 1) * BitmapSize) - (BitmapSize - bit)
    BY <1>4 DEF Reached
  <2> DEFINE m == (offset + 1) * BitmapSize
             n == BitmapSize - bit
  <2>3. m * TickCount = (offset + 1) * BitmapTicks /\ m \in Int /\ n \in Int
    BY <1>1, <1>2, <1>3
  <2>4. Reached \in -Side..(Side - 1)
    BY <1>1, <1>2, <2>2
  <2> HIDE DEF m, n
  <2>5. (-m - n) * TickCount = -(m * TickCount) - n * TickCount
    BY <2>3
  <2> QED
    BY <1>4, <2>1, <2>2, <2>3, <2>4, <2>5, <1>1 DEF m, n
<1>5. CASE loop = "negative"
  BY <1>1, <1>2, <1>5 DEF Cursor, Reached, NegativeStart
<1>6. CASE loop = "positive"
  BY <1>1, <1>2, <1>6 DEF Cursor, Reached, PositiveStart
<1>7. CASE loop = "positiveExt"
  <2> DEFINE m == (offset + 1) * BitmapSize
  <2>1. Cursor = (offset + 1) * BitmapTicks + bit * TickCount /\ Reached = m + bit
    BY <1>7 DEF Cursor, Reached, PositiveExtStart
  <2>2. m * TickCount = (offset + 1) * BitmapTicks /\ m \in Int
    BY <1>1, <1>2, <1>3
  <2>3. Reached \in -Side..(Side - 1)
    BY <1>1, <1>2, <2>1
  <2> HIDE DEF m
  <2>4. (m + bit) * TickCount = m * TickCount + bit * TickCount
    BY <1>1, <2>2
  <2> QED
    BY <1>1, <1>7, <2>1, <2>2, <2>3, <2>4
<1>8. CASE loop = "done"
  <2>1. Cursor = (ExtSize + 1) * BitmapTicks + 0 * TickCount /\ Reached = Side
    BY <1>8 DEF Cursor, Reached, PositiveExtStart, Side
  <2>2. Side * TickCount = (ExtSize + 1) * BitmapTicks /\ 0 * TickCount = 0
    BY <1>3 DEF Side
  <2> QED
    BY <1>1, <1>8, <2>1, <2>2, TicksAreInt
<1> QED
  BY <1>4, <1>5, <1>6, <1>7, <1>8 DEF TypeOK

\* A start index is a multiple of TickCount.
LEMMA StartIndexIs ==
  ASSUME NEW s \in StartIndexes
  PROVE  \E m \in -Side..(Side - 1) : s = m * TickCount
BY DEF StartIndexes, Side

\* Arrays are a multiple of TickCount apart: below the next one lie those below this one,
\* and this one.
LEMMA BelowNext ==
  ASSUME NEW n \in -Side..(Side - 1), NEW c, c = n * TickCount
  PROVE  /\ c \in StartIndexes /\ ~(c < c) /\ c < c + TickCount
         /\ \A s \in StartIndexes : s < c + TickCount <=> s < c \/ s = c
<1> USE TickArrayAssumption
<1>1. Side \in Nat /\ n \in Int /\ c \in Int
  BY DEF Side
<1>2. c \in StartIndexes
  BY DEF StartIndexes, Side
<1>3. ASSUME NEW s \in StartIndexes PROVE s < c + TickCount <=> s < c \/ s = c
  <2>1. PICK m \in -Side..(Side - 1) : s = m * TickCount
    BY StartIndexIs
  <2>2. CASE m <= n
    BY <1>1, <2>1, <2>2
  <2>3. CASE m >= n + 1
    <3>1. m * TickCount >= (n + 1) * TickCount /\ (n + 1) * TickCount = c + TickCount
      BY <1>1, <2>3
    <3> QED
      BY <1>1, <2>1, <3>1
  <2> QED
    BY <1>1, <2>2, <2>3
<1> QED
  BY <1>1, <1>2, <1>3

\* An iteration pushes the array under the cursor if the chain has initialized it.
LEMMA VisitPushes ==
  ASSUME TypeOK, Visit
  PROVE  /\ loop # "done"
         /\ keys' = IF Initialized(Cursor) THEN Append(keys, Cursor) ELSE keys
<1>1. offset \in Nat /\ bit \in Bits
  BY CursorType
<1>2. CASE VisitNegativeExt
  BY <1>1, <1>2, NegativeExtBits DEF VisitNegativeExt, PushIf, Cursor
<1>3. CASE VisitNegative
  BY <1>1, <1>3, DefaultBits DEF VisitNegative, PushIf, Cursor
<1>4. CASE VisitPositive
  BY <1>1, <1>4, DefaultBits DEF VisitPositive, PushIf, Cursor
<1>5. CASE VisitPositiveExt
  BY <1>1, <1>5, PositiveExtBits DEF VisitPositiveExt, PushIf, Cursor
<1> QED
  BY <1>2, <1>3, <1>4, <1>5 DEF Visit

\* A push adds its key to the keys.
LEMMA PushRange ==
  ASSUME NEW s \in Seq(Int), NEW k \in Int
  PROVE  Range(Append(s, k)) = Range(s) \cup {k}
<1>1. /\ Len(Append(s, k)) = Len(s) + 1 /\ Len(s) \in Nat
      /\ Append(s, k)[Len(s) + 1] = k
      /\ \A i \in 1..Len(s) : Append(s, k)[i] = s[i]
      /\ DOMAIN s = 1..Len(s) /\ DOMAIN Append(s, k) = 1..Len(Append(s, k))
  OBVIOUS
<1>2. 1..(Len(s) + 1) = (1..Len(s)) \cup {Len(s) + 1}
  BY <1>1
<1> QED
  BY <1>1, <1>2 DEF Range

\* Nothing lies below the first array.
LEMMA ExactInit == Init => ExactSoFar
<1> SUFFICES ASSUME Init PROVE ExactSoFar
  OBVIOUS
<1> USE TickArrayAssumption
<1>1. TypeOK /\ loop = "negativeExt" /\ offset = ExtSize - 1 /\ bit = 0 /\ keys = <<>>
  BY InitType DEF Init
<1>2. Reached = -Side /\ Side \in Nat
  <2>1. (ExtSize - 1) + 1 = ExtSize
    OBVIOUS
  <2>2. Reached = -ExtSize * BitmapSize - BitmapSize
    BY <1>1, <2>1 DEF Reached
  <2>3. ExtSize * BitmapSize \in Nat /\ Side = ExtSize * BitmapSize + BitmapSize
    BY DEF Side
  <2> QED
    BY <2>2, <2>3
<1>3. ASSUME NEW s \in StartIndexes PROVE ~(s < Cursor)
  <2>1. PICK n \in -Side..(Side - 1) : s = n * TickCount
    BY StartIndexIs
  <2>2. n * TickCount >= (-Side) * TickCount /\ Cursor = (-Side) * TickCount
    BY <1>1, <1>2, <2>1, CursorReached
  <2> QED
    BY <1>2, <2>1, <2>2
<1>4. Range(keys) = {}
  BY <1>1 DEF Range
<1> QED
  BY <1>3, <1>4 DEF ExactSoFar

\* An iteration settles the array under the cursor and no other.
LEMMA ExactNext == TypeOK /\ ExactSoFar /\ [Next]_vars => ExactSoFar'
<1> SUFFICES ASSUME TypeOK, ExactSoFar, [Next]_vars PROVE ExactSoFar'
  OBVIOUS
<1>1. CASE UNCHANGED vars
  BY <1>1 DEF vars, ExactSoFar, Cursor, Initialized
<1>2. CASE Visit
  <2>1. UNCHANGED <<bitmap, negative, positive>>
    BY <1>2 DEF Visit, VisitNegativeExt, VisitNegative, VisitPositive, VisitPositiveExt
  <2>2. \A s : Initialized(s)' <=> Initialized(s)
    BY <2>1 DEF Initialized
  <2>3. keys \in Seq(Int) /\ Cursor \in Int
    BY CursorType DEF TypeOK
  <2>4. /\ Cursor \in StartIndexes /\ ~(Cursor < Cursor) /\ Cursor < Cursor + TickCount
        /\ \A s \in StartIndexes : s < Cursor + TickCount <=> s < Cursor \/ s = Cursor
    BY <1>2, VisitPushes, CursorReached, BelowNext
  <2>5. Cursor' = Cursor + TickCount
    BY <1>2, VisitStep
  <2>6. Range(keys') = Range(keys) \cup {s \in {Cursor} : Initialized(s)}
    <3>1. Range(Append(keys, Cursor)) = Range(keys) \cup {Cursor}
      BY <2>3, PushRange
    <3>2. keys' = IF Initialized(Cursor) THEN Append(keys, Cursor) ELSE keys
      BY <1>2, VisitPushes
    <3>3. CASE Initialized(Cursor)
      BY <3>1, <3>2, <3>3
    <3>4. CASE ~Initialized(Cursor)
      BY <3>2, <3>4
    <3> QED
      BY <3>3, <3>4
  <2>7. {s \in StartIndexes : s < Cursor' /\ Initialized(s)}
          = {s \in StartIndexes : s < Cursor /\ Initialized(s)} \cup {s \in {Cursor} : Initialized(s)}
    BY <2>4, <2>5
  <2>8. Range(keys') = {s \in StartIndexes : s < Cursor' /\ Initialized(s)'}
    BY <2>2, <2>6, <2>7 DEF ExactSoFar
  <2> QED
    BY <2>8 DEF ExactSoFar, StartIndexes
<1> QED
  BY <1>1, <1>2 DEF Next, Returned, Visit

\* All arrays lie below the place where the loops end.
LEMMA ExactAtTheEnd == TypeOK /\ ExactSoFar => KeysExact
<1> SUFFICES ASSUME TypeOK, ExactSoFar, loop = "done", NEW s \in StartIndexes PROVE s < Cursor
  BY DEF ExactSoFar, KeysExact
<1> USE TickArrayAssumption
<1>1. Cursor = Side * TickCount /\ Side \in Nat
  BY CursorReached
<1>2. PICK n \in -Side..(Side - 1) : s = n * TickCount
  BY StartIndexIs
<1>3. n * TickCount <= (Side - 1) * TickCount /\ (Side - 1) * TickCount < Side * TickCount
  BY <1>1, <1>2
<1> QED
  BY <1>1, <1>2, <1>3

\* For every size of the bitmaps, number of extensions and tick spacing, the keys are
\* those of exactly the arrays the chain has initialized: the code's four formulas
\* undo the chain's, the zero bit of a negative bitmap included.
THEOREM KeysAreExact == Spec => []KeysExact
<1> QED
  BY ExactInit, ExactNext, ExactAtTheEnd, TypeCorrect, PTL DEF Spec
===============================================================================
