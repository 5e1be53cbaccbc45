------------------------- MODULE TickLiquidity_proofs -------------------------
(***************************************************************************)
(* What a liquidity listing guarantees for every size of tick arrays,      *)
(* every set of positions and every number of transactions between its     *)
(* reads: it never aborts, lists ticks in order, and unless an array       *)
(* became initialized between its reads the list is the chart of the       *)
(* positions that were open when the arrays were read.                     *)
(*                                                                         *)
(* The argument: after every tick visited, cur is the liquidity the        *)
(* positions have there and out the part of the chart up to there; between *)
(* two listed arrays no position begins or ends.                           *)
(***************************************************************************)
EXTENDS TickLiquidity, FiniteSetLemmas

-----------------------------------------------------------------------------
(* Sums of positions                                                       *)

Weight == [p \in Positions |-> p.liquidity]

\* Positions have positive liquidity, and are finitely many.
LEMMA WeightIs ==
  /\ IsFiniteSet(Positions)
  /\ \A p \in Positions : Weight[p] = p.liquidity /\ Weight[p] \in Nat \ {0}
  /\ \A p \in Positions : p.lower \in Int /\ p.upper \in Int /\ p.lower < p.upper
BY TickLiquidityAssumption DEF Weight

\* The sum of the module is the one the lemmas are about.
LEMMA SumIsTotal ==
  ASSUME NEW ps \in SUBSET Positions
  PROVE  Sum(ps) = Total(Weight, ps)
<1> DEFINE P(f) == f = [s \in SUBSET ps |-> IF s = {} THEN 0
                          ELSE LET x == CHOOSE x \in s : TRUE IN x.liquidity + f[s \ {x}]]
           g == CHOOSE f : P(f)
<1>1. Sum(ps) = g[ps]
  BY DEF Sum, MapThenSumSet, MapThenFoldSet
<1>2. ASSUME NEW f PROVE P(f) <=> Adds(Weight, f, ps)
  <2>1. ASSUME NEW s \in SUBSET ps, s # {}
        PROVE  Weight[Some(s)] = Some(s).liquidity
    BY <2>1, SomeIsIn, WeightIs
  <2>2. [s \in SUBSET ps |-> IF s = {} THEN 0
           ELSE LET x == CHOOSE x \in s : TRUE IN x.liquidity + f[s \ {x}]]
        = [s \in SUBSET ps |-> IF s = {} THEN 0
           ELSE LET x == CHOOSE x \in s : TRUE IN Weight[x] + f[s \ {x}]]
    BY <2>1 DEF Some
  <2> QED
    BY <2>2 DEF Adds
<1>3. IsFiniteSet(ps) /\ Adds(Weight, Adder(Weight, ps), ps)
  BY FS_Subset, WeightIs, AdderAdds
<1>4. P(Adder(Weight, ps))
  BY <1>2, <1>3
<1>5. Adds(Weight, g, ps)
  <2> HIDE DEF P
  <2>1. P(g)
    BY <1>4
  <2> QED
    BY <1>2, <2>1
<1>6. g[ps] = Adder(Weight, ps)[ps]
  <2> HIDE DEF g
  <2> QED
    BY <1>3, <1>5, AddersAgree
<1> QED
  BY <1>1, <1>6, SumIsAdder

\* Every sum of positions is a natural number that fits a u128.
LEMMA SumFits ==
  ASSUME NEW ps \in SUBSET Positions
  PROVE  Sum(ps) \in 0..(Word - 1)
<1>1. Total(Weight, ps) \in Nat /\ Total(Weight, Positions) \in Nat
      /\ Total(Weight, ps) <= Total(Weight, Positions)
  BY WeightIs, SumGrows
<1>2. Sum(Positions) < Word /\ Word \in Nat
  BY TickLiquidityAssumption DEF Sum
<1> QED
  BY <1>1, <1>2, SumIsTotal

\* Sums of positions that have none in common add up.
LEMMA SumOfBoth ==
  ASSUME NEW ps \in SUBSET Positions, NEW qs \in SUBSET Positions, ps \cap qs = {}
  PROVE  Sum(ps \cup qs) = Sum(ps) + Sum(qs)
<1>1. IsFiniteSet(ps) /\ IsFiniteSet(qs) /\ \A p \in ps \cup qs : Weight[p] \in Int
  BY WeightIs, FS_Subset
<1>2. Total(Weight, ps \cup qs) = Total(Weight, ps) + Total(Weight, qs)
  BY <1>1, SumUnion
<1> QED
  BY <1>2, SumIsTotal

\* No positions, no liquidity.
LEMMA SumOfNone == Sum({}) = 0
BY SumIsTotal, SumNone

-----------------------------------------------------------------------------
(* Liquidity from one tick to the next                                     *)

Ends(ps) == {p.lower : p \in ps} \cup {p.upper : p \in ps}

\* liquidity_net is what the liquidity changes by.
LEMMA NetIsChange ==
  ASSUME NEW ps \in SUBSET Positions, NEW t \in Int
  PROVE  LiquidityAt(ps, t) = LiquidityAt(ps, t - 1) + Net(ps, t)
<1> DEFINE here   == {p \in ps : p.lower <= t /\ t < p.upper}
           before == {p \in ps : p.lower <= t - 1 /\ t - 1 < p.upper}
           both   == {p \in ps : p.lower <= t - 1 /\ t < p.upper}
           begin  == {p \in ps : p.lower = t}
           end    == {p \in ps : p.upper = t}
<1>1. ASSUME NEW p \in ps PROVE p.lower \in Int /\ p.upper \in Int /\ p.lower < p.upper
  BY WeightIs
<1>2. here = both \cup begin /\ both \cap begin = {}
  BY <1>1
<1>3. before = both \cup end /\ both \cap end = {}
  BY <1>1
<1>4. {here, before, both, begin, end} \subseteq SUBSET Positions
  OBVIOUS
<1>5. Sum(here) = Sum(both) + Sum(begin) /\ Sum(before) = Sum(both) + Sum(end)
  <2> HIDE DEF here, before, both, begin, end
  <2> QED
    BY <1>2, <1>3, <1>4, SumOfBoth
<1>6. Sum(both) \in Int /\ Sum(begin) \in Int /\ Sum(end) \in Int
  <2> HIDE DEF here, before, both, begin, end
  <2> QED
    BY <1>4, SumFits, TickLiquidityAssumption
<1>7. /\ LiquidityAt(ps, t) = Sum(here) /\ LiquidityAt(ps, t - 1) = Sum(before)
      /\ Net(ps, t) = Sum(begin) - Sum(end)
  BY DEF LiquidityAt, Net
<1> HIDE DEF here, before, both, begin, end
<1> QED
  BY <1>5, <1>6, <1>7

\* The liquidity at a tick is a u128.
LEMMA LiquidityFits ==
  ASSUME NEW ps \in SUBSET Positions, NEW t \in Int
  PROVE  LiquidityAt(ps, t) \in 0..(Word - 1) /\ LiquidityAt(ps, t) \in Int
BY SumFits, TickLiquidityAssumption DEF LiquidityAt

\* It is the same at two ticks when nothing begins or ends after the one and up to
\* the other.
LEMMA NoEndsNoChange ==
  ASSUME NEW ps \in SUBSET Positions, NEW a \in Int, NEW b \in Int, a <= b,
         \A e \in Ends(ps) : ~(a < e /\ e <= b)
  PROVE  LiquidityAt(ps, a) = LiquidityAt(ps, b)
<1>1. ASSUME NEW p \in ps PROVE (p.lower <= a /\ a < p.upper) <=> (p.lower <= b /\ b < p.upper)
  BY WeightIs DEF Ends
<1>2. {p \in ps : p.lower <= a /\ a < p.upper} = {p \in ps : p.lower <= b /\ b < p.upper}
  BY <1>1
<1> QED
  BY <1>2 DEF LiquidityAt

\* Where nothing has begun yet there is no liquidity.
LEMMA NothingBefore ==
  ASSUME NEW ps \in SUBSET Positions, NEW a \in Int, \A e \in Ends(ps) : a < e
  PROVE  LiquidityAt(ps, a) = 0
<1>1. {p \in ps : p.lower <= a /\ a < p.upper} = {}
  BY WeightIs DEF Ends
<1> QED
  BY <1>1, SumOfNone DEF LiquidityAt

-----------------------------------------------------------------------------
(* Tick arrays                                                             *)

\* A tick lies in the array that starts at its start index, which counts arrays.
LEMMA ArrayStartIs ==
  ASSUME NEW t \in Int
  PROVE  /\ ArrayStart(t) \in Int /\ t \div TickCount \in Int
         /\ ArrayStart(t) <= t /\ t < ArrayStart(t) + TickCount
BY TickLiquidityAssumption DEF ArrayStart

\* Two arrays that start at different ticks do not overlap.
LEMMA ArraysApart ==
  ASSUME NEW a \in Int, NEW b \in Int, ArrayStart(a) < ArrayStart(b)
  PROVE  ArrayStart(a) + TickCount <= ArrayStart(b)
<1> DEFINE m == a \div TickCount
           n == b \div TickCount
<1>1. m \in Int /\ n \in Int /\ TickCount \in Nat \ {0}
  BY ArrayStartIs, TickLiquidityAssumption
<1>2. m * TickCount < n * TickCount
  BY DEF ArrayStart
<1> HIDE DEF m, n
<1>3. m < n
  BY <1>1, <1>2
<1>4. (n - m) * TickCount >= TickCount
  BY <1>1, <1>3
<1>5. m * TickCount + TickCount <= n * TickCount
  BY <1>1, <1>4
<1> QED
  BY <1>5 DEF ArrayStart, m, n

\* The flagged arrays are those of the ticks where a position begins or ends.
LEMMA BitsAreOfEnds ==
  ASSUME NEW ps
  PROVE  Bits(ps) = {ArrayStart(e) : e \in Ends(ps)}
BY DEF Bits, Ends

\* Positions begin and end at ticks, and only finitely many arrays can be flagged.
LEMMA EndsAreInt ==
  /\ \A ps \in SUBSET Positions : Ends(ps) \subseteq Int /\ Bits(ps) \subseteq Bits(Positions)
  /\ Bits(Positions) \subseteq Int /\ IsFiniteSet(Bits(Positions))
<1> DEFINE low  == [p \in Positions |-> ArrayStart(p.lower)]
           high == [p \in Positions |-> ArrayStart(p.upper)]
<1>1. IsFiniteSet({ArrayStart(p.lower) : p \in Positions}) /\ IsFiniteSet({ArrayStart(p.upper) : p \in Positions})
  <2>1. IsFiniteSet({low[p] : p \in Positions}) /\ IsFiniteSet({high[p] : p \in Positions})
    <3> HIDE DEF low, high
    <3> QED
      BY WeightIs, ImageIsFinite
  <2> QED
    BY <2>1
<1>2. IsFiniteSet(Bits(Positions))
  BY <1>1, FS_Union DEF Bits
<1>3. \A ps \in SUBSET Positions : Ends(ps) \subseteq Int
  BY WeightIs DEF Ends
<1>4. Bits(Positions) \subseteq Int
  BY <1>3, BitsAreOfEnds, ArrayStartIs
<1> QED
  BY <1>2, <1>3, <1>4 DEF Bits

-----------------------------------------------------------------------------
(* The chart                                                               *)

Changes(ps) == {t \in Ends(ps) : LiquidityAt(ps, t) # LiquidityAt(ps, t - 1)}

\* The entry of the chart for a change at t.
Entry(ps, t) ==
  [tick |-> IF LiquidityAt(ps, t) # 0 THEN t ELSE t - 1,
   liquidity |-> LiquidityAt(ps, IF LiquidityAt(ps, t) # 0 THEN t ELSE t - 1)]

ChartTo(ps, t) == {Entry(ps, u) : u \in {v \in Changes(ps) : v <= t}}

\* The chart is that of all ticks.
LEMMA ChartIsAll ==
  ASSUME NEW ps, NEW t, \A e \in Ends(ps) : e <= t
  PROVE  Chart(ps) = ChartTo(ps, t)
BY DEF Chart, ChartTo, Changes, Entry, Ends

\* The elements of the shortest sequences.
LEMMA RangeOfFew ==
  /\ Range(<<>>) = {}
  /\ \A x : Range(<<x>>) = {x}
<1>1. ASSUME NEW x PROVE Range(<<x>>) = {x}
  BY DEF Range
<1>2. Range(<<>>) = {}
  BY DEF Range
<1> QED
  BY <1>1, <1>2

\* Crossing a tick lists what the chart has for it.
LEMMA EntriesAreChart ==
  ASSUME NEW ps \in SUBSET Positions, NEW t \in Int
  PROVE  LET new == Entries(t, LiquidityAt(ps, t - 1), LiquidityAt(ps, t))
         IN  /\ new \in Seq([tick : Int, liquidity : 0..(Word - 1)])
             /\ ChartTo(ps, t) = ChartTo(ps, t - 1) \cup Range(new)
<1> DEFINE pre  == LiquidityAt(ps, t - 1)
           post == LiquidityAt(ps, t)
           new  == Entries(t, pre, post)
<1>1. pre \in 0..(Word - 1) /\ post \in 0..(Word - 1) /\ Word \in Nat
  BY LiquidityFits, TickLiquidityAssumption
<1>2. AsU128(pre) = pre /\ AsU128(post) = post
  BY <1>1 DEF AsU128
<1>3. \A u \in Int : u <= t <=> u = t \/ u <= t - 1
  OBVIOUS
<1>4. Changes(ps) \subseteq Int
  BY EndsAreInt DEF Changes
<1>5. CASE pre = post
  <2>1. t \notin Changes(ps)
    BY <1>5 DEF Changes
  <2>2. ChartTo(ps, t) = ChartTo(ps, t - 1)
    BY <1>3, <1>4, <2>1 DEF ChartTo
  <2>3. new = <<>>
    BY <1>5 DEF Entries
  <2> HIDE DEF new
  <2>4. new \in Seq([tick : Int, liquidity : 0..(Word - 1)])
    BY <2>3
  <2>5. Range(new) = {}
    BY <2>3, RangeOfFew
  <2> QED
    BY <2>2, <2>4, <2>5 DEF pre, post, new
<1>6. CASE pre # post
  <2>1. t \in Ends(ps)
    <3> SUFFICES ASSUME t \notin Ends(ps) PROVE FALSE
      OBVIOUS
    <3>1. \A e \in Ends(ps) : ~(t - 1 < e /\ e <= t)
      BY EndsAreInt
    <3> QED
      BY <1>6, <3>1, NoEndsNoChange
  <2>2. t \in Changes(ps)
    BY <1>6, <2>1 DEF Changes
  <2>3. ChartTo(ps, t) = ChartTo(ps, t - 1) \cup {Entry(ps, t)}
    BY <1>3, <1>4, <2>2 DEF ChartTo
  <2>4. new = <<Entry(ps, t)>>
    BY <1>2, <1>6 DEF Entries, Entry
  <2>5. Entry(ps, t) \in [tick : Int, liquidity : 0..(Word - 1)]
    BY <1>1 DEF Entry
  <2> HIDE DEF new
  <2>6. new \in Seq([tick : Int, liquidity : 0..(Word - 1)])
    BY <2>4, <2>5
  <2> QED
    BY <2>3, <2>4, <2>6, RangeOfFew DEF pre, post, new
<1> QED
  BY <1>5, <1>6

-----------------------------------------------------------------------------
(* The invariant                                                           *)

\* Last tick visited.
At == keys[array] + offset - 1

\* Nothing is listed before the arrays are read, and the keys are arrays that a
\* position may begin or end in.
Waiting ==
  /\ pc \in {"pool", "extension", "arrays"} => array = 0
  /\ array = 0 => offset = TickCount /\ cur = 0 /\ out = <<>>
  /\ created \subseteq Bits(Positions) /\ positions \in seen
  /\ keys \in Seq(Int) /\ Range(keys) \subseteq created
  /\ \A i, j \in 1..Len(keys) : i < j => keys[i] < keys[j]

\* Whatever has been listed is not beyond the last tick visited.
Behind ==
  /\ pc # "panicked" /\ Ascending(out)
  /\ \A i \in 1..Len(out) : array > 0 /\ out[i].tick <= At

\* When all arrays of the positions are listed: what has been listed and added up is
\* right up to the last tick visited.
UpToHere ==
  Bits(taken) \subseteq Range(keys) /\ array > 0 =>
    /\ cur = LiquidityAt(taken, At)
    /\ Range(out) = ChartTo(taken, At)

\* A reply comes after the last array.
AtTheEnd == pc = "done" => array = Len(keys) /\ offset = TickCount

IInv == TypeOK /\ Waiting /\ Behind /\ UpToHere /\ AtTheEnd

\* The request has not read anything yet.
LEMMA InitInv == Init => IInv
<1> SUFFICES ASSUME Init PROVE IInv
  OBVIOUS
<1>1. /\ positions \subseteq Positions /\ Bits(positions) \subseteq created
      /\ created \subseteq Bits(Positions)
  <2>1. PICK closed \in SUBSET Positions : created = Bits(positions \cup closed)
    BY DEF Init
  <2>2. positions \subseteq Positions /\ positions \cup closed \in SUBSET Positions
    BY DEF Init
  <2>3. Bits(positions) \subseteq created
    BY <2>1 DEF Bits
  <2> QED
    BY <2>1, <2>2, <2>3, EndsAreInt
<1>2. Range(keys) = {} /\ keys = <<>> /\ out = <<>>
  BY RangeOfFew DEF Init
<1>3. /\ keys \in Seq(Int) /\ Len(keys) = 0 /\ Len(out) = 0
      /\ out \in Seq([tick : Int, liquidity : 0..(Word - 1)])
  BY <1>2
<1>4. /\ moves = 0 /\ pc = "pool" /\ near = {} /\ taken = {} /\ array = 0 /\ offset = TickCount
      /\ cur = 0 /\ seen = {positions}
  BY DEF Init
<1>5. TypeOK
  BY <1>1, <1>2, <1>3, <1>4, TickLiquidityAssumption DEF TypeOK
<1>6. Waiting
  BY <1>1, <1>2, <1>3, <1>4 DEF Waiting
<1>7. Behind /\ UpToHere /\ AtTheEnd
  BY <1>3, <1>4 DEF Behind, UpToHere, AtTheEnd, Ascending
<1> QED
  BY <1>5, <1>6, <1>7 DEF IInv

\* A step that leaves the listing alone.
LEMMA ListingKept ==
  ASSUME IInv, UNCHANGED <<keys, taken, array, offset, cur, out>>
  PROVE  /\ UpToHere' /\ Ascending(out)' /\ At' = At
         /\ \A i \in 1..Len(out') : array' > 0 /\ out'[i].tick <= At'
         /\ array' = 0 => offset' = TickCount /\ cur' = 0 /\ out' = <<>>
<1>1. At' = At
  BY DEF At
<1> QED
  BY <1>1 DEF IInv, UpToHere, Behind, Waiting, Ascending, ChartTo, Changes, Entry

\* The providers' transactions.
LEMMA MoveInv ==
  ASSUME IInv, Move, positions' \subseteq Positions, Bits(positions') \subseteq created',
         created \subseteq created', created' \subseteq Bits(Positions)
  PROVE  IInv'
<1>1. moves' \in 0..MaxMoves
  BY TickLiquidityAssumption DEF Move, IInv, TypeOK
<1>2. TypeOK'
  BY <1>1 DEF Move, IInv, TypeOK
<1>3. Waiting'
  BY DEF Move, IInv, Waiting
<1>4. Behind' /\ UpToHere' /\ AtTheEnd'
  BY ListingKept DEF Move, IInv, Behind, AtTheEnd
<1> QED
  BY <1>2, <1>3, <1>4 DEF IInv

\* The first two reads and the reads that fail.
LEMMA ReadsInv ==
  ASSUME IInv, ReadFails \/ ReadPool
  PROVE  IInv'
<1>1. {s \in Bits(positions) : InPool(s)} \subseteq created
  BY DEF IInv, TypeOK
<1>2. TypeOK'
  BY <1>1 DEF ReadFails, ReadPool, IInv, TypeOK, chain, Ended
<1>3. Waiting'
  BY DEF ReadFails, ReadPool, IInv, Waiting, chain
<1>4. Behind' /\ UpToHere' /\ AtTheEnd'
  BY ListingKept DEF ReadFails, ReadPool, IInv, Behind, AtTheEnd
<1> QED
  BY <1>2, <1>3, <1>4 DEF IInv

\* The keys are the flagged arrays in order.
LEMMA ReadExtensionInv ==
  ASSUME IInv, ReadExtension
  PROVE  IInv'
<1> DEFINE far == {s \in Bits(positions) : ~InPool(s)}
           S   == near \cup far
<1>1. S \subseteq created /\ S \subseteq Int /\ IsFiniteSet(S)
  <2>1. S \subseteq created /\ created \subseteq Bits(Positions)
    BY DEF IInv, TypeOK, Waiting
  <2> QED
    BY <2>1, EndsAreInt, FS_Subset
<1>2. keys' = Upwards(S)
  BY DEF ReadExtension, Keys
<1> HIDE DEF S
<1>3. /\ keys' \in Seq(S) /\ Range(keys') = S
      /\ \A i, j \in 1..Len(keys') : i < j => keys'[i] < keys'[j]
  BY <1>1, <1>2, UpwardsIs
<1>4. keys' \in Seq(Int) /\ Len(keys') \in Nat
  <2>1. Seq(S) \subseteq Seq(Int)
    BY <1>1, SeqMonotonic
  <2> QED
    BY <1>3, <2>1
<1>5. array = 0 /\ array' = 0 /\ pc' = "arrays" /\ out' = <<>> /\ cur' = 0 /\ offset' = TickCount
  BY DEF ReadExtension, IInv, Waiting
<1>6. TypeOK'
  <2>1. UNCHANGED <<positions, created, moves, near, taken, array, offset, cur, out, seen>>
    BY DEF ReadExtension, chain
  <2>2. array' \in 0..Len(keys') /\ Range(keys') \subseteq created'
    BY <1>1, <1>3, <1>4, <1>5, <2>1
  <2> QED
    BY <1>5, <2>1, <2>2 DEF IInv, TypeOK
<1>7. Waiting'
  BY <1>1, <1>3, <1>4, <1>5 DEF ReadExtension, IInv, Waiting, chain
<1>8. Behind' /\ UpToHere' /\ AtTheEnd'
  BY <1>5 DEF Behind, UpToHere, AtTheEnd, Ascending
<1> QED
  BY <1>6, <1>7, <1>8 DEF IInv

\* All the arrays exist.
LEMMA ReadArraysInv ==
  ASSUME IInv, ReadArrays
  PROVE  IInv'
<1>1. array = 0 /\ array' = 0 /\ pc' = "listing" /\ out' = <<>> /\ cur' = 0 /\ offset' = TickCount
  BY DEF ReadArrays, IInv, Waiting
<1>2. TypeOK'
  BY <1>1 DEF ReadArrays, IInv, TypeOK, Waiting, chain
<1>3. Waiting'
  BY <1>1 DEF ReadArrays, IInv, Waiting, chain
<1>4. Behind' /\ UpToHere' /\ AtTheEnd'
  BY <1>1 DEF Behind, UpToHere, AtTheEnd, Ascending
<1> QED
  BY <1>2, <1>3, <1>4 DEF IInv

\* Every key is the start index of an array where a position may begin or end.
LEMMA KeyIsStart ==
  ASSUME IInv, NEW i \in 1..Len(keys)
  PROVE  keys[i] \in Int /\ \E e \in Int : keys[i] = ArrayStart(e)
<1>1. keys[i] \in Range(keys)
  BY DEF IInv, Waiting, Range
<1>2. keys[i] \in Bits(Positions)
  BY <1>1 DEF IInv, Waiting
<1> QED
  BY <1>2, BitsAreOfEnds, EndsAreInt

\* The next array begins beyond what was visited, and between the two, or before the
\* first one, no position begins or ends when all their arrays are listed.
LEMMA NextArrayIsBeyond ==
  ASSUME IInv, NextArray
  PROVE  /\ At' \in Int /\ array' \in 1..Len(keys) /\ keys' = keys
         /\ array > 0 => At \in Int /\ At <= At' /\ keys[array] < keys[array + 1]
         /\ Bits(taken) \subseteq Range(keys) =>
              \A e \in Ends(taken) : IF array = 0 THEN At' < e ELSE ~(At < e /\ e <= At')
<1> DEFINE k == keys[array + 1]
<1>1. /\ Len(keys) \in Nat /\ array \in Nat /\ array < Len(keys) /\ array' = array + 1 /\ keys' = keys
      /\ array' \in 1..Len(keys)
  BY DEF NextArray, IInv, TypeOK, Waiting
<1>2. At' = k - 1 /\ k \in Int
  <2>1. keys[array'] \in Int /\ keys[array'] = k
    BY <1>1, KeyIsStart
  <2> QED
    BY <1>1, <2>1 DEF At, NextArray
<1>3. \A i, j \in 1..Len(keys) : i < j => keys[i] < keys[j]
  BY DEF IInv, Waiting
<1>4. ASSUME array > 0
      PROVE  keys[array] \in Int /\ keys[array] < k /\ keys[array] + TickCount <= k /\ At = keys[array] + TickCount - 1
  <2>1. array \in 1..Len(keys) /\ keys[array] < k
    BY <1>1, <1>3, <1>4
  <2>2. PICK a \in Int : keys[array] = ArrayStart(a)
    BY <2>1, KeyIsStart
  <2>3. PICK b \in Int : k = ArrayStart(b)
    BY <1>1, KeyIsStart
  <2>4. keys[array] + TickCount <= k /\ keys[array] \in Int
    BY <2>1, <2>2, <2>3, ArraysApart, KeyIsStart
  <2> QED
    BY <2>1, <2>4 DEF At, NextArray
<1>5. ASSUME Bits(taken) \subseteq Range(keys), NEW e \in Ends(taken)
      PROVE  IF array = 0 THEN At' < e ELSE ~(At < e /\ e <= At')
  <2>1. e \in Int /\ ArrayStart(e) \in Int /\ ArrayStart(e) <= e /\ e < ArrayStart(e) + TickCount
    BY EndsAreInt, ArrayStartIs DEF IInv, TypeOK
  <2>2. PICK i \in 1..Len(keys) : keys[i] = ArrayStart(e)
    <3>1. ArrayStart(e) \in Range(keys)
      BY <1>5, BitsAreOfEnds
    <3> QED
      BY <3>1 DEF Range, IInv, Waiting
  <2>3. CASE i > array
    <3>1. k <= keys[i]
      BY <1>1, <1>2, <1>3, <2>1, <2>2, <2>3
    <3> QED
      BY <1>2, <2>1, <2>2, <3>1
  <2>4. CASE i <= array
    <3>1. array > 0 /\ array \in 1..Len(keys)
      BY <1>1, <2>4
    <3>2. keys[i] <= keys[array] /\ keys[array] \in Int
      BY <1>3, <1>4, <2>1, <2>2, <2>4, <3>1
    <3>3. /\ TickCount \in Int /\ keys[array] \in Int /\ ArrayStart(e) \in Int /\ e \in Int
          /\ e < ArrayStart(e) + TickCount /\ ArrayStart(e) <= keys[array] /\ At = keys[array] + TickCount - 1
      BY <1>4, <2>1, <2>2, <3>1, <3>2, TickLiquidityAssumption
    <3>4. ~(At < e)
      BY ONLY <3>3
    <3> QED
      BY <3>1, <3>4
  <2> QED
    BY <1>1, <2>3, <2>4
<1> HIDE DEF k
<1>6. array > 0 => At \in Int /\ At <= At'
  BY <1>2, <1>4, TickLiquidityAssumption
<1> QED
  BY <1>1, <1>2, <1>4, <1>5, <1>6 DEF k

\* The outer loop goes on: the check of the start indexes holds, and nothing changes
\* up to the array's first tick.
LEMMA NextArrayInv ==
  ASSUME IInv, NextArray
  PROVE  IInv'
<1>1. /\ At' \in Int /\ array' \in 1..Len(keys) /\ keys' = keys
      /\ array > 0 => At \in Int /\ At <= At' /\ keys[array] < keys[array + 1]
      /\ Bits(taken) \subseteq Range(keys) =>
           \A e \in Ends(taken) : IF array = 0 THEN At' < e ELSE ~(At < e /\ e <= At')
  BY NextArrayIsBeyond
<1>2. array \in Nat /\ array' = array + 1 /\ out' = out /\ cur' = cur /\ taken' = taken /\ taken \subseteq Positions
      /\ out \in Seq([tick : Int, liquidity : 0..(Word - 1)])
  BY DEF NextArray, IInv, TypeOK, Waiting
<1>3. pc' = "listing"
  BY <1>1, <1>2 DEF NextArray
<1>4. TypeOK'
  BY <1>1, <1>3, TickLiquidityAssumption DEF NextArray, IInv, TypeOK, chain
<1>5. Waiting'
  BY <1>1, <1>2, <1>3 DEF NextArray, IInv, Waiting, chain
<1>6. Behind'
  <2>1. ASSUME NEW i \in 1..Len(out) PROVE out[i].tick <= At'
    <3>1. array > 0 /\ out[i].tick <= At
      <4>1. Behind
        BY DEF IInv
      <4> QED
        BY <4>1 DEF Behind
    <3>2. out[i].tick \in Int
      <4>1. out[i] \in [tick : Int, liquidity : 0..(Word - 1)]
        BY <1>2, ElementOfSeq
      <4> QED
        BY <4>1
    <3> QED
      BY <1>1, <3>1, <3>2
  <2> QED
    BY <1>2, <1>3, <2>1 DEF IInv, Behind, Ascending
<1>7. ASSUME Bits(taken) \subseteq Range(keys)
      PROVE  cur = LiquidityAt(taken, At') /\ Range(out) = ChartTo(taken, At')
  <2>1. CASE array = 0
    <3>1. \A e \in Ends(taken) : At' < e
      BY <1>1, <1>7, <2>1
    <3>2. LiquidityAt(taken, At') = 0
      BY <1>1, <1>2, <3>1, NothingBefore
    <3>3. {v \in Changes(taken) : v <= At'} = {}
      BY <1>1, <1>2, <3>1, EndsAreInt DEF Changes
    <3>4. ChartTo(taken, At') = {}
      BY <3>3 DEF ChartTo
    <3>5. cur = 0 /\ Range(out) = {}
      BY <2>1, RangeOfFew DEF IInv, Waiting
    <3> QED
      BY <3>2, <3>4, <3>5
  <2>2. CASE array > 0
    <3>1. \A e \in Ends(taken) : ~(At < e /\ e <= At')
      BY <1>1, <1>7, <2>2
    <3>2. LiquidityAt(taken, At) = LiquidityAt(taken, At')
      <4>1. At \in Int /\ At' \in Int /\ At <= At' /\ taken \in SUBSET Positions
        BY <1>1, <1>2, <2>2
      <4> QED
        BY <3>1, <4>1, NoEndsNoChange
    <3>3. {v \in Changes(taken) : v <= At} = {v \in Changes(taken) : v <= At'}
      <4>1. Changes(taken) \subseteq Ends(taken) /\ Ends(taken) \subseteq Int
        BY <1>2, EndsAreInt DEF Changes
      <4>2. \A v \in Changes(taken) : v <= At <=> v <= At'
        BY <1>1, <2>2, <3>1, <4>1
      <4> QED
        BY <4>2
    <3>4. ChartTo(taken, At) = ChartTo(taken, At')
      BY <3>3 DEF ChartTo
    <3> QED
      BY <1>7, <2>2, <3>2, <3>4 DEF IInv, UpToHere
  <2> QED
    BY <1>2, <2>1, <2>2
<1>8. UpToHere'
  BY <1>1, <1>2, <1>7 DEF UpToHere, ChartTo, Changes, Entry
<1>9. AtTheEnd'
  BY <1>3 DEF AtTheEnd
<1> QED
  BY <1>4, <1>5, <1>6, <1>8, <1>9 DEF IInv

\* Of two places up to a last one the earlier is not the last.
LEMMA EarlierIsBelow ==
  ASSUME NEW n \in Nat, NEW i \in Int, NEW j \in Int, 1 <= i, i < j,
         i = n + 1 \/ i \in 1..n, j = n + 1 \/ j \in 1..n
  PROVE  i \in 1..n
OBVIOUS

\* The place that one more element takes.
LEMMA OneMore ==
  ASSUME NEW n \in Nat, NEW m \in {0, 1}, NEW i \in 1..(n + m), ~(i \in 1..n)
  PROVE  i = n + 1 /\ m = 1
OBVIOUS

\* One tick is visited: the liquidity changes by its net, and the list by its entry.
LEMMA VisitTickInv ==
  ASSUME IInv, VisitTick
  PROVE  IInv'
<1> DEFINE t    == keys[array] + offset
           post == cur + Net(taken, t)
           new  == Entries(t, cur, post)
           E    == [tick : Int, liquidity : 0..(Word - 1)]
<1>1. /\ array \in 1..Len(keys) /\ array' = array /\ array # 0 /\ offset \in 0..TickCount /\ offset < TickCount
      /\ offset' = offset + 1 /\ keys' = keys /\ taken' = taken /\ taken \in SUBSET Positions
      /\ cur \in Int /\ out \in Seq(E) /\ TickCount \in Nat
  <2>1. /\ offset \in 0..TickCount /\ offset < TickCount /\ TickCount \in Nat
        /\ array \in 0..Len(keys) /\ keys \in Seq(Int) /\ (array = 0 => offset = TickCount)
    BY TickLiquidityAssumption DEF VisitTick, IInv, TypeOK, Waiting
  <2>2. array # 0 /\ array \in 1..Len(keys)
    BY <2>1
  <2>3. /\ array' = array /\ offset' = offset + 1 /\ keys' = keys /\ taken' = taken
        /\ taken \in SUBSET Positions /\ cur \in Int /\ out \in Seq(E)
    BY DEF VisitTick, IInv, TypeOK
  <2> QED
    BY <2>1, <2>2, <2>3
<1>2. t \in Int /\ keys[array] \in Int /\ At = t - 1 /\ At' = t
  <2>1. keys[array] \in Int
    BY <1>1, KeyIsStart
  <2>2. At' = keys[array] + (offset + 1) - 1 /\ offset \in Int
    BY <1>1 DEF At
  <2> QED
    BY <2>1, <2>2 DEF At
<1>3. cur' = post /\ out' = out \o new /\ pc' = "listing"
  BY DEF VisitTick
<1>4. Net(taken, t) \in Int
  <2>1. {p \in taken : p.lower = t} \in SUBSET Positions /\ {p \in taken : p.upper = t} \in SUBSET Positions
    BY <1>1
  <2> QED
    BY <2>1, SumFits, TickLiquidityAssumption DEF Net
<1>5. /\ new \in Seq(E) /\ Len(new) \in {0, 1}
      /\ \A i \in 1..Len(new) : new[i].tick \in {t, t - 1}
  <2>1. post \in Int /\ cur \in Int /\ Word \in Nat \ {0}
    BY <1>1, <1>4, TickLiquidityAssumption
  <2> HIDE DEF post
  <2>2. AsU128(post) \in 0..(Word - 1) /\ AsU128(cur) \in 0..(Word - 1)
    BY <2>1 DEF AsU128
  <2>3. new = <<>> \/ \E e \in E : new = <<e>> /\ e.tick \in {t, t - 1}
    <3>1. /\ [tick |-> t, liquidity |-> AsU128(post)] \in E
          /\ [tick |-> t - 1, liquidity |-> AsU128(cur)] \in E
      BY <1>2, <2>2
    <3> QED
      BY <3>1 DEF Entries
  <2> HIDE DEF new, E
  <2>4. CASE new = <<>>
    BY <2>4
  <2>5. ASSUME NEW e \in E, new = <<e>>, e.tick \in {t, t - 1}
        PROVE  new \in Seq(E) /\ Len(new) = 1 /\ new[1] = e
    BY <2>5
  <2> QED
    BY <2>3, <2>4, <2>5
<1>6. out' \in Seq(E) /\ Len(out') = Len(out) + Len(new) /\ Range(out') = Range(out) \cup Range(new)
  <2> HIDE DEF new, E
  <2> QED
    BY <1>1, <1>3, <1>5, RangeConcatenation
<1> HIDE DEF new
<1>7. TypeOK'
  BY <1>1, <1>3, <1>4, <1>6 DEF VisitTick, IInv, TypeOK, chain
<1>8. Waiting'
  BY <1>1, <1>3 DEF VisitTick, IInv, Waiting, chain
<1>9. Behind'
  <2>1. ASSUME NEW i \in 1..Len(out)
        PROVE  out'[i] = out[i] /\ out[i].tick \in Int /\ out[i].tick <= t - 1
    <3>1. out[i] \in E /\ out[i].tick <= At
      <4>1. Behind
        BY DEF IInv
      <4> QED
        BY <1>1, <4>1, ElementOfSeq DEF Behind
    <3>2. out'[i] = out[i]
      BY <1>1, <1>3, <1>5
    <3> QED
      BY <1>2, <3>1, <3>2
  <2>2. /\ Len(out) \in Nat /\ Len(out') \in Nat /\ Len(out') = Len(out) + Len(new)
        /\ Len(new) \in {0, 1}
    BY <1>1, <1>5, <1>6
  <2>3. ASSUME NEW i \in 1..Len(out'), ~(i \in 1..Len(out))
        PROVE  i = Len(out) + 1 /\ out'[i].tick \in {t, t - 1}
    <3>1. i \in 1..(Len(out) + Len(new))
      BY <2>2, <2>3
    <3>2. i = Len(out) + 1 /\ Len(new) = 1
      BY <2>2, <2>3, <3>1, OneMore
    <3>3. out'[i] = new[1]
      BY <1>1, <1>3, <1>5, <3>2
    <3> QED
      BY <1>5, <3>2, <3>3
  <2>4. ASSUME NEW i \in 1..Len(out') PROVE out'[i].tick \in Int /\ out'[i].tick <= t
    <3>1. CASE i \in 1..Len(out)
      BY <1>2, <2>1, <3>1
    <3>2. CASE ~(i \in 1..Len(out))
      BY <1>2, <2>3, <3>2
    <3> QED
      BY <3>1, <3>2
  <2>5. ASSUME NEW i \in 1..Len(out'), NEW j \in 1..Len(out'), i < j
        PROVE  out'[i].tick <= out'[j].tick
    <3>1. i \in 1..Len(out)
      <4>1. ~(i \in 1..Len(out)) => i = Len(out) + 1
        BY <2>3
      <4>2. ~(j \in 1..Len(out)) => j = Len(out) + 1
        BY <2>3
      <4>3. i \in Int /\ j \in Int /\ 1 <= i
        BY <2>2
      <4>4. (i = Len(out) + 1 \/ i \in 1..Len(out)) /\ (j = Len(out) + 1 \/ j \in 1..Len(out))
        BY <4>1, <4>2
      <4> QED
        BY <2>2, <2>5, <4>3, <4>4, EarlierIsBelow
    <3>2. CASE ~(j \in 1..Len(out))
      <4>1. out'[i].tick \in Int /\ out'[i].tick <= t - 1
        BY <2>1, <3>1
      <4>2. out'[j].tick \in {t, t - 1}
        BY <2>3, <3>2
      <4> QED
        BY <1>2, <4>1, <4>2
    <3>3. CASE j \in 1..Len(out)
      <4>1. Ascending(out)
        BY DEF IInv, Behind
      <4> QED
        BY <2>1, <2>5, <3>1, <3>3, <4>1 DEF Ascending
    <3> QED
      BY <3>2, <3>3
  <2>6. array' > 0 /\ pc' # "panicked" /\ At' = t
    BY <1>1, <1>2, <1>3
  <2> HIDE DEF t
  <2> QED
    BY <2>4, <2>5, <2>6 DEF Behind, Ascending
<1>10. ASSUME Bits(taken) \subseteq Range(keys)
       PROVE  cur' = LiquidityAt(taken, t) /\ Range(out') = ChartTo(taken, t)
  <2>1. cur = LiquidityAt(taken, t - 1) /\ Range(out) = ChartTo(taken, t - 1)
    BY <1>1, <1>2, <1>10 DEF IInv, UpToHere
  <2>2. post = LiquidityAt(taken, t)
    BY <1>1, <1>2, <2>1, NetIsChange
  <2>3. ChartTo(taken, t) = ChartTo(taken, t - 1) \cup Range(new)
    <3>1. new = Entries(t, LiquidityAt(taken, t - 1), LiquidityAt(taken, t))
      BY <2>1, <2>2 DEF new
    <3> HIDE DEF t, post
    <3> QED
      BY <1>1, <1>2, <3>1, EntriesAreChart
  <2> QED
    BY <1>3, <1>6, <2>1, <2>2, <2>3
<1>11. UpToHere'
  <2> HIDE DEF t
  <2> QED
    BY <1>1, <1>2, <1>10 DEF UpToHere, ChartTo, Changes, Entry
<1>12. AtTheEnd'
  BY <1>3 DEF AtTheEnd
<1> QED
  BY <1>7, <1>8, <1>9, <1>11, <1>12 DEF IInv

\* The reply.
LEMMA ReplyInv ==
  ASSUME IInv, Reply
  PROVE  IInv'
<1>1. TypeOK'
  BY DEF Reply, IInv, TypeOK, chain, Ended
<1>2. Waiting' /\ Behind' /\ UpToHere' /\ AtTheEnd'
  BY ListingKept DEF Reply, IInv, Waiting, Behind, AtTheEnd, chain
<1> QED
  BY <1>1, <1>2 DEF IInv

\* Every step.
LEMMA NextInv == IInv /\ [Next]_vars => IInv'
<1> SUFFICES ASSUME IInv, [Next]_vars PROVE IInv'
  OBVIOUS
<1>1. ASSUME NEW p \in Positions, OpenPosition(p) PROVE IInv'
  <2>1. /\ positions' = positions \cup {p} /\ created' = created \cup Bits({p}) /\ Move
        /\ positions \subseteq Positions /\ Bits(positions) \subseteq created /\ created \subseteq Bits(Positions)
    BY <1>1 DEF OpenPosition, IInv, TypeOK, Waiting
  <2>2. Bits({p}) \subseteq Bits(Positions) /\ Bits(positions') \subseteq created'
    BY <2>1, EndsAreInt DEF Bits
  <2> QED
    BY <2>1, <2>2, MoveInv
<1>2. ASSUME NEW p \in Positions, ClosePosition(p) PROVE IInv'
  <2>1. /\ positions' = positions \ {p} /\ created' = created /\ Move
        /\ positions \subseteq Positions /\ Bits(positions) \subseteq created /\ created \subseteq Bits(Positions)
    BY <1>2 DEF ClosePosition, IInv, TypeOK, Waiting
  <2>2. Bits(positions') \subseteq created'
    BY <2>1 DEF Bits
  <2> QED
    BY <2>1, <2>2, MoveInv
<1>3. CASE Handler
  BY <1>3, ReadsInv, ReadExtensionInv, ReadArraysInv, NextArrayInv, VisitTickInv, ReplyInv DEF Handler
<1>4. CASE UNCHANGED vars
  <2>1. TypeOK' /\ Waiting'
    BY <1>4 DEF vars, chain, IInv, TypeOK, Waiting
  <2>2. Behind' /\ UpToHere' /\ AtTheEnd'
    BY <1>4, ListingKept DEF vars, IInv, Behind, AtTheEnd
  <2> QED
    BY <2>1, <2>2 DEF IInv
<1> QED
  BY <1>1, <1>2, <1>3, <1>4 DEF Next

\* The invariant holds throughout.
LEMMA Invariant == Spec => []IInv
<1> QED
  BY InitInv, NextInv, PTL DEF Spec

-----------------------------------------------------------------------------
(* The theorems                                                            *)

\* TypeOK: the keys name arrays that exist, the listed liquidity is a u128, and what
\* the arrays say is a state the chain was in since the request arrived.
THEOREM TypeCorrect == Spec => []TypeOK
<1>1. IInv => TypeOK
  BY DEF IInv
<1> QED
  BY <1>1, Invariant, PTL

\* ListsInOrder: whatever the chain does between the reads, neither the unwrap of a
\* fetched array nor the check of the start indexes aborts the request, and the ticks
\* are listed in order.
THEOREM NeverAbortsAndAscends == Spec => []ListsInOrder
<1>1. IInv => ListsInOrder
  BY DEF IInv, Behind, ListsInOrder
<1> QED
  BY <1>1, Invariant, PTL

\* ListingExact: when every array of the positions open at the last read was flagged
\* at the earlier ones, the list is the chart of those positions, entry by entry.
THEOREM ListsTheChart == Spec => []ListingExact
<1>1. IInv => ListingExact
  <2> SUFFICES ASSUME IInv, pc = "done", Bits(taken) \subseteq Range(keys)
               PROVE  Range(out) = Chart(taken)
    BY DEF ListingExact
  <2>1. array = Len(keys) /\ offset = TickCount /\ keys \in Seq(Int) /\ Len(keys) \in Nat
        /\ taken \in SUBSET Positions /\ \A i, j \in 1..Len(keys) : i < j => keys[i] < keys[j]
    BY DEF IInv, AtTheEnd, TypeOK, Waiting
  <2>2. CASE Len(keys) = 0
    <3>1. Ends(taken) = {}
      <4>1. Range(keys) = {}
        <5>1. 1..Len(keys) = {}
          BY <2>2
        <5> QED
          BY <2>1, <5>1, RangeEquality
      <4> QED
        BY <4>1, BitsAreOfEnds
    <3>2. out = <<>>
      BY <2>1, <2>2 DEF IInv, Waiting
    <3>3. ChartTo(taken, 0) = {}
      BY <3>1 DEF ChartTo, Changes
    <3>4. Chart(taken) = ChartTo(taken, 0)
      BY <3>1, ChartIsAll
    <3> QED
      BY <3>2, <3>3, <3>4, RangeOfFew
  <2>3. CASE Len(keys) > 0
    <3>1. array > 0 /\ array \in 1..Len(keys) /\ keys[array] \in Int /\ At = keys[array] + TickCount - 1
      BY <2>1, <2>3 DEF At
    <3>2. Range(out) = ChartTo(taken, At)
      BY <3>1 DEF IInv, UpToHere
    <3>3. ASSUME NEW e \in Ends(taken) PROVE e <= At
      <4>1. e \in Int /\ ArrayStart(e) \in Int /\ e < ArrayStart(e) + TickCount
        BY <2>1, EndsAreInt, ArrayStartIs
      <4>2. ArrayStart(e) \in Range(keys)
        BY BitsAreOfEnds
      <4>3. PICK i \in 1..Len(keys) : keys[i] = ArrayStart(e)
        BY <2>1, <4>2, RangeEquality
      <4>4. ArrayStart(e) <= keys[array]
        BY <2>1, <3>1, <4>1, <4>3
      <4> QED
        BY <3>1, <4>1, <4>4, TickLiquidityAssumption
    <3>4. Chart(taken) = ChartTo(taken, At)
      BY <3>3, ChartIsAll
    <3> QED
      BY <3>2, <3>4
  <2> QED
    BY <2>1, <2>2, <2>3
<1> QED
  BY <1>1, Invariant, PTL
=============================================================================
