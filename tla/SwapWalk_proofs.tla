---------------------------- MODULE SwapWalk_proofs ----------------------------
(***************************************************************************)
(* Proofs about SwapWalk, for every pool, every tick range, tick array     *)
(* size, fee, amount and loop limit.  The argument:                        *)
(*                                                                         *)
(*  - The dequeue holds the arrays on the side the swap comes from, so no  *)
(*    next array is ever taken (NeverTheNext, LeaveArrayStops): the walk   *)
(*    stays in its first array (InFirst).                                  *)
(*  - That array is the one of the pool's tick or the nearest flagged one  *)
(*    ahead, so the nearest of its ticks ahead is the nearest of all       *)
(*    (NextTickIs), a step passes no initialized tick on its way (OneStep) *)
(*    and the liquidity stays in step with the tick (InStep).              *)
(*  - IInv, these with the types, is inductive: IInvInit, IInvNext.        *)
(*  - A step that passes n units of price is n moves of the pool           *)
(*    (MovesAlong), so the walk and the pool agree as far as the walk has  *)
(*    come (Along), and where it stops so does the pool.                   *)
(*  - What is gone was taken by the units passed (Spent), so an array that *)
(*    is used up has taken what it can (UsedUpTakes), and every iteration  *)
(*    before the last has crossed one tick (Counted).                      *)
(***************************************************************************)
EXTENDS SwapWalk, FiniteSetLemmas

-----------------------------------------------------------------------------
(* Ticks, arrays and prices                                                *)

\* An array holds the ticks from its start on.
LEMMA StartIs ==
  ASSUME NEW t \in Int
  PROVE  ArrayStart(t) \in Int /\ ArrayStart(t) <= t /\ t < ArrayStart(t) + TickCount
<1> DEFINE q == t \div TickCount
<1>1. q \in Int /\ TickCount * q <= t /\ t < TickCount * q + TickCount
  <2>1. t = TickCount * (t \div TickCount) + (t % TickCount) /\ t % TickCount \in 0..(TickCount - 1)
    BY SwapWalkAssumption
  <2> QED
    BY <2>1, SwapWalkAssumption
<1> HIDE DEF q
<1> QED
  BY <1>1, SwapWalkAssumption DEF ArrayStart, q

\* Quotients grow with what is divided.
LEMMA QuotientsGrow ==
  ASSUME NEW t \in Int, NEW u \in Int, t <= u, NEW k \in Nat \ {0}
  PROVE  t \div k \in Int /\ u \div k \in Int /\ t \div k <= u \div k
OBVIOUS

\* Arrays follow each other as their ticks do.
LEMMA StartsGrow ==
  ASSUME NEW t \in Int, NEW u \in Int, t <= u
  PROVE  ArrayStart(t) <= ArrayStart(u)
<1>1. t \div TickCount \in Int /\ u \div TickCount \in Int /\ t \div TickCount <= u \div TickCount
  BY SwapWalkAssumption, QuotientsGrow
<1>2. ASSUME NEW q \in Int, NEW r \in Int, q <= r PROVE q * TickCount <= r * TickCount
  BY <1>2, SwapWalkAssumption
<1> QED
  BY <1>1, <1>2 DEF ArrayStart

\* A tick is two units of price wide.
LEMMA TickAtIs ==
  ASSUME NEW x \in Int
  PROVE  TickAt(x) \in Int /\ PriceAt(TickAt(x)) <= x /\ x < PriceAt(TickAt(x) + 1)
BY DEF TickAt, PriceAt, Grain

-----------------------------------------------------------------------------
(* The pool and its liquidity                                              *)

\* The pool and the arguments of the call.
Chosen == pool \in Pools /\ ask \in Asks

\* What a fetched pool is made of.
LEMMA PoolIs ==
  ASSUME Chosen
  PROVE  /\ pool.price \in Int /\ Grain * MinTick <= pool.price /\ pool.price <= Grain * MaxTick
         /\ pool.tick \in Tick /\ pool.tick \in Int /\ pool.liquidity \in Nat
         /\ pool.fee_a \in Nat /\ pool.fee_b \in Nat
         /\ DOMAIN pool.net \subseteq Int /\ DOMAIN pool.net \subseteq Tick
         /\ \A u \in DOMAIN pool.net : pool.net[u] \in Int /\ ArrayStart(u) \in pool.flagged
         /\ Grain * pool.tick <= pool.price /\ pool.price <= Grain * (pool.tick + 1)
<1>1. IsPoolInfo(pool) /\ MinTick \in Int /\ MaxTick \in Int
  BY SwapWalkAssumption DEF Chosen
<1>2. pool.net \in [DOMAIN pool.net -> Int] /\ DOMAIN pool.net \subseteq Tick
  BY <1>1 DEF IsPoolInfo
<1>3. Tick \subseteq Int
  BY <1>1 DEF Tick
<1>4. /\ pool.tick \in Tick /\ pool.liquidity \in Nat /\ pool.fee_a \in Nat /\ pool.fee_b \in Nat
      /\ PriceAt(pool.tick) <= pool.price /\ pool.price <= PriceAt(pool.tick + 1)
      /\ \A u \in DOMAIN pool.net : ArrayStart(u) \in pool.flagged
  BY <1>1 DEF IsPoolInfo
<1>5. pool.price \in Int /\ Grain * MinTick <= pool.price /\ pool.price <= Grain * MaxTick
  BY <1>1 DEF IsPoolInfo, Price, Grain
<1> QED
  BY <1>2, <1>3, <1>4, <1>5 DEF PriceAt

\* What the arguments of a call are.
LEMMA AskIs ==
  ASSUME Chosen
  PROVE  ask \in Ask /\ ask.zero_for_one \in BOOLEAN /\ ask.base_input \in BOOLEAN /\ ask.amount \in Nat
BY SwapWalkAssumption DEF Chosen, Ask

\* There are finitely many flagged arrays and initialized ticks.
LEMMA FinitelyMany ==
  ASSUME Chosen
  PROVE  /\ pool.flagged \subseteq Int /\ IsFiniteSet(pool.flagged)
         /\ IsFiniteSet(DOMAIN pool.net)
<1> DEFINE f == [t \in Tick |-> ArrayStart(t)]
<1>1. IsPoolInfo(pool) /\ MinTick \in Int /\ MaxTick \in Int
  BY SwapWalkAssumption DEF Chosen
<1>2. IsFiniteSet(Tick) /\ Tick \subseteq Int
  BY <1>1, FS_Interval DEF Tick
<1>3. {f[t] : t \in Tick} = {ArrayStart(t) : t \in Tick}
  OBVIOUS
<1>4. IsFiniteSet({ArrayStart(t) : t \in Tick})
  <2> HIDE DEF f
  <2> QED
    BY <1>2, <1>3, ImageIsFinite
<1>5. pool.flagged \subseteq {ArrayStart(t) : t \in Tick} /\ DOMAIN pool.net \subseteq Tick
  BY <1>1 DEF IsPoolInfo
<1>6. {ArrayStart(t) : t \in Tick} \subseteq Int
  BY <1>2, StartIs
<1> QED
  BY <1>2, <1>4, <1>5, <1>6, FS_Subset

\* The sum of the model is the one of the lemmas.
LEMMA LiquidityIs ==
  ASSUME NEW p, NEW t
  PROVE  LiquidityAt(p, t) = Total(p.net, {u \in DOMAIN p.net : u <= t})
BY DEF LiquidityAt, SumOver, Total

\* Liquidity is an integer.
LEMMA SeenIsInt ==
  ASSUME Chosen, NEW t \in Int
  PROVE  LiquidityAt(pool, t) \in Int /\ LiquidityAt(pool, pool.tick) \in Int /\ SeenLiquidity(t) \in Int
<1>1. ASSUME NEW u PROVE LiquidityAt(pool, u) \in Int
  <2> DEFINE S == {v \in DOMAIN pool.net : v <= u}
  <2>1. IsFiniteSet(S) /\ \A v \in S : pool.net[v] \in Int
    BY FinitelyMany, FS_Subset, PoolIs
  <2> HIDE DEF S
  <2>2. Total(pool.net, S) \in Int
    BY <2>1, SumType
  <2> QED
    BY <2>2, LiquidityIs DEF S
<1> QED
  BY <1>1, PoolIs DEF SeenLiquidity

\* Where no tick is initialized liquidity does not change.
LEMMA SeenSame ==
  ASSUME Chosen, NEW t \in Int, NEW u \in Int, t <= u, \A v \in DOMAIN pool.net : ~(t < v /\ v <= u)
  PROVE  SeenLiquidity(u) = SeenLiquidity(t)
<1>1. {v \in DOMAIN pool.net : v <= u} = {v \in DOMAIN pool.net : v <= t}
  BY PoolIs
<1> QED
  BY <1>1, LiquidityIs DEF SeenLiquidity

\* At an initialized tick it changes by its liquidity_net.
LEMMA SeenOne ==
  ASSUME Chosen, NEW t \in DOMAIN pool.net
  PROVE  SeenLiquidity(t) = SeenLiquidity(t - 1) + pool.net[t]
<1> DEFINE S == {v \in DOMAIN pool.net : v <= t - 1}
<1>1. t \in Int /\ t - 1 \in Int
  BY PoolIs
<1>2. {v \in DOMAIN pool.net : v <= t} = S \cup {t} /\ t \notin S
  BY <1>1, PoolIs
<1>3. IsFiniteSet(S) /\ (\A v \in S : pool.net[v] \in Int) /\ pool.net[t] \in Int
  BY FinitelyMany, FS_Subset, PoolIs
<1>4. Total(pool.net, S \cup {t}) = pool.net[t] + Total(pool.net, S)
  <2> HIDE DEF S
  <2> QED
    BY <1>2, <1>3, SumPlusOne
<1>5. LiquidityAt(pool, t) = pool.net[t] + LiquidityAt(pool, t - 1)
  BY <1>2, <1>4, LiquidityIs
<1> QED
  BY <1>1, <1>3, <1>5, PoolIs, SeenIsInt DEF SeenLiquidity

-----------------------------------------------------------------------------
(* The first array and the ticks ahead                                     *)

\* The nearest of a set, seen in the direction of the swap.
LEMMA NearestIs ==
  ASSUME NEW S, S \subseteq Int, IsFiniteSet(S), S # {}, NEW zero_for_one \in BOOLEAN
  PROVE  /\ Nearest(S, zero_for_one) \in S
         /\ \A u \in S : IF zero_for_one THEN u <= Nearest(S, zero_for_one)
                                         ELSE u >= Nearest(S, zero_for_one)
<1>1. CASE zero_for_one
  BY <1>1, MaxIs DEF Nearest
<1>2. CASE ~zero_for_one
  BY <1>2, MinIs DEF Nearest
<1> QED
  BY <1>1, <1>2

\* The first array is the one of the pool's tick, or the nearest flagged one beyond it.
LEMMA FirstIs ==
  ASSUME Chosen, ~NoArray
  PROVE  /\ FirstArray \in pool.flagged /\ FirstArray \in Int
         /\ FirstArrayExists => FirstArray = ArrayStart(pool.tick)
         /\ ~FirstArrayExists =>
              /\ ArrayStart(pool.tick) \notin pool.flagged
              /\ IF ask.zero_for_one THEN FirstArray < ArrayStart(pool.tick)
                                     ELSE FirstArray > ArrayStart(pool.tick)
              /\ \A s \in pool.flagged :
                   IF ask.zero_for_one THEN s < ArrayStart(pool.tick) => s <= FirstArray
                                       ELSE s > ArrayStart(pool.tick) => s >= FirstArray
<1> DEFINE a == ArrayStart(pool.tick)
           S == NextArrays(a)
<1>1. pool.flagged \subseteq Int /\ IsFiniteSet(pool.flagged) /\ a \in Int /\ ask.zero_for_one \in BOOLEAN
  BY FinitelyMany, PoolIs, StartIs, AskIs
<1>2. CASE FirstArrayExists
  BY <1>1, <1>2 DEF FirstArray, FirstArrayExists, Arrays
<1>3. CASE ~FirstArrayExists
  <2>1. S # {} /\ FirstArray = Nearest(S, ask.zero_for_one) /\ a \notin pool.flagged
    BY <1>3 DEF NoArray, FirstArray, FirstArrayExists, Arrays
  <2>2. S \in SUBSET pool.flagged
        /\ \A s \in pool.flagged : s \in S <=> IF ask.zero_for_one THEN s < a ELSE s > a
    BY <1>1 DEF NextArrays, Arrays
  <2> HIDE DEF S, a
  <2>3. S \subseteq Int /\ IsFiniteSet(S)
    BY <1>1, <2>2, FS_Subset
  <2>4. FirstArray \in S /\ \A u \in S : IF ask.zero_for_one THEN u <= FirstArray ELSE u >= FirstArray
    BY <1>1, <2>1, <2>3, NearestIs
  <2>5. FirstArray \in pool.flagged /\ FirstArray \in Int
    BY <1>1, <2>2, <2>4
  <2>6. IF ask.zero_for_one THEN FirstArray < a ELSE FirstArray > a
    BY <2>2, <2>4
  <2>7. \A s \in pool.flagged : IF ask.zero_for_one THEN s < a => s <= FirstArray
                                                     ELSE s > a => s >= FirstArray
    BY <1>1, <2>2, <2>4
  <2> QED
    BY <1>3, <2>1, <2>5, <2>6, <2>7 DEF a
<1> QED
  BY <1>2, <1>3

\* The next array lies beyond the first one, the rest of the dequeue on its other side.
QueueBehind ==
  /\ queue \in Seq(Int)
  /\ \A i \in 1..Len(queue) : IF ask.zero_for_one THEN queue[i] > FirstArray ELSE queue[i] < FirstArray

\* So the front of the dequeue is never the next array.
LEMMA NeverTheNext ==
  ASSUME Chosen, ~NoArray, valid = FirstArray, QueueBehind, queue # <<>>, NextArrays(valid) # {}
  PROVE  Head(queue) # NextArray
<1> DEFINE S == NextArrays(valid)
<1>1. pool.flagged \subseteq Int /\ IsFiniteSet(pool.flagged) /\ FirstArray \in Int /\ ask.zero_for_one \in BOOLEAN
  BY FinitelyMany, FirstIs, AskIs
<1>2. S \in SUBSET pool.flagged /\ \A s \in S : IF ask.zero_for_one THEN s < FirstArray ELSE s > FirstArray
  BY <1>1 DEF NextArrays, Arrays
<1>3. NextArray = Nearest(S, ask.zero_for_one)
  BY DEF NextArray
<1>4. S \subseteq Int /\ IsFiniteSet(S)
  <2> HIDE DEF S
  <2> QED
    BY <1>1, <1>2, FS_Subset
<1>5. NextArray \in S
  <2> HIDE DEF S
  <2> QED
    BY <1>1, <1>3, <1>4, NearestIs DEF S
<1>6. 1 \in 1..Len(queue) /\ Head(queue) = queue[1]
  BY DEF QueueBehind
<1> QED
  BY <1>1, <1>2, <1>5, <1>6 DEF QueueBehind

\* What compute_another_amount hands over as the rest of the dequeue.
LEMMA RestOfQueue ==
  ASSUME Chosen, ~NoArray
  PROVE  LET q == Tail(ArrayQueue)
         IN  /\ q \in Seq(Int)
             /\ \A i \in 1..Len(q) : IF ask.zero_for_one THEN q[i] > FirstArray ELSE q[i] < FirstArray
<1> DEFINE U == {s \in Arrays(pool) : s >= FirstArray}
           D == {s \in Arrays(pool) : s <= FirstArray}
<1>1. pool.flagged \subseteq Int /\ IsFiniteSet(pool.flagged) /\ FirstArray \in Int /\ ask.zero_for_one \in BOOLEAN
      /\ FirstArray \in pool.flagged
  BY FinitelyMany, FirstIs, AskIs
<1>2. /\ U \in SUBSET pool.flagged /\ FirstArray \in U /\ \A s \in U : s >= FirstArray
      /\ D \in SUBSET pool.flagged /\ FirstArray \in D /\ \A s \in D : s <= FirstArray
  BY <1>1 DEF Arrays
<1>3. ArrayQueue = IF ask.zero_for_one THEN Upwards(U) ELSE Downwards(D)
  BY DEF ArrayQueue
<1> HIDE DEF U, D
<1>4. U \subseteq Int /\ IsFiniteSet(U) /\ D \subseteq Int /\ IsFiniteSet(D)
  BY <1>1, <1>2, FS_Subset
<1>6. CASE ask.zero_for_one
  <2> DEFINE q == Upwards(U)
  <2>1. q \in Seq(U) /\ Range(q) = U /\ \A i, j \in 1..Len(q) : i < j => q[i] < q[j]
    BY <1>4, UpwardsIs
  <2>2. ArrayQueue = q
    BY <1>3, <1>6
  <2> HIDE DEF q
  <2>3. q \in Seq(Int)
    BY <1>4, <2>1, SeqMonotonic
  <2>4. /\ Tail(q) \in Seq(Int) /\ q[1] \in U
        /\ \A i \in 1..Len(Tail(q)) : Tail(q)[i] = q[i + 1] /\ i + 1 \in 1..Len(q) /\ 1 \in 1..Len(q)
    <3>1. q # <<>> /\ 1 \in 1..Len(q)
      BY <1>2, <2>1, <2>3, RangeEquality
    <3>2. q[1] \in U
      BY <3>1, <2>1, ElementOfSeq
    <3> QED
      BY <3>1, <3>2, <2>3
  <2>5. ASSUME NEW i \in 1..Len(Tail(q)) PROVE Tail(q)[i] > FirstArray
    <3>1. Tail(q)[i] = q[i + 1] /\ i + 1 \in 1..Len(q) /\ 1 \in 1..Len(q) /\ 1 < i + 1
      BY <2>4
    <3>2. q[1] < q[i + 1] /\ q[1] >= FirstArray /\ q[i + 1] \in Int /\ q[1] \in Int
      BY <3>1, <2>1, <2>3, <2>4, <1>2, <1>1, <1>4, ElementOfSeq
    <3> QED
      BY <3>1, <3>2, <1>1
  <2> QED
    BY <1>6, <2>2, <2>4, <2>5
<1>7. CASE ~ask.zero_for_one
  <2> DEFINE q == Downwards(D)
  <2>1. q \in Seq(D) /\ Range(q) = D /\ \A i, j \in 1..Len(q) : i < j => q[i] > q[j]
    BY <1>4, DownwardsIs
  <2>2. ArrayQueue = q
    BY <1>3, <1>7
  <2> HIDE DEF q
  <2>3. q \in Seq(Int)
    BY <1>4, <2>1, SeqMonotonic
  <2>4. /\ Tail(q) \in Seq(Int) /\ q[1] \in D
        /\ \A i \in 1..Len(Tail(q)) : Tail(q)[i] = q[i + 1] /\ i + 1 \in 1..Len(q) /\ 1 \in 1..Len(q)
    <3>1. q # <<>> /\ 1 \in 1..Len(q)
      BY <1>2, <2>1, <2>3, RangeEquality
    <3>2. q[1] \in D
      BY <3>1, <2>1, ElementOfSeq
    <3> QED
      BY <3>1, <3>2, <2>3
  <2>5. ASSUME NEW i \in 1..Len(Tail(q)) PROVE Tail(q)[i] < FirstArray
    <3>1. Tail(q)[i] = q[i + 1] /\ i + 1 \in 1..Len(q) /\ 1 \in 1..Len(q) /\ 1 < i + 1
      BY <2>4
    <3>2. q[1] > q[i + 1] /\ q[1] <= FirstArray /\ q[i + 1] \in Int /\ q[1] \in Int
      BY <3>1, <2>1, <2>3, <2>4, <1>2, <1>1, <1>4, ElementOfSeq
    <3> QED
      BY <3>1, <3>2, <1>1
  <2> QED
    BY <1>7, <2>2, <2>4, <2>5
<1> QED
  BY <1>1, <1>6, <1>7

-----------------------------------------------------------------------------
(* One step towards a tick                                                 *)

\* The smaller of two numbers.
LEMMA MinOfTwo ==
  ASSUME NEW a \in Int, NEW b \in Int
  PROVE  Min({a, b}) = IF a <= b THEN a ELSE b
<1>1. a <= b => \A x \in {a, b} : (\A y \in {a, b} : x <= y) <=> x = a
  OBVIOUS
<1>2. ~(a <= b) => \A x \in {a, b} : (\A y \in {a, b} : x <= y) <=> x = b
  OBVIOUS
<1> QED
  BY <1>1, <1>2 DEF Min

\* The larger of two numbers.
LEMMA MaxOfTwo ==
  ASSUME NEW a \in Int, NEW b \in Int
  PROVE  Max({a, b}) = IF a >= b THEN a ELSE b
<1>1. a >= b => \A x \in {a, b} : (\A y \in {a, b} : x >= y) <=> x = a
  OBVIOUS
<1>2. ~(a >= b) => \A x \in {a, b} : (\A y \in {a, b} : x >= y) <=> x = b
  OBVIOUS
<1> QED
  BY <1>1, <1>2 DEF Max

\* What an amount pays for.
LEMMA Affordable ==
  ASSUME NEW r \in Nat, NEW unit \in Nat \ {0}
  PROVE  r \div unit \in Nat /\ (r \div unit) * unit <= r /\ r - (r \div unit) * unit < unit
<1>1. r = unit * (r \div unit) + (r % unit) /\ r % unit \in 0..(unit - 1) /\ r \div unit \in Nat
  OBVIOUS
<1> QED
  BY <1>1

\* Fewer units cost less.
LEMMA ProductsGrow ==
  ASSUME NEW n \in Nat, NEW m \in Nat, n <= m, NEW unit \in Nat
  PROVE  n * unit \in Nat /\ n * unit <= m * unit
OBVIOUS

\* What a unit of price takes on some liquidity.
UnitCost(liquidity) == IF liquidity = 0 THEN 0 ELSE liquidity + UnitFee

Distance(price, target) == IF price > target THEN price - target ELSE target - price

\* s is a step that buys n units of price on its way to the target: all there are, or
\* what the amount pays for.
Buys(n, price, target, liquidity, remaining, s) ==
  /\ s.price = IF price > target THEN price - n ELSE price + n
  /\ s.amount_in = n * liquidity /\ s.amount_out = n * liquidity /\ n * liquidity \in Nat
  /\ s.fee \in Nat /\ s.amount_in + s.fee <= remaining
  /\ n * UnitCost(liquidity) \in Nat /\ n * UnitCost(liquidity) <= remaining
  /\ n = Distance(price, target) => s.amount_in + s.fee = n * UnitCost(liquidity)
  /\ n < Distance(price, target) =>
       /\ liquidity # 0 /\ s.amount_in + s.fee = remaining
       /\ remaining - n * UnitCost(liquidity) < UnitCost(liquidity)

\* compute_swap_step makes such a step.
LEMMA SwapStepIs ==
  ASSUME NEW price \in Int, NEW target \in Int, NEW liquidity \in Nat, NEW remaining \in Nat
  PROVE  /\ Distance(price, target) \in Nat
         /\ \E n \in 0..Distance(price, target) :
              Buys(n, price, target, liquidity, remaining, SwapStep(price, target, liquidity, remaining))
<1> DEFINE dist == Distance(price, target)
           s    == SwapStep(price, target, liquidity, remaining)
<1>0. dist \in Nat
  BY DEF Distance
<1> DEFINE unit == liquidity + UnitFee
           n == IF liquidity = 0 THEN dist ELSE Min({dist, remaining \div unit})
<1>1. /\ s.price = IF price > target THEN price - n ELSE price + n
      /\ s.amount_in = n * liquidity /\ s.amount_out = n * liquidity
      /\ s.fee = IF liquidity = 0 THEN 0 ELSE IF n < dist THEN remaining - n * liquidity ELSE n * UnitFee
  BY DEF SwapStep, Distance
<1> HIDE DEF dist, s
<1>2. ASSUME liquidity = 0
      PROVE  \E m \in 0..dist : Buys(m, price, target, liquidity, remaining, s)
  <2>1. n = dist /\ n * liquidity = 0 /\ UnitCost(liquidity) = 0 /\ n * 0 = 0
    BY <1>0, <1>2 DEF UnitCost
  <2>2. n \in 0..dist /\ n * liquidity \in Nat
    BY <1>0, <2>1
  <2>3. 0 <= remaining /\ 0 \in Nat /\ s.amount_in = 0 /\ s.fee = 0 /\ n * UnitCost(liquidity) = 0 /\ ~(n < dist)
    BY <1>0, <1>1, <1>2, <2>1
  <2> HIDE DEF n
  <2> QED
    BY <1>0, <1>1, <2>2, <2>3 DEF Buys, dist
<1>3. ASSUME liquidity # 0
      PROVE  \E m \in 0..dist : Buys(m, price, target, liquidity, remaining, s)
  <2>1. unit \in Nat \ {0} /\ UnitCost(liquidity) = unit /\ UnitFee \in Nat
    BY <1>3, SwapWalkAssumption DEF UnitCost
  <2>2. remaining \div unit \in Nat /\ (remaining \div unit) * unit <= remaining
        /\ remaining - (remaining \div unit) * unit < unit
    BY <2>1, Affordable
  <2>3. n = IF dist <= remaining \div unit THEN dist ELSE remaining \div unit
    BY <1>0, <1>3, <2>2, MinOfTwo
  <2>4. n \in 0..dist /\ n <= remaining \div unit /\ (n < dist => n = remaining \div unit)
    BY <1>0, <2>2, <2>3
  <2>5. n * unit = n * liquidity + n * UnitFee /\ n * liquidity \in Nat /\ n * UnitFee \in Nat
    <3> HIDE DEF n
    <3> QED
      BY <2>1, <2>4
  <2>6. n * unit \in Nat /\ n * unit <= remaining
    <3> HIDE DEF n, unit
    <3>1. n * unit \in Nat /\ n * unit <= (remaining \div unit) * unit
      BY <2>1, <2>2, <2>4, ProductsGrow
    <3> QED
      BY <3>1, <2>1, <2>2
  <2>7. n < dist => remaining - n * unit < unit
    <3> HIDE DEF n, unit
    <3> QED
      BY <2>2, <2>4
  <2>8. n * liquidity <= remaining
    <3> HIDE DEF n, unit
    <3> QED
      BY <2>1, <2>4, <2>5, <2>6
  <2>9. n < dist => s.fee = remaining - n * liquidity
    BY <1>1, <1>3
  <2>10. ~(n < dist) => s.fee = n * UnitFee
    BY <1>1, <1>3
  <2> HIDE DEF n, unit
  <2>11. s.fee \in Nat /\ s.amount_in + s.fee <= remaining
    BY <1>1, <2>4, <2>5, <2>6, <2>8, <2>9, <2>10
  <2>12. n = dist => s.amount_in + s.fee = n * unit
    BY <1>1, <2>4, <2>5, <2>10
  <2>13. n < dist => s.amount_in + s.fee = remaining
    BY <1>1, <2>5, <2>9
  <2>14. Buys(n, price, target, liquidity, remaining, s)
    BY <1>0, <1>1, <1>3, <2>1, <2>4, <2>5, <2>6, <2>7, <2>11, <2>12, <2>13 DEF Buys, dist
  <2> QED
    BY <2>4, <2>14
<1> QED
  BY <1>0, <1>2, <1>3 DEF dist, s

-----------------------------------------------------------------------------
(* The tick a step goes to                                                 *)

\* No initialized tick is left out between the tick t and the current one.
NothingSkipped(t) ==
  IF ask.zero_for_one
  THEN t <= state.tick /\ \A v \in DOMAIN pool.net : ~(t < v /\ v <= state.tick)
  ELSE t > state.tick /\ \A v \in DOMAIN pool.net : ~(state.tick < v /\ v < t)

\* The loop is in the first array, and takes it for the price's unless it starts outside.
InFirst ==
  /\ ~NoArray /\ current = FirstArray /\ valid = FirstArray /\ QueueBehind
  /\ matched \in BOOLEAN /\ (FirstArrayExists => matched)
  /\ ~matched => state.tick = pool.tick
  /\ starts = <<FirstArray>>

\* The nearest tick of the array is the nearest of all.
LEMMA NextTickIs ==
  ASSUME Chosen, InFirst, state.tick \in Int, TicksHere # {},
         NEW t, t = Nearest(TicksHere, ask.zero_for_one)
  PROVE  t \in DOMAIN pool.net /\ t \in Int /\ ArrayStart(t) = FirstArray /\ NothingSkipped(t)
<1> DEFINE H == TicksHere
           A == AheadInArray(pool, current, state.tick, ask.zero_for_one)
           D == DOMAIN pool.net
           T == state.tick
<1>1. /\ D \subseteq Int /\ IsFiniteSet(D) /\ ask.zero_for_one \in BOOLEAN
      /\ FirstArray \in Int /\ current = FirstArray
  BY PoolIs, FinitelyMany, FirstIs, AskIs DEF InFirst
<1>2. H \in SUBSET {u \in D : ArrayStart(u) = FirstArray}
  BY <1>1 DEF TicksHere, AheadInArray, InArray
<1>3. H \subseteq Int /\ IsFiniteSet(H)
  <2> HIDE DEF H
  <2>1. H \in SUBSET D
    BY <1>2
  <2> QED
    BY <1>1, <2>1, FS_Subset
<1>4. t \in H /\ \A u \in H : IF ask.zero_for_one THEN u <= t ELSE u >= t
  <2> HIDE DEF H
  <2>1. t = Nearest(H, ask.zero_for_one) /\ H # {}
    BY DEF H
  <2> QED
    BY <1>1, <1>3, <2>1, NearestIs
<1>5. t \in D /\ t \in Int /\ ArrayStart(t) = FirstArray
  BY <1>1, <1>2, <1>4
<1>d. ask.zero_for_one => \A u \in H : u <= t
  BY <1>4
<1>u. ~ask.zero_for_one => \A u \in H : u >= t
  BY <1>4
<1>6. CASE A # {}
  <2>1. /\ ArrayStart(T) = FirstArray /\ H = A
        /\ \A u \in D : u \in H <=> /\ ArrayStart(u) = FirstArray
                                    /\ IF ask.zero_for_one THEN u <= T ELSE u > T
    BY <1>1, <1>6 DEF TicksHere, AheadInArray, InArray
  <2> HIDE DEF H, A
  <2>2. CASE ask.zero_for_one
    <3>1. t <= T
      BY <1>4, <1>5, <2>1, <2>2
    <3>2. ASSUME NEW v \in D, t < v, v <= T PROVE FALSE
      <4>1. ArrayStart(t) <= ArrayStart(v) /\ ArrayStart(v) <= ArrayStart(T) /\ ArrayStart(v) \in Int
        BY <1>1, <1>5, <3>2, StartsGrow, StartIs
      <4>2. v \in H
        BY <1>1, <1>5, <2>1, <2>2, <3>2, <4>1
      <4> QED
        <5>1. v <= t
          BY <1>d, <2>2, <4>2
        <5>2. v \in Int /\ t < v
          BY <1>1, <3>2
        <5> QED
          BY ONLY <1>5, <5>1, <5>2
    <3> QED
      BY <1>5, <2>2, <3>1, <3>2 DEF NothingSkipped
  <2>3. CASE ~ask.zero_for_one
    <3>1. t > T
      BY <1>4, <1>5, <2>1, <2>3
    <3>2. ASSUME NEW v \in D, T < v, v < t PROVE FALSE
      <4>1. ArrayStart(T) <= ArrayStart(v) /\ ArrayStart(v) <= ArrayStart(t) /\ ArrayStart(v) \in Int
        BY <1>1, <1>5, <3>2, StartsGrow, StartIs
      <4>2. v \in H
        BY <1>1, <1>5, <2>1, <2>3, <3>2, <4>1
      <4> QED
        <5>1. v >= t
          BY <1>u, <2>3, <4>2
        <5>2. v \in Int /\ v < t
          BY <1>1, <3>2
        <5> QED
          BY ONLY <1>5, <5>1, <5>2
    <3> QED
      BY <1>5, <2>3, <3>1, <3>2 DEF NothingSkipped
  <2> QED
    BY <1>1, <2>2, <2>3
<1>7. CASE A = {}
  <2>1. ~matched /\ H = InArray(pool, current)
    BY <1>7 DEF TicksHere
  <2>2. \A u \in D : u \in H <=> ArrayStart(u) = FirstArray
    BY <1>1, <2>1 DEF InArray
  <2> HIDE DEF H, A
  <2>3. T = pool.tick /\ ~FirstArrayExists /\ ~NoArray
    BY <2>1 DEF InFirst
  <2>4. /\ ArrayStart(T) \notin pool.flagged
        /\ IF ask.zero_for_one THEN FirstArray < ArrayStart(T) ELSE FirstArray > ArrayStart(T)
        /\ \A s \in pool.flagged : IF ask.zero_for_one THEN s < ArrayStart(T) => s <= FirstArray
                                                       ELSE s > ArrayStart(T) => s >= FirstArray
    BY <2>3, FirstIs
  <2>5. ArrayStart(T) \in Int /\ \A v \in D : v \in Int /\ ArrayStart(v) \in Int /\ ArrayStart(v) \in pool.flagged
    BY <1>1, StartIs, PoolIs
  <2>6. CASE ask.zero_for_one
    <3>1. t <= T
      <4>1. T <= t => ArrayStart(T) <= ArrayStart(t)
        BY <1>5, StartsGrow
      <4> QED
        <5>1. FirstArray < ArrayStart(T) /\ ArrayStart(T) \in Int
          BY <2>4, <2>5, <2>6
        <5> HIDE DEF T
        <5> QED
          BY <1>1, <1>5, <4>1, <5>1, state.tick \in Int DEF T
    <3>2. ASSUME NEW v \in D, t < v, v <= T PROVE FALSE
      <4>1. ArrayStart(t) <= ArrayStart(v) /\ ArrayStart(v) <= ArrayStart(T)
        BY <1>1, <1>5, <3>2, StartsGrow
      <4>2. ArrayStart(v) < ArrayStart(T) /\ ArrayStart(v) <= FirstArray
        BY <2>4, <2>5, <2>6, <4>1
      <4>3. v \in H
        BY <1>1, <1>5, <2>2, <2>5, <4>1, <4>2
      <4> QED
        <5>1. v <= t
          BY <1>d, <2>6, <4>3
        <5>2. v \in Int /\ t < v
          BY <1>1, <3>2
        <5> QED
          BY ONLY <1>5, <5>1, <5>2
    <3> QED
      BY <1>5, <2>6, <3>1, <3>2 DEF NothingSkipped
  <2>7. CASE ~ask.zero_for_one
    <3>1. t > T
      <4>1. t <= T => ArrayStart(t) <= ArrayStart(T)
        BY <1>5, StartsGrow
      <4> QED
        BY <1>1, <1>5, <2>4, <2>5, <2>7, <4>1
    <3>2. ASSUME NEW v \in D, T < v, v < t PROVE FALSE
      <4>1. ArrayStart(T) <= ArrayStart(v) /\ ArrayStart(v) <= ArrayStart(t)
        BY <1>1, <1>5, <3>2, StartsGrow
      <4>2. ArrayStart(v) > ArrayStart(T) /\ ArrayStart(v) >= FirstArray
        BY <2>4, <2>5, <2>7, <4>1
      <4>3. v \in H
        BY <1>1, <1>5, <2>2, <2>5, <4>1, <4>2
      <4> QED
        <5>1. v >= t
          BY <1>u, <2>7, <4>3
        <5>2. v \in Int /\ v < t
          BY <1>1, <3>2
        <5> QED
          BY ONLY <1>5, <5>1, <5>2
    <3> QED
      BY <1>5, <2>7, <3>1, <3>2 DEF NothingSkipped
  <2> QED
    BY <1>1, <2>6, <2>7
<1> QED
  BY <1>5, <1>6, <1>7

-----------------------------------------------------------------------------
(* What a step does                                                        *)

\* The swap in progress: its numbers, on the right side of the limit, the tick the
\* price's and the liquidity the tick's.
InStep ==
  /\ state.remaining \in Nat /\ state.calculated \in Nat /\ state.fee \in Nat
  /\ state.price \in Int /\ state.tick \in MinTick..MaxTick /\ state.liquidity \in Nat
  /\ IF ask.zero_for_one THEN Limit <= state.price ELSE state.price <= Limit
  /\ PriceAt(state.tick) <= state.price /\ state.price <= PriceAt(state.tick + 1)
  /\ state.liquidity = SeenLiquidity(state.tick)

\* The price n units on.
PriceAfter(n) == IF ask.zero_for_one THEN state.price - n ELSE state.price + n

\* s is the swap n units of price on towards the tick t.
Progress(n, t, s) ==
  /\ s.price = PriceAfter(n)
  /\ IF ask.zero_for_one THEN Limit <= s.price /\ PriceAt(t) <= s.price
                         ELSE s.price <= Limit /\ s.price <= PriceAt(t)
  /\ n * state.liquidity \in Nat /\ s.calculated = state.calculated + n * state.liquidity
  /\ s.fee \in Nat /\ s.remaining \in Nat /\ s.remaining <= state.remaining
  /\ n * UnitCost(state.liquidity) \in Nat /\ n * UnitCost(state.liquidity) <= state.remaining
  /\ \/ /\ s.remaining = state.remaining - n * UnitCost(state.liquidity)
        /\ s.price = PriceAt(t) \/ s.price = Limit
     \/ /\ s.remaining = 0 /\ state.liquidity # 0 /\ s.price # PriceAt(t) /\ s.price # Limit
        /\ state.remaining - n * UnitCost(state.liquidity) < UnitCost(state.liquidity)
  /\ s.liquidity \in Int /\ s.liquidity = SeenLiquidity(s.tick)
  /\ s.tick \in MinTick..MaxTick
  /\ PriceAt(s.tick) <= s.price /\ s.price <= PriceAt(s.tick + 1)
  /\ s.price = PriceAt(t) => s.tick = IF ask.zero_for_one THEN t - 1 ELSE t

\* The limit is within the first and the last tick.
LEMMA LimitIs ==
  /\ Limit \in Int /\ MinTick \in Int /\ MaxTick \in Int /\ MinTick < MaxTick
  /\ ask.zero_for_one => Limit = 2 * MinTick + 1
  /\ ~ask.zero_for_one => Limit = 2 * MaxTick - 1
BY SwapWalkAssumption DEF Limit, Grain

\* The target lies ahead of the price, at the tick or at the limit.
LEMMA TargetIs ==
  ASSUME Chosen, InStep, Walking, NEW t \in DOMAIN pool.net, NothingSkipped(t)
  PROVE  /\ t \in Int /\ t \in MinTick..MaxTick /\ Target(t) \in Int
         /\ Target(t) = PriceAt(t) \/ Target(t) = Limit
         /\ IF ask.zero_for_one
            THEN Target(t) <= state.price /\ PriceAt(t) <= Target(t) /\ Limit <= Target(t)
            ELSE Target(t) >= state.price /\ PriceAt(t) >= Target(t) /\ Limit >= Target(t)
<1>1. t \in Int /\ t \in MinTick..MaxTick /\ PriceAt(t) = 2 * t /\ PriceAt(t) \in Int
  BY PoolIs, LimitIs DEF Tick, PriceAt, Grain
<1>2. /\ state.price \in Int /\ state.tick \in Int
      /\ 2 * state.tick <= state.price /\ state.price <= 2 * (state.tick + 1)
      /\ IF ask.zero_for_one THEN Limit <= state.price ELSE state.price <= Limit
  BY LimitIs DEF InStep, PriceAt, Grain
<1>3. CASE ask.zero_for_one
  <2>1. Target(t) = IF PriceAt(t) >= Limit THEN PriceAt(t) ELSE Limit
    BY <1>1, <1>3, LimitIs, MaxOfTwo DEF Target
  <2>2. t <= state.tick
    BY <1>3 DEF NothingSkipped
  <2> QED
    BY <1>1, <1>2, <1>3, <2>1, <2>2, LimitIs
<1>4. CASE ~ask.zero_for_one
  <2>1. Target(t) = IF PriceAt(t) <= Limit THEN PriceAt(t) ELSE Limit
    BY <1>1, <1>4, LimitIs, MinOfTwo DEF Target
  <2>2. t > state.tick
    BY <1>4 DEF NothingSkipped
  <2> QED
    BY <1>1, <1>2, <1>4, <2>1, <2>2, LimitIs
<1> QED
  BY <1>3, <1>4

\* A step keeps the liquidity in step with the tick.
LEMMA OneStep ==
  ASSUME Chosen, InStep, Walking, NEW t \in DOMAIN pool.net, NothingSkipped(t),
         NEW s, s = Advance(t, SwapStep(state.price, Target(t), state.liquidity, state.remaining))
  PROVE  \E n \in Nat : Progress(n, t, s)
<1> DEFINE P == state.price
           T == state.tick
           L == state.liquidity
           R == state.remaining
           step == SwapStep(P, Target(t), L, R)
           dist == Distance(P, Target(t))
           reached == step.price = PriceAt(t)
<1>1. /\ t \in Int /\ t \in MinTick..MaxTick /\ Target(t) \in Int
      /\ Target(t) = PriceAt(t) \/ Target(t) = Limit
      /\ PriceAt(t) = 2 * t /\ pool.net[t] \in Int /\ t - 1 \in Int
  BY TargetIs, PoolIs DEF PriceAt, Grain
<1>2. /\ P \in Int /\ T \in Int /\ L \in Nat /\ R \in Nat /\ L = SeenLiquidity(T) /\ state.calculated \in Nat
      /\ state.fee \in Nat
      /\ 2 * T <= P /\ P <= 2 * T + 2 /\ T \in MinTick..MaxTick
      /\ R # 0 /\ P # Limit /\ T < MaxTick /\ T > MinTick
  BY LimitIs DEF InStep, PriceAt, Grain, Walking
<1>3. dist \in Nat
  BY <1>1, <1>2 DEF Distance
<1>4. PICK n \in 0..dist : Buys(n, P, Target(t), L, R, step)
  <2>1. P \in Int /\ Target(t) \in Int /\ L \in Nat /\ R \in Nat
    BY <1>1, <1>2
  <2> HIDE DEF P, L, R
  <2> QED
    BY <2>1, SwapStepIs
<1>5. /\ s.remaining = R - (step.amount_in + step.fee)
      /\ s.calculated = state.calculated + step.amount_out
      /\ s.fee = state.fee + step.fee
      /\ s.price = step.price
      /\ s.liquidity = IF ~reached THEN L ELSE IF ask.zero_for_one THEN L - pool.net[t] ELSE L + pool.net[t]
      /\ s.tick = IF reached THEN IF ask.zero_for_one THEN t - 1 ELSE t
                  ELSE IF step.price # P THEN TickAt(step.price) ELSE T
  BY DEF Advance
<1> HIDE DEF step, dist
<1>6. /\ s.fee \in Nat /\ s.remaining \in Nat /\ s.remaining <= R
      /\ s.calculated = state.calculated + n * L
  <2>1. step.fee \in Nat /\ step.amount_in \in Nat /\ step.amount_in + step.fee <= R /\ step.amount_out = n * L
    <3>1. n * L \in Nat /\ step.amount_in = n * L
      BY <1>4 DEF Buys
    <3> QED
      BY <1>4, <3>1 DEF Buys
  <2> QED
    BY <1>2, <1>5, <2>1
<1>7. n \in Nat /\ n <= dist /\ (n = dist \/ n < dist)
  BY <1>3, <1>4
<1>8. /\ n = dist => s.remaining = R - n * UnitCost(L)
      /\ n < dist => s.remaining = 0 /\ L # 0 /\ R - n * UnitCost(L) < UnitCost(L)
  <2>1. /\ n = dist => step.amount_in + step.fee = n * UnitCost(L)
        /\ n < dist => L # 0 /\ step.amount_in + step.fee = R /\ R - n * UnitCost(L) < UnitCost(L)
    BY <1>4 DEF Buys, dist
  <2> QED
    BY <1>2, <1>5, <2>1
<1>9. CASE ask.zero_for_one
  <2>1. Target(t) <= P /\ 2 * t <= Target(t) /\ Limit <= Target(t) /\ t <= T
        /\ \A v \in DOMAIN pool.net : ~(t < v /\ v <= T)
    BY <1>1, <1>9, TargetIs DEF NothingSkipped
  <2>2. dist = P - Target(t)
    BY <1>1, <1>2, <2>1 DEF dist, Distance
  <2>3. step.price = P - n
    <3>1. step.price = IF P > Target(t) THEN P - n ELSE P + n
      BY <1>4 DEF Buys
    <3> QED
      BY <1>1, <1>2, <1>7, <2>1, <2>2, <3>1
  <2>4. step.price \in Int /\ Limit <= step.price /\ 2 * t <= step.price /\ step.price <= P
        /\ (n = dist => step.price = Target(t))
    BY <1>1, <1>2, <1>7, <2>1, <2>2, <2>3, LimitIs
  <2>5. /\ s.tick \in MinTick..MaxTick /\ s.liquidity \in Int /\ s.liquidity = SeenLiquidity(s.tick)
        /\ 2 * s.tick <= s.price /\ s.price <= 2 * (s.tick + 1)
        /\ reached => s.tick = t - 1
    <3>1. CASE reached
      <4>1. s.tick = t - 1 /\ s.price = 2 * t /\ s.liquidity = L - pool.net[t]
        BY <1>1, <1>5, <1>9, <3>1
      <4>2. t > MinTick
        BY <1>1, <1>5, <1>9, <2>4, <4>1, LimitIs
      <4>3. SeenLiquidity(T) = SeenLiquidity(t) /\ SeenLiquidity(t) = SeenLiquidity(t - 1) + pool.net[t]
        BY <1>1, <1>2, <2>1, SeenSame, SeenOne
      <4>4. SeenLiquidity(t - 1) \in Int
        BY <1>1, SeenIsInt
      <4>5. s.liquidity = SeenLiquidity(t - 1)
        BY <1>1, <1>2, <4>1, <4>3, <4>4
      <4> QED
        BY <1>1, <1>2, <4>1, <4>2, <4>4, <4>5, LimitIs
    <3>2. CASE ~reached /\ step.price # P
      <4> DEFINE k == TickAt(step.price)
      <4>1. s.tick = k /\ s.price = step.price /\ s.liquidity = L
        BY <1>5, <3>2
      <4>2. k \in Int /\ 2 * k <= s.price /\ s.price < 2 * (k + 1)
        BY <2>4, <4>1, TickAtIs DEF PriceAt, Grain
      <4> HIDE DEF k
      <4>3. t <= k /\ k <= T
        <5>1. 2 * t < s.price /\ s.price < 2 * T + 2 /\ s.price \in Int
          BY <1>1, <1>2, <2>4, <3>2, <4>1
        <5> QED
          BY <1>1, <1>2, <4>2, <5>1
      <4>4. SeenLiquidity(T) = SeenLiquidity(k)
        <5>1. \A v \in DOMAIN pool.net : ~(k < v /\ v <= T)
          BY <1>1, <2>1, <4>2, <4>3, PoolIs
        <5> QED
          BY <1>2, <4>2, <4>3, <5>1, SeenSame
      <4>5. k \in MinTick..MaxTick
        BY <1>1, <1>2, <4>2, <4>3, LimitIs
      <4>6. s.liquidity \in Int /\ s.liquidity = SeenLiquidity(s.tick)
        BY <1>2, <4>1, <4>4
      <4>7. s.tick \in MinTick..MaxTick
        BY <4>1, <4>5
      <4>8. 2 * s.tick <= s.price /\ s.price <= 2 * (s.tick + 1)
        BY <2>4, <4>1, <4>2
      <4> QED
        BY <3>2, <4>6, <4>7, <4>8
    <3>3. CASE ~reached /\ step.price = P
      <4>1. s.tick = T /\ s.price = P /\ s.liquidity = L
        BY <1>5, <3>3
      <4> QED
        BY <1>2, <3>3, <4>1
    <3> QED
      BY <3>1, <3>2, <3>3
  <2>6. s.price = PriceAfter(n) /\ Limit <= s.price /\ PriceAt(t) <= s.price
    BY <1>1, <1>5, <1>9, <2>3, <2>4 DEF PriceAfter
  <2>7. /\ n = dist => s.price = PriceAt(t) \/ s.price = Limit
        /\ n < dist => s.price # PriceAt(t) /\ s.price # Limit
    BY <1>1, <1>2, <1>5, <1>7, <2>1, <2>2, <2>3, <2>4, LimitIs
  <2>8. s.price = PriceAt(t) => s.tick = t - 1
    BY <1>5, <2>5
  <2>9. PriceAt(s.tick) <= s.price /\ s.price <= PriceAt(s.tick + 1)
    BY <2>5 DEF PriceAt, Grain
  <2>10. n * L \in Nat /\ n * UnitCost(L) \in Nat /\ n * UnitCost(L) <= R
    BY <1>4 DEF Buys
  <2> HIDE DEF reached
  <2> QED
    BY <2>10, <1>6, <1>7, <1>8, <1>9, <2>5, <2>6, <2>7, <2>8, <2>9 DEF Progress
<1>10. CASE ~ask.zero_for_one
  <2>1. Target(t) >= P /\ 2 * t >= Target(t) /\ Limit >= Target(t) /\ t > T
        /\ \A v \in DOMAIN pool.net : ~(T < v /\ v < t)
    BY <1>1, <1>10, TargetIs DEF NothingSkipped
  <2>2. dist = Target(t) - P
    BY <1>1, <1>2, <2>1 DEF dist, Distance
  <2>3. step.price = P + n
    <3>1. step.price = IF P > Target(t) THEN P - n ELSE P + n
      BY <1>4 DEF Buys
    <3> QED
      BY <1>1, <1>2, <1>7, <2>1, <2>2, <3>1
  <2>4. step.price \in Int /\ Limit >= step.price /\ 2 * t >= step.price /\ step.price >= P
        /\ (n = dist => step.price = Target(t))
    BY <1>1, <1>2, <1>7, <2>1, <2>2, <2>3, LimitIs
  <2>5. /\ s.tick \in MinTick..MaxTick /\ s.liquidity \in Int /\ s.liquidity = SeenLiquidity(s.tick)
        /\ 2 * s.tick <= s.price /\ s.price <= 2 * (s.tick + 1)
        /\ reached => s.tick = t
    <3>1. CASE reached
      <4>1. s.tick = t /\ s.price = 2 * t /\ s.liquidity = L + pool.net[t]
        BY <1>1, <1>5, <1>10, <3>1
      <4>2. \A v \in DOMAIN pool.net : ~(T < v /\ v <= t - 1)
        BY <1>1, <1>2, <2>1, PoolIs
      <4>3. SeenLiquidity(t - 1) = SeenLiquidity(T) /\ SeenLiquidity(t) = SeenLiquidity(t - 1) + pool.net[t]
        BY <1>1, <1>2, <2>1, <4>2, SeenSame, SeenOne
      <4>4. SeenLiquidity(t) \in Int
        BY <1>1, SeenIsInt
      <4>5. s.liquidity = SeenLiquidity(t)
        BY <1>1, <1>2, <4>1, <4>3, <4>4
      <4> QED
        BY <1>1, <1>2, <4>1, <4>4, <4>5, LimitIs
    <3>2. CASE ~reached /\ step.price # P
      <4> DEFINE k == TickAt(step.price)
      <4>1. s.tick = k /\ s.price = step.price /\ s.liquidity = L
        BY <1>5, <3>2
      <4>2. k \in Int /\ 2 * k <= s.price /\ s.price < 2 * (k + 1)
        BY <2>4, <4>1, TickAtIs DEF PriceAt, Grain
      <4> HIDE DEF k
      <4>3. T <= k /\ k < t
        <5>1. 2 * t > s.price /\ s.price > 2 * T /\ s.price \in Int
          BY <1>1, <1>2, <2>4, <3>2, <4>1
        <5> QED
          BY <1>1, <1>2, <4>2, <5>1
      <4>4. SeenLiquidity(k) = SeenLiquidity(T)
        <5>1. \A v \in DOMAIN pool.net : ~(T < v /\ v <= k)
          BY <1>1, <2>1, <4>2, <4>3, PoolIs
        <5> QED
          BY <1>2, <4>2, <4>3, <5>1, SeenSame
      <4>5. k \in MinTick..MaxTick
        BY <1>1, <1>2, <4>2, <4>3, LimitIs
      <4>6. s.liquidity \in Int /\ s.liquidity = SeenLiquidity(s.tick)
        BY <1>2, <4>1, <4>4
      <4>7. s.tick \in MinTick..MaxTick
        BY <4>1, <4>5
      <4>8. 2 * s.tick <= s.price /\ s.price <= 2 * (s.tick + 1)
        BY <2>4, <4>1, <4>2
      <4> QED
        BY <3>2, <4>6, <4>7, <4>8
    <3>3. CASE ~reached /\ step.price = P
      <4>1. s.tick = T /\ s.price = P /\ s.liquidity = L
        BY <1>5, <3>3
      <4> QED
        BY <1>2, <3>3, <4>1
    <3> QED
      BY <3>1, <3>2, <3>3
  <2>6. s.price = PriceAfter(n) /\ s.price <= Limit /\ s.price <= PriceAt(t)
    BY <1>1, <1>5, <1>10, <2>3, <2>4 DEF PriceAfter
  <2>7. /\ n = dist => s.price = PriceAt(t) \/ s.price = Limit
        /\ n < dist => s.price # PriceAt(t) /\ s.price # Limit
    BY <1>1, <1>2, <1>5, <1>7, <2>1, <2>2, <2>3, <2>4, LimitIs
  <2>8. s.price = PriceAt(t) => s.tick = t
    BY <1>5, <2>5
  <2>9. PriceAt(s.tick) <= s.price /\ s.price <= PriceAt(s.tick + 1)
    BY <2>5 DEF PriceAt, Grain
  <2>10. n * L \in Nat /\ n * UnitCost(L) \in Nat /\ n * UnitCost(L) <= R
    BY <1>4 DEF Buys
  <2> HIDE DEF reached
  <2> QED
    BY <2>10, <1>6, <1>7, <1>8, <1>10, <2>5, <2>6, <2>7, <2>8, <2>9 DEF Progress
<1> QED
  BY <1>9, <1>10

-----------------------------------------------------------------------------
(* The inductive invariant                                                 *)

\* While it runs and when it returned a quote, the walk is in the first array and in
\* step with the pool; nothing runs on once the loop has ended.
InWalk ==
  pc \in {"loop", "ok"} => InFirst /\ InStep /\ state.remaining <= RealAmount

Stopped ==
  pc = "ok" => ~(state.remaining # 0 /\ state.price # Limit /\ state.tick < MaxTick /\ state.tick > MinTick)

IInv == Chosen /\ TypeOK /\ InWalk /\ Stopped

\* What depends on the pool and the arguments only does not change.
LEMMA Fixed ==
  ASSUME UNCHANGED <<pool, ask>>
  PROVE  /\ Limit' = Limit /\ RealAmount' = RealAmount /\ FirstArray' = FirstArray
         /\ FirstArrayExists' = FirstArrayExists /\ NoArray' = NoArray
         /\ FeeIn' = FeeIn /\ FeeOut' = FeeOut
BY DEF Limit, RealAmount, AfterFee, FeeIn, FeeOut, FirstArray, FirstArrayExists, NoArray, NextArrays, Arrays

\* Nor does the liquidity.
LEMMA SeenFixed ==
  ASSUME UNCHANGED <<pool, ask>>
  PROVE  \A t : SeenLiquidity(t)' = SeenLiquidity(t)
BY DEF SeenLiquidity

\* A transfer fee leaves a natural number, and is not deducted below the amount.
LEMMA AfterFeeIs ==
  ASSUME Chosen, NEW amount \in Nat, NEW fee \in Nat
  PROVE  /\ AfterFee(amount, fee) \in Nat
         /\ ask.base_input => AfterFee(amount, fee) <= amount
         /\ ~ask.base_input => AfterFee(amount, fee) = amount + (IF amount <= fee THEN amount ELSE fee)
<1>1. Min({amount, fee}) = IF amount <= fee THEN amount ELSE fee
  BY MinOfTwo
<1> QED
  BY <1>1, AskIs DEF AfterFee

\* The fees and the amount to swap are natural numbers.
LEMMA FeesAre ==
  ASSUME Chosen
  PROVE  FeeIn \in Nat /\ FeeOut \in Nat /\ RealAmount \in Nat
<1>1. FeeIn \in Nat /\ FeeOut \in Nat
  BY PoolIs DEF FeeIn, FeeOut
<1> QED
  BY <1>1, AskIs, AfterFeeIs DEF RealAmount

\* It holds before the call begins.
LEMMA IInvInit == Init => IInv
<1> SUFFICES ASSUME Init PROVE IInv
  OBVIOUS
<1>1. Chosen
  BY DEF Init, Chosen
<1>2. TypeOK
  <2>1. pool.price \in Price /\ pool.tick \in (MinTick - 1)..MaxTick
    BY <1>1, PoolIs, SwapWalkAssumption DEF Price, Tick
  <2>2. 0 \in 0..(LoopLimit + 1) /\ <<>> \in Seq(Int)
    BY SwapWalkAssumption
  <2>3. /\ state.remaining = 0 /\ state.calculated = 0 /\ state.fee = 0 /\ state.liquidity = 0
        /\ state.price = pool.price /\ state.tick = pool.tick /\ pc = "entry"
        /\ current = 0 /\ valid = 0 /\ queue = <<>> /\ starts = <<>> /\ matched = FALSE /\ loops = 0 /\ result = 0
    BY DEF Init
  <2>4. DOMAIN pool.net \subseteq Tick /\ ask \in Ask
    BY <1>1, PoolIs, AskIs
  <2>5. state.price \in Price /\ state.tick \in (MinTick - 1)..MaxTick
    BY <2>1, <2>3
  <2>6. /\ state.remaining \in Nat /\ state.calculated \in Nat /\ state.fee \in Nat /\ state.liquidity \in Nat
        /\ current \in Int /\ valid \in Int /\ result \in Nat
    BY <2>3
  <2>7. queue \in Seq(Int) /\ starts \in Seq(Int) /\ loops \in 0..(LoopLimit + 1)
    BY <2>2, <2>3
  <2>8. matched \in BOOLEAN
    BY DEF Init
  <2> QED
    BY <2>3, <2>4, <2>5, <2>6, <2>7, <2>8 DEF TypeOK
<1> QED
  BY <1>1, <1>2 DEF Init, IInv, InWalk, Stopped

\* What a step needs to know, and what it does to the loop.
LEMMA StepKeeps ==
  ASSUME IInv, Walking, loops <= LoopLimit, TicksHere # {}, ~StepAborts(TicksHere), StepTo(TicksHere),
         UNCHANGED <<pool, ask, pc, current, valid, queue, starts, result>>
  PROVE  /\ \E t \in DOMAIN pool.net, n \in Nat :
              NothingSkipped(t) /\ ArrayStart(t) = FirstArray /\ Progress(n, t, state')
         /\ state'.liquidity >= 0
         /\ InWalk' /\ matched' = TRUE
<1>1. Chosen /\ InFirst /\ InStep /\ state.remaining <= RealAmount /\ state.tick \in Int
  BY LimitIs DEF IInv, InWalk, Walking, InStep
<1> DEFINE t == Nearest(TicksHere, ask.zero_for_one)
<1>2. t \in DOMAIN pool.net /\ NothingSkipped(t) /\ ArrayStart(t) = FirstArray
  <2> HIDE DEF t
  <2> QED
    BY <1>1, NextTickIs DEF t
<1>3. state' = Advance(t, SwapStep(state.price, Target(t), state.liquidity, state.remaining))
  BY DEF StepTo, AfterStep
<1>4. state'.liquidity >= 0
  <2>1. ~(state'.liquidity < 0)
    BY DEF StepTo, StepAborts
  <2>2. \E n \in Nat : Progress(n, t, state')
    <3> HIDE DEF t
    <3> QED
      BY <1>1, <1>2, <1>3, OneStep
  <2>3. state'.liquidity \in Int
    BY <2>2 DEF Progress
  <2> QED
    BY <2>1, <2>3
<1> HIDE DEF t
<1>5. PICK n \in Nat : Progress(n, t, state')
  BY <1>1, <1>2, <1>3, OneStep
<1>6. /\ Limit' = Limit /\ RealAmount' = RealAmount /\ FirstArray' = FirstArray
      /\ FirstArrayExists' = FirstArrayExists /\ NoArray' = NoArray
      /\ \A u : SeenLiquidity(u)' = SeenLiquidity(u)
  BY Fixed, SeenFixed
<1>7. InStep'
  <2>1. /\ state'.remaining \in Nat /\ state'.fee \in Nat /\ state'.liquidity \in Nat
        /\ state'.tick \in MinTick..MaxTick
        /\ IF ask.zero_for_one THEN Limit <= state'.price ELSE state'.price <= Limit
        /\ PriceAt(state'.tick) <= state'.price /\ state'.price <= PriceAt(state'.tick + 1)
        /\ state'.liquidity = SeenLiquidity(state'.tick)
    BY <1>4, <1>5 DEF Progress
  <2>2. state'.price \in Int
    <3>1. state'.price = PriceAfter(n) /\ state.price \in Int
      BY <1>1, <1>5 DEF Progress, InStep
    <3> QED
      BY <3>1 DEF PriceAfter
  <2>3. state'.calculated \in Nat
    BY <1>1, <1>5 DEF Progress, InStep
  <2>4. ask' = ask /\ pool' = pool
    OBVIOUS
  <2>5. state'.liquidity = pool.liquidity + LiquidityAt(pool, state'.tick) - LiquidityAt(pool, pool.tick)
    BY <2>1 DEF SeenLiquidity
  <2> QED
    BY <1>6, <2>1, <2>2, <2>3, <2>4, <2>5 DEF InStep, SeenLiquidity
<1>8. matched' = TRUE
  BY DEF StepTo
<1>9. QueueBehind'
  BY <1>1, <1>6 DEF InFirst, QueueBehind
<1>10. InFirst'
  BY <1>1, <1>6, <1>8, <1>9 DEF InFirst
<1>11. state'.remaining <= RealAmount'
  <2>1. state'.remaining <= state.remaining /\ state'.remaining \in Nat /\ state.remaining \in Nat
    BY <1>1, <1>5 DEF Progress, InStep
  <2> QED
    BY <1>1, <1>6, <2>1, FeesAre
<1> QED
  BY <1>2, <1>4, <1>5, <1>7, <1>8, <1>10, <1>11 DEF InWalk

\* LeaveArray never reaches a next array.
LEMMA LeaveArrayStops ==
  ASSUME IInv, LeaveArray
  PROVE  \E how \in {"panicked", "failed", "mismatch"} : Stop(how)
<1>1. Chosen /\ InFirst
  BY DEF IInv, InWalk, LeaveArray, InTime, Walking
<1>2. CASE queue = <<>> \/ NextArrays(valid) = {}
  BY <1>2 DEF LeaveArray
<1>3. CASE queue # <<>> /\ NextArrays(valid) # {}
  <2>1. Head(queue) # NextArray
    BY <1>1, <1>3, NeverTheNext DEF InFirst
  <2> QED
    BY <1>3, <2>1 DEF LeaveArray
<1> QED
  BY <1>2, <1>3

\* A call that ends leaves everything else as it was.
LEMMA StopKeeps ==
  ASSUME IInv, NEW how \in Terminal \ {"ok"}, Stop(how)
  PROVE  IInv'
<1>1. how \in {"failed", "mismatch", "loop_limit", "panicked"}
  BY DEF Terminal
<1>2. Chosen' /\ InWalk' /\ Stopped'
  BY <1>1 DEF IInv, Chosen, InWalk, Stopped, Stop
<1>3. TypeOK'
  BY <1>1 DEF IInv, TypeOK, Stop, Terminal
<1> QED
  BY <1>2, <1>3 DEF IInv

\* The loop begins with the pool's own numbers, in the first array.
LEMMA EnterKeeps ==
  ASSUME IInv, Enter
  PROVE  IInv' /\ state' = StartState
<1>1. Chosen /\ Chosen' /\ ~NoArray /\ ~PriceBeyondLimit /\ pool' = pool /\ ask' = ask
  BY DEF IInv, Enter, Chosen
<1>2. /\ Limit' = Limit /\ RealAmount' = RealAmount /\ FirstArray' = FirstArray
      /\ FirstArrayExists' = FirstArrayExists /\ NoArray' = NoArray
      /\ \A u : SeenLiquidity(u)' = SeenLiquidity(u)
  BY <1>1, Fixed, SeenFixed
<1>3. /\ state' = StartState
      /\ state'.remaining = RealAmount /\ state'.calculated = 0 /\ state'.fee = 0
      /\ state'.price = pool.price /\ state'.tick = pool.tick /\ state'.liquidity = pool.liquidity
  BY DEF Enter, StartState
<1>4. /\ queue' \in Seq(Int)
      /\ \A i \in 1..Len(queue') : IF ask.zero_for_one THEN queue'[i] > FirstArray ELSE queue'[i] < FirstArray
  BY <1>1, RestOfQueue DEF Enter
<1>5. InFirst'
  <2>1. QueueBehind'
    BY <1>1, <1>2, <1>4 DEF QueueBehind
  <2>2. current' = FirstArray /\ valid' = FirstArray /\ matched' = FirstArrayExists /\ starts' = <<FirstArray>>
    BY DEF Enter
  <2>3. FirstArrayExists \in BOOLEAN
    BY DEF FirstArrayExists
  <2> QED
    BY <1>1, <1>2, <1>3, <2>1, <2>2, <2>3 DEF InFirst
<1>6. InStep'
  <2>1. pool.liquidity \in Nat /\ pool.price \in Int /\ pool.tick \in MinTick..MaxTick /\ RealAmount \in Nat
    BY <1>1, PoolIs, FeesAre DEF Tick
  <2>2. PriceAt(pool.tick) <= pool.price /\ pool.price <= PriceAt(pool.tick + 1)
    BY <1>1, PoolIs DEF PriceAt
  <2>3. IF ask.zero_for_one THEN Limit <= pool.price ELSE pool.price <= Limit
    BY <1>1, <2>1, LimitIs DEF PriceBeyondLimit
  <2>4. SeenLiquidity(pool.tick) = pool.liquidity
    BY <1>1, <2>1, LimitIs, SeenIsInt DEF SeenLiquidity
  <2>5. SeenLiquidity(state.tick)' = pool.liquidity
    BY <1>1, <1>3, <2>4 DEF SeenLiquidity
  <2> QED
    BY <1>1, <1>2, <1>3, <2>1, <2>2, <2>3, <2>5 DEF InStep
<1>7. InWalk' /\ Stopped'
  <2>1. state'.remaining <= RealAmount'
    BY <1>1, <1>2, <1>3, FeesAre
  <2>2. pc' = "loop"
    BY DEF Enter
  <2> QED
    BY <1>5, <1>6, <2>1, <2>2 DEF InWalk, Stopped
<1>8. TypeOK'
  <2>1. state'.price \in Price /\ state'.tick \in (MinTick - 1)..MaxTick
    BY <1>1, <1>3, PoolIs, SwapWalkAssumption DEF Price, Tick
  <2>2. state'.remaining \in Nat /\ state'.calculated \in Nat /\ state'.fee \in Nat /\ state'.liquidity \in Nat
    BY <1>1, <1>3, FeesAre, PoolIs
  <2>3. /\ current' \in Int /\ valid' \in Int /\ starts' \in Seq(Int) /\ queue' \in Seq(Int)
        /\ matched' \in BOOLEAN
    <3>1. FirstArray \in Int
      BY <1>1, FirstIs
    <3>2. FirstArrayExists \in BOOLEAN
      BY DEF FirstArrayExists
    <3> QED
      BY <1>4, <3>1, <3>2 DEF Enter
  <2>4. loops' \in 0..(LoopLimit + 1) /\ result' \in Nat /\ pc' = "loop"
    BY DEF IInv, TypeOK, Enter
  <2>5. DOMAIN pool'.net \subseteq Tick /\ ask' \in Ask
    BY <1>1, PoolIs, AskIs
  <2> QED
    BY <2>1, <2>2, <2>3, <2>4, <2>5 DEF TypeOK
<1> QED
  BY <1>1, <1>3, <1>7, <1>8 DEF IInv

\* A step towards a tick of the first array.
LEMMA WalkHereKeeps ==
  ASSUME IInv, WalkHere
  PROVE  IInv'
<1>1. Walking /\ loops <= LoopLimit /\ Chosen /\ Chosen' /\ TypeOK /\ pc = "loop"
  BY DEF WalkHere, InTime, Walking, IInv, Chosen, StepTo, Stop
<1>2. CASE StepAborts(TicksHere)
  <2>1. Stop("panicked") /\ "panicked" \in Terminal \ {"ok"}
    BY <1>2 DEF WalkHere, Terminal
  <2> QED
    BY <2>1, StopKeeps
<1>3. CASE ~StepAborts(TicksHere)
  <2>1. TicksHere # {} /\ StepTo(TicksHere) /\ UNCHANGED <<pool, ask, pc, current, valid, queue, starts, result>>
    BY <1>3 DEF WalkHere, StepAborts
  <2>2. state'.liquidity >= 0 /\ InWalk' /\ matched' = TRUE
    BY <1>1, <1>3, <2>1, StepKeeps
  <2>3. InStep' /\ pc' = "loop"
    BY <1>1, <2>1, <2>2 DEF InWalk
  <2>4. PICK t \in DOMAIN pool.net, n \in Nat : Progress(n, t, state')
    BY <1>1, <1>3, <2>1, StepKeeps
  <2>5. state'.price \in Price
    <3>1. /\ state'.price = PriceAfter(n) /\ state'.price \in Int /\ state.price \in Int
          /\ Grain * MinTick <= state.price /\ state.price <= Grain * MaxTick
      BY <1>1, <2>3, <2>4 DEF Progress, InStep, TypeOK, Price
    <3>2. IF ask.zero_for_one THEN Limit <= state'.price ELSE state'.price <= Limit
      BY <2>4 DEF Progress
    <3> QED
      BY <3>1, <3>2, LimitIs DEF PriceAfter, Price, Grain
  <2>6. state'.tick \in (MinTick - 1)..MaxTick
    BY <2>3, LimitIs DEF InStep
  <2>7. loops' \in 0..(LoopLimit + 1)
    BY <1>1, <2>1, SwapWalkAssumption DEF TypeOK, StepTo
  <2>8. TypeOK'
    BY <1>1, <2>1, <2>2, <2>3, <2>5, <2>6, <2>7 DEF TypeOK, InStep
  <2> QED
    BY <1>1, <2>2, <2>3, <2>8 DEF IInv, Stopped
<1> QED
  BY <1>2, <1>3

\* Every step keeps the invariant.
LEMMA IInvNext == IInv /\ [Next]_vars => IInv'
<1> SUFFICES ASSUME IInv, [Next]_vars PROVE IInv'
  OBVIOUS
<1>1. CASE EntryPanics
  BY <1>1, StopKeeps DEF EntryPanics, Stop, Terminal
<1>2. CASE EntryFails
  BY <1>2, StopKeeps DEF EntryFails, Stop, Terminal
<1>3. CASE Enter
  BY <1>3, EnterKeeps
<1>4. CASE WalkHere
  BY <1>4, WalkHereKeeps
<1>5. CASE LeaveArray
  BY <1>5, LeaveArrayStops, StopKeeps DEF Terminal
<1>6. CASE TooManyLoops
  BY <1>6, StopKeeps DEF TooManyLoops, Terminal
<1>7. CASE Finish
  <2>1. /\ pc = "loop" /\ ~Walking /\ pc' = "ok" /\ result' = AfterFee(state.calculated, FeeOut)
        /\ UNCHANGED <<pool, ask, state, current, valid, queue, matched, starts, loops>>
    BY <1>7 DEF Finish
  <2>2. Chosen /\ Chosen' /\ TypeOK
    BY <2>1 DEF IInv, Chosen
  <2>3. InFirst' /\ InStep' /\ state'.remaining <= RealAmount'
    <3>1. InFirst /\ InStep /\ state.remaining <= RealAmount
      BY <2>1 DEF IInv, InWalk
    <3>2. /\ Limit' = Limit /\ RealAmount' = RealAmount /\ FirstArray' = FirstArray
          /\ FirstArrayExists' = FirstArrayExists /\ NoArray' = NoArray
      BY <2>1, Fixed
    <3>3. SeenLiquidity(state.tick)' = SeenLiquidity(state.tick)
      BY <2>1 DEF SeenLiquidity
    <3> QED
      BY <2>1, <3>1, <3>2, <3>3 DEF InFirst, InStep, QueueBehind
  <2>4. Stopped'
    <3>1. Limit' = Limit
      BY <2>1, Fixed
    <3> QED
      BY <2>1, <3>1 DEF Stopped, Walking
  <2>5. TypeOK'
    <3>1. result' \in Nat
      BY <2>1, <2>2, FeesAre, AfterFeeIs DEF TypeOK
    <3> QED
      BY <2>1, <2>2, <3>1 DEF TypeOK, Terminal
  <2> QED
    BY <2>2, <2>3, <2>4, <2>5 DEF IInv, InWalk
<1>8. CASE Returned \/ UNCHANGED vars
  <2>1. UNCHANGED vars
    BY <1>8 DEF Returned
  <2>2. /\ Limit' = Limit /\ RealAmount' = RealAmount /\ FirstArray' = FirstArray
        /\ FirstArrayExists' = FirstArrayExists /\ NoArray' = NoArray
    BY <2>1, Fixed DEF vars
  <2>3. SeenLiquidity(state.tick)' = SeenLiquidity(state.tick)
    BY <2>1 DEF SeenLiquidity, vars
  <2>4. TypeOK'
    BY <2>1 DEF TypeOK, IInv, vars
  <2>5. InFirst => InFirst'
    BY <2>1, <2>2 DEF InFirst, QueueBehind, vars
  <2>6. InStep => InStep'
    BY <2>1, <2>2, <2>3 DEF InStep, vars
  <2> QED
    BY <2>1, <2>2, <2>4, <2>5, <2>6 DEF IInv, InWalk, Stopped, Chosen, vars
<1> QED
  BY <1>1, <1>2, <1>3, <1>4, <1>5, <1>6, <1>7, <1>8 DEF Next

\* The invariant holds throughout.
LEMMA Invariant == Spec => []IInv
<1>1. Init => IInv
  BY IInvInit
<1>2. IInv /\ [Next]_vars => IInv'
  BY IInvNext
<1> QED
  BY <1>1, <1>2, PTL DEF Spec

-----------------------------------------------------------------------------
(* What follows from it                                                    *)

\* In every state of compute_another_amount amounts, fees and liquidity are natural
\* numbers, the price and the tick in range.
THEOREM TypeCorrect == Spec => []TypeOK
BY Invariant, PTL DEF IInv

\* In the loop of swap_compute the liquidity is the pool's at the current tick, and the
\* tick the price's: no initialized tick is passed without its liquidity_net.
THEOREM LiquidityStaysInStep == Spec => []LiquidityFollowsTick
<1>1. IInv => LiquidityFollowsTick
  BY DEF IInv, InWalk, InStep, LiquidityFollowsTick
<1> QED
  BY <1>1, Invariant, PTL

\* What remains only exceeds what was asked for if a fee was put on top of an output and
\* the walk ended at the limit, or at the first or last tick.
THEOREM ReportsWithinAsk == Spec => []ReportedWithinAsk
<1>1. IInv => ReportedWithinAsk
  <2> SUFFICES ASSUME IInv, pc = "ok", state.remaining > ask.amount
               PROVE  ~ask.base_input /\ FeeIn > 0
                      /\ (state.price = Limit \/ state.tick \notin (MinTick + 1)..(MaxTick - 1))
    BY DEF ReportedWithinAsk
  <2>1. /\ Chosen /\ InStep /\ state.remaining <= RealAmount /\ state.remaining \in Nat /\ ask.amount \in Nat
        /\ RealAmount \in Nat /\ FeeIn \in Nat
    BY AskIs, FeesAre DEF IInv, InWalk, InStep
  <2>2. /\ ask.base_input => RealAmount <= ask.amount
        /\ ~ask.base_input => RealAmount = ask.amount + (IF ask.amount <= FeeIn THEN ask.amount ELSE FeeIn)
    BY <2>1, AfterFeeIs DEF RealAmount
  <2>3. ~ask.base_input /\ FeeIn > 0
    BY <2>1, <2>2
  <2>4. ~(state.remaining # 0 /\ state.price # Limit /\ state.tick < MaxTick /\ state.tick > MinTick)
    BY DEF IInv, Stopped
  <2>5. state.remaining # 0
    BY <2>1
  <2> QED
    BY <2>3, <2>4, <2>5, LimitIs
<1> QED
  BY <1>1, Invariant, PTL

\* A walk never leaves its first tick array, and a quote names no other one.
FirstArrayOnly == pc \in {"loop", "ok"} => current = FirstArray /\ starts = <<FirstArray>>

\* The dequeue holds the arrays on the other side: swap_compute never takes a second
\* array from it, so that tick_array_keys of every quote has one key.
THEOREM NeverBeyondFirstArray == Spec => []FirstArrayOnly
<1>1. IInv => FirstArrayOnly
  BY DEF IInv, InWalk, InFirst, FirstArrayOnly
<1> QED
  BY <1>1, Invariant, PTL

\* A step of swap_compute only moves the price the way of the swap, never past the limit,
\* and never gives any of the amount back.
THEOREM MovesOneWay == Spec => OneWay
<1> DEFINE Moves == pc = "loop" =>
       /\ IF ask.zero_for_one THEN state'.price <= state.price /\ state'.price >= Limit
                              ELSE state'.price >= state.price /\ state'.price <= Limit
       /\ state'.remaining <= state.remaining
<1>1. IInv /\ [Next]_vars => [Moves]_vars
  <2> SUFFICES ASSUME IInv, Next, pc = "loop" PROVE Moves
    BY DEF vars
  <2>1. Chosen /\ InFirst /\ InStep /\ state.price \in Int /\ state.remaining \in Nat /\ ask.zero_for_one \in BOOLEAN
    BY AskIs DEF IInv, InWalk, InStep
  <2>2. CASE state' = state
    BY <2>1, <2>2, LimitIs DEF InStep
  <2>3. CASE WalkHere /\ ~StepAborts(TicksHere)
    <3>1. PICK t \in DOMAIN pool.net, n \in Nat : Progress(n, t, state')
      <4>1. /\ Walking /\ loops <= LoopLimit /\ TicksHere # {} /\ StepTo(TicksHere)
            /\ UNCHANGED <<pool, ask, pc, current, valid, queue, starts, result>>
        BY <2>3 DEF WalkHere, InTime, StepAborts
      <4> QED
        BY <2>3, <4>1, StepKeeps
    <3>2. /\ state'.price = PriceAfter(n) /\ state'.remaining <= state.remaining
          /\ IF ask.zero_for_one THEN Limit <= state'.price ELSE state'.price <= Limit
      BY <3>1 DEF Progress
    <3> QED
      BY <2>1, <3>2, LimitIs DEF PriceAfter
  <2>4. CASE WalkHere /\ StepAborts(TicksHere)
    BY <2>2, <2>4 DEF WalkHere, Stop
  <2>5. CASE LeaveArray
    BY <2>2, <2>5, LeaveArrayStops DEF Stop
  <2>6. CASE TooManyLoops \/ Finish \/ Returned
    BY <2>2, <2>6 DEF TooManyLoops, Stop, Finish, Returned, vars
  <2> QED
    BY <2>3, <2>4, <2>5, <2>6 DEF Next, EntryPanics, EntryFails, Enter
<1> QED
  BY <1>1, Invariant, PTL DEF Spec, OneWay

-----------------------------------------------------------------------------
(* What the pool itself would do                                           *)

Units == Grain * (MaxTick - MinTick)

\* The pool's next unit of price, if it moves.
NextMove(m) ==
  LET u == NextUnit(m.price)
  IN  IF m.price = Limit \/ m.left = 0 \/ m.left < Cost[u] THEN m
      ELSE [left |-> m.left - Cost[u], given |-> m.given + SeenLiquidity(TickAt(u)),
            price |-> IF ask.zero_for_one THEN m.price - 1 ELSE m.price + 1]

FirstMove(amount) == [left |-> amount, given |-> 0, price |-> pool.price]

\* f are the first N moves.
MovesTo(N, amount, f) ==
  f = [n \in 0..N |-> IF n = 0 THEN FirstMove(amount) ELSE NextMove(f[n - 1])]

\* There are such moves, one after the other.
LEMMA MovesExist ==
  ASSUME NEW N \in Nat, NEW amount
  PROVE  \E f : MovesTo(N, amount, f)
<1> DEFINE Bad == {n \in 0..N : ~\E f : MovesTo(n, amount, f)}
<1> SUFFICES ASSUME Bad # {} PROVE FALSE
  OBVIOUS
<1>1. Bad \subseteq Int /\ IsFiniteSet(Bad)
  <2>1. IsFiniteSet(0..N) /\ Bad \in SUBSET (0..N)
    BY FS_Interval
  <2>2. Bad \subseteq Int
    OBVIOUS
  <2> HIDE DEF Bad
  <2> QED
    BY <2>1, <2>2, FS_Subset
<1>2. PICK b \in Bad : \A c \in Bad : b <= c
  <2> HIDE DEF Bad
  <2> QED
    BY <1>1, SmallestOne
<1>3. b \in 0..N /\ b \in Int /\ ~\E f : MovesTo(b, amount, f)
  OBVIOUS
<1>4. CASE b = 0
  <2> DEFINE f == [n \in 0..0 |-> FirstMove(amount)]
  <2>1. f = [n \in 0..0 |-> IF n = 0 THEN FirstMove(amount) ELSE NextMove(f[n - 1])]
    <3> HIDE DEF FirstMove
    <3>1. \A n \in 0..0 : n = 0
      OBVIOUS
    <3> QED
      BY <3>1
  <2>2. MovesTo(b, amount, f)
    <3> HIDE DEF f
    <3> QED
      BY <1>4, <2>1 DEF MovesTo
  <2> QED
    BY <1>3, <2>2
<1>5. CASE b # 0
  <2>1. b - 1 \in 0..N /\ b - 1 \notin Bad
    BY <1>2, <1>3, <1>5
  <2>2. PICK g : MovesTo(b - 1, amount, g)
    BY <2>1
  <2>3. /\ g = [n \in 0..(b - 1) |-> g[n]]
        /\ \A n \in 0..(b - 1) : g[n] = IF n = 0 THEN FirstMove(amount) ELSE NextMove(g[n - 1])
    <3> HIDE DEF FirstMove, NextMove
    <3> QED
      BY <2>2 DEF MovesTo
  <2> DEFINE f == [n \in 0..b |-> IF n = b THEN NextMove(g[b - 1]) ELSE g[n]]
  <2>4. ASSUME NEW n \in 0..b
        PROVE  f[n] = IF n = 0 THEN FirstMove(amount) ELSE NextMove(f[n - 1])
    <3>1. CASE n = b
      <4>1. f[n - 1] = g[b - 1] /\ n # 0 /\ f[n] = NextMove(g[b - 1])
        BY <1>3, <1>5, <3>1
      <4> QED
        BY <4>1
    <3>2. CASE n # b
      <4>1. n \in 0..(b - 1) /\ f[n] = g[n] /\ (n # 0 => f[n - 1] = g[n - 1])
        BY <1>3, <3>2
      <4> HIDE DEF f
      <4> QED
        BY <2>3, <4>1
    <3> QED
      BY <3>1, <3>2
  <2>5. MovesTo(b, amount, f)
    <3>1. f = [n \in 0..b |-> f[n]]
      OBVIOUS
    <3> HIDE DEF f
    <3> QED
      BY <2>4, <3>1 DEF MovesTo
  <2> QED
    BY <1>3, <2>5
<1> QED
  BY <1>4, <1>5

\* What the moves of the model are.
LEMMA MovesAre ==
  ASSUME NEW amount
  PROVE  /\ Units \in Nat /\ PoolMoves(amount)[0] = FirstMove(amount)
         /\ \A n \in 1..Units : PoolMoves(amount)[n] = NextMove(PoolMoves(amount)[n - 1])
<1> DEFINE M == PoolMoves(amount)
<1>1. Units \in Nat
  BY SwapWalkAssumption DEF Units, Grain
<1>2. M = CHOOSE f : MovesTo(Units, amount, f)
  BY DEF PoolMoves, MovesTo, NextMove, FirstMove, Units
<1>3. MovesTo(Units, amount, M)
  <2> HIDE DEF M
  <2> QED
    BY <1>1, <1>2, MovesExist
<1> HIDE DEF M
<1>4. \A n \in 0..Units : M[n] = IF n = 0 THEN FirstMove(amount) ELSE NextMove(M[n - 1])
  BY <1>3 DEF MovesTo
<1>5. 0 \in 0..Units /\ \A n \in 1..Units : n \in 0..Units /\ n # 0
  BY <1>1
<1> QED
  BY <1>1, <1>4, <1>5 DEF M

\* They do not change while the pool and the arguments do not.
LEMMA MovesFixed ==
  ASSUME UNCHANGED <<pool, ask>>
  PROVE  PoolMoves(RealAmount)' = PoolMoves(RealAmount) /\ Cost' = Cost
BY DEF PoolMoves, RealAmount, AfterFee, FeeIn, Limit, NextUnit, Cost, SeenLiquidity

\* An invariant the natural numbers up to a bound inherit from each other.
LEMMA UpTo ==
  ASSUME NEW N \in Nat, NEW S, 0 \in S, \A n \in 1..N : n - 1 \in S => n \in S
  PROVE  \A n \in 0..N : n \in S
<1> DEFINE Bad == {n \in 0..N : n \notin S}
<1> SUFFICES ASSUME Bad # {} PROVE FALSE
  OBVIOUS
<1>1. Bad \subseteq Int /\ IsFiniteSet(Bad)
  <2>1. IsFiniteSet(0..N) /\ Bad \in SUBSET (0..N)
    BY FS_Interval
  <2>2. Bad \subseteq Int
    OBVIOUS
  <2> HIDE DEF Bad
  <2> QED
    BY <2>1, <2>2, FS_Subset
<1>2. PICK b \in Bad : \A c \in Bad : b <= c
  <2> HIDE DEF Bad
  <2> QED
    BY <1>1, SmallestOne
<1>3. b \in 1..N /\ b - 1 \notin Bad /\ b - 1 \in 0..N
  BY <1>2
<1> QED
  BY <1>3

\* A unit of price in the range of a pool takes what its liquidity says.
LEMMA CostIs ==
  ASSUME Chosen, NEW u \in Int, Grain * MinTick <= u, u <= Grain * MaxTick
  PROVE  Cost[u] = UnitCost(SeenLiquidity(TickAt(u)))
<1>1. u \in Price
  BY LimitIs DEF Price, Grain
<1> QED
  BY <1>1 DEF Cost, UnitCost

\* Between the price and where a step towards t takes it the liquidity is the same.
LEMMA SameOnTheWay ==
  ASSUME Chosen, InStep, Walking, NEW t \in DOMAIN pool.net, NothingSkipped(t), NEW u \in Int,
         IF ask.zero_for_one THEN PriceAt(t) <= u /\ u < state.price
                             ELSE state.price <= u /\ u < PriceAt(t)
  PROVE  SeenLiquidity(TickAt(u)) = state.liquidity
<1> DEFINE k == TickAt(u)
           T == state.tick
<1>1. t \in Int /\ T \in Int /\ state.price \in Int /\ state.liquidity = SeenLiquidity(T)
      /\ 2 * T <= state.price /\ state.price <= 2 * T + 2
  BY PoolIs, LimitIs DEF InStep, PriceAt, Grain
<1>2. k \in Int /\ 2 * k <= u /\ u < 2 * (k + 1)
  BY TickAtIs DEF PriceAt, Grain
<1> HIDE DEF k
<1>3. CASE ask.zero_for_one
  <2>1. 2 * t <= u /\ u < state.price
    BY <1>3 DEF PriceAt, Grain
  <2>2. t <= k /\ k <= T
    BY <1>1, <1>2, <2>1
  <2>3. \A v \in DOMAIN pool.net : ~(t < v /\ v <= T)
    BY <1>3 DEF NothingSkipped
  <2>4. \A v \in DOMAIN pool.net : ~(k < v /\ v <= T)
    BY <1>1, <1>2, <2>2, <2>3, PoolIs
  <2>5. SeenLiquidity(T) = SeenLiquidity(k)
    BY <1>1, <1>2, <2>2, <2>4, SeenSame
  <2> QED
    BY <1>1, <2>5 DEF k
<1>4. CASE ~ask.zero_for_one
  <2>1. u < 2 * t /\ state.price <= u
    BY <1>4 DEF PriceAt, Grain
  <2>2. T <= k /\ k < t
    BY <1>1, <1>2, <2>1
  <2>3. \A v \in DOMAIN pool.net : ~(T < v /\ v < t)
    BY <1>4 DEF NothingSkipped
  <2>4. \A v \in DOMAIN pool.net : ~(T < v /\ v <= k)
    BY <1>1, <1>2, <2>2, <2>3, PoolIs
  <2>5. SeenLiquidity(k) = SeenLiquidity(T)
    BY <1>1, <1>2, <2>2, <2>4, SeenSame
  <2> QED
    BY <1>1, <2>5 DEF k
<1> QED
  BY <1>3, <1>4

\* A move the amount pays for.
LEMMA MoveOn ==
  ASSUME NEW m, m.price # Limit, m.left # 0, ~(m.left < Cost[NextUnit(m.price)])
  PROVE  /\ NextMove(m).left = m.left - Cost[NextUnit(m.price)]
         /\ NextMove(m).given = m.given + SeenLiquidity(TickAt(NextUnit(m.price)))
         /\ NextMove(m).price = IF ask.zero_for_one THEN m.price - 1 ELSE m.price + 1
BY DEF NextMove

\* A pool that does not move any more stays where it is.
LEMMA StuckStays ==
  ASSUME NEW amount, NEW k \in 0..Units, NextMove(PoolMoves(amount)[k]) = PoolMoves(amount)[k]
  PROVE  PoolMoves(amount)[Units] = PoolMoves(amount)[k]
<1> DEFINE M == PoolMoves(amount)
           N == Units - k
           S == {i \in 0..N : M[k + i] = M[k]}
<1>1. Units \in Nat /\ N \in Nat /\ k \in Nat /\ \A n \in 1..Units : M[n] = NextMove(M[n - 1])
  BY MovesAre
<1> HIDE DEF M
<1>2. 0 \in S
  BY <1>1
<1>3. ASSUME NEW i \in 1..N, i - 1 \in S PROVE i \in S
  <2>1. k + i \in 1..Units /\ (k + i) - 1 = k + (i - 1)
    BY <1>1
  <2>2. M[k + i] = NextMove(M[k + (i - 1)])
    BY <1>1, <2>1
  <2>3. M[k + (i - 1)] = M[k]
    BY <1>3
  <2>4. NextMove(M[k]) = M[k]
    BY DEF M
  <2> QED
    BY <2>2, <2>3, <2>4
<1>4. \A i \in 0..N : i \in S
  <2> HIDE DEF N, S
  <2> QED
    BY <1>1, <1>2, <1>3, UpTo
<1>5. N \in 0..N /\ k + N = Units
  BY <1>1
<1> QED
  BY <1>4, <1>5 DEF M

\* While a step of the walk lasts the pool moves along.
LEMMA MovesAlong ==
  ASSUME Chosen, InStep, Walking, NEW t \in DOMAIN pool.net, NothingSkipped(t),
         NEW n \in Nat, NEW s, Progress(n, t, s),
         NEW amount, NEW k \in Nat, k + n <= Units,
         PoolMoves(amount)[k].left = state.remaining, PoolMoves(amount)[k].given = state.calculated,
         PoolMoves(amount)[k].price = state.price
  PROVE  /\ PoolMoves(amount)[k + n].left = state.remaining - n * UnitCost(state.liquidity)
         /\ PoolMoves(amount)[k + n].given = s.calculated
         /\ PoolMoves(amount)[k + n].price = s.price
<1> DEFINE M == PoolMoves(amount)
           R == state.remaining
           L == state.liquidity
           c == UnitCost(L)
           S == {i \in 0..n : /\ M[k + i].left = R - i * c /\ M[k + i].given = state.calculated + i * L
                              /\ M[k + i].price = PriceAfter(i)}
<1>1. Units \in Nat /\ \A j \in 1..Units : M[j] = NextMove(M[j - 1])
  BY MovesAre
<1>2. /\ R \in Nat /\ R # 0 /\ L \in Nat /\ c \in Nat /\ state.calculated \in Nat /\ state.price \in Int
      /\ ask.zero_for_one \in BOOLEAN /\ n * c <= R /\ n * c \in Nat
  BY AskIs, SwapWalkAssumption DEF InStep, Walking, UnitCost, Progress
<1>3. /\ s.price = PriceAfter(n) /\ s.calculated = state.calculated + n * L
      /\ IF ask.zero_for_one THEN Limit <= s.price /\ PriceAt(t) <= s.price
                             ELSE s.price <= Limit /\ s.price <= PriceAt(t)
  BY DEF Progress
<1>4. /\ t \in Int /\ PriceAt(t) \in Int
      /\ IF ask.zero_for_one THEN Limit <= state.price ELSE state.price <= Limit
  BY PoolIs DEF PriceAt, Grain, InStep
<1> HIDE DEF M, c, R, L
<1>5. 0 \in S
  <2>1. PriceAfter(0) = state.price /\ k + 0 = k /\ 0 * c = 0 /\ 0 * L = 0
    BY <1>2 DEF PriceAfter
  <2>2. M[k].left = R /\ M[k].given = state.calculated /\ M[k].price = state.price
    BY DEF M, R
  <2>3. R - 0 * c = R /\ state.calculated + 0 * L = state.calculated
    BY <1>2, <2>1
  <2> QED
    BY <2>1, <2>2, <2>3
<1>6. ASSUME NEW i \in 1..n, i - 1 \in S PROVE i \in S
  <2> DEFINE m == M[k + (i - 1)]
             p == PriceAfter(i - 1)
             u == NextUnit(p)
  <2>1. m.left = R - (i - 1) * c /\ m.given = state.calculated + (i - 1) * L /\ m.price = p
    BY <1>6
  <2>2. /\ k + i \in 1..Units /\ (k + i) - 1 = k + (i - 1)
        /\ i \in Nat /\ i <= n /\ i - 1 \in Nat /\ i - 1 < n
    BY <1>1
  <2>3. M[k + i] = NextMove(m)
    BY <1>1, <2>2
  <2>4. /\ u \in Int /\ p # Limit /\ p \in Int /\ Grain * MinTick <= u /\ u <= Grain * MaxTick
        /\ IF ask.zero_for_one THEN PriceAt(t) <= u /\ u < state.price ELSE state.price <= u /\ u < PriceAt(t)
        /\ PriceAfter(i) = IF ask.zero_for_one THEN p - 1 ELSE p + 1
    <3>1. CASE ask.zero_for_one
      <4>1. p = state.price - (i - 1) /\ u = p - 1 /\ s.price = state.price - n /\ PriceAfter(i) = state.price - i
        BY <1>3, <3>1 DEF PriceAfter, NextUnit
      <4>2. Limit <= s.price /\ PriceAt(t) <= s.price /\ Limit = 2 * MinTick + 1
        BY <1>3, <3>1, LimitIs
      <4>3. p \in Int /\ u \in Int /\ u >= s.price /\ p > s.price /\ u < state.price
        BY <1>2, <2>2, <4>1
      <4>4. u <= Grain * MaxTick
        <5>1. state.price <= PriceAt(state.tick + 1) /\ state.tick < MaxTick /\ state.tick \in Int
          BY LimitIs DEF InStep, Walking
        <5> QED
          BY <1>2, <4>3, <5>1, LimitIs DEF PriceAt, Grain
      <4>5. Grain * MinTick <= u
        BY <4>2, <4>3, <1>2, <1>3, <4>1, LimitIs DEF Grain
      <4>6. p # Limit /\ PriceAt(t) <= u
        BY <1>2, <1>4, <4>1, <4>2, <4>3, LimitIs
      <4>7. PriceAfter(i) = p - 1
        BY <1>2, <2>2, <4>1
      <4> QED
        BY <3>1, <4>3, <4>4, <4>5, <4>6, <4>7
    <3>2. CASE ~ask.zero_for_one
      <4>1. p = state.price + (i - 1) /\ u = p /\ s.price = state.price + n /\ PriceAfter(i) = state.price + i
        BY <1>3, <3>2 DEF PriceAfter, NextUnit
      <4>2. s.price <= Limit /\ s.price <= PriceAt(t) /\ Limit = 2 * MaxTick - 1
        BY <1>3, <3>2, LimitIs
      <4>3. p \in Int /\ u \in Int /\ u < s.price /\ p < s.price /\ u >= state.price
        BY <1>2, <2>2, <4>1
      <4>4. Grain * MinTick <= u
        <5>1. PriceAt(state.tick) <= state.price /\ state.tick > MinTick /\ state.tick \in Int
          BY LimitIs DEF InStep, Walking
        <5> QED
          BY <1>2, <4>3, <5>1, LimitIs DEF PriceAt, Grain
      <4>5. u <= Grain * MaxTick
        BY <4>2, <4>3, <1>2, <1>3, <4>1, LimitIs DEF Grain
      <4>6. p # Limit /\ u < PriceAt(t)
        BY <1>2, <1>4, <4>1, <4>2, <4>3, LimitIs
      <4>7. PriceAfter(i) = p + 1
        BY <1>2, <2>2, <4>1
      <4> QED
        BY <3>2, <4>3, <4>4, <4>5, <4>6, <4>7
    <3> QED
      BY <3>1, <3>2
  <2> HIDE DEF p, u
  <2>5. SeenLiquidity(TickAt(u)) = L /\ Cost[u] = c
    <3>1. SeenLiquidity(TickAt(u)) = L
      BY <2>4, SameOnTheWay DEF L
    <3> QED
      BY <2>4, <3>1, CostIs DEF c
  <2>6. /\ R - (i - 1) * c \in Int /\ ~(R - (i - 1) * c < c) /\ R - (i - 1) * c # 0
        /\ R - i * c = (R - (i - 1) * c) - c
        /\ state.calculated + i * L = (state.calculated + (i - 1) * L) + L
    <3>1. i * c <= n * c /\ i * c \in Nat
      BY <1>2, <2>2, ProductsGrow
    <3>2. (i - 1) * c = i * c - c /\ (i - 1) * L = i * L - L /\ i * L \in Int
      BY <1>2, <2>2
    <3>3. c = 0 => (i - 1) * c = 0
      BY <1>2, <2>2
    <3>4. i * c <= R
      BY <1>2, <3>1
    <3>5. R - (i - 1) * c = R - i * c + c
      BY <1>2, <3>1, <3>2
    <3>6. state.calculated + i * L = (state.calculated + (i - 1) * L) + L
      BY <1>2, <3>2
    <3> QED
      BY <1>2, <3>1, <3>3, <3>4, <3>5, <3>6
  <2>7. /\ NextMove(m).left = m.left - c /\ NextMove(m).given = m.given + L
        /\ NextMove(m).price = IF ask.zero_for_one THEN m.price - 1 ELSE m.price + 1
    <3>1. m.price # Limit /\ m.left # 0 /\ NextUnit(m.price) = u /\ ~(m.left < Cost[NextUnit(m.price)])
      BY <2>1, <2>4, <2>5, <2>6 DEF u
    <3> HIDE DEF m
    <3> QED
      BY <2>5, <3>1, MoveOn
  <2>8. M[k + i].left = R - i * c /\ M[k + i].given = state.calculated + i * L /\ M[k + i].price = PriceAfter(i)
    <3> HIDE DEF m
    <3> QED
      BY <2>1, <2>3, <2>4, <2>6, <2>7
  <2>9. i \in 0..n
    BY <2>2
  <2> QED
    BY <2>8, <2>9
<1>7. \A i \in 0..n : i \in S
  <2> HIDE DEF S
  <2> QED
    BY <1>5, <1>6, UpTo
<1>8. n \in S
  <2>1. n \in 0..n
    OBVIOUS
  <2> HIDE DEF S
  <2> QED
    BY <1>7, <2>1
<1> QED
  BY <1>3, <1>8 DEF M, R, c, L

\* The walk and the pool agree on the units passed; what remains is what the pool has
\* left, or nothing, where the pool has too little left for another unit.
Along ==
  pc \in {"loop", "ok"} =>
    /\ Passed \in 0..Units
    /\ PoolMoves(RealAmount)[Passed].price = state.price
    /\ PoolMoves(RealAmount)[Passed].given = state.calculated
    /\ \/ PoolMoves(RealAmount)[Passed].left = state.remaining
       \/ /\ state.remaining = 0
          /\ PoolMoves(RealAmount)[Passed].left < Cost[NextUnit(state.price)]

\* How the units passed are counted.
LEMMA PassedIs ==
  ASSUME IInv, pc \in {"loop", "ok"}
  PROVE  /\ Passed \in Int /\ Passed <= Units /\ state.price \in Int /\ pool.price \in Int
         /\ ask.zero_for_one \in BOOLEAN /\ Chosen /\ InStep
<1>1. /\ Chosen /\ InStep /\ pool.price \in Int /\ state.price \in Int /\ ask.zero_for_one \in BOOLEAN
      /\ Grain * MinTick <= pool.price /\ pool.price <= Grain * MaxTick
      /\ IF ask.zero_for_one THEN Limit <= state.price ELSE state.price <= Limit
  BY PoolIs, AskIs DEF IInv, InWalk, InStep
<1> QED
  BY <1>1, LimitIs DEF Passed, Units, Grain

\* A step of the loop is towards an initialized tick, or ends the call.
LEMMA StepOrStop ==
  ASSUME IInv, Next, pc = "loop"
  PROVE  \/ /\ Walking /\ matched' = TRUE /\ pc' = "loop" /\ InWalk' /\ UNCHANGED <<pool, ask, current>>
            /\ state'.liquidity >= 0 /\ loops' = loops + 1
            /\ \E t \in DOMAIN pool.net, n \in Nat :
                 NothingSkipped(t) /\ ArrayStart(t) = FirstArray /\ Progress(n, t, state')
         \/ pc' \in Terminal /\ UNCHANGED <<pool, ask, state, current, matched>>
<1>1. CASE WalkHere /\ ~StepAborts(TicksHere)
  <2>1. /\ Walking /\ loops <= LoopLimit /\ TicksHere # {} /\ StepTo(TicksHere)
        /\ UNCHANGED <<pool, ask, pc, current, valid, queue, starts, result>>
    BY <1>1 DEF WalkHere, InTime, StepAborts
  <2>2. /\ \E t \in DOMAIN pool.net, n \in Nat :
              NothingSkipped(t) /\ ArrayStart(t) = FirstArray /\ Progress(n, t, state')
        /\ state'.liquidity >= 0 /\ InWalk' /\ matched' = TRUE
    BY <1>1, <2>1, StepKeeps
  <2>3. loops' = loops + 1
    BY <2>1 DEF StepTo
  <2> QED
    BY <2>1, <2>2, <2>3
<1>2. CASE WalkHere /\ StepAborts(TicksHere)
  BY <1>2 DEF WalkHere, Stop, Terminal
<1>3. CASE LeaveArray
  BY <1>3, LeaveArrayStops DEF Stop, Terminal
<1>4. CASE TooManyLoops \/ Finish
  BY <1>4 DEF TooManyLoops, Stop, Finish, Terminal
<1>5. pc \notin Terminal
  BY DEF Terminal
<1> QED
  BY <1>1, <1>2, <1>3, <1>4, <1>5 DEF Next, EntryPanics, EntryFails, Enter, Returned

\* A step of the walk keeps them together.
LEMMA StepsTogether ==
  ASSUME IInv, Along, Walking, pc' = "loop", InWalk', UNCHANGED <<pool, ask>>, IInv',
         NEW t \in DOMAIN pool.net, NEW n \in Nat, NothingSkipped(t), Progress(n, t, state')
  PROVE  Along'
<1> DEFINE M == PoolMoves(RealAmount)
           k == Passed
           L == state.liquidity
           R == state.remaining
<1>1. /\ pc = "loop" /\ Chosen /\ InStep /\ k \in Nat /\ k <= Units /\ R \in Nat /\ R # 0 /\ L \in Nat
      /\ M[k].price = state.price /\ M[k].given = state.calculated /\ M[k].left = R
  BY DEF Along, Walking, IInv, InWalk, InStep
<1>2. M' = M /\ Cost' = Cost
  BY MovesFixed
<1>3. /\ Passed' = k + n /\ k + n \in 0..Units /\ state'.price \in Int
  <2>1. state.price \in Int /\ pool.price \in Int /\ ask.zero_for_one \in BOOLEAN /\ state'.price = PriceAfter(n)
    BY <1>1, PassedIs DEF Progress
  <2>2. Passed' = k + n /\ state'.price \in Int
    BY <2>1 DEF Passed, PriceAfter
  <2>3. Units \in Nat
    BY MovesAre
  <2>4. Passed' <= Units
    <3>1. /\ pool.price \in Int /\ Grain * MinTick <= pool.price /\ pool.price <= Grain * MaxTick
          /\ IF ask.zero_for_one THEN Limit <= state'.price ELSE state'.price <= Limit
      BY <1>1, PoolIs DEF Progress
    <3>2. Passed' = IF ask.zero_for_one THEN pool.price - state'.price ELSE state'.price - pool.price
      BY DEF Passed
    <3> QED
      BY <2>1, <2>2, <3>1, <3>2, LimitIs DEF Units, Grain
  <2> QED
    BY <1>1, <2>2, <2>3, <2>4
<1> HIDE DEF M, k
<1>4. /\ M[k + n].left = R - n * UnitCost(L) /\ M[k + n].given = state'.calculated
      /\ M[k + n].price = state'.price
  BY <1>1, <1>3, MovesAlong DEF M
<1>5. \/ M[k + n].left = state'.remaining
      \/ state'.remaining = 0 /\ M[k + n].left < Cost[NextUnit(state'.price)]
  <2>1. CASE state'.remaining = R - n * UnitCost(L)
    BY <1>4, <2>1
  <2>2. CASE /\ state'.remaining = 0 /\ L # 0 /\ state'.price # PriceAt(t) /\ state'.price # Limit
             /\ R - n * UnitCost(L) < UnitCost(L)
    <3> DEFINE u == NextUnit(state'.price)
    <3>1. /\ u \in Int /\ Grain * MinTick <= u /\ u <= Grain * MaxTick
          /\ IF ask.zero_for_one THEN PriceAt(t) <= u /\ u < state.price
                                 ELSE state.price <= u /\ u < PriceAt(t)
      <4>1. /\ state'.price = PriceAfter(n) /\ t \in Int /\ state.price \in Int /\ ask.zero_for_one \in BOOLEAN
            /\ IF ask.zero_for_one THEN Limit <= state'.price /\ PriceAt(t) <= state'.price
                                   ELSE state'.price <= Limit /\ state'.price <= PriceAt(t)
        BY <1>1, PoolIs, PassedIs DEF Progress
      <4>2. /\ 2 * state.tick <= state.price /\ state.price <= 2 * state.tick + 2 /\ state.tick \in Int
            /\ state.tick < MaxTick /\ state.tick > MinTick
        BY <1>1, LimitIs DEF InStep, Walking, PriceAt, Grain
      <4>3. CASE ask.zero_for_one
        <5>1. u = state'.price - 1 /\ state'.price = state.price - n
          BY <4>1, <4>3 DEF NextUnit, PriceAfter
        <5>2. PriceAt(t) < state'.price /\ Limit < state'.price /\ Limit = 2 * MinTick + 1 /\ PriceAt(t) = 2 * t
          BY <1>3, <2>2, <4>1, <4>3, LimitIs DEF PriceAt, Grain
        <5> HIDE DEF u
        <5>3. u \in Int /\ 2 * MinTick <= u /\ 2 * t <= u /\ u < state.price
          BY <1>3, <4>1, <5>1, <5>2, LimitIs
        <5>4. u <= 2 * MaxTick
          BY <4>1, <4>2, <5>3, LimitIs
        <5> QED
          BY <4>3, <5>2, <5>3, <5>4 DEF Grain
      <4>4. CASE ~ask.zero_for_one
        <5>1. u = state'.price /\ state'.price = state.price + n
          BY <4>1, <4>4 DEF NextUnit, PriceAfter
        <5>2. PriceAt(t) > state'.price /\ Limit > state'.price /\ Limit = 2 * MaxTick - 1 /\ PriceAt(t) = 2 * t
          BY <1>3, <2>2, <4>1, <4>4, LimitIs DEF PriceAt, Grain
        <5> HIDE DEF u
        <5>3. u \in Int /\ u <= 2 * MaxTick /\ u < 2 * t /\ state.price <= u
          BY <1>3, <4>1, <5>1, <5>2, LimitIs
        <5>4. 2 * MinTick <= u
          BY <4>1, <4>2, <5>3, LimitIs
        <5> QED
          BY <4>4, <5>2, <5>3, <5>4 DEF Grain
      <4> QED
        BY <4>3, <4>4
    <3>2. Cost[u] = UnitCost(L)
      <4> HIDE DEF u
      <4>1. SeenLiquidity(TickAt(u)) = L
        BY <1>1, <3>1, SameOnTheWay
      <4> QED
        BY <1>1, <3>1, <4>1, CostIs
    <3>3. M[k + n].left < Cost[NextUnit(state'.price)]
      BY <1>4, <2>2, <3>2
    <3> QED
      BY <2>2, <3>3
  <2> QED
    BY <2>1, <2>2 DEF Progress
<1>6. NextUnit(state.price)' = NextUnit(state'.price)
  BY DEF NextUnit
<1>7. PoolMoves(RealAmount)' = M /\ (PoolMoves(RealAmount)[Passed])' = M[k + n]
  BY <1>2, <1>3 DEF M
<1> QED
  BY <1>2, <1>3, <1>4, <1>5, <1>6, <1>7 DEF Along

\* They stay together.
LEMMA AlongNext == IInv /\ IInv' /\ Along /\ [Next]_vars => Along'
<1> SUFFICES ASSUME IInv, IInv', Along, [Next]_vars PROVE Along'
  OBVIOUS
<1>1. CASE UNCHANGED <<pool, ask, state>> /\ (pc' \in {"loop", "ok"} => pc \in {"loop", "ok"})
  <2>1. PoolMoves(RealAmount)' = PoolMoves(RealAmount) /\ Cost' = Cost
    BY <1>1, MovesFixed
  <2>2. Passed' = Passed /\ NextUnit(state.price)' = NextUnit(state.price)
    BY <1>1 DEF Passed, NextUnit
  <2> QED
    BY <1>1, <2>1, <2>2 DEF Along
<1>2. CASE Enter
  <2>1. /\ pool' = pool /\ ask' = ask /\ state' = StartState /\ Chosen
    BY <1>2, EnterKeeps DEF Enter, IInv
  <2>2. /\ state'.price = pool.price /\ state'.calculated = 0 /\ state'.remaining = RealAmount /\ pool.price \in Int
    BY <2>1, PoolIs DEF StartState
  <2>3. PoolMoves(RealAmount)' = PoolMoves(RealAmount)
    BY <2>1, MovesFixed
  <2>4. PoolMoves(RealAmount)[0] = FirstMove(RealAmount) /\ Units \in Nat
    BY MovesAre
  <2>5. Passed' = 0 /\ 0 \in 0..Units
    BY <2>1, <2>2, <2>4 DEF Passed
  <2>6. /\ FirstMove(RealAmount).price = pool.price /\ FirstMove(RealAmount).given = 0
        /\ FirstMove(RealAmount).left = RealAmount
    BY DEF FirstMove
  <2>7. (PoolMoves(RealAmount)[Passed])' = FirstMove(RealAmount)
    BY <2>3, <2>4, <2>5
  <2> QED
    BY <2>2, <2>5, <2>6, <2>7 DEF Along
<1>3. CASE pc = "loop" /\ Next
  <2>1. CASE pc' \in Terminal /\ UNCHANGED <<pool, ask, state, current, matched>>
    BY <1>1, <1>3, <2>1
  <2>2. CASE /\ Walking /\ pc' = "loop" /\ InWalk' /\ UNCHANGED <<pool, ask, current>>
             /\ \E t \in DOMAIN pool.net, n \in Nat :
                  NothingSkipped(t) /\ ArrayStart(t) = FirstArray /\ Progress(n, t, state')
    BY <2>2, StepsTogether
  <2> QED
    BY <1>3, <2>1, <2>2, StepOrStop
<1>4. CASE EntryPanics \/ EntryFails
  BY <1>4 DEF EntryPanics, EntryFails, Along
<1>5. CASE UNCHANGED vars \/ Returned
  BY <1>1, <1>5 DEF Returned, vars
<1> QED
  BY <1>2, <1>3, <1>4, <1>5
     DEF Next, WalkHere, LeaveArray, InTime, TooManyLoops, Walking, Finish

\* The walk and the pool agree throughout.
LEMMA AlongAlways == Spec => []Along
<1>1. Init => Along
  BY DEF Init, Along
<1>2. IInv /\ IInv' /\ Along /\ [Next]_vars => Along'
  BY AlongNext
<1> QED
  BY <1>1, <1>2, Invariant, PTL DEF Spec

\* A quote of compute_another_amount is what the pool would give, to the end of the walk,
\* for the amount taken as an input.
THEOREM QuotesWhatThePoolGives == Spec => []QuoteMatchesPool
<1>1. IInv /\ Along => QuoteMatchesPool
  <2> SUFFICES ASSUME IInv, Along, pc = "ok"
               PROVE  state.calculated = IF state.tick \in {MinTick, MaxTick} THEN PoolMoves(RealAmount)[Passed].given
                                         ELSE PoolGives(RealAmount)
    BY DEF QuoteMatchesPool
  <2> DEFINE m == PoolMoves(RealAmount)[Passed]
  <2>1. /\ Passed \in 0..Units /\ m.price = state.price /\ m.given = state.calculated
        /\ m.left = state.remaining \/ (state.remaining = 0 /\ m.left < Cost[NextUnit(m.price)])
    BY DEF Along
  <2>2. CASE state.tick \in {MinTick, MaxTick}
    BY <2>1, <2>2
  <2>3. CASE state.tick \notin {MinTick, MaxTick}
    <3>1. state.tick < MaxTick /\ state.tick > MinTick
      <4>1. state.tick \in MinTick..MaxTick
        BY DEF IInv, InWalk, InStep
      <4> QED
        BY <2>3, <4>1, LimitIs
    <3>2. state.remaining = 0 \/ state.price = Limit
      BY <3>1 DEF IInv, Stopped
    <3>3. m.price = Limit \/ m.left = 0 \/ m.left < Cost[NextUnit(m.price)]
      BY <2>1, <3>2
    <3>4. NextMove(m) = m
      <4> HIDE DEF m
      <4> QED
        BY <3>3 DEF NextMove
    <3>5. PoolMoves(RealAmount)[Units] = m
      BY <2>1, <3>4, StuckStays
    <3> QED
      BY <2>1, <2>3, <3>5 DEF PoolGives, Units
  <2> QED
    BY <2>2, <2>3
<1> QED
  BY <1>1, Invariant, AlongAlways, PTL

-----------------------------------------------------------------------------
(* What the first array can take                                           *)

\* The units of price passed after n more than so far.
UnitsAfter(n) ==
  IF ask.zero_for_one THEN (state.price - n)..(pool.price - 1) ELSE pool.price..(state.price + n - 1)

\* What is gone was taken by the units of price passed.
Spent ==
  pc = "loop" /\ state.remaining # 0 => RealAmount = state.remaining + Total(Cost, UnitsAfter(0))

\* A price that has been in the first array is not short of it.
Reached ==
  pc = "loop" /\ matched /\ state.remaining # 0 /\ state.price # Limit =>
    IF ask.zero_for_one THEN ArrayStart(state.tick) <= FirstArray ELSE ArrayStart(state.tick) >= FirstArray

\* Units of price in range have an integer cost.
LEMMA CostIsInt ==
  ASSUME Chosen, NEW u \in Int, Grain * MinTick <= u, u <= Grain * MaxTick
  PROVE  Cost[u] \in Int
<1>1. SeenLiquidity(TickAt(u)) \in Int
  BY TickAtIs, SeenIsInt
<1> QED
  BY <1>1, CostIs, SwapWalkAssumption DEF UnitCost

\* A step takes the cost of the units it passes.
LEMMA TakenByStep ==
  ASSUME IInv, Along, Walking, NEW t \in DOMAIN pool.net, NEW n \in Nat, NothingSkipped(t), NEW s, Progress(n, t, s)
  PROVE  Total(Cost, UnitsAfter(n)) = Total(Cost, UnitsAfter(0)) + n * UnitCost(state.liquidity)
<1> DEFINE c == UnitCost(state.liquidity)
           P == state.price
           S == {i \in 0..n : Total(Cost, UnitsAfter(i)) = Total(Cost, UnitsAfter(0)) + i * c}
<1>1. /\ Chosen /\ InStep /\ P \in Int /\ pool.price \in Int /\ ask.zero_for_one \in BOOLEAN
      /\ 2 * MinTick <= pool.price /\ pool.price <= 2 * MaxTick
      /\ IF ask.zero_for_one THEN P <= pool.price ELSE P >= pool.price
  <2>1. pc = "loop" /\ Passed \in 0..Units
    BY DEF Walking, Along
  <2>2. Chosen /\ InStep /\ P \in Int /\ pool.price \in Int /\ ask.zero_for_one \in BOOLEAN
    BY <2>1, PassedIs
  <2> QED
    BY <2>1, <2>2, PoolIs DEF Passed, Grain
<1>2. c \in Nat
  BY <1>1, SwapWalkAssumption DEF UnitCost, InStep
<1>3. /\ s.price = PriceAfter(n) /\ t \in Int /\ PriceAt(t) \in Int
      /\ IF ask.zero_for_one THEN Limit <= s.price /\ PriceAt(t) <= s.price
                             ELSE s.price <= Limit /\ s.price <= PriceAt(t)
  BY <1>1, PoolIs DEF Progress, PriceAt, Grain
<1>4. ASSUME NEW i \in 0..n
      PROVE  /\ UnitsAfter(i) \subseteq Int /\ IsFiniteSet(UnitsAfter(i))
             /\ \A u \in UnitsAfter(i) : Cost[u] \in Int
  <2>1. i \in Int /\ i <= n /\ i >= 0
    OBVIOUS
  <2>2. ASSUME NEW u \in UnitsAfter(i) PROVE u \in Int /\ Grain * MinTick <= u /\ u <= Grain * MaxTick
    <3>1. CASE ask.zero_for_one
      <4>1. u \in Int /\ P - i <= u /\ u <= pool.price - 1
        BY <1>1, <2>1, <3>1 DEF UnitsAfter
      <4>2. Limit <= P - n /\ Limit = 2 * MinTick + 1
        BY <1>3, <3>1, LimitIs DEF PriceAfter
      <4> QED
        BY <1>1, <2>1, <4>1, <4>2, LimitIs DEF Grain
    <3>2. CASE ~ask.zero_for_one
      <4>1. u \in Int /\ pool.price <= u /\ u <= P + i - 1
        BY <1>1, <2>1, <3>2 DEF UnitsAfter
      <4>2. P + n <= Limit /\ Limit = 2 * MaxTick - 1
        BY <1>3, <3>2, LimitIs DEF PriceAfter
      <4> QED
        BY <1>1, <2>1, <4>1, <4>2, LimitIs DEF Grain
    <3> QED
      BY <3>1, <3>2
  <2>3. IsFiniteSet(UnitsAfter(i))
    <3>1. P - i \in Int /\ pool.price - 1 \in Int /\ P + i - 1 \in Int
      BY <1>1, <2>1
    <3> QED
      BY <1>1, <3>1, FS_Interval DEF UnitsAfter
  <2> QED
    BY <1>1, <2>2, <2>3, CostIsInt
<1> HIDE DEF c
<1>5. 0 \in S
  <2>1. Total(Cost, UnitsAfter(0)) \in Int
    BY <1>4, SumType
  <2>2. 0 * c = 0 /\ 0 \in 0..n
    BY <1>2
  <2> QED
    BY <2>1, <2>2
<1>6. ASSUME NEW i \in 1..n, i - 1 \in S PROVE i \in S
  <2> DEFINE u == IF ask.zero_for_one THEN P - i ELSE P + i - 1
             V == UnitsAfter(i - 1)
  <2>1. i \in Int /\ 1 <= i /\ i <= n /\ i \in 0..n /\ i - 1 \in 0..n
    OBVIOUS
  <2>2. u \in Int /\ u \notin V /\ UnitsAfter(i) = V \cup {u}
    <3>1. CASE ask.zero_for_one
      <4>1. u = P - i /\ V = (P - (i - 1))..(pool.price - 1) /\ UnitsAfter(i) = (P - i)..(pool.price - 1)
        BY <3>1 DEF UnitsAfter
      <4>2. P - i \in Int /\ P - (i - 1) = (P - i) + 1 /\ P - i <= pool.price - 1
        BY <1>1, <2>1, <3>1
      <4> HIDE DEF V, u
      <4> QED
        BY <1>1, <4>1, <4>2
    <3>2. CASE ~ask.zero_for_one
      <4>1. u = P + i - 1 /\ V = pool.price..(P + (i - 1) - 1) /\ UnitsAfter(i) = pool.price..(P + i - 1)
        BY <3>2 DEF UnitsAfter
      <4>2. P + i - 1 \in Int /\ P + (i - 1) - 1 = (P + i - 1) - 1 /\ P + i - 1 >= pool.price
        BY <1>1, <2>1, <3>2
      <4> HIDE DEF V, u
      <4> QED
        BY <1>1, <4>1, <4>2
    <3> QED
      BY <3>1, <3>2
  <2>3. /\ IsFiniteSet(V) /\ (\A y \in V : Cost[y] \in Int)
        /\ (\A y \in UnitsAfter(i) : Cost[y] \in Int)
    BY <1>4, <2>1
  <2>4. Total(Cost, V) = Total(Cost, UnitsAfter(0)) + (i - 1) * c /\ Total(Cost, UnitsAfter(0)) \in Int
    <3>1. 0 \in 0..n
      OBVIOUS
    <3>2. Total(Cost, UnitsAfter(0)) \in Int
      BY <1>4, <3>1, SumType
    <3> QED
      BY <1>6, <3>2
  <2>5. Cost[u] = c
    <3>1. IF ask.zero_for_one THEN PriceAt(t) <= u /\ u < P ELSE P <= u /\ u < PriceAt(t)
      BY <1>1, <1>3, <2>1 DEF PriceAfter
    <3>2. SeenLiquidity(TickAt(u)) = state.liquidity
      <4> HIDE DEF u
      <4> QED
        BY <1>1, <2>2, <3>1, SameOnTheWay
    <3>3. Grain * MinTick <= u /\ u <= Grain * MaxTick
      <4>1. CASE ask.zero_for_one
        <5>1. Limit <= P - n /\ Limit = 2 * MinTick + 1
          BY <1>3, <4>1, LimitIs DEF PriceAfter
        <5> QED
          BY <1>1, <2>1, <4>1, <5>1, LimitIs DEF Grain
      <4>2. CASE ~ask.zero_for_one
        <5>1. P + n <= Limit /\ Limit = 2 * MaxTick - 1
          BY <1>3, <4>2, LimitIs DEF PriceAfter
        <5> QED
          BY <1>1, <2>1, <4>2, <5>1, LimitIs DEF Grain
      <4> QED
        BY <4>1, <4>2
    <3> HIDE DEF u
    <3> QED
      BY <1>1, <2>2, <3>2, <3>3, CostIs DEF c
  <2> HIDE DEF u, V
  <2>6. Total(Cost, V \cup {u}) = Cost[u] + Total(Cost, V)
    BY <1>2, <2>2, <2>3, <2>5, SumPlusOne
  <2>7. (i - 1) * c = i * c - c /\ i * c \in Int
    BY <1>2, <2>1
  <2>8. Total(Cost, UnitsAfter(i)) = Total(Cost, UnitsAfter(0)) + i * c
    BY <1>2, <2>2, <2>4, <2>5, <2>6, <2>7
  <2> QED
    BY <2>1, <2>8
<1>7. \A i \in 0..n : i \in S
  <2> HIDE DEF S
  <2> QED
    BY <1>5, <1>6, UpTo
<1> QED
  BY <1>7 DEF c

\* A step of the walk keeps both.
LEMMA StepSpends ==
  ASSUME IInv, Along, Spent, Walking, pc' = "loop", UNCHANGED <<pool, ask>>,
         NEW t \in DOMAIN pool.net, NEW n \in Nat, NothingSkipped(t), ArrayStart(t) = FirstArray,
         Progress(n, t, state')
  PROVE  Spent' /\ Reached'
<1>1. /\ pc = "loop" /\ Chosen /\ InStep /\ state.price \in Int /\ pool.price \in Int
      /\ ask.zero_for_one \in BOOLEAN /\ state.remaining \in Nat /\ state.remaining # 0
  BY PassedIs DEF Walking, InStep
<1>2. /\ PoolMoves(RealAmount)' = PoolMoves(RealAmount) /\ Cost' = Cost
      /\ Limit' = Limit /\ RealAmount' = RealAmount /\ FirstArray' = FirstArray
  BY Fixed, MovesFixed
<1>3. CASE state'.remaining = 0
  BY <1>3 DEF Spent, Reached
<1>4. CASE state'.remaining # 0
  <2>1. /\ state'.remaining = state.remaining - n * UnitCost(state.liquidity)
        /\ state'.price = PriceAt(t) \/ state'.price = Limit
        /\ n * UnitCost(state.liquidity) \in Nat
        /\ state'.price = PriceAfter(n)
        /\ state'.price = PriceAt(t) => state'.tick = IF ask.zero_for_one THEN t - 1 ELSE t
    BY <1>4 DEF Progress
  <2>2. UnitsAfter(0)' = UnitsAfter(n)
    <3>1. CASE ask.zero_for_one
      <4>1. state'.price - 0 = state.price - n
        BY <1>1, <2>1, <3>1 DEF PriceAfter
      <4> QED
        BY <3>1, <4>1 DEF UnitsAfter
    <3>2. CASE ~ask.zero_for_one
      <4>1. state'.price + 0 - 1 = state.price + n - 1
        BY <1>1, <2>1, <3>2 DEF PriceAfter
      <4> QED
        BY <3>2, <4>1 DEF UnitsAfter
    <3> QED
      BY <3>1, <3>2
  <2>3. Total(Cost, UnitsAfter(n)) = Total(Cost, UnitsAfter(0)) + n * UnitCost(state.liquidity)
    BY TakenByStep
  <2>4. RealAmount = state.remaining + Total(Cost, UnitsAfter(0)) /\ RealAmount \in Nat
    BY <1>1, FeesAre DEF Spent
  <2>5. Total(Cost, UnitsAfter(0)) \in Int
    <3> DEFINE S == UnitsAfter(0)
    <3>1. IsFiniteSet(S) /\ \A u \in S : Cost[u] \in Int
      <4>1. Passed \in 0..Units /\ InStep
        BY <1>1 DEF Along
      <4>2. \A u \in S : u \in Int /\ Grain * MinTick <= u /\ u <= Grain * MaxTick
        <5>1. /\ Grain * MinTick <= pool.price /\ pool.price <= Grain * MaxTick
              /\ IF ask.zero_for_one THEN Limit <= state.price ELSE state.price <= Limit
          BY <1>1, PoolIs DEF InStep
        <5>2. S = IF ask.zero_for_one THEN state.price..(pool.price - 1) ELSE pool.price..(state.price - 1)
          BY <1>1 DEF UnitsAfter
        <5> HIDE DEF S
        <5> QED
          BY <1>1, <5>1, <5>2, LimitIs DEF Grain
      <4>3. IsFiniteSet(S)
        <5>1. /\ state.price - 0 \in Int /\ pool.price - 1 \in Int /\ state.price + 0 - 1 \in Int
          BY <1>1
        <5> QED
          BY <1>1, <5>1, FS_Interval DEF UnitsAfter
      <4> HIDE DEF S
      <4> QED
        BY <1>1, <4>2, <4>3, CostIsInt
    <3> HIDE DEF S
    <3>2. Total(Cost, S) \in Int
      BY <3>1, SumType
    <3> QED
      BY <3>2 DEF S
  <2>6. RealAmount = state'.remaining + Total(Cost, UnitsAfter(n))
    BY <1>1, <2>1, <2>3, <2>4, <2>5
  <2>7. Spent'
    BY <1>2, <2>2, <2>6 DEF Spent
  <2>8. Reached'
    <3>1. CASE state'.price = Limit
      BY <1>2, <3>1 DEF Reached
    <3>2. CASE state'.price = PriceAt(t)
      <4>1. t \in Int /\ t - 1 \in Int
        BY <1>1, PoolIs
      <4>2. ArrayStart(t - 1) <= FirstArray /\ ArrayStart(t) = FirstArray /\ FirstArray \in Int
        BY <4>1, StartsGrow, StartIs
      <4>3. IF ask.zero_for_one THEN ArrayStart(state'.tick) <= FirstArray ELSE ArrayStart(state'.tick) >= FirstArray
        BY <1>1, <2>1, <3>2, <4>2
      <4> QED
        BY <1>2, <4>3 DEF Reached
    <3> QED
      BY <2>1, <3>1, <3>2
  <2> QED
    BY <2>7, <2>8
<1> QED
  BY <1>3, <1>4

\* Every step keeps both.
LEMMA SpentNext == IInv /\ IInv' /\ Along /\ Spent /\ Reached /\ [Next]_vars => Spent' /\ Reached'
<1> SUFFICES ASSUME IInv, IInv', Along, Spent, Reached, [Next]_vars PROVE Spent' /\ Reached'
  OBVIOUS
<1>1. CASE pc' # "loop"
  BY <1>1 DEF Spent, Reached
<1>2. CASE UNCHANGED vars \/ Returned
  <2>1. UNCHANGED vars
    BY <1>2 DEF Returned
  <2>2. Cost' = Cost /\ RealAmount' = RealAmount /\ FirstArray' = FirstArray /\ Limit' = Limit
    BY <2>1, Fixed, MovesFixed DEF vars
  <2>3. UnitsAfter(0)' = UnitsAfter(0)
    BY <2>1 DEF UnitsAfter, vars
  <2> QED
    BY <2>1, <2>2, <2>3 DEF Spent, Reached, vars
<1>3. CASE Enter
  <2>1. /\ pool' = pool /\ ask' = ask /\ state' = StartState /\ Chosen /\ ~NoArray /\ matched' = FirstArrayExists
    BY <1>3, EnterKeeps DEF Enter, IInv
  <2>2. /\ state'.price = pool.price /\ state'.remaining = RealAmount /\ state'.tick = pool.tick
        /\ pool.price \in Int /\ RealAmount \in Nat
    BY <2>1, PoolIs, FeesAre DEF StartState
  <2>3. RealAmount' = RealAmount /\ FirstArray' = FirstArray
    BY <2>1, Fixed
  <2>4. Spent'
    <3>1. UnitsAfter(0)' = {}
      <4>1. /\ state'.price - 0 = pool.price /\ state'.price + 0 - 1 = pool.price - 1
            /\ pool.price..(pool.price - 1) = {}
        BY <2>2
      <4> QED
        BY <2>1, <4>1 DEF UnitsAfter
    <3>2. Total(Cost', {}) = 0
      BY SumNone
    <3> QED
      BY <2>2, <2>3, <3>1, <3>2 DEF Spent
  <2>5. Reached'
    <3>1. FirstArrayExists => FirstArray = ArrayStart(pool.tick) /\ FirstArray \in Int
      BY <2>1, FirstIs
    <3> QED
      BY <2>1, <2>2, <2>3, <3>1 DEF Reached
  <2> QED
    BY <2>4, <2>5
<1>4. CASE pc = "loop" /\ Next /\ pc' = "loop"
  <2>1. /\ Walking /\ UNCHANGED <<pool, ask>>
        /\ \E t \in DOMAIN pool.net, n \in Nat :
             NothingSkipped(t) /\ ArrayStart(t) = FirstArray /\ Progress(n, t, state')
    BY <1>4, StepOrStop DEF Terminal
  <2> QED
    BY <1>4, <2>1, StepSpends
<1>5. CASE EntryPanics \/ EntryFails
  BY <1>1, <1>5 DEF EntryPanics, EntryFails
<1> QED
  BY <1>1, <1>2, <1>3, <1>4, <1>5
     DEF Next, WalkHere, LeaveArray, InTime, TooManyLoops, Walking, Finish

\* Both hold throughout.
LEMMA SpentAlways == Spec => [](Spent /\ Reached)
<1>1. Init => Spent /\ Reached
  BY DEF Init, Spent, Reached
<1>2. IInv /\ IInv' /\ Along /\ (Spent /\ Reached) /\ [Next]_vars => (Spent /\ Reached)'
  BY SpentNext
<1> QED
  BY <1>1, <1>2, Invariant, AlongAlways, PTL DEF Spec

\* An array that is used up has taken all it can.
LEMMA UsedUpTakes ==
  ASSUME IInv, Along, Spent, Reached, Walking, UsedUp, ~Torn
  PROVE  RealAmount > FirstArrayTakes
<1> DEFINE I == InArray(pool, FirstArray)
           S == UnitsAfter(0)
           T == state.tick
<1>1. /\ pc = "loop" /\ Chosen /\ InStep /\ InFirst /\ state.price \in Int /\ pool.price \in Int
      /\ ask.zero_for_one \in BOOLEAN /\ state.remaining \in Nat /\ state.remaining # 0 /\ state.price # Limit
      /\ T \in Int /\ PriceAt(T) <= state.price /\ state.price <= PriceAt(T + 1)
      /\ Grain * MinTick <= pool.price /\ pool.price <= Grain * MaxTick
      /\ IF ask.zero_for_one THEN Limit <= state.price ELSE state.price <= Limit
  BY PassedIs, PoolIs, LimitIs DEF Walking, InStep, IInv, InWalk
<1>2. FirstArray \in pool.flagged /\ FirstArray \in Int
  BY <1>1, FirstIs DEF InFirst
<1>3. I # {} /\ I \in SUBSET (DOMAIN pool.net) /\ \A u \in I : u \in Int /\ ArrayStart(u) = FirstArray
  BY <1>1, <1>2, PoolIs DEF Torn, InArray
<1>4. /\ LastTick \in I
      /\ \A u \in I : IF ask.zero_for_one THEN u >= LastTick ELSE u <= LastTick
  <2>1. IsFiniteSet(I) /\ I \subseteq Int
    <3> HIDE DEF I
    <3> QED
      BY <1>1, <1>3, FinitelyMany, FS_Subset
  <2>2. LastTick = Nearest(I, ~ask.zero_for_one) /\ (~ask.zero_for_one) \in BOOLEAN
    BY DEF LastTick
  <2> HIDE DEF I
  <2>3. /\ LastTick \in I
        /\ \A u \in I : IF ~ask.zero_for_one THEN u <= LastTick ELSE u >= LastTick
    BY <1>3, <2>1, <2>2, NearestIs
  <2> QED
    BY <2>3
<1>5. LastTick \in Int /\ ArrayStart(LastTick) = FirstArray /\ LastTick \in DOMAIN pool.net
  BY <1>3, <1>4
<1>6. matched /\ AheadInArray(pool, FirstArray, T, ask.zero_for_one) = {}
  BY <1>1 DEF UsedUp, TicksHere, InFirst
<1>7. IF ask.zero_for_one THEN ArrayStart(T) <= FirstArray ELSE ArrayStart(T) >= FirstArray
  BY <1>1, <1>6 DEF Reached
<1>8. ArrayStart(T) \in Int
  BY <1>1, StartIs
<1>9. IF ask.zero_for_one THEN state.price <= PriceAt(LastTick) ELSE PriceAt(LastTick) <= state.price
  <2>1. CASE ask.zero_for_one
    <3>1. T < LastTick
      <4>1. CASE ArrayStart(T) = FirstArray
        BY <1>1, <1>4, <1>5, <1>6, <2>1, <4>1 DEF AheadInArray
      <4>2. CASE ArrayStart(T) # FirstArray
        <5>1. ArrayStart(T) < ArrayStart(LastTick)
          BY <1>2, <1>5, <1>7, <1>8, <2>1, <4>2
        <5>2. LastTick <= T => ArrayStart(LastTick) <= ArrayStart(T)
          BY <1>1, <1>5, StartsGrow
        <5> QED
          BY <1>1, <1>2, <1>5, <1>8, <5>1, <5>2
      <4> QED
        BY <4>1, <4>2
    <3> QED
      BY <1>1, <1>5, <2>1, <3>1 DEF PriceAt, Grain
  <2>2. CASE ~ask.zero_for_one
    <3>1. LastTick <= T
      <4>1. CASE ArrayStart(T) = FirstArray
        BY <1>1, <1>4, <1>5, <1>6, <2>2, <4>1 DEF AheadInArray
      <4>2. CASE ArrayStart(T) # FirstArray
        <5>1. ArrayStart(T) > ArrayStart(LastTick)
          BY <1>2, <1>5, <1>7, <1>8, <2>2, <4>2
        <5>2. T <= LastTick => ArrayStart(T) <= ArrayStart(LastTick)
          BY <1>1, <1>5, StartsGrow
        <5> QED
          BY <1>1, <1>2, <1>5, <1>8, <5>1, <5>2
      <4> QED
        BY <4>1, <4>2
    <3> QED
      BY <1>1, <1>5, <2>2, <3>1 DEF PriceAt, Grain
  <2> QED
    BY <2>1, <2>2
<1>10. PriceAt(LastTick) \in Int
  BY <1>5 DEF PriceAt, Grain
<1>11. S = IF ask.zero_for_one THEN state.price..(pool.price - 1) ELSE pool.price..(state.price - 1)
  BY <1>1 DEF UnitsAfter
<1>12. UnitsToLastTick \in SUBSET S
  <2> HIDE DEF S
  <2>1. UnitsToLastTick = IF ask.zero_for_one THEN PriceAt(LastTick)..(pool.price - 1)
                                              ELSE pool.price..(PriceAt(LastTick) - 1)
    BY DEF UnitsToLastTick
  <2> QED
    BY <1>1, <1>9, <1>10, <1>11, <2>1
<1>13. IsFiniteSet(S) /\ \A u \in S : Cost[u] \in Nat
  <2> HIDE DEF S
  <2>1. IsFiniteSet(S)
    <3>1. pool.price - 1 \in Int /\ state.price - 1 \in Int
      BY <1>1
    <3> QED
      BY <1>1, <1>11, <3>1, FS_Interval
  <2>2. ASSUME NEW u \in S PROVE Cost[u] \in Nat
    <3>1. u \in Int /\ Grain * MinTick <= u /\ u <= Grain * MaxTick
      BY <1>1, <1>11, LimitIs DEF Grain
    <3>2. TickAt(u) \in Tick
      <4> DEFINE k == TickAt(u)
      <4>1. k \in Int /\ 2 * k <= u /\ u < 2 * (k + 1)
        BY <3>1, TickAtIs DEF PriceAt, Grain
      <4>2. 2 * MinTick <= u /\ u <= 2 * MaxTick
        BY <3>1 DEF Grain
      <4> HIDE DEF k
      <4>3. k \in MinTick..MaxTick
        BY <3>1, <4>1, <4>2, LimitIs
      <4> QED
        BY <4>3 DEF Tick, k
    <3>3. ~(SeenLiquidity(TickAt(u)) < 0)
      BY <3>2 DEF Torn
    <3>4. SeenLiquidity(TickAt(u)) \in Nat
      BY <1>1, <3>1, <3>3, TickAtIs, SeenIsInt
    <3> QED
      BY <1>1, <3>1, <3>4, CostIs, SwapWalkAssumption DEF UnitCost
  <2> QED
    BY <2>1, <2>2
<1>14. Total(Cost, UnitsToLastTick) <= Total(Cost, S) /\ Total(Cost, UnitsToLastTick) \in Nat /\ Total(Cost, S) \in Nat
  <2> HIDE DEF S
  <2> QED
    BY <1>12, <1>13, SumGrows
<1>15. FirstArrayTakes = Total(Cost, UnitsToLastTick)
  BY DEF FirstArrayTakes, SumOver, Total
<1>16. RealAmount = state.remaining + Total(Cost, S)
  BY <1>1 DEF Spent
<1> HIDE DEF S
<1> QED
  BY <1>1, <1>14, <1>15, <1>16

\* Every iteration the loop goes on after has crossed one tick.
Counted ==
  /\ pc = "entry" => loops = 0
  /\ Walking => /\ loops = Cardinality(Crossed)
                /\ IF ask.zero_for_one THEN state.tick <= pool.tick ELSE pool.tick <= state.tick

\* A step the loop goes on after crosses the tick it is towards, and no other one.
LEMMA OneMoreCrossed ==
  ASSUME IInv, Walking, Walking', Counted, UNCHANGED <<pool, ask>>,
         NEW t \in DOMAIN pool.net, NEW n \in Nat, NothingSkipped(t), Progress(n, t, state')
  PROVE  /\ Cardinality(Crossed)' = Cardinality(Crossed) + 1
         /\ IF ask.zero_for_one THEN state'.tick <= pool.tick ELSE pool.tick <= state'.tick
<1> DEFINE D == DOMAIN pool.net
           T == state.tick
           U == state'.tick
<1>1. /\ Chosen /\ T \in Int /\ D \subseteq Int /\ IsFiniteSet(D) /\ t \in Int /\ pool.tick \in Int
      /\ ask.zero_for_one \in BOOLEAN
  BY PoolIs, AskIs, FinitelyMany, LimitIs DEF IInv, InWalk, InStep, Walking, Tick
<1>2. U = IF ask.zero_for_one THEN t - 1 ELSE t
  <2>1. Limit' = Limit
    BY Fixed
  <2>2. state'.remaining # 0 /\ state'.price # Limit
    BY <2>1 DEF Walking
  <2>3. state'.price = PriceAt(t)
    BY <2>2 DEF Progress
  <2> QED
    BY <2>3 DEF Progress
<1>3. IF ask.zero_for_one THEN T <= pool.tick ELSE pool.tick <= T
  BY DEF Counted
<1>4. IF ask.zero_for_one THEN t <= T /\ \A v \in D : ~(t < v /\ v <= T)
                          ELSE t > T /\ \A v \in D : ~(T < v /\ v < t)
  BY DEF NothingSkipped
<1>5. /\ Crossed = {v \in D : IF ask.zero_for_one THEN T < v /\ v <= pool.tick ELSE pool.tick < v /\ v <= T}
      /\ Crossed' = {v \in D : IF ask.zero_for_one THEN U < v /\ v <= pool.tick ELSE pool.tick < v /\ v <= U}
  BY DEF Crossed
<1> HIDE DEF D, T, U
<1>6. t \in D
  BY DEF D
<1>7. t \notin Crossed /\ IsFiniteSet(Crossed)
  <2>1. t \notin Crossed
    BY <1>1, <1>4, <1>5
  <2>2. Crossed \in SUBSET D
    BY <1>5
  <2> QED
    BY <1>1, <2>1, <2>2, FS_Subset
<1>8. Crossed' = Crossed \cup {t}
  <2>1. ASSUME NEW v \in D PROVE v \in Crossed' <=> v \in Crossed \/ v = t
    BY <1>1, <1>2, <1>3, <1>4, <1>5, <2>1
  <2> QED
    BY <1>5, <1>6, <2>1
<1>9. Cardinality(Crossed)' = Cardinality(Crossed \cup {t})
  BY <1>8
<1>10. IF ask.zero_for_one THEN U <= pool.tick ELSE pool.tick <= U
  BY <1>1, <1>2, <1>3, <1>4
<1> QED
  BY <1>7, <1>9, <1>10, FS_AddElement DEF U

\* Every step keeps the count.
LEMMA CountedNext == IInv /\ Counted /\ [Next]_vars => Counted'
<1> SUFFICES ASSUME IInv, Counted, [Next]_vars PROVE Counted'
  OBVIOUS
<1>1. CASE UNCHANGED vars \/ Returned
  <2>1. UNCHANGED vars
    BY <1>1 DEF Returned
  <2>2. Limit' = Limit
    BY <2>1, Fixed DEF vars
  <2>3. Crossed' = Crossed /\ (Walking' <=> Walking)
    BY <2>1, <2>2 DEF Crossed, Walking, vars
  <2> QED
    BY <2>1, <2>3 DEF Counted, vars
<1>2. CASE pc' \notin {"entry", "loop"}
  BY <1>2 DEF Counted, Walking
<1>3. CASE Enter
  <2>1. /\ pool' = pool /\ ask' = ask /\ state'.tick = pool.tick /\ pool.tick \in Int /\ loops' = 0
        /\ pc' = "loop" /\ Chosen
    <3>1. state' = StartState /\ Chosen
      BY <1>3, EnterKeeps DEF IInv
    <3>2. state'.tick = pool.tick
      BY <3>1 DEF StartState
    <3> QED
      BY <1>3, <3>1, <3>2, PoolIs DEF Enter, Counted, Tick, IInv
  <2>2. Crossed' = {}
    <3>1. \A v \in DOMAIN pool.net : v \in Int
      BY <2>1, PoolIs
    <3> QED
      BY <2>1, <3>1 DEF Crossed
  <2>3. Cardinality(Crossed)' = 0
    BY <2>2, FS_EmptySet
  <2> QED
    BY <2>1, <2>3 DEF Counted
<1>4. CASE pc = "loop" /\ Next /\ pc' = "loop"
  <2>1. /\ Walking /\ UNCHANGED <<pool, ask>> /\ loops' = loops + 1
        /\ \E t \in DOMAIN pool.net, n \in Nat : NothingSkipped(t) /\ Progress(n, t, state')
    BY <1>4, StepOrStop DEF Terminal
  <2>2. PICK t \in DOMAIN pool.net, n \in Nat : NothingSkipped(t) /\ Progress(n, t, state')
    BY <2>1
  <2>3. ASSUME Walking'
        PROVE  /\ loops' = Cardinality(Crossed)'
               /\ IF ask'.zero_for_one THEN state'.tick <= pool'.tick ELSE pool'.tick <= state'.tick
    BY <2>1, <2>2, <2>3, OneMoreCrossed DEF Counted
  <2> QED
    BY <1>4, <2>3 DEF Counted
<1>5. CASE EntryPanics \/ EntryFails
  BY <1>2, <1>5 DEF EntryPanics, EntryFails
<1>6. CASE pc = "loop" /\ Next /\ pc' # "loop"
  <2>1. pc' \in Terminal
    BY <1>6, StepOrStop
  <2> QED
    BY <1>2, <2>1 DEF Terminal
<1> QED
  BY <1>1, <1>2, <1>3, <1>4, <1>5, <1>6
     DEF Next, WalkHere, LeaveArray, InTime, TooManyLoops, Walking, Finish

\* The count is right throughout.
LEMMA CountedAlways == Spec => []Counted
<1>1. Init => Counted
  BY DEF Init, Counted, Walking
<1>2. IInv /\ Counted /\ [Next]_vars => Counted'
  BY CountedNext
<1> QED
  BY <1>1, <1>2, Invariant, PTL DEF Spec

\* What the property is about does not change with the pool and the arguments.
LEMMA BeyondFixed ==
  ASSUME UNCHANGED <<pool, ask>>
  PROVE  BeyondFirstArray' = BeyondFirstArray /\ PriceBeyondLimit' = PriceBeyondLimit
<1>1. Cost' = Cost /\ FirstArray' = FirstArray /\ RealAmount' = RealAmount
  BY Fixed, MovesFixed
<1>2. UnitsToLastTick' = UnitsToLastTick
  <2>1. LastTick' = LastTick
    BY <1>1 DEF LastTick
  <2> QED
    BY <2>1 DEF UnitsToLastTick
<1>3. FirstArrayTakes' = FirstArrayTakes
  BY <1>1, <1>2 DEF FirstArrayTakes
<1>4. Torn' = Torn
  BY DEF Torn, SeenLiquidity
<1>5. PriceBeyondLimit' = PriceBeyondLimit
  BY Fixed DEF PriceBeyondLimit
<1> QED
  BY <1>1, <1>3, <1>4, <1>5 DEF BeyondFirstArray

\* A step towards a tick only aborts when the parts do not fit together.
LEMMA AbortsTorn ==
  ASSUME IInv, Walking, ~UsedUp, StepAborts(TicksHere)
  PROVE  Torn
<1>1. Chosen /\ InFirst /\ InStep /\ state.tick \in Int
  BY LimitIs DEF Walking, IInv, InWalk, InStep
<1>2. CASE TicksHere = {}
  <2>1. InArray(pool, FirstArray) = {}
    BY <1>1, <1>2 DEF UsedUp, TicksHere, InFirst
  <2>2. FirstArray \in pool.flagged
    BY <1>1, FirstIs DEF InFirst
  <2> QED
    BY <2>1, <2>2 DEF Torn
<1>3. CASE TicksHere # {}
  <2> DEFINE t == Nearest(TicksHere, ask.zero_for_one)
             s == AfterStep(TicksHere)
  <2>1. s.liquidity < 0
    BY <1>3 DEF StepAborts
  <2>2. s = Advance(t, SwapStep(state.price, Target(t), state.liquidity, state.remaining))
    BY DEF AfterStep
  <2> HIDE DEF t, s
  <2>3. t \in DOMAIN pool.net /\ NothingSkipped(t)
    BY <1>1, <1>3, NextTickIs DEF t
  <2>4. \E n \in Nat : Progress(n, t, s)
    BY <1>1, <2>2, <2>3, OneStep
  <2>5. s.liquidity = SeenLiquidity(s.tick) /\ s.tick \in Tick
    BY <2>4 DEF Progress, Tick
  <2> QED
    BY <2>1, <2>5 DEF Torn
<1> QED
  BY <1>2, <1>3

\* No step fails without the reason its ending names.
LEMMA ServedNext ==
  IInv /\ Along /\ Spent /\ Reached /\ Counted /\ FirstArrayIsServed /\ [Next]_vars => FirstArrayIsServed'
<1> SUFFICES ASSUME IInv, Along, Spent, Reached, Counted, FirstArrayIsServed, [Next]_vars
             PROVE  FirstArrayIsServed'
  OBVIOUS
<1>1. ASSUME UNCHANGED <<pool, ask>>
      PROVE  /\ BeyondFirstArray' = BeyondFirstArray /\ PriceBeyondLimit' = PriceBeyondLimit
             /\ RealAmount' = RealAmount /\ NoArray' = NoArray
  BY <1>1, Fixed, BeyondFixed
<1>2. CASE UNCHANGED vars \/ Returned
  <2>1. UNCHANGED vars
    BY <1>2 DEF Returned
  <2>2. Crossed' = Crossed
    BY <2>1 DEF Crossed, vars
  <2> QED
    BY <1>1, <2>1, <2>2 DEF FirstArrayIsServed, vars
<1>3. CASE EntryPanics \/ EntryFails
  BY <1>1, <1>3 DEF EntryPanics, EntryFails, FirstArrayIsServed
<1>4. CASE WalkHere
  <2>1. CASE StepAborts(TicksHere)
    <3>1. Stop("panicked") /\ Walking /\ ~UsedUp
      BY <1>4, <2>1 DEF WalkHere, InTime
    <3>2. Torn
      BY <2>1, <3>1, AbortsTorn
    <3> QED
      BY <1>1, <3>1, <3>2 DEF FirstArrayIsServed, BeyondFirstArray, Stop
  <2>2. CASE ~StepAborts(TicksHere)
    BY <1>4, <2>2 DEF WalkHere, InTime, Walking, FirstArrayIsServed
  <2> QED
    BY <2>1, <2>2
<1>5. CASE LeaveArray
  <2>1. Walking /\ UsedUp
    BY <1>5 DEF LeaveArray, InTime
  <2>2. BeyondFirstArray
    BY <2>1, UsedUpTakes DEF BeyondFirstArray
  <2>3. PICK how \in {"panicked", "failed", "mismatch"} : Stop(how)
    BY <1>5, LeaveArrayStops
  <2> QED
    BY <1>1, <2>2, <2>3 DEF FirstArrayIsServed, Stop
<1>6. CASE TooManyLoops
  <2>1. Walking /\ loops > LoopLimit /\ Stop("loop_limit")
    BY <1>6 DEF TooManyLoops
  <2>2. Cardinality(Crossed) > LoopLimit
    BY <2>1 DEF Counted
  <2>3. Crossed' = Crossed /\ pc' = "loop_limit"
    BY <2>1 DEF Crossed, Stop
  <2> QED
    BY <2>2, <2>3 DEF FirstArrayIsServed
<1>7. CASE Enter \/ Finish
  BY <1>7 DEF Enter, Finish, FirstArrayIsServed
<1> QED
  BY <1>2, <1>3, <1>4, <1>5, <1>6, <1>7 DEF Next

\* A quote only fails for the reason its ending names: compute_another_amount prices what
\* the first tick array can take when the fetched parts fit together, aborts only where
\* there is no array, or beyond it, and gives up only after LoopLimit crossed ticks.
THEOREM FailsForAReason == Spec => []FirstArrayIsServed
<1>1. Init => FirstArrayIsServed
  BY DEF Init, FirstArrayIsServed
<1>2. IInv /\ Along /\ (Spent /\ Reached) /\ Counted /\ FirstArrayIsServed /\ [Next]_vars => FirstArrayIsServed'
  BY ServedNext
<1> QED
  BY <1>1, <1>2, Invariant, AlongAlways, SpentAlways, CountedAlways, PTL DEF Spec

=============================================================================
