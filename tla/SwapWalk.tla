------------------------------- MODULE SwapWalk -------------------------------
(***************************************************************************)
(* Pricing one pool: compute_another_amount, from the transfer fees to the *)
(* result, with the walk of swap_compute over the initialized ticks, one   *)
(* loop iteration per step.                                                *)
(*                                                                         *)
(* The price axis is linear: a tick is Grain units of price wide, a unit   *)
(* of price takes the pool's liquidity plus UnitFee in and gives the       *)
(* liquidity out.  What the walk depends on is kept: prices inside a tick, *)
(* steps that stop short of their target, liquidity that changes at ticks, *)
(* ranges without liquidity, fees, and ticks grouped into tick arrays.     *)
(***************************************************************************)
EXTENDS Integers, Sequences, FiniteSets, FiniteSetsExt, SortedSets

CONSTANTS
  MinTick, MaxTick,  \* MIN_TICK, MAX_TICK
  TickCount,         \* ticks in a tick array (tick_spacing is 1)
  LoopLimit,         \* iterations after which swap_compute gives up, 10
  UnitFee,           \* trade fee of a unit of price
  Pools,             \* the pools that may be priced
  Asks               \* the calls of compute_another_amount

Grain == 2
Tick  == MinTick..MaxTick
Price == (Grain * MinTick)..(Grain * MaxTick)  \* sqrt_price_x64

PriceAt(t)    == Grain * t                          \* get_sqrt_price_at_tick
ArrayStart(t) == (t \div TickCount) * TickCount

\* price, tick, liquidity and the start indexes flagged in the bitmaps come from the
\* pool accounts, net, the liquidity_net of the initialized ticks, from the flagged tick
\* arrays, which are read later; fees are the transfer fees of mint_a and mint_b.
\* Only flagged arrays are fetched; price and tick are fields of one account, in which
\* the program leaves a price that lies on a tick on either side of it.
IsPoolInfo(p) ==
  /\ p.price \in Price /\ p.tick \in Tick /\ p.liquidity \in Nat /\ p.fee_a \in Nat /\ p.fee_b \in Nat
  /\ p.flagged \subseteq {ArrayStart(t) : t \in Tick}
  /\ DOMAIN p.net \subseteq Tick /\ p.net \in [DOMAIN p.net -> Int]
  /\ \A t \in DOMAIN p.net : ArrayStart(t) \in p.flagged
  /\ PriceAt(p.tick) <= p.price /\ p.price <= PriceAt(p.tick + 1)

Ask == [zero_for_one : BOOLEAN, base_input : BOOLEAN, amount : Nat]

SumOver(f, S) == MapThenSumSet(LAMBDA u : f[u], S)

\* Liquidity in range at a tick, by the ticks alone.
LiquidityAt(p, t) == SumOver(p.net, {u \in DOMAIN p.net : u <= t})

ASSUME SwapWalkAssumption ==
  /\ MinTick \in Int /\ MaxTick \in Int /\ MinTick < MaxTick
  /\ TickCount \in Nat \ {0} /\ LoopLimit \in Nat /\ UnitFee \in Nat
  /\ Asks \subseteq Ask /\ \A p \in Pools : IsPoolInfo(p)

VARIABLES
  pool,     \* the pool being priced
  ask,      \* the arguments of compute_another_amount
  pc,       \* "entry", "loop", or how the call ended
  state,    \* SwapState
  current,  \* start index of tick_array_current
  valid,    \* current_vaild_tick_array_start_index, a parameter of swap_compute
  queue,    \* start indexes of the tick arrays left in the dequeue
  matched,  \* tick_match_current_tick_array
  starts,   \* tick_array_start_index_vec
  loops,    \* loop_count
  result    \* amount_calculated of OneStepSwapResult

vars == <<pool, ask, pc, state, current, valid, queue, matched, starts, loops, result>>

-----------------------------------------------------------------------------
(* Ticks and tick arrays (library raydium_amm_v3)                          *)

TickAt(price)  == price \div Grain     \* get_tick_at_sqrt_price
Arrays(p)      == p.flagged            \* the default bitmap and its extension as one
InArray(p, s)  == {t \in DOMAIN p.net : ArrayStart(t) = s}

\* next_initialized_tick: downwards the current tick counts, upwards it does not.
AheadInArray(p, s, t, zero_for_one) ==
  IF ArrayStart(t) # s THEN {}
  ELSE {u \in InArray(p, s) : IF zero_for_one THEN u <= t ELSE u > t}

Nearest(S, zero_for_one) == IF zero_for_one THEN Max(S) ELSE Min(S)

\* compute_swap_step of a base-input swap: the target is reached if the amount pays
\* for it; otherwise all of the amount is taken, what buys no price being fee.
SwapStep(price, target, liquidity, remaining) ==
  LET dist == IF price > target THEN price - target ELSE target - price
      unit == liquidity + UnitFee
      n    == IF liquidity = 0 THEN dist ELSE Min({dist, remaining \div unit})
      in   == n * liquidity
  IN  [price      |-> IF price > target THEN price - n ELSE price + n,
       amount_in  |-> in,
       amount_out |-> in,
       fee        |-> IF liquidity = 0 THEN 0 ELSE IF n < dist THEN remaining - in ELSE n * UnitFee]

-----------------------------------------------------------------------------
(* compute_another_amount around the walk                                  *)

FeeIn  == IF ask.zero_for_one THEN pool.fee_a ELSE pool.fee_b
FeeOut == IF ask.zero_for_one THEN pool.fee_b ELSE pool.fee_a

AfterFeeAdded(amount, fee) ==  \* mutant: added to a specified input too
  amount + Min({amount, fee})

AfterFeeUncapped(amount, fee) ==  \* mutant: the fee may exceed the amount
  IF ask.base_input THEN amount - fee ELSE amount + fee

\* get_transfer_amount_fee: deducted when the input is specified, added otherwise.
AfterFee(amount, fee) ==
  LET f == Min({amount, fee}) IN IF ask.base_input THEN amount - f ELSE amount + f

RealAmount == AfterFee(ask.amount, FeeIn)

Limit == IF ask.zero_for_one THEN Grain * MinTick + 1 ELSE Grain * MaxTick - 1

\* The default bitmap and its extensions searched in turn, the nearest array beyond
\* start in the direction of the swap.
NextArrays(start) ==
  {s \in Arrays(pool) : IF ask.zero_for_one THEN s < start ELSE s > start}

FirstArrayExists == ArrayStart(pool.tick) \in Arrays(pool)

FirstArray ==
  IF FirstArrayExists THEN ArrayStart(pool.tick)
  ELSE Nearest(NextArrays(ArrayStart(pool.tick)), ask.zero_for_one)

\* get_tick_array_dequeue: forwards through the arrays at or above the first for
\* zero_for_one, backwards through those at or below it otherwise.
ArrayQueue ==
  IF ask.zero_for_one
  THEN Upwards({s \in Arrays(pool) : s >= FirstArray})
  ELSE Downwards({s \in Arrays(pool) : s <= FirstArray})

NoArray == ~FirstArrayExists /\ NextArrays(ArrayStart(pool.tick)) = {}

PriceBeyondLimit == IF ask.zero_for_one THEN Limit >= pool.price ELSE Limit <= pool.price

StartState ==
  [remaining |-> RealAmount, calculated |-> 0, price |-> pool.price, tick |-> pool.tick,
   liquidity |-> pool.liquidity, fee |-> 0]

Init ==
  /\ pool \in Pools /\ ask \in Asks
  /\ pc = "entry"
  /\ state = [remaining |-> 0, calculated |-> 0, price |-> pool.price, tick |-> pool.tick,
              liquidity |-> 0, fee |-> 0]
  /\ current = 0 /\ valid = 0 /\ queue = <<>> /\ matched = FALSE /\ starts = <<>>
  /\ loops = 0 /\ result = 0

\* No array in the direction: next_start_index.unwrap() in get_first_initialized_tick_array.
EntryPanics ==
  /\ pc = "entry" /\ NoArray
  /\ pc' = "panicked"
  /\ UNCHANGED <<pool, ask, state, current, valid, queue, matched, starts, loops, result>>

EntryFails ==
  /\ pc = "entry" /\ ~NoArray /\ (RealAmount = 0 \/ PriceBeyondLimit)
  /\ pc' = "failed"
  /\ UNCHANGED <<pool, ask, state, current, valid, queue, matched, starts, loops, result>>

Enter ==
  /\ pc = "entry" /\ ~NoArray /\ RealAmount # 0 /\ ~PriceBeyondLimit
  /\ pc' = "loop"
  /\ state' = StartState
  /\ current' = FirstArray /\ valid' = FirstArray
  /\ queue' = Tail(ArrayQueue)
  /\ matched' = FirstArrayExists
  /\ starts' = <<FirstArray>>
  /\ UNCHANGED <<pool, ask, loops, result>>

-----------------------------------------------------------------------------
(* The loop of swap_compute                                                *)

Walking ==
  /\ pc = "loop"
  /\ state.remaining # 0 /\ state.price # Limit
  /\ state.tick < MaxTick /\ state.tick > MinTick

InTime == Walking /\ loops <= LoopLimit

TicksHereMatched ==  \* mutant: an array ahead of the price is taken for used up
  AheadInArray(pool, current, state.tick, ask.zero_for_one)

\* The next tick in the current array; an array the price is not in yet starts with
\* its first one, if it has one.
TicksHere ==
  IF AheadInArray(pool, current, state.tick, ask.zero_for_one) # {}
  THEN AheadInArray(pool, current, state.tick, ask.zero_for_one)
  ELSE IF matched THEN {} ELSE InArray(pool, current)

TargetUnlimited(t) == PriceAt(t)  \* mutant: the limit price does not bound the step

Target(t) ==
  IF ask.zero_for_one THEN Max({PriceAt(t), Limit}) ELSE Min({PriceAt(t), Limit})

AdvanceKeepingSide(t, step) ==  \* mutant: the tick is not moved below a tick crossed downwards
  LET reached == step.price = PriceAt(t)
  IN  [remaining  |-> state.remaining - (step.amount_in + step.fee),
       calculated |-> state.calculated + step.amount_out,
       fee        |-> state.fee + step.fee,
       price      |-> step.price,
       liquidity  |-> IF ~reached THEN state.liquidity
                      ELSE IF ask.zero_for_one THEN state.liquidity - pool.net[t]
                                               ELSE state.liquidity + pool.net[t],
       tick       |-> IF reached THEN t
                      ELSE IF step.price # state.price THEN TickAt(step.price) ELSE state.tick]

AdvanceFeeFree(t, step) ==  \* mutant: the trade fee is not taken from what remains
  LET reached == step.price = PriceAt(t)
  IN  [remaining  |-> state.remaining - step.amount_in,
       calculated |-> state.calculated + step.amount_out,
       fee        |-> state.fee + step.fee,
       price      |-> step.price,
       liquidity  |-> IF ~reached THEN state.liquidity
                      ELSE IF ask.zero_for_one THEN state.liquidity - pool.net[t]
                                               ELSE state.liquidity + pool.net[t],
       tick       |-> IF reached THEN IF ask.zero_for_one THEN t - 1 ELSE t
                      ELSE IF step.price # state.price THEN TickAt(step.price) ELSE state.tick]

\* One step towards tick t: the amounts, the liquidity if the tick is reached, the tick.
Advance(t, step) ==
  LET reached == step.price = PriceAt(t)
  IN  [remaining  |-> state.remaining - (step.amount_in + step.fee),
       calculated |-> state.calculated + step.amount_out,
       fee        |-> state.fee + step.fee,
       price      |-> step.price,
       liquidity  |-> IF ~reached THEN state.liquidity
                      ELSE IF ask.zero_for_one THEN state.liquidity - pool.net[t]
                                               ELSE state.liquidity + pool.net[t],
       tick       |-> IF reached THEN IF ask.zero_for_one THEN t - 1 ELSE t
                      ELSE IF step.price # state.price THEN TickAt(step.price) ELSE state.tick]

Stop(how) ==
  /\ pc' = how
  /\ UNCHANGED <<pool, ask, state, current, valid, queue, matched, starts, loops, result>>

\* The state after a step to the nearest of the ticks of an array.
AfterStep(ticks) ==
  LET t == Nearest(ticks, ask.zero_for_one)
  IN  Advance(t, SwapStep(state.price, Target(t), state.liquidity, state.remaining))

\* first_initialized_tick(..).unwrap() of an array without initialized ticks, and
\* add_delta(..).unwrap() of a liquidity that would go below 0.
StepAborts(ticks) == ticks = {} \/ AfterStep(ticks).liquidity < 0

StepTo(ticks) ==
  /\ state' = AfterStep(ticks)
  /\ loops' = loops + 1
  /\ matched' = TRUE

UsedUp == TicksHere = {} /\ matched

WalkHere ==
  /\ InTime /\ ~UsedUp
  /\ IF StepAborts(TicksHere) THEN Stop("panicked")
     ELSE /\ StepTo(TicksHere)
          /\ UNCHANGED <<pool, ask, pc, current, valid, queue, starts, result>>

\* The array is used up: the next start index is looked for from the parameter, which
\* the loop never changes, and the front of the dequeue has to be that array.
NextArray == Nearest(NextArrays(valid), ask.zero_for_one)

\* tick_arrays.pop_front().unwrap() comes before the check that there is a next array.
LeaveArray ==
  /\ InTime /\ UsedUp
  /\ IF queue = <<>> THEN Stop("panicked")
     ELSE IF NextArrays(valid) = {} THEN Stop("failed")
     ELSE IF Head(queue) # NextArray THEN Stop("mismatch")
     ELSE IF StepAborts(InArray(pool, NextArray)) THEN Stop("panicked")
     ELSE /\ current' = NextArray /\ queue' = Tail(queue)
          /\ starts' = Append(starts, NextArray)
          /\ StepTo(InArray(pool, NextArray))
          /\ UNCHANGED <<pool, ask, pc, valid, result>>

TooManyLoops == Walking /\ loops > LoopLimit /\ Stop("loop_limit")

Finish ==
  /\ pc = "loop" /\ ~Walking
  /\ pc' = "ok"
  /\ result' = AfterFee(state.calculated, FeeOut)
  /\ UNCHANGED <<pool, ask, state, current, valid, queue, matched, starts, loops>>

Terminal == {"ok", "failed", "mismatch", "loop_limit", "panicked"}

Returned == pc \in Terminal /\ UNCHANGED vars

Next ==
  \/ EntryPanics \/ EntryFails \/ Enter
  \/ WalkHere \/ LeaveArray \/ TooManyLoops
  \/ Finish
  \/ Returned

Spec == Init /\ [][Next]_vars /\ WF_vars(Next)

-----------------------------------------------------------------------------
(* What the pool itself would do: it moves unit of price by unit of price  *)
(* until the amount is used up or the limit is reached, whatever tick      *)
(* array the tick is in, on the liquidity the fetched parts add up to.     *)

SeenLiquidity(t) == pool.liquidity + LiquidityAt(pool, t) - LiquidityAt(pool, pool.tick)

\* The ticks were read after positions changed: an array that was flagged has been
\* emptied, or the ticks take away liquidity the pool account does not have.
Torn ==
  \/ \E s \in pool.flagged : InArray(pool, s) = {}
  \/ \E t \in Tick : SeenLiquidity(t) < 0

\* A unit of price is named by its lower end.
NextUnit(price) == IF ask.zero_for_one THEN price - 1 ELSE price

\* What a unit of price takes.
Cost == [u \in Price |-> LET L == SeenLiquidity(TickAt(u)) IN IF L = 0 THEN 0 ELSE L + UnitFee]

\* Amount left, amount given and price after at most n units, from an amount in.
PoolMoves(amount) ==
  LET move[n \in 0..(Grain * (MaxTick - MinTick))] ==
        IF n = 0 THEN [left |-> amount, given |-> 0, price |-> pool.price]
        ELSE LET m == move[n - 1]
                 u == NextUnit(m.price)
             IN  IF m.price = Limit \/ m.left = 0 \/ m.left < Cost[u] THEN m
                 ELSE [left |-> m.left - Cost[u], given |-> m.given + SeenLiquidity(TickAt(u)),
                       price |-> IF ask.zero_for_one THEN m.price - 1 ELSE m.price + 1]
  IN  move

PoolGives(amount) == PoolMoves(amount)[Grain * (MaxTick - MinTick)].given

\* Units of price the walk has passed.
Passed == IF ask.zero_for_one THEN pool.price - state.price ELSE state.price - pool.price

\* What it takes to bring the price to the last initialized tick of the first array.
LastTick == Nearest(InArray(pool, FirstArray), ~ask.zero_for_one)

UnitsToLastTick ==
  IF ask.zero_for_one THEN PriceAt(LastTick)..(pool.price - 1) ELSE pool.price..(PriceAt(LastTick) - 1)

FirstArrayTakes == SumOver(Cost, UnitsToLastTick)

BeyondFirstArray == Torn \/ RealAmount > FirstArrayTakes

\* The initialized ticks between the pool's tick and the current one.
Crossed ==
  {t \in DOMAIN pool.net : IF ask.zero_for_one THEN state.tick < t /\ t <= pool.tick
                                               ELSE pool.tick < t /\ t <= state.tick}

-----------------------------------------------------------------------------
(* Properties                                                              *)

TypeOK ==
  /\ DOMAIN pool.net \subseteq Tick /\ ask \in Ask
  /\ pc \in {"entry", "loop"} \cup Terminal
  /\ state.remaining \in Nat /\ state.calculated \in Nat /\ state.fee \in Nat
  /\ state.price \in Price /\ state.tick \in (MinTick - 1)..MaxTick /\ state.liquidity \in Nat
  /\ current \in Int /\ valid \in Int /\ queue \in Seq(Int) /\ starts \in Seq(Int)
  /\ matched \in BOOLEAN /\ loops \in 0..(LoopLimit + 1) /\ result \in Nat

\* At every turn of the loop the liquidity is the pool's plus what the initialized
\* ticks between the pool's tick and the current one contribute, and the tick is the
\* price's: no tick is passed without its liquidity_net, in either direction and from
\* either side of a tick.
LiquidityFollowsTick ==
  pc \in {"loop", "ok"} =>
    /\ state.liquidity = SeenLiquidity(state.tick)
    /\ PriceAt(state.tick) <= state.price /\ state.price <= PriceAt(state.tick + 1)

\* The price only moves the way of the swap, and never past the limit.
OneWay ==
  [][pc = "loop" =>
       /\ IF ask.zero_for_one THEN state'.price <= state.price /\ state'.price >= Limit
                              ELSE state'.price >= state.price /\ state'.price <= Limit
       /\ state'.remaining <= state.remaining]_vars

\* A quote is what the pool would give for the specified amount taken as an input, to
\* whose end compute_another_amount always asks swap_compute, also for a specified
\* output.  A walk that is or comes into the first or last tick ends there, short of
\* the limit, with what the pool gives for the units of price it has passed.
QuoteMatchesPool ==
  pc = "ok" =>
    state.calculated = IF state.tick \in {MinTick, MaxTick} THEN PoolMoves(RealAmount)[Passed].given
                       ELSE PoolGives(RealAmount)

\* A quote only fails for a reason, and each way to fail has its own: the loop gives up
\* after more than LoopLimit ticks really crossed, the dequeue is out of order only for
\* an amount the first array cannot take or for parts that do not fit together, and an
\* unwrap aborts the handler for no other reasons than these two and a missing array.
FirstArrayIsServed ==
  /\ pc = "panicked" => NoArray \/ BeyondFirstArray
  /\ pc = "failed" => RealAmount = 0 \/ PriceBeyondLimit \/ BeyondFirstArray
  /\ pc = "mismatch" => BeyondFirstArray
  /\ pc = "loop_limit" => Cardinality(Crossed) > LoopLimit

\* get_amount_in and get_amount_out subtract what remains from what was specified as
\* unsigned numbers; that stays a difference unless a transfer fee was put on top of a
\* specified output and the pool ran out before the amount of the fee was swapped.
ReportedWithinAsk ==
  pc = "ok" /\ state.remaining > ask.amount =>
    ~ask.base_input /\ FeeIn > 0 /\ (state.price = Limit \/ state.tick \notin (MinTick + 1)..(MaxTick - 1))

\* swap_compute's comment: the loop goes on until the input is consumed or the limit
\* price is reached, across ticks; it does not end because of the array order.
LoopConsumes == pc # "mismatch"
=============================================================================
