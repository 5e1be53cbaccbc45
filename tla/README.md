# A verification development for dex-router

dex-router is a gRPC service (Rust, tonic, tokio) that quotes and builds token
swaps through the concentrated-liquidity (CLMM) pools of one Solana program. It
keeps no database: every quote reads all pools from an RPC node, searches direct
and one-hop routes, walks each pool's ticks to price it, and answers with the
best route. Its only mutable state is a runtime configuration, which a Nacos
listener replaces while requests read it.

This directory holds TLA+ modules for the logic of that service, the TLC
configurations that check them, and TLAPS proofs. Paths below are relative to the
crate (`src/src/` in the repository).

## 1. The system

| Component | Code | State | Operations |
|---|---|---|---|
| gRPC server, start-up | `main.rs` | none; serves after `init_nacos` returned | start, accept a request |
| Runtime configuration | `nacos_config/` | `nacos_global_config: Arc<RwLock<NacosConfig>>` | `init_nacos`, `notify`, `set_global_nacos_config`, `get_nacos_config`, `get_rand_rpc` |
| Router service | `service/router_service/router_service.rs` | per request only; the quote travels through the client | `quote_price`, `create_swap_transaction` |
| Route search and ranking | `route_utils.rs`, `types.rs` | direct list, buckets per intermediate mint, best route | `get_all_route_path`, `compute_best_route`, `better` |
| Pricing a pool | `clmm_pool_utils.rs`, `pool_info.rs` | `SwapState`, current tick array, dequeue | `compute_another_amount`, `swap_compute` |
| Tick array keys | `pool_info.rs` | list of keys | `calculate_all_tick_array_keys` |
| Pool fetching | `route_utils.rs`, `core/account_puller.rs` | mint cache per call | `fetch_all_clmm_pools`, `get_multi_account_data` |
| Tick liquidity | `route_utils.rs` | running liquidity | `generate_tick_liquidity_info` |
| Transaction assembly | `core/clmm_program.rs`, `core/build_tx.rs` | swap infos, account list, compute unit limit | `build_swap_v2_tx`, `build_route_tx`, `build_versioned_transaction` |
| Query service | `query_service.rs` | the two lists of one `check_tx` call | `check_tx`, `get_contract_info`, `list_line_position` |
| Watch configuration | `config/` | `Arc<RwLock<AppConfig>>`, watch channel and its receivers | `load_config_from_nacos`, `notify`; compiled, not started by `main` |
| Logging, tracing, generated code | `logging/`, `trace.rs`, `service/pb/` | none that matters | |

How they interact. `main` awaits `init_nacos` and only then serves. Each handler
begins by cloning the configuration and picking an RPC node. `quote_price` then
awaits the chain (pools, mints, fee configuration, bitmap extension, tick
arrays), and the rest of it is sequential: the search sorts the pools, the
ranking prices every candidate with `compute_another_amount`, and `better` keeps
one. `create_swap_transaction` takes an earlier quote back from the client, reads
the pools again, reads the configuration a second time when it builds the
instruction, simulates it and compiles a transaction the client signs; `check_tx`
compares what was signed with what was built. The Nacos SDK calls `notify`, which
spawns a tokio task per change.

What is hard. The order of the pools and of a `HashMap` must not matter; each
hop's direction is inferred from one mint comparison; the tick walk changes
liquidity at ticks from both sides; bitmap indices are inverted by hand with
corrections at bit zero; configuration tasks race with each other and with
requests that read twice; chain data is read in several awaited calls; the quote comes
back from the client, and the direction of each pool is then told anew, by vaults, from
one mint comparison; account segments are cut by byte-wide counts the code adds up by
hand. The list with lines is `hazards` in `PROJECT.json`.

What makes each part correct: the search finds exactly the routes that exist and
answers the same whatever the order; the route is a path from the asked input to
the asked output; the key list names exactly the initialized arrays in ascending
order; the walk's liquidity is that of its tick and its quote is what the pool
would give; the configuration is never the empty default, and none that was over when a newer one was
notified comes back; a transaction made from a quote trades the mints that were
asked for and gives what was quoted; only what was built is confirmed.

## 2. Modules

### PoolSnapshot, BestQuote, RouteSearch (route search and ranking)

`PoolSnapshot` has no state: it defines the fetched pools, the request and the
result of pricing one pool. A pool's price curve is abstract, a function of
direction and amount with the outcome `Failed` for an error of
`compute_another_amount` (or an abort inside it, which also ends the request). Two
amounts are all the ranking looks at, so ticks stay out of this part; SwapWalk
models them. Pools are named by their position in the vector.

`BestQuote` is the abstract specification. Its one action answers the request: no
route if no pool touches either mint, failure if any existing route cannot be
priced, else the largest amount over the existing routes. It mentions no order.
It takes the ranking rule as the code documents it (`better`'s comment, also for a
specified output) and the code's all-or-nothing error handling.

`RouteSearch` is the handler. Correspondence:

| Action | Code |
|---|---|
| `ScanDirect`, `ScanInputSide`, `ScanOutputSide`, `ScanUnrelated` | one iteration of the loop in `get_all_route_path` |
| `FinishScan` | the `is_empty` test of `quote_price_impl` |
| `RankDirect`, `FinishDirect` | the direct loop of `compute_best_route` |
| `OpenHop(m)` | next entry of the HashMap; the choice of `m` is its random order |
| `RankPairBaseInput`, `RankPairBaseOutput` | one iteration of the nested loops, with the assertion before the second hop |
| `CloseHop`, `Reply` | `better` with the bucket's result, the response |

The SOL-to-WSOL conversion is made where the code makes it (`Canon` in the scan)
and not made where it is not (pricing uses `req.input`).

### TickArrayScan (tick array keys)

One iteration of the four loops per step over symbolic bitmaps (sets of bits).
The PDA of a start index is an injective hash, so start indexes stand for keys.
The chain's own formulas (`OffsetInBitmap`, `BitmapOffset`) are external and are
what `KeysExact` compares with. i32 is wide enough: indexes stay within 15 bitmaps
of 512 arrays of 60 ticks times the spacing.

### SwapWalk (pricing one pool)

`compute_another_amount` from the transfer fees to the result, the walk of
`swap_compute` one iteration per step. The price axis is linear and `Grain` units
of price make a tick; a unit of price costs the liquidity plus `UnitFee` and yields
the liquidity. That keeps what the control flow depends on (a step that reaches
its target or stops short, prices on and between ticks, ranges without liquidity,
fees, arrays, limit) and leaves out square roots and rounding. `EntryPanics`,
`EntryFails` and `Enter` are the code before the loop, `WalkHere` an iteration with
a tick in the current array, `LeaveArray` one that pops the dequeue, with the
unwrap before the test for a next array as in the code, `TooManyLoops` the
iteration limit, `Finish` the fee on the result. `PoolMoves` is a reference that
moves the price unit by unit and knows no arrays and no iterations.

The pool walked is what a fetch returns, and PoolFetch shows that its parts may be of
different moments: price, tick, liquidity and the flagged arrays come from the pool
accounts, the ticks (`net`) are read later. A `TornPools` member of MCSwapWalk is such a
composition, with a position opened or closed in between. `SeenLiquidity` is what the
parts add up to, and `Torn` says when they do not fit: a flagged array without ticks, or a
liquidity below zero, each the operand of an `unwrap` in `swap_compute`. `IsPoolInfo` says
what is assumed of such a pool: only flagged arrays are fetched, so every tick lies in one;
and price and tick are fields of one account, which the program writes together, so the
price lies in its tick or on either end of it.

`ArrayQueue` uses `SortedSets`, which sorts a set of numbers by counting: the element at a
place is the one with as many before it as the place says. TLC evaluates that like the
library's sort, and a proof can use it, since it is no recursion.

### PoolFetch (pool fetching)

`fetch_all_clmm_pools`, one awaited call per step, while the chain moves on. The chain
is external: any account may be written, a pool created, a tick array flagged or
cleared between two calls. An account's content is the number of times it was
written; a pool and its arrays share one number, because the program's transactions
write them together, so two parts read at different numbers are torn. An array
account, once created, stays: that is an assumption about the external program, the one
the code itself makes with its `unwrap`, and `NeverAborts` rests on it. `ListPools` is the one
call that lists all pools, `NextPool` the loop, whose order the node chooses,
`MintCached` and `MintFetched` are `get_mint_info`, `ReadConfig`, `ReadExtension` and
`ReadArrays` the other calls, `CallFails` any `?` of them. Nothing outlives a fetch, so
one fetch is enough.

### QuoteAnswer (what a quote says)

No state. `Leg` is the `OneStepSwapResult` of one pool, on a pool that takes at most
`Depth` before the limit price and gives `Gives` for what it takes; SwapWalk is the
detail of both. `LegsOf` prices a path forwards for a specified input and backwards for a
specified output, as the two one-hop functions do, and `Answer` is the `SwapV1Out` made of
a route (`get_amount_in`, `get_amount_out`, `get_input_mint`, `get_output_mint`,
`into_route_plan_vec`). Any priced route may be the answer: which one is the best is
RouteSearch's business, so the properties here do not depend on the ranking.

### SwapTransaction (from a quote to a checked transaction)

| Action | Code |
|---|---|
| `Send` | the client's request, external: the answer itself, an altered one or none |
| `Accept`, `ReadPool`, `RefuseSwapType` | `create_swap_transaction_impl` up to the builders |
| `BuildSwapV2`, `BuildRoute` | `build_swap_v2_tx`, `build_route_tx`, with their account lists |
| `Simulate`, `Compile` | `build_versioned_transaction`: the simulated units and the limit; the blockhash and the message |
| `CallFails` | any awaited call of these returning an error |
| `Submit` | the client's call of `check_tx`, external |
| `AcceptLists`, `CompareNext`, `Confirm` | `check_tx`: the length test, one pair per step, the answer |

An account is a tuple that names its role and what it is derived from, so two accounts are
the same exactly when the code derives the same address. `Scaled` is the product with an
f64 factor cut to u64: when the exact product is a whole number the float may fall just
below it, so both outcomes are kept. `Moves`, `Executed`, `Received`, `Paid` and `Refused` are what
the programs on chain read from the instruction, external: the pool's direction is told by
the vault at the input position, the routing program cuts the accounts by the counts, and
an instruction is refused when a swap of it has nothing to swap after the transfer fee, or
when what it gives is less than the minimum output in it (`amount_out_minimum`,
`other_amount_threshold`). `QuoteAnswerAssumption` says that a pool gives nothing for nothing.

### ConfigWatcher (watch-channel configuration)

The second implementation. `Load`, `AddListener`, `LoadFails` are
`load_config_from_nacos`, `Notify` the listener. A task writes under the lock (`Write`) and,
while it still holds it, sends: `SendToNobody` is a send that finds no receiver and drops
the value, `CountReceivers` and `Store` are the two halves of one that does. Subscribing
takes no lock and may come between any two of them. `audience` is a history variable: the
receivers that were there before the last write. Its lock is a `std::sync::RwLock`, which
promises no order, so any task may be the next to write. MCNacosConfig runs it next to
NacosConfig; the two share nothing, so a behaviour moves one `side` only and the state
space is a sum, not a product.

### TickLiquidity (tick liquidity listing)

`get_pool_tick_liquidity`: three reads, then `generate_tick_liquidity_info`, one tick per
step. The chain's part is the set of open positions, which gives both the bits
and the nets of the ticks. The arrays come from one call and agree with each other, so
the positions open at that moment (`taken`) are all they say. The cast to u128 is a
remainder by `Word`. `seen` is a history variable no guard reads.

### NacosConfig (runtime configuration)

A version is a position in the history of published contents, 0 the default. A
content is good, lists no rpcs, or does not parse. `GetConfig`, `SetInitial`,
`AddListener` are the three awaits of `init_nacos`, in that order, each able to end
the process. The SDK is external: it reports the newest content, may skip versions and may
or may not report at registration. That is wider than any one SDK version.

`lock` is tokio's RwLock, external: the queue of those that hold it or wait for it, in the
order they came, the first one granted and readers next to each other granted together
(`Granted`). Every await of the code at the lock is a step that joins the queue and a later
one that leaves it:

| Action | Code |
|---|---|
| `Notify` | `notify`, which spawns a task and returns |
| `Drop(v)` | a task whose content does not parse, before the lock |
| `AwaitWrite(v)`, `Apply(v)` | a task at `write().await`, and the assignment under the guard |
| `Arrive(r)`, `FirstRead(r)` | a handler at its first `get_nacos_config`, and the clone that leaves the guard |
| `BuildFails(r)` | an account that cannot be read or parsed ends the request |
| `AwaitSecond(r)`, `SecondRead(r)` | the builders' `get_nacos_config`, several awaits later |

Tasks come to the lock in any order, since tokio runs them in any order. `notified` and
`settled` are history variables no guard reads: `settled[v]` is what was over when the task of
`v` was spawned, the versions fetched or notified before whose tasks had ended. What is not in
it may still be written after `v`, and what is in it may not.

## 3. Runs

| Run | Instance | Shows |
|---|---|---|
| `routes_any` | every vector of 3 pools over 3 mints around 2 unrelated pools; a diamond of 5 pools, 4 mints and 4 curves | `TypeOK`, `CandidatesExact`, `PlanIsAPath`, `NoAbortOnTokens`, the refinement `ImplementsBestQuote` with its fairness |
| `tick_arrays` | 2-bit bitmaps, 2 extensions each side, every content | `TypeOK`, `KeysAscending`, `KeysExact` |
| `walk` | ticks -5..5, arrays of 4, one or two of 6 positions, every price, amounts 0..9, whole and torn | `TypeOK`, `LiquidityFollowsTick`, `QuoteMatchesPool`, `FirstArrayIsServed`, `ReportedWithinAsk`, `OneWay` |
| `config` | 3 published contents of every kind, a one-read and a two-read request; 3 contents and 2 receivers | `TypeOK`, `NeverServesDefault`, `PanicOnlyOnEmptyRpcs`, `OldNeverReturns`, `NewestServed`, `ReadsForward`, `NobodyWaitsForever`; `SubscriberInStep`, `WatcherOldNeverReturns` of ConfigWatcher |
| `fetch` | 2 pools with a common mint and configuration, a near and a far array, 2 transactions | `TypeOK`, `MintsAgree`, `NeverAborts`, `FetchComplete`, `UntornIsExact` |
| `liquidity` | 5 positions over 12 ticks, arrays of 2, 2 transactions | `TypeOK`, `ListsInOrder`, `ListingExact` |
| `swap` | 4 pools over 3 mints, every route, 5 amounts, both sides, 8 variations of each answer, 7 `check_tx` calls | `TypeOK`, `TradesWhatWasAsked`, `QuoteIsHonoured`, `SegmentsAreLegs`, `LimitCovers`, `ConfirmedIsUntampered` |
| `routes_sol`, `routes_empty`, `walk_arrays`, `swap_output`, `liquidity_torn` | as above; `swap_output` without transfer fees | violations, see section 5 |

Why the bounds are enough. Routes have at most two pools, so three pools already
hold a direct pool beside a complete bucket, or two pools on one side of it, in
every order and orientation; five pools make two full buckets and a direct pool
compete, with a failing, a worthless, an even and a doubling curve for each. Two-bit
bitmaps have a zero and a non-zero bit, and two extensions a neighbour and a last
one. In the walk, an array of four ticks holds a pool's whole range or part of it,
positions nest, overlap and leave gaps, and prices lie on ticks from both sides; one
position ends a tick short of the first and the last tick, so that a walk may come into
the first and end there;
`LoopLimit` is 2 so that a pool of a few ticks exceeds it. Three contents allow one at start
or two, one between fetch and registration, and two whose tasks overlap behind a third that is
fetched or whose own task is over; two requests queue before, between and behind the tasks,
one of them twice.

A torn read takes one transaction between two calls, and two let one pool be torn twice
or two accounts once; the common mint is `mint_b` of one pool and `mint_a` of the other,
so both branches of the cache are taken on both sides. The listed positions nest, share
ends, lie in one array, leave a gap and reach from the extensions into the pool's own
bitmap; `Word` is larger than their whole liquidity, as a u128 is.

`Threshold` 2 stands for the literal "10" of the code: with amounts up to a few units some
quotes are above it, some at it, some below and some nothing, for both builders.

In the transaction run every pair of mints has a direct and a two-pool route, one pool
takes nothing at all, a curve doubles one way and halves the other, and fees of 0, 1 and 2
are larger and smaller than the amounts; an amount of 39 with a fee wraps at `Word` 40.
Pools list one or two tick arrays by direction, and the two a client adds bring a count to
`CountWord`, where it wraps. The factor bases 0, 1 and 3 of 4 give an increase below and
above `MinCu` and a limit that exceeds `CuWord`. The `check_tx` calls hold lists of equal
and different length, with an altered and an undecodable second entry. Three contents let
two tasks of the watcher contend for the lock, and two receivers let one listen through a
write while the other comes in the middle of it.

Named bounds: `NPools`, `Mint`, `Amount`, `Snapshots`, `Requests`, `BitmapSize`,
`ExtSize`, `TickCount`, `MinTick`, `MaxTick`, `LoopLimit`, `Pools`, `Asks`, `Request`,
`MaxVersions`, `MaxMoves`, `Positions`, `Word`, `Depth`, `Padding`, `CountWord`, `CuWord`,
`Scale`, `MinCu`, `Units`, `Bases`, `Submissions`, `WatcherVersions`, `Receiver`.

Fairness. RouteSearch and SwapWalk have weak fairness on their whole next step: a
handler is sequential code that the runtime polls to its end. NacosConfig has weak
fairness for each spawned task and each arrived request, which tokio guarantees for
tasks that can go on, and none for publishing, the SDK, start-up or clients. Waiting at the
lock is not made fair by assumption: a task or a request in the queue can only go on when it is
granted, which is up to those before it (`NobodyWaitsForever` fails when a guard is kept
from the first read to the second). ConfigWatcher, PoolFetch, TickLiquidity and SwapTransaction
state no fairness: only safety is asked of them.
`CHECK_DEADLOCK FALSE` is set for the configurations, where everything may rightly be at
rest, and for PoolFetch and TickLiquidity, which stop when the request has ended.

## 4. Proofs

The proofs hold for every value of the constants under the named assumptions
(`PoolSnapshotAssumption`, `TickArrayAssumption`, `SwapWalkAssumption`,
`PoolFetchAssumption`, `TickLiquidityAssumption`, `NacosAssumption`,
`QuoteAnswerAssumption`, `SwapTransactionAssumption`), which TLC evaluates in the runs.
ConfigWatcher is instantiated with `WatcherAssumption`. Every invariant a run checks is a
theorem, and so is the action property `OneWay`.

`FiniteSetLemmas` holds what the proofs need of finite sets and of the folds of the
community modules. The library's induction theorems take an operator as a parameter, which
the provers cannot instantiate, but two other forms of induction need none. A set of
subsets of a finite set has a smallest member (`SmallestSubset`), so a statement about all
subsets that fails, fails at one whose own subsets satisfy it. A finite set of integers
has a smallest member (`SmallestOne`), which does the same for a range of numbers (`UpTo`
in `SwapWalk_proofs`). With these, folds and recursive functions can be reasoned about: a sum
does not depend on the order of its terms (`SumOne`, `SumUnion`), it grows with its set
(`SumGrows`), a finite set of numbers has a maximum and a minimum (`MaxIs`, `MinIs`), the two
sorts list every element once and in order (`UpwardsIs`, `DownwardsIs`), and the
recursive function of `PoolMoves` is what its equation says (`MovesExist`).

`RouteSearch_proofs`. `TypeCorrect` is inductive as it stands. `CandidatesExact` is
not, since it speaks of the finished scan only; `ScanExact` strengthens it to the
prefix scanned so far: each vector holds exactly the pools of its class among the
first `next - 1`. `ScanGivesCandidates` turns the finished prefix into
`CandidatesExact`. `PlanPath` and `NoAbort` rest on the same invariant: a pool in a
bucket joins the input mint and the bucket's mint, so one comparison with `mint_a`
gives the right direction (`SwapEnds`), provided the request's input is not native
SOL, which is exactly the run `routes_sol`.

In the same module, `AnswersTheBest` is the safety half of `ImplementsBestQuote`, for
requests whose input is a token mint (`AliasFree`, for the reason just given). `Ranked` is
the invariant: `best` is the maximum of what has been priced so far, which is a prefix of the
direct pools, then also every pair of the buckets no longer in `todo`, while `hop_best` is the
maximum of the pairs the nested loop has left behind. It is inductive because the loops visit
the pairs in order and leave none out (`PairsInOrder`) and a price does not change while the
request runs (`ValuesStay`). `ValuesAreRoutes` shows that the finished loops have priced
exactly the routes BestQuote knows, `VerdictIs` computes its answer from them. Every other
step is a stutter or, when a pool cannot be priced, the answer `failed` for a route that exists.

`TickArrayScan_proofs`. `NegativeExtUniform` proves the equivalence the code's
comment claims for the two corrections at bit zero. With it every iteration moves
the start index under the cursor up by one array, also from loop to loop
(`NegativeExtSteps`, `OtherSteps`), so "the keys are ascending and below the cursor"
(`Ordered`) is inductive and gives `KeysAreAscending`. For `KeysAreExact` each loop's start
index is put back into the chain's own formulas, quotients and remainders of negative
numbers included (`DefaultBits`, `PositiveExtBits`, `NegativeExtBits`): the bit under the
cursor is the one the chain tests for that array. So "the keys are the initialized arrays
below the cursor" (`ExactSoFar`) is inductive, and at the end no array is above it.

`SwapWalk_proofs`. `NeverTheNext` is the heart: the dequeue holds arrays on the side the
price comes from, hence its front is never the next array in the direction of the swap,
`LeaveArray` always ends the call (`LeaveArrayStops`), and the walk stays in the first array
(`NeverBeyondFirstArray`). That array is the pool tick's or the nearest flagged one ahead
and every initialized tick lies in a flagged array, so the nearest tick of the array is the
nearest of all (`NextTickIs`) and a step passes none unseen (`OneStep`). `IInv` puts this
together with the types: it is inductive, while neither `TypeOK` (a liquidity could
fall below zero) nor `LiquidityFollowsTick` (the next tick could lie in a skipped array)
is alone. `TypeCorrect`, `LiquidityStaysInStep`, `MovesOneWay` and `ReportsWithinAsk` follow.
For `QuotesWhatThePoolGives`, `MovesAlong` shows that a step of `n` units is `n` moves of
the pool, so `Along`, the walk and the pool agree after as many units, is inductive too; where
the walk ends for want of input or at the limit, the pool does not move on either
(`StuckStays`). For `FailsForAReason`, `Spent` says that what is gone was taken by the units
passed and `Reached` that a matched array has been entered, so that an array that is used up
has taken all it can (`UsedUpTakes`); `AbortsTorn` confines the aborts at a tick to torn parts;
and `Counted` says that every iteration the loop goes on after has crossed one initialized
tick, so that the loop limit is only met by a walk over more ticks than it allows.

This proof corrected a property. `QuoteMatchesPool` used to say that a quote is what the
pool gives up to the limit, which could not be proved because it is false for pools with an
initialized tick next to the first one: `swap_compute` leaves its loop once the tick is
`MIN_TICK` or `MAX_TICK`, and a downward step to `MIN_TICK + 1` sets it to `MIN_TICK` short
of the limit, possibly with some of the amount left. The property now says so, and the `walk`
run has such a pool.

`TickLiquidity_proofs`. After every tick visited, the running sum is the liquidity of the
open positions there and the list so far is the chart up to there; between two listed
arrays no position begins or ends, unless an array became initialized between the reads.
`VisitTickInv` is the step: the sum of the positions over a tick is the one below it plus
the tick's net (`NetIsChange`), which also keeps it within `Word` (`LiquidityFits`).
`NeverAbortsAndAscends` and `ListsTheChart` follow.

`PoolFetch_proofs`. `ChainMoves` says all the proof needs of the chain: a transaction only
adds array accounts, only raises counts, and changes a pool's bits together with its
count. Types need `Collected` (the record of the visited pool is filled in order, from
the cache). `FromCache`, every fetched pool carries the cached mints, is inductive because
an entry is never replaced (`CacheKept`) and gives `SharedMintsAgree`. `ReadsHold` carries
what the earlier reads still say of the chain to the read of the arrays, for `NoAbort` and
`UntornPoolsAreExact`. `Visited` divides the listed pools into those fetched, the one being
visited and those to do, no pool fetched twice; at the end all are fetched
(`FetchIsComplete`).

`NacosConfig_proofs`. `ReleaseKeeps` and `WriterParses` say what the queue keeps: whoever is
in it is a request or a task whose content parses. With that `BootOrder` (nothing spawned or
read before start-up is done, and from the first write on the global parses) gives
`DefaultNeverServed`, and `PanicCause` gives `PanicsHaveOneCause`. `InOrder` is the invariant
behind the order of configurations. `SettledIsOver`: what is settled for a version has no task
left, so no task can write it again; `HeardIsNewest`: a version is spawned once;
`GlobalMovesOn`: the global holds nothing settled for a version that was applied or read.
A spawn settles only what is over (`SpawnInOrder`), and a write puts a version with a task into
the global, which is settled for nobody (`ApplyInOrder`). None of the three is inductive
without the others. `NothingOldReturns`, `OnlyTwoWaysToMiss` and `SecondReadMovesOn` follow;
they hold in whatever order the queue is served.

About ConfigWatcher, `WatcherChannel` says what the lock covers: while it is held the config is
the holder's, and once it is free every receiver that listened before the write finds it
in the channel. That is inductive because the value to be sent is the holder's own and no
other task writes meanwhile; it gives `SubscribersStayInStep`. `WatcherInOrder`,
the same argument as `InOrder`, gives `WatcherMovesOn`. Both theorems are about the
specification TLC runs, where the two implementations stand side by side.

`SwapTransaction_proofs`. Four invariants, one per stage. `Chain` follows the request:
`Requested` (a plan whose steps are typed, of one or two once accepted), `InfosOfPlan` (the
swap infos are those of the plan's prefix) and `IxOfInfos` (the instruction is exactly what
the builders make of them). From there on everything is about one state. `Layout` says
which account stands where in a routing instruction, whatever the number of tick arrays, and
gives `SegmentsFollow`. `AnsweredRoute` turns an unaltered answer that was built back into
the route it came from, `AnsweredMoves` says that the programs then swap through its pools
in its directions: `AnswersAreTradedAsAsked`. `LegAgain` is the reason why a quote holds:
offering a leg again what it reported as taken, fee included, takes and gives the same,
also when the first time some was left over; with one leg (`OnePoolHonoured`) and two
(`TwoPoolsHonoured`) that is `QuotesAreHonoured`. An instruction with a leg of nothing belongs to
a quote of nothing (`LegOfNothing`), and since what is received is what was quoted, one refused
for its minimum output belongs to a quote below it. `Limited` and `Growth` give `LimitLeavesRoom`,
`Checked` gives `ConfirmedAreTheBuilt`, and `Typed` with the rest `TypesAreKept`.

Only model-checked: the liveness property `NobodyWaitsForever` and the fairness half of
`ImplementsBestQuote`, since fairness and ENABLED are out of the prover's reach. The violations of section 5 are single behaviours, which TLC
shows.

## 5. Where code and documentation disagree

Five runs end in a counterexample on purpose.

* `routes_sol`: the conversion of SOL to WSOL is local to `get_all_route_path`. A
  native-SOL input is priced unconverted, the direction is then always b-to-a, and
  for a pool with WSOL as `mint_a` the `assert_eq!` of the one-hop loop fires.
* `routes_empty`: `is_empty` is false as soon as any pool touches either mint. Without
  a real route, the default route through the all-zero pool is answered with
  `ret_code` 0.
* `walk_arrays`: the dequeue of tick arrays is filled against the swap's direction, so
  a swap that uses up its first array always ends in an error or an abort. The loop
  also shadows the index the search starts from.
* `swap_output`: a specified output is walked as a specified input
  (`is_base_input` is the literal `true`) and the answer's swap type is always a specified
  input, so the transaction made of the quote does not buy the output it names.
* `liquidity_torn`: a position opened between the read of the bitmaps and that of the arrays
  is counted at one end only. The listing then shows liquidity no tick had, and a sum
  below zero is cast to u128.

Consequences for the properties that hold: `QuoteMatchesPool` and `LiquidityFollowsTick`
speak of both sides, but of a specified output as what it is walked as, an input;
`QuoteIsHonoured` is about specified inputs and about instructions that are not refused for
their minimum output, `FirstArrayIsServed` says of amounts the first array cannot take only
that they may fail, `PlanIsAPath` and `NoAbortOnTokens` about inputs other than native SOL.

Met while modelling, and in the models as the code has them, without a run of their own:

* The answer's `input_mint` and `output_mint` are `mint_a` of the first and `mint_b` of the
  last pool whatever the direction, hence wrong for a b-to-a hop; nothing reads them back.
  The plan's steps name the right ones, and `TradesWhatWasAsked` holds through those.
* `slippage_bps` of the request is ignored; every answer says 50 and the threshold "10".
  The threshold is passed on chain as the minimum output, so the transaction of a quote for
  fewer than 10 units of the output token is refused, although it was answered with success.
* A single pool ignores `input_account`; both builders ignore an output account.
* A two-pool plan ignores `swap_type`; a single pool refuses types other than 0 and 1.
* `check_tx` compares messages only. Whether the signatures are good is left to the chain.
* The compute unit limit is not capped at the chain's maximum; above u32 it wraps.
* A send on the watch channel without a receiver drops the value, so that a later
  subscriber first sees an older configuration than the lock holds.
* For a specified output the route with the larger input wins, as `better`'s comment says;
  BestQuote takes it over.

## 6. Not modelled

* Decimal and fixed-point arithmetic (`calculate_price`, square-root prices, rounding):
  data that no property here tells apart. With it the overflow of `calculate_price` for
  extreme decimals, a hazard in the list without a property.
* The fields of an answer that are only displayed (open time, fee mint, prices), the unit
  price of a transaction, and signatures: no handler adds a signer.
* Logging, tracing, error texts, code generated from the proto files, address constants.
* tonic and tokio themselves, beyond order and fairness; the interceptor, and `AppState`,
  which nothing uses.
* The JSON-RPC structures, which `main.rs` does not declare as a module.

## 7. What is left

Every part of the crate that keeps or changes state is in a module, and every invariant
the runs check is proved. What remains:

* The hazards listed without a property: they concern the width and rounding of numbers that
  the models keep exact, and the documented ranking of specified outputs.
* Facts of the proofs that no run asks for by name, such as `FirstArrayOnly`.
* What a quote made of torn parts is worth: the theorems say what it equals, not how far
  that is from what the pool would give at either moment.
