----------------------------- MODULE QuoteAnswer -----------------------------
(***************************************************************************)
(* What quote_price answers: the legs of the best route, priced forwards   *)
(* for a specified input and backwards for a specified output, and the     *)
(* SwapV1Out made of them, which the client hands back to                  *)
(* create_swap_transaction.  This module has no state.                     *)
(*                                                                         *)
(* A pool takes at most Depth before the limit price and gives Gives for   *)
(* what it takes; SwapWalk is the detail of both.  Which of the routes is  *)
(* the best is RouteSearch's business.  open_time, fee_mint and the fields *)
(* that are only displayed are left out.                                   *)
(***************************************************************************)
EXTENDS Integers, Sequences

CONSTANTS
  Mint,          \* token mints
  Pool,          \* pools
  MintA, MintB,  \* token_mint_0 and token_mint_1 of each pool
  NoKey,         \* the all-zero key, the id of the default route's pool
  Depth,         \* most a pool takes in each direction
  Gives,         \* what it gives for an amount taken
  Fee,           \* transfer fee of each mint
  TickArray,     \* keys of tick arrays
  TickArrays,    \* those a quote visits in each direction
  Threshold,     \* the literal other_amount_threshold of every answer, "10"
  Word           \* amounts are 0..(Word - 1), u64

Amount == 0..(Word - 1)

ASSUME QuoteAnswerAssumption ==
  /\ MintA \in [Pool -> Mint] /\ MintB \in [Pool -> Mint]
  /\ \A p \in Pool : MintA[p] # MintB[p]
  /\ NoKey \notin Mint /\ NoKey \notin Pool
  /\ Word \in Nat \ {0} /\ Threshold \in Amount
  /\ Depth \in [Pool -> [BOOLEAN -> Amount]]
  /\ \A p \in Pool, d \in BOOLEAN : Gives[p][d] \in [0..Depth[p][d] -> Amount] /\ Gives[p][d][0] = 0
  /\ Fee \in [Mint -> Amount]
  /\ TickArrays \in [Pool -> [BOOLEAN -> Seq(TickArray)]]

\* The mints of a pool swapped in a direction, zero_for_one or not.
InputOf(p, d)  == IF d THEN MintA[p] ELSE MintB[p]
OutputOf(p, d) == IF d THEN MintB[p] ELSE MintA[p]

Lesser(x, y) == IF x < y THEN x ELSE y

\* get_transfer_amount_fee: the fee, at most the amount, comes off a specified input
\* and goes on top of a specified output, with unchecked u64 arithmetic.
AfterFee(m, n, base_input) ==
  LET fee == Lesser(Fee[m], n) IN IF base_input THEN n - fee ELSE (n + fee) % Word

\* OneStepSwapResult of compute_another_amount, which always swaps the specified
\* amount in, also when it is an output.
Leg(p, d, base_input, n) ==
  LET real  == AfterFee(InputOf(p, d), n, base_input)
      taken == Lesser(real, Depth[p][d])
  IN  [pool        |-> p,
       input_mint  |-> InputOf(p, d),
       output_mint |-> OutputOf(p, d),
       base_input  |-> base_input,
       specified   |-> n,
       remaining   |-> real - taken,
       calculated  |-> AfterFee(OutputOf(p, d), Gives[p][d][taken], base_input),
       tick_arrays |-> TickArrays[p][d]]

\* swap_compute refuses an amount of 0.
Priced(leg) == AfterFee(leg.input_mint, leg.specified, leg.base_input) # 0

-----------------------------------------------------------------------------
(* Routes                                                                  *)

\* A step is a pool and a direction; a path has one step, or two through another mint.
Step == Pool \X BOOLEAN

Paths(input, output) ==
  {<<s>> : s \in {t \in Step : InputOf(t[1], t[2]) = input /\ OutputOf(t[1], t[2]) = output}}
    \cup
  {h \in Step \X Step :
     /\ InputOf(h[1][1], h[1][2]) = input /\ OutputOf(h[2][1], h[2][2]) = output
     /\ OutputOf(h[1][1], h[1][2]) = InputOf(h[2][1], h[2][2])
     /\ InputOf(h[2][1], h[2][2]) \notin {input, output}}

\* compute_direct_route and compute_one_hop_indirect_route_base_input, _base_output.
LegsOf(path, base_input, n) ==
  IF Len(path) = 1 THEN <<Leg(path[1][1], path[1][2], base_input, n)>>
  ELSE IF base_input
  THEN LET one == Leg(path[1][1], path[1][2], TRUE, n)
       IN  <<one, Leg(path[2][1], path[2][2], TRUE, one.calculated)>>
  ELSE LET two == Leg(path[2][1], path[2][2], FALSE, n)
       IN  <<Leg(path[1][1], path[1][2], FALSE, two.calculated), two>>

\* RouteInformationType::default(), answered when no route beats it.
DefaultRoute ==
  <<[pool |-> NoKey, input_mint |-> NoKey, output_mint |-> NoKey, base_input |-> FALSE,
     specified |-> 0, remaining |-> 0, calculated |-> 0, tick_arrays |-> <<>>]>>

Candidates(q) ==
  {r \in {LegsOf(path, q.base_input, q.amount) : path \in Paths(q.input, q.output)} :
     \A i \in 1..Len(r) : Priced(r[i])}

-----------------------------------------------------------------------------
(* The answer                                                              *)

AmountIn(r) ==
  IF r[1].base_input THEN (r[1].specified - r[1].remaining) % Word ELSE r[1].calculated

AmountOutOfFirst(r) ==  \* mutant: the first hop's result
  IF r[1].base_input THEN r[1].calculated ELSE (r[1].specified - r[1].remaining) % Word

AmountOut(r) ==
  LET last == r[Len(r)]
  IN  IF last.base_input THEN last.calculated ELSE (last.specified - last.remaining) % Word

\* mint_a_info and mint_b_info of a route's pool, whatever the direction.
MintOf(mints, p) == IF p = NoKey THEN NoKey ELSE mints[p]

RoutePlan(leg) ==
  [pool_id |-> leg.pool, input_mint |-> leg.input_mint, output_mint |-> leg.output_mint,
   remaining_accounts |-> leg.tick_arrays]

\* SwapV1Out: the swap type and the threshold are the same for every request.
Answer(r) ==
  [swap_type              |-> 0,
   input_mint             |-> MintOf(MintA, r[1].pool),
   input_amount           |-> AmountIn(r),
   output_mint            |-> MintOf(MintB, r[Len(r)].pool),
   output_amount          |-> AmountOut(r),
   other_amount_threshold |-> Threshold,
   route_plan             |-> [i \in 1..Len(r) |-> RoutePlan(r[i])]]
=============================================================================
