----------------------------- MODULE TickLiquidity -----------------------------
(***************************************************************************)
(* One list_line_position request: get_pool_tick_liquidity reads a pool,   *)
(* its bitmap extension and its tick arrays with three awaited calls, and  *)
(* generate_tick_liquidity_info adds up liquidity_net from left to right.  *)
(*                                                                         *)
(* The chain moves on between the calls.  It is external, and all the      *)
(* listing can see of it are the open positions: they give the net and the *)
(* bits.  An array account, once created, stays.  tick_spacing is 1, the   *)
(* case in which neighbouring entries can name the same tick.              *)
(***************************************************************************)
EXTENDS Integers, Sequences, FiniteSets, FiniteSetsExt, Functions, SortedSets

CONSTANTS
  TickCount,  \* TICK_ARRAY_SIZE, ticks in a tick array
  NearTick,   \* the pool's own bitmap covers the ticks -NearTick..(NearTick - 1)
  Word,       \* number of values of a u128
  Positions,  \* the positions liquidity providers may open: lower, upper, liquidity
  MaxMoves    \* bound on the transactions of the providers

ASSUME TickLiquidityAssumption ==
  /\ TickCount \in Nat \ {0} /\ NearTick \in Nat /\ Word \in Nat \ {0} /\ MaxMoves \in Nat
  /\ IsFiniteSet(Positions)
  /\ \A p \in Positions :
       /\ p \in [lower : Int, upper : Int, liquidity : Nat \ {0}]
       /\ p.lower < p.upper
  /\ MapThenSumSet(LAMBDA p : p.liquidity, Positions) < Word

VARIABLES
  positions,  \* the chain: open positions
  created,    \* the chain: start indexes of the array accounts that exist
  moves,      \* transactions so far
  pc,         \* the call the request waits for, "listing", or how it ended
  near,       \* start indexes flagged in the bitmap that was read with the pool
  keys,       \* tick_array_keys, ascending
  taken,      \* what the fetched arrays say: the positions open when they were read
  array,      \* tick_array_account, as an index of keys
  offset,     \* i, the tick of that array to be visited
  cur,        \* cur_liquidity
  out,        \* tick_liquidity_infos
  seen        \* history: every set of open positions since the request arrived

chain == <<positions, created, moves>>
vars  == <<chain, pc, near, keys, taken, array, offset, cur, out, seen>>

-----------------------------------------------------------------------------
(* What the accounts hold (library raydium_amm_v3)                         *)

Sum(ps) == MapThenSumSet(LAMBDA p : p.liquidity, ps)

ArrayStart(t) == (t \div TickCount) * TickCount
InPool(s)     == -NearTick <= s /\ s < NearTick

\* liquidity_net of a tick.
Net(ps, t) == Sum({p \in ps : p.lower = t}) - Sum({p \in ps : p.upper = t})

\* Start indexes of the arrays with an initialized tick, one bit each.
Bits(ps) == {ArrayStart(p.lower) : p \in ps} \cup {ArrayStart(p.upper) : p \in ps}

Ended == {"done", "failed", "panicked"}

Init ==
  /\ positions \in SUBSET Positions
  /\ \E closed \in SUBSET Positions : created = Bits(positions \cup closed)
  /\ moves = 0
  /\ pc = "pool"
  /\ near = {} /\ keys = <<>> /\ taken = {}
  /\ array = 0 /\ offset = TickCount /\ cur = 0 /\ out = <<>>
  /\ seen = {positions}

\* A provider's transaction.
Move ==
  /\ moves < MaxMoves /\ pc \notin Ended
  /\ moves' = moves + 1
  /\ seen' = seen \cup {positions'}
  /\ UNCHANGED <<pc, near, keys, taken, array, offset, cur, out>>

OpenPosition(p) ==
  /\ p \notin positions
  /\ positions' = positions \cup {p}
  /\ created' = created \cup Bits({p})
  /\ Move

ClosePosition(p) ==
  /\ p \in positions
  /\ positions' = positions \ {p}
  /\ UNCHANGED created
  /\ Move

-----------------------------------------------------------------------------
(* get_pool_tick_liquidity                                                 *)

\* The account is missing, or the node refuses or does not answer.
ReadFails ==
  /\ pc \in {"pool", "extension", "arrays"}
  /\ pc' = "failed"
  /\ UNCHANGED <<chain, near, keys, taken, array, offset, cur, out, seen>>

ReadPool ==
  /\ pc = "pool"
  /\ near' = {s \in Bits(positions) : InPool(s)}
  /\ pc' = "extension"
  /\ UNCHANGED <<chain, keys, taken, array, offset, cur, out, seen>>

KeysUnsorted(far) ==  \* mutant: the extension's arrays come after the pool's own
  Upwards(near) \o Upwards(far)

\* calculate_all_tick_array_keys, whose order TickArrayScan establishes.
Keys(far) == Upwards(near \cup far)

ReadExtension ==
  /\ pc = "extension"
  /\ keys' = Keys({s \in Bits(positions) : ~InPool(s)})
  /\ pc' = "arrays"
  /\ UNCHANGED <<chain, near, taken, array, offset, cur, out, seen>>

\* One call returns all arrays, so they agree with each other; data.unwrap() panics
\* on one that does not exist.
ReadArrays ==
  /\ pc = "arrays"
  /\ taken' = positions
  /\ pc' = IF Range(keys) \subseteq created THEN "listing" ELSE "panicked"
  /\ UNCHANGED <<chain, near, keys, array, offset, cur, out, seen>>

-----------------------------------------------------------------------------
(* generate_tick_liquidity_info                                            *)

\* The outer loop, with its check that start_tick_index increases.
NextArray ==
  /\ pc = "listing" /\ offset = TickCount /\ array < Len(keys)
  /\ pc' = IF array = 0 \/ keys[array] < keys[array + 1] THEN "listing" ELSE "panicked"
  /\ array' = array + 1 /\ offset' = 0
  /\ UNCHANGED <<chain, near, keys, taken, cur, out, seen>>

AsU128Signed(n) == n  \* mutant: the listed liquidity is signed

\* cur_liquidity as u128.
AsU128(n) == n % Word

EntriesOnlyRises(t, pre, post) ==  \* mutant: a tick where the liquidity ends is not listed
  IF pre = post \/ post = 0 THEN <<>> ELSE <<[tick |-> t, liquidity |-> AsU128(post)]>>

\* What crossing tick t pushes: the new liquidity, or where it ends the old one for
\* the tick before.
Entries(t, pre, post) ==
  IF pre = post THEN <<>>
  ELSE IF post # 0 THEN <<[tick |-> t, liquidity |-> AsU128(post)]>>
                   ELSE <<[tick |-> t - 1, liquidity |-> AsU128(pre)]>>

VisitTick ==
  /\ pc = "listing" /\ offset < TickCount
  /\ LET t    == keys[array] + offset
         post == cur + Net(taken, t)
     IN  /\ cur' = post
         /\ out' = out \o Entries(t, cur, post)
  /\ offset' = offset + 1
  /\ UNCHANGED <<chain, pc, near, keys, taken, array, seen>>

Reply ==
  /\ pc = "listing" /\ offset = TickCount /\ array = Len(keys)
  /\ pc' = "done"
  /\ UNCHANGED <<chain, near, keys, taken, array, offset, cur, out, seen>>

Handler ==
  \/ ReadPool \/ ReadExtension \/ ReadArrays \/ ReadFails
  \/ NextArray \/ VisitTick \/ Reply

Next ==
  \/ \E p \in Positions : OpenPosition(p) \/ ClosePosition(p)
  \/ Handler

Spec == Init /\ [][Next]_vars

-----------------------------------------------------------------------------
(* Properties                                                              *)

TypeOK ==
  /\ positions \subseteq Positions /\ Bits(positions) \subseteq created
  /\ moves \in 0..MaxMoves
  /\ pc \in {"pool", "extension", "arrays", "listing"} \cup Ended
  /\ near \subseteq created /\ Range(keys) \subseteq created
  /\ taken \subseteq Positions /\ taken \in seen \cup {{}}
  /\ array \in 0..Len(keys) /\ offset \in 0..TickCount
  /\ cur \in Int
  /\ out \in Seq([tick : Int, liquidity : 0..(Word - 1)])

\* The pool's liquidity at a tick, from the positions that cover it.
LiquidityAt(ps, t) == Sum({p \in ps : p.lower <= t /\ t < p.upper})

\* The entries a chart of the positions has: one where the liquidity changes, and one
\* at the last tick before it ends.
Chart(ps) ==
  LET ends == {p.lower : p \in ps} \cup {p.upper : p \in ps}
      changes == {t \in ends : LiquidityAt(ps, t) # LiquidityAt(ps, t - 1)}
  IN  {[tick |-> IF LiquidityAt(ps, t) # 0 THEN t ELSE t - 1,
        liquidity |-> LiquidityAt(ps, IF LiquidityAt(ps, t) # 0 THEN t ELSE t - 1)] : t \in changes}

Ascending(s) == \A i, j \in 1..Len(s) : i < j => s[i].tick <= s[j].tick

\* A request never aborts, neither at the unwrap of a fetched array nor at the check of
\* the start indexes, and lists ticks in order, whatever the chain does meanwhile.
ListsInOrder == pc # "panicked" /\ Ascending(out)

\* Reads torn by other transactions do no harm as long as no array became initialized
\* between the bitmaps and the arrays: the list is then the chart of the positions
\* open when the arrays were read.
ListingExact ==
  pc = "done" /\ Bits(taken) \subseteq Range(keys) => Range(out) = Chart(taken)

\* "Generates the liquidity of every tick": each listed amount was the pool's liquidity
\* at that tick at some moment of the request.
EntriesWereTrue ==
  pc = "done" => \A e \in Range(out) : \E ps \in seen : e.liquidity = LiquidityAt(ps, e.tick)
=============================================================================
