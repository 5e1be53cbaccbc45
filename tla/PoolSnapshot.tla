----------------------------- MODULE PoolSnapshot -----------------------------
(***************************************************************************)
(* The data one quote request works on: the vector of CLMM pools fetched   *)
(* from the chain, the request, and what pricing one pool returns.  This   *)
(* module has no state; RouteSearch walks over the data and BestQuote says *)
(* what the walk is for.                                                   *)
(*                                                                         *)
(* A pool's price curve is abstract: a function of the direction and the   *)
(* specified amount, Failed where compute_another_amount returns an error  *)
(* (a zero amount, no liquidity, too many ticks).  Pools are named by      *)
(* their position in the fetched vector.                                   *)
(***************************************************************************)
EXTENDS Naturals, Sequences, FiniteSets

CONSTANTS
  NPools,     \* length of the fetched vector of pools
  Mint,       \* token mints that pools trade
  Sol, Wsol,  \* SOL_MINT (never a pool's mint) and WSOL_MINT
  Amount,     \* token amounts (u64)
  Failed,     \* outcome of a pool that cannot be priced
  Snapshots,  \* the pool vectors a fetch may return
  Requests    \* the quote requests a client may send

Pool == 1..NPools

PoolInfo == [a : Mint, b : Mint, curve : [BOOLEAN -> [Amount -> Amount \cup {Failed}]]]

Request == [input : Mint \cup {Sol}, output : Mint \cup {Sol},
            base_input : BOOLEAN, amount : Amount]

\* On chain token_mint_0 < token_mint_1, so a pool never trades a mint with itself.
ASSUME PoolSnapshotAssumption ==
  /\ NPools \in Nat
  /\ Amount \subseteq Nat /\ 0 \in Amount /\ Failed \notin Amount
  /\ Wsol \in Mint /\ Sol \notin Mint
  /\ \A s \in Snapshots : s \in [Pool -> PoolInfo] /\ \A p \in Pool : s[p].a # s[p].b
  /\ Requests \subseteq Request

-----------------------------------------------------------------------------
\* get_all_route_path quotes native SOL as wrapped SOL.
Canon(m) == IF m = Sol THEN Wsol ELSE m

In(q)  == Canon(q.input)
Out(q) == Canon(q.output)

Trades(s, p, m) == m \in {s[p].a, s[p].b}

Joins(s, p, x, y) == x # y /\ {s[p].a, s[p].b} = {x, y}

\* The mint on the other side of pool p.
Other(s, p, m) == IF s[p].a = m THEN s[p].b ELSE s[p].a

\* compute_another_amount: any mint that is not mint_a selects the b-to-a
\* direction, also one the pool does not trade.
ZeroForOneReversed(s, p, m) == s[p].b = m  \* mutant: compares with mint_b
ZeroForOne(s, p, m) == s[p].a = m

\* The amount a pool computes for a specified amount, or Failed.
Calculated(s, p, m, amount) == s[p].curve[ZeroForOne(s, p, m)][amount]

\* OneStepSwapResult: the mints actually swapped, the side that was specified
\* and the amount computed for the other side.
SwapResult(s, p, m, base_input, amount) ==
  [input      |-> IF ZeroForOne(s, p, m) THEN s[p].a ELSE s[p].b,
   output     |-> IF ZeroForOne(s, p, m) THEN s[p].b ELSE s[p].a,
   base_input |-> base_input,
   calculated |-> Calculated(s, p, m, amount)]

-----------------------------------------------------------------------------
\* The routes that exist, said without the walk that finds them.
DirectPools(s, q) == {p \in Pool : Joins(s, p, In(q), Out(q))}

HopPairs(s, q) ==
  {h \in Pool \X Pool \X (Mint \ {In(q), Out(q)}) :
     Joins(s, h[1], In(q), h[3]) /\ Joins(s, h[2], h[3], Out(q)) /\ In(q) # Out(q)}

\* Base input prices the hops forwards, base output backwards.
HopValue(s, q, h) ==
  IF q.base_input
  THEN LET mid == Calculated(s, h[1], In(q), q.amount)
       IN  IF mid = Failed THEN Failed ELSE Calculated(s, h[2], h[3], mid)
  ELSE LET mid == Calculated(s, h[2], h[3], q.amount)
       IN  IF mid = Failed THEN Failed ELSE Calculated(s, h[1], In(q), mid)

RouteValues(s, q) ==
  {Calculated(s, p, In(q), q.amount) : p \in DirectPools(s, q)}
    \cup {HopValue(s, q, h) : h \in HopPairs(s, q)}
=============================================================================
