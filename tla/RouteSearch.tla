------------------------------ MODULE RouteSearch ------------------------------
(***************************************************************************)
(* One quote_price request of the router, from the fetched pools to the    *)
(* answer: get_all_route_path sorts the pools into direct routes and       *)
(* per-intermediate-mint buckets, compute_best_route prices every          *)
(* candidate and keeps the better one, a loop iteration per step.          *)
(*                                                                         *)
(* The buckets live in a HashMap, whose iteration order is random: OpenHop *)
(* picks any bucket not yet visited.  A bucket exists once a pool has been *)
(* pushed to it, so the map is a total function whose absent entries are   *)
(* the empty ones.                                                         *)
(***************************************************************************)
EXTENDS PoolSnapshot, Functions

VARIABLES
  pools,     \* the fetched pools, fixed for the request
  req,       \* the request, fixed
  pc,        \* where the handler is
  next,      \* index of the scan over pools, then over direct
  direct,    \* AllRoutePathInfo.direct_paths
  hops,      \* AllRoutePathInfo.route_paths_map
  todo,      \* buckets compute_best_route has still to visit
  hop,       \* the bucket being priced
  pair,      \* <<first_idx, second_idx>> of the bucket's nested loop
  hop_best,  \* route_information, the best route of the bucket
  best       \* best_route

vars == <<pools, req, pc, next, direct, hops, todo, hop, pair, hop_best, best>>

RoutePathItem == [ins : Seq(Pool), outs : Seq(Pool)]
EmptyItem     == [ins |-> <<>>, outs |-> <<>>]

SwapResults == [input : Mint \cup {Sol}, output : Mint \cup {Sol},
                base_input : BOOLEAN, calculated : Amount]

\* RouteInformationType: the pools of the route and their results.
Route == [pools : Seq(Pool), results : Seq(SwapResults)]

\* The default route is a direct route through a default pool, whose mints are
\* the all-zero key, the same key as SOL_MINT; it names no fetched pool.
DefaultRoute ==
  [pools   |-> <<>>,
   results |-> <<[input |-> Sol, output |-> Sol, base_input |-> FALSE, calculated |-> 0]>>]

\* another_amount: get_amount_out of a base-input route is the last result,
\* get_amount_in of a base-output route is the first one.
AnotherAmount(r) ==
  IF r.results[1].base_input THEN r.results[Len(r.results)].calculated
                             ELSE r.results[1].calculated

BetterSmaller(first, second) ==  \* mutant: prefers the smaller amount
  IF AnotherAmount(first) < AnotherAmount(second) THEN first ELSE second

Better(first, second) ==
  IF AnotherAmount(first) > AnotherAmount(second) THEN first ELSE second

AllRoutesEmpty == direct = <<>> /\ \A m \in Mint : hops[m] = EmptyItem

Init ==
  /\ pools \in Snapshots
  /\ req \in Requests
  /\ pc = "scan"
  /\ next = 1
  /\ direct = <<>>
  /\ hops = [m \in Mint |-> EmptyItem]
  /\ todo = {}
  /\ hop = Wsol
  /\ pair = <<1, 1>>
  /\ hop_best = DefaultRoute
  /\ best = DefaultRoute

-----------------------------------------------------------------------------
(* get_all_route_path                                                      *)

IsDirect(p) ==
  \/ pools[p].a = In(req)  /\ pools[p].b = Out(req)
  \/ pools[p].a = Out(req) /\ pools[p].b = In(req)

Scanning == pc = "scan" /\ next \in Pool

ScanStep ==
  /\ next' = next + 1
  /\ UNCHANGED <<pools, req, pc, todo, hop, pair, hop_best, best>>

ScanDirect ==
  /\ Scanning /\ IsDirect(next)
  /\ direct' = Append(direct, next)
  /\ UNCHANGED hops
  /\ ScanStep

ScanInputSide ==
  /\ Scanning /\ ~IsDirect(next) /\ Trades(pools, next, In(req))
  /\ hops' = [hops EXCEPT ![Other(pools, next, In(req))].ins = Append(@, next)]
  /\ UNCHANGED direct
  /\ ScanStep

ScanOutputSideSwapped ==  \* mutant: pushes to input_mint_pools
  /\ Scanning /\ ~IsDirect(next)
  /\ ~Trades(pools, next, In(req)) /\ Trades(pools, next, Out(req))
  /\ hops' = [hops EXCEPT ![Other(pools, next, Out(req))].ins = Append(@, next)]
  /\ UNCHANGED direct
  /\ ScanStep

ScanOutputSide ==
  /\ Scanning /\ ~IsDirect(next)
  /\ ~Trades(pools, next, In(req)) /\ Trades(pools, next, Out(req))
  /\ hops' = [hops EXCEPT ![Other(pools, next, Out(req))].outs = Append(@, next)]
  /\ UNCHANGED direct
  /\ ScanStep

ScanUnrelated ==
  /\ Scanning
  /\ ~Trades(pools, next, In(req)) /\ ~Trades(pools, next, Out(req))
  /\ UNCHANGED <<direct, hops>>
  /\ ScanStep

\* quote_price_impl: the empty search is refused, any other one is priced.
FinishScan ==
  /\ pc = "scan" /\ next \notin Pool
  /\ pc' = IF AllRoutesEmpty THEN "no_route" ELSE "direct"
  /\ next' = 1
  /\ UNCHANGED <<pools, req, direct, hops, todo, hop, pair, hop_best, best>>

-----------------------------------------------------------------------------
(* compute_best_route: the direct routes                                   *)

DirectRoute(p) ==
  [pools   |-> <<p>>,
   results |-> <<SwapResult(pools, p, req.input, req.base_input, req.amount)>>]

RankDirectStored ==  \* mutant: the result is stored before its error is looked at
  /\ pc = "direct" /\ next <= Len(direct)
  /\ LET p == direct[next]
     IN  IF Calculated(pools, p, req.input, req.amount) = Failed
         THEN pc' = "failed" /\ best' = DirectRoute(p) /\ UNCHANGED next
         ELSE /\ best' = Better(best, DirectRoute(p))
              /\ next' = next + 1
              /\ UNCHANGED pc
  /\ UNCHANGED <<pools, req, direct, hops, todo, hop, pair, hop_best>>

\* compute_direct_route; its error is returned to the client at once.
RankDirect ==
  /\ pc = "direct" /\ next <= Len(direct)
  /\ LET p == direct[next]
     IN  IF Calculated(pools, p, req.input, req.amount) = Failed
         THEN pc' = "failed" /\ UNCHANGED <<best, next>>
         ELSE /\ best' = Better(best, DirectRoute(p))
              /\ next' = next + 1
              /\ UNCHANGED pc
  /\ UNCHANGED <<pools, req, direct, hops, todo, hop, pair, hop_best>>

FinishDirect ==
  /\ pc = "direct" /\ next > Len(direct)
  /\ pc' = "hops"
  /\ todo' = {m \in Mint : hops[m] # EmptyItem}
  /\ UNCHANGED <<pools, req, next, direct, hops, hop, pair, hop_best, best>>

-----------------------------------------------------------------------------
(* compute_best_route: the buckets, and the nested loop of each            *)

OpenHop(m) ==
  /\ pc = "hops" /\ m \in todo
  /\ pc' = "pairs"
  /\ hop' = m
  /\ pair' = <<1, 1>>
  /\ hop_best' = DefaultRoute
  /\ UNCHANGED <<pools, req, next, direct, hops, todo, best>>

PairLeft == pair[1] <= Len(hops[hop].ins) /\ pair[2] <= Len(hops[hop].outs)

NextPair ==
  IF pair[2] < Len(hops[hop].outs) THEN <<pair[1], pair[2] + 1>> ELSE <<pair[1] + 1, 1>>

Pool1 == hops[hop].ins[pair[1]]
Pool2 == hops[hop].outs[pair[2]]

KeepPair(result_1, result_2) ==
  /\ hop_best' = Better(hop_best, [pools |-> <<Pool1, Pool2>>, results |-> <<result_1, result_2>>])
  /\ pair' = NextPair
  /\ UNCHANGED pc

StopPair(status) ==
  /\ pc' = status
  /\ UNCHANGED <<pair, hop_best>>

\* The second hop's input is the mint of the bucket and its amount is what the
\* first hop computed; the assert_eq on the first hop's output mint comes before it.
RankPairBaseInput ==
  /\ pc = "pairs" /\ PairLeft /\ req.base_input
  /\ LET result_1 == SwapResult(pools, Pool1, req.input, TRUE, req.amount)
         result_2 == SwapResult(pools, Pool2, hop, TRUE, result_1.calculated)
     IN  \/ result_1.calculated = Failed /\ StopPair("failed")
         \/ result_1.calculated # Failed /\ result_1.output # hop /\ StopPair("panicked")
         \/ /\ result_1.calculated # Failed /\ result_1.output = hop
            /\ \/ result_2.calculated = Failed /\ StopPair("failed")
               \/ result_2.calculated # Failed /\ KeepPair(result_1, result_2)
  /\ UNCHANGED <<pools, req, next, direct, hops, todo, hop, best>>

\* Backwards: the second hop is priced first, and nothing is asserted.
RankPairBaseOutput ==
  /\ pc = "pairs" /\ PairLeft /\ ~req.base_input
  /\ LET result_2 == SwapResult(pools, Pool2, hop, FALSE, req.amount)
         result_1 == SwapResult(pools, Pool1, req.input, FALSE, result_2.calculated)
     IN  \/ result_2.calculated = Failed /\ StopPair("failed")
         \/ /\ result_2.calculated # Failed
            /\ \/ result_1.calculated = Failed /\ StopPair("failed")
               \/ result_1.calculated # Failed /\ KeepPair(result_1, result_2)
  /\ UNCHANGED <<pools, req, next, direct, hops, todo, hop, best>>

CloseHop ==
  /\ pc = "pairs" /\ ~PairLeft
  /\ pc' = "hops"
  /\ best' = Better(best, hop_best)
  /\ todo' = todo \ {hop}
  /\ UNCHANGED <<pools, req, next, direct, hops, hop, pair, hop_best>>

Reply ==
  /\ pc = "hops" /\ todo = {}
  /\ pc' = "ok"
  /\ UNCHANGED <<pools, req, next, direct, hops, todo, hop, pair, hop_best, best>>

Terminal == {"ok", "no_route", "failed", "panicked"}

\* The handler has returned; the state is kept so that nothing but a finished
\* request is a deadlock.
Answered == pc \in Terminal /\ UNCHANGED vars

Next ==
  \/ ScanDirect \/ ScanInputSide \/ ScanOutputSide \/ ScanUnrelated \/ FinishScan
  \/ RankDirect \/ FinishDirect
  \/ \E m \in Mint : OpenHop(m)
  \/ RankPairBaseInput \/ RankPairBaseOutput \/ CloseHop
  \/ Reply
  \/ Answered

Spec == Init /\ [][Next]_vars /\ WF_vars(Next)

-----------------------------------------------------------------------------
(* Properties                                                              *)

TypeOK ==
  /\ pools \in [Pool -> PoolInfo] /\ \A p \in Pool : pools[p].a # pools[p].b
  /\ req \in Request
  /\ pc \in {"scan", "direct", "hops", "pairs"} \cup Terminal
  /\ next \in Nat \ {0}
  /\ direct \in Seq(Pool)
  /\ hops \in [Mint -> RoutePathItem]
  /\ todo \subseteq Mint /\ hop \in Mint
  /\ pair \in (Nat \ {0}) \X (Nat \ {0})
  /\ hop_best \in Route /\ best \in Route

\* No candidate is lost and none is made up: once the vector is scanned, the
\* direct list holds exactly the pools of the pair, and the products of the two
\* sides of each bucket are exactly the two-pool routes that exist, whatever the
\* order and the orientation of the pools (get_all_route_path's else-if chain).
CandidatesExact ==
  pc # "scan" =>
    /\ Range(direct) = DirectPools(pools, req)
    /\ {h \in Pool \X Pool \X Mint :
          h[1] \in Range(hops[h[3]].ins) /\ h[2] \in Range(hops[h[3]].outs)}
         = HopPairs(pools, req)

\* Native SOL is not what the client offers.
AliasFree == req.input # Sol

IsPath(r) ==
  LET n == Len(r.results)
  IN  /\ Len(r.pools) = n
      /\ r.results[1].input = In(req) /\ r.results[n].output = Out(req)
      /\ \A i \in 1..n : Joins(pools, r.pools[i], r.results[i].input, r.results[i].output)
      /\ \A i \in 1..(n - 1) : r.results[i].output = r.results[i + 1].input

\* The route kept at any moment is a real one: consecutive pools share a mint,
\* the first takes the requested input and the last gives the requested output
\* (each hop's direction is guessed from one mint comparison).
PlanIsAPath ==
  AliasFree => \A r \in {best, hop_best} : r # DefaultRoute => IsPath(r)

\* The assert_eq in compute_one_hop_indirect_route_base_input never aborts a
\* request that names token mints.
NoAbortOnTokens == AliasFree => pc # "panicked"

\* Neither the order of the pools nor the order of the HashMap changes whether a
\* quote succeeds or the amount it reports: the handler implements BestQuote.
BQ == INSTANCE BestQuote WITH
        answer <- [status |-> IF pc \in Terminal THEN pc ELSE "pending",
                   amount |-> IF pc = "ok" THEN AnotherAmount(best) ELSE 0]

ImplementsBestQuote == BQ!Spec

\* The assertion of route_utils.rs:227 as it stands, for every request.
AssertNeverFires == pc # "panicked"

\* ret_code 0 means success: an answer with it names a route through fetched pools.
SuccessNamesAPool == pc = "ok" => best.pools # <<>>
=============================================================================
