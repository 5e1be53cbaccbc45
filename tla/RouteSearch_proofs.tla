-------------------------- MODULE RouteSearch_proofs --------------------------
(***************************************************************************)
(* What RouteSearch guarantees for every vector of pools, every curve and  *)
(* every request.                                                          *)
(***************************************************************************)
EXTENDS RouteSearch, TLAPS

-----------------------------------------------------------------------------
(* Lemmas on sequences, on the kept route and on one pool's result         *)

\* Pushing to a Vec adds exactly the pushed element.
LEMMA AppendRange ==
  ASSUME NEW S, NEW s \in Seq(S), NEW e \in S
  PROVE  /\ Append(s, e) \in Seq(S)
         /\ Range(Append(s, e)) = Range(s) \cup {e}
<1>1. /\ Append(s, e) \in Seq(S)
      /\ Len(Append(s, e)) = Len(s) + 1
      /\ \A i \in 1..Len(s) : Append(s, e)[i] = s[i]
      /\ Append(s, e)[Len(s) + 1] = e
      /\ Len(s) \in Nat
  OBVIOUS
<1>2. DOMAIN s = 1..Len(s) /\ DOMAIN Append(s, e) = 1..(Len(s) + 1)
  BY <1>1
<1>3. \A x : x \in Range(Append(s, e)) <=> \E i \in 1..(Len(s) + 1) : x = Append(s, e)[i]
  BY <1>2 DEF Range
<1>4. \A x : x \in Range(s) <=> \E i \in 1..Len(s) : x = s[i]
  BY <1>2 DEF Range
<1>5. \A x : x \in Range(Append(s, e)) <=> x \in Range(s) \/ x = e
  BY <1>1, <1>3, <1>4
<1> QED
  BY <1>1, <1>5

\* RouteInformationType::better returns one of its arguments.
LEMMA BetterIsOneOf ==
  ASSUME NEW r, NEW s
  PROVE  Better(r, s) = r \/ Better(r, s) = s
BY DEF Better

\* A pool that does not fail computes an amount.
LEMMA SwapResultType ==
  ASSUME NEW s \in [Pool -> PoolInfo], NEW p \in Pool, NEW m, NEW base_input \in BOOLEAN,
         NEW amount \in Amount, Calculated(s, p, m, amount) # Failed
  PROVE  SwapResult(s, p, m, base_input, amount) \in SwapResults
<1>1. s[p].a \in Mint /\ s[p].b \in Mint /\ s[p].curve \in [BOOLEAN -> [Amount -> Amount \cup {Failed}]]
  BY DEF PoolInfo
<1>2. ZeroForOne(s, p, m) \in BOOLEAN
  BY DEF ZeroForOne
<1>3. Calculated(s, p, m, amount) \in Amount
  BY <1>1, <1>2 DEF Calculated
<1> QED
  BY <1>1, <1>3 DEF SwapResult, SwapResults

-----------------------------------------------------------------------------
(* Type correctness                                                        *)

\* The handler starts with well-typed variables, the default route included.
LEMMA InitType == Init => TypeOK
<1> SUFFICES ASSUME Init PROVE TypeOK
  OBVIOUS
<1> USE PoolSnapshotAssumption
<1>1. DefaultRoute \in Route
  <2>1. <<[input |-> Sol, output |-> Sol, base_input |-> FALSE, calculated |-> 0]>> \in Seq(SwapResults)
    BY DEF SwapResults
  <2> QED
    BY <2>1 DEF DefaultRoute, Route
<1>2. EmptyItem \in RoutePathItem
  BY DEF EmptyItem, RoutePathItem
<1>3. pools \in [Pool -> PoolInfo] /\ \A p \in Pool : pools[p].a # pools[p].b
  BY DEF Init
<1>4. req \in Request
  BY DEF Init
<1> QED
  BY <1>1, <1>2, <1>3, <1>4 DEF Init, TypeOK

\* The nested loop indexes its two vectors within their bounds.
LEMMA PairInRange ==
  ASSUME TypeOK, PairLeft
  PROVE  /\ Pool1 \in Range(hops[hop].ins) /\ Pool1 \in Pool
         /\ Pool2 \in Range(hops[hop].outs) /\ Pool2 \in Pool
         /\ NextPair \in (Nat \ {0}) \X (Nat \ {0})
<1>1. hop \in Mint /\ hops[hop] \in RoutePathItem /\ pair \in (Nat \ {0}) \X (Nat \ {0})
  BY DEF TypeOK
<1>2. /\ hops[hop].ins \in Seq(Pool) /\ pair[1] \in 1..Len(hops[hop].ins)
      /\ hops[hop].outs \in Seq(Pool) /\ pair[2] \in 1..Len(hops[hop].outs)
  BY <1>1 DEF PairLeft, RoutePathItem
<1>3. /\ hops[hop].ins[pair[1]] \in Range(hops[hop].ins) /\ hops[hop].ins[pair[1]] \in Pool
      /\ hops[hop].outs[pair[2]] \in Range(hops[hop].outs) /\ hops[hop].outs[pair[2]] \in Pool
  BY <1>2 DEF Range
<1>4. NextPair \in (Nat \ {0}) \X (Nat \ {0})
  BY <1>1, <1>2 DEF NextPair
<1> QED
  BY <1>3, <1>4 DEF Pool1, Pool2

\* A priced pair leaves a route in hop_best.
LEMMA KeepPairType ==
  ASSUME TypeOK, PairLeft, NEW r \in SwapResults, NEW s \in SwapResults, KeepPair(r, s)
  PROVE  /\ hop_best' \in Route
         /\ pair' \in (Nat \ {0}) \X (Nat \ {0})
         /\ pc' = pc
<1> DEFINE route == [pools |-> <<Pool1, Pool2>>, results |-> <<r, s>>]
<1>1. route \in Route
  BY PairInRange DEF Route
<1>2. hop_best' = Better(hop_best, route)
  BY DEF KeepPair
<1>3. hop_best' \in Route
  BY <1>1, <1>2, BetterIsOneOf DEF TypeOK
<1> QED
  BY <1>3, PairInRange DEF KeepPair

\* No step of the scan or of the nested loops breaks a type.
LEMMA NextType == TypeOK /\ [Next]_vars => TypeOK'
<1> SUFFICES ASSUME TypeOK, [Next]_vars PROVE TypeOK'
  OBVIOUS
<1> USE PoolSnapshotAssumption DEF TypeOK, Terminal
<1>1. \A p \in Pool, m \in Mint : Other(pools, p, m) \in Mint
  BY DEF Other, PoolInfo
<1>2. In(req) \in Mint /\ Out(req) \in Mint
  BY DEF Request, In, Out, Canon
<1>3. CASE ScanDirect
  BY <1>3, AppendRange DEF ScanDirect, ScanStep, Scanning, Pool
<1>4. CASE ScanInputSide
  <2> DEFINE m == Other(pools, next, In(req))
  <2>1. next \in Pool /\ m \in Mint
    BY <1>1, <1>2, <1>4 DEF ScanInputSide, Scanning
  <2>2. Append(hops[m].ins, next) \in Seq(Pool)
    BY <2>1, AppendRange DEF RoutePathItem
  <2>3. hops' \in [Mint -> RoutePathItem]
    BY <1>4, <2>1, <2>2 DEF ScanInputSide, RoutePathItem
  <2> QED
    BY <1>4, <2>1, <2>3 DEF ScanInputSide, ScanStep, Pool
<1>5. CASE ScanOutputSide
  <2> DEFINE m == Other(pools, next, Out(req))
  <2>1. next \in Pool /\ m \in Mint
    BY <1>1, <1>2, <1>5 DEF ScanOutputSide, Scanning
  <2>2. Append(hops[m].outs, next) \in Seq(Pool)
    BY <2>1, AppendRange DEF RoutePathItem
  <2>3. hops' \in [Mint -> RoutePathItem]
    BY <1>5, <2>1, <2>2 DEF ScanOutputSide, RoutePathItem
  <2> QED
    BY <1>5, <2>1, <2>3 DEF ScanOutputSide, ScanStep, Pool
<1>6. CASE ScanUnrelated
  BY <1>6 DEF ScanUnrelated, ScanStep, Scanning, Pool
<1>7. CASE FinishScan
  BY <1>7 DEF FinishScan
<1>8. CASE RankDirect
  <2> DEFINE p == direct[next]
  <2>1. CASE Calculated(pools, p, req.input, req.amount) = Failed
    BY <1>8, <2>1 DEF RankDirect
  <2>2. CASE Calculated(pools, p, req.input, req.amount) # Failed
    <3> DEFINE result == SwapResult(pools, p, req.input, req.base_input, req.amount)
    <3>1. p \in Pool /\ Len(direct) \in Nat /\ next <= Len(direct)
      BY <1>8 DEF RankDirect
    <3>2. result \in SwapResults
      BY <2>2, <3>1, SwapResultType DEF Request
    <3>3. DirectRoute(p) \in Route
      BY <3>1, <3>2 DEF Route, DirectRoute
    <3>4. best' = Better(best, DirectRoute(p)) /\ next' = next + 1 /\ UNCHANGED pc
      BY <1>8, <2>2 DEF RankDirect
    <3>5. best' \in Route
      BY <3>3, <3>4, BetterIsOneOf
    <3> QED
      BY <1>8, <3>1, <3>4, <3>5 DEF RankDirect
  <2> QED
    BY <2>1, <2>2
<1>9. CASE FinishDirect
  BY <1>9 DEF FinishDirect
<1>10. ASSUME NEW m \in Mint, OpenHop(m) PROVE TypeOK'
  <2>1. DefaultRoute \in Route
    BY DEF DefaultRoute, Route, SwapResults
  <2> QED
    BY <1>10, <2>1 DEF OpenHop
<1>11. CASE RankPairBaseInput
  <2> DEFINE result_1 == SwapResult(pools, Pool1, req.input, TRUE, req.amount)
             result_2 == SwapResult(pools, Pool2, hop, TRUE, result_1.calculated)
  <2>1. Pool1 \in Pool /\ Pool2 \in Pool /\ req.amount \in Amount
    BY <1>11, PairInRange DEF RankPairBaseInput, Request
  <2>2. result_1.calculated # Failed => result_1 \in SwapResults
    BY <2>1, SwapResultType DEF SwapResult
  <2>3. result_1.calculated # Failed /\ result_2.calculated # Failed => result_2 \in SwapResults
    <3>1. result_1.calculated # Failed => result_1.calculated \in Amount
      BY <2>2 DEF SwapResults
    <3> QED
      BY <2>1, <3>1, SwapResultType DEF SwapResult
  <2>4. UNCHANGED <<pools, req, next, direct, hops, todo, hop, best>>
    BY <1>11 DEF RankPairBaseInput
  <2>5. CASE StopPair("failed") \/ StopPair("panicked")
    BY <2>4, <2>5 DEF StopPair
  <2>6. CASE result_1.calculated # Failed /\ result_2.calculated # Failed /\ KeepPair(result_1, result_2)
    <3> HIDE DEF result_1, result_2
    <3>1. hop_best' \in Route /\ pair' \in (Nat \ {0}) \X (Nat \ {0}) /\ pc' = pc
      BY <1>11, <2>2, <2>3, <2>6, KeepPairType DEF RankPairBaseInput
    <3> QED
      BY <2>4, <3>1
  <2> QED
    BY <1>11, <2>5, <2>6 DEF RankPairBaseInput
<1>12. CASE RankPairBaseOutput
  <2> DEFINE result_2 == SwapResult(pools, Pool2, hop, FALSE, req.amount)
             result_1 == SwapResult(pools, Pool1, req.input, FALSE, result_2.calculated)
  <2>1. Pool1 \in Pool /\ Pool2 \in Pool /\ req.amount \in Amount
    BY <1>12, PairInRange DEF RankPairBaseOutput, Request
  <2>2. result_2.calculated # Failed => result_2 \in SwapResults
    BY <2>1, SwapResultType DEF SwapResult
  <2>3. result_1.calculated # Failed /\ result_2.calculated # Failed => result_1 \in SwapResults
    <3>1. result_2.calculated # Failed => result_2.calculated \in Amount
      BY <2>2 DEF SwapResults
    <3> QED
      BY <2>1, <3>1, SwapResultType DEF SwapResult
  <2>4. UNCHANGED <<pools, req, next, direct, hops, todo, hop, best>>
    BY <1>12 DEF RankPairBaseOutput
  <2>5. CASE StopPair("failed")
    BY <2>4, <2>5 DEF StopPair
  <2>6. CASE result_1.calculated # Failed /\ result_2.calculated # Failed /\ KeepPair(result_1, result_2)
    <3> HIDE DEF result_1, result_2
    <3>1. hop_best' \in Route /\ pair' \in (Nat \ {0}) \X (Nat \ {0}) /\ pc' = pc
      BY <1>12, <2>2, <2>3, <2>6, KeepPairType DEF RankPairBaseOutput
    <3> QED
      BY <2>4, <3>1
  <2> QED
    BY <1>12, <2>5, <2>6 DEF RankPairBaseOutput
<1>13. CASE CloseHop
  BY <1>13, BetterIsOneOf DEF CloseHop
<1>14. CASE Reply
  BY <1>14 DEF Reply
<1>15. CASE UNCHANGED vars
  BY <1>15 DEF vars
<1> QED
  BY <1>3, <1>4, <1>5, <1>6, <1>7, <1>8, <1>9, <1>10, <1>11, <1>12, <1>13, <1>14, <1>15
     DEF Next, Answered

\* The handler's local variables keep their types: the loops never index a vector
\* out of bounds and no failed computation is stored as an amount.
THEOREM TypeCorrect == Spec => []TypeOK
<1> QED
  BY InitType, NextType, PTL DEF Spec

-----------------------------------------------------------------------------
(* The scan: direct and hops hold what get_all_route_path sorted so far    *)

ScannedTo == IF pc = "scan" THEN next - 1 ELSE NPools

InputSide(p)  == ~IsDirect(p) /\ Trades(pools, p, In(req))
OutputSide(p) == ~IsDirect(p) /\ ~Trades(pools, p, In(req)) /\ Trades(pools, p, Out(req))

\* The strengthening that is inductive: each vector holds exactly the pools of
\* its class among those scanned so far.
ScanExact ==
  /\ pc = "scan" => next <= NPools + 1
  /\ Range(direct) = {p \in 1..ScannedTo : IsDirect(p)}
  /\ \A m \in Mint :
       /\ Range(hops[m].ins)  = {p \in 1..ScannedTo : InputSide(p)  /\ Other(pools, p, In(req))  = m}
       /\ Range(hops[m].outs) = {p \in 1..ScannedTo : OutputSide(p) /\ Other(pools, p, Out(req)) = m}

\* Before the first pool nothing is scanned and nothing is sorted.
LEMMA ScanExactInit == Init => ScanExact
<1> SUFFICES ASSUME Init PROVE ScanExact
  OBVIOUS
<1>1. ScannedTo = 0 /\ 1..ScannedTo = {}
  BY DEF Init, ScannedTo
<1>2. Range(<<>>) = {}
  BY DEF Range
<1> QED
  BY <1>1, <1>2, PoolSnapshotAssumption DEF Init, ScanExact, EmptyItem

\* Each branch of the scan's else-if chain puts the pool where its class says,
\* and the pricing loops leave the sorted pools alone.
LEMMA ScanExactNext == TypeOK /\ ScanExact /\ [Next]_vars => ScanExact'
<1> SUFFICES ASSUME TypeOK, ScanExact, [Next]_vars PROVE ScanExact'
  OBVIOUS
<1> USE PoolSnapshotAssumption
<1> DEFINE I == In(req)  O == Out(req)
<1>1. /\ \A p \in Pool, m \in Mint : Other(pools, p, m) \in Mint
      /\ I \in Mint /\ O \in Mint
  BY DEF Other, PoolInfo, TypeOK, Request, In, Out, Canon
<1>2. ASSUME Scanning, ScanStep
      PROVE  /\ next \in Pool /\ ScannedTo = next - 1 /\ ScannedTo' = next
             /\ (pc = "scan" => next <= NPools + 1)'
             /\ 1..ScannedTo' = (1..ScannedTo) \cup {next} /\ next \notin 1..ScannedTo
             /\ \A p : IsDirect(p)' = IsDirect(p) /\ InputSide(p)' = InputSide(p)
                     /\ OutputSide(p)' = OutputSide(p)
             /\ UNCHANGED <<pools, req>>
  <2>1. /\ next \in Pool /\ next' = next + 1 /\ pc = "scan" /\ pc' = "scan"
        /\ UNCHANGED <<pools, req>>
    BY <1>2 DEF Scanning, ScanStep
  <2>2. /\ next \in 1..NPools /\ NPools \in Nat
        /\ ScannedTo = next - 1 /\ ScannedTo' = next
    BY <2>1 DEF ScannedTo, Pool
  <2>3. next \in Int /\ 1..next = (1..(next - 1)) \cup {next} /\ next \notin 1..(next - 1)
    BY <2>2
  <2>4. \A p : /\ IsDirect(p)' = IsDirect(p) /\ InputSide(p)' = InputSide(p)
               /\ OutputSide(p)' = OutputSide(p)
    BY <2>1 DEF IsDirect, InputSide, OutputSide, Trades, In, Out, Canon
  <2> QED
    BY <2>1, <2>2, <2>3, <2>4
<1>3. CASE ScanDirect
  <2>1. Scanning /\ ScanStep /\ IsDirect(next) /\ ~InputSide(next) /\ ~OutputSide(next)
    BY <1>3 DEF ScanDirect, InputSide, OutputSide
  <2>2. Range(direct') = Range(direct) \cup {next} /\ UNCHANGED hops
    BY <1>2, <1>3, <2>1, AppendRange DEF ScanDirect, TypeOK
  <2> QED
    BY <1>2, <2>1, <2>2 DEF ScanExact
<1>4. CASE ScanInputSide
  <2> DEFINE n == Other(pools, next, I)
  <2>1. Scanning /\ ScanStep /\ ~IsDirect(next) /\ InputSide(next) /\ ~OutputSide(next) /\ UNCHANGED direct
    BY <1>4 DEF ScanInputSide, InputSide, OutputSide
  <2>2. hops[n].ins \in Seq(Pool) /\ n \in Mint /\ next \in Pool
    BY <1>1, <1>2, <2>1 DEF TypeOK, RoutePathItem
  <2>3. hops' = [hops EXCEPT ![n].ins = Append(@, next)]
    BY <1>4 DEF ScanInputSide
  <2> HIDE DEF n
  <2>4. \A m \in Mint : /\ hops'[m].outs = hops[m].outs
                         /\ hops'[m].ins = IF m = n THEN Append(hops[m].ins, next) ELSE hops[m].ins
    BY <2>2, <2>3 DEF TypeOK, RoutePathItem
  <2>5. \A m \in Mint : Range(hops'[m].ins) = Range(hops[m].ins) \cup (IF m = n THEN {next} ELSE {})
    BY <2>2, <2>4, AppendRange
  <2> QED
    BY <1>2, <2>1, <2>4, <2>5 DEF ScanExact, n
<1>5. CASE ScanOutputSide
  <2> DEFINE n == Other(pools, next, O)
  <2>1. Scanning /\ ScanStep /\ ~IsDirect(next) /\ ~InputSide(next) /\ OutputSide(next) /\ UNCHANGED direct
    BY <1>5 DEF ScanOutputSide, InputSide, OutputSide
  <2>2. hops[n].outs \in Seq(Pool) /\ n \in Mint /\ next \in Pool
    BY <1>1, <1>2, <2>1 DEF TypeOK, RoutePathItem
  <2>3. hops' = [hops EXCEPT ![n].outs = Append(@, next)]
    BY <1>5 DEF ScanOutputSide
  <2> HIDE DEF n
  <2>4. \A m \in Mint : /\ hops'[m].ins = hops[m].ins
                         /\ hops'[m].outs = IF m = n THEN Append(hops[m].outs, next) ELSE hops[m].outs
    BY <2>2, <2>3 DEF TypeOK, RoutePathItem
  <2>5. \A m \in Mint : Range(hops'[m].outs) = Range(hops[m].outs) \cup (IF m = n THEN {next} ELSE {})
    BY <2>2, <2>4, AppendRange
  <2> QED
    BY <1>2, <2>1, <2>4, <2>5 DEF ScanExact, n
<1>6. CASE ScanUnrelated
  <2>1. Scanning /\ ScanStep /\ ~IsDirect(next) /\ ~InputSide(next) /\ ~OutputSide(next) /\ UNCHANGED <<direct, hops>>
    BY <1>6 DEF ScanUnrelated, InputSide, OutputSide, IsDirect, Trades
  <2> QED
    BY <1>2, <2>1 DEF ScanExact
<1>7. ASSUME UNCHANGED <<pools, req, direct, hops>>, ScannedTo' = ScannedTo, pc' = "scan" => UNCHANGED <<pc, next>>
      PROVE  ScanExact'
  BY <1>7 DEF ScanExact, IsDirect, InputSide, OutputSide, Trades
<1>8. CASE FinishScan
  <2>1. ScannedTo = NPools /\ ScannedTo' = NPools /\ pc' # "scan"
    BY <1>8 DEF FinishScan, ScannedTo, TypeOK, ScanExact, Pool
  <2> QED
    BY <1>7, <1>8, <2>1 DEF FinishScan
<1>9. ASSUME pc # "scan", pc' # "scan", UNCHANGED <<pools, req, direct, hops>> PROVE ScanExact'
  BY <1>7, <1>9 DEF ScannedTo
<1>10. CASE RankDirect \/ FinishDirect \/ Reply \/ CloseHop \/ RankPairBaseInput \/ RankPairBaseOutput
  BY <1>9, <1>10 DEF RankDirect, FinishDirect, Reply, CloseHop, RankPairBaseInput, RankPairBaseOutput,
                     StopPair, KeepPair
<1>11. ASSUME NEW m \in Mint, OpenHop(m) PROVE ScanExact'
  BY <1>9, <1>11 DEF OpenHop
<1>12. CASE UNCHANGED vars
  BY <1>7, <1>12 DEF vars, ScannedTo
<1> QED
  BY <1>3, <1>4, <1>5, <1>6, <1>8, <1>10, <1>11, <1>12 DEF Next, Answered

\* The scan's classes are the pairings that define the routes.
LEMMA BucketSides ==
  ASSUME TypeOK, NEW p \in Pool, NEW m \in Mint
  PROVE  /\ IsDirect(p) <=> Joins(pools, p, In(req), Out(req))
         /\ InputSide(p) /\ Other(pools, p, In(req)) = m =>
              Joins(pools, p, In(req), m) /\ m # Out(req)
         /\ OutputSide(p) /\ Other(pools, p, Out(req)) = m =>
              Joins(pools, p, m, Out(req)) /\ m # In(req) /\ In(req) # Out(req)
         /\ Joins(pools, p, In(req), m) /\ m # Out(req) =>
              InputSide(p) /\ Other(pools, p, In(req)) = m
         /\ Joins(pools, p, m, Out(req)) /\ m # In(req) /\ In(req) # Out(req) =>
              OutputSide(p) /\ Other(pools, p, Out(req)) = m
<1>1. pools[p].a # pools[p].b
  BY DEF TypeOK
<1>2. \A x, y : {pools[p].a, pools[p].b} = {x, y} <=>
        \/ pools[p].a = x /\ pools[p].b = y
        \/ pools[p].a = y /\ pools[p].b = x
  BY <1>1
<1> QED
  BY <1>1, <1>2 DEF IsDirect, InputSide, OutputSide, Other, Trades, Joins

\* A finished scan holds exactly the candidate routes.
LEMMA ScanGivesCandidates == TypeOK /\ ScanExact => CandidatesExact
<1> SUFFICES ASSUME TypeOK, ScanExact, pc # "scan" PROVE CandidatesExact
  BY DEF CandidatesExact
<1>1. 1..ScannedTo = Pool
  BY DEF ScannedTo, Pool
<1>2. Range(direct) = DirectPools(pools, req)
  BY <1>1, BucketSides, PoolSnapshotAssumption DEF ScanExact, DirectPools
<1>3. ASSUME NEW x \in Pool, NEW y \in Pool, NEW m \in Mint
      PROVE  x \in Range(hops[m].ins) /\ y \in Range(hops[m].outs)
               <=> <<x, y, m>> \in HopPairs(pools, req)
  <2>1. x \in Range(hops[m].ins) <=> InputSide(x) /\ Other(pools, x, In(req)) = m
    BY <1>1 DEF ScanExact
  <2>2. y \in Range(hops[m].outs) <=> OutputSide(y) /\ Other(pools, y, Out(req)) = m
    BY <1>1 DEF ScanExact
  <2>3. <<x, y, m>> \in HopPairs(pools, req) <=>
          /\ m \notin {In(req), Out(req)} /\ In(req) # Out(req)
          /\ Joins(pools, x, In(req), m) /\ Joins(pools, y, m, Out(req))
    BY DEF HopPairs
  <2> QED
    BY <2>1, <2>2, <2>3, BucketSides DEF Joins
<1>4. {h \in Pool \X Pool \X Mint :
          h[1] \in Range(hops[h[3]].ins) /\ h[2] \in Range(hops[h[3]].outs)} = HopPairs(pools, req)
  <2>1. \A h \in Pool \X Pool \X Mint :
          h[1] \in Range(hops[h[3]].ins) /\ h[2] \in Range(hops[h[3]].outs) <=> h \in HopPairs(pools, req)
    BY <1>3
  <2>2. HopPairs(pools, req) \subseteq Pool \X Pool \X Mint
    BY DEF HopPairs
  <2> QED
    BY <2>1, <2>2
<1> QED
  BY <1>2, <1>4 DEF CandidatesExact

\* At every step of the scan the prefix read so far is sorted exactly.
LEMMA ScanCorrect == Spec => []ScanExact
<1>1. TypeOK /\ ScanExact /\ [Next]_vars => ScanExact'
  BY ScanExactNext
<1> QED
  BY <1>1, TypeCorrect, ScanExactInit, PTL DEF Spec

\* The candidates compute_best_route prices are exactly the direct and two-pool
\* routes that exist, for every vector of pools in every order and orientation.
THEOREM CandidatesAreExact == Spec => []CandidatesExact
<1> QED
  BY TypeCorrect, ScanCorrect, ScanGivesCandidates, PTL

-----------------------------------------------------------------------------
(* The kept routes are paths, and the assertion holds for token requests   *)

\* A request for a token mint is priced with the mint the scan used, and a swap
\* into a pool the mint belongs to comes out at the other side.
LEMMA SwapEnds ==
  ASSUME TypeOK, NEW p \in Pool, NEW m \in Mint, NEW n \in Mint, Joins(pools, p, m, n),
         NEW base_input, NEW amount
  PROVE  /\ SwapResult(pools, p, m, base_input, amount).input = m
         /\ SwapResult(pools, p, m, base_input, amount).output = n
<1>1. pools[p].a # pools[p].b
  BY DEF TypeOK
<1>2. \/ pools[p].a = m /\ pools[p].b = n
      \/ pools[p].a = n /\ pools[p].b = m
  BY <1>1 DEF Joins
<1> QED
  BY <1>1, <1>2 DEF SwapResult, ZeroForOne

\* Pricing a direct pool with the requested mint yields a one-pool path.
LEMMA DirectIsPath ==
  ASSUME TypeOK, ScanExact, AliasFree, pc = "direct", next <= Len(direct)
  PROVE  IsPath(DirectRoute(direct[next]))
<1> DEFINE p == direct[next]
           result == SwapResult(pools, p, req.input, req.base_input, req.amount)
<1>1. req.input = In(req) /\ In(req) \in Mint /\ Out(req) \in Mint
  BY PoolSnapshotAssumption DEF AliasFree, In, Out, Canon, TypeOK, Request
<1>2. p \in Range(direct) /\ p \in Pool
  BY DEF TypeOK, Range
<1>3. IsDirect(p)
  BY <1>2 DEF ScanExact
<1>4. Joins(pools, p, In(req), Out(req))
  BY <1>1, <1>2, <1>3, BucketSides
<1>5. result.input = In(req) /\ result.output = Out(req)
  BY <1>1, <1>2, <1>4, SwapEnds
<1> HIDE DEF result, p
<1>6. DirectRoute(p) = [pools |-> <<p>>, results |-> <<result>>]
  BY DEF DirectRoute, result
<1> QED
  BY <1>4, <1>5, <1>6 DEF IsPath, p

\* Pricing a pair of a bucket, in either order of the hops, yields a two-pool path.
LEMMA PairIsPath ==
  ASSUME TypeOK, ScanExact, AliasFree, pc = "pairs", PairLeft,
         NEW base_input, NEW amount_1, NEW amount_2
  PROVE  LET result_1 == SwapResult(pools, Pool1, req.input, base_input, amount_1)
             result_2 == SwapResult(pools, Pool2, hop, base_input, amount_2)
         IN  /\ IsPath([pools |-> <<Pool1, Pool2>>, results |-> <<result_1, result_2>>])
             /\ result_1.output = hop
<1> DEFINE result_1 == SwapResult(pools, Pool1, req.input, base_input, amount_1)
           result_2 == SwapResult(pools, Pool2, hop, base_input, amount_2)
<1>1. req.input = In(req) /\ In(req) \in Mint /\ Out(req) \in Mint /\ hop \in Mint
  BY PoolSnapshotAssumption DEF AliasFree, In, Out, Canon, TypeOK, Request
<1>2. /\ Pool1 \in Pool /\ InputSide(Pool1) /\ Other(pools, Pool1, In(req)) = hop
      /\ Pool2 \in Pool /\ OutputSide(Pool2) /\ Other(pools, Pool2, Out(req)) = hop
  BY <1>1, PairInRange DEF ScanExact
<1>3. Joins(pools, Pool1, In(req), hop) /\ Joins(pools, Pool2, hop, Out(req))
  BY <1>1, <1>2, BucketSides
<1>4. /\ result_1.input = In(req) /\ result_1.output = hop
      /\ result_2.input = hop /\ result_2.output = Out(req)
  BY <1>1, <1>2, <1>3, SwapEnds
<1> HIDE DEF result_1, result_2
<1>5. IsPath([pools |-> <<Pool1, Pool2>>, results |-> <<result_1, result_2>>])
  BY <1>3, <1>4 DEF IsPath
<1> QED
  BY <1>4, <1>5 DEF result_1, result_2

\* The default route is the only one at the start.
LEMMA PathInit == Init => PlanIsAPath
BY DEF Init, PlanIsAPath

\* A kept route stays a path: better only ever keeps a priced candidate.
LEMMA PathNext == TypeOK /\ ScanExact /\ PlanIsAPath /\ [Next]_vars => PlanIsAPath'
<1> SUFFICES ASSUME TypeOK, ScanExact, PlanIsAPath, [Next]_vars, AliasFree PROVE PlanIsAPath'
  BY DEF PlanIsAPath, AliasFree, Next, vars, ScanDirect, ScanInputSide, ScanOutputSide, ScanUnrelated,
         ScanStep, FinishScan, RankDirect, FinishDirect, OpenHop, RankPairBaseInput, RankPairBaseOutput,
         CloseHop, Reply, Answered
<1> DEFINE Good(r) == r = DefaultRoute \/ IsPath(r)
<1>1. Good(best) /\ Good(hop_best)
  BY DEF PlanIsAPath
<1>2. ASSUME UNCHANGED pools, UNCHANGED req, Good(best'), Good(hop_best') PROVE PlanIsAPath'
  BY <1>2 DEF PlanIsAPath, IsPath, In, Out
<1>3. CASE \/ ScanDirect \/ ScanInputSide \/ ScanOutputSide \/ ScanUnrelated \/ FinishScan
           \/ FinishDirect \/ Reply \/ UNCHANGED vars
  BY <1>1, <1>2, <1>3 DEF ScanDirect, ScanInputSide, ScanOutputSide, ScanUnrelated, ScanStep, FinishScan,
                          FinishDirect, Reply, vars
<1>4. CASE RankDirect
  <2>1. UNCHANGED <<pools, req, hop_best>> /\ (best' = best \/ best' = Better(best, DirectRoute(direct[next])))
    BY <1>4 DEF RankDirect
  <2>2. IsPath(DirectRoute(direct[next]))
    BY <1>4, DirectIsPath DEF RankDirect
  <2>3. Good(best')
    BY <1>1, <2>1, <2>2, BetterIsOneOf
  <2> QED
    BY <1>1, <1>2, <2>1, <2>3
<1>5. ASSUME NEW m \in Mint, OpenHop(m) PROVE PlanIsAPath'
  BY <1>1, <1>2, <1>5 DEF OpenHop
<1>6. CASE RankPairBaseInput
  <2> DEFINE result_1 == SwapResult(pools, Pool1, req.input, TRUE, req.amount)
             result_2 == SwapResult(pools, Pool2, hop, TRUE, result_1.calculated)
             route == [pools |-> <<Pool1, Pool2>>, results |-> <<result_1, result_2>>]
  <2>1. UNCHANGED <<pools, req, best>> /\ (hop_best' = hop_best \/ hop_best' = Better(hop_best, route))
    BY <1>6 DEF RankPairBaseInput, StopPair, KeepPair
  <2>2. IsPath(route)
    BY <1>6, PairIsPath DEF RankPairBaseInput
  <2>3. Good(hop_best')
    BY <1>1, <2>1, <2>2, BetterIsOneOf
  <2> QED
    BY <1>1, <1>2, <2>1, <2>3
<1>7. CASE RankPairBaseOutput
  <2> DEFINE result_2 == SwapResult(pools, Pool2, hop, FALSE, req.amount)
             result_1 == SwapResult(pools, Pool1, req.input, FALSE, result_2.calculated)
             route == [pools |-> <<Pool1, Pool2>>, results |-> <<result_1, result_2>>]
  <2>1. UNCHANGED <<pools, req, best>> /\ (hop_best' = hop_best \/ hop_best' = Better(hop_best, route))
    BY <1>7 DEF RankPairBaseOutput, StopPair, KeepPair
  <2>2. IsPath(route)
    BY <1>7, PairIsPath DEF RankPairBaseOutput
  <2>3. Good(hop_best')
    BY <1>1, <2>1, <2>2, BetterIsOneOf
  <2> QED
    BY <1>1, <1>2, <2>1, <2>3
<1>8. CASE CloseHop
  <2>1. UNCHANGED <<pools, req, hop_best>> /\ best' = Better(best, hop_best)
    BY <1>8 DEF CloseHop
  <2>2. Good(best')
    BY <1>1, <2>1, BetterIsOneOf
  <2> QED
    BY <1>1, <1>2, <2>1, <2>2
<1> QED
  BY <1>3, <1>4, <1>5, <1>6, <1>7, <1>8 DEF Next, Answered

\* For a request that names token mints, the route kept at any moment is the
\* default one or a chain of fetched pools from the input to the output mint.
THEOREM PlanPath == Spec => []PlanIsAPath
<1> QED
  BY TypeCorrect, ScanCorrect, PathInit, PathNext, PTL DEF Spec

\* The handler does not start aborted.
LEMMA NoAbortInit == Init => NoAbortOnTokens
BY DEF Init, NoAbortOnTokens

\* The only step that aborts, the assertion on the first hop's output, is not taken.
LEMMA NoAbortNext == TypeOK /\ ScanExact /\ NoAbortOnTokens /\ [Next]_vars => NoAbortOnTokens'
<1> SUFFICES ASSUME TypeOK, ScanExact, NoAbortOnTokens, [Next]_vars, AliasFree PROVE pc' # "panicked"
  BY DEF NoAbortOnTokens, AliasFree, Next, vars, ScanDirect, ScanInputSide, ScanOutputSide, ScanUnrelated,
         ScanStep, FinishScan, RankDirect, FinishDirect, OpenHop, RankPairBaseInput, RankPairBaseOutput,
         CloseHop, Reply, Answered
<1>1. pc # "panicked"
  BY DEF NoAbortOnTokens
<1>2. CASE RankPairBaseInput
  <2>1. SwapResult(pools, Pool1, req.input, TRUE, req.amount).output = hop
    BY <1>2, PairIsPath DEF RankPairBaseInput
  <2> QED
    BY <1>2, <2>1 DEF RankPairBaseInput, StopPair, KeepPair
<1>3. CASE RankPairBaseOutput
  BY <1>3 DEF RankPairBaseOutput, StopPair, KeepPair
<1> QED
  BY <1>1, <1>2, <1>3 DEF Next, vars, ScanDirect, ScanInputSide, ScanOutputSide, ScanUnrelated,
         ScanStep, FinishScan, RankDirect, FinishDirect, OpenHop, CloseHop, Reply, Answered

\* The assert_eq of the base-input nested loop never aborts a request whose
\* input is a token mint.
THEOREM NoAbort == Spec => []NoAbortOnTokens
<1> QED
  BY TypeCorrect, ScanCorrect, NoAbortInit, NoAbortNext, PTL DEF Spec

-----------------------------------------------------------------------------
(* The handler implements BestQuote: for every vector of pools, every      *)
(* curve, every order of the buckets and every request that names a token  *)
(* mint as its input, its steps are BestQuote's one answer or stutter.     *)

-----------------------------------------------------------------------------
(* What has been priced so far                                             *)

\* v is the largest of the amounts S, none of which is an error, or 0.
IsBest(v, S) == v \in S \cup {0} /\ \A x \in S : x \in Amount /\ x <= v

DirectValue(i) == Calculated(pools, direct[i], In(req), req.amount)

PairValue(m, i, j) == HopValue(pools, req, <<hops[m].ins[i], hops[m].outs[j], m>>)

DirectUpTo(n) == {DirectValue(i) : i \in 1..n}

Pairs(m) == (1..Len(hops[m].ins)) \X (1..Len(hops[m].outs))

\* The pairs of the open bucket that the nested loop has left behind.
Earlier(i, j) == {ij \in Pairs(hop) : ij[1] < i \/ (ij[1] = i /\ ij[2] < j)}

PairValues(m, S) == {PairValue(m, ij[1], ij[2]) : ij \in S}

\* All pairs of the buckets that are not to be visited any more.
Closed == UNION {PairValues(m, Pairs(m)) : m \in Mint \ todo}

\* The best route so far is the best of what has been priced; a bucket without pairs
\* keeps its second index at 1.
Ranked ==
  /\ pc = "scan" => best = DefaultRoute
  /\ pc \in {"direct", "hops", "pairs"} => ~AllRoutesEmpty
  /\ pc = "direct" =>
       next <= Len(direct) + 1 /\ IsBest(AnotherAmount(best), DirectUpTo(next - 1))
  /\ pc \in {"hops", "pairs"} =>
       IsBest(AnotherAmount(best), DirectUpTo(Len(direct)) \cup Closed)
  /\ pc = "pairs" =>
       /\ hop \in todo
       /\ pair[2] = 1 \/ pair[2] <= Len(hops[hop].outs)
       /\ IsBest(AnotherAmount(hop_best), PairValues(hop, Earlier(pair[1], pair[2])))

RankInv == TypeOK /\ ScanExact /\ AliasFree /\ Ranked

-----------------------------------------------------------------------------
(* Keeping the best                                                        *)

\* The empty route counts as an amount of 0.
LEMMA DefaultIsWorthless == AnotherAmount(DefaultRoute) = 0
BY DEF AnotherAmount, DefaultRoute

\* The better of two routes has the larger amount of the two.
LEMMA BetterAmount ==
  ASSUME NEW r, NEW s, NEW S, NEW T,
         IsBest(AnotherAmount(r), S), IsBest(AnotherAmount(s), T)
  PROVE  IsBest(AnotherAmount(Better(r, s)), S \cup T)
<1> DEFINE v == AnotherAmount(r)
           w == AnotherAmount(s)
<1>1. v \in Nat /\ w \in Nat
  BY PoolSnapshotAssumption DEF IsBest
<1>2. AnotherAmount(Better(r, s)) = IF v > w THEN v ELSE w
  BY DEF Better
<1> HIDE DEF v, w
<1>3. /\ v \in S \cup {0} /\ \A x \in S : x \in Amount /\ x <= v
      /\ w \in T \cup {0} /\ \A x \in T : x \in Amount /\ x <= w
  BY DEF IsBest, v, w
<1>4. \A x \in Amount : x \in Nat
  BY PoolSnapshotAssumption
<1>5. CASE v > w
  <2>1. \A x \in S \cup T : x \in Amount /\ x <= v
    BY <1>1, <1>3, <1>4, <1>5
  <2> QED
    BY <1>2, <1>3, <1>5, <2>1 DEF IsBest
<1>6. CASE ~(v > w)
  <2>1. \A x \in S \cup T : x \in Amount /\ x <= w
    BY <1>1, <1>3, <1>4, <1>6
  <2> QED
    BY <1>2, <1>3, <1>6, <2>1 DEF IsBest
<1> QED
  BY <1>5, <1>6

\* A route that has been priced is the best of itself.
LEMMA OneIsBest ==
  ASSUME NEW v \in Amount
  PROVE  IsBest(v, {v})
BY PoolSnapshotAssumption DEF IsBest

\* Pricing a pool gives an amount or fails.
LEMMA CalculatedType ==
  ASSUME TypeOK, NEW p \in Pool, NEW m, NEW amount \in Amount
  PROVE  Calculated(pools, p, m, amount) \in Amount \cup {Failed}
<1>1. pools[p].curve \in [BOOLEAN -> [Amount -> Amount \cup {Failed}]]
  BY DEF TypeOK, PoolInfo
<1>2. ZeroForOne(pools, p, m) \in BOOLEAN
  BY DEF ZeroForOne
<1> QED
  BY <1>1, <1>2 DEF Calculated

\* The request is priced with the mint the scan used.
LEMMA AskedMint ==
  ASSUME TypeOK, AliasFree
  PROVE  req.input = In(req) /\ req.amount \in Amount /\ req.base_input \in BOOLEAN
BY DEF TypeOK, AliasFree, In, Canon, Request

\* What better compares of a direct route.
LEMMA DirectAmount ==
  ASSUME TypeOK, AliasFree, NEW i \in 1..Len(direct),
         Calculated(pools, direct[i], req.input, req.amount) # Failed
  PROVE  /\ AnotherAmount(DirectRoute(direct[i])) = DirectValue(i)
         /\ DirectValue(i) \in Amount
<1>1. direct[i] \in Pool
  BY DEF TypeOK
<1>2. AnotherAmount(DirectRoute(direct[i])) = DirectValue(i)
  BY AskedMint DEF AnotherAmount, DirectRoute, SwapResult, DirectValue
<1> QED
  BY <1>1, <1>2, AskedMint, CalculatedType DEF DirectValue

\* And of a pair of the open bucket, priced forwards or backwards.
LEMMA PairAmount ==
  ASSUME TypeOK, AliasFree, PairLeft, NEW r1, NEW r2,
         \/ /\ req.base_input
            /\ r1 = SwapResult(pools, Pool1, req.input, TRUE, req.amount)
            /\ r2 = SwapResult(pools, Pool2, hop, TRUE, r1.calculated)
         \/ /\ ~req.base_input
            /\ r2 = SwapResult(pools, Pool2, hop, FALSE, req.amount)
            /\ r1 = SwapResult(pools, Pool1, req.input, FALSE, r2.calculated)
  PROVE  /\ r1.calculated # Failed /\ r2.calculated # Failed =>
              /\ AnotherAmount([pools |-> <<Pool1, Pool2>>, results |-> <<r1, r2>>])
                   = PairValue(hop, pair[1], pair[2])
              /\ PairValue(hop, pair[1], pair[2]) \in Amount
         /\ r1.calculated = Failed \/ r2.calculated = Failed
              => PairValue(hop, pair[1], pair[2]) = Failed
<1>1. Pool1 \in Pool /\ Pool2 \in Pool /\ req.input = In(req) /\ req.amount \in Amount
  BY PairInRange, AskedMint
<1>2. PairValue(hop, pair[1], pair[2]) = HopValue(pools, req, <<Pool1, Pool2, hop>>)
  BY DEF PairValue, Pool1, Pool2
<1>3. CASE req.base_input
  <2>1. /\ r1.calculated = Calculated(pools, Pool1, In(req), req.amount)
        /\ r2.calculated = Calculated(pools, Pool2, hop, r1.calculated)
        /\ r1.base_input = TRUE
    BY <1>1, <1>3 DEF SwapResult
  <2>2. HopValue(pools, req, <<Pool1, Pool2, hop>>)
          = IF r1.calculated = Failed THEN Failed ELSE r2.calculated
    BY <1>3, <2>1 DEF HopValue
  <2>3. r1.calculated # Failed /\ r2.calculated # Failed => r2.calculated \in Amount
    BY <1>1, <2>1, CalculatedType
  <2>4. AnotherAmount([pools |-> <<Pool1, Pool2>>, results |-> <<r1, r2>>]) = r2.calculated
    BY <2>1 DEF AnotherAmount
  <2> QED
    BY <1>2, <1>3, <2>2, <2>3, <2>4
<1>4. CASE ~req.base_input
  <2>1. /\ r2.calculated = Calculated(pools, Pool2, hop, req.amount)
        /\ r1.calculated = Calculated(pools, Pool1, In(req), r2.calculated)
        /\ r1.base_input = FALSE
    BY <1>1, <1>4 DEF SwapResult
  <2>2. HopValue(pools, req, <<Pool1, Pool2, hop>>)
          = IF r2.calculated = Failed THEN Failed ELSE r1.calculated
    BY <1>4, <2>1 DEF HopValue
  <2>3. r1.calculated # Failed /\ r2.calculated # Failed => r1.calculated \in Amount
    BY <1>1, <2>1, CalculatedType
  <2>4. AnotherAmount([pools |-> <<Pool1, Pool2>>, results |-> <<r1, r2>>]) = r1.calculated
    BY <2>1 DEF AnotherAmount
  <2> QED
    BY <1>2, <1>4, <2>2, <2>3, <2>4
<1> QED
  BY <1>3, <1>4

-----------------------------------------------------------------------------
(* The loops                                                               *)

\* The nested loop goes through the pairs in order, and leaves none out.
LEMMA PairsInOrder ==
  ASSUME TypeOK, pair[2] = 1 \/ pair[2] <= Len(hops[hop].outs)
  PROVE  /\ Earlier(1, 1) = {}
         /\ PairLeft =>
              /\ Earlier(NextPair[1], NextPair[2]) = Earlier(pair[1], pair[2]) \cup {pair}
              /\ NextPair[2] = 1 \/ NextPair[2] <= Len(hops[hop].outs)
         /\ ~PairLeft => Earlier(pair[1], pair[2]) = Pairs(hop)
<1> DEFINE x == pair[1]
           y == pair[2]
           n == Len(hops[hop].outs)
           m == Len(hops[hop].ins)
<1>1. /\ x \in Nat \ {0} /\ y \in Nat \ {0} /\ pair = <<x, y>>
      /\ m \in Nat /\ n \in Nat
  BY DEF TypeOK, RoutePathItem
<1>2. \A i, j : Earlier(i, j) = {ij \in (1..m) \X (1..n) : ij[1] < i \/ (ij[1] = i /\ ij[2] < j)}
  BY DEF Earlier, Pairs
<1>3. PairLeft <=> x <= m /\ y <= n
  BY DEF PairLeft
<1>4. NextPair = IF y < n THEN <<x, y + 1>> ELSE <<x + 1, 1>>
  BY DEF NextPair
<1>5. y = 1 \/ y <= n
  OBVIOUS
<1>6. Pairs(hop) = (1..m) \X (1..n)
  BY DEF Pairs
<1> HIDE DEF x, y, n, m
<1>7. Earlier(1, 1) = {}
  <2>1. \A ij \in (1..m) \X (1..n) : ~(ij[1] < 1 \/ (ij[1] = 1 /\ ij[2] < 1))
    BY <1>1
  <2> QED
    BY <1>2, <2>1
<1>8. ASSUME x <= m, y <= n
      PROVE  /\ Earlier(NextPair[1], NextPair[2]) = Earlier(x, y) \cup {<<x, y>>}
             /\ NextPair[2] = 1 \/ NextPair[2] <= n
  <2>1. CASE y < n
    <3>1. \A i \in 1..m, j \in 1..n :
            i < x \/ (i = x /\ j < y + 1) <=> (i < x \/ (i = x /\ j < y)) \/ (i = x /\ j = y)
      BY <1>1
    <3>2. \A ij \in (1..m) \X (1..n) : ij \in Earlier(x, y + 1) <=> ij \in Earlier(x, y) \/ ij = <<x, y>>
      <4> SUFFICES ASSUME NEW i \in 1..m, NEW j \in 1..n
                   PROVE  <<i, j>> \in Earlier(x, y + 1) <=> <<i, j>> \in Earlier(x, y) \/ <<i, j>> = <<x, y>>
        OBVIOUS
      <4>1. <<i, j>> \in Earlier(x, y + 1) <=> i < x \/ (i = x /\ j < y + 1)
        BY <1>2
      <4>2. <<i, j>> \in Earlier(x, y) <=> i < x \/ (i = x /\ j < y)
        BY <1>2
      <4> QED
        BY <3>1, <4>1, <4>2
    <3>3. <<x, y>> \in (1..m) \X (1..n)
      BY <1>1, <1>8
    <3>4. Earlier(x, y + 1) = Earlier(x, y) \cup {<<x, y>>}
      BY <1>2, <3>2, <3>3
    <3> QED
      BY <1>1, <1>4, <2>1, <3>4
  <2>2. CASE y = n
    <3>1. \A i \in 1..m, j \in 1..n :
            i < x + 1 \/ (i = x + 1 /\ j < 1) <=> (i < x \/ (i = x /\ j < y)) \/ (i = x /\ j = y)
      BY <1>1, <2>2
    <3>2. \A ij \in (1..m) \X (1..n) : ij \in Earlier(x + 1, 1) <=> ij \in Earlier(x, y) \/ ij = <<x, y>>
      <4> SUFFICES ASSUME NEW i \in 1..m, NEW j \in 1..n
                   PROVE  <<i, j>> \in Earlier(x + 1, 1) <=> <<i, j>> \in Earlier(x, y) \/ <<i, j>> = <<x, y>>
        OBVIOUS
      <4>1. <<i, j>> \in Earlier(x + 1, 1) <=> i < x + 1 \/ (i = x + 1 /\ j < 1)
        BY <1>2
      <4>2. <<i, j>> \in Earlier(x, y) <=> i < x \/ (i = x /\ j < y)
        BY <1>2
      <4> QED
        BY <3>1, <4>1, <4>2
    <3>3. <<x, y>> \in (1..m) \X (1..n)
      BY <1>1, <1>8
    <3>4. Earlier(x + 1, 1) = Earlier(x, y) \cup {<<x, y>>}
      BY <1>2, <3>2, <3>3
    <3> QED
      BY <1>1, <1>4, <2>2, <3>4
  <2> QED
    BY <1>1, <1>8, <2>1, <2>2
<1>9. ASSUME ~(x <= m /\ y <= n) PROVE Earlier(x, y) = Pairs(hop)
  <2>1. \A ij \in (1..m) \X (1..n) : ij[1] < x
    BY <1>1, <1>5, <1>9
  <2> QED
    BY <1>2, <1>6, <2>1
<1> QED
  BY <1>1, <1>3, <1>7, <1>8, <1>9 DEF x, y, n

\* Nothing the values are made of changes after the scan.
LEMMA ValuesStay ==
  ASSUME UNCHANGED <<pools, req, direct, hops>>
  PROVE  /\ AllRoutesEmpty' = AllRoutesEmpty
         /\ DirectUpTo(next - 1)' = DirectUpTo(next' - 1)
         /\ DirectUpTo(Len(direct))' = DirectUpTo(Len(direct))
         /\ Closed' = UNION {PairValues(m, Pairs(m)) : m \in Mint \ todo'}
         /\ UNCHANGED hop => PairValues(hop, Earlier(pair[1], pair[2]))'
                               = PairValues(hop, Earlier(pair'[1], pair'[2]))
<1>1. \A i : DirectValue(i)' = DirectValue(i)
  BY DEF DirectValue, Calculated, ZeroForOne, In
<1>2. \A m, i, j : PairValue(m, i, j)' = PairValue(m, i, j)
  BY DEF PairValue, HopValue, Calculated, ZeroForOne, In
<1>3. \A m : Pairs(m)' = Pairs(m)
  BY DEF Pairs
<1>4. DirectUpTo(next - 1)' = DirectUpTo(next' - 1)
  BY <1>1 DEF DirectUpTo
<1>5. DirectUpTo(Len(direct))' = DirectUpTo(Len(direct))
  BY <1>1 DEF DirectUpTo
<1>6. Closed' = UNION {PairValues(m, Pairs(m)) : m \in Mint \ todo'}
  BY <1>2, <1>3 DEF Closed, PairValues
<1>7. ASSUME UNCHANGED hop
      PROVE  PairValues(hop, Earlier(pair[1], pair[2]))' = PairValues(hop, Earlier(pair'[1], pair'[2]))
  <2>1. Earlier(pair[1], pair[2])' = Earlier(pair'[1], pair'[2])
    BY <1>7 DEF Earlier, Pairs
  <2>2. \A i, j : PairValue(hop, i, j)' = PairValue(hop, i, j)
    BY <1>7 DEF PairValue, HopValue, Calculated, ZeroForOne, In
  <2> QED
    BY <1>7, <2>1, <2>2 DEF PairValues
<1>8. AllRoutesEmpty' = AllRoutesEmpty
  BY DEF AllRoutesEmpty
<1> QED
  BY <1>4, <1>5, <1>6, <1>7, <1>8

\* Before anything is priced there is nothing to rank.
LEMMA InitRanked == Init => Ranked
BY DEF Init, Ranked

\* A step of the direct loop that does not fail ranks one more pool.
LEMMA RankDirectRanks == RankInv /\ RankDirect => Ranked'
<1> SUFFICES ASSUME RankInv, RankDirect PROVE Ranked'
  OBVIOUS
<1> DEFINE p == direct[next]
<1>1. /\ pc = "direct" /\ next \in 1..Len(direct) /\ Len(direct) \in Nat
      /\ UNCHANGED <<pools, req, direct, hops>>
  BY DEF RankDirect, RankInv, TypeOK
<1>2. CASE Calculated(pools, p, req.input, req.amount) = Failed
  BY <1>2 DEF RankDirect, Ranked
<1>3. CASE Calculated(pools, p, req.input, req.amount) # Failed
  <2>1. pc' = "direct" /\ next' = next + 1 /\ best' = Better(best, DirectRoute(p))
    BY <1>1, <1>3 DEF RankDirect
  <2>2. AnotherAmount(DirectRoute(p)) = DirectValue(next) /\ DirectValue(next) \in Amount
    BY <1>1, <1>3, DirectAmount DEF RankInv
  <2>3. IsBest(AnotherAmount(Better(best, DirectRoute(p))), DirectUpTo(next - 1) \cup {DirectValue(next)})
    <3>1. IsBest(AnotherAmount(best), DirectUpTo(next - 1))
      BY <1>1 DEF RankInv, Ranked
    <3>2. IsBest(AnotherAmount(DirectRoute(p)), {DirectValue(next)})
      BY <2>2, OneIsBest
    <3> QED
      BY <3>1, <3>2, BetterAmount
  <2>4. DirectUpTo(next) = DirectUpTo(next - 1) \cup {DirectValue(next)}
    <3>1. 1..next = (1..(next - 1)) \cup {next}
      BY <1>1
    <3> QED
      BY <3>1 DEF DirectUpTo
  <2>5. next' - 1 = next /\ next' <= Len(direct') + 1
    BY <1>1, <2>1
  <2>6. DirectUpTo(next - 1)' = DirectUpTo(next)
    BY <1>1, <2>5, ValuesStay
  <2>7. IsBest(AnotherAmount(best), DirectUpTo(next - 1))'
    BY <2>1, <2>3, <2>4, <2>6 DEF IsBest, AnotherAmount
  <2>8. ~AllRoutesEmpty'
    BY <1>1, ValuesStay DEF RankInv, Ranked
  <2> QED
    BY <2>1, <2>5, <2>7, <2>8 DEF Ranked
<1> QED
  BY <1>2, <1>3

\* Before the first bucket is opened, none that has a pair counts as closed.
LEMMA FinishDirectRanks == RankInv /\ FinishDirect => Ranked'
<1> SUFFICES ASSUME RankInv, FinishDirect PROVE Ranked'
  OBVIOUS
<1>1. /\ pc = "direct" /\ pc' = "hops" /\ next > Len(direct)
      /\ todo' = {m \in Mint : hops[m] # EmptyItem}
      /\ UNCHANGED <<pools, req, direct, hops, best>>
  BY DEF FinishDirect
<1>2. IsBest(AnotherAmount(best), DirectUpTo(Len(direct)))
  <2>1. next - 1 = Len(direct)
    <3>1. next \in Nat /\ Len(direct) \in Nat
      BY DEF RankInv, TypeOK
    <3>2. next <= Len(direct) + 1
      BY <1>1 DEF RankInv, Ranked
    <3> QED
      BY <1>1, <3>1, <3>2
  <2> QED
    BY <1>1, <2>1 DEF RankInv, Ranked
<1>3. Closed' = {}
  <2>1. ASSUME NEW m \in Mint \ todo' PROVE PairValues(m, Pairs(m)) = {}
    <3>1. hops[m] = EmptyItem
      BY <1>1, <2>1
    <3>2. Pairs(m) = {}
      BY <3>1 DEF Pairs, EmptyItem
    <3> QED
      BY <3>2 DEF PairValues
  <2> QED
    BY <1>1, <2>1, ValuesStay
<1>4. IsBest(AnotherAmount(best), DirectUpTo(Len(direct)) \cup Closed)'
  <2>1. AnotherAmount(best)' = AnotherAmount(best)
    BY <1>1 DEF AnotherAmount
  <2>2. (DirectUpTo(Len(direct)) \cup Closed)' = DirectUpTo(Len(direct))
    BY <1>1, <1>3, ValuesStay
  <2> QED
    BY <1>2, <2>1, <2>2 DEF IsBest
<1>5. ~AllRoutesEmpty'
  BY <1>1, ValuesStay DEF RankInv, Ranked
<1> QED
  BY <1>1, <1>4, <1>5 DEF Ranked

\* An opened bucket has nothing priced yet.
LEMMA OpenHopRanks ==
  ASSUME RankInv, NEW m \in Mint, OpenHop(m)
  PROVE  Ranked'
<1>1. /\ pc = "hops" /\ pc' = "pairs" /\ m \in todo /\ hop' = m /\ pair' = <<1, 1>>
      /\ hop_best' = DefaultRoute
      /\ UNCHANGED <<pools, req, direct, hops, best, todo>>
  BY DEF OpenHop
<1>2. IsBest(AnotherAmount(best), DirectUpTo(Len(direct)) \cup Closed)'
  <2>1. AnotherAmount(best)' = AnotherAmount(best)
    BY <1>1 DEF AnotherAmount
  <2>2. (DirectUpTo(Len(direct)) \cup Closed)' = DirectUpTo(Len(direct)) \cup Closed
    BY <1>1, ValuesStay DEF Closed
  <2>3. IsBest(AnotherAmount(best), DirectUpTo(Len(direct)) \cup Closed)
    BY <1>1 DEF RankInv, Ranked
  <2> QED
    BY <2>1, <2>2, <2>3 DEF IsBest
<1>3. IsBest(AnotherAmount(hop_best), PairValues(hop, Earlier(pair[1], pair[2])))'
  <2>1. Earlier(pair[1], pair[2])' = {}
    <3>1. pair'[1] = 1 /\ pair'[2] = 1
      BY <1>1
    <3>2. \A ij \in Pairs(hop)' : ~(ij[1] < 1 \/ (ij[1] = 1 /\ ij[2] < 1))
      BY DEF Pairs
    <3> QED
      BY <3>1, <3>2 DEF Earlier
  <2>2. PairValues(hop, Earlier(pair[1], pair[2]))' = {}
    BY <2>1 DEF PairValues
  <2>3. AnotherAmount(hop_best)' = 0
    BY <1>1, DefaultIsWorthless DEF AnotherAmount
  <2> QED
    BY <2>2, <2>3 DEF IsBest
<1>4. ~AllRoutesEmpty'
  BY <1>1, ValuesStay DEF RankInv, Ranked
<1> QED
  BY <1>1, <1>2, <1>3, <1>4 DEF Ranked

\* Closing a bucket adds all of its pairs to what has been priced.
LEMMA CloseHopRanks == RankInv /\ CloseHop => Ranked'
<1> SUFFICES ASSUME RankInv, CloseHop PROVE Ranked'
  OBVIOUS
<1>1. /\ pc = "pairs" /\ ~PairLeft /\ pc' = "hops"
      /\ best' = Better(best, hop_best) /\ todo' = todo \ {hop}
      /\ UNCHANGED <<pools, req, direct, hops>>
  BY DEF CloseHop
<1>2. TypeOK /\ hop \in Mint /\ hop \in todo /\ (pair[2] = 1 \/ pair[2] <= Len(hops[hop].outs))
  BY <1>1 DEF RankInv, Ranked, TypeOK
<1>3. IsBest(AnotherAmount(best), DirectUpTo(Len(direct)) \cup Closed)
  BY <1>1 DEF RankInv, Ranked
<1>4. IsBest(AnotherAmount(hop_best), PairValues(hop, Pairs(hop)))
  BY <1>1, <1>2, PairsInOrder DEF RankInv, Ranked
<1>5. Closed' = Closed \cup PairValues(hop, Pairs(hop))
  <2>1. Mint \ todo' = (Mint \ todo) \cup {hop}
    BY <1>1, <1>2
  <2>2. Closed' = UNION {PairValues(m, Pairs(m)) : m \in Mint \ todo'}
    BY <1>1, ValuesStay
  <2> QED
    BY <2>1, <2>2 DEF Closed
<1>6. IsBest(AnotherAmount(Better(best, hop_best)),
             (DirectUpTo(Len(direct)) \cup Closed) \cup PairValues(hop, Pairs(hop)))
  BY <1>3, <1>4, BetterAmount
<1>7. IsBest(AnotherAmount(best), DirectUpTo(Len(direct)) \cup Closed)'
  <2>1. AnotherAmount(best)' = AnotherAmount(Better(best, hop_best))
    BY <1>1 DEF AnotherAmount
  <2>2. (DirectUpTo(Len(direct)) \cup Closed)'
          = (DirectUpTo(Len(direct)) \cup Closed) \cup PairValues(hop, Pairs(hop))
    BY <1>1, <1>5, ValuesStay
  <2> QED
    BY <1>6, <2>1, <2>2 DEF IsBest
<1>8. ~AllRoutesEmpty'
  BY <1>1, ValuesStay DEF RankInv, Ranked
<1> QED
  BY <1>1, <1>7, <1>8 DEF Ranked

\* A pair that has been priced joins those before it.
LEMMA KeepPairRanks ==
  ASSUME RankInv, pc = "pairs", PairLeft, NEW r1, NEW r2, KeepPair(r1, r2),
         UNCHANGED <<pools, req, next, direct, hops, todo, hop, best>>,
         AnotherAmount([pools |-> <<Pool1, Pool2>>, results |-> <<r1, r2>>])
           = PairValue(hop, pair[1], pair[2]),
         PairValue(hop, pair[1], pair[2]) \in Amount
  PROVE  Ranked'
<1> DEFINE route == [pools |-> <<Pool1, Pool2>>, results |-> <<r1, r2>>]
           value == PairValue(hop, pair[1], pair[2])
<1>1. hop_best' = Better(hop_best, route) /\ pair' = NextPair /\ pc' = "pairs"
  BY DEF KeepPair
<1>2. /\ hop \in todo /\ (pair[2] = 1 \/ pair[2] <= Len(hops[hop].outs))
      /\ IsBest(AnotherAmount(hop_best), PairValues(hop, Earlier(pair[1], pair[2])))
      /\ TypeOK
  BY DEF RankInv, Ranked
<1>3. /\ Earlier(NextPair[1], NextPair[2]) = Earlier(pair[1], pair[2]) \cup {pair}
      /\ NextPair[2] = 1 \/ NextPair[2] <= Len(hops[hop].outs)
  BY <1>2, PairsInOrder
<1>4. PairValues(hop, Earlier(NextPair[1], NextPair[2]))
        = PairValues(hop, Earlier(pair[1], pair[2])) \cup {value}
  BY <1>3 DEF PairValues
<1>5. IsBest(AnotherAmount(Better(hop_best, route)), PairValues(hop, Earlier(pair[1], pair[2])) \cup {value})
  <2>1. IsBest(AnotherAmount(route), {value})
    BY OneIsBest
  <2> HIDE DEF route, value
  <2> QED
    BY <1>2, <2>1, BetterAmount
<1>6. IsBest(AnotherAmount(hop_best), PairValues(hop, Earlier(pair[1], pair[2])))'
  <2>1. AnotherAmount(hop_best)' = AnotherAmount(Better(hop_best, route))
    BY <1>1 DEF AnotherAmount
  <2>2. PairValues(hop, Earlier(pair[1], pair[2]))' = PairValues(hop, Earlier(NextPair[1], NextPair[2]))
    BY <1>1, ValuesStay
  <2> HIDE DEF route, value
  <2> QED
    BY <1>4, <1>5, <2>1, <2>2 DEF IsBest
<1>7. IsBest(AnotherAmount(best), DirectUpTo(Len(direct)) \cup Closed)'
  <2>1. AnotherAmount(best)' = AnotherAmount(best)
    BY DEF AnotherAmount
  <2>2. (DirectUpTo(Len(direct)) \cup Closed)' = DirectUpTo(Len(direct)) \cup Closed
    BY ValuesStay DEF Closed
  <2>3. IsBest(AnotherAmount(best), DirectUpTo(Len(direct)) \cup Closed)
    BY DEF RankInv, Ranked
  <2> QED
    BY <2>1, <2>2, <2>3 DEF IsBest
<1>8. ~AllRoutesEmpty'
  BY ValuesStay DEF RankInv, Ranked
<1>9. hop' \in todo' /\ (pair'[2] = 1 \/ pair'[2] <= Len(hops'[hop'].outs))
  BY <1>1, <1>2, <1>3
<1> QED
  BY <1>1, <1>6, <1>7, <1>8, <1>9 DEF Ranked

\* The two nested loops.
LEMMA RankPairRanks == RankInv /\ (RankPairBaseInput \/ RankPairBaseOutput) => Ranked'
<1> SUFFICES ASSUME RankInv, RankPairBaseInput \/ RankPairBaseOutput PROVE Ranked'
  OBVIOUS
<1>1. CASE RankPairBaseInput
  <2> DEFINE r1 == SwapResult(pools, Pool1, req.input, TRUE, req.amount)
             r2 == SwapResult(pools, Pool2, hop, TRUE, r1.calculated)
  <2>1. CASE StopPair("failed") \/ StopPair("panicked")
    BY <2>1 DEF StopPair, Ranked
  <2>2. CASE r1.calculated # Failed /\ r2.calculated # Failed /\ KeepPair(r1, r2)
    <3>1. /\ pc = "pairs" /\ PairLeft /\ req.base_input
          /\ UNCHANGED <<pools, req, next, direct, hops, todo, hop, best>>
      BY <1>1 DEF RankPairBaseInput
    <3>2. r1 = SwapResult(pools, Pool1, req.input, TRUE, req.amount)
            /\ r2 = SwapResult(pools, Pool2, hop, TRUE, r1.calculated)
      OBVIOUS
    <3> HIDE DEF r1, r2
    <3>3. /\ AnotherAmount([pools |-> <<Pool1, Pool2>>, results |-> <<r1, r2>>])
               = PairValue(hop, pair[1], pair[2])
          /\ PairValue(hop, pair[1], pair[2]) \in Amount
      BY <2>2, <3>1, <3>2, PairAmount DEF RankInv
    <3> QED
      BY <2>2, <3>1, <3>3, KeepPairRanks
  <2> QED
    BY <1>1, <2>1, <2>2 DEF RankPairBaseInput
<1>2. CASE RankPairBaseOutput
  <2> DEFINE r2 == SwapResult(pools, Pool2, hop, FALSE, req.amount)
             r1 == SwapResult(pools, Pool1, req.input, FALSE, r2.calculated)
  <2>1. CASE StopPair("failed")
    BY <2>1 DEF StopPair, Ranked
  <2>2. CASE r1.calculated # Failed /\ r2.calculated # Failed /\ KeepPair(r1, r2)
    <3>1. /\ pc = "pairs" /\ PairLeft /\ ~req.base_input
          /\ UNCHANGED <<pools, req, next, direct, hops, todo, hop, best>>
      BY <1>2 DEF RankPairBaseOutput
    <3>2. r2 = SwapResult(pools, Pool2, hop, FALSE, req.amount)
            /\ r1 = SwapResult(pools, Pool1, req.input, FALSE, r2.calculated)
      OBVIOUS
    <3> HIDE DEF r1, r2
    <3>3. /\ AnotherAmount([pools |-> <<Pool1, Pool2>>, results |-> <<r1, r2>>])
               = PairValue(hop, pair[1], pair[2])
          /\ PairValue(hop, pair[1], pair[2]) \in Amount
      BY <2>2, <3>1, <3>2, PairAmount DEF RankInv
    <3> QED
      BY <2>2, <3>1, <3>3, KeepPairRanks
  <2> QED
    BY <1>2, <2>1, <2>2 DEF RankPairBaseOutput
<1> QED
  BY <1>1, <1>2

\* Every step leaves the best of what it has priced.
LEMMA NextRanked == RankInv /\ [Next]_vars => Ranked'
<1> SUFFICES ASSUME RankInv, [Next]_vars PROVE Ranked'
  OBVIOUS
<1>1. CASE ScanDirect \/ ScanInputSide \/ ScanOutputSide \/ ScanUnrelated
  <2>1. pc = "scan" /\ pc' = "scan" /\ UNCHANGED best
    BY <1>1 DEF ScanDirect, ScanInputSide, ScanOutputSide, ScanUnrelated, ScanStep, Scanning
  <2>2. best' = DefaultRoute
    BY <2>1 DEF RankInv, Ranked
  <2> QED
    BY <2>1, <2>2 DEF Ranked, DefaultRoute
<1>2. CASE FinishScan
  <2>1. /\ pc = "scan" /\ pc' = IF AllRoutesEmpty THEN "no_route" ELSE "direct"
        /\ next' = 1 /\ UNCHANGED <<pools, req, direct, hops, best>>
    BY <1>2 DEF FinishScan
  <2>2. CASE AllRoutesEmpty
    BY <2>1, <2>2 DEF Ranked
  <2>3. CASE ~AllRoutesEmpty
    <3>1. AnotherAmount(best)' = 0
      BY <2>1, DefaultIsWorthless DEF RankInv, Ranked, AnotherAmount
    <3>2. DirectUpTo(next - 1)' = {}
      BY <2>1 DEF DirectUpTo
    <3>3. next' <= Len(direct') + 1
      BY <2>1 DEF RankInv, TypeOK
    <3>4. ~AllRoutesEmpty'
      BY <2>1, <2>3, ValuesStay
    <3> QED
      BY <2>1, <2>3, <3>1, <3>2, <3>3, <3>4 DEF Ranked, IsBest
  <2> QED
    BY <2>2, <2>3
<1>3. CASE Reply
  BY <1>3 DEF Reply, Ranked
<1>4. CASE UNCHANGED vars
  <2>1. Ranked
    BY DEF RankInv
  <2>2. /\ UNCHANGED <<pools, req, pc, next, direct, hops, todo, hop, pair, hop_best, best>>
    BY <1>4 DEF vars
  <2>3. /\ AllRoutesEmpty' = AllRoutesEmpty
        /\ DirectUpTo(next - 1)' = DirectUpTo(next - 1)
        /\ DirectUpTo(Len(direct))' = DirectUpTo(Len(direct))
        /\ Closed' = Closed
        /\ PairValues(hop, Earlier(pair[1], pair[2]))' = PairValues(hop, Earlier(pair[1], pair[2]))
    BY <2>2, ValuesStay DEF Closed
  <2>4. AnotherAmount(best)' = AnotherAmount(best) /\ AnotherAmount(hop_best)' = AnotherAmount(hop_best)
    BY <2>2 DEF AnotherAmount
  <2> QED
    BY <2>1, <2>2, <2>3, <2>4 DEF Ranked, IsBest, DefaultRoute
<1> QED
  BY <1>1, <1>2, <1>3, <1>4, RankDirectRanks, FinishDirectRanks, OpenHopRanks, CloseHopRanks,
     RankPairRanks DEF Next, Answered

\* The best route is the maximum of what has been priced, in every reachable state.
LEMMA RankInvariant == AliasFree /\ Spec => []RankInv
<1>1. AliasFree /\ [Next]_vars => AliasFree'
  BY DEF AliasFree, Next, vars, ScanDirect, ScanInputSide, ScanOutputSide, ScanUnrelated,
         ScanStep, FinishScan, RankDirect, FinishDirect, OpenHop, RankPairBaseInput, RankPairBaseOutput,
         CloseHop, Reply, Answered
<1>2. RankInv /\ [Next]_vars => RankInv'
  BY <1>1, NextType, ScanExactNext, NextRanked DEF RankInv
<1>3. AliasFree /\ Init => RankInv
  BY InitType, ScanExactInit, InitRanked DEF RankInv
<1> QED
  BY <1>2, <1>3, PTL DEF Spec

-----------------------------------------------------------------------------
(* The answer                                                              *)

NothingTrades == \A p \in Pool : ~Trades(pools, p, In(req)) /\ ~Trades(pools, p, Out(req))

\* A request that trades at no failing pool is answered by the largest amount.
LEMMA VerdictIs ==
  BQ!Verdict(pools, req) =
    IF NothingTrades THEN [status |-> "no_route", amount |-> 0]
    ELSE IF Failed \in RouteValues(pools, req) THEN [status |-> "failed", amount |-> 0]
    ELSE [status |-> "ok", amount |-> BQ!Max(RouteValues(pools, req) \cup {0})]
<1>1. BQ!DirectPools(pools, req) = DirectPools(pools, req)
  BY DEF BQ!DirectPools, DirectPools, BQ!Pool, Pool, BQ!Joins, Joins, BQ!In, In, BQ!Out, Out,
         BQ!Canon, Canon
<1>2. BQ!HopPairs(pools, req) = HopPairs(pools, req)
  BY DEF BQ!HopPairs, HopPairs, BQ!Pool, Pool, BQ!Joins, Joins, BQ!In, In, BQ!Out, Out,
         BQ!Canon, Canon
<1>3. \A p, m, n : BQ!Calculated(pools, p, m, n) = Calculated(pools, p, m, n)
  BY DEF BQ!Calculated, Calculated, BQ!ZeroForOne, ZeroForOne
<1>4. BQ!In(req) = In(req) /\ BQ!Out(req) = Out(req) /\ BQ!Pool = Pool
  BY DEF BQ!In, In, BQ!Out, Out, BQ!Canon, Canon, BQ!Pool, Pool
<1>5. \A h : BQ!HopValue(pools, req, h) = HopValue(pools, req, h)
  BY <1>3, <1>4 DEF BQ!HopValue, HopValue
<1>6. BQ!RouteValues(pools, req) = RouteValues(pools, req)
  BY <1>1, <1>2, <1>3, <1>4, <1>5 DEF BQ!RouteValues, RouteValues
<1>7. (\A p \in BQ!Pool : ~BQ!Trades(pools, p, BQ!In(req)) /\ ~BQ!Trades(pools, p, BQ!Out(req)))
        <=> NothingTrades
  BY <1>4 DEF BQ!Trades, Trades, NothingTrades
<1> QED
  BY <1>6, <1>7 DEF BQ!Verdict

\* The best of all the routes' amounts is BestQuote's maximum of them.
LEMMA BestIsMax ==
  ASSUME NEW v, NEW S, IsBest(v, S)
  PROVE  /\ BQ!Max(S \cup {0}) = v
         /\ Failed \notin S
<1>1. /\ S \cup {0} \subseteq Nat /\ v \in S \cup {0} /\ \A x \in S \cup {0} : v >= x
      /\ Failed \notin S
  <2>1. v \in S \cup {0} /\ \A x \in S : x \in Amount /\ x <= v
    BY DEF IsBest
  <2>2. \A x \in S : x \in Nat /\ x # Failed
    BY <2>1, PoolSnapshotAssumption
  <2>3. v \in Nat
    BY <2>1, <2>2
  <2>4. \A x \in S \cup {0} : x \in Nat /\ v >= x
    BY <2>1, <2>2, <2>3
  <2> QED
    BY <2>1, <2>2, <2>4
<1>2. ASSUME NEW w \in S \cup {0}, \A x \in S \cup {0} : w >= x PROVE w = v
  BY <1>1, <1>2
<1>3. BQ!Max(S \cup {0}) = CHOOSE x \in S \cup {0} : \A y \in S \cup {0} : x >= y
  BY DEF BQ!Max
<1> QED
  BY <1>1, <1>2, <1>3

\* quote_price_impl refuses a search that is empty, which is one where nothing trades.
LEMMA EmptyIsNothing ==
  ASSUME TypeOK, ScanExact, ScannedTo = NPools
  PROVE  AllRoutesEmpty <=> NothingTrades
<1>1. 1..ScannedTo = Pool
  BY DEF Pool
<1>2. Range(direct) = {p \in Pool : IsDirect(p)}
  BY <1>1 DEF ScanExact
<1>3. \A m \in Mint :
        /\ Range(hops[m].ins)  = {p \in Pool : InputSide(p)  /\ Other(pools, p, In(req))  = m}
        /\ Range(hops[m].outs) = {p \in Pool : OutputSide(p) /\ Other(pools, p, Out(req)) = m}
  BY <1>1 DEF ScanExact
<1>4. \A p \in Pool : /\ In(req) \in Mint /\ Out(req) \in Mint
                      /\ Other(pools, p, In(req)) \in Mint /\ Other(pools, p, Out(req)) \in Mint
  BY PoolSnapshotAssumption DEF Other, PoolInfo, TypeOK, Request, In, Out, Canon
<1>5. \A s \in Seq(Pool) : s = <<>> <=> Range(s) = {}
  <2>1. ASSUME NEW s \in Seq(Pool), s # <<>> PROVE Range(s) # {}
    <3>1. 1 \in DOMAIN s
      BY <2>1
    <3> QED
      BY <3>1 DEF Range
  <2>2. Range(<<>>) = {}
    BY DEF Range
  <2> QED
    BY <2>1, <2>2
<1>6. direct \in Seq(Pool) /\ \A m \in Mint : hops[m].ins \in Seq(Pool) /\ hops[m].outs \in Seq(Pool)
  BY DEF TypeOK, RoutePathItem
<1>7. \A m \in Mint : hops[m] = EmptyItem <=> hops[m].ins = <<>> /\ hops[m].outs = <<>>
  BY DEF TypeOK, RoutePathItem, EmptyItem
<1>8. AllRoutesEmpty <=> \A p \in Pool : ~IsDirect(p) /\ ~InputSide(p) /\ ~OutputSide(p)
  <2>1. AllRoutesEmpty <=>
          /\ Range(direct) = {}
          /\ \A m \in Mint : Range(hops[m].ins) = {} /\ Range(hops[m].outs) = {}
    BY <1>5, <1>6, <1>7 DEF AllRoutesEmpty
  <2>2. Range(direct) = {} <=> \A p \in Pool : ~IsDirect(p)
    BY <1>2
  <2>3. (\A m \in Mint : Range(hops[m].ins) = {}) <=> \A p \in Pool : ~InputSide(p)
    BY <1>3, <1>4
  <2>4. (\A m \in Mint : Range(hops[m].outs) = {}) <=> \A p \in Pool : ~OutputSide(p)
    BY <1>3, <1>4
  <2> QED
    BY <2>1, <2>2, <2>3, <2>4
<1>9. \A p : Trades(pools, p, In(req)) \/ Trades(pools, p, Out(req))
               <=> IsDirect(p) \/ InputSide(p) \/ OutputSide(p)
  BY DEF InputSide, OutputSide, IsDirect, Trades
<1> QED
  BY <1>8, <1>9 DEF NothingTrades

\* Every candidate has a value among those of the routes that exist, and the other way.
LEMMA ValuesAreRoutes ==
  ASSUME TypeOK, ScanExact, pc # "scan"
  PROVE  /\ RouteValues(pools, req)
              = DirectUpTo(Len(direct)) \cup UNION {PairValues(m, Pairs(m)) : m \in Mint}
         /\ AllRoutesEmpty <=> NothingTrades
<1>1. CandidatesExact
  BY ScanGivesCandidates
<1>2. {Calculated(pools, p, In(req), req.amount) : p \in DirectPools(pools, req)} = DirectUpTo(Len(direct))
  <2>1. DirectPools(pools, req) = {direct[i] : i \in 1..Len(direct)}
    BY <1>1 DEF CandidatesExact, Range, TypeOK
  <2> QED
    BY <2>1 DEF DirectUpTo, DirectValue
<1>3. \A h : h \in HopPairs(pools, req) <=>
               \E m \in Mint : \E i \in 1..Len(hops[m].ins), j \in 1..Len(hops[m].outs) :
                 h = <<hops[m].ins[i], hops[m].outs[j], m>>
  <2>1. \A m \in Mint : /\ hops[m].ins \in Seq(Pool) /\ hops[m].outs \in Seq(Pool)
    BY DEF TypeOK, RoutePathItem
  <2>2. \A m \in Mint : /\ Range(hops[m].ins) = {hops[m].ins[i] : i \in 1..Len(hops[m].ins)}
                        /\ Range(hops[m].outs) = {hops[m].outs[i] : i \in 1..Len(hops[m].outs)}
    BY <2>1 DEF Range
  <2>3. HopPairs(pools, req) = {h \in Pool \X Pool \X Mint :
          h[1] \in Range(hops[h[3]].ins) /\ h[2] \in Range(hops[h[3]].outs)}
    BY <1>1 DEF CandidatesExact
  <2>4. ASSUME NEW h \in HopPairs(pools, req)
        PROVE  \E m \in Mint : \E i \in 1..Len(hops[m].ins), j \in 1..Len(hops[m].outs) :
                 h = <<hops[m].ins[i], hops[m].outs[j], m>>
    <3>1. PICK p \in Pool, q \in Pool, m \in Mint : h = <<p, q, m>>
      BY <2>3
    <3>2. p \in Range(hops[m].ins) /\ q \in Range(hops[m].outs)
      BY <2>3, <3>1
    <3>3. PICK i \in 1..Len(hops[m].ins) : p = hops[m].ins[i]
      BY <2>2, <3>2
    <3>4. PICK j \in 1..Len(hops[m].outs) : q = hops[m].outs[j]
      BY <2>2, <3>2
    <3>5. h = <<hops[m].ins[i], hops[m].outs[j], m>>
      BY <3>1, <3>3, <3>4
    <3> QED
      BY <3>5
  <2>5. ASSUME NEW m \in Mint, NEW i \in 1..Len(hops[m].ins), NEW j \in 1..Len(hops[m].outs)
        PROVE  <<hops[m].ins[i], hops[m].outs[j], m>> \in HopPairs(pools, req)
    <3>1. hops[m].ins[i] \in Pool /\ hops[m].outs[j] \in Pool
      BY <2>1
    <3>2. hops[m].ins[i] \in Range(hops[m].ins) /\ hops[m].outs[j] \in Range(hops[m].outs)
      BY <2>2
    <3> QED
      BY <2>3, <3>1, <3>2
  <2> QED
    BY <2>4, <2>5
<1>4. {HopValue(pools, req, h) : h \in HopPairs(pools, req)} = UNION {PairValues(m, Pairs(m)) : m \in Mint}
  <2>1. ASSUME NEW h \in HopPairs(pools, req)
        PROVE  HopValue(pools, req, h) \in UNION {PairValues(m, Pairs(m)) : m \in Mint}
    <3> PICK m \in Mint : \E i \in 1..Len(hops[m].ins), j \in 1..Len(hops[m].outs) :
                            h = <<hops[m].ins[i], hops[m].outs[j], m>>
      BY <1>3
    <3>1. PICK i \in 1..Len(hops[m].ins), j \in 1..Len(hops[m].outs) :
                 h = <<hops[m].ins[i], hops[m].outs[j], m>>
      OBVIOUS
    <3>2. HopValue(pools, req, h) = PairValue(m, i, j) /\ <<i, j>> \in Pairs(m)
      BY <3>1 DEF PairValue, Pairs
    <3>3. HopValue(pools, req, h) \in PairValues(m, Pairs(m))
      BY <3>2 DEF PairValues
    <3> QED
      BY <3>3
  <2>2. ASSUME NEW m \in Mint, NEW v \in PairValues(m, Pairs(m))
        PROVE  v \in {HopValue(pools, req, h) : h \in HopPairs(pools, req)}
    <3>1. PICK i \in 1..Len(hops[m].ins), j \in 1..Len(hops[m].outs) : v = PairValue(m, i, j)
      BY DEF PairValues, Pairs
    <3>2. <<hops[m].ins[i], hops[m].outs[j], m>> \in HopPairs(pools, req)
      BY <1>3
    <3> QED
      BY <3>1, <3>2 DEF PairValue
  <2> QED
    BY <2>1, <2>2
<1>5. ScannedTo = NPools
  BY DEF ScannedTo
<1> QED
  BY <1>2, <1>4, <1>5, EmptyIsNothing DEF RouteValues

-----------------------------------------------------------------------------
(* The refinement                                                          *)

\* A step that ends the request with the verdict is BestQuote's answer.
LEMMA AnswerStep ==
  ASSUME pc \notin Terminal, pc' \in Terminal, UNCHANGED <<pools, req>>,
         BQ!Verdict(pools, req)
           = [status |-> pc', amount |-> IF pc' = "ok" THEN AnotherAmount(best)' ELSE 0]
  PROVE  BQ!Next
BY DEF BQ!Next, BQ!Answer, BQ!Pending, Terminal, AnotherAmount

\* And one that does not end it is none.
LEMMA WaitStep ==
  ASSUME pc \notin Terminal, pc' \notin Terminal, UNCHANGED <<pools, req>>
  PROVE  UNCHANGED BQ!quoteVars
BY DEF BQ!quoteVars, Terminal

\* An error of one pair or pool is an error of a route that exists.
LEMMA FailureStep ==
  ASSUME RankInv, pc \in {"direct", "pairs"}, pc' = "failed", UNCHANGED <<pools, req>>,
         Failed \in RouteValues(pools, req)
  PROVE  BQ!Next
<1>1. ~NothingTrades
  BY ValuesAreRoutes DEF RankInv, Ranked
<1>2. BQ!Verdict(pools, req) = [status |-> "failed", amount |-> 0]
  BY <1>1, VerdictIs
<1> QED
  BY <1>2, AnswerStep DEF Terminal

\* A scan that left no candidate answers no_route; any other goes on waiting.
LEMMA FinishScanStep == RankInv /\ FinishScan => BQ!Next \/ UNCHANGED BQ!quoteVars
<1> SUFFICES ASSUME RankInv, FinishScan PROVE BQ!Next \/ UNCHANGED BQ!quoteVars
  OBVIOUS
<1>1. /\ pc = "scan" /\ next \notin Pool /\ UNCHANGED <<pools, req>>
      /\ pc' = IF AllRoutesEmpty THEN "no_route" ELSE "direct"
  BY DEF FinishScan
<1>2. CASE AllRoutesEmpty
  <2>1. ScannedTo = NPools
    <3>1. next \in Nat \ {0} /\ next <= NPools + 1 /\ NPools \in Nat
      BY <1>1, PoolSnapshotAssumption DEF RankInv, TypeOK, ScanExact
    <3> QED
      BY <1>1, <3>1 DEF ScannedTo, Pool
  <2>2. NothingTrades
    BY <1>2, <2>1, EmptyIsNothing DEF RankInv
  <2>3. BQ!Verdict(pools, req) = [status |-> "no_route", amount |-> 0]
    BY <2>2, VerdictIs
  <2> QED
    BY <1>1, <1>2, <2>3, AnswerStep DEF Terminal
<1>3. CASE ~AllRoutesEmpty
  BY <1>1, <1>3, WaitStep DEF Terminal
<1> QED
  BY <1>2, <1>3

\* A direct route whose pricing fails answers failed, and BestQuote may: it is one of the routes.
LEMMA RankDirectStep == RankInv /\ RankDirect => BQ!Next \/ UNCHANGED BQ!quoteVars
<1> SUFFICES ASSUME RankInv, RankDirect PROVE BQ!Next \/ UNCHANGED BQ!quoteVars
  OBVIOUS
<1>1. pc = "direct" /\ next \in 1..Len(direct) /\ UNCHANGED <<pools, req>>
  BY DEF RankDirect, RankInv, TypeOK
<1>2. CASE Calculated(pools, direct[next], req.input, req.amount) = Failed
  <2>1. DirectValue(next) = Failed
    BY <1>2, AskedMint DEF DirectValue, RankInv
  <2>2. Failed \in RouteValues(pools, req)
    BY <1>1, <2>1, ValuesAreRoutes DEF RankInv, DirectUpTo
  <2> QED
    BY <1>1, <1>2, <2>2, FailureStep DEF RankDirect
<1>3. CASE Calculated(pools, direct[next], req.input, req.amount) # Failed
  BY <1>1, <1>3, WaitStep DEF RankDirect, Terminal
<1> QED
  BY <1>2, <1>3

\* So does a pair whose pricing fails; the assert_eq never aborts the handler.
LEMMA RankPairStep ==
  RankInv /\ (RankPairBaseInput \/ RankPairBaseOutput) => BQ!Next \/ UNCHANGED BQ!quoteVars
<1> SUFFICES ASSUME RankInv, RankPairBaseInput \/ RankPairBaseOutput
             PROVE  BQ!Next \/ UNCHANGED BQ!quoteVars
  OBVIOUS
<1>1. pc = "pairs" /\ PairLeft /\ UNCHANGED <<pools, req>> /\ TypeOK /\ AliasFree
  BY DEF RankPairBaseInput, RankPairBaseOutput, RankInv
<1>2. PairValue(hop, pair[1], pair[2]) \in RouteValues(pools, req)
  <2>1. pair \in Pairs(hop) /\ hop \in Mint
    <3>1. /\ pair \in (Nat \ {0}) \X (Nat \ {0}) /\ hop \in Mint
          /\ Len(hops[hop].ins) \in Nat /\ Len(hops[hop].outs) \in Nat
      BY <1>1 DEF TypeOK, RoutePathItem
    <3> QED
      BY <1>1, <3>1 DEF PairLeft, Pairs
  <2>2. PairValue(hop, pair[1], pair[2]) \in PairValues(hop, Pairs(hop))
    BY <2>1 DEF PairValues
  <2>3. PairValue(hop, pair[1], pair[2]) \in UNION {PairValues(m, Pairs(m)) : m \in Mint}
    BY <2>1, <2>2
  <2> QED
    BY <1>1, <2>3, ValuesAreRoutes DEF RankInv
<1>3. CASE RankPairBaseInput
  <2> DEFINE r1 == SwapResult(pools, Pool1, req.input, TRUE, req.amount)
             r2 == SwapResult(pools, Pool2, hop, TRUE, r1.calculated)
  <2>1. CASE pc' = "failed"
    <3>1. r1.calculated = Failed \/ r2.calculated = Failed
      BY <1>1, <1>3, <2>1 DEF RankPairBaseInput, StopPair, KeepPair
    <3>2. req.base_input /\ r1 = SwapResult(pools, Pool1, req.input, TRUE, req.amount)
            /\ r2 = SwapResult(pools, Pool2, hop, TRUE, r1.calculated)
      BY <1>3 DEF RankPairBaseInput
    <3> HIDE DEF r1, r2
    <3>3. PairValue(hop, pair[1], pair[2]) = Failed
      BY <1>1, <3>1, <3>2, PairAmount
    <3> QED
      BY <1>1, <1>2, <2>1, <3>3, FailureStep
  <2>2. pc' # "panicked"
    <3>1. ScanExact /\ pc = "pairs" /\ PairLeft
      BY <1>1 DEF RankInv
    <3>2. r1.output = hop
      BY <1>1, <3>1, PairIsPath
    <3> QED
      BY <1>1, <1>3, <3>2 DEF RankPairBaseInput, StopPair, KeepPair
  <2>3. CASE pc' # "failed"
    <3>1. pc' = "pairs"
      BY <1>1, <1>3, <2>2, <2>3 DEF RankPairBaseInput, StopPair, KeepPair
    <3> QED
      BY <1>1, <3>1, WaitStep DEF Terminal
  <2> QED
    BY <2>1, <2>3
<1>4. CASE RankPairBaseOutput
  <2> DEFINE r2 == SwapResult(pools, Pool2, hop, FALSE, req.amount)
             r1 == SwapResult(pools, Pool1, req.input, FALSE, r2.calculated)
  <2>1. CASE pc' = "failed"
    <3>1. r1.calculated = Failed \/ r2.calculated = Failed
      BY <1>1, <1>4, <2>1 DEF RankPairBaseOutput, StopPair, KeepPair
    <3>2. ~req.base_input /\ r2 = SwapResult(pools, Pool2, hop, FALSE, req.amount)
            /\ r1 = SwapResult(pools, Pool1, req.input, FALSE, r2.calculated)
      BY <1>4 DEF RankPairBaseOutput
    <3> HIDE DEF r1, r2
    <3>3. PairValue(hop, pair[1], pair[2]) = Failed
      BY <1>1, <3>1, <3>2, PairAmount
    <3> QED
      BY <1>1, <1>2, <2>1, <3>3, FailureStep
  <2>2. CASE pc' # "failed"
    <3>1. pc' = "pairs"
      BY <1>1, <1>4, <2>2 DEF RankPairBaseOutput, StopPair, KeepPair
    <3> QED
      BY <1>1, <3>1, WaitStep DEF Terminal
  <2> QED
    BY <2>1, <2>2
<1> QED
  BY <1>3, <1>4

\* With no bucket left, everything has been priced.
LEMMA ReplyStep == RankInv /\ Reply => BQ!Next
<1> SUFFICES ASSUME RankInv, Reply PROVE BQ!Next
  OBVIOUS
<1>1. pc = "hops" /\ todo = {} /\ pc' = "ok" /\ UNCHANGED <<pools, req, best>>
  BY DEF Reply
<1>2. /\ ~AllRoutesEmpty
      /\ IsBest(AnotherAmount(best), DirectUpTo(Len(direct)) \cup Closed)
  BY <1>1 DEF RankInv, Ranked
<1>3. RouteValues(pools, req) = DirectUpTo(Len(direct)) \cup Closed
  BY <1>1, ValuesAreRoutes DEF RankInv, Closed
<1>4. ~NothingTrades
  BY <1>1, <1>2, ValuesAreRoutes DEF RankInv
<1>5. /\ BQ!Max(RouteValues(pools, req) \cup {0}) = AnotherAmount(best)
      /\ Failed \notin RouteValues(pools, req)
  BY <1>2, <1>3, BestIsMax
<1>6. BQ!Verdict(pools, req) = [status |-> "ok", amount |-> AnotherAmount(best)]
  BY <1>4, <1>5, VerdictIs
<1>7. AnotherAmount(best)' = AnotherAmount(best)
  BY <1>1 DEF AnotherAmount
<1> QED
  BY <1>1, <1>6, <1>7, AnswerStep DEF Terminal

\* Every step of the handler is the one answer of BestQuote, or none.
LEMMA NextStep == RankInv /\ [Next]_vars => [BQ!Next]_(BQ!quoteVars)
<1> SUFFICES ASSUME RankInv, [Next]_vars PROVE BQ!Next \/ UNCHANGED BQ!quoteVars
  OBVIOUS
<1>1. CASE ScanDirect \/ ScanInputSide \/ ScanOutputSide \/ ScanUnrelated
  <2>1. pc = "scan" /\ pc' = "scan" /\ UNCHANGED <<pools, req>>
    BY <1>1 DEF ScanDirect, ScanInputSide, ScanOutputSide, ScanUnrelated, ScanStep, Scanning
  <2> QED
    BY <2>1, WaitStep DEF Terminal
<1>2. CASE FinishDirect \/ CloseHop
  <2>1. pc \in {"direct", "pairs"} /\ pc' = "hops" /\ UNCHANGED <<pools, req>>
    BY <1>2 DEF FinishDirect, CloseHop
  <2> QED
    BY <2>1, WaitStep DEF Terminal
<1>3. ASSUME NEW m \in Mint, OpenHop(m) PROVE UNCHANGED BQ!quoteVars
  <2>1. pc = "hops" /\ pc' = "pairs" /\ UNCHANGED <<pools, req>>
    BY <1>3 DEF OpenHop
  <2> QED
    BY <2>1, WaitStep DEF Terminal
<1>4. CASE UNCHANGED vars
  BY <1>4 DEF vars, BQ!quoteVars, AnotherAmount
<1> QED
  BY <1>1, <1>2, <1>3, <1>4, FinishScanStep, RankDirectStep, RankPairStep, ReplyStep DEF Next, Answered

\* For every request whose input is a token mint: whatever the order of the pools and of
\* the buckets, quote_price answers as BestQuote does, an error if any route that exists
\* cannot be priced and otherwise the largest amount of all of them.
THEOREM AnswersTheBest == AliasFree /\ Spec => BQ!Init /\ [][BQ!Next]_(BQ!quoteVars)
<1>1. Init => BQ!Init
  BY DEF Init, BQ!Init, BQ!Pending, Terminal
<1> QED
  BY <1>1, NextStep, RankInvariant, PTL DEF Spec
=============================================================================
