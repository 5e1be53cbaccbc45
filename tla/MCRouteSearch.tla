----------------------------- MODULE MCRouteSearch -----------------------------
(***************************************************************************)
(* Small instances of RouteSearch.                                         *)
(***************************************************************************)
EXTENDS RouteSearch, TLC

CONSTANTS V, W, X, Y, Z

Mints == {V, W, X, Y, Z}

MCAmount == 0..4

\* A pool that cannot be priced, one that returns dust, one at par, one that doubles.
\* No pool prices a zero amount.
Curve(f(_)) == [n \in MCAmount |-> IF n = 0 \/ f(n) \notin MCAmount THEN Failed ELSE f(n)]
Shapes == {Curve(LAMBDA n : 5), Curve(LAMBDA n : 0), Curve(LAMBDA n : n), Curve(LAMBDA n : 2 * n)}

PoolOf(x, y, shape) == [a |-> x, b |-> y, curve |-> [d \in BOOLEAN |-> shape]]

\* Every vector of three pools over three mints, in every order and orientation, around
\* two pools that touch none of the requested mints; a pool trades at par, the last two
\* may fail.
AnyPool == {PoolOf(pr[1], pr[2], Curve(LAMBDA n : r * n)) :
              pr \in {t \in {W, X, Y} \X {W, X, Y} : t[1] # t[2]}, r \in {1, 5}}
Unrelated == PoolOf(Z, V, Curve(LAMBDA n : n))
AnySnapshot ==
  {<<s[1], Unrelated, s[2], Unrelated, s[3]>> :
     s \in {t \in [1..3 -> AnyPool] : t[1].curve[TRUE][1] # Failed}}

\* Two intermediate mints and a direct pool, with every combination of curves; the
\* direct pool gives dust or trades at par.
DiamondPairs == <<<<W, X>>, <<Y, X>>, <<Z, W>>, <<Z, Y>>, <<Y, W>>>>
Diamonds ==
  {[p \in 1..5 |-> PoolOf(DiamondPairs[p][1], DiamondPairs[p][2], c[p])] :
     c \in {d \in [1..5 -> Shapes] : d[5][1] \in {0, 1}}}

MCSnapshots == AnySnapshot \cup Diamonds

Ask(in, out) == [input : {in}, output : {out}, base_input : BOOLEAN, amount : {1}]

\* Requests whose input is a token mint; the output may be native SOL, and the
\* code accepts a request for the same mint on both sides.
TokenRequests == Ask(W, Y) \cup Ask(X, Sol) \cup Ask(W, Sol)
SolRequests   == Ask(Sol, Y)
=============================================================================
