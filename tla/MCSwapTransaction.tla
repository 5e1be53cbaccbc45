--------------------------- MODULE MCSwapTransaction ---------------------------
(***************************************************************************)
(* Small instances of SwapTransaction: three mints, a pool per pair and a  *)
(* second one for one of them, so that every request has a direct and a    *)
(* two-pool route, in either orientation; one pool has run out.            *)
(***************************************************************************)
EXTENDS SwapTransaction, TLC

CONSTANTS X, Y, Z, XY, YZ, ZX, YX

MCMint == {X, Y, Z}
MCPool == {XY, YZ, ZX, YX}

MCMintA == (XY :> X) @@ (YZ :> Y) @@ (ZX :> Z) @@ (YX :> Y)
MCMintB == (XY :> Y) @@ (YZ :> Z) @@ (ZX :> X) @@ (YX :> X)

MCWord == 40

MCDepth == [p \in MCPool |-> [d \in BOOLEAN |-> IF p = YX THEN 0 ELSE IF d THEN 5 ELSE 9]]

\* Twice the amount one way, half of it the other way.
MCGives ==
  [p \in MCPool |->
    [d \in BOOLEAN |-> [n \in 0..MCDepth[p][d] |-> IF d THEN 2 * n ELSE n \div 2]]]

MCFee  == (X :> 0) @@ (Y :> 1) @@ (Z :> 2)
NoFees == [m \in MCMint |-> 0]

MCTickArray == {<<"tick_array", p, i>> : p \in MCPool, i \in {1, 2, 8, 9}}

MCTickArrays ==
  [p \in MCPool |->
    [d \in BOOLEAN |-> [i \in 1..(IF d THEN 1 ELSE 2) |-> <<"tick_array", p, i>>]]]

MCAsks == {q \in [input : MCMint, output : MCMint, base_input : BOOLEAN, amount : {0, 1, 4, 8, 39}] :
             q.input # q.output}

MCPadding == <<<<"tick_array", XY, 8>>, <<"tick_array", XY, 9>>>>

MCSubmissions ==
  {<<<<"unsigned">>, <<"signed">>>>, <<<<"unsigned">>, <<"altered">>>>,
   <<<<"unsigned">>, <<>>>>, <<<<"altered">>, <<"altered">>>>,
   <<<<"unsigned", "unsigned">>, <<"signed", "altered">>>>,
   <<<<"unsigned", "unsigned">>, <<"signed", "garbage">>>>,
   <<<<"unsigned">>, <<"signed", "altered">>>>}
=============================================================================
