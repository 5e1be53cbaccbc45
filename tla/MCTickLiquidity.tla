---------------------------- MODULE MCTickLiquidity ----------------------------
(***************************************************************************)
(* Arrays of two ticks, four of them in the pool's bitmap and the others   *)
(* in the extensions.  The positions nest, share ends, leave a gap, lie in *)
(* one array, and reach from the extensions into the bitmap.               *)
(***************************************************************************)
EXTENDS TickLiquidity

Position(lower, upper, liquidity) ==
  [lower |-> lower, upper |-> upper, liquidity |-> liquidity]

MCPositions ==
  {Position(-6, 5, 1), Position(-2, -1, 2), Position(-2, 1, 1), Position(1, 3, 3), Position(4, 5, 2)}
=============================================================================
