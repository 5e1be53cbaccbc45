----------------------------- MODULE MCPoolFetch -----------------------------
(***************************************************************************)
(* Two pools that share a mint and a configuration, the shared mint as     *)
(* mint_b of one and mint_a of the other.                                  *)
(***************************************************************************)
EXTENDS PoolFetch

CONSTANTS p1, p2, m1, m2, m3, c1, near1, far1

MCPool   == {p1, p2}
MCMint   == {m1, m2, m3}
MCMintA  == [p \in MCPool |-> IF p = p1 THEN m1 ELSE m2]
MCMintB  == [p \in MCPool |-> IF p = p1 THEN m2 ELSE m3]
MCConfigOf == [p \in MCPool |-> c1]
MCConfig == {c1}
MCNear   == {near1}
MCFar    == {far1}
=============================================================================
