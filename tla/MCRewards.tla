----------------------------- MODULE MCRewards -----------------------------
(* Two stakers, the seed, one stream per token. *)
EXTENDS DripWCHANRewards, TLC

CONSTANTS a1, a2

TwoStakers == {a1, a2}
StakerSymmetry == Permutations(TwoStakers)
=============================================================================
