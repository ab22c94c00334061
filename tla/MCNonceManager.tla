--------------------------- MODULE MCNonceManager ---------------------------
(* Three transactions of one account in quick succession. *)
EXTENDS NonceManager, TLC

CONSTANTS t1, t2, t3

ThreeTxs == {t1, t2, t3}
Symmetry == Permutations(ThreeTxs)
=============================================================================
