------------------------------ MODULE MCSession ------------------------------
(* Instances of Session for TLC. *)
EXTENDS Session, TLC

CONSTANTS p1, p2

TwoPages == {p1, p2}
PageSymmetry == Permutations(TwoPages)
=============================================================================
