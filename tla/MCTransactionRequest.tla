------------------------ MODULE MCTransactionRequest ------------------------
(* One prompt of one site, two surfaces, two accounts. *)
EXTENDS TransactionRequest, TLC

CONSTANTS t1, s1, s2, v1, a1, a2

OneRequest == {t1}
TwoSurfaces == {s1, s2}
OneRevoker == {v1}
NoRevokers == {}
TwoAccounts == {a1, a2}
TokensOneRevoker == TwoSurfaces \union OneRevoker
SameAccount == [t \in Requests |-> a1]
SurfaceSymmetry == Permutations(TwoSurfaces)
=============================================================================
