-------------------------- MODULE MCCrossDappBatch --------------------------
(* A transaction of one site and a bundle of another, two wallet pages. *)
EXTENDS CrossDappBatch

CONSTANTS t1, b1, siteA, siteB, s1, s2

TwoRequests == {t1, b1}
OneBundle == {b1}
CallsOfEach == [r \in TwoRequests |-> IF r = t1 THEN 1 ELSE 2]
TwoSites == {siteA, siteB}
SiteOfEach == [r \in TwoRequests |-> IF r = t1 THEN siteA ELSE siteB]
TwoSurfaces == {s1, s2}
BatchKeys == TwoRequests \union {Active}
BatchTokens == TwoSurfaces \union {Revoker}
SurfaceSymmetry == Permutations(TwoSurfaces)
=============================================================================
