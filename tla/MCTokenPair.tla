----------------------------- MODULE MCTokenPair -----------------------------
(* Small instances of TokenPair for TLC.                                   *)
EXTENDS TokenPair, TLC

CONSTANTS g1, r1, r2, v1, f1, f2

OneIssuer   == {g1}
OneRevoker  == {r1}
TwoRevokers == {r1, r2}
OneVerifier == {v1}
TwoRefreshers == {f1, f2}
Nobody      == {}

\* Calls of one function are interchangeable.
Symmetry == Permutations(TwoRefreshers) \cup Permutations(TwoRevokers)
=============================================================================
