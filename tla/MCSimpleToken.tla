---------------------------- MODULE MCSimpleToken ----------------------------
(* Small instances of SimpleToken for TLC.                                 *)
EXTENDS SimpleToken, TLC

CONSTANTS u1, u2, c1, c2, v1

OneUser   == {u1}
TwoUsers  == {u1, u2}
OneCaller == {c1}
TwoCallers == {c1, c2}
OneVerifier == {v1}

\* Users and callers are interchangeable.
Symmetry == Permutations(TwoUsers) \cup Permutations(TwoCallers)
=============================================================================
