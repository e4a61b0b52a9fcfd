---------------------------- MODULE MCBridgeLink ----------------------------
(* A small instance of BridgeLink for TLC.                                 *)
EXTENDS BridgeLink, TLC

CONSTANTS c1, c2

TwoCallers == {c1, c2}
Symmetry   == Permutations(TwoCallers)
=============================================================================
