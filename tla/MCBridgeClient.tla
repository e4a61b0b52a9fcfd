--------------------------- MODULE MCBridgeClient ---------------------------
(* Small instances of BridgeClient for TLC.                                *)
EXTENDS BridgeClient, TLC

CONSTANTS p1, p2, k1

OnePublisher  == {p1}
TwoPublishers == {p1, p2}
OneAcker      == {k1}
Nobody        == {}

\* Publishers are interchangeable in the safety runs.
Symmetry == Permutations(TwoPublishers)
=============================================================================
