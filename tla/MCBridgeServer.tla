--------------------------- MODULE MCBridgeServer ---------------------------
(* Small instances of BridgeServer for TLC.                                *)
EXTENDS BridgeServer

CONSTANTS s1, s2, c1, w, p1

TwoStreams == {s1, s2}
OneCloser  == {c1}
OnePusher  == {p1}
KeepsFirst == [p \in {p1} |-> s1]
=============================================================================
