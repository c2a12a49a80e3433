--------------------------- MODULE MCSessionEpoch ---------------------------
(* Two handles and the GC thread over two Session addresses that one key   *)
(* id can take in turn: revoked, deleted and registered again.             *)
EXTENDS SessionEpoch, TLC

CONSTANTS h1, h2, s1, s2, k1, e1, i1

MCHandles   == {h1, h2}
MCSessions  == {s1, s2}
MCOneSession == {s1}
MCKeys      == {k1}
MCEndpoints == {e1}
MCIPs       == {i1}
=============================================================================
