------------------------- MODULE MCUpstreamRelayPool -------------------------
(* Two relays, two upstream subscription ids.                              *)
EXTENDS UpstreamRelayPool, TLC
CONSTANTS r1, r2, u1, u2
MCRelays == {r1, r2}
MCUpIds == {u1, u2}
=============================================================================
