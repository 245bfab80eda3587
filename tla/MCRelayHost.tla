------------------------------ MODULE MCRelayHost ------------------------------
(* Widgets that acquire and release one relay, and sockets on it.          *)
EXTENDS RelayHost, TLC
CONSTANTS h1, h2, h3, w1, w2
MCCallers == {h1, h2, h3}
MCSockets == {w1, w2}
MCSymmetry == Permutations(MCCallers) \cup Permutations(MCSockets)
=============================================================================
