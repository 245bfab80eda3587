------------------------ MODULE MCUpstreamCoordinator ------------------------
(* One or two client subscriptions, two events.                            *)
EXTENDS UpstreamCoordinator
CONSTANTS c1, c2, s1, e1, e2
MCOneClient == {c1}
MCTwoClients == {c1, c2}
MCSubscriptionIds == {s1}
MCOneEvent == {e1}
MCTwoEvents == {e1, e2}
MCSymmetry == Permutations(MCTwoClients) \cup Permutations(MCTwoEvents)
MCUpIds == 1..MaxUp
=============================================================================
