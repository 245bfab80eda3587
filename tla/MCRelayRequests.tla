--------------------------- MODULE MCRelayRequests ---------------------------
(* One transport client and the in-process client, one or two subscription *)
(* ids, one or two events; fAll matches every event, fIds lists the id of  *)
(* the first.                                                              *)
EXTENDS RelayRequests
CONSTANTS c1, local, s1, s2, e1, e2, fAll, fIds
MCTransportOnly == {c1}
MCBothClients == {c1, local}
MCOneSub == {s1}
MCTwoSubs == {s1, s2}
MCOneEvent == {e1}
MCTwoEvents == {e1, e2}
MCOneFilter == {fAll}
MCTwoFilters == {fAll, fIds}
MCIdFilters == {fIds} \cap Filters
MCMatch == [f \in Filters |-> IF f = fIds THEN {e1} ELSE Events]
MCUpIds == 1..MaxUp
=============================================================================
