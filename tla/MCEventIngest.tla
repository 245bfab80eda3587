----------------------------- MODULE MCEventIngest -----------------------------
(* Small caches.  Ids order the events where their times are equal.        *)
EXTENDS EventIngest, TLC
CONSTANTS alice, bob, h1, h2
MCAuthors == {alice, bob}
MCHandlers == {h1, h2}
MCSymmetry == Permutations(MCHandlers)

Row(kind, author, at, valid) ==
  [kind |-> kind, author |-> author, at |-> at, d |-> "", refs |-> {}, addrs |-> {},
   valid |-> valid]
List(author) == [kind |-> 30000, author |-> author, d |-> "x"]
Profile(author) == [kind |-> 0, author |-> author, d |-> ""]
(* A list of alice and a newer one with a bad signature, a profile of bob, *)
(* and a request of alice, as old as the first list, to delete it and, in  *)
(* vain, her own request and bob's profile.                                *)
MCEvents ==
  1 :> [Row(30000, alice, 1, TRUE) EXCEPT !.d = "x"] @@
  2 :> [Row(30000, alice, 2, FALSE) EXCEPT !.d = "x"] @@
  3 :> Row(0, bob, 2, TRUE) @@
  4 :> [Row(5, alice, 1, TRUE) EXCEPT !.refs = {3, 4}, !.addrs = {List(alice), Profile(bob)}]
MCPriorities == {{bob}}
=============================================================================
