------------------------- MODULE MCTimelineLookups --------------------------
(* A feed whose filter is known and one that a follow list has to resolve, *)
(* more authors and quotes on its cards than either budget has room for,   *)
(* and a benchmark that suspends the widget.                               *)
EXTENDS TimelineController

CONSTANTS home, global, alice, bob, quote

Nothing == [r \in {} |-> None]
MCQuotedBy == (quote :> bob)
=============================================================================
