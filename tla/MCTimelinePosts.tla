-------------------------- MODULE MCTimelinePosts ---------------------------
(* A post widget walked between a note and an article.  The note's thread  *)
(* is three deep: r2 and r4 answer r1, and only r3, which answers r2, also *)
(* names the root, so that it can come before its parent is held; the set  *)
(* is full one reply short of the thread.  The reply to the article comes  *)
(* late and names the article's event next to its coordinate.              *)
EXTENDS TimelineController

CONSTANTS note, article, r1, r2, r3, r4, a1, x1

MCTags == (r1 :> [reply |-> None, root |-> note, plain |-> <<>>]) @@
          (r2 :> [reply |-> r1, root |-> None, plain |-> <<>>]) @@
          (r3 :> [reply |-> r2, root |-> note, plain |-> <<>>]) @@
          (r4 :> [reply |-> None, root |-> None, plain |-> <<x1, r1>>]) @@
          (a1 :> [reply |-> None, root |-> None, plain |-> <<article>>])
MCATag == [r \in Replies |-> IF r = a1 THEN article ELSE None]
MCReactsTo == (x1 :> [tags |-> {Address(article)}, last |-> Address(article)])
MCAge == (r1 :> 1) @@ (r2 :> 2) @@ (r3 :> 3) @@ (r4 :> 4) @@ (a1 :> 5) @@ (x1 :> 1)
MCWishes == {{"reactions"}, {"replies"}}
NoQuotes == [k \in {} |-> None]
=============================================================================
