------------------------------ MODULE ReplyTree ------------------------------
(***************************************************************************)
(* packages/timeline-embed/src/lib/reply-tree.ts, and the reading of reply *)
(* tags in event-refs.ts.                                                  *)
(*                                                                         *)
(* Which replies a thread keeps, and the tree it shows of those it keeps.  *)
(* Pure: the subscriptions that feed it are in PostWatches.  An event id   *)
(* is the reply or post itself; the coordinate of an addressable post is   *)
(* Address(p).                                                             *)
(***************************************************************************)
EXTENDS Naturals, FiniteSets, Sequences, SequencesExt

CONSTANTS
  Posts,         \* posts a widget can be pointed at
  Addressed,     \* those named by a coordinate instead of an id
  Replies,       \* kind 1 events
  Reactions,     \* kind 7 events
  Tags,          \* [Replies -> [reply, root, plain]]: the `e` tags by marker
  ATag,          \* [Replies -> the post whose coordinate an `a` tag names]
  ReactsTo,      \* [Reactions -> [tags, last]]: what it names, and names last
  Age,           \* [Replies -> Nat], created_at with ties broken by id
  MaxNodes,      \* MAX_REPLY_NODES
  None

Address(p) == <<"address", p>>

ASSUME ThreadAssumption ==
  /\ Addressed \subseteq Posts /\ None \notin Posts \cup Replies
  /\ IsFiniteSet(Replies) /\ Replies \cap Reactions = {}
  /\ \A p \in Posts : Address(p) \notin Replies \cup {None}
  /\ MaxNodes \in Nat
  /\ \A r \in Replies : Age[r] \in Nat
  /\ \A r, other \in Replies : Age[r] = Age[other] => r = other

(* An `e` tag without an event id, a coordinate say, is no candidate.      *)
ASSUME TagAssumption ==
  \A r \in Replies :
    /\ Tags[r].plain \in Seq(ToSet(Tags[r].plain))
    /\ \A p \in Posts : Address(p) \notin {Tags[r].reply, Tags[r].root} \cup ToSet(Tags[r].plain)

RootKey(p) == IF p \in Addressed THEN Address(p) ELSE p

(* findParent(): a "reply" marker, then a "root" marker, then the last tag *)
(* without one.                                                            *)
ReplyParentId(r) ==
  LET t == Tags[r] IN
  CASE t.reply # None -> t.reply
    [] t.reply = None /\ t.root # None -> t.root
    [] OTHER -> IF t.plain = <<>> THEN None ELSE t.plain[Len(t.plain)]

IsReplyEvent(r, p) ==
  /\ r # p
  /\ ReplyParentId(r) # None \/ ATag[r] # None

(* parentKey(): the `e` parent when it is here, else the coordinate when   *)
(* the `e` parent is the post itself or missing, else whatever it named.   *)
ParentKey(r, p, known, rootId) ==
  LET parent == ReplyParentId(r)
      answersThePost == /\ p \in Addressed
                        /\ ATag[r] = p
                        /\ parent \in {None, rootId}
  IN IF parent = r THEN None
     ELSE IF parent \notin known /\ answersThePost THEN Address(p)
     ELSE parent

(* acceptsReply(), the gate on delivery.                                   *)
AcceptsReply_bug(r, p, known, rootId) == IsReplyEvent(r, p)
AcceptsReply(r, p, known, rootId) ==
  /\ IsReplyEvent(r, p)
  /\ LET key == ParentKey(r, p, known, rootId)
     IN key # None /\ key \in {RootKey(p)} \cup known

-----------------------------------------------------------------------------
(* olderFirst().                                                           *)
InOrder(S) ==
  [i \in 1..Cardinality(S) |->
     CHOOSE r \in S : Cardinality({x \in S : Age[x] < Age[r]}) = i - 1]

(* buildReplyTree() over the replies H held for p.                         *)
ChildrenOf(key, H, p, rootId) ==
  InOrder({r \in H : IsReplyEvent(r, p) /\ ParentKey(r, p, H, rootId) = key})

(* Everything below a reply, grown downwards one generation at a time.     *)
Descendants(r, H, p, rootId) ==
  LET below[n \in 0..Cardinality(H)] ==
        IF n = 0 THEN {}
        ELSE LET above == {r} \cup below[n - 1]
             IN {c \in H : ParentKey(c, p, H, rootId) \in above}
  IN below[Cardinality(H)]

(* A seat for each of the first MaxNodes.                                  *)
UpToCap(all) == SubSeq(all, 1, IF Len(all) < MaxNodes THEN Len(all) ELSE MaxNodes)

(* Breadth first: a level is the children of the one above, in its order,  *)
(* and the node cap is spent on the shallow levels first.                  *)
Placed(H, p, rootId, maxDepth) ==
  LET level[d \in 1..maxDepth] ==
        IF d = 1 THEN ChildrenOf(RootKey(p), H, p, rootId)
        ELSE LET above == level[d - 1]
             IN FlattenSeq([i \in DOMAIN above |-> ChildrenOf(above[i], H, p, rootId)])
  IN UpToCap(FlattenSeq([d \in 1..maxDepth |-> level[d]]))

(* The tree's counts: nodes placed, replies a cap left out with all that   *)
(* hangs below them, and replies that connect to nothing.                  *)
BuildReplyTree(H, p, rootId, maxDepth) ==
  LET seq == Placed(H, p, rootId, maxDepth)
      nodes == ToSet(seq)
      byId == {r \in H : IsReplyEvent(r, p)}
      skipped == {r \in byId \ nodes :
                    ParentKey(r, p, byId, rootId) \in {RootKey(p)} \cup nodes}
      hidden == Cardinality(skipped \cup
                  UNION {Descendants(r, byId, p, rootId) : r \in skipped})
  IN [total |-> Len(seq), hidden |-> hidden,
      orphans |-> Cardinality(byId) - Len(seq) - hidden]

(* The reference: a reply belongs to the thread when following parents     *)
(* upwards from it ends at the post.                                       *)
Connects(r, H, p, rootId) ==
  LET up[n \in 0..Cardinality(H)] ==
        IF n = 0 THEN r
        ELSE LET last == up[n - 1]
             IN IF last \in H THEN ParentKey(last, p, H, rootId) ELSE last
  IN up[Cardinality(H)] = RootKey(p)

(* And what an unbounded tree would place within n levels of it.           *)
Reached(H, p, rootId, n) ==
  LET level[d \in 0..n] ==
        IF d = 0 THEN {RootKey(p)}
        ELSE LET above == level[d - 1]
             IN {r \in H : IsReplyEvent(r, p) /\ ParentKey(r, p, H, rootId) \in above}
  IN UNION {level[d] : d \in 1..n}
=============================================================================
