---------------------------- MODULE MCSqliteStorage ----------------------------
(* Four events: an article without a d tag and with more tags than the     *)
(* index takes; two versions of one profile, of one second; and a request  *)
(* to delete.                                                              *)
EXTENDS SqliteStorage

Is(kind, author, at, tags) == [kind |-> kind, author |-> author, at |-> at, tags |-> tags]
EvDef ==
  [e \in 1 .. 4 |->
     CASE e = 1 -> Is(30023, "alice", 1, <<<<"z", "x">>, <<"e", "x">>, <<"p", "y">>>>)
       [] e = 2 -> Is(0, "alice", 2, <<<<"d", "k">>, <<"e", "x">>>>)
       [] e = 3 -> Is(0, "alice", 2, <<<<"title", "t">>, <<"e", "w">>>>)
       [] e = 4 -> Is(5, "bob", 1, <<<<"e", "x">>>>)]

IdListsDef == {{2, 3}, {1, 3, 4}}
WindowDef == 0 :> 1

(* Every filter a client may send has some condition (isValidFilterShape). *)
All == [ids |-> None, authors |-> None, kinds |-> None, since |-> None, until |-> None,
        tags |-> {}, limit |-> None]
Tag(key, values) == [key |-> key, values |-> values]
ReadsDef ==
  {[All EXCEPT !.since = 0],
   [All EXCEPT !.limit = 2],
   [All EXCEPT !.ids = <<1, 3, 4>>, !.limit = 1],
   [All EXCEPT !.ids = <<2, 3>>],
   [All EXCEPT !.kinds = <<0>>, !.limit = 1],
   [All EXCEPT !.kinds = <<0, 30023, 5>>, !.until = 1, !.limit = 1],
   [All EXCEPT !.authors = <<"alice", "alice", "bob">>, !.limit = 2],
   [All EXCEPT !.authors = <<"alice">>, !.kinds = <<30023>>, !.since = 1, !.limit = 0],
   [All EXCEPT !.authors = <<"alice">>, !.kinds = <<0>>],
   [All EXCEPT !.authors = <<"alice">>, !.kinds = <<0>>, !.limit = 1],
   [All EXCEPT !.kinds = <<>>, !.limit = 1],
   [All EXCEPT !.tags = {Tag("e", {"x", "w"})}, !.limit = 1],
   [All EXCEPT !.tags = {Tag("e", {"x"}), Tag("p", {"y"})}],
   [All EXCEPT !.kinds = <<30023>>, !.tags = {Tag("z", {"x"})}],
   [All EXCEPT !.tags = {Tag("title", {"t"})}, !.limit = 1]}
=============================================================================
