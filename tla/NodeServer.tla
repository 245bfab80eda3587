------------------------------- MODULE NodeServer -------------------------------
(***************************************************************************)
(* packages/server: the process around the relay.  index.ts starts a       *)
(* NostrRelayServer and stops it on a signal; the server opens the         *)
(* database, the WebSocket transport and the health endpoint, and stops    *)
(* them in another order.  A server embedded in a program can be started   *)
(* again after stop(); one with a database file serves after a restart     *)
(* what it stored before.                                                  *)
(*                                                                         *)
(* A request is handled across awaits (the signature check, the storage),  *)
(* so that its handler can outlive its connection, the stop and even the   *)
(* next start.  Each client publishes one event, named after it.           *)
(*                                                                         *)
(* As in index.ts there is no limit on the stored events, no TTL and no    *)
(* upstream relay.  Left out: stop() called while start() or another       *)
(* stop() of the same program is running, a port in use (start() rejects   *)
(* and index.ts exits), and what RelayRequests and EventIngest model:      *)
(* subscriptions and versions.                                             *)
(***************************************************************************)
EXTENDS FiniteSets, Naturals, Sequences

CONSTANTS
  Clients,      \* and the event each of them publishes
  Replaceable,  \* the events of a replaceable or addressable kind
  MaxJobs,      \* bound on the requests in progress
  None

ASSUME ServerAssumption ==
  Replaceable \subseteq Clients /\ None \notin Clients /\ MaxJobs \in Nat

VARIABLES
  persistent, \* a dbPath is configured
  stage,      \* "down": no process; "idle": an instance that does not serve;
              \* "booting", "up", "stopping": start() and stop() in progress
  halt,       \* the step of StopOrder stop() has come to; 0 if not stopping
  hurried,    \* a second signal came while stop() waited for the health endpoint
  listening, health,  \* the two servers accept connections
  dbOpen,     \* the database connection; fake-indexeddb is never closed
  db,         \* the events stored
  sockets,    \* [Clients -> "none", "open", or "closing": no longer in the map clients]
  jobs,       \* the requests in progress
  acked       \* history: the events some client has its OK for and nobody replaces
servers == <<listening, health>>
store == <<dbOpen, db>>
process == <<stage, halt, hurried>>
vars == <<persistent, process, servers, store, sockets, jobs, acked>>

(* A request: what it asks, whether its answer can reach its connection,   *)
(* what had been acknowledged when it came, and the answer once it has it. *)
Job(c, do, live) ==
  [client |-> c, do |-> do, live |-> live, owed |-> acked, got |-> None]
Unfinished(j) == j.got = None
Publishes(j) == j.do \in {"event", "save"}
Step(j, k) == jobs' = (jobs \ {j}) \cup {k}
Cut(gone) ==
  jobs' = {[j EXCEPT !.live = j.live /\ j.client \notin gone] : j \in jobs}

Init ==
  /\ persistent \in BOOLEAN
  /\ stage = "down" /\ halt = 0 /\ hurried = FALSE
  /\ listening = FALSE /\ health = FALSE
  /\ dbOpen = FALSE /\ db = {}
  /\ sockets = [c \in Clients |-> "none"]
  /\ jobs = {} /\ acked = {}

-----------------------------------------------------------------------------
(* start(): the constructor and open() open the database, connect() makes  *)
(* the transport listen, and then the health endpoint comes up, or its     *)
(* port is taken, which is only logged.                                    *)
Start ==
  /\ stage \in {"down", "idle"}
  /\ stage' = "booting"
  /\ dbOpen' = TRUE
  /\ listening' = TRUE
  /\ UNCHANGED <<persistent, halt, hurried, health, db, sockets, jobs, acked>>

HealthUp ==
  /\ stage = "booting"
  /\ stage' = "up"
  /\ health' \in BOOLEAN
  /\ UNCHANGED <<persistent, halt, hurried, listening, store, sockets, jobs, acked>>

-----------------------------------------------------------------------------
(* Clients *)
Connect(c) ==
  /\ listening /\ sockets[c] = "none"
  /\ sockets' = [sockets EXCEPT ![c] = "open"]
  /\ UNCHANGED <<persistent, process, servers, store, jobs, acked>>

SocketClosed(c) ==
  /\ sockets[c] # "none"
  /\ sockets' = [sockets EXCEPT ![c] = "none"]
  /\ Cut({c})
  /\ UNCHANGED <<persistent, process, servers, store, acked>>

(* A message is handled even while the server's close frame is on its way; *)
(* send() then finds no client.                                            *)
Receive(c, do) ==
  /\ sockets[c] # "none"
  /\ Cardinality(jobs) < MaxJobs
  /\ jobs' = jobs \cup {Job(c, do, sockets[c] = "open")}
  /\ UNCHANGED <<persistent, process, servers, store, sockets, acked>>

HealthAsked ==
  /\ health
  /\ Cardinality(jobs) < MaxJobs
  /\ jobs' = jobs \cup {Job(None, "health", TRUE)}
  /\ UNCHANGED <<persistent, process, servers, store, sockets, acked>>

-----------------------------------------------------------------------------
(* A replaceable event first removes the version in its place, be it an    *)
(* earlier copy of itself: from then on nobody is owed that one.           *)
Without(k, e) ==
  [k EXCEPT !.owed = @ \ {e}, !.got = IF Publishes(k) /\ ~Unfinished(k) THEN @ \ {e} ELSE @]
Clear(j) ==
  /\ Unfinished(j) /\ j.do = "event" /\ j.client \in Replaceable
  /\ jobs' = {Without(k, j.client) : k \in (jobs \ {j}) \cup {[j EXCEPT !.do = "save"]}}
  /\ (dbOpen /\ db' = db \ {j.client}) \/ UNCHANGED db
  /\ acked' = acked \ {j.client}
  /\ UNCHANGED <<persistent, process, servers, dbOpen, sockets>>

(* saveEvent answers false when the database is closed or a statement      *)
(* fails.  A regular event then gets OK false, a replaceable one OK true   *)
(* (event-handler.ts:114); one whose statement failed is owed to nobody.   *)
Save(j) ==
  /\ Unfinished(j)
  /\ j.do = "save" \/ (j.do = "event" /\ j.client \notin Replaceable)
  /\ \/ /\ dbOpen
        /\ db' = db \cup {j.client}
        /\ Step(j, [j EXCEPT !.got = {j.client}])
     \/ /\ ~dbOpen
        /\ Step(j, [j EXCEPT !.got = {j.client} \cap Replaceable])
        /\ UNCHANGED db
     \/ /\ dbOpen
        /\ Step(j, [j EXCEPT !.got = {}])
        /\ UNCHANGED db
  /\ UNCHANGED <<persistent, process, servers, dbOpen, sockets, acked>>

(* getEvents and count answer with nothing when the database is closed or  *)
(* a statement fails; the failure excuses the answer.                      *)
Read(j) ==
  /\ Unfinished(j) /\ j.do \in {"req", "health"}
  /\ \/ Step(j, [j EXCEPT !.got = IF dbOpen THEN db ELSE {}])
     \/ dbOpen /\ Step(j, [j EXCEPT !.got = {}, !.owed = {}])
  /\ UNCHANGED <<persistent, process, servers, store, sockets, acked>>

(* The OK, the events and the EOSE, or the health report; they reach the   *)
(* client only if the connection is still there.                           *)
Reply(j) ==
  /\ ~Unfinished(j)
  /\ jobs' = jobs \ {j}
  /\ acked' = IF j.live /\ Publishes(j) THEN acked \cup j.got ELSE acked
  /\ UNCHANGED <<persistent, process, servers, store, sockets>>

-----------------------------------------------------------------------------
(* stop() *)
StopOrder_bug == <<"health", "storage", "transport">>
StopOrder == <<"health", "transport", "storage">>
At(part) == halt # 0 /\ StopOrder[halt] = part
(* The last step ends the process, or leaves an instance behind.           *)
Passed == 
  IF halt < Len(StopOrder) THEN halt' = halt + 1 /\ UNCHANGED <<stage, hurried>>
  ELSE halt' = 0 /\ hurried' = FALSE /\ stage' = "idle"

Stop ==
  /\ stage = "up" /\ stage' = "stopping"
  /\ halt' = 1
  /\ UNCHANGED <<persistent, hurried, servers, store, sockets, jobs, acked>>

(* The stop() of a second signal finds no health endpoint to wait for.     *)
SecondSignal ==
  /\ At("health") /\ ~health
  /\ hurried' = TRUE
  /\ UNCHANGED <<persistent, stage, halt, servers, store, sockets, jobs, acked>>

CloseHealth ==
  /\ At("health") /\ health
  /\ health' = FALSE
  /\ UNCHANGED <<persistent, process, listening, store, sockets, jobs, acked>>

(* server.close() calls back when the last request is answered.            *)
HealthStopped ==
  /\ At("health") /\ ~health
  /\ hurried \/ \A j \in jobs : j.do # "health"
  /\ Passed
  /\ UNCHANGED <<persistent, servers, store, sockets, jobs, acked>>

CloseSockets ==
  /\ At("transport") /\ listening
  /\ listening' = FALSE
  /\ sockets' = [c \in Clients |-> IF sockets[c] = "none" THEN "none" ELSE "closing"]
  /\ Cut(Clients)
  /\ UNCHANGED <<persistent, process, health, store, acked>>

(* The WebSocket server's close() calls back when the last connection is gone. *)
TransportStopped ==
  /\ At("transport") /\ ~listening
  /\ \A c \in Clients : sockets[c] = "none"
  /\ Passed
  /\ UNCHANGED <<persistent, servers, store, sockets, jobs, acked>>

(* With a file the database is closed, without one it is emptied.          *)
Gone == 
  /\ stage' = "down" /\ halt' = 0 /\ hurried' = FALSE
  /\ listening' = FALSE /\ health' = FALSE
  /\ sockets' = [c \in Clients |-> "none"]
  /\ jobs' = {}

CloseStorage ==
  /\ At("storage")
  /\ dbOpen' = ~persistent
  /\ db' = IF persistent THEN db ELSE {}
  /\ IF hurried THEN Gone
     ELSE /\ Passed
          /\ jobs' = IF persistent THEN jobs ELSE {[j EXCEPT !.owed = {}] : j \in jobs}
          /\ UNCHANGED <<servers, sockets>>
  /\ acked' = IF persistent THEN acked ELSE {}
  /\ UNCHANGED persistent

(* The process ends: process.exit() after stop(), or killed at any moment. *)
(* What was committed to a file stays.                                     *)
Exit ==
  /\ stage # "down"
  /\ Gone
  /\ dbOpen' = FALSE
  /\ db' = IF persistent THEN db ELSE {}
  /\ acked' = IF persistent THEN acked ELSE {}
  /\ UNCHANGED persistent

-----------------------------------------------------------------------------
Next ==
  \/ Start \/ HealthUp \/ HealthAsked
  \/ Stop \/ SecondSignal \/ CloseHealth \/ HealthStopped
  \/ CloseSockets \/ TransportStopped \/ CloseStorage \/ Exit
  \/ \E c \in Clients : Connect(c) \/ SocketClosed(c) \/ Receive(c, "event") \/ Receive(c, "req")
  \/ \E j \in jobs : Clear(j) \/ Save(j) \/ Read(j) \/ Reply(j)
Spec == Init /\ [][Next]_vars

-----------------------------------------------------------------------------
(* Every event a client had its OK for before a REQ or a health check came *)
(* is in the answer: across stop() and start() and the death of a server   *)
(* with a database file, and never is a request that still has its         *)
(* connection answered from the closed database (nostr-relay-server.ts:127 *)
(* closes it last).                                                        *)
AnswersHaveAllAcked ==
  \A j \in jobs : (j.live /\ j.do \in {"req", "health"} /\ ~Unfinished(j)) => j.owed \subseteq j.got
=============================================================================
