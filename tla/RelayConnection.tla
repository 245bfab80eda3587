--------------------------- MODULE RelayConnection ---------------------------
(***************************************************************************)
(* packages/timeline-embed/src/lib/relay-connection.ts                     *)
(*                                                                         *)
(* A widget's one connection to the relay of its page.  rx-nostr keeps the *)
(* socket: it retries with backoff, sends the open REQs again after a      *)
(* reconnect, and gives up in a terminal state, which makes this class     *)
(* drop the client and every subscription.                                 *)
(*                                                                         *)
(* The relay is external here.  It holds `stored` and owes every REQ the   *)
(* events that match it, then an EOSE; a message is routed only while its  *)
(* subscription is open.                                                   *)
(***************************************************************************)
EXTENDS Naturals, FiniteSets

CONSTANTS
  Wants(_, _),   \* whether a subscription's filter matches an event
  Late,          \* events the relay receives while the widgets are running
  Earlier,       \* events it holds from the start
  MaxDrops       \* bound on the times the socket is lost

ASSUME ConnectionAssumption == MaxDrops \in Nat

VARIABLES
  status,        \* ConnectionStatus, as onStatusChange last reported it
  subs,          \* open subscriptions: `subscriptions`, and one-shot fetches
  answered,      \* those whose EOSE has come over this socket
  inbox,         \* deliveries on their way: [to, event, live]
  stored,        \* what the relay can answer with
  drops          \* lost sockets so far

connVars == <<status, subs, answered, inbox, stored, drops>>

Statuses == {"disconnected", "connecting", "connected", "reconnecting", "error"}

(* There is an rx-nostr client to hand a REQ to.                           *)
HasClient == status \in {"connecting", "connected", "reconnecting"}
IsConnected == status = "connected"

ConnInit ==
  /\ status = "disconnected"
  /\ subs = {}
  /\ answered = {}
  /\ inbox = {}
  /\ stored = Earlier
  /\ drops = 0

(* What a REQ is owed, and what an open one is sent as it arrives; `live`  *)
(* marks a delivery that its subscription's EOSE did not wait for.         *)
Delivery(s, e, live) == [to |-> s, event |-> e, live |-> live]
Backfill(S) == {Delivery(d[1], d[2], FALSE) :
                  d \in {d \in S \X stored : Wants(d[1], d[2])}}

(* unsubscribe() for `gone`, then subscribe() for `new`: a REQ is refused  *)
(* without a client, held by rx-nostr while the socket is down, and sent   *)
(* at once otherwise; one that reuses an id replaces the one before it.    *)
Route(gone, new) ==
  LET opened == IF HasClient THEN new ELSE {}
      kept == subs \ (gone \cup opened)
  IN /\ subs' = kept \cup opened
     /\ answered' = answered \cap kept
     /\ inbox' = {d \in inbox : d.to \in kept}
                   \cup IF IsConnected THEN Backfill(opened) ELSE {}
     /\ UNCHANGED <<status, stored, drops>>

(* connect(): no client was there, so nothing is dropped.                  *)
Dial ==
  /\ status' = "connecting"
  /\ UNCHANGED <<subs, answered, inbox, stored, drops>>

(* teardownClient(): every subscription goes, and the observers with them. *)
Teardown(final) ==
  /\ status' = IF HasClient THEN final ELSE status
  /\ subs' = {}
  /\ answered' = {}
  /\ inbox' = {}
  /\ UNCHANGED <<stored, drops>>

(* The socket opens: rx-nostr sends every REQ it held, and `new`, which    *)
(* the handler of the status opens.                                        *)
SocketUp(new) ==
  /\ status \in {"connecting", "reconnecting"}
  /\ status' = "connected"
  /\ subs' = subs \cup new
  /\ answered' = {}
  /\ inbox' = Backfill(subs \cup new)
  /\ UNCHANGED <<stored, drops>>

(* What an EOSE followed has been received: it is read before a close is.  *)
Received == {d \in inbox : d.to \in answered /\ ~d.live}

SocketDrops ==
  /\ status \in {"connecting", "connected"}
  /\ Received = {}
  /\ drops < MaxDrops
  /\ drops' = drops + 1
  /\ status' = "reconnecting"
  /\ inbox' = {}
  /\ UNCHANGED <<subs, answered, stored>>

(* The retries are spent, or the relay rejected the client.                *)
GivesUp ==
  /\ status \in {"connecting", "reconnecting"}
  /\ Teardown("error")

Delivers(d) ==
  /\ d \in inbox
  /\ inbox' = inbox \ {d}
  /\ UNCHANGED <<status, subs, answered, stored, drops>>

Eose(s) ==
  /\ IsConnected
  /\ s \in subs \ answered
  /\ answered' = answered \cup {s}
  /\ UNCHANGED <<status, subs, inbox, stored, drops>>

(* CLOSED: the subscription stops being routed before anyone is told.      *)
Closed(s, new) ==
  /\ IsConnected
  /\ s \in subs
  /\ Route({s}, new)

(* An event reaches the relay and with it every open subscription.         *)
Arrives(e) ==
  /\ e \in Late \ stored
  /\ stored' = stored \cup {e}
  /\ inbox' = inbox \cup IF IsConnected
                           THEN {Delivery(s, e, s \in answered) :
                                   s \in {s \in subs : Wants(s, e)}}
                           ELSE {}
  /\ UNCHANGED <<status, subs, answered, drops>>
=============================================================================
