--------------------------- MODULE WebSocketEmulator ---------------------------
(***************************************************************************)
(* packages/cache-relay/src/transport/web-socket-server-emulator.ts and    *)
(* emulated-web-socket.ts                                                  *)
(*                                                                         *)
(* An emulator replaces the page's global WebSocket constructor by one     *)
(* that serves the relay's url in process, and puts the original back when *)
(* it stops.  Several emulators may live one after the other on a page,    *)
(* so the constructor each one found is part of the state: an emulator     *)
(* that finds another's constructor keeps it as its "original".            *)
(*                                                                         *)
(* Sockets are the ones the page opens for the relay's url; they open on a *)
(* timer.  A page's close handler is taken not to call back into the       *)
(* emulator.  Messages on an open socket are handed over synchronously and *)
(* change nothing here.                                                    *)
(***************************************************************************)
EXTENDS Naturals

CONSTANTS
  Emulators,
  Sockets,
  Native,        \* the constructor the page was loaded with
  None

ASSUME EmulatorAssumption ==
  /\ Native \notin Emulators /\ None \notin Emulators
  /\ Native # None

VARIABLES
  global,        \* globalThis.WebSocket: Native, or the emulator that patched it
  original,      \* originalWebSocket: [Emulators -> a constructor, or None]
  server,        \* [Sockets -> who constructed it: an emulator, Native, or None]
  readyState,    \* [Sockets -> "none", "CONNECTING", "OPEN" or "CLOSED"]
  allSockets,    \* sockets of any emulator, CONNECTING ones included
  sockets,       \* sockets registered as clients
  clients        \* history: clients the relay was told of and not yet told to forget

socketVars == <<server, readyState, allSockets, sockets, clients>>
emulatorVars == <<global, original, socketVars>>

Constructors == Emulators \cup {Native}

EmulatorInit ==
  /\ global = Native
  /\ original = [h \in Emulators |-> None]
  /\ server = [s \in Sockets |-> None]
  /\ readyState = [s \in Sockets |-> "none"]
  /\ allSockets = {}
  /\ sockets = {}
  /\ clients = {}

Started(h) == original[h] # None
Of(h) == {s \in Sockets : server[s] = h}

(* start(): keep what is there as the original and replace it.             *)
EmulatorStart(h) ==
  IF Started(h)
    THEN UNCHANGED emulatorVars
    ELSE /\ original' = [original EXCEPT ![h] = global]
         /\ global' = h
         /\ UNCHANGED socketVars

(* close() of the sockets of S: CLOSED at once, struck off both tables, and*)
(* reported to the relay if they had been registered.                      *)
Closing(S) == {s \in S : readyState[s] \in {"CONNECTING", "OPEN"}}

Reported(S) == S \cap sockets

CloseSockets(S) ==
  /\ readyState' = [s \in Sockets |-> IF s \in S THEN "CLOSED" ELSE readyState[s]]
  /\ allSockets' = allSockets \ S
  /\ sockets' = sockets \ S
  /\ clients' = clients \ Reported(S)
  /\ UNCHANGED server

(* stop(): close every socket, the CONNECTING ones too, and restore.       *)
ToClose_bug(h) == Of(h) \cap sockets
ToClose(h) == Of(h) \cap allSockets

Restored(h) == IF Started(h) THEN original[h] ELSE global

EmulatorStop(h) ==
  /\ CloseSockets(Closing(ToClose(h)))
  /\ global' = Restored(h)
  /\ original' = [original EXCEPT ![h] = None]

(* The page runs new WebSocket(url): only a patched constructor emulates.  *)
NewSocket(s) ==
  /\ server[s] = None
  /\ server' = [server EXCEPT ![s] = global]
  /\ readyState' = [readyState EXCEPT ![s] = IF global = Native THEN @ ELSE "CONNECTING"]
  /\ allSockets' = IF global = Native THEN allSockets ELSE allSockets \cup {s}
  /\ UNCHANGED <<global, original, sockets, clients>>

(* The timer of the constructor: a socket closed meanwhile stays closed.   *)
Opens(s) == readyState[s] = "CONNECTING"

OpenTimer(s) ==
  /\ Opens(s)
  /\ readyState' = [readyState EXCEPT ![s] = "OPEN"]
  /\ sockets' = sockets \cup {s}
  /\ clients' = clients \cup {s}
  /\ UNCHANGED <<global, original, server, allSockets>>

(* The page closes its socket; a second close() does nothing.              *)
PageCloses(s) ==
  /\ s \in Closing({s})
  /\ CloseSockets({s})
  /\ UNCHANGED <<global, original>>

PageStep == \E s \in Sockets : NewSocket(s) \/ OpenTimer(s) \/ PageCloses(s)

-----------------------------------------------------------------------------
EmulatorTypeOK ==
  /\ global \in Constructors
  /\ original \in [Emulators -> Constructors \cup {None}]
  /\ server \in [Sockets -> Constructors \cup {None}]
  /\ readyState \in [Sockets -> {"none", "CONNECTING", "OPEN", "CLOSED"}]
  /\ allSockets \subseteq Sockets
  /\ sockets \subseteq Sockets
  /\ clients \subseteq Sockets

(* The relay knows exactly the open sockets as clients, and they all belong*)
(* to an emulator that is running: a socket still connecting when the      *)
(* emulator stops never opens on a stopped relay, and every client that    *)
(* was announced is taken back, so the relay closes its subscriptions.     *)
ClientsAreOpenSockets ==
  /\ clients = {s \in Sockets : readyState[s] = "OPEN"}
  /\ \A s \in clients : server[s] \in Emulators /\ Started(server[s])
=============================================================================
