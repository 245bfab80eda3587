---------------------------- MODULE RelayHost_proofs ----------------------------
(***************************************************************************)
(* What is proved of RelayHost for any finite set of widgets and any       *)
(* sockets.                                                                *)
(*                                                                         *)
(* IInv is the inductive invariant.  HostsAgree ties the four views of     *)
(* which relay is running (the host's phase, `current`, the emulator's     *)
(* `original`, the global constructor) to each other; CallersAgree says    *)
(* where a caller in each phase may stand; RefCountIsHonest counts them.   *)
(* SocketsAgree is the same for the two socket tables of the emulators.    *)
(***************************************************************************)
EXTENDS RelayHost, FiniteSetTheorems, TLAPS

USE DEF Callers, Hosts

Running(h) == host[h] \in {"starting", "up"}

HostsAgree ==
  /\ \A h \in Hosts : original[h] = IF Running(h) THEN Native ELSE None
  /\ \A h \in Hosts : Running(h) => current = h /\ global = h
  /\ (\A h \in Hosts : ~Running(h)) => global = Native
  /\ current # None => host[current] \in {"starting", "up", "failed"}
  /\ \A h \in Hosts : host[h] = "stopping" => pendingStop = h /\ current = None

CallersAgree ==
  \A c \in Callers :
    /\ caller[c] \in {"idle", "waiting"} => host[c] = "none"
    /\ caller[c] \in {"reserved", "holding"} => holds[c] \in Hosts
    /\ caller[c] = "reserved" => host[holds[c]] \in {"starting", "up", "failed"}
    /\ caller[c] = "holding" => host[holds[c]] = "up"

SocketsAgree ==
  /\ clients = sockets
  /\ sockets = {s \in Sockets : readyState[s] = "OPEN"}
  /\ allSockets = {s \in Sockets : readyState[s] \in {"CONNECTING", "OPEN"}}
  /\ \A s \in allSockets : server[s] \in Emulators /\ Started(server[s])
  /\ \A s \in Sockets : server[s] = None => readyState[s] = "none"

IInv ==
  /\ TypeOK
  /\ HostsAgree
  /\ CallersAgree
  /\ SocketsAgree
  /\ RefCountIsHonest
  /\ NoIdleHost

-----------------------------------------------------------------------------
(* Reservations and how a step changes their number.                       *)

(* Reservations are finitely many and can be counted.                      *)
LEMMA Counting ==
  ASSUME NEW h
  PROVE  /\ IsFiniteSet(Reservations(h))
         /\ Cardinality(Reservations(h)) \in Nat
         /\ Cardinality(Reservations(h)) = 0 <=> Reservations(h) = {}
<1>1. IsFiniteSet(Reservations(h))
  BY HostAssumption, FS_Subset DEF Reservations
<1>2. QED
  BY <1>1, FS_CardinalityType, FS_EmptySet

(* One reservation more, one more to count.                                *)
LEMMA OneMore ==
  ASSUME NEW h, NEW c, c \notin Reservations(h), Reservations(h)' = Reservations(h) \cup {c}
  PROVE  Cardinality(Reservations(h)') = Cardinality(Reservations(h)) + 1
BY Counting, FS_AddElement

(* One reservation less, one less to count, and none left from one.        *)
LEMMA OneLess ==
  ASSUME NEW h, NEW c \in Reservations(h), Reservations(h)' = Reservations(h) \ {c}
  PROVE  /\ Cardinality(Reservations(h)') = Cardinality(Reservations(h)) - 1
         /\ Cardinality(Reservations(h)) \in Nat \ {0}
         /\ Reservations(h)' = {} <=> Cardinality(Reservations(h)) = 1
<1>1. IsFiniteSet(Reservations(h)) /\ Cardinality(Reservations(h)) \in Nat
  BY Counting
<1>2. Cardinality(Reservations(h) \ {c}) = Cardinality(Reservations(h)) - 1
  BY <1>1, FS_RemoveElement
<1>3. IsFiniteSet(Reservations(h) \ {c})
  BY <1>1, FS_RemoveElement
<1>4. Cardinality(Reservations(h) \ {c}) \in Nat /\ (Cardinality(Reservations(h) \ {c}) = 0 <=> Reservations(h) \ {c} = {})
  BY <1>3, FS_CardinalityType, FS_EmptySet
<1>5. QED
  BY <1>1, <1>2, <1>4

(* A caller without a place gets one: the count goes along.                *)
LEMMA ReserveCounts ==
  ASSUME TypeOK, RefCountIsHonest, NEW c \in Callers, NEW h \in Hosts,
         caller[c] \in {"idle", "waiting"}, Reserve(c, h)
  PROVE  /\ RefCountIsHonest'
         /\ Reservations(h)' # {}
         /\ \A g \in Hosts : Reservations(g) # {} => Reservations(g)' # {}
         /\ refCount' \in [Hosts -> Nat]
         /\ caller' \in [Callers -> CallerPhases]
         /\ holds' \in [Callers -> Hosts \cup {None}]
<1>1. Reservations(h)' = Reservations(h) \cup {c}
  BY DEF Reserve, Reservations, TypeOK
<1>2. \A g \in Hosts \ {h} : Reservations(g)' = Reservations(g)
  BY DEF Reserve, Reservations, TypeOK
<1>3. c \notin Reservations(h)
  BY DEF Reservations
<1>4. Cardinality(Reservations(h)') = Cardinality(Reservations(h)) + 1
  BY <1>1, <1>3, OneMore
<1>5. \A g \in Hosts : refCount'[g] = IF g = h THEN refCount[g] + 1 ELSE refCount[g]
  BY DEF Reserve, TypeOK
<1>6. RefCountIsHonest'
  BY <1>2, <1>4, <1>5 DEF RefCountIsHonest
<1>7. QED
  BY <1>1, <1>2, <1>6 DEF Reserve, TypeOK, CallerPhases

(* A caller gives its place up, by release or by failing.                  *)
LEMMA LeaveCounts ==
  ASSUME TypeOK, RefCountIsHonest, NEW c \in Callers, NEW h \in Hosts, holds[c] = h,
         caller[c] \in {"reserved", "holding"},
         refCount' = [refCount EXCEPT ![h] = @ - 1],
         \A d \in Callers \ {c} : caller'[d] = caller[d] /\ holds'[d] = holds[d],
         caller'[c] \in {"released", "failed"}
  PROVE  /\ RefCountIsHonest'
         /\ refCount' \in [Hosts -> Nat]
         /\ refCount[h] \in Nat \ {0}
         /\ Reservations(h)' = {} <=> refCount[h] = 1
         /\ \A g \in Hosts \ {h} : Reservations(g)' = Reservations(g)
<1>1. c \in Reservations(h) /\ Reservations(h)' = Reservations(h) \ {c}
  BY DEF Reservations
<1>2. \A g \in Hosts \ {h} : Reservations(g)' = Reservations(g)
  BY DEF Reservations
<1>3. /\ Cardinality(Reservations(h)') = Cardinality(Reservations(h)) - 1
      /\ Cardinality(Reservations(h)) \in Nat \ {0}
      /\ Reservations(h)' = {} <=> Cardinality(Reservations(h)) = 1
  BY <1>1, OneLess
<1>4. refCount[h] = Cardinality(Reservations(h))
  BY DEF RefCountIsHonest
<1>5. \A g \in Hosts : refCount'[g] = IF g = h THEN refCount[g] - 1 ELSE refCount[g]
  BY DEF TypeOK
<1>6. RefCountIsHonest'
  BY <1>2, <1>3, <1>4, <1>5 DEF RefCountIsHonest
<1>7. refCount' \in [Hosts -> Nat]
  BY <1>3, <1>4 DEF TypeOK
<1>8. QED
  BY <1>2, <1>3, <1>4, <1>6, <1>7

-----------------------------------------------------------------------------
(* What the emulator's operations do to the sockets.                       *)

(* Closing a set of sockets takes them from every table.                   *)
LEMMA CloseSocketsSafe ==
  ASSUME EmulatorTypeOK, SocketsAgree, NEW S, S \subseteq allSockets, CloseSockets(S)
  PROVE  /\ readyState' \in [Sockets -> {"none", "CONNECTING", "OPEN", "CLOSED"}]
         /\ allSockets' = allSockets \ S
         /\ sockets' = sockets \ S
         /\ clients' = sockets'
         /\ sockets' = {s \in Sockets : readyState'[s] = "OPEN"}
         /\ allSockets' = {s \in Sockets : readyState'[s] \in {"CONNECTING", "OPEN"}}
         /\ \A s \in Sockets : server'[s] = None => readyState'[s] = "none"
         /\ server' = server
<1>1. S \subseteq Sockets /\ \A s \in S : server[s] # None
  BY EmulatorAssumption DEF EmulatorTypeOK, SocketsAgree
<1>2. readyState' = [s \in Sockets |-> IF s \in S THEN "CLOSED" ELSE readyState[s]]
  BY DEF CloseSockets
<1>3. clients' = sockets'
  BY DEF CloseSockets, Reported, SocketsAgree
<1>4. QED
  BY <1>1, <1>2, <1>3 DEF CloseSockets, EmulatorTypeOK, SocketsAgree

(* A stopped emulator has no sockets left and gives its original back.     *)
LEMMA StopSafe ==
  ASSUME EmulatorTypeOK, SocketsAgree, NEW h \in Emulators, original[h] = Native,
         EmulatorStop(h)
  PROVE  /\ EmulatorTypeOK' /\ SocketsAgree'
         /\ global' = Native
         /\ original' = [original EXCEPT ![h] = None]
<1> DEFINE S == Closing(ToClose(h))
<1>1. S \subseteq allSockets /\ CloseSockets(S)
  BY DEF EmulatorStop, Closing, ToClose
<1>2. S = {s \in allSockets : server[s] = h}
  BY DEF Closing, ToClose, Of, SocketsAgree, EmulatorTypeOK
<1>3. global' = Native /\ original' = [original EXCEPT ![h] = None]
  BY EmulatorAssumption DEF EmulatorStop, Restored, Started
<1>4. EmulatorTypeOK'
  BY <1>1, <1>3, CloseSocketsSafe DEF EmulatorTypeOK, Constructors
<1>5. \A s \in allSockets' : server'[s] \in Emulators /\ original'[server'[s]] # None
  <2> SUFFICES ASSUME NEW s \in allSockets' PROVE server'[s] \in Emulators /\ original'[server'[s]] # None
    OBVIOUS
  <2>1. s \in allSockets /\ s \notin S /\ server'[s] = server[s]
    BY <1>1, CloseSocketsSafe
  <2>2. server[s] # h /\ server[s] \in Emulators /\ original[server[s]] # None
    BY <1>2, <2>1 DEF SocketsAgree, Started
  <2>3. QED
    BY <1>3, <2>1, <2>2 DEF EmulatorTypeOK
<1>6. SocketsAgree'
  BY <1>1, <1>5, CloseSocketsSafe DEF SocketsAgree, Started
<1>7. QED
  BY <1>3, <1>4, <1>6

(* The patch of the constructor remembers the one it found.                *)
LEMMA StartSafe ==
  ASSUME EmulatorTypeOK, SocketsAgree, NEW h \in Emulators, original[h] = None,
         EmulatorStart(h)
  PROVE  /\ EmulatorTypeOK' /\ SocketsAgree'
         /\ original' = [original EXCEPT ![h] = global]
         /\ global' = h
<1>1. /\ original' = [original EXCEPT ![h] = global]
      /\ global' = h
      /\ UNCHANGED socketVars
  BY DEF EmulatorStart, Started
<1>2. \A s \in allSockets : original'[server[s]] # None
  BY <1>1, EmulatorAssumption DEF SocketsAgree, Started, EmulatorTypeOK, Constructors
<1>3. QED
  BY <1>1, <1>2 DEF EmulatorTypeOK, SocketsAgree, socketVars, Started, Constructors

(* What the page does to its sockets keeps the tables in step and the      *)
(* constructor in place.                                                   *)
LEMMA PageSafe ==
  ASSUME EmulatorTypeOK, SocketsAgree, PageStep,
         global # Native => global \in Emulators /\ Started(global)
  PROVE  EmulatorTypeOK' /\ SocketsAgree' /\ global' = global /\ original' = original
<1>1. ASSUME NEW s \in Sockets, NewSocket(s)
      PROVE  EmulatorTypeOK' /\ SocketsAgree' /\ global' = global /\ original' = original
  <2>1. readyState[s] = "none" \/ readyState[s] \in {"CONNECTING", "OPEN", "CLOSED"}
    BY DEF EmulatorTypeOK
  <2>2. readyState[s] = "none"
    BY <1>1 DEF NewSocket, SocketsAgree
  <2>3. CASE global = Native
    BY <1>1, <2>2, <2>3, EmulatorAssumption DEF NewSocket, EmulatorTypeOK, SocketsAgree, Started, Constructors
  <2>4. CASE global # Native
    <3>1. EmulatorTypeOK'
      BY <1>1, <2>4 DEF NewSocket, EmulatorTypeOK, Constructors
    <3>2. \A x \in Sockets : server'[x] = (IF x = s THEN global ELSE server[x]) /\ readyState'[x] = (IF x = s THEN "CONNECTING" ELSE readyState[x])
      BY <1>1, <2>4 DEF NewSocket, EmulatorTypeOK
    <3>3. allSockets' = allSockets \cup {s} /\ UNCHANGED <<global, original, sockets, clients>>
      BY <1>1, <2>4 DEF NewSocket
    <3>4. global \in Emulators /\ global # None /\ original[global] # None
      BY <2>4, EmulatorAssumption DEF Started
    <3>5. allSockets \subseteq Sockets /\ \A x \in allSockets : server[x] \in Emulators /\ original[server[x]] # None
      BY DEF SocketsAgree, Started
    <3>6. \A x \in allSockets' : server'[x] \in Emulators /\ original'[server'[x]] # None
      BY <3>2, <3>3, <3>4, <3>5
    <3>7. allSockets' = {x \in Sockets : readyState'[x] \in {"CONNECTING", "OPEN"}}
      BY <3>2, <3>3 DEF SocketsAgree
    <3>8. clients' = sockets' /\ sockets' = {x \in Sockets : readyState'[x] = "OPEN"}
      BY <2>2, <3>2, <3>3 DEF SocketsAgree
    <3>9. SocketsAgree'
      BY <3>2, <3>4, <3>6, <3>7, <3>8 DEF SocketsAgree, Started
    <3>10. QED
      BY <3>1, <3>3, <3>9
  <2>5. QED
    BY <2>3, <2>4
<1>2. ASSUME NEW s \in Sockets, OpenTimer(s)
      PROVE  EmulatorTypeOK' /\ SocketsAgree' /\ global' = global /\ original' = original
  BY <1>2 DEF OpenTimer, Opens, EmulatorTypeOK, SocketsAgree, Started
<1>3. ASSUME NEW s \in Sockets, PageCloses(s)
      PROVE  EmulatorTypeOK' /\ SocketsAgree' /\ global' = global /\ original' = original
  <2>1. {s} \subseteq allSockets /\ CloseSockets({s}) /\ UNCHANGED <<global, original>>
    BY <1>3 DEF PageCloses, Closing, SocketsAgree
  <2>2. QED
    BY <2>1, CloseSocketsSafe DEF EmulatorTypeOK, SocketsAgree, Started
<1>4. QED
  BY <1>1, <1>2, <1>3 DEF PageStep

-----------------------------------------------------------------------------
(* The invariant holds at first.                                           *)
LEMMA InitInv == Init => IInv
<1> SUFFICES ASSUME Init PROVE IInv
  OBVIOUS
<1>1. TypeOK
  BY DEF Init, EmulatorInit, TypeOK, EmulatorTypeOK, Constructors, HostPhases, CallerPhases
<1>2. RefCountIsHonest
  <2>1. \A h \in Hosts : Reservations(h) = {}
    BY DEF Init, Reservations
  <2>2. QED
    BY <2>1, FS_EmptySet DEF Init, RefCountIsHonest
<1>3. QED
  BY <1>1, <1>2 DEF Init, EmulatorInit, IInv, HostsAgree, CallersAgree, SocketsAgree,
    NoIdleHost, Running, Started

(* The synchronous part of acquire(), for a new caller and for one that    *)
(* waited.                                                                 *)
LEMMA ProceedInv ==
  ASSUME IInv, NEW c \in Callers, caller[c] \in {"idle", "waiting"}, Proceed(c)
  PROVE  IInv'
<1> USE DEF IInv
<1>1. CASE WaitForStop(c)
  <2>1. \A h \in Hosts : Reservations(h)' = Reservations(h)
    BY <1>1 DEF WaitForStop, Reservations, TypeOK
  <2>2. RefCountIsHonest' /\ NoIdleHost'
    BY <1>1, <2>1 DEF WaitForStop, RefCountIsHonest, NoIdleHost
  <2>3. TypeOK' /\ HostsAgree' /\ SocketsAgree'
    BY <1>1 DEF WaitForStop, MustWait, TypeOK, EmulatorTypeOK, HostsAgree, SocketsAgree, CallerPhases,
      emulatorVars, socketVars, Running, Started
  <2>4. CallersAgree'
    BY <1>1 DEF WaitForStop, CallersAgree, TypeOK
  <2>5. QED
    BY <2>2, <2>3, <2>4
<1>2. CASE Join(c)
  <2>1. current \in Hosts /\ host[current] \in {"starting", "up", "failed"}
    BY <1>2 DEF Join, TypeOK, HostsAgree
  <2>2. /\ RefCountIsHonest'
        /\ \A g \in Hosts : Reservations(g) # {} => Reservations(g)' # {}
        /\ refCount' \in [Hosts -> Nat]
        /\ caller' \in [Callers -> CallerPhases]
        /\ holds' \in [Callers -> Hosts \cup {None}]
    BY <1>2, <2>1, ReserveCounts DEF Join
  <2>3. NoIdleHost'
    BY <1>2, <2>2 DEF Join, NoIdleHost
  <2>4. TypeOK' /\ HostsAgree' /\ SocketsAgree'
    BY <1>2, <2>2 DEF Join, TypeOK, EmulatorTypeOK, HostsAgree, SocketsAgree,
      emulatorVars, socketVars, Running, Started
  <2>5. CallersAgree'
    BY <1>2, <2>1 DEF Join, Reserve, CallersAgree, TypeOK
  <2>6. QED
    BY <2>2, <2>3, <2>4, <2>5
<1>3. CASE ~MustWait /\ StartHost(c)
  <2>1. current = None /\ pendingStop = None /\ host[c] = "none"
    BY <1>3 DEF StartHost, MayStart, MustWait, CallersAgree
  <2>2. \A h \in Hosts : host[h] \notin {"starting", "up", "stopping"}
    BY <2>1, EmulatorAssumption DEF HostsAgree, Running, TypeOK
  <2>3. global = Native /\ original[c] = None
    BY <2>2 DEF HostsAgree, Running
  <2>4. /\ RefCountIsHonest'
        /\ Reservations(c)' # {}
        /\ refCount' \in [Hosts -> Nat]
        /\ caller' \in [Callers -> CallerPhases]
        /\ holds' \in [Callers -> Hosts \cup {None}]
    BY <1>3, ReserveCounts DEF StartHost
  <2>5. /\ current' = c /\ pendingStop' = None
        /\ \A d \in Callers : caller'[d] = IF d = c THEN "reserved" ELSE caller[d]
        /\ \A d \in Callers : holds'[d] = IF d = c THEN c ELSE holds[d]
    BY <1>3, <2>1 DEF StartHost, Reserve, TypeOK
  <2>6. CASE EmulatorStart(c) /\ host' = [host EXCEPT ![c] = "starting"]
    <3>1. /\ EmulatorTypeOK' /\ SocketsAgree'
          /\ original' = [original EXCEPT ![c] = Native]
          /\ global' = c
      BY <2>3, <2>6, StartSafe DEF TypeOK
    <3>2. TypeOK'
      BY <2>4, <2>5, <2>6, <3>1 DEF TypeOK, HostPhases
    <3>3. HostsAgree'
      BY <2>2, <2>5, <2>6, <3>1 DEF HostsAgree, Running, TypeOK, EmulatorTypeOK
    <3>4. CallersAgree' /\ NoIdleHost'
      BY <2>1, <2>2, <2>4, <2>5, <2>6 DEF CallersAgree, NoIdleHost, TypeOK
    <3>5. QED
      BY <2>4, <3>1, <3>2, <3>3, <3>4
  <2>7. CASE UNCHANGED emulatorVars /\ host' = [host EXCEPT ![c] = "failed"]
    <3>1. TypeOK' /\ SocketsAgree'
      BY <2>4, <2>5, <2>7 DEF TypeOK, EmulatorTypeOK, HostPhases, emulatorVars, socketVars, SocketsAgree, Started
    <3>2. HostsAgree'
      BY <2>1, <2>2, <2>3, <2>5, <2>7 DEF HostsAgree, Running, TypeOK, emulatorVars
    <3>3. CallersAgree' /\ NoIdleHost'
      BY <2>1, <2>2, <2>4, <2>5, <2>7 DEF CallersAgree, NoIdleHost, TypeOK
    <3>4. QED
      BY <2>4, <3>1, <3>2, <3>3
  <2>8. QED
    BY <1>3, <2>6, <2>7 DEF StartHost
<1>4. QED
  BY <1>1, <1>2, <1>3 DEF Proceed

(* Every step keeps the invariant.                                         *)
LEMMA NextInv == IInv /\ [Next]_vars => IInv'
<1> SUFFICES ASSUME IInv, [Next]_vars PROVE IInv'
  OBVIOUS
<1> USE DEF IInv
<1>1. ASSUME NEW c \in Callers, Acquire(c) PROVE IInv'
  BY <1>1, ProceedInv DEF Acquire
<1>2. ASSUME NEW c \in Callers, Resume(c) PROVE IInv'
  BY <1>2, ProceedInv DEF Resume
<1>3. ASSUME NEW c \in Callers, ResumeFails(c) PROVE IInv'
  <2>1. \A h \in Hosts : Reservations(h)' = Reservations(h)
    BY <1>3, EmulatorAssumption DEF ResumeFails, Reservations, TypeOK
  <2>2. RefCountIsHonest' /\ NoIdleHost'
    BY <1>3, <2>1 DEF ResumeFails, RefCountIsHonest, NoIdleHost
  <2>3. TypeOK' /\ HostsAgree' /\ SocketsAgree'
    BY <1>3 DEF ResumeFails, TypeOK, EmulatorTypeOK, HostsAgree, SocketsAgree, CallerPhases,
      emulatorVars, socketVars, Running, Started
  <2>4. CallersAgree'
    BY <1>3 DEF ResumeFails, CallersAgree, TypeOK
  <2>5. QED
    BY <2>2, <2>3, <2>4
<1>4. ASSUME NEW c \in Callers, Acquired(c) PROVE IInv'
  <2>1. \A h \in Hosts : Reservations(h)' = Reservations(h)
    BY <1>4 DEF Acquired, Reservations, TypeOK
  <2>2. RefCountIsHonest' /\ NoIdleHost'
    BY <1>4, <2>1 DEF Acquired, RefCountIsHonest, NoIdleHost
  <2>3. TypeOK' /\ HostsAgree' /\ SocketsAgree'
    BY <1>4 DEF Acquired, TypeOK, EmulatorTypeOK, HostsAgree, SocketsAgree, CallerPhases,
      emulatorVars, socketVars, Running, Started
  <2>4. CallersAgree'
    BY <1>4 DEF Acquired, CallersAgree, TypeOK
  <2>5. QED
    BY <2>2, <2>3, <2>4
<1>5. ASSUME NEW c \in Callers, AcquireFails(c) PROVE IInv'
  <2>0. PICK h \in Hosts : h = holds[c]
    BY <1>5 DEF AcquireFails, CallersAgree
  <2>1. host[h] = "failed" /\ caller[c] = "reserved"
    BY <1>5, <2>0 DEF AcquireFails
  <2>2. /\ refCount' = [refCount EXCEPT ![h] = @ - 1]
        /\ \A d \in Callers : caller'[d] = IF d = c THEN "failed" ELSE caller[d]
        /\ \A d \in Callers : holds'[d] = IF d = c THEN None ELSE holds[d]
        /\ caller' \in [Callers -> CallerPhases]
        /\ holds' \in [Callers -> Hosts \cup {None}]
        /\ current' \in {current, None} /\ (current' # current => current = h)
        /\ UNCHANGED <<emulatorVars, pendingStop, host>>
    BY <1>5, <2>0 DEF AcquireFails, Without, TypeOK, CallerPhases
  <2>l. /\ holds[c] = h /\ caller[c] \in {"reserved", "holding"}
        /\ refCount' = [refCount EXCEPT ![h] = @ - 1]
        /\ \A d \in Callers \ {c} : caller'[d] = caller[d] /\ holds'[d] = holds[d]
        /\ caller'[c] \in {"released", "failed"}
    BY <2>0, <2>1, <2>2
  <2>3. /\ RefCountIsHonest'
        /\ refCount' \in [Hosts -> Nat]
        /\ \A g \in Hosts \ {h} : Reservations(g)' = Reservations(g)
    BY <2>l, LeaveCounts
  <2>4. TypeOK' /\ SocketsAgree'
    BY <2>2, <2>3 DEF TypeOK, EmulatorTypeOK, SocketsAgree, emulatorVars, socketVars, Started
  <2>5. HostsAgree'
    BY <2>0, <2>1, <2>2 DEF HostsAgree, Running, emulatorVars, TypeOK
  <2>6. CallersAgree' /\ NoIdleHost'
    BY <2>0, <2>1, <2>2, <2>3 DEF CallersAgree, NoIdleHost
  <2>7. QED
    BY <2>3, <2>4, <2>5, <2>6
<1>6. ASSUME NEW c \in Callers, Release(c) PROVE IInv'
  <2>0. PICK h \in Hosts : h = holds[c]
    BY <1>6 DEF Release, MayRelease, CallersAgree
  <2>1. host[h] = "up" /\ caller[c] = "holding"
    BY <1>6, <2>0 DEF Release, MayRelease, CallersAgree
  <2>2. /\ current = h /\ original[h] = Native
        /\ \A g \in Hosts : Running(g) => g = h
        /\ \A g \in Hosts : host[g] # "stopping"
    BY <2>1, EmulatorAssumption DEF HostsAgree, Running
  <2>3. /\ refCount' = [refCount EXCEPT ![h] = @ - 1]
        /\ \A d \in Callers : caller'[d] = IF d = c THEN "released" ELSE caller[d]
        /\ caller' \in [Callers -> CallerPhases]
        /\ holds' = holds
    BY <1>6, <2>0 DEF Release, TypeOK, CallerPhases
  <2>l. /\ holds[c] = h /\ caller[c] \in {"reserved", "holding"}
        /\ refCount' = [refCount EXCEPT ![h] = @ - 1]
        /\ \A d \in Callers \ {c} : caller'[d] = caller[d] /\ holds'[d] = holds[d]
        /\ caller'[c] \in {"released", "failed"}
    BY <2>0, <2>1, <2>3
  <2>4. /\ RefCountIsHonest'
        /\ refCount' \in [Hosts -> Nat]
        /\ refCount[h] \in Nat \ {0}
        /\ Reservations(h)' = {} <=> refCount[h] = 1
        /\ \A g \in Hosts \ {h} : Reservations(g)' = Reservations(g)
    BY <2>l, LeaveCounts
  <2>5. CASE IsLast(h)
    <3>1. /\ current' = None /\ pendingStop' = h
          /\ host' = [host EXCEPT ![h] = "stopping"]
          /\ EmulatorStop(h)
      BY <1>6, <2>0, <2>2, <2>5 DEF Release, Without
    <3>2. /\ EmulatorTypeOK' /\ SocketsAgree'
          /\ global' = Native
          /\ original' = [original EXCEPT ![h] = None]
      BY <2>1, <2>2, <3>1, StopSafe DEF TypeOK
    <3>3. TypeOK'
      BY <2>1, <2>3, <2>4, <3>1, <3>2 DEF TypeOK, HostPhases
    <3>4. HostsAgree'
      BY <2>1, <2>2, <3>1, <3>2 DEF HostsAgree, Running, TypeOK, EmulatorTypeOK
    <3>5. Reservations(h)' = {}
      BY <2>4, <2>5 DEF IsLast
    <3>6. \A d \in Callers : caller'[d] \in {"reserved", "holding"} => holds[d] # h
      BY <2>3, <3>5 DEF Reservations
    <3>7. CallersAgree'
      BY <2>1, <2>3, <3>1, <3>6 DEF CallersAgree, TypeOK
    <3>8. NoIdleHost'
      BY <2>1, <2>4, <3>1 DEF NoIdleHost, TypeOK
    <3>9. QED
      BY <2>4, <3>2, <3>3, <3>4, <3>7, <3>8
  <2>6. CASE ~IsLast(h)
    <3>1. UNCHANGED <<current, host, pendingStop, emulatorVars>>
      BY <1>6, <2>0, <2>6 DEF Release
    <3>2. TypeOK' /\ SocketsAgree' /\ HostsAgree'
      BY <2>3, <2>4, <3>1 DEF TypeOK, EmulatorTypeOK, SocketsAgree, HostsAgree, Running,
        emulatorVars, socketVars, Started
    <3>3. CallersAgree'
      BY <2>3, <3>1 DEF CallersAgree
    <3>4. NoIdleHost'
      BY <2>4, <2>6, <3>1 DEF NoIdleHost, IsLast
    <3>5. QED
      BY <2>4, <3>2, <3>3, <3>4
  <2>7. QED
    BY <2>5, <2>6
<1>7. ASSUME NEW h \in Hosts, StartDone(h) PROVE IInv'
  <2>1. \A g \in Hosts : Reservations(g)' = Reservations(g)
    BY <1>7 DEF StartDone, Reservations
  <2>2. RefCountIsHonest'
    BY <1>7, <2>1 DEF StartDone, RefCountIsHonest
  <2>3. /\ current = h /\ original[h] = Native
        /\ \A g \in Hosts : Running(g) => g = h
    BY <1>7 DEF StartDone, HostsAgree, Running
  <2>4. CASE host' = [host EXCEPT ![h] = "up"] /\ UNCHANGED emulatorVars
    <3>1. TypeOK' /\ SocketsAgree' /\ HostsAgree'
      BY <1>7, <2>4 DEF StartDone, TypeOK, EmulatorTypeOK, SocketsAgree, HostsAgree, Running,
        emulatorVars, socketVars, Started, HostPhases
    <3>2. CallersAgree' /\ NoIdleHost'
      BY <1>7, <2>1, <2>4 DEF StartDone, CallersAgree, NoIdleHost, TypeOK
    <3>3. QED
      BY <2>2, <3>1, <3>2
  <2>5. CASE host' = [host EXCEPT ![h] = "failed"] /\ EmulatorStop(h)
    <3>1. /\ EmulatorTypeOK' /\ SocketsAgree'
          /\ global' = Native
          /\ original' = [original EXCEPT ![h] = None]
      BY <2>3, <2>5, StopSafe DEF TypeOK
    <3>2. TypeOK'
      BY <1>7, <2>5, <3>1 DEF StartDone, TypeOK, HostPhases
    <3>3. HostsAgree'
      BY <1>7, <2>3, <2>5, <3>1 DEF StartDone, HostsAgree, Running, TypeOK, EmulatorTypeOK
    <3>4. CallersAgree' /\ NoIdleHost'
      BY <1>7, <2>1, <2>5 DEF StartDone, CallersAgree, NoIdleHost, TypeOK
    <3>5. QED
      BY <2>2, <3>1, <3>2, <3>3, <3>4
  <2>6. QED
    BY <1>7, <2>4, <2>5 DEF StartDone, CleanUp
<1>8. ASSUME NEW h \in Hosts, StopDone(h) PROVE IInv'
  <2>1. \A g \in Hosts : Reservations(g)' = Reservations(g)
    BY <1>8 DEF StopDone, Reservations
  <2>2. RefCountIsHonest' /\ NoIdleHost'
    BY <1>8, <2>1 DEF StopDone, RefCountIsHonest, NoIdleHost, TypeOK
  <2>3. TypeOK' /\ SocketsAgree'
    BY <1>8 DEF StopDone, Cleared, TypeOK, EmulatorTypeOK, SocketsAgree, emulatorVars, socketVars,
      Started, HostPhases
  <2>4. \A g \in Hosts : host[g] = "stopping" => g = h
    BY <1>8 DEF StopDone, HostsAgree
  <2>5. HostsAgree'
    BY <1>8, <2>4, EmulatorAssumption DEF StopDone, Cleared, HostsAgree, Running, emulatorVars, TypeOK
  <2>6. CallersAgree'
    BY <1>8 DEF StopDone, CallersAgree, TypeOK
  <2>7. QED
    BY <2>2, <2>3, <2>5, <2>6
<1>9. CASE PageStep /\ UNCHANGED hostVars
  <2>1. global # Native => global \in Emulators /\ Started(global)
    BY EmulatorAssumption DEF HostsAgree, Running, Started
  <2>2. EmulatorTypeOK' /\ SocketsAgree' /\ global' = global /\ original' = original
    BY <1>9, <2>1, PageSafe DEF TypeOK
  <2>3. \A g \in Hosts : Reservations(g)' = Reservations(g)
    BY <1>9 DEF hostVars, Reservations
  <2>4. QED
    BY <1>9, <2>2, <2>3 DEF hostVars, TypeOK, HostsAgree, CallersAgree, RefCountIsHonest,
      NoIdleHost, Running
<1>10. CASE UNCHANGED vars
  <2>1. \A g \in Hosts : Reservations(g)' = Reservations(g)
    BY <1>10 DEF vars, hostVars, Reservations
  <2>2. QED
    BY <1>10, <2>1 DEF vars, hostVars, emulatorVars, socketVars, TypeOK, EmulatorTypeOK,
      HostsAgree, CallersAgree, SocketsAgree, RefCountIsHonest, NoIdleHost, Running, Started
<1>11. QED
  BY <1>1, <1>2, <1>3, <1>4, <1>5, <1>6, <1>7, <1>8, <1>9, <1>10
    DEF Next, CallerStep, HostStep

(* It holds always.                                                        *)
LEMMA AlwaysInv == Spec => []IInv
BY InitInv, NextInv, PTL DEF Spec

-----------------------------------------------------------------------------
(* The shared relay keeps its types: no acquisition is released twice.     *)
THEOREM HostTypeOK == Spec => []TypeOK
<1>1. IInv => TypeOK
  BY DEF IInv
<1>2. QED
  BY <1>1, AlwaysInv, PTL

(* No emulator ever takes another's constructor for the page's own, and    *)
(* with no relay starting or up the page has its own WebSocket back.       *)
LEMMA HostGlobalRestored == Spec => []GlobalRestored
<1>1. IInv => GlobalRestored
  BY DEF IInv, HostsAgree, GlobalRestored, Running
<1>2. QED
  BY <1>1, AlwaysInv, PTL

(* One relay at a time, and none starts into a teardown.                   *)
LEMMA HostOneHost == Spec => []OneHost
<1>1. IInv => OneHost
  BY EmulatorAssumption DEF IInv, HostsAgree, OneHost, Running
<1>2. QED
  BY <1>1, AlwaysInv, PTL

(* A relay is not stopped under a widget that holds it.                    *)
LEMMA HostHeldIsUp == Spec => []HeldHostIsUp
<1>1. IInv => HeldHostIsUp
  BY DEF IInv, HostsAgree, CallersAgree, HeldHostIsUp, Running
<1>2. QED
  BY <1>1, AlwaysInv, PTL

(* The reference count is the number of un-released acquisitions.          *)
LEMMA HostRefCount == Spec => []RefCountIsHonest
<1>1. IInv => RefCountIsHonest
  BY DEF IInv
<1>2. QED
  BY <1>1, AlwaysInv, PTL

(* A relay nobody holds or waits for is not running.                       *)
LEMMA HostNoIdleHost == Spec => []NoIdleHost
<1>1. IInv => NoIdleHost
  BY DEF IInv
<1>2. QED
  BY <1>1, AlwaysInv, PTL

(* The relay's clients are the open sockets of running emulators.          *)
LEMMA HostClients == Spec => []ClientsAreOpenSockets
<1>1. IInv => ClientsAreOpenSockets
  BY DEF IInv, SocketsAgree, ClientsAreOpenSockets
<1>2. QED
  BY <1>1, AlwaysInv, PTL

(* The page and the relay agree on the constructor and on the sockets.     *)
THEOREM HostPageAndRelayAgree == Spec => []PageAndRelayAgree
BY HostGlobalRestored, HostClients, PTL DEF PageAndRelayAgree

(* One relay at a time, up for all of its holders.                         *)
THEOREM HostHoldersServed == Spec => []HoldersServed
BY HostOneHost, HostHeldIsUp, PTL DEF HoldersServed

(* The count is exact, and nothing runs at zero.                           *)
THEOREM HostCountDecides == Spec => []CountDecides
BY HostRefCount, HostNoIdleHost, PTL DEF CountDecides

-----------------------------------------------------------------------------
(* Nobody waits in vain: what is in pendingStop is a teardown under way,   *)
(* and what a caller waits for is under way or has settled.                *)
WaitersAgree ==
  /\ pendingStop # None => host[pendingStop] = "stopping"
  /\ \A c \in Callers :
       caller[c] = "waiting" =>
         holds[c] \in Hosts /\ host[holds[c]] \in {"stopping", "stopped", "stopFailed"}

(* It holds at first.                                                      *)
LEMMA WaitersInit == Init => WaitersAgree
BY DEF Init, WaitersAgree

(* The synchronous part of acquire(): a caller that waits names the        *)
(* teardown under way, and the host a caller starts was nobody's.          *)
LEMMA WaitersProceed ==
  ASSUME IInv, WaitersAgree, NEW c \in Callers, caller[c] \in {"idle", "waiting"}, Proceed(c)
  PROVE  WaitersAgree'
<1> USE DEF IInv
<1>1. CASE WaitForStop(c)
  <2>1. pendingStop \in Hosts /\ host[pendingStop] = "stopping"
    BY <1>1 DEF WaitForStop, MustWait, WaitersAgree, TypeOK
  <2>2. /\ \A d \in Callers : caller'[d] = IF d = c THEN "waiting" ELSE caller[d]
        /\ \A d \in Callers : holds'[d] = IF d = c THEN pendingStop ELSE holds[d]
        /\ host' = host /\ pendingStop' = pendingStop
    BY <1>1 DEF WaitForStop, TypeOK
  <2>3. QED
    BY <2>1, <2>2 DEF WaitersAgree
<1>2. CASE Join(c)
  <2>1. /\ \A d \in Callers : caller'[d] = IF d = c THEN "reserved" ELSE caller[d]
        /\ \A d \in Callers \ {c} : holds'[d] = holds[d]
        /\ host' = host /\ pendingStop' = pendingStop
    BY <1>2 DEF Join, Reserve, TypeOK
  <2>2. QED
    BY <2>1 DEF WaitersAgree
<1>3. CASE ~MustWait /\ StartHost(c)
  <2>1. host[c] = "none" /\ pendingStop = None
    BY <1>3 DEF StartHost, MayStart, MustWait, CallersAgree
  <2>2. /\ \A d \in Callers : caller'[d] = IF d = c THEN "reserved" ELSE caller[d]
        /\ \A d \in Callers \ {c} : holds'[d] = holds[d]
        /\ pendingStop' = None
    BY <1>3, <2>1 DEF StartHost, Reserve, TypeOK
  <2>3. \A h \in Hosts \ {c} : host'[h] = host[h]
    BY <1>3 DEF StartHost, TypeOK
  <2>4. QED
    BY <2>1, <2>2, <2>3 DEF WaitersAgree
<1>4. QED
  BY <1>1, <1>2, <1>3 DEF Proceed

(* A caller that settles stops waiting, and the others wait as before.     *)
LEMMA WaitersSettle ==
  ASSUME WaitersAgree, TypeOK, NEW c \in Callers,
         ResumeFails(c) \/ Acquired(c) \/ AcquireFails(c)
  PROVE  WaitersAgree'
<1>1. host' = host /\ pendingStop' = pendingStop
  BY DEF ResumeFails, Acquired, AcquireFails
<1>2. caller'[c] # "waiting"
  BY DEF ResumeFails, Acquired, AcquireFails, TypeOK
<1>3. \A d \in Callers \ {c} : caller'[d] = caller[d] /\ holds'[d] = holds[d]
  BY DEF ResumeFails, Acquired, AcquireFails, TypeOK
<1>4. QED
  BY <1>1, <1>2, <1>3 DEF WaitersAgree

(* The last release hands its teardown to those who come, and it is the    *)
(* only one: nobody waits for the host it tears down.                      *)
LEMMA WaitersRelease ==
  ASSUME IInv, WaitersAgree, NEW c \in Callers, Release(c)
  PROVE  WaitersAgree'
<1> USE DEF IInv
<1>1. PICK h \in Hosts : h = holds[c]
  BY DEF Release, MayRelease, CallersAgree
<1>2. host[h] = "up"
  BY <1>1 DEF Release, MayRelease, CallersAgree
<1>3. /\ \A d \in Callers : caller'[d] = IF d = c THEN "released" ELSE caller[d]
      /\ holds' = holds
  BY DEF Release, TypeOK
<1>4. CASE IsLast(h)
  <2>1. pendingStop' = h /\ host' = [host EXCEPT ![h] = "stopping"]
    BY <1>1, <1>4 DEF Release
  <2>2. \A g \in Hosts : host'[g] = IF g = h THEN "stopping" ELSE host[g]
    BY <2>1 DEF TypeOK
  <2>3. QED
    BY <1>2, <1>3, <2>1, <2>2 DEF WaitersAgree
<1>5. CASE ~IsLast(h)
  <2>1. host' = host /\ pendingStop' = pendingStop
    BY <1>1, <1>5 DEF Release
  <2>2. QED
    BY <1>3, <2>1 DEF WaitersAgree
<1>6. QED
  BY <1>4, <1>5

(* A start that ends is no teardown, and a teardown that ends clears       *)
(* pendingStop, for it is the one pendingStop names.                       *)
LEMMA WaitersHost ==
  ASSUME IInv, WaitersAgree, NEW h \in Hosts, HostStep(h)
  PROVE  WaitersAgree'
<1> USE DEF IInv
<1>1. CASE StartDone(h)
  <2>1. /\ host[h] = "starting"
        /\ \A g \in Hosts \ {h} : host'[g] = host[g]
        /\ UNCHANGED <<pendingStop, caller, holds>>
    BY <1>1 DEF StartDone, TypeOK
  <2>2. pendingStop # h
    BY <2>1, EmulatorAssumption DEF WaitersAgree
  <2>3. pendingStop' # None => host'[pendingStop'] = "stopping"
    BY <2>1, <2>2 DEF WaitersAgree, TypeOK
  <2>4. QED
    BY <2>1, <2>3 DEF WaitersAgree
<1>2. CASE StopDone(h)
  <2>1. pendingStop = h
    BY <1>2 DEF StopDone, HostsAgree
  <2>2. /\ pendingStop' = None
        /\ UNCHANGED <<caller, holds>>
    BY <1>2, <2>1 DEF StopDone, Cleared
  <2>3. /\ host'[h] \in {"stopped", "stopFailed"}
        /\ \A g \in Hosts \ {h} : host'[g] = host[g]
    BY <1>2 DEF StopDone, TypeOK
  <2>4. QED
    BY <2>2, <2>3 DEF WaitersAgree
<1>3. QED
  BY <1>1, <1>2 DEF HostStep

(* Every step keeps it.                                                    *)
LEMMA WaitersStep == IInv /\ WaitersAgree /\ [Next]_vars => WaitersAgree'
<1> SUFFICES ASSUME IInv, WaitersAgree, [Next]_vars PROVE WaitersAgree'
  OBVIOUS
<1>1. ASSUME NEW c \in Callers, Acquire(c) \/ Resume(c) PROVE WaitersAgree'
  <2>1. Proceed(c) /\ caller[c] \in {"idle", "waiting"}
    BY <1>1 DEF Acquire, Resume
  <2>2. QED
    BY <2>1, WaitersProceed
<1>2. ASSUME NEW c \in Callers, ResumeFails(c) \/ Acquired(c) \/ AcquireFails(c) PROVE WaitersAgree'
  <2>1. TypeOK
    BY DEF IInv
  <2>2. QED
    BY <1>2, <2>1, WaitersSettle
<1>3. ASSUME NEW c \in Callers, Release(c) PROVE WaitersAgree'
  BY <1>3, WaitersRelease
<1>4. ASSUME NEW h \in Hosts, HostStep(h) PROVE WaitersAgree'
  BY <1>4, WaitersHost
<1>5. CASE UNCHANGED hostVars
  BY <1>5 DEF hostVars, WaitersAgree
<1>6. QED
  BY <1>1, <1>2, <1>3, <1>4, <1>5 DEF Next, CallerStep, vars

(* An acquire() under way is never stuck: a caller that has a place waits  *)
(* for a start that is under way or has settled, one that has none for a   *)
(* teardown that is under way or has settled, and the two cannot wait for  *)
(* each other, since the host of a waiting caller never runs again.        *)
Settled(h) == host[h] \in {"up", "failed", "stopped", "stopFailed"}
UnderWay(h) ==
  \/ host[h] = "starting" /\ current = h
  \/ host[h] = "stopping" /\ pendingStop = h

NobodyStuck ==
  \A c \in Callers :
    /\ caller[c] = "reserved" =>
         /\ host[holds[c]] \in {"starting", "up", "failed"}
         /\ UnderWay(holds[c]) \/ Settled(holds[c])
    /\ caller[c] = "waiting" =>
         /\ host[holds[c]] \in {"stopping", "stopped", "stopFailed"}
         /\ UnderWay(holds[c]) \/ Settled(holds[c])

(* No acquire() waits for something that will not come: acquireRelayHost() *)
(* of relay-host.ts, over starts and teardowns that fail or overlap.       *)
THEOREM HostNobodyStuck == Spec => []NobodyStuck
<1>1. IInv /\ WaitersAgree => NobodyStuck
  BY DEF IInv, HostsAgree, CallersAgree, WaitersAgree, NobodyStuck, UnderWay, Settled, Running
<1>2. Spec => []WaitersAgree
  BY AlwaysInv, WaitersInit, WaitersStep, PTL DEF Spec
<1>3. QED
  BY <1>1, <1>2, AlwaysInv, PTL
=============================================================================
