------------------------------- MODULE RelayHost -------------------------------
(***************************************************************************)
(* packages/timeline-embed/src/lib/relay-host.ts                           *)
(*                                                                         *)
(* The widgets of a page share one cache relay.  acquireRelayHost() starts *)
(* it for the first caller, later callers join, and the last release()     *)
(* stops it, which restores the global WebSocket.  Starting and stopping   *)
(* take time; a caller that comes while the previous host is shutting down *)
(* waits.                                                                  *)
(*                                                                         *)
(* Each caller acquires once; a host is named after the caller that        *)
(* started it.  The code up to an await runs to completion, so acquire()   *)
(* patches the constructor and reserves its place in one step, and         *)
(* release() closes the sockets and restores it in one step; what remains  *)
(* asynchronous is the rest of the start and of the teardown.              *)
(*                                                                         *)
(* A definition with the suffix _bug is a defect of the one after it that  *)
(* the properties must notice; no specification uses it.                   *)
(***************************************************************************)
EXTENDS WebSocketEmulator, FiniteSets

Callers == Emulators
Hosts == Emulators

ASSUME HostAssumption == IsFiniteSet(Callers)

VARIABLES
  current,       \* the host new callers join, or None
  pendingStop,   \* the host whose teardown a new host must wait for, or None
  host,          \* [Hosts -> the phase of the host]
  refCount,      \* [Hosts -> un-released acquisitions]
  caller,        \* [Callers -> the phase of the call]
  holds          \* [Callers -> the host it reserved, or waits for, or None]

hostVars == <<current, pendingStop, host, refCount, caller, holds>>
vars == <<emulatorVars, hostVars>>

Init ==
  /\ EmulatorInit
  /\ current = None
  /\ pendingStop = None
  /\ host = [h \in Hosts |-> "none"]
  /\ refCount = [h \in Hosts |-> 0]
  /\ caller = [c \in Callers |-> "idle"]
  /\ holds = [c \in Callers |-> None]

-----------------------------------------------------------------------------
(* The body of acquireRelayHost() once nothing is shutting down: join the  *)
(* current host or start one, and reserve a place before any await.        *)
Reserve(c, h) ==
  /\ refCount' = [refCount EXCEPT ![h] = @ + 1]
  /\ caller' = [caller EXCEPT ![c] = "reserved"]
  /\ holds' = [holds EXCEPT ![c] = h]

Join(c) ==
  /\ current # None
  /\ Reserve(c, current)
  /\ UNCHANGED <<emulatorVars, current, pendingStop, host>>

(* startHost(): the emulator patches the constructor, or the relay's       *)
(* constructor throws before that.                                         *)
MayStart == current = None

StartHost(c) ==
  /\ MayStart
  /\ current' = c
  /\ Reserve(c, c)
  /\ \/ /\ EmulatorStart(c)
        /\ host' = [host EXCEPT ![c] = "starting"]
     \/ /\ UNCHANGED emulatorVars
        /\ host' = [host EXCEPT ![c] = "failed"]
  /\ UNCHANGED pendingStop

(* while (!current && pendingStop) await pendingStop                       *)
MustWait == current = None /\ pendingStop # None

WaitForStop(c) ==
  /\ MustWait
  /\ caller' = [caller EXCEPT ![c] = "waiting"]
  /\ holds' = [holds EXCEPT ![c] = pendingStop]
  /\ UNCHANGED <<emulatorVars, current, pendingStop, host, refCount>>

Proceed(c) == WaitForStop(c) \/ (~MustWait /\ (Join(c) \/ StartHost(c)))

Acquire(c) == caller[c] = "idle" /\ Proceed(c)

(* The teardown it waited for has settled: look again, or fail with it.    *)
Resume(c) ==
  /\ caller[c] = "waiting" /\ host[holds[c]] = "stopped"
  /\ Proceed(c)

ResumeFails(c) ==
  /\ caller[c] = "waiting" /\ host[holds[c]] = "stopFailed"
  /\ caller' = [caller EXCEPT ![c] = "failed"]
  /\ holds' = [holds EXCEPT ![c] = None]
  /\ UNCHANGED <<emulatorVars, current, pendingStop, host, refCount>>

(* The rest of relay.connect(): it succeeds, or the emulator is stopped    *)
(* again and the start fails.                                              *)
CleanUp(h) == EmulatorStop(h)

StartDone(h) ==
  /\ host[h] = "starting"
  /\ \/ /\ host' = [host EXCEPT ![h] = "up"]
        /\ UNCHANGED emulatorVars
     \/ /\ host' = [host EXCEPT ![h] = "failed"]
        /\ CleanUp(h)
  /\ UNCHANGED <<current, pendingStop, refCount, caller, holds>>

(* A reserved caller gets its host; or the error, and gives its place up.  *)
Acquired(c) ==
  /\ caller[c] = "reserved" /\ host[holds[c]] = "up"
  /\ caller' = [caller EXCEPT ![c] = "holding"]
  /\ UNCHANGED <<emulatorVars, current, pendingStop, host, refCount, holds>>

Without(h) == IF current = h THEN None ELSE current

AcquireFails(c) ==
  LET h == holds[c]
  IN /\ caller[c] = "reserved" /\ host[h] = "failed"
     /\ refCount' = [refCount EXCEPT ![h] = @ - 1]
     /\ current' = IF refCount[h] = 1 THEN Without(h) ELSE current
     /\ caller' = [caller EXCEPT ![c] = "failed"]
     /\ holds' = [holds EXCEPT ![c] = None]
     /\ UNCHANGED <<emulatorVars, pendingStop, host>>

(* release(): once per acquisition; the last one stops the host.           *)
MayRelease_bug(c) == caller[c] \in {"holding", "released"}
MayRelease(c) == caller[c] = "holding"

IsLast_bug(h) == TRUE
IsLast_bug2(h) == refCount[h] < 1
IsLast(h) == refCount[h] <= 1

Release(c) ==
  LET h == holds[c]
  IN /\ MayRelease(c)
     /\ refCount' = [refCount EXCEPT ![h] = @ - 1]
     /\ caller' = [caller EXCEPT ![c] = "released"]
     /\ IF IsLast(h)
          THEN /\ current' = Without(h)
               /\ host' = [host EXCEPT ![h] = "stopping"]
               /\ pendingStop' = h
               /\ EmulatorStop(h)
          ELSE UNCHANGED <<current, host, pendingStop, emulatorVars>>
     /\ UNCHANGED holds

(* The rest of relay.disconnect() settles; `finally` clears pendingStop if *)
(* it is still this one.                                                   *)
Cleared_bug(h) == pendingStop
Cleared(h) == IF pendingStop = h THEN None ELSE pendingStop

StopDone(h) ==
  /\ host[h] = "stopping"
  /\ \E outcome \in {"stopped", "stopFailed"} : host' = [host EXCEPT ![h] = outcome]
  /\ pendingStop' = Cleared(h)
  /\ UNCHANGED <<emulatorVars, current, refCount, caller, holds>>

-----------------------------------------------------------------------------
CallerStep(c) == Resume(c) \/ ResumeFails(c) \/ Acquired(c) \/ AcquireFails(c)
HostStep(h) == StartDone(h) \/ StopDone(h)

Next ==
  \/ \E c \in Callers : Acquire(c) \/ CallerStep(c) \/ Release(c)
  \/ \E h \in Hosts : HostStep(h)
  \/ PageStep /\ UNCHANGED hostVars

(* Starts and teardowns settle, and promises are continued; nobody has to  *)
(* acquire or to release.                                                  *)
Fairness ==
  /\ \A c \in Callers : WF_vars(CallerStep(c))
  /\ \A h \in Hosts : WF_vars(HostStep(h))

Spec == Init /\ [][Next]_vars
FairSpec == Spec /\ Fairness

-----------------------------------------------------------------------------
HostPhases == {"none", "starting", "up", "failed", "stopping", "stopped", "stopFailed"}
CallerPhases == {"idle", "waiting", "reserved", "holding", "released", "failed"}

TypeOK ==
  /\ EmulatorTypeOK
  /\ current \in Hosts \cup {None}
  /\ pendingStop \in Hosts \cup {None}
  /\ host \in [Hosts -> HostPhases]
  /\ refCount \in [Hosts -> Nat]
  /\ caller \in [Callers -> CallerPhases]
  /\ holds \in [Callers -> Hosts \cup {None}]

Reservations(h) == {c \in Callers : holds[c] = h /\ caller[c] \in {"reserved", "holding"}}

(* The page's WebSocket is never lost: an emulator only ever keeps the     *)
(* page's own constructor as its original, and whenever no host is starting*)
(* or up the page has that constructor back.                               *)
GlobalRestored ==
  /\ \A h \in Hosts : original[h] \in {Native, None}
  /\ (\A h \in Hosts : host[h] \notin {"starting", "up"}) => global = Native

(* The page and the relay agree on who is connected: its constructor is    *)
(* given back, and the relay's clients are the page's open sockets.        *)
PageAndRelayAgree == GlobalRestored /\ ClientsAreOpenSockets

(* There is one relay at a time, the one new callers join, and the next one*)
(* does not start before the teardown of the last has settled.             *)
OneHost ==
  /\ \A h \in Hosts : host[h] \in {"starting", "up"} => h = current
  /\ \A h, g \in Hosts :
       host[h] = "stopping" /\ host[g] \in {"starting", "up", "stopping"} => h = g

(* Nobody is left with a relay that was stopped under it: as long as a     *)
(* caller has not released, its host is not torn down, and its WebSocket   *)
(* urls are served.                                                        *)
HeldHostIsUp ==
  \A c \in Callers : caller[c] = "holding" => host[holds[c]] = "up" /\ global = holds[c]

(* One relay at a time, and it is up for everyone who holds it.            *)
HoldersServed == OneHost /\ HeldHostIsUp

(* getRelayHostRefCount() is honest, although acquisitions fail, overlap a *)
(* start, and are released in any order.                                   *)
RefCountIsHonest == \A h \in Hosts : refCount[h] = Cardinality(Reservations(h))

(* A host nobody holds or waits for does not keep running.                 *)
NoIdleHost ==
  \A h \in Hosts : host[h] \in {"starting", "up"} => Reservations(h) # {}

(* The count decides when the relay ends, so it is exact and, at zero, the *)
(* relay is not running.                                                   *)
CountDecides == RefCountIsHonest /\ NoIdleHost

(* Every acquire() settles, also one that came during a teardown.          *)
AcquireSettles ==
  \A c \in Callers :
    caller[c] \in {"waiting", "reserved"} ~> caller[c] \in {"holding", "released", "failed"}
=============================================================================
