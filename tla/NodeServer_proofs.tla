--------------------------- MODULE NodeServer_proofs ---------------------------
(***************************************************************************)
(* What is proved of NodeServer for any clients and any number of requests *)
(* in progress.                                                            *)
(*                                                                         *)
(* IInv is the inductive invariant.  PartsAgree says which parts of the    *)
(* process work at which point of its life, LiveJobs that a request whose  *)
(* answer can still reach somebody has an open database behind it, and     *)
(* Ledger that what clients were told is in the database, open or closed.  *)
(***************************************************************************)
EXTENDS NodeServer, TLAPS

Events == SUBSET Clients
JobRecords ==
  [client : Clients \cup {None}, do : {"event", "save", "req", "health"},
   live : BOOLEAN, owed : Events, got : Events \cup {None}]

Flags ==
  /\ persistent \in BOOLEAN /\ hurried \in BOOLEAN
  /\ listening \in BOOLEAN /\ health \in BOOLEAN /\ dbOpen \in BOOLEAN

TypeOK ==
  /\ stage \in {"down", "idle", "booting", "up", "stopping"}
  /\ halt \in 0..3
  /\ db \in Events /\ acked \in Events
  /\ sockets \in [Clients -> {"none", "open", "closing"}]
  /\ jobs \subseteq JobRecords
  /\ \A j \in jobs : j.do = "health" \/ j.client \in Clients

PartsAgree ==
  /\ stage = "stopping" <=> halt # 0
  /\ stage \in {"booting", "up", "stopping"} => dbOpen
  /\ listening => stage \in {"booting", "up"} \/ halt \in {1, 2}
  /\ health => stage = "up" \/ halt = 1
  /\ \A c \in Clients : sockets[c] = "open" => listening

LiveJobs ==
  \A j \in jobs : j.live =>
    /\ dbOpen
    /\ j.do = "health" \/ (j.client \in Clients /\ sockets[j.client] = "open")
    /\ j.do = "health" /\ halt >= 2 => hurried

Ledger ==
  /\ acked \subseteq db
  /\ \A j \in jobs : j.owed \subseteq acked
  /\ \A j \in jobs : (j.live /\ Publishes(j) /\ ~Unfinished(j)) => j.got \subseteq db

(* The invariant but for the Boolean variables' types.                     *)
Core == TypeOK /\ PartsAgree /\ LiveJobs /\ Ledger /\ AnswersHaveAllAcked

IInv == Flags /\ Core

-----------------------------------------------------------------------------
(* The invariant holds at first.                                           *)
THEOREM InitInv == Init => IInv
<1> SUFFICES ASSUME Init PROVE IInv
  OBVIOUS
<1>1. TypeOK BY DEF Init, TypeOK, Events
<1>2. PartsAgree BY DEF Init, PartsAgree
<1>3. LiveJobs /\ Ledger /\ AnswersHaveAllAcked BY DEF Init, LiveJobs, Ledger, AnswersHaveAllAcked
<1>4. Flags BY Zenon DEF Init, Flags
<1>5. QED BY <1>1, <1>2, <1>3, <1>4 DEF IInv, Core

(* Every step keeps the flags of the process typed and in step.            *)
LEMMA FlagsStay ==
  ASSUME Flags, [Next]_vars
  PROVE  Flags'
<1> USE DEF Flags, servers, store, process, Passed, Gone
<1>1. CASE Start BY <1>1, Zenon DEF Start
<1>2. CASE HealthUp BY <1>2, Zenon DEF HealthUp
<1>3. CASE HealthAsked BY <1>3, Zenon DEF HealthAsked
<1>4. CASE Stop BY <1>4, Zenon DEF Stop
<1>5. CASE SecondSignal BY <1>5, Zenon DEF SecondSignal
<1>6. CASE CloseHealth BY <1>6, Zenon DEF CloseHealth
<1>7. CASE HealthStopped BY <1>7, Zenon DEF HealthStopped
<1>8. CASE CloseSockets BY <1>8, Zenon DEF CloseSockets
<1>9. CASE TransportStopped BY <1>9, Zenon DEF TransportStopped
<1>10. CASE CloseStorage BY <1>10, Zenon DEF CloseStorage
<1>11. CASE Exit BY <1>11, Zenon DEF Exit
<1>12. ASSUME NEW c \in Clients, Connect(c) \/ SocketClosed(c) \/ Receive(c, "event") \/ Receive(c, "req")
       PROVE  Flags'
  BY <1>12, Zenon DEF Connect, SocketClosed, Receive
<1>13. ASSUME NEW j \in jobs, Clear(j) \/ Save(j) \/ Read(j) \/ Reply(j)
       PROVE  Flags'
  BY <1>13, Zenon DEF Clear, Save, Read, Reply
<1>14. CASE UNCHANGED vars BY <1>14, Zenon DEF vars
<1>15. QED
  BY <1>1, <1>2, <1>3, <1>4, <1>5, <1>6, <1>7, <1>8, <1>9, <1>10, <1>11, <1>12, <1>13, <1>14 DEF Next

(* The steps of start() and of the health endpoint, and those of stop()    *)
(* that touch neither a socket nor the database.                           *)
LEMMA ProcessStep ==
  ASSUME IInv, Start \/ HealthUp \/ Stop \/ SecondSignal \/ CloseHealth \/ HealthStopped \/ TransportStopped
  PROVE  Core'
<1> USE DEF IInv, Core, TypeOK, PartsAgree, LiveJobs, Ledger, AnswersHaveAllAcked, Publishes, Unfinished,
            servers, store, process, Passed, StopOrder, At
<1>1. CASE Start BY <1>1 DEF Start
<1>2. CASE HealthUp BY <1>2 DEF HealthUp
<1>3. CASE Stop BY <1>3 DEF Stop
<1>4. CASE SecondSignal BY <1>4 DEF SecondSignal
<1>5. CASE CloseHealth BY <1>5 DEF CloseHealth
<1>6. CASE HealthStopped BY <1>6 DEF HealthStopped
<1>7. CASE TransportStopped BY <1>7 DEF TransportStopped
<1>8. QED BY <1>1, <1>2, <1>3, <1>4, <1>5, <1>6, <1>7

(* A new request: its connection decides whether it is live, and it is     *)
(* owed what is acknowledged now.                                          *)
LEMMA RequestStep ==
  ASSUME IInv, HealthAsked \/ \E c \in Clients : Receive(c, "event") \/ Receive(c, "req")
  PROVE  Core'
<1> USE DEF IInv, Core, TypeOK, PartsAgree, LiveJobs, Ledger, AnswersHaveAllAcked, Publishes, Unfinished,
            servers, store, process, Job, JobRecords, Events
<1>1. CASE HealthAsked
  <2> DEFINE new == Job(None, "health", TRUE)
  <2>1. new \in JobRecords /\ jobs' = jobs \cup {new} BY <1>1 DEF HealthAsked
  <2>2. TypeOK' BY <2>1, <1>1 DEF HealthAsked
  <2>3. PartsAgree' BY <1>1 DEF HealthAsked
  <2>4. LiveJobs'
    <3>1. dbOpen /\ halt < 2 BY <1>1 DEF HealthAsked
    <3>2. new.do = "health" /\ new.live OBVIOUS
    <3>3. UNCHANGED <<dbOpen, halt, hurried, sockets>> BY <1>1 DEF HealthAsked
    <3>4. QED BY <2>1, <3>1, <3>2, <3>3 DEF LiveJobs
  <2>5. Ledger' /\ AnswersHaveAllAcked' BY <2>1, <1>1 DEF HealthAsked
  <2>6. QED BY <2>2, <2>3, <2>4, <2>5
<1>2. ASSUME NEW c \in Clients, NEW do \in {"event", "req"}, Receive(c, do) PROVE Core'
  <2> DEFINE new == Job(c, do, sockets[c] = "open")
  <2>1. new \in JobRecords /\ new.client \in Clients /\ jobs' = jobs \cup {new} BY <1>2 DEF Receive
  <2> HIDE DEF new
  <2>2. TypeOK' BY <2>1, <1>2 DEF Receive
  <2> USE DEF new
  <2>3. PartsAgree' BY <1>2 DEF Receive
  <2>4. LiveJobs'
    <3>a. new.live = (sockets[c] = "open") BY Zenon DEF Job
    <3>b. sockets[c] = "open" => dbOpen OBVIOUS
    <3>1. new.live => dbOpen /\ sockets[c] = "open" BY <3>a, <3>b
    <3>2. new.do \in {"event", "req"} /\ new.client = c OBVIOUS
    <3>3. UNCHANGED <<dbOpen, halt, hurried, sockets>> BY <1>2 DEF Receive
    <3>4. QED BY <2>1, <3>1, <3>2, <3>3 DEF LiveJobs
  <2>5. Ledger' /\ AnswersHaveAllAcked' BY <2>1, <1>2 DEF Receive
  <2>6. QED BY <2>2, <2>3, <2>4, <2>5
<1>3. QED BY <1>1, <1>2

(* Taking connections away only takes liveness from requests.              *)
LEMMA CutKeeps ==
  ASSUME IInv, NEW gone, Cut(gone), UNCHANGED <<db, acked>>
  PROVE  /\ jobs' \subseteq JobRecords
         /\ \A k \in jobs' : \E j \in jobs :
              k.client = j.client /\ k.do = j.do /\ (k.live => j.live /\ j.client \notin gone)
         /\ Ledger' /\ AnswersHaveAllAcked'
<1>1. ASSUME NEW j \in jobs
      PROVE  LET k == [j EXCEPT !.live = j.live /\ j.client \notin gone] IN
               /\ k \in JobRecords
               /\ k.client = j.client /\ k.do = j.do /\ k.owed = j.owed /\ k.got = j.got
               /\ k.live => j.live /\ j.client \notin gone
  BY DEF IInv, Core, TypeOK, JobRecords
<1>2. \A k \in jobs' : k \in JobRecords /\ \E j \in jobs :
        /\ k.client = j.client /\ k.do = j.do /\ k.owed = j.owed /\ k.got = j.got
        /\ k.live => j.live /\ j.client \notin gone
  <2> SUFFICES ASSUME NEW k \in jobs'
               PROVE  k \in JobRecords /\ \E j \in jobs :
                        /\ k.client = j.client /\ k.do = j.do /\ k.owed = j.owed /\ k.got = j.got
                        /\ k.live => j.live /\ j.client \notin gone
    OBVIOUS
  <2>1. PICK j \in jobs : k = [j EXCEPT !.live = j.live /\ j.client \notin gone]
    BY DEF Cut
  <2>2. QED BY <1>1, <2>1
<1>3. Ledger' /\ AnswersHaveAllAcked'
  BY <1>2 DEF IInv, Core, Ledger, AnswersHaveAllAcked, Publishes, Unfinished
<1>4. QED BY <1>2, <1>3

(* Connections come and go; a request loses its audience with its own.     *)
LEMMA SocketStep ==
  ASSUME IInv, CloseSockets \/ \E c \in Clients : Connect(c) \/ SocketClosed(c)
  PROVE  Core'
<1> USE DEF IInv, Core, TypeOK, PartsAgree, LiveJobs, servers, store, process, At, StopOrder
<1>1. CASE CloseSockets
  <2>1. Cut(Clients) /\ UNCHANGED <<db, acked>> BY <1>1 DEF CloseSockets
  <2>2. TypeOK' BY <2>1, <1>1, CutKeeps DEF CloseSockets
  <2>3. PartsAgree' BY <1>1 DEF CloseSockets
  <2>4. LiveJobs' BY <2>1, <1>1, CutKeeps DEF CloseSockets
  <2>5. QED BY <2>1, <2>2, <2>3, <2>4, CutKeeps
<1>2. ASSUME NEW c \in Clients, Connect(c) PROVE Core'
  <2>1. TypeOK' /\ PartsAgree' BY <1>2 DEF Connect
  <2>2. LiveJobs' BY <1>2 DEF Connect
  <2>3. Ledger' /\ AnswersHaveAllAcked' BY <1>2 DEF Connect, Ledger, AnswersHaveAllAcked, Publishes, Unfinished
  <2>4. QED BY <2>1, <2>2, <2>3
<1>3. ASSUME NEW c \in Clients, SocketClosed(c) PROVE Core'
  <2>1. Cut({c}) /\ UNCHANGED <<db, acked>> BY <1>3 DEF SocketClosed
  <2>2. TypeOK' BY <2>1, <1>3, CutKeeps DEF SocketClosed
  <2>3. PartsAgree' BY <1>3 DEF SocketClosed
  <2>4. LiveJobs' BY <2>1, <1>3, CutKeeps DEF SocketClosed
  <2>5. QED BY <2>1, <2>2, <2>3, <2>4, CutKeeps
<1>4. QED BY <1>1, <1>2, <1>3

(* A handler goes on: it clears the place of a replaceable event, stores,  *)
(* reads or answers.                                                       *)
LEMMA HandlerStep ==
  ASSUME IInv, NEW j \in jobs, Clear(j) \/ Save(j) \/ Read(j) \/ Reply(j)
  PROVE  Core'
<1> USE DEF IInv, Core, TypeOK, PartsAgree, LiveJobs, Ledger, AnswersHaveAllAcked, Publishes, Unfinished,
            servers, store, process, Step, JobRecords, Events
<1>1. CASE Clear(j)
  <2> DEFINE e == j.client
  <2>1. ASSUME NEW k \in JobRecords
        PROVE  LET w == Without(k, e) IN
                 /\ w \in JobRecords
                 /\ w.client = k.client /\ w.do = k.do /\ w.live = k.live
                 /\ w.owed = k.owed \ {e}
                 /\ w.got = IF Publishes(k) /\ ~Unfinished(k) THEN k.got \ {e} ELSE k.got
    BY DEF Without
  <2>2. [j EXCEPT !.do = "save"] \in JobRecords OBVIOUS
  <2>3. \A w \in jobs' : w \in JobRecords /\ \E k \in jobs :
          /\ w.client = k.client /\ w.live = k.live /\ w.owed = k.owed \ {e}
          /\ \/ w.do = k.do /\ w.got = IF Publishes(k) /\ ~Unfinished(k) THEN k.got \ {e} ELSE k.got
             \/ w.do = "save" /\ w.got = None /\ k.do = "event"
    <3> SUFFICES ASSUME NEW w \in jobs'
                 PROVE  w \in JobRecords /\ \E k \in jobs :
                   /\ w.client = k.client /\ w.live = k.live /\ w.owed = k.owed \ {e}
                   /\ \/ w.do = k.do /\ w.got = IF Publishes(k) /\ ~Unfinished(k) THEN k.got \ {e} ELSE k.got
                      \/ w.do = "save" /\ w.got = None /\ k.do = "event"
      OBVIOUS
    <3> DEFINE save == [j EXCEPT !.do = "save"]
    <3>1. PICK k \in (jobs \ {j}) \cup {save} : w = Without(k, e)
      BY <1>1 DEF Clear
    <3>2. CASE k \in jobs
      BY <2>1, <3>1, <3>2
    <3>3. CASE k = save
      <4>1. save.client = j.client /\ save.live = j.live /\ save.owed = j.owed
            /\ save.got = None /\ save.do = "save" /\ j.do = "event"
        BY <1>1 DEF Clear
      <4>2. QED BY <2>1, <2>2, <3>1, <3>3, <4>1
    <3>4. QED BY <3>1, <3>2, <3>3
  <2>4. /\ db' \in {db, db \ {e}} /\ acked' = acked \ {e}
        /\ UNCHANGED <<stage, halt, hurried, listening, health, dbOpen, sockets>>
    BY <1>1 DEF Clear
  <2>5. TypeOK'
    <3>1. jobs' \subseteq JobRecords BY <2>3
    <3>2. ASSUME NEW w \in jobs' PROVE w.do = "health" \/ w.client \in Clients
      <4>1. PICK k \in jobs : w.client = k.client /\ (w.do = k.do \/ k.do = "event")
        BY <2>3
      <4>2. QED BY <4>1
    <3>3. QED BY <2>4, <3>1, <3>2
  <2>6. PartsAgree' BY <2>4
  <2>7. LiveJobs'
    <3> SUFFICES ASSUME NEW w \in jobs', w.live
                 PROVE  /\ dbOpen
                        /\ w.do = "health" \/ (w.client \in Clients /\ sockets[w.client] = "open")
                        /\ w.do = "health" /\ halt >= 2 => hurried
      BY <2>4, Zenon DEF LiveJobs
    <3>1. PICK k \in jobs :
            /\ w.client = k.client /\ w.live = k.live /\ w.owed = k.owed \ {e}
            /\ \/ w.do = k.do /\ w.got = IF Publishes(k) /\ ~Unfinished(k) THEN k.got \ {e} ELSE k.got
               \/ w.do = "save" /\ w.got = None /\ k.do = "event"
      BY <2>3
    <3>2. k.live /\ w.client = k.client /\ (w.do = k.do \/ (w.do = "save" /\ k.do = "event"))
      BY <3>1
    <3>3. QED BY <3>2
  <2>8. Ledger' /\ AnswersHaveAllAcked'
    <3>1. ASSUME NEW w \in jobs'
          PROVE  /\ w.owed \subseteq acked \ {e}
                 /\ (w.live /\ Publishes(w) /\ ~Unfinished(w)) => w.got \subseteq db \ {e}
                 /\ (w.live /\ w.do \in {"req", "health"} /\ ~Unfinished(w)) => w.owed \subseteq w.got
      <4>1. PICK k \in jobs :
              /\ w.client = k.client /\ w.live = k.live /\ w.owed = k.owed \ {e}
              /\ \/ w.do = k.do /\ w.got = IF Publishes(k) /\ ~Unfinished(k) THEN k.got \ {e} ELSE k.got
                 \/ w.do = "save" /\ w.got = None /\ k.do = "event"
        BY <2>3
      <4>2. /\ k.owed \subseteq acked
            /\ (k.live /\ Publishes(k) /\ ~Unfinished(k)) => k.got \subseteq db
            /\ (k.live /\ k.do \in {"req", "health"} /\ ~Unfinished(k)) => k.owed \subseteq k.got
        OBVIOUS
      <4>3. QED BY <4>1, <4>2
    <3>2. acked \ {e} \subseteq db' /\ db \ {e} \subseteq db' BY <2>4
    <3>3. QED BY <2>4, <3>1, <3>2
  <2>9. QED BY <2>5, <2>6, <2>7, <2>8
<1>2. CASE Save(j)
  <2>a. j.client \in Clients BY <1>2 DEF Save
  <2>1. \E got \in Events :
          /\ Step(j, [j EXCEPT !.got = got])
          /\ db' \in {db, db \cup {j.client}}
          /\ dbOpen => got \subseteq db'
    <3>1. CASE dbOpen /\ db' = db \cup {j.client} /\ Step(j, [j EXCEPT !.got = {j.client}])
      BY <3>1, <2>a
    <3>2. CASE ~dbOpen /\ db' = db /\ Step(j, [j EXCEPT !.got = {j.client} \cap Replaceable])
      <4>1. {j.client} \cap Replaceable \in Events BY <2>a
      <4>2. QED BY <3>2, <4>1, Zenon
    <3>3. CASE db' = db /\ Step(j, [j EXCEPT !.got = {}])
      <4>1. {} \in Events OBVIOUS
      <4>2. {} \subseteq db' OBVIOUS
      <4>3. QED BY <3>3, <4>1, <4>2, Zenon
    <3>4. QED BY <1>2, <3>1, <3>2, <3>3, Zenon DEF Save
  <2>b. PICK got \in Events :
          /\ Step(j, [j EXCEPT !.got = got])
          /\ db' \in {db, db \cup {j.client}}
          /\ dbOpen => got \subseteq db'
    BY <2>1
  <2> DEFINE k == [j EXCEPT !.got = got]
  <2>2. /\ k \in JobRecords /\ jobs' = (jobs \ {j}) \cup {k}
        /\ k.client = j.client /\ k.do = j.do /\ k.live = j.live /\ k.owed = j.owed /\ k.got = got
    BY <2>b
  <2> HIDE DEF k
  <2>3. TypeOK' BY <1>2, <2>a, <2>b, <2>2 DEF Save
  <2>4. PartsAgree' BY <1>2 DEF Save
  <2>5. LiveJobs' BY <1>2, <2>2 DEF Save
  <2>6. Ledger' BY <1>2, <2>a, <2>b, <2>2 DEF Save
  <2>7. AnswersHaveAllAcked' BY <1>2, <2>a, <2>b, <2>2 DEF Save
  <2>8. QED BY <2>3, <2>4, <2>5, <2>6, <2>7
<1>3. CASE Read(j)
  <2>1. /\ Unfinished(j) /\ j.do \in {"req", "health"} /\ j.owed \subseteq acked /\ acked \subseteq db
        /\ UNCHANGED <<persistent, process, servers, store, sockets, acked>>
    BY <1>3 DEF Read
  <2>2. PICK k \in JobRecords :
          /\ jobs' = (jobs \ {j}) \cup {k}
          /\ k.client = j.client /\ k.do = j.do /\ k.live = j.live
          /\ k.owed \subseteq j.owed /\ (dbOpen => k.owed \subseteq k.got)
    <3>1. CASE Step(j, [j EXCEPT !.got = IF dbOpen THEN db ELSE {}])
      <4> DEFINE k == [j EXCEPT !.got = IF dbOpen THEN db ELSE {}]
      <4>1. k \in JobRecords OBVIOUS
      <4>2. /\ k.client = j.client /\ k.do = j.do /\ k.live = j.live
            /\ k.owed = j.owed /\ k.got = IF dbOpen THEN db ELSE {}
        OBVIOUS
      <4>3. jobs' = (jobs \ {j}) \cup {k} BY <3>1
      <4> HIDE DEF k
      <4>4. QED BY <2>1, <4>1, <4>2, <4>3
    <3>2. CASE Step(j, [j EXCEPT !.got = {}, !.owed = {}])
      <4> DEFINE k == [j EXCEPT !.got = {}, !.owed = {}]
      <4>1. k \in JobRecords OBVIOUS
      <4>2. /\ k.client = j.client /\ k.do = j.do /\ k.live = j.live
            /\ k.owed = {} /\ k.got = {}
        OBVIOUS
      <4>3. jobs' = (jobs \ {j}) \cup {k} BY <3>2
      <4> HIDE DEF k
      <4>4. QED BY <4>1, <4>2, <4>3
    <3>3. QED BY <1>3, <3>1, <3>2 DEF Read
  <2>3. TypeOK' /\ PartsAgree' BY <2>1, <2>2
  <2>4. LiveJobs' BY <2>1, <2>2
  <2>5. Ledger' /\ AnswersHaveAllAcked' BY <2>1, <2>2
  <2>6. QED BY <2>3, <2>4, <2>5
<1>4. CASE Reply(j) BY <1>4 DEF Reply
<1>5. QED BY <1>1, <1>2, <1>3, <1>4

(* The database is closed, or the process ends.                            *)
LEMMA EndStep ==
  ASSUME IInv, CloseStorage \/ Exit
  PROVE  Core'
<1> USE DEF IInv, Core, TypeOK, PartsAgree, LiveJobs, Ledger, AnswersHaveAllAcked, Publishes, Unfinished,
            servers, store, process, Gone, Passed, JobRecords, Events, At, StopOrder
<1>1. CASE Exit
  <2>1. TypeOK' /\ PartsAgree' BY <1>1 DEF Exit
  <2>2. QED BY <1>1, <2>1 DEF Exit
<1>2. CASE CloseStorage /\ hurried
  <2>1. TypeOK' /\ PartsAgree' BY <1>2 DEF CloseStorage
  <2>2. QED BY <1>2, <2>1 DEF CloseStorage
<1>3. CASE CloseStorage /\ ~hurried
  <2>1. halt = 3 /\ \A j \in jobs : ~j.live BY <1>3 DEF CloseStorage
  <2>2. \A k \in jobs' : k \in JobRecords /\ ~k.live /\ k.owed \subseteq acked'
    BY <1>3, <2>1 DEF CloseStorage
  <2>3. TypeOK' BY <1>3, <2>1, <2>2 DEF CloseStorage
  <2>4. PartsAgree' BY <1>3, <2>1 DEF CloseStorage
  <2>5. QED BY <1>3, <2>1, <2>2, <2>3, <2>4 DEF CloseStorage
<1>4. QED BY <1>1, <1>2, <1>3

(* Every step keeps the invariant.                                         *)
THEOREM StepInv == IInv /\ [Next]_vars => IInv'
<1> SUFFICES ASSUME IInv, [Next]_vars PROVE IInv'
  OBVIOUS
<1>1. CASE Next
  <2>1. Core' BY <1>1, ProcessStep, RequestStep, SocketStep, HandlerStep, EndStep DEF Next
  <2>2. QED BY <2>1, FlagsStay DEF IInv
<1>2. CASE UNCHANGED vars
  <2>1. Core'
    BY <1>2 DEF vars, process, servers, store, IInv, Core, TypeOK, PartsAgree, LiveJobs, Ledger,
                AnswersHaveAllAcked, Publishes, Unfinished
  <2>2. QED BY <2>1, FlagsStay DEF IInv
<1>3. QED BY <1>1, <1>2

(* Every event a client had its OK for before a REQ or a health check came *)
(* is in the answer (AnswersHaveAllAcked), because the database is closed  *)
(* after everything whose answer could still be heard                      *)
(* (nostr-relay-server.ts:127).                                            *)
THEOREM ServerAnswersHaveAllAcked == Spec => []AnswersHaveAllAcked
<1>1. IInv => AnswersHaveAllAcked
  BY DEF IInv, Core
<1>2. QED BY <1>1, InitInv, StepInv, PTL DEF Spec

(* No client's acknowledgement outlives its event (Ledger), and no request *)
(* that can still be answered meets a closed database (LiveJobs).          *)
THEOREM ServerKeepsItsWord == Spec => [](Ledger /\ LiveJobs)
<1>1. IInv => Ledger /\ LiveJobs
  BY DEF IInv, Core
<1>2. QED BY <1>1, InitInv, StepInv, PTL DEF Spec
=============================================================================
