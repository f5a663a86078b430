--------------------------- MODULE TestRunProofs ---------------------------
(***************************************************************************)
(* Theorems about TestRun, for any number of clients, strays and threads,  *)
(* the last of them that it implements TestSession.                        *)
(***************************************************************************)
EXTENDS TestRun, ControlPlaneProofs, FiniteSetTheorems

(***************************************************************************)
(* The inductive invariant, on top of that of the control plane.           *)
(***************************************************************************)

ThreadTypes ==
  /\ main \in [Procs -> MainStates]
  /\ wrk \in [Procs -> [Threads -> WrkStates]]
  /\ stop \in [Procs -> SUBSET Threads]
  /\ lsn \in SUBSET Threads

\* Where the workers of a process can be, by where its main thread is.
WorkersAt(m) ==
  CASE m = "init"    -> {"none"}
    [] m = "start"   -> {"none", "setup", "ready"}
    [] m = "barrier" -> {"setup", "ready"}
    [] m = "wait"    -> {"run"}
    [] m = "exit"    -> {"exit"}
    [] OTHER         -> {"run", "exit"}

Phases ==
  /\ \A p \in Procs : \A t \in Threads : wrk[p][t] \in WorkersAt(main[p])
  /\ \A p \in Procs : main[p] \notin {"stop", "join", "exit"} => stop[p] = {}

\* How far a main thread is in the control plane and in run_main_thread.
InStep ==
  /\ \A c \in Clients : cli[c] \in {"start", "connected", "auth"} => main[c] = "init"
  /\ \A c \in Clients : cli[c] = "joined" => main[c] \notin {"init", "exit"}
  /\ \A c \in Clients : cli[c] = "notified" => main[c] = "exit"
  /\ srv = "start" <=> main[Server] = "init"
  /\ srv = "listen" => main[Server] \in {"start", "barrier", "wait"}
  /\ srv \in {"accept", "wait"} => main[Server] = "wait"
  /\ srv = "done" => main[Server] \in {"wait", "stop", "join", "exit"}

Listening ==
  srv # "fatal" => lsn = { t \in Threads : wrk[Server][t] \in {"ready", "run"} }

TRInv == CPInv /\ ThreadTypes /\ Phases /\ InStep /\ Listening

----------------------------------------------------------------------------

LEMMA ProcsType ==
  /\ Server \in Procs /\ Server \notin Clients
  /\ \A c \in Clients : c \in Procs /\ c # Server
BY CPAssumption DEF Procs, Peers

LEMMA TRInit == Init => TRInv
<1> SUFFICES ASSUME Init PROVE TRInv
  OBVIOUS
<1>1. CPInv
  BY InvInit DEF Init
<1>2. ThreadTypes
  BY DEF Init, ThreadTypes, MainStates, WrkStates
<1>3. Phases
  BY DEF Init, Phases, WorkersAt
<1>4. InStep
  BY ProcsType DEF Init, CPInit, InStep
<1>5. Listening
  BY ProcsType DEF Init, Listening
<1> QED
  BY <1>1, <1>2, <1>3, <1>4, <1>5 DEF TRInv

\* An accepted client that has not notified keeps the server in its wait.
LEMMA JoinedKeepsWait ==
  ASSUME CPInv, NEW c \in Clients, cli[c] = "joined"
  PROVE  srv \in {"accept", "wait", "fatal"}
<1>1. c \in Elems(client_fds)
  BY DEF CPInv, Flight, Accepted
<1>2. Len(client_fds) # 0
  BY <1>1 DEF CPInv, CPTypeOK, Elems
<1>3. srv \notin {"start", "listen"}
  BY <1>2 DEF CPInv, Counts
<1>4. ASSUME srv = "done" PROVE FALSE
  <2>1. \A i \in 1..Len(client_fds) : cli[client_fds[i]] = "notified"
    BY <1>4 DEF CPInv, Counts
  <2> QED
    BY <1>1, <2>1 DEF Elems
<1> QED
  BY <1>3, <1>4 DEF CPInv, CPTypeOK, SrvStates

LEMMA InvServiceUp == TRInv => ServiceUp
<1> SUFFICES ASSUME TRInv, NEW c \in Clients, cli[c] = "joined", Alive(Server)
             PROVE  lsn = Threads /\ \A t \in Threads : wrk[Server][t] = "run"
  BY DEF ServiceUp
<1>1. srv \in {"accept", "wait"}
  BY JoinedKeepsWait DEF TRInv, Alive
<1>2. main[Server] = "wait"
  BY <1>1 DEF TRInv, InStep
<1>3. \A t \in Threads : wrk[Server][t] = "run"
  BY <1>2, ProcsType DEF TRInv, Phases, WorkersAt
<1> QED
  BY <1>1, <1>3 DEF TRInv, Listening

\* Every step of the test is one of the control plane, or leaves it alone.
LEMMA ControlPlaneStep == TRInv /\ [Next]_vars => [CPNext]_cpVars
<1> SUFFICES ASSUME TRInv, [Next]_vars PROVE [CPNext]_cpVars
  OBVIOUS
<1>1. CASE ServerStart \/ ServerWaits \/ ServerGivesUp
  BY <1>1 DEF ServerStart, ServerWaits, ServerGivesUp, CPNext, CtrlServerStep
<1>2. ASSUME NEW p \in Procs, ProcStep(p) PROVE [CPNext]_cpVars
  BY <1>2 DEF ProcStep, MainAtBarrier, BarrierOpens, Done, AllTold, MainStops,
              CreateWorker, TellToStop, CPNext, CtrlClientStep, Procs
<1>3. ASSUME NEW c \in Clients, ClientStart(c) PROVE [CPNext]_cpVars
  BY <1>3 DEF ClientStart, CPNext, CtrlClientStep
<1>4. ASSUME NEW c \in Clients, ClientConnectRefused(c) PROVE [CPNext]_cpVars
  <2>1. cli[c] # "fatal" /\ lsn = {} /\ \E t \in Threads : wrk[c][t] = "setup"
    BY <1>4, ProcsType DEF ClientConnectRefused, Alive
  <2>2. main[c] \in {"start", "barrier"}
    BY <2>1, ProcsType DEF TRInv, ThreadTypes, MainStates, Phases, WorkersAt
  <2>3. cli[c] = "joined"
    BY <2>1, <2>2 DEF TRInv, InStep, CPInv, CPTypeOK, CliStates
  <2>4. srv = "fatal"
    BY <2>1, <2>3, InvServiceUp, ThreadsAssumption DEF ServiceUp, Alive
  <2>5. CtrlClientDies(c)
    BY <1>4, <2>3, <2>4 DEF ClientConnectRefused, CtrlClientDies
  <2> QED
    BY <2>5 DEF CPNext
<1>5. ASSUME NEW c \in Clients, ClientDies(c) PROVE [CPNext]_cpVars
  BY <1>5 DEF ClientDies, CPNext
<1>6. ASSUME NEW p \in Strays, StrayStep(p) PROVE [CPNext]_cpVars
  BY <1>6 DEF StrayStep, CPNext
<1>7. ASSUME NEW t \in Threads, ServerWorkerReady(t) PROVE [CPNext]_cpVars
  BY <1>7 DEF ServerWorkerReady
<1>8. ASSUME NEW c \in Clients, NEW t \in Threads, ClientWorkerReady(c, t)
      PROVE  [CPNext]_cpVars
  BY <1>8 DEF ClientWorkerReady
<1>9. CASE Finished \/ UNCHANGED vars
  BY <1>9 DEF Finished, vars
<1>10. ASSUME NEW p \in Procs, NEW t \in Threads, WorkerStops(p, t) PROVE [CPNext]_cpVars
  BY <1>10 DEF WorkerStops
<1> QED
  BY <1>1, <1>2, <1>3, <1>4, <1>5, <1>6, <1>7, <1>8, <1>9, <1>10, ProcsType
     DEF Next, ServerStep, ClientStep


----------------------------------------------------------------------------
(* One lemma for each kind of step: control plane only, main thread, worker. *)

Local == ThreadTypes /\ Phases /\ InStep /\ Listening

\* A step that leaves the threads alone and moves only clients: no client
\* goes forward except along ctrl_connect, and any may exit.
LEMMA ClientOnly ==
  ASSUME TRInv, UNCHANGED threadVars, UNCHANGED srv, NEW c \in Clients,
         cli' = [cli EXCEPT ![c] = "fatal"]
         \/ (/\ cli[c] \in {"start", "connected"}
             /\ \E to \in {"connected", "auth", "fatal"} : cli' = [cli EXCEPT ![c] = to])
  PROVE  Local'
<1>1. main' = main /\ wrk' = wrk /\ stop' = stop /\ lsn' = lsn /\ srv' = srv
  BY DEF threadVars
<1>2. ThreadTypes' /\ Phases' /\ Listening'
  BY <1>1 DEF TRInv, ThreadTypes, Phases, Listening
<1>3. cli \in [Clients -> CliStates]
  BY DEF TRInv, CPInv, CPTypeOK
<1>4. \A d \in Clients : d # c => cli'[d] = cli[d]
  BY <1>3
<1>5. cli'[c] = "fatal" \/ (cli[c] \in {"start", "connected"} /\ cli'[c] \in {"connected", "auth"})
  BY <1>3
<1>6. InStep'
  <2>1. \A d \in Clients : cli'[d] \in {"start", "connected", "auth"} => main[d] = "init"
    BY <1>4, <1>5 DEF TRInv, InStep
  <2>2. \A d \in Clients : cli'[d] = "joined" => main[d] \notin {"init", "exit"}
    BY <1>4, <1>5 DEF TRInv, InStep
  <2>3. \A d \in Clients : cli'[d] = "notified" => main[d] = "exit"
    BY <1>4, <1>5 DEF TRInv, InStep
  <2> QED
    BY <1>1, <2>1, <2>2, <2>3 DEF TRInv, InStep
<1> QED
  BY <1>2, <1>6 DEF Local

\* A step of the server's control plane while its main thread waits.
LEMMA ServerOnly ==
  ASSUME TRInv, main[Server] = "wait", UNCHANGED cli, srv # "fatal",
         UNCHANGED <<main, wrk, stop>>,
         \/ srv' \in {"accept", "wait", "done"} /\ UNCHANGED lsn
         \/ srv' = "fatal" /\ lsn' = {}
  PROVE  Local'
<1>1. main' = main /\ wrk' = wrk /\ stop' = stop /\ cli' = cli
  OBVIOUS
<1>2. ThreadTypes' /\ Phases'
  BY <1>1 DEF TRInv, ThreadTypes, Phases
<1>3. InStep'
  BY <1>1 DEF TRInv, InStep
<1>4. Listening'
  BY <1>1 DEF TRInv, Listening
<1> QED
  BY <1>2, <1>3, <1>4 DEF Local

\* A step of one main thread: its new place allows what its workers do.
LEMMA MainOnly ==
  ASSUME TRInv, NEW p \in Procs, NEW to \in MainStates,
         main' = [main EXCEPT ![p] = to], UNCHANGED <<wrk, stop, lsn>>,
         srv # "fatal" \/ srv' = "fatal",
         \A t \in Threads : wrk[p][t] \in WorkersAt(to),
         to \in {"stop", "join", "exit"} \/ main[p] \notin {"stop", "join", "exit"}
  PROVE  ThreadTypes' /\ Phases' /\ Listening'
<1>1. wrk' = wrk /\ stop' = stop /\ lsn' = lsn
  OBVIOUS
<1>2. ThreadTypes'
  BY <1>1 DEF TRInv, ThreadTypes
<1>3. main'[p] = to /\ \A q \in Procs : q # p => main'[q] = main[q]
  BY DEF TRInv, ThreadTypes
<1>4. \A q \in Procs : \A t \in Threads : wrk[q][t] \in WorkersAt(main'[q])
  <2> SUFFICES ASSUME NEW q \in Procs, NEW t \in Threads
               PROVE  wrk[q][t] \in WorkersAt(main'[q])
    OBVIOUS
  <2>1. CASE q = p
    BY <1>3, <2>1
  <2>2. CASE q # p
    <3>1. wrk[q][t] \in WorkersAt(main[q])
      BY DEF TRInv, Phases
    <3> QED
      BY <1>3, <2>2, <3>1
  <2> QED
    BY <2>1, <2>2
<1>5. \A q \in Procs : main'[q] \notin {"stop", "join", "exit"} => stop[q] = {}
  BY <1>3 DEF TRInv, Phases
<1>6. Phases'
  BY <1>1, <1>4, <1>5 DEF Phases, WorkersAt
<1>7. Listening'
  BY <1>1 DEF TRInv, Listening
<1> QED
  BY <1>2, <1>6, <1>7

\* A step of one worker, its process being where that step is allowed.
LEMMA WorkerOnly ==
  ASSUME TRInv, UNCHANGED cpVars, UNCHANGED <<main, stop>>,
         NEW p \in Procs, NEW t \in Threads, NEW to \in WrkStates,
         wrk' = [wrk EXCEPT ![p][t] = to],
         to \in WorkersAt(main[p]),
         IF p = Server
           THEN lsn' = IF to \in {"ready", "run"} THEN lsn \cup {t} ELSE lsn \ {t}
           ELSE lsn' = lsn
  PROVE  Local'
<1>1. main' = main /\ stop' = stop /\ cli' = cli /\ srv' = srv
  BY DEF cpVars
<1>2. wrk \in [Procs -> [Threads -> WrkStates]]
  BY DEF TRInv, ThreadTypes
<1>3. wrk'[p][t] = to
  BY <1>2
<1>4. \A q \in Procs, u \in Threads : q # p \/ u # t => wrk'[q][u] = wrk[q][u]
  BY <1>2
<1>5. wrk' \in [Procs -> [Threads -> WrkStates]]
  BY <1>2
<1>6. ThreadTypes'
  BY <1>1, <1>5 DEF TRInv, ThreadTypes
<1>7. Phases'
  <2>1. ASSUME NEW q \in Procs, NEW u \in Threads
        PROVE  wrk'[q][u] \in WorkersAt(main[q])
    <3>1. wrk[q][u] \in WorkersAt(main[q])
      BY DEF TRInv, Phases
    <3> QED
      BY <1>3, <1>4, <3>1
  <2> QED
    BY <1>1, <2>1 DEF TRInv, Phases, WorkersAt
<1>8. InStep'
  BY <1>1 DEF TRInv, InStep
<1>9. Listening'
  <2> SUFFICES ASSUME srv # "fatal"
               PROVE  lsn' = { u \in Threads : wrk'[Server][u] \in {"ready", "run"} }
    BY <1>1 DEF Listening
  <2>1. lsn = { u \in Threads : wrk[Server][u] \in {"ready", "run"} }
    BY DEF TRInv, Listening
  <2>2. CASE p # Server
    BY <1>4, <2>1, <2>2, ProcsType
  <2>3. CASE p = Server
    BY <1>3, <1>4, <2>1, <2>3
  <2> QED
    BY <2>2, <2>3
<1> QED
  BY <1>6, <1>7, <1>8, <1>9 DEF Local

----------------------------------------------------------------------------
(* The steps of the main thread.                                           *)

\* A step of one main thread that does not change the control plane.
LEMMA MainLocal ==
  ASSUME TRInv, UNCHANGED <<cpVars, wrk, stop, lsn>>,
         NEW p \in Procs, NEW from, NEW to \in MainStates,
         Goto(p, from, to),
         \A t \in Threads : wrk[p][t] \in WorkersAt(to),
         from \notin {"init", "exit"}, to # "init",
         to \in {"stop", "join", "exit"} \/ from \notin {"stop", "join", "exit"},
         p \in Clients => to # "exit",
         p = Server => \/ srv = "listen" /\ to \in {"start", "barrier", "wait"}
                       \/ srv = "done" /\ to \in {"stop", "join", "exit"}
  PROVE  Local'
<1>1. srv' = srv /\ cli' = cli
  BY DEF cpVars
<1>2. main[p] = from /\ main' = [main EXCEPT ![p] = to]
  BY DEF Goto
<1>3. ThreadTypes' /\ Phases' /\ Listening'
  BY <1>1, <1>2, MainOnly
<1>4. main'[p] = to /\ \A q \in Procs : q # p => main'[q] = main[q]
  BY <1>2 DEF TRInv, ThreadTypes
<1>5. InStep'
  <2>1. \A c \in Clients : c \in Procs /\ c # Server
    BY ProcsType
  <2>2. CASE p = Server
    <3>1. \A c \in Clients : main'[c] = main[c]
      BY <1>4, <2>1, <2>2
    <3>2. srv # "fatal"
      BY <2>2 DEF Goto, Alive
    <3> QED
      BY <1>1, <1>2, <1>4, <2>2, <3>1, <3>2 DEF TRInv, InStep
  <2>3. CASE p # Server
    <3>1. p \in Clients /\ main'[Server] = main[Server]
      BY <1>4, <2>3, ProcsType DEF Procs
    <3>2. cli[p] = "joined"
      BY <1>2, <2>3, <3>1 DEF Goto, Alive, TRInv, InStep, CPInv, CPTypeOK, CliStates
    <3> QED
      BY <1>1, <1>2, <1>4, <2>1, <3>1, <3>2 DEF TRInv, InStep
  <2> QED
    BY <2>2, <2>3
<1> QED
  BY <1>3, <1>5 DEF Local

\* A step of one client's main thread together with its control plane.
LEMMA MainWithClient ==
  ASSUME TRInv, NEW c \in Clients, NEW to \in {"start", "exit"}, NEW at,
         UNCHANGED <<srv, wrk, stop, lsn>>,
         cli' = [cli EXCEPT ![c] = at], main' = [main EXCEPT ![c] = to],
         \/ to = "start" /\ at = "joined" /\ main[c] = "init"
         \/ to = "exit" /\ at \in {"notified", "fatal"} /\ Joined(c)
  PROVE  Local'
<1>1. c \in Procs /\ c # Server /\ to \in MainStates /\ srv' = srv
  BY ProcsType DEF MainStates
<1>2. \A t \in Threads : wrk[c][t] \in WorkersAt(to)
  BY <1>1 DEF TRInv, Phases, WorkersAt, Joined
<1>3. ThreadTypes' /\ Phases' /\ Listening'
  BY <1>1, <1>2, MainOnly
<1>4. main'[c] = to /\ \A q \in Procs : q # c => main'[q] = main[q]
  BY <1>1 DEF TRInv, ThreadTypes
<1>5. cli'[c] = at /\ \A d \in Clients : d # c => cli'[d] = cli[d]
  BY DEF TRInv, CPInv, CPTypeOK
<1>6. main'[Server] = main[Server] /\ \A d \in Clients : d # c => main'[d] = main[d]
  BY <1>1, <1>4, ProcsType
<1>7. InStep'
  <2>1. \A d \in Clients : cli'[d] \in {"start", "connected", "auth"} => main'[d] = "init"
    BY <1>4, <1>5, <1>6 DEF TRInv, InStep
  <2>2. \A d \in Clients : cli'[d] = "joined" => main'[d] \notin {"init", "exit"}
    BY <1>4, <1>5, <1>6 DEF TRInv, InStep
  <2>3. \A d \in Clients : cli'[d] = "notified" => main'[d] = "exit"
    BY <1>4, <1>5, <1>6 DEF TRInv, InStep
  <2> QED
    BY <1>1, <1>6, <2>1, <2>2, <2>3 DEF TRInv, InStep
<1> QED
  BY <1>3, <1>7 DEF Local

\* The barrier releases the main thread and all workers at once.
LEMMA BarrierStep ==
  ASSUME TRInv, NEW p \in Procs, BarrierOpens(p)
  PROVE  Local'
<1>1. /\ main[p] = "barrier" /\ main' = [main EXCEPT ![p] = "wait"]
      /\ wrk' = [wrk EXCEPT ![p] = [t \in Threads |-> "run"]]
      /\ \A t \in Threads : wrk[p][t] = "ready"
      /\ Alive(p)
      /\ stop' = stop /\ lsn' = lsn /\ srv' = srv /\ cli' = cli
  BY DEF BarrierOpens, Goto, cpVars
<1>2. main'[p] = "wait" /\ \A q \in Procs : q # p => main'[q] = main[q]
  BY <1>1 DEF TRInv, ThreadTypes
<1>3. /\ \A t \in Threads : wrk'[p][t] = "run"
      /\ \A q \in Procs : q # p => wrk'[q] = wrk[q]
  BY <1>1 DEF TRInv, ThreadTypes
<1>4. ThreadTypes'
  BY <1>1 DEF TRInv, ThreadTypes, MainStates, WrkStates
<1>5. Phases'
  <2>1. ASSUME NEW q \in Procs, NEW t \in Threads
        PROVE  wrk'[q][t] \in WorkersAt(main'[q])
    <3>1. wrk[q][t] \in WorkersAt(main[q])
      BY DEF TRInv, Phases
    <3>2. CASE q = p
      BY <1>2, <1>3, <3>2 DEF WorkersAt
    <3> QED
      BY <1>2, <1>3, <3>1, <3>2
  <2>2. \A q \in Procs : main'[q] \notin {"stop", "join", "exit"} => stop'[q] = {}
    BY <1>1, <1>2 DEF TRInv, Phases
  <2> QED
    BY <2>1, <2>2 DEF Phases, WorkersAt
<1>6. InStep'
  <2>1. CASE p = Server
    <3>1. \A c \in Clients : main'[c] = main[c]
      BY <1>2, <2>1, ProcsType
    <3>2. srv \in {"listen"}
      BY <1>1, <2>1 DEF TRInv, InStep, Alive, CPInv, CPTypeOK, SrvStates
    <3> QED
      BY <1>1, <1>2, <2>1, <3>1, <3>2 DEF TRInv, InStep
  <2>2. CASE p # Server
    <3>1. p \in Clients /\ main'[Server] = main[Server]
      BY <1>2, <2>2, ProcsType DEF Procs
    <3>2. \A d \in Clients : d # p => main'[d] = main[d]
      BY <1>2, ProcsType
    <3> QED
      BY <1>1, <1>2, <3>1, <3>2 DEF TRInv, InStep
  <2> QED
    BY <2>1, <2>2
<1>7. Listening'
  <2>1. CASE p = Server
    BY <1>1, <1>3, <2>1 DEF TRInv, Listening
  <2>2. CASE p # Server
    BY <1>1, <1>3, <2>2, ProcsType DEF TRInv, Listening
  <2> QED
    BY <2>1, <2>2
<1> QED
  BY <1>4, <1>5, <1>6, <1>7 DEF Local

\* The steps every process takes.
LEMMA ProcStepLocal ==
  ASSUME TRInv, NEW p \in Procs, ProcStep(p)
  PROVE  Local'
<1>1. CASE MainAtBarrier(p)
  <2>1. Goto(p, "start", "barrier") /\ UNCHANGED <<cpVars, wrk, stop, lsn>>
    BY <1>1 DEF MainAtBarrier
  <2>2. main[p] = "start" /\ Alive(p)
    BY <2>1 DEF Goto
  <2>3. \A t \in Threads : wrk[p][t] \in WorkersAt("barrier")
    BY <1>1, <2>2 DEF MainAtBarrier, TRInv, Phases, WorkersAt
  <2>4. p = Server => srv = "listen"
    BY <2>2 DEF TRInv, InStep, Alive, CPInv, CPTypeOK, SrvStates
  <2> QED
    BY <2>1, <2>3, <2>4, MainLocal DEF MainStates
<1>2. CASE BarrierOpens(p)
  BY <1>2, BarrierStep
<1>3. CASE Done(p)
  <2>1. Goto(p, "wait", "stop") /\ UNCHANGED <<cpVars, wrk, stop, lsn>> /\ (p = Server => srv = "done")
    BY <1>3 DEF Done
  <2>2. \A t \in Threads : wrk[p][t] \in WorkersAt("stop")
    BY <2>1 DEF Goto, TRInv, Phases, WorkersAt
  <2> QED
    BY <2>1, <2>2, MainLocal DEF MainStates
<1>4. CASE AllTold(p)
  <2>1. Goto(p, "stop", "join") /\ UNCHANGED <<cpVars, wrk, stop, lsn>>
    BY <1>4 DEF AllTold
  <2>2. \A t \in Threads : wrk[p][t] \in WorkersAt("join")
    BY <2>1 DEF Goto, TRInv, Phases, WorkersAt
  <2>3. p = Server => srv = "done"
    BY <2>1 DEF Goto, Alive, TRInv, InStep, CPInv, CPTypeOK, SrvStates
  <2> QED
    BY <2>1, <2>2, <2>3, MainLocal DEF MainStates
<1>5. CASE MainStops(p)
  <2>1. Goto(p, "join", "exit") /\ Joined(p) /\ UNCHANGED <<wrk, stop, lsn>>
    BY <1>5 DEF MainStops
  <2>2. CASE p = Server
    <3>1. UNCHANGED cpVars
      BY <1>5, <2>2 DEF MainStops
    <3>2. \A t \in Threads : wrk[p][t] \in WorkersAt("exit")
      BY <2>1 DEF Joined, WorkersAt
    <3>3. srv = "done"
      BY <2>1, <2>2 DEF Goto, Alive, TRInv, InStep, CPInv, CPTypeOK, SrvStates
    <3> QED
      BY <2>1, <2>2, <3>1, <3>2, <3>3, MainLocal, ProcsType DEF MainStates
  <2>3. CASE p # Server
    <3>1. p \in Clients /\ CtrlNotifyServer(p)
      BY <1>5, <2>3 DEF MainStops, Procs
    <3>2. PICK at \in {"notified", "fatal"} : cli' = [cli EXCEPT ![p] = at]
      BY <3>1 DEF CtrlNotifyServer, Write
    <3>3. UNCHANGED srv
      BY <3>1 DEF CtrlNotifyServer
    <3>4. main' = [main EXCEPT ![p] = "exit"]
      BY <2>1 DEF Goto
    <3> QED
      BY <2>1, <3>1, <3>2, <3>3, <3>4, MainWithClient
  <2> QED
    BY <2>2, <2>3
<1>6. ASSUME NEW t \in Threads, CreateWorker(p, t) PROVE Local'
  <2>1. /\ main[p] = "start" /\ wrk[p][t] = "none"
        /\ wrk' = [wrk EXCEPT ![p][t] = "setup"]
        /\ UNCHANGED <<cpVars, main, stop, lsn>>
    BY <1>6 DEF CreateWorker, Move
  <2>2. p = Server => srv = "listen"
    BY <1>6, <2>1 DEF CreateWorker, Move, Alive, TRInv, InStep, CPInv, CPTypeOK, SrvStates
  <2>3. p = Server => lsn' = lsn \ {t}
    BY <2>1, <2>2 DEF TRInv, Listening
  <2> QED
    BY <2>1, <2>3, WorkerOnly DEF WorkersAt, WrkStates
<1>7. ASSUME NEW t \in Threads, TellToStop(p, t) PROVE Local'
  <2>1. /\ main' = main /\ wrk' = wrk /\ lsn' = lsn /\ srv' = srv /\ cli' = cli
        /\ main[p] = "stop" /\ stop' = [stop EXCEPT ![p] = @ \cup {t}]
    BY <1>7 DEF TellToStop, cpVars
  <2>2. ThreadTypes'
    BY <2>1 DEF TRInv, ThreadTypes
  <2>3. \A q \in Procs : q # p => stop'[q] = stop[q]
    BY <2>1 DEF TRInv, ThreadTypes
  <2>4. Phases'
    BY <2>1, <2>3 DEF TRInv, Phases
  <2>5. InStep' /\ Listening'
    BY <2>1 DEF TRInv, InStep, Listening
  <2> QED
    BY <2>2, <2>4, <2>5 DEF Local
<1> QED
  BY <1>1, <1>2, <1>3, <1>4, <1>5, <1>6, <1>7 DEF ProcStep

\* A worker leaves its event loop.
LEMMA WorkerStopsLocal ==
  ASSUME TRInv, NEW p \in Procs, NEW t \in Threads, WorkerStops(p, t)
  PROVE  Local'
<1>1. /\ t \in stop[p] /\ wrk' = [wrk EXCEPT ![p][t] = "exit"] /\ wrk[p][t] = "run"
      /\ UNCHANGED <<cpVars, main, stop>>
      /\ lsn' = IF p = Server THEN lsn \ {t} ELSE lsn
  BY DEF WorkerStops, Move
<1>2. main[p] \in {"stop", "join", "exit"}
  BY <1>1 DEF TRInv, Phases
<1>3. "exit" \in WorkersAt(main[p])
  BY <1>2 DEF WorkersAt
<1> QED
  BY <1>1, <1>3, WorkerOnly DEF WrkStates

\* The steps of the server's code alone.
LEMMA ServerStepLocal ==
  ASSUME TRInv, ServerStart \/ ServerWaits \/ ServerGivesUp
                \/ \E t \in Threads : ServerWorkerReady(t)
  PROVE  Local'
<1>1. CASE ServerStart
  <2>1. /\ srv = "start" /\ srv' = "listen" /\ cli' = cli
        /\ main' = [main EXCEPT ![Server] = "start"] /\ main[Server] = "init"
        /\ UNCHANGED <<wrk, stop, lsn>>
    BY <1>1 DEF ServerStart, CtrlListen, Goto
  <2>2. \A t \in Threads : wrk[Server][t] \in WorkersAt("start")
    BY <2>1, ProcsType DEF TRInv, Phases, WorkersAt
  <2>3. ThreadTypes' /\ Phases' /\ Listening'
    BY <2>1, <2>2, ProcsType, MainOnly DEF MainStates
  <2>4. main'[Server] = "start" /\ \A c \in Clients : main'[c] = main[c]
    BY <2>1, ProcsType DEF TRInv, ThreadTypes
  <2>5. InStep'
    BY <2>1, <2>4 DEF TRInv, InStep
  <2> QED
    BY <2>3, <2>5 DEF Local
<1>2. CASE ServerWaits
  <2>1. main[Server] = "wait" /\ UNCHANGED threadVars
    BY <1>2 DEF ServerWaits
  <2>2. srv # "fatal" /\ srv' \in {"accept", "wait", "done"} /\ cli' = cli
    BY <1>2 DEF ServerWaits, WaitUntilDone, CtrlAcceptValid, CtrlAcceptInvalid,
                CtrlAcceptReadError, Reject, Accepting, CtrlWaitClient
  <2> QED
    BY <2>1, <2>2, ServerOnly DEF threadVars
<1>3. CASE ServerGivesUp
  BY <1>3, ServerOnly DEF ServerGivesUp, CtrlAcceptSendFails, CtrlWaitClientFails, Accepting
<1>4. ASSUME NEW t \in Threads, ServerWorkerReady(t) PROVE Local'
  <2>1. /\ wrk' = [wrk EXCEPT ![Server][t] = "ready"] /\ wrk[Server][t] = "setup"
        /\ UNCHANGED <<cpVars, main, stop>> /\ lsn' = lsn \cup {t}
    BY <1>4 DEF ServerWorkerReady, Move
  <2>2. wrk[Server][t] \in WorkersAt(main[Server])
    BY ProcsType DEF TRInv, Phases
  <2>3. "ready" \in WorkersAt(main[Server])
    BY <2>1, <2>2 DEF WorkersAt
  <2> QED
    BY <2>1, <2>3, WorkerOnly, ProcsType DEF WrkStates
<1> QED
  BY <1>1, <1>2, <1>3, <1>4

\* The steps of a client's code alone, and its death.
LEMMA ClientStepLocal ==
  ASSUME TRInv, NEW c \in Clients,
         ClientStart(c) \/ ClientConnectRefused(c) \/ ClientDies(c)
         \/ \E t \in Threads : ClientWorkerReady(c, t)
  PROVE  Local'
<1>1. CASE ClientStart(c)
  <2>1. CASE CtrlRecvMagic(c) /\ Goto(c, "init", "start") /\ UNCHANGED <<wrk, stop, lsn>>
    BY <2>1, MainWithClient DEF CtrlRecvMagic, Goto
  <2>2. CASE /\ CtrlConnect(c) \/ CtrlConnectFails(c) \/ CtrlSendSecret(c) \/ CtrlRecvMagicFails(c)
             /\ UNCHANGED threadVars
    <3>1. UNCHANGED srv
      BY <2>2 DEF CtrlConnect, CtrlConnectFails, CtrlSendSecret, CtrlRecvMagicFails
    <3>2. \/ cli' = [cli EXCEPT ![c] = "fatal"]
          \/ /\ cli[c] \in {"start", "connected"}
             /\ \E to \in {"connected", "auth", "fatal"} : cli' = [cli EXCEPT ![c] = to]
      <4>1. CASE CtrlConnect(c)
        BY <4>1 DEF CtrlConnect
      <4>2. CASE CtrlConnectFails(c)
        BY <4>2 DEF CtrlConnectFails
      <4>3. CASE CtrlSendSecret(c)
        BY <4>3 DEF CtrlSendSecret, Write
      <4>4. CASE CtrlRecvMagicFails(c)
        BY <4>4 DEF CtrlRecvMagicFails, Die
      <4> QED
        BY <2>2, <4>1, <4>2, <4>3, <4>4
    <3> QED
      BY <2>2, <3>1, <3>2, ClientOnly
  <2> QED
    BY <1>1, <2>1, <2>2 DEF ClientStart
<1>2. CASE ClientConnectRefused(c)
  BY <1>2, ClientOnly DEF ClientConnectRefused, Die
<1>3. CASE ClientDies(c)
  BY <1>3, ClientOnly DEF ClientDies, CtrlClientDies, Die
<1>4. ASSUME NEW t \in Threads, ClientWorkerReady(c, t) PROVE Local'
  <2>1. /\ wrk' = [wrk EXCEPT ![c][t] = "ready"] /\ wrk[c][t] = "setup"
        /\ UNCHANGED <<cpVars, main, stop>> /\ lsn' = lsn
    BY <1>4 DEF ClientWorkerReady, Move
  <2>2. wrk[c][t] \in WorkersAt(main[c])
    BY ProcsType DEF TRInv, Phases
  <2>3. "ready" \in WorkersAt(main[c])
    BY <2>1, <2>2 DEF WorkersAt
  <2> QED
    BY <2>1, <2>3, WorkerOnly, ProcsType DEF WrkStates
<1> QED
  BY <1>1, <1>2, <1>3, <1>4

\* A step that moves neither a thread nor a control-plane state.
LEMMA Unmoved ==
  ASSUME TRInv, UNCHANGED <<main, wrk, stop, lsn, srv, cli>>
  PROVE  Local'
<1>1. main' = main /\ wrk' = wrk /\ stop' = stop /\ lsn' = lsn /\ srv' = srv /\ cli' = cli
  OBVIOUS
<1>2. ThreadTypes' /\ Phases'
  BY <1>1 DEF TRInv, ThreadTypes, Phases
<1>3. InStep' /\ Listening'
  BY <1>1 DEF TRInv, InStep, Listening
<1> QED
  BY <1>2, <1>3 DEF Local

LEMMA TRStep == TRInv /\ [Next]_vars => TRInv'
<1> SUFFICES ASSUME TRInv, [Next]_vars PROVE TRInv'
  OBVIOUS
<1>1. CPInv'
  BY ControlPlaneStep, InvStep DEF TRInv
<1> SUFFICES Local'
  BY <1>1 DEF TRInv, Local
<1>2. CASE ServerStep
  <2>1. CASE ProcStep(Server)
    BY <2>1, ProcsType, ProcStepLocal
  <2> QED
    BY <1>2, <2>1, ServerStepLocal DEF ServerStep
<1>3. ASSUME NEW c \in Clients, ClientStep(c) \/ ClientDies(c) PROVE Local'
  <2>1. CASE ProcStep(c)
    BY <2>1, ProcsType, ProcStepLocal
  <2> QED
    BY <1>3, <2>1, ClientStepLocal DEF ClientStep
<1>4. ASSUME NEW p \in Strays, StrayStep(p) PROVE Local'
  BY <1>4, Unmoved DEF StrayStep, StrayConnect, StraySend, StrayHangUp, threadVars
<1>5. CASE Finished \/ UNCHANGED vars
  BY <1>5, Unmoved DEF Finished, vars, cpVars, threadVars
<1>6. CASE Next
  BY <1>2, <1>3, <1>4, <1>5, <1>6, WorkerStopsLocal DEF Next
<1> QED
  BY <1>5, <1>6

----------------------------------------------------------------------------
(* The theorems.                                                           *)

\* The invariant holds in every run of every test.
THEOREM TestRunInv == Spec => []TRInv
<1>1. Init => TRInv
  BY TRInit
<1>2. TRInv /\ [Next]_vars => TRInv'
  BY TRStep
<1> QED
  BY <1>1, <1>2, PTL DEF Spec

\* Type correctness of the threads, the control plane and the listening sockets.
THEOREM TestRunTypes == Spec => []TypeOK
<1>1. TRInv => TypeOK
  BY DEF TRInv, CPInv, ThreadTypes, TypeOK
<1> QED
  BY <1>1, TestRunInv, PTL

\* While a client is in its test the server's workers all listen and run,
\* unless the server has exited: client_connect in workload.c is never refused
\* by a server that is still there.
THEOREM ServiceIsUp == Spec => []ServiceUp
BY InvServiceUp, TestRunInv, PTL

\* No worker moves data before all workers of its process are set up.
THEOREM BarrierHolds == Spec => []TogetherPastBarrier
<1>1. TRInv => TogetherPastBarrier
  <2> SUFFICES ASSUME TRInv, NEW p \in Procs, NEW t \in Threads, NEW u \in Threads,
                      wrk[p][t] \in {"run", "exit"}
               PROVE  wrk[p][u] \in {"run", "exit"}
    BY DEF TogetherPastBarrier
  <2>1. wrk[p][t] \in WorkersAt(main[p]) /\ wrk[p][u] \in WorkersAt(main[p])
    BY DEF TRInv, Phases
  <2> QED
    BY <2>1 DEF WorkersAt
<1> QED
  BY <1>1, TestRunInv, PTL

\* The server stops its workers only after every client has joined its own.
THEOREM ServerIsLast == Spec => []ServerStopsLast
<1>1. TRInv => ServerStopsLast
  <2> SUFFICES ASSUME TRInv, main[Server] \in {"stop", "join", "exit"}, Alive(Server)
               PROVE  /\ Len(client_fds) = NumClients
                      /\ \A i \in 1..NumClients : \A t \in Threads : wrk[client_fds[i]][t] = "exit"
    BY DEF ServerStopsLast
  <2>1. srv = "done"
    BY DEF Alive, TRInv, InStep, CPInv, CPTypeOK, SrvStates
  <2>2. /\ Len(client_fds) = NumClients
        /\ \A i \in 1..Len(client_fds) : cli[client_fds[i]] = "notified"
    BY <2>1 DEF TRInv, CPInv, Counts
  <2>3. Elems(client_fds) \subseteq Clients
    BY DEF TRInv, CPInv, Flight, Accepted
  <2>4. ASSUME NEW i \in 1..NumClients, NEW t \in Threads
        PROVE  wrk[client_fds[i]][t] = "exit"
    <3>1. client_fds[i] \in Clients /\ cli[client_fds[i]] = "notified"
      BY <2>2, <2>3 DEF Elems
    <3>2. main[client_fds[i]] = "exit"
      BY <3>1 DEF TRInv, InStep
    <3> QED
      BY <3>1, <3>2, ProcsType DEF TRInv, Phases, WorkersAt
  <2> QED
    BY <2>2, <2>4
<1> QED
  BY <1>1, TestRunInv, PTL

\* A process notifies and reports only when none of its workers runs.
THEOREM ReportsWithoutWorkers == Spec => []ReportsAlone
<1>1. TRInv => ReportsAlone
  BY ProcsType DEF TRInv, InStep, Phases, WorkersAt, ReportsAlone
<1> QED
  BY <1>1, TestRunInv, PTL

\* The test uses the control plane as its specification says.
THEOREM RunsControlPlane == Spec => ControlPlaneSpec
<1>1. Init => CPInit
  BY DEF Init
<1>2. TRInv /\ [Next]_vars => [CPNext]_cpVars
  BY ControlPlaneStep
<1> QED
  BY <1>1, <1>2, TestRunInv, PTL DEF Spec, ControlPlaneSpec, CPSpec

----------------------------------------------------------------------------
(***************************************************************************)
(* A test run implements TestSession.                                      *)
(***************************************************************************)

\* The variables of TestSession, as TestRun implements them.
Service ==
  IF srv = "fatal" THEN "aborted"
  ELSE IF main[Server] = "wait" THEN "up"
  ELSE IF main[Server] \in {"stop", "join", "exit"} THEN "closed"
  ELSE "down"

StatusOf(c) ==
  IF cli[c] = "joined" THEN "active"
  ELSE IF main[c] = "exit" /\ cli[c] = "notified" THEN "finished"
  ELSE IF main[c] # "init" THEN "lost"
  ELSE "idle"

Status == [c \in Clients |-> StatusOf(c)]

\* On top of TRInv: who takes part was accepted, also once it is dead.
TookPart == \A c \in Clients : main[c] # "init" => Accepted(c)

----------------------------------------------------------------------------
(* Counting.                                                               *)

\* client_fds counts as many clients as it is long.
LEMMA CountClients ==
  ASSUME CPInv
  PROVE  /\ IsFiniteSet(Elems(client_fds))
         /\ Cardinality(Elems(client_fds)) = Len(client_fds)
<1> DEFINE n == Len(client_fds)
           E == Elems(client_fds)
<1>1. n \in Nat /\ client_fds \in [1..n -> Peers]
  BY DEF CPInv, CPTypeOK
<1>2. client_fds \in [1..n -> E]
  BY <1>1 DEF Elems
<1>3. client_fds \in Injection(1..n, E)
  BY <1>2 DEF CPInv, QueuesDisjoint, NoRepeats, Injection, IsInjective
<1>4. client_fds \in Surjection(1..n, E)
  BY <1>2 DEF Surjection, Elems
<1>5. ExistsBijection(1..n, E)
  BY <1>3, <1>4 DEF ExistsBijection, Bijection
<1>6. IsFiniteSet(1..n) /\ Cardinality(1..n) = n
  <2>1. /\ IsFiniteSet(1..n)
        /\ Cardinality(1..n) = IF 1 > n THEN 0 ELSE n - 1 + 1
    BY <1>1, FS_Interval
  <2> HIDE DEF n
  <2> QED
    BY <1>1, <2>1
<1> QED
  BY <1>5, <1>6, FS_Bijection

\* Taking part is having left ctrl_connect.
LEMMA IdleIsInit ==
  ASSUME TRInv, NEW c \in Clients
  PROVE  StatusOf(c) # "idle" <=> main[c] # "init"
BY DEF TRInv, InStep, StatusOf

LEMMA TakingIs == TRInv => Session!Taking(Status) = { c \in Clients : main[c] # "init" }
BY IdleIsInit DEF Session!Taking, Status

\* While an accepted client has not notified, the server is up or has exited.
LEMMA AcceptedKeepsUp ==
  ASSUME TRInv, NEW c \in Clients, Accepted(c), cli[c] # "notified"
  PROVE  Service \in {"up", "aborted"}
<1>1. c \in Elems(client_fds)
  BY DEF Accepted
<1>2. Len(client_fds) # 0
  BY <1>1 DEF TRInv, CPInv, CPTypeOK, Elems
<1>3. srv \notin {"start", "listen"}
  BY <1>2 DEF TRInv, CPInv, Counts
<1>4. ASSUME srv = "done" PROVE FALSE
  <2>1. \A i \in 1..Len(client_fds) : cli[client_fds[i]] = "notified"
    BY <1>4 DEF TRInv, CPInv, Counts
  <2> QED
    BY <1>1, <2>1 DEF Elems
<1>5. srv \in {"accept", "wait", "fatal"}
  BY <1>3, <1>4 DEF TRInv, CPInv, CPTypeOK, SrvStates
<1> QED
  BY <1>5 DEF TRInv, InStep, Service

----------------------------------------------------------------------------
(* Who takes part was accepted.                                            *)

\* Nobody is taken off client_fds.
LEMMA AcceptedStays ==
  ASSUME TRInv, [Next]_vars, NEW c \in Clients, Accepted(c)
  PROVE  Accepted(c)'
<1>1. [CPNext]_cpVars
  BY ControlPlaneStep
<1>2. CASE CtrlAcceptValid
  <2>1. /\ Candidate \in Peers /\ client_fds \in Seq(Peers)
        /\ client_fds' = Append(client_fds, Candidate)
    BY <1>2, TailMembers DEF CtrlAcceptValid, Accepting, Candidate, TRInv, CPInv, CPTypeOK
  <2>2. Elems(client_fds') = Elems(client_fds) \cup {Candidate}
    BY <2>1, AppendMembers
  <2> QED
    BY <2>2 DEF Accepted
<1>3. CASE ~CtrlAcceptValid
  <2>1. client_fds' = client_fds
    BY <1>1, <1>3
       DEF CPNext, cpVars, CtrlServerStep, CtrlListen, WaitUntilDone, CtrlAcceptSendFails,
           CtrlAcceptInvalid, CtrlAcceptReadError, Reject, CtrlWaitClient, CtrlWaitClientFails,
           CtrlClientStep, CtrlConnect, CtrlConnectFails, CtrlSendSecret, CtrlRecvMagic,
           CtrlRecvMagicFails, CtrlNotifyServer, CtrlClientDies, StrayConnect, StraySend,
           StrayHangUp, CPFinished
  <2> QED
    BY <2>1 DEF Accepted
<1> QED
  BY <1>2, <1>3

\* A main thread leaves "init" when ctrl_connect returns.
LEMMA LeavesInit ==
  ASSUME TRInv, [Next]_vars, NEW c \in Clients, main[c] = "init", main'[c] # "init"
  PROVE  CtrlRecvMagic(c)
<1> USE ProcsType
<1>0. main \in [Procs -> MainStates]
  BY DEF TRInv, ThreadTypes
<1>1. CASE UNCHANGED main
  BY <1>1
<1>2. ASSUME NEW p \in Procs, NEW from, NEW to, Goto(p, from, to) PROVE p = c /\ from = "init"
  BY <1>0, <1>2 DEF Goto
<1>3. ASSUME NEW p \in Procs, ProcStep(p) PROVE FALSE
  BY <1>1, <1>2, <1>3
     DEF ProcStep, MainAtBarrier, BarrierOpens, Done, AllTold, MainStops, CreateWorker,
         TellToStop
<1>4. CASE ServerStep
  BY <1>1, <1>2, <1>3, <1>4
     DEF ServerStep, ServerStart, ServerWaits, ServerGivesUp, ServerWorkerReady, threadVars
<1>5. ASSUME NEW d \in Clients, ClientStep(d) \/ ClientDies(d) PROVE CtrlRecvMagic(c)
  BY <1>1, <1>2, <1>3, <1>5
     DEF ClientStep, ClientStart, ClientConnectRefused, ClientWorkerReady, ClientDies, threadVars
<1>6. CASE \/ \E p \in Strays : StrayStep(p)
           \/ \E p \in Procs, t \in Threads : WorkerStops(p, t)
           \/ Finished \/ UNCHANGED vars
  BY <1>1, <1>6 DEF StrayStep, WorkerStops, Finished, vars, threadVars
<1> QED
  BY <1>4, <1>5, <1>6 DEF Next

LEMMA TookPartStep == TRInv /\ TookPart /\ [Next]_vars => TookPart'
<1> SUFFICES ASSUME TRInv, TookPart, [Next]_vars, NEW c \in Clients, main'[c] # "init"
             PROVE  Accepted(c)'
  BY DEF TookPart
<1>1. CASE main[c] # "init"
  BY <1>1, AcceptedStays DEF TookPart
<1>2. CASE main[c] = "init"
  <2>1. CtrlRecvMagic(c)
    BY <1>2, LeavesInit
  <2>2. Accepted(c)
    BY <2>1, PeersType DEF CtrlRecvMagic, TRInv, CPInv, Flight
  <2> QED
    BY <2>2, AcceptedStays
<1> QED
  BY <1>1, <1>2

----------------------------------------------------------------------------
(* The steps of the session.                                               *)

SessionStep == [Session!Next]_(Session!vars)

LEMMA SameCardinality == \A S : Session!Cardinality(S) = Cardinality(S)
BY DEF Session!Cardinality, Cardinality

\* How Service and Status change, in terms of TestSession.
LEMMA Stutters == UNCHANGED <<Service, Status>> => SessionStep
BY DEF SessionStep, Session!vars, Service, Status, StatusOf

LEMMA Opens ==
  Service = "down" /\ Service' = "up" /\ UNCHANGED Status => SessionStep
BY DEF SessionStep, Session!Next, Session!Open, Service, Status, StatusOf

LEMMA Aborts ==
  Service = "up" /\ Service' = "aborted" /\ UNCHANGED Status => SessionStep
BY DEF SessionStep, Session!Next, Session!Abort, Service, Status, StatusOf

LEMMA Closes ==
  ASSUME Service = "up", Service' = "closed", UNCHANGED Status,
         \A c \in Clients : StatusOf(c) \in {"idle", "finished"},
         Cardinality(Session!Taking(Status)) = NumClients
  PROVE  SessionStep
<1>1. \A c \in Clients : Status[c] \in {"idle", "finished"}
  BY DEF Status
<1> QED
  BY <1>1, SameCardinality DEF SessionStep, Session!Next, Session!Close, Service, Status, StatusOf

LEMMA Joins ==
  ASSUME NEW c \in Clients, Service \in {"up", "aborted"}, UNCHANGED Service,
         StatusOf(c) = "idle", Status' = [Status EXCEPT ![c] = "active"],
         Cardinality(Session!Taking(Status)) < NumClients
  PROVE  SessionStep
<1>1. Status[c] = "idle"
  BY DEF Status
<1>2. Session!Join(c)
  BY <1>1, SameCardinality DEF Session!Join, Service, Status, StatusOf
<1> QED
  BY <1>2 DEF SessionStep, Session!Next

LEMMA Leaves ==
  ASSUME NEW c \in Clients, UNCHANGED Service, StatusOf(c) = "active",
         NEW to \in {"finished", "lost"}, Status' = [Status EXCEPT ![c] = to]
  PROVE  SessionStep
<1>1. Status[c] = "active"
  BY DEF Status
<1>2. Session!Leave(c)
  BY <1>1 DEF Session!Leave, Service, Status, StatusOf
<1> QED
  BY <1>2 DEF SessionStep, Session!Next

\* Status changes only where cli or main of a client does.
LEMMA OneStatus ==
  ASSUME NEW c \in Clients, \A d \in Clients : d # c => cli'[d] = cli[d] /\ main'[d] = main[d]
  PROVE  Status' = [Status EXCEPT ![c] = StatusOf(c)']
BY DEF Status, StatusOf

LEMMA SameStatus ==
  ASSUME \A d \in Clients : StatusOf(d)' = StatusOf(d)
  PROVE  UNCHANGED Status
BY DEF Status

\* A step of the server: its clients' main threads stand still.
LEMMA ServerSession ==
  ASSUME TRInv, TookPart, ServerStep
  PROVE  SessionStep
<1> USE ProcsType
<1>0. main \in [Procs -> MainStates] /\ srv \in SrvStates
  BY DEF TRInv, ThreadTypes, CPInv, CPTypeOK
<1>1. ASSUME UNCHANGED cli, \A c \in Clients : main'[c] = main[c] PROVE UNCHANGED Status
  BY <1>1 DEF Status, StatusOf
<1>2. ASSUME NEW from, NEW to, Goto(Server, from, to)
      PROVE  /\ srv # "fatal" /\ main[Server] = from /\ main'[Server] = to
             /\ \A c \in Clients : main'[c] = main[c]
  BY <1>0, <1>2 DEF Goto, Alive
<1>3. CASE UNCHANGED <<srv, cli, main>>
  BY <1>1, <1>3, Stutters DEF Service
<1>4. CASE ServerStart
  <2>1. Goto(Server, "init", "start") /\ UNCHANGED cli /\ srv' = "listen"
    BY <1>4 DEF ServerStart, CtrlListen
  <2> QED
    BY <1>1, <1>2, <2>1, Stutters DEF Service
<1>5. CASE ServerWaits
  <2>1. main[Server] = "wait" /\ UNCHANGED <<cli, main>> /\ srv # "fatal" /\ srv' # "fatal"
    BY <1>5 DEF ServerWaits, threadVars, WaitUntilDone, CtrlAcceptValid, CtrlAcceptInvalid,
                CtrlAcceptReadError, Reject, Accepting, CtrlWaitClient
  <2> QED
    BY <1>1, <2>1, Stutters DEF Service
<1>6. CASE ServerGivesUp
  <2>1. main[Server] = "wait" /\ UNCHANGED <<cli, main>> /\ srv # "fatal" /\ srv' = "fatal"
    BY <1>6 DEF ServerGivesUp, CtrlAcceptSendFails, CtrlWaitClientFails, Accepting
  <2> QED
    BY <1>1, <2>1, Aborts DEF Service
<1>7. CASE MainAtBarrier(Server)
  <2>1. Goto(Server, "start", "barrier") /\ UNCHANGED <<cli, srv>>
    BY <1>7 DEF MainAtBarrier, cpVars
  <2> QED
    BY <1>1, <1>2, <2>1, Stutters DEF Service
<1>8. CASE BarrierOpens(Server)
  <2>1. Goto(Server, "barrier", "wait") /\ UNCHANGED <<cli, srv>>
    BY <1>8 DEF BarrierOpens, cpVars
  <2> QED
    BY <1>1, <1>2, <2>1, Opens DEF Service
<1>9. CASE Done(Server)
  <2>1. Goto(Server, "wait", "stop") /\ UNCHANGED <<cli, srv>> /\ srv = "done"
    BY <1>9 DEF Done, cpVars
  <2>2. /\ Len(client_fds) = NumClients
        /\ \A i \in 1..Len(client_fds) : cli[client_fds[i]] = "notified"
    BY <2>1 DEF TRInv, CPInv, Counts
  <2>3. \A c \in Clients : Accepted(c) => cli[c] = "notified" /\ main[c] = "exit"
    BY <2>2 DEF Accepted, Elems, TRInv, InStep
  <2>4. \A c \in Clients : StatusOf(c) \in {"idle", "finished"}
    <3>1. ASSUME NEW c \in Clients, main[c] # "init" PROVE StatusOf(c) = "finished"
      BY <2>3, <3>1 DEF TookPart, StatusOf
    <3>2. ASSUME NEW c \in Clients, main[c] = "init" PROVE StatusOf(c) = "idle"
      BY <3>2, IdleIsInit
    <3> QED
      BY <3>1, <3>2
  <2>5. Session!Taking(Status) = Elems(client_fds)
    <3>1. Elems(client_fds) \subseteq Clients
      BY DEF TRInv, CPInv, Flight
    <3> QED
      BY <2>3, <3>1, TakingIs DEF TookPart, Accepted
  <2>6. Cardinality(Session!Taking(Status)) = NumClients
    BY <2>2, <2>5, CountClients DEF TRInv
  <2> QED
    BY <1>1, <1>2, <2>1, <2>4, <2>6, Closes DEF Service
<1>10. CASE AllTold(Server) \/ MainStops(Server)
  <2>1. /\ Goto(Server, "stop", "join") \/ Goto(Server, "join", "exit")
        /\ UNCHANGED <<cli, srv>>
    BY <1>10 DEF AllTold, MainStops, cpVars
  <2> QED
    BY <1>1, <1>2, <2>1, Stutters DEF Service
<1>11. ASSUME NEW t \in Threads,
              CreateWorker(Server, t) \/ TellToStop(Server, t) \/ ServerWorkerReady(t)
       PROVE  SessionStep
  BY <1>3, <1>11 DEF CreateWorker, TellToStop, ServerWorkerReady, cpVars
<1> QED
  BY <1>4, <1>5, <1>6, <1>7, <1>8, <1>9, <1>10, <1>11 DEF ServerStep, ProcStep

\* A step of a client: the server's main thread stands still.
LEMMA ClientSession ==
  ASSUME TRInv, TookPart, NEW c \in Clients, ClientStep(c) \/ ClientDies(c)
  PROVE  SessionStep
<1> USE ProcsType
<1>0. main \in [Procs -> MainStates] /\ cli \in [Clients -> CliStates]
  BY DEF TRInv, ThreadTypes, CPInv, CPTypeOK
<1>1. ASSUME UNCHANGED srv, main'[Server] = main[Server] PROVE UNCHANGED Service
  BY <1>1 DEF Service
<1>2. CASE UNCHANGED <<srv, cli, main>>
  BY <1>2, Stutters DEF Service, Status, StatusOf
\* Before ctrl_connect returns nothing of the client is visible.
<1>3. ASSUME UNCHANGED <<srv, main>>, NEW to, to # "joined", main[c] = "init",
             cli' = [cli EXCEPT ![c] = to]
      PROVE  SessionStep
  <2>1. cli'[c] # "joined" /\ \A d \in Clients : d # c => cli'[d] = cli[d]
    BY <1>0, <1>3
  <2>2. StatusOf(c) = "idle" /\ StatusOf(c)' = "idle"
    BY <1>3, <2>1, IdleIsInit DEF StatusOf
  <2>3. \A d \in Clients : StatusOf(d)' = StatusOf(d)
    BY <1>3, <2>1, <2>2 DEF StatusOf
  <2> QED
    BY <1>1, <1>3, <2>3, SameStatus, Stutters
\* The main thread goes on, in its test.
<1>4. ASSUME UNCHANGED <<srv, cli>>, NEW from \in {"start", "barrier", "wait", "stop"}, NEW to,
             Goto(c, from, to)
      PROVE  SessionStep
  <2>1. /\ main[c] = from /\ cli[c] # "fatal" /\ main'[Server] = main[Server]
        /\ \A d \in Clients : d # c => main'[d] = main[d]
    BY <1>0, <1>4 DEF Goto, Alive
  <2>2. cli[c] = "joined"
    BY <1>0, <2>1 DEF TRInv, InStep, CliStates
  <2>3. \A d \in Clients : StatusOf(d)' = StatusOf(d)
    BY <1>4, <2>1, <2>2 DEF StatusOf
  <2> QED
    BY <1>1, <1>4, <2>1, <2>3, SameStatus, Stutters
\* The client dies in its test.
<1>5. ASSUME UNCHANGED <<srv, main>>, cli[c] = "joined", cli' = [cli EXCEPT ![c] = "fatal"]
      PROVE  SessionStep
  <2>1. cli'[c] = "fatal" /\ \A d \in Clients : d # c => cli'[d] = cli[d]
    BY <1>0, <1>5
  <2>2. StatusOf(c) = "active" /\ StatusOf(c)' = "lost"
    BY <1>5, <2>1 DEF TRInv, InStep, StatusOf
  <2>3. Status' = [Status EXCEPT ![c] = "lost"]
    BY <1>5, <2>1, <2>2, OneStatus
  <2> QED
    BY <1>1, <1>5, <2>2, <2>3, Leaves
<1>6. CASE ClientStart(c)
  <2>1. CASE CtrlRecvMagic(c) /\ Goto(c, "init", "start")
    <3>1. /\ cli[c] = "auth" /\ cli'[c] = "joined" /\ UNCHANGED srv
          /\ \A d \in Clients : d # c => cli'[d] = cli[d]
          /\ main[c] = "init" /\ main'[Server] = main[Server]
          /\ \A d \in Clients : d # c => main'[d] = main[d]
      BY <1>0, <2>1 DEF CtrlRecvMagic, Goto
    <3>2. Accepted(c)
      BY <2>1, PeersType DEF CtrlRecvMagic, TRInv, CPInv, Flight
    <3>3. Service \in {"up", "aborted"}
      BY <3>1, <3>2, AcceptedKeepsUp
    <3>4. StatusOf(c) = "idle"
      BY <3>1, IdleIsInit
    <3>5. Status' = [Status EXCEPT ![c] = "active"]
      BY <3>1, OneStatus DEF StatusOf
    <3>6. Cardinality(Session!Taking(Status)) < NumClients
      <4> DEFINE E == Elems(client_fds)
                 T == Session!Taking(Status)
      <4>1. T \subseteq E \ {c}
        BY <3>1, TakingIs DEF TookPart, Accepted
      <4>2. IsFiniteSet(E) /\ Cardinality(E) = Len(client_fds) /\ Len(client_fds) <= NumClients
        BY CountClients DEF TRInv, CPInv, Counts
      <4>3. IsFiniteSet(E \ {c}) /\ Cardinality(E \ {c}) = Cardinality(E) - 1
        BY <3>2, <4>2, FS_RemoveElement DEF Accepted
      <4>4. IsFiniteSet(T) /\ Cardinality(T) <= Cardinality(E \ {c})
        BY <4>1, <4>3, FS_Subset
      <4>5. Cardinality(T) \in Nat /\ Len(client_fds) \in Nat
        BY <4>4, FS_CardinalityType DEF TRInv, CPInv, CPTypeOK
      <4> HIDE DEF E, T
      <4>6. Cardinality(T) < NumClients
        BY <4>2, <4>3, <4>4, <4>5, CPAssumption
      <4> QED
        BY <4>6 DEF T
    <3> QED
      BY <1>1, <3>1, <3>3, <3>4, <3>5, <3>6, Joins
  <2>2. CASE /\ CtrlConnect(c) \/ CtrlConnectFails(c) \/ CtrlSendSecret(c) \/ CtrlRecvMagicFails(c)
             /\ UNCHANGED threadVars
    <3>1. UNCHANGED <<srv, main>> /\ cli[c] \in {"start", "connected", "auth"}
      BY <2>2 DEF CtrlConnect, CtrlConnectFails, CtrlSendSecret, CtrlRecvMagicFails, threadVars
    <3>2. \E to \in {"connected", "auth", "fatal"} : cli' = [cli EXCEPT ![c] = to]
      BY <2>2 DEF CtrlConnect, CtrlConnectFails, CtrlSendSecret, Write, CtrlRecvMagicFails, Die
    <3> QED
      BY <1>3, <3>1, <3>2 DEF TRInv, InStep
  <2> QED
    BY <1>6, <2>1, <2>2 DEF ClientStart
<1>7. CASE ClientConnectRefused(c)
  <2>1. /\ UNCHANGED <<srv, main>> /\ cli' = [cli EXCEPT ![c] = "fatal"] /\ cli[c] # "fatal"
        /\ \E t \in Threads : wrk[c][t] = "setup"
    BY <1>7 DEF ClientConnectRefused, Die, threadVars, Alive
  <2>2. main[c] \in {"start", "barrier"}
    BY <2>1 DEF TRInv, ThreadTypes, MainStates, Phases, WorkersAt
  <2>3. cli[c] = "joined"
    BY <1>0, <2>1, <2>2 DEF TRInv, InStep, CliStates
  <2> QED
    BY <1>5, <2>1, <2>3
<1>8. CASE ClientDies(c)
  <2>1. /\ UNCHANGED <<srv, main>> /\ cli' = [cli EXCEPT ![c] = "fatal"]
        /\ cli[c] \notin {"notified", "fatal"}
    BY <1>8 DEF ClientDies, CtrlClientDies, Die, threadVars
  <2>2. CASE cli[c] = "joined"
    BY <1>5, <2>1, <2>2
  <2>3. CASE cli[c] # "joined"
    <3>1. main[c] = "init"
      BY <1>0, <2>1, <2>3 DEF TRInv, InStep, CliStates
    <3> QED
      BY <1>3, <2>1, <3>1
  <2> QED
    BY <2>2, <2>3
<1>9. CASE MainAtBarrier(c) \/ BarrierOpens(c) \/ Done(c) \/ AllTold(c)
  <2>1. /\ UNCHANGED <<srv, cli>>
        /\ Goto(c, "start", "barrier") \/ Goto(c, "barrier", "wait") \/ Goto(c, "wait", "stop")
           \/ Goto(c, "stop", "join")
    BY <1>9 DEF MainAtBarrier, BarrierOpens, Done, AllTold, cpVars
  <2> QED
    BY <1>4, <2>1
<1>10. CASE MainStops(c)
  <2>1. Goto(c, "join", "exit") /\ CtrlNotifyServer(c)
    BY <1>10 DEF MainStops
  <2>2. /\ main'[c] = "exit" /\ main'[Server] = main[Server] /\ cli[c] = "joined" /\ UNCHANGED srv
        /\ \A d \in Clients : d # c => cli'[d] = cli[d] /\ main'[d] = main[d]
        /\ cli'[c] \in {"notified", "fatal"}
    BY <1>0, <2>1 DEF Goto, CtrlNotifyServer, Write
  <2>3. StatusOf(c) = "active" /\ StatusOf(c)' \in {"finished", "lost"}
    BY <2>2 DEF StatusOf
  <2>4. Status' = [Status EXCEPT ![c] = StatusOf(c)']
    BY <2>2, OneStatus
  <2> QED
    BY <1>1, <2>2, <2>3, <2>4, Leaves
<1>11. ASSUME NEW t \in Threads,
              CreateWorker(c, t) \/ TellToStop(c, t) \/ ClientWorkerReady(c, t)
       PROVE  SessionStep
  BY <1>2, <1>11 DEF CreateWorker, TellToStop, ClientWorkerReady, cpVars
<1> QED
  BY <1>6, <1>7, <1>8, <1>9, <1>10, <1>11 DEF ClientStep, ProcStep

\* Every test run is a run of the session it promises: the data plane is up
\* before the first client takes part and until the last one is finished, at
\* most NumClients take part, and only the server's exit cuts this short.
THEOREM RunsSession == Spec => SessionSpec
<1>1. Init => Session!Init
  <2> SUFFICES ASSUME Init PROVE Session!Init
    OBVIOUS
  <2>1. Service = "down"
    BY ProcsType DEF Init, CPInit, Service
  <2>2. \A c \in Clients : StatusOf(c) = "idle"
    BY ProcsType DEF Init, CPInit, StatusOf
  <2> QED
    BY <2>1, <2>2 DEF Session!Init, Service, StatusOf
<1>2. Init => TookPart
  BY ProcsType DEF Init, TookPart
<1>3. TRInv /\ TookPart /\ [Next]_vars => [Session!Next]_(Session!vars)
  <2> SUFFICES ASSUME TRInv, TookPart, [Next]_vars PROVE SessionStep
    BY DEF SessionStep
  <2>1. ASSUME NEW p \in Strays, StrayStep(p) PROVE SessionStep
    <3>1. UNCHANGED <<srv, cli, main>>
      BY <2>1 DEF StrayStep, StrayConnect, StraySend, StrayHangUp, threadVars
    <3> QED
      BY <3>1, Stutters DEF Service, Status, StatusOf
  <2>2. CASE \/ \E p \in Procs, t \in Threads : WorkerStops(p, t)
             \/ Finished \/ UNCHANGED vars
    <3>1. UNCHANGED <<srv, cli, main>>
      BY <2>2 DEF WorkerStops, Finished, vars, cpVars, threadVars
    <3> QED
      BY <3>1, Stutters DEF Service, Status, StatusOf
  <2> QED
    BY <2>1, <2>2, ServerSession, ClientSession DEF Next
<1> QED
  BY <1>1, <1>2, <1>3, TestRunInv, TookPartStep, PTL DEF Spec, SessionSpec, Session!Spec

============================================================================
