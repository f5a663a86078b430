------------------------------ MODULE TestRun ------------------------------
(***************************************************************************)
(* A whole test: the main thread of every process (thread.c) drives the    *)
(* control plane and its own worker threads (run_client and run_server of  *)
(* workload.c).                                                            *)
(*                                                                         *)
(* Every process has the same number of workers.  The main thread creates  *)
(* them, meets them at the barrier threads_ready, waits until the test is  *)
(* done, tells each to stop through its eventfd, and joins them.  The      *)
(* order of the loops over the workers is left open.                       *)
(***************************************************************************)
EXTENDS ControlPlane

CONSTANT Threads     \* worker threads of each process

ASSUME ThreadsAssumption == Threads # {}

Procs == Clients \cup {Server}

VARIABLES
  main,   \* where the main thread of each process is in run_main_thread
  wrk,    \* where each worker of each process is
  stop,   \* workers whose stop_efd has been written
  lsn     \* server workers with an open listening data socket

threadVars == <<main, wrk, stop, lsn>>
vars       == <<cpVars, threadVars>>

MainStates == {"init", "start", "barrier", "wait", "stop", "join", "exit"}
WrkStates  == {"none", "setup", "ready", "run", "exit"}

TypeOK ==
  /\ CPTypeOK
  /\ main \in [Procs -> MainStates]
  /\ wrk \in [Procs -> [Threads -> WrkStates]]
  /\ stop \in [Procs -> SUBSET Threads]
  /\ lsn \in SUBSET Threads

Init ==
  /\ CPInit
  /\ main = [p \in Procs |-> "init"]
  /\ wrk = [p \in Procs |-> [t \in Threads |-> "none"]]
  /\ stop = [p \in Procs |-> {}]
  /\ lsn = {}

\* exit() in any thread ends the whole process.
Alive(p) == IF p = Server THEN srv # "fatal" ELSE cli[p] # "fatal"

Goto(p, from, to) ==
  /\ Alive(p)
  /\ main[p] = from
  /\ main' = [main EXCEPT ![p] = to]

Move(p, t, from, to) ==
  /\ Alive(p)
  /\ wrk[p][t] = from
  /\ wrk' = [wrk EXCEPT ![p][t] = to]

----------------------------------------------------------------------------
(* Main thread: run_main_thread and run_worker_threads.                    *)

\* control_plane_start: the server opens the control port ...
ServerStart ==
  /\ CtrlListen
  /\ Goto(Server, "init", "start")
  /\ UNCHANGED <<wrk, stop, lsn>>

\* ... and a client talks to it until it is admitted, or exits.
ClientStart(c) ==
  \/ /\ CtrlConnect(c) \/ CtrlConnectFails(c) \/ CtrlSendSecret(c)
        \/ CtrlRecvMagicFails(c)
     /\ UNCHANGED threadVars
  \/ /\ CtrlRecvMagic(c)
     /\ Goto(c, "init", "start")
     /\ UNCHANGED <<wrk, stop, lsn>>

\* pthread_create of one worker.
CreateWorker(p, t) ==
  /\ main[p] = "start"
  /\ Move(p, t, "none", "setup")
  /\ UNCHANGED <<cpVars, main, stop, lsn>>

\* All workers are created: pthread_barrier_wait.
MainAtBarrier(p) ==
  /\ \A t \in Threads : wrk[p][t] # "none"
  /\ Goto(p, "start", "barrier")
  /\ UNCHANGED <<cpVars, wrk, stop, lsn>>

\* Mutant: the barrier is initialised for one thread less.
BarrierMissesOne(p) ==
  /\ Goto(p, "barrier", "wait")
  /\ \E t \in Threads : \A u \in Threads \ {t} : wrk[p][u] = "ready"
  /\ wrk' = [wrk EXCEPT ![p] = [t \in Threads |-> IF @[t] = "ready" THEN "run" ELSE @[t]]]
  /\ UNCHANGED <<cpVars, stop, lsn>>

\* Mutant: the main thread does not wait at the barrier.
BarrierNotAwaited(p) ==
  /\ Goto(p, "barrier", "wait")
  /\ UNCHANGED <<cpVars, wrk, stop, lsn>>

\* The last of num_threads + 1 threads arrives: all of them go on.
BarrierOpens(p) ==
  /\ Goto(p, "barrier", "wait")
  /\ \A t \in Threads : wrk[p][t] = "ready"
  /\ wrk' = [wrk EXCEPT ![p] = [t \in Threads |-> "run"]]
  /\ UNCHANGED <<cpVars, stop, lsn>>

\* control_plane_wait_until_done in the server.
ServerWaits ==
  /\ main[Server] = "wait"
  /\ \/ WaitUntilDone
     \/ CtrlAcceptValid \/ CtrlAcceptInvalid \/ CtrlAcceptReadError
     \/ CtrlWaitClient
  /\ UNCHANGED threadVars

\* The server exits; the kernel closes its data sockets too.
ServerGivesUp ==
  /\ main[Server] = "wait"
  /\ CtrlAcceptSendFails \/ CtrlWaitClientFails
  /\ lsn' = {}
  /\ UNCHANGED <<main, wrk, stop>>

\* Mutant: the server does not wait for the clients' notifications.
DoneOnceAccepted(p) ==
  /\ IF p = Server THEN srv \in {"wait", "done"} ELSE TRUE
  /\ Goto(p, "wait", "stop")
  /\ UNCHANGED <<cpVars, wrk, stop, lsn>>

\* It returns: the server got every notification, or the client has slept
\* for test_length.
Done(p) ==
  /\ p = Server => srv = "done"
  /\ Goto(p, "wait", "stop")
  /\ UNCHANGED <<cpVars, wrk, stop, lsn>>

\* stop_worker_threads: eventfd_write for every worker ...
TellToStop(p, t) ==
  /\ Alive(p) /\ main[p] = "stop" /\ t \notin stop[p]
  /\ stop' = [stop EXCEPT ![p] = @ \cup {t}]
  /\ UNCHANGED <<cpVars, main, wrk, lsn>>

AllTold(p) ==
  /\ stop[p] = Threads
  /\ Goto(p, "stop", "join")
  /\ UNCHANGED <<cpVars, wrk, stop, lsn>>

\* Mutant: the workers are told to stop and not joined.
JoinedFirst(p) == \E t \in Threads : wrk[p][t] = "exit"

\* ... then pthread_join for every worker.
Joined(p) == \A t \in Threads : wrk[p][t] = "exit"

\* control_plane_stop, which a client uses to notify the server; then the
\* reports.
MainStops(p) ==
  /\ Joined(p)
  /\ Goto(p, "join", "exit")
  /\ IF p = Server THEN UNCHANGED cpVars ELSE CtrlNotifyServer(p)
  /\ UNCHANGED <<wrk, stop, lsn>>

----------------------------------------------------------------------------
(* Workers: run_server and run_client.                                     *)

\* run_server: bind, listen and add the flow, then the barrier.
ServerWorkerReady(t) ==
  /\ Move(Server, t, "setup", "ready")
  /\ lsn' = lsn \cup {t}
  /\ UNCHANGED <<cpVars, main, stop>>

\* run_client: client_connect for each flow of the thread, then the barrier.
ClientWorkerReady(c, t) ==
  /\ lsn # {}
  /\ Move(c, t, "setup", "ready")
  /\ UNCHANGED <<cpVars, main, stop, lsn>>

\* Nobody listens at the data port: client_connect exits.
ClientConnectRefused(c) ==
  /\ Alive(c) /\ lsn = {}
  /\ \E t \in Threads : wrk[c][t] = "setup"
  /\ Die(c)
  /\ UNCHANGED <<srv, backlog, client_fds, notified, num_incidents, c2s, s2c>>
  /\ UNCHANGED threadVars

\* The event loop reads the eventfd and leaves; the sockets are closed.
WorkerStops(p, t) ==
  /\ t \in stop[p]
  /\ Move(p, t, "run", "exit")
  /\ lsn' = IF p = Server THEN lsn \ {t} ELSE lsn
  /\ UNCHANGED <<cpVars, main, stop>>

----------------------------------------------------------------------------

\* A client is killed.
ClientDies(c) == c \in Mortal /\ CtrlClientDies(c) /\ UNCHANGED threadVars

StrayStep(p) ==
  /\ StrayConnect(p) \/ StraySend(p) \/ StrayHangUp(p)
  /\ UNCHANGED threadVars

ProcStep(p) ==
  \/ MainAtBarrier(p) \/ BarrierOpens(p) \/ Done(p) \/ AllTold(p) \/ MainStops(p)
  \/ \E t \in Threads : CreateWorker(p, t) \/ TellToStop(p, t)

ServerStep ==
  \/ ServerStart \/ ServerWaits \/ ServerGivesUp
  \/ \E t \in Threads : ServerWorkerReady(t)
  \/ ProcStep(Server)

ClientStep(c) ==
  \/ ClientStart(c) \/ ClientConnectRefused(c)
  \/ \E t \in Threads : ClientWorkerReady(c, t)
  \/ ProcStep(c)

Over(p) == ~Alive(p) \/ main[p] = "exit"

Finished == (\A p \in Procs : Over(p)) /\ UNCHANGED vars

Next ==
  \/ ServerStep
  \/ \E c \in Clients : ClientStep(c) \/ ClientDies(c)
  \/ \E p \in Strays : StrayStep(p)
  \/ \E p \in Procs, t \in Threads : WorkerStops(p, t)
  \/ Finished

Spec == Init /\ [][Next]_vars

\* Every thread that can run is scheduled; sleep() ends.  Nothing is assumed
\* of strays, of deaths, and of a worker in its event loop: it sees stop_efd
\* only when it returns to epoll_wait, and process_events of an edge-triggered
\* stream does not return while read or write find data or room.
FairSpec == Spec /\ WF_vars(ServerStep) /\ \A c \in Clients : WF_vars(ClientStep(c))

----------------------------------------------------------------------------
(* Properties.                                                             *)

\* As long as a client is in its test (from ctrl_connect's return to its
\* notification) and the server has not exited, every server worker is
\* listening and in its event loop: no client_connect is refused and no
\* flow is cut off by the server.
ServiceUp ==
  \A c \in Clients : cli[c] = "joined" /\ Alive(Server) =>
    lsn = Threads /\ \A t \in Threads : wrk[Server][t] = "run"

\* Workers of a process move data only once all of them have set up their
\* sockets (run_client and run_server wait at threads_ready).
TogetherPastBarrier ==
  \A p \in Procs : \A t, u \in Threads :
    wrk[p][t] \in {"run", "exit"} => wrk[p][u] \in {"run", "exit"}

\* When the server's main thread turns to stopping its workers, each of the
\* clients it accepted has joined all of its own.
ServerStopsLast ==
  main[Server] \in {"stop", "join", "exit"} /\ Alive(Server) =>
    /\ Len(client_fds) = NumClients
    /\ \A i \in 1..NumClients : \A t \in Threads : wrk[client_fds[i]][t] = "exit"

\* Workers write their samples and flow counters without a lock; the main
\* thread reads them when it reports, after a client has notified and the
\* main thread has left the join loop: no worker is running then.
ReportsAlone ==
  \A p \in Procs :
    main[p] = "exit" \/ (p \in Clients /\ cli[p] = "notified") =>
      \A t \in Threads : wrk[p][t] = "exit"

\* No worker that was told to stop is still in its event loop.
StopHeeded ==
  \A p \in Procs, t \in Threads : Alive(p) /\ t \in stop[p] => wrk[p][t] # "run"

\* If no mortal client is dead, strays do not sit on their connections and a
\* worker that is told to stop leaves its event loop, every process gets to
\* the end of run_main_thread, or, being one client too many, exits; no
\* barrier, join or read() blocks for ever.  The last premise is what the
\* event loop owes this module: StopsInTime of Stream says when it holds.
EveryoneExits ==
  (/\ \A p \in Strays : []<>(conn[p] # "open")
   /\ \A c \in Mortal : [](cli[c] # "fatal")
   /\ []<>StopHeeded)
    => <>[](main[Server] = "exit" /\ \A c \in Clients : Over(c))

\* Main threads and workers use the control plane as its module says, and a
\* client that is not killed only exits because the server did.
ControlPlaneSpec == CPSpec

\* The test implements TestSession.
Session == INSTANCE TestSession WITH
  service <- IF srv = "fatal" THEN "aborted"
             ELSE IF main[Server] = "wait" THEN "up"
             ELSE IF main[Server] \in {"stop", "join", "exit"} THEN "closed"
             ELSE "down",
  status <- [c \in Clients |->
              IF cli[c] = "joined" THEN "active"
              ELSE IF main[c] = "exit" /\ cli[c] = "notified" THEN "finished"
              ELSE IF main[c] # "init" THEN "lost"
              ELSE "idle"]

\* The data plane is up before the first client takes part and until the last
\* one is finished.
SessionSpec == Session!Spec

============================================================================
