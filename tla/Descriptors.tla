---------------------------- MODULE Descriptors ----------------------------
(***************************************************************************)
(* The data sockets of one process, by descriptor number: who opens and    *)
(* who closes them (run_client, run_server and do_socket_close of          *)
(* workload.c, addflow and delflow of flow.c, server_accept), and when the *)
(* socket hooks of a script see them.                                      *)
(*                                                                         *)
(* The descriptor table is shared by the threads, and the kernel gives out *)
(* the lowest free number, so a number that was closed comes back.  Every  *)
(* socket(2) and accept(2) makes a new socket, named by a serial number.   *)
(***************************************************************************)
EXTENDS Naturals, Sequences, FiniteSets

CONSTANTS
  Threads,       \* worker threads
  FlowsPerThread,\* flows_in_thread(...) of a client
  MaxConns,      \* bound on the connections a server accepts
  NumFds         \* size of the descriptor table

ASSUME FdAssumption ==
  /\ IsFiniteSet(Threads) /\ FlowsPerThread \in Nat /\ MaxConns \in Nat
  /\ NumFds \in Nat /\ NumFds >= Cardinality(Threads) * (FlowsPerThread + 1) + MaxConns

VARIABLES
  role, proto,  \* opts->client, and which of tcp_socket_ops and udp_socket_ops
  fds,          \* descriptor table: socket, or 0 for a free number
  serial,       \* sockets made so far
  pc,           \* each worker
  mine,         \* client_fds of a client, <<fd_listen>> of a server, with the sockets
  flows,        \* flows in each worker's epoll set, without the listening one
  closing,      \* position in mine of the socket a worker is closing
  accepted,     \* connections accepted
  kept          \* sockets whose close hook failed

fdVars == <<role, proto, fds, serial, pc, mine, flows, closing, accepted, kept>>

Fd    == 1..NumFds
Entry == [fd : Fd, sock : Nat]

FdTypeOK ==
  /\ role \in {"client", "server"} /\ proto \in {"tcp", "udp"}
  /\ fds \in [Fd -> Nat]
  /\ serial \in Nat /\ accepted \in 0..MaxConns
  /\ pc \in [Threads -> {"setup", "ready", "loop", "hook", "close", "delflow", "exit", "fatal"}]
  /\ mine \in [Threads -> Seq(Entry)]
  /\ flows \in [Threads -> SUBSET Entry]
  /\ closing \in [Threads -> Nat \ {0}]
  /\ kept \subseteq Nat

FdInit ==
  /\ role \in {"client", "server"} /\ proto \in {"tcp", "udp"}
  /\ fds = [fd \in Fd |-> 0]
  /\ serial = 0 /\ accepted = 0
  /\ pc = [t \in Threads |-> "setup"]
  /\ mine = [t \in Threads |-> <<>>]
  /\ flows = [t \in Threads |-> {}]
  /\ closing = [t \in Threads |-> 1]
  /\ kept = {}

\* exit() in one thread ends the process.
Running(t, at) == pc[t] = at /\ \A u \in Threads : pc[u] # "fatal"

Goto(t, to) == pc' = [pc EXCEPT ![t] = to]

\* Mutant: the result of socket() is not checked.
UncheckedEntry == [fd |-> 0, sock |-> serial + 1]

\* The entry of a new socket in the descriptor table.
NewEntry ==
  [fd |-> CHOOSE fd \in Fd : fds[fd] = 0 /\ \A less \in 1..fd-1 : fds[less] # 0,
   sock |-> serial + 1]

Opened(e) ==
  /\ fds' = [fds EXCEPT ![e.fd] = e.sock]
  /\ serial' = e.sock

\* do_close: an error for a free number, otherwise the number is free again,
\* whichever socket it stands for.
Closed(fd) == fds' = [fds EXCEPT ![fd] = 0]

----------------------------------------------------------------------------
(* Before the barrier.                                                     *)

\* client_connect and addflow for the next flow of the thread.
ClientConnect(t) ==
  /\ role = "client" /\ Running(t, "setup") /\ Len(mine[t]) < FlowsPerThread
  /\ Opened(NewEntry)
  /\ mine' = [mine EXCEPT ![t] = Append(@, NewEntry)]
  /\ flows' = [flows EXCEPT ![t] = @ \cup {NewEntry}]
  /\ UNCHANGED <<role, proto, pc, closing, accepted, kept>>

ClientReady(t) ==
  /\ role = "client" /\ Running(t, "setup") /\ Len(mine[t]) = FlowsPerThread
  /\ Goto(t, "ready")
  /\ UNCHANGED <<role, proto, fds, serial, mine, flows, closing, accepted, kept>>

\* The listening socket, or the bound one of UDP, and its flow.
ServerReady(t) ==
  /\ role = "server" /\ Running(t, "setup")
  /\ Opened(NewEntry)
  /\ mine' = [mine EXCEPT ![t] = <<NewEntry>>]
  /\ Goto(t, "ready")
  /\ UNCHANGED <<role, proto, flows, closing, accepted, kept>>

\* The socket hook, socket, connect, bind or listen failed: PLOG_FATAL.
SetupFails(t) ==
  /\ Running(t, "setup")
  /\ role = "client" => Len(mine[t]) < FlowsPerThread
  /\ Goto(t, "fatal")
  /\ UNCHANGED <<role, proto, fds, serial, mine, flows, closing, accepted, kept>>

\* Mutant: the workers do not wait for each other.
BarrierNobodyAwaits == \E t \in Threads : pc[t] = "ready"

\* All workers are at threads_ready.
BarrierReached == \A t \in Threads : pc[t] = "ready"

BarrierOpens ==
  /\ BarrierReached
  /\ pc' = [t \in Threads |-> IF pc[t] = "ready" THEN "loop" ELSE pc[t]]
  /\ UNCHANGED <<role, proto, fds, serial, mine, flows, closing, accepted, kept>>

----------------------------------------------------------------------------
(* The event loops.                                                        *)

\* server_accept
Accept(t) ==
  /\ role = "server" /\ proto = "tcp" /\ Running(t, "loop") /\ accepted < MaxConns
  /\ accepted' = accepted + 1
  /\ Opened(NewEntry)
  /\ flows' = [flows EXCEPT ![t] = @ \cup {NewEntry}]
  /\ UNCHANGED <<role, proto, pc, mine, closing, kept>>

\* Mutant: the flow is freed and its socket is not closed.
FreeOnly(fd) == UNCHANGED fds

\* The end of delflow.
CloseOfFlow(fd) == Closed(fd)

\* The peer hung up, which epoll reports of sockets that are open: delflow.
HungUp(t) ==
  /\ proto = "tcp" /\ Running(t, "loop")
  /\ \E fl \in flows[t] :
       /\ fds[fl.fd] = fl.sock
       /\ CloseOfFlow(fl.fd)
       /\ flows' = [flows EXCEPT ![t] = @ \ {fl}]
  /\ UNCHANGED <<role, proto, serial, pc, mine, closing, accepted, kept>>

\* The worker sees the eventfd.  do_socket_close calls the close hook of the
\* first of its sockets.
StopSeen(t) ==
  /\ Running(t, "loop")
  /\ Goto(t, IF mine[t] = <<>> THEN "exit" ELSE "hook")
  /\ UNCHANGED <<role, proto, fds, serial, mine, flows, closing, accepted, kept>>

----------------------------------------------------------------------------
(* After the event loop.                                                   *)

Current(t) == mine[t][closing[t]]

\* The next socket of a client; a server has its listening flow to delete.
After(t) ==
  IF role = "server" THEN Goto(t, "delflow") /\ UNCHANGED closing
  ELSE IF closing[t] = Len(mine[t]) THEN Goto(t, "exit") /\ UNCHANGED closing
  ELSE Goto(t, "hook") /\ closing' = [closing EXCEPT ![t] = @ + 1]

\* The hook returned; the socket is closed next.
HookDone(t) ==
  /\ Running(t, "hook")
  /\ Goto(t, "close")
  /\ UNCHANGED <<role, proto, fds, serial, mine, flows, closing, accepted, kept>>

\* The hook failed: the socket is not closed, which a client ignores and a
\* server takes as fatal.
HookFails(t) ==
  /\ Running(t, "hook")
  /\ IF role = "server" THEN Goto(t, "fatal") /\ UNCHANGED closing ELSE After(t)
  /\ kept' = kept \cup {Current(t).sock}
  /\ UNCHANGED <<role, proto, fds, serial, mine, flows, accepted>>

\* socket_close: udp_socket_ops has no close.
SocketClose(t) ==
  /\ Running(t, "close")
  /\ IF proto = "tcp" THEN Closed(Current(t).fd) ELSE UNCHANGED fds
  /\ After(t)
  /\ UNCHANGED <<role, proto, serial, mine, flows, accepted, kept>>

\* Mutant: the server does not delete its listening flow.
ListenerForgotten(fd) == UNCHANGED fds

\* delflow(listen_fl) closes the number again.
CloseListener(fd) == Closed(fd)

DelListenFlow(t) ==
  /\ Running(t, "delflow")
  /\ CloseListener(Current(t).fd)
  /\ Goto(t, "exit")
  /\ UNCHANGED <<role, proto, serial, mine, flows, closing, accepted, kept>>

----------------------------------------------------------------------------

WorkerStep(t) ==
  \/ ClientConnect(t) \/ ClientReady(t) \/ ServerReady(t) \/ SetupFails(t)
  \/ Accept(t) \/ HungUp(t) \/ StopSeen(t)
  \/ HookDone(t) \/ HookFails(t) \/ SocketClose(t) \/ DelListenFlow(t)

FdFinished ==
  /\ (\A t \in Threads : pc[t] = "exit") \/ (\E t \in Threads : pc[t] = "fatal")
  /\ UNCHANGED fdVars

FdNext == BarrierOpens \/ (\E t \in Threads : WorkerStep(t)) \/ FdFinished

FdSpec == FdInit /\ [][FdNext]_fdVars

----------------------------------------------------------------------------
(* Properties.                                                             *)

\* A flow reads from, writes to and closes its own socket: the number in
\* flow->fd still stands for the socket it was made for.  In a server this
\* has one exception: run_server closes its listening number twice when it
\* stops, and accept in another worker may have taken it in between.
FlowsIntact ==
  \A t \in Threads : pc[t] = "loop" =>
    \A fl \in flows[t] :
      \/ fds[fl.fd] = fl.sock
      \/ /\ role = "server" /\ proto = "tcp"
         /\ \E u \in Threads \ {t} : pc[u] = "exit" /\ mine[u][1].fd = fl.fd

\* No socket leaks.  As long as all workers run, each open one has a flow or is
\* a listening one (delflow); a worker that has returned has closed those it
\* connected over TCP and the one it listened on, except where the hook forbade
\* it (run_client, run_server).
NoLeak ==
  /\ (\A t \in Threads : pc[t] = "loop") =>
       \A fd \in Fd : fds[fd] # 0 =>
         \E t \in Threads : \E e \in flows[t] \cup { mine[t][i] : i \in 1..Len(mine[t]) } :
           e.fd = fd /\ e.sock = fds[fd]
  /\ \A t \in Threads : pc[t] = "exit" /\ (role = "server" \/ proto = "tcp") =>
       \A i \in 1..Len(mine[t]) : mine[t][i].sock \notin kept => fds[mine[t][i].fd] # mine[t][i].sock

\* What doc/script-api.rst says of the close hook: it is invoked "just
\* *before* the socket will be closed".
HookBeforeClose ==
  \A t \in Threads : pc[t] = "hook" => fds[Current(t).fd] = Current(t).sock

============================================================================
