---------------------------- MODULE ControlPlane ----------------------------
(***************************************************************************)
(* The control plane of a test (control_plane.c): one server process, the  *)
(* client processes that take part in the test, and strays, i.e. programs  *)
(* that connect to the control port and do not know the secret.            *)
(*                                                                         *)
(* A TCP connection is its state as the server sees it (conn) and the data *)
(* in flight in each direction (c2s, s2c).  Every peer opens at most one   *)
(* control connection, so a connection is named by its peer.  A process    *)
(* that runs into LOG_FATAL or PLOG_FATAL exits: state "fatal".            *)
(***************************************************************************)
EXTENDS Naturals, Sequences, FiniteSets

CONSTANTS
  Clients,     \* client processes, possibly more than the server expects
  Strays,      \* other programs that connect to the control port
  Server,      \* the server process
  NumClients,  \* opts->num_clients
  Magic,       \* opts->magic of every process
  Mortal,      \* clients that may die at any point (killed, fatal error)
  Split        \* clients whose secret may arrive in pieces

Peers  == Clients \cup Strays
Magics == { Magic[p] : p \in Clients \cup {Server} }

ASSUME CPAssumption ==
  /\ NumClients \in Nat
  /\ Clients \cap Strays = {}
  /\ Server \notin Peers
  /\ Mortal \subseteq Clients
  /\ DOMAIN Magic = Clients \cup {Server}
  /\ Magics \cap {"secret", "garbage"} = {}
  /\ Split \subseteq Clients

VARIABLES
  srv,           \* where the server's main thread is in the control plane
  cli,           \* where the main thread of each client is
  conn,          \* control connection of each peer
  backlog,       \* connections not yet returned by accept(), oldest first
  client_fds,    \* connections of the authenticated clients, in order
  notified,      \* how many of client_fds ctrl_wait_client is done with
  num_incidents, \* connections that did not present the secret
  c2s, s2c       \* data in flight on each connection

cpVars == <<srv, cli, conn, backlog, client_fds, notified, num_incidents, c2s, s2c>>

Data == {"secret", "garbage"} \cup Magics

SrvStates  == {"start", "listen", "accept", "wait", "done", "fatal"}
CliStates  == {"start", "connected", "auth", "joined", "notified", "fatal"}
\* "eof": the peer closed its end; "reset": the peer closed it with unread
\* data, writing to it fails; "closed": closed on the server's side.
ConnStates == {"none", "open", "eof", "reset", "closed"}

CPTypeOK ==
  /\ srv \in SrvStates
  /\ cli \in [Clients -> CliStates]
  /\ conn \in [Peers -> ConnStates]
  /\ backlog \in Seq(Peers)
  /\ client_fds \in Seq(Peers)
  /\ notified \in 0..Len(client_fds)
  /\ num_incidents \in Nat
  /\ c2s \in [Peers -> Seq(Data)]
  /\ s2c \in [Peers -> Seq(Data)]

\* Mutant: the loop over the notifications starts at the second client.
FromSecondClient == 1

\* The loops of control_plane_wait_until_done start at client 0.
FromFirstClient == 0

CPInit ==
  /\ srv = "start"
  /\ cli = [c \in Clients |-> "start"]
  /\ conn = [p \in Peers |-> "none"]
  /\ backlog = <<>>
  /\ client_fds = <<>>
  /\ notified = FromFirstClient
  /\ num_incidents = 0
  /\ c2s = [p \in Peers |-> <<>>]
  /\ s2c = [p \in Peers |-> <<>>]

PortOpen   == srv \in {"listen", "accept"}
PortClosed == srv \in {"wait", "done", "fatal"}    \* for good

\* The members of a sequence of connections.
Elems(seq) == { seq[i] : i \in 1..Len(seq) }

----------------------------------------------------------------------------
(* The server.                                                             *)

\* control_plane_start of a server: from here on the kernel completes
\* connections, whether or not the server accepts them yet.
CtrlListen ==
  /\ srv = "start"
  /\ srv' = "listen"
  /\ UNCHANGED <<cli, conn, backlog, client_fds, notified, num_incidents, c2s, s2c>>

\* Closing the port and every connection: at the end of the wait, or by exit().
AllClosed == [p \in Peers |-> IF conn[p] = "none" THEN "none" ELSE "closed"]

\* The main thread enters control_plane_wait_until_done; with no client to
\* expect it falls through both loops.
WaitUntilDone ==
  /\ srv = "listen"
  /\ srv' = IF NumClients = 0 THEN "done" ELSE "accept"
  /\ conn' = IF NumClients = 0 THEN AllClosed ELSE conn
  /\ backlog' = IF NumClients = 0 THEN <<>> ELSE backlog
  /\ UNCHANGED <<cli, client_fds, notified, num_incidents, c2s, s2c>>

\* The next connection ctrl_accept takes and reads.  It blocks in read() as
\* long as the peer neither sends nor hangs up, whoever else is waiting.
Candidate == Head(backlog)
Accepting == srv = "accept" /\ backlog # <<>>
Sent(p)   == c2s[p] # <<>>

\* Mutant: the loop accepts one client more than expected.
LastClientPlusOne == Len(client_fds) = NumClients

\* The client being accepted is the last one the server expects.
LastClient == Len(client_fds) + 1 = NumClients

\* The peer presented the secret: send_magic and, when this was the last
\* client expected, do_close(ctrl_port), which resets the rest of the backlog.
CtrlAcceptValid ==
  LET p == Candidate IN
  /\ Accepting
  /\ Sent(p) /\ Head(c2s[p]) = "secret"
  /\ conn[p] # "reset"
  /\ c2s' = [c2s EXCEPT ![p] = Tail(@)]
  /\ s2c' = [s2c EXCEPT ![p] = Append(@, Magic[Server])]
  /\ client_fds' = Append(client_fds, p)
  /\ backlog' = IF LastClient THEN <<>> ELSE Tail(backlog)
  /\ conn' = IF LastClient
             THEN [q \in Peers |-> IF q \in Elems(backlog) /\ q # p
                                   THEN "closed" ELSE conn[q]]
             ELSE conn
  /\ srv' = IF LastClient THEN "wait" ELSE "accept"
  /\ UNCHANGED <<cli, notified, num_incidents>>

\* The peer presented the secret and is gone: send_magic fails.
CtrlAcceptSendFails ==
  /\ Accepting
  /\ Sent(Candidate) /\ Head(c2s[Candidate]) = "secret"
  /\ conn[Candidate] = "reset"
  /\ srv' = "fatal"
  /\ conn' = AllClosed
  /\ backlog' = <<>>
  /\ UNCHANGED <<cli, client_fds, notified, num_incidents, c2s, s2c>>

\* Mutant: an invalid secret makes the server quit instead of retrying.
RejectAndQuit(p) ==
  /\ srv' = "fatal"
  /\ conn' = AllClosed
  /\ backlog' = <<>>
  /\ UNCHANGED <<cli, client_fds, notified, c2s, s2c>>

\* do_close(ctrl_conn) and retry.
Reject(p) ==
  /\ conn' = [conn EXCEPT ![p] = "closed"]
  /\ c2s' = [c2s EXCEPT ![p] = <<>>]
  /\ backlog' = Tail(backlog)
  /\ UNCHANGED <<srv, cli, client_fds, notified, s2c>>

\* What read() returned is not the secret: other data, nothing at all (the
\* peer hung up, len is 0), or only a part of the secret.
CtrlAcceptInvalid ==
  /\ Accepting
  /\ IF Sent(Candidate)
     THEN Head(c2s[Candidate]) # "secret" \/ Candidate \in Split
     ELSE conn[Candidate] = "eof"
  /\ num_incidents' = num_incidents + 1
  /\ Reject(Candidate)

\* read() failed: not an incident.
CtrlAcceptReadError ==
  /\ Accepting
  /\ ~Sent(Candidate) /\ conn[Candidate] = "reset"
  /\ UNCHANGED num_incidents
  /\ Reject(Candidate)

\* Mutant: the first notification ends the wait.
WaitOverAtFirst(n) == n >= 1

\* n notifications are all the server waits for.
WaitOver(n) == n = NumClients

\* ctrl_wait_client on one connection after the other: a value that is not
\* the magic is only logged; the last notification ends the wait, and
\* closes the connections.
CtrlWaitClient ==
  LET p == client_fds[notified + 1] IN
  /\ srv = "wait" /\ Sent(p)
  /\ c2s' = [c2s EXCEPT ![p] = Tail(@)]
  /\ notified' = IF Head(c2s[p]) = Magic[Server] THEN notified + 1 ELSE notified
  /\ srv' = IF WaitOver(notified') THEN "done" ELSE "wait"
  /\ conn' = IF WaitOver(notified') THEN AllClosed ELSE conn
  /\ UNCHANGED <<cli, backlog, client_fds, num_incidents, s2c>>

\* recv_magic reads end of file or fails: the server gives up the test.
CtrlWaitClientFails ==
  LET p == client_fds[notified + 1] IN
  /\ srv = "wait" /\ ~Sent(p) /\ conn[p] \in {"eof", "reset"}
  /\ srv' = "fatal"
  /\ conn' = AllClosed
  /\ UNCHANGED <<cli, backlog, client_fds, notified, num_incidents, c2s, s2c>>

CtrlServerStep ==
  \/ CtrlListen \/ WaitUntilDone
  \/ CtrlAcceptValid \/ CtrlAcceptSendFails \/ CtrlAcceptInvalid \/ CtrlAcceptReadError
  \/ CtrlWaitClient \/ CtrlWaitClientFails

----------------------------------------------------------------------------
(* The clients.                                                            *)

\* try_connect and what follows in ctrl_connect up to the write of the
\* secret.  While the port is not open yet, try_connect retries.
CtrlConnect(c) ==
  /\ cli[c] = "start" /\ PortOpen
  /\ cli' = [cli EXCEPT ![c] = "connected"]
  /\ conn' = [conn EXCEPT ![c] = "open"]
  /\ backlog' = Append(backlog, c)
  /\ UNCHANGED <<srv, client_fds, notified, num_incidents, c2s, s2c>>

\* try_connect is out of retries: the port was closed and stays closed.  (Out of
\* retries before the port is open at all, the client is one that died.)
CtrlConnectFails(c) ==
  /\ cli[c] = "start" /\ PortClosed
  /\ cli' = [cli EXCEPT ![c] = "fatal"]
  /\ UNCHANGED <<srv, conn, backlog, client_fds, notified, num_incidents, c2s, s2c>>

\* Mutant: what is written never leaves the client.
WriteLost(c, data, next) ==
  /\ cli' = [cli EXCEPT ![c] = next]
  /\ UNCHANGED c2s

\* A write on the connection of c: the data goes out, or, once the server
\* has closed the connection, is lost; the write may then fail.
Write(c, data, next) ==
  /\ c2s' = IF conn[c] = "open" THEN [c2s EXCEPT ![c] = Append(@, data)] ELSE c2s
  /\ \E to \in IF conn[c] = "open" THEN {next} ELSE {next, "fatal"} :
       cli' = [cli EXCEPT ![c] = to]

CtrlSendSecret(c) ==
  /\ cli[c] = "connected"
  /\ Write(c, "secret", "auth")
  /\ UNCHANGED <<srv, conn, backlog, client_fds, notified, num_incidents, s2c>>

\* exit() of a client closes its end of the connection.
Die(c) ==
  /\ cli' = [cli EXCEPT ![c] = "fatal"]
  /\ \E to \in IF conn[c] = "open" THEN {"eof", "reset"} ELSE {conn[c]} :
       conn' = [conn EXCEPT ![c] = to]

\* Mutant: the client does not wait for the server's answer.
CtrlSkipMagic(c) ==
  /\ cli[c] = "auth"
  /\ cli' = [cli EXCEPT ![c] = "joined"]
  /\ UNCHANGED <<srv, conn, backlog, client_fds, notified, num_incidents, c2s, s2c>>

\* recv_magic in ctrl_connect: the answer is the client's own magic.
CtrlRecvMagic(c) ==
  /\ cli[c] = "auth"
  /\ s2c[c] # <<>> /\ Head(s2c[c]) = Magic[c]
  /\ cli' = [cli EXCEPT ![c] = "joined"]
  /\ s2c' = [s2c EXCEPT ![c] = Tail(@)]
  /\ UNCHANGED <<srv, conn, backlog, client_fds, notified, num_incidents, c2s>>

\* It is another magic, or the server closed the connection.
CtrlRecvMagicFails(c) ==
  /\ cli[c] = "auth"
  /\ IF s2c[c] # <<>> THEN Head(s2c[c]) # Magic[c] ELSE conn[c] = "closed"
  /\ Die(c)
  /\ UNCHANGED <<srv, backlog, client_fds, notified, num_incidents, c2s, s2c>>

\* control_plane_stop of a client: notify, shut down and close.
CtrlNotifyServer(c) ==
  /\ cli[c] = "joined"
  /\ Write(c, Magic[c], "notified")
  /\ conn' = [conn EXCEPT ![c] = IF @ = "open" THEN "eof" ELSE @]
  /\ UNCHANGED <<srv, backlog, client_fds, notified, num_incidents, s2c>>

\* A client is killed, or a fatal error elsewhere in it ends the process: once
\* the server is gone, its data plane is gone too.
CtrlClientDies(c) ==
  /\ c \in Mortal \/ srv = "fatal"
  /\ cli[c] \notin {"notified", "fatal"}
  /\ Die(c)
  /\ UNCHANGED <<srv, backlog, client_fds, notified, num_incidents, c2s, s2c>>

\* The steps a client's own code takes.
CtrlClientStep(c) ==
  \/ CtrlConnect(c) \/ CtrlConnectFails(c) \/ CtrlSendSecret(c)
  \/ CtrlRecvMagic(c) \/ CtrlRecvMagicFails(c) \/ CtrlNotifyServer(c)

----------------------------------------------------------------------------
(* Strays: connect, perhaps send something, perhaps hang up.               *)

StrayConnect(p) ==
  /\ conn[p] = "none" /\ PortOpen
  /\ conn' = [conn EXCEPT ![p] = "open"]
  /\ backlog' = Append(backlog, p)
  /\ UNCHANGED <<srv, cli, client_fds, notified, num_incidents, c2s, s2c>>

StraySend(p) ==
  /\ conn[p] = "open" /\ c2s[p] = <<>>
  /\ c2s' = [c2s EXCEPT ![p] = <<"garbage">>]
  /\ UNCHANGED <<srv, cli, conn, backlog, client_fds, notified, num_incidents, s2c>>

StrayHangUp(p) ==
  /\ conn[p] = "open"
  /\ \E to \in {"eof", "reset"} : conn' = [conn EXCEPT ![p] = to]
  /\ UNCHANGED <<srv, cli, backlog, client_fds, notified, num_incidents, c2s, s2c>>

----------------------------------------------------------------------------

AllDone ==
  /\ srv \in {"done", "fatal"}
  /\ \A c \in Clients : cli[c] \in {"notified", "fatal"}

\* The test is over; strays may still hang around.
CPFinished == AllDone /\ UNCHANGED cpVars

CPNext ==
  \/ CtrlServerStep
  \/ \E c \in Clients : CtrlClientStep(c) \/ CtrlClientDies(c)
  \/ \E p \in Strays : StrayConnect(p) \/ StraySend(p) \/ StrayHangUp(p)
  \/ CPFinished

CPSpec == CPInit /\ [][CPNext]_cpVars

----------------------------------------------------------------------------
(* Properties.                                                             *)

\* ctrl_accept hands out a connection only to a peer that sent the secret,
\* and to each once: what the server counts as its num_clients clients are
\* that many different client processes.
DistinctClients ==
  /\ Elems(client_fds) \subseteq Clients
  /\ \A i, j \in 1..Len(client_fds) : client_fds[i] = client_fds[j] => i = j
  /\ Len(client_fds) <= NumClients

\* A client only goes on to its test (ctrl_connect returned) as one of the
\* clients the server waits for.
JoinedIsAwaited ==
  \A c \in Clients : cli[c] \in {"joined", "notified"} => c \in Elems(client_fds)

\* control_plane_wait_until_done returns to the server only when every
\* client that ever joined has told that its test is over.
DoneMeansAllNotified ==
  srv = "done" =>
    /\ Len(client_fds) = NumClients
    /\ \A i \in 1..Len(client_fds) : cli[client_fds[i]] = "notified"
    /\ \A c \in Clients : cli[c] # "joined"

\* The server only gives up a test because a client it accepted died, or one
\* that died while it was being accepted: no stray, no surplus client and no
\* client it turned away can end it.
FatalOnlyByClientDeath ==
  srv = "fatal" =>
    \E c \in Elems(client_fds) \cup Mortal : cli[c] = "fatal"

============================================================================
