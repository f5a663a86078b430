------------------------------- MODULE Stream -------------------------------
(***************************************************************************)
(* One flow of a stream workload (tcp_stream.c or udp_stream.c):           *)
(* process_events at both ends, with any choice of the options that decide *)
(* what it does: enable_read, enable_write and edge_trigger of each        *)
(* process.                                                                *)
(*                                                                         *)
(* Data is counted in buffers of opts->buffer_size.  Between epoll_wait    *)
(* and each read() or write() of the handler the other end may do          *)
(* anything.  The server of the UDP workload has no connections: its flow  *)
(* is the socket itself, which run_server adds for EPOLLIN alone.          *)
(*                                                                         *)
(* An edge-triggered epoll reports a socket once per wake-up: it is armed  *)
(* by arriving data, by the peer's close, and by room for data after a     *)
(* write() that found none; what is then reported is all that is ready.    *)
(***************************************************************************)
EXTENDS Naturals

CONSTANTS
  SockBuf,    \* buffers a connection holds in one direction
  ErrBuf      \* messages an error queue holds

ASSUME StreamAssumption == SockBuf \in Nat \ {0} /\ ErrBuf \in Nat

Sides == {"client", "server"}
Other(x) == IF x = "client" THEN "server" ELSE "client"

VARIABLES
  proto,                \* "tcp" or "udp"
  reads, writes, edge,  \* sides with enable_read, enable_write, edge_trigger
  pc,        \* of each side: "none" (not accepted yet), "wait" in epoll_wait,
             \* "read", "write" and "readerr" in process_events, "gone"
  events,    \* what epoll_wait returned
  armed,     \* sides an edge-triggered epoll has something to report to
  nospace,   \* sides whose last write() found no room
  failed,    \* edge-triggered sides that an error kept from going on to EAGAIN
  closed,    \* sides whose end of the connection is closed
  sent,      \* buffers in flight from each side
  errq,      \* messages in each error queue (errors, transmit timestamps)
  stopping   \* sides whose main thread has written stop_efd

opts == <<proto, reads, writes, edge>>
vars == <<opts, pc, events, armed, nospace, failed, closed, sent, errq, stopping>>

StreamTypeOK ==
  /\ proto \in {"tcp", "udp"}
  /\ reads \in SUBSET Sides /\ writes \in SUBSET Sides /\ edge \in SUBSET Sides
  /\ pc \in [Sides -> {"none", "wait", "read", "write", "readerr", "gone"}]
  /\ events \in [Sides -> SUBSET {"IN", "OUT", "ERR", "RDHUP"}]
  /\ armed \in SUBSET Sides /\ nospace \in SUBSET Sides
  /\ failed \in SUBSET Sides /\ closed \in SUBSET Sides
  /\ sent \in [Sides -> 0..SockBuf]
  /\ errq \in [Sides -> 0..ErrBuf]
  /\ stopping \in SUBSET Sides

\* main() makes a client write and a server read, whatever the flags say, and
\* the UDP workload has no such flags; run_client has added its flow, and so has
\* run_server of the UDP workload.
Init ==
  /\ proto \in {"tcp", "udp"}
  /\ reads \in SUBSET Sides /\ "server" \in reads
  /\ writes \in SUBSET Sides /\ "client" \in writes
  /\ proto = "udp" => reads = {"server"} /\ writes = {"client"}
  /\ edge \in SUBSET Sides
  /\ pc = [x \in Sides |-> IF x = "client" \/ proto = "udp" THEN "wait" ELSE "none"]
  /\ events = [x \in Sides |-> {}]
  /\ armed = {"client"}
  /\ nospace = {} /\ failed = {} /\ closed = {}
  /\ sent = [x \in Sides |-> 0] /\ errq = [x \in Sides |-> 0]
  /\ stopping = {}

Goto(x, to) == pc' = [pc EXCEPT ![x] = to]

----------------------------------------------------------------------------

\* server_accept; EPOLL_CTL_ADD reports what is ready.
ServerAccept ==
  /\ pc["server"] = "none"
  /\ Goto("server", "wait")
  /\ armed' = armed \cup {"server"}
  /\ UNCHANGED <<opts, events, nospace, failed, closed, sent, errq, stopping>>

HasData(x) == sent[Other(x)] > 0
PeerGone(x) == proto = "tcp" /\ Other(x) \in closed
HasRoom(x) == sent[x] < SockBuf

\* The flow of a UDP server, added with EPOLLIN whatever the options say.
UdpServer(x) == proto = "udp" /\ x = "server"

\* EPOLLET of epoll_events(opts).
EdgeTriggered(x) == x \in edge /\ ~UdpServer(x)

\* What is ready of epoll_events(opts) | EPOLLRDHUP; EPOLLERR is always reported.
Ready(x) ==
  { e \in {"IN", "OUT", "ERR", "RDHUP"} :
      \/ e = "RDHUP" /\ PeerGone(x)
      \/ e = "IN" /\ x \in reads /\ (HasData(x) \/ PeerGone(x))
      \/ e = "OUT" /\ x \in writes /\ ~UdpServer(x) /\ (HasRoom(x) \/ PeerGone(x))
      \/ e = "ERR" /\ errq[x] > 0 }

\* Mutant: an `else if' for EPOLLERR, which leaves it to an event without EPOLLOUT.
OutOrErr(ev) == "wait"

\* The branches of process_events that come after a read and after a write.
AfterIn(ev)  == IF "OUT" \in ev THEN "write" ELSE IF "ERR" \in ev THEN "readerr" ELSE "wait"
AfterOut(ev) == IF "ERR" \in ev THEN "readerr" ELSE "wait"

\* epoll_wait returns an event of the flow that is not a hang-up; the handler
\* turns to reading first.
EpollWait(x) ==
  /\ pc[x] = "wait" /\ Ready(x) # {} /\ "RDHUP" \notin Ready(x)
  /\ EdgeTriggered(x) => x \in armed
  /\ events' = [events EXCEPT ![x] = Ready(x)]
  /\ armed' = armed \ {x}
  /\ Goto(x, IF "IN" \in Ready(x) THEN "read" ELSE AfterIn(Ready(x)))
  /\ UNCHANGED <<opts, nospace, failed, closed, sent, errq, stopping>>

\* A wake-up with nothing to report: epoll_wait goes on waiting.
Spurious(x) ==
  /\ pc[x] = "wait" /\ x \in armed /\ Ready(x) = {}
  /\ armed' = armed \ {x}
  /\ UNCHANGED <<opts, pc, events, nospace, failed, closed, sent, errq, stopping>>

\* The socket of x is closed: the peer is told.
Gone(x) ==
  /\ Goto(x, "gone")
  /\ closed' = closed \cup {x}
  /\ armed' = armed \cup {Other(x)}
  /\ events' = [events EXCEPT ![x] = {}]
  /\ UNCHANGED <<opts, nospace, failed, sent, errq, stopping>>

\* Mutant: the hang-up is reported and nothing is done about it.
HangUpIgnored(x) ==
  /\ pc[x] = "wait" /\ "RDHUP" \in Ready(x)
  /\ EdgeTriggered(x) => x \in armed
  /\ armed' = armed \ {x}
  /\ UNCHANGED <<opts, pc, events, nospace, failed, closed, sent, errq, stopping>>

\* EPOLLRDHUP: delflow.
HungUp(x) ==
  /\ pc[x] = "wait" /\ "RDHUP" \in Ready(x)
  /\ EdgeTriggered(x) => x \in armed
  /\ Gone(x)

\* The handler is done with the event.
Handled(x) ==
  /\ Goto(x, "wait")
  /\ events' = [events EXCEPT ![x] = {}]

\* On to the branch at pc `to', or done with the event.
GoOn(x, to) == IF to = "wait" THEN Handled(x) ELSE Goto(x, to) /\ UNCHANGED events

\* Mutant: no `goto read_again'.
AfterOneRead(x) == GoOn(x, AfterIn(events[x]))

\* Mutant: a `continue' after the read, so that no event is both read and
\* written for.
AfterReadOnly(x) == IF x \in edge THEN UNCHANGED <<pc, events>> ELSE Handled(x)

\* After a successful read: again if edge-triggered, otherwise on to EPOLLOUT.
AfterRead(x) == IF x \in edge THEN UNCHANGED <<pc, events>> ELSE GoOn(x, AfterIn(events[x]))

\* A writer that waits for room is woken.
MakeRoom(x) ==
  /\ sent' = [sent EXCEPT ![x] = @ - 1]
  /\ armed' = IF x \in nospace THEN armed \cup {x} ELSE armed
  /\ nospace' = nospace \ {x}

\* Mutant: EAGAIN is counted as a read.
ReadWhatever(x) ==
  /\ pc[x] = "read"
  /\ MakeRoom(Other(x))
  /\ AfterRead(x)
  /\ UNCHANGED <<opts, failed, closed, errq, stopping>>

ReadBuffer(x) ==
  /\ pc[x] = "read" /\ HasData(x)
  /\ MakeRoom(Other(x))
  /\ AfterRead(x)
  /\ UNCHANGED <<opts, failed, closed, errq, stopping>>

\* read() says EAGAIN: `continue', past the EPOLLOUT of the same event.
ReadAgain(x) ==
  /\ pc[x] = "read" /\ ~HasData(x) /\ ~PeerGone(x)
  /\ failed' = failed \ {x}
  /\ Handled(x)
  /\ UNCHANGED <<opts, armed, nospace, closed, sent, errq, stopping>>

\* read() returns 0: delflow.
ReadEof(x) ==
  /\ pc[x] = "read" /\ ~HasData(x) /\ PeerGone(x)
  /\ Gone(x)

\* read() or write() fails with an error other than EAGAIN: the connection was
\* reset, the datagram refused or too long, the kernel short of buffers, or the
\* script's hook returned an error.  It is logged: `continue' ...
IoFails(x) ==
  /\ pc[x] \in {"read", "write"}
  /\ failed' = IF EdgeTriggered(x) THEN failed \cup {x} ELSE failed
  /\ Handled(x)
  /\ UNCHANGED <<opts, armed, nospace, closed, sent, errq, stopping>>

\* ... but to a peer that is gone, write() may raise SIGPIPE, which no process
\* ignores.
WriteKills(x) ==
  /\ pc[x] = "write" /\ PeerGone(x)
  /\ Gone(x)

\* Mutant: `goto write_again' whatever the mode.
AfterWriteAgain(x) == UNCHANGED <<pc, events>>

\* After a successful write: again if edge-triggered, otherwise on to EPOLLERR.
AfterWrite(x) == IF x \in edge THEN UNCHANGED <<pc, events>> ELSE GoOn(x, AfterOut(events[x]))

\* The data arrives and wakes the peer.
WriteBuffer(x) ==
  /\ pc[x] = "write" /\ HasRoom(x) /\ ~PeerGone(x)
  /\ sent' = [sent EXCEPT ![x] = @ + 1]
  /\ armed' = armed \cup {Other(x)}
  /\ AfterWrite(x)
  /\ UNCHANGED <<opts, nospace, failed, closed, errq, stopping>>

\* write() says EAGAIN; the kernel notes that somebody waits for room.
WriteAgain(x) ==
  /\ pc[x] = "write" /\ ~HasRoom(x) /\ ~PeerGone(x)
  /\ nospace' = nospace \cup {x}
  /\ failed' = failed \ {x}
  /\ Handled(x)
  /\ UNCHANGED <<opts, armed, closed, sent, errq, stopping>>

\* do_readerr takes a message off the error queue, or says EAGAIN; the UDP
\* workload reads on if edge-triggered.
ReadErr(x) ==
  /\ pc[x] = "readerr"
  /\ errq' = [errq EXCEPT ![x] = IF @ = 0 THEN 0 ELSE @ - 1]
  /\ IF errq[x] > 0 /\ proto = "udp" /\ x \in edge THEN UNCHANGED <<pc, events>> ELSE Handled(x)
  /\ UNCHANGED <<opts, armed, nospace, failed, closed, sent, stopping>>

\* do_readerr fails with another error, or its hook does.
ReadErrFails(x) ==
  /\ pc[x] = "readerr"
  /\ Handled(x)
  /\ UNCHANGED <<opts, armed, nospace, failed, closed, sent, errq, stopping>>

LoopStep(x) ==
  \/ EpollWait(x) \/ Spurious(x) \/ HungUp(x)
  \/ ReadBuffer(x) \/ ReadAgain(x) \/ ReadEof(x)
  \/ WriteBuffer(x) \/ WriteAgain(x) \/ IoFails(x) \/ WriteKills(x)
  \/ ReadErr(x) \/ ReadErrFails(x)

----------------------------------------------------------------------------
(* The network and the main threads.                                       *)

\* A datagram is lost.
Lose(x) ==
  /\ proto = "udp" /\ sent[x] > 0
  /\ MakeRoom(x)
  /\ UNCHANGED <<opts, pc, events, failed, closed, errq, stopping>>

\* An error or a timestamp is queued for x, about data of its own in flight.
QueueError(x) ==
  /\ errq[x] < ErrBuf /\ sent[x] > 0 /\ pc[x] \notin {"none", "gone"}
  /\ errq' = [errq EXCEPT ![x] = @ + 1]
  /\ armed' = armed \cup {x}
  /\ UNCHANGED <<opts, pc, events, nospace, failed, closed, sent, stopping>>

\* The server's workers are told to stop when the clients are done.
Stop(x) ==
  /\ x \notin stopping /\ stopping' = stopping \cup {x}
  /\ x = "server" => "client" \in closed
  /\ UNCHANGED <<opts, pc, events, armed, nospace, failed, closed, sent, errq>>

\* epoll_wait reports stop_efd, before or after an event of the flow; the
\* worker leaves its loop and the socket is closed.
Leaves(x) ==
  /\ x \in stopping /\ pc[x] \in {"none", "wait"}
  /\ Gone(x)

Finished == closed = Sides /\ UNCHANGED vars

ServerLoop == ServerAccept \/ LoopStep("server")

Next ==
  \/ ServerLoop \/ LoopStep("client") \/ Finished
  \/ \E x \in Sides : Leaves(x) \/ Stop(x) \/ QueueError(x) \/ Lose(x)

Spec == Init /\ [][Next]_vars

\* Both event loops run, and epoll_wait does not forget stop_efd while the
\* flow keeps it busy: it reports both.
FairSpec ==
  /\ Spec
  /\ WF_vars(ServerLoop) /\ WF_vars(LoopStep("client"))
  /\ \A x \in Sides : SF_vars(Leaves(x))

----------------------------------------------------------------------------
(* Properties.                                                             *)

\* No lost wake-up: an edge-triggered side that waits while there is data for it
\* will be told, and so will a side that only writes when there is room (one that
\* also reads may have skipped an EPOLLOUT), unless an error other than EAGAIN
\* made it leave its loop with data or room left.  A hang-up is never lost.
NoLostWakeup ==
  \A x \in Sides : EdgeTriggered(x) /\ pc[x] = "wait" /\ x \notin armed =>
    Ready(x) \subseteq {"ERR"} \cup (IF x \in reads THEN {"OUT"} ELSE {})
                               \cup (IF x \in failed THEN {"IN", "OUT"} ELSE {})

\* The stream does not stall: a side writes again and again until one end
\* closes, if its peer reads, and if edge-triggered loops do not keep either
\* from doing so (process_events reads or writes without end then).  The errors
\* that stop it are those that come for ever, and one after which an
\* edge-triggered side never gets to EAGAIN again: it may not be woken.
KeepsWriting ==
  \A x \in Sides :
    \/ x \notin writes \/ Other(x) \notin reads \/ UdpServer(x)
    \/ x \in edge \cap reads \/ Other(x) \in edge \cap writes
    \/ <>(closed # {})
    \/ []<><<WriteBuffer(x) \/ \E y \in Sides : IoFails(y)>>_vars
    \/ \E y \in Sides : <>[](y \in failed)

\* A side stops when it is told to, however busy the flow, unless it is
\* edge-triggered and its peer goes on.
StopsInTime ==
  \A x \in Sides :
    \/ x \in edge /\ ~UdpServer(x)
    \/ x \in stopping ~> x \in closed

\* The server gets rid of a TCP flow whose client has left, in every mode.
FlowDeleted == proto = "udp" \/ ("client" \in closed ~> "server" \in closed)

\* A level-triggered side takes messages off its error queue as long as there
\* are any, or the flow ends: reads and writes that succeed or say EAGAIN do not
\* keep process_events from EPOLLERR for ever.  Only errors that come again and
\* again do: a read() or write() that fails makes it skip the EPOLLERR of the
\* same event.
ErrorsRead ==
  \A x \in Sides :
    \/ x \in edge
    \/ <>(closed # {})
    \/ []<>(errq[x] = 0)
    \/ []<><<errq'[x] < errq[x] \/ IoFails(x) \/ ReadErrFails(x)>>_vars

\* As doc/script-api.rst has it of the recverr hooks: an event with EPOLLERR
\* gets to do_readerr, unless the flow ends or a read or write fails first.
ErrorHookCalled ==
  [][\A x \in Sides :
       "ERR" \in events[x] /\ pc'[x] = "wait" /\ closed = {} /\ ~IoFails(x) =>
         pc[x] = "readerr"]_vars

============================================================================
