------------------------------- MODULE TcpRr -------------------------------
(***************************************************************************)
(* One flow of the request/response workload (tcp_rr.c): the client's      *)
(* client_events, the server's server_accept and server_events, and the    *)
(* TCP connection between them.                                            *)
(*                                                                         *)
(* Data is counted in bytes; sent[x] is what side x has written and the    *)
(* other side has not read.  An event loop takes two steps for an event:   *)
(* epoll_wait reports what is ready, the handler acts on it, and the world *)
(* may change in between.  Sampling models what interval_collect does.     *)
(***************************************************************************)
EXTENDS Naturals

CONSTANTS
  RequestSize, ResponseSize,   \* opts of both processes
  BufferSize,                  \* opts->buffer_size of both
  SockBuf,                     \* bytes a connection holds in one direction
  MaxTrans,                    \* bound on the transactions
  ServerMayDie                 \* whether the server process may be killed

ASSUME RrAssumption ==
  /\ RequestSize \in Nat \ {0} /\ ResponseSize \in Nat \ {0}
  /\ BufferSize \in Nat \ {0} /\ SockBuf \in Nat \ {0}
  /\ MaxTrans \in Nat /\ ServerMayDie \in BOOLEAN

Sides == {"client", "server"}
Other(x) == IF x = "client" THEN "server" ELSE "client"

VARIABLES
  flow,        \* of each side: "none" (not accepted yet), "open"; "deleted",
               \* or "dropped" if it was because epoll_ctl failed
  closed,      \* of each side: has its end of the connection been closed?
  interest,    \* epoll events each side waits for, besides EPOLLRDHUP
  events,      \* what epoll_wait returned and is not handled yet
  to_read, to_write, transactions,   \* fields of struct flow
  sent,        \* bytes in flight from each side
  stopping     \* the client's main thread has written stop_efd

rrVars == <<flow, closed, interest, events, to_read, to_write, transactions, sent, stopping>>
counters == <<to_read, to_write, transactions>>

RrTypeOK ==
  /\ flow \in [Sides -> {"none", "open", "deleted", "dropped"}]
  /\ closed \in [Sides -> BOOLEAN]
  /\ interest \in [Sides -> SUBSET {"IN", "OUT"}]
  /\ events \in [Sides -> SUBSET {"IN", "OUT", "RDHUP"}]
  /\ to_read \in [Sides -> Nat]
  /\ to_write \in [Sides -> Nat]
  /\ transactions \in [Sides -> Nat]
  /\ sent \in [Sides -> 0..SockBuf]
  /\ stopping \in BOOLEAN

\* run_client has connected and added its flow with epoll_events(opts); the
\* server has not accepted the connection yet.
RrInit ==
  /\ flow = [x \in Sides |-> IF x = "client" THEN "open" ELSE "none"]
  /\ closed = [x \in Sides |-> FALSE]
  /\ interest = [x \in Sides |-> IF x = "client" THEN {"IN", "OUT"} ELSE {}]
  /\ events = [x \in Sides |-> {}]
  /\ to_write = [x \in Sides |-> IF x = "client" THEN RequestSize ELSE 0]
  /\ to_read = [x \in Sides |-> 0]
  /\ transactions = [x \in Sides |-> 0]
  /\ sent = [x \in Sides |-> 0]
  /\ stopping = FALSE

AtMost(a, b) == IF a < b THEN a ELSE b

----------------------------------------------------------------------------
(* The event loop of one side.                                             *)

\* server_accept
ServerAccept ==
  /\ flow["server"] = "none" /\ ~closed["server"]
  /\ flow' = [flow EXCEPT !["server"] = "open"]
  /\ interest' = [interest EXCEPT !["server"] = {"IN"}]
  /\ to_read' = [to_read EXCEPT !["server"] = RequestSize]
  /\ UNCHANGED <<closed, events, to_write, transactions, sent, stopping>>

\* Mutant: EPOLLRDHUP is left out of the events.
ReadyButHangUp(x) ==
  interest[x] \cap
    ((IF sent[Other(x)] > 0 \/ closed[Other(x)] THEN {"IN"} ELSE {})
     \cup (IF sent[x] < SockBuf \/ closed[Other(x)] THEN {"OUT"} ELSE {}))

\* What epoll reports: the flow's events (addflow adds EPOLLRDHUP to them) that
\* the connection is ready for.
Ready(x) ==
  (IF closed[Other(x)] THEN {"RDHUP"} ELSE {})
  \cup (interest[x] \cap
          ((IF sent[Other(x)] > 0 \/ closed[Other(x)] THEN {"IN"} ELSE {})
           \cup (IF sent[x] < SockBuf \/ closed[Other(x)] THEN {"OUT"} ELSE {})))

EpollWait(x) ==
  /\ flow[x] = "open" /\ ~closed[x] /\ events[x] = {} /\ Ready(x) # {}
  /\ events' = [events EXCEPT ![x] = Ready(x)]
  /\ UNCHANGED <<flow, closed, interest, counters, sent, stopping>>

Handling(x) == flow[x] = "open" /\ ~closed[x] /\ events[x] # {}

Handled(x) == events' = [events EXCEPT ![x] = {}]

\* delflow, which closes the socket.
DelFlow(x) ==
  /\ flow' = [flow EXCEPT ![x] = "deleted"]
  /\ closed' = [closed EXCEPT ![x] = TRUE]
  /\ Handled(x)
  /\ UNCHANGED <<interest, counters, sent, stopping>>

HungUp(x) ==
  /\ Handling(x) /\ "RDHUP" \in events[x]
  /\ DelFlow(x)

\* The client writes before it reads, the server reads before it writes.
Writing(x) ==
  /\ Handling(x) /\ "RDHUP" \notin events[x] /\ "OUT" \in events[x]
  /\ x = "server" => "IN" \notin events[x]

Reading(x) ==
  /\ Handling(x) /\ "RDHUP" \notin events[x] /\ "IN" \in events[x]
  /\ x = "client" => "OUT" \notin events[x]

\* Mutant: the message is as long as the buffer.
WholeBuffer(left) == BufferSize

\* What one read() or write() asks for.
Chunk(left) == AtMost(left, BufferSize)

\* EPOLL_CTL_MOD: after its message a side waits for the answer.
WaitToRead(x) == interest' = [interest EXCEPT ![x] = {"IN"}]

\* Mutant: EPOLL_CTL_MOD is missing, and the interest stays EPOLLIN.
InterestKept(x) == UNCHANGED interest

\* After the other's message it waits for room for the answer.
WaitToWrite(x) == interest' = [interest EXCEPT ![x] = {"OUT"}]

\* Mutant: the client counts its requests, too.
WrittenByBoth(x) == 1

\* The server's transaction is over with the write of the response, the
\* client's with the read of it.
Written(x) == IF x = "server" THEN 1 ELSE 0

Read(x) == IF x = "client" THEN 1 ELSE 0

\* Mutant: the client does not set bytes_to_read with the request.
NothingExpected(x) == IF x = "client" THEN 0 ELSE RequestSize

\* Mutant: the two sizes are mixed up.
SizesSwapped(x) == IF x = "client" THEN RequestSize ELSE ResponseSize

\* The length of the message a side reads, and of the one it writes.
ToExpect(x) == IF x = "client" THEN ResponseSize ELSE RequestSize

ToSend(x) == IF x = "client" THEN RequestSize ELSE ResponseSize

\* A message has been written up to n bytes; with the last one the side
\* turns to reading.
Wrote(x, n) ==
  /\ to_write' = [to_write EXCEPT ![x] = @ - n]
  /\ IF n < to_write[x]
     THEN UNCHANGED <<interest, to_read, transactions>>
     ELSE /\ WaitToRead(x)
          /\ to_read' = [to_read EXCEPT ![x] = ToExpect(x)]
          /\ transactions' = [transactions EXCEPT ![x] = @ + Written(x)]

\* do_write takes as much as there is room for, at least one byte.
WriteData(x) ==
  /\ Writing(x) /\ ~closed[Other(x)]
  /\ \E n \in 1..AtMost(Chunk(to_write[x]), SockBuf - sent[x]) :
       /\ Wrote(x, n)
       /\ sent' = [sent EXCEPT ![x] = @ + n]
  /\ Handled(x)
  /\ UNCHANGED <<flow, closed, stopping>>

\* The peer is gone since epoll_wait: the data goes nowhere.
WriteNowhere(x) ==
  /\ Writing(x) /\ closed[Other(x)]
  /\ \E n \in 1..Chunk(to_write[x]) : Wrote(x, n)
  /\ Handled(x)
  /\ UNCHANGED <<flow, closed, sent, stopping>>

\* Or it raises SIGPIPE, which no process ignores.
WriteKills(x) ==
  /\ Writing(x) /\ closed[Other(x)]
  /\ closed' = [closed EXCEPT ![x] = TRUE]
  /\ Handled(x)
  /\ UNCHANGED <<flow, interest, counters, sent, stopping>>

\* n bytes of a message have been read; with the last one the side turns to
\* writing.
DidRead(x, n) ==
  /\ to_read' = [to_read EXCEPT ![x] = @ - n]
  /\ IF n < to_read[x]
     THEN UNCHANGED <<interest, to_write, transactions>>
     ELSE /\ WaitToWrite(x)
          /\ to_write' = [to_write EXCEPT ![x] = ToSend(x)]
          /\ transactions' = [transactions EXCEPT ![x] = @ + Read(x)]

\* do_read takes what there is.  A read of zero bytes counts as end of file.
ReadData(x) ==
  LET n == AtMost(Chunk(to_read[x]), sent[Other(x)]) IN
  /\ Reading(x)
  /\ x = "client" => transactions[x] < MaxTrans
  /\ IF n = 0
     THEN DelFlow(x)
     ELSE /\ DidRead(x, n)
          /\ sent' = [sent EXCEPT ![Other(x)] = @ - n]
          /\ Handled(x)
          /\ UNCHANGED <<flow, closed, stopping>>

\* do_read or do_write fails: the connection was reset since epoll_wait, the
\* kernel is short of memory, or the script's hook returned an error.  It is
\* logged, and the event comes again.
IoFails(x) ==
  /\ Reading(x) \/ Writing(x)
  /\ Handled(x)
  /\ UNCHANGED <<flow, closed, interest, counters, sent, stopping>>

\* EPOLL_CTL_MOD fails at the end of a message: the server deletes the flow
\* ("not necessarily fatal, just drop"), the client exits (epoll_ctl_or_die).
CtlFails(x) ==
  /\ flow' = IF x = "server" THEN [flow EXCEPT ![x] = "dropped"] ELSE flow
  /\ closed' = [closed EXCEPT ![x] = TRUE]
  /\ Handled(x)
  /\ UNCHANGED <<interest, stopping>>

\* The last bytes of a message have been read, and the transaction is counted.
ReadCtlFails(x) ==
  /\ Reading(x)
  /\ to_read[x] > 0 /\ to_read[x] = AtMost(Chunk(to_read[x]), sent[Other(x)])
  /\ x = "client" => transactions[x] < MaxTrans
  /\ to_read' = [to_read EXCEPT ![x] = 0]
  /\ sent' = [sent EXCEPT ![Other(x)] = @ - to_read[x]]
  /\ transactions' = [transactions EXCEPT ![x] = @ + Read(x)]
  /\ CtlFails(x)
  /\ UNCHANGED to_write

\* They have been written, into the connection or to nowhere.
WriteCtlFails(x) ==
  /\ Writing(x) /\ to_write[x] = Chunk(to_write[x])
  /\ \/ /\ ~closed[Other(x)] /\ to_write[x] <= SockBuf - sent[x]
        /\ sent' = [sent EXCEPT ![x] = @ + to_write[x]]
     \/ closed[Other(x)] /\ UNCHANGED sent
  /\ to_write' = [to_write EXCEPT ![x] = 0]
  /\ transactions' = [transactions EXCEPT ![x] = @ + Written(x)]
  /\ CtlFails(x)
  /\ UNCHANGED to_read

LoopStep(x) ==
  \/ EpollWait(x) \/ HungUp(x)
  \/ WriteData(x) \/ WriteNowhere(x) \/ WriteKills(x) \/ WriteCtlFails(x)
  \/ ReadData(x) \/ ReadCtlFails(x) \/ IoFails(x)

----------------------------------------------------------------------------

\* The client is told to stop ...
StopClient ==
  /\ ~stopping /\ stopping' = TRUE
  /\ UNCHANGED <<flow, closed, interest, events, counters, sent>>

\* ... leaves its loop, even with an event of the flow behind that of
\* stop_efd in the batch, and closes its sockets.
ClientLeaves ==
  /\ stopping /\ ~closed["client"]
  /\ closed' = [closed EXCEPT !["client"] = TRUE]
  /\ events' = [events EXCEPT !["client"] = {}]
  /\ UNCHANGED <<flow, interest, counters, sent, stopping>>

ServerDies ==
  /\ ServerMayDie /\ ~closed["server"]
  /\ closed' = [closed EXCEPT !["server"] = TRUE]
  /\ events' = [events EXCEPT !["server"] = {}]
  /\ UNCHANGED <<flow, interest, counters, sent, stopping>>

RrFinished == (\A x \in Sides : closed[x]) /\ UNCHANGED rrVars

ServerLoop == ServerAccept \/ LoopStep("server")
ClientLoop == LoopStep("client") \/ ClientLeaves

RrNext == ServerLoop \/ ClientLoop \/ StopClient \/ ServerDies \/ RrFinished

RrSpec == RrInit /\ [][RrNext]_rrVars

\* Both event loops run.  Nothing is assumed of when the test is stopped.
RrFairSpec == RrSpec /\ WF_rrVars(ServerLoop) /\ WF_rrVars(ClientLoop)

----------------------------------------------------------------------------
(* Properties.                                                             *)

\* The two sides count the same transactions: the server is never behind the
\* client and at most one ahead, wherever the test is cut off.
Lockstep ==
  transactions["server"] \in {transactions["client"], transactions["client"] + 1}

\* Requests and responses take turns: bytes go in one direction at a time,
\* and what is in flight is what one side has written of the current message
\* and the other has not read.
TakeTurns ==
  (\A x \in Sides : flow[x] = "open" /\ ~closed[x]) =>
    \A x \in Sides : sent[x] > 0 =>
      /\ sent[Other(x)] = 0 /\ "IN" \in interest[Other(x)]
      /\ to_read[Other(x)] = sent[x] + to_write[x]

\* A flow is deleted because the peer hung up, never for a read() of zero
\* bytes from a live connection, or it is the server's and EPOLL_CTL_MOD
\* failed: then it is dropped between two messages, none of them cut in half.
DeletedWithCause ==
  \A x \in Sides :
    /\ flow[x] = "deleted" => closed[Other(x)]
    /\ flow[x] = "dropped" => x = "server" /\ to_read[x] = 0 /\ to_write[x] = 0

\* The workload moves on: a test that is not cut off, because the client is
\* stopped or one side exits or drops the flow, completes its transactions,
\* whatever the sizes of messages, buffers and sockets; unless reads or writes
\* fail for ever.
KeepsGoing ==
  \/ <>(stopping \/ transactions["client"] = MaxTrans \/ \E x \in Sides : closed[x])
  \/ []<><<IoFails("client")>>_rrVars
  \/ []<><<IoFails("server")>>_rrVars

\* When the client has left, the server gets rid of the flow.
ServerCleansUp == closed["client"] ~> closed["server"]

============================================================================
