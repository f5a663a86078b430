---------------------------- MODULE TcpRrProofs ----------------------------
(***************************************************************************)
(* Theorems about TcpRr, for messages, buffers and sockets of any size and *)
(* any number of transactions.                                             *)
(***************************************************************************)
EXTENDS TcpRr, TLAPS

(***************************************************************************)
(* The inductive invariant: a transaction is in one of four phases, each   *)
(* of which says what the two flows wait for and where the bytes are.  A   *)
(* side that closed, perhaps because EPOLL_CTL_MOD failed at the end of a  *)
(* message, waits for nothing, and what is written to it is lost.          *)
(***************************************************************************)

\* The client still writes its request, or waits for the response.
ClientAsks ==
  \/ closed["client"]
  \/ /\ interest["client"] \in {{"IN", "OUT"}, {"OUT"}}
     /\ to_write["client"] > 0
  \/ /\ interest["client"] = {"IN"}
     /\ to_write["client"] = 0 /\ to_read["client"] = ResponseSize

\* The client has written its request and not read the whole response.
ClientAwaits ==
  \/ closed["client"]
  \/ interest["client"] = {"IN"} /\ to_write["client"] = 0 /\ to_read["client"] > 0

\* Bytes of the message from x that y has to read: in flight or to be written.
Owed(x, y, left) ==
  \/ closed[y]
  \/ /\ sent[x] + to_write[x] <= left
     /\ closed[x] \/ sent[x] + to_write[x] = left

\* The server has not accepted the connection.
Unaccepted ==
  /\ flow["server"] = "none" /\ interest["server"] = {} /\ to_write["server"] = 0
  /\ ClientAsks /\ sent["server"] = 0
  /\ Owed("client", "server", RequestSize)
  /\ transactions["server"] = transactions["client"]

\* The request is on its way.
Request ==
  /\ flow["server"] # "none" /\ to_write["server"] = 0
  /\ closed["server"] \/ (interest["server"] = {"IN"} /\ to_read["server"] > 0)
  /\ ClientAsks /\ sent["server"] = 0
  /\ Owed("client", "server", to_read["server"])
  /\ transactions["server"] = transactions["client"]

\* The server writes the response.
Response ==
  /\ flow["server"] # "none" /\ interest["server"] = {"OUT"}
  /\ to_read["server"] = 0 /\ to_write["server"] > 0
  /\ ClientAwaits /\ sent["client"] = 0
  /\ Owed("server", "client", to_read["client"])
  /\ transactions["server"] = transactions["client"]

\* The response is written and not all of it is read.
Answered ==
  /\ flow["server"] # "none" /\ to_write["server"] = 0
  /\ closed["server"] \/ (interest["server"] = {"IN"} /\ to_read["server"] = RequestSize)
  /\ ClientAwaits /\ sent["client"] = 0
  /\ Owed("server", "client", to_read["client"])
  /\ transactions["server"] = transactions["client"] + 1

Phase == Unaccepted \/ Request \/ Response \/ Answered

\* What epoll_wait reported stays true until it is handled.
EventsHold ==
  \A x \in Sides :
    /\ events[x] \subseteq interest[x] \cup {"RDHUP"}
    /\ "RDHUP" \in events[x] => closed[Other(x)]
    /\ "IN" \in events[x] /\ "RDHUP" \notin events[x] => sent[Other(x)] > 0

\* A flow that was dropped is closed: nothing is read or written any more.
DroppedClosed == \A x \in Sides : flow[x] = "dropped" => closed[x]

RrInv == RrTypeOK /\ EventsHold /\ Phase /\ DeletedWithCause /\ DroppedClosed

----------------------------------------------------------------------------

LEMMA SidesFacts ==
  /\ "client" \in Sides /\ "server" \in Sides
  /\ Other("client") = "server" /\ Other("server") = "client"
  /\ \A x \in Sides : Other(x) \in Sides /\ (x = "client" \/ x = "server")
BY DEF Sides, Other

LEMMA ChunkBound ==
  ASSUME NEW left \in Nat, NEW other \in Nat
  PROVE  /\ AtMost(Chunk(left), other) \in Nat
         /\ AtMost(Chunk(left), other) <= left /\ AtMost(Chunk(left), other) <= other
         /\ left > 0 /\ other > 0 => AtMost(Chunk(left), other) > 0
         /\ Chunk(left) \in Nat /\ Chunk(left) <= left
BY RrAssumption DEF AtMost, Chunk

LEMMA RrInvInit == RrInit => RrInv
<1> SUFFICES ASSUME RrInit PROVE RrInv
  OBVIOUS
<1>1. RrTypeOK
  <2>1. /\ flow \in [Sides -> {"none", "open", "deleted", "dropped"}] /\ closed \in [Sides -> BOOLEAN]
        /\ stopping \in BOOLEAN
    BY DEF RrInit
  <2>2. /\ interest \in [Sides -> SUBSET {"IN", "OUT"}]
        /\ events \in [Sides -> SUBSET {"IN", "OUT", "RDHUP"}]
    BY DEF RrInit
  <2>3. /\ to_read \in [Sides -> Nat] /\ to_write \in [Sides -> Nat]
        /\ transactions \in [Sides -> Nat] /\ sent \in [Sides -> 0..SockBuf]
    BY RrAssumption DEF RrInit
  <2> QED
    BY <2>1, <2>2, <2>3 DEF RrTypeOK
<1>2. EventsHold
  BY SidesFacts DEF RrInit, EventsHold
<1>3. Unaccepted
  BY SidesFacts, RrAssumption DEF RrInit, Unaccepted, ClientAsks, Owed
<1>4. DeletedWithCause /\ DroppedClosed
  BY DEF RrInit, DeletedWithCause, DroppedClosed
<1> QED
  BY <1>1, <1>2, <1>3, <1>4 DEF RrInv, Phase

\* The parts of the flow a handler's own step leaves to the other side.
LEMMA OwnEvents ==
  ASSUME RrInv, NEW x \in Sides,
         events' = [events EXCEPT ![x] = {}],
         \A y \in Sides : y # x => interest'[y] = interest[y],
         \A y \in Sides : closed[y] => closed'[y],
         sent' \in [Sides -> 0..SockBuf],
         sent'[x] >= sent[x]
  PROVE  EventsHold'
<1>1. events'[x] = {} /\ \A y \in Sides : y # x => events'[y] = events[y]
  BY DEF RrInv, RrTypeOK
<1>2. ASSUME NEW y \in Sides, y # x
      PROVE  /\ events'[y] \subseteq interest'[y] \cup {"RDHUP"}
             /\ "RDHUP" \in events'[y] => closed'[Other(y)]
             /\ "IN" \in events'[y] /\ "RDHUP" \notin events'[y] => sent'[Other(y)] > 0
  <2>1. Other(y) = x
    BY <1>2 DEF Sides, Other
  <2>2. sent[x] \in 0..SockBuf /\ sent'[x] \in 0..SockBuf
    BY DEF RrInv, RrTypeOK
  <2> QED
    BY <1>1, <1>2, <2>1, <2>2, SidesFacts, RrAssumption DEF RrInv, EventsHold
<1> QED
  BY <1>1, <1>2 DEF EventsHold

----------------------------------------------------------------------------
(* The steps.                                                              *)

LEMMA AcceptStep == ASSUME RrInv, ServerAccept PROVE RrInv'
<1>1. RrTypeOK'
  BY RrAssumption DEF RrInv, RrTypeOK, ServerAccept, Sides
<1>2. Unaccepted
  BY DEF RrInv, Phase, Unaccepted, Request, Response, Answered, ServerAccept
<1>3. /\ flow'["server"] = "open" /\ flow'["client"] = flow["client"]
      /\ interest'["server"] = {"IN"} /\ interest'["client"] = interest["client"]
      /\ to_read'["server"] = RequestSize /\ to_read'["client"] = to_read["client"]
      /\ UNCHANGED <<closed, events, to_write, transactions, sent>>
  BY SidesFacts DEF RrInv, RrTypeOK, ServerAccept
<1>4. Request'
  BY <1>2, <1>3, RrAssumption DEF Request, Unaccepted, ClientAsks, Owed
<1>5. EventsHold'
  <2>1. events["server"] \subseteq {"RDHUP"}
    BY <1>2, SidesFacts DEF Unaccepted, RrInv, EventsHold
  <2>2. ASSUME NEW x \in Sides
        PROVE  /\ events[x] \subseteq interest'[x] \cup {"RDHUP"}
               /\ "RDHUP" \in events[x] => closed[Other(x)]
               /\ "IN" \in events[x] /\ "RDHUP" \notin events[x] => sent[Other(x)] > 0
    BY <1>3, <2>1, SidesFacts DEF RrInv, EventsHold
  <2> QED
    BY <1>3, <2>2 DEF EventsHold
<1>6. DeletedWithCause' /\ DroppedClosed'
  BY <1>3, SidesFacts DEF RrInv, DeletedWithCause, DroppedClosed
<1> QED
  BY <1>1, <1>4, <1>5, <1>6 DEF RrInv, Phase

\* Steps that leave the messages alone keep the phase.
LEMMA PhaseKept ==
  ASSUME RrInv, UNCHANGED <<interest, counters, sent>>,
         \A x \in Sides : closed[x] => closed'[x],
         flow'["server"] = "none" <=> flow["server"] = "none"
  PROVE  Phase'
<1>1. /\ interest' = interest /\ to_read' = to_read /\ to_write' = to_write
      /\ transactions' = transactions /\ sent' = sent
  BY DEF counters
<1>2. ASSUME NEW x \in Sides, NEW y \in Sides, NEW left, Owed(x, y, left) PROVE Owed(x, y, left)'
  BY <1>1, <1>2 DEF Owed
<1>3. (ClientAsks => ClientAsks') /\ (ClientAwaits => ClientAwaits')
  BY <1>1, SidesFacts DEF ClientAsks, ClientAwaits
<1>4. Unaccepted => Unaccepted'
  BY <1>1, <1>2, <1>3, SidesFacts DEF Unaccepted
<1>5. Request => Request'
  BY <1>1, <1>2, <1>3, SidesFacts DEF Request
<1>6. Response => Response'
  BY <1>1, <1>2, <1>3, SidesFacts DEF Response
<1>7. Answered => Answered'
  BY <1>1, <1>2, <1>3, SidesFacts DEF Answered
<1> QED
  BY <1>4, <1>5, <1>6, <1>7 DEF RrInv, Phase

LEMMA EpollStep == ASSUME RrInv, NEW x \in Sides, EpollWait(x) PROVE RrInv'
<1>1. Ready(x) \subseteq interest[x] \cup {"RDHUP"}
  BY DEF Ready
<1>2. RrTypeOK'
  BY <1>1 DEF RrInv, RrTypeOK, EpollWait, counters
<1>3. Phase'
  BY PhaseKept DEF EpollWait
<1>4. DeletedWithCause' /\ DroppedClosed'
  BY DEF RrInv, DeletedWithCause, DroppedClosed, EpollWait, counters
<1>5. EventsHold'
  <2>1. /\ events'[x] = Ready(x) /\ \A y \in Sides : y # x => events'[y] = events[y]
        /\ interest' = interest /\ closed' = closed /\ sent' = sent
    BY DEF EpollWait, RrInv, RrTypeOK
  <2>2. /\ "RDHUP" \in Ready(x) => closed[Other(x)]
        /\ "IN" \in Ready(x) /\ "RDHUP" \notin Ready(x) => sent[Other(x)] > 0
    BY DEF Ready, RrInv, RrTypeOK
  <2>3. ASSUME NEW y \in Sides
        PROVE  /\ events'[y] \subseteq interest[y] \cup {"RDHUP"}
               /\ "RDHUP" \in events'[y] => closed[Other(y)]
               /\ "IN" \in events'[y] /\ "RDHUP" \notin events'[y] => sent[Other(y)] > 0
    BY <1>1, <2>1, <2>2 DEF RrInv, EventsHold
  <2> QED
    BY <2>1, <2>3 DEF EventsHold
<1> QED
  BY <1>2, <1>3, <1>4, <1>5 DEF RrInv

\* delflow on a side whose peer has closed.
LEMMA DelFlowStep ==
  ASSUME RrInv, NEW x \in Sides, DelFlow(x), flow[x] = "open", closed[Other(x)]
  PROVE  RrInv'
<1>1. /\ flow' = [flow EXCEPT ![x] = "deleted"] /\ closed' = [closed EXCEPT ![x] = TRUE]
      /\ events' = [events EXCEPT ![x] = {}]
      /\ UNCHANGED <<interest, counters, sent, stopping>>
  BY DEF DelFlow, Handled
<1>2. flow'[x] = "deleted" /\ \A y \in Sides : y # x => flow'[y] = flow[y]
  BY <1>1 DEF RrInv, RrTypeOK
<1>3. \A y \in Sides : closed[y] => closed'[y]
  BY <1>1 DEF RrInv, RrTypeOK
<1>4. RrTypeOK'
  BY <1>1 DEF RrInv, RrTypeOK, counters
<1>5. Phase'
  BY <1>1, <1>2, <1>3, PhaseKept, SidesFacts
<1>6. EventsHold'
  <2>1. sent' \in [Sides -> 0..SockBuf] /\ sent'[x] >= sent[x]
    BY <1>1, RrAssumption DEF RrInv, RrTypeOK
  <2> QED
    BY <1>1, <1>3, <2>1, OwnEvents
<1>7. DeletedWithCause' /\ DroppedClosed'
  BY <1>1, <1>2, <1>3, SidesFacts DEF RrInv, DeletedWithCause, DroppedClosed, counters
<1> QED
  BY <1>4, <1>5, <1>6, <1>7 DEF RrInv

\* The steps that end a side's part (stop, exit, death) or do nothing else
\* than take an event.
LEMMA CloseStep ==
  ASSUME RrInv,
         \/ StopClient \/ ClientLeaves \/ ServerDies \/ UNCHANGED rrVars
         \/ \E x \in Sides : WriteKills(x) \/ IoFails(x)
  PROVE  RrInv'
<1>1. /\ flow' = flow /\ interest' = interest /\ sent' = sent /\ counters' = counters
      /\ stopping' \in BOOLEAN /\ closed' \in [Sides -> BOOLEAN]
      /\ \A x \in Sides : closed[x] => closed'[x]
      /\ events' \in [Sides -> SUBSET {"IN", "OUT", "RDHUP"}]
      /\ \A x \in Sides : events'[x] = events[x] \/ events'[x] = {}
  <2>1. CASE StopClient \/ ClientLeaves \/ ServerDies \/ UNCHANGED rrVars
    BY <2>1, SidesFacts
    DEF RrInv, RrTypeOK, StopClient, ClientLeaves, ServerDies, rrVars, counters
  <2>2. ASSUME NEW x \in Sides, WriteKills(x) \/ IoFails(x)
        PROVE  /\ flow' = flow /\ interest' = interest /\ sent' = sent /\ counters' = counters
               /\ stopping' \in BOOLEAN /\ closed' \in [Sides -> BOOLEAN]
               /\ \A y \in Sides : closed[y] => closed'[y]
               /\ events' \in [Sides -> SUBSET {"IN", "OUT", "RDHUP"}]
               /\ \A y \in Sides : events'[y] = events[y] \/ events'[y] = {}
    BY <2>2 DEF RrInv, RrTypeOK, WriteKills, IoFails, Handled, counters
  <2> QED
    BY <2>1, <2>2
<1>2. RrTypeOK'
  BY <1>1 DEF RrInv, RrTypeOK, counters
<1>3. Phase'
  BY <1>1, PhaseKept
<1>4. EventsHold'
  <2>1. ASSUME NEW y \in Sides
        PROVE  /\ events'[y] \subseteq interest[y] \cup {"RDHUP"}
               /\ "RDHUP" \in events'[y] => closed'[Other(y)]
               /\ "IN" \in events'[y] /\ "RDHUP" \notin events'[y] => sent[Other(y)] > 0
    BY <1>1, SidesFacts DEF RrInv, EventsHold
  <2> QED
    BY <1>1, <2>1 DEF EventsHold
<1>5. DeletedWithCause' /\ DroppedClosed'
  BY <1>1, SidesFacts DEF RrInv, DeletedWithCause, DroppedClosed, counters
<1> QED
  BY <1>2, <1>3, <1>4, <1>5 DEF RrInv

----------------------------------------------------------------------------
(* Reading and writing.                                                    *)

\* Types and values of what Wrote and DidRead assign.
Fields ==
  /\ interest \in [Sides -> SUBSET {"IN", "OUT"}]
  /\ to_read \in [Sides -> Nat] /\ to_write \in [Sides -> Nat]
  /\ transactions \in [Sides -> Nat]

Untouched(y) ==
  /\ interest'[y] = interest[y] /\ to_read'[y] = to_read[y]
  /\ to_write'[y] = to_write[y] /\ transactions'[y] = transactions[y]

LEMMA WroteFacts ==
  ASSUME RrInv, NEW x \in Sides, NEW n \in Nat, n <= to_write[x], Wrote(x, n)
  PROVE  /\ Fields'
         /\ Untouched(Other(x))
         /\ to_write'[x] = to_write[x] - n
         /\ n < to_write[x] => /\ interest'[x] = interest[x] /\ to_read'[x] = to_read[x]
                               /\ transactions'[x] = transactions[x]
         /\ n = to_write[x] => /\ interest'[x] = {"IN"} /\ to_read'[x] = ToExpect(x)
                               /\ transactions'[x] = transactions[x] + Written(x)
<1>1. /\ interest \in [Sides -> SUBSET {"IN", "OUT"}] /\ to_read \in [Sides -> Nat]
      /\ to_write \in [Sides -> Nat] /\ transactions \in [Sides -> Nat]
  BY DEF RrInv, RrTypeOK
<1>2. ToExpect(x) \in Nat /\ Written(x) \in Nat
  BY RrAssumption DEF ToExpect, Written
<1>3. Other(x) \in Sides /\ Other(x) # x
  BY DEF Sides, Other
<1>4. to_write' = [to_write EXCEPT ![x] = @ - n] /\ to_write[x] \in Nat /\ to_write[x] - n \in Nat
  BY <1>1 DEF Wrote
<1>5. CASE n < to_write[x]
  <2>1. interest' = interest /\ to_read' = to_read /\ transactions' = transactions
    BY <1>5 DEF Wrote
  <2> QED
    BY <1>1, <1>3, <1>4, <1>5, <2>1 DEF Fields, Untouched
<1>6. CASE n = to_write[x]
  <2>1. /\ interest' = [interest EXCEPT ![x] = {"IN"}]
        /\ to_read' = [to_read EXCEPT ![x] = ToExpect(x)]
        /\ transactions' = [transactions EXCEPT ![x] = @ + Written(x)]
    BY <1>4, <1>6 DEF Wrote, WaitToRead
  <2>2. interest' \in [Sides -> SUBSET {"IN", "OUT"}]
    BY <1>1, <2>1
  <2>3. to_read' \in [Sides -> Nat] /\ to_write' \in [Sides -> Nat] /\ transactions' \in [Sides -> Nat]
    BY <1>1, <1>2, <1>4, <2>1
  <2> QED
    BY <1>1, <1>2, <1>3, <1>4, <1>6, <2>1, <2>2, <2>3 DEF Fields, Untouched
<1> QED
  BY <1>4, <1>5, <1>6

LEMMA ReadFacts ==
  ASSUME RrInv, NEW x \in Sides, NEW n \in Nat, n <= to_read[x], DidRead(x, n)
  PROVE  /\ Fields'
         /\ Untouched(Other(x))
         /\ to_read'[x] = to_read[x] - n
         /\ n < to_read[x] => /\ interest'[x] = interest[x] /\ to_write'[x] = to_write[x]
                              /\ transactions'[x] = transactions[x]
         /\ n = to_read[x] => /\ interest'[x] = {"OUT"} /\ to_write'[x] = ToSend(x)
                              /\ transactions'[x] = transactions[x] + Read(x)
<1>1. /\ interest \in [Sides -> SUBSET {"IN", "OUT"}] /\ to_read \in [Sides -> Nat]
      /\ to_write \in [Sides -> Nat] /\ transactions \in [Sides -> Nat]
  BY DEF RrInv, RrTypeOK
<1>2. ToSend(x) \in Nat /\ Read(x) \in Nat
  BY RrAssumption DEF ToSend, Read
<1>3. Other(x) \in Sides /\ Other(x) # x
  BY DEF Sides, Other
<1>4. to_read' = [to_read EXCEPT ![x] = @ - n] /\ to_read[x] \in Nat /\ to_read[x] - n \in Nat
  BY <1>1 DEF DidRead
<1>5. CASE n < to_read[x]
  <2>1. interest' = interest /\ to_write' = to_write /\ transactions' = transactions
    BY <1>5 DEF DidRead
  <2> QED
    BY <1>1, <1>3, <1>4, <1>5, <2>1 DEF Fields, Untouched
<1>6. CASE n = to_read[x]
  <2>1. /\ interest' = [interest EXCEPT ![x] = {"OUT"}]
        /\ to_write' = [to_write EXCEPT ![x] = ToSend(x)]
        /\ transactions' = [transactions EXCEPT ![x] = @ + Read(x)]
    BY <1>4, <1>6 DEF DidRead, WaitToWrite
  <2>2. interest' \in [Sides -> SUBSET {"IN", "OUT"}]
    BY <1>1, <2>1
  <2>3. to_read' \in [Sides -> Nat] /\ to_write' \in [Sides -> Nat] /\ transactions' \in [Sides -> Nat]
    BY <1>1, <1>2, <1>4, <2>1
  <2> QED
    BY <1>1, <1>2, <1>3, <1>4, <1>6, <2>1, <2>2, <2>3 DEF Fields, Untouched
<1> QED
  BY <1>4, <1>5, <1>6

\* The rest of the invariant after a step that moved data.
LEMMA DataStep ==
  ASSUME RrInv, NEW x \in Sides, Handling(x), Fields', Untouched(Other(x)),
         Handled(x), UNCHANGED <<flow, closed, stopping>>,
         sent' \in [Sides -> 0..SockBuf], sent'[x] >= sent[x],
         Phase'
  PROVE  RrInv'
<1>1. events' \in [Sides -> SUBSET {"IN", "OUT", "RDHUP"}]
  BY DEF Handled, RrInv, RrTypeOK
<1>2. RrTypeOK'
  BY <1>1 DEF RrInv, RrTypeOK, Fields
<1>3. EventsHold'
  <2>1. \A y \in Sides : y # x => interest'[y] = interest[y]
    BY DEF Untouched, Sides, Other
  <2> QED
    BY <2>1, OwnEvents DEF Handled
<1>4. DeletedWithCause' /\ DroppedClosed'
  <2>1. ASSUME NEW y \in Sides PROVE y = x \/ y = Other(x)
    BY DEF Sides, Other
  <2> QED
    BY <2>1 DEF RrInv, DeletedWithCause, DroppedClosed, Handling, Untouched
<1> QED
  BY <1>2, <1>3, <1>4 DEF RrInv

\* The counters of a side as numbers, for the arithmetic below.
LEMMA Numbers ==
  ASSUME RrInv, NEW x \in Sides
  PROVE  /\ to_read[x] \in Nat /\ to_write[x] \in Nat /\ transactions[x] \in Nat
         /\ sent[x] \in Nat /\ sent[x] <= SockBuf
BY RrAssumption DEF RrInv, RrTypeOK

\* A side that writes has something to write.
LEMMA WriterPhase ==
  ASSUME RrInv, NEW x \in Sides, Writing(x)
  PROVE  /\ to_write[x] > 0
         /\ x = "client" => Unaccepted \/ Request
         /\ x = "server" => Response
<1>1. "OUT" \in interest[x] /\ ~closed[x]
  BY DEF RrInv, EventsHold, Writing, Handling
<1>2. x = "client" => ~Response /\ ~Answered
  BY <1>1 DEF Response, Answered, ClientAwaits
<1>3. x = "server" => ~Unaccepted /\ ~Request /\ ~Answered
  BY <1>1 DEF Unaccepted, Request, Answered
<1>4. x = "client" => (Unaccepted \/ Request) /\ ClientAsks
  BY <1>2 DEF RrInv, Phase, Unaccepted, Request
<1> QED
  BY <1>1, <1>3, <1>4, SidesFacts DEF RrInv, Phase, ClientAsks, Response

\* A side that reads finds a byte.
LEMMA ReaderPhase ==
  ASSUME RrInv, NEW x \in Sides, Reading(x)
  PROVE  /\ to_read[x] > 0 /\ sent[Other(x)] > 0
         /\ x = "client" => Response \/ Answered
         /\ x = "server" => Request
<1>1. sent[Other(x)] > 0 /\ ~closed[x]
  BY DEF RrInv, EventsHold, Reading, Handling
<1>2. x = "client" => ~Unaccepted /\ ~Request
  BY <1>1, SidesFacts DEF Unaccepted, Request
<1>3. x = "server" => ~Response /\ ~Answered /\ ~Unaccepted
  BY <1>1, SidesFacts DEF Response, Answered, Unaccepted, Reading, Handling
<1>4. x = "client" => (Response \/ Answered) /\ ClientAwaits
  BY <1>2 DEF RrInv, Phase, Response, Answered
<1>5. x = "server" => Request
  BY <1>3 DEF RrInv, Phase
<1> QED
  BY <1>1, <1>4, <1>5, SidesFacts DEF ClientAwaits, Request

\* The phase after n bytes of a message have been written: they are in
\* flight, or lost because the peer has closed.
LEMMA WrotePhase ==
  ASSUME RrInv, NEW x \in Sides, Writing(x),
         NEW n \in Nat, n > 0, n <= to_write[x], Wrote(x, n),
         UNCHANGED <<flow, closed>>,
         sent'[Other(x)] = sent[Other(x)],
         \/ sent'[x] = sent[x] + n
         \/ sent'[x] = sent[x] /\ closed[Other(x)]
  PROVE  Phase'
<1>1. CASE x = "client"
  <2>1. /\ Untouched("server") /\ sent'["server"] = sent["server"]
        /\ to_write'["client"] = to_write["client"] - n
        /\ n < to_write["client"] => interest'["client"] = interest["client"]
        /\ n = to_write["client"] =>
             interest'["client"] = {"IN"} /\ to_read'["client"] = ResponseSize
        /\ transactions'["client"] = transactions["client"]
    BY <1>1, WroteFacts, Numbers, SidesFacts DEF ToExpect, Written
  <2>2. ClientAsks /\ "OUT" \in interest["client"]
    BY <1>1, WriterPhase, SidesFacts DEF Unaccepted, Request, RrInv, EventsHold, Writing
  <2>3. ClientAsks'
    BY <1>1, <2>1, <2>2, Numbers DEF ClientAsks
  <2>4. ASSUME NEW left \in Nat, Owed("client", "server", left)
        PROVE  \/ closed'["server"]
               \/ /\ sent'["client"] + to_write'["client"] <= left
                  /\ closed'["client"] \/ sent'["client"] + to_write'["client"] = left
    BY <1>1, <2>1, <2>4, Numbers, SidesFacts DEF Owed
  <2>5. CASE Unaccepted
    <3>1. Owed("client", "server", RequestSize)'
      BY <2>4, <2>5, RrAssumption DEF Unaccepted, Owed
    <3> QED
      BY <2>1, <2>3, <2>5, <3>1 DEF Unaccepted, Untouched, Phase
  <2>6. CASE Request
    <3>1. Owed("client", "server", to_read["server"])'
      BY <2>1, <2>4, <2>6, Numbers, SidesFacts DEF Request, Owed, Untouched
    <3> QED
      BY <2>1, <2>3, <2>6, <3>1 DEF Request, Untouched, Phase
  <2> QED
    BY <1>1, <2>5, <2>6, WriterPhase
<1>2. CASE x = "server"
  <2>1. /\ Untouched("client") /\ sent'["client"] = sent["client"]
        /\ to_write'["server"] = to_write["server"] - n
        /\ n < to_write["server"] => /\ interest'["server"] = interest["server"]
                                     /\ to_read'["server"] = to_read["server"]
                                     /\ transactions'["server"] = transactions["server"]
        /\ n = to_write["server"] => /\ interest'["server"] = {"IN"}
                                     /\ to_read'["server"] = RequestSize
                                     /\ transactions'["server"] = transactions["server"] + 1
    BY <1>2, WroteFacts, Numbers, SidesFacts DEF ToExpect, Written
  <2>2. Response
    BY <1>2, WriterPhase
  <2>3. Owed("server", "client", to_read["client"])'
    BY <1>2, <2>1, <2>2, Numbers, SidesFacts DEF Response, Owed, Untouched
  <2>4. ClientAwaits'
    BY <2>1, <2>2 DEF Response, ClientAwaits, Untouched
  <2>5. CASE n < to_write["server"]
    <3>1. to_write'["server"] > 0
      BY <2>1, <2>5, Numbers, SidesFacts
    <3> QED
      BY <2>1, <2>2, <2>3, <2>5, <2>4, <3>1 DEF Response, Untouched, Phase
  <2>6. CASE n = to_write["server"]
    <3>1. to_write'["server"] = 0
      BY <2>1, <2>6, Numbers, SidesFacts
    <3> QED
      BY <2>1, <2>2, <2>3, <2>6, <2>4, <3>1 DEF Response, Answered, Untouched, Phase
  <2> QED
    BY <1>2, <2>5, <2>6, Numbers, SidesFacts
<1> QED
  BY <1>1, <1>2, SidesFacts

\* The phase after n bytes of a message have been read.
LEMMA ReadPhase ==
  ASSUME RrInv, NEW x \in Sides, Reading(x),
         NEW n \in Nat, n > 0, n <= to_read[x], n <= sent[Other(x)], DidRead(x, n),
         UNCHANGED <<flow, closed>>,
         sent'[x] = sent[x], sent'[Other(x)] = sent[Other(x)] - n
  PROVE  Phase'
<1>1. CASE x = "client"
  <2>1. /\ Untouched("server")
        /\ sent'["client"] = sent["client"] /\ sent'["server"] = sent["server"] - n
        /\ to_read'["client"] = to_read["client"] - n
        /\ n < to_read["client"] => /\ interest'["client"] = interest["client"]
                                    /\ to_write'["client"] = to_write["client"]
                                    /\ transactions'["client"] = transactions["client"]
        /\ n = to_read["client"] => /\ interest'["client"] = {"OUT"}
                                    /\ to_write'["client"] = RequestSize
                                    /\ transactions'["client"] = transactions["client"] + 1
    BY <1>1, ReadFacts, SidesFacts DEF ToSend, Read
  <2>2. Response \/ Answered
    BY <1>1, ReaderPhase
  <2>3. /\ Owed("server", "client", to_read["client"]) /\ ClientAwaits
        /\ ~closed["client"]
    BY <1>1, <2>2 DEF Response, Answered, Reading, Handling
  <2>4. CASE n < to_read["client"]
    <3>1. to_read'["client"] > 0 /\ Owed("server", "client", to_read["client"])'
      BY <2>1, <2>3, <2>4, Numbers, SidesFacts DEF Owed, Untouched
    <3>2. ClientAwaits'
      BY <2>1, <2>3, <2>4, <3>1 DEF ClientAwaits
    <3>3. Response => Response'
      BY <2>1, <2>4, <3>1, <3>2 DEF Response, Untouched
    <3>4. Answered => Answered'
      BY <2>1, <2>4, <3>1, <3>2 DEF Answered, Untouched
    <3> QED
      BY <2>2, <3>3, <3>4 DEF Phase
  <2>5. CASE n = to_read["client"]
    <3>0. /\ to_write["server"] \in Nat /\ sent["server"] \in Nat
          /\ n <= sent["server"] /\ sent["server"] + to_write["server"] <= n
      BY <1>1, <2>3, <2>5, Numbers, SidesFacts DEF Owed
    <3>1. to_write["server"] = 0 /\ sent["server"] = n
      BY <3>0
    <3>2. Answered
      BY <2>2, <3>1 DEF Response
    <3>3. ClientAsks' /\ sent'["server"] = 0
      BY <2>1, <2>5, <3>1, RrAssumption DEF ClientAsks
    <3>4. Owed("client", "server", to_read["server"])'
      BY <2>1, <2>5, <3>2, RrAssumption DEF Owed, Answered, Untouched
    <3>5. Request'
      BY <2>1, <2>5, <3>2, <3>3, <3>4, RrAssumption DEF Request, Answered, Untouched
    <3> QED
      BY <3>5 DEF Phase
  <2> QED
    BY <1>1, <2>4, <2>5, Numbers, SidesFacts
<1>2. CASE x = "server"
  <2>1. /\ Untouched("client")
        /\ sent'["server"] = sent["server"] /\ sent'["client"] = sent["client"] - n
        /\ to_read'["server"] = to_read["server"] - n
        /\ n < to_read["server"] => /\ interest'["server"] = interest["server"]
                                    /\ to_write'["server"] = to_write["server"]
        /\ n = to_read["server"] => /\ interest'["server"] = {"OUT"}
                                    /\ to_write'["server"] = ResponseSize
        /\ transactions'["server"] = transactions["server"]
    BY <1>2, ReadFacts, Numbers, SidesFacts DEF ToSend, Read
  <2>2. Request /\ ~closed["server"]
    BY <1>2, ReaderPhase DEF Reading, Handling
  <2>3. CASE n < to_read["server"]
    <3>1. to_read'["server"] > 0 /\ Owed("client", "server", to_read["server"])'
      BY <2>1, <2>2, <2>3, Numbers, SidesFacts DEF Request, Owed, Untouched
    <3>2. ClientAsks'
      BY <2>1, <2>2 DEF Request, ClientAsks, Untouched
    <3> QED
      BY <2>1, <2>2, <2>3, <3>1, <3>2 DEF Request, Untouched, Phase
  <2>4. CASE n = to_read["server"]
    <3>0. /\ to_write["client"] \in Nat /\ sent["client"] \in Nat
          /\ n <= sent["client"] /\ sent["client"] + to_write["client"] <= n
      BY <1>2, <2>2, <2>4, Numbers, SidesFacts DEF Request, Owed
    <3>1. to_write["client"] = 0 /\ sent["client"] = n
      BY <3>0
    <3>2. \/ closed["client"]
          \/ interest["client"] = {"IN"} /\ to_read["client"] = ResponseSize
      BY <2>2, <3>1 DEF Request, ClientAsks
    <3>3. ClientAwaits'
      BY <2>1, <3>1, <3>2, RrAssumption DEF ClientAwaits, Untouched
    <3>4. Owed("server", "client", to_read["client"])'
      BY <2>1, <2>2, <2>4, <3>2, RrAssumption DEF Owed, Request, Untouched
    <3>5. Response'
      BY <2>1, <2>2, <2>4, <3>1, <3>4, <3>3, RrAssumption DEF Request, Response, Untouched
    <3> QED
      BY <3>5 DEF Phase
  <2> QED
    BY <1>2, <2>3, <2>4, Numbers, SidesFacts
<1> QED
  BY <1>1, <1>2, SidesFacts

LEMMA WriteDataStep == ASSUME RrInv, NEW x \in Sides, WriteData(x) PROVE RrInv'
<1>1. PICK n \in 1..AtMost(Chunk(to_write[x]), SockBuf - sent[x]) :
        Wrote(x, n) /\ sent' = [sent EXCEPT ![x] = @ + n]
  BY DEF WriteData
<1>2. n \in Nat /\ n > 0 /\ n <= to_write[x] /\ n <= SockBuf - sent[x]
  <2> DEFINE room == SockBuf - sent[x]
  <2>1. room \in Nat /\ to_write[x] \in Nat
    BY Numbers, RrAssumption
  <2> HIDE DEF room
  <2>2. /\ AtMost(Chunk(to_write[x]), room) \in Nat
        /\ AtMost(Chunk(to_write[x]), room) <= to_write[x]
        /\ AtMost(Chunk(to_write[x]), room) <= room
    BY <2>1, ChunkBound
  <2>3. n \in 1..AtMost(Chunk(to_write[x]), room)
    BY DEF room
  <2>4. n \in Nat /\ n > 0 /\ n <= to_write[x] /\ n <= room
    BY <2>1, <2>2, <2>3
  <2> QED
    BY <2>4 DEF room
<1>3. Other(x) \in Sides /\ Other(x) # x
  BY DEF Sides, Other
<1>4. /\ sent'[x] = sent[x] + n /\ sent'[Other(x)] = sent[Other(x)]
      /\ sent' \in [Sides -> 0..SockBuf] /\ sent'[x] >= sent[x]
  BY <1>1, <1>2, <1>3, RrAssumption DEF RrInv, RrTypeOK
<1>5. Writing(x) /\ Handling(x) /\ Handled(x) /\ UNCHANGED <<flow, closed, stopping>>
  BY DEF WriteData, Writing
<1>6. Phase'
  BY <1>1, <1>2, <1>4, <1>5, WrotePhase
<1>7. Fields' /\ Untouched(Other(x))
  BY <1>1, <1>2, WroteFacts
<1> QED
  BY <1>4, <1>5, <1>6, <1>7, DataStep

LEMMA WriteNowhereStep == ASSUME RrInv, NEW x \in Sides, WriteNowhere(x) PROVE RrInv'
<1>1. /\ Writing(x) /\ Handling(x) /\ closed[Other(x)] /\ Handled(x)
      /\ UNCHANGED <<flow, closed, sent, stopping>>
  BY DEF WriteNowhere, Writing
<1>2. sent' \in [Sides -> 0..SockBuf] /\ sent'[x] >= sent[x]
  BY <1>1, Numbers DEF RrInv, RrTypeOK
<1>3. ASSUME NEW n \in 1..Chunk(to_write[x]), Wrote(x, n) PROVE RrInv'
  <2>1. n \in Nat /\ n > 0 /\ n <= to_write[x]
    BY Numbers, ChunkBound, RrAssumption
  <2>2. Phase'
    BY <1>1, <1>3, <2>1, WrotePhase
  <2>3. Fields' /\ Untouched(Other(x))
    BY <1>3, <2>1, WroteFacts
  <2> QED
    BY <1>1, <1>2, <2>2, <2>3, DataStep
<1> QED
  BY <1>3 DEF WriteNowhere

LEMMA ReadDataStep == ASSUME RrInv, NEW x \in Sides, ReadData(x) PROVE RrInv'
<1> DEFINE n == AtMost(Chunk(to_read[x]), sent[Other(x)])
<1>1. Other(x) \in Sides /\ Other(x) # x
  BY DEF Sides, Other
<1>2. Reading(x) /\ Handling(x) /\ to_read[x] > 0 /\ sent[Other(x)] > 0
  BY ReaderPhase DEF ReadData, Reading
<1>3. n \in Nat /\ n > 0 /\ n <= to_read[x] /\ n <= sent[Other(x)]
  BY <1>1, <1>2, Numbers, ChunkBound
<1>4. /\ DidRead(x, n) /\ sent' = [sent EXCEPT ![Other(x)] = @ - n]
      /\ Handled(x) /\ UNCHANGED <<flow, closed, stopping>>
  BY <1>3 DEF ReadData
<1> HIDE DEF n
<1>5. /\ sent'[x] = sent[x] /\ sent'[Other(x)] = sent[Other(x)] - n
      /\ sent' \in [Sides -> 0..SockBuf] /\ sent'[x] >= sent[x]
  BY <1>1, <1>3, <1>4, RrAssumption DEF RrInv, RrTypeOK
<1>6. Phase'
  BY <1>2, <1>3, <1>4, <1>5, ReadPhase
<1>7. Fields' /\ Untouched(Other(x))
  BY <1>3, <1>4, ReadFacts
<1> QED
  BY <1>2, <1>4, <1>5, <1>6, <1>7, DataStep

----------------------------------------------------------------------------
(* EPOLL_CTL_MOD fails at the end of a message.                            *)

\* All but the phase.
LEMMA CtlFailsStep ==
  ASSUME RrInv, NEW x \in Sides, CtlFails(x), Handling(x),
         to_read' \in [Sides -> Nat], to_write' \in [Sides -> Nat],
         transactions' \in [Sides -> Nat],
         sent' \in [Sides -> 0..SockBuf], sent'[x] >= sent[x],
         \A y \in Sides : y # x => to_read'[y] = to_read[y] /\ to_write'[y] = to_write[y],
         x = "server" => to_read'[x] = 0 /\ to_write'[x] = 0,
         Phase'
  PROVE  RrInv'
<1>1. /\ closed' = [closed EXCEPT ![x] = TRUE] /\ events' = [events EXCEPT ![x] = {}]
      /\ interest' = interest /\ stopping' = stopping
      /\ flow' = IF x = "server" THEN [flow EXCEPT ![x] = "dropped"] ELSE flow
  BY DEF CtlFails, Handled
<1>2. closed'[x] /\ \A y \in Sides : closed[y] => closed'[y]
  BY <1>1 DEF RrInv, RrTypeOK
<1>3. /\ \A y \in Sides : y # x => flow'[y] = flow[y]
      /\ flow'[x] = IF x = "server" THEN "dropped" ELSE "open"
  BY <1>1 DEF RrInv, RrTypeOK, Handling
<1>4. RrTypeOK'
  <2>1. flow' \in [Sides -> {"none", "open", "deleted", "dropped"}]
    BY <1>1 DEF RrInv, RrTypeOK
  <2>2. closed' \in [Sides -> BOOLEAN] /\ events' \in [Sides -> SUBSET {"IN", "OUT", "RDHUP"}]
    BY <1>1 DEF RrInv, RrTypeOK
  <2> QED
    BY <1>1, <2>1, <2>2 DEF RrInv, RrTypeOK
<1>5. EventsHold'
  BY <1>1, <1>2, OwnEvents
<1>6. DeletedWithCause' /\ DroppedClosed'
  BY <1>2, <1>3, SidesFacts DEF RrInv, DeletedWithCause, DroppedClosed
<1> QED
  BY <1>4, <1>5, <1>6 DEF RrInv

LEMMA ReadCtlFailsStep == ASSUME RrInv, NEW x \in Sides, ReadCtlFails(x) PROVE RrInv'
<1>1. Other(x) \in Sides /\ Other(x) # x /\ \A y \in Sides : y = x \/ y = Other(x)
  BY DEF Sides, Other
<1> DEFINE n == to_read[x]
<1>2. Reading(x) /\ Handling(x) /\ ~closed[x] /\ n > 0
  BY DEF ReadCtlFails, Reading, Handling
<1>3. n \in Nat /\ n <= sent[Other(x)]
  BY <1>1, Numbers, ChunkBound DEF ReadCtlFails
<1>4. /\ to_read' = [to_read EXCEPT ![x] = 0] /\ to_write' = to_write
      /\ sent' = [sent EXCEPT ![Other(x)] = @ - n]
      /\ transactions' = [transactions EXCEPT ![x] = @ + Read(x)]
      /\ CtlFails(x)
  BY DEF ReadCtlFails
<1>5. /\ to_read' \in [Sides -> Nat] /\ to_write' \in [Sides -> Nat]
      /\ to_read'[x] = 0 /\ \A y \in Sides : y # x => to_read'[y] = to_read[y]
  BY <1>4 DEF RrInv, RrTypeOK
<1>6. /\ sent' \in [Sides -> 0..SockBuf] /\ sent'[x] = sent[x]
      /\ sent'[Other(x)] = sent[Other(x)] - n /\ sent'[x] >= sent[x]
  BY <1>1, <1>3, <1>4, RrAssumption DEF RrInv, RrTypeOK
<1>7. /\ transactions' \in [Sides -> Nat] /\ transactions'[x] = transactions[x] + Read(x)
      /\ transactions'[Other(x)] = transactions[Other(x)]
  BY <1>1, <1>4 DEF RrInv, RrTypeOK, Read
<1>8. /\ interest' = interest /\ closed'[x] /\ closed'[Other(x)] = closed[Other(x)]
      /\ (flow'["server"] = "none") <=> (flow["server"] = "none")
  BY <1>1, <1>2, <1>4, SidesFacts DEF CtlFails, RrInv, RrTypeOK, Handling
<1> HIDE DEF n
\* The client has read the response: the server, if it is there, waits for the next request.
<1>9. CASE x = "client"
  <2>1. Response \/ Answered
    BY <1>2, <1>9, ReaderPhase
  <2>2. /\ to_write["server"] \in Nat /\ sent["server"] \in Nat
        /\ n <= sent["server"] /\ sent["server"] + to_write["server"] <= n
    BY <1>2, <1>3, <1>9, <2>1, Numbers, SidesFacts DEF Response, Answered, Owed, n
  <2>3. to_write["server"] = 0 /\ sent["server"] = n
    BY <1>3, <2>2
  <2>4. Answered
    BY <2>1, <2>3 DEF Response
  <2>5. Request'
    <3>1. sent'["server"] = 0 /\ sent'["client"] = 0
      BY <1>3, <1>6, <1>9, <2>3, <2>4, SidesFacts DEF Answered
    <3>2. transactions'["server"] = transactions'["client"]
      BY <1>7, <1>9, <2>4, Numbers, SidesFacts DEF Answered, Read
    <3>3. /\ to_read'["server"] = to_read["server"] /\ closed'["server"] = closed["server"]
          /\ closed'["client"] /\ to_write'["server"] = 0
      BY <1>4, <1>5, <1>8, <1>9, <2>3, SidesFacts
    <3>4. ClientAsks'
      BY <3>3 DEF ClientAsks
    <3>5. closed'["server"] \/ (interest'["server"] = {"IN"} /\ to_read'["server"] > 0)
      BY <1>8, <2>4, <3>3, RrAssumption DEF Answered
    <3>6. Owed("client", "server", to_read["server"])'
      <4>1. closed["server"] \/ to_read["server"] = RequestSize
        BY <2>4 DEF Answered
      <4>2. to_write'["client"] = 0
        BY <1>2, <1>4, <1>9, <2>4 DEF Answered, ClientAwaits
      <4> QED
        BY <3>1, <3>3, <4>1, <4>2, RrAssumption DEF Owed
    <3> QED
      BY <1>8, <2>4, <3>1, <3>2, <3>3, <3>4, <3>5, <3>6 DEF Request, Answered
  <2> QED
    BY <1>2, <1>4, <1>5, <1>6, <1>7, <1>9, <2>5, CtlFailsStep DEF Phase
\* The server has read the request, and drops the flow.
<1>10. CASE x = "server"
  <2>1. Request
    BY <1>2, <1>10, ReaderPhase
  <2>2. /\ closed'["server"] /\ closed'["client"] = closed["client"]
        /\ to_read'["client"] = to_read["client"] /\ to_write' = to_write
        /\ sent'["server"] = sent["server"]
        /\ transactions'["server"] = transactions["server"]
        /\ transactions'["client"] = transactions["client"]
    BY <1>4, <1>5, <1>6, <1>7, <1>8, <1>10, Numbers, SidesFacts DEF Read
  <2>3. ClientAsks'
    BY <1>8, <2>1, <2>2 DEF Request, ClientAsks
  <2>4. Request'
    BY <1>8, <2>1, <2>2, <2>3 DEF Request, Owed
  <2>5. to_read'[x] = 0 /\ to_write'[x] = 0
    BY <1>5, <1>10, <2>1, <2>2 DEF Request
  <2> QED
    BY <1>2, <1>4, <1>5, <1>6, <1>7, <1>10, <2>4, <2>5, CtlFailsStep DEF Phase
<1> QED
  BY <1>9, <1>10, SidesFacts

LEMMA WriteCtlFailsStep == ASSUME RrInv, NEW x \in Sides, WriteCtlFails(x) PROVE RrInv'
<1>1. Other(x) \in Sides /\ Other(x) # x /\ \A y \in Sides : y = x \/ y = Other(x)
  BY DEF Sides, Other
<1> DEFINE n == to_write[x]
<1>2. Writing(x) /\ Handling(x) /\ ~closed[x] /\ n > 0 /\ n \in Nat
  BY WriterPhase, Numbers DEF WriteCtlFails, Writing, Handling
<1>3. /\ to_write' = [to_write EXCEPT ![x] = 0] /\ to_read' = to_read
      /\ transactions' = [transactions EXCEPT ![x] = @ + Written(x)]
      /\ CtlFails(x)
  BY DEF WriteCtlFails
<1>4. /\ to_read' \in [Sides -> Nat] /\ to_write' \in [Sides -> Nat]
      /\ to_write'[x] = 0 /\ \A y \in Sides : y # x => to_write'[y] = to_write[y]
  BY <1>3 DEF RrInv, RrTypeOK
<1>5. /\ sent' \in [Sides -> 0..SockBuf] /\ sent'[Other(x)] = sent[Other(x)]
      /\ sent'[x] >= sent[x]
      /\ sent'[x] = sent[x] + n \/ (closed[Other(x)] /\ sent'[x] = sent[x])
  <2>1. CASE closed[Other(x)] /\ UNCHANGED sent
    BY <2>1, Numbers DEF RrInv, RrTypeOK
  <2>2. CASE n <= SockBuf - sent[x] /\ sent' = [sent EXCEPT ![x] = @ + n]
    BY <1>1, <1>2, <2>2, RrAssumption DEF RrInv, RrTypeOK
  <2> QED
    BY <2>1, <2>2 DEF WriteCtlFails
<1>6. /\ transactions' \in [Sides -> Nat] /\ transactions'[x] = transactions[x] + Written(x)
      /\ transactions'[Other(x)] = transactions[Other(x)]
  BY <1>1, <1>3 DEF RrInv, RrTypeOK, Written
<1>7. /\ interest' = interest /\ closed'[x] /\ closed'[Other(x)] = closed[Other(x)]
      /\ (flow'["server"] = "none") <=> (flow["server"] = "none")
  BY <1>1, <1>2, <1>3, SidesFacts DEF CtlFails, RrInv, RrTypeOK, Handling
\* The bytes are in flight, or the peer is gone.
<1>8. ASSUME NEW left \in Nat, Owed(x, Other(x), left)
      PROVE  closed'[Other(x)] \/ sent'[x] + to_write'[x] <= left
  BY <1>1, <1>2, <1>4, <1>5, <1>7, <1>8, Numbers DEF Owed
<1> HIDE DEF n
<1>9. CASE x = "client"
  <2>1. /\ closed'["client"] /\ closed'["server"] = closed["server"]
        /\ to_write'["server"] = to_write["server"] /\ to_read' = to_read
        /\ sent'["server"] = sent["server"]
        /\ transactions'["server"] = transactions["server"]
        /\ transactions'["client"] = transactions["client"]
    BY <1>3, <1>4, <1>5, <1>6, <1>7, <1>9, Numbers, SidesFacts DEF Written
  <2>2. ClientAsks'
    BY <2>1 DEF ClientAsks
  <2>3. ASSUME Unaccepted PROVE Phase'
    <3>1. Owed("client", "server", RequestSize)'
      BY <1>8, <1>9, <2>1, <2>3, RrAssumption, SidesFacts DEF Unaccepted, Owed
    <3> QED
      BY <1>7, <2>1, <2>2, <2>3, <3>1 DEF Unaccepted, Phase
  <2>4. ASSUME Request PROVE Phase'
    <3>1. Owed("client", "server", to_read["server"])'
      BY <1>8, <1>9, <2>1, <2>4, Numbers, SidesFacts DEF Request, Owed
    <3> QED
      BY <1>7, <2>1, <2>2, <2>4, <3>1 DEF Request, Phase
  <2>5. Phase'
    BY <1>2, <1>9, <2>3, <2>4, WriterPhase
  <2> QED
    BY <1>2, <1>3, <1>4, <1>5, <1>6, <1>9, <2>5, CtlFailsStep
\* The server counts its transaction, and drops the flow.
<1>10. CASE x = "server"
  <2>1. Response
    BY <1>2, <1>10, WriterPhase
  <2>2. /\ closed'["server"] /\ closed'["client"] = closed["client"]
        /\ to_write'["client"] = to_write["client"] /\ to_write'["server"] = 0
        /\ to_read' = to_read /\ sent'["client"] = sent["client"]
        /\ transactions'["server"] = transactions["server"] + 1
        /\ transactions'["client"] = transactions["client"]
    BY <1>3, <1>4, <1>5, <1>6, <1>7, <1>10, SidesFacts DEF Written
  <2>3. Owed("server", "client", to_read["client"])'
    BY <1>8, <1>10, <2>1, <2>2, Numbers, SidesFacts DEF Response, Owed
  <2>4. ClientAwaits'
    BY <1>7, <2>1, <2>2 DEF Response, ClientAwaits
  <2>5. Answered'
    BY <1>7, <2>1, <2>2, <2>3, <2>4 DEF Response, Answered
  <2>6. to_read'[x] = 0 /\ to_write'[x] = 0
    BY <1>10, <2>1, <2>2 DEF Response
  <2> QED
    BY <1>2, <1>3, <1>4, <1>5, <1>6, <1>10, <2>5, <2>6, CtlFailsStep DEF Phase
<1> QED
  BY <1>9, <1>10, SidesFacts

----------------------------------------------------------------------------
(* The theorems.                                                           *)

LEMMA LoopKeepsInv == ASSUME RrInv, NEW x \in Sides, LoopStep(x) PROVE RrInv'
<1>1. CASE EpollWait(x)
  BY <1>1, EpollStep
<1>2. CASE HungUp(x)
  <2>1. DelFlow(x) /\ flow[x] = "open" /\ closed[Other(x)]
    BY <1>2 DEF HungUp, Handling, RrInv, EventsHold
  <2> QED
    BY <2>1, DelFlowStep
<1>3. CASE WriteData(x)
  BY <1>3, WriteDataStep
<1>4. CASE WriteNowhere(x)
  BY <1>4, WriteNowhereStep
<1>5. CASE ReadData(x)
  BY <1>5, ReadDataStep
<1>6. CASE WriteKills(x) \/ IoFails(x)
  BY <1>6, CloseStep
<1>7. CASE ReadCtlFails(x)
  BY <1>7, ReadCtlFailsStep
<1>8. CASE WriteCtlFails(x)
  BY <1>8, WriteCtlFailsStep
<1> QED
  BY <1>1, <1>2, <1>3, <1>4, <1>5, <1>6, <1>7, <1>8 DEF LoopStep

\* Every step of the two event loops keeps the inductive invariant.
THEOREM RrInvHolds == RrSpec => []RrInv
<1>1. RrInit => RrInv
  BY RrInvInit
<1>2. ASSUME RrInv, [RrNext]_rrVars PROVE RrInv'
  <2>1. CASE ServerLoop
    BY <1>2, <2>1, AcceptStep, LoopKeepsInv, SidesFacts DEF ServerLoop
  <2>2. CASE ClientLoop
    BY <1>2, <2>2, CloseStep, LoopKeepsInv, SidesFacts DEF ClientLoop
  <2>3. CASE StopClient \/ ServerDies \/ RrFinished \/ UNCHANGED rrVars
    BY <1>2, <2>3, CloseStep DEF RrFinished
  <2> QED
    BY <1>2, <2>1, <2>2, <2>3 DEF RrNext
<1> QED
  BY <1>1, <1>2, PTL DEF RrSpec

\* tcp_rr's flow fields keep their types: no counter of bytes goes below
\* zero, no direction of the connection holds more than it can.
THEOREM RrTypes == RrSpec => []RrTypeOK
<1>1. RrInv => RrTypeOK
  BY DEF RrInv
<1> QED
  BY <1>1, RrInvHolds, PTL

\* Client and server count the same transactions, the server at most one
\* ahead, for messages and buffers of any size and however the bytes are cut.
THEOREM CountsInLockstep == RrSpec => []Lockstep
<1>1. RrInv => Lockstep
  BY DEF RrInv, RrTypeOK, Sides, Phase, Unaccepted, Request, Response, Answered, Lockstep
<1> QED
  BY <1>1, RrInvHolds, PTL

\* Requests and responses never cross on a live connection.
THEOREM MessagesTakeTurns == RrSpec => []TakeTurns
<1>1. RrInv => TakeTurns
  <2> SUFFICES ASSUME RrInv, \A x \in Sides : flow[x] = "open" /\ ~closed[x],
                      NEW x \in Sides, sent[x] > 0
               PROVE  /\ sent[Other(x)] = 0 /\ "IN" \in interest[Other(x)]
                      /\ to_read[Other(x)] = sent[x] + to_write[x]
    BY DEF TakeTurns
  <2>1. CASE x = "client"
    BY <2>1, SidesFacts DEF RrInv, Phase, Unaccepted, Request, Response, Answered, Owed
  <2>2. CASE x = "server"
    BY <2>2, SidesFacts
    DEF RrInv, Phase, Unaccepted, Request, Response, Answered, Owed, ClientAwaits
  <2> QED
    BY <2>1, <2>2, SidesFacts
<1> QED
  BY <1>1, RrInvHolds, PTL

\* client_events and server_events never take a read of zero bytes for the
\* end of a connection whose peer is still there, and a flow that the server
\* drops because EPOLL_CTL_MOD failed is one between two messages.
THEOREM FlowsDeletedWithCause == RrSpec => []DeletedWithCause
<1>1. RrInv => DeletedWithCause
  BY DEF RrInv
<1> QED
  BY <1>1, RrInvHolds, PTL

============================================================================
