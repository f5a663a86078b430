---------------------------- MODULE StreamProofs ----------------------------
(***************************************************************************)
(* Proofs about Stream, for connections and error queues of every size:    *)
(* type correctness, and that no wake-up is lost.                          *)
(*                                                                         *)
(* NoLostWakeup says something of a side that waits; what makes it true is *)
(* what holds of the side in the middle of its handler.  After a read() or *)
(* write() that failed nothing holds of the data or room left, until the   *)
(* side has got to EAGAIN again; of a hang-up it does.                     *)
(***************************************************************************)
EXTENDS Stream, TLAPS

\* pc of a side whose flow is in its epoll.
Busy == {"wait", "read", "write", "readerr"}

\* A side that is edge-triggered and only writes.
OnlyWrites(x) == EdgeTriggered(x) /\ x \in writes \ reads

\* The flow of a connection that is not accepted has sent nothing.
NothingSent(x) == pc[x] = "none" => sent[x] = 0

\* Only a side with enable_read reads.
ReaderReads(x) == pc[x] = "read" => x \in reads

\* A hang-up is not taken for anything else.
HangUpPending(x) == PeerGone(x) /\ pc[x] \in Busy => x \in armed

\* Outside its read loop an edge-triggered reader has left no data unnoticed, if
\* it left the loop because there was none.
DataPending(x) ==
  /\ EdgeTriggered(x) /\ x \in reads /\ x \notin armed
  /\ pc[x] \in {"write", "readerr"} \/ (pc[x] = "wait" /\ x \notin failed)
  => ~HasData(x)

\* Outside its write loop, one that only writes and did not fail to has asked to
\* be told of room ...
AskedForRoom(x) ==
  OnlyWrites(x) /\ x \notin failed /\ pc[x] \in {"wait", "readerr"} =>
    HasRoom(x) \/ x \in nospace \/ PeerGone(x)

\* ... and will be.
RoomPending(x) ==
  OnlyWrites(x) /\ x \notin failed /\ pc[x] \in {"wait", "readerr"} /\ x \notin armed =>
    ~HasRoom(x)

Parts(x) ==
  /\ NothingSent(x) /\ ReaderReads(x) /\ HangUpPending(x)
  /\ DataPending(x) /\ AskedForRoom(x) /\ RoomPending(x)

StreamInv == StreamTypeOK /\ \A x \in Sides : Parts(x)
----------------------------------------------------------------------------
(* The two sides.                                                          *)

LEMMA TwoSides ==
  /\ "client" \in Sides /\ "server" \in Sides
  /\ \A x \in Sides : /\ Other(x) \in Sides /\ Other(x) # x /\ Other(Other(x)) = x
                      /\ \A y \in Sides : y = x \/ y = Other(x)
BY DEF Sides, Other

LEMMA ServerAcceptStep ==
  ASSUME StreamInv, ServerAccept
  PROVE  StreamInv'
<1> USE TwoSides, StreamAssumption
<1>1. StreamTypeOK'
  BY DEF StreamInv, StreamTypeOK, ServerAccept, Goto, opts
<1>2. ASSUME NEW y \in Sides PROVE NothingSent(y)' /\ ReaderReads(y)'
  BY DEF StreamInv, Parts, NothingSent, ReaderReads, ServerAccept, Goto, opts
<1>3. ASSUME NEW y \in Sides PROVE HangUpPending(y)'
  BY DEF StreamInv, Parts, HangUpPending, ServerAccept, Goto, opts, PeerGone
<1>4. ASSUME NEW y \in Sides PROVE DataPending(y)'
  BY DEF StreamInv, Parts, DataPending, EdgeTriggered, UdpServer, ServerAccept, Goto, opts,
         HasData
<1>5. ASSUME NEW y \in Sides PROVE AskedForRoom(y)'
  BY DEF StreamInv, Parts, NothingSent, AskedForRoom, OnlyWrites, EdgeTriggered, UdpServer,
         ServerAccept, Goto, opts, PeerGone, HasRoom
<1>6. ASSUME NEW y \in Sides PROVE RoomPending(y)'
  BY DEF StreamInv, Parts, RoomPending, OnlyWrites, EdgeTriggered, UdpServer, ServerAccept, Goto,
         opts, HasRoom
<1> QED
  BY <1>1, <1>2, <1>3, <1>4, <1>5, <1>6 DEF StreamInv, Parts

LEMMA EpollWaitStep ==
  ASSUME StreamInv, NEW x \in Sides, EpollWait(x)
  PROVE  StreamInv'
<1> USE TwoSides, StreamAssumption
<1>1. StreamTypeOK'
  BY DEF StreamInv, StreamTypeOK, EpollWait, Goto, Ready, AfterIn, opts
<1>2. ASSUME NEW y \in Sides PROVE NothingSent(y)' /\ ReaderReads(y)'
  BY DEF StreamInv, Parts, NothingSent, ReaderReads, EpollWait, Goto, Ready, AfterIn, opts
<1>3. ASSUME NEW y \in Sides PROVE HangUpPending(y)'
  BY DEF StreamInv, Parts, HangUpPending, EpollWait, Goto, Ready, opts, PeerGone
<1>4. ASSUME NEW y \in Sides PROVE DataPending(y)'
  BY DEF StreamInv, Parts, StreamTypeOK, DataPending, EdgeTriggered, UdpServer, EpollWait, Goto,
         Ready, opts, HasData
<1>5. ASSUME NEW y \in Sides PROVE AskedForRoom(y)'
  BY DEF StreamInv, Parts, AskedForRoom, OnlyWrites, EdgeTriggered, UdpServer, EpollWait, Goto,
         opts, PeerGone, HasRoom
<1>6. ASSUME NEW y \in Sides PROVE RoomPending(y)'
  BY DEF StreamInv, Parts, StreamTypeOK, RoomPending, OnlyWrites, EdgeTriggered, UdpServer,
         EpollWait, Goto, Ready, AfterIn, opts, HasRoom
<1> QED
  BY <1>1, <1>2, <1>3, <1>4, <1>5, <1>6 DEF StreamInv, Parts

LEMMA SpuriousStep ==
  ASSUME StreamInv, NEW x \in Sides, Spurious(x)
  PROVE  StreamInv'
<1> USE TwoSides, StreamAssumption
<1>1. StreamTypeOK'
  BY DEF StreamInv, StreamTypeOK, Spurious, opts
<1>2. ASSUME NEW y \in Sides PROVE NothingSent(y)' /\ ReaderReads(y)'
  BY DEF StreamInv, Parts, NothingSent, ReaderReads, Spurious, opts
<1>3. ASSUME NEW y \in Sides PROVE HangUpPending(y)'
  BY DEF StreamInv, Parts, HangUpPending, Spurious, Ready, opts, PeerGone
<1>4. ASSUME NEW y \in Sides PROVE DataPending(y)'
  BY DEF StreamInv, Parts, DataPending, EdgeTriggered, UdpServer, Spurious, Ready, opts, HasData
<1>5. ASSUME NEW y \in Sides PROVE AskedForRoom(y)'
  BY DEF StreamInv, Parts, AskedForRoom, OnlyWrites, EdgeTriggered, UdpServer, Spurious, opts,
         PeerGone, HasRoom
<1>6. ASSUME NEW y \in Sides PROVE RoomPending(y)'
  BY DEF StreamInv, Parts, RoomPending, OnlyWrites, EdgeTriggered, UdpServer, Spurious, Ready,
         opts, HasRoom
<1> QED
  BY <1>1, <1>2, <1>3, <1>4, <1>5, <1>6 DEF StreamInv, Parts

LEMMA HungUpStep ==
  ASSUME StreamInv, NEW x \in Sides, HungUp(x)
  PROVE  StreamInv'
<1> USE TwoSides, StreamAssumption
<1>1. StreamTypeOK'
  BY DEF StreamInv, StreamTypeOK, HungUp, Gone, Goto, opts
<1>2. ASSUME NEW y \in Sides PROVE NothingSent(y)' /\ ReaderReads(y)'
  BY DEF StreamInv, Parts, NothingSent, ReaderReads, HungUp, Gone, Goto, opts
<1>3. ASSUME NEW y \in Sides PROVE HangUpPending(y)'
  BY DEF StreamInv, StreamTypeOK, HangUpPending, Busy, HungUp, Gone, Goto
<1>4. ASSUME NEW y \in Sides PROVE DataPending(y)'
  BY DEF StreamInv, StreamTypeOK, DataPending, Busy, HungUp, Gone, Goto
<1>5. ASSUME NEW y \in Sides PROVE AskedForRoom(y)'
  BY DEF StreamInv, Parts, StreamTypeOK, NothingSent, ReaderReads, AskedForRoom, OnlyWrites,
         EdgeTriggered, UdpServer, HungUp, Gone, Goto, opts, PeerGone, HasData, HasRoom
<1>6. ASSUME NEW y \in Sides PROVE RoomPending(y)'
  BY DEF StreamInv, StreamTypeOK, RoomPending, HungUp, Gone, Goto
<1> QED
  BY <1>1, <1>2, <1>3, <1>4, <1>5, <1>6 DEF StreamInv, Parts

LEMMA ReadBufferStep ==
  ASSUME StreamInv, NEW x \in Sides, ReadBuffer(x)
  PROVE  StreamInv'
<1> USE TwoSides, StreamAssumption
<1>1. StreamTypeOK'
  BY DEF StreamInv, StreamTypeOK, ReadBuffer, MakeRoom, AfterRead, GoOn, AfterIn, Handled, Goto,
         opts, HasData
<1>2. ASSUME NEW y \in Sides PROVE NothingSent(y)' /\ ReaderReads(y)'
  BY DEF StreamInv, Parts, StreamTypeOK, NothingSent, ReaderReads, ReadBuffer, AfterRead, GoOn,
         AfterIn, Handled, Goto, opts, HasData
<1>3. ASSUME NEW y \in Sides PROVE HangUpPending(y)'
  BY DEF StreamInv, Parts, StreamTypeOK, HangUpPending, Busy, ReadBuffer, MakeRoom, AfterRead,
         GoOn, Handled, Goto, opts, PeerGone
<1>4. ASSUME NEW y \in Sides PROVE DataPending(y)'
  BY DEF StreamInv, Parts, StreamTypeOK, DataPending, EdgeTriggered, UdpServer, ReadBuffer,
         MakeRoom, AfterRead, GoOn, Handled, Goto, opts, HasData
<1>5. ASSUME NEW y \in Sides PROVE AskedForRoom(y)'
  BY DEF StreamInv, Parts, StreamTypeOK, ReaderReads, AskedForRoom, OnlyWrites, ReadBuffer,
         MakeRoom, opts, HasRoom
<1>6. ASSUME NEW y \in Sides PROVE RoomPending(y)'
  BY DEF StreamInv, Parts, StreamTypeOK, HangUpPending, AskedForRoom, RoomPending, Busy,
         OnlyWrites, EdgeTriggered, UdpServer, ReadBuffer, MakeRoom, AfterRead, GoOn, Handled,
         Goto, opts
<1> QED
  BY <1>1, <1>2, <1>3, <1>4, <1>5, <1>6 DEF StreamInv, Parts

LEMMA ReadAgainStep ==
  ASSUME StreamInv, NEW x \in Sides, ReadAgain(x)
  PROVE  StreamInv'
<1> USE TwoSides, StreamAssumption
<1>1. StreamTypeOK'
  BY DEF StreamInv, StreamTypeOK, ReadAgain, Handled, Goto, opts
<1>2. ASSUME NEW y \in Sides PROVE NothingSent(y)' /\ ReaderReads(y)'
  BY DEF StreamInv, Parts, NothingSent, ReaderReads, ReadAgain, Handled, Goto, opts
<1>3. ASSUME NEW y \in Sides PROVE HangUpPending(y)'
  BY DEF StreamInv, Parts, HangUpPending, ReadAgain, Handled, Goto, opts, PeerGone
<1>4. ASSUME NEW y \in Sides PROVE DataPending(y)'
  BY DEF StreamInv, Parts, DataPending, EdgeTriggered, UdpServer, ReadAgain, Handled, Goto, opts,
         HasData
<1>5. ASSUME NEW y \in Sides PROVE AskedForRoom(y)'
  BY DEF StreamInv, Parts, ReaderReads, AskedForRoom, OnlyWrites, EdgeTriggered, UdpServer,
         ReadAgain, Handled, Goto, opts, PeerGone, HasRoom
<1>6. ASSUME NEW y \in Sides PROVE RoomPending(y)'
  BY DEF StreamInv, Parts, ReaderReads, RoomPending, OnlyWrites, EdgeTriggered, UdpServer,
         ReadAgain, Handled, Goto, opts, HasRoom
<1> QED
  BY <1>1, <1>2, <1>3, <1>4, <1>5, <1>6 DEF StreamInv, Parts

LEMMA ReadEofStep ==
  ASSUME StreamInv, NEW x \in Sides, ReadEof(x)
  PROVE  StreamInv'
<1> USE TwoSides, StreamAssumption
<1>1. StreamTypeOK'
  BY DEF StreamInv, StreamTypeOK, ReadEof, Gone, Goto, opts
<1>2. ASSUME NEW y \in Sides PROVE NothingSent(y)' /\ ReaderReads(y)'
  BY DEF StreamInv, Parts, NothingSent, ReaderReads, ReadEof, Gone, Goto, opts
<1>3. ASSUME NEW y \in Sides PROVE HangUpPending(y)'
  BY DEF StreamInv, Parts, HangUpPending, Busy, ReadEof, Gone
<1>4. ASSUME NEW y \in Sides PROVE DataPending(y)'
  BY DEF StreamInv, Parts, DataPending, HangUpPending, Busy, ReadEof, Gone
<1>5. ASSUME NEW y \in Sides PROVE AskedForRoom(y)'
  BY DEF AskedForRoom, ReadEof, Gone, opts, PeerGone
<1>6. ASSUME NEW y \in Sides PROVE RoomPending(y)'
  BY DEF StreamInv, Parts, HangUpPending, RoomPending, Busy, ReadEof, Gone
<1> QED
  BY <1>1, <1>2, <1>3, <1>4, <1>5, <1>6 DEF StreamInv, Parts

LEMMA WriteBufferStep ==
  ASSUME StreamInv, NEW x \in Sides, WriteBuffer(x)
  PROVE  StreamInv'
<1> USE TwoSides, StreamAssumption
<1>1. StreamTypeOK'
  BY DEF StreamInv, StreamTypeOK, WriteBuffer, AfterWrite, GoOn, AfterOut, Handled, Goto, opts,
         HasRoom
<1>2. ASSUME NEW y \in Sides PROVE NothingSent(y)' /\ ReaderReads(y)'
  BY DEF StreamInv, Parts, StreamTypeOK, NothingSent, ReaderReads, WriteBuffer, AfterWrite, GoOn,
         AfterOut, Handled, Goto, opts
<1>3. ASSUME NEW y \in Sides PROVE HangUpPending(y)'
  BY DEF HangUpPending, WriteBuffer, opts, PeerGone
<1>4. ASSUME NEW y \in Sides PROVE DataPending(y)'
  BY DEF StreamInv, Parts, DataPending, Busy, EdgeTriggered, UdpServer, WriteBuffer, opts, HasData
<1>5. ASSUME NEW y \in Sides PROVE AskedForRoom(y)'
  BY DEF StreamInv, Parts, StreamTypeOK, AskedForRoom, OnlyWrites, EdgeTriggered, UdpServer,
         WriteBuffer, AfterWrite, GoOn, Handled, Goto, opts, PeerGone, HasRoom
<1>6. ASSUME NEW y \in Sides PROVE RoomPending(y)'
  BY DEF RoomPending, OnlyWrites, EdgeTriggered, WriteBuffer, AfterWrite, opts
<1> QED
  BY <1>1, <1>2, <1>3, <1>4, <1>5, <1>6 DEF StreamInv, Parts

LEMMA WriteAgainStep ==
  ASSUME StreamInv, NEW x \in Sides, WriteAgain(x)
  PROVE  StreamInv'
<1> USE TwoSides, StreamAssumption
<1>1. StreamTypeOK'
  BY DEF StreamInv, StreamTypeOK, WriteAgain, Handled, Goto, opts
<1>2. ASSUME NEW y \in Sides PROVE NothingSent(y)' /\ ReaderReads(y)'
  BY DEF StreamInv, Parts, NothingSent, ReaderReads, WriteAgain, Handled, Goto, opts
<1>3. ASSUME NEW y \in Sides PROVE HangUpPending(y)'
  BY DEF StreamInv, Parts, HangUpPending, WriteAgain, Handled, Goto, opts, PeerGone
<1>4. ASSUME NEW y \in Sides PROVE DataPending(y)'
  BY DEF StreamInv, Parts, DataPending, Busy, EdgeTriggered, UdpServer, WriteAgain, Handled,
         Goto, opts, HasData
<1>5. ASSUME NEW y \in Sides PROVE AskedForRoom(y)'
  BY DEF StreamInv, Parts, AskedForRoom, OnlyWrites, EdgeTriggered, UdpServer, WriteAgain,
         Handled, Goto, opts, PeerGone, HasRoom
<1>6. ASSUME NEW y \in Sides PROVE RoomPending(y)'
  BY DEF StreamInv, Parts, RoomPending, OnlyWrites, EdgeTriggered, UdpServer, WriteAgain,
         Handled, Goto, opts, HasRoom
<1> QED
  BY <1>1, <1>2, <1>3, <1>4, <1>5, <1>6 DEF StreamInv, Parts

LEMMA IoFailsStep ==
  ASSUME StreamInv, NEW x \in Sides, IoFails(x)
  PROVE  StreamInv'
<1> USE TwoSides, StreamAssumption
<1>1. StreamTypeOK'
  BY DEF StreamInv, StreamTypeOK, IoFails, Handled, Goto, opts
<1>2. ASSUME NEW y \in Sides PROVE NothingSent(y)' /\ ReaderReads(y)'
  BY DEF StreamInv, Parts, NothingSent, ReaderReads, IoFails, Handled, Goto, opts
<1>3. ASSUME NEW y \in Sides PROVE HangUpPending(y)'
  BY DEF StreamInv, Parts, StreamTypeOK, HangUpPending, Busy, IoFails, Handled, Goto, opts,
         PeerGone
<1>4. ASSUME NEW y \in Sides PROVE DataPending(y)'
  BY DEF StreamInv, Parts, DataPending, HangUpPending, Busy, EdgeTriggered, UdpServer, IoFails,
         Handled, Goto, opts, HasData
<1>5. ASSUME NEW y \in Sides PROVE AskedForRoom(y)'
  BY DEF StreamInv, Parts, AskedForRoom, OnlyWrites, EdgeTriggered, UdpServer, IoFails, Handled,
         Goto, opts, PeerGone, HasRoom
<1>6. ASSUME NEW y \in Sides PROVE RoomPending(y)'
  BY DEF StreamInv, Parts, HangUpPending, RoomPending, Busy, OnlyWrites, EdgeTriggered,
         UdpServer, IoFails, Handled, Goto, opts, HasRoom
<1> QED
  BY <1>1, <1>2, <1>3, <1>4, <1>5, <1>6 DEF StreamInv, Parts

LEMMA WriteKillsStep ==
  ASSUME StreamInv, NEW x \in Sides, WriteKills(x)
  PROVE  StreamInv'
<1> USE TwoSides, StreamAssumption
<1>1. StreamTypeOK'
  BY DEF StreamInv, StreamTypeOK, WriteKills, Gone, Goto, opts
<1>2. ASSUME NEW y \in Sides PROVE NothingSent(y)' /\ ReaderReads(y)'
  BY DEF StreamInv, Parts, NothingSent, ReaderReads, WriteKills, Gone, Goto, opts
<1>3. ASSUME NEW y \in Sides PROVE HangUpPending(y)'
  BY DEF StreamInv, Parts, HangUpPending, Busy, WriteKills, Gone
<1>4. ASSUME NEW y \in Sides PROVE DataPending(y)'
  BY DEF StreamInv, Parts, DataPending, HangUpPending, Busy, WriteKills, Gone
<1>5. ASSUME NEW y \in Sides PROVE AskedForRoom(y)'
  BY DEF AskedForRoom, WriteKills, Gone, opts, PeerGone
<1>6. ASSUME NEW y \in Sides PROVE RoomPending(y)'
  BY DEF StreamInv, Parts, StreamTypeOK, ReaderReads, HangUpPending, AskedForRoom, RoomPending,
         Busy, OnlyWrites, EdgeTriggered, UdpServer, WriteKills, Gone, Goto, opts, PeerGone,
         HasData, HasRoom
<1> QED
  BY <1>1, <1>2, <1>3, <1>4, <1>5, <1>6 DEF StreamInv, Parts

LEMMA ReadErrStep ==
  ASSUME StreamInv, NEW x \in Sides, ReadErr(x)
  PROVE  StreamInv'
<1> USE TwoSides, StreamAssumption
<1>1. StreamTypeOK'
  BY DEF StreamInv, StreamTypeOK, ReadErr, Handled, Goto, opts
<1>2. ASSUME NEW y \in Sides PROVE NothingSent(y)' /\ ReaderReads(y)'
  BY DEF StreamInv, Parts, StreamTypeOK, NothingSent, ReaderReads, ReadErr, Handled, Goto, opts
<1>3. ASSUME NEW y \in Sides PROVE HangUpPending(y)'
  BY DEF StreamInv, Parts, StreamTypeOK, HangUpPending, Busy, ReadErr, Handled, Goto, opts,
         PeerGone
<1>4. ASSUME NEW y \in Sides PROVE DataPending(y)'
  BY DEF StreamInv, Parts, StreamTypeOK, DataPending, Busy, EdgeTriggered, UdpServer, ReadErr,
         Handled, Goto, opts, HasData
<1>5. ASSUME NEW y \in Sides PROVE AskedForRoom(y)'
  BY DEF StreamInv, Parts, StreamTypeOK, AskedForRoom, OnlyWrites, EdgeTriggered, UdpServer,
         ReadErr, Handled, Goto, opts, PeerGone, HasRoom
<1>6. ASSUME NEW y \in Sides PROVE RoomPending(y)'
  BY DEF StreamInv, Parts, StreamTypeOK, RoomPending, OnlyWrites, EdgeTriggered, UdpServer,
         ReadErr, Handled, Goto, opts, HasRoom
<1> QED
  BY <1>1, <1>2, <1>3, <1>4, <1>5, <1>6 DEF StreamInv, Parts

LEMMA ReadErrFailsStep ==
  ASSUME StreamInv, NEW x \in Sides, ReadErrFails(x)
  PROVE  StreamInv'
<1> USE TwoSides, StreamAssumption
<1>1. StreamTypeOK'
  BY DEF StreamInv, StreamTypeOK, ReadErrFails, Handled, Goto, opts
<1>2. ASSUME NEW y \in Sides PROVE NothingSent(y)' /\ ReaderReads(y)'
  BY DEF StreamInv, Parts, StreamTypeOK, NothingSent, ReaderReads, ReadErrFails, Handled, Goto, opts
<1>3. ASSUME NEW y \in Sides PROVE HangUpPending(y)'
  BY DEF StreamInv, Parts, StreamTypeOK, HangUpPending, Busy, ReadErrFails, Handled, Goto, opts,
         PeerGone
<1>4. ASSUME NEW y \in Sides PROVE DataPending(y)'
  BY DEF StreamInv, Parts, StreamTypeOK, DataPending, Busy, EdgeTriggered, UdpServer, ReadErrFails,
         Handled, Goto, opts, HasData
<1>5. ASSUME NEW y \in Sides PROVE AskedForRoom(y)'
  BY DEF StreamInv, Parts, StreamTypeOK, AskedForRoom, OnlyWrites, EdgeTriggered, UdpServer,
         ReadErrFails, Handled, Goto, opts, PeerGone, HasRoom
<1>6. ASSUME NEW y \in Sides PROVE RoomPending(y)'
  BY DEF StreamInv, Parts, StreamTypeOK, RoomPending, OnlyWrites, EdgeTriggered, UdpServer,
         ReadErrFails, Handled, Goto, opts, HasRoom
<1> QED
  BY <1>1, <1>2, <1>3, <1>4, <1>5, <1>6 DEF StreamInv, Parts

LEMMA LoseStep ==
  ASSUME StreamInv, NEW x \in Sides, Lose(x)
  PROVE  StreamInv'
<1> USE TwoSides, StreamAssumption
<1>1. StreamTypeOK'
  BY DEF StreamInv, StreamTypeOK, Lose, MakeRoom, opts
<1>2. ASSUME NEW y \in Sides PROVE NothingSent(y)' /\ ReaderReads(y)'
  BY DEF StreamInv, Parts, NothingSent, ReaderReads, Lose, MakeRoom, opts
<1>3. ASSUME NEW y \in Sides PROVE HangUpPending(y)'
  BY DEF HangUpPending, Lose, opts, PeerGone
<1>4. ASSUME NEW y \in Sides PROVE DataPending(y)'
  BY DEF StreamInv, Parts, DataPending, EdgeTriggered, UdpServer, Lose, MakeRoom, opts, HasData
<1>5. ASSUME NEW y \in Sides PROVE AskedForRoom(y)'
  BY DEF StreamInv, Parts, StreamTypeOK, AskedForRoom, OnlyWrites, EdgeTriggered, UdpServer,
         Lose, MakeRoom, opts, PeerGone, HasRoom
<1>6. ASSUME NEW y \in Sides PROVE RoomPending(y)'
  BY DEF StreamInv, Parts, HangUpPending, AskedForRoom, RoomPending, Busy, OnlyWrites,
         EdgeTriggered, UdpServer, Lose, MakeRoom, opts, HasRoom
<1> QED
  BY <1>1, <1>2, <1>3, <1>4, <1>5, <1>6 DEF StreamInv, Parts

LEMMA QueueErrorStep ==
  ASSUME StreamInv, NEW x \in Sides, QueueError(x)
  PROVE  StreamInv'
<1> USE TwoSides, StreamAssumption
<1>1. StreamTypeOK'
  BY DEF StreamInv, StreamTypeOK, QueueError, opts
<1>2. ASSUME NEW y \in Sides PROVE NothingSent(y)' /\ ReaderReads(y)'
  BY DEF StreamInv, Parts, NothingSent, ReaderReads, QueueError, opts
<1>3. ASSUME NEW y \in Sides PROVE HangUpPending(y)'
  BY DEF StreamInv, Parts, HangUpPending, QueueError, opts, PeerGone
<1>4. ASSUME NEW y \in Sides PROVE DataPending(y)'
  BY DEF StreamInv, Parts, DataPending, EdgeTriggered, UdpServer, QueueError, opts, HasData
<1>5. ASSUME NEW y \in Sides PROVE AskedForRoom(y)'
  BY DEF StreamInv, Parts, AskedForRoom, OnlyWrites, EdgeTriggered, UdpServer, QueueError, opts,
         PeerGone, HasRoom
<1>6. ASSUME NEW y \in Sides PROVE RoomPending(y)'
  BY DEF StreamInv, Parts, RoomPending, OnlyWrites, EdgeTriggered, UdpServer, QueueError, opts,
         HasRoom
<1> QED
  BY <1>1, <1>2, <1>3, <1>4, <1>5, <1>6 DEF StreamInv, Parts

LEMMA StopStep ==
  ASSUME StreamInv, NEW x \in Sides, Stop(x)
  PROVE  StreamInv'
<1> USE TwoSides, StreamAssumption
<1>1. StreamTypeOK'
  BY DEF StreamInv, StreamTypeOK, Stop, opts
<1>2. ASSUME NEW y \in Sides PROVE NothingSent(y)' /\ ReaderReads(y)'
  BY DEF StreamInv, Parts, NothingSent, ReaderReads, Stop, opts
<1>3. ASSUME NEW y \in Sides PROVE HangUpPending(y)'
  BY DEF StreamInv, Parts, HangUpPending, Stop, opts, PeerGone
<1>4. ASSUME NEW y \in Sides PROVE DataPending(y)'
  BY DEF StreamInv, Parts, DataPending, EdgeTriggered, UdpServer, Stop, opts, HasData
<1>5. ASSUME NEW y \in Sides PROVE AskedForRoom(y)'
  BY DEF StreamInv, Parts, AskedForRoom, OnlyWrites, EdgeTriggered, UdpServer, Stop, opts,
         PeerGone, HasRoom
<1>6. ASSUME NEW y \in Sides PROVE RoomPending(y)'
  BY DEF StreamInv, Parts, StreamTypeOK, ReaderReads, HangUpPending, AskedForRoom, RoomPending,
         Busy, OnlyWrites, EdgeTriggered, UdpServer, Stop, opts, PeerGone, HasData, HasRoom
<1> QED
  BY <1>1, <1>2, <1>3, <1>4, <1>5, <1>6 DEF StreamInv, Parts

LEMMA LeavesStep ==
  ASSUME StreamInv, NEW x \in Sides, Leaves(x)
  PROVE  StreamInv'
<1> USE TwoSides, StreamAssumption
<1>1. StreamTypeOK'
  BY DEF StreamInv, StreamTypeOK, Leaves, Gone, Goto, opts
<1>2. ASSUME NEW y \in Sides PROVE NothingSent(y)' /\ ReaderReads(y)'
  BY DEF StreamInv, Parts, NothingSent, ReaderReads, Leaves, Gone, Goto, opts
<1>3. ASSUME NEW y \in Sides PROVE HangUpPending(y)'
  BY DEF StreamInv, StreamTypeOK, HangUpPending, Busy, Leaves, Gone, Goto
<1>4. ASSUME NEW y \in Sides PROVE DataPending(y)'
  BY DEF StreamInv, Parts, StreamTypeOK, DataPending, HangUpPending, Busy, EdgeTriggered,
         UdpServer, Leaves, Gone, Goto, opts, PeerGone, HasData, HasRoom
<1>5. ASSUME NEW y \in Sides PROVE AskedForRoom(y)'
  BY DEF StreamInv, Parts, AskedForRoom, OnlyWrites, EdgeTriggered, UdpServer, Leaves, Gone,
         Goto, opts, PeerGone, HasRoom
<1>6. ASSUME NEW y \in Sides PROVE RoomPending(y)'
  BY DEF StreamInv, StreamTypeOK, RoomPending, Leaves, Gone, Goto
<1> QED
  BY <1>1, <1>2, <1>3, <1>4, <1>5, <1>6 DEF StreamInv, Parts

----------------------------------------------------------------------------
LEMMA InvInit == Init => StreamInv
<1> SUFFICES ASSUME Init PROVE StreamInv
  OBVIOUS
<1> USE TwoSides, StreamAssumption
<1>1. StreamTypeOK
  BY DEF Init, StreamTypeOK
<1>2. ASSUME NEW x \in Sides PROVE Parts(x)
  BY DEF Init, Parts, NothingSent, ReaderReads, HangUpPending, DataPending, AskedForRoom,
         RoomPending,
         OnlyWrites, EdgeTriggered, UdpServer, Sides, PeerGone, HasData, HasRoom
<1> QED
  BY <1>1, <1>2 DEF StreamInv

LEMMA LoopStepStep ==
  ASSUME StreamInv, NEW x \in Sides, LoopStep(x)
  PROVE  StreamInv'
BY EpollWaitStep, SpuriousStep, HungUpStep, ReadBufferStep, ReadAgainStep, ReadEofStep,
   WriteBufferStep, WriteAgainStep, IoFailsStep, WriteKillsStep, ReadErrStep, ReadErrFailsStep
DEF LoopStep

LEMMA InvStep == StreamInv /\ [Next]_vars => StreamInv'
<1> SUFFICES ASSUME StreamInv, [Next]_vars PROVE StreamInv'
  OBVIOUS
<1>1. CASE ServerLoop
  BY <1>1, TwoSides, ServerAcceptStep, LoopStepStep DEF ServerLoop
<1>2. CASE LoopStep("client")
  BY <1>2, TwoSides, LoopStepStep
<1>3. CASE \E x \in Sides : Leaves(x) \/ Stop(x) \/ QueueError(x) \/ Lose(x)
  BY <1>3, LeavesStep, StopStep, QueueErrorStep, LoseStep
<1>4. CASE Finished \/ UNCHANGED vars
  BY <1>4 DEF Finished, vars, opts, StreamInv, StreamTypeOK, Parts, NothingSent, ReaderReads, HangUpPending,
              DataPending, AskedForRoom, RoomPending, OnlyWrites, EdgeTriggered, UdpServer, PeerGone, HasData, HasRoom
<1> QED
  BY <1>1, <1>2, <1>3, <1>4 DEF Next

----------------------------------------------------------------------------
\* The inductive invariant of process_events at both ends of a flow.
THEOREM StreamInvHolds == Spec => []StreamInv
BY InvInit, InvStep, PTL DEF Spec

\* Type correctness: no side reads data that is not there, writes beyond the
\* socket's buffer or takes a message off an empty error queue.
THEOREM StreamTypes == Spec => []StreamTypeOK
<1>1. StreamInv => StreamTypeOK
  BY DEF StreamInv
<1> QED
  BY <1>1, StreamInvHolds, PTL

\* process_events loses no wake-up for data, room or a hang-up, in any mode and
\* whatever happens between epoll_wait and its read() and write() calls; those
\* for data or room it loses only after an error other than EAGAIN.
THEOREM WakeupsNotLost == Spec => []NoLostWakeup
<1>1. StreamInv => NoLostWakeup
  BY TwoSides DEF StreamInv, Parts, NoLostWakeup, HangUpPending, DataPending, RoomPending, OnlyWrites, Ready, Busy
<1> QED
  BY <1>1, StreamInvHolds, PTL
============================================================================
