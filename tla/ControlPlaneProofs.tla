------------------------- MODULE ControlPlaneProofs -------------------------
(***************************************************************************)
(* Theorems about ControlPlane, for any number of clients and strays.      *)
(***************************************************************************)
EXTENDS ControlPlane, SequenceTheorems, TLAPS

(***************************************************************************)
(* The inductive invariant.                                                *)
(***************************************************************************)

NoRepeats(seq) == \A i, j \in 1..Len(seq) : seq[i] = seq[j] => i = j

\* Connections are told apart by their peer: nobody is queued or accepted
\* twice, and whoever is queued or accepted has connected.
QueuesDisjoint ==
  /\ NoRepeats(backlog) /\ NoRepeats(client_fds)
  /\ Elems(backlog) \cap Elems(client_fds) = {}
  /\ \A p \in Elems(backlog) \cup Elems(client_fds) : conn[p] # "none"
  /\ \A c \in Clients : cli[c] = "start" => conn[c] = "none"

Accepted(p) == p \in Elems(client_fds)

\* What may be in flight: one datum at most from each peer; the secret only
\* from a client; from an accepted client only its notification; to a peer
\* only if it was accepted.
Flight ==
  /\ \A p \in Peers : Len(c2s[p]) <= 1
  /\ \A p \in Strays : Sent(p) => Head(c2s[p]) # "secret"
  /\ Elems(client_fds) \subseteq Clients
  /\ \A c \in Clients : cli[c] \in {"start", "connected"} => ~Sent(c) /\ ~Accepted(c)
  /\ \A c \in Clients : Accepted(c) /\ Sent(c) => cli[c] = "notified"
  /\ \A p \in Peers : s2c[p] # <<>> => Accepted(p)
  /\ \A c \in Clients : cli[c] \in {"joined", "notified"} => Accepted(c)

\* Where the server is, and what it has counted.
Counts ==
  /\ srv \in {"start", "listen"} => Len(client_fds) = 0
  /\ srv = "accept" => Len(client_fds) < NumClients
  /\ srv = "wait" => Len(client_fds) = NumClients /\ notified < NumClients
  /\ srv = "done" => Len(client_fds) = NumClients /\ notified = NumClients
  /\ srv \in {"start", "listen", "accept"} => notified = 0
  /\ Len(client_fds) <= NumClients
  /\ \A i \in 1..notified : cli[client_fds[i]] = "notified"

CPInv == CPTypeOK /\ QueuesDisjoint /\ Flight /\ Counts

\* A client's end of its connection is closed because the client notified the
\* server or died, and, unless the server had accepted it, died of itself; the
\* server closes what it has queued or accepted only at the end.
HangUps ==
  /\ \A c \in Clients : conn[c] = "reset" => cli[c] = "fatal"
  /\ \A c \in Clients : conn[c] = "eof" => cli[c] \in {"notified", "fatal"}
  /\ \A c \in Clients : conn[c] \in {"eof", "reset"} => Accepted(c) \/ c \in Mortal
  /\ srv \notin {"done", "fatal"} =>
       \A p \in Elems(backlog) \cup Elems(client_fds) : conn[p] # "closed"
  /\ srv = "fatal" => \A p \in Peers : conn[p] \in {"none", "closed"}

\* A notification that was sent is one the server counts, and is there until
\* the server has counted it.
Notices ==
  /\ \A p \in Peers : Len(s2c[p]) <= 1
  /\ \A p \in Peers : s2c[p] # <<>> => Head(s2c[p]) = Magic[Server]
  /\ \A c \in Clients : cli[c] \in {"joined", "notified"} => Magic[c] = Magic[Server]
  /\ \A c \in Clients : Accepted(c) /\ Sent(c) => Head(c2s[c]) = Magic[Server]
  /\ srv \notin {"done", "fatal"} =>
       \A i \in notified + 1 .. Len(client_fds) :
         cli[client_fds[i]] = "notified" => Sent(client_fds[i])

\* With CPInv, inductive for FatalOnlyByClientDeath.
DeathInv == HangUps /\ Notices /\ FatalOnlyByClientDeath

----------------------------------------------------------------------------
(* Sequences.                                                              *)

\* What Append does to the members of a sequence.
LEMMA AppendMembers ==
  ASSUME NEW S, NEW seq \in Seq(S), NEW e \in S
  PROVE  /\ Append(seq, e) \in Seq(S)
         /\ Len(Append(seq, e)) = Len(seq) + 1
         /\ Append(seq, e) # <<>>
         /\ \A i \in 1..Len(seq) : Append(seq, e)[i] = seq[i]
         /\ Append(seq, e)[Len(seq) + 1] = e
         /\ Elems(Append(seq, e)) = Elems(seq) \cup {e}
         /\ NoRepeats(seq) /\ e \notin Elems(seq) => NoRepeats(Append(seq, e))
<1> DEFINE app == Append(seq, e)
<1>1. /\ app \in Seq(S)
      /\ Len(app) = Len(seq) + 1
      /\ \A i \in 1..Len(seq) : app[i] = seq[i]
      /\ app[Len(seq) + 1] = e
  BY AppendProperties
<1>2. Len(seq) \in Nat
  BY LenProperties
<1> HIDE DEF app
<1>3. app # <<>>
  BY <1>1, <1>2
<1>4. Elems(app) = Elems(seq) \cup {e}
  <2>1. \A i \in 1..Len(app) : i \in 1..Len(seq) \/ i = Len(seq) + 1
    BY <1>1, <1>2
  <2>2. \A i \in 1..Len(seq) : i \in 1..Len(app)
    BY <1>1, <1>2
  <2>3. Len(seq) + 1 \in 1..Len(app)
    BY <1>1, <1>2
  <2> QED
    BY <1>1, <2>1, <2>2, <2>3 DEF Elems
<1>5. ASSUME NoRepeats(seq), e \notin Elems(seq) PROVE NoRepeats(app)
  <2> SUFFICES ASSUME NEW i \in 1..Len(app), NEW j \in 1..Len(app), app[i] = app[j]
               PROVE  i = j
    BY DEF NoRepeats
  <2>1. CASE i \in 1..Len(seq) /\ j \in 1..Len(seq)
    BY <1>1, <1>5, <2>1 DEF NoRepeats
  <2>2. CASE i \in 1..Len(seq) /\ j = Len(seq) + 1
    BY <1>1, <1>5, <2>2 DEF Elems
  <2>3. CASE i = Len(seq) + 1 /\ j \in 1..Len(seq)
    BY <1>1, <1>5, <2>3 DEF Elems
  <2> QED
    BY <1>1, <1>2, <2>1, <2>2, <2>3
<1> QED
  BY <1>1, <1>3, <1>4, <1>5 DEF app

\* What Head and Tail do to the members of a sequence.
LEMMA TailMembers ==
  ASSUME NEW S, NEW seq \in Seq(S), seq # <<>>
  PROVE  /\ Head(seq) \in S /\ Head(seq) \in Elems(seq)
         /\ Tail(seq) \in Seq(S)
         /\ Len(Tail(seq)) = Len(seq) - 1
         /\ Elems(Tail(seq)) \subseteq Elems(seq)
         /\ NoRepeats(seq) => NoRepeats(Tail(seq)) /\ Head(seq) \notin Elems(Tail(seq))
<1> DEFINE tl == Tail(seq)
<1>1. Len(seq) \in Nat \ {0}
  BY EmptySeq
<1>2. /\ Head(seq) = seq[1] /\ Head(seq) \in S
      /\ tl \in Seq(S)
      /\ Len(tl) = Len(seq) - 1
      /\ \A i \in 1..Len(tl) : tl[i] = seq[i + 1]
  BY <1>1, HeadTailProperties, ElementOfSeq
<1> HIDE DEF tl
<1>3. \A i \in 1..Len(tl) : i + 1 \in 1..Len(seq) /\ i + 1 # 1
  BY <1>1, <1>2
<1>4. 1 \in 1..Len(seq)
  BY <1>1
<1>5. Head(seq) \in Elems(seq) /\ Elems(tl) \subseteq Elems(seq)
  BY <1>2, <1>3, <1>4 DEF Elems
<1>6. ASSUME NoRepeats(seq) PROVE NoRepeats(tl)
  <2> SUFFICES ASSUME NEW i \in 1..Len(tl), NEW j \in 1..Len(tl), tl[i] = tl[j]
               PROVE  i = j
    BY DEF NoRepeats
  <2>1. i + 1 = j + 1
    BY <1>2, <1>3, <1>6 DEF NoRepeats
  <2> QED
    BY <2>1
<1>7. ASSUME NoRepeats(seq) PROVE Head(seq) \notin Elems(tl)
  BY <1>2, <1>3, <1>4, <1>7 DEF Elems, NoRepeats
<1> QED
  BY <1>2, <1>5, <1>6, <1>7 DEF tl

LEMMA EmptyMembers == Elems(<<>>) = {} /\ NoRepeats(<<>>) /\ Len(<<>>) = 0
BY DEF Elems, NoRepeats

LEMMA MembersType ==
  ASSUME NEW S, NEW seq \in Seq(S)
  PROVE  Elems(seq) \subseteq S
BY ElementOfSeq DEF Elems

LEMMA TailOfOne ==
  ASSUME NEW S, NEW seq \in Seq(S), seq # <<>>, Len(seq) <= 1
  PROVE  Tail(seq) = <<>>
<1>1. Tail(seq) \in Seq(S) /\ Len(Tail(seq)) = 0
  <2>1. Len(seq) \in Nat \ {0} /\ Len(Tail(seq)) = Len(seq) - 1 /\ Tail(seq) \in Seq(S)
    BY TailMembers, EmptySeq
  <2> QED
    BY <2>1
<1> QED
  BY <1>1, EmptySeq

----------------------------------------------------------------------------
LEMMA PeersType ==
  /\ \A c \in Clients : c \in Peers
  /\ \A p \in Strays : p \in Peers /\ p \notin Clients
BY CPAssumption DEF Peers

LEMMA MagicType == Magic[Server] \in Data /\ \A c \in Clients : Magic[c] \in Data
BY CPAssumption DEF Data, Magics

\* CPTypeOK is an invariant of the control plane.
LEMMA TypeInit == CPInit => CPTypeOK
BY CPAssumption DEF CPInit, CPTypeOK, SrvStates, CliStates, ConnStates, FromFirstClient

LEMMA TypeStep == CPTypeOK /\ Counts /\ [CPNext]_cpVars => CPTypeOK'
<1> SUFFICES ASSUME CPTypeOK, Counts, [CPNext]_cpVars PROVE CPTypeOK'
  OBVIOUS
<1> USE CPAssumption, PeersType, MagicType DEF CPTypeOK, SrvStates, CliStates, ConnStates
<1>1. CASE CtrlListen
  BY <1>1 DEF CtrlListen
<1>2. CASE WaitUntilDone
  BY <1>2 DEF WaitUntilDone, AllClosed
<1>3. CASE CtrlAcceptValid
  <2>1. Candidate \in Peers
    BY <1>3 DEF CtrlAcceptValid, Accepting, Candidate
  <2> QED
    BY <1>3, <2>1 DEF CtrlAcceptValid, Accepting, Sent
<1>4. CASE CtrlAcceptSendFails
  BY <1>4 DEF CtrlAcceptSendFails, AllClosed
<1>5. CASE CtrlAcceptInvalid
  BY <1>5 DEF CtrlAcceptInvalid, Reject, Accepting, Candidate
<1>6. CASE CtrlAcceptReadError
  BY <1>6 DEF CtrlAcceptReadError, Reject, Accepting, Candidate
<1>7. CASE CtrlWaitClient
  BY <1>7 DEF CtrlWaitClient, AllClosed, Sent, Counts
<1>8. CASE CtrlWaitClientFails
  BY <1>8 DEF CtrlWaitClientFails, AllClosed, Counts
<1>9. ASSUME NEW c \in Clients, CtrlClientStep(c) PROVE CPTypeOK'
  <2> USE DEF Data
  <2>1. CASE CtrlConnect(c)
    BY <2>1 DEF CtrlConnect
  <2>2. CASE CtrlConnectFails(c)
    BY <2>2 DEF CtrlConnectFails
  <2>3. CASE CtrlSendSecret(c)
    BY <2>3 DEF CtrlSendSecret, Write
  <2>4. CASE CtrlRecvMagic(c)
    BY <2>4 DEF CtrlRecvMagic
  <2>5. CASE CtrlRecvMagicFails(c)
    BY <2>5 DEF CtrlRecvMagicFails, Die
  <2>6. CASE CtrlNotifyServer(c)
    BY <2>6 DEF CtrlNotifyServer, Write
  <2> QED
    BY <1>9, <2>1, <2>2, <2>3, <2>4, <2>5, <2>6 DEF CtrlClientStep
<1>10. ASSUME NEW c \in Clients, CtrlClientDies(c) PROVE CPTypeOK'
  BY <1>10 DEF CtrlClientDies, Die
<1>11. ASSUME NEW p \in Strays,
              StrayConnect(p) \/ StraySend(p) \/ StrayHangUp(p)
       PROVE  CPTypeOK'
  <2>1. CASE StrayConnect(p)
    BY <2>1 DEF StrayConnect
  <2>2. CASE StraySend(p)
    BY <2>2 DEF StraySend, Data
  <2>3. CASE StrayHangUp(p)
    BY <2>3 DEF StrayHangUp
  <2> QED
    BY <1>11, <2>1, <2>2, <2>3
<1>12. CASE UNCHANGED cpVars
  BY <1>12 DEF cpVars
<1> QED
  BY <1>1, <1>2, <1>3, <1>4, <1>5, <1>6, <1>7, <1>8, <1>9, <1>10, <1>11, <1>12
     DEF CPNext, CtrlServerStep, CPFinished

LEMMA InvInit == CPInit => CPInv
<1> SUFFICES ASSUME CPInit PROVE CPInv
  OBVIOUS
<1> USE CPAssumption, PeersType, TypeInit, EmptyMembers DEF CPInit
<1>1. QueuesDisjoint
  BY DEF QueuesDisjoint
<1>2. Flight
  BY DEF Flight, Accepted, Sent
<1>3. Counts
  BY DEF Counts, FromFirstClient
<1> QED
  BY <1>1, <1>2, <1>3 DEF CPInv

LEMMA InvStep == CPInv /\ [CPNext]_cpVars => CPInv'
<1> SUFFICES ASSUME CPInv, [CPNext]_cpVars PROVE QueuesDisjoint' /\ Flight' /\ Counts'
  BY TypeStep DEF CPInv
<1> USE CPAssumption, PeersType
<1>0. /\ CPTypeOK /\ CPTypeOK' /\ QueuesDisjoint /\ Flight /\ Counts
      /\ Elems(backlog) \subseteq Peers /\ Elems(client_fds) \subseteq Peers
  BY TypeStep, MembersType DEF CPInv, CPTypeOK
\* A step of a client that leaves notified clients notified keeps Counts.
<1>c. ASSUME UNCHANGED <<srv, client_fds, notified>>,
             \A c \in Clients : cli[c] = "notified" => cli'[c] = "notified"
      PROVE  Counts'
  <2>1. \A i \in 1..notified : client_fds[i] \in Clients
    <3>1. \A i \in 1..notified : i \in 1..Len(client_fds)
      BY <1>0 DEF CPTypeOK
    <3>2. \A i \in 1..Len(client_fds) : client_fds[i] \in Elems(client_fds)
      BY DEF Elems
    <3> QED
      BY <1>0, <3>1, <3>2 DEF Flight
  <2> QED
    BY <1>0, <1>c, <2>1 DEF Counts
<1>1. CASE CtrlListen
  BY <1>0, <1>1 DEF CtrlListen, QueuesDisjoint, Flight, Counts, Accepted, Sent
<1>2. CASE WaitUntilDone
  <2>1. \A p \in Peers : conn'[p] = "none" <=> conn[p] = "none"
    BY <1>0, <1>2 DEF WaitUntilDone, AllClosed, CPTypeOK
  <2>2. Elems(backlog') \subseteq Elems(backlog) /\ NoRepeats(backlog')
    BY <1>0, <1>2, EmptyMembers DEF WaitUntilDone, QueuesDisjoint
  <2>4. QueuesDisjoint'
    BY <1>0, <1>2, <2>1, <2>2 DEF WaitUntilDone, QueuesDisjoint
  <2>5. Flight' /\ Counts'
    BY <1>0, <1>2 DEF WaitUntilDone, Flight, Counts, Accepted, Sent, CPTypeOK
  <2> QED
    BY <2>4, <2>5
<1>3. CASE CtrlAcceptValid
  <2> DEFINE p == Candidate
  <2>1. /\ p \in Peers /\ p \in Elems(backlog)
        /\ p \notin Elems(backlog') /\ NoRepeats(backlog')
        /\ Elems(backlog') \subseteq Elems(backlog)
    BY <1>0, <1>3, TailMembers, EmptyMembers
       DEF CtrlAcceptValid, Accepting, Candidate, CPTypeOK, QueuesDisjoint
  <2>2. /\ client_fds' = Append(client_fds, p)
        /\ Elems(client_fds') = Elems(client_fds) \cup {p}
        /\ Len(client_fds') = Len(client_fds) + 1
        /\ \A i \in 1..Len(client_fds) : client_fds'[i] = client_fds[i]
        /\ NoRepeats(client_fds')
    BY <1>0, <1>3, <2>1, AppendMembers DEF CtrlAcceptValid, CPTypeOK, QueuesDisjoint
  <2>3. \A q \in Peers : conn'[q] = "none" <=> conn[q] = "none"
    <3>1. \A q \in Elems(backlog) : conn[q] # "none"
      BY <1>0 DEF QueuesDisjoint
    <3> QED
      BY <1>3, <3>1 DEF CtrlAcceptValid
  <2>5. QueuesDisjoint'
    BY <1>0, <1>3, <2>1, <2>2, <2>3 DEF CtrlAcceptValid, QueuesDisjoint
  <2>6. /\ p \in Clients /\ c2s'[p] = <<>>
        /\ \A q \in Peers : q # p => c2s'[q] = c2s[q] /\ s2c'[q] = s2c[q]
    <3>1. Sent(p) /\ Head(c2s[p]) = "secret" /\ Len(c2s[p]) <= 1
      BY <1>0, <1>3, <2>1 DEF CtrlAcceptValid, Flight
    <3>2. p \in Clients
      BY <1>0, <2>1, <3>1 DEF Flight, Peers
    <3>3. Tail(c2s[p]) = <<>>
      <4>1. c2s[p] \in Seq(Data)
        BY <1>0, <2>1 DEF CPTypeOK
      <4> QED
        BY <3>1, <4>1, TailOfOne DEF Sent
    <3> QED
      BY <1>0, <1>3, <2>1, <3>2, <3>3 DEF CtrlAcceptValid, CPTypeOK
  <2>7. cli[p] \notin {"start", "connected"}
    BY <1>0, <1>3, <2>6 DEF CtrlAcceptValid, Flight
  <2>8. Flight'
    BY <1>0, <1>3, <2>2, <2>6, <2>7, EmptyMembers
       DEF CtrlAcceptValid, Flight, Accepted, Sent
  <2>9. Counts'
    BY <1>0, <1>3, <2>2 DEF CtrlAcceptValid, Accepting, LastClient, Counts, CPTypeOK
  <2> QED
    BY <2>5, <2>8, <2>9
<1>4. CASE CtrlAcceptSendFails
  <2>1. \A p \in Peers : conn'[p] = "none" <=> conn[p] = "none"
    BY <1>0, <1>4 DEF CtrlAcceptSendFails, AllClosed, CPTypeOK
  <2>3. QueuesDisjoint'
    BY <1>0, <1>4, <2>1, EmptyMembers DEF CtrlAcceptSendFails, QueuesDisjoint
  <2>4. Flight' /\ Counts'
    BY <1>0, <1>4 DEF CtrlAcceptSendFails, Flight, Counts, Accepted, Sent
  <2> QED
    BY <2>3, <2>4
<1>5. ASSUME Accepting, Reject(Candidate) PROVE QueuesDisjoint' /\ Flight' /\ Counts'
  <2> DEFINE p == Candidate
  <2>1. /\ p \in Peers /\ p \in Elems(backlog)
        /\ p \notin Elems(backlog') /\ NoRepeats(backlog')
        /\ Elems(backlog') \subseteq Elems(backlog)
    BY <1>0, <1>5, TailMembers DEF Reject, Accepting, Candidate, CPTypeOK, QueuesDisjoint
  <2>2. \A q \in Peers : conn'[q] = "none" <=> conn[q] = "none"
    BY <1>0, <1>5, <2>1 DEF Reject, CPTypeOK, QueuesDisjoint
  <2>4. QueuesDisjoint'
    BY <1>0, <1>5, <2>1, <2>2 DEF Reject, QueuesDisjoint
  <2>5. \A q \in Peers : c2s'[q] = <<>> \/ c2s'[q] = c2s[q]
    BY <1>0, <1>5 DEF Reject, CPTypeOK
  <2>6. Flight'
    BY <1>0, <1>5, <2>5, EmptyMembers DEF Reject, Flight, Accepted, Sent
  <2>7. Counts'
    BY <1>0, <1>5 DEF Reject, Counts
  <2> QED
    BY <2>4, <2>6, <2>7
<1>6. CASE CtrlAcceptInvalid \/ CtrlAcceptReadError
  BY <1>5, <1>6 DEF CtrlAcceptInvalid, CtrlAcceptReadError
<1>7. CASE CtrlWaitClient
  <2> DEFINE p == client_fds[notified + 1]
  <2>1. /\ notified + 1 \in 1..Len(client_fds)
        /\ p \in Elems(client_fds) /\ p \in Clients /\ Sent(p)
    BY <1>0, <1>7 DEF CtrlWaitClient, CPTypeOK, Counts, Flight, Elems
  <2>2. cli[p] = "notified"
    BY <1>0, <2>1 DEF Flight, Accepted
  <2>3. \A q \in Peers : conn'[q] = "none" <=> conn[q] = "none"
    BY <1>0, <1>7 DEF CtrlWaitClient, AllClosed, CPTypeOK
  <2>5. QueuesDisjoint'
    BY <1>0, <1>7, <2>3 DEF CtrlWaitClient, QueuesDisjoint
  <2>6. c2s'[p] = <<>> /\ \A q \in Peers : q # p => c2s'[q] = c2s[q]
    <3>1. c2s[p] \in Seq(Data) /\ c2s[p] # <<>> /\ Len(c2s[p]) <= 1
      BY <1>0, <2>1 DEF CPTypeOK, Flight, Sent
    <3>3. Tail(c2s[p]) = <<>>
      BY <3>1, TailOfOne
    <3> QED
      BY <1>0, <1>7, <2>1, <3>3 DEF CtrlWaitClient, CPTypeOK
  <2>7. Flight'
    BY <1>0, <1>7, <2>1, <2>2, <2>6, EmptyMembers
       DEF CtrlWaitClient, Flight, Accepted, Sent
  <2>8. Counts'
    BY <1>0, <1>7, <2>1, <2>2 DEF CtrlWaitClient, WaitOver, Counts, CPTypeOK
  <2> QED
    BY <2>5, <2>7, <2>8
<1>8. CASE CtrlWaitClientFails
  <2>1. \A p \in Peers : conn'[p] = "none" <=> conn[p] = "none"
    BY <1>0, <1>8 DEF CtrlWaitClientFails, AllClosed, CPTypeOK
  <2>3. QueuesDisjoint'
    BY <1>0, <1>8, <2>1 DEF CtrlWaitClientFails, QueuesDisjoint
  <2>4. Flight' /\ Counts'
    BY <1>0, <1>8 DEF CtrlWaitClientFails, Flight, Counts, Accepted, Sent
  <2> QED
    BY <2>3, <2>4
<1>10. ASSUME NEW c \in Clients, Die(c), cli[c] # "notified",
              UNCHANGED <<srv, backlog, client_fds, notified, num_incidents, c2s, s2c>>
       PROVE  QueuesDisjoint' /\ Flight' /\ Counts'
  <2>1. /\ cli'[c] = "fatal"
        /\ \A d \in Clients : d # c => cli'[d] = cli[d]
        /\ \A q \in Peers : conn'[q] = "none" <=> conn[q] = "none"
    BY <1>0, <1>10 DEF Die, CPTypeOK
  <2>2. QueuesDisjoint'
    BY <1>0, <1>10, <2>1 DEF QueuesDisjoint
  <2>3. Flight'
    BY <1>0, <1>10, <2>1 DEF Flight, Accepted, Sent
  <2>4. Counts'
    BY <1>c, <1>10, <2>1
  <2> QED
    BY <2>2, <2>3, <2>4
<1>9. ASSUME NEW c \in Clients, CtrlClientStep(c) \/ CtrlClientDies(c)
      PROVE  QueuesDisjoint' /\ Flight' /\ Counts'
  <2>1. CASE CtrlConnect(c)
    <3>1. /\ backlog' = Append(backlog, c) /\ conn' = [conn EXCEPT ![c] = "open"]
          /\ conn[c] = "none" /\ c \in Peers /\ cli' = [cli EXCEPT ![c] = "connected"]
      BY <1>0, <2>1 DEF CtrlConnect, QueuesDisjoint
    <3>2. c \notin Elems(backlog) /\ c \notin Elems(client_fds)
      BY <1>0, <3>1 DEF QueuesDisjoint
    <3>3. Elems(backlog') = Elems(backlog) \cup {c} /\ NoRepeats(backlog')
      BY <1>0, <3>1, <3>2, AppendMembers DEF CPTypeOK, QueuesDisjoint
    <3>4. QueuesDisjoint'
      BY <1>0, <2>1, <3>1, <3>2, <3>3 DEF CtrlConnect, QueuesDisjoint, CPTypeOK
    <3>5. Counts'
      BY <1>0, <1>c, <2>1 DEF CtrlConnect, CPTypeOK
    <3>6. /\ cli'[c] = "connected" /\ cli[c] = "start"
          /\ \A d \in Clients : d # c => cli'[d] = cli[d]
      BY <1>0, <2>1 DEF CtrlConnect, CPTypeOK
    <3>7. Flight'
      BY <1>0, <2>1, <3>2, <3>6 DEF CtrlConnect, Flight, Accepted, Sent
    <3> QED
      BY <3>4, <3>5, <3>7
  <2>2. CASE CtrlConnectFails(c)
    BY <1>0, <1>c, <2>2
       DEF CtrlConnectFails, QueuesDisjoint, Flight, Accepted, Sent, CPTypeOK
  <2>3. CASE CtrlSendSecret(c)
    <3>1. QueuesDisjoint'
      BY <1>0, <2>3 DEF CtrlSendSecret, Write, QueuesDisjoint, CPTypeOK
    <3>2. ~Sent(c) /\ ~Accepted(c)
      BY <1>0, <2>3 DEF CtrlSendSecret, Flight
    <3>3. /\ Len(c2s'[c]) <= 1
          /\ \A q \in Peers : q # c => c2s'[q] = c2s[q]
      BY <1>0, <2>3, <3>2, EmptyMembers DEF CtrlSendSecret, Write, Sent, CPTypeOK, Data
    <3>4. /\ cli'[c] \in {"auth", "fatal"}
          /\ \A d \in Clients : d # c => cli'[d] = cli[d]
      BY <1>0, <2>3 DEF CtrlSendSecret, Write, CPTypeOK
    <3>5. Flight'
      BY <1>0, <2>3, <3>2, <3>3, <3>4 DEF CtrlSendSecret, Flight, Accepted, Sent
    <3>6. Counts'
      BY <1>c, <2>3, <3>4 DEF CtrlSendSecret
    <3> QED
      BY <3>1, <3>5, <3>6
  <2>4. CASE CtrlRecvMagic(c)
    <3>1. QueuesDisjoint'
      BY <1>0, <2>4 DEF CtrlRecvMagic, QueuesDisjoint, CPTypeOK
    <3>2. Accepted(c) /\ ~Sent(c)
      BY <1>0, <2>4 DEF CtrlRecvMagic, Flight
    <3>3. Flight'
      BY <1>0, <2>4, <3>2 DEF CtrlRecvMagic, Flight, Accepted, Sent, CPTypeOK
    <3>4. Counts'
      BY <1>0, <1>c, <2>4 DEF CtrlRecvMagic, CPTypeOK
    <3> QED
      BY <3>1, <3>3, <3>4
  <2>5. CASE CtrlRecvMagicFails(c)
    BY <1>10, <2>5 DEF CtrlRecvMagicFails
  <2>7. CASE CtrlClientDies(c)
    BY <1>10, <2>7 DEF CtrlClientDies
  <2>6. CASE CtrlNotifyServer(c)
    <3>1. QueuesDisjoint'
      BY <1>0, <2>6 DEF CtrlNotifyServer, Write, QueuesDisjoint, CPTypeOK
    <3>2. Accepted(c) /\ ~Sent(c)
      BY <1>0, <2>6 DEF CtrlNotifyServer, Flight
    <3>3. /\ Len(c2s'[c]) <= 1
          /\ \A q \in Peers : q # c => c2s'[q] = c2s[q]
      BY <1>0, <2>6, <3>2, EmptyMembers, MagicType
         DEF CtrlNotifyServer, Write, Sent, CPTypeOK
    <3>4. /\ cli'[c] \in {"notified", "fatal"}
          /\ Sent(c)' => cli'[c] = "notified"
          /\ \A d \in Clients : d # c => cli'[d] = cli[d]
      BY <1>0, <2>6, <3>2 DEF CtrlNotifyServer, Write, CPTypeOK, Sent
    <3>5. Flight'
      BY <1>0, <2>6, <3>2, <3>3, <3>4 DEF CtrlNotifyServer, Flight, Accepted, Sent
    <3>6. Counts'
      BY <1>c, <2>6, <3>4 DEF CtrlNotifyServer
    <3> QED
      BY <3>1, <3>5, <3>6
  <2> QED
    BY <1>9, <2>1, <2>2, <2>3, <2>4, <2>5, <2>6, <2>7 DEF CtrlClientStep
<1>11. ASSUME NEW p \in Strays,
              StrayConnect(p) \/ StraySend(p) \/ StrayHangUp(p)
       PROVE  QueuesDisjoint' /\ Flight' /\ Counts'
  <2>1. CASE StrayConnect(p)
    <3>1. /\ backlog' = Append(backlog, p) /\ conn' = [conn EXCEPT ![p] = "open"]
          /\ conn[p] = "none" /\ p \in Peers
      BY <1>0, <2>1 DEF StrayConnect
    <3>2. p \notin Elems(backlog) /\ p \notin Elems(client_fds)
      BY <1>0, <3>1 DEF QueuesDisjoint
    <3>3. Elems(backlog') = Elems(backlog) \cup {p} /\ NoRepeats(backlog')
      BY <1>0, <3>1, <3>2, AppendMembers DEF CPTypeOK, QueuesDisjoint
    <3>4. QueuesDisjoint'
      BY <1>0, <2>1, <3>1, <3>2, <3>3 DEF StrayConnect, QueuesDisjoint, CPTypeOK
    <3>5. Flight' /\ Counts'
      BY <1>0, <2>1 DEF StrayConnect, Flight, Counts, Accepted, Sent
    <3> QED
      BY <3>4, <3>5
  <2>2. CASE StraySend(p)
    <3>1. c2s'[p] = <<"garbage">> /\ \A q \in Peers : q # p => c2s'[q] = c2s[q]
      BY <1>0, <2>2 DEF StraySend, CPTypeOK
    <3>2. Flight'
      BY <1>0, <2>2, <3>1 DEF StraySend, Flight, Accepted, Sent
    <3> QED
      BY <1>0, <2>2, <3>2 DEF StraySend, QueuesDisjoint, Counts
  <2>3. CASE StrayHangUp(p)
    BY <1>0, <2>3
       DEF StrayHangUp, QueuesDisjoint, Flight, Counts, Accepted, Sent, CPTypeOK
  <2> QED
    BY <1>11, <2>1, <2>2, <2>3
<1>12. CASE UNCHANGED cpVars
  BY <1>0, <1>12 DEF cpVars, QueuesDisjoint, Flight, Counts, Accepted, Sent
<1> QED
  BY <1>1, <1>2, <1>3, <1>4, <1>6, <1>7, <1>8, <1>9, <1>10, <1>11, <1>12
     DEF CPNext, CtrlServerStep, CPFinished

\* The invariant, for every control plane.
THEOREM ControlPlaneInv == CPSpec => []CPInv
<1> QED
  BY InvInit, InvStep, PTL DEF CPSpec

\* Type correctness of the control plane.
THEOREM ControlPlaneTypes == CPSpec => []CPTypeOK
<1>1. CPInv => CPTypeOK
  BY DEF CPInv
<1> QED
  BY <1>1, ControlPlaneInv, PTL

\* What ctrl_accept collects are different client processes, at most
\* num_clients of them.
THEOREM ClientsAreDistinct == CPSpec => []DistinctClients
<1>1. CPInv => DistinctClients
  BY DEF CPInv, QueuesDisjoint, Flight, Counts, NoRepeats, DistinctClients
<1> QED
  BY <1>1, ControlPlaneInv, PTL

\* A client goes on to its test only as one the server waits for.
THEOREM JoinedAreAwaited == CPSpec => []JoinedIsAwaited
<1>1. CPInv => JoinedIsAwaited
  BY DEF CPInv, Flight, Accepted, JoinedIsAwaited
<1> QED
  BY <1>1, ControlPlaneInv, PTL

\* control_plane_wait_until_done returns to the server only after the
\* notification of every client that joined.
THEOREM DoneIsAllNotified == CPSpec => []DoneMeansAllNotified
<1>1. CPInv => DoneMeansAllNotified
  <2> SUFFICES ASSUME CPInv, srv = "done"
               PROVE  /\ Len(client_fds) = NumClients
                      /\ \A i \in 1..Len(client_fds) : cli[client_fds[i]] = "notified"
                      /\ \A c \in Clients : cli[c] # "joined"
    BY DEF DoneMeansAllNotified
  <2>1. Len(client_fds) = NumClients /\ notified = NumClients
    BY DEF CPInv, Counts
  <2>2. \A i \in 1..Len(client_fds) : cli[client_fds[i]] = "notified"
    BY <2>1 DEF CPInv, Counts
  <2>3. \A c \in Elems(client_fds) : cli[c] = "notified"
    BY <2>2 DEF Elems
  <2>4. \A c \in Clients : cli[c] # "joined"
    BY <2>3 DEF CPInv, Flight, Accepted
  <2> QED
    BY <2>1, <2>2, <2>4
<1> QED
  BY <1>1, ControlPlaneInv, PTL

----------------------------------------------------------------------------
(* Why the server gives up a test.                                         *)

\* Appending to an empty queue.
LEMMA AppendToEmpty ==
  ASSUME NEW S, NEW seq \in Seq(S), NEW e \in S, seq = <<>>
  PROVE  Len(Append(seq, e)) = 1 /\ Head(Append(seq, e)) = e /\ Append(seq, e) # <<>>
<1>1. /\ Len(seq) = 0 /\ Append(seq, e) \in Seq(S)
      /\ Len(Append(seq, e)) = 1 /\ Append(seq, e)[1] = e
  BY AppendProperties, EmptyMembers
<1> QED
  BY <1>1, HeadTailProperties, EmptySeq

\* What is left of a client that exits.
LEMMA DieStep ==
  ASSUME CPInv, CPInv', DeathInv, NEW c \in Clients, Die(c), cli[c] # "notified",
         Accepted(c) \/ c \in Mortal \/ conn[c] # "open",
         UNCHANGED <<srv, backlog, client_fds, notified, num_incidents, c2s, s2c>>
  PROVE  DeathInv'
<1> USE CPAssumption, PeersType
<1>1. /\ cli'[c] = "fatal" /\ \A d \in Clients : d # c => cli'[d] = cli[d]
      /\ \A q \in Peers : q # c => conn'[q] = conn[q]
      /\ IF conn[c] = "open" THEN conn'[c] \in {"eof", "reset"} ELSE conn'[c] = conn[c]
  BY DEF Die, CPInv, CPTypeOK
<1>2. Elems(backlog) \cup Elems(client_fds) \subseteq Peers
  BY MembersType DEF CPInv, CPTypeOK
<1>3. Elems(client_fds) \subseteq Clients
  BY DEF CPInv, Flight
<1>4. HangUps'
  BY <1>1, <1>2 DEF DeathInv, HangUps, Accepted
<1>5. Notices'
  <2>1. \A i \in notified + 1 .. Len(client_fds) : client_fds[i] \in Clients
    BY <1>3 DEF Elems, CPInv, CPTypeOK
  <2> QED
    BY <1>1, <2>1 DEF DeathInv, Notices, Accepted, Sent
<1>6. FatalOnlyByClientDeath'
  BY <1>1, <1>3 DEF DeathInv, FatalOnlyByClientDeath
<1> QED
  BY <1>4, <1>5, <1>6 DEF DeathInv

LEMMA DeathStep == CPInv /\ CPInv' /\ DeathInv /\ [CPNext]_cpVars => DeathInv'
<1> SUFFICES ASSUME CPInv, CPInv', DeathInv, [CPNext]_cpVars PROVE DeathInv'
  OBVIOUS
<1> USE CPAssumption, PeersType
<1>0. /\ CPTypeOK /\ CPTypeOK' /\ QueuesDisjoint /\ Flight /\ Counts
      /\ Elems(backlog) \cup Elems(client_fds) \subseteq Peers
      /\ Elems(client_fds) \subseteq Clients
      /\ HangUps /\ Notices /\ FatalOnlyByClientDeath
  BY MembersType DEF CPInv, CPTypeOK, DeathInv, Flight
<1>i. /\ \A i \in 1..Len(client_fds) : client_fds[i] \in Elems(client_fds)
      /\ \A i \in notified + 1 .. Len(client_fds) : i \in 1..Len(client_fds)
  <2>1. \A i \in 1..Len(client_fds) : client_fds[i] \in Elems(client_fds)
    BY DEF Elems
  <2>2. \A i \in notified + 1 .. Len(client_fds) : i \in 1..Len(client_fds)
    BY <1>0 DEF CPTypeOK
  <2> QED
    BY <2>1, <2>2
\* Where nobody dies, and the server does not give up.
<1>f. ASSUME srv' # "fatal" \/ srv = "fatal", Elems(client_fds) \subseteq Elems(client_fds'),
             \A c \in Clients : cli[c] = "fatal" => cli'[c] = "fatal"
      PROVE  FatalOnlyByClientDeath'
  BY <1>0, <1>f DEF FatalOnlyByClientDeath
<1>1. CASE CtrlListen
  BY <1>0, <1>f, <1>1 DEF CtrlListen, DeathInv, HangUps, Notices, Accepted, Sent
<1>2. CASE WaitUntilDone
  <2>1. \/ conn' = conn
        \/ srv' = "done" /\ (\A p \in Peers : conn'[p] \in {"none", "closed"})
    BY <1>0, <1>2 DEF WaitUntilDone, AllClosed
  <2>2. HangUps'
    BY <1>0, <1>2, <2>1 DEF WaitUntilDone, HangUps, Accepted
  <2>3. Notices'
    BY <1>0, <1>2 DEF WaitUntilDone, Notices, Accepted, Sent
  <2> QED
    BY <1>f, <1>2, <2>2, <2>3 DEF WaitUntilDone, DeathInv
<1>3. CASE CtrlAcceptValid
  <2> DEFINE p == Candidate
  <2>1. p \in Elems(backlog) /\ p \in Peers /\ ~Accepted(p)
    BY <1>0, <1>3, TailMembers
       DEF CtrlAcceptValid, Accepting, Candidate, CPTypeOK, QueuesDisjoint, Accepted
  <2>2. /\ Elems(client_fds') = Elems(client_fds) \cup {p}
        /\ Len(client_fds') = Len(client_fds) + 1
        /\ \A i \in 1..Len(client_fds) : client_fds'[i] = client_fds[i]
        /\ client_fds'[Len(client_fds) + 1] = p
    BY <1>0, <1>3, <2>1, AppendMembers DEF CtrlAcceptValid, CPTypeOK
  <2>3. Sent(p) /\ c2s[p] \in Seq(Data) /\ Len(c2s[p]) <= 1 /\ Head(c2s[p]) = "secret"
    BY <1>0, <1>3, <2>1 DEF CtrlAcceptValid, CPTypeOK, Flight
  <2>4. p \in Clients
    BY <1>0, <2>1, <2>3 DEF Flight, Peers
  <2>5. c2s'[p] = <<>> /\ \A q \in Peers : q # p => c2s'[q] = c2s[q]
    <3>1. Tail(c2s[p]) = <<>>
      BY <2>3, TailOfOne DEF Sent
    <3> QED
      BY <1>0, <1>3, <2>1, <3>1 DEF CtrlAcceptValid, CPTypeOK
  <2>6. /\ Len(s2c'[p]) <= 1 /\ Head(s2c'[p]) = Magic[Server]
        /\ \A q \in Peers : q # p => s2c'[q] = s2c[q]
    <3>1. s2c[p] = <<>> /\ s2c[p] \in Seq(Data)
      BY <1>0, <2>1 DEF Flight, CPTypeOK
    <3>2. s2c'[p] = Append(s2c[p], Magic[Server])
      BY <1>0, <1>3, <2>1 DEF CtrlAcceptValid, CPTypeOK
    <3>3. Len(s2c'[p]) = 1 /\ Head(s2c'[p]) = Magic[Server]
      BY <3>1, <3>2, MagicType, AppendToEmpty
    <3>4. \A q \in Peers : q # p => s2c'[q] = s2c[q]
      BY <1>0, <1>3, <2>1 DEF CtrlAcceptValid, CPTypeOK
    <3> QED
      BY <3>3, <3>4
  <2>7. /\ Elems(backlog') \subseteq Elems(backlog) /\ p \notin Elems(backlog')
        /\ \A q \in Peers : \/ conn'[q] = conn[q]
                            \/ /\ q \in Elems(backlog) \ Elems(backlog') /\ q # p
                               /\ conn'[q] = "closed"
    <3>1. /\ Elems(Tail(backlog)) \subseteq Elems(backlog) /\ p \notin Elems(Tail(backlog))
      BY <1>0, <1>3, TailMembers
         DEF CtrlAcceptValid, Accepting, Candidate, CPTypeOK, QueuesDisjoint
    <3> QED
      BY <1>0, <1>3, <3>1, EmptyMembers DEF CtrlAcceptValid
  <2>8. cli' = cli /\ notified' = notified /\ srv' \in {"accept", "wait"} /\ srv = "accept"
    BY <1>3 DEF CtrlAcceptValid, Accepting
  <2>9. HangUps'
    <3>1. \A q \in Elems(client_fds) : q \notin Elems(backlog)
      BY <1>0 DEF QueuesDisjoint
    <3> QED
      BY <1>0, <2>1, <2>2, <2>7, <2>8, <3>1 DEF HangUps, Accepted
  <2>10. Notices'
    <3>1. cli[p] # "notified"
      BY <1>0, <2>1, <2>4 DEF Flight
    <3>2. \A q \in Peers : Len(s2c'[q]) <= 1 /\ (s2c'[q] # <<>> => Head(s2c'[q]) = Magic[Server])
      BY <1>0, <2>6 DEF Notices
    <3>3. \A c \in Clients : (Accepted(c) /\ Sent(c))' => Head(c2s'[c]) = Magic[Server]
      BY <1>0, <2>2, <2>5 DEF Notices, Accepted, Sent
    <3>4. ASSUME NEW i \in notified' + 1 .. Len(client_fds'), cli'[client_fds'[i]] = "notified"
          PROVE  c2s'[client_fds'[i]] # <<>>
      <4>1. i \in notified + 1 .. Len(client_fds) /\ i \in 1..Len(client_fds)
        BY <1>0, <2>2, <2>8, <3>1, <3>4 DEF CPTypeOK
      <4>2. client_fds'[i] = client_fds[i] /\ client_fds[i] \in Elems(client_fds)
        BY <1>i, <2>2, <4>1
      <4>3. client_fds[i] # p /\ client_fds[i] \in Peers
        BY <1>0, <2>1, <4>2 DEF Accepted
      <4>4. Sent(client_fds[i])
        BY <1>0, <2>8, <3>4, <4>1, <4>2 DEF Notices
      <4> QED
        BY <2>5, <4>2, <4>3, <4>4 DEF Sent
    <3> QED
      BY <1>0, <2>8, <3>2, <3>3, <3>4 DEF Notices, Accepted, Sent
  <2> QED
    BY <1>f, <2>2, <2>8, <2>9, <2>10 DEF DeathInv
<1>4. CASE CtrlAcceptSendFails
  <2>1. Candidate \in Elems(backlog) /\ Candidate \in Peers
    BY <1>0, <1>4, TailMembers DEF CtrlAcceptSendFails, Accepting, Candidate, CPTypeOK
  <2>2. Candidate \in Clients
    BY <1>0, <1>4, <2>1 DEF CtrlAcceptSendFails, Flight, Peers
  <2>3. cli[Candidate] = "fatal" /\ (Accepted(Candidate) \/ Candidate \in Mortal)
    BY <1>0, <1>4, <2>2 DEF CtrlAcceptSendFails, HangUps
  <2>4. FatalOnlyByClientDeath'
    BY <1>4, <2>3 DEF CtrlAcceptSendFails, FatalOnlyByClientDeath, Accepted
  <2>5. HangUps'
    BY <1>0, <1>4 DEF CtrlAcceptSendFails, AllClosed, HangUps, CPTypeOK
  <2>6. Notices'
    BY <1>0, <1>4 DEF CtrlAcceptSendFails, Notices, Accepted, Sent
  <2> QED
    BY <2>4, <2>5, <2>6 DEF DeathInv
<1>5. ASSUME Accepting, Reject(Candidate) PROVE DeathInv'
  <2> DEFINE p == Candidate
  <2>1. /\ p \in Elems(backlog) /\ p \in Peers /\ p \notin Elems(client_fds)
        /\ p \notin Elems(backlog') /\ Elems(backlog') \subseteq Elems(backlog)
    BY <1>0, <1>5, TailMembers DEF Reject, Accepting, Candidate, CPTypeOK, QueuesDisjoint
  <2>2. /\ conn'[p] = "closed" /\ \A q \in Peers : q # p => conn'[q] = conn[q]
        /\ \A q \in Peers : q # p => c2s'[q] = c2s[q]
    BY <1>0, <1>5, <2>1 DEF Reject, CPTypeOK
  <2>3. UNCHANGED <<srv, cli, client_fds, notified, s2c>>
    BY <1>5 DEF Reject
  <2>4. HangUps'
    BY <1>0, <2>1, <2>2, <2>3 DEF HangUps, Accepted
  <2>5. Notices'
    BY <1>0, <1>i, <2>1, <2>2, <2>3 DEF Notices, Accepted, Sent
  <2> QED
    BY <1>f, <2>3, <2>4, <2>5 DEF DeathInv
<1>6. CASE CtrlAcceptInvalid \/ CtrlAcceptReadError
  BY <1>5, <1>6 DEF CtrlAcceptInvalid, CtrlAcceptReadError
<1>7. CASE CtrlWaitClient
  <2> DEFINE p == client_fds[notified + 1]
  <2>1. /\ notified + 1 \in 1..Len(client_fds)
        /\ p \in Elems(client_fds) /\ p \in Clients /\ Sent(p)
    BY <1>0, <1>7 DEF CtrlWaitClient, CPTypeOK, Counts, Elems
  \* Whatever an accepted client sends is counted.
  <2>2. notified' = notified + 1
    BY <1>0, <1>7, <2>1 DEF CtrlWaitClient, Notices, Accepted
  <2>3. c2s'[p] = <<>> /\ \A q \in Peers : q # p => c2s'[q] = c2s[q]
    <3>1. c2s[p] \in Seq(Data) /\ c2s[p] # <<>> /\ Len(c2s[p]) <= 1
      BY <1>0, <2>1 DEF CPTypeOK, Flight, Sent
    <3>2. Tail(c2s[p]) = <<>>
      BY <3>1, TailOfOne
    <3> QED
      BY <1>0, <1>7, <2>1, <3>2 DEF CtrlWaitClient, CPTypeOK
  <2>4. UNCHANGED <<cli, backlog, client_fds, s2c>> /\ srv' # "fatal" /\ srv = "wait"
    BY <1>7 DEF CtrlWaitClient
  <2>5. \/ conn' = conn
        \/ srv' = "done" /\ (\A q \in Peers : conn'[q] \in {"none", "closed"})
    BY <1>7 DEF CtrlWaitClient, AllClosed
  <2>6. HangUps'
    BY <1>0, <2>4, <2>5 DEF HangUps, Accepted
  <2>7. Notices'
    <3>1. ASSUME NEW i \in notified' + 1 .. Len(client_fds'), cli'[client_fds'[i]] = "notified"
          PROVE  c2s'[client_fds'[i]] # <<>>
      <4>1. i \in notified + 1 .. Len(client_fds) /\ i # notified + 1 /\ i \in 1..Len(client_fds)
        BY <1>0, <2>2, <2>4 DEF CPTypeOK
      <4>2. client_fds[i] # p /\ client_fds[i] \in Peers
        BY <1>0, <1>i, <2>1, <4>1 DEF QueuesDisjoint, NoRepeats
      <4>3. Sent(client_fds[i])
        BY <1>0, <2>4, <3>1, <4>1 DEF Notices
      <4> QED
        BY <2>3, <2>4, <4>2, <4>3 DEF Sent
    <3>2. \A c \in Clients : (Accepted(c) /\ Sent(c))' => Head(c2s'[c]) = Magic[Server]
      BY <1>0, <2>3, <2>4 DEF Notices, Accepted, Sent
    <3> QED
      BY <1>0, <2>4, <3>1, <3>2 DEF Notices, Accepted, Sent
  <2> QED
    BY <1>f, <2>4, <2>6, <2>7 DEF DeathInv
<1>8. CASE CtrlWaitClientFails
  <2> DEFINE p == client_fds[notified + 1]
  <2>1. /\ notified + 1 \in 1..Len(client_fds) /\ notified + 1 \in notified + 1 .. Len(client_fds)
        /\ p \in Elems(client_fds) /\ p \in Clients
    BY <1>0, <1>8 DEF CtrlWaitClientFails, CPTypeOK, Counts, Elems
  <2>2. cli[p] = "fatal"
    BY <1>0, <1>8, <2>1 DEF CtrlWaitClientFails, HangUps, Notices
  <2>3. FatalOnlyByClientDeath'
    BY <1>8, <2>1, <2>2 DEF CtrlWaitClientFails, FatalOnlyByClientDeath
  <2>4. HangUps'
    BY <1>0, <1>8 DEF CtrlWaitClientFails, AllClosed, HangUps, CPTypeOK
  <2>5. Notices'
    BY <1>0, <1>8 DEF CtrlWaitClientFails, Notices, Accepted, Sent
  <2> QED
    BY <2>3, <2>4, <2>5 DEF DeathInv
<1>9. ASSUME NEW c \in Clients, CtrlClientStep(c) \/ CtrlClientDies(c) PROVE DeathInv'
  <2>1. CASE CtrlConnect(c)
    <3>1. /\ conn'[c] = "open" /\ \A q \in Peers : q # c => conn'[q] = conn[q]
          /\ cli'[c] = "connected" /\ \A d \in Clients : d # c => cli'[d] = cli[d]
          /\ cli[c] = "start" /\ UNCHANGED <<srv, client_fds, notified, c2s, s2c>>
          /\ srv # "fatal"
      BY <1>0, <2>1 DEF CtrlConnect, PortOpen, CPTypeOK
    <3>2. Elems(backlog') = Elems(backlog) \cup {c}
      BY <1>0, <2>1, AppendMembers DEF CtrlConnect, CPTypeOK
    <3>3. HangUps'
      BY <1>0, <3>1, <3>2 DEF HangUps, Accepted
    <3>4. Notices'
      BY <1>0, <1>i, <3>1 DEF Notices, Accepted, Sent
    <3> QED
      BY <1>f, <3>1, <3>3, <3>4 DEF DeathInv
  <2>2. CASE CtrlConnectFails(c)
    <3>1. /\ cli'[c] = "fatal" /\ \A d \in Clients : d # c => cli'[d] = cli[d]
          /\ UNCHANGED <<srv, conn, backlog, client_fds, notified, c2s, s2c>>
      BY <1>0, <2>2 DEF CtrlConnectFails, CPTypeOK
    <3>2. HangUps'
      BY <1>0, <3>1 DEF HangUps, Accepted
    <3>3. Notices'
      BY <1>0, <1>i, <3>1 DEF Notices, Accepted, Sent
    <3> QED
      BY <1>f, <3>1, <3>2, <3>3 DEF DeathInv
  <2>3. CASE CtrlSendSecret(c)
    <3>1. /\ cli[c] = "connected" /\ cli'[c] \in {"auth", "fatal"}
          /\ \A d \in Clients : d # c => cli'[d] = cli[d]
          /\ \A q \in Peers : q # c => c2s'[q] = c2s[q]
          /\ UNCHANGED <<srv, conn, backlog, client_fds, notified, s2c>>
      BY <1>0, <2>3 DEF CtrlSendSecret, Write, CPTypeOK
    <3>2. ~Accepted(c)
      BY <1>0, <3>1 DEF Flight
    <3>3. HangUps'
      BY <1>0, <3>1 DEF HangUps, Accepted
    <3>4. Notices'
      BY <1>0, <1>i, <3>1, <3>2 DEF Notices, Accepted, Sent
    <3> QED
      BY <1>f, <3>1, <3>3, <3>4 DEF DeathInv
  <2>4. CASE CtrlRecvMagic(c)
    <3>1. /\ cli[c] = "auth" /\ cli'[c] = "joined"
          /\ \A d \in Clients : d # c => cli'[d] = cli[d]
          /\ s2c'[c] = Tail(s2c[c]) /\ \A q \in Peers : q # c => s2c'[q] = s2c[q]
          /\ s2c[c] # <<>> /\ Head(s2c[c]) = Magic[c] /\ s2c[c] \in Seq(Data)
          /\ UNCHANGED <<srv, conn, backlog, client_fds, notified, c2s>>
      BY <1>0, <2>4 DEF CtrlRecvMagic, CPTypeOK
    <3>2. s2c'[c] = <<>> /\ Len(s2c'[c]) <= 1
      <4>1. Tail(s2c[c]) = <<>>
        BY <1>0, <3>1, TailOfOne DEF Notices
      <4>2. Len(<<>>) <= 1
        BY EmptyMembers
      <4> QED
        BY <3>1, <4>1, <4>2
    <3>3. HangUps'
      BY <1>0, <3>1 DEF HangUps, Accepted
    <3>4. Magic[c] = Magic[Server]
      BY <1>0, <3>1 DEF Notices
    <3>5. Notices'
      BY <1>0, <1>i, <3>1, <3>2, <3>4 DEF Notices, Accepted, Sent
    <3> QED
      BY <1>f, <3>1, <3>3, <3>5 DEF DeathInv
  <2>5. CASE CtrlRecvMagicFails(c)
    <3>1. Accepted(c) \/ conn[c] # "open"
      BY <1>0, <2>5 DEF CtrlRecvMagicFails, Flight
    <3> QED
      BY <2>5, <3>1, DieStep DEF CtrlRecvMagicFails
  <2>6. CASE CtrlClientDies(c)
    <3>1. c \in Mortal \/ conn[c] # "open"
      BY <1>0, <2>6 DEF CtrlClientDies, HangUps
    <3> QED
      BY <2>6, <3>1, DieStep DEF CtrlClientDies
  <2>7. CASE CtrlNotifyServer(c)
    <3>1. /\ cli[c] = "joined" /\ cli'[c] \in {"notified", "fatal"}
          /\ conn[c] = "open" => cli'[c] = "notified"
          /\ \A d \in Clients : d # c => cli'[d] = cli[d]
          /\ conn'[c] = (IF conn[c] = "open" THEN "eof" ELSE conn[c])
          /\ \A q \in Peers : q # c => conn'[q] = conn[q] /\ c2s'[q] = c2s[q]
          /\ UNCHANGED <<srv, backlog, client_fds, notified, s2c>>
      BY <1>0, <2>7 DEF CtrlNotifyServer, Write, CPTypeOK
    <3>2. Accepted(c) /\ ~Sent(c) /\ Magic[c] = Magic[Server] /\ conn[c] # "none"
      BY <1>0, <3>1 DEF Flight, Notices, QueuesDisjoint, Accepted
    <3>3. srv \notin {"done", "fatal"} => conn[c] = "open"
      BY <1>0, <3>1, <3>2 DEF HangUps, CPTypeOK, ConnStates, Accepted
    <3>4. IF conn[c] = "open"
          THEN c2s'[c] # <<>> /\ Head(c2s'[c]) = Magic[Server]
          ELSE c2s'[c] = <<>>
      <4>1. c2s[c] = <<>> /\ c2s[c] \in Seq(Data)
        BY <1>0, <3>2 DEF Sent, CPTypeOK
      <4>2. c2s'[c] = IF conn[c] = "open" THEN Append(c2s[c], Magic[c]) ELSE c2s[c]
        BY <1>0, <2>7 DEF CtrlNotifyServer, Write, CPTypeOK
      <4> QED
        BY <3>2, <4>1, <4>2, MagicType, AppendToEmpty
    <3>5. HangUps'
      BY <1>0, <3>1, <3>2 DEF HangUps, Accepted
    <3>6. Notices'
      BY <1>0, <1>i, <3>1, <3>2, <3>3, <3>4 DEF Notices, Accepted, Sent
    <3> QED
      BY <1>f, <3>1, <3>5, <3>6 DEF DeathInv
  <2> QED
    BY <1>9, <2>1, <2>2, <2>3, <2>4, <2>5, <2>6, <2>7 DEF CtrlClientStep
<1>10. ASSUME NEW p \in Strays,
              StrayConnect(p) \/ StraySend(p) \/ StrayHangUp(p)
       PROVE  DeathInv'
  <2>1. UNCHANGED <<srv, cli, client_fds, notified, s2c>> /\ p \notin Elems(client_fds)
    BY <1>0, <1>10 DEF StrayConnect, StraySend, StrayHangUp
  <2>2. \A q \in Peers : q # p => conn'[q] = conn[q] /\ c2s'[q] = c2s[q]
    BY <1>0, <1>10 DEF StrayConnect, StraySend, StrayHangUp, CPTypeOK
  <2>3. Notices'
    BY <1>0, <1>i, <2>1, <2>2 DEF Notices, Accepted, Sent
  <2>4. /\ Elems(backlog') \subseteq Elems(backlog) \cup {p}
        /\ \/ srv # "fatal" /\ conn'[p] # "closed"
           \/ conn'[p] = conn[p] /\ backlog' = backlog
    <3>1. CASE StrayConnect(p)
      BY <1>0, <3>1, AppendMembers DEF StrayConnect, PortOpen, CPTypeOK
    <3>2. CASE StraySend(p)
      BY <3>2 DEF StraySend
    <3>3. CASE StrayHangUp(p)
      BY <1>0, <3>3 DEF StrayHangUp, HangUps, CPTypeOK
    <3> QED
      BY <1>10, <3>1, <3>2, <3>3
  <2>5. HangUps'
    BY <1>0, <2>1, <2>2, <2>4 DEF HangUps, Accepted
  <2> QED
    BY <1>f, <2>1, <2>3, <2>5 DEF DeathInv
<1>11. CASE UNCHANGED cpVars
  BY <1>0, <1>f, <1>11 DEF cpVars, DeathInv, HangUps, Notices, Accepted, Sent
<1> QED
  BY <1>1, <1>2, <1>3, <1>4, <1>6, <1>7, <1>8, <1>9, <1>10, <1>11
     DEF CPNext, CtrlServerStep, CPFinished

\* The server gives up a test only when a client it accepted, or one that
\* was killed, has died, whoever else connects to the control port.
THEOREM FatalIsClientDeath == CPSpec => []FatalOnlyByClientDeath
<1>1. ASSUME CPInit PROVE DeathInv
  <2>1. HangUps /\ FatalOnlyByClientDeath
    BY <1>1, PeersType, EmptyMembers DEF CPInit, HangUps, FatalOnlyByClientDeath
  <2>2. Len(<<>>) <= 1 /\ \A p \in Peers : c2s[p] = <<>> /\ s2c[p] = <<>>
    BY <1>1, EmptyMembers DEF CPInit
  <2>3. Len(client_fds) = 0 /\ notified = 0
    BY <1>1, EmptyMembers DEF CPInit, FromFirstClient
  <2>4. \A c \in Clients : cli[c] = "start"
    BY <1>1 DEF CPInit
  <2>5. Notices
    BY <2>2, <2>3, <2>4, PeersType DEF Notices, Sent
  <2> QED
    BY <2>1, <2>5 DEF DeathInv
<1>2. DeathInv => FatalOnlyByClientDeath
  BY DEF DeathInv
<1> QED
  BY <1>1, <1>2, DeathStep, ControlPlaneInv, PTL DEF CPSpec

============================================================================
