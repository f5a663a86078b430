------------------------- MODULE DescriptorsProofs -------------------------
(***************************************************************************)
(* Proofs about Descriptors, for any number of workers, flows and          *)
(* connections: the descriptor table is large enough, flows keep their     *)
(* sockets, and none leaks.                                                *)
(*                                                                         *)
(* Numbers come back, sockets do not.  So the invariant tells sockets      *)
(* apart, says which numbers still stand for the socket they were given    *)
(* to, and counts the sockets to know that there is a free number.         *)
(***************************************************************************)
EXTENDS Descriptors, FiniteSetTheorems, TLAPS

\* Before the barrier.
Early == {"setup", "ready"}

\* The barrier divides the states of the workers, and each socket of a worker
\* that stops is closed in its turn.
Phases ==
  /\ \A t, u \in Threads : pc[t] \in Early => pc[u] \in Early \union {"fatal"}
  /\ \A t \in Threads :
       /\ closing[t] # 1 => role = "client" /\ pc[t] \notin Early \union {"loop"}
       /\ pc[t] \in {"hook", "close", "delflow"} => closing[t] \in 1..Len(mine[t])
       /\ pc[t] = "delflow" => role = "server"
       /\ IF role = "client" THEN Len(mine[t]) <= FlowsPerThread
          ELSE /\ Len(mine[t]) <= 1
               /\ mine[t] = <<>> => pc[t] \in {"setup", "fatal"}
               /\ pc[t] = "setup" => mine[t] = <<>>

\* Positions in the workers' client_fds and fd_listen.
Places == {p \in Threads \X (1..FlowsPerThread + 1) : p[2] <= Len(mine[p[1]])}

SockAt(p) == mine[p[1]][p[2]].sock

\* As many sockets have been made as have a place, or were accepted.
Counted ==
  /\ IsFiniteSet((1..serial) \ {SockAt(p) : p \in Places})
  /\ Cardinality((1..serial) \ {SockAt(p) : p \in Places}) <= accepted

\* A socket has one number, one place, one flow and one worker.
Numbered ==
  /\ \A fd \in Fd : fds[fd] <= serial
  /\ \A fd, gd \in Fd : fds[fd] = fds[gd] /\ fds[fd] # 0 => fd = gd
  /\ \A t \in Threads : \A i \in 1..Len(mine[t]) :
       /\ mine[t][i].sock \in 1..serial
       /\ \A u \in Threads : \A k \in 1..Len(mine[u]) :
            mine[t][i].sock = mine[u][k].sock => t = u /\ i = k
  /\ \A t \in Threads : \A fl \in flows[t] :
       /\ fl.sock \in 1..serial
       /\ \A u \in Threads : \A gl \in flows[u] : fl.sock = gl.sock => t = u /\ fl = gl
       /\ \A u \in Threads : \A k \in 1..Len(mine[u]) :
            fl.sock = mine[u][k].sock => t = u /\ role = "client"

\* A server's workers listen until they close, each on its own number.
Listening ==
  role = "server" => \A t \in Threads :
    /\ pc[t] \in {"ready", "loop", "hook", "close"} => fds[mine[t][1].fd] = mine[t][1].sock
    /\ \A u \in Threads \ {t} :
         mine[t] # <<>> /\ mine[u] # <<>> => mine[t][1].fd # mine[u][1].fd
    /\ proto = "udp" => flows[t] = {}

\* A client opens no socket after it has closed one: no number comes back.
Connected ==
  role = "client" => \A t \in Threads : \A i \in 1..Len(mine[t]) :
    \/ fds[mine[t][i].fd] = mine[t][i].sock
    \/ fds[mine[t][i].fd] = 0 /\ \A u \in Threads : pc[u] \notin Early

\* FlowsIntact, also while a client connects.
Intact ==
  \A t \in Threads : pc[t] \in Early \union {"loop"} =>
    \A fl \in flows[t] :
      \/ fds[fl.fd] = fl.sock
      \/ /\ role = "server" /\ proto = "tcp"
         /\ \E u \in Threads : pc[u] = "exit" /\ mine[u] # <<>> /\ mine[u][1].fd = fl.fd

\* The entries worker t answers for.
Entries(t) == flows[t] \union {mine[t][i] : i \in 1..Len(mine[t])}

\* Until a worker stops, every open socket is somebody's.
Owned ==
  (\A t \in Threads : pc[t] \in Early \union {"loop"}) =>
    \A fd \in Fd : fds[fd] # 0 => \E t \in Threads : \E e \in Entries(t) : e.fd = fd /\ e.sock = fds[fd]

\* The sockets whose turn is over.
Past(t, i) == pc[t] = "exit" \/ i < closing[t]

ClosedUp ==
  role = "server" \/ proto = "tcp" => \A t \in Threads : \A i \in 1..Len(mine[t]) :
    Past(t, i) /\ mine[t][i].sock \notin kept => fds[mine[t][i].fd] # mine[t][i].sock

FdInv ==
  /\ FdTypeOK /\ Phases /\ Counted /\ Numbered
  /\ Listening /\ Connected /\ Intact /\ Owned /\ ClosedUp
----------------------------------------------------------------------------
(* Numbers.                                                                *)

LEMMA LeastNat ==
  ASSUME NEW T \in SUBSET Nat, T # {}
  PROVE  \E n \in T : \A m \in T : n <= m
<1>1. PICK n \in T : \A m \in T : ~ (<<m, n>> \in OpToRel(<, Nat))
  BY NatLessThanWellFounded, WFMin
<1>2. \A m \in T : ~ (m < n)
  BY <1>1 DEF OpToRel
<1> QED
  BY <1>2

\* Fewer sockets were made than there are numbers.
Room == serial < NumFds

\* The sockets that have a place are no more than the places.
LEMMA CountPlaces ==
  ASSUME FdTypeOK
  PROVE  LET S == {SockAt(p) : p \in Places}
             n == Cardinality(Threads) * (FlowsPerThread + 1)
         IN  /\ IsFiniteSet(S) /\ Cardinality(S) \in Nat /\ n \in Nat /\ Cardinality(S) <= n
             /\ \A p \in Threads \X (1..FlowsPerThread + 1) : p \notin Places => Cardinality(S) < n
<1> DEFINE S == {SockAt(p) : p \in Places}
           All == Threads \X (1..FlowsPerThread + 1)
           n == Cardinality(Threads) * (FlowsPerThread + 1)
<1>1. IsFiniteSet(All) /\ Cardinality(All) = n /\ n \in Nat
  <2>1. IsFiniteSet(1..FlowsPerThread + 1) /\ Cardinality(1..FlowsPerThread + 1) = FlowsPerThread + 1
    BY FdAssumption, FS_Interval
  <2>2. IsFiniteSet(All) /\ Cardinality(All) = n
    BY <2>1, FdAssumption, FS_Product
  <2> QED
    BY <2>2, FS_CardinalityType
<1>2. Places \subseteq All
  BY DEF Places
<1>3. IsFiniteSet(Places) /\ Cardinality(Places) <= n /\ Cardinality(Places) \in Nat
  BY <1>1, <1>2, FS_Subset, FS_CardinalityType
<1>4. IsFiniteSet(S) /\ Cardinality(S) <= Cardinality(Places)
  <2> DEFINE f == [p \in Places |-> SockAt(p)]
  <2>1. f \in Surjection(Places, S)
    BY DEF Surjection
  <2> HIDE DEF f, S
  <2> QED
    BY <1>3, <2>1, FS_Surjection
<1>5. Cardinality(S) \in Nat
  BY <1>4, FS_CardinalityType
<1>6. ASSUME NEW p \in All, p \notin Places PROVE Cardinality(Places) < n
  <2>1. Cardinality(Places) # n
    BY <1>1, <1>2, <1>6, FS_Subset
  <2> QED
    BY <1>1, <1>3, <2>1
<1> HIDE DEF S, n, All
<1>7. Cardinality(S) <= n
  BY <1>1, <1>3, <1>4, <1>5
<1>8. \A p \in All : p \notin Places => Cardinality(S) < n
  BY <1>1, <1>3, <1>4, <1>5, <1>6
<1> QED
  BY <1>1, <1>4, <1>5, <1>7, <1>8 DEF S, n, All

\* There is room when a connection may be accepted, or a place is empty.
LEMMA HasRoom ==
  ASSUME FdTypeOK, Counted,
         accepted < MaxConns \/ \E p \in Threads \X (1..FlowsPerThread + 1) : p \notin Places
  PROVE  Room
<1> DEFINE S == {SockAt(p) : p \in Places}
           A == (1..serial) \ S
           n == Cardinality(Threads) * (FlowsPerThread + 1)
<1>1. /\ IsFiniteSet(S) /\ Cardinality(S) \in Nat /\ n \in Nat /\ Cardinality(S) <= n
      /\ \A p \in Threads \X (1..FlowsPerThread + 1) : p \notin Places => Cardinality(S) < n
  BY CountPlaces
<1>2. IsFiniteSet(A) /\ Cardinality(A) <= accepted
  BY DEF Counted
<1>3. IsFiniteSet(1..serial) /\ Cardinality(1..serial) = serial
  BY FS_Interval DEF FdTypeOK
<1> HIDE DEF S, n
<1>4. serial <= Cardinality(A) + Cardinality(S)
  <2>1. /\ IsFiniteSet(A \union S)
        /\ Cardinality(A \union S) = Cardinality(A) + Cardinality(S) - Cardinality(A \intersect S)
    BY <1>1, <1>2, FS_Union
  <2>2. A \intersect S = {}
    OBVIOUS
  <2>3. Cardinality(A \intersect S) = 0
    BY <2>2, FS_EmptySet
  <2>4. Cardinality(1..serial) <= Cardinality(A \union S)
    BY <2>1, FS_Subset
  <2> HIDE DEF A
  <2>5. Cardinality(A) \in Nat
    BY <1>2, FS_CardinalityType
  <2> QED
    BY <1>1, <1>3, <2>1, <2>3, <2>4, <2>5
<1>5. Cardinality(A) \in Nat
  BY <1>2, FS_CardinalityType
<1>6. serial \in Nat /\ accepted \in Nat /\ accepted <= MaxConns /\ MaxConns \in Nat
      /\ NumFds \in Nat /\ NumFds >= n + MaxConns
  BY FdAssumption DEF FdTypeOK, n
<1> HIDE DEF A
<1>7. CASE accepted < MaxConns
  BY <1>1, <1>2, <1>4, <1>5, <1>6, <1>7 DEF Room
<1>8. CASE \E p \in Threads \X (1..FlowsPerThread + 1) : p \notin Places
  <2>1. Cardinality(S) < n
    BY <1>1, <1>8
  <2> QED
    BY <1>1, <1>2, <1>4, <1>5, <1>6, <2>1 DEF Room
<1> QED
  BY <1>7, <1>8

\* Then socket(2) and accept(2) find a free number, and the socket is a new one.
LEMMA NewEntryFree ==
  ASSUME FdTypeOK, Numbered, Room
  PROVE  /\ NewEntry \in Entry /\ NewEntry.fd \in Fd /\ fds[NewEntry.fd] = 0
         /\ NewEntry.sock = serial + 1
<1>1. serial \in Nat /\ NumFds \in Nat
  BY FdAssumption DEF FdTypeOK
<1>2. \E fd \in Fd : fds[fd] = 0
  <2> SUFFICES ASSUME \A fd \in Fd : fds[fd] # 0 PROVE FALSE
    OBVIOUS
  <2>1. fds \in Injection(Fd, 1..serial)
    BY <1>1 DEF FdTypeOK, Numbered, Injection, IsInjective
  <2>2. /\ IsFiniteSet(1..serial) /\ Cardinality(1..serial) = serial
        /\ Cardinality(Fd) = NumFds
    BY <1>1, FS_Interval DEF Fd
  <2>3. Cardinality(Fd) <= Cardinality(1..serial)
    BY <2>1, <2>2, FS_Injection
  <2> QED
    BY <1>1, <2>2, <2>3 DEF Room
<1>3. \E fd \in Fd : fds[fd] = 0 /\ \A less \in 1..fd-1 : fds[less] # 0
  <2> DEFINE T == {fd \in Fd : fds[fd] = 0}
  <2>1. T \in SUBSET Nat /\ T # {}
    BY <1>2 DEF Fd
  <2>2. PICK fd \in T : \A m \in T : fd <= m
    BY <2>1, LeastNat
  <2>3. ASSUME NEW less \in 1..fd-1 PROVE less \in Fd /\ less \notin T
    BY <1>1, <2>2 DEF Fd
  <2> QED
    BY <2>2, <2>3
<1> QED
  BY <1>1, <1>3 DEF NewEntry, Entry
LEMMA PlaceTypes ==
  ASSUME FdTypeOK, NEW t \in Threads
  PROVE  /\ mine[t] \in Seq(Entry) /\ Len(mine[t]) \in Nat
         /\ \A i \in 1..Len(mine[t]) :
              mine[t][i] \in Entry /\ mine[t][i].fd \in Fd /\ mine[t][i].sock \in Nat
<1>1. mine[t] \in Seq(Entry)
  BY DEF FdTypeOK
<1>2. \A e \in Entry : e.fd \in Fd /\ e.sock \in Nat
  BY DEF Entry
<1> QED
  BY <1>1, <1>2

----------------------------------------------------------------------------
(* Steps that open a socket.                                               *)

\* Worker t gets the new socket as a place, or as a flow, or both.
Gets(t) ==
  /\ Opened(NewEntry)
  /\ \A u \in Threads : \A k \in 1..Len(mine'[u]) :
       \/ mine'[u][k] = NewEntry /\ u = t /\ k = Len(mine'[t])
       \/ k \in 1..Len(mine[u]) /\ mine'[u][k] = mine[u][k]
  /\ \A u \in Threads : \A fl \in flows'[u] : fl \in flows[u] \/ (fl = NewEntry /\ u = t)
  /\ flows' = flows \/ mine' = mine \/ role = "client"
  /\ UNCHANGED role

LEMMA Opening ==
  ASSUME FdTypeOK, Numbered, Room, Opened(NewEntry)
  PROVE  /\ serial \in Nat /\ serial' = serial + 1 /\ NewEntry.sock = serial + 1
         /\ NewEntry \in Entry /\ NewEntry.fd \in Fd /\ fds[NewEntry.fd] = 0
         /\ fds' \in [Fd -> Nat] /\ fds'[NewEntry.fd] = serial + 1
         /\ \A fd \in Fd : fd # NewEntry.fd => fds'[fd] = fds[fd]
<1>1. /\ NewEntry \in Entry /\ NewEntry.fd \in Fd /\ fds[NewEntry.fd] = 0
      /\ NewEntry.sock = serial + 1
  BY NewEntryFree
<1> QED
  BY <1>1 DEF Opened, FdTypeOK

LEMMA OpeningNumbered ==
  ASSUME FdTypeOK, Numbered, Room, NEW t \in Threads, Gets(t)
  PROVE  Numbered'
<1> DEFINE e == NewEntry
<1>1. /\ serial \in Nat /\ serial' = serial + 1 /\ e.sock = serial + 1
      /\ e.fd \in Fd /\ fds[e.fd] = 0 /\ fds'[e.fd] = serial + 1
      /\ \A fd \in Fd : fd # e.fd => fds'[fd] = fds[fd]
  BY Opening DEF Gets
<1>2. \A fd \in Fd : fds[fd] \in Nat /\ fds[fd] <= serial
  BY DEF FdTypeOK, Numbered
<1> HIDE DEF e
<1>3. \A fd \in Fd : fds'[fd] <= serial'
  BY <1>1, <1>2
<1>4. \A fd, gd \in Fd : fds'[fd] = fds'[gd] /\ fds'[fd] # 0 => fd = gd
  BY <1>1, <1>2 DEF Numbered
<1>5. \A u \in Threads : \A k \in 1..Len(mine'[u]) :
        \/ mine'[u][k] = e /\ u = t /\ k = Len(mine'[t])
        \/ k \in 1..Len(mine[u]) /\ mine'[u][k] = mine[u][k] /\ mine'[u][k].sock \in 1..serial
  BY DEF Gets, Numbered, e
<1>6. \A u \in Threads : \A fl \in flows'[u] :
        (fl \in flows[u] /\ fl.sock \in 1..serial) \/ (fl = e /\ u = t)
  BY DEF Gets, Numbered, e
<1>7. ASSUME NEW u \in Threads, NEW i \in 1..Len(mine'[u])
      PROVE  /\ mine'[u][i].sock \in 1..serial'
             /\ \A v \in Threads : \A k \in 1..Len(mine'[v]) :
                  mine'[u][i].sock = mine'[v][k].sock => u = v /\ i = k
  <2>1. mine'[u][i].sock \in 1..serial'
    BY <1>1, <1>5
  <2>2. ASSUME NEW v \in Threads, NEW k \in 1..Len(mine'[v]), mine'[u][i].sock = mine'[v][k].sock
        PROVE  u = v /\ i = k
    <3>1. CASE mine'[u][i] = e /\ u = t /\ i = Len(mine'[t])
      BY <1>1, <1>5, <2>2, <3>1
    <3>2. CASE i \in 1..Len(mine[u]) /\ mine'[u][i] = mine[u][i] /\ mine'[u][i].sock \in 1..serial
      <4>1. k \in 1..Len(mine[v]) /\ mine'[v][k] = mine[v][k]
        BY <1>1, <1>5, <2>2, <3>2
      <4> QED
        BY <2>2, <3>2, <4>1 DEF Numbered
    <3> QED
      BY <1>5, <3>1, <3>2
  <2> QED
    BY <2>1, <2>2
<1>8. ASSUME NEW u \in Threads, NEW fl \in flows'[u]
      PROVE  /\ fl.sock \in 1..serial'
             /\ \A v \in Threads : \A gl \in flows'[v] : fl.sock = gl.sock => u = v /\ fl = gl
             /\ \A v \in Threads : \A k \in 1..Len(mine'[v]) :
                  fl.sock = mine'[v][k].sock => u = v /\ role' = "client"
  <2>1. fl.sock \in 1..serial'
    BY <1>1, <1>6
  <2>2. ASSUME NEW v \in Threads, NEW gl \in flows'[v], fl.sock = gl.sock PROVE u = v /\ fl = gl
    BY <1>1, <1>6, <2>2 DEF Numbered
  <2>3. ASSUME NEW v \in Threads, NEW k \in 1..Len(mine'[v]), fl.sock = mine'[v][k].sock
        PROVE  u = v /\ role' = "client"
    <3>1. CASE fl = e /\ u = t
      <4>1. mine'[v][k] = e /\ v = t
        BY <1>1, <1>5, <2>3, <3>1
      <4>2. e \notin flows[u] /\ ~ \E i \in 1..Len(mine[v]) : mine[v][i] = e
        BY <1>1 DEF Numbered
      <4> QED
        BY <1>5, <3>1, <4>1, <4>2 DEF Gets
    <3>2. CASE fl \in flows[u] /\ fl.sock \in 1..serial
      <4>1. k \in 1..Len(mine[v]) /\ mine'[v][k] = mine[v][k]
        BY <1>1, <1>5, <2>3, <3>2
      <4> QED
        BY <2>3, <3>2, <4>1 DEF Numbered, Gets
    <3> QED
      BY <1>6, <3>1, <3>2
  <2> QED
    BY <2>1, <2>2, <2>3
<1> QED
  BY <1>3, <1>4, <1>7, <1>8 DEF Numbered

\* A place that is filled.
LEMMA Placing ==
  ASSUME FdTypeOK, NEW t \in Threads, NEW e \in Entry, mine' = [mine EXCEPT ![t] = Append(@, e)]
  PROVE  /\ mine' \in [Threads -> Seq(Entry)]
         /\ Len(mine'[t]) = Len(mine[t]) + 1 /\ Len(mine[t]) \in Nat
         /\ mine'[t][Len(mine[t]) + 1] = e
         /\ \A i \in 1..Len(mine[t]) : mine'[t][i] = mine[t][i]
         /\ \A u \in Threads : u # t => mine'[u] = mine[u]
<1>1. mine \in [Threads -> Seq(Entry)] /\ mine[t] \in Seq(Entry)
  BY DEF FdTypeOK
<1>2. mine'[t] = Append(mine[t], e) /\ \A u \in Threads : u # t => mine'[u] = mine[u]
  BY <1>1
<1>3. Append(mine[t], e) \in Seq(Entry)
  BY <1>1
<1>4. mine' \in [Threads -> Seq(Entry)]
  BY <1>1, <1>3
<1> QED
  BY <1>1, <1>2, <1>4

\* Sockets that get a place need no counting.
LEMMA PlacingCounted ==
  ASSUME FdTypeOK, Counted, NEW t \in Threads, NEW e \in Entry,
         mine' = [mine EXCEPT ![t] = Append(@, e)], Len(mine[t]) <= FlowsPerThread,
         serial' = serial + 1, e.sock = serial + 1, accepted' = accepted
  PROVE  Counted'
<1> DEFINE A == (1..serial) \ {SockAt(p) : p \in Places}
           B == (1..serial') \ {SockAt(p)' : p \in Places'}
<1>1. serial \in Nat /\ accepted \in Nat /\ FlowsPerThread \in Nat
  BY FdAssumption DEF FdTypeOK
<1>2. ASSUME NEW p \in Places PROVE p \in Places' /\ SockAt(p)' = SockAt(p)
  BY <1>1, <1>2, Placing DEF Places, SockAt
<1>3. PICK q \in Places' : SockAt(q)' = serial + 1
  <2>1. PICK n \in 1..FlowsPerThread + 1 : n <= Len(mine'[t]) /\ mine'[t][n] = e
    <3>1. /\ Len(mine'[t]) = Len(mine[t]) + 1 /\ Len(mine[t]) \in Nat
          /\ mine'[t][Len(mine[t]) + 1] = e
      BY Placing
    <3>2. Len(mine[t]) + 1 \in 1..FlowsPerThread + 1
      BY <1>1, <3>1
    <3> QED
      BY <3>1, <3>2
  <2>2. <<t, n>> \in Places' /\ SockAt(<<t, n>>)' = serial + 1
    BY <2>1 DEF Places, SockAt
  <2> QED
    BY <2>2
<1>4. B \subseteq A
  <2> SUFFICES ASSUME NEW x \in B PROVE x \in A
    OBVIOUS
  <2>1. x # serial + 1
    BY <1>3
  <2>2. x \in 1..serial
    BY <1>1, <2>1
  <2>3. \A p \in Places : x # SockAt(p)
    BY <1>2
  <2> QED
    BY <2>2, <2>3
<1>5. IsFiniteSet(A) /\ Cardinality(A) <= accepted
  BY DEF Counted
<1> HIDE DEF A, B
<1>6. IsFiniteSet(B) /\ Cardinality(B) <= Cardinality(A)
  BY <1>4, <1>5, FS_Subset
<1>7. Cardinality(A) \in Nat /\ Cardinality(B) \in Nat
  BY <1>5, <1>6, FS_CardinalityType
<1>8. Cardinality(B) <= accepted'
  BY <1>1, <1>5, <1>6, <1>7
<1> QED
  BY <1>6, <1>8 DEF Counted, B

LEMMA ClientConnectStep ==
  ASSUME FdInv, NEW t \in Threads, ClientConnect(t)
  PROVE  FdInv'
<1> DEFINE e == NewEntry
<1>1. /\ role = "client" /\ pc[t] = "setup" /\ Len(mine[t]) < FlowsPerThread
      /\ Opened(e) /\ mine' = [mine EXCEPT ![t] = Append(@, e)]
      /\ flows' = [flows EXCEPT ![t] = @ \cup {e}]
      /\ UNCHANGED <<role, proto, pc, closing, accepted, kept>>
  BY DEF ClientConnect, Running
<1>2. Len(mine[t]) \in Nat /\ FlowsPerThread \in Nat
  BY FdAssumption DEF FdInv, FdTypeOK
<1>3. Room
  <2>1. PICK n \in 1..FlowsPerThread + 1 : n > Len(mine[t])
    BY <1>1, <1>2
  <2>2. <<t, n>> \in Threads \X (1..FlowsPerThread + 1) /\ <<t, n>> \notin Places
    BY <1>2, <2>1 DEF Places
  <2> QED
    BY <2>2, HasRoom DEF FdInv
<1>4. /\ serial \in Nat /\ serial' = serial + 1 /\ e.sock = serial + 1
      /\ e \in Entry /\ e.fd \in Fd /\ fds[e.fd] = 0
      /\ fds' \in [Fd -> Nat] /\ fds'[e.fd] = serial + 1
      /\ \A fd \in Fd : fd # e.fd => fds'[fd] = fds[fd]
  BY <1>1, <1>3, Opening DEF FdInv
<1> HIDE DEF e
<1>5. Counted'
  <2>1. FdTypeOK /\ Counted /\ Len(mine[t]) <= FlowsPerThread /\ accepted' = accepted
    BY <1>1, <1>2 DEF FdInv
  <2>2. e \in Entry /\ mine' = [mine EXCEPT ![t] = Append(@, e)]
    BY <1>1, <1>4
  <2>3. serial' = serial + 1 /\ e.sock = serial + 1
    BY <1>4
  <2> QED
    BY <2>1, <2>2, <2>3, PlacingCounted
<1>6. /\ mine' \in [Threads -> Seq(Entry)]
      /\ Len(mine'[t]) = Len(mine[t]) + 1
      /\ mine'[t][Len(mine[t]) + 1] = e
      /\ \A i \in 1..Len(mine[t]) : mine'[t][i] = mine[t][i]
      /\ \A u \in Threads : u # t => mine'[u] = mine[u]
  BY <1>1, <1>4, Placing DEF FdInv
<1>7. /\ flows' \in [Threads -> SUBSET Entry] /\ flows'[t] = flows[t] \union {e}
      /\ \A u \in Threads : u # t => flows'[u] = flows[u]
  BY <1>1, <1>4 DEF FdInv, FdTypeOK
<1>8. FdTypeOK'
  BY <1>1, <1>4, <1>6, <1>7 DEF FdInv, FdTypeOK
\* The places of the next state.
<1>9. ASSUME NEW u \in Threads, NEW k \in 1..Len(mine'[u])
      PROVE  \/ mine'[u][k] = e /\ u = t /\ k = Len(mine'[t])
             \/ k \in 1..Len(mine[u]) /\ mine'[u][k] = mine[u][k]
  BY <1>2, <1>6
<1>10. Numbered'
  <2>1. Gets(t)
    BY <1>1, <1>7, <1>9 DEF Gets, e
  <2> QED
    BY <1>3, <2>1, OpeningNumbered DEF FdInv
<1>11. Phases'
  <2>1. ASSUME NEW u \in Threads PROVE Len(mine'[u]) <= FlowsPerThread /\ Len(mine[u]) <= Len(mine'[u])
    BY <1>1, <1>2, <1>6 DEF FdInv, FdTypeOK, Phases
  <2>2. ASSUME NEW u \in Threads, pc[u] \in {"hook", "close", "delflow"}
        PROVE  closing[u] \in 1..Len(mine'[u])
    <3>1. closing[u] \in 1..Len(mine[u]) /\ Len(mine[u]) \in Nat /\ Len(mine'[u]) \in Nat
      BY <1>6, <2>2 DEF FdInv, FdTypeOK, Phases
    <3> QED
      BY <2>1, <3>1
  <2> QED
    BY <1>1, <2>1, <2>2 DEF FdInv, Phases
<1>12. Listening'
  BY <1>1 DEF Listening
<1>13. Connected'
  <2> SUFFICES ASSUME NEW u \in Threads, NEW i \in 1..Len(mine'[u])
               PROVE  fds'[mine'[u][i].fd] = mine'[u][i].sock
    BY DEF Connected
  <2>1. CASE mine'[u][i] = e
    BY <1>4, <2>1
  <2>2. CASE i \in 1..Len(mine[u]) /\ mine'[u][i] = mine[u][i]
    <3>1. mine[u][i].fd \in Fd /\ fds[mine[u][i].fd] = mine[u][i].sock
      BY <1>1, <2>2, PlaceTypes DEF FdInv, Connected, Early
    <3>2. mine[u][i].sock # 0
      BY <2>2 DEF FdInv, Numbered
    <3> QED
      BY <1>4, <2>2, <3>1, <3>2
  <2> QED
    BY <1>9, <2>1, <2>2
<1>14. Intact'
  <2> SUFFICES ASSUME NEW u \in Threads, pc'[u] \in Early \union {"loop"}, NEW fl \in flows'[u]
               PROVE  fds'[fl.fd] = fl.sock
    BY DEF Intact
  <2>1. CASE fl = e
    BY <1>4, <2>1
  <2>2. CASE fl \in flows[u]
    <3>1. fl.fd \in Fd /\ fds[fl.fd] = fl.sock /\ fl.sock # 0
      BY <1>1, <2>2 DEF FdInv, Intact, FdTypeOK, Entry, Numbered
    <3> QED
      BY <1>4, <3>1
  <2> QED
    BY <1>7, <2>1, <2>2
<1>15. Owned'
  <2> SUFFICES ASSUME \A u \in Threads : pc[u] \in Early \union {"loop"},
                      NEW fd \in Fd, fds'[fd] # 0
               PROVE  \E u \in Threads : \E x \in Entries(u)' : x.fd = fd /\ x.sock = fds'[fd]
    BY <1>1 DEF Owned
  <2>1. CASE fd = e.fd
    BY <1>4, <1>7, <2>1 DEF Entries
  <2>2. CASE fd # e.fd
    <3>1. PICK u \in Threads : \E x \in Entries(u) : x.fd = fd /\ x.sock = fds[fd]
      BY <1>4, <2>2 DEF FdInv, Owned
    <3>2. ASSUME NEW x \in Entries(u) PROVE x \in Entries(u)'
      <4>1. CASE x \in flows[u]
        BY <1>7, <4>1 DEF Entries
      <4>2. ASSUME NEW i \in 1..Len(mine[u]), x = mine[u][i] PROVE x \in Entries(u)'
        <5>1. i \in 1..Len(mine'[u]) /\ mine'[u][i] = x
          BY <1>2, <1>6, <4>2
        <5> QED
          BY <5>1 DEF Entries
      <4> QED
        BY <4>1, <4>2 DEF Entries
    <3> QED
      BY <1>4, <2>2, <3>1, <3>2
  <2> QED
    BY <2>1, <2>2
<1>16. ClosedUp'
  <2> SUFFICES ASSUME role = "server" \/ proto = "tcp", NEW u \in Threads,
                      NEW i \in 1..Len(mine'[u]), Past(u, i)', mine'[u][i].sock \notin kept
               PROVE  fds'[mine'[u][i].fd] # mine'[u][i].sock
    BY <1>1 DEF ClosedUp
  <2>1. pc[u] \in Early \union {"fatal"}
    BY <1>1 DEF FdInv, Phases, Early
  <2>2. i < closing[u]
    BY <1>1, <2>1 DEF Past, Early
  <2>3. CASE mine'[u][i] = e /\ u = t /\ i = Len(mine'[t])
    <3>1. closing[t] = 1 /\ i \in Nat /\ i >= 1
      BY <1>1, <1>2, <1>6, <2>3 DEF FdInv, Phases, Early
    <3> QED
      BY <2>2, <2>3, <3>1
  <2>4. CASE i \in 1..Len(mine[u]) /\ mine'[u][i] = mine[u][i]
    <3>1. fds[mine[u][i].fd] # mine[u][i].sock
      BY <2>2, <2>4 DEF FdInv, ClosedUp, Past
    <3>2. mine[u][i].sock \in 1..serial /\ mine[u][i].fd \in Fd
      BY <2>4, PlaceTypes DEF FdInv, Numbered
    <3> QED
      BY <1>4, <2>4, <3>1, <3>2
  <2> QED
    BY <1>9, <2>3, <2>4
<1> QED
  BY <1>5, <1>8, <1>10, <1>11, <1>12, <1>13, <1>14, <1>15, <1>16 DEF FdInv

LEMMA ServerReadyStep ==
  ASSUME FdInv, NEW t \in Threads, ServerReady(t)
  PROVE  FdInv'
<1> DEFINE e == NewEntry
<1>1. /\ role = "server" /\ pc[t] = "setup" /\ \A u \in Threads : pc[u] # "fatal"
      /\ Opened(e) /\ mine' = [mine EXCEPT ![t] = <<e>>]
      /\ pc' = [pc EXCEPT ![t] = "ready"]
      /\ UNCHANGED <<role, proto, flows, closing, accepted, kept>>
  BY DEF ServerReady, Running, Goto
<1>2. mine[t] = <<>> /\ Len(mine[t]) = 0 /\ FlowsPerThread \in Nat
  BY <1>1, FdAssumption DEF FdInv, Phases
<1>3. Room
  <2>1. <<t, 1>> \in Threads \X (1..FlowsPerThread + 1) /\ <<t, 1>> \notin Places
    BY <1>2 DEF Places
  <2> QED
    BY <2>1, HasRoom DEF FdInv
<1>4. /\ serial \in Nat /\ serial' = serial + 1 /\ e.sock = serial + 1
      /\ e \in Entry /\ e.fd \in Fd /\ fds[e.fd] = 0
      /\ fds' \in [Fd -> Nat] /\ fds'[e.fd] = serial + 1
      /\ \A fd \in Fd : fd # e.fd => fds'[fd] = fds[fd]
  BY <1>1, <1>3, Opening DEF FdInv
<1> HIDE DEF e
<1>5. Counted'
  <2>1. FdTypeOK /\ Counted /\ Len(mine[t]) <= FlowsPerThread /\ accepted' = accepted
    BY <1>1, <1>2 DEF FdInv
  <2>2. e \in Entry /\ mine' = [mine EXCEPT ![t] = Append(@, e)]
    BY <1>1, <1>2, <1>4
  <2>3. serial' = serial + 1 /\ e.sock = serial + 1
    BY <1>4
  <2> QED
    BY <2>1, <2>2, <2>3, PlacingCounted
<1>6. /\ mine'[t] = <<e>> /\ mine'[t] # <<>> /\ Len(mine'[t]) = 1 /\ mine'[t][1] = e
      /\ \A u \in Threads : u # t => mine'[u] = mine[u]
  BY <1>1 DEF FdInv, FdTypeOK
<1>7. /\ pc'[t] = "ready" /\ \A u \in Threads : u # t => pc'[u] = pc[u]
      /\ \A u \in Threads : pc[u] \in Early
  BY <1>1 DEF FdInv, FdTypeOK, Phases, Early
<1>8. FdTypeOK'
  <2>1. mine' \in [Threads -> Seq(Entry)]
    <3>1. <<e>> \in Seq(Entry)
      BY <1>4
    <3> QED
      BY <1>1, <3>1 DEF FdInv, FdTypeOK
  <2> QED
    BY <1>1, <1>4, <2>1 DEF FdInv, FdTypeOK
<1>9. ASSUME NEW u \in Threads, NEW k \in 1..Len(mine'[u])
      PROVE  \/ mine'[u][k] = e /\ u = t /\ k = Len(mine'[t])
             \/ k \in 1..Len(mine[u]) /\ mine'[u][k] = mine[u][k]
  BY <1>6
<1>10. Numbered'
  <2>1. Gets(t)
    BY <1>1, <1>9 DEF Gets, e
  <2> QED
    BY <1>3, <2>1, OpeningNumbered DEF FdInv
<1>11. Phases'
  BY <1>1, <1>2, <1>6, <1>7 DEF FdInv, Phases, Early
\* The other workers listen on numbers that are not free.
<1>12. ASSUME NEW u \in Threads, u # t, mine[u] # <<>>
       PROVE  /\ mine[u][1].fd \in Fd /\ mine[u][1].fd # e.fd
              /\ fds'[mine[u][1].fd] = mine[u][1].sock
  <2>1. pc[u] = "ready" /\ Len(mine[u]) = 1
    <3>1. pc[u] = "ready"
      BY <1>1, <1>7, <1>12 DEF FdInv, Phases, Early
    <3>2. Len(mine[u]) <= 1 /\ Len(mine[u]) # 0 /\ Len(mine[u]) \in Nat
      BY <1>1, <1>12, PlaceTypes DEF FdInv, Phases
    <3>3. \A n \in Nat : n <= 1 /\ n # 0 => n = 1
      OBVIOUS
    <3>4. Len(mine[u]) = 1
      BY <3>2, <3>3
    <3> QED
      BY <3>1, <3>4
  <2>2. /\ mine[u][1].fd \in Fd /\ fds[mine[u][1].fd] = mine[u][1].sock
        /\ mine[u][1].sock \in 1..serial
    BY <1>1, <2>1, PlaceTypes DEF FdInv, Listening, Numbered
  <2> QED
    BY <1>4, <2>2
<1>13. Listening'
  <2> SUFFICES ASSUME NEW u \in Threads
               PROVE  /\ pc'[u] \in {"ready", "loop", "hook", "close"} =>
                           fds'[mine'[u][1].fd] = mine'[u][1].sock
                      /\ \A v \in Threads \ {u} :
                           mine'[u] # <<>> /\ mine'[v] # <<>> => mine'[u][1].fd # mine'[v][1].fd
                      /\ proto = "udp" => flows[u] = {}
    BY <1>1 DEF Listening
  <2>1. proto = "udp" => flows[u] = {}
    BY <1>1 DEF FdInv, Listening
  <2>2. ASSUME NEW v \in Threads \ {u}, mine'[u] # <<>>, mine'[v] # <<>>
        PROVE  mine'[u][1].fd # mine'[v][1].fd
    <3>1. CASE u = t \/ v = t
      BY <1>6, <1>12, <2>2, <3>1
    <3>2. CASE u # t /\ v # t
      BY <1>1, <1>6, <2>2, <3>2 DEF FdInv, Listening
    <3> QED
      BY <3>1, <3>2
  <2>3. ASSUME pc'[u] \in {"ready", "loop", "hook", "close"}
        PROVE  fds'[mine'[u][1].fd] = mine'[u][1].sock
    <3>1. CASE u = t
      BY <1>4, <1>6, <3>1
    <3>2. CASE u # t
      <4>1. mine[u] # <<>>
        BY <1>1, <1>7, <2>3, <3>2 DEF FdInv, Phases
      <4> QED
        BY <1>6, <1>12, <3>2, <4>1
    <3> QED
      BY <3>1, <3>2
  <2> QED
    BY <2>1, <2>2, <2>3
<1>14. Connected'
  BY <1>1 DEF Connected
<1>15. Intact'
  <2> SUFFICES ASSUME NEW u \in Threads, NEW fl \in flows[u] PROVE fds'[fl.fd] = fl.sock
    BY <1>1 DEF Intact
  <2>1. fl.fd \in Fd /\ fl.sock # 0
    BY DEF FdInv, FdTypeOK, Entry, Numbered
  <2>2. \A v \in Threads : pc[v] # "exit"
    BY <1>7 DEF Early
  <2>3. fds[fl.fd] = fl.sock
    BY <1>7, <2>2 DEF FdInv, Intact
  <2> QED
    BY <1>4, <2>1, <2>3
<1>16. Owned'
  <2> SUFFICES ASSUME NEW fd \in Fd, fds'[fd] # 0
               PROVE  \E u \in Threads : \E x \in Entries(u)' : x.fd = fd /\ x.sock = fds'[fd]
    BY DEF Owned
  <2>1. CASE fd = e.fd
    <3>1. e \in Entries(t)'
      BY <1>6 DEF Entries
    <3> QED
      BY <1>4, <2>1, <3>1
  <2>2. CASE fd # e.fd
    <3>1. PICK u \in Threads : \E x \in Entries(u) : x.fd = fd /\ x.sock = fds[fd]
      BY <1>4, <1>7, <2>2 DEF FdInv, Owned
    <3>2. Entries(u) \subseteq Entries(u)'
      BY <1>1, <1>2, <1>6 DEF Entries
    <3> QED
      BY <1>4, <2>2, <3>1, <3>2
  <2> QED
    BY <2>1, <2>2
<1>17. ClosedUp'
  <2> SUFFICES ASSUME NEW u \in Threads, NEW i \in 1..Len(mine'[u]), Past(u, i)'
               PROVE  FALSE
    BY DEF ClosedUp
  <2>1. pc'[u] # "exit" /\ closing'[u] = 1
    BY <1>1, <1>7 DEF FdInv, Phases, Early
  <2> QED
    BY <2>1 DEF Past
<1> QED
  BY <1>5, <1>8, <1>10, <1>11, <1>13, <1>14, <1>15, <1>16, <1>17 DEF FdInv

LEMMA AcceptStep ==
  ASSUME FdInv, NEW t \in Threads, Accept(t)
  PROVE  FdInv'
<1> DEFINE e == NewEntry
<1>1. /\ role = "server" /\ proto = "tcp" /\ pc[t] = "loop" /\ accepted < MaxConns
      /\ accepted' = accepted + 1
      /\ Opened(e) /\ flows' = [flows EXCEPT ![t] = @ \cup {e}]
      /\ UNCHANGED <<role, proto, pc, mine, closing, kept>>
  BY DEF Accept, Running
<1>2. Room
  BY <1>1, HasRoom DEF FdInv
<1>3. /\ serial \in Nat /\ serial' = serial + 1 /\ e.sock = serial + 1
      /\ e \in Entry /\ e.fd \in Fd /\ fds[e.fd] = 0
      /\ fds' \in [Fd -> Nat] /\ fds'[e.fd] = serial + 1
      /\ \A fd \in Fd : fd # e.fd => fds'[fd] = fds[fd]
  BY <1>1, <1>2, Opening DEF FdInv
<1> HIDE DEF e
<1>4. accepted \in Nat /\ accepted' \in 0..MaxConns
  BY <1>1, FdAssumption DEF FdInv, FdTypeOK
<1>5. /\ flows' \in [Threads -> SUBSET Entry] /\ flows'[t] = flows[t] \union {e}
      /\ \A u \in Threads : u # t => flows'[u] = flows[u]
  BY <1>1, <1>3 DEF FdInv, FdTypeOK
<1>6. FdTypeOK'
  BY <1>1, <1>3, <1>4, <1>5 DEF FdInv, FdTypeOK
<1>7. Counted'
  <2> DEFINE S == {SockAt(p) : p \in Places}
             A == (1..serial) \ S
  <2>1. Places' = Places /\ {SockAt(p)' : p \in Places'} = S
    BY <1>1 DEF Places, SockAt
  <2>2. IsFiniteSet(A) /\ Cardinality(A) <= accepted
    BY DEF FdInv, Counted
  <2>3. (1..serial') \ S \subseteq A \union {serial + 1}
    BY <1>3
  <2> HIDE DEF S, A
  <2>4. /\ IsFiniteSet(A \union {serial + 1})
        /\ Cardinality(A \union {serial + 1}) \in {Cardinality(A), Cardinality(A) + 1}
    BY <2>2, FS_AddElement
  <2>5. /\ IsFiniteSet((1..serial') \ S)
        /\ Cardinality((1..serial') \ S) <= Cardinality(A \union {serial + 1})
    BY <2>3, <2>4, FS_Subset
  <2>6. Cardinality(A) \in Nat /\ Cardinality((1..serial') \ S) \in Nat
    BY <2>2, <2>5, FS_CardinalityType
  <2>7. Cardinality((1..serial') \ S) <= accepted'
    BY <1>1, <1>4, <2>2, <2>4, <2>5, <2>6
  <2> QED
    BY <2>1, <2>5, <2>7 DEF Counted
<1>8. Numbered'
  <2>1. Gets(t)
    BY <1>1, <1>5 DEF Gets, e
  <2> QED
    BY <1>2, <2>1, OpeningNumbered DEF FdInv
<1>9. Phases'
  BY <1>1 DEF FdInv, Phases
<1>10. Listening'
  <2>1. ASSUME NEW u \in Threads, pc[u] \in {"ready", "loop", "hook", "close"}
        PROVE  fds'[mine[u][1].fd] = mine[u][1].sock
    <3>1. mine[u] # <<>>
      BY <1>1, <2>1 DEF FdInv, Phases
    <3>2. 1 \in 1..Len(mine[u])
      BY <3>1, PlaceTypes DEF FdInv
    <3>3. /\ mine[u][1].fd \in Fd /\ fds[mine[u][1].fd] = mine[u][1].sock
          /\ mine[u][1].sock \in 1..serial
      BY <1>1, <2>1, <3>2, PlaceTypes DEF FdInv, Listening, Numbered
    <3> QED
      BY <1>3, <3>3
  <2> QED
    BY <1>1, <2>1 DEF FdInv, Listening
<1>11. Connected'
  BY <1>1 DEF Connected
<1>12. Intact'
  <2> SUFFICES ASSUME NEW u \in Threads, pc[u] \in Early \union {"loop"}, NEW fl \in flows'[u]
               PROVE  \/ fds'[fl.fd] = fl.sock
                      \/ \E v \in Threads : pc[v] = "exit" /\ mine[v] # <<>> /\ mine[v][1].fd = fl.fd
    BY <1>1 DEF Intact
  <2>1. CASE fl = e
    BY <1>3, <2>1
  <2>2. CASE fl \in flows[u]
    <3>1. fl.fd \in Fd /\ fl.sock # 0
      BY <2>2 DEF FdInv, FdTypeOK, Entry, Numbered
    <3>2. \/ fds[fl.fd] = fl.sock
          \/ \E v \in Threads : pc[v] = "exit" /\ mine[v] # <<>> /\ mine[v][1].fd = fl.fd
      BY <2>2 DEF FdInv, Intact
    <3> QED
      BY <1>3, <3>1, <3>2
  <2> QED
    BY <1>5, <2>1, <2>2
<1>13. Owned'
  <2> SUFFICES ASSUME \A u \in Threads : pc[u] \in Early \union {"loop"},
                      NEW fd \in Fd, fds'[fd] # 0
               PROVE  \E u \in Threads : \E x \in Entries(u)' : x.fd = fd /\ x.sock = fds'[fd]
    BY <1>1 DEF Owned
  <2>1. CASE fd = e.fd
    BY <1>3, <1>5, <2>1 DEF Entries
  <2>2. CASE fd # e.fd
    <3>1. PICK u \in Threads : \E x \in Entries(u) : x.fd = fd /\ x.sock = fds[fd]
      BY <1>3, <2>2 DEF FdInv, Owned
    <3>2. Entries(u) \subseteq Entries(u)'
      BY <1>1, <1>5 DEF Entries
    <3> QED
      BY <1>3, <2>2, <3>1, <3>2
  <2> QED
    BY <2>1, <2>2
<1>14. ClosedUp'
  <2> SUFFICES ASSUME NEW u \in Threads, NEW i \in 1..Len(mine[u]), Past(u, i),
                      mine[u][i].sock \notin kept
               PROVE  fds'[mine[u][i].fd] # mine[u][i].sock
    BY <1>1 DEF ClosedUp, Past
  <2>1. fds[mine[u][i].fd] # mine[u][i].sock
    BY <1>1 DEF FdInv, ClosedUp
  <2>2. mine[u][i].sock \in 1..serial /\ mine[u][i].fd \in Fd
    BY PlaceTypes DEF FdInv, Numbered
  <2> QED
    BY <1>3, <2>1, <2>2
<1> QED
  BY <1>6, <1>7, <1>8, <1>9, <1>10, <1>11, <1>12, <1>13, <1>14 DEF FdInv
----------------------------------------------------------------------------
(* Steps that leave the descriptor table alone.                            *)

LEMMA StillCounted ==
  ASSUME Counted, UNCHANGED <<serial, mine, accepted>>
  PROVE  Counted'
<1>1. Places' = Places /\ {SockAt(p)' : p \in Places'} = {SockAt(p) : p \in Places}
  BY DEF Places, SockAt
<1> QED
  BY <1>1 DEF Counted

LEMMA QuietStep ==
  ASSUME FdInv, UNCHANGED <<role, proto, fds, serial, mine, flows, accepted>>,
         \A u \in Threads :
           /\ pc'[u] \in Early => pc[u] \in Early
           /\ pc'[u] \in Early \union {"loop"} => pc[u] \in Early \union {"loop"}
           /\ role = "server" /\ pc'[u] \in {"ready", "loop", "hook", "close"} =>
                pc[u] \in {"ready", "loop", "hook", "close"}
           /\ pc[u] = "exit" => pc'[u] = "exit"
  PROVE  Counted' /\ Numbered' /\ Listening' /\ Connected' /\ Intact' /\ Owned'
<1>1. Counted'
  BY StillCounted DEF FdInv
<1>2. Numbered'
  BY DEF FdInv, Numbered
<1>3. Listening'
  BY DEF FdInv, Listening
<1>4. Connected'
  BY DEF FdInv, Connected
<1>5. Intact'
  BY DEF FdInv, Intact
<1>6. Owned'
  <2>1. \A u \in Threads : Entries(u)' = Entries(u)
    BY DEF Entries
  <2> QED
    BY <2>1 DEF FdInv, Owned
<1> QED
  BY <1>1, <1>2, <1>3, <1>4, <1>5, <1>6

\* The socket of a worker that is closing its sockets.
LEMMA CurrentPlace ==
  ASSUME FdInv, NEW t \in Threads, pc[t] \in {"hook", "close", "delflow"}
  PROVE  /\ closing[t] \in 1..Len(mine[t]) /\ Len(mine[t]) \in Nat /\ mine[t] # <<>>
         /\ Current(t) = mine[t][closing[t]]
         /\ Current(t) \in Entry /\ Current(t).fd \in Fd
         /\ Current(t).sock \in 1..serial /\ serial \in Nat
         /\ role = "server" => closing[t] = 1
         /\ \A u \in Threads : pc[u] \notin Early
<1>1. closing[t] \in 1..Len(mine[t]) /\ Len(mine[t]) \in Nat /\ mine[t] \in Seq(Entry)
  BY PlaceTypes DEF FdInv, Phases
<1>2. mine[t] # <<>>
  BY <1>1
<1>3. Current(t) \in Entry /\ Current(t).fd \in Fd /\ Current(t).sock \in 1..serial /\ serial \in Nat
  BY <1>1, PlaceTypes DEF FdInv, Numbered, Current, FdTypeOK
<1>4. (role = "server" => closing[t] = 1) /\ \A u \in Threads : pc[u] \notin Early
  BY DEF FdInv, Phases, Early
<1> QED
  BY <1>1, <1>2, <1>3, <1>4 DEF Current

\* After(t): where the worker goes, and which sockets are past.
LEMMA AfterSocket ==
  ASSUME FdInv, NEW t \in Threads, pc[t] \in {"hook", "close"}, After(t), UNCHANGED <<role, mine>>
  PROVE  /\ pc' \in [Threads -> {"setup", "ready", "loop", "hook", "close", "delflow", "exit", "fatal"}]
         /\ closing' \in [Threads -> Nat \ {0}]
         /\ Phases'
         /\ \A u \in Threads : u # t => pc'[u] = pc[u]
         /\ pc'[t] \in {"hook", "delflow", "exit"} /\ (role = "server" => pc'[t] = "delflow")
         /\ \A u \in Threads : \A i \in 1..Len(mine[u]) :
              Past(u, i)' => Past(u, i) \/ (role = "client" /\ u = t /\ i = closing[t])
<1>1. closing[t] \in 1..Len(mine[t]) /\ Len(mine[t]) \in Nat /\ \A u \in Threads : pc[u] \notin Early
  BY CurrentPlace
<1>2. /\ role \in {"client", "server"} /\ closing \in [Threads -> Nat \ {0}]
      /\ pc \in [Threads -> {"setup", "ready", "loop", "hook", "close", "delflow", "exit", "fatal"}]
  BY DEF FdInv, FdTypeOK
<1>3. CASE role = "server"
  <2>1. /\ pc' = [pc EXCEPT ![t] = "delflow"] /\ closing' = closing
    BY <1>3 DEF After, Goto
  <2>2. Phases'
    BY <1>1, <1>2, <1>3, <2>1 DEF FdInv, Phases, Early
  <2> QED
    BY <1>2, <1>3, <2>1, <2>2 DEF Past
<1>4. CASE role = "client" /\ closing[t] = Len(mine[t])
  <2>1. /\ pc' = [pc EXCEPT ![t] = "exit"] /\ closing' = closing
    BY <1>4 DEF After, Goto
  <2>2. Phases'
    BY <1>1, <1>2, <1>4, <2>1 DEF FdInv, Phases, Early
  <2>3. \A i \in 1..Len(mine[t]) : i < closing[t] \/ i = closing[t]
    BY <1>1, <1>4
  <2> QED
    BY <1>2, <1>4, <2>1, <2>2, <2>3 DEF Past
<1>5. CASE role = "client" /\ closing[t] # Len(mine[t])
  <2>1. /\ pc' = [pc EXCEPT ![t] = "hook"] /\ closing' = [closing EXCEPT ![t] = @ + 1]
    BY <1>5 DEF After, Goto
  <2>2. /\ closing'[t] = closing[t] + 1 /\ closing'[t] \in 1..Len(mine[t])
        /\ \A u \in Threads : u # t => closing'[u] = closing[u]
        /\ closing' \in [Threads -> Nat \ {0}]
    BY <1>1, <1>2, <1>5, <2>1
  <2>3. Phases'
    BY <1>1, <1>2, <1>5, <2>1, <2>2 DEF FdInv, Phases, Early
  <2>4. \A i \in 1..Len(mine[t]) : i < closing[t] + 1 => i < closing[t] \/ i = closing[t]
    BY <1>1
  <2> QED
    BY <1>2, <1>5, <2>1, <2>2, <2>3, <2>4 DEF Past
<1> QED
  BY <1>2, <1>3, <1>4, <1>5

\* ClientReady, SetupFails, StopSeen, HookDone and BarrierOpens.
LEMMA WaitingSteps ==
  ASSUME FdInv, NEW t \in Threads,
         ClientReady(t) \/ SetupFails(t) \/ StopSeen(t) \/ HookDone(t)
  PROVE  FdInv'
<1>1. /\ UNCHANGED <<role, proto, fds, serial, mine, flows, closing, accepted, kept>>
      /\ \E to \in {"ready", "fatal", "exit", "hook", "close"} :
           /\ pc' = [pc EXCEPT ![t] = to]
           /\ to = "ready" => pc[t] = "setup" /\ role = "client"
           /\ to = "exit" => pc[t] = "loop" /\ mine[t] = <<>>
           /\ to = "hook" => pc[t] = "loop" /\ mine[t] # <<>>
           /\ to = "close" => pc[t] = "hook"
      /\ pc[t] \in Early \union {"loop", "hook"}
  BY DEF ClientReady, SetupFails, StopSeen, HookDone, Goto, Running, Early
<1>2. PICK to \in {"ready", "fatal", "exit", "hook", "close"} :
           /\ pc' = [pc EXCEPT ![t] = to]
           /\ to = "ready" => pc[t] = "setup" /\ role = "client"
           /\ to = "exit" => pc[t] = "loop" /\ mine[t] = <<>>
           /\ to = "hook" => pc[t] = "loop" /\ mine[t] # <<>>
           /\ to = "close" => pc[t] = "hook"
  BY <1>1
<1>3. pc'[t] = to /\ \A u \in Threads : u # t => pc'[u] = pc[u]
  BY <1>2 DEF FdInv, FdTypeOK
<1>4. FdTypeOK'
  BY <1>1, <1>2 DEF FdInv, FdTypeOK
<1>5. Counted' /\ Numbered' /\ Listening' /\ Connected' /\ Intact' /\ Owned'
  <2>1. \A u \in Threads :
          /\ pc'[u] \in Early => pc[u] \in Early
          /\ pc'[u] \in Early \union {"loop"} => pc[u] \in Early \union {"loop"}
          /\ role = "server" /\ pc'[u] \in {"ready", "loop", "hook", "close"} =>
               pc[u] \in {"ready", "loop", "hook", "close"}
          /\ pc[u] = "exit" => pc'[u] = "exit"
    BY <1>1, <1>2, <1>3 DEF Early
  <2> QED
    BY <1>1, <2>1, QuietStep
<1>6. Phases'
  <2>1. ASSUME NEW u \in Threads PROVE
          /\ closing[u] # 1 => role = "client" /\ pc'[u] \notin Early \union {"loop"}
          /\ pc'[u] \in {"hook", "close", "delflow"} => closing[u] \in 1..Len(mine[u])
          /\ pc'[u] = "delflow" => role = "server"
          /\ role = "server" /\ mine[u] = <<>> => pc'[u] \in {"setup", "fatal"}
          /\ role = "server" /\ pc'[u] = "setup" => mine[u] = <<>>
    <3>1. CASE u # t
      BY <1>3, <3>1 DEF FdInv, Phases, FdTypeOK
    <3>2. CASE u = t
      <4>1. mine[t] # <<>> => 1 \in 1..Len(mine[t])
        BY PlaceTypes DEF FdInv
      <4> QED
        BY <1>1, <1>2, <1>3, <3>2, <4>1 DEF FdInv, Phases, FdTypeOK, Early
    <3> QED
      BY <3>1, <3>2
  <2>2. \A u, v \in Threads : pc'[u] \in Early => pc'[v] \in Early \union {"fatal"}
    BY <1>1, <1>2, <1>3 DEF FdInv, Phases, Early
  <2> QED
    BY <1>1, <2>1, <2>2 DEF FdInv, Phases, FdTypeOK
<1>7. ClosedUp'
  <2>1. ASSUME NEW u \in Threads, NEW i \in 1..Len(mine[u]), Past(u, i)' PROVE Past(u, i)
    <3>1. mine[u] # <<>>
      BY PlaceTypes DEF FdInv
    <3> QED
      BY <1>1, <1>2, <1>3, <2>1, <3>1 DEF Past
  <2> QED
    BY <1>1, <2>1 DEF FdInv, ClosedUp
<1> QED
  BY <1>4, <1>5, <1>6, <1>7 DEF FdInv

LEMMA BarrierStep ==
  ASSUME FdInv, BarrierOpens
  PROVE  FdInv'
<1>1. /\ \A u \in Threads : pc[u] = "ready" /\ pc'[u] = "loop"
      /\ pc' = [u \in Threads |-> "loop"]
      /\ UNCHANGED <<role, proto, fds, serial, mine, flows, closing, accepted, kept>>
  BY DEF BarrierOpens, BarrierReached
<1>2. FdTypeOK'
  BY <1>1 DEF FdInv, FdTypeOK
<1>3. Counted' /\ Numbered' /\ Listening' /\ Connected' /\ Intact' /\ Owned'
  <2>1. \A u \in Threads :
          /\ pc'[u] \in Early => pc[u] \in Early
          /\ pc'[u] \in Early \union {"loop"} => pc[u] \in Early \union {"loop"}
          /\ role = "server" /\ pc'[u] \in {"ready", "loop", "hook", "close"} =>
               pc[u] \in {"ready", "loop", "hook", "close"}
          /\ pc[u] = "exit" => pc'[u] = "exit"
    BY <1>1 DEF Early
  <2> QED
    BY <1>1, <2>1, QuietStep
<1>4. Phases'
  BY <1>1 DEF FdInv, Phases, FdTypeOK, Early
<1>5. ClosedUp'
  BY <1>1 DEF FdInv, ClosedUp, Past
<1> QED
  BY <1>2, <1>3, <1>4, <1>5 DEF FdInv

LEMMA HookFailsStep ==
  ASSUME FdInv, NEW t \in Threads, HookFails(t)
  PROVE  FdInv'
<1>1. /\ pc[t] = "hook" /\ kept' = kept \union {Current(t).sock}
      /\ UNCHANGED <<role, proto, fds, serial, mine, flows, accepted>>
      /\ IF role = "server" THEN pc' = [pc EXCEPT ![t] = "fatal"] /\ closing' = closing ELSE After(t)
  BY DEF HookFails, Running, Goto
<1>2. /\ Current(t) = mine[t][closing[t]] /\ Current(t).sock \in Nat
      /\ \A u \in Threads : pc[u] \notin Early
  BY <1>1, CurrentPlace
<1>3. /\ pc' \in [Threads -> {"setup", "ready", "loop", "hook", "close", "delflow", "exit", "fatal"}]
      /\ closing' \in [Threads -> Nat \ {0}] /\ Phases'
      /\ \A u \in Threads : u # t => pc'[u] = pc[u]
      /\ pc'[t] \in {"hook", "exit", "fatal"}
      /\ \A u \in Threads : \A i \in 1..Len(mine[u]) :
           Past(u, i)' => Past(u, i) \/ (u = t /\ i = closing[t])
  <2>1. CASE role = "server"
    <3>1. pc' = [pc EXCEPT ![t] = "fatal"] /\ closing' = closing
      BY <1>1, <2>1
    <3>2. Phases'
      BY <1>1, <1>2, <2>1, <3>1 DEF FdInv, Phases, FdTypeOK, Early
    <3> QED
      BY <2>1, <3>1, <3>2 DEF FdInv, FdTypeOK, Past
  <2>2. CASE role # "server"
    <3>1. After(t) /\ UNCHANGED <<role, mine>>
      BY <1>1, <2>2
    <3>2. pc'[t] \in {"hook", "exit"}
      BY <1>1, <2>2, <3>1 DEF After, Goto, FdInv, FdTypeOK
    <3> QED
      BY <1>1, <3>1, <3>2, AfterSocket
  <2> QED
    BY <2>1, <2>2
<1>4. FdTypeOK'
  BY <1>1, <1>2, <1>3 DEF FdInv, FdTypeOK
<1>5. Counted' /\ Numbered' /\ Listening' /\ Connected' /\ Intact' /\ Owned'
  <2>1. \A u \in Threads :
          /\ pc'[u] \in Early => pc[u] \in Early
          /\ pc'[u] \in Early \union {"loop"} => pc[u] \in Early \union {"loop"}
          /\ role = "server" /\ pc'[u] \in {"ready", "loop", "hook", "close"} =>
               pc[u] \in {"ready", "loop", "hook", "close"}
          /\ pc[u] = "exit" => pc'[u] = "exit"
    BY <1>1, <1>3 DEF Early
  <2> QED
    BY <1>1, <2>1, QuietStep
<1>6. ClosedUp'
  BY <1>1, <1>2, <1>3 DEF FdInv, ClosedUp
<1> QED
  BY <1>3, <1>4, <1>5, <1>6 DEF FdInv
----------------------------------------------------------------------------
(* Steps that close a number.                                              *)

\* What a closed number leaves as it was.
LEMMA Closing ==
  ASSUME FdInv, NEW fd \in Fd, Closed(fd), UNCHANGED <<role, serial, mine, accepted>>,
         \A u \in Threads : flows'[u] \subseteq flows[u]
  PROVE  /\ fds' \in [Fd -> Nat] /\ fds'[fd] = 0
         /\ \A gd \in Fd : gd # fd => fds'[gd] = fds[gd]
         /\ Counted' /\ Numbered'
         /\ \A u \in Threads : \A i \in 1..Len(mine[u]) :
              fds[mine[u][i].fd] # mine[u][i].sock => fds'[mine[u][i].fd] # mine[u][i].sock
<1>1. /\ fds' \in [Fd -> Nat] /\ fds'[fd] = 0
      /\ \A gd \in Fd : gd # fd => fds'[gd] = fds[gd]
  BY DEF Closed, FdInv, FdTypeOK
<1>2. Counted'
  BY StillCounted DEF FdInv
<1>3. Numbered'
  <2>1. \A gd \in Fd : fds'[gd] <= serial
    <3>1. serial \in Nat /\ \A gd \in Fd : fds[gd] <= serial
      BY DEF FdInv, Numbered, FdTypeOK
    <3> QED
      BY <1>1, <3>1
  <2>2. \A gd, hd \in Fd : fds'[gd] = fds'[hd] /\ fds'[gd] # 0 => gd = hd
    BY <1>1 DEF FdInv, Numbered
  <2> QED
    BY <2>1, <2>2 DEF FdInv, Numbered
<1>4. ASSUME NEW u \in Threads, NEW i \in 1..Len(mine[u]), fds[mine[u][i].fd] # mine[u][i].sock
      PROVE  fds'[mine[u][i].fd] # mine[u][i].sock
  <2>1. mine[u][i].fd \in Fd /\ mine[u][i].sock # 0
    BY PlaceTypes DEF FdInv, Numbered
  <2> QED
    BY <1>1, <1>4, <2>1
<1> QED
  BY <1>1, <1>2, <1>3, <1>4

LEMMA HungUpStep ==
  ASSUME FdInv, NEW t \in Threads, HungUp(t)
  PROVE  FdInv'
<1>1. PICK fl \in flows[t] :
        /\ fds[fl.fd] = fl.sock /\ Closed(fl.fd) /\ flows' = [flows EXCEPT ![t] = @ \ {fl}]
  BY DEF HungUp, CloseOfFlow
<1>2. /\ proto = "tcp" /\ pc[t] = "loop"
      /\ UNCHANGED <<role, proto, serial, pc, mine, closing, accepted, kept>>
  BY DEF HungUp, Running
<1>3. fl \in Entry /\ fl.fd \in Fd /\ fl.sock \in 1..serial
  BY DEF FdInv, FdTypeOK, Entry, Numbered
<1>4. /\ flows' \in [Threads -> SUBSET Entry] /\ flows'[t] = flows[t] \ {fl}
      /\ \A u \in Threads : flows'[u] \subseteq flows[u] /\ (u # t => flows'[u] = flows[u])
  BY <1>1 DEF FdInv, FdTypeOK
<1>5. /\ fds' \in [Fd -> Nat] /\ fds'[fl.fd] = 0
      /\ \A gd \in Fd : gd # fl.fd => fds'[gd] = fds[gd]
      /\ Counted' /\ Numbered'
      /\ \A u \in Threads : \A i \in 1..Len(mine[u]) :
           fds[mine[u][i].fd] # mine[u][i].sock => fds'[mine[u][i].fd] # mine[u][i].sock
  BY <1>1, <1>2, <1>3, <1>4, Closing
<1>6. FdTypeOK'
  BY <1>2, <1>4, <1>5 DEF FdInv, FdTypeOK
<1>7. Phases'
  BY <1>2 DEF FdInv, Phases
<1>8. Listening'
  <2>1. ASSUME role = "server", NEW u \in Threads, pc[u] \in {"ready", "loop", "hook", "close"}
        PROVE  fds'[mine[u][1].fd] = mine[u][1].sock
    <3>1. 1 \in 1..Len(mine[u])
      BY <2>1, PlaceTypes DEF FdInv, Phases
    <3>2. mine[u][1].fd \in Fd /\ fds[mine[u][1].fd] = mine[u][1].sock
      BY <2>1, <3>1, PlaceTypes DEF FdInv, Listening
    <3>3. mine[u][1].fd # fl.fd
      BY <1>1, <2>1, <3>1, <3>2 DEF FdInv, Numbered
    <3> QED
      BY <1>5, <3>2, <3>3
  <2> QED
    BY <1>2, <1>4, <2>1 DEF FdInv, Listening
<1>9. Connected'
  <2> SUFFICES ASSUME role = "client", NEW u \in Threads, NEW i \in 1..Len(mine[u])
               PROVE  fds'[mine[u][i].fd] \in {mine[u][i].sock, 0} /\ \A v \in Threads : pc[v] \notin Early
    BY <1>2 DEF Connected
  <2>1. mine[u][i].fd \in Fd /\ fds[mine[u][i].fd] \in {mine[u][i].sock, 0}
    BY PlaceTypes DEF FdInv, Connected
  <2>2. \A v \in Threads : pc[v] \notin Early
    BY <1>2 DEF FdInv, Phases, Early
  <2> QED
    BY <1>5, <2>1, <2>2
<1>10. Intact'
  <2> SUFFICES ASSUME NEW u \in Threads, pc[u] \in Early \union {"loop"}, NEW gl \in flows'[u],
                      fds[gl.fd] = gl.sock
               PROVE  fds'[gl.fd] = gl.sock
    BY <1>2, <1>4 DEF FdInv, Intact
  <2>1. gl \in flows[u] /\ gl.fd \in Fd
    BY <1>4 DEF FdInv, FdTypeOK, Entry
  <2>2. gl.fd # fl.fd
    BY <1>1, <1>4, <2>1 DEF FdInv, Numbered
  <2> QED
    BY <1>5, <2>1, <2>2
<1>11. Owned'
  <2> SUFFICES ASSUME \A u \in Threads : pc[u] \in Early \union {"loop"},
                      NEW fd \in Fd, fds'[fd] # 0
               PROVE  \E u \in Threads : \E x \in Entries(u)' : x.fd = fd /\ x.sock = fds'[fd]
    BY <1>2 DEF Owned
  <2>1. fd # fl.fd /\ fds'[fd] = fds[fd]
    BY <1>5
  <2>2. PICK u \in Threads : \E x \in Entries(u) : x.fd = fd /\ x.sock = fds[fd]
    BY <2>1 DEF FdInv, Owned
  <2>3. \A x \in Entries(u) : x # fl => x \in Entries(u)'
    BY <1>2, <1>4 DEF Entries
  <2> QED
    BY <2>1, <2>2, <2>3
<1>12. ClosedUp'
  BY <1>2, <1>5 DEF FdInv, ClosedUp, Past
<1> QED
  BY <1>5, <1>6, <1>7, <1>8, <1>9, <1>10, <1>11, <1>12 DEF FdInv

LEMMA SocketCloseStep ==
  ASSUME FdInv, NEW t \in Threads, SocketClose(t)
  PROVE  FdInv'
<1> DEFINE c == Current(t)
<1>1. /\ pc[t] = "close" /\ After(t)
      /\ IF proto = "tcp" THEN Closed(c.fd) ELSE UNCHANGED fds
      /\ UNCHANGED <<role, proto, serial, mine, flows, accepted, kept>>
  BY DEF SocketClose, Running
<1>2. /\ closing[t] \in 1..Len(mine[t]) /\ mine[t] # <<>> /\ c = mine[t][closing[t]]
      /\ c \in Entry /\ c.fd \in Fd /\ c.sock \in 1..serial /\ serial \in Nat
      /\ role = "server" => closing[t] = 1
      /\ \A u \in Threads : pc[u] \notin Early
  BY <1>1, CurrentPlace
<1>3. /\ pc' \in [Threads -> {"setup", "ready", "loop", "hook", "close", "delflow", "exit", "fatal"}]
      /\ closing' \in [Threads -> Nat \ {0}] /\ Phases'
      /\ \A u \in Threads : u # t => pc'[u] = pc[u]
      /\ pc'[t] \in {"hook", "delflow", "exit"} /\ (role = "server" => pc'[t] = "delflow")
      /\ \A u \in Threads : \A i \in 1..Len(mine[u]) :
           Past(u, i)' => Past(u, i) \/ (role = "client" /\ u = t /\ i = closing[t])
  BY <1>1, AfterSocket
<1> HIDE DEF c
<1>4. CASE proto # "tcp"
  <2>1. fds' = fds
    BY <1>1, <1>4
  <2>2. FdTypeOK'
    BY <1>1, <1>3, <2>1 DEF FdInv, FdTypeOK
  <2>3. Counted' /\ Numbered' /\ Listening' /\ Connected' /\ Intact' /\ Owned'
    <3>1. \A u \in Threads :
            /\ pc'[u] \in Early => pc[u] \in Early
            /\ pc'[u] \in Early \union {"loop"} => pc[u] \in Early \union {"loop"}
            /\ role = "server" /\ pc'[u] \in {"ready", "loop", "hook", "close"} =>
                 pc[u] \in {"ready", "loop", "hook", "close"}
            /\ pc[u] = "exit" => pc'[u] = "exit"
      BY <1>1, <1>3 DEF Early
    <3> QED
      BY <1>1, <2>1, <3>1, QuietStep
  <2>4. ClosedUp'
    BY <1>1, <1>3, <1>4, <2>1 DEF FdInv, ClosedUp
  <2> QED
    BY <1>3, <2>2, <2>3, <2>4 DEF FdInv
<1>5. CASE proto = "tcp"
  <2>1. /\ fds' \in [Fd -> Nat] /\ fds'[c.fd] = 0
        /\ \A gd \in Fd : gd # c.fd => fds'[gd] = fds[gd]
        /\ Counted' /\ Numbered'
        /\ \A u \in Threads : \A i \in 1..Len(mine[u]) :
             fds[mine[u][i].fd] # mine[u][i].sock => fds'[mine[u][i].fd] # mine[u][i].sock
    BY <1>1, <1>2, <1>5, Closing
  <2>2. FdTypeOK'
    BY <1>1, <1>3, <2>1 DEF FdInv, FdTypeOK
  \* The number is free, or it is still the worker's own.
  <2>3. fds[c.fd] = c.sock \/ (role = "client" /\ fds[c.fd] = 0)
    BY <1>1, <1>2 DEF FdInv, FdTypeOK, Listening, Connected
  <2>4. Listening'
    <3>1. ASSUME role = "server", NEW u \in Threads, pc'[u] \in {"ready", "loop", "hook", "close"}
          PROVE  fds'[mine[u][1].fd] = mine[u][1].sock
      <4>1. u # t /\ pc[u] \in {"ready", "loop", "hook", "close"}
        BY <1>3, <3>1
      <4>2. mine[u] # <<>>
        BY <3>1, <4>1 DEF FdInv, Phases
      <4>3. mine[u][1].fd # c.fd /\ fds[mine[u][1].fd] = mine[u][1].sock
        BY <1>2, <3>1, <4>1, <4>2 DEF FdInv, Listening
      <4>4. mine[u][1].fd \in Fd
        BY <4>2, PlaceTypes DEF FdInv
      <4> QED
        BY <2>1, <4>3, <4>4
    <3> QED
      BY <1>1, <3>1 DEF FdInv, Listening
  <2>5. Connected'
    <3> SUFFICES ASSUME role = "client", NEW u \in Threads, NEW i \in 1..Len(mine[u])
                 PROVE  fds'[mine[u][i].fd] \in {mine[u][i].sock, 0} /\ \A v \in Threads : pc'[v] \notin Early
      BY <1>1 DEF Connected
    <3>1. mine[u][i].fd \in Fd /\ fds[mine[u][i].fd] \in {mine[u][i].sock, 0}
      BY PlaceTypes DEF FdInv, Connected
    <3>2. \A v \in Threads : pc'[v] \notin Early
      BY <1>2, <1>3 DEF Early
    <3> QED
      BY <2>1, <3>1, <3>2
  <2>6. Intact'
    <3> SUFFICES ASSUME NEW u \in Threads, pc'[u] \in Early \union {"loop"}, NEW fl \in flows[u]
                 PROVE  \/ fds'[fl.fd] = fl.sock
                        \/ /\ role = "server" /\ proto = "tcp"
                           /\ \E v \in Threads : pc'[v] = "exit" /\ mine[v] # <<>> /\ mine[v][1].fd = fl.fd
      BY <1>1 DEF Intact
    <3>1. u # t /\ pc[u] \in Early \union {"loop"} /\ fl.fd \in Fd /\ fl.sock \in 1..serial
      BY <1>3 DEF Early, FdInv, FdTypeOK, Entry, Numbered
    <3>2. CASE fds[fl.fd] = fl.sock
      <4>1. fl.sock # c.sock
        BY <1>2, <3>1 DEF FdInv, Numbered
      <4>2. fl.fd # c.fd
        BY <2>3, <3>1, <3>2, <4>1
      <4> QED
        BY <2>1, <3>1, <3>2, <4>2
    <3>3. CASE /\ role = "server" /\ proto = "tcp"
               /\ \E v \in Threads : pc[v] = "exit" /\ mine[v] # <<>> /\ mine[v][1].fd = fl.fd
      BY <1>1, <1>3, <3>3
    <3> QED
      BY <3>1, <3>2, <3>3 DEF FdInv, Intact
  <2>7. Owned'
    BY <1>3 DEF Owned, Early
  <2>8. ClosedUp'
    <3>1. fds'[c.fd] # c.sock
      BY <1>2, <2>1
    <3> QED
      BY <1>1, <1>2, <1>3, <2>1, <3>1 DEF FdInv, ClosedUp
  <2> QED
    BY <1>3, <2>1, <2>2, <2>4, <2>5, <2>6, <2>7, <2>8 DEF FdInv
<1> QED
  BY <1>4, <1>5

\* delflow(listen_fl): by now the number may be that of another worker's flow.
LEMMA DelListenFlowStep ==
  ASSUME FdInv, NEW t \in Threads, DelListenFlow(t)
  PROVE  FdInv'
<1> DEFINE c == Current(t)
<1>1. /\ pc[t] = "delflow" /\ Closed(c.fd) /\ pc' = [pc EXCEPT ![t] = "exit"]
      /\ UNCHANGED <<role, proto, serial, mine, flows, closing, accepted, kept>>
  BY DEF DelListenFlow, Running, CloseListener, Goto
<1>2. /\ mine[t] # <<>> /\ c = mine[t][1] /\ closing[t] = 1 /\ role = "server"
      /\ c \in Entry /\ c.fd \in Fd /\ c.sock \in 1..serial /\ serial \in Nat
      /\ \A u \in Threads : pc[u] \notin Early
  BY <1>1, CurrentPlace DEF FdInv, Phases
<1> HIDE DEF c
<1>3. pc'[t] = "exit" /\ \A u \in Threads : u # t => pc'[u] = pc[u]
  BY <1>1 DEF FdInv, FdTypeOK
<1>4. /\ fds' \in [Fd -> Nat] /\ fds'[c.fd] = 0
      /\ \A gd \in Fd : gd # c.fd => fds'[gd] = fds[gd]
      /\ Counted' /\ Numbered'
      /\ \A u \in Threads : \A i \in 1..Len(mine[u]) :
           fds[mine[u][i].fd] # mine[u][i].sock => fds'[mine[u][i].fd] # mine[u][i].sock
  BY <1>1, <1>2, Closing
<1>5. FdTypeOK'
  BY <1>1, <1>4 DEF FdInv, FdTypeOK
<1>6. Phases'
  BY <1>1, <1>2, <1>3 DEF FdInv, Phases, Early
<1>7. Listening'
  <2>1. ASSUME NEW u \in Threads, pc'[u] \in {"ready", "loop", "hook", "close"}
        PROVE  fds'[mine[u][1].fd] = mine[u][1].sock
    <3>1. u # t /\ pc[u] \in {"ready", "loop", "hook", "close"}
      BY <1>3, <2>1
    <3>2. mine[u] # <<>>
      BY <1>2, <3>1 DEF FdInv, Phases
    <3>3. mine[u][1].fd # c.fd /\ fds[mine[u][1].fd] = mine[u][1].sock
      BY <1>2, <3>1, <3>2 DEF FdInv, Listening
    <3>4. mine[u][1].fd \in Fd
      BY <3>2, PlaceTypes DEF FdInv
    <3> QED
      BY <1>4, <3>3, <3>4
  <2> QED
    BY <1>1, <2>1 DEF FdInv, Listening
<1>8. Connected'
  BY <1>1, <1>2 DEF Connected
<1>9. Intact'
  <2> SUFFICES ASSUME NEW u \in Threads, pc'[u] \in Early \union {"loop"}, NEW fl \in flows[u]
               PROVE  \/ fds'[fl.fd] = fl.sock
                      \/ /\ role = "server" /\ proto = "tcp"
                         /\ \E v \in Threads : pc'[v] = "exit" /\ mine[v] # <<>> /\ mine[v][1].fd = fl.fd
    BY <1>1 DEF Intact
  <2>1. u # t /\ pc[u] \in Early \union {"loop"} /\ fl.fd \in Fd /\ proto = "tcp"
    BY <1>2, <1>3 DEF Early, FdInv, FdTypeOK, Entry, Listening
  <2>2. CASE fl.fd = c.fd
    BY <1>2, <1>3, <2>1, <2>2
  <2>3. CASE fl.fd # c.fd
    <3>1. \/ fds[fl.fd] = fl.sock
          \/ \E v \in Threads : pc[v] = "exit" /\ mine[v] # <<>> /\ mine[v][1].fd = fl.fd
      BY <2>1 DEF FdInv, Intact
    <3> QED
      BY <1>2, <1>3, <1>4, <2>1, <2>3, <3>1
  <2> QED
    BY <2>2, <2>3
<1>10. Owned'
  BY <1>3 DEF Owned, Early
<1>11. ClosedUp'
  <2> SUFFICES ASSUME NEW u \in Threads, NEW i \in 1..Len(mine[u]), Past(u, i)',
                      mine[u][i].sock \notin kept
               PROVE  fds'[mine[u][i].fd] # mine[u][i].sock
    BY <1>1 DEF ClosedUp
  <2>1. CASE u # t
    BY <1>1, <1>2, <1>3, <1>4, <2>1 DEF FdInv, ClosedUp, Past
  <2>2. CASE u = t
    <3>1. i = 1
      <4>1. Len(mine[t]) <= 1 /\ Len(mine[t]) \in Nat
        BY <1>2, PlaceTypes DEF FdInv, Phases
      <4> QED
        BY <2>2, <4>1
    <3> QED
      BY <1>2, <1>4, <2>2, <3>1
  <2> QED
    BY <2>1, <2>2
<1> QED
  BY <1>4, <1>5, <1>6, <1>7, <1>8, <1>9, <1>10, <1>11 DEF FdInv
----------------------------------------------------------------------------

LEMMA FdInitially == FdInit => FdInv
<1> SUFFICES ASSUME FdInit PROVE FdInv
  OBVIOUS
<1>1. FdTypeOK
  BY FdAssumption DEF FdInit, FdTypeOK
<1>2. \A t \in Threads : mine[t] = <<>> /\ flows[t] = {} /\ pc[t] = "setup" /\ closing[t] = 1
  BY DEF FdInit
<1>3. \A t \in Threads : Len(mine[t]) = 0
  BY <1>2
<1>4. Phases
  BY <1>2, <1>3, FdAssumption DEF Phases, Early
<1>5. Counted
  <2>1. (1..serial) \ {SockAt(p) : p \in Places} = {}
    BY DEF FdInit
  <2> QED
    BY <2>1, FS_EmptySet, FdAssumption DEF Counted, FdInit
<1>6. Numbered
  BY <1>2, <1>3 DEF FdInit, Numbered
<1>7. Listening /\ Connected /\ Intact
  BY <1>2, <1>3 DEF Listening, Connected, Intact, Early
<1>8. Owned /\ ClosedUp
  BY <1>3 DEF FdInit, Owned, ClosedUp
<1> QED
  BY <1>1, <1>4, <1>5, <1>6, <1>7, <1>8 DEF FdInv

LEMMA FdStep == FdInv /\ [FdNext]_fdVars => FdInv'
<1> SUFFICES ASSUME FdInv, [FdNext]_fdVars PROVE FdInv'
  OBVIOUS
<1>1. CASE BarrierOpens
  BY <1>1, BarrierStep
<1>2. ASSUME NEW t \in Threads, WorkerStep(t) PROVE FdInv'
  <2>1. CASE ClientConnect(t)
    BY <2>1, ClientConnectStep
  <2>2. CASE ServerReady(t)
    BY <2>2, ServerReadyStep
  <2>3. CASE Accept(t)
    BY <2>3, AcceptStep
  <2>4. CASE HungUp(t)
    BY <2>4, HungUpStep
  <2>5. CASE HookFails(t)
    BY <2>5, HookFailsStep
  <2>6. CASE SocketClose(t)
    BY <2>6, SocketCloseStep
  <2>7. CASE DelListenFlow(t)
    BY <2>7, DelListenFlowStep
  <2>8. CASE ClientReady(t) \/ SetupFails(t) \/ StopSeen(t) \/ HookDone(t)
    BY <2>8, WaitingSteps
  <2> QED
    BY <1>2, <2>1, <2>2, <2>3, <2>4, <2>5, <2>6, <2>7, <2>8 DEF WorkerStep
<1>3. CASE UNCHANGED fdVars
  <2>1. /\ UNCHANGED <<role, proto, fds, serial, mine, flows, accepted>>
        /\ UNCHANGED <<pc, closing, kept>>
    BY <1>3 DEF fdVars
  <2>2. Counted' /\ Numbered' /\ Listening' /\ Connected' /\ Intact' /\ Owned'
    BY <2>1, QuietStep
  <2>3. FdTypeOK' /\ Phases' /\ ClosedUp'
    BY <2>1 DEF FdInv, FdTypeOK, Phases, ClosedUp, Past
  <2> QED
    BY <2>2, <2>3 DEF FdInv
<1> QED
  BY <1>1, <1>2, <1>3 DEF FdNext, FdFinished

LEMMA FdHolds == FdSpec => []FdInv
  BY FdInitially, FdStep, PTL DEF FdSpec

\* Descriptors always are numbers of the table: the calls of socket and accept
\* of any number of workers find a free one in a table that has room for the
\* flows, the listeners and the connections.
THEOREM FdsTyped == FdSpec => []FdTypeOK
<1>1. FdInv => FdTypeOK
  BY DEF FdInv
<1> QED
  BY <1>1, FdHolds, PTL

\* A flow keeps the socket it was made for while its worker runs, whatever
\* the other workers open and close in the shared table, but for a number
\* that run_server closed twice.
THEOREM FlowsStayIntact == FdSpec => []FlowsIntact
<1>1. FdInv => FlowsIntact
  <2> SUFFICES ASSUME FdInv, NEW t \in Threads, pc[t] = "loop", NEW fl \in flows[t]
               PROVE  \/ fds[fl.fd] = fl.sock
                      \/ /\ role = "server" /\ proto = "tcp"
                         /\ \E u \in Threads \ {t} : pc[u] = "exit" /\ mine[u][1].fd = fl.fd
    BY DEF FlowsIntact
  <2> QED
    BY DEF FdInv, Intact
<1> QED
  BY <1>1, FdHolds, PTL

\* No descriptor is left open: neither while the workers run, by delflow, nor
\* by a worker that returned from run_client or run_server.
THEOREM NothingLeaks == FdSpec => []NoLeak
<1>1. FdInv => NoLeak
  <2> SUFFICES ASSUME FdInv PROVE NoLeak
    OBVIOUS
  <2>1. (\A t \in Threads : pc[t] = "loop") =>
          \A fd \in Fd : fds[fd] # 0 =>
            \E t \in Threads : \E e \in flows[t] \cup { mine[t][i] : i \in 1..Len(mine[t]) } :
              e.fd = fd /\ e.sock = fds[fd]
    BY DEF FdInv, Owned, Entries
  <2>2. \A t \in Threads : pc[t] = "exit" /\ (role = "server" \/ proto = "tcp") =>
          \A i \in 1..Len(mine[t]) :
            mine[t][i].sock \notin kept => fds[mine[t][i].fd] # mine[t][i].sock
    BY DEF FdInv, ClosedUp, Past
  <2> QED
    BY <2>1, <2>2 DEF NoLeak
<1> QED
  BY <1>1, FdHolds, PTL
============================================================================
