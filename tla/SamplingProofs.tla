--------------------------- MODULE SamplingProofs ---------------------------
(***************************************************************************)
(* Theorems about Sampling, for any number of threads and flows, any       *)
(* interval and any running time.                                          *)
(***************************************************************************)
EXTENDS Sampling, FiniteSetTheorems, TLAPS

(***************************************************************************)
(* The inductive invariant.                                                *)
(***************************************************************************)

Inside == {"test", "set"}
Collecting == {"lock", "test", "set", "read", "check"}

\* One thread at a time is in the critical section.
MutualExclusion ==
  /\ \A t \in Threads : pc[t] \in Inside => t \in mutex
  /\ \A t, u \in mutex : t = u

\* What a thread knows of the start at each place of ensure_initialized.
StartView ==
  /\ time_start <= clock
  /\ \A t \in Threads :
       /\ pc[t] = "set" => time_start = 0
       /\ pc[t] = "read" => time_start # 0
       /\ pc[t] = "check" => last_time[cur[t]] # 0
       /\ pc[t] \in Collecting => now[t] \in 1..clock

\* What is true of a flow while its owner collects: nobody else touches it,
\* and before ReadStart it has no interval yet.
Owned ==
  \A t \in Threads :
    /\ pc[t] \in Collecting => Owner[cur[t]] = t
    /\ pc[t] \in Collecting \ {"check"} => last_time[cur[t]] = 0

\* A flow of n samples has an interval that begins k whole intervals after the
\* start, less lost <= n ticks, and each of its samples moved it by at least
\* an interval less a tick.
Begins(begin, n) ==
  /\ time_start # 0 /\ begin <= clock
  /\ \E k \in Nat, lost \in 0..n : begin + lost = time_start + k * Interval
  /\ begin >= time_start + n * (Interval - 1)

\* Alignment with its witnesses.
OnGrid ==
  \A f \in Flows :
    /\ last_time[f] = 0 => SamplesOf(f) = 0
    /\ last_time[f] # 0 => Begins(last_time[f], SamplesOf(f))

SInv == SamplingTypeOK /\ MutualExclusion /\ StartView /\ Owned /\ OnGrid

\* A sample is one of its owner's flows, which has an interval, and no later
\* than the packet the owner is at.
Recorded(t, s) ==
  /\ Owner[s.flow] = t
  /\ last_time[s.flow] # 0
  /\ s.timestamp <= clock
  /\ pc[t] \in Collecting => s.timestamp <= now[t]

\* With SInv, inductive for SampleRateBounded.
ListInv ==
  /\ \A t \in Threads : \A i \in 1..Len(samples[t]) : Recorded(t, samples[t][i])
  /\ SampleRateBounded

----------------------------------------------------------------------------
(* Arithmetic.                                                             *)

LEMMA WholeIntervals ==
  ASSUME NEW d \in Nat
  PROVE  /\ d \div Interval \in Nat
         /\ (d \div Interval) * Interval \in Nat
         /\ (d \div Interval) * Interval <= d
         /\ d < (d \div Interval) * Interval + Interval
BY SamplingAssumption

LEMMA Multiple ==
  ASSUME NEW k \in Nat
  PROVE  k * Interval \in Nat /\ (k * Interval) % Interval = 0
BY SamplingAssumption

LEMMA Distribute ==
  ASSUME NEW k \in Nat, NEW q \in Nat
  PROVE  k * Interval + q * Interval = (k + q) * Interval
BY SamplingAssumption

LEMMA CountType ==
  ASSUME NEW seq, NEW f, NEW p \in Nat
  PROVE  Count(seq, f, p) \in Nat
<1> DEFINE S == {q \in 1..p : FromOldest(seq, q).flow = f}
<1>1. IsFiniteSet(1..p)
  BY FS_Interval
<1>2. IsFiniteSet(S)
  BY <1>1, FS_Subset
<1> QED
  BY <1>2, FS_CardinalityType DEF Count

LEMMA SamplesOfType ==
  ASSUME SamplingTypeOK, NEW f \in Flows
  PROVE  SamplesOf(f) \in Nat
<1>1. Owner[f] \in Threads
  BY SamplingAssumption
<1>2. Len(samples[Owner[f]]) \in Nat
  BY <1>1 DEF SamplingTypeOK
<1> QED
  BY <1>2, CountType DEF SamplesOf

LEMMA GridIsAligned == SInv => Aligned
<1> SUFFICES ASSUME SInv, NEW f \in Flows, last_time[f] # 0
             PROVE  /\ time_start # 0 /\ last_time[f] \in time_start..clock
                    /\ \E lost \in 0..SamplesOf(f) :
                         (last_time[f] + lost - time_start) % Interval = 0
  BY DEF Aligned
<1> DEFINE n == SamplesOf(f)
<1>1. Begins(last_time[f], n)
  BY DEF SInv, OnGrid
<1>2. time_start \in Nat /\ clock \in Nat /\ n \in Nat /\ last_time[f] \in Nat
  <2>1. SamplingTypeOK
    BY DEF SInv
  <2>2. n \in Nat
    BY <2>1, SamplesOfType
  <2> QED
    BY <2>1, <2>2, SamplingAssumption DEF SamplingTypeOK, Time
<1> HIDE DEF n
<1>3. PICK k \in Nat, lost \in 0..n : last_time[f] + lost = time_start + k * Interval
  BY <1>1 DEF Begins
<1>4. k * Interval \in Nat /\ (k * Interval) % Interval = 0
  BY Multiple
<1>5. last_time[f] + lost - time_start = k * Interval
  BY <1>2, <1>3, <1>4
<1>6. n * (Interval - 1) \in Nat
  BY <1>2, SamplingAssumption
<1>7. last_time[f] >= time_start
  BY <1>1, <1>2, <1>6 DEF Begins
<1>8. time_start # 0 /\ last_time[f] <= clock
  BY <1>1 DEF Begins
<1> QED
  BY <1>2, <1>3, <1>4, <1>5, <1>7, <1>8 DEF n

\* A list of samples with one more at its head.
LEMMA Pushing ==
  ASSUME NEW seq \in Seq(Sample), NEW s \in Sample
  PROVE  /\ Len(<<s>> \o seq) = Len(seq) + 1 /\ Len(seq) \in Nat
         /\ (<<s>> \o seq)[1] = s
         /\ \A i \in 2..Len(seq) + 1 : (<<s>> \o seq)[i] = seq[i - 1] /\ i - 1 \in 1..Len(seq)
<1>1. Len(seq) \in Nat /\ <<s>> \in Seq(Sample) /\ Len(<<s>>) = 1 /\ <<s>>[1] = s
  OBVIOUS
<1>2. Len(<<s>> \o seq) = Len(seq) + 1
  BY <1>1
<1>3. (<<s>> \o seq)[1] = s
  BY <1>1
<1>4. \A i \in 2..Len(seq) + 1 : (<<s>> \o seq)[i] = seq[i - 1] /\ i - 1 \in 1..Len(seq)
  BY <1>1
<1> QED
  BY <1>1, <1>2, <1>3, <1>4

\* The same list from its other end: the older samples stay where they are.
LEMMA PushOldest ==
  ASSUME NEW seq \in Seq(Sample), NEW s \in Sample
  PROVE  /\ FromOldest(<<s>> \o seq, Len(seq) + 1) = s
         /\ \A p \in 1..Len(seq) : FromOldest(<<s>> \o seq, p) = FromOldest(seq, p)
<1> DEFINE new == <<s>> \o seq
           n == Len(seq)
<1>1. /\ Len(new) = n + 1 /\ n \in Nat /\ new[1] = s
      /\ \A i \in 2..n + 1 : new[i] = seq[i - 1]
  BY Pushing
<1> HIDE DEF new, n
<1>2. new[Len(new) + 1 - (n + 1)] = s
  BY <1>1
<1>3. ASSUME NEW p \in 1..n PROVE new[Len(new) + 1 - p] = seq[n + 1 - p]
  <2>1. /\ Len(new) + 1 - p \in 2..n + 1
        /\ (Len(new) + 1 - p) - 1 = n + 1 - p
    BY <1>1
  <2> QED
    BY <1>1, <2>1
<1> QED
  BY <1>2, <1>3 DEF FromOldest, new, n

LEMMA OlderCount ==
  ASSUME NEW seq \in Seq(Sample), NEW s \in Sample, NEW f, NEW p \in 0..Len(seq)
  PROVE  Count(<<s>> \o seq, f, p) = Count(seq, f, p)
<1>1. ASSUME NEW q \in 1..p PROVE FromOldest(<<s>> \o seq, q) = FromOldest(seq, q)
  <2>1. q \in 1..Len(seq)
    OBVIOUS
  <2> QED
    BY <2>1, PushOldest
<1>2. {q \in 1..p : FromOldest(<<s>> \o seq, q).flow = f} = {q \in 1..p : FromOldest(seq, q).flow = f}
  BY <1>1
<1> QED
  BY <1>2 DEF Count

LEMMA PushCount ==
  ASSUME NEW seq \in Seq(Sample), NEW s \in Sample, NEW f
  PROVE  Count(<<s>> \o seq, f, Len(seq) + 1)
           = Count(seq, f, Len(seq)) + (IF s.flow = f THEN 1 ELSE 0)
<1> DEFINE new == <<s>> \o seq
           n == Len(seq)
           In(l, p) == {q \in 1..p : FromOldest(l, q).flow = f}
<1>1. /\ FromOldest(new, n + 1) = s /\ n \in Nat
      /\ \A p \in 1..n : FromOldest(new, p) = FromOldest(seq, p)
  BY PushOldest
<1> HIDE DEF new, n
<1>2. In(new, n + 1) = In(seq, n) \cup (IF s.flow = f THEN {n + 1} ELSE {})
  <2>1. 1..n + 1 = (1..n) \cup {n + 1}
    BY <1>1
  <2> QED
    BY <1>1, <2>1
<1>3. IsFiniteSet(In(seq, n)) /\ n + 1 \notin In(seq, n)
  <2>1. IsFiniteSet(1..n) /\ In(seq, n) \subseteq 1..n /\ n + 1 \notin 1..n
    BY <1>1, FS_Interval
  <2> QED
    BY <2>1, FS_Subset
<1>4. Cardinality(In(seq, n)) \in Nat
  BY <1>3, FS_CardinalityType
<1>5. Cardinality(In(new, n + 1)) = Cardinality(In(seq, n)) + (IF s.flow = f THEN 1 ELSE 0)
  <2>1. CASE s.flow = f
    <3>1. In(new, n + 1) = In(seq, n) \cup {n + 1}
      BY <1>2, <2>1
    <3> HIDE DEF In
    <3>2. Cardinality(In(seq, n) \cup {n + 1}) = Cardinality(In(seq, n)) + 1
      BY <1>3, FS_AddElement
    <3> QED
      BY <2>1, <3>1, <3>2
  <2>2. CASE s.flow # f
    <3>1. In(new, n + 1) = In(seq, n)
      BY <1>2, <2>2
    <3> HIDE DEF In
    <3> QED
      BY <1>4, <2>2, <3>1
  <2> QED
    BY <2>1, <2>2
<1> QED
  BY <1>5 DEF Count, new, n

----------------------------------------------------------------------------
(* The steps.                                                              *)

LEMMA SInvInit == Init => SInv
<1> SUFFICES ASSUME Init PROVE SInv
  OBVIOUS
<1>1. AnyFlow \in Flows
  BY SamplingAssumption DEF AnyFlow
<1>2. SamplingTypeOK
  <2>1. /\ samples \in [Threads -> Seq(Sample)] /\ cur \in [Threads -> Flows]
    BY <1>1 DEF Init
  <2> QED
    BY <2>1, SamplingAssumption DEF Init, SamplingTypeOK, Time
<1>3. MutualExclusion
  BY DEF Init, MutualExclusion, Inside
<1>4. StartView
  BY DEF Init, StartView, Collecting
<1>5. Owned
  BY DEF Init, Owned, Collecting
<1>6. OnGrid
  <2>1. ASSUME NEW f \in Flows PROVE last_time[f] = 0 /\ SamplesOf(f) = 0
    <3>1. Len(samples[Owner[f]]) = 0
      BY SamplingAssumption DEF Init
    <3>2. {q \in 1..0 : FromOldest(samples[Owner[f]], q).flow = f} = {}
      OBVIOUS
    <3> QED
      BY <3>1, <3>2, FS_EmptySet DEF Init, SamplesOf, Count
  <2> QED
    BY <2>1 DEF OnGrid
<1> QED
  BY <1>2, <1>3, <1>4, <1>5, <1>6 DEF SInv

\* What a step of one thread does to pc.
LEMMA Moved ==
  ASSUME SInv, NEW t \in Threads, NEW from, NEW to, At(t, from, to)
  PROVE  /\ pc[t] = from /\ pc'[t] = to
         /\ \A u \in Threads : u # t => pc'[u] = pc[u]
BY DEF SInv, SamplingTypeOK, At

\* The grid stands still while neither the start nor a flow's interval moves.
LEMMA GridKept ==
  ASSUME SInv, UNCHANGED <<time_start, last_time, samples>>, clock' \in Nat, clock' >= clock
  PROVE  OnGrid'
<1>1. clock \in Nat /\ last_time \in [Flows -> Nat]
  BY SamplingAssumption DEF SInv, SamplingTypeOK, Time
<1>2. ASSUME NEW f \in Flows
      PROVE  /\ last_time[f] = 0 => SamplesOf(f) = 0
             /\ last_time[f] # 0 => Begins(last_time[f], SamplesOf(f))
  BY DEF SInv, OnGrid
<1>3. \A f \in Flows : SamplesOf(f)' = SamplesOf(f)
  BY DEF SamplesOf
<1>4. ASSUME NEW f \in Flows, last_time[f] # 0 PROVE Begins(last_time[f], SamplesOf(f))'
  <2>1. last_time[f] <= clock /\ last_time[f] \in Nat
    BY <1>1, <1>2, <1>4 DEF Begins
  <2>2. last_time[f] <= clock'
    BY <1>1, <2>1
  <2> QED
    BY <1>2, <1>3, <1>4, <2>2 DEF Begins
<1> QED
  BY <1>2, <1>3, <1>4 DEF OnGrid

\* So does what is true of the flows while no thread gets to another flow.
LEMMA OwnedKept ==
  ASSUME SInv, UNCHANGED last_time,
         \A t \in Threads : pc'[t] \in Collecting =>
           \/ /\ pc[t] \in Collecting /\ cur'[t] = cur[t]
              /\ pc'[t] = "check" \/ pc[t] # "check"
           \/ Owner[cur'[t]] = t /\ (pc'[t] = "check" \/ last_time[cur'[t]] = 0)
  PROVE  Owned'
BY DEF SInv, Owned

LEMMA ClockIsTime == ASSUME SInv PROVE clock \in Time
BY SamplingAssumption DEF SInv, SamplingTypeOK, Time

LEMMA ClockStep == ASSUME SInv, Tick PROVE SInv'
<1>1. clock \in Nat /\ clock' = clock + 1 /\ clock' \in 1..MaxTime
  BY SamplingAssumption DEF SInv, SamplingTypeOK, Tick
<1>2. UNCHANGED <<main, rusage_start, time_start, mutex, pc, cur, now, last_time, work, latency, samples>>
  BY DEF Tick, mainVars, threadVars, flowVars
<1>3. SamplingTypeOK'
  BY <1>1, <1>2 DEF SInv, SamplingTypeOK
<1>4. MutualExclusion'
  BY <1>2 DEF SInv, MutualExclusion
<1>5. StartView'
  <2>1. time_start \in Nat /\ now \in [Threads -> Nat]
    BY SamplingAssumption DEF SInv, SamplingTypeOK, Time
  <2> QED
    BY <1>1, <1>2, <2>1 DEF SInv, StartView
<1>6. OnGrid' /\ Owned'
  BY <1>1, <1>2, GridKept, OwnedKept
<1> QED
  BY <1>3, <1>4, <1>5, <1>6 DEF SInv

LEMMA MainStep == ASSUME SInv, MainStarts \/ MainEnds \/ UNCHANGED vars PROVE SInv'
<1>1. UNCHANGED <<clock, time_start, mutex, pc, cur, now, last_time, work, latency, samples>>
  BY DEF MainStarts, MainEnds, threadVars, flowVars, vars
<1>2. main' \in {"ready", "waiting", "stopping"} /\ rusage_start' \in Time
  <2>1. rusage_start' = clock \/ rusage_start' = rusage_start
    BY DEF MainStarts, MainEnds, vars, mainVars
  <2>2. main' \in {main, "waiting", "stopping"}
    BY DEF MainStarts, MainEnds, vars, mainVars
  <2> QED
    BY <2>1, <2>2, ClockIsTime DEF SInv, SamplingTypeOK
<1>3. SamplingTypeOK'
  BY <1>1, <1>2 DEF SInv, SamplingTypeOK
<1>4. MutualExclusion' /\ StartView'
  BY <1>1 DEF SInv, MutualExclusion, StartView
<1>5. OnGrid' /\ Owned'
  BY <1>1, GridKept, OwnedKept DEF SInv, SamplingTypeOK
<1> QED
  BY <1>3, <1>4, <1>5 DEF SInv

LEMMA TransferStep ==
  ASSUME SInv, NEW t \in Threads, NEW f \in Flows, Transfer(t, f) PROVE SInv'
<1> DEFINE to == IF KnowsStart(f) THEN "check" ELSE "lock"
<1>1. /\ At(t, "loop", to)
      /\ cur' = [cur EXCEPT ![t] = f] /\ now' = [now EXCEPT ![t] = clock]
      /\ work' = [work EXCEPT ![f] = @ + 1] /\ latency' = [latency EXCEPT ![f] = @ + 1]
      /\ UNCHANGED <<clock, main, rusage_start, time_start, mutex, last_time, samples>>
  BY DEF Transfer, mainVars
<1>2. /\ pc[t] = "loop" /\ pc'[t] = to /\ \A u \in Threads : u # t => pc'[u] = pc[u]
  BY <1>1, Moved
<1>3. /\ cur'[t] = f /\ now'[t] = clock
      /\ \A u \in Threads : u # t => cur'[u] = cur[u] /\ now'[u] = now[u]
  BY <1>1 DEF SInv, SamplingTypeOK
<1>4. SamplingTypeOK'
  <2>1. pc' \in [Threads -> {"loop", "lock", "test", "set", "read", "check", "stopped"}]
    BY <1>1 DEF At, SInv, SamplingTypeOK
  <2>2. clock \in Time
    BY ClockIsTime
  <2>3. cur' \in [Threads -> Flows] /\ now' \in [Threads -> Time]
    BY <1>1, <2>2 DEF SInv, SamplingTypeOK
  <2>4. work' \in [Flows -> Nat] /\ latency' \in [Flows -> Nat]
    BY <1>1 DEF SInv, SamplingTypeOK
  <2> QED
    BY <1>1, <2>1, <2>3, <2>4 DEF SInv, SamplingTypeOK
<1>5. MutualExclusion'
  BY <1>1, <1>2 DEF SInv, MutualExclusion, Inside
<1>6. StartView'
  BY <1>1, <1>2, <1>3 DEF SInv, SamplingTypeOK, StartView, Collecting, KnowsStart
<1>7. OnGrid'
  BY <1>1, GridKept DEF SInv, SamplingTypeOK
<1>8. Owned'
  <2>1. Owner[f] = t
    BY DEF Transfer
  <2> QED
    BY <1>1, <1>2, <1>3, <2>1, OwnedKept DEF KnowsStart
<1> QED
  BY <1>4, <1>5, <1>6, <1>7, <1>8 DEF SInv

\* The places of ensure_initialized that leave the flow's interval alone,
\* except the assignment to *time_start.
LEMMA CriticalStep ==
  ASSUME SInv, NEW t \in Threads, Lock(t) \/ StartKnown(t) \/ FirstPacket(t) \/ Stop(t)
  PROVE  SInv'
<1>1. UNCHANGED <<clock, main, time_start, cur, now, last_time, work, latency, samples>>
  BY DEF Lock, StartKnown, FirstPacket, Stop, flowVars, mainVars
<1>2. /\ pc' \in [Threads -> {"loop", "lock", "test", "set", "read", "check", "stopped"}]
      /\ \A u \in Threads : u # t => pc'[u] = pc[u]
  BY DEF Lock, StartKnown, FirstPacket, Stop, At, SInv, SamplingTypeOK
<1>3. SamplingTypeOK'
  <2>1. mutex' \in SUBSET Threads
    BY DEF Lock, Acquire, StartKnown, FirstPacket, Stop, SInv, SamplingTypeOK
  <2>2. rusage_start' = clock \/ rusage_start' = rusage_start
    BY DEF Lock, StartKnown, FirstPacket, Stop, mainVars
  <2>3. rusage_start' \in Time
    BY <2>2, ClockIsTime DEF SInv, SamplingTypeOK
  <2> QED
    BY <1>1, <1>2, <2>1, <2>3 DEF SInv, SamplingTypeOK
<1>4. MutualExclusion'
  <2>1. CASE Lock(t)
    BY <1>2, <2>1 DEF Lock, Acquire, SInv, MutualExclusion
  <2>2. CASE StartKnown(t)
    <3>1. mutex' = mutex \ {t} /\ pc'[t] = "read"
      BY <2>2, Moved DEF StartKnown
    <3> QED
      BY <1>2, <3>1 DEF SInv, MutualExclusion, Inside
  <2>3. CASE FirstPacket(t)
    <3>1. mutex' = mutex /\ pc[t] = "test"
      BY <2>3, Moved DEF FirstPacket
    <3> QED
      BY <1>2, <3>1 DEF SInv, MutualExclusion, Inside
  <2>4. CASE Stop(t)
    <3>1. mutex' = mutex /\ pc'[t] = "stopped"
      BY <2>4, Moved DEF Stop
    <3> QED
      BY <1>2, <3>1 DEF SInv, MutualExclusion, Inside
  <2> QED
    BY <2>1, <2>2, <2>3, <2>4
<1>5. /\ pc'[t] # "check"
      /\ pc'[t] = "set" => time_start = 0
      /\ pc'[t] = "read" => time_start # 0
      /\ pc'[t] \in Collecting => pc[t] \in Collecting
  BY Moved DEF Lock, StartKnown, FirstPacket, Stop, Collecting
<1>6. StartView'
  BY <1>1, <1>2, <1>5 DEF SInv, StartView
<1>7. OnGrid'
  BY <1>1, GridKept DEF SInv, SamplingTypeOK
<1>8. Owned'
  <2>1. pc'[t] \in Collecting => pc[t] # "check"
    BY Moved DEF Lock, StartKnown, FirstPacket, Stop, Collecting
  <2> QED
    BY <1>1, <1>2, <1>5, <2>1, OwnedKept
<1> QED
  BY <1>3, <1>4, <1>6, <1>7, <1>8 DEF SInv

\* A thread that sets the start is alone there, and no flow has one yet.
LEMMA SetStartStep == ASSUME SInv, NEW t \in Threads, SetStart(t) PROVE SInv'
<1>1. /\ time_start' = now[t] /\ mutex' = mutex \ {t}
      /\ UNCHANGED <<clock, main, rusage_start, cur, now, last_time, work, latency, samples>>
  BY DEF SetStart, mainVars, flowVars
<1>2. pc[t] = "set" /\ pc'[t] = "read" /\ \A u \in Threads : u # t => pc'[u] = pc[u]
  BY Moved DEF SetStart
<1>3. /\ time_start = 0 /\ now[t] \in 1..clock /\ clock \in Nat
      /\ \A u \in Threads : u # t => pc[u] \notin Inside
  BY <1>2 DEF SInv, SamplingTypeOK, StartView, MutualExclusion, Inside, Collecting
<1>4. SamplingTypeOK'
  <2>1. pc' \in [Threads -> {"loop", "lock", "test", "set", "read", "check", "stopped"}]
    BY DEF SetStart, At, SInv, SamplingTypeOK
  <2>2. time_start' \in Time /\ mutex' \in SUBSET Threads
    BY <1>1 DEF SInv, SamplingTypeOK
  <2> QED
    BY <1>1, <2>1, <2>2 DEF SInv, SamplingTypeOK
<1>5. MutualExclusion'
  BY <1>1, <1>2, <1>3 DEF SInv, MutualExclusion, Inside
<1>6. StartView'
  BY <1>1, <1>2, <1>3 DEF SInv, StartView, Inside, Collecting
<1>7. OnGrid'
  <2>1. \A f \in Flows : last_time[f] = 0 /\ SamplesOf(f) = 0
    BY <1>3 DEF SInv, OnGrid, Begins
  <2>2. \A f \in Flows : SamplesOf(f)' = SamplesOf(f)
    BY <1>1 DEF SamplesOf
  <2> QED
    BY <1>1, <2>1, <2>2 DEF OnGrid
<1>8. Owned'
  BY <1>1, <1>2, OwnedKept DEF Collecting
<1> QED
  BY <1>4, <1>5, <1>6, <1>7, <1>8 DEF SInv

LEMMA ReadStartStep == ASSUME SInv, NEW t \in Threads, ReadStart(t) PROVE SInv'
<1>1. /\ last_time' = [last_time EXCEPT ![cur[t]] = time_start]
      /\ UNCHANGED <<clock, main, rusage_start, time_start, mutex, cur, now, work, latency, samples>>
  BY DEF ReadStart, mainVars, flowVars
<1>2. pc[t] = "read" /\ pc'[t] = "check" /\ \A u \in Threads : u # t => pc'[u] = pc[u]
  BY Moved DEF ReadStart
<1>3. /\ time_start # 0 /\ time_start \in Time /\ time_start <= clock /\ cur[t] \in Flows
  BY <1>2 DEF SInv, SamplingTypeOK, StartView
<1>4. /\ last_time' \in [Flows -> Time]
      /\ \A f \in Flows : last_time'[f] = last_time[f] \/ last_time'[f] = time_start
      /\ last_time'[cur[t]] = time_start
  BY <1>1, <1>3 DEF SInv, SamplingTypeOK
<1>5. SamplingTypeOK'
  <2>1. pc' \in [Threads -> {"loop", "lock", "test", "set", "read", "check", "stopped"}]
    BY DEF ReadStart, At, SInv, SamplingTypeOK
  <2> QED
    BY <1>1, <1>4, <2>1 DEF SInv, SamplingTypeOK
<1>6. MutualExclusion'
  BY <1>1, <1>2 DEF SInv, MutualExclusion, Inside
<1>7. StartView'
  BY <1>1, <1>2, <1>3, <1>4 DEF SInv, SamplingTypeOK, StartView, Collecting
<1>8. Owner[cur[t]] = t /\ last_time[cur[t]] = 0
  BY <1>2 DEF SInv, Owned, Collecting
<1>9. \A f \in Flows : f # cur[t] => last_time'[f] = last_time[f]
  BY <1>1, <1>3 DEF SInv, SamplingTypeOK
<1>10. OnGrid'
  <2>1. \A f \in Flows : SamplesOf(f)' = SamplesOf(f)
    BY <1>1 DEF SamplesOf
  <2>2. SamplesOf(cur[t]) = 0
    BY <1>3, <1>8 DEF SInv, OnGrid
  <2>3. Begins(time_start, 0)
    <3>1. /\ time_start \in Nat /\ time_start + 0 = time_start + 0 * Interval
          /\ 0 * (Interval - 1) = 0
      BY <1>3, SamplingAssumption DEF Time
    <3>2. \E k \in Nat, lost \in 0..0 : time_start + lost = time_start + k * Interval
      BY <3>1
    <3> QED
      BY <1>3, <3>1, <3>2 DEF Begins
  <2>4. \A f \in Flows : f # cur[t] =>
          /\ last_time[f] = 0 => SamplesOf(f) = 0
          /\ last_time[f] # 0 => Begins(last_time[f], SamplesOf(f))
    BY DEF SInv, OnGrid
  <2> QED
    BY <1>1, <1>3, <1>4, <1>9, <2>1, <2>2, <2>3, <2>4 DEF OnGrid, Begins
<1>11. Owned'
  <2>1. ASSUME NEW u \in Threads, u # t, pc[u] \in Collecting
        PROVE  cur[u] # cur[t] /\ cur[u] \in Flows
    BY <1>8, <2>1 DEF SInv, Owned, SamplingTypeOK
  <2> QED
    BY <1>1, <1>2, <1>8, <1>9, <2>1 DEF SInv, Owned, Collecting
<1> QED
  BY <1>5, <1>6, <1>7, <1>10, <1>11 DEF SInv

\* The end of interval_collect.
LEMMA ReturnFacts ==
  ASSUME SInv, NEW t \in Threads, Return(t)
  PROVE  /\ pc[t] = "check" /\ pc'[t] = "loop"
         /\ \A u \in Threads : u # t =>
              pc'[u] = pc[u] /\ cur'[u] = cur[u] /\ now'[u] = now[u]
         /\ pc' \in [Threads -> {"loop", "lock", "test", "set", "read", "check", "stopped"}]
         /\ cur' \in [Threads -> Flows] /\ now' \in [Threads -> Time]
<1>1. AnyFlow \in Flows /\ 0 \in Time
  BY SamplingAssumption DEF AnyFlow, Time
<1> QED
  BY <1>1 DEF SInv, SamplingTypeOK, Return, At

LEMMA TooEarlyStep == ASSUME SInv, NEW t \in Threads, TooEarly(t) PROVE SInv'
<1>1. UNCHANGED <<clock, main, rusage_start, time_start, mutex, last_time, work, latency, samples>>
  BY DEF TooEarly, mainVars, flowVars
<1>2. Return(t)
  BY DEF TooEarly
<1>3. SamplingTypeOK'
  BY <1>1, <1>2, ReturnFacts DEF SInv, SamplingTypeOK
<1>4. MutualExclusion'
  BY <1>1, <1>2, ReturnFacts DEF SInv, MutualExclusion, Inside
<1>5. StartView'
  BY <1>1, <1>2, ReturnFacts DEF SInv, StartView, Collecting
<1>6. OnGrid'
  BY <1>1, GridKept DEF SInv, SamplingTypeOK
<1>7. Owned'
  BY <1>1, <1>2, ReturnFacts, OwnedKept DEF Collecting
<1> QED
  BY <1>3, <1>4, <1>5, <1>6, <1>7 DEF SInv

\* What get_next_time can return: whole intervals, at least one and at most
\* what has passed, less a tick or not.
LEMMA NextTimes ==
  ASSUME NEW last \in Nat, NEW d \in Nat, d >= Interval, NEW next \in NextTime(last, d)
  PROVE  \E q \in Nat, e \in {0, 1} :
           /\ q * Interval \in Nat /\ q * Interval >= Interval /\ q * Interval <= d
           /\ next = last + q * Interval - e
<1> DEFINE w == d \div Interval
<1>1. w \in Nat /\ w * Interval \in Nat /\ w * Interval <= d /\ d < w * Interval + Interval
  BY WholeIntervals
<1>2. PICK q \in Whole(d), e \in {0, 1} : next = last + q * Interval - e
  BY DEF NextTime
<1>3. w >= 1
  <2>1. CASE w = 0
    BY <1>1, <2>1, SamplingAssumption
  <2> QED
    BY <1>1, <2>1
<1>4. q \in Nat /\ q >= 1 /\ q <= w
  BY <1>1, <1>2, <1>3 DEF Whole
<1> HIDE DEF w
<1>5. /\ (q - 1) * Interval \in Nat /\ (w - q) * Interval \in Nat
      /\ q * Interval = (q - 1) * Interval + Interval
      /\ w * Interval = q * Interval + (w - q) * Interval
  BY <1>1, <1>4, SamplingAssumption
<1>6. q * Interval \in Nat /\ q * Interval >= Interval /\ q * Interval <= d
  BY <1>1, <1>4, <1>5, SamplingAssumption
<1> QED
  BY <1>2, <1>4, <1>6

\* The next interval of a flow that gets its sample n + 1.
LEMMA NextOnGrid ==
  ASSUME SInv, NEW t \in Threads, pc[t] = "check", Duration(t) >= Interval,
         NEW next \in NextTime(last_time[cur[t]], Duration(t))
  PROVE  /\ next \in Time /\ next # 0
         /\ Begins(next, SamplesOf(cur[t]) + 1)
<1> DEFINE f == cur[t]
           last == last_time[f]
           d == Duration(t)
           n == SamplesOf(f)
<1>1. f \in Flows /\ last # 0 /\ now[t] \in 1..clock /\ clock \in Nat /\ clock <= MaxTime
  BY DEF SInv, SamplingTypeOK, StartView, Collecting
<1>2. Begins(last, n)
  BY <1>1 DEF SInv, OnGrid
<1>3. time_start # 0 /\ time_start \in Nat /\ last \in Nat /\ n \in Nat
  <2>1. SamplingTypeOK
    BY DEF SInv
  <2>2. n \in Nat
    BY <1>1, <2>1, SamplesOfType
  <2>3. time_start # 0
    BY <1>2 DEF Begins
  <2> QED
    BY <1>1, <2>1, <2>2, <2>3, SamplingAssumption DEF SamplingTypeOK, Time
<1>4. d \in Nat /\ d = now[t] - last
  BY <1>1, <1>3, SamplingAssumption DEF Duration
<1>5. PICK q \in Nat, e \in {0, 1} :
        /\ q * Interval \in Nat /\ q * Interval >= Interval /\ q * Interval <= d
        /\ next = last + q * Interval - e
  BY <1>3, <1>4, NextTimes
<1>6. PICK k \in Nat, lost \in 0..n : last + lost = time_start + k * Interval
  BY <1>2 DEF Begins
<1> HIDE DEF f, last, d, n
<1>7. next \in Nat /\ next <= clock /\ next <= MaxTime /\ next # 0 /\ next >= last + Interval - 1
  BY <1>1, <1>3, <1>4, <1>5, SamplingAssumption
<1>8. lost + e \in 0..n + 1 /\ k + q \in Nat
  BY <1>3, <1>5, <1>6
<1>9. next + (lost + e) = time_start + (k + q) * Interval
  <2>1. k * Interval \in Nat /\ k * Interval + q * Interval = (k + q) * Interval
    BY <1>5, Multiple, Distribute
  <2> QED
    BY <1>3, <1>5, <1>6, <2>1
<1>10. next >= time_start + (n + 1) * (Interval - 1)
  <2>1. (n + 1) * (Interval - 1) = n * (Interval - 1) + (Interval - 1) /\ n * (Interval - 1) \in Nat
    BY <1>3, SamplingAssumption
  <2>2. last >= time_start + n * (Interval - 1)
    BY <1>2 DEF Begins
  <2> QED
    BY <1>3, <1>7, <2>1, <2>2, SamplingAssumption
<1>11. Begins(next, n + 1)
  <2>1. \E kk \in Nat, ll \in 0..n + 1 : next + ll = time_start + kk * Interval
    BY <1>8, <1>9
  <2> QED
    BY <1>3, <1>7, <1>10, <2>1 DEF Begins
<1> QED
  BY <1>7, <1>11, SamplingAssumption DEF f, n, Time

\* What Collect does to the lists, seen from the flows.
LEMMA CollectCounts ==
  ASSUME SInv, NEW t \in Threads, NEW s \in Sample, Owner[s.flow] = t,
         samples' = [samples EXCEPT ![t] = <<s>> \o @]
  PROVE  /\ SamplesOf(s.flow)' = SamplesOf(s.flow) + 1
         /\ \A g \in Flows : g # s.flow => SamplesOf(g)' = SamplesOf(g)
<1> DEFINE seq == samples[t]
           new == <<s>> \o seq
<1>1. /\ seq \in Seq(Sample) /\ samples'[t] = new
      /\ \A u \in Threads : u # t => samples'[u] = samples[u]
  BY DEF SInv, SamplingTypeOK
<1>2. Len(new) = Len(seq) + 1 /\ Len(seq) \in Nat
  BY <1>1, Pushing
<1>3. \A g : Count(new, g, Len(new)) = Count(seq, g, Len(seq)) + (IF s.flow = g THEN 1 ELSE 0)
  BY <1>1, <1>2, PushCount
<1>4. \A g : Count(seq, g, Len(seq)) \in Nat
  BY <1>2, CountType
<1> HIDE DEF new, seq
<1>5. SamplesOf(s.flow)' = Count(new, s.flow, Len(new)) /\ SamplesOf(s.flow) = Count(seq, s.flow, Len(seq))
  BY <1>1 DEF SamplesOf, seq
<1>6. ASSUME NEW g \in Flows, g # s.flow PROVE SamplesOf(g)' = SamplesOf(g)
  <2>1. CASE Owner[g] = t
    <3>1. SamplesOf(g)' = Count(new, g, Len(new)) /\ SamplesOf(g) = Count(seq, g, Len(seq))
      BY <1>1, <2>1 DEF SamplesOf, seq
    <3> QED
      BY <1>3, <1>4, <1>6, <3>1
  <2>2. CASE Owner[g] # t
    <3>1. Owner[g] \in Threads
      BY SamplingAssumption
    <3> QED
      BY <1>1, <2>2, <3>1 DEF SamplesOf
  <2> QED
    BY <2>1, <2>2
<1> QED
  BY <1>3, <1>5, <1>6

LEMMA CollectStep == ASSUME SInv, NEW t \in Threads, Collect(t) PROVE SInv'
<1>a. PICK f \in Flows : f = cur[t]
  BY DEF SInv, SamplingTypeOK
<1>b. PICK s \in Sample :
        s = [flow |-> f, work |-> work[f], latency |-> latency[f], timestamp |-> now[t]]
  BY <1>a DEF SInv, SamplingTypeOK, Sample
<1>0. PICK next \in NextTime(last_time[f], Duration(t)) : last_time' = [last_time EXCEPT ![f] = next]
  BY <1>a DEF Collect
<1>1. /\ Duration(t) >= Interval /\ Return(t)
      /\ samples' = [samples EXCEPT ![t] = <<s>> \o @]
      /\ latency' = [latency EXCEPT ![f] = 0]
      /\ UNCHANGED <<clock, main, rusage_start, time_start, mutex, work>>
  BY <1>a, <1>b DEF Collect, Listed, NewLatency, mainVars
<1>2. f \in Flows /\ s \in Sample /\ s.flow = f
  BY <1>b
<1>3. next \in Time /\ next # 0 /\ Begins(next, SamplesOf(f) + 1)
  <2>1. pc[t] = "check"
    BY <1>1, ReturnFacts
  <2> QED
    BY <1>a, <1>1, <2>1, NextOnGrid
<1>4. Owner[f] = t
  BY <1>a, <1>1, ReturnFacts DEF SInv, Owned, Collecting
<1>5. /\ last_time' \in [Flows -> Time] /\ last_time'[f] = next
      /\ \A g \in Flows : g # f => last_time'[g] = last_time[g]
  BY <1>0, <1>2, <1>3 DEF SInv, SamplingTypeOK
<1>6. SamplingTypeOK'
  <2>1. samples' \in [Threads -> Seq(Sample)]
    <3>1. samples[t] \in Seq(Sample) /\ <<s>> \in Seq(Sample)
      BY <1>2 DEF SInv, SamplingTypeOK
    <3>2. <<s>> \o samples[t] \in Seq(Sample)
      BY <3>1
    <3> QED
      BY <1>1, <3>2 DEF SInv, SamplingTypeOK
  <2>2. latency' \in [Flows -> Nat]
    BY <1>1, <1>2 DEF SInv, SamplingTypeOK
  <2> QED
    BY <1>1, <1>5, <2>1, <2>2, ReturnFacts DEF SInv, SamplingTypeOK
<1>7. MutualExclusion'
  BY <1>1, ReturnFacts DEF SInv, MutualExclusion, Inside
<1>8. StartView'
  <2>1. \A g \in Flows : last_time[g] # 0 => last_time'[g] # 0
    BY <1>3, <1>5
  <2>2. cur \in [Threads -> Flows]
    BY DEF SInv, SamplingTypeOK
  <2> QED
    BY <1>1, <2>1, <2>2, ReturnFacts DEF SInv, StartView, Collecting
<1>9. OnGrid'
  <2>1. /\ SamplesOf(f)' = SamplesOf(f) + 1
        /\ \A g \in Flows : g # f => SamplesOf(g)' = SamplesOf(g)
    BY <1>1, <1>2, <1>4, CollectCounts
  <2>2. Begins(last_time[f], SamplesOf(f))'
    BY <1>1, <1>3, <1>5, <2>1 DEF Begins
  <2>3. ASSUME NEW g \in Flows, g # f
        PROVE  /\ last_time'[g] = 0 => SamplesOf(g)' = 0
               /\ last_time'[g] # 0 => Begins(last_time[g], SamplesOf(g))'
    <3>1. /\ last_time[g] = 0 => SamplesOf(g) = 0
          /\ last_time[g] # 0 => Begins(last_time[g], SamplesOf(g))
      BY DEF SInv, OnGrid
    <3>2. last_time'[g] = last_time[g] /\ SamplesOf(g)' = SamplesOf(g)
      BY <1>5, <2>1, <2>3
    <3> QED
      BY <1>1, <3>1, <3>2 DEF Begins
  <2> QED
    BY <1>3, <1>5, <2>2, <2>3 DEF OnGrid
<1>10. Owned'
  <2>1. ASSUME NEW u \in Threads, u # t, pc[u] \in Collecting PROVE cur[u] # f /\ cur[u] \in Flows
    BY <1>4, <2>1 DEF SInv, Owned, SamplingTypeOK
  <2> QED
    BY <1>1, <1>5, <2>1, ReturnFacts DEF SInv, Owned, Collecting
<1> QED
  BY <1>6, <1>7, <1>8, <1>9, <1>10 DEF SInv

----------------------------------------------------------------------------
(* The theorems.                                                           *)

\* Every step of the main thread and the workers keeps the invariant.
THEOREM SamplingInv == Spec => []SInv
<1>1. Init => SInv
  BY SInvInit
<1>2. ASSUME SInv, [Next]_vars PROVE SInv'
  <2>1. ASSUME NEW t \in Threads, WorkerStep(t) PROVE SInv'
    BY <1>2, <2>1, TransferStep, CriticalStep, SetStartStep, ReadStartStep, TooEarlyStep,
       CollectStep
    DEF WorkerStep
  <2> QED
    BY <1>2, <2>1, ClockStep, MainStep DEF Next, Finished
<1> QED
  BY <1>1, <1>2, PTL DEF Spec

\* Timestamps, counters and lists of samples keep their types.
THEOREM SamplingTypes == Spec => []SamplingTypeOK
<1>1. SInv => SamplingTypeOK
  BY DEF SInv
<1> QED
  BY <1>1, SamplingInv, PTL

\* The intervals of all flows stay on one grid, but for a tick per sample,
\* however late the packets come and however many intervals pass without one.
THEOREM IntervalsAligned == Spec => []Aligned
BY SamplingInv, GridIsAligned, PTL

\* ensure_initialized sets the start of the measurement once: its double
\* check under time_start_mutex works for any number of threads.
THEOREM OneStart == Spec => StartSetOnce
<1>1. ASSUME SInv, [Next]_vars PROVE [time_start # 0 => time_start' = time_start]_vars
  <2> SUFFICES ASSUME time_start # 0, Next PROVE time_start' = time_start
    BY <1>1
  <2>1. ASSUME NEW t \in Threads, WorkerStep(t) PROVE time_start' = time_start
    <3>1. ~SetStart(t)
      BY <1>1, Moved DEF SetStart, SInv, StartView
    <3> QED
      BY <2>1, <3>1
      DEF WorkerStep, Transfer, Lock, StartKnown, FirstPacket, ReadStart, TooEarly, Collect, Stop
  <2> QED
    BY <2>1 DEF Next, Tick, MainStarts, MainEnds, Finished, vars
<1> QED
  BY <1>1, SamplingInv, PTL DEF Spec, StartSetOnce

----------------------------------------------------------------------------
(* The lists of samples.                                                   *)

LEMMA SampleTypes ==
  ASSUME SInv, NEW t \in Threads, NEW i \in 1..Len(samples[t])
  PROVE  /\ samples[t][i] \in Sample
         /\ samples[t][i].flow \in Flows /\ samples[t][i].timestamp \in Nat
<1>1. samples[t] \in Seq(Sample)
  BY DEF SInv, SamplingTypeOK
<1>2. samples[t][i] \in Sample
  BY <1>1
<1> QED
  BY <1>2, SamplingAssumption DEF Sample, Time

\* Steps that leave the lists alone.
LEMMA ListKept ==
  ASSUME SInv, SInv', ListInv, UNCHANGED <<time_start, samples>>, clock <= clock',
         \A f \in Flows : last_time[f] # 0 => last_time'[f] # 0,
         \A t \in Threads : pc'[t] \in Collecting =>
           \/ pc[t] \in Collecting /\ now'[t] = now[t]
           \/ now'[t] = clock
  PROVE  ListInv'
<1>1. clock \in Nat /\ clock' \in Nat
  BY DEF SInv, SamplingTypeOK
<1>2. ASSUME NEW t \in Threads, NEW i \in 1..Len(samples'[t]) PROVE Recorded(t, samples[t][i])'
  <2>1. /\ Recorded(t, samples[t][i]) /\ samples[t][i].timestamp \in Nat
        /\ samples[t][i].flow \in Flows
    BY <1>2, SampleTypes DEF ListInv
  <2> QED
    BY <1>1, <2>1 DEF Recorded
<1>3. SampleRateBounded'
  BY DEF ListInv, SampleRateBounded
<1> QED
  BY <1>2, <1>3 DEF ListInv

LEMMA ListSetStart ==
  ASSUME SInv, SInv', ListInv, NEW t \in Threads, SetStart(t)
  PROVE  ListInv'
<1>1. UNCHANGED samples /\ pc[t] = "set"
  BY Moved DEF SetStart
\* Nobody has a sample yet.
<1>2. ASSUME NEW u \in Threads, NEW i \in 1..Len(samples[u]) PROVE FALSE
  <2>1. last_time[samples[u][i].flow] # 0 /\ samples[u][i].flow \in Flows
    BY <1>2, SampleTypes DEF ListInv, Recorded
  <2>2. time_start = 0
    BY <1>1 DEF SInv, StartView
  <2> QED
    BY <2>1, <2>2 DEF SInv, OnGrid, Begins
<1>3. SampleRateBounded'
  BY <1>1, <1>2 DEF SampleRateBounded
<1> QED
  BY <1>1, <1>2, <1>3 DEF ListInv

LEMMA ListReadStart ==
  ASSUME SInv, SInv', ListInv, NEW t \in Threads, ReadStart(t)
  PROVE  ListInv'
<1>1. /\ UNCHANGED <<clock, time_start, cur, now, samples>>
      /\ pc[t] = "read" /\ \A u \in Threads : u # t => pc'[u] = pc[u]
  BY Moved DEF ReadStart, flowVars
<1>2. time_start # 0 /\ clock \in Nat
  BY <1>1 DEF SInv, StartView, SamplingTypeOK
<1>3. \A f \in Flows : last_time[f] # 0 => last_time'[f] # 0
  BY <1>2 DEF ReadStart, SInv, SamplingTypeOK
<1> QED
  BY <1>1, <1>2, <1>3, ListKept DEF Collecting

\* add_sample: the flow's sample n + 1 is an interval away from the begin of
\* the interval that the n before have moved.
LEMMA ListCollect ==
  ASSUME SInv, SInv', ListInv, NEW t \in Threads, Collect(t)
  PROVE  ListInv'
<1> DEFINE f == cur[t]
           last == last_time[f]
           s == [flow |-> f, work |-> work[f], latency |-> latency[f], timestamp |-> now[t]]
           seq == samples[t]
           len == Len(seq)
           n == SamplesOf(f)
<1>1. /\ Duration(t) >= Interval /\ Return(t)
      /\ samples' = [samples EXCEPT ![t] = <<s>> \o @]
      /\ UNCHANGED <<clock, time_start>>
  BY DEF Collect, Listed
<1>2. /\ pc[t] = "check" /\ pc'[t] = "loop"
      /\ \A u \in Threads : u # t => pc'[u] = pc[u] /\ now'[u] = now[u]
  BY <1>1, ReturnFacts
<1>3. /\ f \in Flows /\ Owner[f] = t /\ last # 0 /\ now[t] \in 1..clock /\ clock \in Nat
      /\ s \in Sample
  BY <1>2 DEF SInv, StartView, Owned, Collecting, SamplingTypeOK, Sample
<1>4. /\ last \in Nat /\ time_start \in Nat /\ n \in Nat
      /\ last >= time_start + n * (Interval - 1)
  <2>1. SamplingTypeOK
    BY DEF SInv
  <2>2. n \in Nat
    BY <1>3, <2>1, SamplesOfType
  <2>3. Begins(last, n)
    BY <1>3 DEF SInv, OnGrid
  <2>4. last >= time_start + n * (Interval - 1)
    BY <2>3 DEF Begins
  <2> QED
    BY <1>3, <2>1, <2>2, <2>4, SamplingAssumption DEF SamplingTypeOK, Time
<1>5. s.flow = f /\ s.timestamp = now[t]
  OBVIOUS
<1>6. /\ seq \in Seq(Sample) /\ len \in Nat /\ samples'[t] = <<s>> \o seq
      /\ \A u \in Threads : u # t => samples'[u] = samples[u]
  BY <1>1 DEF SInv, SamplingTypeOK
\* The rate: n whole intervals less n ticks, and one more interval.
<1>7. now[t] - time_start >= (n + 1) * Interval - ((n + 1) - 1)
  <2>1. now[t] - last >= Interval
    BY <1>1 DEF Duration
  <2>2. /\ (n + 1) * Interval - ((n + 1) - 1) = n * (Interval - 1) + Interval
        /\ n * (Interval - 1) \in Nat
    BY <1>4, SamplingAssumption
  <2> HIDE DEF last, n
  <2> QED
    BY <1>3, <1>4, <2>1, <2>2, SamplingAssumption
<1> HIDE DEF s
<1>8. /\ Len(samples'[t]) = len + 1
      /\ samples'[t][1] = s
      /\ \A i \in 2..len + 1 : samples'[t][i] = seq[i - 1] /\ i - 1 \in 1..len
      /\ FromOldest(samples'[t], len + 1) = s
      /\ \A p \in 1..len : FromOldest(samples'[t], p) = FromOldest(seq, p)
      /\ \A g : \A p \in 0..len : Count(samples'[t], g, p) = Count(seq, g, p)
      /\ Count(samples'[t], f, len + 1) = n + 1
  <2>1. Count(<<s>> \o seq, f, len + 1) = Count(seq, f, len) + 1
    BY <1>3, <1>5, <1>6, PushCount
  <2>2. n = Count(seq, f, len)
    BY <1>3 DEF SamplesOf
  <2>3. ASSUME NEW g, NEW p \in 0..len PROVE Count(<<s>> \o seq, g, p) = Count(seq, g, p)
    BY <1>3, <1>6, OlderCount
  <2>4. /\ Len(<<s>> \o seq) = len + 1 /\ (<<s>> \o seq)[1] = s
        /\ \A i \in 2..len + 1 : (<<s>> \o seq)[i] = seq[i - 1] /\ i - 1 \in 1..len
    BY <1>3, <1>6, Pushing
  <2>5. /\ FromOldest(<<s>> \o seq, len + 1) = s
        /\ \A p \in 1..len : FromOldest(<<s>> \o seq, p) = FromOldest(seq, p)
    BY <1>3, <1>6, PushOldest
  <2> HIDE DEF n
  <2> QED
    BY <1>6, <2>1, <2>2, <2>3, <2>4, <2>5
<1>9. \A g \in Flows : last_time[g] # 0 => last_time'[g] # 0
  <2>1. ASSUME NEW g \in Flows, last_time[g] # 0, last_time'[g] = 0 PROVE FALSE
    <3>1. PICK next \in NextTime(last, Duration(t)) : last_time' = [last_time EXCEPT ![f] = next]
      BY DEF Collect
    <3>2. next # 0
      BY <1>1, <1>2, NextOnGrid
    <3> QED
      BY <1>3, <2>1, <3>1, <3>2 DEF SInv, SamplingTypeOK
  <2> QED
    BY <2>1
<1>10. ASSUME NEW u \in Threads, NEW i \in 1..Len(samples'[u]) PROVE Recorded(u, samples[u][i])'
  <2>1. ASSUME NEW j \in 1..Len(samples[u]), samples'[u][i] = samples[u][j]
        PROVE  Recorded(u, samples[u][i])'
    <3>1. Recorded(u, samples[u][j]) /\ samples[u][j].flow \in Flows
      BY SampleTypes DEF ListInv
    <3> QED
      BY <1>1, <1>2, <1>9, <2>1, <3>1 DEF Recorded, Collecting
  <2>2. CASE u # t
    BY <1>6, <2>1, <2>2
  <2>3. CASE u = t /\ i = 1
    BY <1>1, <1>2, <1>3, <1>5, <1>8, <1>9, <2>3 DEF Recorded, Collecting
  <2>4. CASE u = t /\ i # 1
    <3>1. i \in 2..len + 1
      BY <1>6, <1>8, <1>10, <2>4
    <3> QED
      BY <1>8, <2>1, <2>4, <3>1
  <2> QED
    BY <2>2, <2>3, <2>4
<1>11. SampleRateBounded'
  <2> DEFINE At1(u, p) == FromOldest(samples[u], p)
             New(u, p) == FromOldest(samples'[u], p)
             Rate(c, x) == x - time_start >= c * Interval - (c - 1)
  <2> SUFFICES ASSUME NEW u \in Threads, NEW p \in 1..Len(samples'[u])
               PROVE  /\ Rate(Count(samples'[u], New(u, p).flow, p), New(u, p).timestamp)
                      /\ \A q \in 1..p-1 : New(u, q).timestamp <= New(u, p).timestamp
    BY <1>1 DEF SampleRateBounded
  <2>1. ASSUME NEW v \in Threads, NEW r \in 1..Len(samples[v])
        PROVE  /\ Rate(Count(samples[v], At1(v, r).flow, r), At1(v, r).timestamp)
               /\ \A q \in 1..r-1 : At1(v, q).timestamp <= At1(v, r).timestamp
    BY DEF ListInv, SampleRateBounded
  <2>2. CASE u # t
    BY <1>6, <2>1, <2>2
  <2>3. CASE u = t /\ p = len + 1
    <3>1. New(u, p) = s /\ Count(samples'[u], f, p) = n + 1
      BY <1>8, <2>3
    <3>2. Rate(Count(samples'[u], New(u, p).flow, p), New(u, p).timestamp)
      <4> HIDE DEF n
      <4> QED
        BY <1>5, <1>7, <3>1
    <3>3. ASSUME NEW q \in 1..p-1 PROVE New(u, q).timestamp <= New(u, p).timestamp
      <4>1. q \in 1..len /\ len + 1 - q \in 1..len
        BY <1>6, <2>3
      <4>2. New(u, q) = seq[len + 1 - q]
        BY <1>8, <2>3, <4>1 DEF FromOldest
      <4>3. Recorded(t, seq[len + 1 - q])
        BY <4>1 DEF ListInv
      <4> QED
        BY <1>2, <1>5, <3>1, <4>2, <4>3 DEF Recorded, Collecting
    <3> QED
      BY <3>2, <3>3
  <2>4. CASE u = t /\ p # len + 1
    <3>1. p \in 1..len /\ p \in 0..len /\ \A q \in 1..p-1 : q \in 1..len
      BY <1>6, <1>8, <2>4
    <3>2. /\ New(u, p) = At1(t, p) /\ \A q \in 1..p-1 : New(u, q) = At1(t, q)
          /\ \A g : Count(samples'[u], g, p) = Count(samples[t], g, p)
      BY <1>8, <2>4, <3>1
    <3>3. /\ Rate(Count(samples[t], At1(t, p).flow, p), At1(t, p).timestamp)
          /\ \A q \in 1..p-1 : At1(t, q).timestamp <= At1(t, p).timestamp
      BY <2>1, <3>1
    <3> HIDE DEF At1, New, Rate
    <3> QED
      BY <3>2, <3>3
  <2> QED
    BY <2>2, <2>3, <2>4
<1> QED
  BY <1>10, <1>11 DEF ListInv

LEMMA ListStep == SInv /\ SInv' /\ ListInv /\ [Next]_vars => ListInv'
<1> SUFFICES ASSUME SInv, SInv', ListInv, [Next]_vars PROVE ListInv'
  OBVIOUS
<1>0. clock \in Nat
  BY DEF SInv, SamplingTypeOK
<1>1. CASE Tick \/ MainStarts \/ MainEnds \/ UNCHANGED vars
  <2>1. UNCHANGED <<time_start, last_time, samples, pc, cur, now>> /\ clock <= clock'
    BY <1>0, <1>1 DEF Tick, MainStarts, MainEnds, vars, threadVars
  <2> QED
    BY <2>1, ListKept
<1>2. ASSUME NEW t \in Threads, NEW f \in Flows, Transfer(t, f) PROVE ListInv'
  <2>1. /\ UNCHANGED <<time_start, last_time, samples, clock>>
        /\ pc'[t] = IF KnowsStart(f) THEN "check" ELSE "lock"
        /\ \A u \in Threads : u # t => pc'[u] = pc[u]
    BY <1>2, Moved DEF Transfer
  <2>2. /\ cur'[t] = f /\ now'[t] = clock /\ Owner[f] = t
        /\ \A u \in Threads : u # t => cur'[u] = cur[u] /\ now'[u] = now[u]
    BY <1>2 DEF Transfer, SInv, SamplingTypeOK
  <2> QED
    BY <1>0, <2>1, <2>2, ListKept DEF KnowsStart
<1>3. ASSUME NEW t \in Threads, Lock(t) \/ StartKnown(t) \/ FirstPacket(t) \/ Stop(t)
      PROVE  ListInv'
  <2>1. UNCHANGED <<time_start, last_time, samples, clock, cur, now>>
    BY <1>3 DEF Lock, StartKnown, FirstPacket, Stop
  <2>2. /\ \A u \in Threads : u # t => pc'[u] = pc[u]
        /\ pc'[t] = "stopped" \/ pc[t] \in {"lock", "test"}
    BY <1>3, Moved DEF Lock, StartKnown, FirstPacket, Stop
  <2> QED
    BY <1>0, <2>1, <2>2, ListKept DEF Collecting
<1>4. ASSUME NEW t \in Threads, TooEarly(t) PROVE ListInv'
  <2>1. UNCHANGED <<time_start, last_time, samples, clock>> /\ Return(t)
    BY <1>4 DEF TooEarly
  <2> QED
    BY <1>0, <2>1, ReturnFacts, ListKept DEF Collecting
<1>5. ASSUME NEW t \in Threads, WorkerStep(t) PROVE ListInv'
  BY <1>2, <1>3, <1>4, <1>5, ListSetStart, ListReadStart, ListCollect DEF WorkerStep
<1> QED
  BY <1>1, <1>5 DEF Next, Finished

\* The invariant of the lists, for the theorems below.
LEMMA ListHolds == Spec => []ListInv
<1>1. ASSUME Init PROVE ListInv
  <2>1. \A t \in Threads : Len(samples[t]) = 0
    BY <1>1 DEF Init
  <2> QED
    BY <2>1 DEF ListInv, SampleRateBounded
<1> QED
  BY <1>1, ListStep, SamplingInv, PTL DEF Spec

\* Whatever the threads, however late the packets and whatever the doubles are
\* rounded to, the n-th sample of a flow is n intervals, less n - 1 ticks,
\* away from the start, and the list of a worker is in the order of time.
THEOREM SamplesInOrder == Spec => []SampleRateBounded
<1>1. ListInv => SampleRateBounded
  BY DEF ListInv
<1> QED
  BY <1>1, ListHolds, PTL

----------------------------------------------------------------------------
(* The latencies.                                                          *)

\* LatencyAccounted, part by part: what the newest sample of a flow leaves to
\* the next one, and what is in a sample that has a predecessor.
Newest(t, i) == \A k \in 1..i-1 : samples[t][k].flow # samples[t][i].flow

Waiting(t, i) ==
  Newest(t, i) => latency[samples[t][i].flow] = work[samples[t][i].flow] - samples[t][i].work

Contained(t, i) ==
  \A j \in 1..Len(samples[t]) :
    IsNext(t, i, j) => samples[t][i].latency = samples[t][i].work - samples[t][j].work

LEMMA LatencyParts ==
  LatencyAccounted <=>
    \A t \in Threads : \A i \in 1..Len(samples[t]) : Waiting(t, i) /\ Contained(t, i)
BY DEF LatencyAccounted, Waiting, Contained, Newest

\* Steps that neither transfer nor sample.
LEMMA LatencyKept ==
  ASSUME LatencyAccounted, UNCHANGED <<work, latency, samples>>
  PROVE  LatencyAccounted'
BY DEF LatencyAccounted, IsNext

LEMMA LatencyTransfer ==
  ASSUME SInv, LatencyAccounted, NEW t \in Threads, NEW f \in Flows, Transfer(t, f)
  PROVE  LatencyAccounted'
<1>1. /\ samples' = samples
      /\ \A g \in Flows : /\ work[g] \in Nat /\ latency[g] \in Nat
                          /\ g # f => work'[g] = work[g] /\ latency'[g] = latency[g]
      /\ work'[f] = work[f] + 1 /\ latency'[f] = latency[f] + 1
  BY DEF Transfer, SInv, SamplingTypeOK
<1>2. ASSUME NEW u \in Threads, NEW i \in 1..Len(samples[u])
      PROVE  Waiting(u, i)' /\ Contained(u, i)'
  <2>1. Waiting(u, i) /\ Contained(u, i)
    BY <1>2, LatencyParts
  <2>2. samples[u][i] \in Sample /\ samples[u][i].flow \in Flows
    BY <1>2, SampleTypes
  <2>3. samples[u][i].work \in Nat
    BY <2>2 DEF Sample
  <2>4. Waiting(u, i)'
    <3>1. SUFFICES ASSUME Newest(u, i)
                   PROVE  latency'[samples[u][i].flow]
                            = work'[samples[u][i].flow] - samples[u][i].work
      BY <1>1 DEF Waiting, Newest
    <3>2. latency[samples[u][i].flow] = work[samples[u][i].flow] - samples[u][i].work
      BY <2>1, <3>1 DEF Waiting
    <3>3. CASE samples[u][i].flow = f
      BY <1>1, <2>3, <3>2, <3>3
    <3>4. CASE samples[u][i].flow # f
      BY <1>1, <2>2, <3>2, <3>4
    <3> QED
      BY <3>3, <3>4
  <2>5. Contained(u, i)'
    BY <1>1, <2>1 DEF Contained, IsNext
  <2> QED
    BY <2>4, <2>5
<1>3. \A u \in Threads : \A i \in 1..Len(samples'[u]) : Waiting(u, i)' /\ Contained(u, i)'
  BY <1>1, <1>2
<1> QED
  BY <1>3 DEF LatencyAccounted, Waiting, Contained, Newest

\* add_sample: the list of latencies goes to the sample, which is the newest
\* of its flow; nobody else has samples of that flow.
LEMMA LatencyCollect ==
  ASSUME SInv, ListInv, LatencyAccounted, NEW t \in Threads, Collect(t)
  PROVE  LatencyAccounted'
<1> DEFINE f == cur[t]
           s == [flow |-> f, work |-> work[f], latency |-> latency[f], timestamp |-> now[t]]
           n == Len(samples[t])
<1>1. /\ samples' = [samples EXCEPT ![t] = <<s>> \o @]
      /\ latency' = [latency EXCEPT ![f] = 0] /\ work' = work
  BY DEF Collect, Listed, NewLatency
<1>2. f \in Flows /\ s \in Sample /\ pc[t] = "check" /\ Owner[f] = t
  <2>1. pc[t] = "check"
    BY ReturnFacts DEF Collect
  <2> QED
    BY <2>1 DEF Owned, Collecting, SInv, SamplingTypeOK, Sample
<1>3. s.flow = f /\ s.work = work[f] /\ s.latency = latency[f] /\ work[f] \in Nat
  BY <1>2 DEF SInv, SamplingTypeOK
<1>4. latency'[f] = 0 /\ \A g \in Flows : g # f => latency'[g] = latency[g]
  BY <1>1, <1>2 DEF SInv, SamplingTypeOK
<1>5. /\ \A u \in Threads : u # t => samples'[u] = samples[u]
      /\ Len(samples'[t]) = n + 1 /\ n \in Nat
      /\ samples'[t][1] = s
      /\ \A i \in 2..n + 1 : samples'[t][i] = samples[t][i - 1] /\ i - 1 \in 1..n
  <2>1. samples'[t] = <<s>> \o samples[t] /\ \A u \in Threads : u # t => samples'[u] = samples[u]
    BY <1>1 DEF SInv, SamplingTypeOK
  <2>2. samples[t] \in Seq(Sample)
    BY DEF SInv, SamplingTypeOK
  <2> HIDE DEF s
  <2> QED
    BY <1>2, <2>1, <2>2, Pushing
<1> HIDE DEF s, f
<1>6. ASSUME NEW u \in Threads, u # t, NEW i \in 1..Len(samples'[u])
      PROVE  Waiting(u, i)' /\ Contained(u, i)'
  <2>1. i \in 1..Len(samples[u]) /\ samples'[u] = samples[u]
    BY <1>5, <1>6
  <2>2. Waiting(u, i) /\ Contained(u, i)
    BY <2>1, LatencyParts
  <2>3. samples[u][i].flow \in Flows /\ samples[u][i].flow # f
    BY <1>2, <1>6, <2>1, SampleTypes DEF ListInv, Recorded
  <2>4. Waiting(u, i)'
    BY <1>1, <1>4, <2>1, <2>2, <2>3 DEF Waiting, Newest
  <2>5. Contained(u, i)'
    BY <2>1, <2>2 DEF Contained, IsNext
  <2> QED
    BY <2>4, <2>5
<1>7. Waiting(t, 1)' /\ Contained(t, 1)'
  <2>1. Waiting(t, 1)'
    BY <1>1, <1>3, <1>4, <1>5 DEF Waiting
  <2>2. ASSUME NEW j \in 1..Len(samples'[t]), IsNext(t, 1, j)'
        PROVE  s.latency = s.work - samples'[t][j].work
    <3>1. /\ j \in 2..n + 1 /\ samples'[t][j] = samples[t][j - 1] /\ j - 1 \in 1..n
      BY <1>5, <2>2 DEF IsNext
    <3>2. samples[t][j - 1].flow = f
      BY <1>3, <1>5, <2>2, <3>1 DEF IsNext
    <3>3. ASSUME NEW k \in 1..(j - 1) - 1 PROVE samples[t][k].flow # f
      <4>1. k + 1 \in 1+1..j-1 /\ k + 1 \in 2..n + 1 /\ (k + 1) - 1 = k
        BY <1>5, <3>1
      <4>2. samples'[t][k + 1].flow # f
        BY <1>3, <1>5, <2>2, <4>1 DEF IsNext
      <4> QED
        BY <1>5, <4>1, <4>2
    <3>4. Waiting(t, j - 1)
      BY <3>1, LatencyParts
    <3> QED
      BY <1>3, <3>1, <3>2, <3>3, <3>4 DEF Waiting, Newest
  <2>3. Contained(t, 1)'
    BY <1>5, <2>2 DEF Contained
  <2> QED
    BY <2>1, <2>3
<1>8. ASSUME NEW i \in 2..n + 1 PROVE Waiting(t, i)' /\ Contained(t, i)'
  <2>1. samples'[t][i] = samples[t][i - 1] /\ i - 1 \in 1..n
    BY <1>5
  <2>2. Waiting(t, i - 1) /\ Contained(t, i - 1)
    BY <2>1, LatencyParts
  <2>3. Waiting(t, i)'
    <3>1. SUFFICES ASSUME Newest(t, i)'
                   PROVE  latency'[samples[t][i - 1].flow]
                            = work[samples[t][i - 1].flow] - samples[t][i - 1].work
      BY <1>1, <2>1 DEF Waiting
    <3>2. samples[t][i - 1].flow # f /\ samples[t][i - 1].flow \in Flows
      <4>1. 1 \in 1..i-1
        BY <1>5
      <4>2. samples'[t][1].flow # samples'[t][i].flow
        BY <3>1, <4>1 DEF Newest
      <4> QED
        BY <1>3, <1>5, <2>1, <4>2, SampleTypes
    <3>3. Newest(t, i - 1)
      <4>1. ASSUME NEW k \in 1..(i - 1) - 1 PROVE samples[t][k].flow # samples[t][i - 1].flow
        <5>1. k + 1 \in 1..i-1 /\ k + 1 \in 2..n + 1 /\ (k + 1) - 1 = k
          BY <1>5
        <5>2. samples'[t][k + 1].flow # samples'[t][i].flow
          BY <3>1, <5>1 DEF Newest
        <5> QED
          BY <1>5, <2>1, <5>1, <5>2
      <4> QED
        BY <4>1 DEF Newest
    <3> QED
      BY <1>4, <2>2, <3>2, <3>3 DEF Waiting
  <2>4. ASSUME NEW j \in 1..Len(samples'[t]), IsNext(t, i, j)'
        PROVE  samples'[t][i].latency = samples'[t][i].work - samples'[t][j].work
    <3>1. j \in 2..n + 1 /\ samples'[t][j] = samples[t][j - 1] /\ j - 1 \in 1..n
      BY <1>5, <2>4 DEF IsNext
    <3>2. i < j /\ samples'[t][i].flow = samples'[t][j].flow
      BY <2>4 DEF IsNext
    <3>3. i \in Nat /\ i >= 2 /\ j \in Nat /\ j <= n + 1 /\ n \in Nat
      <4>1. n \in Nat
        BY <1>5
      <4> HIDE DEF n
      <4> QED
        BY <3>1, <4>1
    <3>4. ASSUME NEW k \in (i - 1)+1..(j - 1)-1 PROVE samples[t][k].flow # samples[t][i - 1].flow
      <4>1. k + 1 \in i+1..j-1 /\ k + 1 \in 2..n + 1 /\ (k + 1) - 1 = k
        BY <3>3
      <4>2. samples'[t][k + 1].flow # samples'[t][i].flow
        BY <2>4, <4>1 DEF IsNext
      <4> QED
        BY <1>5, <2>1, <4>1, <4>2
    <3>5. i - 1 < j - 1
      BY <3>1, <3>2
    <3>6. IsNext(t, i - 1, j - 1)
      BY <2>1, <3>1, <3>2, <3>4, <3>5 DEF IsNext
    <3> QED
      BY <2>1, <2>2, <3>1, <3>6 DEF Contained
  <2>5. Contained(t, i)'
    BY <2>4 DEF Contained
  <2> QED
    BY <2>3, <2>5
<1>9. \A u \in Threads : \A i \in 1..Len(samples'[u]) : Waiting(u, i)' /\ Contained(u, i)'
  <2> SUFFICES ASSUME NEW u \in Threads, NEW i \in 1..Len(samples'[u])
               PROVE  Waiting(u, i)' /\ Contained(u, i)'
    OBVIOUS
  <2>1. CASE u # t
    BY <1>6, <2>1
  <2>2. CASE u = t /\ i = 1
    BY <1>7, <2>2
  <2>3. CASE u = t /\ i # 1
    <3>1. i \in 2..n + 1
      BY <1>5, <2>3
    <3> QED
      BY <1>8, <2>3, <3>1
  <2> QED
    BY <2>1, <2>2, <2>3
<1> QED
  BY <1>9 DEF LatencyAccounted, Waiting, Contained, Newest

\* No latency is lost, none is counted twice.
THEOREM LatenciesAccounted == Spec => []LatencyAccounted
<1>1. ASSUME Init PROVE LatencyAccounted
  <2>1. \A t \in Threads : Len(samples[t]) = 0
    BY <1>1 DEF Init
  <2> QED
    BY <2>1 DEF LatencyAccounted
<1>2. ASSUME SInv, ListInv, LatencyAccounted, [Next]_vars PROVE LatencyAccounted'
  <2>1. ASSUME NEW t \in Threads,
               Lock(t) \/ StartKnown(t) \/ FirstPacket(t) \/ SetStart(t) \/ ReadStart(t)
               \/ TooEarly(t) \/ Stop(t)
        PROVE  LatencyAccounted'
    BY <1>2, <2>1, LatencyKept
       DEF Lock, StartKnown, FirstPacket, SetStart, ReadStart, TooEarly, Stop, flowVars
  <2>2. ASSUME NEW t \in Threads, WorkerStep(t) PROVE LatencyAccounted'
    BY <1>2, <2>1, <2>2, LatencyTransfer, LatencyCollect DEF WorkerStep
  <2>3. CASE Tick \/ MainStarts \/ MainEnds \/ UNCHANGED vars
    BY <1>2, <2>3, LatencyKept DEF Tick, MainStarts, MainEnds, vars, flowVars
  <2> QED
    BY <1>2, <2>2, <2>3 DEF Next, Finished
<1> QED
  BY <1>1, <1>2, SamplingInv, ListHolds, PTL DEF Spec

============================================================================
