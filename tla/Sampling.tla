------------------------------ MODULE Sampling ------------------------------
(***************************************************************************)
(* How the workers of one process sample their flows (interval.c,          *)
(* add_sample of sample.c), and how the start of the measurement is shared *)
(* between the workers and the main thread (struct rusage_interval of      *)
(* thread.c).                                                              *)
(*                                                                         *)
(* Time is counted in ticks: a tick is a nanosecond of CLOCK_MONOTONIC.    *)
(* What interval.c computes in doubles is a choice among the values that   *)
(* rounding can give.  A timestamp of 0 is an uninitialised one.  What     *)
(* getrusage() returns is modelled by when it was called.                  *)
(***************************************************************************)
EXTENDS Integers, Sequences, FiniteSets

CONSTANTS
  Threads,     \* worker threads
  Flows,       \* data connections
  Owner,       \* the thread that handles each flow
  Interval,    \* opts->interval, in ticks
  MaxTime,     \* bound on the clock
  MaxWork      \* bound on the transfers of each flow

ASSUME SamplingAssumption ==
  /\ Owner \in [Flows -> Threads]
  /\ Flows # {}
  /\ Interval \in Nat \ {0}
  /\ MaxTime \in Nat \ {0}
  /\ MaxWork \in [Flows -> Nat]

VARIABLES
  clock,
  main,          \* the main thread in run_worker_threads
  time_start,    \* when the first packet came
  rusage_start,  \* when the resource usage at the start was taken
  mutex,         \* threads in the critical section of time_start_mutex
  pc, cur, now,  \* each worker: where it is, and flow and now of interval_collect
  last_time,     \* itv->last_time of each flow
  work,          \* bytes_read, or transactions, of each flow
  latency,       \* entries of the latency list of each flow
  samples        \* samples of each worker, newest first

mainVars   == <<main, rusage_start>>
threadVars == <<pc, cur, now>>
flowVars   == <<work, latency>>
vars == <<clock, mainVars, time_start, mutex, threadVars, last_time, flowVars, samples>>

Time == 0..MaxTime
Sample == [flow : Flows, work : Nat, latency : Nat, timestamp : Time]

SamplingTypeOK ==
  /\ clock \in 1..MaxTime
  /\ main \in {"ready", "waiting", "stopping"}
  /\ time_start \in Time /\ rusage_start \in Time
  /\ mutex \in SUBSET Threads
  /\ pc \in [Threads -> {"loop", "lock", "test", "set", "read", "check", "stopped"}]
  /\ cur \in [Threads -> Flows]
  /\ now \in [Threads -> Time]
  /\ last_time \in [Flows -> Time]
  /\ work \in [Flows -> Nat]
  /\ latency \in [Flows -> Nat]
  /\ samples \in [Threads -> Seq(Sample)]

AnyFlow == CHOOSE f \in Flows : TRUE

\* The threads have met at the barrier threads_ready; interval_create has run
\* for every flow.
Init ==
  /\ clock = 1
  /\ main = "ready"
  /\ time_start = 0 /\ rusage_start = 0
  /\ mutex = {}
  /\ pc = [t \in Threads |-> "loop"]
  /\ cur = [t \in Threads |-> AnyFlow]
  /\ now = [t \in Threads |-> 0]
  /\ last_time = [f \in Flows |-> 0]
  /\ work = [f \in Flows |-> 0]
  /\ latency = [f \in Flows |-> 0]
  /\ samples = [t \in Threads |-> <<>>]

Tick ==
  /\ clock < MaxTime
  /\ clock' = clock + 1
  /\ UNCHANGED <<mainVars, time_start, mutex, threadVars, last_time, flowVars, samples>>

At(t, from, to) == pc[t] = from /\ pc' = [pc EXCEPT ![t] = to]

\* interval_collect returns; its local variables are gone.
Return(t) ==
  /\ At(t, "check", "loop")
  /\ cur' = [cur EXCEPT ![t] = AnyFlow]
  /\ now' = [now EXCEPT ![t] = 0]

----------------------------------------------------------------------------
(* The main thread.                                                        *)

\* Past the barrier, with the workers already running: getrusage without
\* the mutex.
MainStarts ==
  /\ main = "ready"
  /\ main' = "waiting"
  /\ rusage_start' = clock
  /\ UNCHANGED <<clock, time_start, mutex, threadVars, last_time, flowVars, samples>>

\* control_plane_wait_until_done returned: the workers are told to stop.
MainEnds ==
  /\ main = "waiting"
  /\ main' = "stopping"
  /\ UNCHANGED <<clock, rusage_start, time_start, mutex, threadVars, last_time, flowVars, samples>>

----------------------------------------------------------------------------
(* A worker.                                                               *)

\* is_uninitialized(&itv->last_time) is false.
KnowsStart(f) == last_time[f] # 0

\* An event handler moved data of flow f (the client of tcp_rr finished a
\* transaction, and adds a latency) and calls interval_collect, which takes the
\* time.
Transfer(t, f) ==
  /\ Owner[f] = t /\ work[f] < MaxWork[f]
  /\ At(t, "loop", IF KnowsStart(f) THEN "check" ELSE "lock")
  /\ cur' = [cur EXCEPT ![t] = f]
  /\ now' = [now EXCEPT ![t] = clock]
  /\ work' = [work EXCEPT ![f] = @ + 1]
  /\ latency' = [latency EXCEPT ![f] = @ + 1]
  /\ UNCHANGED <<clock, mainVars, time_start, mutex, last_time, samples>>

\* Mutant: no mutual exclusion.
AcquireFreely(t) == mutex' = mutex \cup {t}

\* pthread_mutex_lock
Acquire(t) == mutex = {} /\ mutex' = {t}

\* ensure_initialized enters the critical section ...
Lock(t) ==
  /\ At(t, "lock", "test")
  /\ Acquire(t)
  /\ UNCHANGED <<clock, mainVars, time_start, cur, now, last_time, flowVars, samples>>

\* ... finds that another flow has seen the first packet ...
StartKnown(t) ==
  /\ time_start # 0
  /\ At(t, "test", "read")
  /\ mutex' = mutex \ {t}
  /\ UNCHANGED <<clock, mainVars, time_start, cur, now, last_time, flowVars, samples>>

\* ... or that it has the first packet itself: getrusage ...
FirstPacket(t) ==
  /\ time_start = 0
  /\ At(t, "test", "set")
  /\ rusage_start' = clock
  /\ UNCHANGED <<clock, main, time_start, mutex, cur, now, last_time, flowVars, samples>>

\* ... and the start is its own time.
SetStart(t) ==
  /\ At(t, "set", "read")
  /\ time_start' = now[t]
  /\ mutex' = mutex \ {t}
  /\ UNCHANGED <<clock, mainVars, cur, now, last_time, flowVars, samples>>

\* Outside the critical section: the flow's first interval begins at the start.
ReadStart(t) ==
  /\ At(t, "read", "check")
  /\ last_time' = [last_time EXCEPT ![cur[t]] = time_start]
  /\ UNCHANGED <<clock, mainVars, time_start, mutex, cur, now, flowVars, samples>>

Duration(t) == now[t] - last_time[cur[t]]

\* The interval is not over.  The duration is negative for a packet that was
\* timed before the first one got the mutex; rounded, one of exactly the
\* interval may be below it.
TooEarly(t) ==
  /\ Duration(t) <= Interval
  /\ Return(t)
  /\ UNCHANGED <<clock, mainVars, time_start, mutex, last_time, flowVars, samples>>

\* floor(duration / seconds): the rounded quotient of a whole number of
\* intervals may be just below it (not of one: equal doubles give 1).
Whole(duration) ==
  {duration \div Interval} \cup
  {k \in {duration \div Interval - 1} : k >= 1 /\ duration % Interval = 0}

\* Mutant: the next interval begins with the sample.
NextTimeIsNow(last, duration) == {last + duration}

\* Mutant: it is rounded up.
NextTimeRoundedUp(last, duration) == {last + (duration \div Interval + 1) * Interval}

\* Mutant: the interval does not move.
NextTimeForgotten(last, duration) == {last}

\* get_next_time: forward by whole intervals, and back to timespec.  The sum
\* of doubles is less than a nanosecond off, and its fraction is cut off, not
\* rounded: the result is the exact one or a tick early.
NextTime(last, duration) ==
  {last + k * Interval - lost : k \in Whole(duration), lost \in {0, 1}}

\* Mutant: the sample shares the list of latencies with the flow.
KeptLatency(f) == latency[f]

\* add_sample hands the list to the sample and gives the flow a new one.
NewLatency(f) == 0

\* The list of samples grows at its head.
Listed(seq, s) == <<s>> \o seq

\* add_sample and get_next_time.
Collect(t) ==
  LET f == cur[t] IN
  /\ Duration(t) >= Interval
  /\ Return(t)
  /\ samples' = [samples EXCEPT ![t] =
       Listed(@, [flow |-> f, work |-> work[f], latency |-> latency[f], timestamp |-> now[t]])]
  /\ latency' = [latency EXCEPT ![f] = NewLatency(f)]
  /\ \E next \in NextTime(last_time[f], Duration(t)) :
       last_time' = [last_time EXCEPT ![f] = next]
  /\ UNCHANGED <<clock, mainVars, time_start, mutex, work>>

\* The event loop sees the eventfd.
Stop(t) ==
  /\ main = "stopping"
  /\ At(t, "loop", "stopped")
  /\ UNCHANGED <<clock, mainVars, time_start, mutex, cur, now, last_time, flowVars, samples>>

----------------------------------------------------------------------------

WorkerStep(t) ==
  \/ \E f \in Flows : Transfer(t, f)
  \/ Lock(t) \/ StartKnown(t) \/ FirstPacket(t) \/ SetStart(t) \/ ReadStart(t)
  \/ TooEarly(t) \/ Collect(t) \/ Stop(t)

Finished == (\A t \in Threads : pc[t] = "stopped") /\ UNCHANGED vars

Next == Tick \/ MainStarts \/ MainEnds \/ (\E t \in Threads : WorkerStep(t)) \/ Finished

Spec == Init /\ [][Next]_vars

----------------------------------------------------------------------------
(* Properties.                                                             *)

\* All flows of a process measure from one start: ensure_initialized sets it
\* once, whichever threads meet there.
StartSetOnce == [][time_start # 0 => time_start' = time_start]_vars

\* A list of samples from its oldest one on.
FromOldest(seq, p) == seq[Len(seq) + 1 - p]

\* How many of the p oldest samples in a list are of flow f, and how many
\* samples flow f has.
Count(seq, f, p) == Cardinality({q \in 1..p : FromOldest(seq, q).flow = f})
SamplesOf(f) == Count(samples[Owner[f]], f, Len(samples[Owner[f]]))

\* Intervals stay aligned: itv->last_time is the begin of one, counted in
\* whole intervals from the shared start, but for one tick at most for every
\* sample the flow has; it is never before the start or in the future.
Aligned ==
  \A f \in Flows : last_time[f] # 0 =>
    /\ time_start # 0
    /\ last_time[f] \in time_start..clock
    /\ \E lost \in 0..SamplesOf(f) : (last_time[f] + lost - time_start) % Interval = 0

\* However its packets come, a flow has its n-th sample when n intervals have
\* passed since the shared start, but for the n - 1 ticks that get_next_time
\* may have lost; and a worker's list is in the order of the timestamps.
SampleRateBounded ==
  \A t \in Threads : \A p \in 1..Len(samples[t]) :
    LET s == FromOldest(samples[t], p)
        n == Count(samples[t], s.flow, p)
    IN  /\ s.timestamp - time_start >= n * Interval - (n - 1)
        /\ \A q \in 1..p-1 : FromOldest(samples[t], q).timestamp <= s.timestamp

\* The samples of flow f, newest first, as positions in its owner's list.
IsNext(t, i, j) ==
  /\ i < j /\ samples[t][i].flow = samples[t][j].flow
  /\ \A k \in i+1..j-1 : samples[t][k].flow # samples[t][i].flow

\* Every latency is in exactly one sample, or waits for the next: between two
\* samples of a flow there are as many as it made transactions.
LatencyAccounted ==
  \A t \in Threads : \A i \in 1..Len(samples[t]) :
    LET s == samples[t][i] IN
    /\ (\A k \in 1..i-1 : samples[t][k].flow # s.flow)
         => latency[s.flow] = work[s.flow] - s.work
    /\ \A j \in 1..Len(samples[t]) : IsNext(t, i, j)
         => s.latency = s.work - samples[t][j].work

\* What a comment in struct rusage_interval says of rusage_start: it is
\* "updated when first packet comes", hence never after the start is known.
RusageFromFirstPacket ==
  [][time_start # 0 => rusage_start' = rusage_start]_vars

============================================================================
