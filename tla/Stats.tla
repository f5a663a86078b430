------------------------------- MODULE Stats -------------------------------
(***************************************************************************)
(* The report at the end of a test: from the samples and latencies that    *)
(* the workers leave to throughput and percentiles (report_stats of        *)
(* tcp_rr.c, report_stream_stats of workload.c, sample.c, numlist.c).      *)
(*                                                                         *)
(* A count is the bytes or transactions of a flow so far; a latency is a   *)
(* small number.  The correlation coefficient and the standard deviation   *)
(* are left out, and so is what is printed of the samples.                 *)
(***************************************************************************)
EXTENDS Integers, Sequences, FiniteSets, FiniteSetsExt

CONSTANTS
  NumThreads,    \* opts->num_threads
  Flows,         \* <<tid, flow_id>> of the flows of the test
  MEMBLOCK_SIZE, \* numbers in a block of a numlist
  Latencies,     \* latencies that are measured
  Percentiles,   \* opts->percentiles.chosen
  MaxTime,       \* bound on the clock
  MaxWork        \* bound on the reads or transactions of all flows

ASSUME StatsAssumption ==
  /\ NumThreads \in Nat \ {0} /\ MEMBLOCK_SIZE \in Nat \ {0}
  /\ Flows \subseteq (0..NumThreads - 1) \X Nat /\ IsFiniteSet(Flows)
  /\ Latencies \subseteq Nat /\ Percentiles \subseteq 0..100 /\ MaxTime \in Nat /\ MaxWork \in Nat

Tids == 0..NumThreads - 1

VARIABLES
  kind,     \* "rr" of a client, "rr_server" or "stream"
  now,      \* the clock
  count,    \* flow->bytes_read or flow->transactions
  latency,  \* flow->latency: a numlist
  samples,  \* samples of all workers
  lat,      \* the numlists of the samples
  phase,    \* "test", "sort", "sum", "latency", "done" or "early" (no rates)
  job,      \* the workers whose samples are being added up
  sorted,   \* samples[] of that job, in the order that qsort leaves
  j,        \* the loop over samples[]
  per_flow, current_total,
  result,   \* [job, total, duration] of the jobs done
  chosen    \* the percentiles that are printed

statsVars == <<kind, now, count, latency, samples, lat, phase, job, sorted, j,
               per_flow, current_total, result, chosen>>

Sample == [tid : Tids, flow_id : Nat, count : Nat, time : Nat]
----------------------------------------------------------------------------
(* A numlist is the sequence of its blocks, the newest first; it is empty  *)
(* when its head is NULL.                                                  *)

numlist_create == <<<<>>>>

numlist_add(lst, val) ==
  IF Len(lst[1]) = MEMBLOCK_SIZE THEN <<<<val>>>> \o lst
  ELSE [lst EXCEPT ![1] = Append(@, val)]

\* All numbers of a list, block after block.
Numbers(lst) ==
  LET upto[b \in 0..Len(lst)] == IF b = 0 THEN <<>> ELSE upto[b - 1] \o lst[b]
  IN  upto[Len(lst)]

\* Mutant: rounds to the next number.
PercentileIndexUp(size, percentile) == ((size - 1) * percentile + 99) \div 100

PercentileIndex(size, percentile) == ((size - 1) * percentile) \div 100

\* What qsort leaves with compare_doubles.
Ascending(s) ==
  LET p == CHOOSE p \in Bijection(1..Len(s), 1..Len(s)) :
             \A i, k \in 1..Len(s) : i <= k => s[p[i]] <= s[p[k]]
  IN  [i \in 1..Len(s) |-> s[p[i]]]

numlist_percentile(lst, percentile) ==
  LET values == Ascending(Numbers(lst))
  IN  values[PercentileIndex(Len(values), percentile) + 1]

\* Mutant: the tail keeps its blocks.
ConcatShared(all, tail) == [all |-> all \o tail, tail |-> tail]

\* numlist_concat: what the two lists are afterwards.
numlist_concat(all, tail) == [all |-> all \o tail, tail |-> <<>>]

----------------------------------------------------------------------------
StatsInit ==
  /\ kind \in {"rr", "rr_server", "stream"}
  /\ now = 0
  /\ count = [f \in Flows |-> 0]
  /\ latency = [f \in Flows |-> numlist_create]
  /\ samples = {} /\ lat = <<>>
  /\ phase = "test"
  /\ job = {} /\ sorted = <<>> /\ j = 1
  /\ per_flow = <<>> /\ current_total = 0
  /\ result = <<>> /\ chosen = <<>>

reportVars == <<phase, job, sorted, j, per_flow, current_total, result, chosen>>

Tick == /\ phase = "test" /\ now < MaxTime
        /\ now' = now + 1
        /\ UNCHANGED <<kind, count, latency, samples, lat>> /\ UNCHANGED reportVars

TotalWork == SumFunction(count)

\* A read or a transaction of a flow; the client of tcp_rr measures latencies.
Work(f) ==
  /\ phase = "test" /\ TotalWork < MaxWork
  /\ count' = [count EXCEPT ![f] = @ + 1]
  /\ IF kind = "rr"
     THEN \E l \in Latencies : latency' = [latency EXCEPT ![f] = numlist_add(@, l)]
     ELSE UNCHANGED latency
  /\ UNCHANGED <<kind, now, samples, lat>> /\ UNCHANGED reportVars

\* add_sample, once in an interval.
AddSample(f) ==
  /\ phase = "test"
  /\ \A s \in samples : <<s.tid, s.flow_id>> = f => s.time < now
  /\ LET s == [tid |-> f[1], flow_id |-> f[2], count |-> count[f], time |-> now]
     IN  /\ samples' = samples \union {s}
         /\ lat' = [u \in samples' |-> IF u = s THEN latency[f] ELSE lat[u]]
  /\ latency' = [latency EXCEPT ![f] = numlist_create]
  /\ UNCHANGED <<kind, now, count>> /\ UNCHANGED reportVars
----------------------------------------------------------------------------
(* The report.                                                             *)

\* The samples of some of the workers.
Of(tids) == {s \in samples : s.tid \in tids}

\* Mutant: the worker's own number, also when it is passed alone.
IndexUnreduced(s, n) == <<s.tid, s.flow_id>>

\* The place of a sample's flow in per_flow[][] when n workers are passed.
Index(s, n) == <<s.tid % n, s.flow_id>>

\* per_flow as it is allocated: for each worker that is passed, up to its highest flow id.
Allocated(tids) ==
  UNION {{t % Cardinality(tids)} \X (0..Max({0} \union {s.flow_id : s \in Of({t})})) : t \in tids}

\* calculate_stream_stats or report_stats is called for the workers of a job.
StartJob(tids) ==
  /\ job' = tids /\ sorted' = <<>> /\ j' = 1
  /\ phase' = "sort"

Begin ==
  /\ phase = "test"
  /\ StartJob(Tids)
  /\ UNCHANGED <<kind, now, count, latency, samples, lat, per_flow, current_total, result, chosen>>

\* The job after the one that ended: report_stream_stats goes on to the workers
\* one by one, tcp_rr has none.
NextJob ==
  IF kind # "stream" \/ Len(result') = NumThreads + 1
  THEN phase' = (IF kind = "rr" THEN "latency" ELSE "done") /\ UNCHANGED <<job, sorted, j>>
  ELSE StartJob({Len(result') - 1})

\* Mutant: the last sample first.
BeforeLast(s, u) == s.time >= u.time

\* compare_samples: samples of one time are left in any order.
Before(s, u) == s.time <= u.time

SortNext(s) ==
  /\ phase = "sort" /\ j <= Cardinality(Of(job))
  /\ s \in Of(job) /\ \A i \in 1..Len(sorted) : s # sorted[i]
  /\ \A u \in Of(job) : Before(s, u) \/ \E i \in 1..Len(sorted) : u = sorted[i]
  /\ sorted' = Append(sorted, s) /\ j' = j + 1
  /\ UNCHANGED <<kind, now, count, latency, samples, lat, phase, job, per_flow, current_total, result, chosen>>

\* No sample, or a single one in tcp_rr: no rates.
TooFew ==
  /\ phase = "sort" /\ j > Cardinality(Of(job))
  /\ sorted = <<>> \/ (kind # "stream" /\ Len(sorted) = 1)
  /\ IF kind = "stream"
     THEN result' = Append(result, [job |-> job, total |-> 0, duration |-> 0]) /\ NextJob
     ELSE phase' = "early" /\ UNCHANGED <<job, sorted, j, result>>
  /\ UNCHANGED <<kind, now, count, latency, samples, lat, per_flow, current_total, chosen>>

StartSum ==
  /\ phase = "sort" /\ j > Cardinality(Of(job))
  /\ Len(sorted) >= (IF kind = "stream" THEN 1 ELSE 2)
  /\ phase' = "sum" /\ j' = 2
  /\ per_flow' = [x \in Allocated(job) |->
                    IF x = Index(sorted[1], Cardinality(job)) THEN sorted[1].count ELSE 0]
  /\ current_total' = sorted[1].count
  /\ UNCHANGED <<kind, now, count, latency, samples, lat, job, sorted, result, chosen>>

\* Mutant: a flow's earlier count is not taken off.
PlusCount(total, before, after) == total + after

\* The total with a flow's count replaced.
Replaced(total, before, after) == total - before + after

SumNext ==
  /\ phase = "sum" /\ j <= Len(sorted)
  /\ LET x == Index(sorted[j], Cardinality(job))
     IN  /\ current_total' = Replaced(current_total, per_flow[x], sorted[j].count)
         /\ per_flow' = [per_flow EXCEPT ![x] = sorted[j].count]
  /\ j' = j + 1
  /\ UNCHANGED <<kind, now, count, latency, samples, lat, phase, job, sorted, result, chosen>>

\* Throughput is total / duration; a stream's is 0 when one of them is.
SumDone ==
  /\ phase = "sum" /\ j > Len(sorted)
  /\ result' = Append(result, [job |-> job, total |-> current_total - sorted[1].count,
                               duration |-> sorted[Len(sorted)].time - sorted[1].time])
  /\ NextJob
  /\ UNCHANGED <<kind, now, count, latency, samples, lat, per_flow, current_total, chosen>>

\* report_latency of a client.
ReportLatency ==
  /\ phase = "latency"
  /\ LET upto[i \in 1..Len(sorted)] ==
           IF i = 1 THEN lat[sorted[1]] ELSE numlist_concat(upto[i - 1], lat[sorted[i]]).all
         all == upto[Len(sorted)]
     IN  /\ lat' = [s \in DOMAIN lat |->
                      IF s = sorted[1] THEN all ELSE numlist_concat(all, lat[s]).tail]
         /\ chosen' = IF Numbers(all) = <<>> THEN <<>>
                      ELSE [p \in Percentiles |-> numlist_percentile(all, p)]
  /\ phase' = "done"
  /\ UNCHANGED <<kind, now, count, latency, samples, job, sorted, j, per_flow, current_total, result>>

StatsNext ==
  \/ Tick \/ Begin \/ TooFew \/ StartSum \/ SumNext \/ SumDone \/ ReportLatency
  \/ \E f \in Flows : Work(f) \/ AddSample(f)
  \/ \E s \in samples : SortNext(s)

StatsSpec == StatsInit /\ [][StatsNext]_statsVars
----------------------------------------------------------------------------
(* Properties.                                                             *)

\* Samples that are being added up have their place in per_flow, whether all
\* workers or one of them is passed.
StatsTypeOK ==
  /\ kind \in {"rr", "rr_server", "stream"}
  /\ phase \in {"test", "sort", "sum", "latency", "done", "early"}
  /\ samples \subseteq Sample /\ DOMAIN lat = samples
  /\ job \subseteq Tids /\ sorted \in Seq(Of(job))
  /\ phase = "sum" => \A i \in 1..Len(sorted) : Index(sorted[i], Cardinality(job)) \in DOMAIN per_flow

FlowsOf(tids) == {<<s.tid, s.flow_id>> : s \in Of(tids)}

Counts(f, tids) == {s.count : s \in {u \in Of(tids) : <<u.tid, u.flow_id>> = f}}

LastCounts(tids) == SumFunction([f \in FlowsOf(tids) |-> Max(Counts(f, tids))])

Times(tids) == {s.time : s \in Of(tids)}

\* What a report divides: the counts that the flows ended with, less the count
\* of one of the first samples; by the time from the first to the last sample,
\* which is 0 only if all samples were taken at once.
TotalsAddUp ==
  \A i \in 1..Len(result) :
    LET r == result[i]
    IN  Of(r.job) # {} =>
          /\ \E s \in Of(r.job) : /\ s.time = Min(Times(r.job))
                                  /\ r.total = LastCounts(r.job) - s.count
          /\ r.duration = Max(Times(r.job)) - Min(Times(r.job))

\* The running total, unsigned in tcp_rr, is never less than what it started
\* from or than what is taken off it.
NeverWraps ==
  phase = "sum" => /\ current_total >= sorted[1].count
                   /\ \A x \in DOMAIN per_flow : current_total >= per_flow[x]

NumbersIn(lists) == SumFunction([k \in DOMAIN lists |-> Len(Numbers(lists[k]))])

\* Every latency is in one list, once, from the time it is measured until the
\* lists are freed: when a sample takes over the flow's list, and when the
\* report chains the lists of the samples.
LatencyOnce ==
  kind = "rr" => NumbersIn(latency) + NumbersIn(lat) = TotalWork

\* A percentile is one of the latencies, as many of them are below it as its
\* rank allows, and the rank is among those not above it.
PercentileRank ==
  \A p \in DOMAIN chosen :
    LET all   == Numbers(lat[sorted[1]])
        below == {i \in 1..Len(all) : all[i] < chosen[p]}
        upto  == {i \in 1..Len(all) : all[i] <= chosen[p]}
    IN  /\ 100 * Cardinality(below) <= (Len(all) - 1) * p
        /\ (Len(all) - 1) * p < 100 * Cardinality(upto)
============================================================================
