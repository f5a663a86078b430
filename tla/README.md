# A TLA+ model of rushit

rushit is a network performance tool: a server process and one or more client
processes talk over a control connection, and their worker threads move data
over many TCP or UDP flows while the tool counts and samples. This directory
holds TLA+ modules for its core, TLC configurations that check them on small
instances, and TLAPS proofs of what matters most for every instance.
`PROJECT.json` lists the components, the runs, the source lines each definition
models, the hazards of the code and the theorems.

    tlc -workers 2 -config MCTestRun.cfg MCTestRun     # a run
    tlapm TestRunProofs.tla                            # the proofs

## The system

| component | state | operations | interacts with |
|---|---|---|---|
| control plane (`control_plane.c`) | control port, connections of the clients, number of incidents | `control_plane_start`, `_wait_until_done`, `_stop`, `ctrl_accept`, `ctrl_connect`, ... | peers over TCP; the main thread calls it |
| main thread (`thread.c`) | workers, barrier `threads_ready`, eventfds, `rusage_interval` | `run_main_thread`, `run_worker_threads`, `stop_worker_threads` | control plane, workers, script engine |
| workers (`workload.c`, `flow.c`) | sockets, epoll set, flows | `run_client`, `run_server`, `addflow`, `delflow` | main thread through barrier, eventfd and join; peers through data sockets |
| sampling (`interval.c`, `sample.c`) | start of the measurement, start of each flow's interval, list of samples, list of latencies | `interval_collect`, `add_sample` | called by the event handlers of all workers; shares `time_start` and `rusage_start` |
| request/response (`tcp_rr.c`) | bytes to read and to write, transactions, epoll interest of a flow | `client_events`, `server_accept`, `server_events` | epoll, sockets, sampling |
| streams (`tcp_stream.c`, `udp_stream.c`) | bytes of a flow | `process_events`, level- or edge-triggered | epoll, sockets, sampling |
| statistics (`workload.c`, `tcp_rr.c`, `numlist.c`, `percentiles.c`, `sample.c`) | none | sorting and summing of samples, percentiles | reads what the workers left |
| script engine (`script.c`, `serialize.c`) | Lua interpreters of engine and slaves, hooks, collected values | register, push, run hooks, pull | main thread, every socket call of the workers |
| flags, logging, cpuinfo, hexdump, version | options | parsing and printing | `main` |

What is hard in it:

* **order between processes**: a client may connect its flows only when all
  workers of the server listen, and the server must outlast the last client;
  the only synchronisation is the exchange of a secret and two magic numbers;
* **order between threads**: barrier, eventfd and join; samples and counters
  are written without a lock and read by another thread;
* **the first packet**: workers race to set the start of the measurement;
* **partial reads and writes**, peers that close between `epoll_wait` and the
  handler, zero-length reads;
* **failure**: clients that die, peers that do not know the secret, hooks that
  fail, descriptors that are closed twice or reused;
* **copies**: hooks run in one interpreter per worker, and their variables are
  copied when a hook is registered, joined when it is first called, and fetched
  when the workers have stopped.

## The modules

| module | models |
|---|---|
| `ControlPlane` | `control_plane.c` on the server and all clients, and the TCP connections between them |
| `TestSession` | abstract: what a test promises |
| `TestRun` | `ControlPlane` composed with `thread.c` and the life cycle of the workers |
| `Sampling` | `interval.c`, `add_sample`, the shared start of the measurement |
| `TcpRr` | one flow of `tcp_rr.c`, both ends |
| `Stream` | one flow of `tcp_stream.c` or `udp_stream.c`, both ends, level- or edge-triggered, with error queues |
| `Descriptors` | who opens and closes the sockets of a process, and when hooks see them |
| `Stats` | the reports: `calculate_stream_stats`, `report_stats`, `report_latency`, `numlist.c` |
| `Serialize` | `serialize.c`: copying of functions, tables and their shared variables |
| `Script` | `script.c` composed with `Serialize`: a script, its hooks in the workers, collected values |
| `MC...` | the instances for TLC |
| `...Proofs` | theorems |

### ControlPlane

`srv` and `cli[c]` say where the main threads are in `control_plane.c`. A
control connection is named by its peer: `conn` is its state as the server sees
it (open, end of file, reset, closed), `c2s` and `s2c` the data in flight. The
port opens with `CtrlListen`; the kernel then completes connections whether or
not the server accepts them (`backlog`). `ctrl_accept` is four actions, one per
outcome of its one `read()` (`CtrlAcceptValid`, `...Invalid`, `...ReadError`,
`...SendFails`); the last admission closes the port and resets the backlog in
the same step, as `control_plane_wait_until_done` does. `LOG_FATAL` is the state
`fatal`: the process exits and the kernel closes its connections. Strays connect,
send garbage, hang up or stay silent. `Mortal` clients may die anywhere;
`Split` are the clients whose secret may arrive in pieces. The secret, the magic
numbers and garbage are the only data told apart.

### TestRun and TestSession

The main thread of every process goes init, start, barrier, wait, stop, join,
exit; the workers none, setup, ready, run, exit. The steps of the control plane
are taken by the main thread in its place of that sequence. `lsn` are the server
workers that listen. The order of the loops over workers is left open, which
includes the one the code has. A client whose data connection is refused exits
(`ClientConnectRefused`). `TestSession` has a service (down, up, closed,
aborted) and clients (idle, active, finished, lost); the refinement mapping at
the end of `TestRun` reads them off the main threads.

### Sampling

Every step a worker takes in `interval_collect` that another thread can come
between is an action: taking the time, locking, testing `time_start`, writing
`rusage_start`, writing `time_start`, reading it after the unlock, and the rest,
which is private to the thread. `MainStarts` is the main thread's `getrusage`
after the barrier.

Time is counted in ticks, which stand for nanoseconds. `get_next_time` adds in
doubles and cuts off what is below a nanosecond; the next call starts from what is
left, so the loss adds up. `NextTime` is the set of what it can yield: the exact
begin of an interval or the tick before it (a double of seconds is off by less than
a nanosecond until a machine has been up for some 48 days). The quotient in
`floor()`, too, may fall below a whole number (`Whole`), and the comparison of a
duration of exactly one interval may go either way (`TooEarly`). That the interval
is a whole number of nanoseconds is assumed.

### TcpRr

Bytes are counted, not kept. An event takes two steps, `EpollWait` and the
handler's, so that the peer may close in between; a handler's reads and writes
move any number of bytes the socket allows. Client and server share actions
parameterised by the side where their code is the same up to the order of the
tests and the sizes (`Writing`, `Reading`, `ToSend`, `ToExpect`). A write to a
closed peer is lost, fails, or kills the process with SIGPIPE. A read or write may
fail at any time, in the kernel or in the script's hook (`IoFails`): it is logged,
and the event comes again. `EPOLL_CTL_MOD` at the end of a message may fail as well
(`ReadCtlFails`, `WriteCtlFails`): the server then deletes the flow (`dropped`), with
its transaction already counted, and the client exits. Constants of 1
and more for sizes are what `check_options` of `tcp_rr_main.c` guarantees.

### Stream

The protocol, and which sides read, write and are edge-triggered, is chosen in
`Init` within what `main` of `tcp_stream_main.c` and `udp_stream_main.c` fixes (a
client writes, a server reads, the UDP workload has no other choice). Data is
counted in whole buffers: partial transfers change the counters only, and the
handler does not look at how much was transferred. `epoll_wait` and each `read()`,
`write()` and `do_readerr` is a step. `AfterIn` and `AfterOut` are the order of the
branches of `process_events`: reading, writing, error queue. An edge-triggered side
is reported to only when it is `armed`, that is, woken since the last report: by
data, by the peer's close, by a message in its error queue, or by room after a
`write()` that found none (`nospace`). `read()`, `write()` and `do_readerr` may fail
at any time with an error other than EAGAIN (`IoFails`, `ReadErrFails`): a reset
connection, a datagram refused or too long, no buffers, a hook that returns an
error. The handler logs it and is done with the event. `failed` are the
edge-triggered sides that this happened to and that have not got to EAGAIN since:
they may have left data or room of which they are not told again. A UDP server has no connection: its flow is
the socket itself, added for EPOLLIN alone and so level-triggered, whose handler
still loops when `edge_trigger` is set. Datagrams may be lost, before or after epoll
reported them. A message in an error queue (an error or a timestamp) is about data
that is in flight.

### Descriptors

A descriptor table shared by the workers that hands out the lowest free number;
every `socket(2)` and `accept(2)` makes a new socket. The close of a socket and
the hook before it are two steps. `kept` are sockets whose hook failed: a client
then leaves them open, a server exits.

### Stats

The test is any sequence of reads or transactions, latencies and samples of some
flows; what is modelled step by step is the report. A job is a call of
`calculate_stream_stats` or `report_stats` for some of the workers: all of them,
then, for streams, one after the other. `collect_samples` sorts by the timestamp
alone, so samples of one time come in any order (`SortNext`). The loop over the
samples keeps `per_flow` and `current_total` as the code does; throughput is the
quotient of `total` and `duration` of the job's `result`. A `numlist` is a sequence
of blocks, the newest first. `report_latency` chains the lists of all samples into
the first one's. What a report takes as the work done is the sum of the last counts
of all flows less the first sample's count, that is, the counts that the other flows
had at their first sample are included; `TotalsAddUp` states it so.

### Serialize and Script

A Lua state is a heap: functions and tables with slots, which are locations.
Functions may share a location (an upvalue), a table's entries are its own.
`serialize_object` yields a tree in which what is shared is repeated under the same
id; `SerializeObject` has one node for each id. `Serializable` says where
`serialize_object` ends at all: not at a nil (an assert), and not in an object inside
itself (a recursion without end). `push_function`, `push_table` and `push_object` call
each other; in the model a copy is a sequence of steps (`CopyStep`) on the state and
the stack of calls that are under way, with the three maps of `upvalue_cache`. A step
sets or joins a slot, begins a new object for it, or returns from one. There is one
step for each slot of a node and one for the return (`Places`); that the stack is
empty after as many steps is proved.

`Script` has the engine's state, the registered (serialized) hooks and a state per
worker. Scripts assign, register hooks in any order, and call `run()`; hooks are
called by the workers in any order and read, store numbers, nil or objects at the
variables and table entries that they can name, however deep. `ideal[t]` is what the author of a
hook has in mind: worker `t`'s own copy of the script's variables, to which the same
stores are made; `Alike` says that the hooks of the worker cannot tell the two apart.
`Placed` lets the allocator use the address of a variable again whose function is
garbage; the addresses of tables and functions are used once. What follows `run()` in a script is not modelled.

## The runs

| run | instance | shows |
|---|---|---|
| `cp` | 3 clients for 2 places, one mortal, one with another magic, one with a split secret, 1 stray | types, `DistinctClients`, `JoinedIsAwaited`, `DoneMeansAllNotified`, `FatalOnlyByClientDeath` |
| `run` | server and 3 clients for 2 places with 2 threads each, one client mortal, 1 stray | types, `ServiceUp`, `TogetherPastBarrier`, `ServerStopsLast`, `ReportsAlone`, `EveryoneExits`; implements `ControlPlane` and `TestSession` |
| `sampling` | 2 threads, 3 flows, intervals of 4 ticks, 9 ticks | types, `Aligned`, `SampleRateBounded`, `LatencyAccounted`, `StartSetOnce` |
| `sampling_rusage` | 2 threads, 2 flows | violation: `RusageFromFirstPacket` |
| `rr` | request 5, response 4, buffer 2, socket 3 bytes, 2 transactions | types, `Lockstep`, `TakeTurns`, `DeletedWithCause`, `KeepsGoing`, `ServerCleansUp` |
| `stream` | 2 buffers in flight each way, 1 message in each error queue; all 20 choices of protocol, reading, writing and triggering | types, `NoLostWakeup`, `KeepsWriting`, `StopsInTime`, `FlowDeleted`, `ErrorsRead` |
| `stream_err` | the same | violation: `ErrorHookCalled` |
| `fds` | 2 workers, 2 flows each, or 3 accepted connections; both roles, both protocols | types, `FlowsIntact`, `NoLeak` |
| `fds_hook` | 2 workers, 1 flow each | violation: `HookBeforeClose` |
| `stats` | 2 workers, 3 flows, 2 moments, 3 reads or transactions, blocks of 1 number, percentiles 0, 50, 99 and 100 | types and indices, `TotalsAddUp`, `NeverWraps`, `LatencyOnce`, `PercentileRank` |
| `script` | 8 scripts, 2 hooks, 2 workers, 1 number to store | `SeesPrivateCopy`, `CollectsEveryThread` |
| `script_collect` | the same | violation: `RunCollects` |

Why the bounds are enough: three clients for two places is the least that has a
surplus client, an order among the admitted ones and one still waiting; two
threads are the least that race at the barrier, at `time_start_mutex` and for a
descriptor number, three flows on two threads the least that has two flows in
one thread and one in another. In `sampling` the clock passes two intervals and
one flow transfers often enough for two samples, the second from a begin of its
interval that may have been cut off; the interval is longer than the two ticks they
can lose together, without which `Aligned` would say nothing. In `rr` no message
fits a buffer or a socket and no size divides another, so reads and writes are cut
in every way, and the second transaction starts from what the first left.
In `stream` two buffers are the least that has an empty, a partly filled and a full
connection; an error queue is empty or not, and a message that is read makes place
for another in the same loop. The bounds are the sizes of a socket
buffer and of an error queue, not of the run, which goes on for ever. In `stats` a
flow can have two samples and another one with the same timestamp, a worker can have
none, and a list of latencies spans up to three blocks. The scripts of `script` have
each kind of sharing once: a variable of two hooks, of a hook and of a function it
calls, a table under two names, two collectors of one table, a collected entry of a
table; and the values that cannot be copied.

The exceptions in the properties of `stream` are needed; TLC refutes each of them
without its exception. `process_events` leaves its read loop with `continue`, past
the EPOLLOUT of the same event, so that an edge-triggered side that reads and
writes may never be told again that it can write. And an edge-triggered loop ends
only with EAGAIN: against a peer that keeps up it does not end, and the worker
does not see its `stop_efd`. A UDP server that is edge-triggered stops all the same:
it is told to when its clients have left, and no more datagrams come. The third
exception is errors: a side in `failed` may not be woken for the data or the room it
left (a hang-up is not lost), and errors that come for ever keep a stream from
writing and a handler from its error queue, because `continue` skips EPOLLERR.

`SeesPrivateCopy` has two premises (`Undisturbed`), and TLC refutes it without either. `Coherent`:
hooks are copied when they are registered, so a script that changes a shared variable
between two registrations leaves it to the order of the first calls which value a
worker sees. `AddressesDistinct`: `set_shared_upvalue` recognises a variable by its
address in the engine; once a registered function is garbage, the variable of a later
one may be put there, and the two are then joined in every worker. The same can
happen to tables and functions, whose addresses (`lua_topointer`) `push_object` looks
up in `object_map`: that none of these is used again is not a premise but built into
the model, where every table and function has an id of its own.

The `cp`, `run`, `sampling`, `stats` and `script` runs do not check for deadlock: with
a client dead before all are admitted the server waits in `accept` for ever, as
the code does, a bounded clock ends a behaviour, and so do a report and the end of a
script.

### Fairness

`RrFairSpec` and the `FairSpec` of `TestRun` and `Stream` assume weak fairness of each process
(or event loop) as a whole: a thread that can take a step is scheduled, and
`sleep(test_length)` ends. Nothing is assumed of strays, deaths, or of when a test is
stopped. `EveryoneExits` has three premises. No client dies, as the server may then wait
for ever. A stray does not keep a silent connection open for ever: `ctrl_accept` blocks in `read()` on
the connection it accepted, so such a peer really stalls the test. And a worker that
is told to stop leaves its event loop (`StopHeeded`; `WorkerStops` is not fair): the
request/response loop and a level-triggered stream always return to `epoll_wait`, but
an edge-triggered stream need not, and `pthread_join` then blocks. `StopsInTime` of
`Stream` is this premise seen from the event loop, with the exception it needs.
`KeepsGoing`, `KeepsWriting` and `ErrorsRead` except reads and writes that fail for
ever, as nothing makes errors stop.
`Stream` also assumes strong fairness of `Leaves`: an `epoll_wait` that has a
busy flow to report also reports `stop_efd`, or does so in its next call, because
the kernel takes turns among what is ready.

### What the violations show

* `sampling_rusage`: a comment in `struct rusage_interval` (`thread.c:36`) says
  that `rusage_start` is "updated when first packet comes". The main thread also
  writes it after the barrier (`thread.c:236`) without the mutex, possibly after
  a worker recorded the first packet.
* `fds_hook`: `doc/script-api.rst:77` says that the close hook runs "just
  *before* the socket will be closed". When the server hangs up, `delflow` has
  closed the client's socket by the time `run_client` calls the hook.
* `stream_err`: `doc/script-api.rst:165` says that the recverr hooks are invoked
  "on EPOLLERR". Edge-triggered, the read and write loops end with `continue` and
  leave out the EPOLLERR of the same event, which is not reported again.
* `script_collect`: `doc/script-api.rst:186` says that `run()` collects the marked
  variables from the workers. If a worker never called a hook that uses one, for
  want of flows, of events or of errors, `serialize_object` asserts on the nil in its
  place and the process is aborted.

## The proofs

All theorems hold for every value of the constants that satisfies the named
assumptions (`CPAssumption`, `ThreadsAssumption`, `SamplingAssumption`,
`RrAssumption`, `StreamAssumption`, `FdAssumption`, `StatsAssumption`,
`ScriptAssumption`); TLC evaluates these on its instances. The inductive invariants
were checked with TLC on the instances above before they were proved, but for those of
`ScriptProofs`, which say that maps between heaps exist.

* **ControlPlaneProofs**: types, `DistinctClients`, `JoinedIsAwaited`,
  `DoneMeansAllNotified`, `FatalOnlyByClientDeath`. These are not inductive by themselves: that a client
  joins only as an awaited one rests on where its connection is (in the backlog
  once, in `client_fds` once, or closed) and on the magic in `s2c` having been
  sent by the admission; that a notification counts rests on what `c2s` of a
  connection may hold at each state of its client. The invariant states this for
  each connection, and the proof has a step for each action. `FatalOnlyByClientDeath`
  has an invariant of its own on top of it (`DeathInv`): a client closes its end of an
  uncounted connection only after a notification that is still there to be read and
  carries the server's magic, or because it died; and the server closes what it has
  queued or accepted only at the end.
* **TestRunProofs**: types, `ServiceUp`, `TogetherPastBarrier`, `ServerStopsLast`,
  `ReportsAlone`, and that every step of `TestRun` is a step of `ControlPlane`
  or leaves it alone (`ControlPlaneSpec`), so that the theorems about the control
  plane carry over. The invariant relates the place of each main thread to those
  of its workers, to its eventfds and to the control plane; `ServiceUp` follows
  because a client can only be admitted by a server past its barrier, and the
  server leaves its wait only with `DoneMeansAllNotified`. The step of a client that
  is refused a data connection is a step of the control plane only because the
  server must then be gone: this uses `ServiceUp` itself.
  The module also proves that `TestRun` implements `TestSession` (`SessionSpec`). Every
  action of `TestRun` is shown to be one of the session or a stutter. Beyond the invariant of
  `TestRun` this takes one fact, that a client whose main thread has left
  `ctrl_connect` was accepted, even if it is dead by now; with the clients in
  `client_fds` being different ones it bounds who takes part by `NumClients` and makes
  it exactly that many when the session is closed.
* **TcpRrProofs**: types, `Lockstep`, `TakeTurns`, `DeletedWithCause`. The
  invariant says that a transaction is in one of four phases (unaccepted,
  request, response, answered), each of which fixes what the two flows wait for
  and balances bytes written, in flight and to be read; a side that is gone, perhaps
  because `epoll_ctl` failed at the end of a message, is exempt: what it still owed
  does not come, and what is written to it is lost. That no live flow is taken for a
  closed one rests on the phases: whoever is told EPOLLIN has a byte waiting and a
  byte to read. That a dropped flow is between two messages does, too: it was its turn.
* **SamplingProofs**: types, `Aligned`, `StartSetOnce`, `SampleRateBounded`,
  `LatencyAccounted`. The invariant (`SInv`) has mutual exclusion, what a thread knows
  of `time_start` at each place, that a flow being collected belongs to its thread, and
  where a flow's interval begins (`Begins`), with witnesses: some whole intervals from
  the start less the ticks lost, at most one for each of its `n` samples, and no
  earlier than `n` intervals less a tick each. From the first the remainder in `Aligned`
  follows, from the second, with a sample being at least an interval after the begin,
  the time of the next sample. The theorem about the lists also needs that no sample is
  later than the packet its thread is at (`ListInv`).
* **StreamProofs**: types and `NoLostWakeup`, for buffers and error queues of every
  size, both protocols and every mode. `NoLostWakeup` is about a side that waits; the
  invariant says what holds of it in its handler: a hang-up it was not told of leaves
  it armed, a reader outside its read loop has left no data unnoticed, and a side
  that only writes has found no room and is registered to be told of it; the last two
  only as long as no other error than EAGAIN made it leave its loop (`failed`).
* **DescriptorsProofs**: types, `FlowsIntact`, `NoLeak`, for any number of workers,
  flows and connections. Numbers come back and sockets do not, so the invariant
  (`FdInv`) tells sockets apart: it says which entries of the workers' arrays still
  stand for the socket they were given (`Connected`, `Listening`, `Intact`), who closes
  an open socket (`Owned`) and that what a worker is past is closed (`ClosedUp`), for
  each place a worker can be in on either side of the barrier (`Phases`). That a flow is
  given a free number is a counting argument: the sockets that are open are at most
  the flows, listeners and connections that `NumFds` has room for (`Counted`).
* **StatsProofs**: types, `TotalsAddUp`, `NeverWraps`, `LatencyOnce`,
  `PercentileRank`. The invariant says that a flow's samples are ordered alike by time
  and by count (`Growing`), which workers a job is for (`Jobs`), that what is sorted is
  in order, without repetition, and not later than the rest (`InOrder`), and that after
  `n` samples `per_flow` has the greatest count of each flow and the total is their sum
  (`Added`). `NeverWraps` needs no sums: a count that is replaced is never greater than
  the one that replaces it. That flows of a job have different places in `per_flow`
  holds because a job is for all workers or for one (`JobPlaces`). A report is made of
  recursions, and what they compute for every input is proved here by looking at a least
  counterexample (`LeastNat`, `UptoInd`): a sum does not depend on the order of its
  terms, a chained list has the numbers of its parts, an order that sorts a list exists.

* **ScriptProofs**: `SeesPrivateCopy` and `CollectsEveryThread`, for any number of
  hooks and workers and any scripts that are heaps of functions and tables
  (`WellFormed`: what an interpreter can hold; sharing, depth and cycles are
  arbitrary). The argument is about maps between heaps. `Mirrors(a, b, org, lorg)`
  says that the objects and locations of `b` in the domains of `org` and `lorg` are
  copies of those of `a` that the maps lead to: same kind, slots that correspond,
  values that agree, and no two locations for one. What is mirrored is `Alike`
  (`MirrorsAlike`), and mirrors compose.
  - *A copy* (`CopyInv`): after each step of it the part already copied mirrors the
    source, except for the slots that calls under way have left; the maps of
    `upvalue_cache` lead to the copies of what they are indexed by, a variable of a
    function has been copied only if `upvalue_map` has it, and a table is copied once.
    A step disposes of one of the `Places` for good, calls are nested like the objects
    in the source and those have no cycle, so the stack is empty when the places are
    used up (`CopiedKeeps`).
  - *A worker* (`SInv`): while the script runs each registered hook is what
    `serialize_function` made of the engine at that moment (`ScriptOK`); from `run()` on
    a worker's state mirrors its private copy, and the hooks it has loaded are copies
    of their functions (`ThreadInv`). Loading a hook is a copy into that state, and a
    store goes to two locations that correspond (`LoadKeeps`, `StoreKeeps`,
    `CallKeeps`). `SeesPrivateCopy` is too weak for this by itself: it speaks of what
    loaded hooks can reach, whereas a hook that is loaded later joins variables that
    no path need lead to any more.
  - *The collection* (`PullInv`): the engine has the values of the workers before
    `puller`, and for each of them a mirror of what its private copy held
    (`ThreadPulled`). `script_engine_pull_data` is a sequence of copies with one cache,
    from a worker's state that is itself a mirror; what one worker's values brought
    in is not touched by the next worker's (`PullDataKeeps`, `PulledNew`,
    `PulledStays`). That a value can be serialized is the same of the worker's state as
    of its private copy (`SerializableMirror`), so an abort has one of the reasons that
    `CannotCollect` names.

Only model-checked: everything about liveness (`EveryoneExits`, `KeepsGoing`,
`ServerCleansUp`, `KeepsWriting`, `StopsInTime`, `FlowDeleted`, `ErrorsRead`), which is
out of the prover's reach. Every invariant and action property of a passing run is
proved.

## Not modelled

The correlation coefficient, mean and standard deviation, and what is printed of a
report; strings, booleans and bytecode in the serializer, the arguments of hooks, what
a packet hook may return beyond a count that the socket allows or an error (0, or more
than it was asked for), and the freeing of what was serialized; parsing of flags, hexdump, cpuinfo and CPU pinning
(sequential, formatting or I/O); logging. Logging has two hazards of its own that no
module covers: `LOG_FATAL` returns to its caller when the log file cannot be opened
(`logging.c:117`), while the modules take it for the end of the process, and
`open_log` on demand is not protected against a second thread; socket options; memory
exhaustion; LuaJIT and ljsyscall (third party). The time of the control plane
is not modelled: `try_connect` gives up only once the port is closed for good,
although the code also does so after 30 seconds; a client that gives up
earlier is a client that dies (`Mortal`). A magic number that arrives in pieces is
not modelled, only a secret that does. The death of a server by SIGPIPE
is a step of `TcpRr` and not of `ControlPlane`.

## Plan

1. Done: `ControlPlane`, `TestSession`, `TestRun`, `Sampling`, `TcpRr`,
   `Stream`, `Descriptors`, `Stats`, `Serialize`, `Script`, with the runs and proofs
   above.
2. Pure helpers: `flows_in_thread` (all flows are dealt out), `get_cpuset`,
   `buf_alloc`.
3. Logging: the shared log file and a `LOG_FATAL` that returns.
