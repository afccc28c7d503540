# Verification of the distributed-systems repository

The repository holds a distributed shared memory runtime (TreadMarks, `Tmk/src`),
programs written for it (`codigo`, `Tmk/Tmk_ejems`, `Tmk/apps`), and client/server programs
over TCP, UDP, Sun RPC and gRPC (`Practica01` to `Practica03`, `Sockets`, `hola`,
`rpc`). This directory keeps TLA+ models of it, the TLC runs that check them on
small instances and TLAPS proofs that hold for every size.

The core is the synchronisation of the runtime: locks, barriers and the
consistency information that travels with them. They are implemented by signal
handlers and retransmitted datagrams, and they are what every DSM program of the
repository relies on.

## The system

| Part | Source | Model |
|---|---|---|
| Locks | `Tmk/src/lock.c` | `TmkLock`, `AbstractLock`; `TmkLock_proofs`, `TmkLockView_proofs` |
| Condition variables | `Tmk/src/lock.c` | `TmkCond` |
| Barriers | `Tmk/src/barrier.c` | `TmkBarrier`; `TmkBarrier_proofs`, `TmkBarrierSpread_proofs` |
| Garbage collection | `Tmk/src/repo.c` | `TmkBarrier` (its barriers), `TmkPage` (its pages) |
| Intervals | `Tmk/src/interval.c` | in `TmkLock`, `TmkBarrier`, `TmkPage`, `TmkSched` |
| Request dispatch | `Tmk/src/sigio.c` | in every module with datagrams; its buffers in `TmkSched` |
| Pages, twins, diffs | `page.c`, `segv.c`, `diff.c` | `TmkPage`; `TmkPage_proofs` |
| Fork and join | `Tmk/src/sched.c` | `TmkSched`; `TmkSched_proofs` |
| Start, connection, exit | `startup.c`, `open_udp.c`, `exit.c` | `TmkSession`; `TmkSession_proofs` |
| Shared heap, distribution | `sh_malloc.c`, `distribute.c` | `TmkHeap` |
| DSM exercises | `codigo/suma_tmk.c`, `Tmk_ejems/pipetmk.c` | `SumaTmk`, `PipeTmk` |
| DSM applications | `Tmk/apps`: `gauss_c`, `qs_c`, `tsp_c` | `GaussTmk`, `QsTmk`, `TspTmk` (maps in `TspGraphs`); `GaussTmk_proofs` |
| Ride services | `Practica01`, `Practica02`, `Practica02_2` | `RideTCP`, `RideRPC`, `RideRPC2` |
| Cannon game | `Practica03/CodigosFinales` | `Cannon` |

How the parts interact: the program calls locks and barriers; a write to a
protected page enters `segv_handler`, which puts the page on the dirty list; a
lock grant and a barrier answer carry the intervals the receiver lacks; receiving
them invalidates pages. Requests of other processes are served by a SIGIO handler
that interrupts the program anywhere outside the blocked sections. A sender waits
for its answer with a one-second timer and retransmits.

What is hard here: the handler runs between any two steps of the program that do
not block SIGIO; requests, forwarded requests and answers are lost, repeated and
late; arrays and buffers are shared between requests (`tail_`, `rep_seqno_`, the
static `rep` of barrier.c); intervals are closed lazily. `PROJECT.json` lists the
hazards with their lines.

## Modules

### TmkLock

State: the fields of `struct lock` per process (`held`, `next`, `release_seqno`,
`time`), the manager's `tail` and `tail_`, the sequence numbers, the datagrams in
flight (`reqs`, `reps`), and the interval state (`proc_vector_time_`,
`vector_time_`, `dirty`). `waiting` and `sentTo` stand for the local variables of
`Tmk_lock_acquire`. `released` is a history variable.

| Action | Code |
|---|---|
| `AcquireCached`, `AcquireRemote` | `Tmk_lock_acquire` up to the first wait |
| `Rexmit` | the timer and `goto rexmit` |
| `Acquired` | the answer with the awaited number, `Tmk_interval_incorporate` |
| `ReleaseCached`, `ReleaseGrant` | `Tmk_lock_release` |
| `HandlerGrant`, `HandlerQueue`, `HandlerForward`, `HandlerError` | the branches of `Tmk_lock_sigio_handler` |
| `DuplicateGrant`, `DuplicateForward`, `DuplicateIgnore` | the branches of `Tmk_lock_sigio_duplicate_handler` |
| `Write` | `segv_handler`, a write to a clean page |
| `LoseRequest`, `LoseReply` | the network |

A stretch of code that runs with SIGIO blocked is one action, since no handler
interrupts it. Sequence numbers are counted per sender (the code adds the process
number, which makes them unique). A grant carries the granter's vector time
instead of the list of intervals the requester lacks; the receiver skips what it
has, so both say the same. `inverse_time_`, which a grant updates at both ends (lock.c
340, 431, interval.c 447-448), is left out: only arrivals at barriers and joins read it,
and what the locks of a program add to it there is not modelled.

`Ordered` says how the network behaves. The code uses UDP. With `Ordered = TRUE`
a request is not delivered before an older request of the same process over the
same hop, and a grant not before the stale copies of requests that were served
earlier; loss and repetition remain. With `Ordered = FALSE` datagrams
come in any order.

### AbstractLock

What a program may rely on: one owner, and an acquire that shows what the last
owner had seen and written, and nothing unwritten. `TmkLock` implements it with
`owner` the processes in their critical section, `view` the vector time with the
open interval counted, and `image` the history of releases.

### TmkBarrier

State: `mask`, `req_from_` and the static buffer `rep` of barrier.c, `repo_mask`
of repo.c, the sequence numbers, vector times, `inverse_time_`, the datagrams.
`pc` says where in `Tmk_barrier` or `Tmk_repo` a process is. `arrivedAt`, `left`
and `gap` are history variables.

| Action | Code |
|---|---|
| `ArriveManager`, `ReleaseManager` | the manager's half of `Tmk_barrier`, before and after its wait |
| `ArriveClient`, `Rexmit`, `ReceiveReply`, `ReturnClient` | the client's half: send, timer, `recv` with SIGIO unblocked, the rest with SIGIO blocked |
| `HandleArrival`, `HandleArrivalAgain` | handler and duplicate handler |
| `RepoBarrierCollect`, `RepoBarrierReturn` | `repo_barrier` at process 0 and elsewhere, and what `Tmk_repo` does next |
| `HandleRepo`, `HandleRepoAgain` | the handlers of repo.c |

Every process runs the same program and calls barriers 0, 1, ... in turn. The
test that starts a collection depends on heap use and is a free choice at the
calls in `RepoEpisodes`. `Reliable = TRUE` leaves out loss and retransmission.

When the duplicate handler builds its answer in a buffer that holds an accepted
one, the model replaces the data by the new answer, as happens when both have
the same length; an answer without intervals leaves the data as it is. `recv` and the
test of `rep.seqno` are one step. Only the duplicate handler could come between and
matter, by putting another number into the buffer; `Interrupted` says when it can, and
then the process may wait on with the awaited answer gone, as the code does. A stale
answer of `repo_barrier` is only a number and leaves the rest of the buffer.

### TmkCond

The wait queue of a condition, `signal_vector_time_` and the datagrams of waits and
signals. The lock below is seen from above, as `AbstractLock` promises it. The
program is a monitor: consumers wait while there is no token, producers add one and
signal, with the lock or just after it. The manager tells an old wait from a new
one by its vector time.

### TmkPage

The copies of one page at the processes: `state`, protection, twin, write notices,
diffs, manager. Faults, page and diff requests, their handlers, invalidation by
notices, and the page loop of `Tmk_repo` are the actions. Each word has a lock and
programs are free of data races; all words share the page, so two holders write it at
once. Lock and barrier are single steps that carry intervals. A value is the number
of writes modulo `Values`, so that a second write can restore what the twin holds.
Diffs and notices are taken in the order of their stamps, by folds over sets of
stamps.

A request is retransmitted every second, and a copy that its receiver has already seen
goes to the same handler (sigio.c 219, 225), even when the requester waits no longer.
`late` holds such copies, of page and of diff requests, and `HandleLate` is their
handler; the answer has a stale number and is dropped. `Ordered = TRUE` assumes that no copy is
still on its way to a process that clears its write notices in a collection, which is
two barriers later. Without it `DiffServable` fails in 16 steps: the copy names a notice
that is gone, and the loop at diff.c 750-751 runs off the end of the list.

### TmkSched, TmkSession, TmkHeap

`TmkSched` has the master's and the slaves' halves of fork and join, the requests
held in buffers, the duplicate handler and the collection flag. `TmkSession` runs
each process along a script (connect and accept in the order of `Tmk_startup`, a
last barrier, one access, `Tmk_exit`) over a network that loses datagrams.
`TmkHeap` has the buckets, indices and break of the allocator as byte offsets; an
operation under `TABLE_LOCK` is one step, except the first, which distributes the
table process by process.

### Programs on the library

`SumaTmk`, `PipeTmk`, `GaussTmk`, `QsTmk` and `TspTmk` use locks and barriers as
single steps. What is read without a lock is modelled as the memory allows it: the
turn in `SumaTmk`, the pause flag in `QsTmk` (written from outside, one process
after the other, between the test and `sigpause`), the length of the best tour in
`TspTmk` (`seen`, as recent as the last acquire). The numbers of the elimination are
replaced by which sweep each row and each pivot variable has reached.

### Services

`RideTCP`: a sequential server, the queue of connections, clients that reconnect or
are killed. A client killed with an answer unread resets its connection; `recv` raises
an exception that nothing catches (servidorTCPUber.py 51), the server ends (`up`), and
the other clients fail where they next connect or receive. `RideRPC`: one call at a time, no answer to a NULL result, callers that
give up before a late answer. `RideRPC2`: every call answered, a count at the start
and a price at the end of a ride. `Cannon`: each read and write of the two attributes
of the best shot is a step of a worker thread.

## Runs

A run may hold several instances. The variable `scenario` of its module says which one a
behaviour belongs to; it never changes, each instance has its own variables, and a
property speaks of the scenarios it names.

| Run | Instances | What it shows |
|---|---|---|
| `lock_protocol` | 3 processes, 1 lock, 2 remote acquires; 2 requesters, 2 locks with different managers, writes; datagrams in any order | one holder and one owner; no interval number used twice; `Tmk_errexit` unreachable while datagrams keep their order |
| `page` | 3 processes, 2 words, values modulo 2, 5 synchronisations and late copies of requests | every read sees the last write; every diff asked for can be made; the manager has a copy; no diff is applied to a protected page |
| `consistency` | barrier: 2 processes, loss, a collection; lock: 3 processes, writes; 2 processes, 2 locks, writes | nobody leaves a barrier early; barriers publish all intervals, and none is missing in between; who learns of intervals has closed its own; the lock implements `AbstractLock` |
| `programs` | see below | safety of what is built on locks and barriers, and of the services |
| `calls_return` | lock 3, condition 2, fork/join 2, session 2 processes, loss, fair | the blocking calls return, except for a slave that is sent into a collection alone; nobody exits while process 0 may still need it |
| `waits_end` | barriers 3 processes (with loss; with a collection), quicksort 2, pipeline 4, `RideTCP` 2 clients and 1 car, `RideRPC` 2 passengers and 1 car, fair; elimination of 5 rows by 3 processes | barriers return, quicksort and the pipeline end, every TCP client is served, or fails because a killed one has ended the server, and every RPC call comes back; every sweep uses its own pivot |
| `lock_unordered`, `barrier_flag`, `barrier_buffer`, `heap_aligned`, `cannon_race`, `tsp_minimum` | | one violated property each: see Findings |

`programs`: fork and join with 3 processes, 2 forks, a collection possible at each
(`ForkInOrder`, `ForkPublishes`, `BufferLeft`); conditions with 3 processes
(`NoLostWakeup`); session with 3 (its type); heap of 6 pages, 5 operations (`HeapSound`);
three clients and two cars in each ride service (`TcpRidesAlone`, `BusyHasReason`,
`FiguresAgree`); the cannon game with two players and two workers (`BestHasName`);
`SumaTmk` with 3 processes and 5 elements (`NaturalOrder`); quicksort of every
permutation of 4 keys by 3 processes (`DoneMeansSorted`); the salesman with 5 cities and
2 workers (`MinimumTour`). `AllTypesOK` is the type invariant of the running one.

`MinimumTour` holds for the five-city maps of `programs` and fails for the six-city
map of `tsp_minimum`. `EverySessionEnds` is checked with two processes, one of which
connects to the other, and a last barrier managed by process 0.

### Bounds

`MaxSeqno` bounds the remote acquires of a process and `MaxEpisodes` its barriers: two
acquires let a repeated request of the first meet the second, three let it meet a lock
that has come back. Three processes are the least with a manager, a tail and a requester
that differ, or with a writer, a reader and a manager of a page. `MaxIntervals` bounds
the intervals of a process: one lets a write be open, closed by a handler and learnt.
`MaxSyncs = 5` lets every action of `TmkPage` happen, those of a collection included; a
copy of a request on its way counts as a synchronisation, and there is one at a time
(`MaxLate`). With two locks, two remote acquires in all (`MaxRequests`) and two intervals let one
lock be granted after the other has closed an interval. Two
forks let a join be repeated after its fork, and memory may be full at the joins in
`Pressure`. `MaxOps = 5` lets a chunk be split and its halves be used again;
`NPages = 6` and a large `Tmk_sbrk` fill the memory. More clients than cars make a
refusal happen. Every bound is a conjunct of a guard or a constant of the program.

Deadlock is checked in `lock_protocol`. The other passing runs contain programs that
end, and say `CHECK_DEADLOCK FALSE`. That a program ends, and does not merely stop, is
checked where a property of `calls_return` or `waits_end` says so: acquires, conditions,
slaves, sessions, barriers, quicksort, the pipeline and the two ride services named there.

### Fairness

A program that holds a lock releases it and a program goes on to its next call: that is
the program's duty, not the runtime's. Retransmission is weakly fair because the
interval timer is set again with every transmission. Receiving is strongly fair: the
network may lose any number of datagrams, but one that is sent again and again is
received in the end, and its handler runs, since SIGIO is delivered when its blocked
section ends and `sigio_handler` loops until no socket is readable. `QsTmk` is strongly
fair for taking the task lock, whose requests are queued, and its `sigpause` is ended by
the timer as well. Servers and clients of the ride services go on while they can; a
client may be killed, and may end the TCP server with it, but does not stay connected in silence.

## Findings

- `lock_unordered`: lock.c stops the process (`Tmk_errexit`, line 362) for a case it
  takes to be impossible. A late copy of an old request makes it happen. Mutual exclusion
  does not suffer.
- `barrier_flag`: `/* rep.repo = ? */` (barrier.c 283). The answer to the repeated arrival
  of barrier *e* carries the flag of barrier *e*+1 if the manager has entered it.
- `barrier_buffer`: between the check of the number (218) and `SIG_BLOCK` (226) the
  duplicate handler may overwrite the accepted answer.
- `heap_aligned`: mmap.c (197-200) relies on page-aligned chunks; a chunk cut from a
  larger free one is not aligned.
- `cannon_race`: the best shot is compared and replaced without a lock
  (practica3Server.py 59-61); a player may be told a best distance worse than its own.
- `tsp_minimum`: `split_tour` (PQ.C 78) adds the edge to a bound that already contains it,
  and prunes the shortest tour.

The passing runs say where some of these do not arise: datagrams in order, a collection
after which the next barrier cannot start another, one barrier, maps of five cities.

Further limits were found by changing an instance; no text of the repository promises the
opposite, so they are hazards with a note and not findings. `EverySessionEnds` fails with
three processes and a last barrier managed by process 1, and when the only answer to an
exit request is lost. `BusyHasReason` fails when two cars have the same plate.
`DiffServable` fails when a copy of a diff request outlasts a collection (`Ordered = FALSE`).
A slave of `TmkSched` may wait for ever in a collection: its reply was lost, the master's
next join finds the memory full and sets `rep.repo`, and the duplicate handler answers
with that flag (sched.c 344, the same `rep.repo = ?` as in barrier.c). `SlavesReturn` makes
an exception of the slaves in `Strays`, which are exactly those, and of nothing else; memory
may be full at every join of its run.

## Proofs

All theorems are about the modules that the runs check, for every value of the
constants: any number of processes, requests, losses and repetitions. They rest on the
named assumptions of `TmkLock`, `TmkBarrier`, `TmkPage` and `TmkSession`, which only say
that the constants have their types (at least one process, at least one barrier, at least
two values), and on the hypotheses that a theorem states. Each follows from an inductive
invariant.

| Module | Theorems | Hypothesis | Invariant |
|---|---|---|---|
| `TmkLock_proofs` | `TypeCorrect`; `SingleOwner`, `Exclusive` | none; `OneLock` | `MutexInv` |
| `TmkLockView_proofs` | `NumbersAdvance`; `LockRefines` | none; `OneLock` | `CopyInv`; `ViewInv` |
| `TmkBarrier_proofs` | `TypeCorrect`, `BarrierHolds`, `LearnsClosed` | none | `SyncInv`, `ClosedInv` |
| `TmkBarrierSpread_proofs` | `ArrivalsJoin`, `BarrierSpreads` | `NBarriers = 1` | `DataInv` |
| `TmkSched_proofs` | `RunsInOrder`, `ForkCarries`, `BuffersSuffice` | `Sized` | `SchedInv` |
| `TmkPage_proofs` | `Writable`, `WritesHaveTwins` | none | `PageInv` |
| `TmkSession_proofs` | `ServedToTheEnd` | none | `SessionInv` |
| `GaussTmk_proofs` | `TypeCorrect`, `PivotsMatch`, `SweepsInOrder` | `Sized` | `GaussInv` |

**Mutual exclusion.** `OneLock` says that `Locks` has at most one element. With several
locks a queued request is answered with the highest number seen from its sender
(`rep_seqno_[to]`, lock.c 426), which is the right one only as long as the requester is
blocked on it; the argument for that needs the order of delivery, and stays with TLC
(scenario `two_locks` of `lock_protocol`). `OneOwner` alone is not inductive: an answer in
flight could be accepted by somebody who does not own the lock. `GrantsRecorded` closes
this: an answer that will be accepted is still the last grant of its sender, so accepting
it turns `GrantedTo` into `HasLock` for the same process. That needs `NumbersKnown` (a
number not yet given out is nowhere, so a new request makes no old grant acceptable) and
`WaitingHolds` (a blocked process has set `held`, so a request that reaches it is queued
and not granted). Each handler branch then either leaves the set of owners, or moves
ownership from the granter, who had it, to the requester (lemmas `GrantMoves` and
`OwnersShrink`). Neither these theorems nor the refinement assume an order of delivery.

**What the lock hands over.** `LockRefines` is the refinement of `AbstractLock`: initial
states map to initial states and every step to a step or a stutter. The hard step is the
acquire: the abstract lock shows the new owner all that was released, the code only what
the accepted grant carries. `GrantShows` says that it is enough, and `GranterShows` that
it still is when the grant is repeated from a later state of the granter. A release closes
no interval, so the view that it passes on is still open; `TimeTells` is why
`lock->time` tells the handler correctly whether the interval has to be closed before the
grant. `KnownClosed` keeps anyone from having seen what is not closed. `NumbersAdvance`
needs `FreshCopy`: a waiting process numbers its interval by a copy of its vector time,
which may be old, but only when it has nothing left to close.

**Barriers.** `SyncInv` relates the manager's mask, the sequence numbers and the datagrams
to where each process is. Its core is `ReleaseInv`: a waiting client has been released
exactly when its number has been seen and the mask does not hold it, which is what the
duplicate handler tests before it answers again. `RequestInv` makes an old copy of a
request recognisable, so that it never enters a mask twice. `DataInv` adds vector times.
It needs one barrier, that is one manager: with two, an accepted answer can be overwritten
before it is used and `BarrierPublishes` is false (run `barrier_buffer`); with one, the
manager never waits for an answer, and nobody else builds one.

**Fork and join.** A slave's request number counts the functions it has run (`Numbered`),
and the master's number of a slave counts the forks and the request held in the mask
(`Masked`); a reply in flight has the function of its own fork, and the latest one carries
what was published with it (`ReplyTrue`). `BufferLeft` follows because one buffer is kept
per slave in the mask (`Counted`). `Sized` says that there is a process.

**Pages.** `Recorded` says that a write which no diff records yet is in a valid, writable
page with a twin; `Fetched` says that nothing is unrecorded in a page that is being
fetched, so that no request served meanwhile, and no late copy of one, protects it. The twin may be missing only
inside a collection, before its first barrier. `diff_apply` and the sorting of notices
are written with `FiniteSetsExt`; the proofs use only what the results do not change.

**Exit.** A request to exit exists only when process 0 is past its last access, and a
process is gone only because it was asked. The scripts of the processes are sequences, and
most of the proof is that process 0 has no request of this kind earlier in its own.

**Elimination.** `Together` is what one barrier per sweep is worth: two processes are at
most one sweep apart, and the later one has arrived. With it a published pivot stays until
the sweep after the next (`PivotKept`), which is why two alternating variables suffice.
`Sized` says that there is a process and that `iters < size` (gauss.c 184-191).

TLC found these invariants true before they were proved: `ViewInv` with two and with three
processes and datagrams in any order, in 5,894,720 states together; `SchedInv` in 103,023
states, `GaussInv` in 3,915, `PageInv` in the 1,560,049 of `page`, `SessionInv` in 36,243.

Only model-checked:

- all liveness, since the prover knows neither fairness nor `ENABLED`;
- `ReadsLatest`, `DiffServable`, `ManagerHasCopy` and the type of `TmkPage`: they depend
  on what folds over stamps and the sorted notices compute, which takes induction over
  data;
- `OrderedNoErrexit`, an argument about the order of delivery, and locks or barriers
  beyond the hypotheses above;
- what `QsTmk` and `TspTmk` compute, by recursive definitions;
- conditions, the heap, the services, `SumaTmk` and `PipeTmk`: no theorem has been
  written for them.

## Not modelled

- gRPC and grpc-go, vendored and used unchanged: over 13,000 of the repository's 15,000
  files. What the modules aim at is the code written for or ported to this repository.
- The other applications of the TreadMarks distribution: computation between barriers,
  as in `GaussTmk`.
- The enrolment exercise, `sumaArrtmk.c`, the echo, greeting and addition exercises:
  sequential, or without state.
- ATM and MPL transports, remote start, option parsing, statistics, `Tmk_mmap`.
- Within modelled parts: the encoding of diffs and diffs over several datagrams, several
  pages at once, the heap of interval records and the 16-bit width of vector times, and
  locks together with a collection (the comment at repo.c 314-320).
