------------------------------ MODULE TmkLock ------------------------------
(***************************************************************************)
(* The distributed lock of the TreadMarks runtime (Tmk/src/lock.c), with    *)
(* the request dispatch of sigio.c and the part of interval.c that a lock   *)
(* moves between processes.                                                 *)
(*                                                                          *)
(* Every lock has a static manager that knows the tail of a distributed     *)
(* queue.  A process that does not cache the lock sends a request to the    *)
(* manager; the manager serves it when it is itself the tail, or forwards   *)
(* it to the tail.  The tail grants at once if the lock is idle, or         *)
(* remembers the requester in "next" and grants when it releases.           *)
(*                                                                          *)
(* Requests and replies are UDP datagrams.  A requester retransmits after   *)
(* one second, so a request, its forwarded copy and its reply may be lost,  *)
(* and may arrive more than once.  Receivers tell a new request from a      *)
(* repeated one by its sequence number.                                     *)
(*                                                                          *)
(* Abstractions.  A sequence number of the code is proc_id + k * NPROCS,    *)
(* hence unique to its sender; here it is the count k, and the sender is    *)
(* kept beside it wherever numbers of two senders are compared.  A grant    *)
(* carries the intervals that the granter knows and the request's vector    *)
(* time does not cover, and the receiver skips those it already has; here   *)
(* the grant carries the vector time of the granter.  inverse_time_, which  *)
(* a grant updates at both ends, is left out: only arrivals at barriers and *)
(* joins read it (TmkBarrier, TmkSched).                                    *)
(***************************************************************************)
EXTENDS Integers

CONSTANTS
  NProcs,        \* Tmk_nprocs
  Locks,         \* the lock identifiers in use
  Ordered,       \* TRUE: datagrams arrive in causal order (see InOrder, Caught)
  MaxSeqno,      \* bound: remote acquires per process
  MaxIntervals   \* bound: intervals a process creates

ASSUME NProcsAssumption == NProcs \in Nat \ {0}
ASSUME LocksAssumption  == Locks \subseteq Nat
ASSUME OrderedAssumption == Ordered \in BOOLEAN
ASSUME BoundAssumption  == MaxSeqno \in Nat /\ MaxIntervals \in Nat

Proc == 0 .. NProcs - 1

ManagerUnwrapped(l) == l

(* lock->manager *)
Manager(l) == l % NProcs

NoLock == -1

VARIABLES
  held,          \* held[p][l]: lock->held at p
  next,          \* next[p][l]: lock->next at p
  tail,          \* tail[l]: lock->tail at the manager of l
  tail_,         \* tail_[m][p]: where manager m forwarded p's last request
  release_seqno, \* release_seqno[p][l]: requester and number of p's last grant
  time,          \* time[p][l]: lock->time at p
  req_seqno,     \* req_seqno[p]: number of p's last request
  rep_seqno_,    \* rep_seqno_[p][q]: highest request number p has seen from q
  waiting,       \* waiting[p]: the lock p is blocked on in Tmk_lock_acquire
  sentTo,        \* sentTo[p]: the process p's outstanding request goes to
  reqs,          \* request datagrams in flight
  reps,          \* reply datagrams in flight
  proc_vector_time_, \* the vector time of each process
  vector_time_,  \* vector_time_[p]: p's own entry of the copy Tmk_lock_acquire
                 \* takes of its vector time when it sends a request
  dirty,         \* dirty[p]: p's list of dirty pages is not empty
  failed,        \* processes that ended in Tmk_errexit
  released       \* history: released[l] is what the last release of l must show

protocol == <<held, next, tail, tail_, release_seqno, req_seqno, rep_seqno_,
              waiting, sentTo>>
memory == <<time, proc_vector_time_, vector_time_, dirty, released>>
vars == <<protocol, reqs, reps, memory, failed>>

VectorTime == [Proc -> Nat]

Request == [to : Proc, via : Proc, from : Proc, id : Locks, seqno : Nat]

Reply == [to : Proc, via : Proc, seqno : Nat, vector_time : VectorTime]

(* The program of p runs; p is not inside a lock operation. *)
Running(p) == waiting[p] = NoLock

(* p is between Tmk_lock_acquire(l) and Tmk_lock_release(l). *)
InCS(p, l) == held[p][l] /\ waiting[p] # l

Init ==
  /\ held = [p \in Proc |-> [l \in Locks |-> FALSE]]
  /\ next = [p \in Proc |-> [l \in Locks |-> 0]]
  /\ tail = [l \in Locks |-> 0]
  /\ tail_ = [p \in Proc |-> [q \in Proc |-> 0]]
  /\ release_seqno = [p \in Proc |-> [l \in Locks |-> <<0, 0>>]]
  /\ time = [p \in Proc |-> [l \in Locks |-> 0]]
  /\ req_seqno = [p \in Proc |-> 0]
  /\ rep_seqno_ = [p \in Proc |-> [q \in Proc |-> 0]]
  /\ waiting = [p \in Proc |-> NoLock]
  /\ sentTo = [p \in Proc |-> 0]
  /\ reqs = {}
  /\ reps = {}
  /\ proc_vector_time_ = [p \in Proc |-> [q \in Proc |-> 0]]
  /\ vector_time_ = [p \in Proc |-> 0]
  /\ dirty = [p \in Proc |-> FALSE]
  /\ failed = {}
  /\ released = [l \in Locks |-> [q \in Proc |-> 0]]

-----------------------------------------------------------------------------
(* The datagrams. *)

(* The request of p for l as p sends it. *)
AcquireRequest(p, to, l, k) ==
  [to |-> to, via |-> p, from |-> p, id |-> l, seqno |-> k]

Forward(m, by, to) == [m EXCEPT !.to = to, !.via = by]

Grant(p, to, k, vt) == [to |-> to, via |-> p, seqno |-> k, vector_time |-> vt]

(* With Ordered, the requests of one process reach another one, over the   *)
(* same hop, in the order of their numbers.                                *)
InOrder(m) ==
  Ordered => \A n \in reqs :
    n.to = m.to /\ n.via = m.via /\ n.from = m.from => n.seqno >= m.seqno

(* With Ordered, a grant of l does not overtake the copies of older        *)
(* requests for l whose senders have since obtained l and passed it on.    *)
Caught(p, l) ==
  Ordered => \A n \in reqs :
    n.to = p /\ n.id = l /\ n.via = n.from
      => waiting[n.from] = l /\ req_seqno[n.from] = n.seqno

(* A received request leaves the network, unless more copies of it are     *)
(* under way; the handler may send new ones.                               *)
ReceiveRequest(m, sent) ==
  \/ reqs' = (reqs \ {m}) \cup sent
  \/ reqs' = reqs \cup sent

-----------------------------------------------------------------------------
(* The intervals of interval.c. *)

(* Tmk_interval_create: p's vector time once its dirty pages, if any, are  *)
(* closed into an interval.                                                *)
Tmk_interval_create(p) ==
  IF dirty[p] THEN [proc_vector_time_[p] EXCEPT ![p] = @ + 1]
              ELSE proc_vector_time_[p]

CloseInterval(p) ==
  /\ proc_vector_time_' = [proc_vector_time_ EXCEPT ![p] = Tmk_interval_create(p)]
  /\ dirty' = [dirty EXCEPT ![p] = FALSE]

(* Tmk_interval_incorporate: the intervals in the reply that p lacks       *)
(* become known to p.  One of them may name a page that p has dirty; then  *)
(* p's own interval is closed first, numbered from the copy of the vector  *)
(* time that was taken before p was interruptible.                         *)
Tmk_interval_incorporate(p, vt) ==
  LET new == {q \in Proc \ {p} : vt[q] > proc_vector_time_[p][q]}
      merged == [q \in Proc |-> IF q \in new THEN vt[q]
                                             ELSE proc_vector_time_[p][q]]
  IN  \/ /\ proc_vector_time_' = [proc_vector_time_ EXCEPT ![p] = merged]
         /\ dirty' = dirty
      \/ /\ new # {} /\ dirty[p]
         /\ proc_vector_time_' =
              [proc_vector_time_ EXCEPT
                 ![p] = [merged EXCEPT ![p] = vector_time_[p] + 1]]
         /\ dirty' = [dirty EXCEPT ![p] = FALSE]

(* The program of p writes to shared memory: segv_handler makes a twin and *)
(* puts the page on the dirty list.                                        *)
Write(p) ==
  /\ Running(p)
  /\ ~ dirty[p]
  /\ proc_vector_time_[p][p] < MaxIntervals
  /\ dirty' = [dirty EXCEPT ![p] = TRUE]
  /\ UNCHANGED <<protocol, reqs, reps, time, proc_vector_time_, vector_time_,
                 released, failed>>

-----------------------------------------------------------------------------
(* Tmk_lock_acquire. *)

(* The lock is cached: lock->next == Tmk_proc_id. *)
AcquireCached(p, l) ==
  /\ Running(p)
  /\ ~ held[p][l]
  /\ next[p][l] = p
  /\ held' = [held EXCEPT ![p][l] = TRUE]
  /\ UNCHANGED <<next, tail, tail_, release_seqno, req_seqno, rep_seqno_,
                 waiting, sentTo, reqs, reps, memory, failed>>

(* memcpy(vector_time_, proc_vector_time_), after every transmission. *)
Snapshot(p) ==
  /\ vector_time_' = [vector_time_ EXCEPT ![p] = proc_vector_time_[p][p]]
  /\ UNCHANGED <<time, proc_vector_time_, dirty, released>>

(* The lock is elsewhere: ask the manager or, at the manager, the tail. *)
AcquireRemote(p, l) ==
  LET to == IF Manager(l) = p THEN tail[l] ELSE Manager(l)
      k  == req_seqno[p] + 1
  IN  /\ Running(p)
      /\ ~ held[p][l]
      /\ next[p][l] # p
      /\ k <= MaxSeqno
      /\ held' = [held EXCEPT ![p][l] = TRUE]
      /\ next' = [next EXCEPT ![p][l] = p]
      /\ tail' = IF Manager(l) = p THEN [tail EXCEPT ![l] = p] ELSE tail
      /\ req_seqno' = [req_seqno EXCEPT ![p] = k]
      /\ reqs' = reqs \cup {AcquireRequest(p, to, l, k)}
      /\ waiting' = [waiting EXCEPT ![p] = l]
      /\ sentTo' = [sentTo EXCEPT ![p] = to]
      /\ Snapshot(p)
      /\ UNCHANGED <<tail_, release_seqno, rep_seqno_, reps, failed>>

(* The one-second timer fires before the reply: goto rexmit. *)
Rexmit(p) ==
  /\ ~ Running(p)
  /\ reqs' = reqs \cup {AcquireRequest(p, sentTo[p], waiting[p], req_seqno[p])}
  /\ Snapshot(p)
  /\ UNCHANGED <<protocol, reps, failed>>

AcquiredAnyReply(p, m) ==
  /\ ~ Running(p)
  /\ m.to = p
  /\ Manager(waiting[p]) = p => m.via = sentTo[p]
  /\ Caught(p, waiting[p])
  /\ waiting' = [waiting EXCEPT ![p] = NoLock]
  /\ Tmk_interval_incorporate(p, m.vector_time)
  /\ reps' = reps \ {m}
  /\ UNCHANGED <<held, next, tail, tail_, release_seqno, req_seqno, rep_seqno_,
                 sentTo, reqs, time, vector_time_, released, failed>>

(* A reply with the awaited number arrives.  The manager listens only to   *)
(* the process it asked; the others listen to everybody.                   *)
Acquired(p, m) ==
  /\ ~ Running(p)
  /\ m.to = p
  /\ m.seqno = req_seqno[p]
  /\ Manager(waiting[p]) = p => m.via = sentTo[p]
  /\ Caught(p, waiting[p])
  /\ waiting' = [waiting EXCEPT ![p] = NoLock]
  /\ Tmk_interval_incorporate(p, m.vector_time)
  /\ reps' = reps \ {m}
  /\ UNCHANGED <<held, next, tail, tail_, release_seqno, req_seqno, rep_seqno_,
                 sentTo, reqs, time, vector_time_, released, failed>>

-----------------------------------------------------------------------------
(* Tmk_lock_release. *)

(* What a later holder of l must see: everything p knows, and its own      *)
(* writes that are not yet in an interval.                                 *)
Recorded(p) == Tmk_interval_create(p)

(* Nobody is queued behind p: the lock stays cached at p. *)
ReleaseCached(p, l) ==
  /\ Running(p)
  /\ held[p][l]
  /\ next[p][l] = p
  /\ held' = [held EXCEPT ![p][l] = FALSE]
  /\ time' = [time EXCEPT ![p][l] = proc_vector_time_[p][p]]
  /\ released' = [released EXCEPT ![l] = Recorded(p)]
  /\ UNCHANGED <<next, tail, tail_, release_seqno, req_seqno, rep_seqno_,
                 waiting, sentTo, reqs, reps, proc_vector_time_, vector_time_,
                 dirty, failed>>

ReleaseGrantOpenInterval(p, l) ==
  LET to == next[p][l]
      k  == rep_seqno_[p][to]
  IN  /\ Running(p)
      /\ held[p][l]
      /\ to # p
      /\ held' = [held EXCEPT ![p][l] = FALSE]
      /\ release_seqno' = [release_seqno EXCEPT ![p][l] = <<to, k>>]
      /\ reps' = reps \cup {Grant(p, to, k, proc_vector_time_[p])}
      /\ released' = [released EXCEPT ![l] = Recorded(p)]
      /\ UNCHANGED <<next, tail, tail_, req_seqno, rep_seqno_, waiting, sentTo,
                     reqs, time, proc_vector_time_, vector_time_, dirty, failed>>

(* A successor is queued: close the interval and grant. *)
ReleaseGrant(p, l) ==
  LET to == next[p][l]
      k  == rep_seqno_[p][to]
  IN  /\ Running(p)
      /\ held[p][l]
      /\ to # p
      /\ held' = [held EXCEPT ![p][l] = FALSE]
      /\ CloseInterval(p)
      /\ release_seqno' = [release_seqno EXCEPT ![p][l] = <<to, k>>]
      /\ reps' = reps \cup {Grant(p, to, k, Tmk_interval_create(p))}
      /\ released' = [released EXCEPT ![l] = Recorded(p)]
      /\ UNCHANGED <<next, tail, tail_, req_seqno, rep_seqno_, waiting, sentTo,
                     reqs, time, vector_time_, failed>>

-----------------------------------------------------------------------------
(* sigio_handler: a request with a new number goes to                      *)
(* Tmk_lock_sigio_handler, any other one to the duplicate handler.         *)

NewRequest(p, m) ==
  /\ m.to = p
  /\ InOrder(m)
  /\ rep_seqno_[p][m.from] < m.seqno
  /\ rep_seqno_' = [rep_seqno_ EXCEPT ![p][m.from] = m.seqno]

OldRequest(p, m) ==
  /\ m.to = p
  /\ InOrder(m)
  /\ rep_seqno_[p][m.from] >= m.seqno

(* lock->next = from, and the manager moves the tail along. *)
Enqueue(p, m) ==
  /\ next' = [next EXCEPT ![p][m.id] = m.from]
  /\ tail' = IF Manager(m.id) = p THEN [tail EXCEPT ![m.id] = m.from] ELSE tail

(* The interval with the writes made under the lock is closed before the   *)
(* grant, unless one was closed since the release.                         *)
GrantTime(p, l) ==
  IF time[p][l] = proc_vector_time_[p][p] THEN Tmk_interval_create(p)
                                          ELSE proc_vector_time_[p]

GrantDirtyKept(p, l) == dirty[p]

GrantDirty(p, l) == dirty[p] /\ time[p][l] # proc_vector_time_[p][p]

(* The lock is idle here: grant it. *)
HandlerGrant(p, m) ==
  /\ NewRequest(p, m)
  /\ next[p][m.id] = p
  /\ ~ held[p][m.id]
  /\ Enqueue(p, m)
  /\ release_seqno' = [release_seqno EXCEPT ![p][m.id] = <<m.from, m.seqno>>]
  /\ proc_vector_time_' = [proc_vector_time_ EXCEPT ![p] = GrantTime(p, m.id)]
  /\ dirty' = [dirty EXCEPT ![p] = GrantDirty(p, m.id)]
  /\ reps' = reps \cup {Grant(p, m.from, m.seqno, GrantTime(p, m.id))}
  /\ ReceiveRequest(m, {})
  /\ UNCHANGED <<held, tail_, req_seqno, waiting, sentTo, time, vector_time_,
                 released, failed>>

(* The lock is held, or awaited, here: remember the requester. *)
HandlerQueue(p, m) ==
  /\ NewRequest(p, m)
  /\ next[p][m.id] = p
  /\ held[p][m.id]
  /\ Enqueue(p, m)
  /\ ReceiveRequest(m, {})
  /\ UNCHANGED <<held, tail_, release_seqno, req_seqno, waiting, sentTo, reps,
                 memory, failed>>

HandlerForwardKeepsTail(p, m) ==
  /\ NewRequest(p, m)
  /\ next[p][m.id] # p
  /\ Manager(m.id) = p
  /\ tail_' = [tail_ EXCEPT ![p][m.from] = tail[m.id]]
  /\ ReceiveRequest(m, {Forward(m, p, tail[m.id])})
  /\ UNCHANGED <<held, next, tail, release_seqno, req_seqno, waiting, sentTo,
                 reps, memory, failed>>

(* The manager is not the tail: forward to the tail. *)
HandlerForward(p, m) ==
  /\ NewRequest(p, m)
  /\ next[p][m.id] # p
  /\ Manager(m.id) = p
  /\ tail_' = [tail_ EXCEPT ![p][m.from] = tail[m.id]]
  /\ tail' = [tail EXCEPT ![m.id] = m.from]
  /\ ReceiveRequest(m, {Forward(m, p, tail[m.id])})
  /\ UNCHANGED <<held, next, release_seqno, req_seqno, waiting, sentTo, reps,
                 memory, failed>>

(* Neither tail nor manager: Tmk_errexit. *)
HandlerError(p, m) ==
  /\ NewRequest(p, m)
  /\ next[p][m.id] # p
  /\ Manager(m.id) # p
  /\ failed' = failed \cup {p}
  /\ ReceiveRequest(m, {})
  /\ UNCHANGED <<held, next, tail, tail_, release_seqno, req_seqno, waiting,
                 sentTo, reps, memory>>

DuplicateGrantedNever(p, m) == FALSE

(* Tmk_lock_sigio_duplicate_handler. *)
DuplicateGranted(p, m) == release_seqno[p][m.id] = <<m.from, m.seqno>>
DuplicateQueued(p, m)  == held[p][m.id] /\ next[p][m.id] = m.from

(* The last grant answered this very request: grant again. *)
DuplicateGrant(p, m) ==
  /\ OldRequest(p, m)
  /\ DuplicateGranted(p, m)
  /\ reps' = reps \cup {Grant(p, m.from, m.seqno, proc_vector_time_[p])}
  /\ ReceiveRequest(m, {})
  /\ UNCHANGED <<protocol, memory, failed>>

(* A manager that is not concerned forwards once more. *)
DuplicateForward(p, m) ==
  /\ OldRequest(p, m)
  /\ ~ DuplicateGranted(p, m)
  /\ ~ DuplicateQueued(p, m)
  /\ Manager(m.id) = p
  /\ ReceiveRequest(m, {Forward(m, p, tail_[p][m.from])})
  /\ UNCHANGED <<protocol, reps, memory, failed>>

(* A repeated request for a held lock, or one that is only reported. *)
DuplicateIgnore(p, m) ==
  /\ OldRequest(p, m)
  /\ ~ DuplicateGranted(p, m)
  /\ DuplicateQueued(p, m) \/ Manager(m.id) # p
  /\ ReceiveRequest(m, {})
  /\ UNCHANGED <<protocol, reps, memory, failed>>

Handle(p, m) ==
  \/ HandlerGrant(p, m) \/ HandlerQueue(p, m)
  \/ HandlerForward(p, m) \/ HandlerError(p, m)
  \/ DuplicateGrant(p, m) \/ DuplicateForward(p, m) \/ DuplicateIgnore(p, m)

-----------------------------------------------------------------------------
(* UDP: any datagram may be lost. *)
LoseRequest(m) ==
  /\ reqs' = reqs \ {m}
  /\ UNCHANGED <<protocol, reps, memory, failed>>

(* A reply is lost, or discarded by a process that no longer awaits it. *)
LoseReply(m) ==
  /\ reps' = reps \ {m}
  /\ UNCHANGED <<protocol, reqs, memory, failed>>

Program(p) ==
  \/ Write(p)
  \/ \E l \in Locks :
       \/ AcquireCached(p, l) \/ AcquireRemote(p, l)
       \/ ReleaseCached(p, l) \/ ReleaseGrant(p, l)

Step(p) ==
  \/ Program(p)
  \/ Rexmit(p)
  \/ \E m \in reps : Acquired(p, m)
  \/ \E m \in reqs : Handle(p, m)

Next ==
  \/ \E p \in Proc \ failed : Step(p)
  \/ \E m \in reqs : LoseRequest(m)
  \/ \E m \in reps : LoseReply(m)

Spec == Init /\ [][Next]_vars

(* Programs release what they acquire, the interval timer keeps firing, and *)
(* a datagram that is sent again and again is received in the end.          *)
Fairness ==
  \A p \in Proc :
    /\ WF_vars(\E l \in Locks : ReleaseCached(p, l) \/ ReleaseGrant(p, l))
    /\ WF_vars(Rexmit(p))
    /\ SF_vars(\E m \in reps : Acquired(p, m))
    /\ \A q \in Proc \ {p} : \A k \in 1 .. MaxSeqno :
         SF_vars(\E m \in reqs : /\ m.from = q /\ m.seqno = k
                                /\ Handle(p, m) /\ m \notin reqs')

FairSpec == Spec /\ Fairness

-----------------------------------------------------------------------------
(* Every variable stays within its type. *)
TypeOK ==
  /\ held \in [Proc -> [Locks -> BOOLEAN]]
  /\ next \in [Proc -> [Locks -> Proc]]
  /\ tail \in [Locks -> Proc]
  /\ tail_ \in [Proc -> [Proc -> Proc]]
  /\ release_seqno \in [Proc -> [Locks -> Proc \X Nat]]
  /\ time \in [Proc -> [Locks -> Nat]]
  /\ req_seqno \in [Proc -> Nat]
  /\ rep_seqno_ \in [Proc -> [Proc -> Nat]]
  /\ waiting \in [Proc -> Locks \cup {NoLock}]
  /\ sentTo \in [Proc -> Proc]
  /\ reqs \subseteq Request
  /\ reps \subseteq Reply
  /\ proc_vector_time_ \in [Proc -> VectorTime]
  /\ vector_time_ \in [Proc -> Nat]
  /\ dirty \in [Proc -> BOOLEAN]
  /\ failed \subseteq Proc
  /\ released \in [Locks -> VectorTime]

(* The lock is never owned by more than one process at a time, whatever is *)
(* lost, retransmitted or delivered twice (lock.c; DOC.TEX, "Locks").      *)
MutualExclusion ==
  \A l \in Locks : \A p, q \in Proc : InCS(p, l) /\ InCS(q, l) => p = q

(* p caches or holds l. *)
HasLock(p, l) == waiting[p] # l /\ (held[p][l] \/ next[p][l] = p)

(* A process has granted l to the request p is blocked on. *)
GrantedTo(p, l) ==
  waiting[p] = l /\ \E g \in Proc : release_seqno[g][l] = <<p, req_seqno[p]>>

Owns(p, l) == HasLock(p, l) \/ GrantedTo(p, l)

(* At every moment at most one process holds l, caches l or has been        *)
(* granted l: lock->held, lock->next and lock->release_seqno of all         *)
(* processes agree on a single owner, while the grant is under way too.     *)
OneOwner == \A l \in Locks : \A p, q \in Proc : Owns(p, l) /\ Owns(q, l) => p = q

(* A blocked process has already set lock->held. *)
WaitingHolds ==
  \A p \in Proc : waiting[p] # NoLock => held[p][waiting[p]] /\ req_seqno[p] > 0

(* No number is in use that its sender has not given out. *)
NumbersKnown ==
  /\ \A m \in reqs : m.seqno <= req_seqno[m.from]
  /\ \A m \in reps : m.seqno <= req_seqno[m.to]
  /\ \A p, q \in Proc : rep_seqno_[p][q] <= req_seqno[q]
  /\ \A p \in Proc : \A l \in Locks :
       release_seqno[p][l][2] <= req_seqno[release_seqno[p][l][1]]

(* A grant that its receiver is going to accept is still recorded as the    *)
(* last grant of its sender.                                                *)
GrantsRecorded ==
  \A m \in reps :
    waiting[m.to] # NoLock /\ m.seqno = req_seqno[m.to]
      => release_seqno[m.via][waiting[m.to]] = <<m.to, m.seqno>>

(* The inductive invariant behind MutualExclusion for a single lock. *)
MutexInv ==
  TypeOK /\ WaitingHolds /\ NumbersKnown /\ GrantsRecorded /\ OneOwner

(* Tmk_lock_sigio_handler never reaches its Tmk_errexit: a process that is *)
(* not the manager is handed a new request only when it ends the queue.    *)
NoErrexit == failed = {}

(* Interval numbers are never reused: a step that takes pages off p's dirty *)
(* list puts them in an interval with the next number.  The handler may     *)
(* close an interval of p while p waits for a grant, so the number that     *)
(* Tmk_interval_incorporate takes from the saved copy could be stale.       *)
IntervalsAdvance ==
  [][\A p \in Proc :
       /\ dirty[p] /\ ~ dirty'[p]
            => proc_vector_time_'[p][p] = proc_vector_time_[p][p] + 1
       /\ dirty[p] = dirty'[p]
            => proc_vector_time_'[p][p] = proc_vector_time_[p][p]]_vars

(* The protocol implements AbstractLock: messages, caching, forwarding and  *)
(* retransmission are invisible to the program, and every acquire hands     *)
(* over a view that covers the last release and contains nothing unwritten. *)
Abstract == INSTANCE AbstractLock WITH
  owner <- [l \in Locks |-> {p \in Proc : InCS(p, l)}],
  view  <- [p \in Proc |-> Tmk_interval_create(p)],
  image <- released

ImplementsAbstractLock == Abstract!Spec

(* Every acquire returns: a lost request, forwarded request or grant is     *)
(* made good by the retransmission and the duplicate handler, and no        *)
(* requester is overtaken for ever.                                         *)
AcquireReturns == \A p \in Proc : ~ Running(p) ~> Running(p)

=============================================================================
