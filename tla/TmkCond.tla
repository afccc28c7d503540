------------------------------ MODULE TmkCond ------------------------------
(***************************************************************************)
(* The condition variables of a lock (Tmk/src/lock.c, Tmk_lock_cond_wait, *)
(* _signal and _broadcast).  A wait request and a signal race to the lock's *)
(* manager; the manager tells from the vector times which was first.       *)
(*                                                                         *)
(* The lock itself is seen from above, as AbstractLock promises it (the    *)
(* TmkLock runs): a queue of processes, the first one the owner.           *)
(*                                                                         *)
(* The program is the usual monitor: a consumer waits while there are no   *)
(* tokens, a producer adds one and signals, holding the lock or just after *)
(* releasing it.                                                           *)
(***************************************************************************)
EXTENDS Integers, Sequences, FiniteSets, FiniteSetsExt, SequencesExt

CONSTANTS
  NProcs,      \* Tmk_nprocs
  Consumers,   \* the processes that take tokens; the others make them
  Takes,       \* tokens each consumer takes
  MaxWrites    \* bound: writes a consumer makes before it waits

VARIABLES
  manager,   \* lock->manager: the lock's number modulo Tmk_nprocs
  pc,        \* pc[p]: where p is in its program
  queue,     \* the owner of the lock and those whose requests reached it
  held,      \* lock->held at the owner
  dirty,     \* dirty[p]: p has written since its last interval
  time,      \* time[p]: proc_vector_time_ of p
  tokens,    \* the shared variable of the program
  produced,  \* tokens made so far
  taken,     \* taken[p]: tokens p took
  writes,    \* writes[p]: writes p made before waiting
  owes,      \* owes[p]: p has made a token and not signalled yet
  net,       \* requests and acknowledgements on their way, <<p, kind>>
  handled,   \* handled[p]: the manager has seen the last request of p
  waitq,     \* cond->waitq_head: the processes queued at the manager
  signal_vector_time_  \* of the condition, at the manager

vars == <<manager, pc, queue, held, dirty, time, tokens, produced, taken,
          writes, owes, net, handled, waitq, signal_vector_time_>>

program == <<tokens, produced, taken, writes, owes>>
condition == <<net, handled, waitq, signal_vector_time_>>

Procs == 0 .. NProcs - 1
Total == Cardinality(Consumers) * Takes
Signals == {"signal", "broadcast"}

Init ==
  /\ manager \in Procs
  /\ pc = [p \in Procs |-> "out"]
  /\ queue = <<0>>                       \* lock->tail = 0, lock->next = 0
  /\ held = FALSE
  /\ dirty = [p \in Procs |-> FALSE]
  /\ time = [p \in Procs |-> [q \in Procs |-> 0]]
  /\ tokens = 0
  /\ produced = 0
  /\ taken = [p \in Procs |-> 0]
  /\ writes = [p \in Procs |-> 0]
  /\ owes = [p \in Procs |-> FALSE]
  /\ net = {}
  /\ handled = [p \in Procs |-> FALSE]
  /\ waitq = <<>>
  /\ signal_vector_time_ = [p \in Procs |-> 0]

Later(t, u) == [q \in Procs |-> Max({t[q], u[q]})]

Has(p) == held /\ Head(queue) = p

-----------------------------------------------------------------------------
(* The lock. *)

\* Tmk_interval_create: a new interval for what the owner has written.
Closed(p) == IF dirty[p] THEN [time[p] EXCEPT ![p] = @ + 1] ELSE time[p]

\* The owner hands the lock over to p, with its vector time.
HandOver(p) ==
  LET owner == Head(queue)
  IN /\ time' = [time EXCEPT ![owner] = Closed(owner),
                             ![p] = Later(@, Closed(owner))]
     /\ dirty' = [dirty EXCEPT ![owner] = FALSE]

\* The requests of s reach the queue, in that order; "at" is where every
\* process is, but for the one that is granted a lock nobody holds.
Requested(s, at) ==
  IF held \/ s = <<>>
  THEN /\ queue' = queue \o s
       /\ pc' = at
       /\ UNCHANGED <<held, dirty, time>>
  ELSE /\ HandOver(Head(s))
       /\ queue' = s
       /\ held' = TRUE
       /\ pc' = [at EXCEPT ![Head(s)] = "in"]

Tmk_lock_acquire(p) ==
  IF queue = <<p>>
  THEN /\ held' = TRUE
       /\ pc' = [pc EXCEPT ![p] = "in"]
       /\ UNCHANGED <<queue, dirty, time>>
  ELSE Requested(<<p>>, [pc EXCEPT ![p] = "want"])

\* Tmk_lock_release by p, which is at "next" afterwards.
Tmk_lock_release(p, next) ==
  IF Len(queue) > 1
  THEN /\ HandOver(queue[2])
       /\ queue' = Tail(queue)
       /\ pc' = [pc EXCEPT ![p] = next, ![queue[2]] = "in"]
       /\ UNCHANGED held
  ELSE /\ held' = FALSE
       /\ pc' = [pc EXCEPT ![p] = next]
       /\ UNCHANGED <<queue, dirty, time>>

-----------------------------------------------------------------------------
(* The condition variable. *)

\* The loop at the start of Tmk_lock_cond_wait: the lock is given up only
\* when another process has asked for it (lock->next != Tmk_proc_id).
\* Mutant: no loop.
GiveUpAtOnce == TRUE

AnotherAsks == Len(queue) > 1

\* The release of Tmk_lock_cond_wait.  A process other than the manager sets
\* lock->held again for the lock it is waiting for: when nobody had asked, it
\* would go on holding it.
ReleaseToWait(p) ==
  IF p = manager \/ Len(queue) > 1
  THEN Tmk_lock_release(p, "waiting")
  ELSE pc' = [pc EXCEPT ![p] = "waiting"] /\ UNCHANGED <<queue, held, dirty, time>>

\* A new request has a new sequence number: what is still on its way of the
\* one before changes nothing any more, since the duplicate handlers and the
\* waiting process go by the number.
NewRequest(p, kind) == {m \in net : m[1] # p} \cup {<<p, kind>>}

Tmk_lock_cond_wait(p) ==
  /\ pc[p] = "giveup"
  /\ AnotherAsks
  /\ ReleaseToWait(p)
  /\ IF p = manager
     THEN waitq' = Append(waitq, p) /\ UNCHANGED <<net, handled>>
     ELSE /\ net' = NewRequest(p, "wait")
          /\ handled' = [handled EXCEPT ![p] = FALSE]
          /\ UNCHANGED waitq
  /\ UNCHANGED <<manager, signal_vector_time_, program>>

\* "The wait request is older than the last signal": the signaller knew of
\* the interval the waiter closed when it gave the lock up.
\* Mutant: a strict comparison.
StrictlyOlder(p) == time[p][p] < signal_vector_time_[p]

OlderThanSignal(p) == time[p][p] <= signal_vector_time_[p]

Fresh(p) == ~ handled[p]

\* The wait request is on record by its vector time when it is received; the
\* sender's own component does not change while it waits.
Tmk_cond_wait_sigio_handler(p) ==
  /\ <<p, "wait">> \in net
  /\ net' = net \ {<<p, "wait">>}
  /\ Fresh(p)
  /\ handled' = [handled EXCEPT ![p] = TRUE]
  /\ IF OlderThanSignal(p)
     THEN Requested(<<p>>, pc) /\ UNCHANGED waitq
     ELSE waitq' = Append(waitq, p) /\ UNCHANGED <<pc, queue, held, dirty, time>>
  /\ UNCHANGED <<manager, signal_vector_time_, program>>

\* Still queued: ignored.  Otherwise the lock's duplicate handler grants or
\* forwards what is lost, which the queue abstracts from.
Tmk_cond_wait_sigio_duplicate_handler(p) ==
  /\ <<p, "wait">> \in net
  /\ net' = net \ {<<p, "wait">>}
  /\ ~ Fresh(p)
  /\ UNCHANGED <<manager, pc, queue, held, dirty, time, program, handled, waitq,
                 signal_vector_time_>>

\* waitq_dequeue, once for a signal and until the queue is empty for a
\* broadcast: the manager's own entry is only marked, and the manager then
\* calls Tmk_lock_acquire itself.
Dequeue(kind) ==
  LET out == IF kind = "signal" THEN SubSeq(waitq, 1, Min({1, Len(waitq)})) ELSE waitq
      at == IF manager \in ToSet(out) THEN [pc EXCEPT ![manager] = "woken"] ELSE pc
  IN [rest |-> SubSeq(waitq, Len(out) + 1, Len(waitq)),
      requests |-> SelectSeq(out, LAMBDA p : p # manager),
      at |-> at]

update_time(t) == Later(signal_vector_time_, t)

\* Tmk_lock_cond_signal or _broadcast by the manager itself.
SignalLocally(p, kind) ==
  /\ p = manager
  /\ owes[p]
  /\ pc[p] \in {"out", "leave"}
  /\ waitq' = Dequeue(kind).rest
  /\ Requested(Dequeue(kind).requests, Dequeue(kind).at)
  /\ signal_vector_time_' = update_time(time[p])
  /\ owes' = [owes EXCEPT ![p] = FALSE]
  /\ UNCHANGED <<manager, tokens, produced, taken, writes, net, handled>>

\* The same by another process: a request, sent again until acknowledged.
Tmk_lock_cond_signal(p, kind) ==
  /\ p # manager
  /\ owes[p]
  /\ pc[p] \in {"out", "leave"}
  /\ pc' = [pc EXCEPT ![p] = kind]
  /\ net' = NewRequest(p, kind)
  /\ handled' = [handled EXCEPT ![p] = FALSE]
  /\ UNCHANGED <<manager, queue, held, dirty, time, program, waitq, signal_vector_time_>>

\* The request carries the signaller's vector time.  The model reads it on
\* receipt: the components it is compared by, those of the waiters, do not
\* change while the signaller waits for the acknowledgement.
Tmk_cond_signal_sigio_handler(p, kind) ==
  /\ <<p, kind>> \in net
  /\ ~ handled[p]
  /\ waitq' = Dequeue(kind).rest
  /\ Requested(Dequeue(kind).requests, Dequeue(kind).at)
  /\ signal_vector_time_' = update_time(time[p])
  /\ owes' = [owes EXCEPT ![p] = FALSE]
  /\ net' = (net \ {<<p, kind>>}) \cup {<<p, "ack">>}
  /\ handled' = [handled EXCEPT ![p] = TRUE]
  /\ UNCHANGED <<manager, tokens, produced, taken, writes>>

Tmk_ack(p, kind) ==
  /\ <<p, kind>> \in net
  /\ handled[p]
  /\ net' = (net \ {<<p, kind>>}) \cup {<<p, "ack">>}
  /\ UNCHANGED <<manager, pc, queue, held, dirty, time, program, handled, waitq,
                 signal_vector_time_>>

Acknowledged(p) ==
  /\ <<p, "ack">> \in net
  /\ net' = net \ {<<p, "ack">>}
  /\ pc' = IF pc[p] \in Signals
           THEN [pc EXCEPT ![p] = IF Has(p) THEN "leave" ELSE "out"] ELSE pc
  /\ UNCHANGED <<manager, queue, held, dirty, time, program, handled, waitq,
                 signal_vector_time_>>

\* The timer of a waiter or a signaller fires.
Rexmit(p) ==
  /\ p # manager
  /\ pc[p] \in {"waiting"} \cup Signals
  /\ LET m == <<p, IF pc[p] = "waiting" THEN "wait" ELSE pc[p]>>
     IN m \notin net /\ net' = net \cup {m}
  /\ UNCHANGED <<manager, pc, queue, held, dirty, time, program, handled, waitq,
                 signal_vector_time_>>

Lose(m) ==
  /\ net' = net \ {m}
  /\ UNCHANGED <<manager, pc, queue, held, dirty, time, program, handled, waitq,
                 signal_vector_time_>>

-----------------------------------------------------------------------------
(* The program. *)

Enter(p) ==
  /\ \/ /\ pc[p] = "out"
        /\ ~ owes[p]
        /\ IF p \in Consumers THEN taken[p] < Takes ELSE produced < Total
     \/ pc[p] = "woken"
  /\ Tmk_lock_acquire(p)
  /\ UNCHANGED <<manager, program, condition>>

Use(p) ==
  /\ pc[p] = "in"
  /\ UNCHANGED <<manager, queue, held, time, condition>>
  /\ \/ /\ p \in Consumers /\ tokens > 0
        /\ tokens' = tokens - 1
        /\ taken' = [taken EXCEPT ![p] = @ + 1]
        /\ dirty' = [dirty EXCEPT ![p] = TRUE]
        /\ pc' = [pc EXCEPT ![p] = "leave"]
        /\ UNCHANGED <<produced, writes, owes>>
     \/ /\ p \in Consumers /\ tokens = 0
        /\ pc' = [pc EXCEPT ![p] = "giveup"]
        /\ \E w \in {0, 1} :
             /\ writes[p] + w <= MaxWrites
             /\ writes' = [writes EXCEPT ![p] = @ + w]
             /\ dirty' = [dirty EXCEPT ![p] = @ \/ w = 1]
        /\ UNCHANGED <<tokens, produced, taken, owes>>
     \/ /\ p \notin Consumers
        /\ pc' = [pc EXCEPT ![p] = "leave"]
        /\ IF produced < Total
           THEN /\ tokens' = tokens + 1
                /\ produced' = produced + 1
                /\ dirty' = [dirty EXCEPT ![p] = TRUE]
                /\ owes' = [owes EXCEPT ![p] = TRUE]
           ELSE UNCHANGED <<tokens, produced, dirty, owes>>
        /\ UNCHANGED <<taken, writes>>

Leave(p) ==
  /\ pc[p] = "leave"
  /\ Tmk_lock_release(p, "out")
  /\ UNCHANGED <<manager, program, condition>>

Signal(p) ==
  \E kind \in Signals : SignalLocally(p, kind) \/ Tmk_lock_cond_signal(p, kind)

Run(p) == Enter(p) \/ Use(p) \/ Leave(p) \/ Signal(p) \/ Tmk_lock_cond_wait(p)

HandleWait(p) ==
  Tmk_cond_wait_sigio_handler(p) \/ Tmk_cond_wait_sigio_duplicate_handler(p)

HandleSignal(p) ==
  \E kind \in Signals : Tmk_cond_signal_sigio_handler(p, kind) \/ Tmk_ack(p, kind)

Next ==
  \/ \E p \in Procs :
       Run(p) \/ HandleWait(p) \/ HandleSignal(p) \/ Acknowledged(p) \/ Rexmit(p)
  \/ \E m \in net : Lose(m)

Spec == Init /\ [][Next]_vars

(* The program goes on while it can, the timer keeps firing, and a datagram *)
(* that is sent again and again is received in the end.                     *)
Fairness ==
  \A p \in Procs :
    /\ WF_vars(Run(p))
    /\ WF_vars(Rexmit(p))
    /\ SF_vars(Tmk_cond_wait_sigio_handler(p))
    /\ SF_vars(HandleSignal(p))
    /\ SF_vars(Acknowledged(p))

FairSpec == Spec /\ Fairness

-----------------------------------------------------------------------------
(* Properties *)

Places == {"out", "want", "in", "leave", "giveup", "waiting", "woken"} \cup Signals

TypeOK ==
  /\ manager \in Procs
  /\ pc \in [Procs -> Places]
  /\ queue \in Seq(Procs) /\ queue # <<>>
  /\ held \in BOOLEAN
  /\ dirty \in [Procs -> BOOLEAN]
  /\ time \in [Procs -> [Procs -> Nat]]
  /\ tokens \in 0 .. Total
  /\ produced \in 0 .. Total
  /\ taken \in [Procs -> 0 .. Takes]
  /\ writes \in [Procs -> 0 .. MaxWrites]
  /\ owes \in [Procs -> BOOLEAN]
  /\ net \subseteq Procs \X (Signals \cup {"wait", "ack"})
  /\ handled \in [Procs -> BOOLEAN]
  /\ waitq \in Seq(Procs)
  /\ signal_vector_time_ \in [Procs -> Nat]

\* The processes that only a signal wakes: those in the wait queue, and those
\* whose wait request will be put there when it arrives.
Asleep ==
  ToSet(waitq) \cup {p \in Procs \ {manager} :
    pc[p] = "waiting" /\ ~ handled[p] /\ ~ OlderThanSignal(p)}

\* No wake-up is lost, whichever of the wait request and the signal reaches
\* the manager first: while a process sleeps, every token that is there has a
\* consumer that is awake, or a signal still to come.
NoLostWakeup ==
  Asleep # {} =>
    tokens <= Cardinality({p \in Consumers \ Asleep : taken[p] < Takes})
                + Cardinality({p \in Procs : owes[p]})

\* Every wait returns and every consumer gets its tokens: signals are not
\* lost, the lock is given up by the one who waits, lost requests are made
\* good, and being woken without cause does not keep the producer out.
ConsumersFinish == <> (\A p \in Consumers : taken[p] = Takes)
=============================================================================
