---------------------------- MODULE MCCallsReturn ----------------------------
(* Locks, condition variables, fork and join, start-up and exit over a      *)
(* network that loses datagrams, for TLC, one per scenario: does every call *)
(* return?  The variables of the other scenarios keep their initial values. *)
EXTENDS TmkSession

VARIABLE scenario

VARIABLES lock_held, next, tail, tail_, release_seqno, lock_time, req_seqno,
          lock_rep_seqno_, waiting, sentTo, reqs, reps, proc_vector_time_,
          vector_time_, lock_dirty, failed, released
VARIABLES manager, pc, queue, cond_held, cond_dirty, cond_time, tokens,
          produced, cond_taken, writes, owes, cond_net, handled, waitq,
          signal_vector_time_
VARIABLES mpc, spc, sched_mask, rep, req, req_from_, sched_rep_seqno_,
          sched_taken, sched_net, know, forked, ran, collected,
          published

lock == <<lock_held, next, tail, tail_, release_seqno, lock_time, req_seqno,
          lock_rep_seqno_, waiting, sentTo, reqs, reps, proc_vector_time_,
          vector_time_, lock_dirty, failed, released>>
cond == <<manager, pc, queue, cond_held, cond_dirty, cond_time, tokens,
          produced, cond_taken, writes, owes, cond_net, handled, waitq,
          signal_vector_time_>>
sched == <<mpc, spc, sched_mask, rep, req, req_from_, sched_rep_seqno_,
           sched_taken, sched_net, know, forked, ran, collected,
           published>>

Lock == INSTANCE TmkLock WITH
  NProcs <- 3, Locks <- {1}, Ordered <- TRUE, MaxSeqno <- 1, MaxIntervals <- 0,
  held <- lock_held, time <- lock_time, rep_seqno_ <- lock_rep_seqno_,
  dirty <- lock_dirty

Cond == INSTANCE TmkCond WITH
  NProcs <- 2, Consumers <- {1}, Takes <- 2, MaxWrites <- 1, held <- cond_held,
  dirty <- cond_dirty, time <- cond_time, taken <- cond_taken, net <- cond_net

Sched == INSTANCE TmkSched WITH
  NProcs <- 2, Forks <- 3, Pressure <- {1, 2, 3}, mask <- sched_mask,
  rep_seqno_ <- sched_rep_seqno_, taken <- sched_taken, net <- sched_net

allVars == <<scenario, lock, cond, sched, vars>>

CallsInit ==
  /\ scenario \in {"lock", "cond", "sched", "session"}
  /\ Lock!Init
  /\ Cond!Init
  /\ (scenario = "cond" \/ manager = 0)
  /\ Sched!Init
  /\ Init

CallsNext ==
  /\ UNCHANGED scenario
  /\ \/ scenario = "lock" /\ Lock!Next
        /\ UNCHANGED <<cond, sched, vars>>
     \/ scenario = "cond" /\ Cond!Next
        /\ UNCHANGED <<lock, sched, vars>>
     \/ scenario = "sched" /\ Sched!Next
        /\ UNCHANGED <<lock, cond, vars>>
     \/ scenario = "session" /\ Next
        /\ UNCHANGED <<lock, cond, sched>>

-----------------------------------------------------------------------------
LockStep(A) == scenario = "lock" /\ A /\ UNCHANGED <<scenario, cond, sched, vars>>
CondStep(A) == scenario = "cond" /\ A /\ UNCHANGED <<scenario, lock, sched, vars>>
SchedStep(A) == scenario = "sched" /\ A /\ UNCHANGED <<scenario, lock, cond, vars>>
SessionStep(A) == scenario = "session" /\ A /\ UNCHANGED <<scenario, lock, cond, sched>>

(* The Fairness of the four modules.  The scenario never changes, so        *)
(* fairness of a disjunction over the scenarios is fairness of the disjunct *)
(* of each; stated one by one, TLC's work would double with each of them.   *)
Runs(p) ==
  \/ LockStep(Lock!ReleaseCached(p, 1) \/ Lock!ReleaseGrant(p, 1))
  \/ CondStep(p \in Cond!Procs /\ Cond!Run(p))
  \/ SchedStep(p = 0 /\ Sched!Master)
  \/ SchedStep(p \in Sched!Slaves /\ (Sched!SlaveJoins(p) \/ Sched!SlaveLeavesRepo(p)))
  \/ SessionStep(p \in Procs /\ start_process(p))

Retransmits(p) ==
  \/ LockStep(Lock!Rexmit(p))
  \/ CondStep(p \in Cond!Procs /\ Cond!Rexmit(p))
  \/ SchedStep(p \in Sched!Slaves /\ Sched!Rexmit(p))
  \/ SessionStep(p \in Procs /\ Rexmit(p))

Leaves(p) ==
  \/ SessionStep(p \in Procs /\ Tmk_exit(p))
  \/ SessionStep(p = 2 /\ BarrierManager)

IsAnswered(p) ==
  \/ LockStep(\E m \in reps : Lock!Acquired(p, m))
  \/ CondStep(p \in Cond!Procs /\ Cond!Acknowledged(p))
  \/ SchedStep(p \in Sched!Slaves /\ \E m \in sched_net : Sched!SlaveForks(p, m))
  \/ SessionStep(p \in Procs /\ (Tmk_accept(p) \/ Return(p)))

Handles(p, q) ==
  \/ LockStep(\E m \in reqs : /\ m.from = q /\ Lock!Handle(p, m) /\ m \notin reqs')
  \/ CondStep(p \in Cond!Procs /\ q = 2 /\ Cond!Tmk_cond_wait_sigio_handler(p))
  \/ CondStep(p \in Cond!Procs /\ q = 1 - p /\ Cond!HandleSignal(p))
  \/ SchedStep(p = 0 /\ q \in Sched!Slaves /\ Sched!Handle(q))
  \/ SessionStep(p \in Procs /\ q \in Procs /\ Handle(p, q))

LiveSpec ==
  /\ CallsInit /\ [][CallsNext]_allVars
  /\ \A p \in 0 .. 2 :
       /\ WF_allVars(Runs(p)) /\ WF_allVars(Retransmits(p)) /\ WF_allVars(Leaves(p))
       /\ SF_allVars(IsAnswered(p))
       /\ \A q \in 0 .. 2 \ {p} : SF_allVars(Handles(p, q))

-----------------------------------------------------------------------------
(* Every Tmk_lock_acquire returns: a lost request, forwarded request or     *)
(* grant is made good by the retransmission and the duplicate handler.      *)
AcquireReturns == scenario = "lock" => Lock!AcquireReturns

(* Every Tmk_lock_cond_wait of a consumer returns, until it has its tokens. *)
ConsumersFinish == scenario = "cond" => Cond!ConsumersFinish

(* Tmk_sched_start returns in every slave that a repeated reply does not    *)
(* send into a collection alone.                                            *)
SlavesReturn == scenario = "sched" => Sched!SlavesReturn

(* Tmk_startup and Tmk_exit return in every process.                        *)
EverySessionEnds == scenario = "session" => SessionEnds
=============================================================================
