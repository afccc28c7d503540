---------------------------- MODULE MCConsistency ----------------------------
(* Who knows of which interval, for TLC, one service per scenario: barriers *)
(* with the constants of the .cfg file; one lock of three processes that    *)
(* write; and two locks of two processes that write, so that an interval is *)
(* closed for one lock while the other is held or cached.  The variables of *)
(* the services that a scenario does not use keep their initial values.     *)
(* With two locks the bound is MaxRequests remote acquires in all.          *)
EXTENDS TmkBarrier

VARIABLE scenario

VARIABLES held, next, tail, tail_, release_seqno, time, lock_req_seqno,
          lock_rep_seqno_, waiting, sentTo, lock_reqs, lock_reps,
          lock_proc_vector_time_, vector_time_, lock_dirty, failed, released

barrier == <<pc, episode, mask, req_from_, rep, req_seqno, rep_seqno_, sent,
             repo_mask, proc_vector_time_, inverse_time_, dirty, reqs, reps,
             arrivedAt, left, gap>>
lock == <<held, next, tail, tail_, release_seqno, time, lock_req_seqno,
          lock_rep_seqno_, waiting, sentTo, lock_reqs, lock_reps,
          lock_proc_vector_time_, vector_time_, lock_dirty, failed,
          released>>

Lock == INSTANCE TmkLock WITH
  NProcs <- 3, Locks <- {1}, Ordered <- TRUE, MaxSeqno <- 1, MaxIntervals <- 1,
  req_seqno <- lock_req_seqno, rep_seqno_ <- lock_rep_seqno_, reqs <- lock_reqs,
  reps <- lock_reps, proc_vector_time_ <- lock_proc_vector_time_, dirty <- lock_dirty

TwoLocks == INSTANCE TmkLock WITH
  NProcs <- 2, Locks <- {1, 2}, Ordered <- TRUE, MaxSeqno <- 2, MaxIntervals <- 2,
  req_seqno <- lock_req_seqno, rep_seqno_ <- lock_rep_seqno_, reqs <- lock_reqs,
  reps <- lock_reps, proc_vector_time_ <- lock_proc_vector_time_, dirty <- lock_dirty

MaxRequests == 2

allVars == <<scenario, barrier, lock>>

ConsistencyInit ==
  /\ Init
  /\ \/ scenario \in {"barrier", "lock"} /\ Lock!Init
     \/ scenario = "two_locks" /\ TwoLocks!Init

ConsistencyNext ==
  /\ UNCHANGED scenario
  /\ \/ scenario = "barrier" /\ Next
        /\ UNCHANGED lock
     \/ scenario = "lock" /\ Lock!Next
        /\ UNCHANGED barrier
     \/ scenario = "two_locks" /\ TwoLocks!Next
        /\ lock_req_seqno'[0] + lock_req_seqno'[1] <= MaxRequests
        /\ UNCHANGED barrier

ConsistencySpec == ConsistencyInit /\ [][ConsistencyNext]_allVars

-----------------------------------------------------------------------------
(* TmkLock implements AbstractLock: its steps are those of a lock that      *)
(* hands a view from holder to holder, or invisible.                        *)
LockImplementsAbstract ==
  /\ IF scenario = "two_locks" THEN TwoLocks!Abstract!Init ELSE Lock!Abstract!Init
  /\ [][/\ scenario = "lock" => [Lock!Abstract!Next]_Lock!Abstract!vars
        /\ scenario = "two_locks" => [TwoLocks!Abstract!Next]_TwoLocks!Abstract!vars]_allVars
=============================================================================
