--------------------------- MODULE MCTmkLockCases ---------------------------
(* TmkLock for TLC, three programs on three processes and two locks:       *)
(*   three_procs  all the processes use lock 1, datagrams in causal order; *)
(*   two_locks    processes 0 and 1 use both locks and write;              *)
(*   reordered    processes 0 and 1 use lock 1, datagrams in any order;    *)
(*                three requests of its manager and two of the other one   *)
(*                are what it takes to end in Tmk_errexit.                 *)
(* The properties are those of TmkLock, evaluated in all of them.          *)
EXTENDS TmkLock

VARIABLE scenario

ThreeProcs == INSTANCE TmkLock WITH Ordered <- TRUE, MaxSeqno <- 2, MaxIntervals <- 0
TwoLocks   == INSTANCE TmkLock WITH Ordered <- TRUE, MaxSeqno <- 2, MaxIntervals <- 1
Reordered  == INSTANCE TmkLock WITH Ordered <- FALSE, MaxSeqno <- 3, MaxIntervals <- 0

\* The program: only the processes of S acquire, only locks of L, or write.
\* The equality makes TLC evaluate the formula instead of splitting it.
Uses(S, L) ==
  (\A p \in Proc : \A l \in Locks :
     \/ held'[p][l] = held[p][l] /\ (p \in S \/ dirty'[p] = dirty[p])
     \/ p \in S /\ l \in L) = TRUE

CasesInit == Init /\ scenario \in {"three_procs", "two_locks", "reordered"}

CasesNext ==
  /\ \/ scenario = "three_procs" /\ ThreeProcs!Next /\ Uses(Proc, {1})
     \/ scenario = "two_locks" /\ TwoLocks!Next /\ Uses({0, 1}, Locks)
                                /\ req_seqno'[0] + req_seqno'[1] <= 3
     \/ scenario = "reordered" /\ Reordered!Next /\ Uses({0, 1}, {1})
                                /\ req_seqno'[0] <= 2
  /\ UNCHANGED scenario

CasesSpec == CasesInit /\ [][CasesNext]_<<vars, scenario>>

(* No process ends in Tmk_errexit as long as datagrams keep their order.   *)
OrderedNoErrexit == scenario # "reordered" => NoErrexit
=============================================================================
