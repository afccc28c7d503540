------------------------------ MODULE PipeTmk ------------------------------
(***************************************************************************)
(* The pipeline of Tmk/Tmk_ejems/pipetmk.c over the library seen from      *)
(* above: each process takes its own lock, and after a barrier a counter   *)
(* is handed from process to process by releasing the locks one by one.    *)
(***************************************************************************)
EXTENDS Integers

CONSTANTS
  NProcs,   \* Tmk_nprocs
  N         \* the number of processes the program is written for

Procs == 0 .. NProcs - 1

VARIABLES
  pc,       \* pc[p]: where p is in main
  holder,   \* holder[l]: who holds lock l, -1 if nobody
  X,        \* shared->X
  printed   \* what the coordinator has printed

vars == <<pc, holder, X, printed>>

Init ==
  /\ pc = [p \in Procs |-> "start"]
  /\ holder = [l \in 0 .. NProcs |-> -1]
  /\ X = 0
  /\ printed = 0

TakesOwnLock(p) == [holder EXCEPT ![p] = p]

\* Nobody else asks for a process's own lock before the barrier.
AcquireOwn(p) ==
  /\ pc[p] = "start"
  /\ holder' = TakesOwnLock(p)
  /\ pc' = [pc EXCEPT ![p] = "barrier1"]
  /\ UNCHANGED <<X, printed>>

\* Tmk_barrier(1), twice: the last process to arrive lets all go on.
Barrier(here, there) ==
  /\ \A p \in Procs : pc[p] = here
  /\ pc' = [p \in Procs |-> there]
  /\ UNCHANGED <<holder, X, printed>>

First ==
  /\ pc[0] = "chain"
  /\ X' = 6
  /\ holder' = [holder EXCEPT ![0] = -1]
  /\ pc' = [pc EXCEPT ![0] = "barrier2"]
  /\ UNCHANGED printed

\* Mutant: each process waits for the lock of the one after it.
AwaitsNext(p) == IF p < N - 1 THEN p + 1 ELSE N - 2

\* The lock p waits for, and the one it releases; the last process keeps the
\* locks it has.
Awaited(p) == IF p < N - 1 THEN p - 1 ELSE N - 2

Link(p) ==
  /\ p # 0 /\ pc[p] = "chain" /\ holder[Awaited(p)] = -1
  /\ X' = X + 1
  /\ holder' = IF p < N - 1 THEN [holder EXCEPT ![Awaited(p)] = p, ![p] = -1]
                            ELSE [holder EXCEPT ![Awaited(p)] = p]
  /\ pc' = [pc EXCEPT ![p] = "barrier2"]
  /\ UNCHANGED printed

\* soycoor
Finish(p) ==
  /\ pc[p] = "last"
  /\ printed' = IF p = 0 THEN X ELSE printed
  /\ pc' = [pc EXCEPT ![p] = "exit"]
  /\ UNCHANGED <<holder, X>>

Next ==
  \/ \E p \in Procs : AcquireOwn(p) \/ Link(p) \/ Finish(p)
  \/ Barrier("barrier1", "chain") \/ Barrier("barrier2", "last")
  \/ First

Spec == Init /\ [][Next]_vars
FairSpec == Spec /\ WF_vars(Next)

-----------------------------------------------------------------------------
(* Properties *)

\* With the number of processes the program is written for, every process
\* gets the lock it waits for and the program ends.
PipeEnds == <> (\A p \in Procs : pc[p] = "exit")
=============================================================================
