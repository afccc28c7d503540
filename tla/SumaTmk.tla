------------------------------ MODULE SumaTmk ------------------------------
(***************************************************************************)
(* The parallel sum of codigo/suma_tmk.c over the library seen from above. *)
(*                                                                         *)
(* The processes print their parts of the array one per round, taking      *)
(* turns by a shared counter that is read and written in the same round    *)
(* without a lock; then each adds its part to a shared sum under lock 0.   *)
(*                                                                         *)
(* What a read of the counter may return follows from module TmkPage.  A   *)
(* write is seen by the others after the next barrier.  The exception is   *)
(* the first touch: as long as nobody has fetched the page, it is private  *)
(* to process 0, written without a twin, and whoever fetches it gets it as *)
(* it is; what process 0 writes once it is shared is not in what a later   *)
(* fetch gets, the twin.                                                   *)
(***************************************************************************)
EXTENDS Integers, Sequences, SequencesExt, FiniteSets, FiniteSetsExt

CONSTANTS
  NProcs,    \* Tmk_nprocs
  DIM        \* the length of the array

Procs == 0 .. NProcs - 1
Untouched == -1

VARIABLES
  pc,         \* pc[p]: where p is in main
  entered,    \* entered[p]: how often p has called Tmk_barrier(0)
  view,       \* view[p]: shared->turn in p's memory
  turn,       \* shared->turn as of the last barrier
  base,       \* the counter when the page stopped being private to process 0
  printed,    \* the elements printed, in the order of their printing
  holder,     \* who holds lock 0, as a set
  sum,        \* shared->sum
  tmp,        \* tmp[p]: shared->sum as p has read it
  result      \* what the coordinator has printed

vars == <<pc, entered, view, turn, base, printed, holder, sum, tmp, result>>

\* Where the part of process id begins, and the part before it ends.
Begins(id) == id * (DIM \div NProcs) + ((id * (DIM % NProcs)) \div NProcs)

Part(p) == [k \in 1 .. Begins(p + 1) - Begins(p) |-> Begins(p) + k - 1]
mySum(p) == FoldSeq(LAMBDA i, s : s + i + 1, 0, Part(p))   \* array[i] = i + 1

Step(p, from, to) == pc[p] = from /\ pc' = [pc EXCEPT ![p] = to]

Init ==
  /\ pc = [p \in Procs |-> "init"]
  /\ entered = [p \in Procs |-> 0]
  /\ view = [p \in Procs |-> IF p = 0 THEN 0 ELSE Untouched]
  /\ turn = 0
  /\ base = Untouched
  /\ printed = <<>>
  /\ holder = {}
  /\ sum = 0
  /\ tmp = [p \in Procs |-> 0]
  /\ result = 0

-----------------------------------------------------------------------------
(* Tmk_barrier(0): after the initialisation, after each round of the turns *)
(* and after the sum.                                                      *)

LastRound == NProcs + 1

Enter(p) ==
  /\ pc[p] \in {"init", "round_over", "added"}
  /\ pc' = [pc EXCEPT ![p] = "barrier"]
  /\ entered' = [entered EXCEPT ![p] = @ + 1]
  /\ turn' = IF \A q \in Procs \ {p} : entered[q] > entered[p]
             THEN Max({view[q] : q \in Procs} \cup {turn}) ELSE turn
  /\ UNCHANGED <<view, base, printed, holder, sum, tmp, result>>

\* Mutant: the next round begins without the barrier.
NoBarrier(p) == entered[p] > 0

\* Whether p may leave the barrier.
AllEntered(p) == \A q \in Procs : entered[q] >= entered[p]

\* A process that has the page gets the others' writes.
LeaveBarrier(p) ==
  /\ Step(p, "barrier", IF entered[p] < LastRound THEN "round"
                        ELSE IF entered[p] = LastRound THEN "sum" ELSE "last")
  /\ AllEntered(p)
  /\ view' = [view EXCEPT ![p] = IF @ = Untouched THEN @ ELSE turn]
  /\ UNCHANGED <<entered, turn, base, printed, holder, sum, tmp, result>>

-----------------------------------------------------------------------------
(* A round of the turns. *)

\* The read of shared->turn that fetches the page from process 0.
FirstTouch(p) ==
  /\ pc[p] = "round" /\ view[p] = Untouched
  /\ base' = IF base = Untouched THEN view[0] ELSE base
  /\ view' = [view EXCEPT ![p] = base']
  /\ UNCHANGED <<pc, entered, turn, printed, holder, sum, tmp, result>>

PrintPart(p) ==
  /\ view[p] = p /\ Step(p, "round", "printed")
  /\ printed' = printed \o Part(p)
  /\ UNCHANGED <<entered, view, turn, base, holder, sum, tmp, result>>

NextTurn(p) ==
  /\ Step(p, "printed", "round_over")
  /\ view' = [view EXCEPT ![p] = @ + 1]
  /\ UNCHANGED <<entered, turn, base, printed, holder, sum, tmp, result>>

NotMyTurn(p) ==
  /\ view[p] \notin {p, Untouched} /\ Step(p, "round", "round_over")
  /\ UNCHANGED <<entered, view, turn, base, printed, holder, sum, tmp, result>>

-----------------------------------------------------------------------------
(* The sum. *)

LockFree == holder = {}

AcquireAndRead(p) ==
  /\ Step(p, "sum", "adding") /\ LockFree
  /\ holder' = holder \cup {p}
  /\ tmp' = [tmp EXCEPT ![p] = sum]
  /\ UNCHANGED <<entered, view, turn, base, printed, sum, result>>

AddAndRelease(p) ==
  /\ Step(p, "adding", "added")
  /\ sum' = tmp[p] + mySum(p)
  /\ holder' = holder \ {p}
  /\ UNCHANGED <<entered, view, turn, base, printed, tmp, result>>

\* The coordinator prints the sum and frees the array; then Tmk_exit.
Finish(p) ==
  /\ Step(p, "last", "exit")
  /\ result' = IF p = 0 THEN sum ELSE result
  /\ UNCHANGED <<entered, view, turn, base, printed, holder, sum, tmp>>

Run(p) ==
  \/ Enter(p) \/ LeaveBarrier(p) \/ FirstTouch(p) \/ PrintPart(p) \/ NextTurn(p)
  \/ NotMyTurn(p) \/ AcquireAndRead(p) \/ AddAndRelease(p) \/ Finish(p)

Next == \E p \in Procs : Run(p)

Spec == Init /\ [][Next]_vars

-----------------------------------------------------------------------------
(* Properties *)

\* The elements are printed in the order of the array, and all of them once
\* the turns are over, although a process may see the counter of the process
\* before it in the very round in which it is written: "Imprime los elementos
\* del arreglo en el orden natural de salida".
NaturalOrder ==
  /\ \A k \in 1 .. Len(printed) : printed[k] = k - 1
  /\ (\E p \in Procs : pc[p] = "sum") => Len(printed) = DIM

=============================================================================
