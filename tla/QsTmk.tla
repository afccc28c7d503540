------------------------------- MODULE QsTmk --------------------------------
(***************************************************************************)
(* The parallel quicksort of the TreadMarks distribution,                  *)
(* Tmk/apps/qs_c/src/QS.C.  Unsorted ranges of the shared array A lie on   *)
(* TaskStack.  A process partitions its range, pushes the smaller part and *)
(* goes on with the larger one; a short range it sorts by itself.  A       *)
(* process that finds the stack empty counts itself in NumWaiting and      *)
(* waits for pauseFlag, a flag in the private memory of every process that *)
(* Tmk_distribute writes from outside, one process after the other.  The   *)
(* last process to run out of work ends the program.                       *)
(*                                                                         *)
(* Everything shared is touched under TaskStackLock.  Only SETPAUSE and    *)
(* CLEARPAUSE take several steps while it is held, since processes that    *)
(* hold no lock watch the flag.  They also hold the lock of the flag, which *)
(* WAITPAUSE acquires and releases once the flag is up: that waits for     *)
(* nothing that the acquisition of TaskStackLock right after it does not   *)
(* wait for, and is part of that step here.                                *)
(***************************************************************************)
EXTENDS Integers, Sequences, FiniteSets, SequencesExt, FiniteSetsExt

CONSTANTS NProcs,          \* Tmk_nprocs, at least 2 (not Sequential)
          size,            \* length of the array
          BubbleThresh,    \* a shorter range is sorted by one process, >= 2
          MAX_TASK_QUEUE   \* one more than TaskStack may hold

Procs == 0 .. NProcs - 1
Index == 0 .. size - 1

VARIABLES A, TaskStack, NumWaiting,
          lock,            \* holder of TaskStackLock between steps, or -1
          flag,            \* pauseFlag.flag of each process
          telling,         \* processes Tmk_distribute has yet to reach
          pc, range,       \* control of each process and its task
          part             \* the part of its task each process is to push

vars == <<A, TaskStack, NumWaiting, lock, flag, telling, pc, range, part>>

Ranges == [left : Index, right : -1 .. size - 1]
NoRange == [left |-> 0, right |-> -1]

TypeOK ==
  /\ A \in [Index -> Index]
  /\ TaskStack \in Seq(Ranges) /\ Len(TaskStack) < MAX_TASK_QUEUE
  /\ NumWaiting \in 0 .. NProcs
  /\ lock \in Procs \cup {-1}
  /\ flag \in [Procs -> BOOLEAN]
  /\ telling \subseteq Procs
  /\ pc \in [Procs -> {"pop", "sort", "push", "pushed", "clear", "end", "wait",
                       "sleepy", "asleep", "again", "done", "exited"}]
  /\ range \in [Procs -> Ranges] /\ part \in [Procs -> Ranges]

-----------------------------------------------------------------------------
Swap(a, i, j) == [a EXCEPT ![i] = a[j], ![j] = a[i]]

\* the first index from left on whose key is not below the pivot
LeftStop(a, left, pivot) ==
  CHOOSE x \in left .. size : /\ x < size => a[x] >= pivot
                              /\ \A y \in left .. x - 1 : a[y] < pivot

\* the last index down to right, and not below i, whose key is below it
RightStop(a, i, right, pivot) ==
  CHOOSE x \in i - 1 .. right : /\ x >= i => a[x] < pivot
                                /\ \A y \in x + 1 .. right : a[y] >= pivot

(* Partition: the do loop, returning the array and the index of the split. *)
RECURSIVE Partition(_, _, _, _, _)
Partition(a, i, left, right, pivot) ==
  LET b == Swap(a, left, right)
      l == LeftStop(b, left, pivot)
      r == RightStop(b, i, right, pivot)
  IN IF l <= r THEN Partition(b, i, l, r, pivot) ELSE <<b, l>>

\* the largest of the first two keys
FindPivot(a, i) == IF a[i] > a[i + 1] THEN i ELSE i + 1

RECURSIVE LocalQuickSort(_, _, _)
LocalQuickSort(a, i, j) ==
  IF j <= i THEN a
  ELSE LET s == Partition(a, i, i, j, a[FindPivot(a, i)])
       IN IF s[2] > i
          THEN LocalQuickSort(LocalQuickSort(s[1], i, s[2] - 1), s[2], j)
          ELSE LocalQuickSort(s[1], i + 1, j)

-----------------------------------------------------------------------------
(* The array is a permutation and the whole of it is on the stack, pushed  *)
(* by process 0, whose SETPAUSE reached everyone before the barrier.       *)
Init ==
  /\ A \in {a \in [Index -> Index] : \A x, y \in Index : x # y => a[x] # a[y]}
  /\ TaskStack = <<[left |-> 0, right |-> size - 1]>>
  /\ NumWaiting = 0
  /\ lock = -1
  /\ flag = [p \in Procs |-> TRUE]
  /\ telling = {}
  /\ pc = [p \in Procs |-> "pop"]
  /\ range = [p \in Procs |-> NoRange]
  /\ part = [p \in Procs |-> NoRange]

\* pauseSet: the own flag, then Tmk_distribute to the others
SetPause(p, val, then) ==
  /\ lock' = p
  /\ flag' = [flag EXCEPT ![p] = val]
  /\ telling' = Procs \ {p}
  /\ pc' = [pc EXCEPT ![p] = then]

\* one process too few is waited for
LastButOne(waiting) == waiting >= NProcs - 1

\* everybody waits
Everybody(waiting) == waiting = NProcs

\* the flag is lowered by the first to wait
FirstToWait(waiting) == waiting = 1

(* The loop of PopWork under TaskStackLock, entered with waiting processes *)
(* counted: take a task, end the program, or wait.                         *)
Look(p, waiting) ==
  IF TaskStack # <<>>
  THEN /\ range' = [range EXCEPT ![p] = Last(TaskStack)]
       /\ TaskStack' = Front(TaskStack)
       /\ NumWaiting' = waiting
       /\ pc' = [pc EXCEPT ![p] = "sort"]
       /\ UNCHANGED <<lock, flag, telling>>
  ELSE /\ NumWaiting' = waiting + 1
       /\ CASE Everybody(waiting + 1)   -> SetPause(p, TRUE, "end")
            [] ~Everybody(waiting + 1) /\ FirstToWait(waiting + 1)
                                        -> SetPause(p, FALSE, "clear")
            [] OTHER -> /\ pc' = [pc EXCEPT ![p] = "wait"]
                        /\ UNCHANGED <<lock, flag, telling>>
       /\ UNCHANGED <<range, TaskStack>>

PopWork(p) ==
  /\ pc[p] = "pop" /\ lock = -1
  /\ Look(p, NumWaiting)
  /\ UNCHANGED <<A, part>>

Uncounted(waiting) == waiting - 1

(* The rest of the loop body once WAITPAUSE has returned.                  *)
Again(p) ==
  /\ pc[p] = "again" /\ lock = -1
  /\ IF NumWaiting = NProcs
     THEN /\ pc' = [pc EXCEPT ![p] = "done"]
          /\ UNCHANGED <<TaskStack, NumWaiting, lock, flag, telling, range>>
     ELSE Look(p, Uncounted(NumWaiting))
  /\ UNCHANGED <<A, part>>

(* Tmk_distribute reaches the next process; its handler runs on SIGIO,     *)
(* which also ends a sigpause the process is in.                           *)
Tmk_distribute(p) ==
  /\ pc[p] \in {"pushed", "clear", "end"} /\ telling # {}
  /\ LET q == Min(telling)
     IN /\ flag' = [flag EXCEPT ![q] = flag[p]]
        /\ telling' = telling \ {q}
        /\ pc' = IF pc[q] = "asleep" THEN [pc EXCEPT ![q] = "wait"] ELSE pc
  /\ UNCHANGED <<A, TaskStack, NumWaiting, lock, range, part>>

\* both locks are released
Release(p) ==
  /\ pc[p] \in {"pushed", "clear", "end"} /\ telling = {}
  /\ lock' = -1
  /\ pc' = [pc EXCEPT ![p] = CASE pc[p] = "pushed" -> "sort"
                               [] pc[p] = "clear"  -> "wait"
                               [] pc[p] = "end"    -> "done"]
  /\ UNCHANGED <<A, TaskStack, NumWaiting, flag, telling, range, part>>

(* WAITPAUSE: the test of the flag and the call of sigpause are two steps. *)
WAITPAUSE(p) ==
  /\ \/ pc[p] = "wait" /\ pc' = [pc EXCEPT ![p] = IF flag[p] THEN "again" ELSE "sleepy"]
     \/ pc[p] = "sleepy" /\ pc' = [pc EXCEPT ![p] = "asleep"]
  /\ UNCHANGED <<A, TaskStack, NumWaiting, lock, flag, telling, range, part>>

\* nothing but SIGIO ends a sigpause
NoAlarm(p) == FALSE

(* SIGALRM: Tmk_tout re-arms itself every second once a request has been   *)
(* sent, and ends a sigpause too.                                          *)
Alarm(p) == pc[p] = "asleep"

Wake(p) ==
  /\ Alarm(p)
  /\ pc' = [pc EXCEPT ![p] = "wait"]
  /\ UNCHANGED <<A, TaskStack, NumWaiting, lock, flag, telling, range, part>>

UpperPart(k, j) == [left |-> k, right |-> j]

(* QuickSort on the range at hand: sort it, or partition it and go on with *)
(* the larger part once the other is pushed.                               *)
QuickSort(p) ==
  /\ pc[p] = "sort"
  /\ LET i == range[p].left
         j == range[p].right
     IN IF j - i + 1 < BubbleThresh
        THEN /\ A' = LocalQuickSort(A, i, j)
             /\ pc' = [pc EXCEPT ![p] = "pop"]
             /\ range' = [range EXCEPT ![p] = NoRange]
             /\ UNCHANGED part
        ELSE LET s     == Partition(A, i, i, j, A[FindPivot(A, i)])
                 lower == [left |-> i, right |-> s[2] - 1]
                 upper == UpperPart(s[2], j)
                 push  == IF s[2] - i > j - s[2] THEN upper ELSE lower
             IN /\ A' = s[1]
                /\ part' = [part EXCEPT ![p] = push]
                /\ range' = [range EXCEPT ![p] = IF push = upper THEN lower ELSE upper]
                /\ pc' = [pc EXCEPT ![p] = "push"]
  /\ UNCHANGED <<TaskStack, NumWaiting, lock, flag, telling>>

\* the stack was empty before the push
FirstTask(stack) == Len(stack) = 1

\* one entry too many
Overfull(stack) == Len(stack) = MAX_TASK_QUEUE

Full(stack) == Len(stack) = MAX_TASK_QUEUE - 1

(* PushWork: a full stack ends the program with the lock held.             *)
PushWork(p) ==
  /\ pc[p] = "push" /\ lock = -1
  /\ IF Full(TaskStack)
     THEN /\ pc' = [pc EXCEPT ![p] = "exited"] /\ lock' = p
          /\ UNCHANGED <<TaskStack, flag, telling, part>>
     ELSE /\ TaskStack' = Append(TaskStack, part[p])
          /\ part' = [part EXCEPT ![p] = NoRange]
          /\ IF FirstTask(TaskStack') THEN SetPause(p, TRUE, "pushed")
             ELSE /\ pc' = [pc EXCEPT ![p] = "sort"]
                  /\ UNCHANGED <<lock, flag, telling>>
  /\ UNCHANGED <<A, NumWaiting, range>>

Locked(p) == PopWork(p) \/ Again(p) \/ PushWork(p)
Unlocked(p) ==
  Tmk_distribute(p) \/ Release(p) \/ WAITPAUSE(p) \/ Wake(p) \/ QuickSort(p)

Next == \E p \in Procs : Locked(p) \/ Unlocked(p)

Spec == Init /\ [][Next]_vars

(* Requests for a lock are served in turn: nobody waits for it for ever    *)
(* while it is released again and again.                                   *)
FairSpec ==
  Spec /\ \A p \in Procs : SF_vars(Locked(p)) /\ WF_vars(Unlocked(p))

-----------------------------------------------------------------------------
(* A process that was told DONE leaves no work behind: the array is sorted *)
(* and nobody is partitioning, pushing or about to pop a task.             *)
DoneMeansSorted ==
  (\E p \in Procs : pc[p] = "done") =>
    /\ \A x \in Index : A[x] = x
    /\ \A p \in Procs : pc[p] \notin {"sort", "push", "pushed"}
    /\ TaskStack = <<>>

(* Every process ends, although the flag may go up between the test in     *)
(* WAITPAUSE and the call of sigpause: the periodic alarm wakes the        *)
(* process that missed the signal.                                         *)
EveryoneDone == <>(\A p \in Procs : pc[p] = "done")
=============================================================================
