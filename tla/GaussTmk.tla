------------------------------ MODULE GaussTmk ------------------------------
(***************************************************************************)
(* Gaussian elimination, Compute in Tmk/apps/gauss_c/src/gauss.c.  Rows    *)
(* are dealt to the processes in turn.  In sweep s the owner of row s      *)
(* chooses the pivot column, publishes it, and scales the row; after one   *)
(* barrier every process eliminates in the rows it has left.  There is no  *)
(* second barrier in a sweep: the owner of the next row may publish its    *)
(* pivot while others have not read this one, so that odd and even sweeps  *)
(* use different variables.                                                *)
(*                                                                         *)
(* Of the numbers only their history is kept: how many sweeps each row has *)
(* been through, and which sweep each pivot variable was written in.       *)
(***************************************************************************)
EXTENDS Integers, FiniteSets

CONSTANTS NProcs, size, iters   \* iters is at most size - 1

Procs == 0 .. NProcs - 1
Rows == 0 .. size - 1

VARIABLES curr_pivot,    \* sweep of each process
          starting_row,  \* first row each process still has to eliminate in
          pc,            \* "pivot", "barrier", "read", "eliminate" or "end"
          row,           \* row each process eliminates in next
          pivot_col,     \* sweep whose pivot column each process has read
          sweep_pivot,   \* sweep that wrote odd_ and even_sweep_pivot
          swept,         \* sweeps each row has been through
          scaled         \* rows divided by their pivot

vars == <<curr_pivot, starting_row, pc, row, pivot_col, sweep_pivot, swept, scaled>>

TypeOK ==
  /\ curr_pivot \in [Procs -> 0 .. iters]
  /\ starting_row \in [Procs -> 0 .. size + NProcs - 1]
  /\ pc \in [Procs -> {"pivot", "barrier", "read", "eliminate", "end"}]
  /\ row \in [Procs -> 0 .. size + NProcs - 1]
  /\ pivot_col \in [Procs -> -1 .. iters - 1]
  /\ sweep_pivot \in [0 .. 1 -> -1 .. iters - 1]
  /\ swept \in [Rows -> 0 .. iters]
  /\ scaled \subseteq Rows

Init ==
  /\ curr_pivot = [p \in Procs |-> 0]
  /\ starting_row = [p \in Procs |-> p]
  /\ pc = [p \in Procs |-> "pivot"]
  /\ row = [p \in Procs |-> 0]
  /\ pivot_col = [p \in Procs |-> -1]
  /\ sweep_pivot = [o \in 0 .. 1 |-> -1]
  /\ swept = [k \in Rows |-> 0]
  /\ scaled = {}

\* one variable for all the sweeps
OneVariable(s) == 0

\* odd_sweep_pivot or even_sweep_pivot
Parity(s) == s % 2

\* the owner is through with the row
NextRow(k) == k + NProcs

(* The owner of the row finds, publishes and applies the pivot, then takes *)
(* its next row; the others go straight to the barrier.                    *)
Pivot(p) ==
  /\ pc[p] = "pivot" /\ curr_pivot[p] < iters
  /\ LET s == curr_pivot[p]
     IN IF starting_row[p] = s
        THEN /\ sweep_pivot' = [sweep_pivot EXCEPT ![Parity(s)] = s]
             /\ scaled' = scaled \cup {s}
             /\ starting_row' = [starting_row EXCEPT ![p] = NextRow(@)]
        ELSE UNCHANGED <<sweep_pivot, scaled, starting_row>>
  /\ pc' = [pc EXCEPT ![p] = "barrier"]
  /\ UNCHANGED <<curr_pivot, row, pivot_col, swept>>

\* a process passes when everyone has arrived in this sweep or gone further
Arrived(p) ==
  \A q \in Procs : \/ curr_pivot[q] > curr_pivot[p]
                   \/ curr_pivot[q] = curr_pivot[p] /\ pc[q] # "pivot"

Tmk_barrier(p) ==
  /\ pc[p] = "barrier" /\ Arrived(p)
  /\ pc' = [pc EXCEPT ![p] = "read"]
  /\ UNCHANGED <<curr_pivot, starting_row, row, pivot_col, sweep_pivot, swept, scaled>>

ReadPivot(p) ==
  /\ pc[p] = "read"
  /\ pivot_col' = [pivot_col EXCEPT ![p] = sweep_pivot[Parity(curr_pivot[p])]]
  /\ row' = [row EXCEPT ![p] = starting_row[p]]
  /\ pc' = [pc EXCEPT ![p] = "eliminate"]
  /\ UNCHANGED <<curr_pivot, starting_row, sweep_pivot, swept, scaled>>

\* one row of the loop over k, or its end and the next sweep
Eliminate(p) ==
  /\ pc[p] = "eliminate"
  /\ IF row[p] < size
     THEN /\ swept' = [swept EXCEPT ![row[p]] = @ + 1]
          /\ row' = [row EXCEPT ![p] = @ + NProcs]
          /\ UNCHANGED <<pc, curr_pivot>>
     ELSE /\ curr_pivot' = [curr_pivot EXCEPT ![p] = @ + 1]
          /\ pc' = [pc EXCEPT ![p] = "pivot"]
          /\ UNCHANGED <<swept, row>>
  /\ UNCHANGED <<starting_row, pivot_col, sweep_pivot, scaled>>

\* the barrier after the loop
End ==
  /\ \A p \in Procs : pc[p] = "pivot" /\ curr_pivot[p] = iters
  /\ pc' = [p \in Procs |-> "end"]
  /\ UNCHANGED <<curr_pivot, starting_row, row, pivot_col, sweep_pivot, swept, scaled>>

Next ==
  \/ \E p \in Procs : Pivot(p) \/ Tmk_barrier(p) \/ ReadPivot(p) \/ Eliminate(p)
  \/ End

Spec == Init /\ [][Next]_vars

-----------------------------------------------------------------------------
(* A process eliminates with the pivot column of its own sweep and with a  *)
(* scaled row, however far ahead the owner of the next rows has got.       *)
PivotOfSweep ==
  \A p \in Procs : pc[p] = "eliminate" =>
    pivot_col[p] = curr_pivot[p] /\ curr_pivot[p] \in scaled

(* A row becomes the pivot row only after every earlier sweep has been     *)
(* through it, no sweep goes through it afterwards, and at the end all the *)
(* sweeps have been through the rows that are left.                        *)
RowsInOrder ==
  /\ \A k \in scaled : swept[k] = k
  /\ (\A p \in Procs : pc[p] = "end") =>
       \A k \in Rows \ scaled : k >= iters /\ swept[k] = iters
=============================================================================
