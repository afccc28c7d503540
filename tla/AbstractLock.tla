---------------------------- MODULE AbstractLock ----------------------------
(***************************************************************************)
(* What the TreadMarks locks promise to a program: a lock has at most one   *)
(* owner, and a process that takes a lock sees what the previous owner had  *)
(* seen and written when it dropped the lock (release consistency).         *)
(*                                                                          *)
(* A view counts, for each process, the batches of writes that are seen.    *)
(***************************************************************************)
EXTENDS Integers

CONSTANTS Proc, Locks

VARIABLES
  owner,   \* owner[l]: the processes between acquire and release of l
  view,    \* view[p][q]: how many batches of q's writes p has seen
  image    \* image[l]: the view of the last process that dropped l

vars == <<owner, view, image>>

Init ==
  /\ owner = [l \in Locks |-> {}]
  /\ view = [p \in Proc |-> [q \in Proc |-> 0]]
  /\ image = [l \in Locks |-> [q \in Proc |-> 0]]

Write(p) ==
  /\ view' = [view EXCEPT ![p][p] = @ + 1]
  /\ UNCHANGED <<owner, image>>

(* p may learn of more than the lock obliges it to, but of nothing that     *)
(* has not been written, and it forgets nothing.                            *)
Take(p, l) ==
  /\ owner[l] = {}
  /\ owner' = [owner EXCEPT ![l] = {p}]
  /\ \A q \in Proc \ {p} : view'[q] = view[q]
  /\ view'[p][p] = view[p][p]
  /\ \A q \in Proc :
       /\ view'[p][q] >= view[p][q]
       /\ view'[p][q] >= image[l][q]
       /\ view'[p][q] <= view[q][q]
  /\ view' \in [Proc -> [Proc -> Nat]]
  /\ image' = image

Drop(p, l) ==
  /\ owner[l] = {p}
  /\ owner' = [owner EXCEPT ![l] = {}]
  /\ image' = [image EXCEPT ![l] = view[p]]
  /\ view' = view

Next ==
  \E p \in Proc :
    \/ Write(p)
    \/ \E l \in Locks : Take(p, l) \/ Drop(p, l)

Spec == Init /\ [][Next]_vars

=============================================================================
