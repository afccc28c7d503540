-------------------------- MODULE GaussTmk_proofs --------------------------
(***************************************************************************)
(* gauss.c with one barrier in a sweep is right: every process eliminates  *)
(* with the pivot of its own sweep, and every row is swept as often as it  *)
(* must be.  Any number of processes, any matrix, any number of sweeps.    *)
(***************************************************************************)
EXTENDS GaussTmk, TLAPS

(* Compute's loop runs over fewer sweeps than there are rows. *)
Sized == NProcs \in Nat \ {0} /\ size \in Nat /\ iters \in Nat /\ iters < size

(* The types the argument needs. *)
Typed ==
  /\ curr_pivot \in [Procs -> Nat] /\ starting_row \in [Procs -> Nat]
  /\ pc \in [Procs -> {"pivot", "barrier", "read", "eliminate", "end"}]
  /\ row \in [Procs -> 0 .. size + NProcs - 1] /\ pivot_col \in [Procs -> -1 .. iters - 1]
  /\ sweep_pivot \in [0 .. 1 -> -1 .. iters - 1]
  /\ swept \in [Rows -> Nat] /\ scaled \subseteq Rows

(* The process that row k is dealt to. *)
Owner(k) == k % NProcs

(* starting_row is the first row of p that is not a pivot row yet, and the  *)
(* loop over k visits p's rows from there.                                  *)
Placed(p) ==
  /\ Owner(starting_row[p]) = p
  /\ curr_pivot[p] <= iters
  /\ pc[p] = "end" => curr_pivot[p] = iters
  /\ pc[p] \in {"pivot", "end"} =>
       curr_pivot[p] <= starting_row[p] /\ starting_row[p] < curr_pivot[p] + NProcs
  /\ pc[p] \in {"barrier", "read", "eliminate"} =>
       /\ curr_pivot[p] < iters
       /\ curr_pivot[p] < starting_row[p] /\ starting_row[p] <= curr_pivot[p] + NProcs
  /\ pc[p] = "eliminate" => /\ Owner(row[p]) = p /\ row[p] >= starting_row[p]
                            /\ pivot_col[p] = curr_pivot[p]

(* What the one barrier of a sweep is worth: p is at most one sweep ahead   *)
(* of q, and then q has arrived in its own; nobody is behind p's barrier    *)
(* once p has passed it.                                                    *)
Together(p, q) ==
  /\ curr_pivot[p] <= curr_pivot[q] + 1
  /\ curr_pivot[p] = curr_pivot[q] + 1 => pc[q] # "pivot"
  /\ pc[p] \in {"read", "eliminate"} =>
       /\ curr_pivot[p] <= curr_pivot[q]
       /\ curr_pivot[p] = curr_pivot[q] => pc[q] # "pivot"

(* Row k is its owner's: a pivot row, swept k times, or one that has been   *)
(* through all the sweeps of its owner.                                     *)
RowAt(k) ==
  /\ k < starting_row[Owner(k)] => k \in scaled /\ swept[k] = k
  /\ k >= starting_row[Owner(k)] =>
       /\ k \notin scaled
       /\ IF pc[Owner(k)] = "eliminate" /\ k < row[Owner(k)]
          THEN swept[k] = curr_pivot[Owner(k)] + 1 ELSE swept[k] = curr_pivot[Owner(k)]

(* A published pivot stays until the sweep after the next publishes its own.*)
PivotKept == \A s \in scaled : s < iters /\ s + 2 \notin scaled => sweep_pivot[Parity(s)] = s

GaussInv ==
  /\ Typed /\ PivotKept
  /\ \A p \in Procs : Placed(p)
  /\ \A p, q \in Procs : Together(p, q)
  /\ \A k \in Rows : RowAt(k)
-----------------------------------------------------------------------------
(* Rows dealt to the processes in turn: every row has an owner, the owner's *)
(* next row is NProcs further, and between the two there is none of its.    *)
LEMMA QuotientRest ==
  ASSUME NEW N \in Nat \ {0}, NEW a \in Nat
  PROVE  a \div N \in Int /\ a % N \in 0 .. N - 1 /\ a % N = a - N * (a \div N)
<1>1. a \div N \in Int
  OBVIOUS
<1>2. a % N \in 0 .. N - 1
  OBVIOUS
<1>3. a % N = a - N * (a \div N)
  OBVIOUS
<1>4. QED
  BY <1>1, <1>2, <1>3, Zenon

LEMMA ShiftedQuotient ==
  ASSUME NEW N \in Nat \ {0}, NEW a \in Nat
  PROVE  (a + N) \div N = a \div N + 1
OBVIOUS

LEMMA OwnerIn ==
  ASSUME Sized, NEW k \in Nat
  PROVE  Owner(k) \in Procs
BY DEF Sized, Owner, Procs

LEMMA OwnerFirst ==
  ASSUME Sized, NEW p \in Procs
  PROVE  p \in Nat /\ Owner(p) = p
BY DEF Sized, Owner, Procs

LEMMA OwnerNext ==
  ASSUME Sized, NEW k \in Nat
  PROVE  Owner(k + NProcs) = Owner(k)
<1> DEFINE x == k \div NProcs
<1>1. NProcs \in Nat \ {0} /\ k + NProcs \in Nat
  BY DEF Sized
<1>2. x \in Int /\ k % NProcs = k - NProcs * x
  BY <1>1, QuotientRest, Zenon
<1>3. (k + NProcs) % NProcs = (k + NProcs) - NProcs * ((k + NProcs) \div NProcs)
  BY <1>1, QuotientRest, Zenon
<1>4. (k + NProcs) \div NProcs = x + 1
  BY <1>1, ShiftedQuotient, Zenon
<1>5. (k + NProcs) % NProcs = (k + NProcs) - NProcs * (x + 1)
  BY <1>3, <1>4, Zenon
<1> HIDE DEF x
<1>6. NProcs * (x + 1) = NProcs * x + NProcs
  BY <1>1, <1>2
<1>7. NProcs * x \in Int
  BY <1>1, <1>2
<1>8. (k + NProcs) - NProcs * (x + 1) = k - NProcs * x
  BY <1>1, <1>6, <1>7
<1>9. QED
  BY <1>2, <1>5, <1>8, Zenon DEF Owner

LEMMA OwnerGap ==
  ASSUME Sized, NEW a \in Nat, NEW b \in Nat, Owner(a) = Owner(b), a < b + NProcs
  PROVE  a <= b
<1> DEFINE x == a \div NProcs
           y == b \div NProcs
<1> SUFFICES ASSUME a > b PROVE FALSE
  OBVIOUS
<1>1. NProcs \in Nat \ {0}
  BY DEF Sized
<1>2. x \in Int /\ y \in Int
  BY <1>1, QuotientRest, Zenon
<1>3. a - NProcs * x = b - NProcs * y
  BY <1>1, QuotientRest, Zenon DEF Owner
<1> HIDE DEF x, y
<1>4. NProcs * (x - y) = NProcs * x - NProcs * y
  BY <1>1, <1>2
<1>5. NProcs * x \in Int /\ NProcs * y \in Int
  BY <1>1, <1>2
<1>6. NProcs * (x - y) = a - b
  BY <1>3, <1>4, <1>5
<1>7. x - y >= 1
  <2>1. CASE x - y <= 0
    <3>1. NProcs * (x - y) <= 0
      BY <1>1, <1>2, <2>1
    <3>2. QED
      BY <1>6, <3>1
  <2>2. QED
    BY <1>2, <2>1
<1>8. NProcs * (x - y) >= NProcs
  BY <1>1, <1>2, <1>7
<1>9. QED
  BY <1>1, <1>6, <1>8

LEMMA RowsTyped ==
  ASSUME Sized
  PROVE  /\ \A k \in Rows : k \in Nat /\ k < size /\ Owner(k) \in Procs
         /\ \A k \in Nat : k < size => k \in Rows
         /\ size \in Nat /\ iters \in Nat /\ iters < size /\ NProcs \in Nat /\ NProcs > 0
<1>1. \A k \in Rows : k \in Nat /\ k < size
  BY DEF Sized, Rows
<1>2. \A k \in Nat : k < size => k \in Rows
  BY DEF Sized, Rows
<1>3. size \in Nat /\ iters \in Nat /\ iters < size /\ NProcs \in Nat /\ NProcs > 0
  BY DEF Sized
<1>4. QED
  BY <1>1, <1>2, <1>3, OwnerIn, Zenon

-----------------------------------------------------------------------------
(* The rows that have been pivots, seen from their owners. *)
LEMMA ScaledPast ==
  ASSUME Sized, GaussInv, NEW t \in scaled
  PROVE  /\ t \in Rows /\ Owner(t) \in Procs /\ t <= curr_pivot[Owner(t)]
         /\ pc[Owner(t)] = "pivot" => t < curr_pivot[Owner(t)]
<1> DEFINE q == Owner(t)
<1>1. t \in Rows
  BY Zenon DEF GaussInv, Typed
<1>2. t \in Nat /\ q \in Procs /\ NProcs \in Nat
  BY <1>1, RowsTyped, Zenon
<1>3. curr_pivot[q] \in Nat /\ starting_row[q] \in Nat
      /\ pc[q] \in {"pivot", "barrier", "read", "eliminate", "end"}
  BY <1>2, Zenon DEF GaussInv, Typed
<1>4. RowAt(t) /\ Placed(q)
  BY <1>1, <1>2, Zenon DEF GaussInv
<1>5. t < starting_row[q]
  BY <1>2, <1>3, <1>4 DEF RowAt
<1>6. Owner(starting_row[q]) = Owner(t)
  BY <1>4, Zenon DEF Placed
<1>7. starting_row[q] >= t + NProcs
  BY <1>2, <1>3, <1>5, <1>6, OwnerGap
<1>8. /\ starting_row[q] <= curr_pivot[q] + NProcs
      /\ pc[q] = "pivot" => starting_row[q] < curr_pivot[q] + NProcs
  BY <1>2, <1>3, <1>4 DEF Placed
<1> HIDE DEF q
<1>9. t <= curr_pivot[q] /\ (pc[q] = "pivot" => t < curr_pivot[q])
  BY <1>2, <1>3, <1>7, <1>8
<1>10. QED
  BY <1>1, <1>2, <1>9, Zenon DEF q

LEMMA PastScaled ==
  ASSUME Sized, GaussInv, NEW t \in Rows,
         \/ t < curr_pivot[Owner(t)]
         \/ t = curr_pivot[Owner(t)] /\ pc[Owner(t)] \in {"barrier", "read", "eliminate"}
  PROVE  t \in scaled
<1> DEFINE q == Owner(t)
<1>1. t \in Nat /\ q \in Procs /\ NProcs \in Nat
  BY RowsTyped, Zenon
<1>2. curr_pivot[q] \in Nat /\ starting_row[q] \in Nat
      /\ pc[q] \in {"pivot", "barrier", "read", "eliminate", "end"}
  BY <1>1, Zenon DEF GaussInv, Typed
<1>3. RowAt(t) /\ Placed(q)
  BY <1>1, Zenon DEF GaussInv
<1>4. t < starting_row[q]
  BY <1>1, <1>2, <1>3 DEF Placed
<1>5. QED
  BY <1>3, <1>4, Zenon DEF RowAt

(* Past its barrier, a process finds the row of its sweep scaled and the    *)
(* pivot of its sweep still published.                                      *)
LEMMA PivotThere ==
  ASSUME Sized, GaussInv, NEW p \in Procs, pc[p] \in {"read", "eliminate"}
  PROVE  curr_pivot[p] \in scaled /\ sweep_pivot[Parity(curr_pivot[p])] = curr_pivot[p]
<1> DEFINE s == curr_pivot[p]
           q == Owner(s)
<1>1. s \in Nat /\ s < iters
  BY Zenon DEF GaussInv, Typed, Placed
<1>2. s \in Rows
  BY <1>1, RowsTyped
<1>3. q \in Procs
  BY <1>2, RowsTyped, Zenon
<1>4. curr_pivot[q] \in Nat /\ pc[q] \in {"pivot", "barrier", "read", "eliminate", "end"}
  BY <1>3, Zenon DEF GaussInv, Typed
<1>5. s <= curr_pivot[q] /\ (s = curr_pivot[q] => pc[q] # "pivot")
  BY <1>3, Zenon DEF GaussInv, Together
<1>6. pc[q] = "end" => curr_pivot[q] = iters
  BY <1>3, Zenon DEF GaussInv, Placed
<1>7. \/ s < curr_pivot[q]
      \/ s = curr_pivot[q] /\ pc[q] \in {"barrier", "read", "eliminate"}
  <2> HIDE DEF q
  <2>1. QED
    BY <1>1, <1>4, <1>5, <1>6, RowsTyped
<1>8. s \in scaled
  BY <1>2, <1>7, PastScaled, Zenon
<1>9. ASSUME s + 2 \in scaled PROVE FALSE
  <2> DEFINE o == Owner(s + 2)
  <2>1. o \in Procs /\ s + 2 <= curr_pivot[o]
    BY <1>9, ScaledPast, Zenon
  <2>2. curr_pivot[o] <= s + 1 /\ curr_pivot[o] \in Nat
    BY <2>1, Zenon DEF GaussInv, Together, Typed
  <2> HIDE DEF o
  <2>3. QED
    BY <1>1, <2>1, <2>2
<1>10. sweep_pivot[Parity(s)] = s
  BY <1>1, <1>8, <1>9, Zenon DEF GaussInv, PivotKept
<1>11. QED
  BY <1>8, <1>10, Zenon

-----------------------------------------------------------------------------
(* What the invariant says of one process, and of one row. *)
LEMMA ProcFacts ==
  ASSUME Sized, GaussInv, NEW p \in Procs
  PROVE  /\ curr_pivot[p] \in Nat /\ starting_row[p] \in Nat /\ row[p] \in Nat
         /\ pc[p] \in {"pivot", "barrier", "read", "eliminate", "end"}
         /\ Placed(p) /\ \A q \in Procs : Together(p, q) /\ Together(q, p)
<1>1. row[p] \in 0 .. size + NProcs - 1
  BY Zenon DEF GaussInv, Typed
<1>2. row[p] \in Nat
  BY <1>1
<1>3. QED
  BY <1>2, Zenon DEF GaussInv, Typed

LEMMA RowFacts ==
  ASSUME Sized, GaussInv, NEW k \in Rows
  PROVE  /\ k \in Nat /\ k < size /\ Owner(k) \in Procs /\ swept[k] \in Nat /\ RowAt(k)
         /\ starting_row[Owner(k)] \in Nat /\ row[Owner(k)] \in Nat
         /\ curr_pivot[Owner(k)] \in Nat
<1>1. k \in Nat /\ k < size /\ Owner(k) \in Procs
  BY RowsTyped, Zenon
<1>2. row[Owner(k)] \in Nat
  BY <1>1, ProcFacts, Zenon
<1>3. QED
  BY <1>1, <1>2, Zenon DEF GaussInv, Typed

(* The owner publishes the pivot of sweep s: the variable it writes holds   *)
(* the pivot of sweep s - 2, which nobody reads any more.                   *)
LEMMA PivotKeeps ==
  ASSUME Sized, GaussInv, NEW p \in Procs, Pivot(p), starting_row[p] = curr_pivot[p]
  PROVE  PivotKept'
<1> DEFINE s == curr_pivot[p]
<1>1. /\ pc[p] = "pivot" /\ s < iters /\ scaled' = scaled \cup {s}
      /\ sweep_pivot' = [sweep_pivot EXCEPT ![Parity(s)] = s]
  BY Zenon DEF Pivot
<1>2. s \in Nat /\ s \in Rows
  BY <1>1, ProcFacts, RowsTyped
<1>3. sweep_pivot \in [0 .. 1 -> -1 .. iters - 1] /\ scaled \subseteq Rows
  BY Zenon DEF GaussInv, Typed
<1>4. \A t \in Rows : t \in Nat /\ Parity(t) \in 0 .. 1
  BY RowsTyped DEF Parity
<1> SUFFICES ASSUME NEW t \in scaled', t < iters, t + 2 \notin scaled'
             PROVE  sweep_pivot'[Parity(t)] = t
  BY Zenon DEF PivotKept, Parity
<1>5. CASE t = s
  BY <1>1, <1>2, <1>3, <1>4, <1>5, Zenon
<1>6. CASE t # s
  <2>1. t \in scaled /\ t \in Rows /\ t \in Nat /\ t + 2 \notin scaled /\ t + 2 # s
    BY <1>1, <1>3, <1>4, <1>6, Zenon
  <2>2. sweep_pivot[Parity(t)] = t
    BY <2>1, Zenon DEF GaussInv, PivotKept
  <2>3. CASE Parity(t) # Parity(s)
    BY <1>1, <1>2, <1>3, <1>4, <2>1, <2>2, <2>3, Zenon
  <2>4. CASE Parity(t) = Parity(s)
    <3> DEFINE q == Owner(t)
    <3>1. q \in Procs /\ t <= curr_pivot[q]
      BY <2>1, ScaledPast, Zenon
    <3>2. curr_pivot[q] \in Nat /\ curr_pivot[q] <= s + 1
          /\ (curr_pivot[q] = s + 1 => pc[p] # "pivot")
      BY <3>1, ProcFacts, Zenon DEF Together
    <3> HIDE DEF q
    <3>3. t < s
      BY <1>1, <1>2, <1>6, <2>1, <3>1, <3>2
    <3>4. t + 2 < s
      BY <1>2, <2>1, <2>4, <3>3 DEF Parity
    <3>5. t + 3 < s
      BY <1>2, <2>1, <2>4, <3>4 DEF Parity
    <3> DEFINE u == t + 2
               o == Owner(u)
    <3>6. u \in Rows /\ u \in Nat
      BY <1>1, <1>2, <2>1, <3>4, RowsTyped
    <3>7. o \in Procs
      BY <3>6, RowsTyped, Zenon
    <3>8. curr_pivot[o] \in Nat /\ s <= curr_pivot[o] + 1
      BY <3>7, ProcFacts, Zenon DEF Together
    <3> HIDE DEF o
    <3>9. u < curr_pivot[o]
      BY <1>2, <2>1, <3>5, <3>8
    <3>10. u \in scaled
      BY <3>6, <3>9, PastScaled, Zenon DEF o
    <3>11. QED
      BY <2>1, <3>10, Zenon
  <2>5. QED
    BY <2>3, <2>4, Zenon
<1>7. QED
  BY <1>5, <1>6, Zenon

(* The row that becomes the pivot row has been through the sweeps before    *)
(* its own, and the owner's next row is the next one it has to sweep.       *)
LEMMA PivotRows ==
  ASSUME Sized, GaussInv, NEW p \in Procs, Pivot(p), starting_row[p] = curr_pivot[p],
         NEW k \in Rows
  PROVE  RowAt(k)'
<1> DEFINE s == curr_pivot[p]
           o == Owner(k)
<1>1. /\ pc[p] = "pivot" /\ scaled' = scaled \cup {s} /\ swept' = swept
      /\ curr_pivot' = curr_pivot /\ row' = row
      /\ starting_row' = [starting_row EXCEPT ![p] = NextRow(@)]
      /\ pc' = [pc EXCEPT ![p] = "barrier"]
  BY Zenon DEF Pivot
<1>2. /\ starting_row \in [Procs -> Nat]
      /\ pc \in [Procs -> {"pivot", "barrier", "read", "eliminate", "end"}]
  BY Zenon DEF GaussInv, Typed
<1>3. /\ k \in Nat /\ k < size /\ o \in Procs /\ swept[k] \in Nat /\ RowAt(k)
      /\ starting_row[o] \in Nat /\ row[o] \in Nat /\ curr_pivot[o] \in Nat
  BY RowFacts, Zenon
<1>4. s \in Nat /\ Owner(s) = p /\ NProcs \in Nat /\ NProcs > 0
  BY ProcFacts, RowsTyped, Zenon DEF Placed
<1>5. CASE o # p
  <2>1. starting_row'[o] = starting_row[o] /\ pc'[o] = pc[o] /\ k # s
    BY <1>1, <1>2, <1>3, <1>4, <1>5, Zenon
  <2>2. QED
    BY <1>1, <1>3, <2>1, Zenon DEF RowAt, Owner
<1>6. CASE o = p
  <2>1. starting_row'[o] = s + NProcs /\ pc'[o] = "barrier"
    BY <1>1, <1>2, <1>6, Zenon DEF NextRow
  <2>2. /\ k < s => k \in scaled /\ swept[k] = k
        /\ k >= s => k \notin scaled /\ swept[k] = s
    BY <1>1, <1>3, <1>6, Zenon DEF RowAt
  <2>3. k < s + NProcs => k <= s
    BY <1>3, <1>4, <1>6, OwnerGap
  <2>4. k < s + NProcs => k \in scaled' /\ swept'[k] = k
    BY <1>1, <1>3, <1>4, <2>2, <2>3
  <2>5. k >= s + NProcs => k \notin scaled' /\ swept'[k] = s
    BY <1>1, <1>3, <1>4, <2>2
  <2>6. QED
    BY <1>1, <1>6, <2>1, <2>4, <2>5, Zenon DEF RowAt, Owner
<1>7. QED
  BY <1>5, <1>6, Zenon

(* Processes and rows a step of p leaves alone. *)
Others(p) ==
  \A q \in Procs : q # p =>
    /\ curr_pivot'[q] = curr_pivot[q] /\ starting_row'[q] = starting_row[q]
    /\ pc'[q] = pc[q] /\ row'[q] = row[q] /\ pivot_col'[q] = pivot_col[q]

LEMMA OthersPlaced ==
  ASSUME Sized, GaussInv, NEW p \in Procs, Others(p), Placed(p)'
  PROVE  \A q \in Procs : Placed(q)'
<1> TAKE q \in Procs
<1>1. CASE q = p
  BY <1>1, Zenon
<1>2. CASE q # p
  <2>1. Placed(q)
    BY ProcFacts, Zenon
  <2>2. QED
    BY <1>2, <2>1, Zenon DEF Placed, Others, Owner
<1>3. QED
  BY <1>1, <1>2, Zenon

LEMMA OthersTogether ==
  ASSUME Sized, GaussInv, NEW p \in Procs, Others(p),
         \A q \in Procs : q # p => Together(p, q)' /\ Together(q, p)', Together(p, p)'
  PROVE  \A q, r \in Procs : Together(q, r)'
<1> TAKE q, r \in Procs
<1>1. CASE q = p \/ r = p
  BY <1>1, Zenon
<1>2. CASE q # p /\ r # p
  <2>1. Together(q, r)
    BY ProcFacts, Zenon
  <2>2. QED
    BY <1>2, <2>1, Zenon DEF Together, Others
<1>3. QED
  BY <1>1, <1>2, Zenon

(* A step of p that changes only where p is: nothing but p's place in the   *)
(* sweep has to be looked at.                                               *)
LEMMA PivotStep ==
  ASSUME Sized, GaussInv, NEW p \in Procs, Pivot(p)
  PROVE  GaussInv'
<1> DEFINE s == curr_pivot[p]
<1>1. /\ pc[p] = "pivot" /\ s < iters /\ pc' = [pc EXCEPT ![p] = "barrier"]
      /\ curr_pivot' = curr_pivot /\ row' = row /\ pivot_col' = pivot_col /\ swept' = swept
  BY Zenon DEF Pivot
<1>2. Typed
  BY Zenon DEF GaussInv
<1>3. /\ s \in Nat /\ starting_row[p] \in Nat /\ Placed(p)
      /\ \A q \in Procs : Together(p, q) /\ Together(q, p)
  BY ProcFacts, Zenon
<1>4. NProcs \in Nat /\ NProcs > 0 /\ iters \in Nat /\ iters < size /\ size \in Nat
  BY RowsTyped, Zenon
<1>5. pc'[p] = "barrier" /\ \A q \in Procs : q # p => pc'[q] = pc[q]
  BY <1>1, <1>2, Zenon DEF Typed
<1>6. Together(p, p)' /\ \A q \in Procs : q # p => Together(p, q)' /\ Together(q, p)'
  <2>1. ASSUME NEW q \in Procs, q # p PROVE Together(p, q)' /\ Together(q, p)'
    <3>1. Together(p, q) /\ Together(q, p)
      BY <1>3, Zenon
    <3>2. Together(p, q)'
      BY <1>1, <1>5, <2>1, <3>1, Zenon DEF Together
    <3>3. Together(q, p)'
      BY <1>1, <1>5, <2>1, <3>1, Zenon DEF Together
    <3>4. QED
      BY <3>2, <3>3, Zenon
  <2>2. Together(p, p)'
    BY <1>1, <1>3, <1>5 DEF Together
  <2>3. QED
    BY <2>1, <2>2, Zenon
<1>7. pc' \in [Procs -> {"pivot", "barrier", "read", "eliminate", "end"}]
  BY <1>1, <1>2 DEF Typed
<1>8. CASE starting_row[p] = s
  <2>1. /\ sweep_pivot' = [sweep_pivot EXCEPT ![Parity(s)] = s]
        /\ scaled' = scaled \cup {s}
        /\ starting_row' = [starting_row EXCEPT ![p] = NextRow(@)]
    BY <1>8, Zenon DEF Pivot
  <2>2. starting_row'[p] = s + NProcs
        /\ \A q \in Procs : q # p => starting_row'[q] = starting_row[q]
    BY <1>2, <1>8, <2>1, Zenon DEF Typed, NextRow
  <2>3. s \in Rows
    BY <1>1, <1>3, <1>4, RowsTyped
  <2>4. starting_row' \in [Procs -> Nat]
    BY <1>2, <1>3, <1>4, <2>1 DEF Typed, NextRow
  <2>5. sweep_pivot' \in [0 .. 1 -> -1 .. iters - 1]
    <3> DEFINE i == Parity(s)
               T == -1 .. iters - 1
    <3>1. s \in T
      BY <1>1, <1>3, <1>4
    <3>2. sweep_pivot \in [0 .. 1 -> T] /\ sweep_pivot' = [sweep_pivot EXCEPT ![i] = s]
      BY <1>2, <2>1, Zenon DEF Typed
    <3> HIDE DEF i, s, T
    <3>3. sweep_pivot' \in [0 .. 1 -> T]
      BY <3>1, <3>2, Zenon
    <3>4. QED
      BY <3>3, Zenon DEF T
  <2>6. Typed'
    BY <1>1, <1>2, <1>7, <2>1, <2>3, <2>4, <2>5, Zenon DEF Typed, Procs, Rows
  <2>7. Owner(s + NProcs) = p
    BY <1>3, <1>8, OwnerNext, Zenon DEF Placed
  <2>8. Placed(p)'
    BY <1>1, <1>3, <1>4, <1>5, <2>2, <2>7 DEF Placed, Owner
  <2>9. Others(p)
    BY <1>1, <1>5, <2>2, Zenon DEF Others
  <2>10. \A q \in Procs : Placed(q)'
    BY <2>8, <2>9, OthersPlaced, Zenon
  <2>11. \A q, r \in Procs : Together(q, r)'
    BY <1>6, <2>9, OthersTogether, Zenon
  <2>12. PivotKept' /\ \A k \in Rows : RowAt(k)'
    BY <1>8, PivotKeeps, PivotRows, Zenon
  <2>13. QED
    BY <2>6, <2>10, <2>11, <2>12, Zenon DEF GaussInv, Procs, Rows
<1>9. CASE starting_row[p] # s
  <2>1. sweep_pivot' = sweep_pivot /\ scaled' = scaled /\ starting_row' = starting_row
    BY <1>9, Zenon DEF Pivot
  <2>2. Typed'
    BY <1>1, <1>2, <1>7, <2>1, Zenon DEF Typed, Procs, Rows
  <2>3. Placed(p)'
    BY <1>1, <1>3, <1>4, <1>5, <1>9, <2>1 DEF Placed, Owner
  <2>4. Others(p)
    BY <1>1, <1>5, <2>1, Zenon DEF Others
  <2>5. \A q \in Procs : Placed(q)'
    BY <2>3, <2>4, OthersPlaced, Zenon
  <2>6. \A q, r \in Procs : Together(q, r)'
    BY <1>6, <2>4, OthersTogether, Zenon
  <2>7. PivotKept'
    BY <2>1, Zenon DEF GaussInv, PivotKept, Parity
  <2>8. ASSUME NEW k \in Rows PROVE RowAt(k)'
    <3>1. RowAt(k) /\ Owner(k) \in Procs
      BY RowFacts, Zenon
    <3>2. pc'[Owner(k)] = "eliminate" <=> pc[Owner(k)] = "eliminate"
      <4>1. CASE Owner(k) = p
        BY <1>1, <1>5, <3>1, <4>1
      <4>2. CASE Owner(k) # p
        BY <1>1, <1>5, <3>1, <4>2, Zenon
      <4>3. QED
        BY <4>1, <4>2, Zenon
    <3>3. QED
      BY <1>1, <2>1, <3>1, <3>2, Zenon DEF RowAt, Owner
  <2>9. QED
    BY <2>2, <2>5, <2>6, <2>7, <2>8, Zenon DEF GaussInv, Procs, Rows
<1>10. QED
  BY <1>8, <1>9, Zenon

(* Passing the barrier: everyone has arrived. *)
LEMMA BarrierStep ==
  ASSUME Sized, GaussInv, NEW p \in Procs, Tmk_barrier(p)
  PROVE  GaussInv'
<1> DEFINE s == curr_pivot[p]
<1>1. /\ pc[p] = "barrier" /\ Arrived(p) /\ pc' = [pc EXCEPT ![p] = "read"]
      /\ curr_pivot' = curr_pivot /\ starting_row' = starting_row /\ row' = row
      /\ pivot_col' = pivot_col /\ sweep_pivot' = sweep_pivot /\ swept' = swept
      /\ scaled' = scaled
  BY Zenon DEF Tmk_barrier
<1>2. Typed
  BY Zenon DEF GaussInv
<1>3. s \in Nat /\ Placed(p) /\ \A q \in Procs : Together(p, q) /\ Together(q, p)
  BY ProcFacts, Zenon
<1>4. pc'[p] = "read" /\ \A q \in Procs : q # p => pc'[q] = pc[q]
  BY <1>1, <1>2, Zenon DEF Typed
<1>5. pc' \in [Procs -> {"pivot", "barrier", "read", "eliminate", "end"}]
  BY <1>1, <1>2 DEF Typed
<1>6. Typed'
  BY <1>1, <1>2, <1>5, Zenon DEF Typed, Procs, Rows
<1>7. Placed(p)'
  BY <1>1, <1>3, <1>4, Zenon DEF Placed, Owner
<1>8. Others(p)
  BY <1>1, <1>4, Zenon DEF Others
<1>9. \A q \in Procs : Placed(q)'
  BY <1>7, <1>8, OthersPlaced, Zenon
<1>10. ASSUME NEW q \in Procs, q # p PROVE Together(p, q)' /\ Together(q, p)'
  <2>1. Together(p, q) /\ Together(q, p)
    BY <1>3, Zenon
  <2>2. curr_pivot[q] \in Nat
    BY ProcFacts, Zenon
  <2>3. curr_pivot[q] > s \/ (curr_pivot[q] = s /\ pc[q] # "pivot")
    BY <1>1, Zenon DEF Arrived
  <2>4. Together(p, q)'
    BY <1>1, <1>3, <1>4, <1>10, <2>1, <2>2, <2>3 DEF Together
  <2>5. Together(q, p)'
    BY <1>1, <1>4, <1>10, <2>1, Zenon DEF Together
  <2>6. QED
    BY <2>4, <2>5, Zenon
<1>11. Together(p, p)'
  BY <1>1, <1>3, <1>4 DEF Together
<1>12. \A q, r \in Procs : Together(q, r)'
  BY <1>8, <1>10, <1>11, OthersTogether, Zenon
<1>13. PivotKept'
  BY <1>1, Zenon DEF GaussInv, PivotKept, Parity
<1>14. ASSUME NEW k \in Rows PROVE RowAt(k)'
  <2>1. RowAt(k) /\ Owner(k) \in Procs
    BY RowFacts, Zenon
  <2>2. pc'[Owner(k)] = "eliminate" <=> pc[Owner(k)] = "eliminate"
    <3>1. CASE Owner(k) = p
      BY <1>1, <1>4, <2>1, <3>1
    <3>2. CASE Owner(k) # p
      BY <1>1, <1>4, <2>1, <3>2, Zenon
    <3>3. QED
      BY <3>1, <3>2, Zenon
  <2>3. QED
    BY <1>1, <2>1, <2>2, Zenon DEF RowAt, Owner
<1>15. QED
  BY <1>6, <1>9, <1>12, <1>13, <1>14, Zenon DEF GaussInv, Procs, Rows

(* The read finds the pivot of the sweep; the loop starts at starting_row.  *)
LEMMA ReadStep ==
  ASSUME Sized, GaussInv, NEW p \in Procs, ReadPivot(p)
  PROVE  GaussInv'
<1> DEFINE s == curr_pivot[p]
<1>1. /\ pc[p] = "read" /\ pc' = [pc EXCEPT ![p] = "eliminate"]
      /\ pivot_col' = [pivot_col EXCEPT ![p] = sweep_pivot[Parity(s)]]
      /\ row' = [row EXCEPT ![p] = starting_row[p]]
      /\ curr_pivot' = curr_pivot /\ starting_row' = starting_row
      /\ sweep_pivot' = sweep_pivot /\ swept' = swept /\ scaled' = scaled
  BY Zenon DEF ReadPivot
<1>2. Typed
  BY Zenon DEF GaussInv
<1>3. /\ s \in Nat /\ starting_row[p] \in Nat /\ Placed(p)
      /\ \A q \in Procs : Together(p, q) /\ Together(q, p)
  BY ProcFacts, Zenon
<1>4. sweep_pivot[Parity(s)] = s
  BY <1>1, PivotThere, Zenon
<1>5. /\ pc'[p] = "eliminate" /\ pivot_col'[p] = s /\ row'[p] = starting_row[p]
      /\ \A q \in Procs : q # p => pc'[q] = pc[q] /\ pivot_col'[q] = pivot_col[q] /\ row'[q] = row[q]
  BY <1>1, <1>2, <1>4, Zenon DEF Typed
<1>6. pc' \in [Procs -> {"pivot", "barrier", "read", "eliminate", "end"}]
  BY <1>1, <1>2 DEF Typed
<1>7. pivot_col' \in [Procs -> -1 .. iters - 1] /\ row' \in [Procs -> 0 .. size + NProcs - 1]
  <2> DEFINE T == -1 .. iters - 1
             R == 0 .. size + NProcs - 1
             r == starting_row[p]
  <2>1. s \in Nat /\ r \in Nat /\ s < iters /\ s < r /\ r <= s + NProcs
    BY <1>1, <1>3 DEF Placed
  <2>2. s \in T /\ r \in R
    <3> HIDE DEF r, s
    <3>1. QED
      BY <2>1, RowsTyped
  <2>3. pivot_col \in [Procs -> T] /\ row \in [Procs -> R]
        /\ pivot_col' = [pivot_col EXCEPT ![p] = s] /\ row' = [row EXCEPT ![p] = r]
    BY <1>1, <1>2, <1>4, Zenon DEF Typed
  <2> HIDE DEF s, r, T, R
  <2>4. pivot_col' \in [Procs -> T] /\ row' \in [Procs -> R]
    BY <2>2, <2>3
  <2>5. QED
    BY <2>4, Zenon DEF T, R
<1>8. Typed'
  BY <1>1, <1>2, <1>6, <1>7, Zenon DEF Typed, Procs, Rows
<1>9. Placed(p)'
  BY <1>1, <1>3, <1>5 DEF Placed, Owner
<1>10. Others(p)
  BY <1>1, <1>5, Zenon DEF Others
<1>11. \A q \in Procs : Placed(q)'
  BY <1>9, <1>10, OthersPlaced, Zenon
<1>12. ASSUME NEW q \in Procs, q # p PROVE Together(p, q)' /\ Together(q, p)'
  <2>1. Together(p, q) /\ Together(q, p)
    BY <1>3, Zenon
  <2>2. Together(p, q)'
    BY <1>1, <1>5, <1>12, <2>1, Zenon DEF Together
  <2>3. Together(q, p)'
    BY <1>1, <1>5, <1>12, <2>1, Zenon DEF Together
  <2>4. QED
    BY <2>2, <2>3, Zenon
<1>13. Together(p, p)'
  BY <1>1, <1>3, <1>5 DEF Together
<1>14. \A q, r \in Procs : Together(q, r)'
  BY <1>10, <1>12, <1>13, OthersTogether, Zenon
<1>15. PivotKept'
  BY <1>1, Zenon DEF GaussInv, PivotKept, Parity
<1>16. ASSUME NEW k \in Rows PROVE RowAt(k)'
  <2>1. RowAt(k) /\ Owner(k) \in Procs /\ k \in Nat
    BY RowFacts, Zenon
  <2>2. CASE Owner(k) = p
    BY <1>1, <1>3, <1>5, <2>1, <2>2 DEF RowAt, Owner
  <2>3. CASE Owner(k) # p
    BY <1>1, <1>5, <2>1, <2>3, Zenon DEF RowAt, Owner
  <2>4. QED
    BY <2>2, <2>3, Zenon
<1>17. QED
  BY <1>8, <1>11, <1>14, <1>15, <1>16, Zenon DEF GaussInv, Procs, Rows

(* A row of the loop over k is one of p's own, and each is visited once. *)
LEMMA SweepStep ==
  ASSUME Sized, GaussInv, NEW p \in Procs, Eliminate(p), row[p] < size
  PROVE  GaussInv'
<1> DEFINE r == row[p]
<1>1. /\ pc[p] = "eliminate" /\ swept' = [swept EXCEPT ![r] = @ + 1]
      /\ row' = [row EXCEPT ![p] = @ + NProcs] /\ pc' = pc /\ curr_pivot' = curr_pivot
      /\ starting_row' = starting_row /\ pivot_col' = pivot_col
      /\ sweep_pivot' = sweep_pivot /\ scaled' = scaled
  BY Zenon DEF Eliminate
<1>2. Typed
  BY Zenon DEF GaussInv
<1>3. r \in Nat /\ starting_row[p] \in Nat /\ curr_pivot[p] \in Nat /\ Placed(p)
  BY ProcFacts, Zenon
<1>4. NProcs \in Nat /\ NProcs > 0 /\ r \in Rows
  BY <1>3, RowsTyped
<1>5. Owner(r) = p /\ r >= starting_row[p]
  BY <1>1, <1>3, Zenon DEF Placed
<1>6. row'[p] = r + NProcs /\ (\A q \in Procs : q # p => row'[q] = row[q])
  BY <1>1, <1>2, Zenon DEF Typed
<1>7. swept'[r] = swept[r] + 1 /\ (\A k \in Rows : k # r => swept'[k] = swept[k])
  BY <1>1, <1>2, <1>4, Zenon DEF Typed
<1>8. row' \in [Procs -> 0 .. size + NProcs - 1] /\ swept' \in [Rows -> Nat]
  <2> DEFINE R == 0 .. size + NProcs - 1
  <2>1. row \in [Procs -> R] /\ swept \in [Rows -> Nat]
        /\ row' = [row EXCEPT ![p] = r + NProcs]
    BY <1>1, <1>2, Zenon DEF Typed
  <2>2. r + NProcs \in R
    BY <1>3, RowsTyped
  <2> HIDE DEF r, R
  <2>3. row' \in [Procs -> R] /\ swept' \in [Rows -> Nat]
    BY <1>1, <1>4, <2>1, <2>2
  <2>4. QED
    BY <2>3, Zenon DEF R
<1>9. Typed'
  BY <1>1, <1>2, <1>8, Zenon DEF Typed, Procs, Rows
<1>10. Owner(r + NProcs) = p
  BY <1>3, <1>5, OwnerNext, Zenon
<1>11. r + NProcs >= starting_row[p]
  BY <1>3, <1>4, <1>5
<1>12. Placed(p)'
  BY <1>1, <1>3, <1>6, <1>10, <1>11, Zenon DEF Placed, Owner
<1>13. Others(p)
  BY <1>1, <1>6, Zenon DEF Others
<1>14. \A q \in Procs : Placed(q)'
  BY <1>12, <1>13, OthersPlaced, Zenon
<1>15. \A q, o \in Procs : Together(q, o)'
  BY <1>1, Zenon DEF GaussInv, Together
<1>16. PivotKept'
  BY <1>1, Zenon DEF GaussInv, PivotKept, Parity
<1>17. ASSUME NEW k \in Rows PROVE RowAt(k)'
  <2>1. RowAt(k) /\ Owner(k) \in Procs /\ k \in Nat /\ swept[k] \in Nat
    BY RowFacts, Zenon
  <2>2. CASE Owner(k) # p
    <3>1. k # r /\ row'[Owner(k)] = row[Owner(k)]
      BY <1>5, <1>6, <2>1, <2>2, Zenon
    <3>2. QED
      BY <1>1, <1>7, <2>1, <3>1, Zenon DEF RowAt, Owner
  <2>3. CASE Owner(k) = p
    <3>1. /\ k < starting_row[p] => k \in scaled /\ swept[k] = k
          /\ k >= starting_row[p] => k \notin scaled
          /\ k >= starting_row[p] /\ k < r => swept[k] = curr_pivot[p] + 1
          /\ k >= starting_row[p] /\ ~(k < r) => swept[k] = curr_pivot[p]
      BY <1>1, <2>1, <2>3, Zenon DEF RowAt
    <3>2. k < r + NProcs => k <= r
      BY <1>3, <1>5, <2>1, <2>3, OwnerGap
    <3>3. k < starting_row[p] => k \in scaled /\ swept'[k] = k
      BY <1>3, <1>5, <1>7, <2>1, <3>1
    <3>4. k >= starting_row[p] /\ k < r + NProcs => swept'[k] = curr_pivot[p] + 1
      BY <1>3, <1>5, <1>7, <2>1, <3>1, <3>2
    <3>5. k >= starting_row[p] /\ ~(k < r + NProcs) => swept'[k] = curr_pivot[p]
      BY <1>3, <1>4, <1>7, <2>1, <3>1
    <3>6. QED
      BY <1>1, <1>6, <2>3, <3>1, <3>3, <3>4, <3>5, Zenon DEF RowAt, Owner
  <2>4. QED
    BY <2>2, <2>3, Zenon
<1>18. QED
  BY <1>9, <1>14, <1>15, <1>16, <1>17, Zenon DEF GaussInv, Procs, Rows

(* All of p's rows have been visited: the sweep is over. *)
LEMMA NextSweepStep ==
  ASSUME Sized, GaussInv, NEW p \in Procs, Eliminate(p), ~(row[p] < size)
  PROVE  GaussInv'
<1> DEFINE s == curr_pivot[p]
<1>1. /\ pc[p] = "eliminate" /\ curr_pivot' = [curr_pivot EXCEPT ![p] = @ + 1]
      /\ pc' = [pc EXCEPT ![p] = "pivot"] /\ swept' = swept /\ row' = row
      /\ starting_row' = starting_row /\ pivot_col' = pivot_col
      /\ sweep_pivot' = sweep_pivot /\ scaled' = scaled
  BY Zenon DEF Eliminate
<1>2. Typed
  BY Zenon DEF GaussInv
<1>3. /\ s \in Nat /\ row[p] \in Nat /\ starting_row[p] \in Nat /\ Placed(p)
      /\ \A q \in Procs : Together(p, q) /\ Together(q, p)
  BY ProcFacts, Zenon
<1>4. NProcs \in Nat /\ NProcs > 0 /\ size \in Nat /\ iters \in Nat
  BY RowsTyped, Zenon
<1>5. /\ pc'[p] = "pivot" /\ curr_pivot'[p] = s + 1
      /\ \A q \in Procs : q # p => pc'[q] = pc[q] /\ curr_pivot'[q] = curr_pivot[q]
  BY <1>1, <1>2, Zenon DEF Typed
<1>6. pc' \in [Procs -> {"pivot", "barrier", "read", "eliminate", "end"}]
  BY <1>1, <1>2 DEF Typed
<1>7. curr_pivot' \in [Procs -> Nat]
  <2>1. curr_pivot \in [Procs -> Nat]
    BY <1>2, Zenon DEF Typed
  <2>2. QED
    BY <1>1, <2>1
<1>8. Typed'
  BY <1>1, <1>2, <1>6, <1>7, Zenon DEF Typed, Procs, Rows
<1>9. Placed(p)'
  BY <1>1, <1>3, <1>4, <1>5 DEF Placed, Owner
<1>10. Others(p)
  BY <1>1, <1>5, Zenon DEF Others
<1>11. \A q \in Procs : Placed(q)'
  BY <1>9, <1>10, OthersPlaced, Zenon
<1>12. ASSUME NEW q \in Procs, q # p PROVE Together(p, q)' /\ Together(q, p)'
  <2>1. Together(p, q) /\ Together(q, p) /\ curr_pivot[q] \in Nat
    BY <1>3, ProcFacts, Zenon
  <2>2. Together(p, q)'
    BY <1>1, <1>3, <1>5, <1>12, <2>1 DEF Together
  <2>3. Together(q, p)'
    BY <1>1, <1>3, <1>5, <1>12, <2>1 DEF Together
  <2>4. QED
    BY <2>2, <2>3, Zenon
<1>13. Together(p, p)'
  BY <1>3, <1>5 DEF Together
<1>14. \A q, r \in Procs : Together(q, r)'
  BY <1>10, <1>12, <1>13, OthersTogether, Zenon
<1>15. PivotKept'
  BY <1>1, Zenon DEF GaussInv, PivotKept, Parity
<1>16. ASSUME NEW k \in Rows PROVE RowAt(k)'
  <2>1. RowAt(k) /\ Owner(k) \in Procs /\ k \in Nat /\ k < size
    BY RowFacts, Zenon
  <2>2. CASE Owner(k) = p
    <3>1. k < row[p]
      BY <1>3, <1>4, <2>1
    <3>2. QED
      BY <1>1, <1>5, <2>1, <2>2, <3>1 DEF RowAt, Owner
  <2>3. CASE Owner(k) # p
    BY <1>1, <1>5, <2>1, <2>3, Zenon DEF RowAt, Owner
  <2>4. QED
    BY <2>2, <2>3, Zenon
<1>17. QED
  BY <1>8, <1>11, <1>14, <1>15, <1>16, Zenon DEF GaussInv, Procs, Rows

(* The barrier after the loop: everyone is through with the last sweep. *)
LEMMA EndStep ==
  ASSUME Sized, GaussInv, End
  PROVE  GaussInv'
<1>1. /\ pc' = [p \in Procs |-> "end"]
      /\ \A p \in Procs : pc[p] = "pivot" /\ curr_pivot[p] = iters
      /\ curr_pivot' = curr_pivot /\ starting_row' = starting_row /\ row' = row
      /\ pivot_col' = pivot_col /\ sweep_pivot' = sweep_pivot /\ swept' = swept
      /\ scaled' = scaled
  BY Zenon DEF End
<1>2. Typed
  BY Zenon DEF GaussInv
<1>3. \A p \in Procs : pc'[p] = "end"
  BY <1>1, Zenon
<1>4. pc' \in [Procs -> {"pivot", "barrier", "read", "eliminate", "end"}]
  BY <1>1
<1>5. Typed'
  BY <1>1, <1>2, <1>4, Zenon DEF Typed, Procs, Rows
<1>6. ASSUME NEW p \in Procs PROVE Placed(p)'
  <2>1. Placed(p)
    BY ProcFacts, Zenon
  <2>2. QED
    BY <1>1, <1>3, <2>1 DEF Placed, Owner
<1>7. ASSUME NEW p \in Procs, NEW q \in Procs PROVE Together(p, q)'
  BY <1>1, <1>3, RowsTyped DEF Together
<1>8. PivotKept'
  BY <1>1, Zenon DEF GaussInv, PivotKept, Parity
<1>9. ASSUME NEW k \in Rows PROVE RowAt(k)'
  <2>1. RowAt(k) /\ Owner(k) \in Procs
    BY RowFacts, Zenon
  <2>2. pc[Owner(k)] # "eliminate" /\ pc'[Owner(k)] # "eliminate"
    BY <1>1, <1>3, <2>1
  <2>3. QED
    BY <1>1, <2>1, <2>2, Zenon DEF RowAt, Owner
<1>10. QED
  BY <1>5, <1>6, <1>7, <1>8, <1>9, Zenon DEF GaussInv, Procs, Rows

LEMMA InitStep ==
  ASSUME Sized, Init
  PROVE  GaussInv
<1>1. \A p \in Procs : p \in Nat /\ p < NProcs /\ Owner(p) = p
  BY OwnerFirst DEF Sized, Procs
<1>2. \A k \in Rows : k \in Nat /\ Owner(k) \in Procs /\ swept[k] = 0
  BY RowsTyped, Zenon DEF Init
<1>3. \A p \in Procs : /\ curr_pivot[p] = 0 /\ starting_row[p] = p /\ pc[p] = "pivot"
  BY Zenon DEF Init
<1>4. Typed
  BY <1>1, RowsTyped DEF Init, Typed
<1>5. PivotKept
  BY Zenon DEF Init, PivotKept
<1>6. ASSUME NEW p \in Procs PROVE Placed(p)
  BY <1>1, <1>3, RowsTyped DEF Placed
<1>7. ASSUME NEW p \in Procs, NEW q \in Procs PROVE Together(p, q)
  BY <1>3 DEF Together
<1>8. ASSUME NEW k \in Rows PROVE RowAt(k)
  <2> DEFINE o == Owner(k)
  <2>1. k \in Nat /\ o \in Procs /\ swept[k] = 0 /\ starting_row[o] = o
        /\ pc[o] = "pivot" /\ curr_pivot[o] = 0 /\ o \in Nat /\ o < NProcs /\ Owner(o) = Owner(k)
    BY <1>1, <1>2, <1>3, Zenon
  <2>2. k \notin scaled
    BY Zenon DEF Init
  <2>3. o <= k
    BY <2>1, OwnerGap, RowsTyped
  <2>4. QED
    BY <2>1, <2>2, <2>3 DEF RowAt
<1>9. QED
  BY <1>4, <1>5, <1>6, <1>7, <1>8, Zenon DEF GaussInv

LEMMA Invariance == Sized => (Spec => []GaussInv)
<1> SUFFICES ASSUME Sized PROVE Spec => []GaussInv
  OBVIOUS
<1>1. Init => GaussInv
  BY InitStep, Zenon
<1>2. GaussInv /\ [Next]_vars => GaussInv'
  <2> SUFFICES ASSUME GaussInv, [Next]_vars PROVE GaussInv'
    OBVIOUS
  <2>1. ASSUME NEW p \in Procs, Pivot(p) PROVE GaussInv'
    BY <2>1, PivotStep, Zenon
  <2>2. ASSUME NEW p \in Procs, Tmk_barrier(p) PROVE GaussInv'
    BY <2>2, BarrierStep, Zenon
  <2>3. ASSUME NEW p \in Procs, ReadPivot(p) PROVE GaussInv'
    BY <2>3, ReadStep, Zenon
  <2>4. ASSUME NEW p \in Procs, Eliminate(p) PROVE GaussInv'
    BY <2>4, SweepStep, NextSweepStep, Zenon
  <2>5. ASSUME End PROVE GaussInv'
    BY <2>5, EndStep, Zenon
  <2>6. CASE UNCHANGED vars
    BY <2>6, Zenon DEF vars, GaussInv, Typed, Placed, Together, RowAt, PivotKept, Owner,
                       Procs, Rows, Parity
  <2>7. QED
    BY <2>1, <2>2, <2>3, <2>4, <2>5, <2>6, Zenon DEF Next
<1>3. QED
  BY <1>1, <1>2, PTL DEF Spec

-----------------------------------------------------------------------------
(* However far the owners of the next rows run ahead, a process eliminates  *)
(* with the pivot column of its own sweep and a row already scaled: the two *)
(* alternating variables make up for the second barrier gauss.c leaves out. *)
THEOREM PivotsMatch == Sized => (Spec => []PivotOfSweep)
<1> SUFFICES ASSUME Sized PROVE Spec => []PivotOfSweep
  OBVIOUS
<1>1. GaussInv => PivotOfSweep
  BY PivotThere, Zenon DEF GaussInv, PivotOfSweep, Placed
<1>2. QED
  BY <1>1, Invariance, PTL

(* Row k is a pivot row after exactly k sweeps through it and never swept   *)
(* again; at the end the other rows have been through all the sweeps.       *)
THEOREM SweepsInOrder == Sized => (Spec => []RowsInOrder)
<1> SUFFICES ASSUME Sized PROVE Spec => []RowsInOrder
  OBVIOUS
<1>1. ASSUME GaussInv PROVE RowsInOrder
  <2>1. ASSUME NEW k \in scaled PROVE swept[k] = k
    <3>1. k \in Rows
      BY <1>1, Zenon DEF GaussInv, Typed
    <3>2. QED
      BY <1>1, <3>1, RowFacts DEF RowAt
  <2>2. ASSUME \A p \in Procs : pc[p] = "end", NEW k \in Rows \ scaled
        PROVE  k >= iters /\ swept[k] = iters
    <3>1. RowAt(k) /\ Owner(k) \in Procs /\ k \in Nat /\ starting_row[Owner(k)] \in Nat
      BY <1>1, RowFacts, Zenon
    <3>2. pc[Owner(k)] = "end" /\ Placed(Owner(k))
      BY <1>1, <2>2, <3>1, ProcFacts, Zenon
    <3>3. curr_pivot[Owner(k)] = iters /\ iters <= starting_row[Owner(k)]
      BY <3>2 DEF Placed
    <3>4. QED
      BY <3>1, <3>2, <3>3, RowsTyped DEF RowAt
  <2>3. QED
    BY <2>1, <2>2, Zenon DEF RowsInOrder
<1>2. QED
  BY <1>1, Invariance, PTL

(* Every variable of Compute stays within its bounds: the row index of the  *)
(* elimination loop, for one, never gets past the last row by more than the *)
(* step of the loop.                                                        *)
THEOREM TypeCorrect == Sized => (Spec => []TypeOK)
<1> SUFFICES ASSUME Sized PROVE Spec => []TypeOK
  OBVIOUS
<1>1. ASSUME GaussInv PROVE TypeOK
  <2>1. /\ curr_pivot \in [Procs -> Nat] /\ starting_row \in [Procs -> Nat]
        /\ swept \in [Rows -> Nat]
    BY <1>1, Zenon DEF GaussInv, Typed
  <2>2. ASSUME NEW p \in Procs
        PROVE  curr_pivot[p] \in 0 .. iters /\ starting_row[p] \in 0 .. size + NProcs - 1
    <3>1. /\ curr_pivot[p] \in Nat /\ starting_row[p] \in Nat /\ Placed(p)
          /\ pc[p] \in {"pivot", "barrier", "read", "eliminate", "end"}
      BY <1>1, ProcFacts, Zenon
    <3>2. /\ curr_pivot[p] <= iters
          /\ \/ starting_row[p] < curr_pivot[p] + NProcs
             \/ curr_pivot[p] < iters /\ starting_row[p] <= curr_pivot[p] + NProcs
      BY <3>1 DEF Placed
    <3>3. QED
      BY <3>1, <3>2, RowsTyped
  <2>3. ASSUME NEW k \in Rows PROVE swept[k] \in 0 .. iters
    <3> DEFINE o == Owner(k)
    <3>1. k \in Nat /\ o \in Procs /\ swept[k] \in Nat /\ RowAt(k) /\ starting_row[o] \in Nat
      BY <1>1, RowFacts, Zenon
    <3>2. curr_pivot[o] \in Nat /\ Placed(o)
      BY <1>1, <3>1, ProcFacts, Zenon
    <3>3. CASE k < starting_row[o]
      <4>1. k \in scaled /\ swept[k] = k
        BY <3>1, <3>3, Zenon DEF RowAt
      <4>2. k <= curr_pivot[o]
        BY <1>1, <4>1, ScaledPast, Zenon
      <4>3. curr_pivot[o] <= iters
        BY <3>2, Zenon DEF Placed
      <4> HIDE DEF o
      <4>4. QED
        BY <3>1, <3>2, <4>1, <4>2, <4>3, RowsTyped
    <3>4. CASE k >= starting_row[o]
      <4>1. \/ pc[o] = "eliminate" /\ swept[k] = curr_pivot[o] + 1
            \/ swept[k] = curr_pivot[o]
        BY <3>1, <3>4, Zenon DEF RowAt
      <4>2. curr_pivot[o] <= iters /\ (pc[o] = "eliminate" => curr_pivot[o] < iters)
        BY <3>2 DEF Placed
      <4> HIDE DEF o
      <4>3. QED
        BY <3>2, <4>1, <4>2, RowsTyped
    <3>5. QED
      BY <3>1, <3>3, <3>4
  <2>4. /\ curr_pivot \in [Procs -> 0 .. iters] /\ starting_row \in [Procs -> 0 .. size + NProcs - 1]
        /\ swept \in [Rows -> 0 .. iters]
    BY <2>1, <2>2, <2>3
  <2>5. QED
    BY <1>1, <2>4, Zenon DEF GaussInv, Typed, TypeOK
<1>2. QED
  BY <1>1, Invariance, PTL

=============================================================================
