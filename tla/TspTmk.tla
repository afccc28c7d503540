------------------------------- MODULE TspTmk -------------------------------
(***************************************************************************)
(* The travelling salesman program of the TreadMarks distribution,         *)
(* Tmk/apps/tsp_c/src.  Worker processes share a pool of partial tours and *)
(* a priority queue of them, both under TourLock.  A worker takes the most *)
(* promising tour; it splits a short one into its one-node extensions and  *)
(* searches a long one exhaustively.  The shortest complete tour is        *)
(* recorded under MinLock, but its length, MinTourLen, is read without it  *)
(* to prune: a process then reads its own copy of the page, which is only  *)
(* as recent as the locks it has acquired.  seen[p] is that copy.          *)
(*                                                                         *)
(* A critical section is one step (the locks are the subject of TmkLock).  *)
(* StartNode is 0, the default; NodesFromEnd is at least 2, as with the    *)
(* default of 12, so that a queued tour always lacks two nodes or more.    *)
(***************************************************************************)
EXTENDS Integers, Sequences, FiniteSets, FiniteSetsExt, SequencesExt

CONSTANTS Workers,        \* process identifiers
          TspSize,        \* number of cities, 0 .. TspSize - 1
          NodesFromEnd,   \* a tour lacking this many cities is searched (-r)
          Graphs,         \* the weight matrices of the input; 0: no edge
          MAX_NUM_TOURS,  \* size of the pool of tours
          BIGINT          \* no tour found yet

VARIABLES weights,        \* the matrix read by read_tsp
          Tours,          \* pool of partial tours
          TourStack,      \* indices of the unused ones
          PrioQ,          \* heap of [index, priority], the root first
          Done,           \* no more tours to evaluate
          MinTourLen, MinTour,
          lengths,        \* every value MinTourLen has had
          seen,           \* MinTourLen in the copy of each process
          released,       \* copy of the last process to release each lock
          pc, curr,       \* control of each worker and its current tour
          Path,           \* complete tour a worker's search is at
          stuck           \* a worker left the program holding TourLock

vars == <<weights, Tours, TourStack, PrioQ, Done, MinTourLen, MinTour,
          lengths, seen, released, pc, curr, Path, stuck>>
shared == <<weights, Tours, TourStack, PrioQ, Done, stuck>>

Nodes == 0 .. TspSize - 1
Blank == [prefix |-> <<0>>, prefix_weight |-> 0, lower_bound |-> 0]

Weight(path) ==
  MapThenSumSet(LAMBDA k : weights[path[k]][path[k + 1]], 1 .. Len(path) - 1)

Edges(path) == \A k \in 1 .. Len(path) - 1 : weights[path[k]][path[k + 1]] # 0

-----------------------------------------------------------------------------
(* calc_bound: half of the two lightest usable edges of every city that    *)
(* the tour has not reached, and one more.                                 *)

\* the edges of i that the rest of the tour may use
Usable(w, prefix, i) ==
  {j \in Nodes : /\ w[i][j] # 0
                 /\ j \in Range(prefix) => j \in {prefix[1], Last(prefix)}}

\* the two lightest edges in full
LightestUnhalved(w, i, js) ==
  LET a == CHOOSE j \in js : \A k \in js : w[i][j] <= w[i][k]
      b == CHOOSE j \in js \ {a} : \A k \in js \ {a} : w[i][j] <= w[i][k]
  IN CASE Cardinality(js) = 0 -> 0
       [] Cardinality(js) = 1 -> w[i][a]
       [] OTHER -> w[i][a] + w[i][b]

TwoLightest(w, i, js) ==
  LET a == CHOOSE j \in js : \A k \in js : w[i][j] <= w[i][k]
      b == CHOOSE j \in js \ {a} : \A k \in js \ {a} : w[i][j] <= w[i][k]
  IN CASE Cardinality(js) = 0 -> 0
       [] Cardinality(js) = 1 -> w[i][a]
       [] OTHER -> (w[i][a] + w[i][b]) \div 2

calc_bound(w, t) ==
  LET rest == Nodes \ Range(t.prefix)
      mst_weight ==
        MapThenSumSet(LAMBDA i : TwoLightest(w, i, Usable(w, t.prefix, i)), rest)
  IN [t EXCEPT !.lower_bound = t.prefix_weight + mst_weight
                               + (IF rest = {} THEN 0 ELSE 1)]

-----------------------------------------------------------------------------
(* The heap.  A critical section works on a record g of the shared         *)
(* structures: the heap q, the free indices, the tours, and whether the    *)
(* program left because one of them ran out.                               *)

less_than(tours, x, y) ==
  \/ x.priority < y.priority
  \/ /\ x.priority = y.priority
     /\ Len(tours[x.index].prefix) > Len(tours[y.index].prefix)

Exchange(q, i, j) == [q EXCEPT ![i] = q[j], ![j] = q[i]]

RECURSIVE BubbleUp(_, _, _)
BubbleUp(tours, q, i) ==
  IF i > 1 /\ less_than(tours, q[i], q[i \div 2])
  THEN BubbleUp(tours, Exchange(q, i, i \div 2), i \div 2)
  ELSE q

LowestChild(tours, q, i) ==
  IF 2 * i = Len(q) \/ less_than(tours, q[2 * i], q[2 * i + 1])
  THEN 2 * i ELSE 2 * i + 1

RECURSIVE PushDown(_, _, _)
PushDown(tours, q, i) ==
  IF i <= Len(q) \div 2 /\ less_than(tours, q[LowestChild(tours, q, i)], q[i])
  THEN PushDown(tours, Exchange(q, i, LowestChild(tours, q, i)),
                LowestChild(tours, q, i))
  ELSE q

\* the last entry moves to the root and down from there
RemoveRoot(tours, q) ==
  IF Len(q) = 1 THEN <<>>
  ELSE PushDown(tours, [Front(q) EXCEPT ![1] = Last(q)], 1)

\* new_tour and the insertion in split_tour: node i extends tour t
new_tour(w, g, t, i) ==
  IF g.out \/ g.free = <<>> \/ Len(g.q) >= MAX_NUM_TOURS - 1
  THEN [g EXCEPT !.out = TRUE]
  ELSE LET index == Last(g.free)
           new   == calc_bound(w,
                      [t EXCEPT !.prefix = Append(@, i),
                                !.prefix_weight = @ + w[Last(t.prefix)][i]])
           tours == [g.tours EXCEPT ![index] = new]
           entry == [index |-> index, priority |-> new.lower_bound]
       IN [g EXCEPT !.free = Front(@), !.tours = tours,
                    !.q = BubbleUp(tours, Append(@, entry), Len(@) + 1)]

\* t1, t2 and t3 of split_tour
Extends(w, t, i, min) ==
  /\ i \notin Range(t.prefix)
  /\ w[Last(t.prefix)][i] # 0
  /\ t.lower_bound + w[Last(t.prefix)][i] <= min

split_tour(w, g, t, min) ==
  FoldLeft(LAMBDA h, i : IF Extends(w, t, i, min) THEN new_tour(w, h, t, i) ELSE h,
           g, [k \in 1 .. TspSize |-> k - 1])

\* a tour that was split or searched goes back to the pool
FreeTour(free, index) == Append(free, index)

Searchable(t) == Len(t.prefix) - 1 >= TspSize - NodesFromEnd - 1

\* find_solvable_tour returns <<g, Done, tour index or -1>>
RECURSIVE find_solvable_tour(_, _, _)
find_solvable_tour(w, g, min) ==
  IF g.q = <<>> \/ g.out \/ g.q[1].priority >= min THEN <<g, TRUE, -1>>
  ELSE LET index == g.q[1].index
           h     == [g EXCEPT !.q = RemoveRoot(g.tours, g.q)]
       IN IF Searchable(h.tours[index]) THEN <<h, FALSE, index>>
          ELSE LET s == split_tour(w, h, h.tours[index], min)
               IN find_solvable_tour(w, [s EXCEPT !.free = FreeTour(@, index)], min)

-----------------------------------------------------------------------------
Init ==
  /\ weights \in Graphs
  /\ Tours = [k \in 0 .. MAX_NUM_TOURS - 1 |->
                IF k = 0 THEN calc_bound(weights, Blank) ELSE Blank]
  /\ TourStack = [k \in 1 .. MAX_NUM_TOURS - 1 |-> MAX_NUM_TOURS - k]
  /\ PrioQ = <<[index |-> 0, priority |-> Tours[0].lower_bound]>>
  /\ Done = FALSE
  /\ MinTourLen = BIGINT
  /\ MinTour = <<>>
  /\ lengths = {BIGINT}
  /\ seen = [p \in Workers |-> BIGINT]
  /\ released = [TourLock |-> BIGINT, MinLock |-> BIGINT]
  /\ pc = [p \in Workers |-> "get"]
  /\ curr = [p \in Workers |-> -1]
  /\ Path = [p \in Workers |-> <<>>]
  /\ stuck = FALSE

(* Acquiring a lock makes at least what its last holder saw visible.  The  *)
(* page may arrive with later writes on it.                                *)
MayRead(p, lock) ==
  {m \in lengths : m <= seen[p] /\ m <= released[lock]}

(* get_tour, the whole critical section of TourLock.  Done has been set,   *)
(* or the search for a tour ends with one or sets it.                      *)
get_tour(p) ==
  /\ pc[p] = "get" /\ ~stuck
  /\ \E min \in MayRead(p, "TourLock") :
       LET free == IF curr[p] = -1 THEN TourStack ELSE FreeTour(TourStack, curr[p])
           g    == [q |-> PrioQ, free |-> free, tours |-> Tours, out |-> FALSE]
           f    == IF Done THEN <<g, TRUE, -1>>
                   ELSE find_solvable_tour(weights, g, min)
       IN /\ seen' = [seen EXCEPT ![p] = min]
          /\ released' = [released EXCEPT !["TourLock"] = min]
          /\ PrioQ' = f[1].q /\ TourStack' = f[1].free /\ Tours' = f[1].tours
          /\ stuck' = f[1].out
          /\ Done' = (f[2] /\ ~f[1].out)
          /\ curr' = [curr EXCEPT ![p] = f[3]]
          /\ pc' = [pc EXCEPT ![p] = CASE f[1].out   -> "exited"
                                       [] f[3] = -1  -> "barrier"
                                       [] OTHER      -> "search"]
          /\ Path' = [Path EXCEPT ![p] = <<>>]
  /\ UNCHANGED <<weights, MinTourLen, MinTour, lengths>>

Completions(prefix) ==
  {prefix \o rest : rest \in SetToSeqs(Nodes \ Range(prefix))}

Before(c, d) ==
  \E k \in 1 .. Len(d) : c[k] < d[k] /\ \A h \in 1 .. k - 1 : c[h] = d[h]

(* visit_nodes reaches path and finds its tour shorter than min: every     *)
(* edge exists, no prefix was cut off, and the way back is short enough.   *)
Reached(t, path, min) ==
  /\ Edges(path \o <<0>>)
  /\ \A k \in Len(t.prefix) + 1 .. TspSize :
       LET CurDist == Weight(SubSeq(path, 1, k))
       IN CurDist <= min /\ (k < TspSize => CurDist < min)
  /\ Weight(path \o <<0>>) < min

(* recursive_solve runs up to its next call of set_best, or to its end.    *)
recursive_solve(p) ==
  /\ pc[p] = "search"
  /\ LET t == Tours[curr[p]]
         later == {c \in Completions(t.prefix) :
                     /\ Path[p] = <<>> \/ Before(Path[p], c)
                     /\ Reached(t, c, seen[p])}
     IN IF later = {}
        THEN /\ pc' = [pc EXCEPT ![p] = "get"]
             /\ UNCHANGED Path
        ELSE /\ pc' = [pc EXCEPT ![p] = "best"]
             /\ Path' = [Path EXCEPT ![p] =
                           CHOOSE c \in later : \A d \in later \ {c} : Before(c, d)]
  /\ UNCHANGED <<shared, MinTourLen, MinTour, lengths, seen, released, curr>>

\* set_best looks again once it holds MinLock
StillBest(best, min) == best < min

\* the tour is copied with its length
NewTour(best, min, path) == IF StillBest(best, min) THEN path ELSE MinTour

(* set_best; the holder of MinLock reads the length last written, since    *)
(* every writer held it before.                                            *)
set_best(p) ==
  /\ pc[p] = "best"
  /\ \E min \in MayRead(p, "MinLock") :
       LET best == Weight(Path[p] \o <<0>>)
           now  == IF StillBest(best, min) THEN best ELSE min
       IN /\ MinTourLen' = (IF StillBest(best, min) THEN best ELSE MinTourLen)
          /\ MinTour' = NewTour(best, min, Path[p])
          /\ lengths' = lengths \cup {now}
          /\ seen' = [seen EXCEPT ![p] = now]
          /\ released' = [released EXCEPT !["MinLock"] = now]
  /\ pc' = [pc EXCEPT ![p] = "search"]
  /\ UNCHANGED <<shared, curr, Path>>

\* the barrier that ends Worker, after which everyone prints the result
Finish ==
  /\ \A p \in Workers : pc[p] = "barrier"
  /\ pc' = [p \in Workers |-> "printed"]
  /\ seen' = [p \in Workers |-> MinTourLen]
  /\ UNCHANGED <<shared, MinTourLen, MinTour, lengths, released, curr, Path>>

Next ==
  \/ \E p \in Workers : get_tour(p) \/ recursive_solve(p) \/ set_best(p)
  \/ Finish

Spec == Init /\ [][Next]_vars

-----------------------------------------------------------------------------
(* The tour printed after the final barrier is a shortest tour: no copy of *)
(* MinTourLen, bound or early end of the search has cut it off.            *)
MinimumTour ==
  (\A p \in Workers : pc[p] = "printed") =>
    \A c \in Completions(<<0>>) :
      Edges(c \o <<0>>) => MinTourLen <= Weight(c \o <<0>>)
=============================================================================
