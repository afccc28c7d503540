----------------------------- MODULE TspGraphs -----------------------------
(* The road maps TspTmk is run on: symmetric, as calc_bound needs them.     *)
EXTENDS Integers, Sequences

\* The map of n cities in which the road between i < j has the length
\* length[<<i, j>>].
Symmetric(n, length) ==
  [i \in 0 .. n - 1 |-> [j \in 0 .. n - 1 |->
     IF i = j THEN 0 ELSE IF i < j THEN length[<<i, j>>] ELSE length[<<j, i>>]]]

Roads(n) == {r \in (0 .. n - 1) \X (0 .. n - 1) : r[1] < r[2]}

\* Five cities: five of the ten roads are short or long, in every
\* combination, the others in between.
Varying == {<<0, 1>>, <<0, 3>>, <<1, 2>>, <<2, 4>>, <<3, 4>>}

FiveCities ==
  {Symmetric(5, [r \in Roads(5) |-> IF r \in Varying THEN length[r] ELSE 3]) :
     length \in [Varying -> {1, 4}]}

NearCities == Symmetric(5, [r \in Roads(5) |-> IF r \in Varying THEN 1 ELSE 3])

\* Six cities, on which PQ.C drops the shortest tour.
SixRows ==
  <<<<0, 20, 1, 1, 21, 20>>, <<20, 0, 22, 20, 21, 22>>, <<1, 22, 0, 21, 20, 20>>,
    <<1, 20, 21, 0, 20, 20>>, <<21, 21, 20, 20, 0, 20>>, <<20, 22, 20, 20, 20, 0>>>>

SixCities == {[i \in 0 .. 5 |-> [j \in 0 .. 5 |-> SixRows[i + 1][j + 1]]]}
=============================================================================
