------------------------------ MODULE Cannon ------------------------------
(***************************************************************************)
(* The cannon game over gRPC: the servicer of                              *)
(* Practica03/CodigosFinales/practica3Server.py and its players, main.go.  *)
(*                                                                         *)
(* The calls run on the threads of a pool, at most Workers at a time, and  *)
(* share the two attributes of the best shot without a lock: every read    *)
(* and write of an attribute is a step.  Where a shot lands is any of      *)
(* Distances; how angle and speed give it is left out.                     *)
(***************************************************************************)
EXTENDS Integers, Sequences, FiniteSets

CONSTANTS
  Players,
  Distances,    \* the distances from the target a shot may land at, not 0
  Workers,      \* max_workers
  Shots         \* shots of a player: 5 in main.go

Nadie == "None"   \* the initial value of nombreMejorDisparo

VARIABLES
  nombreMejorDisparo,
  distanciaMejorDisparo,
  pc,      \* pc[p]: where p's call is in the servicer, or "idle"
  shot,    \* shot[p]: the distances of p's shots so far
  told     \* told[p]: what MejorDisparo told p last

vars == <<nombreMejorDisparo, distanciaMejorDisparo, pc, shot, told>>

NoReport == [nombre |-> Nadie, distancia |-> 0]

Init ==
  /\ nombreMejorDisparo = Nadie
  /\ distanciaMejorDisparo = 0
  /\ pc = [p \in Players |-> "idle"]
  /\ shot = [p \in Players |-> <<>>]
  /\ told = [p \in Players |-> NoReport]

Last(p) == shot[p][Len(shot[p])]
Running == {p \in Players : pc[p] \notin {"idle", "fired", "hit"}}
Step(p, from, to) == pc[p] = from /\ pc' = [pc EXCEPT ![p] = to]

-----------------------------------------------------------------------------
(* disparaCannon, called for p *)

\* The player's shot, taken by a free thread.
Fire(p) ==
  /\ Step(p, "idle", "first") /\ Cardinality(Running) < Workers /\ Len(shot[p]) < Shots
  /\ \E d \in Distances : shot' = [shot EXCEPT ![p] = Append(@, d)]
  /\ UNCHANGED <<nombreMejorDisparo, distanciaMejorDisparo, told>>

\* Whether the shot is recorded, whatever its distance.
\* Mutant: never; the distance of nobody's shot, 0.0, is compared with.
NeverFirst == FALSE

NoBestYet == nombreMejorDisparo = Nadie

\* The two halves of the condition.
ReadName(p) ==
  /\ Step(p, "first", IF NoBestYet THEN "name" ELSE "compare")
  /\ UNCHANGED <<nombreMejorDisparo, distanciaMejorDisparo, shot, told>>

Better(p) == Last(p) < distanciaMejorDisparo

ReadDistance(p) ==
  /\ Step(p, "compare", IF Better(p) THEN "name" ELSE "fired")
  /\ UNCHANGED <<nombreMejorDisparo, distanciaMejorDisparo, shot, told>>

NewName(p) == p

WriteName(p) ==
  /\ Step(p, "name", "distance")
  /\ nombreMejorDisparo' = NewName(p)
  /\ UNCHANGED <<distanciaMejorDisparo, shot, told>>

WriteDistance(p) ==
  /\ Step(p, "distance", "fired")
  /\ distanciaMejorDisparo' = Last(p)
  /\ UNCHANGED <<nombreMejorDisparo, shot, told>>

-----------------------------------------------------------------------------
(* mejorDisparo, called by the player after the shot *)

\* A hit, at one metre or less, ends the player's game.
Hit(p) ==
  /\ Step(p, "fired", "hit") /\ Last(p) <= 1
  /\ UNCHANGED <<nombreMejorDisparo, distanciaMejorDisparo, shot, told>>

AskName(p) ==
  /\ Step(p, "fired", "ask") /\ Last(p) > 1 /\ Cardinality(Running) < Workers
  /\ told' = [told EXCEPT ![p].nombre = nombreMejorDisparo]
  /\ UNCHANGED <<nombreMejorDisparo, distanciaMejorDisparo, shot>>

AskDistance(p) ==
  /\ Step(p, "ask", "idle")
  /\ told' = [told EXCEPT ![p].distancia = distanciaMejorDisparo]
  /\ UNCHANGED <<nombreMejorDisparo, distanciaMejorDisparo, shot>>

Next ==
  \E p \in Players :
    \/ Fire(p) \/ ReadName(p) \/ ReadDistance(p) \/ WriteName(p) \/ WriteDistance(p)
    \/ Hit(p) \/ AskName(p) \/ AskDistance(p)

Spec == Init /\ [][Next]_vars

-----------------------------------------------------------------------------
(* Properties *)

Reported(p) == pc[p] = "idle" /\ shot[p] # <<>>

TypeOK ==
  /\ nombreMejorDisparo \in Players \cup {Nadie}
  /\ distanciaMejorDisparo \in Distances \cup {0}
  /\ shot \in [Players -> UNION {[1 .. n -> Distances] : n \in 0 .. Shots}]
  /\ Cardinality(Running) <= Workers

\* Who asks for the best shot after its own is told a player who has fired,
\* however the calls interleave: the name is recorded before the call of the
\* first shot returns.
BestHasName ==
  \A p \in Players : Reported(p) => /\ told[p].nombre # Nadie
                                    /\ shot[told[p].nombre] # <<>>

\* The best shot a player is told of is no further from the target than the
\* player's own shots, as main.go prints it: "El mejor disparo hasta el
\* momento fue de %s con una distancia de %.2f metros."
BestIsBest ==
  \A p \in Players : Reported(p) =>
    \A k \in 1 .. Len(shot[p]) : told[p].distancia <= shot[p][k]

=============================================================================
