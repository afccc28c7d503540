------------------------------ MODULE RideRPC ------------------------------
(***************************************************************************)
(* The ride service over ONC RPC: Practica02/estructura_server.c, its      *)
(* passengers and administrator in estructura_client.c, and the dispatcher *)
(* and stubs rpcgen made (estructura_svc.c, estructura_clnt.c).            *)
(*                                                                         *)
(* The server executes one call after the other.  A call that returns NULL *)
(* is not answered; a caller gives up after TIMEOUT, which may also happen *)
(* before a late answer comes.  Where cars and passengers are, and what a  *)
(* ride costs, is left out: any free car may be the nearest.               *)
(***************************************************************************)
EXTENDS Integers, FiniteSets

CONSTANTS
  Passengers,
  N,            \* the number of cars
  Placa         \* Placa[i]: the plate of car i, drawn at random

Cars == 1 .. N
None == "none"

VARIABLES
  vehiculos_inicializados,
  disponible,     \* disponible[i], FALSE before the cars are initialised
  viajes,         \* rides ended
  calls,          \* calls sent and not served: <<caller, procedure>>
  reply,          \* reply[c]: the car in the answer c will read; 0 if there is none
  pc,             \* pc[c]: what passenger c does
  car,            \* car[c]: the car whose plate c was told
  rider           \* rider[i]: the passenger car i was given to, until a ride of it ends

vars == <<vehiculos_inicializados, disponible, viajes, calls, reply, pc, car, rider>>

Init ==
  /\ vehiculos_inicializados = FALSE
  /\ disponible = [i \in Cars |-> FALSE]
  /\ viajes = 0
  /\ calls = {}
  /\ reply = [c \in Passengers |-> 0]
  /\ pc = [c \in Passengers |-> "new"]
  /\ car = [c \in Passengers |-> 0]
  /\ rider = [i \in Cars |-> None]

-----------------------------------------------------------------------------
(* The passenger. *)

Call(c, from, proc) ==
  /\ pc[c] = from
  /\ pc' = [pc EXCEPT ![c] = proc]
  /\ calls' = calls \cup {<<c, proc>>}
  /\ UNCHANGED <<vehiculos_inicializados, disponible, viajes, reply, car, rider>>

AskForRide(c) == Call(c, "new", "solicitarViaje")

Riding(c) ==
  /\ pc[c] = "solicitarViaje" /\ reply[c] # 0
  /\ pc' = [pc EXCEPT ![c] = "riding"]
  /\ car' = [car EXCEPT ![c] = reply[c]]
  /\ reply' = [reply EXCEPT ![c] = 0]
  /\ UNCHANGED <<vehiculos_inicializados, disponible, viajes, calls, rider>>

EndRide(c) == Call(c, "riding", "terminarViaje")

RideOver(c) ==
  /\ pc[c] = "terminarViaje" /\ reply[c] # 0
  /\ pc' = [pc EXCEPT ![c] = "done"]
  /\ reply' = [reply EXCEPT ![c] = 0]
  /\ UNCHANGED <<vehiculos_inicializados, disponible, viajes, calls, car, rider>>

\* The stub returns NULL.  After the request for a ride the passenger says
\* so, and goes on to read the plate of the car it has not got.
\* Mutant: the call waits for ever.
WaitForEver(c) == FALSE

TimedOut(c) == pc[c] \in {"solicitarViaje", "terminarViaje"} /\ reply[c] = 0

GiveUp(c) ==
  /\ TimedOut(c)
  /\ pc' = [pc EXCEPT ![c] = IF @ = "solicitarViaje" THEN "crashed" ELSE "done"]
  /\ UNCHANGED <<vehiculos_inicializados, disponible, viajes, calls, reply, car, rider>>

-----------------------------------------------------------------------------
(* The server. *)

Initialised == IF vehiculos_inicializados THEN disponible ELSE [i \in Cars |-> TRUE]

\* The cars as the administrator's call leaves them.
SeenByAdministrator == Initialised

\* Whether the dispatcher's answer still finds its caller.
Answer(c, proc, i) == IF pc[c] = proc THEN [reply EXCEPT ![c] = i] ELSE reply

\* Without a free car the result is NULL and the caller is not answered.
solicitarviaje_1_svc(c) ==
  /\ <<c, "solicitarViaje">> \in calls
  /\ calls' = calls \ {<<c, "solicitarViaje">>}
  /\ vehiculos_inicializados' = TRUE
  /\ LET free == {i \in Cars : Initialised[i]}
     IN \/ /\ free = {}
           /\ UNCHANGED <<disponible, rider, reply>>
        \/ \E i \in free :
             /\ disponible' = [Initialised EXCEPT ![i] = FALSE]
             /\ rider' = [rider EXCEPT ![i] = c]
             /\ reply' = Answer(c, "solicitarViaje", i)
  /\ UNCHANGED <<viajes, pc, car>>

\* The car a ride ends in: the first with that plate.
\* Mutant: the first one on a ride.
FirstBusy(plate) ==
  CHOOSE i \in Cars : ~ disponible[i] /\ \A j \in Cars : ~ disponible[j] => i <= j

WithPlate(plate) ==
  CHOOSE i \in Cars : Placa[i] = plate /\ \A j \in Cars : Placa[j] = plate => i <= j

terminarviaje_1_svc(c) ==
  LET i == WithPlate(Placa[car[c]])
  IN /\ <<c, "terminarViaje">> \in calls
     /\ calls' = calls \ {<<c, "terminarViaje">>}
     /\ disponible' = [disponible EXCEPT ![i] = TRUE]
     /\ rider' = [rider EXCEPT ![i] = None]
     /\ viajes' = viajes + 1
     /\ reply' = Answer(c, "terminarViaje", i)
     /\ UNCHANGED <<vehiculos_inicializados, pc, car>>

\* The administrator asks every two seconds.
estadoservicio_1_svc ==
  /\ disponible' = SeenByAdministrator
  /\ vehiculos_inicializados' = TRUE
  /\ UNCHANGED <<viajes, calls, reply, pc, car, rider>>

Passenger(c) == AskForRide(c) \/ Riding(c) \/ EndRide(c) \/ RideOver(c)

Next ==
  \/ \E c \in Passengers : \/ Passenger(c) \/ GiveUp(c)
                           \/ solicitarviaje_1_svc(c) \/ terminarviaje_1_svc(c)
  \/ estadoservicio_1_svc

Spec == Init /\ [][Next]_vars

Fairness ==
  \A c \in Passengers :
    /\ WF_vars(Passenger(c)) /\ WF_vars(GiveUp(c))
    /\ WF_vars(solicitarviaje_1_svc(c)) /\ WF_vars(terminarviaje_1_svc(c))

FairSpec == Spec /\ Fairness

-----------------------------------------------------------------------------
(* Properties *)

TypeOK ==
  /\ disponible \in [Cars -> BOOLEAN]
  /\ viajes \in 0 .. Cardinality(Passengers)
  /\ reply \in [Passengers -> Cars \cup {0}]
  /\ car \in [Passengers -> Cars \cup {0}]
  /\ pc \in [Passengers -> {"new", "solicitarViaje", "riding", "terminarViaje", "done", "crashed"}]

\* A car that stays busy without a passenger who can end the ride was given
\* to one who had stopped waiting for the answer.
BusyHasReason ==
  vehiculos_inicializados => \A i \in Cars :
    ~ disponible[i] =>
      \/ rider[i] # None /\ pc[rider[i]] = "crashed"
      \/ rider[i] # None /\ pc[rider[i]] = "solicitarViaje" /\ reply[rider[i]] = i
      \/ rider[i] # None /\ car[rider[i]] = i
                         /\ \/ pc[rider[i]] = "riding"
                            \/ <<rider[i], "terminarViaje">> \in calls

\* A call comes back, with an answer or without: when there is no free car
\* the server says nothing, and only the timeout ends the wait.
CallReturns ==
  \A c \in Passengers : pc[c] = "solicitarViaje" ~> pc[c] \in {"crashed", "done"}
=============================================================================
