----------------------------- MODULE RideRPC2 -----------------------------
(***************************************************************************)
(* The second ride service over ONC RPC: Practica02_2/UBER_Servidor.c and  *)
(* its passengers in UBER_Cliente.c.                                       *)
(*                                                                         *)
(* Unlike the first one it answers every call, takes the first free car,   *)
(* and counts a ride when it begins and its price when it ends.  The price *)
(* travels to the passenger and back.  Where cars are is left out: a car's *)
(* price is any of Tarifas.                                                *)
(***************************************************************************)
EXTENDS Integers, FiniteSets, FiniteSetsExt

CONSTANTS
  Passengers,
  NUM_AUTOS,
  Tarifas      \* the prices a ride may have

Autos == 1 .. NUM_AUTOS
Nobody == [car |-> 0, tarifa |-> 0]

VARIABLES
  isFirstTime,
  disponible,         \* disponible[i] = autos[i].disponible
  viajesRealizados,   \* rides begun
  ganancia_total,     \* prices of the rides ended
  calls,              \* calls sent and not served: <<caller, procedure>>
  reply,              \* reply[c]: the answer c will read, {} if there is none
  pc,                 \* pc[c]: what passenger c does
  trip,               \* trip[c]: the car c was given, and the price it was told
  taken               \* taken[i]: the passenger car i was given to, and the price

vars == <<isFirstTime, disponible, viajesRealizados, ganancia_total, calls, reply, pc, trip, taken>>

Init ==
  /\ isFirstTime = TRUE
  /\ disponible = [i \in Autos |-> FALSE]
  /\ viajesRealizados = 0
  /\ ganancia_total = 0
  /\ calls = {}
  /\ reply = [c \in Passengers |-> {}]
  /\ pc = [c \in Passengers |-> "new"]
  /\ trip = [c \in Passengers |-> Nobody]
  /\ taken = [i \in Autos |-> {}]

-----------------------------------------------------------------------------
(* clientePasajero *)

Call(c, from, proc) ==
  /\ pc[c] = from
  /\ pc' = [pc EXCEPT ![c] = proc]
  /\ calls' = calls \cup {<<c, proc>>}
  /\ UNCHANGED <<isFirstTime, disponible, viajesRealizados, ganancia_total, reply, trip, taken>>

AskForRide(c) == Call(c, "new", "SolicitarViaje")
EndRide(c) == Call(c, "riding", "TerminarViaje")

\* An answer without a car ends the program.
Answered(c) ==
  /\ \E r \in reply[c] :
       \/ /\ pc[c] = "SolicitarViaje"
          /\ trip' = [trip EXCEPT ![c] = r]
          /\ pc' = [pc EXCEPT ![c] = IF r = Nobody THEN "done" ELSE "riding"]
       \/ /\ pc[c] = "TerminarViaje"
          /\ pc' = [pc EXCEPT ![c] = "done"]
          /\ UNCHANGED trip
  /\ reply' = [reply EXCEPT ![c] = {}]
  /\ UNCHANGED <<isFirstTime, disponible, viajesRealizados, ganancia_total, calls, taken>>

\* The stub gives up: the passenger exits, whatever the server does later.
GiveUp(c) ==
  /\ pc[c] \in {"SolicitarViaje", "TerminarViaje"} /\ reply[c] = {}
  /\ pc' = [pc EXCEPT ![c] = "gone"]
  /\ UNCHANGED <<isFirstTime, disponible, viajesRealizados, ganancia_total, calls, reply, trip, taken>>

-----------------------------------------------------------------------------
(* The server. *)

\* The cars when a ride is asked for.
Initialised == IF isFirstTime THEN [i \in Autos |-> TRUE] ELSE disponible

Answer(c, proc, r) == IF pc[c] = proc THEN [reply EXCEPT ![c] = {r}] ELSE reply

\* The search stops at the first free car.
solicitarviaje_1_svc(c) ==
  LET free == {i \in Autos : Initialised[i]}
  IN /\ <<c, "SolicitarViaje">> \in calls
     /\ calls' = calls \ {<<c, "SolicitarViaje">>}
     /\ isFirstTime' = FALSE
     /\ IF free = {}
        THEN /\ reply' = Answer(c, "SolicitarViaje", Nobody)
             /\ UNCHANGED <<disponible, viajesRealizados, taken>>
        ELSE \E t \in Tarifas :
               /\ disponible' = [Initialised EXCEPT ![Min(free)] = FALSE]
               /\ viajesRealizados' = viajesRealizados + 1
               /\ reply' = Answer(c, "SolicitarViaje", [car |-> Min(free), tarifa |-> t])
               /\ taken' = [taken EXCEPT ![Min(free)] = @ \cup {<<c, t>>}]
     /\ UNCHANGED <<ganancia_total, pc, trip>>

\* What the end of c's ride brings in: the price the passenger sends back.
\* Mutant: nothing.
Free(c) == 0

costoViaje(c) == trip[c].tarifa

terminarviaje_1_svc(c) ==
  /\ <<c, "TerminarViaje">> \in calls
  /\ calls' = calls \ {<<c, "TerminarViaje">>}
  /\ disponible' = [disponible EXCEPT ![trip[c].car] = TRUE]
  /\ ganancia_total' = ganancia_total + costoViaje(c)
  /\ taken' = [taken EXCEPT ![trip[c].car] = {r \in @ : r[1] # c}]
  /\ reply' = Answer(c, "TerminarViaje", Nobody)
  /\ UNCHANGED <<isFirstTime, viajesRealizados, pc, trip>>

Next ==
  \E c \in Passengers :
    \/ AskForRide(c) \/ EndRide(c) \/ Answered(c) \/ GiveUp(c)
    \/ solicitarviaje_1_svc(c) \/ terminarviaje_1_svc(c)

Spec == Init /\ [][Next]_vars

-----------------------------------------------------------------------------
(* Properties *)

Ended == {c \in Passengers : trip[c] # Nobody /\ \A i \in Autos : \A r \in taken[i] : r[1] # c}

TypeOK ==
  /\ disponible \in [Autos -> BOOLEAN]
  /\ viajesRealizados \in 0 .. Cardinality(Passengers)
  /\ ganancia_total \in Nat
  /\ trip \in [Passengers -> {Nobody} \cup [car : Autos, tarifa : Tarifas]]
  /\ pc \in [Passengers -> {"new", "SolicitarViaje", "riding", "TerminarViaje", "done", "gone"}]

\* The administrator's figures agree: the rides begun are those ended and
\* those the busy cars are on, and the earnings are the prices that the
\* passengers of the rides that have ended were told.  (estadoservicio_1_svc
\* only reads them; before the first request it counts no car as free.)
FiguresAgree ==
  /\ ~ isFirstTime => viajesRealizados = Cardinality(Ended)
                        + Cardinality({i \in Autos : ~ disponible[i]})
  /\ ganancia_total = MapThenSumSet(LAMBDA c : trip[c].tarifa, Ended)
=============================================================================
