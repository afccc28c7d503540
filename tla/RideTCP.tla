------------------------------ MODULE RideTCP ------------------------------
(***************************************************************************)
(* The ride service over TCP: the server of Practica01/servidorTCPUber.py  *)
(* and its clients, Practica01/clienteTCPUber.c.                           *)
(*                                                                         *)
(* The server accepts one connection at a time and stays with it until the *)
(* client closes it; the other connections wait in the order they came.  A *)
(* client asks for a ride on one connection and ends it on a second one,   *)
(* which it opens before the ride.                                         *)
(*                                                                         *)
(* A client may be killed at any moment.  If an answer it has not read     *)
(* lies in its socket, the kernel resets the connection; no line of the    *)
(* server catches the error that recv then raises, and the server ends.    *)
(* The clients that are left find their connection reset or refused, and   *)
(* end with an error.                                                      *)
(***************************************************************************)
EXTENDS Integers, Sequences, FiniteSets

CONSTANTS
  Clients,
  NUM_AUTOS,
  MayDie       \* the clients that may be killed

Autos == 0 .. NUM_AUTOS - 1
None == "none"

(* What a client reads, other than a car. *)
Nothing == -1
NoDriver == -2
Text == -3

VARIABLES
  autos_disponibles,   \* autos_disponibles[i]: car i is free
  viajes_realizados,   \* rides counted by the server
  backlog,             \* connections waiting for accept
  conn,                \* the client the server talks to, or None
  pc,                  \* pc[c]: what client c does
  sent,                \* sent[c]: what the server will read on c's connection
  got,                 \* got[c]: what c will read
  placas,              \* placas[c]: the global of that name
  rider,               \* rider[i]: the client car i was last given to, until its ride ends
  up                   \* the server runs

vars == <<autos_disponibles, viajes_realizados, backlog, conn, pc, sent, got, placas, rider, up>>

Init ==
  /\ autos_disponibles = [i \in Autos |-> TRUE]
  /\ viajes_realizados = 0
  /\ backlog = <<>>
  /\ conn = None
  /\ pc = [c \in Clients |-> "new"]
  /\ sent = [c \in Clients |-> None]
  /\ got = [c \in Clients |-> Nothing]
  /\ placas = [c \in Clients |-> 0]
  /\ rider = [i \in Autos |-> None]
  /\ up = TRUE

-----------------------------------------------------------------------------
(* The client. *)

Connect(c) ==
  /\ up /\ pc[c] = "new"
  /\ pc' = [pc EXCEPT ![c] = "menu"]
  /\ backlog' = Append(backlog, c)
  /\ UNCHANGED <<autos_disponibles, viajes_realizados, conn, sent, got, placas, rider, up>>

Send(c, from, to, what) ==
  /\ pc[c] = from
  /\ pc' = [pc EXCEPT ![c] = to]
  /\ sent' = [sent EXCEPT ![c] = what]
  /\ UNCHANGED <<autos_disponibles, viajes_realizados, backlog, conn, got, placas, rider, up>>

\* The menu: a ride, the state of the service, or leave.
Menu(c) ==
  \/ up /\ Send(c, "menu", "asked", "viaje")
  \/ up /\ Send(c, "menu", "asking_state", "estado")
  \/ Send(c, "menu", "gone", "eof")

\* The answer to the request for a ride.  Both ways the connection is
\* closed; with a car, the client connects again at once.
Answered(c) ==
  /\ pc[c] = "asked" /\ got[c] # Nothing
  /\ got' = [got EXCEPT ![c] = Nothing]
  /\ sent' = [sent EXCEPT ![c] = "eof"]
  /\ IF got[c] \in Autos
     THEN placas' = [placas EXCEPT ![c] = got[c]] /\ pc' = [pc EXCEPT ![c] = "reconnect"]
     ELSE UNCHANGED placas /\ pc' = [pc EXCEPT ![c] = "gone"]
  /\ UNCHANGED <<autos_disponibles, viajes_realizados, backlog, conn, rider, up>>

\* The second connection waits behind the ones that came before it.  (It may
\* be opened before the server has seen the first one closed: seeing that
\* changes nothing but conn, so the model lets the server see it first and
\* has one pair of lines per client.)
Reconnect(c) ==
  /\ up /\ pc[c] = "reconnect" /\ conn # c
  /\ pc' = [pc EXCEPT ![c] = "riding"]
  /\ backlog' = Append(backlog, c)
  /\ UNCHANGED <<autos_disponibles, viajes_realizados, conn, sent, got, placas, rider, up>>

EndRide(c) == up /\ Send(c, "riding", "ending", "viaje_terminado")

Leave(c) ==
  /\ pc[c] \in {"ending", "asking_state"} /\ got[c] # Nothing
  /\ pc' = [pc EXCEPT ![c] = "gone"]
  /\ got' = [got EXCEPT ![c] = Nothing]
  /\ sent' = [sent EXCEPT ![c] = "eof"]
  /\ UNCHANGED <<autos_disponibles, viajes_realizados, backlog, conn, placas, rider, up>>

\* Without the server, send and recv fail, and connect is refused.
Fail(c) ==
  /\ ~ up /\ pc[c] \in {"new", "menu", "asked", "reconnect", "riding", "ending", "asking_state"}
  /\ pc' = [pc EXCEPT ![c] = "failed"]
  /\ UNCHANGED <<autos_disponibles, viajes_realizados, backlog, conn, sent, got, placas, rider, up>>

\* How the connection of a killed client ends when there is an answer it has
\* not read: with a reset, or with the end of file if the client was gone
\* before the answer reached it.
Unread == {"reset", "eof"}

\* The client is killed: what it sent is still read, then the connection ends.
Die(c) ==
  /\ c \in MayDie /\ pc[c] \in {"menu", "asked", "reconnect", "riding", "ending", "asking_state"}
  /\ pc' = [pc EXCEPT ![c] = "dead"]
  /\ \E end \in IF got[c] # Nothing THEN Unread ELSE {"eof"} :
       sent' = [sent EXCEPT ![c] = IF @ = None THEN end ELSE @]
  /\ UNCHANGED <<autos_disponibles, viajes_realizados, backlog, conn, got, placas, rider, up>>

-----------------------------------------------------------------------------
(* The server. *)

Accept ==
  /\ up /\ conn = None /\ backlog # <<>>
  /\ conn' = Head(backlog)
  /\ backlog' = Tail(backlog)
  /\ UNCHANGED <<autos_disponibles, viajes_realizados, pc, sent, got, placas, rider, up>>

\* The first free car, or NoDriver.
\* Mutant: the first car, free or not.
FirstCar == 0

FreeCar ==
  LET free == {i \in Autos : autos_disponibles[i]}
  IN IF free = {} THEN NoDriver ELSE CHOOSE i \in free : \A j \in free : i <= j

\* The ride is counted when the car is given.
solicitar_viaje(c) ==
  IF FreeCar = NoDriver
  THEN UNCHANGED <<autos_disponibles, viajes_realizados, rider>>
  ELSE /\ autos_disponibles' = [autos_disponibles EXCEPT ![FreeCar] = FALSE]
       /\ viajes_realizados' = viajes_realizados + 1
       /\ rider' = [rider EXCEPT ![FreeCar] = c]

terminar_viaje(i) ==
  /\ autos_disponibles' = [autos_disponibles EXCEPT ![i] = TRUE]
  /\ rider' = [rider EXCEPT ![i] = None]
  /\ UNCHANGED viajes_realizados

\* One turn of the inner loop of iniciar_servidor with data.  The request of
\* a client that died after it had sent it is served all the same, and
\* nobody reads the answer.
Serve ==
  LET c == conn
  IN /\ c # None
     /\ \/ /\ sent[c] = "viaje" /\ solicitar_viaje(c)
           /\ got' = [got EXCEPT ![c] = FreeCar]
        \/ /\ sent[c] = "viaje_terminado" /\ terminar_viaje(placas[c])
           /\ got' = [got EXCEPT ![c] = Text]
        \/ /\ sent[c] = "estado"
           /\ got' = [got EXCEPT ![c] = Text]
           /\ UNCHANGED <<autos_disponibles, viajes_realizados, rider>>
     /\ \E end \in IF pc[c] = "dead" THEN Unread ELSE {None} : sent' = [sent EXCEPT ![c] = end]
     /\ UNCHANGED <<backlog, conn, pc, placas, up>>

\* When the server stops listening to a connection.
\* Mutant: never, as without the test of the empty string.
NeverEmpty(c) == FALSE

Empty(c) == sent[c] = "eof"

Disconnect ==
  /\ conn # None /\ Empty(conn)
  /\ conn' = None
  /\ sent' = [sent EXCEPT ![conn] = None]
  /\ UNCHANGED <<autos_disponibles, viajes_realizados, backlog, pc, got, placas, rider, up>>

\* recv raises ConnectionResetError; the with statements close the
\* connection and the listening socket, with all that waits in its backlog.
ConnectionReset ==
  /\ conn # None /\ sent[conn] = "reset"
  /\ up' = FALSE
  /\ conn' = None
  /\ backlog' = <<>>
  /\ sent' = [sent EXCEPT ![conn] = None]
  /\ UNCHANGED <<autos_disponibles, viajes_realizados, pc, got, placas, rider>>

Server == Accept \/ Serve \/ Disconnect \/ ConnectionReset

Client(c) ==
  Connect(c) \/ Menu(c) \/ Answered(c) \/ Reconnect(c) \/ EndRide(c) \/ Leave(c) \/ Fail(c)

Next == Server \/ \E c \in Clients : Client(c) \/ Die(c)

Spec == Init /\ [][Next]_vars

(* The server runs, and the users answer the menu.                         *)
FairSpec == Spec /\ WF_vars(Server) /\ \A c \in Clients : WF_vars(Client(c))

-----------------------------------------------------------------------------
(* Properties *)

TypeOK ==
  /\ autos_disponibles \in [Autos -> BOOLEAN]
  /\ viajes_realizados \in 0 .. Cardinality(Clients)
  /\ conn \in Clients \cup {None}
  /\ got \in [Clients -> Autos \cup {Nothing, NoDriver, Text}]
  /\ placas \in [Clients -> Autos]
  /\ rider \in [Autos -> Clients \cup {None}]
  /\ up \in BOOLEAN

\* The car a client rides in is its own and not free, from the answer to its
\* request until the server has read that the ride is over: no other client
\* is given it, and no other client's end of a ride gives it back.  And cars
\* are lost to the killed only: a car that is not free has a rider who has
\* been given it and has not ended the ride, or who was killed, or who has
\* seen the server end.
TcpRidesAlone ==
  /\ \A c \in Clients :
       pc[c] \in {"reconnect", "riding"} \/ (pc[c] = "ending" /\ sent[c] = "viaje_terminado") =>
         rider[placas[c]] = c /\ ~ autos_disponibles[placas[c]]
  /\ \A i \in Autos : ~ autos_disponibles[i] =>
       LET c == rider[i]
       IN /\ c # None
          /\ \/ pc[c] = "asked" /\ got[c] = i
             \/ pc[c] \in {"reconnect", "riding", "ending"} /\ placas[c] = i
             \/ pc[c] = "dead"
             \/ pc[c] = "failed" /\ ~ up

\* Every client that has connected is served in the end, although the server
\* talks to one client at a time and waits for it.  The one exception is the
\* server that recv has ended, after a client was killed with an answer
\* unread: even then no client is left waiting, it ends with an error.
EveryoneServed ==
  \A c \in Clients : pc[c] = "menu" ~>
    \/ pc[c] \in {"gone", "dead"}
    \/ pc[c] = "failed" /\ \E d \in MayDie : pc[d] = "dead"
=============================================================================
