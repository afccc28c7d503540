----------------------------- MODULE MCPrograms -----------------------------
(* The rest of the runtime and the programs that are safety-checked, for    *)
(* TLC, one per scenario: fork and join with the constants of the .cfg      *)
(* file, condition variables, start-up and exit, the shared heap, the ride  *)
(* services, the cannon game, and the applications.  The variables of the   *)
(* other scenarios keep their initial values; most properties say for which *)
(* scenario they are evaluated, only to spare TLC the others.               *)
EXTENDS TmkSched, TspGraphs

VARIABLE scenario

VARIABLES manager, cond_pc, queue, held, dirty, time, tokens, produced,
          cond_taken, writes, owes, cond_net, handled, waitq,
          signal_vector_time_
VARIABLES pos, ports, accepted, session_mask, over, exit_flag, session_net
VARIABLES table, alloc_holder, call, untold, heap, chunks, areas, ops
VARIABLES autos_disponibles, viajes_realizados, backlog, conn, tcp_pc, sent,
          got, placas, tcp_rider, up
VARIABLES vehiculos_inicializados, rpc_disponible, viajes, rpc_calls,
          rpc_reply, rpc_pc, car, rpc_rider
VARIABLES isFirstTime, uber_disponible, viajesRealizados, ganancia_total,
          uber_calls, uber_reply, uber_pc, trip, uber_taken
VARIABLES nombreMejorDisparo, distanciaMejorDisparo, cannon_pc, shot, told
VARIABLES suma_pc, entered, view, turn, base, printed, suma_holder, sum,
          tmp, result
VARIABLES A, TaskStack, NumWaiting, lock, flag, telling, qs_pc, range, part
VARIABLES weights, Tours, TourStack, PrioQ, Done, MinTourLen, MinTour,
          lengths, seen, released, tsp_pc, curr, Path, stuck

cond == <<manager, cond_pc, queue, held, dirty, time, tokens, produced,
          cond_taken, writes, owes, cond_net, handled, waitq,
          signal_vector_time_>>
session == <<pos, ports, accepted, session_mask, over, exit_flag,
             session_net>>
alloc == <<table, alloc_holder, call, untold, heap, chunks, areas,
           ops>>
tcp == <<autos_disponibles, viajes_realizados, backlog, conn, tcp_pc, sent,
         got, placas, tcp_rider, up>>
rpc == <<vehiculos_inicializados, rpc_disponible, viajes, rpc_calls,
         rpc_reply, rpc_pc, car, rpc_rider>>
uber == <<isFirstTime, uber_disponible, viajesRealizados, ganancia_total,
          uber_calls, uber_reply, uber_pc, trip, uber_taken>>
cannon == <<nombreMejorDisparo, distanciaMejorDisparo, cannon_pc, shot,
            told>>
suma == <<suma_pc, entered, view, turn, base, printed, suma_holder, sum,
          tmp, result>>
qs == <<A, TaskStack, NumWaiting, lock, flag, telling, qs_pc, range, part>>
tsp == <<weights, Tours, TourStack, PrioQ, Done, MinTourLen, MinTour,
         lengths, seen, released, tsp_pc, curr, Path, stuck>>

Cond == INSTANCE TmkCond WITH
  NProcs <- 3, Consumers <- {0, 1}, Takes <- 1, MaxWrites <- 1, pc <- cond_pc,
  taken <- cond_taken, net <- cond_net

Session == INSTANCE TmkSession WITH
  NProcs <- 3, LastBarrier <- 0, ExitReliable <- TRUE, mask <- session_mask,
  net <- session_net

Heap == INSTANCE TmkHeap WITH
  NProcs <- 2, NPages <- 6, MallocSizes <- {28, 40, 100, 140, 4096, 8192},
  SbrkSizes <- {12, 24320}, MaxOps <- 5, holder <- alloc_holder

Tcp == INSTANCE RideTCP WITH
  Clients <- {"c1", "c2", "c3"}, NUM_AUTOS <- 2, MayDie <- {"c1"}, pc <- tcp_pc,
  rider <- tcp_rider

Rpc == INSTANCE RideRPC WITH
  Passengers <- {"c1", "c2", "c3"}, N <- 2, Placa <- <<"placa1", "placa2">>,
  disponible <- rpc_disponible, calls <- rpc_calls, reply <- rpc_reply, pc <- rpc_pc,
  rider <- rpc_rider

Uber == INSTANCE RideRPC2 WITH
  Passengers <- {"c1", "c2", "c3"}, NUM_AUTOS <- 2, Tarifas <- {10, 25},
  disponible <- uber_disponible, calls <- uber_calls, reply <- uber_reply,
  pc <- uber_pc, taken <- uber_taken

Game == INSTANCE Cannon WITH
  Players <- {"p1", "p2"}, Distances <- {1, 2, 3}, Workers <- 2, Shots <- 2,
  pc <- cannon_pc

Suma == INSTANCE SumaTmk WITH
  NProcs <- 3, DIM <- 5, pc <- suma_pc, holder <- suma_holder

Qs == INSTANCE QsTmk WITH
  NProcs <- 3, size <- 4, BubbleThresh <- 2, MAX_TASK_QUEUE <- 3, pc <- qs_pc

Tsp == INSTANCE TspTmk WITH
  Workers <- {0, 1}, TspSize <- 5, NodesFromEnd <- 2, Graphs <- FiveCities,
  MAX_NUM_TOURS <- 30, BIGINT <- 2000000, pc <- tsp_pc

allVars == <<scenario, vars, cond, session, alloc, tcp, rpc, uber, cannon,
             suma, qs, tsp>>

ProgramsInit ==
  /\ scenario \in {"sched", "cond", "session", "heap", "ride_tcp",
                   "ride_rpc", "ride_rpc2", "cannon", "suma", "qs",
                   "tsp"}
  /\ Init
  /\ Cond!Init
  /\ (scenario = "cond" \/ manager = 0)
  /\ Session!Init
  /\ Heap!Init
  /\ Tcp!Init
  /\ Rpc!Init
  /\ Uber!Init
  /\ Game!Init
  /\ Suma!Init
  /\ Qs!Init
  /\ (scenario = "qs" \/ \A x \in DOMAIN A : A[x] = x)
  /\ Tsp!Init
  /\ (scenario = "tsp" \/ weights = NearCities)

ProgramsNext ==
  /\ UNCHANGED scenario
  /\ \/ scenario = "sched" /\ Next
        /\ UNCHANGED <<cond, session, alloc, tcp, rpc, uber, cannon, suma,
                       qs, tsp>>
     \/ scenario = "cond" /\ Cond!Next
        /\ UNCHANGED <<vars, session, alloc, tcp, rpc, uber, cannon, suma,
                       qs, tsp>>
     \/ scenario = "session" /\ Session!Next
        /\ UNCHANGED <<vars, cond, alloc, tcp, rpc, uber, cannon, suma,
                       qs, tsp>>
     \/ scenario = "heap" /\ Heap!Next
        /\ UNCHANGED <<vars, cond, session, tcp, rpc, uber, cannon, suma,
                       qs, tsp>>
     \/ scenario = "ride_tcp" /\ Tcp!Next
        /\ UNCHANGED <<vars, cond, session, alloc, rpc, uber, cannon, suma,
                       qs, tsp>>
     \/ scenario = "ride_rpc" /\ Rpc!Next
        /\ UNCHANGED <<vars, cond, session, alloc, tcp, uber, cannon, suma,
                       qs, tsp>>
     \/ scenario = "ride_rpc2" /\ Uber!Next
        /\ UNCHANGED <<vars, cond, session, alloc, tcp, rpc, cannon, suma,
                       qs, tsp>>
     \/ scenario = "cannon" /\ Game!Next
        /\ UNCHANGED <<vars, cond, session, alloc, tcp, rpc, uber, suma,
                       qs, tsp>>
     \/ scenario = "suma" /\ Suma!Next
        /\ UNCHANGED <<vars, cond, session, alloc, tcp, rpc, uber, cannon,
                       qs, tsp>>
     \/ scenario = "qs" /\ Qs!Next
        /\ UNCHANGED <<vars, cond, session, alloc, tcp, rpc, uber, cannon,
                       suma, tsp>>
     \/ scenario = "tsp" /\ Tsp!Next
        /\ UNCHANGED <<vars, cond, session, alloc, tcp, rpc, uber, cannon,
                       suma, qs>>

ProgramsSpec == ProgramsInit /\ [][ProgramsNext]_allVars

-----------------------------------------------------------------------------
(* Every variable of the running program stays within its type: among them, *)
(* the task stack of QS.C within its array.                                 *)
AllTypesOK ==
  /\ scenario = "sched" => TypeOK
  /\ scenario = "cond" => Cond!TypeOK
  /\ scenario = "session" => Session!TypeOK
  /\ scenario = "heap" => Heap!TypeOK
  /\ scenario = "ride_tcp" => Tcp!TypeOK
  /\ scenario = "ride_rpc" => Rpc!TypeOK
  /\ scenario = "ride_rpc2" => Uber!TypeOK
  /\ scenario = "cannon" => Game!TypeOK
  /\ scenario = "qs" => Qs!TypeOK

(* Tmk_lock_cond_wait loses no wake-up, whichever of the wait request and   *)
(* the signal reaches the manager first.                                    *)
NoLostWakeup == scenario = "cond" => Cond!NoLostWakeup

(* No byte of shared memory is handed out twice by Tmk_malloc and Tmk_sbrk, *)
(* and every chunk is double-word aligned, whatever is freed and split.     *)
HeapSound == scenario = "heap" => Heap!HeapSound

(* The car a client of servidorTCPUber.py rides in is given to no other     *)
(* client before the ride is over, and only the killed keep their cars.     *)
TcpRidesAlone == scenario = "ride_tcp" => Tcp!TcpRidesAlone

(* A car of estructura_server.c that stays busy was given to a passenger    *)
(* who had stopped waiting.                                                 *)
BusyHasReason == scenario = "ride_rpc" => Rpc!BusyHasReason

(* The figures UBER_Servidor.c shows the administrator agree with the rides *)
(* of the passengers.                                                       *)
FiguresAgree == scenario = "ride_rpc2" => Uber!FiguresAgree

(* Who asks practica3Server.py for the best shot after its own is told a    *)
(* player who has fired.                                                    *)
BestHasName == scenario = "cannon" => Game!BestHasName

(* suma_tmk.c prints the elements in the order of the array, and all of     *)
(* them.                                                                    *)
NaturalOrder == scenario = "suma" => Suma!NaturalOrder

(* When a process of QS.C is told DONE, the array is sorted and no process  *)
(* partitions or pushes any more.                                           *)
DoneMeansSorted == scenario = "qs" => Qs!DoneMeansSorted

(* On maps of five cities the tour printed after the last barrier is a      *)
(* shortest one.                                                            *)
MinimumTour == scenario = "tsp" => Tsp!MinimumTour
=============================================================================
