----------------------------- MODULE MCWaitsEnd -----------------------------
(* Barriers, with lost datagrams or with a collection, and the programs     *)
(* that end, for TLC, one per scenario: does every wait come to an end?     *)
(* gauss.c, with the constants of the .cfg file, is checked for what its    *)
(* barriers are worth.  The variables of the other scenarios keep their     *)
(* initial values.                                                          *)
EXTENDS GaussTmk, Sequences

VARIABLE scenario

VARIABLES barrier_pc, episode, mask, req_from_, rep, req_seqno, rep_seqno_,
          barrier_sent, repo_mask, proc_vector_time_, inverse_time_, dirty,
          reqs, reps, arrivedAt, left, gap
VARIABLES A, TaskStack, NumWaiting, lock, flag, telling, qs_pc, range, part
VARIABLES pipe_pc, holder, X, printed
VARIABLES autos_disponibles, viajes_realizados, backlog, conn, tcp_pc,
          tcp_sent, got, placas, tcp_rider, up
VARIABLES vehiculos_inicializados, disponible, viajes, calls, reply, rpc_pc,
          car, rpc_rider

barrier == <<barrier_pc, episode, mask, req_from_, rep, req_seqno,
             rep_seqno_, barrier_sent, repo_mask, proc_vector_time_,
             inverse_time_, dirty, reqs, reps, arrivedAt, left, gap>>
qs == <<A, TaskStack, NumWaiting, lock, flag, telling, qs_pc, range, part>>
pipe == <<pipe_pc, holder, X, printed>>
tcp == <<autos_disponibles, viajes_realizados, backlog, conn, tcp_pc,
         tcp_sent, got, placas, tcp_rider, up>>
rpc == <<vehiculos_inicializados, disponible, viajes, calls, reply, rpc_pc,
         car, rpc_rider>>

Lossy == INSTANCE TmkBarrier WITH
  NProcs <- 3, NBarriers <- 1, RepoEpisodes <- {}, Reliable <- FALSE, MaxEpisodes <- 2,
  MaxIntervals <- 0, pc <- barrier_pc, sent <- barrier_sent

Repo == INSTANCE TmkBarrier WITH
  NProcs <- 3, NBarriers <- 2, RepoEpisodes <- {1}, Reliable <- TRUE, MaxEpisodes <- 2,
  MaxIntervals <- 1, pc <- barrier_pc, sent <- barrier_sent

Qs == INSTANCE QsTmk WITH
  NProcs <- 2, size <- 3, BubbleThresh <- 2, MAX_TASK_QUEUE <- 4, pc <- qs_pc

Pipe == INSTANCE PipeTmk WITH
  NProcs <- 4, N <- 4, pc <- pipe_pc

Tcp == INSTANCE RideTCP WITH
  Clients <- {"c1", "c2"}, NUM_AUTOS <- 1, MayDie <- {"c1"}, pc <- tcp_pc,
  sent <- tcp_sent, rider <- tcp_rider

Rpc == INSTANCE RideRPC WITH
  Passengers <- {"c1", "c2"}, N <- 1, Placa <- <<"placa1">>, pc <- rpc_pc,
  rider <- rpc_rider

allVars == <<scenario, vars, barrier, qs, pipe, tcp, rpc>>

WaitsInit ==
  /\ scenario \in {"lossy", "repo", "gauss", "qs", "pipe", "ride_tcp", "ride_rpc"}
  /\ Init
  /\ IF scenario = "lossy" THEN Lossy!Init ELSE Repo!Init
  /\ Qs!Init
  /\ (scenario = "qs" \/ \A x \in DOMAIN A : A[x] = x)
  /\ Pipe!Init
  /\ Tcp!Init
  /\ Rpc!Init

WaitsNext ==
  /\ UNCHANGED scenario
  /\ \/ scenario = "lossy" /\ Lossy!Next
        /\ UNCHANGED <<vars, qs, pipe, tcp, rpc>>
     \/ scenario = "repo" /\ Repo!Next
        /\ UNCHANGED <<vars, qs, pipe, tcp, rpc>>
     \/ scenario = "gauss" /\ Next
        /\ UNCHANGED <<barrier, qs, pipe, tcp, rpc>>
     \/ scenario = "qs" /\ Qs!Next
        /\ UNCHANGED <<vars, barrier, pipe, tcp, rpc>>
     \/ scenario = "pipe" /\ Pipe!Next
        /\ UNCHANGED <<vars, barrier, qs, tcp, rpc>>
     \/ scenario = "ride_tcp" /\ Tcp!Next
        /\ UNCHANGED <<vars, barrier, qs, pipe, rpc>>
     \/ scenario = "ride_rpc" /\ Rpc!Next
        /\ UNCHANGED <<vars, barrier, qs, pipe, tcp>>

-----------------------------------------------------------------------------
BarrierStep(s, Act) == scenario = s /\ Act /\ UNCHANGED <<scenario, vars, qs, pipe, tcp, rpc>>
QsStep(Act) == scenario = "qs" /\ Act /\ UNCHANGED <<scenario, vars, barrier, pipe, tcp, rpc>>
PipeStep(Act) == scenario = "pipe" /\ Act /\ UNCHANGED <<scenario, vars, barrier, qs, tcp, rpc>>
TcpStep(Act) == scenario = "ride_tcp" /\ Act /\ UNCHANGED <<scenario, vars, barrier, qs, pipe, rpc>>
RpcStep(Act) == scenario = "ride_rpc" /\ Act /\ UNCHANGED <<scenario, vars, barrier, qs, pipe, tcp>>

(* The fairness of the five modules.  The scenario never changes, so        *)
(* fairness of a disjunction over the scenarios is fairness of the disjunct *)
(* of each.  User(p) is the client or passenger that takes turn p.          *)
User(p) == <<"c1", "c2">>[p + 1]

Runs(p) ==
  \/ BarrierStep("lossy", Lossy!Arrive(p))
  \/ BarrierStep("repo", Repo!Arrive(p))
  \/ QsStep(p \in Qs!Procs /\ Qs!Unlocked(p))
  \/ PipeStep(p = 0 /\ Pipe!Next)
  \/ TcpStep(p \in 0 .. 1 /\ Tcp!Client(User(p)))
  \/ TcpStep(p = 2 /\ Tcp!Server)
  \/ RpcStep(p \in 0 .. 1 /\ Rpc!Passenger(User(p)))

Retransmits(p) ==
  \/ BarrierStep("lossy", Lossy!Rexmit(p))
  \/ BarrierStep("repo", Repo!Rexmit(p))
  \/ RpcStep(p \in 0 .. 1 /\ Rpc!GiveUp(User(p)))

Releases(p) ==
  \/ BarrierStep("lossy", Lossy!ReleaseManager(p))
  \/ BarrierStep("repo", Repo!ReleaseManager(p))
  \/ RpcStep(p \in 0 .. 1 /\ Rpc!solicitarviaje_1_svc(User(p)))

Returns(p) ==
  \/ BarrierStep("lossy", Lossy!ReturnClient(p))
  \/ BarrierStep("repo", Repo!ReturnClient(p))
  \/ RpcStep(p \in 0 .. 1 /\ Rpc!terminarviaje_1_svc(User(p)))

Collects == BarrierStep("repo", Repo!RepoBarrierCollect)

IsAnswered(p) ==
  \/ BarrierStep("lossy", \E m \in reps : m.seqno = req_seqno[p] /\ Lossy!ReceiveReply(p, m))
  \/ BarrierStep("repo", \E m \in reps :
       m.seqno = req_seqno[p] /\ (Repo!ReceiveReply(p, m) \/ Repo!RepoBarrierReturn(p, m)))
  \/ QsStep(p \in Qs!Procs /\ Qs!Locked(p))

IsHandled(p) ==
  \/ BarrierStep("lossy", \E m \in reqs :
       /\ m.from = p /\ m.seqno = req_seqno[p] /\ Lossy!Handle(m) /\ m \notin reqs')
  \/ BarrierStep("repo", \E m \in reqs :
       /\ m.from = p /\ m.seqno = req_seqno[p] /\ Repo!Handle(m) /\ m \notin reqs')

LiveSpec ==
  /\ WaitsInit /\ [][WaitsNext]_allVars
  /\ WF_allVars(Collects)
  /\ \A p \in 0 .. 2 :
       /\ WF_allVars(Runs(p)) /\ WF_allVars(Retransmits(p))
       /\ WF_allVars(Releases(p)) /\ WF_allVars(Returns(p))
       /\ SF_allVars(IsAnswered(p)) /\ SF_allVars(IsHandled(p))

-----------------------------------------------------------------------------
(* Every process that enters a barrier comes out of it, collection          *)
(* included.                                                                *)
BarrierReturns == Lossy!BarrierReturns

(* The sort ends in every process, although the test of the pause flag and  *)
(* the sigpause are not one step: the timer's SIGALRM ends the pause.       *)
EveryoneDone == scenario = "qs" => Qs!EveryoneDone

(* pipetmk.c ends with the number of processes it is written for.           *)
PipeEnds == scenario = "pipe" => Pipe!PipeEnds

(* Every client of the TCP ride service is served in the end, or ends with  *)
(* an error because a killed client has taken the server along.             *)
EveryoneServed == scenario = "ride_tcp" => Tcp!EveryoneServed

(* Every call of the RPC ride service comes back, with an answer or not.    *)
CallReturns == scenario = "ride_rpc" => Rpc!CallReturns
=============================================================================
