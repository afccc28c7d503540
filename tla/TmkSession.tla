---------------------------- MODULE TmkSession ----------------------------
(***************************************************************************)
(* The life of a TreadMarks program: process 0 starts the others, every    *)
(* pair of processes connects in both directions (Tmk/src/startup.c,       *)
(* open_udp.c), the program runs up to a last barrier, and Tmk_exit takes  *)
(* the processes down one after the other (Tmk/src/exit.c).                *)
(*                                                                         *)
(* A process follows its script; each step of it waits for one message.    *)
(* Datagrams are lost and repeated.                                        *)
(***************************************************************************)
EXTENDS Integers, Sequences

CONSTANTS
  NProcs,        \* Tmk_nprocs
  LastBarrier,   \* the number of the barrier before Tmk_exit
  ExitReliable   \* whether the one answer to an exit request arrives

ASSUME NProcsAssumption == NProcs \in Nat \ {0}
ASSUME BarrierAssumption == LastBarrier \in Nat

VARIABLES
  pos,        \* pos[p]: p's position in its script; 0 before it is started
  ports,      \* ports[p]: the processes j with Tmk_port_[j][p] known at p
  accepted,   \* accepted[p]: the processes p has accepted a connection from
  mask,       \* at the barrier's manager: the processes that have arrived
  over,       \* the barrier's manager has answered the arrivals
  exit_flag,  \* exit_flag[p]: p has seen the exit request
  net         \* datagrams on their way: <<kind, from, to>>

vars == <<pos, ports, accepted, mask, over, exit_flag, net>>

Procs == 0 .. NProcs - 1
Manager == LastBarrier % NProcs

\* n rounds of a loop that does ops with the processes from first on.
Rounds(ops, first, n) ==
  [k \in 1 .. Len(ops) * n |->
     <<ops[1 + ((k - 1) % Len(ops))], first + ((k - 1) \div Len(ops))>>]

\* The two loops at the end of Tmk_startup.
Startup(p) ==
  Rounds(<<"connect", "accept">>, 0, p)
    \o Rounds(IF p = 0 THEN <<"start", "accept", "connect">> ELSE <<"accept", "connect">>,
              p + 1, NProcs - 1 - p)

\* The program: a last barrier, after which process 0 reads what the last
\* process has written.  Then Tmk_exit: process 0 asks the others in turn.
Script(p) ==
  Startup(p) \o <<<<"barrier", Manager>>>> \o
    (IF p = 0 THEN <<<<"diff", NProcs - 1>>>> \o Rounds(<<"ask">>, 1, NProcs - 1)
              ELSE <<<<"exit", 0>>>>)

Step(p) == IF pos[p] \in 1 .. Len(Script(p)) THEN Script(p)[pos[p]] ELSE <<"none", 0>>
Gone(p) == pos[p] > Len(Script(p))
Advance(p) == pos' = [pos EXCEPT ![p] = @ + 1]

\* An answer to i of the given kind.  One i does not wait for any more is
\* thrown away where it arrives, by its sequence number.
Answer(kind, p, i) == IF Step(i) = <<kind, p>> THEN {<<"answer", p, i>>} ELSE {}

Init ==
  /\ pos = [p \in Procs |-> IF p = 0 THEN 1 ELSE 0]
  /\ ports = [p \in Procs |-> {}]
  /\ accepted = [p \in Procs |-> {}]
  /\ mask = {}
  /\ over = FALSE
  /\ exit_flag = [p \in Procs |-> FALSE]
  /\ net = {}

-----------------------------------------------------------------------------
(* Starting and connecting. *)

\* Process i learns on its command line where the processes below it listen,
\* as far as process 0 knows: its own ports, and those of the processes that
\* have connected to it.
start_process(i) ==
  /\ Step(0) = <<"start", i>>
  /\ pos' = [pos EXCEPT ![0] = @ + 1, ![i] = 1]
  /\ ports' = [ports EXCEPT ![i] = {0} \cup {j \in ports[0] : j < i}]
  /\ UNCHANGED <<accepted, mask, over, exit_flag, net>>

\* The request of the step p is at is sent, for the first time or because
\* the timer has fired.  Without the port it goes nowhere.
Rexmit(p) ==
  /\ Step(p)[1] \in {"connect", "diff", "ask"} \/ (Step(p)[1] = "barrier" /\ p # Manager)
  /\ Step(p)[1] = "connect" => Step(p)[2] \in ports[p]
  /\ LET m == <<Step(p)[1], p, Step(p)[2]>>
     IN m \notin net /\ net' = net \cup {m}
  /\ UNCHANGED <<pos, ports, accepted, mask, over, exit_flag>>

\* The first request on that socket, acknowledged once.
Tmk_accept(p) ==
  LET i == Step(p)[2]
  IN /\ Step(p)[1] = "accept"
     /\ <<"connect", i, p>> \in net
     /\ net' = (net \ {<<"connect", i, p>>}) \cup Answer("connect", p, i)
     /\ accepted' = [accepted EXCEPT ![p] = @ \cup {i}]
     /\ ports' = [ports EXCEPT ![p] = @ \cup {i}]
     /\ Advance(p)
     /\ UNCHANGED <<mask, over, exit_flag>>

\* What a request waits for before it returns.
Answered(p) == <<"answer", Step(p)[2], p>> \in net

\* Tmk_connect, the client's side of the barrier, the fault of process 0 and
\* its request to exit return when the answer has come.
Return(p) ==
  /\ Step(p)[1] \in {"connect", "diff", "ask"} \/ (Step(p)[1] = "barrier" /\ p # Manager)
  /\ Answered(p)
  /\ net' = net \ {<<"answer", Step(p)[2], p>>}
  /\ Advance(p)
  /\ UNCHANGED <<ports, accepted, mask, over, exit_flag>>

-----------------------------------------------------------------------------
(* sigio_handler at a process that has not left yet. *)

\* A connection request after Tmk_accept is a duplicate: Tmk_ack.
AckAgain(p, i) ==
  /\ <<"connect", i, p>> \in net
  /\ i \in accepted[p]
  /\ net' = (net \ {<<"connect", i, p>>}) \cup Answer("connect", p, i)
  /\ UNCHANGED <<mask, exit_flag>>

\* An arrival at the barrier, or its repetition once the barrier is over.
BarrierHandler(p, i) ==
  /\ <<"barrier", i, p>> \in net
  /\ mask' = mask \cup {i}
  /\ net' = (net \ {<<"barrier", i, p>>})
              \cup (IF over THEN Answer("barrier", p, i) ELSE {})
  /\ UNCHANGED exit_flag

DiffHandler(p, i) ==
  /\ <<"diff", i, p>> \in net
  /\ net' = (net \ {<<"diff", i, p>>}) \cup Answer("diff", p, i)
  /\ UNCHANGED <<mask, exit_flag>>

Tmk_exit_sigio_handler(p, i) ==
  /\ <<"ask", i, p>> \in net
  /\ net' = net \ {<<"ask", i, p>>}
  /\ exit_flag' = [exit_flag EXCEPT ![p] = TRUE]
  /\ UNCHANGED mask

Handle(p, i) ==
  /\ ~ Gone(p)
  /\ \/ AckAgain(p, i) \/ BarrierHandler(p, i)
     \/ DiffHandler(p, i) \/ Tmk_exit_sigio_handler(p, i)
  /\ UNCHANGED <<pos, ports, accepted, over>>

-----------------------------------------------------------------------------
(* The barrier, and the end. *)

BarrierManager ==
  /\ Step(Manager)[1] = "barrier"
  /\ mask = Procs \ {Manager}
  /\ over' = TRUE
  /\ net' = net \cup {<<"answer", Manager, i>> : i \in mask}
  /\ Advance(Manager)
  /\ UNCHANGED <<ports, accepted, mask, exit_flag>>

\* The loop in Tmk_exit of the others, left when the request is there.
\* Mutant: it is not waited for.
LeaveUnasked(p) == TRUE

Asked(p) == exit_flag[p]

\* The answer is sent once, and the process is gone.
Tmk_exit(p) ==
  /\ Step(p)[1] = "exit"
  /\ Asked(p)
  /\ net' = net \cup {<<"answer", p, 0>>}
  /\ Advance(p)
  /\ UNCHANGED <<ports, accepted, mask, over, exit_flag>>

Lose(m) ==
  /\ (m[1] = "answer" /\ m[3] = 0 /\ Gone(m[2])) => ~ ExitReliable
  /\ net' = net \ {m}
  /\ UNCHANGED <<pos, ports, accepted, mask, over, exit_flag>>

Next ==
  \/ \E p \in Procs : \/ start_process(p) \/ Rexmit(p) \/ Tmk_accept(p)
                      \/ Return(p) \/ Tmk_exit(p)
                      \/ \E i \in Procs : Handle(p, i)
  \/ BarrierManager
  \/ \E m \in net : Lose(m)

Spec == Init /\ [][Next]_vars

(* The timer keeps firing, and a datagram that is sent again and again is  *)
(* received in the end.                                                    *)
Fairness ==
  /\ WF_vars(BarrierManager)
  /\ \A p \in Procs :
       /\ WF_vars(start_process(p)) /\ WF_vars(Rexmit(p)) /\ WF_vars(Tmk_exit(p))
       /\ SF_vars(Tmk_accept(p) \/ Return(p))
       /\ \A i \in Procs \ {p} : SF_vars(Handle(p, i))

FairSpec == Spec /\ Fairness

-----------------------------------------------------------------------------
(* Properties *)

TypeOK ==
  /\ \A p \in Procs : pos[p] \in 0 .. Len(Script(p)) + 1
  /\ ports \in [Procs -> SUBSET Procs]
  /\ accepted \in [Procs -> SUBSET Procs]
  /\ mask \subseteq Procs
  /\ over \in BOOLEAN
  /\ exit_flag \in [Procs -> BOOLEAN]
  /\ net \subseteq {"connect", "barrier", "diff", "ask", "answer"} \X Procs \X Procs

\* A process is gone only when process 0 has left the program: until then it
\* serves the pages, diffs and locks process 0 may still ask it for.
ServesProcessZero ==
  \A p \in Procs \ {0} : Gone(p) => Step(0)[1] \in {"ask", "none"}

\* Every process starts, connects and ends, although any datagram but the
\* answers to exit requests may be lost.
SessionEnds == <> (\A p \in Procs : Gone(p))
=============================================================================
