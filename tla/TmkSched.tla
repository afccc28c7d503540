----------------------------- MODULE TmkSched -----------------------------
(***************************************************************************)
(* Fork and join between a master and its slaves (Tmk/src/sched.c).        *)
(*                                                                         *)
(* The master, process 0, joins and forks in turn; a slave sends its join  *)
(* request again until the reply with the function to run has come.  The   *)
(* master keeps one request per slave in a buffer of sigio_handler         *)
(* (Tmk/src/sigio.c) until it forks.  Datagrams are lost and repeated.     *)
(* Tmk_repo, the collection of garbage, is seen from above: a process that *)
(* enters it leaves when every process has entered it.  Every process      *)
(* writes between any two of its steps, so that each interval is closed.   *)
(***************************************************************************)
EXTENDS Integers, Sequences, FiniteSets

CONSTANTS
  NProcs,     \* Tmk_nprocs
  Forks,      \* the forks of the master, the last one being Tmk_sched_exit
  Pressure    \* the joins at which a process may find its memory full

Procs == 0 .. NProcs - 1
Slaves == Procs \ {0}

VARIABLES
  mpc,          \* what the master does: "run", "joining", "joined", "forking", "repo", "done"
  spc,          \* spc[s]: what slave s does: "run", "wait", "repo", "done"
  mask,         \* sched_[0].mask
  rep,          \* the master's reply buffer: rep.repo and rep.func_ptr
  req,          \* req[s]: s's request, as it is sent and sent again
  req_from_,    \* req_from_[s]: s's request in the master's buffers
  rep_seqno_,   \* rep_seqno_[s]: the last fresh request the master has seen
  taken,        \* request buffers below sigio_buffer_tos
  net,          \* datagrams on their way
  know,         \* know[p][q]: the intervals of q that p knows
  forked,       \* the functions forked so far
  ran,          \* ran[s]: the functions slave s has been given
  collected,    \* collected[p]: the forks after which p has entered Tmk_repo
  published     \* what the master knew when it last forked

vars == <<mpc, spc, mask, rep, req, req_from_, rep_seqno_, taken, net, know,
          forked, ran, collected, published>>

Join(s, k, r, have) == [kind |-> "join", from |-> s, seqno |-> k, repo |-> r, have |-> have]
Reply(s, k, have) ==
  [kind |-> "reply", to |-> s, seqno |-> k, repo |-> rep.repo, func |-> rep.func, have |-> have]

Merge(v, w) == [q \in Procs |-> IF v[q] < w[q] THEN w[q] ELSE v[q]]

\* The function of the k-th fork; Tmk_sched_exit forks NULL.
Func(k) == IF k = Forks THEN 0 ELSE k

Init ==
  /\ mpc = "run"
  /\ spc = [s \in Slaves |-> "run"]
  /\ mask = {}
  /\ rep = [repo |-> FALSE, func |-> 0]
  /\ know = [p \in Procs |-> [q \in Procs |-> 0]]
  /\ req = [s \in Slaves |-> Join(s, 0, FALSE, know[s])]
  /\ req_from_ = req
  /\ rep_seqno_ = [s \in Slaves |-> 0]
  /\ taken = 0
  /\ net = {}
  /\ forked = <<>>
  /\ ran = [s \in Slaves |-> <<>>]
  /\ collected = [p \in Procs |-> {}]
  /\ published = know[0]

-----------------------------------------------------------------------------
(* A slave, in Tmk_sched_start. *)

\* The slave closes the interval of what it wrote, and joins.
SlaveJoins(s) ==
  /\ spc[s] = "run"
  /\ \E r \in {FALSE} \cup (IF req[s].seqno + 1 \in Pressure THEN {TRUE} ELSE {}) :
       LET own == [know[s] EXCEPT ![s] = @ + 1]
           m == Join(s, req[s].seqno + 1, r, own)
       IN /\ know' = [know EXCEPT ![s] = own]
          /\ req' = [req EXCEPT ![s] = m]
          /\ net' = net \cup {m}
  /\ spc' = [spc EXCEPT ![s] = "wait"]
  /\ UNCHANGED <<mpc, mask, rep, req_from_, rep_seqno_, taken, forked, ran, collected, published>>

\* The timer fires.
Rexmit(s) ==
  /\ spc[s] = "wait"
  /\ req[s] \notin net
  /\ net' = net \cup {req[s]}
  /\ UNCHANGED <<mpc, spc, mask, rep, req, req_from_, rep_seqno_, taken, know,
                 forked, ran, collected, published>>

\* The slave receives the reply; another one to the same request, received
\* when it has gone on, is thrown away.
SlaveForks(s, m) ==
  /\ spc[s] = "wait"
  /\ m.kind = "reply" /\ m.to = s /\ m.seqno = req[s].seqno
  /\ net' = net \ {m}
  /\ know' = [know EXCEPT ![s] = Merge(@, m.have)]
  /\ ran' = [ran EXCEPT ![s] = Append(@, m.func)]
  /\ collected' = IF m.repo THEN [collected EXCEPT ![s] = @ \cup {m.seqno}] ELSE collected
  /\ spc' = [spc EXCEPT ![s] = IF m.repo THEN "repo" ELSE IF m.func = 0 THEN "done" ELSE "run"]
  /\ UNCHANGED <<mpc, mask, rep, req, req_from_, rep_seqno_, taken, forked, published>>

-----------------------------------------------------------------------------
(* The master's sigio_handler. *)

\* What the master learns from a request that comes while it joins: the
\* slave's own intervals.
Incorporated(m) ==
  IF 0 \in mask /\ m.have[m.from] > know[0][m.from]
  THEN [know[0] EXCEPT ![m.from] = m.have[m.from]] ELSE know[0]

\* A fresh request keeps its buffer.
Tmk_sched_sigio_handler(m) ==
  /\ m.kind = "join" /\ m.seqno > rep_seqno_[m.from]
  /\ rep_seqno_' = [rep_seqno_ EXCEPT ![m.from] = m.seqno]
  /\ req_from_' = [req_from_ EXCEPT ![m.from] = m]
  /\ taken' = taken + 1
  /\ mask' = mask \cup {m.from}
  /\ know' = [know EXCEPT ![0] = Incorporated(m)]
  /\ rep' = [rep EXCEPT !.repo = @ \/ (0 \in mask /\ m.repo)]
  /\ net' = net \ {m}
  /\ UNCHANGED <<mpc, spc, req, forked, ran, collected, published>>

\* Whether a repeated request is answered: not before Tmk_sched_fork has.
\* Mutant: always.
AnswerAlways(s) == TRUE

AnswerAgain(s) == s \notin mask

\* The reply to a repeated request.
\* Mutant: one that never asks for the collection.
AgainWithoutRepo(m) == [Reply(m.from, m.seqno, know[0]) EXCEPT !.repo = FALSE]

ReplyAgain(m) == Reply(m.from, m.seqno, know[0])

\* A reply to an older request, which the slave would throw away by its
\* sequence number, is left out.
Awaited(m) == spc[m.from] = "wait" /\ m.seqno = req[m.from].seqno

Tmk_sched_sigio_duplicate_handler(m) ==
  /\ m.kind = "join" /\ m.seqno <= rep_seqno_[m.from]
  /\ net' = (net \ {m}) \cup
               (IF AnswerAgain(m.from) /\ Awaited(m) THEN {ReplyAgain(m)} ELSE {})
  /\ UNCHANGED <<mpc, spc, mask, rep, req, req_from_, rep_seqno_, taken, know,
                 forked, ran, collected, published>>

-----------------------------------------------------------------------------
(* The master. *)

\* The requests that came before the master joined, as rep.repo sees them.
Held == {req_from_[s] : s \in mask}

Tmk_sched_join ==
  /\ mpc = "run" /\ Len(forked) < Forks
  /\ \E r \in {FALSE} \cup (IF Len(forked) + 1 \in Pressure THEN {TRUE} ELSE {}) :
       /\ know' = [know EXCEPT ![0] = [q \in Procs |->
                     IF q = 0 THEN @[0] + 1
                     ELSE IF q \in mask /\ req_from_[q].have[q] > @[q] THEN req_from_[q].have[q]
                     ELSE @[q]]]
       /\ rep' = [rep EXCEPT !.repo = r \/ \E m \in Held : m.repo]
  /\ mask' = mask \cup {0}
  /\ mpc' = "joining"
  /\ UNCHANGED <<spc, req, req_from_, rep_seqno_, taken, net, forked, ran, collected, published>>

JoinReturns ==
  /\ mpc = "joining" /\ mask = Procs
  /\ mpc' = "joined"
  /\ UNCHANGED <<spc, mask, rep, req, req_from_, rep_seqno_, taken, net, know,
                 forked, ran, collected, published>>

\* The function is stored before SIGIO is blocked.
SetFunction ==
  /\ mpc = "joined"
  /\ rep' = [rep EXCEPT !.func = Func(Len(forked) + 1)]
  /\ mpc' = "forking"
  /\ UNCHANGED <<spc, mask, req, req_from_, rep_seqno_, taken, net, know,
                 forked, ran, collected, published>>

\* The master closes the interval of what it wrote since the join.
\* Mutant: it does not.
NoInterval == know[0]

ForkInterval == [know[0] EXCEPT ![0] = @ + 1]

\* The buffers given back by a fork.
\* Mutant: none.
KeepBuffers == 0

Released == NProcs - 1

Tmk_sched_fork ==
  /\ mpc = "forking"
  /\ mask' = {}
  /\ know' = [know EXCEPT ![0] = ForkInterval]
  /\ published' = [know[0] EXCEPT ![0] = @ + 1]
  /\ net' = net \cup {Reply(s, req_from_[s].seqno, ForkInterval) : s \in Slaves}
  /\ taken' = taken - Released
  /\ forked' = Append(forked, rep.func)
  /\ collected' = IF rep.repo THEN [collected EXCEPT ![0] = @ \cup {Len(forked) + 1}] ELSE collected
  /\ mpc' = IF rep.repo THEN "repo" ELSE IF rep.func = 0 THEN "done" ELSE "run"
  /\ UNCHANGED <<spc, rep, req, req_from_, rep_seqno_, ran>>

-----------------------------------------------------------------------------
(* Tmk_repo, and the network. *)

RepoOver(k) == \A p \in Procs : k \in collected[p]

MasterLeavesRepo ==
  /\ mpc = "repo" /\ RepoOver(Len(forked))
  /\ mpc' = IF rep.func = 0 THEN "done" ELSE "run"
  /\ UNCHANGED <<spc, mask, rep, req, req_from_, rep_seqno_, taken, net, know,
                 forked, ran, collected, published>>

SlaveLeavesRepo(s) ==
  /\ spc[s] = "repo" /\ RepoOver(req[s].seqno)
  /\ spc' = [spc EXCEPT ![s] = IF ran[s][Len(ran[s])] = 0 THEN "done" ELSE "run"]
  /\ UNCHANGED <<mpc, mask, rep, req, req_from_, rep_seqno_, taken, net, know,
                 forked, ran, collected, published>>

Lose(m) ==
  /\ net' = net \ {m}
  /\ UNCHANGED <<mpc, spc, mask, rep, req, req_from_, rep_seqno_, taken, know,
                 forked, ran, collected, published>>

Master == Tmk_sched_join \/ JoinReturns \/ SetFunction \/ Tmk_sched_fork \/ MasterLeavesRepo

Handle(s) ==
  \E m \in net : /\ m.kind = "join" /\ m.from = s
                 /\ Tmk_sched_sigio_handler(m) \/ Tmk_sched_sigio_duplicate_handler(m)

Next ==
  \/ Master
  \/ \E s \in Slaves : SlaveJoins(s) \/ Rexmit(s) \/ SlaveLeavesRepo(s) \/ Handle(s)
  \/ \E s \in Slaves, m \in net : SlaveForks(s, m)
  \/ \E m \in net : Lose(m)

Spec == Init /\ [][Next]_vars

(* Processes run, timers keep firing, and a datagram that is sent again    *)
(* and again is received in the end.                                       *)
Fairness ==
  /\ WF_vars(Master)
  /\ \A s \in Slaves :
       /\ WF_vars(SlaveJoins(s) \/ SlaveLeavesRepo(s)) /\ WF_vars(Rexmit(s))
       /\ SF_vars(Handle(s))
       /\ SF_vars(\E m \in net : SlaveForks(s, m))

FairSpec == Spec /\ Fairness

-----------------------------------------------------------------------------
(* Properties *)

TypeOK ==
  /\ mpc \in {"run", "joining", "joined", "forking", "repo", "done"}
  /\ spc \in [Slaves -> {"run", "wait", "repo", "done"}]
  /\ mask \subseteq Procs
  /\ rep.repo \in BOOLEAN /\ rep.func \in 0 .. Forks
  /\ rep_seqno_ \in [Slaves -> 0 .. Forks]
  /\ taken \in Nat
  /\ know \in [Procs -> [Procs -> 0 .. 2 * Forks]]
  /\ collected \in [Procs -> SUBSET (1 .. Forks)]

\* Every slave runs the master's functions, each once and in order, although
\* the function is stored in the reply buffer while repeated requests may
\* still be answered from it: Tmk_sched_join leaves the mask full, and no
\* repeated request is answered while its bit is set.
ForkInOrder ==
  \A s \in Slaves :
    /\ Len(ran[s]) <= Len(forked)
    /\ \A k \in 1 .. Len(ran[s]) : ran[s][k] = forked[k]

\* A slave that runs the latest fork knows all the master knew when it
\* forked, the master's writes between its join and its fork included.
ForkPublishes ==
  \A s \in Slaves : Len(ran[s]) = Len(forked) =>
    \A q \in Procs : know[s][q] >= published[q]

\* The handler always has a free buffer for the next request, at as many
\* buffers as processes: a fork gives back the buffers of all the slaves
\* before they can send their next requests.
BufferLeft == taken < NProcs

\* The slaves that have gone into a collection the master did not call for
\* at that fork.
Strays == {s \in Slaves : ~ collected[s] \subseteq collected[0]}

\* Tmk_sched_start returns in every slave, whatever datagrams are lost, as
\* long as no slave is sent into a collection alone.  A repeated reply can do
\* that: Tmk_sched_sigio_duplicate_handler answers with rep.repo as it is, and
\* if the reply to the last fork was lost and the master's next join has found
\* its memory full, that is the flag of the next fork (sched.c:344,
\* "rep.repo = ?").  The slave then waits in Tmk_repo for the master, and the
\* master for the slave's join.  Nothing else keeps a slave from returning.
SlavesReturn ==
  <> (Strays # {} \/ (mpc = "done" /\ \A s \in Slaves : spc[s] = "done"))
=============================================================================
