----------------------------- MODULE TmkBarrier -----------------------------
(***************************************************************************)
(* The barrier of the TreadMarks runtime (Tmk/src/barrier.c), followed by   *)
(* the garbage collection of consistency data that a barrier may start      *)
(* (the two barriers inside Tmk_repo, Tmk/src/repo.c).                      *)
(*                                                                          *)
(* Each barrier has a static manager.  Arriving processes send it their own *)
(* new intervals; when all have arrived it answers each with the intervals  *)
(* it lacks.  Arrivals and answers are datagrams that may be lost; a        *)
(* process retransmits its arrival every second until it is answered.       *)
(*                                                                          *)
(* Every process runs the same program: its e-th barrier is number          *)
(* e % NBarriers.  A sequence number counts the requests of its sender.     *)
(* Data about intervals is a vector time.  The pages that Tmk_repo          *)
(* validates or discards are left out.                                      *)
(***************************************************************************)
EXTENDS Integers

CONSTANTS
  NProcs,        \* Tmk_nprocs
  NBarriers,     \* how many barriers the program uses in turn
  RepoEpisodes,  \* the calls at which the collection tests may hold
  Reliable,      \* TRUE: datagrams are not lost and answered within a second
  MaxEpisodes,   \* bound: barriers the program executes
  MaxIntervals   \* bound: intervals a process creates between collections

ASSUME NProcsAssumption == NProcs \in Nat \ {0}
ASSUME BarriersAssumption == NBarriers \in Nat \ {0}
ASSUME SwitchAssumption == RepoEpisodes \subseteq Nat /\ Reliable \in BOOLEAN
ASSUME BoundAssumption == MaxEpisodes \in Nat /\ MaxIntervals \in Nat

Proc == 0 .. NProcs - 1
Barriers == 0 .. NBarriers - 1
Episodes == 1 .. MaxEpisodes

(* The barrier of the e-th call, and barrier->manager. *)
BarrierOf(e) == e % NBarriers
Manager(b) == b % NProcs

SpinmaskShort == 0 .. NProcs - 2

(* All processes. *)
Tmk_spinmask == Proc

VARIABLES
  pc,            \* where p is: see PCs
  episode,       \* episode[p]: calls of Tmk_barrier p has begun
  mask,          \* mask[b]: barrier->mask at the manager of b
  req_from_,     \* req_from_[m][p]: the arrival of p that m holds
  rep,           \* rep[p]: the static reply buffer of barrier.c
  req_seqno,     \* number of p's last request
  rep_seqno_,    \* rep_seqno_[m][p]: highest request number m has seen from p
  sent,          \* sent[p]: p's outstanding request
  repo_mask,     \* repo_mask at process 0
  proc_vector_time_, inverse_time_, dirty,
  reqs, reps,    \* datagrams in flight
  arrivedAt,     \* history: arrivedAt[p][e], p's own interval count on arrival
  left,          \* history: left[p][e], whether and how p left barrier e
  gap            \* history: processes that took in intervals with a hole

sync == <<episode, mask, req_from_, req_seqno, rep_seqno_, sent>>
memory == <<proc_vector_time_, inverse_time_, dirty>>
history == <<arrivedAt, left, gap>>
vars == <<pc, sync, rep, repo_mask, memory, reqs, reps, history>>

(* "spin": manager waiting for arrivals.  "wait": in recv.  "got": answer   *)
(* accepted, signals not blocked yet.  "repo1", "repo2": in the barriers of *)
(* Tmk_repo.                                                                *)
PCs == {"run", "spin", "wait", "got", "repo1", "repo2"}

VectorTime == [Proc -> Nat]
Zero == [q \in Proc |-> 0]

(* An arrival carries the sender's own intervals after "after", up to its   *)
(* entry of vector_time.                                                    *)
Request == [type : {"arrival", "repo"}, to : Proc, from : Proc, id : Barriers,
            seqno : Nat, repo : BOOLEAN, vector_time : VectorTime, after : Nat]

(* The answers of repo_barrier are short: a number and nothing else. *)
Reply == [to : Proc, via : Proc, seqno : Nat, short : BOOLEAN, repo : BOOLEAN,
          data : VectorTime]

NoRequest == [type |-> "repo", to |-> 0, from |-> 0, id |-> 0, seqno |-> 0,
              repo |-> FALSE, vector_time |-> Zero, after |-> 0]

Init ==
  /\ pc = [p \in Proc |-> "run"]
  /\ episode = [p \in Proc |-> 0]
  /\ mask = [b \in Barriers |-> {}]
  /\ req_from_ = [m \in Proc |-> [p \in Proc |-> NoRequest]]
  /\ rep = [p \in Proc |-> [repo |-> FALSE, data |-> Zero]]
  /\ req_seqno = [p \in Proc |-> 0]
  /\ rep_seqno_ = [m \in Proc |-> [p \in Proc |-> 0]]
  /\ sent = [p \in Proc |-> NoRequest]
  /\ repo_mask = {0}
  /\ proc_vector_time_ = [p \in Proc |-> Zero]
  /\ inverse_time_ = [p \in Proc |-> Zero]
  /\ dirty = [p \in Proc |-> FALSE]
  /\ reqs = {} /\ reps = {}
  /\ arrivedAt = [p \in Proc |-> [e \in Episodes |-> 0]]
  /\ left = [p \in Proc |-> [e \in Episodes |-> "no"]]
  /\ gap = {}

Max2(i, j) == IF i > j THEN i ELSE j
MergeNothing(v, w) == v
Merge(v, w) == [q \in Proc |-> Max2(v[q], w[q])]

-----------------------------------------------------------------------------
(* Shared memory. *)

(* The program writes a page: it goes on the dirty list. *)
Write(p) ==
  /\ pc[p] = "run" /\ ~ dirty[p]
  /\ proc_vector_time_[p][p] < MaxIntervals
  /\ dirty' = [dirty EXCEPT ![p] = TRUE]
  /\ UNCHANGED <<pc, sync, rep, repo_mask, proc_vector_time_, inverse_time_,
                 reqs, reps, history>>

CreateBackwards(p) ==
  IF dirty[p] THEN [proc_vector_time_[p] EXCEPT ![p] = @ - 1]
              ELSE proc_vector_time_[p]

(* A dirty process closes its interval. *)
Tmk_interval_create(p) ==
  IF dirty[p] THEN [proc_vector_time_[p] EXCEPT ![p] = @ + 1]
              ELSE proc_vector_time_[p]

IncorporatedNone(vt, A) == vt

(* Tmk_interval_incorporate of the arrivals A into the vector time vt. *)
Incorporated(vt, A) ==
  [q \in Proc |-> IF \E m \in A : m.from = q
                  THEN Max2(vt[q], (CHOOSE m \in A : m.from = q).vector_time[q])
                  ELSE vt[q]]

(* Some arrival of A starts after what vt covers. *)
Gap(vt, A) == \E m \in A : m.after > vt[m.from]

-----------------------------------------------------------------------------
(* Tmk_repo. *)

RepoRequest(p, k) == [NoRequest EXCEPT !.from = p, !.seqno = k]

(* Entering repo_barrier: process 0 collects, the others ask. *)
EnterRepoBarrier(p) ==
  LET r == RepoRequest(p, req_seqno[p] + 1)
  IN  IF p = 0 THEN UNCHANGED <<req_seqno, sent, reqs>>
      ELSE /\ req_seqno' = [req_seqno EXCEPT ![p] = r.seqno]
           /\ sent' = [sent EXCEPT ![p] = r]
           /\ reqs' = reqs \cup {r}

(* After its first barrier Tmk_repo forgets all intervals and enters the   *)
(* second; after the second it returns.                                    *)
LeaveRepoBarrier(p) ==
  \/ /\ pc[p] = "repo1"
     /\ pc' = [pc EXCEPT ![p] = "repo2"]
     /\ proc_vector_time_' = [proc_vector_time_ EXCEPT ![p] = Zero]
     /\ inverse_time_' = [inverse_time_ EXCEPT ![p] = Zero]
     /\ EnterRepoBarrier(p)
  \/ /\ pc[p] = "repo2"
     /\ pc' = [pc EXCEPT ![p] = "run"]
     /\ UNCHANGED <<proc_vector_time_, inverse_time_, req_seqno, sent, reqs>>

RepoMaskKept == repo_mask

(* repo_mask once all are there. *)
RepoMaskReset == {0}

(* repo_barrier at process 0. *)
RepoBarrierCollect ==
  /\ pc[0] \in {"repo1", "repo2"}
  /\ repo_mask = Tmk_spinmask
  /\ repo_mask' = RepoMaskReset
  /\ reps' = reps \cup {[to |-> j, via |-> 0, seqno |-> rep_seqno_[0][j],
                         short |-> TRUE, repo |-> FALSE, data |-> Zero] : j \in Proc \ {0}}
  /\ LeaveRepoBarrier(0)
  /\ UNCHANGED <<episode, mask, req_from_, rep_seqno_, rep, dirty, history>>

(* repo_barrier at the others: the awaited number comes back, or another. *)
RepoBarrierReturn(p, m) ==
  /\ pc[p] \in {"repo1", "repo2"}
  /\ m.to = p /\ m.via = 0
  /\ reps' = reps \ {m}
  /\ IF m.seqno = req_seqno[p] THEN LeaveRepoBarrier(p)
     ELSE UNCHANGED <<pc, proc_vector_time_, inverse_time_, req_seqno, sent, reqs>>
  /\ UNCHANGED <<episode, mask, req_from_, rep_seqno_, rep, repo_mask, dirty, history>>

-----------------------------------------------------------------------------
(* Tmk_barrier. *)

(* The common end: everybody knows p's intervals now; start Tmk_repo if    *)
(* the answer says so.                                                     *)
Leave(p, repo) ==
  /\ left' = [left EXCEPT ![p][episode[p]] = IF repo THEN "repo" ELSE "plain"]
  /\ pc' = [pc EXCEPT ![p] = IF repo THEN "repo1" ELSE "run"]
  /\ IF repo THEN EnterRepoBarrier(p) ELSE UNCHANGED <<req_seqno, sent, reqs>>

(* Tmk_interval_create on entry, and the history of the call. *)
Enter(p) ==
  /\ pc[p] = "run"
  /\ episode[p] < MaxEpisodes
  /\ episode' = [episode EXCEPT ![p] = @ + 1]
  /\ arrivedAt' = [arrivedAt EXCEPT ![p][episode[p] + 1] = Tmk_interval_create(p)[p]]
  /\ dirty' = [dirty EXCEPT ![p] = FALSE]

(* Tmk_diff_repo_test() or Tmk_interval_repo_test(): a heap has filled up. *)
RepoTest(e) == IF e \in RepoEpisodes THEN BOOLEAN ELSE {FALSE}

(* The manager arrives: it takes in the arrivals it already holds. *)
ArriveManager(p, repo) ==
  LET b == BarrierOf(episode[p] + 1)
      A == {req_from_[p][q] : q \in mask[b] \ {p}}
      vt == Tmk_interval_create(p)
  IN  /\ Enter(p)
      /\ Manager(b) = p
      /\ rep' = [rep EXCEPT ![p].repo = repo \/ \E m \in A : m.repo]
      /\ proc_vector_time_' = [proc_vector_time_ EXCEPT ![p] = Incorporated(vt, A)]
      /\ gap' = IF Gap(vt, A) THEN gap \cup {p} ELSE gap
      /\ mask' = [mask EXCEPT ![b] = @ \cup {p}]
      /\ pc' = [pc EXCEPT ![p] = "spin"]
      /\ UNCHANGED <<req_from_, req_seqno, rep_seqno_, sent, repo_mask,
                     inverse_time_, reqs, reps, left>>

(* All have arrived: answer everyone. *)
ReleaseManager(p) ==
  LET b == BarrierOf(episode[p])
  IN  /\ pc[p] = "spin"
      /\ mask[b] = Tmk_spinmask
      /\ mask' = [mask EXCEPT ![b] = {}]
      /\ reps' = reps \cup
           {[to |-> j, via |-> p, seqno |-> req_from_[p][j].seqno,
             short |-> FALSE, repo |-> rep[p].repo, data |-> proc_vector_time_[p]] : j \in Proc \ {p}}
      /\ rep' = [rep EXCEPT ![p].data = proc_vector_time_[p]]
      /\ inverse_time_' = [inverse_time_ EXCEPT
           ![p] = [j \in Proc |-> IF j = p THEN @[j] ELSE proc_vector_time_[p][p]]]
      /\ Leave(p, rep[p].repo)
      /\ UNCHANGED <<episode, req_from_, rep_seqno_, repo_mask, proc_vector_time_,
                     dirty, arrivedAt, gap>>

(* Another process arrives: it sends its own intervals that the manager is *)
(* not known to have.                                                      *)
ArriveClient(p, repo) ==
  LET b == BarrierOf(episode[p] + 1)
      m == Manager(b)
      vt == Tmk_interval_create(p)
      r == [type |-> "arrival", to |-> m, from |-> p, id |-> b,
            seqno |-> req_seqno[p] + 1, repo |-> repo,
            vector_time |-> vt, after |-> inverse_time_[p][m]]
  IN  /\ Enter(p)
      /\ m # p
      /\ req_seqno' = [req_seqno EXCEPT ![p] = @ + 1]
      /\ sent' = [sent EXCEPT ![p] = r]
      /\ reqs' = reqs \cup {r}
      /\ proc_vector_time_' = [proc_vector_time_ EXCEPT ![p] = vt]
      /\ pc' = [pc EXCEPT ![p] = "wait"]
      /\ UNCHANGED <<mask, req_from_, rep_seqno_, rep, repo_mask, inverse_time_,
                     reps, left, gap>>

(* The timer fires before the answer, in Tmk_barrier or in repo_barrier. *)
Rexmit(p) ==
  /\ ~ Reliable
  /\ \/ pc[p] = "wait"
     \/ pc[p] \in {"repo1", "repo2"} /\ p # 0
  /\ reqs' = reqs \cup {sent[p]}
  /\ UNCHANGED <<pc, sync, rep, repo_mask, memory, reps, history>>

OldRequest(p, m) == m.to = p /\ rep_seqno_[p][m.from] >= m.seqno

(* The barrier of arrival m has been released. *)
Over(m) == m.from \notin mask[m.id]

(* A repeated arrival, at a barrier that p manages, whose answer may be put *)
(* into the buffer between recv and the test of rep.seqno.                  *)
Interrupted(p) == \E m \in reqs : m.type = "arrival" /\ OldRequest(p, m) /\ Over(m)

(* recv into the static buffer; a short answer, of repo_barrier, overwrites *)
(* the number only.  With the number of an older request, or of the answer  *)
(* that interrupted, the process waits on.                                  *)
ReceiveReply(p, m) ==
  /\ pc[p] = "wait"
  /\ m.to = p /\ m.via = sent[p].to
  /\ reps' = reps \ {m}
  /\ rep' = IF m.short THEN rep
            ELSE [rep EXCEPT ![p] = [repo |-> m.repo, data |-> m.data]]
  /\ \/ m.seqno = req_seqno[p] /\ pc' = [pc EXCEPT ![p] = "got"]
     \/ (m.seqno # req_seqno[p] \/ Interrupted(p)) /\ pc' = pc
  /\ UNCHANGED <<sync, repo_mask, memory, reqs, history>>

(* The flag by which p decides on the collection. *)
Flag(p) == rep[p].repo

(* Signals are blocked; the buffer is taken in. *)
ReturnClient(p) ==
  LET vt == Merge(proc_vector_time_[p], rep[p].data)
  IN  /\ pc[p] = "got"
      /\ proc_vector_time_' = [proc_vector_time_ EXCEPT ![p] = vt]
      /\ inverse_time_' = [inverse_time_ EXCEPT
           ![p] = [j \in Proc |-> IF j = p THEN @[j] ELSE vt[p]]]
      /\ Leave(p, Flag(p))
      /\ UNCHANGED <<episode, mask, req_from_, rep_seqno_, rep, repo_mask, dirty,
                     reps, arrivedAt, gap>>

-----------------------------------------------------------------------------
(* sigio_handler. *)

(* A received request leaves the network, unless another copy follows. *)
ReceiveRequest(m) == reqs' = reqs \ {m} \/ (~ Reliable /\ reqs' = reqs)

NewRequest(p, m) ==
  /\ m.to = p
  /\ rep_seqno_[p][m.from] < m.seqno
  /\ rep_seqno_' = [rep_seqno_ EXCEPT ![p][m.from] = m.seqno]

ArrivedAlways(p, m) == TRUE

(* The manager is itself in the barrier of arrival m. *)
Arrived(p, m) == p \in mask[m.id]

(* Tmk_barrier_sigio_handler: the arrival is held; it is taken in at once  *)
(* if the manager has itself arrived.                                      *)
HandleArrival(p, m) ==
  LET now == Arrived(p, m)
  IN  /\ m.type = "arrival"
      /\ NewRequest(p, m)
      /\ req_from_' = [req_from_ EXCEPT ![p][m.from] = m]
      /\ mask' = [mask EXCEPT ![m.id] = @ \cup {m.from}]
      /\ proc_vector_time_' = IF now
           THEN [proc_vector_time_ EXCEPT ![p] = Incorporated(@, {m})]
           ELSE proc_vector_time_
      /\ gap' = IF now /\ Gap(proc_vector_time_[p], {m}) THEN gap \cup {p} ELSE gap
      /\ rep' = IF now /\ m.repo THEN [rep EXCEPT ![p].repo = TRUE] ELSE rep
      /\ ReceiveRequest(m)
      /\ UNCHANGED <<pc, episode, req_seqno, sent, repo_mask, inverse_time_, dirty,
                     reps, arrivedAt, left>>

(* The data of p's static buffer once Tmk_interval_request has written the  *)
(* answer to m there: the intervals m's sender lacks, if there are any.     *)
Overwritten(p, m) ==
  IF \E q \in Proc : proc_vector_time_[p][q] > m.vector_time[q]
  THEN proc_vector_time_[p] ELSE rep[p].data

(* Tmk_barrier_sigio_duplicate_handler: answer if the barrier is over,     *)
(* through the static buffer and with whatever flag it holds.              *)
HandleArrivalAgain(p, m) ==
  /\ m.type = "arrival"
  /\ OldRequest(p, m)
  /\ IF Over(m)
     THEN /\ rep' = [rep EXCEPT ![p].data = Overwritten(p, m)]
          /\ reps' = reps \cup
               {[to |-> m.from, via |-> p, seqno |-> m.seqno,
                 short |-> FALSE, repo |-> rep[p].repo, data |-> proc_vector_time_[p]]}
     ELSE UNCHANGED <<rep, reps>>
  /\ ReceiveRequest(m)
  /\ UNCHANGED <<pc, sync, repo_mask, memory, history>>

(* Tmk_repo_sigio_handler. *)
HandleRepo(m) ==
  /\ m.type = "repo"
  /\ NewRequest(0, m)
  /\ repo_mask' = repo_mask \cup {m.from}
  /\ ReceiveRequest(m)
  /\ UNCHANGED <<pc, episode, mask, req_from_, req_seqno, sent, rep, memory, reps,
                 history>>

(* Tmk_repo_sigio_duplicate_handler. *)
HandleRepoAgain(m) ==
  /\ m.type = "repo"
  /\ OldRequest(0, m)
  /\ reps' = IF m.from \in repo_mask THEN reps
             ELSE reps \cup {[to |-> m.from, via |-> 0, seqno |-> m.seqno,
                              short |-> TRUE, repo |-> FALSE, data |-> Zero]}
  /\ ReceiveRequest(m)
  /\ UNCHANGED <<pc, sync, rep, repo_mask, memory, history>>

LoseRequest(m) ==
  /\ ~ Reliable
  /\ reqs' = reqs \ {m}
  /\ UNCHANGED <<pc, sync, rep, repo_mask, memory, reps, history>>

LoseReply(m) ==
  /\ ~ Reliable
  /\ reps' = reps \ {m}
  /\ UNCHANGED <<pc, sync, rep, repo_mask, memory, reqs, history>>

(* The program of every process is over. *)
Finished ==
  /\ \A p \in Proc : pc[p] = "run" /\ episode[p] = MaxEpisodes
  /\ UNCHANGED vars

Arrive(p) ==
  \E repo \in RepoTest(episode[p] + 1) : ArriveManager(p, repo) \/ ArriveClient(p, repo)

Handle(m) ==
  \/ HandleArrival(m.to, m) \/ HandleArrivalAgain(m.to, m)
  \/ HandleRepo(m) \/ HandleRepoAgain(m)

Next ==
  \/ \E p \in Proc : \/ Write(p) \/ Arrive(p) \/ Rexmit(p)
                     \/ ReleaseManager(p) \/ ReturnClient(p)
                     \/ \E m \in reps : ReceiveReply(p, m) \/ RepoBarrierReturn(p, m)
  \/ RepoBarrierCollect
  \/ \E m \in reqs : Handle(m) \/ LoseRequest(m)
  \/ \E m \in reps : LoseReply(m)
  \/ Finished

Spec == Init /\ [][Next]_vars

(* Processes keep running and reach their next barrier, the timer keeps     *)
(* firing, and a datagram that is sent again and again is received in the   *)
(* end.                                                                     *)
Fairness ==
  /\ \A p \in Proc :
       /\ WF_vars(Arrive(p)) /\ WF_vars(Rexmit(p))
       /\ WF_vars(ReleaseManager(p)) /\ WF_vars(ReturnClient(p))
       /\ SF_vars(\E m \in reps : /\ m.seqno = req_seqno[p]
                                  /\ ReceiveReply(p, m) \/ RepoBarrierReturn(p, m)
                                  /\ pc' # pc)
       /\ SF_vars(\E m \in reqs : /\ m.from = p /\ m.seqno = req_seqno[p]
                                  /\ Handle(m) /\ m \notin reqs')
  /\ WF_vars(RepoBarrierCollect)

FairSpec == Spec /\ Fairness

-----------------------------------------------------------------------------
(* Every variable stays within its type. *)
TypeOK ==
  /\ pc \in [Proc -> PCs]
  /\ episode \in [Proc -> Nat]
  /\ mask \in [Barriers -> SUBSET Proc]
  /\ req_from_ \in [Proc -> [Proc -> Request]]
  /\ rep \in [Proc -> [repo : BOOLEAN, data : VectorTime]]
  /\ req_seqno \in [Proc -> Nat]
  /\ rep_seqno_ \in [Proc -> [Proc -> Nat]]
  /\ sent \in [Proc -> Request]
  /\ repo_mask \subseteq Proc
  /\ proc_vector_time_ \in [Proc -> VectorTime]
  /\ inverse_time_ \in [Proc -> VectorTime]
  /\ dirty \in [Proc -> BOOLEAN]
  /\ reqs \subseteq Request
  /\ reps \subseteq Reply
  /\ arrivedAt \in [Proc -> [Episodes -> Nat]]
  /\ left \in [Proc -> [Episodes -> {"no", "plain", "repo"}]]
  /\ gap \subseteq Proc

(* A process leaves its e-th barrier only after every process has entered   *)
(* it, although arrivals are repeated and the same barrier is used again.   *)
NoEarlyExit ==
  \A p, q \in Proc : \A e \in Episodes : left[p][e] # "no" => episode[q] >= e

(* Processes that have left the same barrier agree whether it is followed   *)
(* by a garbage collection: Tmk_repo is itself a barrier, so a process that *)
(* enters it alone waits for ever.                                          *)
RepoTogether ==
  \A p, q \in Proc : \A e \in Episodes :
    left[p][e] # "no" /\ left[q][e] # "no" => left[p][e] = left[q][e]

(* A process that leaves a barrier knows every interval that any process    *)
(* had closed when it arrived there.                                        *)
BarrierPublishes ==
  [][\A p \in Proc :
       pc[p] \in {"spin", "got"} /\ pc'[p] \in {"run", "repo1"} =>
         \A q \in Proc : proc_vector_time_'[p][q] >= arrivedAt[q][episode[p]]]_vars

(* The intervals in an arrival join on to those its receiver has: what      *)
(* inverse_time_ says another process knows, it knows when it is used.      *)
NoGap == gap = {}

(* A process takes in intervals of others only with its own interval        *)
(* closed: for a dirty page the manager's Tmk_interval_incorporate, called  *)
(* without a vector time, would pass a null pointer on.                     *)
ClosedBeforeLearning ==
  [][\A p, q \in Proc :
       p # q /\ proc_vector_time_'[p][q] > proc_vector_time_[p][q] => ~ dirty'[p]]_vars

(* Every process that enters a barrier comes out of it, collection          *)
(* included.                                                                *)
BarrierReturns == \A p \in Proc : pc[p] # "run" ~> pc[p] = "run"

=============================================================================
