-------------------------- MODULE TmkBarrier_proofs --------------------------
(***************************************************************************)
(* Theorems about TmkBarrier, for any number of processes and barriers,     *)
(* over a network that loses and repeats datagrams, with or without         *)
(* collections, and for any bounds.                                         *)
(***************************************************************************)
EXTENDS TmkBarrier, TLAPS

(* The barrier of a call and its manager, id % Tmk_nprocs, exist. *)
LEMMA BarriersExist ==
  /\ \A e \in Nat : BarrierOf(e) \in Barriers
  /\ \A b \in Barriers : Manager(b) \in Proc
  /\ 0 \in Proc /\ 0 \in Barriers
  BY NProcsAssumption, BarriersAssumption
     DEF BarrierOf, Barriers, Manager, Proc

(* Zero is a vector time and NoRequest a request. *)
LEMMA NothingType == Zero \in VectorTime /\ NoRequest \in Request
  BY BarriersExist, Zenon DEF Zero, VectorTime, NoRequest, Request

(* Closing an interval yields a vector time. *)
LEMMA IntervalType ==
  ASSUME TypeOK, NEW p \in Proc
  PROVE  Tmk_interval_create(p) \in VectorTime
  BY DEF TypeOK, VectorTime, Tmk_interval_create

(* So does incorporating arrivals. *)
LEMMA IncorporatedType ==
  ASSUME NEW vt \in VectorTime, NEW A \in SUBSET Request
  PROVE  Incorporated(vt, A) \in VectorTime
<1>1. SUFFICES ASSUME NEW q \in Proc, \E m \in A : m.from = q
               PROVE  (CHOOSE m \in A : m.from = q).vector_time[q] \in Nat
  BY Zenon DEF Incorporated, VectorTime, Max2
<1>2. (CHOOSE m \in A : m.from = q) \in Request
  BY <1>1, Zenon
<1>3. QED
  BY <1>2, Zenon DEF Request, VectorTime

(* So does merging two of them. *)
LEMMA MergeType ==
  ASSUME NEW v \in VectorTime, NEW w \in VectorTime
  PROVE  Merge(v, w) \in VectorTime
  BY Zenon DEF Merge, VectorTime, Max2

(* A request of repo_barrier is a request. *)
LEMMA RepoRequestType ==
  ASSUME NEW p \in Proc, NEW k \in Nat
  PROVE  /\ RepoRequest(p, k) \in Request
         /\ RepoRequest(p, k).type = "repo" /\ RepoRequest(p, k).to = 0
         /\ RepoRequest(p, k).from = p /\ RepoRequest(p, k).seqno = k
  BY NothingType, Zenon DEF RepoRequest, Request, NoRequest

(* Entering repo_barrier keeps requests and their numbers well typed. *)
LEMMA EnterRepoType ==
  ASSUME TypeOK, NEW p \in Proc, EnterRepoBarrier(p)
  PROVE  /\ req_seqno' \in [Proc -> Nat]
         /\ sent' \in [Proc -> Request]
         /\ reqs' \subseteq Request
<1>1. CASE p = 0
  BY <1>1, Zenon DEF EnterRepoBarrier, TypeOK
<1>2. CASE p # 0
  <2> DEFINE new == RepoRequest(p, req_seqno[p] + 1)
  <2>0. new \in Request /\ new.seqno = req_seqno[p] + 1
    BY RepoRequestType DEF TypeOK
  <2>1. PICK r \in Request : /\ r.seqno = req_seqno[p] + 1
                             /\ req_seqno' = [req_seqno EXCEPT ![p] = r.seqno]
                             /\ sent' = [sent EXCEPT ![p] = r]
                             /\ reqs' = reqs \cup {r}
    BY <1>2, <2>0, Zenon DEF EnterRepoBarrier
  <2>2. r.seqno \in Nat
    BY <2>1 DEF TypeOK
  <2>3. QED
    BY <2>1, <2>2, Zenon DEF TypeOK
<1>3. QED
  BY <1>1, <1>2, Zenon

(* So does leaving it. *)
LEMMA LeaveRepoType ==
  ASSUME TypeOK, NEW p \in Proc, LeaveRepoBarrier(p)
  PROVE  /\ pc' \in [Proc -> PCs]
         /\ proc_vector_time_' \in [Proc -> VectorTime]
         /\ inverse_time_' \in [Proc -> VectorTime]
         /\ req_seqno' \in [Proc -> Nat]
         /\ sent' \in [Proc -> Request]
         /\ reqs' \subseteq Request
<1>1. CASE /\ pc' = [pc EXCEPT ![p] = "repo2"]
           /\ proc_vector_time_' = [proc_vector_time_ EXCEPT ![p] = Zero]
           /\ inverse_time_' = [inverse_time_ EXCEPT ![p] = Zero]
           /\ EnterRepoBarrier(p)
  BY <1>1, EnterRepoType, NothingType, Zenon DEF TypeOK, PCs
<1>2. CASE /\ pc' = [pc EXCEPT ![p] = "run"]
           /\ UNCHANGED <<proc_vector_time_, inverse_time_, req_seqno, sent, reqs>>
  BY <1>2, Zenon DEF TypeOK, PCs
<1>3. QED
  BY <1>1, <1>2, Zenon DEF LeaveRepoBarrier

(* So does leaving Tmk_barrier. *)
LEMMA LeaveType ==
  ASSUME TypeOK, NEW p \in Proc, NEW repo \in BOOLEAN, Leave(p, repo)
  PROVE  /\ left' \in [Proc -> [Episodes -> {"no", "plain", "repo"}]]
         /\ pc' \in [Proc -> PCs]
         /\ req_seqno' \in [Proc -> Nat]
         /\ sent' \in [Proc -> Request]
         /\ reqs' \subseteq Request
<1>1. req_seqno' \in [Proc -> Nat] /\ sent' \in [Proc -> Request] /\ reqs' \subseteq Request
  BY EnterRepoType, Zenon DEF Leave, TypeOK
<1>2. pc' \in [Proc -> PCs]
  BY Zenon DEF Leave, TypeOK, PCs
<1>3. left' \in [Proc -> [Episodes -> {"no", "plain", "repo"}]]
  BY Zenon DEF Leave, TypeOK
<1>4. QED
  BY <1>1, <1>2, <1>3, Zenon

(* A received request leaves only well-formed requests in flight. *)
LEMMA ReceiveType ==
  ASSUME reqs \subseteq Request, NEW m, ReceiveRequest(m)
  PROVE  reqs' \subseteq Request /\ reqs' \subseteq reqs
  BY Zenon DEF ReceiveRequest

(* The initial state is well typed. *)
LEMMA TypeInit == Init => TypeOK
  BY NothingType, BarriersExist DEF Init, TypeOK, PCs, Reply

(* An arrival is a well-formed request. *)
LEMMA ArrivalType ==
  ASSUME TypeOK, NEW p \in Proc, NEW b \in Barriers, NEW repo \in BOOLEAN
  PROVE  [type |-> "arrival", to |-> Manager(b), from |-> p, id |-> b,
          seqno |-> req_seqno[p] + 1, repo |-> repo,
          vector_time |-> Tmk_interval_create(p),
          after |-> inverse_time_[p][Manager(b)]] \in Request
<1>1. Manager(b) \in Proc /\ Tmk_interval_create(p) \in VectorTime
  BY BarriersExist, IntervalType, Zenon
<1>2. req_seqno[p] + 1 \in Nat /\ inverse_time_[p][Manager(b)] \in Nat
  BY <1>1 DEF TypeOK, VectorTime
<1>3. QED
  BY <1>1, <1>2, Zenon DEF Request

(* Arriving keeps the variables of Enter well typed. *)
LEMMA EnterType ==
  ASSUME TypeOK, NEW p \in Proc, Enter(p)
  PROVE  /\ episode' \in [Proc -> Nat]
         /\ arrivedAt' \in [Proc -> [Episodes -> Nat]]
         /\ dirty' \in [Proc -> BOOLEAN]
         /\ BarrierOf(episode[p] + 1) \in Barriers
<1>1. episode[p] + 1 \in Nat /\ Tmk_interval_create(p)[p] \in Nat
  BY IntervalType DEF TypeOK, VectorTime
<1>2. BarrierOf(episode[p] + 1) \in Barriers
  BY <1>1, BarriersExist, Zenon
<1>3. QED
  BY <1>1, <1>2, Zenon DEF Enter, TypeOK

(* The flag of an arrival is a Boolean. *)
LEMMA RepoTestType ==
  ASSUME NEW e, NEW repo \in RepoTest(e)
  PROVE  repo \in BOOLEAN
  BY Zenon DEF RepoTest

(* Every step of the barrier keeps the state well typed. *)
LEMMA TypeStep == TypeOK /\ [Next]_vars => TypeOK'
<1> SUFFICES ASSUME TypeOK, [Next]_vars PROVE TypeOK'
  BY Zenon
<1>1. ASSUME NEW p \in Proc, Write(p) PROVE TypeOK'
  BY <1>1, Zenon DEF Write, TypeOK, sync, history
<1>2. ASSUME NEW p \in Proc, NEW repo \in BOOLEAN, ArriveManager(p, repo) PROVE TypeOK'
  <2> DEFINE b == BarrierOf(episode[p] + 1)
             A == {req_from_[p][q] : q \in mask[b] \ {p}}
             vt == Tmk_interval_create(p)
             flag == repo \/ \E m \in A : m.repo
  <2>1. /\ episode' \in [Proc -> Nat] /\ arrivedAt' \in [Proc -> [Episodes -> Nat]]
        /\ dirty' \in [Proc -> BOOLEAN] /\ b \in Barriers
    BY <1>2, EnterType, Zenon DEF ArriveManager
  <2>2. A \in SUBSET Request
    BY <2>1 DEF TypeOK
  <2>3. Incorporated(vt, A) \in VectorTime
    BY <2>2, IntervalType, IncorporatedType, Zenon
  <2>4. proc_vector_time_' \in [Proc -> VectorTime]
    BY <1>2, <2>3, Zenon DEF ArriveManager, TypeOK
  <2>5. flag \in BOOLEAN
    BY Zenon
  <2>6. rep' = [rep EXCEPT ![p].repo = flag]
    BY <1>2, Zenon DEF ArriveManager
  <2>7. rep' \in [Proc -> [repo : BOOLEAN, data : VectorTime]]
    <3> HIDE DEF flag
    <3> QED
      BY <2>5, <2>6, Zenon DEF TypeOK
  <2>8. mask' \in [Barriers -> SUBSET Proc] /\ pc' \in [Proc -> PCs] /\ gap' \subseteq Proc
    BY <1>2, <2>1, Zenon DEF ArriveManager, TypeOK, PCs
  <2>9. QED
    BY <1>2, <2>1, <2>4, <2>7, <2>8, Zenon DEF ArriveManager, TypeOK
<1>3. ASSUME NEW p \in Proc, ReleaseManager(p) PROVE TypeOK'
  <2> DEFINE b == BarrierOf(episode[p])
  <2>1. b \in Barriers /\ rep[p].repo \in BOOLEAN /\ proc_vector_time_[p] \in VectorTime
    BY BarriersExist, Zenon DEF TypeOK
  <2>2. Leave(p, rep[p].repo)
    BY <1>3, Zenon DEF ReleaseManager
  <2>3. /\ left' \in [Proc -> [Episodes -> {"no", "plain", "repo"}]]
        /\ pc' \in [Proc -> PCs] /\ req_seqno' \in [Proc -> Nat]
        /\ sent' \in [Proc -> Request] /\ reqs' \subseteq Request
    BY <2>1, <2>2, LeaveType, Zenon
  <2>4. reps' \subseteq Reply
    <3>1. \A j \in Proc : req_from_[p][j].seqno \in Nat
      BY DEF TypeOK, Request
    <3>2. \A j \in Proc : [to |-> j, via |-> p, seqno |-> req_from_[p][j].seqno,
             short |-> FALSE, repo |-> rep[p].repo, data |-> proc_vector_time_[p]] \in Reply
      BY <2>1, <3>1, Zenon DEF Reply
    <3>3. QED
      BY <1>3, <3>2, Zenon DEF ReleaseManager, TypeOK
  <2>5. [j \in Proc |-> IF j = p THEN inverse_time_[p][j] ELSE proc_vector_time_[p][p]]
          \in VectorTime
    BY DEF TypeOK, VectorTime
  <2>6. inverse_time_' \in [Proc -> VectorTime]
    BY <1>3, <2>5, Zenon DEF ReleaseManager, TypeOK
  <2>7. rep' \in [Proc -> [repo : BOOLEAN, data : VectorTime]]
        /\ mask' \in [Barriers -> SUBSET Proc]
    BY <1>3, <2>1, ZenonT(40) DEF ReleaseManager, TypeOK
  <2>8. QED
    BY <1>3, <2>3, <2>4, <2>6, <2>7, Zenon DEF ReleaseManager, TypeOK
<1>4. ASSUME NEW p \in Proc, NEW repo \in BOOLEAN, ArriveClient(p, repo) PROVE TypeOK'
  <2> DEFINE b == BarrierOf(episode[p] + 1)
             r == [type |-> "arrival", to |-> Manager(b), from |-> p, id |-> b,
                   seqno |-> req_seqno[p] + 1, repo |-> repo,
                   vector_time |-> Tmk_interval_create(p),
                   after |-> inverse_time_[p][Manager(b)]]
  <2>1. /\ episode' \in [Proc -> Nat] /\ arrivedAt' \in [Proc -> [Episodes -> Nat]]
        /\ dirty' \in [Proc -> BOOLEAN] /\ b \in Barriers
    BY <1>4, EnterType, Zenon DEF ArriveClient
  <2>2. r \in Request
    BY <2>1, ArrivalType, Zenon
  <2>3. sent' = [sent EXCEPT ![p] = r] /\ reqs' = reqs \cup {r}
    BY <1>4, Zenon DEF ArriveClient
  <2>4. sent' \in [Proc -> Request] /\ reqs' \subseteq Request
    <3> HIDE DEF r
    <3> QED
      BY <2>2, <2>3, Zenon DEF TypeOK
  <2>5. proc_vector_time_' \in [Proc -> VectorTime]
    BY <1>4, IntervalType, Zenon DEF ArriveClient, TypeOK
  <2>6. pc' \in [Proc -> PCs] /\ req_seqno' \in [Proc -> Nat]
    BY <1>4 DEF ArriveClient, TypeOK, PCs
  <2>7. QED
    BY <1>4, <2>1, <2>4, <2>5, <2>6, Zenon DEF ArriveClient, TypeOK
<1>5. ASSUME NEW p \in Proc, Rexmit(p) PROVE TypeOK'
  BY <1>5, Zenon DEF Rexmit, TypeOK, sync, memory, history
<1>6. ASSUME NEW p \in Proc, NEW m \in reps, ReceiveReply(p, m) PROVE TypeOK'
  BY <1>6, Zenon DEF ReceiveReply, TypeOK, PCs, Reply, sync, memory, history
<1>7. ASSUME NEW p \in Proc, ReturnClient(p) PROVE TypeOK'
  <2> DEFINE vt == Merge(proc_vector_time_[p], rep[p].data)
  <2>1. vt \in VectorTime /\ Flag(p) \in BOOLEAN
    BY MergeType, Zenon DEF TypeOK, Flag
  <2>2. /\ left' \in [Proc -> [Episodes -> {"no", "plain", "repo"}]]
        /\ pc' \in [Proc -> PCs] /\ req_seqno' \in [Proc -> Nat]
        /\ sent' \in [Proc -> Request] /\ reqs' \subseteq Request
    BY <1>7, <2>1, LeaveType, Zenon DEF ReturnClient
  <2>3. proc_vector_time_' = [proc_vector_time_ EXCEPT ![p] = vt]
        /\ inverse_time_' = [inverse_time_ EXCEPT
             ![p] = [j \in Proc |-> IF j = p THEN @[j] ELSE vt[p]]]
    BY <1>7, Zenon DEF ReturnClient
  <2>4. proc_vector_time_' \in [Proc -> VectorTime] /\ inverse_time_' \in [Proc -> VectorTime]
    <3> HIDE DEF vt
    <3>1. [j \in Proc |-> IF j = p THEN inverse_time_[p][j] ELSE vt[p]] \in VectorTime
      BY <2>1 DEF TypeOK, VectorTime
    <3> QED
      BY <2>1, <2>3, <3>1, Zenon DEF TypeOK
  <2>5. QED
    BY <1>7, <2>2, <2>4, Zenon DEF ReturnClient, TypeOK
<1>8. CASE RepoBarrierCollect
  <2>1. \A j \in Proc : [to |-> j, via |-> 0, seqno |-> rep_seqno_[0][j],
                         short |-> TRUE, repo |-> FALSE, data |-> Zero] \in Reply
    BY BarriersExist, NothingType DEF TypeOK, Reply
  <2>2. reps' \subseteq Reply /\ repo_mask' \subseteq Proc
    BY <1>8, <2>1, BarriersExist DEF RepoBarrierCollect, RepoMaskReset, TypeOK
  <2>3. LeaveRepoBarrier(0)
    BY <1>8, Zenon DEF RepoBarrierCollect
  <2>4. QED
    BY <1>8, <2>2, <2>3, LeaveRepoType, BarriersExist, Zenon DEF RepoBarrierCollect, TypeOK, history
<1>9. ASSUME NEW p \in Proc, NEW m \in reps, RepoBarrierReturn(p, m) PROVE TypeOK'
  <2>1. CASE LeaveRepoBarrier(p)
    BY <1>9, <2>1, LeaveRepoType, Zenon DEF RepoBarrierReturn, TypeOK, history
  <2>2. CASE UNCHANGED <<pc, proc_vector_time_, inverse_time_, req_seqno, sent, reqs>>
    BY <1>9, <2>2, Zenon DEF RepoBarrierReturn, TypeOK, history
  <2>3. QED
    BY <1>9, <2>1, <2>2, Zenon DEF RepoBarrierReturn
<1>10. ASSUME NEW m \in reqs, HandleArrival(m.to, m) PROVE TypeOK'
  <2>1. m \in Request /\ {m} \in SUBSET Request
    BY Zenon DEF TypeOK
  <2>2. m.to \in Proc /\ m.from \in Proc /\ m.id \in Barriers /\ m.seqno \in Nat
    BY <2>1, Zenon DEF Request
  <2>3. reqs' \subseteq Request
    BY <1>10, ReceiveType, Zenon DEF HandleArrival, TypeOK
  <2>4. Incorporated(proc_vector_time_[m.to], {m}) \in VectorTime
    BY <2>1, <2>2, IncorporatedType, Zenon DEF TypeOK
  <2>5. proc_vector_time_' \in [Proc -> VectorTime]
    BY <1>10, <2>4, Zenon DEF HandleArrival, TypeOK
  <2>6. req_from_' \in [Proc -> [Proc -> Request]] /\ rep_seqno_' \in [Proc -> [Proc -> Nat]]
    BY <1>10, <2>1, <2>2, Zenon DEF HandleArrival, NewRequest, TypeOK
  <2>7. mask' \in [Barriers -> SUBSET Proc] /\ gap' \subseteq Proc
    BY <1>10, <2>2, Zenon DEF HandleArrival, TypeOK
  <2>8. rep' \in [Proc -> [repo : BOOLEAN, data : VectorTime]]
    BY <1>10, Zenon DEF HandleArrival, TypeOK
  <2>9. QED
    BY <1>10, <2>3, <2>5, <2>6, <2>7, <2>8, Zenon DEF HandleArrival, TypeOK
<1>11. ASSUME NEW m \in reqs, HandleArrivalAgain(m.to, m) PROVE TypeOK'
  <2>1. m \in Request
    BY Zenon DEF TypeOK
  <2>2. m.to \in Proc /\ m.from \in Proc /\ m.seqno \in Nat
    BY <2>1, Zenon DEF Request
  <2>3. reqs' \subseteq Request
    BY <1>11, ReceiveType, Zenon DEF HandleArrivalAgain, TypeOK
  <2>4. Overwritten(m.to, m) \in VectorTime
    BY <2>2, Zenon DEF Overwritten, TypeOK
  <2>5. rep' \in [Proc -> [repo : BOOLEAN, data : VectorTime]]
    <3>1. PICK w \in VectorTime : rep' = rep \/ rep' = [rep EXCEPT ![m.to].data = w]
      BY <1>11, <2>4, Zenon DEF HandleArrivalAgain
    <3>2. CASE rep' = [rep EXCEPT ![m.to].data = w]
      BY <2>2, <3>2, Zenon DEF TypeOK
    <3>3. QED
      BY <3>1, <3>2, Zenon DEF TypeOK
  <2>6. [to |-> m.from, via |-> m.to, seqno |-> m.seqno,
         short |-> FALSE, repo |-> rep[m.to].repo, data |-> proc_vector_time_[m.to]] \in Reply
    BY <2>2, Zenon DEF TypeOK, Reply
  <2>7. reps' \subseteq Reply
    BY <1>11, <2>6, Zenon DEF HandleArrivalAgain, TypeOK
  <2>8. QED
    BY <1>11, <2>3, <2>5, <2>7, Zenon DEF HandleArrivalAgain, TypeOK, sync, memory, history
<1>12. ASSUME NEW m \in reqs, HandleRepo(m) PROVE TypeOK'
  <2>1. m.from \in Proc /\ m.seqno \in Nat /\ 0 \in Proc
    BY BarriersExist, Zenon DEF TypeOK, Request
  <2>2. reqs' \subseteq Request
    BY <1>12, ReceiveType, Zenon DEF HandleRepo, TypeOK
  <2>3. rep_seqno_' \in [Proc -> [Proc -> Nat]]
    BY <1>12, <2>1, Zenon DEF HandleRepo, NewRequest, TypeOK
  <2>4. QED
    BY <1>12, <2>1, <2>2, <2>3, Zenon DEF HandleRepo, TypeOK, memory, history
<1>13. ASSUME NEW m \in reqs, HandleRepoAgain(m) PROVE TypeOK'
  <2>1. m.from \in Proc /\ m.seqno \in Nat /\ 0 \in Proc
    BY BarriersExist, Zenon DEF TypeOK, Request
  <2>2. reqs' \subseteq Request
    BY <1>13, ReceiveType, Zenon DEF HandleRepoAgain, TypeOK
  <2>3. [to |-> m.from, via |-> 0, seqno |-> m.seqno, short |-> TRUE, repo |-> FALSE,
         data |-> Zero] \in Reply
    BY <2>1, NothingType, Zenon DEF Reply
  <2>4. QED
    BY <1>13, <2>2, <2>3, Zenon DEF HandleRepoAgain, TypeOK, sync, memory, history
<1>14. ASSUME NEW m \in reqs, LoseRequest(m) PROVE TypeOK'
  BY <1>14, Zenon DEF LoseRequest, TypeOK, sync, memory, history
<1>15. ASSUME NEW m \in reps, LoseReply(m) PROVE TypeOK'
  BY <1>15, Zenon DEF LoseReply, TypeOK, sync, memory, history
<1>16. CASE UNCHANGED vars
  BY <1>16, Zenon DEF vars, TypeOK, sync, memory, history
<1>17. QED
  BY <1>1, <1>2, <1>3, <1>4, <1>5, <1>6, <1>7, <1>8, <1>9, <1>10, <1>11, <1>12,
     <1>13, <1>14, <1>15, <1>16, RepoTestType, Zenon DEF Next, Arrive, Handle, Finished

(* In every state of every behaviour, each variable of the barrier and of   *)
(* the collection is within its type.                                       *)
THEOREM TypeCorrect == Spec => []TypeOK
  BY TypeInit, TypeStep, PTL DEF Spec

-----------------------------------------------------------------------------
(* The inductive invariant behind NoEarlyExit: what numbers, masks and      *)
(* datagrams say about who has arrived where and who has been released.     *)

(* The last barrier that p has left, and the manager of the e-th. *)
Done(p) == IF pc[p] \in {"run", "repo1", "repo2"} THEN episode[p] ELSE episode[p] - 1
ManagerOf(e) == Manager(BarrierOf(e))

(* Nobody has left a barrier that somebody has still to enter, and nobody   *)
(* has left one before its manager.                                         *)
CallInv ==
  \A p \in Proc :
    /\ pc[p] \in {"spin", "wait", "got"} => episode[p] >= 1
    /\ pc[p] = "spin" => ManagerOf(episode[p]) = p
    /\ \A q \in Proc : Done(p) <= episode[q]
    /\ Done(p) >= 1 => Done(ManagerOf(Done(p))) >= Done(p)
    /\ \A e \in Episodes : left[p][e] # "no" => e <= Done(p)

(* A process in recv waits for the answer to the last request it sent. *)
SentInv ==
  \A p \in Proc :
    /\ pc[p] \in {"wait", "got"} =>
         /\ sent[p].type = "arrival" /\ sent[p].from = p
         /\ sent[p].seqno = req_seqno[p]
         /\ sent[p].id = BarrierOf(episode[p])
         /\ sent[p].to = Manager(sent[p].id) /\ sent[p].to # p
    /\ pc[p] \in {"repo1", "repo2"} /\ p # 0 =>
         /\ sent[p].type = "repo" /\ sent[p].from = p /\ sent[p].to = 0
         /\ sent[p].seqno = req_seqno[p]

(* p has an unanswered request; process 0 sends none in Tmk_repo. *)
Waits(p) == pc[p] = "wait" \/ (pc[p] \in {"repo1", "repo2"} /\ p # 0)

(* A request in flight is the one its sender waits for, or its receiver has *)
(* seen it: it carries a number that tells which.                           *)
RequestInv ==
  \A m \in reqs :
    /\ m.from # m.to
    /\ m.seqno <= req_seqno[m.from]
    /\ m.seqno = req_seqno[m.from] => m = sent[m.from]
    /\ \/ rep_seqno_[m.to][m.from] >= m.seqno
       \/ m = sent[m.from] /\ Waits(m.from)

(* Nobody has seen a number that was not used. *)
SeenInv == \A m, p \in Proc : rep_seqno_[m][p] <= req_seqno[p]

(* barrier->mask holds the manager while it spins there, and clients that   *)
(* wait there and whose arrival the manager holds.                          *)
MaskInv ==
  \A b \in Barriers :
    /\ Manager(b) \in mask[b] <=>
         pc[Manager(b)] = "spin" /\ BarrierOf(episode[Manager(b)]) = b
    /\ \A p \in mask[b] \ {Manager(b)} :
         /\ pc[p] = "wait" /\ sent[p].id = b
         /\ rep_seqno_[Manager(b)][p] = req_seqno[p]
         /\ req_from_[Manager(b)][p] = sent[p]

(* repo_mask holds processes that wait in Tmk_repo. *)
RepoMaskInv ==
  \A p \in repo_mask \ {0} :
    pc[p] \in {"repo1", "repo2"} /\ rep_seqno_[0][p] = req_seqno[p]

(* The manager of the barrier p waits in has left that barrier. *)
Released(p) == Done(sent[p].to) >= episode[p]

(* A waiting client has been released when its arrival has been seen and    *)
(* the mask no longer holds it, and only then.                              *)
ReleaseInv ==
  \A p \in Proc :
    /\ pc[p] = "wait" =>
         (Released(p) <=> /\ rep_seqno_[sent[p].to][p] = req_seqno[p]
                          /\ p \notin mask[sent[p].id])
    /\ pc[p] = "got" => Released(p) /\ rep_seqno_[sent[p].to][p] = req_seqno[p]

(* An answer in flight answers a request its sender has seen, and an answer *)
(* to the request that is waited for says that the mask was cleared.        *)
Answers(r) ==
  /\ r.to # r.via
  /\ rep_seqno_[r.via][r.to] >= r.seqno
  /\ r.seqno = req_seqno[r.to] /\ pc[r.to] = "wait" /\ r.via = sent[r.to].to
       => r.to \notin mask[sent[r.to].id]
  /\ r.seqno = req_seqno[r.to] /\ pc[r.to] \in {"repo1", "repo2"} /\ r.via = 0
       => r.to \notin repo_mask

ReplyInv == \A r \in reps : Answers(r)

SyncInv ==
  /\ TypeOK /\ CallInv /\ SentInv /\ RequestInv /\ SeenInv /\ MaskInv
  /\ RepoMaskInv /\ ReleaseInv /\ ReplyInv

(* Counters are integers, and requests and replies have their fields. *)
LEMMA SyncTypes ==
  ASSUME TypeOK
  PROVE  /\ \A p \in Proc : Done(p) \in Int /\ Done(p) <= episode[p] /\ episode[p] \in Nat
         /\ \A p \in Proc : req_seqno[p] \in Nat /\ sent[p] \in Request
         /\ \A m, p \in Proc : rep_seqno_[m][p] \in Nat
         /\ \A m \in Request : /\ m.to \in Proc /\ m.from \in Proc /\ m.id \in Barriers
                               /\ m.seqno \in Nat
         /\ \A r \in reps : r.to \in Proc /\ r.via \in Proc /\ r.seqno \in Nat
         /\ \A m \in reqs : m \in Request
         /\ \A b \in Barriers : mask[b] \subseteq Proc /\ Manager(b) \in Proc
         /\ \A e \in Nat : BarrierOf(e) \in Barriers /\ ManagerOf(e) \in Proc
<1>1. \A p \in Proc : Done(p) \in Int /\ Done(p) <= episode[p] /\ episode[p] \in Nat
  BY DEF TypeOK, Done
<1>2. \A m \in Request : m.to \in Proc /\ m.from \in Proc /\ m.id \in Barriers /\ m.seqno \in Nat
  BY Zenon DEF Request
<1>3. \A r \in reps : r.to \in Proc /\ r.via \in Proc /\ r.seqno \in Nat
  BY Zenon DEF TypeOK, Reply
<1>4. \A e \in Nat : BarrierOf(e) \in Barriers /\ ManagerOf(e) \in Proc
  BY BarriersExist, Zenon DEF ManagerOf
<1>5. /\ \A p \in Proc : req_seqno[p] \in Nat /\ sent[p] \in Request
      /\ \A m, p \in Proc : rep_seqno_[m][p] \in Nat
      /\ \A m \in reqs : m \in Request
      /\ \A b \in Barriers : mask[b] \subseteq Proc
  BY DEF TypeOK
<1>6. QED
  BY <1>1, <1>2, <1>3, <1>4, <1>5, BarriersExist, Zenon

(* Initially nobody has arrived anywhere. *)
LEMMA SyncInit == Init => SyncInv
<1> SUFFICES ASSUME Init PROVE SyncInv
  BY Zenon
<1>1. TypeOK
  BY TypeInit, Zenon
<1>2. \A p \in Proc : pc[p] = "run" /\ episode[p] = 0 /\ Done(p) = 0
  BY Zenon DEF Init, Done
<1>3. \A p \in Proc : \A e \in Episodes : left[p][e] = "no"
  BY Zenon DEF Init
<1>4. CallInv
  BY <1>2, <1>3 DEF CallInv
<1>5. SentInv /\ RequestInv /\ ReplyInv /\ RepoMaskInv /\ ReleaseInv
  BY <1>2, Zenon DEF Init, SentInv, RequestInv, ReplyInv, Answers, RepoMaskInv, ReleaseInv
<1>6. MaskInv
  <2>1. \A b \in Barriers : mask[b] = {} /\ pc[Manager(b)] = "run"
    BY <1>2, BarriersExist, Zenon DEF Init
  <2>2. QED
    BY <2>1, Zenon DEF MaskInv
<1>7. SeenInv
  BY DEF Init, SeenInv
<1>8. QED
  BY <1>1, <1>4, <1>5, <1>6, <1>7, Zenon DEF SyncInv

(* What the barrier does not look at: steps that change none of its         *)
(* variables, lose datagrams, send the request that is waited for again or  *)
(* answer one again.                                                        *)
LEMMA QuietSync ==
  ASSUME SyncInv, TypeOK', UNCHANGED <<pc, sync, repo_mask, left>>,
         \A r \in reps' : r \in reps \/ (r \in Reply /\ Answers(r)),
         \A m \in reqs' : m \in reqs \/ \E p \in Proc :
           m = sent[p] /\ Waits(p)
  PROVE  SyncInv'
<1> USE DEF SyncInv, sync
<1>1. \A p \in Proc : Done(p)' = Done(p)
  BY Zenon DEF Done
<1>2. CallInv'
  <2>1. \A p \in Proc : Done(p) >= 1 => ManagerOf(Done(p)) \in Proc
    BY SyncTypes
  <2>2. QED
    BY <1>1, <2>1 DEF CallInv
<1>3. SentInv'
  BY Zenon DEF SentInv
<1>4. RequestInv'
  <2> SUFFICES ASSUME NEW m \in reqs', m \notin reqs
               PROVE  /\ m.from # m.to
                      /\ m.seqno <= req_seqno[m.from]
                      /\ m.seqno = req_seqno[m.from] => m = sent[m.from]
                      /\ m = sent[m.from] /\ Waits(m.from)
    BY Zenon DEF RequestInv, Waits
  <2>1. PICK p \in Proc : m = sent[p] /\ Waits(p)
    BY Zenon
  <2>2. QED
    BY <2>1, SyncTypes DEF SentInv, Waits
<1>5. SeenInv' /\ RepoMaskInv'
  BY Zenon DEF SeenInv, RepoMaskInv
<1>6. MaskInv'
  BY DEF MaskInv
<1>7. ReleaseInv'
  <2>1. \A p \in Proc : sent[p].to \in Proc
    BY SyncTypes, Zenon
  <2>2. QED
    BY <1>1, <2>1, Zenon DEF ReleaseInv, Released
<1>8. ReplyInv'
  BY Zenon DEF ReplyInv, Answers
<1>9. QED
  BY <1>2, <1>3, <1>4, <1>5, <1>6, <1>7, <1>8, Zenon

(* A client arrives. *)
LEMMA ArriveClientSync ==
  ASSUME SyncInv, TypeOK', NEW p \in Proc, NEW repo \in BOOLEAN, ArriveClient(p, repo)
  PROVE  SyncInv'
<1> USE DEF SyncInv
<1> DEFINE b == BarrierOf(episode[p] + 1)
           r == [type |-> "arrival", to |-> Manager(b), from |-> p, id |-> b,
                 seqno |-> req_seqno[p] + 1, repo |-> repo,
                 vector_time |-> Tmk_interval_create(p),
                 after |-> inverse_time_[p][Manager(b)]]
<1>1. /\ pc[p] = "run" /\ pc' = [pc EXCEPT ![p] = "wait"]
      /\ episode' = [episode EXCEPT ![p] = @ + 1]
      /\ Manager(b) # p
      /\ req_seqno' = [req_seqno EXCEPT ![p] = @ + 1]
      /\ sent' = [sent EXCEPT ![p] = r]
      /\ reqs' = reqs \cup {r}
      /\ UNCHANGED <<mask, req_from_, rep_seqno_, repo_mask, reps, left>>
  BY Zenon DEF ArriveClient, Enter
<1>2. /\ r.type = "arrival" /\ r.to = Manager(b) /\ r.from = p /\ r.id = b
      /\ r.seqno = req_seqno[p] + 1
  BY Zenon
<1>3. b \in Barriers /\ Manager(b) \in Proc
  <2>1. episode[p] + 1 \in Nat
    BY SyncTypes
  <2>2. QED
    BY <2>1, SyncTypes, Zenon
<1> HIDE DEF r
<1>4. /\ pc'[p] = "wait" /\ episode'[p] = episode[p] + 1
      /\ req_seqno'[p] = req_seqno[p] + 1 /\ sent'[p] = r
      /\ \A q \in Proc \ {p} : /\ pc'[q] = pc[q] /\ episode'[q] = episode[q]
                               /\ req_seqno'[q] = req_seqno[q] /\ sent'[q] = sent[q]
  BY <1>1, Zenon DEF TypeOK
<1>5. \A q \in Proc : Done(q)' = Done(q)
  BY <1>1, <1>4, SyncTypes DEF Done
<1>6. CallInv'
  <2>1. \A q \in Proc : Done(q) >= 1 => ManagerOf(Done(q)) \in Proc
    BY SyncTypes
  <2>2. QED
    BY <1>1, <1>4, <1>5, <2>1, SyncTypes DEF CallInv
<1>7. SentInv'
  BY <1>1, <1>2, <1>4 DEF SentInv
<1>8. RequestInv'
  <2> SUFFICES ASSUME NEW m \in reqs'
               PROVE  /\ m.from # m.to
                      /\ m.seqno <= req_seqno'[m.from]
                      /\ m.seqno = req_seqno'[m.from] => m = sent'[m.from]
                      /\ \/ rep_seqno_[m.to][m.from] >= m.seqno
                         \/ m = sent'[m.from] /\ Waits(m.from)'
    BY <1>1, Zenon DEF RequestInv, Waits
  <2>1. CASE m = r
    BY <1>1, <1>2, <1>4, <2>1, SyncTypes DEF Waits
  <2>2. CASE m \in reqs /\ m.from = p
    <3>1. m.seqno <= req_seqno[p] /\ m.from # m.to /\ rep_seqno_[m.to][p] >= m.seqno
      BY <1>1, <2>2, Zenon DEF RequestInv, Waits
    <3>2. QED
      BY <1>4, <2>2, <3>1, SyncTypes
  <2>3. CASE m \in reqs /\ m.from # p
    BY <1>4, <2>3, SyncTypes, Zenon DEF RequestInv, Waits
  <2>4. QED
    BY <1>1, <2>1, <2>2, <2>3, Zenon
<1>9. SeenInv'
  BY <1>1, <1>4, SyncTypes DEF SeenInv
<1>10. MaskInv'
  <2>1. \A c \in Barriers : p \notin mask[c]
    BY <1>1 DEF MaskInv
  <2>2. \A c \in Barriers : Manager(c) \in Proc
    BY SyncTypes, Zenon
  <2>3. QED
    BY <1>1, <1>4, <2>1, <2>2, SyncTypes DEF MaskInv
<1>11. RepoMaskInv'
  <2>1. repo_mask \subseteq Proc
    BY Zenon DEF TypeOK
  <2>2. QED
    BY <1>1, <1>4, <2>1, Zenon DEF RepoMaskInv
<1>12. ReleaseInv'
  <2>1. \A q, t \in Proc : sent'[q].to = t => (Released(q)' <=> Done(t) >= episode'[q])
    BY <1>1, <1>4, SyncTypes DEF Released, Done
  <2>2. ASSUME NEW q \in Proc, q = p
        PROVE  ~ Released(q)' /\ rep_seqno_[sent'[q].to][q] # req_seqno'[q] /\ pc'[q] = "wait"
    <3>1. sent'[p].to = Manager(b)
      BY <1>2, <1>4, Zenon
    <3>2. Done(Manager(b)) <= episode[p] /\ rep_seqno_[Manager(b)][p] <= req_seqno[p]
      BY <1>3, Zenon DEF CallInv, SeenInv
    <3>3. Released(q)' <=> Done(Manager(b)) >= episode[p] + 1
      BY <1>3, <1>4, <2>1, <2>2, <3>1, Zenon
    <3>4. /\ Done(Manager(b)) \in Int /\ episode[p] \in Nat
          /\ rep_seqno_[Manager(b)][p] \in Nat /\ req_seqno[p] \in Nat
      BY <1>3, SyncTypes, Zenon
    <3>5. QED
      BY <1>4, <2>2, <3>1, <3>2, <3>3, <3>4
  <2>3. ASSUME NEW q \in Proc, q # p
        PROVE  Released(q)' <=> Released(q)
    BY <1>4, <2>1, <2>3, SyncTypes, Zenon DEF Released
  <2>4. QED
    BY <1>1, <1>4, <2>2, <2>3 DEF ReleaseInv
<1>13. ReplyInv'
  <2> SUFFICES ASSUME NEW a \in reps
               PROVE  /\ a.to # a.via
                      /\ rep_seqno_[a.via][a.to] >= a.seqno
                      /\ a.seqno = req_seqno'[a.to] /\ pc'[a.to] = "wait" /\ a.via = sent'[a.to].to
                           => a.to \notin mask[sent'[a.to].id]
                      /\ a.seqno = req_seqno'[a.to] /\ pc'[a.to] \in {"repo1", "repo2"} /\ a.via = 0
                           => a.to \notin repo_mask
    BY <1>1, Zenon DEF ReplyInv, Answers
  <2>1. CASE a.to = p
    BY <1>4, <2>1, SyncTypes DEF ReplyInv, Answers, SeenInv
  <2>2. CASE a.to # p
    BY <1>4, <2>2, SyncTypes, Zenon DEF ReplyInv, Answers
  <2>3. QED
    BY <2>1, <2>2, Zenon
<1>14. QED
  BY <1>6, <1>7, <1>8, <1>9, <1>10, <1>11, <1>12, <1>13, Zenon

(* The manager arrives. *)
LEMMA ArriveManagerSync ==
  ASSUME SyncInv, TypeOK', NEW p \in Proc, NEW repo \in BOOLEAN, ArriveManager(p, repo)
  PROVE  SyncInv'
<1> USE DEF SyncInv
<1> DEFINE b == BarrierOf(episode[p] + 1)
<1>1. /\ pc[p] = "run" /\ pc' = [pc EXCEPT ![p] = "spin"]
      /\ episode' = [episode EXCEPT ![p] = @ + 1]
      /\ Manager(b) = p
      /\ mask' = [mask EXCEPT ![b] = @ \cup {p}]
      /\ UNCHANGED <<req_from_, req_seqno, rep_seqno_, sent, repo_mask, reqs, reps, left>>
  BY Zenon DEF ArriveManager, Enter
<1>2. b \in Barriers
  <2>1. episode[p] + 1 \in Nat
    BY SyncTypes
  <2>2. QED
    BY <2>1, SyncTypes, Zenon
<1>3. /\ pc'[p] = "spin" /\ episode'[p] = episode[p] + 1
      /\ \A q \in Proc \ {p} : pc'[q] = pc[q] /\ episode'[q] = episode[q]
      /\ \A c \in Barriers : mask'[c] = IF c = b THEN mask[c] \cup {p} ELSE mask[c]
  BY <1>1, Zenon DEF TypeOK
<1> HIDE DEF b
<1>4. \A q \in Proc : Done(q)' = Done(q)
  <2>1. \A q \in Proc : episode[q] \in Nat
    BY SyncTypes, Zenon
  <2>2. pc[p] = "run"
    BY <1>1, Zenon
  <2>3. QED
    BY <1>3, <2>1, <2>2 DEF Done
<1>5. CallInv'
  <2>1. \A q \in Proc : Done(q) >= 1 => ManagerOf(Done(q)) \in Proc
    BY SyncTypes
  <2>2. ManagerOf(episode'[p]) = p
    BY <1>1, <1>3, Zenon DEF ManagerOf, b
  <2>3. QED
    BY <1>1, <1>3, <1>4, <2>1, <2>2, SyncTypes DEF CallInv
<1>6. SentInv' /\ SeenInv'
  BY <1>1, <1>3 DEF SentInv, SeenInv
<1>7. RequestInv'
  BY <1>1, <1>3, SyncTypes, Zenon DEF RequestInv, Waits
<1>8. MaskInv'
  <2>1. \A c \in Barriers : p \notin mask[c]
    BY <1>1, Zenon DEF MaskInv
  <2>2. \A c \in Barriers : Manager(c) \in Proc
    BY SyncTypes, Zenon
  <2>3. BarrierOf(episode'[p]) = b
    BY <1>3, Zenon DEF b
  <2> SUFFICES ASSUME NEW c \in Barriers
               PROVE  /\ Manager(c) \in mask'[c] <=>
                           pc'[Manager(c)] = "spin" /\ BarrierOf(episode'[Manager(c)]) = c
                      /\ \A q \in mask'[c] \ {Manager(c)} :
                           /\ pc'[q] = "wait" /\ sent[q].id = c
                           /\ rep_seqno_[Manager(c)][q] = req_seqno[q]
                           /\ req_from_[Manager(c)][q] = sent[q]
    BY <1>1 DEF MaskInv
  <2>4. CASE c = b
    <3>1. Manager(c) = p /\ mask'[c] = mask[c] \cup {p}
      BY <1>1, <1>2, <1>3, <2>4, Zenon
    <3>2. \A q \in mask[c] \ {p} : /\ pc[q] = "wait" /\ sent[q].id = c
                                   /\ rep_seqno_[p][q] = req_seqno[q]
                                   /\ req_from_[p][q] = sent[q]
      BY <3>1 DEF MaskInv
    <3>3. mask[c] \subseteq Proc
      BY SyncTypes, Zenon
    <3>4. QED
      BY <1>3, <2>3, <2>4, <3>1, <3>2, <3>3
  <2>5. CASE c # b
    <3>1. mask'[c] = mask[c] /\ Manager(c) \in Proc
      BY <1>3, <2>2, <2>5, Zenon
    <3>2. CASE Manager(c) = p
      BY <1>1, <1>3, <2>1, <2>3, <2>5, <3>1, <3>2, SyncTypes DEF MaskInv
    <3>3. CASE Manager(c) # p
      BY <1>1, <1>3, <2>1, <3>1, <3>3, SyncTypes DEF MaskInv
    <3>4. QED
      BY <3>2, <3>3, Zenon
  <2>6. QED
    BY <2>4, <2>5, Zenon
<1>9. RepoMaskInv'
  <2>1. repo_mask \subseteq Proc
    BY Zenon DEF TypeOK
  <2>2. QED
    BY <1>1, <1>3, <2>1, Zenon DEF RepoMaskInv
<1>10. ReleaseInv'
  <2>1. \A q \in Proc : sent[q].to \in Proc /\ sent[q].id \in Barriers
    BY SyncTypes, Zenon
  <2>2. ASSUME NEW q \in Proc, q # p
        PROVE  (Released(q)' <=> Released(q)) /\ (q \in mask'[sent[q].id] <=> q \in mask[sent[q].id])
    <3>1. Released(q)' <=> Done(sent[q].to) >= episode[q]
      BY <1>1, <1>3, <2>1, <2>2, SyncTypes DEF Released, Done
    <3>2. QED
      BY <1>3, <2>1, <2>2, <3>1, ZenonT(40) DEF Released
  <2>3. ASSUME NEW q \in Proc
        PROVE  /\ pc'[q] = "wait" =>
                    (Released(q)' <=> /\ rep_seqno_[sent[q].to][q] = req_seqno[q]
                                      /\ q \notin mask'[sent[q].id])
               /\ pc'[q] = "got" => /\ Released(q)'
                                    /\ rep_seqno_[sent[q].to][q] = req_seqno[q]
    <3>1. CASE q = p
      BY <1>3, <3>1, Zenon
    <3>2. CASE q # p
      BY <1>3, <2>2, <3>2, Zenon DEF ReleaseInv
    <3>3. QED
      BY <3>1, <3>2, Zenon
  <2>4. QED
    BY <1>1, <2>3, Zenon DEF ReleaseInv
<1>11. ReplyInv'
  <2>1. \A q \in Proc : sent[q].id \in Barriers
    BY SyncTypes, Zenon
  <2>2. QED
    BY <1>1, <1>3, <2>1, SyncTypes DEF ReplyInv, Answers
<1>12. QED
  BY <1>5, <1>6, <1>7, <1>8, <1>9, <1>10, <1>11, Zenon

(* p goes on from recv or from its spin loop, with a new request if it goes *)
(* on into repo_barrier and is not process 0.                               *)
Proceeds(p) ==
  /\ \A q \in Proc \ {p} : pc'[q] = pc[q]
  /\ pc'[p] \in {"run", "repo1", "repo2"}
  /\ \/ (pc'[p] = "run" \/ p = 0) /\ UNCHANGED <<req_seqno, sent, reqs>>
     \/ /\ p # 0 /\ pc'[p] # "run"
        /\ \E r \in Request :
             /\ r.type = "repo" /\ r.from = p /\ r.to = 0 /\ r.seqno = req_seqno[p] + 1
             /\ req_seqno' = [req_seqno EXCEPT ![p] = r.seqno]
             /\ sent' = [sent EXCEPT ![p] = r]
             /\ reqs' = reqs \cup {r}

(* Entering repo_barrier sends such a request. *)
LEMMA EnterRepoProceeds ==
  ASSUME TypeOK, NEW p \in Proc, EnterRepoBarrier(p),
         \A q \in Proc \ {p} : pc'[q] = pc[q],
         pc'[p] \in {"repo1", "repo2"}
  PROVE  Proceeds(p)
<1> DEFINE r == RepoRequest(p, req_seqno[p] + 1)
<1>1. req_seqno[p] + 1 \in Nat
  BY DEF TypeOK
<1>2. /\ r \in Request /\ r.type = "repo" /\ r.from = p /\ r.to = 0
      /\ r.seqno = req_seqno[p] + 1
  BY <1>1, RepoRequestType
<1>3. CASE p = 0
  BY <1>3, Zenon DEF EnterRepoBarrier, Proceeds
<1>4. CASE p # 0
  <2>1. /\ req_seqno' = [req_seqno EXCEPT ![p] = r.seqno]
        /\ sent' = [sent EXCEPT ![p] = r]
        /\ reqs' = reqs \cup {r}
    BY <1>4, Zenon DEF EnterRepoBarrier
  <2> HIDE DEF r
  <2>2. QED
    BY <1>2, <1>4, <2>1, Zenon DEF Proceeds
<1>5. QED
  BY <1>3, <1>4, Zenon

(* A process that goes on leaves no unseen request behind, and its new one  *)
(* has a number nobody has seen.                                            *)
LEMMA ProceedSync ==
  ASSUME SyncInv, NEW p \in Proc, Proceeds(p), UNCHANGED <<episode, rep_seqno_>>,
         \A m \in reqs : m.from = p => rep_seqno_[m.to][p] >= m.seqno
  PROVE  /\ SentInv' /\ RequestInv' /\ SeenInv'
         /\ \A q \in Proc \ {p} : sent'[q] = sent[q] /\ req_seqno'[q] = req_seqno[q]
         /\ req_seqno'[p] >= req_seqno[p] /\ req_seqno'[p] \in Nat
         /\ p # 0 /\ pc'[p] # "run" => req_seqno'[p] > req_seqno[p]
<1> USE DEF SyncInv
<1>1. CASE (pc'[p] = "run" \/ p = 0) /\ UNCHANGED <<req_seqno, sent, reqs>>
  <2>1. SentInv'
    BY <1>1 DEF Proceeds, SentInv
  <2>2. RequestInv'
    BY <1>1, SyncTypes, Zenon DEF Proceeds, RequestInv, Waits
  <2>3. SeenInv'
    BY <1>1, Zenon DEF SeenInv
  <2>4. req_seqno[p] \in Nat /\ req_seqno[p] >= req_seqno[p]
    <3>1. req_seqno[p] \in Nat
      BY SyncTypes, Zenon
    <3>2. QED
      BY <3>1
  <2>5. QED
    BY <1>1, <2>1, <2>2, <2>3, <2>4, Zenon
<1>2. CASE ~ ((pc'[p] = "run" \/ p = 0) /\ UNCHANGED <<req_seqno, sent, reqs>>)
  <2>1. PICK r \in Request :
             /\ r.type = "repo" /\ r.from = p /\ r.to = 0 /\ r.seqno = req_seqno[p] + 1
             /\ req_seqno' = [req_seqno EXCEPT ![p] = r.seqno]
             /\ sent' = [sent EXCEPT ![p] = r]
             /\ reqs' = reqs \cup {r}
    BY <1>2, Zenon DEF Proceeds
  <2>0. p # 0 /\ pc'[p] \in {"repo1", "repo2"}
    BY <1>2, Zenon DEF Proceeds
  <2>2. /\ sent'[p] = r /\ req_seqno'[p] = req_seqno[p] + 1
        /\ \A q \in Proc \ {p} : sent'[q] = sent[q] /\ req_seqno'[q] = req_seqno[q]
    BY <2>1, Zenon DEF TypeOK
  <2>3. \A q \in Proc : req_seqno[q] \in Nat
    BY SyncTypes, Zenon
  <2>4. SentInv'
    BY <2>0, <2>1, <2>2 DEF Proceeds, SentInv
  <2>5. SeenInv'
    <3> SUFFICES ASSUME NEW m \in Proc, NEW q \in Proc
                 PROVE  rep_seqno_[m][q] <= req_seqno'[q]
      BY Zenon DEF SeenInv
    <3>1. rep_seqno_[m][q] <= req_seqno[q] /\ rep_seqno_[m][q] \in Nat
      BY SyncTypes, Zenon DEF SeenInv
    <3>2. QED
      BY <2>2, <2>3, <3>1
  <2>6. RequestInv'
    <3> SUFFICES ASSUME NEW m \in reqs'
                 PROVE  /\ m.from # m.to
                        /\ m.seqno <= req_seqno'[m.from]
                        /\ m.seqno = req_seqno'[m.from] => m = sent'[m.from]
                        /\ \/ rep_seqno_[m.to][m.from] >= m.seqno
                           \/ m = sent'[m.from] /\ Waits(m.from)'
      BY Zenon DEF RequestInv, Waits
    <3>1. CASE m = r
      <4>1. m.from = p /\ m.to = 0 /\ m.seqno = req_seqno'[p] /\ m = sent'[p]
        BY <2>1, <2>2, <3>1, Zenon
      <4>2. req_seqno'[p] <= req_seqno'[p]
        BY <2>2, <2>3
      <4>3. Waits(p)'
        BY <2>0, Zenon DEF Waits
      <4>4. QED
        BY <2>0, <4>1, <4>2, <4>3, Zenon
    <3>2. CASE m \in reqs /\ m.from = p
      <4>1. m.seqno <= req_seqno[p] /\ m.from # m.to /\ rep_seqno_[m.to][p] >= m.seqno
        BY <3>2, Zenon DEF RequestInv, Waits
      <4>2. QED
        BY <2>2, <2>3, <3>2, <4>1, SyncTypes
    <3>3. CASE m \in reqs /\ m.from # p
      BY <2>2, <3>3, SyncTypes, Zenon DEF RequestInv, Proceeds, Waits
    <3>4. QED
      BY <2>1, <3>1, <3>2, <3>3, Zenon
  <2>7. QED
    BY <2>2, <2>3, <2>4, <2>5, <2>6
<1>3. QED
  BY <1>1, <1>2, Zenon DEF Proceeds

(* recv takes the awaited answer: the manager has left the barrier. *)
LEMMA ReceiveReplySync ==
  ASSUME SyncInv, TypeOK', NEW p \in Proc, NEW a \in reps, ReceiveReply(p, a),
         pc' # pc
  PROVE  SyncInv'
<1> USE DEF SyncInv
<1>1. /\ pc[p] = "wait" /\ pc' = [pc EXCEPT ![p] = "got"]
      /\ a.to = p /\ a.via = sent[p].to /\ a.seqno = req_seqno[p] /\ reps' \subseteq reps
      /\ UNCHANGED <<episode, mask, req_from_, req_seqno, rep_seqno_, sent, repo_mask,
                     reqs, left>>
  BY Zenon DEF ReceiveReply, sync, history
<1>2. pc'[p] = "got" /\ \A q \in Proc \ {p} : pc'[q] = pc[q]
  BY <1>1, Zenon DEF TypeOK
<1>3. /\ sent[p].to \in Proc /\ sent[p].id \in Barriers
      /\ rep_seqno_[sent[p].to][p] = req_seqno[p] /\ p \notin mask[sent[p].id]
  <2>1. sent[p].to \in Proc /\ sent[p].id \in Barriers
    BY SyncTypes, Zenon
  <2>2. rep_seqno_[sent[p].to][p] >= req_seqno[p] /\ p \notin mask[sent[p].id]
    BY <1>1, Zenon DEF ReplyInv, Answers
  <2>3. rep_seqno_[sent[p].to][p] <= req_seqno[p]
    BY <2>1, Zenon DEF SeenInv
  <2>4. rep_seqno_[sent[p].to][p] \in Nat /\ req_seqno[p] \in Nat
    BY <2>1, SyncTypes, Zenon
  <2>5. QED
    BY <2>1, <2>2, <2>3, <2>4
<1>4. Released(p)
  BY <1>1, <1>3, Zenon DEF ReleaseInv
<1>5. \A q \in Proc : Done(q)' = Done(q)
  <2>1. pc[p] = "wait" /\ episode' = episode
    BY <1>1, Zenon
  <2>2. QED
    BY <1>2, <2>1, Zenon DEF Done
<1>6. CallInv'
  <2>1. \A q \in Proc : Done(q) >= 1 => ManagerOf(Done(q)) \in Proc
    BY SyncTypes
  <2>2. QED
    BY <1>1, <1>2, <1>5, <2>1 DEF CallInv
<1>7. SentInv' /\ SeenInv'
  BY <1>1, <1>2 DEF SentInv, SeenInv
<1>8. RequestInv'
  <2> SUFFICES ASSUME NEW m \in reqs, m.from = p
               PROVE  rep_seqno_[m.to][p] >= m.seqno
    BY <1>1, <1>2, SyncTypes DEF RequestInv, Waits
  <2>1. CASE m = sent[p]
    BY <1>3, <2>1, Zenon DEF RequestInv
  <2>2. CASE m # sent[p]
    BY <2>2, Zenon DEF RequestInv
  <2>3. QED
    BY <2>1, <2>2, Zenon
<1>9. MaskInv'
  <2>1. \A c \in Barriers : p \notin mask[c]
    BY <1>1, <1>3 DEF MaskInv
  <2>2. \A c \in Barriers : mask[c] \subseteq Proc /\ Manager(c) \in Proc
    BY SyncTypes, Zenon
  <2>3. QED
    BY <1>1, <1>2, <2>1, <2>2 DEF MaskInv
<1>10. RepoMaskInv'
  <2>1. repo_mask \subseteq Proc
    BY Zenon DEF TypeOK
  <2>2. QED
    BY <1>1, <1>2, <2>1, Zenon DEF RepoMaskInv
<1>11. ReleaseInv'
  <2>1. \A q, t \in Proc : sent[q].to = t => (Released(q)' <=> Done(t) >= episode[q])
    BY <1>1, <1>5, Zenon DEF Released
  <2>2. \A q \in Proc : sent[q].to \in Proc
    BY SyncTypes, Zenon
  <2>3. \A q \in Proc : Released(q)' <=> Released(q)
    BY <2>1, <2>2, Zenon DEF Released
  <2>4. QED
    BY <1>1, <1>2, <1>3, <1>4, <2>3 DEF ReleaseInv
<1>12. ReplyInv'
  BY <1>1, <1>2, SyncTypes, Zenon DEF ReplyInv, Answers
<1>13. QED
  BY <1>6, <1>7, <1>8, <1>9, <1>10, <1>11, <1>12, Zenon

(* A new arrival: its sender waits for it and is not in the mask. *)
LEMMA HandleArrivalSync ==
  ASSUME SyncInv, TypeOK', NEW m \in reqs, HandleArrival(m.to, m)
  PROVE  SyncInv'
<1> USE DEF SyncInv
<1> DEFINE p == m.to
           c == m.from
<1>1. /\ m.type = "arrival" /\ rep_seqno_[p][c] < m.seqno
      /\ rep_seqno_' = [rep_seqno_ EXCEPT ![p][c] = m.seqno]
      /\ req_from_' = [req_from_ EXCEPT ![p][c] = m]
      /\ mask' = [mask EXCEPT ![m.id] = @ \cup {c}]
      /\ reqs' \subseteq reqs
      /\ UNCHANGED <<pc, episode, req_seqno, sent, repo_mask, reps, left>>
  BY Zenon DEF HandleArrival, NewRequest, ReceiveRequest
<1>2. /\ p \in Proc /\ c \in Proc /\ m.id \in Barriers /\ m.seqno \in Nat
      /\ rep_seqno_[p][c] \in Nat
  BY SyncTypes, Zenon
<1>3. m = sent[c] /\ Waits(c)
  BY <1>1, <1>2 DEF RequestInv
<1>4. /\ pc[c] = "wait" /\ m.seqno = req_seqno[c] /\ m.id = BarrierOf(episode[c])
      /\ p = Manager(m.id) /\ p # c /\ sent[c].to = p /\ sent[c].id = m.id
  BY <1>1, <1>2, <1>3 DEF SentInv, Waits
<1> HIDE DEF p, c
<1>5. /\ \A q, t \in Proc : rep_seqno_'[q][t] = IF q = p /\ t = c THEN req_seqno[c]
                                                              ELSE rep_seqno_[q][t]
      /\ \A q, t \in Proc : req_from_'[q][t] = IF q = p /\ t = c THEN sent[c]
                                                             ELSE req_from_[q][t]
      /\ \A d \in Barriers : mask'[d] = IF d = m.id THEN mask[d] \cup {c} ELSE mask[d]
  BY <1>1, <1>2, <1>3, <1>4, ZenonT(40) DEF TypeOK
<1>14. \A d \in Barriers : \A q \in Proc \ {c} : q \in mask'[d] <=> q \in mask[d]
  BY <1>5, Zenon
<1>6. /\ ~ Released(c)
      /\ \A q \in Proc : Done(q)' = Done(q) /\ (Released(q)' <=> Released(q))
  <2>1. rep_seqno_[p][c] # req_seqno[c]
    BY <1>1, <1>2, <1>4
  <2>2. \A q \in Proc : Done(q)' = Done(q)
    BY <1>1, Zenon DEF Done
  <2>3. \A q \in Proc : sent[q].to \in Proc
    BY SyncTypes, Zenon
  <2>4. \A q, t \in Proc : sent[q].to = t => (Released(q)' <=> Done(t) >= episode[q])
    BY <1>1, <2>2, Zenon DEF Released
  <2>5. QED
    BY <1>2, <1>4, <2>1, <2>2, <2>3, <2>4, Zenon DEF ReleaseInv, Released
<1>7. CallInv' /\ SentInv' /\ RepoMaskInv'
  <2>1. CallInv'
    <3>1. \A q \in Proc : Done(q) >= 1 => ManagerOf(Done(q)) \in Proc
      BY SyncTypes
    <3>2. QED
      BY <1>1, <1>6, <3>1, Zenon DEF CallInv
  <2>2. SentInv'
    BY <1>1, Zenon DEF SentInv
  <2>3. RepoMaskInv'
    <3>1. 0 \in Proc /\ repo_mask \subseteq Proc
      BY BarriersExist, Zenon DEF TypeOK
    <3>2. c \notin repo_mask \ {0}
      BY <1>4, Zenon DEF RepoMaskInv
    <3>3. ASSUME NEW q \in repo_mask \ {0} PROVE rep_seqno_'[0][q] = rep_seqno_[0][q]
      <4>1. q \in Proc /\ q # c
        BY <3>1, <3>2, Zenon
      <4>2. QED
        BY <1>5, <3>1, <4>1, Zenon
    <3>4. QED
      BY <1>1, <3>3, Zenon DEF RepoMaskInv
  <2>4. QED
    BY <2>1, <2>2, <2>3, Zenon
<1>8. SeenInv'
  BY <1>1, <1>5, SyncTypes DEF SeenInv
<1>9. RequestInv'
  <2> SUFFICES ASSUME NEW n \in reqs
               PROVE  \/ rep_seqno_'[n.to][n.from] >= n.seqno
                      \/ n = sent[n.from] /\ Waits(n.from)
    BY <1>1, Zenon DEF RequestInv, Waits
  <2>1. n.to \in Proc /\ n.from \in Proc /\ n.seqno <= req_seqno[n.from]
    BY SyncTypes, Zenon DEF RequestInv
  <2>2. QED
    BY <1>5, <2>1 DEF RequestInv
<1>10. MaskInv'
  <2> SUFFICES ASSUME NEW d \in Barriers
               PROVE  /\ Manager(d) \in mask'[d] <=>
                           pc[Manager(d)] = "spin" /\ BarrierOf(episode[Manager(d)]) = d
                      /\ \A q \in mask'[d] \ {Manager(d)} :
                           /\ pc[q] = "wait" /\ sent[q].id = d
                           /\ rep_seqno_'[Manager(d)][q] = req_seqno[q]
                           /\ req_from_'[Manager(d)][q] = sent[q]
    BY <1>1 DEF MaskInv
  <2>1. mask[d] \subseteq Proc /\ Manager(d) \in Proc
    BY SyncTypes, Zenon
  <2>2. \A q \in mask[d] \ {Manager(d)} :
           /\ pc[q] = "wait" /\ sent[q].id = d
           /\ rep_seqno_[Manager(d)][q] = req_seqno[q]
           /\ req_from_[Manager(d)][q] = sent[q]
    BY Zenon DEF MaskInv
  <2>3. Manager(d) \in mask[d] <=>
          pc[Manager(d)] = "spin" /\ BarrierOf(episode[Manager(d)]) = d
    BY Zenon DEF MaskInv
  <2>4. c \in mask'[d] => d = m.id
    <3> SUFFICES ASSUME c \in mask'[d], d # m.id PROVE FALSE
      BY Zenon
    <3>1. c \in mask[d]
      BY <1>5, Zenon
    <3>2. QED
      BY <1>4, <2>2, <2>3, <3>1, Zenon
  <2>5. mask'[d] \subseteq Proc
    BY Zenon DEF TypeOK
  <2>6. Manager(d) # c \/ d # m.id
    BY <1>4, Zenon
  <2>7. Manager(d) \in mask'[d] <=> Manager(d) \in mask[d]
    <3>1. CASE Manager(d) = c
      BY <1>5, <2>6, <3>1, Zenon
    <3>2. CASE Manager(d) # c
      BY <1>14, <2>1, <3>2, Zenon
    <3>3. QED
      BY <3>1, <3>2, Zenon
  <2>8. ASSUME NEW q \in mask'[d] \ {Manager(d)}
        PROVE  /\ pc[q] = "wait" /\ sent[q].id = d
               /\ rep_seqno_'[Manager(d)][q] = req_seqno[q]
               /\ req_from_'[Manager(d)][q] = sent[q]
    <3>1. CASE q = c
      <4>1. d = m.id
        BY <2>4, <3>1, Zenon
      <4>2. Manager(d) = p /\ pc[c] = "wait" /\ sent[c].id = d
        BY <1>4, <4>1, Zenon
      <4>3. rep_seqno_'[p][c] = req_seqno[c] /\ req_from_'[p][c] = sent[c]
        BY <1>2, <1>5, Zenon
      <4>4. QED
        BY <3>1, <4>2, <4>3, Zenon
    <3>2. CASE q # c
      BY <1>5, <1>14, <2>1, <2>2, <2>5, <3>2, Zenon
    <3>3. QED
      BY <3>1, <3>2, Zenon
  <2>9. QED
    BY <2>3, <2>7, <2>8, Zenon
<1>11. ReleaseInv'
  <2> SUFFICES ASSUME NEW q \in Proc
               PROVE  /\ pc[q] = "wait" =>
                           (Released(q) <=> /\ rep_seqno_'[sent[q].to][q] = req_seqno[q]
                                            /\ q \notin mask'[sent[q].id])
                      /\ pc[q] = "got" => Released(q) /\ rep_seqno_'[sent[q].to][q] = req_seqno[q]
    BY <1>1, <1>6, Zenon DEF ReleaseInv
  <2>1. sent[q].to \in Proc /\ sent[q].id \in Barriers
    BY SyncTypes, Zenon
  <2>2. CASE q = c
    BY <1>4, <1>5, <1>6, <2>1, <2>2, Zenon
  <2>3. CASE q # c
    BY <1>5, <1>14, <2>1, <2>3 DEF ReleaseInv
  <2>4. QED
    BY <2>2, <2>3, Zenon
<1>12. ReplyInv'
  <2> SUFFICES ASSUME NEW a \in reps
               PROVE  /\ a.to # a.via
                      /\ rep_seqno_'[a.via][a.to] >= a.seqno
                      /\ a.seqno = req_seqno[a.to] /\ pc[a.to] = "wait" /\ a.via = sent[a.to].to
                           => a.to \notin mask'[sent[a.to].id]
                      /\ a.seqno = req_seqno[a.to] /\ pc[a.to] \in {"repo1", "repo2"} /\ a.via = 0
                           => a.to \notin repo_mask
    BY <1>1, Zenon DEF ReplyInv, Answers
  <2>1. /\ a.to \in Proc /\ a.via \in Proc /\ a.seqno \in Nat /\ req_seqno[a.to] \in Nat
        /\ sent[a.to].id \in Barriers /\ rep_seqno_[a.via][a.to] \in Nat
    BY SyncTypes, Zenon
  <2>2. rep_seqno_[a.via][a.to] >= a.seqno /\ rep_seqno_[a.via][a.to] <= req_seqno[a.to]
    BY <2>1, Zenon DEF ReplyInv, Answers, SeenInv
  <2>3. CASE a.to = c /\ a.via = p
    <3>1. a.seqno # req_seqno[c]
      BY <1>1, <1>2, <1>4, <2>1, <2>2, <2>3
    <3>2. rep_seqno_'[p][c] = req_seqno[c] /\ pc[c] = "wait"
      BY <1>2, <1>4, <1>5, Zenon
    <3>3. rep_seqno_'[p][c] >= a.seqno
      BY <2>1, <2>2, <2>3, <3>2
    <3>4. a.to # a.via
      BY Zenon DEF ReplyInv, Answers
    <3>5. QED
      BY <2>3, <3>1, <3>2, <3>3, <3>4, Zenon
  <2>4. CASE a.to # c
    BY <1>5, <1>14, <2>1, <2>2, <2>4 DEF ReplyInv, Answers
  <2>5. CASE a.to = c /\ a.via # p
    BY <1>4, <1>5, <2>1, <2>2, <2>5, Zenon DEF ReplyInv, Answers
  <2>6. QED
    BY <2>3, <2>4, <2>5, Zenon
<1>13. QED
  BY <1>7, <1>8, <1>9, <1>10, <1>11, <1>12, Zenon

(* An arrival seen before is answered if the mask no longer holds its       *)
(* sender.                                                                  *)
LEMMA HandleArrivalAgainSync ==
  ASSUME SyncInv, TypeOK', NEW m \in reqs, HandleArrivalAgain(m.to, m)
  PROVE  SyncInv'
<1> USE DEF SyncInv
<1>1. /\ m.type = "arrival" /\ rep_seqno_[m.to][m.from] >= m.seqno
      /\ reqs' \subseteq reqs
      /\ UNCHANGED <<pc, sync, repo_mask, left>>
  BY Zenon DEF HandleArrivalAgain, OldRequest, ReceiveRequest, history
<1>2. ASSUME NEW r \in reps', r \notin reps
      PROVE  r \in Reply /\ Answers(r)
  <2>1. /\ m.from \notin mask[m.id]
        /\ r.to = m.from /\ r.via = m.to /\ r.seqno = m.seqno
    BY <1>2 DEF HandleArrivalAgain, Over
  <2>2. m.from # m.to /\ (m.seqno = req_seqno[m.from] => m = sent[m.from])
    BY Zenon DEF RequestInv
  <2>3. r \in Reply /\ m.from \in Proc
    BY SyncTypes, Zenon DEF TypeOK
  <2>4. r.seqno = req_seqno[r.to] /\ pc[r.to] \in {"repo1", "repo2"} => r.via # 0
    BY <1>1, <2>1, <2>2, <2>3, Zenon DEF SentInv
  <2>5. QED
    BY <1>1, <2>1, <2>2, <2>3, <2>4, Zenon DEF Answers
<1>3. QED
  BY <1>1, <1>2, QuietSync, Zenon

(* A request of repo_barrier seen before. *)
LEMMA HandleRepoAgainSync ==
  ASSUME SyncInv, TypeOK', NEW m \in reqs, HandleRepoAgain(m)
  PROVE  SyncInv'
<1> USE DEF SyncInv
<1>1. /\ m.type = "repo" /\ m.to = 0 /\ rep_seqno_[m.to][m.from] >= m.seqno
      /\ reqs' \subseteq reqs
      /\ UNCHANGED <<pc, sync, repo_mask, left>>
  BY Zenon DEF HandleRepoAgain, OldRequest, ReceiveRequest, history
<1>2. ASSUME NEW r \in reps', r \notin reps
      PROVE  r \in Reply /\ Answers(r)
  <2>1. /\ m.from \notin repo_mask
        /\ r.to = m.from /\ r.via = m.to /\ r.seqno = m.seqno
    BY <1>1, <1>2 DEF HandleRepoAgain
  <2>2. m.from # m.to /\ (m.seqno = req_seqno[m.from] => m = sent[m.from])
    BY Zenon DEF RequestInv
  <2>3. r \in Reply /\ m.from \in Proc
    BY SyncTypes, Zenon DEF TypeOK
  <2>4. r.seqno = req_seqno[r.to] => pc[r.to] # "wait"
    BY <1>1, <2>1, <2>2, <2>3 DEF SentInv
  <2>5. QED
    BY <1>1, <2>1, <2>2, <2>3, <2>4, Zenon DEF Answers
<1>3. QED
  BY <1>1, <1>2, QuietSync, Zenon

(* A new request of repo_barrier: its sender waits there. *)
LEMMA HandleRepoSync ==
  ASSUME SyncInv, TypeOK', NEW m \in reqs, HandleRepo(m)
  PROVE  SyncInv'
<1> USE DEF SyncInv
<1> DEFINE c == m.from
<1>1. /\ m.type = "repo" /\ m.to = 0 /\ rep_seqno_[0][c] < m.seqno
      /\ rep_seqno_' = [rep_seqno_ EXCEPT ![0][c] = m.seqno]
      /\ repo_mask' = repo_mask \cup {c}
      /\ reqs' \subseteq reqs
      /\ UNCHANGED <<pc, episode, mask, req_from_, req_seqno, sent, reps, left>>
  BY Zenon DEF HandleRepo, NewRequest, ReceiveRequest, history
<1>2. /\ 0 \in Proc /\ c \in Proc /\ m.seqno \in Nat /\ rep_seqno_[0][c] \in Nat
  BY <1>1, SyncTypes, Zenon
<1>3. m = sent[c] /\ Waits(c)
  BY <1>1, <1>2 DEF RequestInv
<1>4. pc[c] \in {"repo1", "repo2"} /\ m.seqno = req_seqno[c] /\ c # 0
  BY <1>1, <1>2, <1>3, Zenon DEF SentInv, Waits
<1> HIDE DEF c
<1>5. \A q, t \in Proc : rep_seqno_'[q][t] = IF q = 0 /\ t = c THEN req_seqno[c]
                                                              ELSE rep_seqno_[q][t]
  BY <1>1, <1>2, <1>3, <1>4, Zenon DEF TypeOK
<1>6. \A q \in Proc : Done(q)' = Done(q) /\ (Released(q)' <=> Released(q))
  <2>1. \A q \in Proc : Done(q)' = Done(q)
    BY <1>1, Zenon DEF Done
  <2>2. \A q \in Proc : sent[q].to \in Proc
    BY SyncTypes, Zenon
  <2>3. \A q, t \in Proc : sent[q].to = t => (Released(q)' <=> Done(t) >= episode[q])
    BY <1>1, <2>1, Zenon DEF Released
  <2>4. QED
    BY <2>1, <2>2, <2>3, Zenon DEF Released
<1>7. CallInv'
  <2>1. \A q \in Proc : Done(q) >= 1 => ManagerOf(Done(q)) \in Proc
    BY SyncTypes, SMTT(30)
  <2>2. QED
    BY <1>1, <1>6, <2>1, Zenon DEF CallInv
<1>8. SentInv'
  BY <1>1, Zenon DEF SentInv
<1>9. RepoMaskInv'
  <2>1. repo_mask \subseteq Proc
    BY Zenon DEF TypeOK
  <2>2. QED
    BY <1>1, <1>2, <1>4, <1>5, <2>1 DEF RepoMaskInv
<1>10. SeenInv'
  BY <1>1, <1>5, SyncTypes DEF SeenInv
<1>11. RequestInv'
  <2> SUFFICES ASSUME NEW n \in reqs
               PROVE  \/ rep_seqno_'[n.to][n.from] >= n.seqno
                      \/ n = sent[n.from] /\ Waits(n.from)
    BY <1>1, Zenon DEF RequestInv, Waits
  <2>1. n.to \in Proc /\ n.from \in Proc /\ n.seqno <= req_seqno[n.from]
    BY SyncTypes, Zenon DEF RequestInv
  <2>2. QED
    BY <1>5, <2>1, Zenon DEF RequestInv
<1>12. MaskInv'
  <2>1. \A d \in Barriers : mask[d] \subseteq Proc /\ Manager(d) \in Proc
    BY SyncTypes, Zenon
  <2>2. \A d \in Barriers : c \notin mask[d]
    BY <1>4 DEF MaskInv
  <2>3. QED
    BY <1>1, <1>5, <2>1, <2>2 DEF MaskInv
<1>13. ReleaseInv'
  <2>1. \A q \in Proc : sent[q].to \in Proc
    BY SyncTypes, Zenon
  <2>2. QED
    BY <1>1, <1>4, <1>5, <1>6, <2>1 DEF ReleaseInv
<1>14. ReplyInv'
  <2> SUFFICES ASSUME NEW a \in reps
               PROVE  Answers(a)'
    BY <1>1, Zenon DEF ReplyInv
  <2>1. /\ a.to \in Proc /\ a.via \in Proc /\ a.seqno \in Nat /\ req_seqno[a.to] \in Nat
        /\ rep_seqno_[a.via][a.to] \in Nat
    BY SyncTypes, Zenon
  <2>2. rep_seqno_[a.via][a.to] >= a.seqno /\ rep_seqno_[a.via][a.to] <= req_seqno[a.to]
    BY <2>1, Zenon DEF ReplyInv, Answers, SeenInv
  <2>3. Answers(a)
    BY Zenon DEF ReplyInv
  <2>4. CASE a.to = c /\ a.via = 0
    <3>1. a.seqno # req_seqno[c]
      BY <1>1, <1>2, <1>4, <2>1, <2>2, <2>4
    <3>2. QED
      BY <1>1, <1>4, <1>5, <2>1, <2>2, <2>3, <2>4, <3>1 DEF Answers
  <2>5. CASE a.to # c
    BY <1>1, <1>5, <2>1, <2>2, <2>3, <2>5 DEF Answers
  <2>6. CASE a.to = c /\ a.via # 0
    BY <1>1, <1>4, <1>5, <2>1, <2>2, <2>3, <2>6 DEF Answers
  <2>7. QED
    BY <2>4, <2>5, <2>6, Zenon
<1>15. QED
  BY <1>7, <1>8, <1>9, <1>10, <1>11, <1>12, <1>13, <1>14, Zenon

(* A process goes on from repo_barrier. *)
LEMMA LeaveRepoSync ==
  ASSUME SyncInv, TypeOK', NEW p \in Proc, LeaveRepoBarrier(p),
         UNCHANGED <<episode, mask, req_from_, rep_seqno_, left>>,
         \A m \in reqs : m.from = p => rep_seqno_[m.to][p] >= m.seqno,
         repo_mask' \subseteq repo_mask, p \notin repo_mask' \ {0},
         \A r \in reps' :
           /\ r.to # r.via /\ rep_seqno_[r.via][r.to] >= r.seqno
           /\ r.to # p => r \in reps \/ (pc[r.to] # "wait" /\ r.to \notin repo_mask')
  PROVE  SyncInv'
<1> USE DEF SyncInv
<1>1. /\ pc[p] \in {"repo1", "repo2"} /\ pc'[p] \in {"repo2", "run"}
      /\ \A q \in Proc \ {p} : pc'[q] = pc[q]
  BY Zenon DEF LeaveRepoBarrier, TypeOK
<1>2. Proceeds(p)
  <2>1. CASE pc[p] = "repo1"
    <3>1. EnterRepoBarrier(p) /\ pc'[p] = "repo2"
      BY <2>1, ZenonT(40) DEF LeaveRepoBarrier, TypeOK
    <3>2. QED
      BY <1>1, <3>1, EnterRepoProceeds, Zenon
  <2>2. CASE pc[p] = "repo2"
    <3>1. UNCHANGED <<req_seqno, sent, reqs>> /\ pc'[p] = "run"
      BY <2>2, Zenon DEF LeaveRepoBarrier, TypeOK
    <3>2. QED
      BY <1>1, <3>1, Zenon DEF Proceeds
  <2>3. QED
    BY <1>1, <2>1, <2>2, Zenon
<1>3. /\ SentInv' /\ RequestInv' /\ SeenInv'
      /\ \A q \in Proc \ {p} : sent'[q] = sent[q] /\ req_seqno'[q] = req_seqno[q]
      /\ req_seqno'[p] >= req_seqno[p] /\ req_seqno'[p] \in Nat
      /\ p # 0 /\ pc'[p] # "run" => req_seqno'[p] > req_seqno[p]
  BY <1>2, ProceedSync, Zenon
<1>4. \A q \in Proc : Done(q)' = Done(q)
  BY <1>1, Zenon DEF Done
<1>5. CallInv'
  <2>1. \A q \in Proc : Done(q) >= 1 => ManagerOf(Done(q)) \in Proc
    BY SyncTypes
  <2>2. QED
    BY <1>1, <1>4, <2>1, ZenonT(40) DEF CallInv
<1>6. MaskInv'
  <2>1. \A c \in Barriers : p \notin mask[c]
    BY <1>1 DEF MaskInv
  <2>2. \A c \in Barriers : mask[c] \subseteq Proc /\ Manager(c) \in Proc
    BY SyncTypes, Zenon
  <2>3. \A c \in Barriers : \A q \in mask[c] :
           sent'[q] = sent[q] /\ req_seqno'[q] = req_seqno[q] /\ pc'[q] = pc[q]
    BY <1>1, <1>3, <2>1, <2>2, Zenon
  <2>4. \A c \in Barriers : pc'[Manager(c)] = "spin" <=> pc[Manager(c)] = "spin"
    BY <1>1, <2>2, Zenon
  <2>5. QED
    BY <2>3, <2>4 DEF MaskInv
<1>7. RepoMaskInv'
  <2>1. repo_mask \subseteq Proc
    BY Zenon DEF TypeOK
  <2>2. QED
    BY <1>1, <1>3, <2>1, Zenon DEF RepoMaskInv
<1>8. ReleaseInv'
  <2>1. \A q \in Proc : sent[q].to \in Proc
    BY SyncTypes, Zenon
  <2>2. \A q, t \in Proc : sent'[q].to = t => (Released(q)' <=> Done(t) >= episode[q])
    BY <1>4, Zenon DEF Released
  <2>3. \A q \in Proc \ {p} : Released(q)' <=> Released(q)
    BY <1>3, <2>1, <2>2, Zenon DEF Released
  <2>4. QED
    BY <1>1, <1>3, <2>3, Zenon DEF ReleaseInv
<1>9. ReplyInv'
  <2> SUFFICES ASSUME NEW r \in reps' PROVE Answers(r)'
    BY Zenon DEF ReplyInv
  <2>1. r.to \in Proc /\ r.via \in Proc /\ r.seqno \in Nat
    BY Zenon DEF TypeOK, Reply
  <2>2. CASE r.to = p
    <3>1. /\ rep_seqno_[r.via][p] >= r.seqno /\ rep_seqno_[r.via][p] <= req_seqno[p]
          /\ rep_seqno_[r.via][p] \in Nat /\ req_seqno[p] \in Nat
      BY <2>1, <2>2, SyncTypes, Zenon DEF SeenInv
    <3>2. QED
      BY <1>1, <1>3, <2>1, <2>2, <3>1, Zenon DEF Answers
  <2>3. CASE r.to # p /\ r \in reps
    <3>1. Answers(r)
      BY <2>3, Zenon DEF ReplyInv
    <3>2. QED
      BY <1>1, <1>3, <2>1, <2>3, <3>1, Zenon DEF Answers
  <2>4. CASE r.to # p /\ r \notin reps
    BY <1>1, <1>3, <2>1, <2>4, Zenon DEF Answers
  <2>5. QED
    BY <2>2, <2>3, <2>4, Zenon
<1>10. QED
  BY <1>3, <1>5, <1>6, <1>7, <1>8, <1>9, Zenon

(* The awaited answer of process 0 comes back. *)
LEMMA RepoBarrierReturnSync ==
  ASSUME SyncInv, TypeOK', NEW p \in Proc, NEW a \in reps, RepoBarrierReturn(p, a),
         a.seqno = req_seqno[p]
  PROVE  SyncInv'
<1> USE DEF SyncInv
<1>1. /\ pc[p] \in {"repo1", "repo2"} /\ a.to = p /\ a.via = 0 /\ reps' \subseteq reps
      /\ LeaveRepoBarrier(p)
      /\ UNCHANGED <<episode, mask, req_from_, rep_seqno_, repo_mask, left>>
  BY Zenon DEF RepoBarrierReturn, history
<1>2. p # 0 /\ p \notin repo_mask /\ rep_seqno_[0][p] >= req_seqno[p]
  BY <1>1, Zenon DEF ReplyInv, Answers
<1>3. \A m \in reqs : m.from = p => rep_seqno_[m.to][p] >= m.seqno
  BY <1>1, <1>2 DEF RequestInv, SentInv
<1>4. \A r \in reps' : r \in reps /\ r.to # r.via /\ rep_seqno_[r.via][r.to] >= r.seqno
  BY <1>1, Zenon DEF ReplyInv, Answers
<1>5. QED
  BY <1>1, <1>2, <1>3, <1>4, LeaveRepoSync, Zenon

(* Process 0 has everyone's request: all others wait in repo_barrier. *)
LEMMA RepoBarrierCollectSync ==
  ASSUME SyncInv, TypeOK', RepoBarrierCollect
  PROVE  SyncInv'
<1> USE DEF SyncInv
<1>1. /\ pc[0] \in {"repo1", "repo2"} /\ repo_mask = Proc /\ repo_mask' = {0}
      /\ LeaveRepoBarrier(0)
      /\ UNCHANGED <<episode, mask, req_from_, rep_seqno_, left>>
  BY Zenon DEF RepoBarrierCollect, Tmk_spinmask, RepoMaskReset, history
<1>2. 0 \in Proc
  BY BarriersExist, Zenon
<1>3. \A m \in reqs : m.from = 0 => rep_seqno_[m.to][0] >= m.seqno
  BY <1>1, Zenon DEF RequestInv, Waits
<1>4. ASSUME NEW r \in reps', r \notin reps
      PROVE  /\ r.to # r.via /\ rep_seqno_[r.via][r.to] >= r.seqno
             /\ pc[r.to] # "wait" /\ r.to \notin repo_mask'
  <2>1. PICK j \in Proc \ {0} : r.to = j /\ r.via = 0 /\ r.seqno = rep_seqno_[0][j]
    BY <1>4 DEF RepoBarrierCollect
  <2>2. rep_seqno_[0][j] \in Nat
    BY <1>2, SyncTypes, Zenon
  <2>3. QED
    BY <1>1, <2>1, <2>2 DEF RepoMaskInv
<1>5. \A r \in reps : r.to # r.via /\ rep_seqno_[r.via][r.to] >= r.seqno
  BY Zenon DEF ReplyInv, Answers
<1>6. QED
  BY <1>1, <1>2, <1>3, <1>4, <1>5, LeaveRepoSync, Zenon

(* A process leaves its barrier, once everyone has entered it and its       *)
(* manager has left it.                                                     *)
LEMMA LeaveSync ==
  ASSUME SyncInv, TypeOK', NEW p \in Proc, NEW flag \in BOOLEAN,
         pc[p] \in {"spin", "got"}, Leave(p, flag),
         UNCHANGED <<episode, rep_seqno_, repo_mask>>,
         \A q \in Proc : episode[p] <= episode[q],
         p = ManagerOf(episode[p]) \/ Done(ManagerOf(episode[p])) >= episode[p],
         \A m \in reqs : m.from = p => rep_seqno_[m.to][p] >= m.seqno
  PROVE  /\ CallInv' /\ SentInv' /\ RequestInv' /\ SeenInv' /\ RepoMaskInv'
         /\ pc'[p] \in {"run", "repo1"} /\ \A q \in Proc \ {p} : pc'[q] = pc[q]
         /\ \A q \in Proc \ {p} : sent'[q] = sent[q] /\ req_seqno'[q] = req_seqno[q]
         /\ \A q \in Proc : Done(q)' = IF q = p THEN episode[p] ELSE Done(q)
         /\ \A r \in Reply :
              r.to = p /\ r.to # r.via /\ rep_seqno_[r.via][p] >= r.seqno => Answers(r)'
<1> USE DEF SyncInv
<1>1. /\ pc'[p] \in {"run", "repo1"} /\ \A q \in Proc \ {p} : pc'[q] = pc[q]
      /\ pc'[p] = "run" => UNCHANGED <<req_seqno, sent, reqs>>
      /\ pc'[p] = "repo1" => EnterRepoBarrier(p)
      /\ \A q \in Proc, e \in Episodes :
           (q # p \/ e # episode[p]) => left'[q][e] = left[q][e]
  BY SMTT(30) DEF Leave, TypeOK
<1>2. Proceeds(p)
  <2>1. CASE pc'[p] = "repo1"
    BY <1>1, <2>1, EnterRepoProceeds, Zenon
  <2>2. CASE pc'[p] = "run"
    BY <1>1, <2>2, Zenon DEF Proceeds
  <2>3. QED
    BY <1>1, <2>1, <2>2, Zenon
<1>3. /\ SentInv' /\ RequestInv' /\ SeenInv'
      /\ \A q \in Proc \ {p} : sent'[q] = sent[q] /\ req_seqno'[q] = req_seqno[q]
      /\ req_seqno'[p] >= req_seqno[p] /\ req_seqno'[p] \in Nat
      /\ p # 0 /\ pc'[p] # "run" => req_seqno'[p] > req_seqno[p]
  BY <1>2, ProceedSync, Zenon
<1>4. /\ \A q \in Proc : Done(q)' = IF q = p THEN episode[p] ELSE Done(q)
      /\ Done(p) = episode[p] - 1
  BY <1>1, Zenon DEF Done
<1>5. \A q \in Proc : Done(q) \in Int /\ episode[q] \in Nat
  BY SyncTypes, Zenon
<1>6. CallInv'
  <2> SUFFICES ASSUME NEW t \in Proc
               PROVE  /\ pc'[t] \in {"spin", "wait", "got"} => episode[t] >= 1
                      /\ pc'[t] = "spin" => ManagerOf(episode[t]) = t
                      /\ \A q \in Proc : Done(t)' <= episode[q]
                      /\ Done(t)' >= 1 => Done(ManagerOf(Done(t)))' >= Done(t)'
                      /\ \A e \in Episodes : left'[t][e] # "no" => e <= Done(t)'
    BY Zenon DEF CallInv
  <2>1. CASE t = p
    <3>1. ManagerOf(episode[p]) \in Proc
      BY SyncTypes, Zenon
    <3>2. \A e \in Episodes : left'[p][e] # "no" => e <= episode[p]
      <4> SUFFICES ASSUME NEW e \in Episodes, left'[p][e] # "no" PROVE e <= episode[p]
        BY Zenon
      <4>1. e \in Nat
        BY DEF Episodes
      <4>2. e # episode[p] => e <= Done(p)
        BY <1>1, Zenon DEF CallInv
      <4>3. Done(p) = episode[p] - 1 /\ episode[p] \in Nat
        BY <1>4, <1>5, Zenon
      <4>4. \A a, b \in Nat, d \in Int : d = b - 1 /\ (a # b => a <= d) => a <= b
        OBVIOUS
      <4>5. Done(p) \in Int
        BY SyncTypes, Zenon
      <4>6. QED
        BY <4>1, <4>2, <4>3, <4>4, <4>5, Zenon
    <3>3. Done(ManagerOf(Done(p)))' >= episode[p]
      <4>1. \A x \in Proc : x = ManagerOf(episode[p]) => Done(x)' >= episode[p]
        BY <1>4, <1>5, Zenon
      <4>2. ManagerOf(Done(p))' = ManagerOf(episode[p])
        BY <1>4, Zenon DEF ManagerOf
      <4>3. QED
        BY <3>1, <4>1, <4>2, Zenon
    <3>4. QED
      BY <1>1, <1>4, <2>1, <3>2, <3>3, Zenon
  <2>2. CASE t # p
    <3>1. Done(t) >= 1 => ManagerOf(Done(t)) \in Proc /\ Done(ManagerOf(Done(t))) >= Done(t)
      <4>1. Done(t) >= 1 => Done(t) \in Nat
        BY <1>5
      <4>2. QED
        BY <4>1, SyncTypes, Zenon DEF CallInv
    <3>2. \A q \in Proc : Done(q) >= Done(t) => Done(q)' >= Done(t)
      <4> SUFFICES ASSUME NEW q \in Proc, Done(q) >= Done(t) PROVE Done(q)' >= Done(t)
        BY Zenon
      <4>1. CASE q = p
        <5>1. Done(q)' = episode[p] /\ Done(p) = episode[p] - 1 /\ Done(p) >= Done(t)
          BY <1>4, <4>1, Zenon
        <5>2. Done(t) \in Int /\ episode[p] \in Nat
          BY <1>5, Zenon
        <5>3. QED
          BY <5>1, <5>2
      <4>2. CASE q # p
        BY <1>4, <4>2, Zenon
      <4>3. QED
        BY <4>1, <4>2, Zenon
    <3>3. \A x \in Proc : x = ManagerOf(Done(t)) /\ Done(t) >= 1 => Done(x)' >= Done(t)
      BY <3>1, <3>2, Zenon
    <3>4. ManagerOf(Done(t))' = ManagerOf(Done(t))
      BY <1>4, <2>2, Zenon DEF ManagerOf
    <3>5. Done(t) >= 1 => Done(ManagerOf(Done(t)))' >= Done(t)
      BY <3>1, <3>3, <3>4, Zenon
    <3>6. QED
      BY <1>1, <1>4, <2>2, <3>5, Zenon DEF CallInv
  <2>3. QED
    BY <2>1, <2>2, Zenon
<1>7. RepoMaskInv'
  <2>1. repo_mask \subseteq Proc
    BY Zenon DEF TypeOK
  <2>2. QED
    BY <1>1, <1>3, <2>1, Zenon DEF RepoMaskInv
<1>8. ASSUME NEW r \in Reply, r.to = p, r.to # r.via, rep_seqno_[r.via][p] >= r.seqno
      PROVE  Answers(r)'
  <2>1. r.via \in Proc /\ r.seqno \in Nat
    BY Zenon DEF Reply
  <2>2. /\ rep_seqno_[r.via][p] <= req_seqno[p]
        /\ rep_seqno_[r.via][p] \in Nat /\ req_seqno[p] \in Nat
    BY <2>1, SyncTypes, Zenon DEF SeenInv
  <2>3. ASSUME pc'[p] = "repo1", p # 0 PROVE r.seqno # req_seqno'[p]
    <3>1. req_seqno'[p] > req_seqno[p] /\ req_seqno'[p] \in Nat
      BY <1>3, <2>3, Zenon
    <3>2. rep_seqno_[r.via][p] >= r.seqno
      BY <1>8, Zenon
    <3>3. QED
      BY <2>1, <2>2, <3>1, <3>2
  <2>4. CASE p = 0
    BY <1>1, <1>8, <2>4, Zenon DEF Answers
  <2>5. CASE p # 0
    BY <1>1, <1>8, <2>3, <2>5, Zenon DEF Answers
  <2>6. QED
    BY <2>4, <2>5, Zenon
<1>9. QED
  BY <1>1, <1>3, <1>4, <1>6, <1>7, <1>8, Zenon

(* A client leaves: its manager has left, so everyone has entered. *)
LEMMA ReturnClientSync ==
  ASSUME SyncInv, TypeOK', NEW p \in Proc, ReturnClient(p)
  PROVE  SyncInv'
<1> USE DEF SyncInv
<1>1. /\ pc[p] = "got" /\ Leave(p, Flag(p)) /\ Flag(p) \in BOOLEAN
      /\ UNCHANGED <<episode, mask, req_from_, rep_seqno_, repo_mask, reps>>
  BY Zenon DEF ReturnClient, Flag, TypeOK
<1> DEFINE m == sent[p].to
<1>2. /\ m \in Proc /\ m # p /\ m = ManagerOf(episode[p]) /\ m = Manager(sent[p].id)
      /\ Done(m) >= episode[p]
      /\ rep_seqno_[m][p] = req_seqno[p]
  BY <1>1, SyncTypes, ZenonT(40) DEF SentInv, ReleaseInv, Released, ManagerOf
<1> HIDE DEF m
<1>3. \A q \in Proc : episode[p] <= episode[q]
  <2>1. \A q \in Proc : Done(m) <= episode[q] /\ Done(m) \in Int /\ episode[q] \in Nat
    BY <1>2, SyncTypes, Zenon DEF CallInv
  <2>2. QED
    BY <1>2, <2>1
<1>4. ASSUME NEW n \in reqs, n.from = p PROVE rep_seqno_[n.to][p] >= n.seqno
  BY <1>1, <1>4, Zenon DEF RequestInv, Waits
<1>5. /\ CallInv' /\ SentInv' /\ RequestInv' /\ SeenInv' /\ RepoMaskInv'
      /\ pc'[p] \in {"run", "repo1"} /\ \A q \in Proc \ {p} : pc'[q] = pc[q]
      /\ \A q \in Proc \ {p} : sent'[q] = sent[q] /\ req_seqno'[q] = req_seqno[q]
      /\ \A q \in Proc : Done(q)' = IF q = p THEN episode[p] ELSE Done(q)
      /\ \A r \in Reply :
           r.to = p /\ r.to # r.via /\ rep_seqno_[r.via][p] >= r.seqno => Answers(r)'
  BY <1>1, <1>2, <1>3, <1>4, LeaveSync, Zenon
<1>6. MaskInv'
  <2>1. \A c \in Barriers : p \notin mask[c]
    BY <1>1 DEF MaskInv
  <2>2. \A c \in Barriers : mask[c] \subseteq Proc /\ Manager(c) \in Proc
    BY SyncTypes, Zenon
  <2>3. \A c \in Barriers : \A q \in mask[c] :
           sent'[q] = sent[q] /\ req_seqno'[q] = req_seqno[q] /\ pc'[q] = pc[q]
    BY <1>5, <2>1, <2>2, Zenon
  <2>4. \A c \in Barriers : pc'[Manager(c)] = "spin" <=> pc[Manager(c)] = "spin"
    BY <1>1, <1>5, <2>2, Zenon
  <2>5. QED
    <3> SUFFICES ASSUME NEW c \in Barriers
                 PROVE  /\ Manager(c) \in mask'[c] <=>
                             pc'[Manager(c)] = "spin" /\ BarrierOf(episode'[Manager(c)]) = c
                        /\ \A q \in mask'[c] \ {Manager(c)} :
                             /\ pc'[q] = "wait" /\ sent'[q].id = c
                             /\ rep_seqno_'[Manager(c)][q] = req_seqno'[q]
                             /\ req_from_'[Manager(c)][q] = sent'[q]
      BY Zenon DEF MaskInv
    <3>1. Manager(c) \in mask[c] <=>
            pc[Manager(c)] = "spin" /\ BarrierOf(episode[Manager(c)]) = c
      BY Zenon DEF MaskInv
    <3>2. \A q \in mask[c] \ {Manager(c)} :
            /\ pc[q] = "wait" /\ sent[q].id = c
            /\ rep_seqno_[Manager(c)][q] = req_seqno[q]
            /\ req_from_[Manager(c)][q] = sent[q]
      BY Zenon DEF MaskInv
    <3>3. QED
      BY <1>1, <2>3, <2>4, <3>1, <3>2, Zenon
<1>7. ReleaseInv'
  <2> SUFFICES ASSUME NEW q \in Proc, q # p, pc[q] \in {"wait", "got"}
               PROVE  Released(q)' <=> Released(q)
    BY <1>1, <1>5, Zenon DEF ReleaseInv
  <2>1. /\ sent[q].to \in Proc /\ sent'[q] = sent[q]
        /\ sent[q].to = ManagerOf(episode[q]) /\ episode[q] \in Nat /\ episode[p] \in Nat
    <3>1. sent[q] \in Request /\ episode[q] \in Nat /\ episode[p] \in Nat
      BY SyncTypes, Zenon
    <3>2. sent[q].to \in Proc
      BY <3>1, SyncTypes, Zenon
    <3>3. sent[q].to = Manager(sent[q].id) /\ sent[q].id = BarrierOf(episode[q])
      BY Zenon DEF SentInv
    <3>4. sent'[q] = sent[q]
      BY <1>5, Zenon
    <3>5. QED
      BY <3>1, <3>2, <3>3, <3>4, Zenon DEF ManagerOf
  <2>2. \A t \in Proc : t = sent[q].to => (Released(q)' <=> Done(t)' >= episode[q])
    BY <1>1, <2>1, Zenon DEF Released
  <2>3. CASE sent[q].to # p
    BY <1>5, <2>1, <2>2, <2>3, Zenon DEF Released
  <2>4. CASE sent[q].to = p
    <3>1. episode[q] # episode[p]
      BY <1>2, <2>1, <2>4, Zenon
    <3>2. Done(p) = episode[p] - 1 /\ Done(p)' = episode[p]
      BY <1>1, <1>5, Zenon DEF Done
    <3>3. Released(q)' <=> episode[p] >= episode[q]
      BY <2>1, <2>2, <2>4, <3>2, Zenon
    <3>4. Released(q) <=> episode[p] - 1 >= episode[q]
      BY <2>4, <3>2, Zenon DEF Released
    <3>5. QED
      BY <2>1, <3>1, <3>3, <3>4
  <2>5. QED
    BY <2>3, <2>4, Zenon
<1>8. ReplyInv'
  <2> SUFFICES ASSUME NEW r \in reps PROVE Answers(r)'
    BY <1>1, Zenon DEF ReplyInv
  <2>1. Answers(r) /\ r \in Reply /\ r.to \in Proc /\ r.via \in Proc
    BY SyncTypes, Zenon DEF ReplyInv, TypeOK
  <2>2. CASE r.to = p
    BY <1>5, <2>1, <2>2, Zenon DEF Answers
  <2>3. CASE r.to # p
    BY <1>1, <1>5, <2>1, <2>3, Zenon DEF Answers
  <2>4. QED
    BY <2>2, <2>3, Zenon
<1>9. QED
  BY <1>5, <1>6, <1>7, <1>8, Zenon

(* When the mask is full every client waits in the manager's own call.      *)
LEMMA FullMask ==
  ASSUME SyncInv, NEW p \in Proc, pc[p] = "spin", mask[BarrierOf(episode[p])] = Proc
  PROVE  /\ BarrierOf(episode[p]) \in Barriers /\ Manager(BarrierOf(episode[p])) = p
         /\ \A q \in Proc \ {p} :
              /\ pc[q] = "wait" /\ sent[q].id = BarrierOf(episode[p]) /\ sent[q].to = p
              /\ rep_seqno_[p][q] = req_seqno[q]
              /\ req_from_[p][q] = sent[q] /\ sent[q].seqno = req_seqno[q]
              /\ episode[q] = episode[p]
<1> USE DEF SyncInv
<1> DEFINE b == BarrierOf(episode[p])
<1>1. b \in Barriers /\ Manager(b) = p
  BY SyncTypes, Zenon DEF CallInv, ManagerOf
<1> SUFFICES ASSUME NEW q \in Proc \ {p}
             PROVE  /\ pc[q] = "wait" /\ sent[q].id = b /\ sent[q].to = p
                    /\ rep_seqno_[p][q] = req_seqno[q]
                    /\ req_from_[p][q] = sent[q] /\ sent[q].seqno = req_seqno[q]
                    /\ episode[q] = episode[p]
  BY <1>1, Zenon
<1>2. /\ pc[q] = "wait" /\ sent[q].id = b /\ rep_seqno_[p][q] = req_seqno[q]
      /\ req_from_[p][q] = sent[q]
  BY <1>1 DEF MaskInv
<1>3. sent[q].to = p /\ sent[q].seqno = req_seqno[q]
  BY <1>1, <1>2 DEF SentInv
<1>4. ~ Released(q)
  BY <1>2, <1>3, Zenon DEF ReleaseInv
<1>5. /\ Done(p) = episode[p] - 1 /\ Done(q) = episode[q] - 1
      /\ episode[p] \in Nat /\ episode[q] \in Nat
  BY <1>2, SyncTypes, Zenon DEF Done
<1>6. episode[p] <= episode[q]
  BY <1>3, <1>4, <1>5 DEF Released
<1>7. Done(q) <= episode[p]
  BY Zenon DEF CallInv
<1>8. Done(q) # episode[p]
  <2>1. SUFFICES ASSUME Done(q) = episode[p] PROVE FALSE
    BY Zenon
  <2>2. episode[p] >= 1 /\ ManagerOf(episode[p]) = p
    BY Zenon DEF CallInv
  <2>3. Done(p) >= episode[p]
    BY <2>1, <2>2, Zenon DEF CallInv
  <2>4. QED
    BY <1>5, <2>3
<1>9. QED
  BY <1>2, <1>3, <1>5, <1>6, <1>7, <1>8, SMTT(30)

(* The manager leaves and answers everyone. *)
LEMMA ReleaseManagerSync ==
  ASSUME SyncInv, TypeOK', NEW p \in Proc, ReleaseManager(p)
  PROVE  SyncInv'
<1> USE DEF SyncInv
<1> DEFINE b == BarrierOf(episode[p])
<1>1. /\ pc[p] = "spin" /\ mask[b] = Proc /\ Leave(p, rep[p].repo) /\ rep[p].repo \in BOOLEAN
      /\ mask' = [mask EXCEPT ![b] = {}]
      /\ UNCHANGED <<episode, req_from_, rep_seqno_, repo_mask>>
  BY Zenon DEF ReleaseManager, Tmk_spinmask, TypeOK
<1>2. /\ b \in Barriers /\ Manager(b) = p
      /\ \A q \in Proc \ {p} :
           /\ pc[q] = "wait" /\ sent[q].id = b /\ sent[q].to = p
           /\ rep_seqno_[p][q] = req_seqno[q]
           /\ req_from_[p][q] = sent[q] /\ sent[q].seqno = req_seqno[q]
           /\ episode[q] = episode[p]
  BY <1>1, FullMask, Zenon
<1>3. p = ManagerOf(episode[p])
  BY <1>2, Zenon DEF ManagerOf
<1> HIDE DEF b
<1>4. \A d \in Barriers : mask'[d] = IF d = b THEN {} ELSE mask[d]
  BY <1>1, <1>2, Zenon DEF TypeOK
<1>5. \A q \in Proc : episode[p] <= episode[q]
  <2>1. \A q \in Proc : episode[q] = episode[p]
    BY <1>2, Zenon
  <2>2. episode[p] \in Nat
    BY SyncTypes, Zenon
  <2>3. episode[p] <= episode[p]
    BY <2>2
  <2>4. QED
    BY <2>1, <2>3, Zenon
<1>6. \A n \in reqs : n.from = p => rep_seqno_[n.to][p] >= n.seqno
  BY <1>1, Zenon DEF RequestInv, Waits
<1>7. /\ CallInv' /\ SentInv' /\ RequestInv' /\ SeenInv' /\ RepoMaskInv'
      /\ pc'[p] \in {"run", "repo1"} /\ \A q \in Proc \ {p} : pc'[q] = pc[q]
      /\ \A q \in Proc \ {p} : sent'[q] = sent[q] /\ req_seqno'[q] = req_seqno[q]
      /\ \A q \in Proc : Done(q)' = IF q = p THEN episode[p] ELSE Done(q)
      /\ \A r \in Reply :
           r.to = p /\ r.to # r.via /\ rep_seqno_[r.via][p] >= r.seqno => Answers(r)'
  BY <1>1, <1>3, <1>5, <1>6, LeaveSync, ZenonT(60)
<1>8. MaskInv'
  <2>1. \A d \in Barriers : mask[d] \subseteq Proc /\ Manager(d) \in Proc
    BY SyncTypes, Zenon
  <2>2. \A d \in Barriers : d # b => mask'[d] = {}
    <3> SUFFICES ASSUME NEW d \in Barriers, d # b, mask[d] # {} PROVE FALSE
      BY <1>4, Zenon
    <3>1. PICK q \in mask[d] : TRUE
      BY Zenon
    <3>2. q \in Proc
      BY <2>1, Zenon
    <3>3. /\ q = Manager(d) => pc[q] = "spin" /\ BarrierOf(episode[q]) = d
          /\ q # Manager(d) => pc[q] = "wait" /\ sent[q].id = d
      <4>1. Manager(d) \in mask[d] =>
              pc[Manager(d)] = "spin" /\ BarrierOf(episode[Manager(d)]) = d
        BY Zenon DEF MaskInv
      <4>2. \A t \in mask[d] \ {Manager(d)} : pc[t] = "wait" /\ sent[t].id = d
        BY Zenon DEF MaskInv
      <4>3. QED
        BY <3>1, <4>1, <4>2, Zenon
    <3> HIDE DEF SyncInv
    <3>4. CASE q = p
      <4>1. pc[q] # "wait"
        BY <1>1, <3>4
      <4>2. BarrierOf(episode[p]) = d
        BY <3>3, <3>4, <4>1, Zenon
      <4>3. QED
        BY <4>2, Zenon DEF b
    <3>5. CASE q # p
      <4>1. pc[q] = "wait" /\ sent[q].id = b
        BY <1>2, <3>2, <3>5, Zenon
      <4>2. pc[q] # "spin"
        BY <4>1
      <4>3. QED
        BY <3>3, <4>1, <4>2, Zenon
    <3>6. QED
      BY <3>4, <3>5, Zenon
  <2>3. \A d \in Barriers : mask'[d] = {}
    BY <1>4, <2>2, Zenon
  <2>4. \A q \in Proc : pc'[q] # "spin"
    BY <1>2, <1>7, Zenon
  <2>5. QED
    BY <2>1, <2>3, <2>4, Zenon DEF MaskInv
<1>9. ReleaseInv'
  <2> SUFFICES ASSUME NEW q \in Proc, q # p
               PROVE  Released(q)'
    <3>1. mask'[b] = {} /\ rep_seqno_' = rep_seqno_
      BY <1>1, <1>2, <1>4, Zenon
    <3>2. ASSUME NEW t \in Proc, t # p
          PROVE  rep_seqno_'[sent'[t].to][t] = req_seqno'[t] /\ t \notin mask'[sent'[t].id]
      <4>1. sent'[t] = sent[t] /\ req_seqno'[t] = req_seqno[t]
        BY <1>7, <3>2, Zenon
      <4>2. sent[t].to = p /\ sent[t].id = b /\ rep_seqno_[p][t] = req_seqno[t]
        BY <1>2, <3>2, Zenon
      <4>3. QED
        BY <3>1, <4>1, <4>2, Zenon
    <3>3. pc'[p] # "wait" /\ pc'[p] # "got"
      BY <1>7, Zenon
    <3>4. QED
      BY <3>2, <3>3, Zenon DEF ReleaseInv
  <2>1. sent'[q].to = p /\ episode'[q] = episode[p] /\ episode[p] \in Nat
    <3>1. sent'[q] = sent[q] /\ sent[q].to = p
      BY <1>2, <1>7, Zenon
    <3>2. episode'[q] = episode[p]
      BY <1>1, <1>2, Zenon
    <3>3. episode[p] \in Nat
      BY SyncTypes, Zenon
    <3>4. QED
      BY <3>1, <3>2, <3>3, Zenon
  <2>2. Done(p)' = episode[p] /\ episode[p] >= episode[p]
    <3>1. episode[p] >= episode[p]
      BY <2>1
    <3>2. QED
      BY <1>7, <3>1, Zenon
  <2>3. \A t \in Proc : t = p => Done(t)' >= episode'[q]
    BY <2>1, <2>2, Zenon
  <2>4. QED
    BY <2>1, <2>3, Zenon DEF Released
<1>10. ReplyInv'
  <2> SUFFICES ASSUME NEW r \in reps' PROVE Answers(r)'
    BY Zenon DEF ReplyInv
  <2>1. r \in Reply /\ r.to \in Proc /\ r.via \in Proc
    BY Zenon DEF TypeOK, Reply
  <2>2. r.to # r.via /\ rep_seqno_[r.via][r.to] >= r.seqno
    <3>1. CASE r \in reps
      BY <3>1, Zenon DEF ReplyInv, Answers
    <3>2. CASE r \notin reps
      <4>1. PICK j \in Proc \ {p} : r.to = j /\ r.via = p /\ r.seqno = req_from_[p][j].seqno
        BY <3>2 DEF ReleaseManager
      <4>2. rep_seqno_[p][j] = r.seqno /\ rep_seqno_[p][j] \in Nat
        BY <1>2, <4>1, SyncTypes, Zenon
      <4>3. QED
        BY <4>1, <4>2
    <3>3. QED
      BY <3>1, <3>2, Zenon
  <2>3. CASE r.to = p
    BY <1>7, <2>1, <2>2, <2>3, Zenon
  <2>4. CASE r.to # p
    <3>1. pc'[r.to] = "wait" /\ sent'[r.to].id = b
      <4>1. pc'[r.to] = pc[r.to] /\ sent'[r.to] = sent[r.to]
        BY <1>7, <2>1, <2>4, Zenon
      <4>2. pc[r.to] = "wait" /\ sent[r.to].id = b
        BY <1>2, <2>1, <2>4, Zenon
      <4>3. QED
        BY <4>1, <4>2, Zenon
    <3>2. r.to \notin mask'[sent'[r.to].id]
      BY <1>2, <1>4, <3>1, Zenon
    <3>3. pc'[r.to] \notin {"repo1", "repo2"}
      BY <3>1
    <3>4. rep_seqno_' = rep_seqno_
      BY <1>1, Zenon
    <3>5. QED
      BY <2>2, <3>2, <3>3, <3>4, Zenon DEF Answers
  <2>5. QED
    BY <2>3, <2>4, Zenon
<1>11. QED
  BY <1>7, <1>8, <1>9, <1>10, Zenon

(* Every step keeps the invariant. *)
LEMMA SyncStep == SyncInv /\ [Next]_vars => SyncInv'
<1> SUFFICES ASSUME SyncInv, [Next]_vars PROVE SyncInv'
  BY Zenon
<1>1. TypeOK /\ TypeOK'
  BY TypeStep, Zenon DEF SyncInv
<1>2. ASSUME NEW p \in Proc, Write(p) PROVE SyncInv'
  BY <1>1, <1>2, QuietSync, Zenon DEF Write, history
<1>3. ASSUME NEW p \in Proc, Arrive(p) PROVE SyncInv'
  <2>1. PICK repo \in BOOLEAN : ArriveManager(p, repo) \/ ArriveClient(p, repo)
    BY <1>3, Zenon DEF Arrive, RepoTest
  <2>2. QED
    BY <1>1, <2>1, ArriveManagerSync, ArriveClientSync, Zenon
<1>4. ASSUME NEW p \in Proc, Rexmit(p) PROVE SyncInv'
  BY <1>1, <1>4, QuietSync, Zenon DEF Rexmit, history, Waits
<1>5. ASSUME NEW p \in Proc, ReleaseManager(p) PROVE SyncInv'
  BY <1>1, <1>5, ReleaseManagerSync, Zenon
<1>6. ASSUME NEW p \in Proc, ReturnClient(p) PROVE SyncInv'
  BY <1>1, <1>6, ReturnClientSync, Zenon
<1>7. ASSUME NEW p \in Proc, NEW a \in reps, ReceiveReply(p, a) PROVE SyncInv'
  <2>1. CASE pc' # pc
    BY <1>1, <1>7, <2>1, ReceiveReplySync, Zenon
  <2>2. CASE pc' = pc
    BY <1>1, <1>7, <2>2, QuietSync, Zenon DEF ReceiveReply, history
  <2>3. QED
    BY <2>1, <2>2, Zenon
<1>8. ASSUME NEW p \in Proc, NEW a \in reps, RepoBarrierReturn(p, a) PROVE SyncInv'
  <2>1. CASE a.seqno = req_seqno[p]
    BY <1>1, <1>8, <2>1, RepoBarrierReturnSync, Zenon
  <2>2. CASE a.seqno # req_seqno[p]
    BY <1>1, <1>8, <2>2, QuietSync, Zenon DEF RepoBarrierReturn, history, sync
  <2>3. QED
    BY <2>1, <2>2, Zenon
<1>9. ASSUME RepoBarrierCollect PROVE SyncInv'
  BY <1>1, <1>9, RepoBarrierCollectSync, Zenon
<1>10. ASSUME NEW m \in reqs, Handle(m) PROVE SyncInv'
  BY <1>1, <1>10, HandleArrivalSync, HandleArrivalAgainSync, HandleRepoSync,
     HandleRepoAgainSync, Zenon DEF Handle
<1>11. ASSUME NEW m \in reqs, LoseRequest(m) PROVE SyncInv'
  BY <1>1, <1>11, QuietSync, Zenon DEF LoseRequest, history
<1>12. ASSUME NEW m \in reps, LoseReply(m) PROVE SyncInv'
  BY <1>1, <1>12, QuietSync, Zenon DEF LoseReply, history
<1>13. CASE UNCHANGED vars
  BY <1>1, <1>13, QuietSync, Zenon DEF vars, history
<1>14. QED
  BY <1>2, <1>3, <1>4, <1>5, <1>6, <1>7, <1>8, <1>9, <1>10, <1>11, <1>12, <1>13, Zenon
     DEF Next, Finished

(* Numbers, masks and datagrams agree in every reachable state. *)
LEMMA SyncCorrect == Spec => []SyncInv
  BY SyncInit, SyncStep, PTL DEF Spec

(* Nobody leaves a barrier before everyone has entered it, for any number   *)
(* of processes, barriers and calls, with datagrams lost, repeated and late *)
(* (Tmk_barrier and its two handlers): what a process has left, Done counts,*)
(* and Done never exceeds the calls another process has begun.              *)
THEOREM BarrierHolds == Spec => []NoEarlyExit
<1>1. SyncInv => NoEarlyExit
  <2> SUFFICES ASSUME SyncInv, NEW p \in Proc, NEW q \in Proc, NEW e \in Episodes,
                      left[p][e] # "no"
               PROVE  episode[q] >= e
    BY Zenon DEF NoEarlyExit
  <2>1. e <= Done(p) /\ Done(p) <= episode[q]
    BY Zenon DEF SyncInv, CallInv
  <2>2. e \in Int /\ Done(p) \in Int /\ episode[q] \in Int
    <3>1. Done(p) \in Int /\ episode[q] \in Nat
      BY SyncTypes, Zenon DEF SyncInv
    <3>2. e \in Int
      BY DEF Episodes
    <3>3. QED
      BY <3>1, <3>2
  <2>3. QED
    BY <2>1, <2>2
<1>2. QED
  BY <1>1, SyncCorrect, PTL

-----------------------------------------------------------------------------
(* A process in a barrier or in a collection has its interval closed. *)
ClosedInv == \A p \in Proc : pc[p] # "run" => ~ dirty[p]

LEMMA ClosedInit == Init => ClosedInv
  BY Zenon DEF Init, ClosedInv

LEMMA ClosedStep == TypeOK /\ TypeOK' /\ ClosedInv /\ [Next]_vars => ClosedInv'
<1> SUFFICES ASSUME TypeOK, TypeOK', ClosedInv, [Next]_vars PROVE ClosedInv'
  BY Zenon
<1>1. ASSUME NEW p \in Proc, Write(p) PROVE ClosedInv'
  BY <1>1, Zenon DEF Write, ClosedInv, TypeOK
<1>2. ASSUME NEW p \in Proc, Arrive(p) PROVE ClosedInv'
  <2>1. dirty' = [dirty EXCEPT ![p] = FALSE] /\ \A q \in Proc \ {p} : pc'[q] = pc[q]
    BY <1>2 DEF Arrive, ArriveManager, ArriveClient, Enter, TypeOK
  <2>2. QED
    BY <2>1, Zenon DEF ClosedInv, TypeOK
<1>3. ASSUME NEW p \in Proc, pc[p] # "run", dirty' = dirty,
             \A q \in Proc \ {p} : pc'[q] = pc[q]
      PROVE  ClosedInv'
  BY <1>3, Zenon DEF ClosedInv
<1>4. ASSUME NEW p \in Proc, ReleaseManager(p) \/ ReturnClient(p) PROVE ClosedInv'
  <2>1. pc[p] # "run" /\ dirty' = dirty /\ \A q \in Proc \ {p} : pc'[q] = pc[q]
    BY <1>4, Zenon DEF ReleaseManager, ReturnClient, Leave, TypeOK
  <2>2. QED
    BY <1>3, <2>1, Zenon
<1>5. ASSUME NEW p \in Proc, NEW a \in reps, ReceiveReply(p, a) \/ RepoBarrierReturn(p, a)
      PROVE  ClosedInv'
  <2>1. pc[p] # "run" /\ dirty' = dirty /\ \A q \in Proc \ {p} : pc'[q] = pc[q]
    <3>1. CASE ReceiveReply(p, a)
      BY <3>1, Zenon DEF ReceiveReply, TypeOK, memory
    <3>2. CASE RepoBarrierReturn(p, a)
      <4>1. /\ pc[p] \in {"repo1", "repo2"} /\ dirty' = dirty
            /\ \/ pc' = pc
               \/ \E s \in {"repo2", "run"} : pc' = [pc EXCEPT ![p] = s]
        BY <3>2, Zenon DEF RepoBarrierReturn, LeaveRepoBarrier
      <4>2. QED
        BY <4>1, Zenon DEF TypeOK
    <3>3. QED
      BY <1>5, <3>1, <3>2, Zenon
  <2>2. QED
    BY <1>3, <2>1, Zenon
<1>6. ASSUME RepoBarrierCollect PROVE ClosedInv'
  <2>1. pc[0] # "run" /\ dirty' = dirty /\ \A q \in Proc \ {0} : pc'[q] = pc[q]
    BY <1>6, Zenon DEF RepoBarrierCollect, LeaveRepoBarrier, TypeOK
  <2>2. QED
    BY <1>3, <2>1, BarriersExist, Zenon
<1>7. ASSUME UNCHANGED <<pc, dirty>> PROVE ClosedInv'
  BY <1>7, Zenon DEF ClosedInv
<1>8. ASSUME NEW m \in reqs, Handle(m) PROVE UNCHANGED <<pc, dirty>>
  BY <1>8, Zenon DEF Handle, HandleArrival, HandleArrivalAgain, HandleRepo, HandleRepoAgain, memory
<1>9. QED
  BY <1>1, <1>2, <1>4, <1>5, <1>6, <1>7, <1>8, Zenon
     DEF Next, Finished, vars, memory, Rexmit, LoseRequest, LoseReply

(* A process takes in intervals of others only with its own interval closed *)
(* (Tmk_barrier and Tmk_barrier_sigio_handler): it has arrived itself, or   *)
(* it is leaving.                                                           *)
THEOREM LearnsClosed == Spec => ClosedBeforeLearning
<1>1. ASSUME SyncInv, ClosedInv, TypeOK', ClosedInv', [Next]_vars,
             NEW p \in Proc, NEW q \in Proc, p # q,
             proc_vector_time_'[p][q] > proc_vector_time_[p][q]
      PROVE  ~ dirty'[p]
  <2> USE DEF SyncInv
  <2>0. proc_vector_time_'[p] # proc_vector_time_[p]
    <3>1. proc_vector_time_[p][q] \in Nat
      BY <1>1 DEF TypeOK, VectorTime
    <3>2. proc_vector_time_'[p][q] # proc_vector_time_[p][q]
      BY <1>1, <3>1
    <3>3. QED
      BY <3>2, Zenon
  <2>1. ASSUME NEW t \in Proc, Arrive(t) PROVE ~ dirty'[p]
    <3>1. t = p
      BY <1>1, <2>0, <2>1, ZenonT(40) DEF Arrive, ArriveManager, ArriveClient, TypeOK
    <3>2. dirty' = [dirty EXCEPT ![t] = FALSE]
      BY <2>1, Zenon DEF Arrive, ArriveManager, ArriveClient, Enter
    <3>3. QED
      BY <1>1, <3>1, <3>2, Zenon DEF TypeOK
  <2>2. ASSUME NEW t \in Proc, ReturnClient(t) PROVE ~ dirty'[p]
    <3>1. t = p
      BY <1>1, <2>0, <2>2, Zenon DEF ReturnClient, TypeOK
    <3>2. QED
      BY <1>1, <2>2, <3>1, Zenon DEF ReturnClient, ClosedInv
  <2>3. ASSUME NEW m \in reqs, HandleArrival(m.to, m) PROVE ~ dirty'[p]
    <3>0. m.to \in Proc
      BY <1>1, SyncTypes, Zenon
    <3>1. m.to = p /\ p \in mask[m.id] /\ dirty' = dirty
      BY <1>1, <2>0, <2>3, <3>0 DEF HandleArrival, Arrived, TypeOK
    <3>2. pc[p] # "run"
      <4>1. m.id \in Barriers
        BY <1>1, SyncTypes, Zenon
      <4>2. QED
        BY <1>1, <3>1, <4>1 DEF MaskInv
    <3>3. QED
      BY <1>1, <3>1, <3>2, Zenon DEF ClosedInv
  <2>4. ASSUME NEW t \in Proc, LeaveRepoBarrier(t) PROVE FALSE
    <3>1. proc_vector_time_' = proc_vector_time_
            \/ proc_vector_time_' = [proc_vector_time_ EXCEPT ![t] = Zero]
      BY <2>4, Zenon DEF LeaveRepoBarrier
    <3>2. proc_vector_time_'[p] = proc_vector_time_[p] \/ proc_vector_time_'[p] = Zero
      BY <1>1, <3>1, Zenon DEF TypeOK
    <3>3. Zero[q] = 0 /\ proc_vector_time_[p][q] \in Nat
      BY <1>1 DEF Zero, TypeOK, VectorTime
    <3>4. proc_vector_time_'[p][q] # 0
      BY <1>1, <3>3
    <3>5. QED
      BY <2>0, <3>2, <3>3, <3>4, Zenon
  <2>5. proc_vector_time_' # proc_vector_time_
    BY <2>0, Zenon
  <2>6. QED
    BY <1>1, <2>1, <2>2, <2>3, <2>4, <2>5, BarriersExist, Zenon
       DEF Next, Finished, vars, memory, Write, Rexmit, LoseRequest, LoseReply, Handle,
           HandleArrivalAgain, HandleRepo, HandleRepoAgain, ReceiveReply, RepoBarrierReturn,
           ReleaseManager, RepoBarrierCollect
<1>2. SyncInv /\ SyncInv' /\ ClosedInv /\ ClosedInv' /\ [Next]_vars =>
        [\A p, q \in Proc : p # q /\ proc_vector_time_'[p][q] > proc_vector_time_[p][q]
                              => ~ dirty'[p]]_vars
  BY <1>1, Zenon DEF SyncInv
<1>3. Spec => []ClosedInv
  <2>1. TypeOK /\ TypeOK' /\ ClosedInv /\ [Next]_vars => ClosedInv'
    BY ClosedStep, Zenon
  <2>2. QED
    BY <2>1, ClosedInit, TypeCorrect, PTL DEF Spec
<1>4. QED
  BY <1>2, <1>3, SyncCorrect, PTL DEF Spec, ClosedBeforeLearning

=============================================================================
