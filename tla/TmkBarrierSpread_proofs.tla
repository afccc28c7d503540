----------------------- MODULE TmkBarrierSpread_proofs -----------------------
(***************************************************************************)
(* What the barriers of TmkBarrier spread, when the program uses one        *)
(* barrier: process 0 is then the manager of every call, and only clients   *)
(* wait for answers.  Any number of processes, a network that loses and     *)
(* repeats datagrams, with or without collections, any bounds.              *)
(***************************************************************************)
EXTENDS TmkBarrier_proofs

(* v covers what every process had closed when it entered call e. *)
Covers(v, e) == \A t \in Proc : v[t] >= arrivedAt[t][e]

(* What a client has sent, has been answered and remembers of process 0. *)
ClientData(q) ==
  /\ pc[q] \in {"wait", "got"} => proc_vector_time_[q][q] = arrivedAt[q][episode[q]]
  /\ pc[q] = "wait" => sent[q].vector_time[q] = arrivedAt[q][episode[q]]
  /\ pc[q] = "wait" /\ ~ Released(q) => sent[q].after <= proc_vector_time_[0][q]
  /\ pc[q] \in {"wait", "got"} /\ Released(q) => Covers(proc_vector_time_[0], episode[q])
  /\ pc[q] = "got" => /\ Covers(rep[q].data, episode[q])
                      /\ \A t \in Proc : rep[q].data[t] <= proc_vector_time_[0][t]
  /\ pc[q] = "run" => inverse_time_[q][0] <= proc_vector_time_[0][q]
  /\ pc[q] = "repo2" => inverse_time_[q][0] = 0

(* The awaited answer is a whole one, covers the call and says no more than *)
(* process 0 knows.                                                         *)
AnswerData(r) ==
  pc[r.to] = "wait" /\ r.seqno = req_seqno[r.to] /\ r.via = sent[r.to].to =>
    /\ ~ r.short
    /\ Covers(r.data, episode[r.to])
    /\ \A t \in Proc : r.data[t] <= proc_vector_time_[0][t]

(* The manager has taken in the arrivals it holds. *)
ManagerData ==
  pc[0] = "spin" =>
    \A q \in mask[0] : proc_vector_time_[0][q] >= arrivedAt[q][episode[q]]

DataInv ==
  /\ gap = {}
  /\ \A q \in Proc : episode[q] <= MaxEpisodes
  /\ \A m \in reqs : m.to = 0
  /\ \A q \in Proc \ {0} : ClientData(q)
  /\ \A r \in reps : AnswerData(r)
  /\ ManagerData

(* Who is in the mask of a barrier and does not manage it waits there. *)
LEMMA MaskedWait ==
  ASSUME SyncInv
  PROVE  \A b \in Barriers : \A t \in mask[b] \ {Manager(b)} : pc[t] = "wait"
<1>1. MaskInv
  BY Zenon DEF SyncInv
<1>2. QED
  BY <1>1, Zenon DEF MaskInv

LEMMA OneManager ==
  ASSUME NBarriers = 1, SyncInv
  PROVE  /\ Barriers = {0} /\ 0 \in Proc /\ Manager(0) = 0
         /\ \A e \in Nat : BarrierOf(e) = 0 /\ ManagerOf(e) = 0
         /\ \A q \in Proc : pc[q] = "spin" => q = 0
         /\ \A q \in Proc : pc[q] \in {"wait", "got"} =>
              /\ q # 0 /\ sent[q].to = 0 /\ sent[q].id = 0 /\ episode[q] >= 1
              /\ Released(q) <=> Done(0) >= episode[q]
         /\ \A r \in reps :
              pc[r.to] = "wait" /\ r.seqno = req_seqno[r.to] /\ r.via = sent[r.to].to
                => Released(r.to)
<1> USE DEF SyncInv
<1>1. Barriers = {0} /\ 0 \in Proc /\ Manager(0) = 0
  BY BarriersExist, NProcsAssumption DEF Barriers, Manager
<1>2. \A e \in Nat : BarrierOf(e) = 0 /\ ManagerOf(e) = 0
  BY <1>1, SyncTypes, Zenon DEF ManagerOf
<1>3. \A q \in Proc : pc[q] = "spin" => q = 0
  BY <1>2, SyncTypes, Zenon DEF CallInv
<1>4. \A q \in Proc : pc[q] \in {"wait", "got"} =>
        /\ q # 0 /\ sent[q].to = 0 /\ sent[q].id = 0 /\ episode[q] >= 1
        /\ Released(q) <=> Done(0) >= episode[q]
  BY <1>1, <1>2, SyncTypes DEF SentInv, CallInv, Released
<1>5. ASSUME NEW r \in reps, pc[r.to] = "wait", r.seqno = req_seqno[r.to],
             r.via = sent[r.to].to
      PROVE  Released(r.to)
  <2>1. r.to \in Proc /\ r.via \in Proc
    BY SyncTypes, Zenon
  <2>2. rep_seqno_[r.via][r.to] >= r.seqno /\ r.to \notin mask[sent[r.to].id]
    BY <1>5, Zenon DEF ReplyInv, Answers
  <2>3. /\ rep_seqno_[r.via][r.to] <= req_seqno[r.to]
        /\ rep_seqno_[r.via][r.to] \in Nat /\ req_seqno[r.to] \in Nat
    BY <2>1, SyncTypes, Zenon DEF SeenInv
  <2>4. rep_seqno_[sent[r.to].to][r.to] = req_seqno[r.to]
    BY <1>5, <2>2, <2>3
  <2>5. QED
    BY <1>5, <2>1, <2>2, <2>4, Zenon DEF ReleaseInv
<1>6. QED
  BY <1>1, <1>2, <1>3, <1>4, <1>5, Zenon

(* Intervals are counted, in process and in answers. *)
LEMMA DataTypes ==
  ASSUME TypeOK, DataInv
  PROVE  /\ \A p, t \in Proc : proc_vector_time_[p][t] \in Nat /\ inverse_time_[p][t] \in Nat
         /\ \A p, t \in Proc : rep[p].data[t] \in Nat /\ sent[p].vector_time[t] \in Nat
         /\ \A p \in Proc : sent[p].after \in Nat
         /\ \A r \in reps : r.to \in Proc /\ \A t \in Proc : r.data[t] \in Nat
         /\ \A t \in Proc, e \in Episodes : arrivedAt[t][e] \in Nat
         /\ \A q \in Proc : /\ episode[q] \in Nat /\ episode[q] <= MaxEpisodes
                            /\ episode[q] >= 1 => episode[q] \in Episodes
<1>1. \A p, t \in Proc : proc_vector_time_[p][t] \in Nat /\ inverse_time_[p][t] \in Nat
  BY DEF TypeOK, VectorTime
<1>2. \A p, t \in Proc : rep[p].data[t] \in Nat
  BY DEF TypeOK, VectorTime
<1>3. \A p \in Proc : sent[p].after \in Nat /\ \A t \in Proc : sent[p].vector_time[t] \in Nat
  BY DEF TypeOK, VectorTime, Request
<1>4. \A r \in reps : r.to \in Proc /\ \A t \in Proc : r.data[t] \in Nat
  BY Zenon DEF TypeOK, VectorTime, Reply
<1>5. \A t \in Proc, e \in Episodes : arrivedAt[t][e] \in Nat
  BY DEF TypeOK
<1>6. \A q \in Proc : episode[q] \in Nat /\ episode[q] <= MaxEpisodes
  BY Zenon DEF TypeOK, DataInv
<1>7. QED
  BY <1>1, <1>2, <1>3, <1>4, <1>5, <1>6, BoundAssumption DEF Episodes

(* Nothing of what ClientData says about q changes, process 0 apart. *)
SameClient(q) ==
  /\ pc'[q] = pc[q] /\ episode'[q] = episode[q]
  /\ sent'[q] = sent[q] /\ req_seqno'[q] = req_seqno[q]
  /\ inverse_time_'[q] = inverse_time_[q]
  /\ proc_vector_time_'[q][q] = proc_vector_time_[q][q]
  /\ pc[q] = "got" => rep'[q] = rep[q]

(* While process 0 leaves no barrier and forgets nothing, what clients have *)
(* been told stays true.                                                    *)
LEMMA DataKeep ==
  ASSUME NBarriers = 1, SyncInv, SyncInv', DataInv,
         gap' = {}, ManagerData', \A q \in Proc : episode'[q] <= MaxEpisodes,
         \A m \in reqs' : m.to = 0,
         Done(0)' = Done(0),
         \A t \in Proc : proc_vector_time_'[0][t] >= proc_vector_time_[0][t],
         \A t \in Proc, e \in Episodes :
           e <= episode[t] => arrivedAt'[t][e] = arrivedAt[t][e],
         \A q \in Proc \ {0} : SameClient(q) \/ ClientData(q)',
         \A r \in reps' : (r \in reps /\ SameClient(r.to)) \/ AnswerData(r)'
  PROVE  DataInv'
<1>1. TypeOK /\ TypeOK'
  BY Zenon DEF SyncInv
<1>2. \A t \in Proc : proc_vector_time_[0][t] \in Nat /\ proc_vector_time_'[0][t] \in Nat
  BY <1>1, OneManager DEF TypeOK, VectorTime
<1>3. \A q \in Proc : episode[q] \in Nat /\ Done(q) \in Int
  BY <1>1, SyncTypes, Zenon
<1>4. ASSUME NEW q \in Proc, pc[q] \in {"wait", "got"}
      PROVE  /\ episode[q] \in Episodes
             /\ Released(q) => \A t \in Proc :
                                 arrivedAt'[t][episode[q]] = arrivedAt[t][episode[q]]
             /\ arrivedAt'[q][episode[q]] = arrivedAt[q][episode[q]]
  <2>1. episode[q] \in Episodes /\ (Released(q) <=> Done(0) >= episode[q]) /\ 0 \in Proc
    BY <1>1, <1>4, OneManager, DataTypes, Zenon
  <2>2. \A t \in Proc : Done(0) <= episode[t]
    BY <2>1, Zenon DEF SyncInv, CallInv
  <2>3. Released(q) => \A t \in Proc : episode[q] <= episode[t]
    BY <1>3, <2>1, <2>2
  <2>4. QED
    BY <1>3, <2>1, <2>3
<1>5. ASSUME NEW q \in Proc \ {0}, SameClient(q) PROVE ClientData(q)'
  <2>1. ClientData(q)
    BY Zenon DEF DataInv
  <2>2. pc[q] \in {"wait", "got"} => (Released(q)' <=> Released(q))
    <3> SUFFICES ASSUME pc[q] \in {"wait", "got"} PROVE Released(q)' <=> Released(q)
      BY Zenon
    <3>1. sent[q].to = 0 /\ sent'[q].to = 0 /\ episode'[q] = episode[q]
      BY <1>5, OneManager, Zenon DEF SameClient
    <3>2. QED
      BY <3>1, Zenon DEF Released
  <2>3. \A t \in Proc : /\ rep[q].data[t] \in Nat /\ inverse_time_[q][t] \in Nat
                        /\ sent[q].after \in Nat
    BY <1>1, DataTypes, Zenon
  <2>4. pc[q] \in {"wait", "got"} =>
          \A t \in Proc : arrivedAt[t][episode[q]] \in Nat
    BY <1>1, <1>4, DataTypes, Zenon
  <2>5. CASE pc[q] = "wait"
    <3>1. /\ pc'[q] = "wait" /\ episode'[q] = episode[q] /\ sent'[q] = sent[q]
          /\ proc_vector_time_'[q][q] = proc_vector_time_[q][q]
      BY <1>5, <2>5, Zenon DEF SameClient
    <3>2. /\ proc_vector_time_[q][q] = arrivedAt[q][episode[q]]
          /\ sent[q].vector_time[q] = arrivedAt[q][episode[q]]
          /\ arrivedAt'[q][episode[q]] = arrivedAt[q][episode[q]]
      BY <1>4, <2>1, <2>5, Zenon DEF ClientData
    <3>3. CASE Released(q)
      <4>1. \A t \in Proc : /\ proc_vector_time_[0][t] >= arrivedAt[t][episode[q]]
                            /\ arrivedAt'[t][episode[q]] = arrivedAt[t][episode[q]]
        BY <1>4, <2>1, <2>5, <3>3, Zenon DEF ClientData, Covers
      <4>2. \A t \in Proc : arrivedAt[t][episode[q]] \in Nat
        BY <2>4, <2>5, Zenon
      <4>3. \A t \in Proc : proc_vector_time_'[0][t] >= arrivedAt[t][episode[q]]
        BY <1>2, <4>1, <4>2
      <4>4. \A t \in Proc : proc_vector_time_'[0][t] >= arrivedAt'[t][episode[q]]
        BY <4>1, <4>3, Zenon
      <4>5. Released(q)'
        BY <2>2, <2>5, <3>3, Zenon
      <4>6. QED
        BY <3>1, <3>2, <4>4, <4>5, Zenon DEF ClientData, Covers
    <3>4. CASE ~ Released(q)
      <4>1. sent[q].after <= proc_vector_time_[0][q] /\ sent[q].after \in Nat
        BY <2>1, <2>3, <2>5, <3>4, Zenon DEF ClientData
      <4>2. sent[q].after <= proc_vector_time_'[0][q]
        BY <1>2, <4>1
      <4>3. ~ Released(q)'
        BY <2>2, <2>5, <3>4, Zenon
      <4>4. QED
        BY <3>1, <3>2, <4>2, <4>3, Zenon DEF ClientData
    <3>5. QED
      BY <3>3, <3>4, Zenon
  <2>6. CASE pc[q] = "got"
    <3>1. /\ pc'[q] = "got" /\ episode'[q] = episode[q] /\ rep'[q] = rep[q]
          /\ proc_vector_time_'[q][q] = proc_vector_time_[q][q]
      BY <1>5, <2>6, Zenon DEF SameClient
    <3>2. Released(q) /\ Released(q)'
      BY <2>2, <2>6, Zenon DEF SyncInv, ReleaseInv
    <3>3. \A t \in Proc : arrivedAt'[t][episode[q]] = arrivedAt[t][episode[q]]
      BY <1>4, <2>6, <3>2, Zenon
    <3>4. \A t \in Proc : /\ rep[q].data[t] <= proc_vector_time_[0][t]
                          /\ proc_vector_time_[0][t] >= arrivedAt[t][episode[q]]
                          /\ rep[q].data[t] >= arrivedAt[t][episode[q]]
      BY <2>1, <2>6, <3>2, Zenon DEF ClientData, Covers
    <3>5. \A t \in Proc : /\ rep[q].data[t] <= proc_vector_time_'[0][t]
                          /\ proc_vector_time_'[0][t] >= arrivedAt[t][episode[q]]
      BY <1>2, <2>3, <2>4, <2>6, <3>4
    <3>6. proc_vector_time_[q][q] = arrivedAt[q][episode[q]]
      BY <2>1, <2>6, Zenon DEF ClientData
    <3>7. QED
      BY <2>6, <3>1, <3>3, <3>4, <3>5, <3>6 DEF ClientData, Covers
  <2>7. CASE pc[q] \notin {"wait", "got"}
    <3>1. pc'[q] = pc[q] /\ inverse_time_'[q] = inverse_time_[q] /\ 0 \in Proc
      BY <1>5, OneManager, Zenon DEF SameClient
    <3>2. /\ pc[q] = "run" => inverse_time_[q][0] <= proc_vector_time_[0][q]
          /\ pc[q] = "repo2" => inverse_time_[q][0] = 0
      BY <2>1, Zenon DEF ClientData
    <3>3. inverse_time_[q][0] \in Nat
      BY <2>3, <3>1, Zenon
    <3>4. pc[q] = "run" => inverse_time_[q][0] <= proc_vector_time_'[0][q]
      BY <1>2, <3>2, <3>3
    <3>5. pc'[q] # "wait" /\ pc'[q] # "got"
      BY <2>7, <3>1, Zenon
    <3>6. QED
      BY <3>1, <3>2, <3>4, <3>5, Zenon DEF ClientData
  <2>8. QED
    BY <2>5, <2>6, <2>7, Zenon
<1>6. ASSUME NEW r \in reps, SameClient(r.to) PROVE AnswerData(r)'
  <2> SUFFICES ASSUME pc[r.to] = "wait", r.seqno = req_seqno[r.to], r.via = sent[r.to].to
               PROVE  \A t \in Proc : /\ r.data[t] >= arrivedAt'[t][episode[r.to]]
                                      /\ r.data[t] <= proc_vector_time_'[0][t]
    BY <1>6, Zenon DEF SameClient, AnswerData, Covers, DataInv
  <2>1. r.to \in Proc /\ \A t \in Proc : r.data[t] \in Nat
    BY <1>1, DataTypes, Zenon
  <2>2. Released(r.to)
    BY OneManager, Zenon
  <2>3. \A t \in Proc : /\ r.data[t] >= arrivedAt[t][episode[r.to]]
                        /\ r.data[t] <= proc_vector_time_[0][t]
    BY Zenon DEF DataInv, AnswerData, Covers
  <2>4. QED
    BY <1>2, <1>4, <2>1, <2>2, <2>3
<1>7. QED
  BY <1>5, <1>6, Zenon DEF DataInv

LEMMA DataInit == NBarriers = 1 /\ Init => DataInv
<1> SUFFICES ASSUME Init PROVE DataInv
  BY Zenon
<1>1. \A q \in Proc : pc[q] = "run" /\ episode[q] = 0
  BY Zenon DEF Init
<1>2. 0 \in Proc
  BY BarriersExist, Zenon
<1>3. \A p, q \in Proc : inverse_time_[p][q] = 0 /\ proc_vector_time_[p][q] = 0
  BY Zenon DEF Init, Zero
<1>4. QED
  BY <1>1, <1>2, <1>3, BoundAssumption DEF Init, DataInv, ClientData, ManagerData

(* Steps that change no vector time. *)
LEMMA DataQuiet ==
  ASSUME NBarriers = 1, SyncInv, SyncInv', DataInv,
         UNCHANGED <<pc, episode, mask, sent, req_seqno, proc_vector_time_,
                     inverse_time_, arrivedAt, gap>>,
         \A q \in Proc \ {0} : pc[q] = "got" => rep'[q] = rep[q],
         \A m \in reqs' : m \in reqs \/ \E p \in Proc : m = sent[p] /\ Waits(p),
         \A r \in reps' : r \in reps \/ AnswerData(r)
  PROVE  DataInv'
<1>1. TypeOK /\ TypeOK' /\ 0 \in Proc
  BY BarriersExist, Zenon DEF SyncInv
<1>2. ManagerData'
  <2>1. mask[0] \subseteq Proc
    BY <1>1, OneManager, SyncTypes, Zenon
  <2>2. QED
    BY <2>1, Zenon DEF ManagerData, DataInv
<1>3. \A q \in Proc \ {0} : SameClient(q)
  BY Zenon DEF SameClient
<1>4. \A t \in Proc : proc_vector_time_'[0][t] >= proc_vector_time_[0][t]
  BY <1>1, DataTypes
<1>5. ASSUME NEW m \in reqs' PROVE m.to = 0
  <2>1. CASE m \in reqs
    BY <2>1, Zenon DEF DataInv
  <2>2. CASE m \notin reqs
    <3>1. PICK p \in Proc : m = sent[p] /\ Waits(p)
      BY <2>2, Zenon
    <3>2. QED
      BY <3>1, OneManager, Zenon DEF Waits, SyncInv, SentInv
  <2>3. QED
    BY <2>1, <2>2, Zenon
<1>6. ASSUME NEW r \in reps', ~ (r \in reps /\ SameClient(r.to)) PROVE AnswerData(r)'
  <2>1. r.to \in Proc
    BY <1>1, Zenon DEF TypeOK, Reply
  <2>2. CASE r \notin reps
    BY <2>2, Zenon DEF AnswerData, Covers
  <2>3. CASE r.to = 0
    BY <1>1, <2>3, OneManager, Zenon DEF AnswerData
  <2>4. QED
    BY <1>3, <1>6, <2>1, <2>2, <2>3, Zenon
<1>7. Done(0)' = Done(0)
  BY Zenon DEF Done
<1>8. gap' = {} /\ \A q \in Proc : episode'[q] <= MaxEpisodes
  BY Zenon DEF DataInv
<1>9. QED
  BY <1>2, <1>3, <1>4, <1>5, <1>6, <1>7, <1>8, DataKeep, Zenon

(* An arrival seen before is answered with what process 0 knows. *)
LEMMA HandleArrivalAgainData ==
  ASSUME NBarriers = 1, SyncInv, SyncInv', DataInv, NEW m \in reqs, HandleArrivalAgain(m.to, m)
  PROVE  DataInv'
<1>1. /\ m.type = "arrival" /\ rep_seqno_[m.to][m.from] >= m.seqno
      /\ reqs' \subseteq reqs
      /\ UNCHANGED <<pc, episode, mask, sent, req_seqno, proc_vector_time_,
                     inverse_time_, arrivedAt, gap>>
  BY Zenon DEF HandleArrivalAgain, OldRequest, ReceiveRequest, history, sync, memory
<1>2. m.to = 0 /\ m.from \in Proc /\ TypeOK /\ 0 \in Proc
  BY SyncTypes, BarriersExist, Zenon DEF DataInv, SyncInv
<1>3. \A q \in Proc \ {0} : rep'[q] = rep[q]
  BY <1>2, Zenon DEF HandleArrivalAgain, TypeOK
<1>4. ASSUME NEW r \in reps', r \notin reps PROVE AnswerData(r)
  <2>1. /\ m.from \notin mask[m.id]
        /\ r.to = m.from /\ r.seqno = m.seqno /\ r.data = proc_vector_time_[0]
        /\ ~ r.short
    BY <1>2, <1>4 DEF HandleArrivalAgain, Over
  <2> SUFFICES ASSUME pc[m.from] = "wait", m.seqno = req_seqno[m.from]
               PROVE  /\ Covers(proc_vector_time_[0], episode[m.from])
                      /\ \A t \in Proc : proc_vector_time_[0][t] <= proc_vector_time_[0][t]
    BY <2>1, Zenon DEF AnswerData
  <2>2. m = sent[m.from] /\ m.from # 0
    BY <1>2, OneManager, Zenon DEF SyncInv, RequestInv
  <2>3. rep_seqno_[0][m.from] = req_seqno[m.from]
    <3>1. /\ rep_seqno_[0][m.from] <= req_seqno[m.from]
          /\ rep_seqno_[0][m.from] \in Nat /\ req_seqno[m.from] \in Nat
      BY <1>2, SyncTypes, Zenon DEF SyncInv, SeenInv
    <3>2. QED
      BY <1>1, <1>2, <3>1
  <2>4. Released(m.from)
    BY <1>2, <2>1, <2>2, <2>3, Zenon DEF SyncInv, ReleaseInv
  <2>5. QED
    BY <1>2, <2>2, <2>4, DataTypes DEF DataInv, ClientData
<1>5. QED
  BY <1>1, <1>3, <1>4, DataQuiet, Zenon

(* Requests of repo_barrier carry no intervals. *)
LEMMA HandleRepoData ==
  ASSUME NBarriers = 1, SyncInv, SyncInv', DataInv, NEW m \in reqs,
         HandleRepo(m) \/ HandleRepoAgain(m)
  PROVE  DataInv'
<1>1. /\ m.type = "repo" /\ reqs' \subseteq reqs
      /\ UNCHANGED <<pc, episode, mask, sent, req_seqno, proc_vector_time_,
                     inverse_time_, arrivedAt, gap, rep>>
  BY Zenon DEF HandleRepo, HandleRepoAgain, ReceiveRequest, history, sync, memory
<1>2. ASSUME NEW r \in reps', r \notin reps PROVE AnswerData(r)
  <2>1. r.to = m.from /\ r.seqno = m.seqno
    BY <1>2 DEF HandleRepo, HandleRepoAgain
  <2>2. m.from \in Proc
    BY SyncTypes, Zenon DEF SyncInv
  <2>3. m.seqno = req_seqno[m.from] => m = sent[m.from]
    BY Zenon DEF SyncInv, RequestInv
  <2>4. QED
    BY <1>1, <2>1, <2>2, <2>3 DEF AnswerData, SyncInv, SentInv
<1>3. QED
  BY <1>1, <1>2, DataQuiet, Zenon

(* The awaited answer is in the buffer. *)
LEMMA ReceiveReplyData ==
  ASSUME NBarriers = 1, SyncInv, SyncInv', DataInv, NEW p \in Proc, NEW a \in reps,
         ReceiveReply(p, a), pc' # pc
  PROVE  DataInv'
<1>1. /\ pc[p] = "wait" /\ pc' = [pc EXCEPT ![p] = "got"]
      /\ a.to = p /\ a.via = sent[p].to /\ a.seqno = req_seqno[p] /\ reps' \subseteq reps
      /\ ~ a.short => rep' = [rep EXCEPT ![p] = [repo |-> a.repo, data |-> a.data]]
      /\ UNCHANGED <<episode, mask, sent, req_seqno, proc_vector_time_,
                     inverse_time_, arrivedAt, gap, reqs>>
  BY Zenon DEF ReceiveReply, sync, memory, history
<1>2. TypeOK /\ TypeOK' /\ 0 \in Proc /\ p # 0 /\ mask[0] \subseteq Proc
  BY <1>1, OneManager, SyncTypes, Zenon DEF SyncInv
<1>3. /\ pc'[p] = "got" /\ rep'[p].data = a.data
      /\ \A q \in Proc \ {p} : pc'[q] = pc[q] /\ rep'[q] = rep[q]
  <2>1. ~ a.short
    BY <1>1, Zenon DEF DataInv, AnswerData
  <2>2. rep' = [rep EXCEPT ![p] = [repo |-> a.repo, data |-> a.data]]
    BY <1>1, <2>1
  <2>3. QED
    BY <1>1, <1>2, <2>2, Zenon DEF TypeOK
<1>4. \A q \in Proc \ {p} : SameClient(q)
  BY <1>1, <1>3, Zenon DEF SameClient
<1>5. ClientData(p)'
  <2>1. Released(p) /\ ClientData(p)
    BY <1>1, <1>2, OneManager, Zenon DEF DataInv
  <2>2. Covers(a.data, episode[p]) /\ \A t \in Proc : a.data[t] <= proc_vector_time_[0][t]
    BY <1>1, Zenon DEF DataInv, AnswerData
  <2>3. /\ proc_vector_time_[p][p] = arrivedAt[p][episode[p]]
        /\ Covers(proc_vector_time_[0], episode[p])
    BY <1>1, <2>1, Zenon DEF ClientData
  <2>4. QED
    BY <1>1, <1>3, <2>2, <2>3, Zenon DEF ClientData, Covers
<1>6. ManagerData'
  BY <1>1, <1>2, <1>3, Zenon DEF ManagerData, DataInv
<1>7. ASSUME NEW r \in reps', ~ (r \in reps /\ SameClient(r.to)) PROVE AnswerData(r)'
  <2>1. r.to = p
    BY <1>2, <1>4, <1>7, <1>1, Zenon DEF TypeOK, Reply
  <2>2. QED
    BY <1>3, <2>1, Zenon DEF AnswerData
<1>8. Done(0)' = Done(0)
  BY <1>1, <1>2, <1>3, Zenon DEF Done
<1>9. \A t \in Proc : proc_vector_time_'[0][t] >= proc_vector_time_[0][t]
  BY <1>1, <1>2, DataTypes
<1>10. /\ gap' = {} /\ \A q \in Proc : episode'[q] <= MaxEpisodes
       /\ \A m \in reqs' : m.to = 0
  BY <1>1, Zenon DEF DataInv
<1>11. QED
  BY <1>1, <1>4, <1>5, <1>6, <1>7, <1>8, <1>9, <1>10, DataKeep, Zenon

(* A client goes on: what it remembers of process 0, process 0 knows. *)
LEMMA ProceedData ==
  ASSUME NBarriers = 1, SyncInv, SyncInv', DataInv, NEW p \in Proc \ {0},
         pc[p] # "wait", pc'[p] \in {"run", "repo1", "repo2"}, ClientData(p)',
         Proceeds(p), reps' \subseteq reps,
         \A q \in Proc \ {p} : /\ proc_vector_time_'[q] = proc_vector_time_[q]
                               /\ inverse_time_'[q] = inverse_time_[q],
         UNCHANGED <<episode, mask, rep_seqno_, rep, arrivedAt, gap>>
  PROVE  DataInv'
<1>1. TypeOK /\ TypeOK' /\ 0 \in Proc /\ mask[0] \subseteq Proc
  BY OneManager, SyncTypes, Zenon DEF SyncInv
<1>2. \A q \in Proc \ {p} : /\ pc'[q] = pc[q] /\ sent'[q] = sent[q]
                            /\ req_seqno'[q] = req_seqno[q]
  BY <1>1, Zenon DEF Proceeds, TypeOK
<1>3. \A q \in Proc \ {p} : SameClient(q)
  BY <1>2, Zenon DEF SameClient
<1>4. ManagerData'
  BY <1>1, <1>2, Zenon DEF ManagerData, DataInv
<1>5. ASSUME NEW r \in reps', ~ (r \in reps /\ SameClient(r.to)) PROVE AnswerData(r)'
  <2>1. r.to = p
    BY <1>1, <1>3, <1>5, Zenon DEF TypeOK, Reply
  <2>2. QED
    BY <2>1, Zenon DEF AnswerData
<1>6. Done(0)' = Done(0)
  BY <1>1, <1>2, Zenon DEF Done
<1>7. \A t \in Proc : proc_vector_time_'[0][t] >= proc_vector_time_[0][t]
  BY <1>1, DataTypes
<1>8. \A m \in reqs' : m.to = 0
  BY Zenon DEF Proceeds, DataInv
<1>9. gap' = {} /\ \A q \in Proc : episode'[q] <= MaxEpisodes
  BY Zenon DEF DataInv
<1>10. QED
  BY <1>3, <1>4, <1>5, <1>6, <1>7, <1>8, <1>9, DataKeep, Zenon

(* A client leaves the barrier. *)
LEMMA ReturnClientData ==
  ASSUME NBarriers = 1, SyncInv, SyncInv', DataInv, NEW p \in Proc, ReturnClient(p)
  PROVE  DataInv' /\ Covers(proc_vector_time_'[p], episode[p])
<1> DEFINE vt == Merge(proc_vector_time_[p], rep[p].data)
<1>1. /\ pc[p] = "got" /\ Leave(p, Flag(p)) /\ Flag(p) \in BOOLEAN
      /\ proc_vector_time_' = [proc_vector_time_ EXCEPT ![p] = vt]
      /\ inverse_time_' = [inverse_time_ EXCEPT
           ![p] = [j \in Proc |-> IF j = p THEN @[j] ELSE vt[p]]]
      /\ UNCHANGED <<episode, mask, rep_seqno_, rep, arrivedAt, gap, reps>>
  BY Zenon DEF ReturnClient, Flag, SyncInv, TypeOK
<1>2. TypeOK /\ TypeOK' /\ 0 \in Proc /\ p # 0
  BY <1>1, OneManager, Zenon DEF SyncInv
<1>3. /\ Released(p) /\ ClientData(p) /\ episode[p] \in Episodes
      /\ \A t \in Proc : /\ rep[p].data[t] \in Nat /\ proc_vector_time_[p][t] \in Nat
                         /\ proc_vector_time_[0][t] \in Nat
                         /\ arrivedAt[t][episode[p]] \in Nat
  BY <1>1, <1>2, OneManager, DataTypes, Zenon DEF DataInv, SyncInv, ReleaseInv
<1>4. \A t \in Proc : vt[t] = Max2(proc_vector_time_[p][t], rep[p].data[t])
  BY Zenon DEF Merge
<1>5. \A t \in Proc : rep[p].data[t] >= arrivedAt[t][episode[p]]
  BY <1>1, <1>3, Zenon DEF ClientData, Covers
<1>6. \A t \in Proc : vt[t] >= arrivedAt[t][episode[p]]
  BY <1>3, <1>4, <1>5 DEF Max2
<1>7. vt[p] <= proc_vector_time_[0][p]
  <2>1. /\ proc_vector_time_[p][p] <= proc_vector_time_[0][p]
        /\ rep[p].data[p] <= proc_vector_time_[0][p]
    BY <1>1, <1>3, Zenon DEF ClientData, Covers
  <2>2. QED
    BY <1>3, <1>4, <2>1, Zenon DEF Max2
<1> HIDE DEF vt
<1>8. /\ proc_vector_time_'[p] = vt /\ inverse_time_'[p][0] = vt[p]
      /\ \A q \in Proc \ {p} : /\ proc_vector_time_'[q] = proc_vector_time_[q]
                               /\ inverse_time_'[q] = inverse_time_[q]
  BY <1>1, <1>2, Zenon DEF TypeOK
<1>9. pc'[p] \in {"run", "repo1"} /\ \A q \in Proc \ {p} : pc'[q] = pc[q]
  BY <1>1, <1>2, Zenon DEF Leave, TypeOK
<1>10. ClientData(p)'
  BY <1>2, <1>7, <1>8, <1>9, Zenon DEF ClientData
<1>11. Proceeds(p)
  <2>1. CASE pc'[p] = "repo1"
    <3>1. EnterRepoBarrier(p)
      BY <1>1, <1>2, <2>1, Zenon DEF Leave, TypeOK
    <3>2. QED
      BY <1>2, <1>9, <2>1, <3>1, EnterRepoProceeds, Zenon
  <2>2. CASE pc'[p] = "run"
    <3>1. UNCHANGED <<req_seqno, sent, reqs>>
      BY <1>1, <1>2, <2>2, Zenon DEF Leave, TypeOK
    <3>2. QED
      BY <1>9, <2>2, <3>1, Zenon DEF Proceeds
  <2>3. QED
    BY <1>9, <2>1, <2>2, Zenon
<1>12. DataInv'
  BY <1>1, <1>2, <1>8, <1>9, <1>10, <1>11, ProceedData, Zenon
<1>13. QED
  BY <1>6, <1>8, <1>12, Zenon DEF Covers

(* A client goes on from repo_barrier. *)
LEMMA RepoBarrierReturnData ==
  ASSUME NBarriers = 1, SyncInv, SyncInv', DataInv, NEW p \in Proc, NEW a \in reps,
         RepoBarrierReturn(p, a), a.seqno = req_seqno[p]
  PROVE  DataInv'
<1>1. /\ pc[p] \in {"repo1", "repo2"} /\ a.to = p /\ a.via = 0 /\ reps' \subseteq reps
      /\ LeaveRepoBarrier(p)
      /\ UNCHANGED <<episode, mask, rep_seqno_, rep, arrivedAt, gap>>
  BY Zenon DEF RepoBarrierReturn, history
<1>2. TypeOK /\ TypeOK' /\ 0 \in Proc /\ p # 0
  BY <1>1, OneManager, Zenon DEF SyncInv, ReplyInv, Answers
<1>3. \A q \in Proc \ {p} : /\ proc_vector_time_'[q] = proc_vector_time_[q]
                            /\ inverse_time_'[q] = inverse_time_[q]
                            /\ pc'[q] = pc[q]
  BY <1>1, <1>2, Zenon DEF LeaveRepoBarrier, TypeOK
<1>4. CASE pc[p] = "repo1"
  <2>1. pc'[p] = "repo2" /\ inverse_time_'[p] = Zero /\ EnterRepoBarrier(p)
    BY <1>1, <1>2, <1>4, Zenon DEF LeaveRepoBarrier, TypeOK
  <2>2. ClientData(p)'
    BY <1>2, <2>1, Zenon DEF ClientData, Zero
  <2>3. Proceeds(p)
    BY <1>2, <1>3, <2>1, EnterRepoProceeds, Zenon
  <2>4. QED
    BY <1>1, <1>2, <1>3, <2>1, <2>2, <2>3, ProceedData, Zenon
<1>5. CASE pc[p] = "repo2"
  <2>1. /\ pc'[p] = "run" /\ inverse_time_' = inverse_time_
        /\ proc_vector_time_' = proc_vector_time_ /\ UNCHANGED <<req_seqno, sent, reqs>>
    BY <1>1, <1>2, <1>5, Zenon DEF LeaveRepoBarrier, TypeOK
  <2>2. inverse_time_[p][0] = 0 /\ proc_vector_time_[0][p] \in Nat
    BY <1>2, <1>5, DataTypes, Zenon DEF DataInv, ClientData
  <2>3. ClientData(p)'
    BY <2>1, <2>2 DEF ClientData
  <2>4. Proceeds(p)
    BY <1>3, <2>1, Zenon DEF Proceeds
  <2>5. QED
    BY <1>1, <1>2, <1>3, <1>5, <2>1, <2>3, <2>4, ProceedData, Zenon
<1>6. QED
  BY <1>1, <1>4, <1>5, Zenon

(* Process 0 goes on from repo_barrier: nobody waits for a barrier. *)
LEMMA RepoBarrierCollectData ==
  ASSUME NBarriers = 1, SyncInv, SyncInv', DataInv, RepoBarrierCollect
  PROVE  DataInv'
<1>1. /\ pc[0] \in {"repo1", "repo2"} /\ repo_mask = Proc /\ LeaveRepoBarrier(0)
      /\ UNCHANGED <<episode, gap>>
  BY Zenon DEF RepoBarrierCollect, Tmk_spinmask, history
<1>2. TypeOK /\ TypeOK' /\ 0 \in Proc
  BY OneManager, Zenon DEF SyncInv
<1>3. /\ pc'[0] \in {"repo2", "run"}
      /\ \A q \in Proc \ {0} : pc'[q] = pc[q] /\ inverse_time_'[q] = inverse_time_[q]
      /\ reqs' = reqs
  BY <1>1, <1>2 DEF LeaveRepoBarrier, EnterRepoBarrier, TypeOK
<1>4. \A q \in Proc \ {0} : pc[q] \in {"repo1", "repo2"}
  BY <1>1, Zenon DEF SyncInv, RepoMaskInv
<1>5. ASSUME NEW q \in Proc \ {0} PROVE ClientData(q)'
  <2>1. pc'[q] \in {"repo1", "repo2"} /\ pc'[q] = pc[q] /\ inverse_time_'[q] = inverse_time_[q]
    BY <1>3, <1>4, Zenon
  <2>2. pc[q] = "repo2" => inverse_time_[q][0] = 0
    BY Zenon DEF ClientData, DataInv
  <2>3. QED
    BY <2>1, <2>2 DEF ClientData
<1>6. ASSUME NEW r \in reps' PROVE AnswerData(r)'
  <2>1. r.to \in Proc
    BY <1>2, Zenon DEF TypeOK, Reply
  <2>2. QED
    BY <1>3, <1>4, <2>1, Zenon DEF AnswerData
<1>7. QED
  BY <1>1, <1>3, <1>5, <1>6, Zenon DEF DataInv, ManagerData

(* The manager leaves: it has taken in everyone's arrival. *)
LEMMA ReleaseManagerData ==
  ASSUME NBarriers = 1, SyncInv, SyncInv', DataInv, NEW p \in Proc, ReleaseManager(p)
  PROVE  DataInv' /\ Covers(proc_vector_time_'[p], episode[p])
<1>1. /\ pc[p] = "spin" /\ mask[BarrierOf(episode[p])] = Proc /\ Leave(p, rep[p].repo)
      /\ rep[p].repo \in BOOLEAN
      /\ UNCHANGED <<episode, proc_vector_time_, arrivedAt, gap>>
  BY Zenon DEF ReleaseManager, Tmk_spinmask, SyncInv, TypeOK
<1>2. TypeOK /\ TypeOK' /\ 0 \in Proc /\ p = 0
  BY <1>1, OneManager, Zenon DEF SyncInv
<1>3. BarrierOf(episode[p]) = 0 /\ mask[0] = Proc
  BY <1>1, <1>2, OneManager, DataTypes, Zenon
<1>4. \A q \in Proc \ {0} : /\ pc[q] = "wait" /\ sent[q].to = 0 /\ sent[q].id = 0
                            /\ rep_seqno_[0][q] = req_seqno[q] /\ episode[q] = episode[0]
  BY <1>1, <1>2, <1>3, FullMask, ZenonT(40)
<1>5. \A t \in Proc : proc_vector_time_[0][t] >= arrivedAt[t][episode[0]]
  BY <1>1, <1>2, <1>3, <1>4, Zenon DEF DataInv, ManagerData
<1>6. /\ pc'[0] \in {"run", "repo1"} /\ \A q \in Proc \ {0} : pc'[q] = pc[q]
      /\ UNCHANGED <<req_seqno, sent, reqs>>
  <2>1. /\ pc' = [pc EXCEPT ![0] = IF rep[0].repo THEN "repo1" ELSE "run"]
        /\ UNCHANGED <<req_seqno, sent, reqs>>
    BY <1>1, <1>2, Zenon DEF Leave, EnterRepoBarrier
  <2>2. \E s \in {"run", "repo1"} : pc' = [pc EXCEPT ![0] = s]
    BY <2>1, Zenon
  <2>3. QED
    BY <1>2, <2>1, <2>2, Zenon DEF TypeOK
<1>7. ASSUME NEW q \in Proc \ {0} PROVE ClientData(q)'
  <2>1. ClientData(q) /\ ~ Released(q)
    BY <1>3, <1>4, Zenon DEF DataInv, SyncInv, ReleaseInv
  <2>2. QED
    BY <1>1, <1>4, <1>5, <1>6, <2>1, Zenon DEF ClientData, Covers
<1>8. ASSUME NEW r \in reps' PROVE AnswerData(r)'
  <2>1. r.to \in Proc
    BY <1>2, Zenon DEF TypeOK, Reply
  <2>2. CASE r \in reps
    <3>1. r.to # 0 => AnswerData(r)
      BY <2>2, Zenon DEF DataInv
    <3>2. CASE r.to = 0
      BY <1>6, <3>2, Zenon DEF AnswerData
    <3>3. CASE r.to # 0
      <4>1. pc'[r.to] = pc[r.to]
        BY <1>6, <2>1, <3>3, Zenon
      <4>2. QED
        BY <1>1, <1>6, <3>1, <3>3, <4>1, Zenon DEF AnswerData, Covers
    <3>4. QED
      BY <3>2, <3>3, Zenon
  <2>3. CASE r \notin reps
    <3>1. r.data = proc_vector_time_[0] /\ ~ r.short
      BY <1>2, <2>3 DEF ReleaseManager
    <3>4. \A t \in Proc : proc_vector_time_[0][t] \in Nat
      BY <1>2, DataTypes, Zenon
    <3>2. \A t \in Proc : proc_vector_time_[0][t] <= proc_vector_time_[0][t]
      BY <3>4
    <3>3. QED
      BY <1>1, <1>4, <1>5, <1>6, <2>1, <3>1, <3>2, Zenon DEF AnswerData, Covers
  <2>4. QED
    BY <2>2, <2>3, Zenon
<1>9. DataInv'
  BY <1>1, <1>6, <1>7, <1>8, Zenon DEF DataInv, ManagerData
<1>10. QED
  BY <1>1, <1>2, <1>5, <1>9, Zenon DEF Covers

(* Closing an interval and entering the next call. *)
LEMMA EnterData ==
  ASSUME SyncInv, DataInv, NEW p \in Proc, Enter(p)
  PROVE  /\ pc[p] = "run" /\ episode[p] + 1 \in Episodes
         /\ episode'[p] = episode[p] + 1 /\ episode[p] \in Nat
         /\ \A q \in Proc \ {p} : episode'[q] = episode[q]
         /\ \A q \in Proc : episode'[q] <= MaxEpisodes
         /\ Tmk_interval_create(p) \in VectorTime
         /\ \A t \in Proc : Tmk_interval_create(p)[t] >= proc_vector_time_[p][t]
         /\ \A t \in Proc \ {p} : Tmk_interval_create(p)[t] = proc_vector_time_[p][t]
         /\ arrivedAt'[p][episode[p] + 1] = Tmk_interval_create(p)[p]
         /\ \A t \in Proc, e \in Episodes :
              t # p \/ e # episode[p] + 1 => arrivedAt'[t][e] = arrivedAt[t][e]
<1>1. TypeOK
  BY Zenon DEF SyncInv
<1>2. /\ episode[p] \in Nat /\ episode[p] + 1 \in Episodes
      /\ \A q \in Proc : episode[q] <= MaxEpisodes
  BY <1>1, BoundAssumption, DataTypes DEF Enter, Episodes
<1>3. /\ pc[p] = "run" /\ episode'[p] = episode[p] + 1
      /\ \A q \in Proc \ {p} : episode'[q] = episode[q]
      /\ \A q \in Proc : episode'[q] <= MaxEpisodes
  BY <1>1, <1>2 DEF Enter, TypeOK, Episodes
<1>4. Tmk_interval_create(p) \in VectorTime
  BY <1>1, IntervalType, Zenon
<1>5. /\ \A t \in Proc : Tmk_interval_create(p)[t] >= proc_vector_time_[p][t]
      /\ \A t \in Proc \ {p} : Tmk_interval_create(p)[t] = proc_vector_time_[p][t]
  <2>1. proc_vector_time_[p] \in [Proc -> Nat]
    BY <1>1, Zenon DEF TypeOK, VectorTime
  <2>2. QED
    BY <2>1 DEF Tmk_interval_create
<1> DEFINE vt == Tmk_interval_create(p)
<1>6. arrivedAt' = [arrivedAt EXCEPT ![p][episode[p] + 1] = vt[p]]
  BY Zenon DEF Enter
<1> HIDE DEF vt
<1>7. /\ arrivedAt'[p][episode[p] + 1] = vt[p]
      /\ \A t \in Proc, e \in Episodes :
           t # p \/ e # episode[p] + 1 => arrivedAt'[t][e] = arrivedAt[t][e]
  BY <1>1, <1>2, <1>6, Zenon DEF TypeOK
<1>8. QED
  BY <1>2, <1>3, <1>4, <1>5, <1>7, Zenon DEF vt

(* A client arrives with the intervals process 0 may lack. *)
LEMMA ArriveClientData ==
  ASSUME NBarriers = 1, SyncInv, SyncInv', DataInv, NEW p \in Proc, NEW repo \in BOOLEAN,
         ArriveClient(p, repo)
  PROVE  DataInv'
<1> DEFINE vt == Tmk_interval_create(p)
           b == BarrierOf(episode[p] + 1)
           r == [type |-> "arrival", to |-> Manager(b), from |-> p, id |-> b,
                 seqno |-> req_seqno[p] + 1, repo |-> repo,
                 vector_time |-> vt, after |-> inverse_time_[p][Manager(b)]]
<1>1. /\ Enter(p) /\ Manager(b) # p
      /\ req_seqno' = [req_seqno EXCEPT ![p] = @ + 1]
      /\ sent' = [sent EXCEPT ![p] = r] /\ reqs' = reqs \cup {r}
      /\ proc_vector_time_' = [proc_vector_time_ EXCEPT ![p] = vt]
      /\ pc' = [pc EXCEPT ![p] = "wait"]
      /\ UNCHANGED <<mask, rep_seqno_, rep, inverse_time_, reps, gap>>
  BY Zenon DEF ArriveClient
<1>2. /\ pc[p] = "run" /\ episode[p] + 1 \in Episodes
      /\ episode'[p] = episode[p] + 1 /\ episode[p] \in Nat
      /\ \A q \in Proc \ {p} : episode'[q] = episode[q]
      /\ \A q \in Proc : episode'[q] <= MaxEpisodes
      /\ arrivedAt'[p][episode[p] + 1] = vt[p]
      /\ \A t \in Proc, e \in Episodes :
           t # p \/ e # episode[p] + 1 => arrivedAt'[t][e] = arrivedAt[t][e]
  BY <1>1, EnterData, Zenon
<1>3. TypeOK /\ TypeOK' /\ 0 \in Proc /\ Manager(b) = 0 /\ p # 0
  BY <1>1, <1>2, OneManager DEF SyncInv
<1>4. r.to = 0 /\ r.vector_time = vt /\ r.after = inverse_time_[p][0]
  BY <1>3, Zenon
<1> HIDE DEF vt, r, b
<1>5. /\ pc'[p] = "wait" /\ sent'[p] = r /\ req_seqno'[p] = req_seqno[p] + 1
      /\ proc_vector_time_'[p] = vt
      /\ \A q \in Proc \ {p} : /\ pc'[q] = pc[q] /\ sent'[q] = sent[q]
                               /\ req_seqno'[q] = req_seqno[q]
                               /\ proc_vector_time_'[q] = proc_vector_time_[q]
  BY <1>1, <1>3, Zenon DEF TypeOK
<1>6. \A q \in Proc \ {p} : SameClient(q)
  BY <1>1, <1>2, <1>5, Zenon DEF SameClient
<1>7. Done(0)' = Done(0)
  BY <1>2, <1>3, <1>5, Zenon DEF Done
<1>8. ClientData(p)'
  <2>1. inverse_time_[p][0] <= proc_vector_time_[0][p]
    BY <1>2, <1>3, Zenon DEF DataInv, ClientData
  <2>2. Done(0) <= episode[p] /\ Done(0) \in Int
    BY <1>3, SyncTypes, Zenon DEF SyncInv, CallInv
  <2>5. sent'[p].to = 0
    BY <1>4, <1>5, Zenon
  <2>6. ~ (Done(0) >= episode[p] + 1)
    BY <1>2, <2>2
  <2>3. ~ Released(p)'
    BY <1>2, <1>7, <2>5, <2>6, Zenon DEF Released
  <2>4. QED
    BY <1>1, <1>2, <1>3, <1>4, <1>5, <2>1, <2>3, Zenon DEF ClientData
<1>9. ManagerData'
  <2>1. mask[0] \subseteq Proc /\ p \notin mask[0]
    BY <1>2, <1>3, OneManager, SyncTypes, Zenon DEF SyncInv, MaskInv
  <2>2. \A q \in mask[0] : pc[0] = "spin" => episode[q] \in Episodes
    <3> SUFFICES ASSUME NEW q \in mask[0], pc[0] = "spin" PROVE episode[q] >= 1
      BY <1>3, <2>1, DataTypes, Zenon
    <3>1. pc[q] \in {"wait", "spin"}
      <4>1. Manager(0) = 0 /\ 0 \in Barriers
        BY OneManager, Zenon
      <4>2. \A t \in mask[0] \ {Manager(0)} : pc[t] = "wait"
        BY <4>1, MaskedWait, Zenon
      <4>3. CASE q = 0
        BY <4>3, Zenon
      <4>4. CASE q # 0
        BY <4>1, <4>2, <4>4, Zenon
      <4>5. QED
        BY <4>3, <4>4, Zenon
    <3>2. QED
      BY <2>1, <3>1, Zenon DEF SyncInv, CallInv
  <2>3. QED
    BY <1>1, <1>2, <1>3, <1>5, <2>1, <2>2 DEF ManagerData, DataInv
<1>10. ASSUME NEW a \in reps', ~ (a \in reps /\ SameClient(a.to)) PROVE AnswerData(a)'
  <2>1. a \in reps /\ a.to = p
    BY <1>1, <1>3, <1>6, <1>10, Zenon DEF TypeOK, Reply
  <2>2. /\ rep_seqno_[a.via][p] >= a.seqno /\ rep_seqno_[a.via][p] <= req_seqno[p]
        /\ rep_seqno_[a.via][p] \in Nat /\ req_seqno[p] \in Nat /\ a.seqno \in Nat
    BY <1>3, <2>1, SyncTypes, Zenon DEF SyncInv, ReplyInv, Answers, SeenInv
  <2>3. a.seqno # req_seqno'[p]
    BY <1>5, <2>2
  <2>4. QED
    BY <2>1, <2>3, Zenon DEF AnswerData
<1>11. /\ \A t \in Proc : proc_vector_time_'[0][t] >= proc_vector_time_[0][t]
       /\ gap' = {} /\ \A m \in reqs' : m.to = 0
  <2>1. proc_vector_time_'[0] = proc_vector_time_[0]
    BY <1>3, <1>5, Zenon
  <2>2. \A t \in Proc : proc_vector_time_[0][t] \in Nat
    BY <1>3, DataTypes, Zenon
  <2>3. \A t \in Proc : proc_vector_time_'[0][t] >= proc_vector_time_[0][t]
    BY <2>1, <2>2
  <2>4. QED
    BY <1>1, <1>4, <2>3, Zenon DEF DataInv
<1>12. \A t \in Proc, e \in Episodes : e <= episode[t] => arrivedAt'[t][e] = arrivedAt[t][e]
  BY <1>2 DEF Episodes
<1>13. QED
  BY <1>2, <1>6, <1>7, <1>8, <1>9, <1>10, <1>11, <1>12, DataKeep, Zenon

(* Taking in arrivals loses nothing and takes in what they carry, when A    *)
(* holds one arrival per sender.                                            *)
LEMMA IncorporatedCovers ==
  ASSUME NEW vt \in VectorTime, NEW A \in SUBSET Request
  PROVE  /\ \A t \in Proc : Incorporated(vt, A)[t] >= vt[t]
         /\ \A m \in A : (\A n \in A : n.from = m.from => n = m) =>
              Incorporated(vt, A)[m.from] >= m.vector_time[m.from]
<1>1. /\ \A t \in Proc : vt[t] \in Nat
      /\ \A m \in A : m.from \in Proc /\ \A t \in Proc : m.vector_time[t] \in Nat
  BY Zenon DEF VectorTime, Request
<1>2. ASSUME NEW t \in Proc PROVE Incorporated(vt, A)[t] >= vt[t]
  <2>1. CASE \E m \in A : m.from = t
    <3>1. PICK m \in A : m = CHOOSE n \in A : n.from = t
      BY <2>1, Zenon
    <3>2. Incorporated(vt, A)[t] = Max2(vt[t], m.vector_time[t])
      BY <2>1, <3>1, Zenon DEF Incorporated
    <3>3. QED
      BY <1>1, <3>2 DEF Max2
  <2>2. CASE ~ \E m \in A : m.from = t
    BY <1>1, <2>2 DEF Incorporated
  <2>3. QED
    BY <2>1, <2>2, Zenon
<1>3. ASSUME NEW m \in A, \A n \in A : n.from = m.from => n = m
      PROVE  Incorporated(vt, A)[m.from] >= m.vector_time[m.from]
  <2>1. m = CHOOSE n \in A : n.from = m.from
    BY <1>3, Zenon
  <2>2. Incorporated(vt, A)[m.from] = Max2(vt[m.from], m.vector_time[m.from])
    BY <1>1, <2>1, Zenon DEF Incorporated
  <2>3. QED
    BY <1>1, <2>2 DEF Max2
<1>4. QED
  BY <1>2, <1>3, Zenon

(* A client in the mask has not been released, and its arrival joins on to  *)
(* what process 0 knows.                                                    *)
LEMMA HeldData ==
  ASSUME NBarriers = 1, SyncInv, DataInv, NEW q \in mask[0] \ {0}
  PROVE  /\ q \in Proc /\ pc[q] = "wait" /\ req_from_[0][q] = sent[q]
         /\ sent[q].from = q /\ sent[q] \in Request /\ episode[q] \in Episodes
         /\ sent[q].after <= proc_vector_time_[0][q]
         /\ sent[q].vector_time[q] = arrivedAt[q][episode[q]]
<1>1. TypeOK /\ q \in Proc /\ 0 \in Barriers
  BY OneManager, SyncTypes, Zenon DEF SyncInv
<1>2. pc[q] = "wait" /\ req_from_[0][q] = sent[q] /\ sent[q].id = 0 /\ sent[q].to = 0
  BY <1>1, OneManager DEF SyncInv, MaskInv
<1>3. ~ Released(q)
  BY <1>1, <1>2, Zenon DEF SyncInv, ReleaseInv
<1>4. sent[q].from = q /\ sent[q] \in Request /\ episode[q] \in Episodes
  BY <1>1, <1>2, OneManager, SyncTypes, DataTypes, Zenon DEF SyncInv, SentInv
<1>5. ClientData(q)
  BY <1>1, Zenon DEF DataInv
<1>6. QED
  BY <1>1, <1>2, <1>3, <1>4, <1>5, Zenon DEF ClientData

(* The manager arrives and takes in the arrivals it holds. *)
LEMMA ArriveManagerData ==
  ASSUME NBarriers = 1, SyncInv, SyncInv', DataInv, NEW p \in Proc, NEW repo \in BOOLEAN,
         ArriveManager(p, repo)
  PROVE  DataInv'
<1> DEFINE vt == Tmk_interval_create(p)
           b == BarrierOf(episode[p] + 1)
           A == {req_from_[p][q] : q \in mask[b] \ {p}}
           now == Incorporated(vt, A)
<1>1. /\ Enter(p) /\ Manager(b) = p
      /\ rep' = [rep EXCEPT ![p].repo = repo \/ \E m \in A : m.repo]
      /\ proc_vector_time_' = [proc_vector_time_ EXCEPT ![p] = now]
      /\ gap' = (IF Gap(vt, A) THEN gap \cup {p} ELSE gap)
      /\ mask' = [mask EXCEPT ![b] = @ \cup {p}]
      /\ pc' = [pc EXCEPT ![p] = "spin"]
      /\ UNCHANGED <<req_seqno, sent, inverse_time_, reqs, reps>>
  BY Zenon DEF ArriveManager
<1>2. /\ pc[p] = "run" /\ episode[p] + 1 \in Episodes
      /\ episode'[p] = episode[p] + 1 /\ episode[p] \in Nat
      /\ \A q \in Proc \ {p} : episode'[q] = episode[q]
      /\ \A q \in Proc : episode'[q] <= MaxEpisodes
      /\ vt \in VectorTime
      /\ \A t \in Proc : vt[t] >= proc_vector_time_[p][t]
      /\ \A t \in Proc \ {p} : vt[t] = proc_vector_time_[p][t]
      /\ arrivedAt'[p][episode[p] + 1] = vt[p]
      /\ \A t \in Proc, e \in Episodes :
           t # p \/ e # episode[p] + 1 => arrivedAt'[t][e] = arrivedAt[t][e]
  BY <1>1, EnterData, Zenon
<1>3. TypeOK /\ TypeOK' /\ 0 \in Proc /\ b = 0 /\ p = 0 /\ mask[0] \subseteq Proc
  BY <1>1, <1>2, OneManager, SyncTypes DEF SyncInv
<1> HIDE DEF vt, b
<1>4. A = {sent[q] : q \in mask[0] \ {0}}
  BY <1>3, HeldData
<1>5. A \in SUBSET Request
  <2>1. \A q \in mask[0] \ {0} : sent[q] \in Request
    BY HeldData, Zenon
  <2>2. QED
    BY <1>4, <2>1, Zenon
<1>6. /\ \A t \in Proc : now[t] >= vt[t]
      /\ \A q \in mask[0] \ {0} : now[q] >= arrivedAt[q][episode[q]]
  <2>1. ASSUME NEW m \in A, NEW n \in A, n.from = m.from PROVE n = m
    <3>1. PICK q \in mask[0] \ {0} : m = sent[q]
      BY <1>4, Zenon
    <3>2. PICK t \in mask[0] \ {0} : n = sent[t]
      BY <1>4, Zenon
    <3>3. m.from = q /\ n.from = t
      BY <3>1, <3>2, HeldData, Zenon
    <3>4. QED
      BY <2>1, <3>1, <3>2, <3>3, Zenon
  <2>2. \A m \in A : now[m.from] >= m.vector_time[m.from]
    BY <1>2, <1>5, <2>1, IncorporatedCovers, Zenon
  <2>3. \A t \in Proc : now[t] >= vt[t]
    BY <1>2, <1>5, IncorporatedCovers, Zenon
  <2> HIDE DEF now
  <2>4. QED
    <3> SUFFICES ASSUME NEW q \in mask[0] \ {0}
                 PROVE  now[q] >= arrivedAt[q][episode[q]]
      BY <2>3, Zenon
    <3>1. sent[q] \in A
      BY <1>4, Zenon
    <3>2. sent[q].from = q /\ sent[q].vector_time[q] = arrivedAt[q][episode[q]]
      BY HeldData, Zenon
    <3>3. QED
      BY <2>2, <3>1, <3>2, Zenon
<1>7. ~ Gap(vt, A)
  <2> SUFFICES ASSUME NEW m \in A, m.after > vt[m.from] PROVE FALSE
    BY Zenon DEF Gap
  <2>1. PICK q \in mask[0] \ {0} : m = sent[q]
    BY <1>4, Zenon
  <2>2. m.from = q /\ m.after <= proc_vector_time_[0][q] /\ q \in Proc
    BY <2>1, HeldData, Zenon
  <2>3. vt[q] = proc_vector_time_[0][q] /\ vt[q] \in Nat /\ m.after \in Nat
    BY <1>2, <1>3, <2>1, <2>2, DataTypes, Zenon
  <2>4. QED
    BY <2>2, <2>3
<1> HIDE DEF now, A
<1>8. /\ pc'[0] = "spin" /\ proc_vector_time_'[0] = now
      /\ \A q \in Proc \ {0} : /\ pc'[q] = pc[q]
                               /\ proc_vector_time_'[q] = proc_vector_time_[q]
      /\ mask'[0] = mask[0] \cup {0}
  BY <1>1, <1>3, OneManager DEF TypeOK
<1>14. \A q \in Proc \ {0} : rep'[q] = rep[q]
  BY <1>1, <1>3, Zenon DEF TypeOK
<1>9. \A q \in Proc \ {0} : SameClient(q)
  BY <1>1, <1>2, <1>3, <1>8, <1>14, Zenon DEF SameClient
<1>10. Done(0)' = Done(0)
  BY <1>2, <1>3, <1>8 DEF Done
<1>11. ManagerData'
  <2> SUFFICES ASSUME NEW q \in mask'[0]
               PROVE  now[q] >= arrivedAt'[q][episode'[q]]
    BY <1>8, Zenon DEF ManagerData
  <2>1. CASE q = 0
    BY <1>2, <1>3, <1>6, <2>1, Zenon
  <2>2. CASE q # 0
    <3>1. q \in mask[0] \ {0} /\ q \in Proc
      BY <1>3, <1>8, <2>2, Zenon
    <3>4. episode[q] \in Episodes
      BY <3>1, HeldData, Zenon
    <3>2. episode'[q] = episode[q] /\ arrivedAt'[q][episode[q]] = arrivedAt[q][episode[q]]
      BY <1>2, <1>3, <2>2, <3>1, <3>4, Zenon
    <3>3. QED
      BY <1>6, <3>1, <3>2, Zenon
  <2>3. QED
    BY <2>1, <2>2, Zenon
<1>12. ASSUME NEW a \in reps', ~ (a \in reps /\ SameClient(a.to)) PROVE AnswerData(a)'
  <2>1. a.to = 0
    BY <1>1, <1>3, <1>9, <1>12, Zenon DEF TypeOK, Reply
  <2>2. QED
    BY <1>8, <2>1, Zenon DEF AnswerData
<1>13. \A t \in Proc : proc_vector_time_'[0][t] >= proc_vector_time_[0][t]
  <2> SUFFICES ASSUME NEW t \in Proc PROVE now[t] >= proc_vector_time_[0][t]
    BY <1>8, Zenon
  <2>1. now[t] >= vt[t] /\ vt[t] >= proc_vector_time_[0][t]
    BY <1>2, <1>3, <1>6, Zenon
  <2>2. vt[t] \in Nat /\ proc_vector_time_[0][t] \in Nat
    BY <1>2, <1>3, DataTypes, Zenon DEF VectorTime
  <2>3. now[t] \in Nat
    <3>1. now \in VectorTime
      BY <1>3, <1>8, Zenon DEF TypeOK
    <3>2. QED
      BY <3>1, Zenon DEF VectorTime
  <2>4. QED
    BY <2>1, <2>2, <2>3
<1>15. \A t \in Proc, e \in Episodes : e <= episode[t] => arrivedAt'[t][e] = arrivedAt[t][e]
  BY <1>2 DEF Episodes
<1>16. gap' = {} /\ \A m \in reqs' : m.to = 0
  BY <1>1, <1>7, Zenon DEF DataInv
<1>17. QED
  BY <1>2, <1>9, <1>10, <1>11, <1>12, <1>13, <1>15, <1>16, DataKeep, Zenon

(* An arrival is held, and taken in if the manager is there. *)
LEMMA HandleArrivalData ==
  ASSUME NBarriers = 1, SyncInv, SyncInv', DataInv, NEW m \in reqs, HandleArrival(m.to, m)
  PROVE  DataInv'
<1> DEFINE now == Incorporated(proc_vector_time_[0], {m})
<1>1. /\ TypeOK /\ TypeOK' /\ 0 \in Proc /\ m.to = 0 /\ m \in Request /\ m.from \in Proc
      /\ m.id = 0
  BY OneManager, SyncTypes, Zenon DEF SyncInv, DataInv
<1>2. /\ m.type = "arrival" /\ rep_seqno_[0][m.from] < m.seqno
      /\ mask' = [mask EXCEPT ![0] = @ \cup {m.from}]
      /\ proc_vector_time_' = (IF 0 \in mask[0] THEN [proc_vector_time_ EXCEPT ![0] = now]
                                                ELSE proc_vector_time_)
      /\ gap' = (IF 0 \in mask[0] /\ Gap(proc_vector_time_[0], {m}) THEN gap \cup {0} ELSE gap)
      /\ reqs' \subseteq reqs
      /\ UNCHANGED <<pc, episode, req_seqno, sent, inverse_time_, reps, arrivedAt>>
  BY <1>1, Zenon DEF HandleArrival, NewRequest, ReceiveRequest, Arrived
<1>3. \A q \in Proc \ {0} : rep'[q] = rep[q]
  BY <1>1 DEF HandleArrival, TypeOK
<1>4. m = sent[m.from] /\ pc[m.from] = "wait" /\ m.from # 0 /\ ~ Released(m.from)
  <2>1. rep_seqno_[0][m.from] \in Nat /\ m.seqno \in Nat
    BY <1>1, SyncTypes, Zenon
  <2>2. m = sent[m.from] /\ Waits(m.from)
    <3>1. ~ (rep_seqno_[0][m.from] >= m.seqno)
      BY <1>2, <2>1
    <3>2. QED
      BY <1>1, <3>1, Zenon DEF SyncInv, RequestInv
  <2>3. pc[m.from] = "wait" /\ m.seqno = req_seqno[m.from]
    <3>1. sent[m.from].type # "repo" /\ sent[m.from].seqno = m.seqno
      BY <1>2, <2>2
    <3>2. Waits(m.from)
      BY <2>2, Zenon
    <3>3. pc[m.from] = "wait"
      BY <1>1, <3>1, <3>2, Zenon DEF SyncInv, SentInv, Waits
    <3>4. sent[m.from].seqno = req_seqno[m.from]
      BY <1>1, <3>3, Zenon DEF SyncInv, SentInv
    <3>5. QED
      BY <3>1, <3>3, <3>4, Zenon
  <2>5. rep_seqno_[sent[m.from].to][m.from] # req_seqno[m.from]
    <3>1. rep_seqno_[0][m.from] # m.seqno
      BY <1>2, <2>1
    <3>2. QED
      BY <1>1, <2>2, <2>3, <3>1, Zenon
  <2>4. QED
    BY <1>1, <2>2, <2>3, <2>5, OneManager, Zenon DEF SyncInv, ReleaseInv
<1>5. /\ m.after <= proc_vector_time_[0][m.from]
      /\ m.vector_time[m.from] = arrivedAt[m.from][episode[m.from]]
  BY <1>1, <1>4, Zenon DEF DataInv, ClientData
<1>6. ~ Gap(proc_vector_time_[0], {m})
  <2>1. m.after \in Nat /\ proc_vector_time_[0][m.from] \in Nat
    BY <1>1, <1>4, DataTypes, Zenon
  <2>2. QED
    BY <1>5, <2>1 DEF Gap
<1>7. /\ \A t \in Proc : now[t] >= proc_vector_time_[0][t]
      /\ now[m.from] >= m.vector_time[m.from]
  <2>1. proc_vector_time_[0] \in VectorTime /\ {m} \in SUBSET Request
    BY <1>1, Zenon DEF TypeOK
  <2>2. QED
    BY <2>1, IncorporatedCovers, Zenon
<1> HIDE DEF now
<1>8. /\ proc_vector_time_'[0] = IF 0 \in mask[0] THEN now ELSE proc_vector_time_[0]
      /\ \A q \in Proc \ {0} : proc_vector_time_'[q] = proc_vector_time_[q]
      /\ mask'[0] = mask[0] \cup {m.from} /\ mask[0] \subseteq Proc
      /\ 0 \in mask[0] <=> pc[0] = "spin"
  <2>1. mask'[0] = mask[0] \cup {m.from} /\ mask[0] \subseteq Proc
    BY <1>1, <1>2, OneManager, Zenon DEF TypeOK
  <2>2. 0 \in mask[0] <=> pc[0] = "spin"
    <3>1. Manager(0) = 0 /\ 0 \in Barriers /\ BarrierOf(episode[0]) = 0
      <4>1. Manager(0) = 0 /\ 0 \in Barriers /\ \A e \in Nat : BarrierOf(e) = 0
        BY <1>1, OneManager, Zenon
      <4>2. episode[0] \in Nat
        BY OneManager, SyncTypes, Zenon DEF SyncInv
      <4>3. QED
        BY <4>1, <4>2, Zenon
    <3>2. Manager(0) \in mask[0] <=>
            pc[Manager(0)] = "spin" /\ BarrierOf(episode[Manager(0)]) = 0
      BY <3>1, Zenon DEF SyncInv, MaskInv
    <3>3. QED
      BY <3>1, <3>2, Zenon
  <2>3. QED
    BY <1>1, <1>2, <2>1, <2>2, Zenon DEF TypeOK
<1>9. \A q \in Proc \ {0} : SameClient(q)
  BY <1>2, <1>3, <1>8, Zenon DEF SameClient
<1>10. \A t \in Proc : proc_vector_time_'[0][t] >= proc_vector_time_[0][t]
  BY <1>1, <1>7, <1>8, DataTypes
<1>11. ManagerData'
  <2> SUFFICES ASSUME pc[0] = "spin", NEW q \in mask'[0]
               PROVE  proc_vector_time_'[0][q] >= arrivedAt[q][episode[q]]
    BY <1>2, Zenon DEF ManagerData
  <2>1. CASE q = m.from
    BY <1>5, <1>7, <1>8, <2>1, Zenon
  <2>2. CASE q # m.from
    <3>1. q \in Proc /\ q \in mask[0]
      BY <1>8, <2>2, Zenon
    <3>2. proc_vector_time_[0][q] >= arrivedAt[q][episode[q]]
      BY <3>1, Zenon DEF DataInv, ManagerData
    <3>3. episode[q] >= 1
      <4>1. pc[q] \in {"spin", "wait"}
        BY <3>1, OneManager DEF SyncInv, MaskInv
      <4>2. QED
        BY <3>1, <4>1, Zenon DEF SyncInv, CallInv
    <3>4. /\ proc_vector_time_'[0][q] \in Nat /\ proc_vector_time_[0][q] \in Nat
          /\ arrivedAt[q][episode[q]] \in Nat
      <4>1. proc_vector_time_'[0][q] \in Nat
        BY <1>1, <3>1 DEF TypeOK, VectorTime
      <4>2. QED
        BY <1>1, <3>1, <3>3, <4>1, DataTypes, Zenon
    <3>5. QED
      BY <1>10, <3>1, <3>2, <3>4
  <2>3. QED
    BY <2>1, <2>2, Zenon
<1>12. ASSUME NEW a \in reps', ~ (a \in reps /\ SameClient(a.to)) PROVE AnswerData(a)'
  <2>1. a.to = 0
    BY <1>1, <1>2, <1>9, <1>12, Zenon DEF TypeOK, Reply
  <2>2. QED
    BY <1>1, <1>2, <2>1, OneManager, Zenon DEF AnswerData
<1>13. Done(0)' = Done(0)
  BY <1>2, Zenon DEF Done
<1>14. /\ gap' = {} /\ \A q \in Proc : episode'[q] <= MaxEpisodes
       /\ \A n \in reqs' : n.to = 0
  BY <1>2, <1>6, Zenon DEF DataInv
<1>15. QED
  BY <1>1, <1>2, <1>9, <1>10, <1>11, <1>12, <1>13, <1>14, DataKeep, Zenon

(* With one barrier every step keeps what clients know. *)
LEMMA DataStep ==
  ASSUME NBarriers = 1, SyncInv, SyncInv', DataInv, [Next]_vars
  PROVE  DataInv'
<1>1. ASSUME NEW p \in Proc, Write(p) PROVE DataInv'
  BY <1>1, DataQuiet, Zenon DEF Write, history, sync
<1>2. ASSUME NEW p \in Proc, Arrive(p) PROVE DataInv'
  <2>1. PICK repo \in BOOLEAN : ArriveManager(p, repo) \/ ArriveClient(p, repo)
    BY <1>2, Zenon DEF Arrive, RepoTest
  <2>2. QED
    BY <2>1, ArriveManagerData, ArriveClientData, Zenon
<1>3. ASSUME NEW p \in Proc, Rexmit(p) PROVE DataInv'
  BY <1>3, DataQuiet, Zenon DEF Rexmit, history, sync, memory, Waits
<1>4. ASSUME NEW p \in Proc, NEW a \in reps, ReceiveReply(p, a) PROVE DataInv'
  <2>1. CASE pc' # pc
    BY <1>4, <2>1, ReceiveReplyData, Zenon
  <2>2. CASE pc' = pc
    <3>1. /\ pc[p] = "wait" /\ reps' \subseteq reps
          /\ rep' = rep \/ rep' = [rep EXCEPT ![p] = [repo |-> a.repo, data |-> a.data]]
          /\ UNCHANGED <<pc, episode, mask, sent, req_seqno, proc_vector_time_,
                         inverse_time_, arrivedAt, gap, reqs>>
      BY <1>4, <2>2, Zenon DEF ReceiveReply, history, sync, memory
    <3>2. \A q \in Proc \ {0} : pc[q] = "got" => rep'[q] = rep[q]
      BY <3>1, Zenon DEF SyncInv, TypeOK
    <3>3. QED
      BY <3>1, <3>2, DataQuiet, Zenon
  <2>3. QED
    BY <2>1, <2>2, Zenon
<1>5. ASSUME NEW p \in Proc, NEW a \in reps, RepoBarrierReturn(p, a) PROVE DataInv'
  <2>1. CASE a.seqno = req_seqno[p]
    BY <1>5, <2>1, RepoBarrierReturnData, Zenon
  <2>2. CASE a.seqno # req_seqno[p]
    BY <1>5, <2>2, DataQuiet, Zenon DEF RepoBarrierReturn, history
  <2>3. QED
    BY <2>1, <2>2, Zenon
<1>6. ASSUME NEW m \in reqs, Handle(m) PROVE DataInv'
  BY <1>6, HandleArrivalData, HandleArrivalAgainData, HandleRepoData, Zenon DEF Handle
<1>7. ASSUME NEW m \in reqs, LoseRequest(m) PROVE DataInv'
  BY <1>7, DataQuiet, Zenon DEF LoseRequest, history, sync, memory
<1>8. ASSUME NEW m \in reps, LoseReply(m) PROVE DataInv'
  BY <1>8, DataQuiet, Zenon DEF LoseReply, history, sync, memory
<1>9. CASE UNCHANGED vars
  BY <1>9, DataQuiet, Zenon DEF vars, history, sync, memory
<1>10. QED
  BY <1>1, <1>2, <1>3, <1>4, <1>5, <1>6, <1>7, <1>8, <1>9, ReleaseManagerData,
     ReturnClientData, RepoBarrierCollectData, Zenon DEF Next, Finished

LEMMA DataCorrect == NBarriers = 1 => (Spec => []DataInv)
<1> SUFFICES ASSUME NBarriers = 1 PROVE Spec => []DataInv
  BY Zenon
<1>1. SyncInv /\ SyncInv' /\ DataInv /\ [Next]_vars => DataInv'
  BY DataStep, Zenon
<1>2. Init => DataInv
  BY DataInit, Zenon
<1>3. QED
  BY <1>1, <1>2, SyncCorrect, PTL DEF Spec

(* With one barrier, the intervals in an arrival always join on to those    *)
(* the manager has (Tmk_interval_incorporate): what inverse_time_ says      *)
(* process 0 knows, it knows, also after a collection and although a client *)
(* may be sent into Tmk_repo alone.                                         *)
THEOREM ArrivalsJoin == NBarriers = 1 => (Spec => []NoGap)
<1> SUFFICES ASSUME NBarriers = 1 PROVE Spec => []NoGap
  BY Zenon
<1>1. DataInv => NoGap
  BY Zenon DEF DataInv, NoGap
<1>2. Spec => []DataInv
  BY DataCorrect, Zenon
<1>3. QED
  BY <1>1, <1>2, PTL

(* With one barrier, a process that leaves it knows every interval closed   *)
(* by any process on arrival, with datagrams lost, repeated and late        *)
(* (Tmk_barrier, Tmk_interval_request).  With several barriers the static   *)
(* buffer of a client that manages another one can be overwritten, and it   *)
(* is false.                                                                *)
THEOREM BarrierSpreads == NBarriers = 1 => (Spec => BarrierPublishes)
<1> SUFFICES ASSUME NBarriers = 1 PROVE Spec => BarrierPublishes
  BY Zenon
<1>1. ASSUME SyncInv, SyncInv', DataInv, [Next]_vars, NEW p \in Proc,
             pc[p] \in {"spin", "got"}, pc'[p] \in {"run", "repo1"}
      PROVE  \A q \in Proc : proc_vector_time_'[p][q] >= arrivedAt[q][episode[p]]
  <2>1. ReleaseManager(p) \/ ReturnClient(p)
    <3>0. pc \in [Proc -> PCs]
      BY <1>1, Zenon DEF SyncInv, TypeOK
    <3>1. pc'[p] # pc[p]
      BY <1>1, Zenon
    <3>2. ASSUME NEW t \in Proc, Arrive(t) PROVE FALSE
      <4>1. pc[t] = "run" /\ \A q \in Proc \ {t} : pc'[q] = pc[q]
        BY <3>0, <3>2, Zenon DEF Arrive, ArriveManager, ArriveClient, Enter
      <4>2. QED
        BY <1>1, <3>1, <4>1, Zenon
    <3>3. ASSUME NEW t \in Proc, NEW a \in reps, ReceiveReply(t, a) \/ RepoBarrierReturn(t, a)
          PROVE  FALSE
      BY <1>1, <3>0, <3>3, Zenon DEF ReceiveReply, RepoBarrierReturn, LeaveRepoBarrier
    <3>4. ASSUME RepoBarrierCollect PROVE FALSE
      BY <1>1, <3>0, <3>4, Zenon DEF RepoBarrierCollect, LeaveRepoBarrier
    <3>5. ASSUME NEW m \in reqs, Handle(m) PROVE pc' = pc
      BY <3>5, Zenon DEF Handle, HandleArrival, HandleArrivalAgain, HandleRepo, HandleRepoAgain
    <3>6. ASSUME NEW t \in Proc, ReleaseManager(t) \/ ReturnClient(t) PROVE t = p
      BY <3>0, <3>1, <3>6, Zenon DEF ReleaseManager, ReturnClient, Leave
    <3>7. QED
      BY <1>1, <3>1, <3>2, <3>3, <3>4, <3>5, <3>6, Zenon
         DEF Next, Finished, vars, Write, Rexmit, LoseRequest, LoseReply
  <2>2. Covers(proc_vector_time_'[p], episode[p])
    BY <1>1, <2>1, ReleaseManagerData, ReturnClientData, Zenon
  <2>3. QED
    BY <2>2, Zenon DEF Covers
<1>2. SyncInv /\ SyncInv' /\ DataInv /\ [Next]_vars =>
        [\A p \in Proc :
           pc[p] \in {"spin", "got"} /\ pc'[p] \in {"run", "repo1"} =>
             \A q \in Proc : proc_vector_time_'[p][q] >= arrivedAt[q][episode[p]]]_vars
  BY <1>1, Zenon
<1>3. Spec => []DataInv
  BY DataCorrect, Zenon
<1>4. QED
  BY <1>2, <1>3, SyncCorrect, PTL DEF Spec, BarrierPublishes

=============================================================================
