--------------------------- MODULE TmkLock_proofs ---------------------------
(***************************************************************************)
(* Theorems about TmkLock, for any number of processes, any set of locks    *)
(* and any bounds.                                                          *)
(***************************************************************************)
EXTENDS TmkLock, TLAPS

(* The manager of a lock, lock_id % Tmk_nprocs, is a process. *)
LEMMA ManagerIsProc == \A l \in Locks : Manager(l) \in Proc
  BY NProcsAssumption, LocksAssumption DEF Manager, Proc

(* NoLock is no lock identifier: a waiting process awaits a lock. *)
LEMMA NoLockIsNoLock == NoLock \notin Locks /\ 0 \in Proc
  BY NProcsAssumption, LocksAssumption DEF NoLock, Proc

(* Closing an interval yields a vector time. *)
LEMMA IntervalType ==
  ASSUME TypeOK, NEW p \in Proc
  PROVE  Tmk_interval_create(p) \in VectorTime
  BY DEF TypeOK, VectorTime, Tmk_interval_create

(* The request p sends is a well-formed datagram. *)
LEMMA RequestType ==
  ASSUME TypeOK, NEW p \in Proc, NEW to \in Proc, NEW l \in Locks, NEW k \in Nat
  PROVE  AcquireRequest(p, to, l, k) \in Request
  BY DEF TypeOK, AcquireRequest, Request

(* So is the copy of a request that a manager forwards. *)
LEMMA ForwardType ==
  ASSUME TypeOK, NEW m \in Request, NEW p \in Proc, NEW to \in Proc
  PROVE  Forward(m, p, to) \in Request
  BY DEF Request, Forward

(* So is a grant. *)
LEMMA GrantType ==
  ASSUME NEW p \in Proc, NEW to \in Proc, NEW k \in Nat, NEW vt \in VectorTime
  PROVE  Grant(p, to, k, vt) \in Reply
  BY DEF Reply, Grant

(* Receiving a request keeps only well-formed requests in flight. *)
LEMMA ReceiveType ==
  ASSUME reqs \subseteq Request, NEW m, NEW sent, sent \subseteq Request,
         ReceiveRequest(m, sent)
  PROVE  reqs' \subseteq Request
  BY DEF ReceiveRequest

(* Incorporating a vector time leaves a vector time for every process. *)
LEMMA IncorporateType ==
  ASSUME TypeOK, NEW p \in Proc, NEW vt \in VectorTime,
         Tmk_interval_incorporate(p, vt)
  PROVE  /\ proc_vector_time_' \in [Proc -> VectorTime]
         /\ dirty' \in [Proc -> BOOLEAN]
<1> DEFINE new == {q \in Proc \ {p} : vt[q] > proc_vector_time_[p][q]}
           merged == [q \in Proc |-> IF q \in new THEN vt[q]
                                                  ELSE proc_vector_time_[p][q]]
<1>1. merged \in VectorTime
  BY DEF TypeOK, VectorTime
<1>2. \/ /\ proc_vector_time_' = [proc_vector_time_ EXCEPT ![p] = merged]
         /\ dirty' = dirty
      \/ /\ proc_vector_time_' = [proc_vector_time_ EXCEPT
                                   ![p] = [merged EXCEPT ![p] = vector_time_[p] + 1]]
         /\ dirty' = [dirty EXCEPT ![p] = FALSE]
  BY DEF Tmk_interval_incorporate
<1> HIDE DEF merged
<1>3. vector_time_[p] + 1 \in Nat
  BY DEF TypeOK
<1>4. [merged EXCEPT ![p] = vector_time_[p] + 1] \in VectorTime
  BY <1>1, <1>3 DEF VectorTime
<1>5. \E vt2 \in VectorTime : proc_vector_time_' = [proc_vector_time_ EXCEPT ![p] = vt2]
  BY <1>1, <1>2, <1>4
<1>6. proc_vector_time_' \in [Proc -> VectorTime]
  BY <1>5 DEF TypeOK
<1>7. dirty' \in [Proc -> BOOLEAN]
  BY <1>2 DEF TypeOK
<1>8. QED
  BY <1>6, <1>7

(* The initial state is well typed. *)
LEMMA TypeInit == Init => TypeOK
  BY NoLockIsNoLock DEF Init, TypeOK, VectorTime

(* Every step of the lock protocol keeps the state well typed. *)
LEMMA TypeStep == TypeOK /\ [Next]_vars => TypeOK'
<1> SUFFICES ASSUME TypeOK, [Next]_vars PROVE TypeOK'
  OBVIOUS
<1> USE NoLockIsNoLock
<1>1. ASSUME NEW p \in Proc, Write(p) PROVE TypeOK'
  BY <1>1 DEF Write, TypeOK, protocol, VectorTime
<1>2. ASSUME NEW p \in Proc, NEW l \in Locks, AcquireCached(p, l) PROVE TypeOK'
  BY <1>2 DEF AcquireCached, TypeOK, memory
<1>3. ASSUME NEW p \in Proc, NEW l \in Locks, AcquireRemote(p, l) PROVE TypeOK'
  <2> DEFINE to == IF Manager(l) = p THEN tail[l] ELSE Manager(l)
             k == req_seqno[p] + 1
  <2>1. to \in Proc /\ k \in Nat
    <3>1. tail[l] \in Proc /\ Manager(l) \in Proc
      BY ManagerIsProc DEF TypeOK
    <3>2. req_seqno[p] \in Nat
      BY DEF TypeOK
    <3>3. QED
      BY <3>1, <3>2
  <2>2. AcquireRequest(p, to, l, k) \in Request
    BY <2>1, RequestType
  <2>3. reqs' \subseteq Request
    BY <1>3, <2>2 DEF AcquireRemote, TypeOK
  <2>4. vector_time_' \in [Proc -> Nat]
    BY <1>3 DEF AcquireRemote, Snapshot, TypeOK, VectorTime
  <2>5. QED
    BY <1>3, <2>1, <2>3, <2>4 DEF AcquireRemote, Snapshot, TypeOK
<1>4. ASSUME NEW p \in Proc, NEW l \in Locks, ReleaseCached(p, l) PROVE TypeOK'
  <2>1. released' \in [Locks -> VectorTime]
    BY <1>4, IntervalType DEF ReleaseCached, TypeOK, Recorded
  <2>2. time' \in [Proc -> [Locks -> Nat]]
    <3>1. proc_vector_time_[p][p] \in Nat
      BY DEF TypeOK, VectorTime
    <3>2. QED
      BY <1>4, <3>1 DEF ReleaseCached, TypeOK
  <2>3. QED
    BY <1>4, <2>1, <2>2 DEF ReleaseCached, TypeOK
<1>5. ASSUME NEW p \in Proc, NEW l \in Locks, ReleaseGrant(p, l) PROVE TypeOK'
  <2> DEFINE to == next[p][l]
             k == rep_seqno_[p][to]
  <2>1. to \in Proc /\ k \in Nat /\ Tmk_interval_create(p) \in VectorTime
    <3>1. to \in Proc
      BY DEF TypeOK
    <3>2. rep_seqno_[p] \in [Proc -> Nat]
      BY DEF TypeOK
    <3>3. QED
      BY <3>1, <3>2, IntervalType
  <2>2. Grant(p, to, k, Tmk_interval_create(p)) \in Reply
    BY <2>1, GrantType
  <2>3. reps' \subseteq Reply
    BY <1>5, <2>2 DEF ReleaseGrant, TypeOK
  <2>4. released' \in [Locks -> VectorTime] /\ proc_vector_time_' \in [Proc -> VectorTime]
    BY <1>5, <2>1 DEF ReleaseGrant, CloseInterval, TypeOK, Recorded
  <2>5. release_seqno' \in [Proc -> [Locks -> Proc \X Nat]]
    BY <1>5, <2>1 DEF ReleaseGrant, TypeOK
  <2>6. QED
    BY <1>5, <2>3, <2>4, <2>5 DEF ReleaseGrant, CloseInterval, TypeOK
<1>6. ASSUME NEW p \in Proc, Rexmit(p) PROVE TypeOK'
  <2>1. AcquireRequest(p, sentTo[p], waiting[p], req_seqno[p]) \in Request
    BY <1>6, RequestType DEF Rexmit, TypeOK, Running
  <2>2. reqs' \subseteq Request
    BY <1>6, <2>1 DEF Rexmit, TypeOK
  <2>3. vector_time_' \in [Proc -> Nat]
    BY <1>6 DEF Rexmit, Snapshot, TypeOK, VectorTime
  <2>4. QED
    BY <1>6, <2>2, <2>3 DEF Rexmit, Snapshot, TypeOK, protocol
<1>7. ASSUME NEW p \in Proc, NEW m \in reps, Acquired(p, m) PROVE TypeOK'
  <2>1. m.vector_time \in VectorTime
    BY DEF TypeOK, Reply
  <2>2. /\ proc_vector_time_' \in [Proc -> VectorTime]
        /\ dirty' \in [Proc -> BOOLEAN]
    BY <1>7, <2>1, IncorporateType DEF Acquired
  <2>3. QED
    BY <1>7, <2>2 DEF Acquired, TypeOK
<1>8. ASSUME NEW p \in Proc, NEW m \in reqs, HandlerGrant(p, m) PROVE TypeOK'
  <2> DEFINE vt == GrantTime(p, m.id)
  <2>1. m.from \in Proc /\ m.id \in Locks /\ m.seqno \in Nat
    BY DEF TypeOK, Request
  <2>2. vt \in VectorTime
    BY IntervalType DEF TypeOK, GrantTime
  <2>3. reps' \subseteq Reply
    <3> HIDE DEF vt
    <3>1. Grant(p, m.from, m.seqno, vt) \in Reply
      BY <2>1, <2>2, GrantType
    <3>2. reps' = reps \cup {Grant(p, m.from, m.seqno, vt)}
      BY <1>8 DEF HandlerGrant, vt
    <3>3. QED
      BY <3>1, <3>2 DEF TypeOK
  <2>4. reqs' \subseteq Request
    BY <1>8, ReceiveType DEF HandlerGrant, TypeOK
  <2>5. proc_vector_time_' \in [Proc -> VectorTime] /\ dirty' \in [Proc -> BOOLEAN]
    <3>1. proc_vector_time_' \in [Proc -> VectorTime]
      BY <1>8, <2>2 DEF HandlerGrant, TypeOK
    <3>2. GrantDirty(p, m.id) \in BOOLEAN
      BY DEF GrantDirty, TypeOK
    <3>3. dirty' \in [Proc -> BOOLEAN]
      BY <1>8, <3>2 DEF HandlerGrant, TypeOK
    <3>4. QED
      BY <3>1, <3>3
  <2>6. release_seqno' \in [Proc -> [Locks -> Proc \X Nat]]
    BY <1>8, <2>1 DEF HandlerGrant, TypeOK
  <2>7. QED
    BY <1>8, <2>1, <2>3, <2>4, <2>5, <2>6 DEF HandlerGrant, NewRequest, Enqueue, TypeOK
<1>9. ASSUME NEW p \in Proc, NEW m \in reqs, HandlerQueue(p, m) PROVE TypeOK'
  BY <1>9, ReceiveType DEF HandlerQueue, NewRequest, Enqueue, TypeOK, Request, memory
<1>10. ASSUME NEW p \in Proc, NEW m \in reqs, HandlerForward(p, m) PROVE TypeOK'
  <2>1. m.from \in Proc /\ m.id \in Locks /\ m.seqno \in Nat /\ m \in Request
    BY DEF TypeOK, Request
  <2>2. Forward(m, p, tail[m.id]) \in Request
    BY <2>1, ForwardType DEF TypeOK
  <2>3. reqs' \subseteq Request
    BY <1>10, <2>2, ReceiveType DEF HandlerForward, TypeOK
  <2>4. QED
    BY <1>10, <2>1, <2>3 DEF HandlerForward, NewRequest, TypeOK, memory
<1>11. ASSUME NEW p \in Proc, NEW m \in reqs, HandlerError(p, m) PROVE TypeOK'
  BY <1>11, ReceiveType DEF HandlerError, NewRequest, TypeOK, Request, memory
<1>12. ASSUME NEW p \in Proc, NEW m \in reqs, DuplicateGrant(p, m) PROVE TypeOK'
  <2>1. m.from \in Proc /\ m.seqno \in Nat /\ proc_vector_time_[p] \in VectorTime
    BY DEF TypeOK, Request
  <2>2. reps' \subseteq Reply
    BY <1>12, <2>1, GrantType DEF DuplicateGrant, TypeOK
  <2>3. reqs' \subseteq Request
    BY <1>12, ReceiveType DEF DuplicateGrant, TypeOK
  <2>4. QED
    BY <1>12, <2>2, <2>3 DEF DuplicateGrant, TypeOK, protocol, memory
<1>13. ASSUME NEW p \in Proc, NEW m \in reqs, DuplicateForward(p, m) PROVE TypeOK'
  <2>1. m.from \in Proc /\ m \in Request
    BY DEF TypeOK, Request
  <2>2. Forward(m, p, tail_[p][m.from]) \in Request
    BY <2>1, ForwardType DEF TypeOK
  <2>3. reqs' \subseteq Request
    BY <1>13, <2>2, ReceiveType DEF DuplicateForward, TypeOK
  <2>4. QED
    BY <1>13, <2>3 DEF DuplicateForward, TypeOK, protocol, memory
<1>14. ASSUME NEW p \in Proc, NEW m \in reqs, DuplicateIgnore(p, m) PROVE TypeOK'
  BY <1>14, ReceiveType DEF DuplicateIgnore, TypeOK, Request, protocol, memory
<1>15. ASSUME NEW m \in reqs, LoseRequest(m) PROVE TypeOK'
  BY <1>15 DEF LoseRequest, TypeOK, protocol, memory
<1>16. ASSUME NEW m \in reps, LoseReply(m) PROVE TypeOK'
  BY <1>16 DEF LoseReply, TypeOK, protocol, memory
<1>17. CASE UNCHANGED vars
  BY <1>17 DEF vars, protocol, memory, TypeOK
<1>18. QED
  BY <1>1, <1>2, <1>3, <1>4, <1>5, <1>6, <1>7, <1>8, <1>9, <1>10, <1>11, <1>12,
     <1>13, <1>14, <1>15, <1>16, <1>17
  DEF Next, Step, Program, Handle

(* Type correctness: indices, queue links and datagrams of lock.c stay in   *)
(* range for every number of processes.                                     *)
THEOREM TypeCorrect == Spec => []TypeOK
  BY TypeInit, TypeStep, PTL DEF Spec

-----------------------------------------------------------------------------
(* Mutual exclusion.  The argument rests on the numbers alone: it needs no  *)
(* assumption on the order in which datagrams arrive, only that there is a  *)
(* single lock, so that a number names one acquire of that lock.            *)

OneLock == \A l1, l2 \in Locks : l1 = l2

(* Where no process changes its view of the locks, it is enough that the    *)
(* datagrams in flight and the numbers seen stay in order.                  *)
LEMMA ViewsSame ==
  ASSUME MutexInv, TypeOK',
         UNCHANGED <<held, next, waiting, release_seqno, req_seqno>>,
         \A m \in reqs' : m.seqno <= req_seqno[m.from],
         \A p, q \in Proc : rep_seqno_'[p][q] <= req_seqno[q],
         \A m \in reps' : m \in reps \/
           /\ m.seqno <= req_seqno[m.to]
           /\ waiting[m.to] # NoLock
                => release_seqno[m.via][waiting[m.to]] = <<m.to, m.seqno>>
  PROVE  MutexInv'
<1>1. WaitingHolds' /\ OneOwner'
  BY DEF MutexInv, WaitingHolds, OneOwner, Owns, HasLock, GrantedTo
<1>2. NumbersKnown'
  BY DEF MutexInv, NumbersKnown
<1>3. GrantsRecorded'
  BY DEF MutexInv, GrantsRecorded
<1>4. QED
  BY <1>1, <1>2, <1>3 DEF MutexInv

(* The fields of a request in flight. *)
LEMMA RequestFields ==
  ASSUME TypeOK, NEW m \in reqs
  PROVE  /\ m.from \in Proc /\ m.to \in Proc /\ m.id \in Locks /\ m.seqno \in Nat
         /\ m \in Request
  BY DEF TypeOK, Request

(* The fields of a reply in flight. *)
LEMMA ReplyFields ==
  ASSUME TypeOK, NEW m \in reps
  PROVE  m.to \in Proc /\ m.via \in Proc /\ m.seqno \in Nat
  BY DEF TypeOK, Reply

(* A forwarded copy keeps the sender and the number of the request. *)
LEMMA ForwardKeeps ==
  ASSUME NEW m \in Request, NEW p \in Proc, NEW to \in Proc
  PROVE  Forward(m, p, to).from = m.from /\ Forward(m, p, to).seqno = m.seqno
  BY DEF Forward, Request

(* Numbers are ordered. *)
LEMMA AtMostTransitive == \A i, j, k \in Nat : i <= j /\ j <= k => i <= k
  OBVIOUS

(* Counting one entry up lowers none. *)
LEMMA CountsUp ==
  ASSUME NEW S, NEW f \in [S -> Nat], NEW s \in S, NEW g, g = [f EXCEPT ![s] = @ + 1]
  PROVE  \A t \in S : g[t] \in Nat /\ f[t] <= g[t]
  OBVIOUS

(* The initial state satisfies the invariant: process 0 caches every lock. *)
LEMMA MutexInit == Init => MutexInv
<1> SUFFICES ASSUME Init PROVE MutexInv
  OBVIOUS
<1>1. TypeOK
  BY TypeInit
<1>2. WaitingHolds /\ NumbersKnown /\ GrantsRecorded
  BY NoLockIsNoLock DEF Init, WaitingHolds, NumbersKnown, GrantsRecorded
<1>3. ASSUME NEW l \in Locks, NEW p \in Proc, Owns(p, l) PROVE p = 0
  BY <1>3, NoLockIsNoLock DEF Init, Owns, HasLock, GrantedTo
<1>4. QED
  BY <1>1, <1>2, <1>3 DEF MutexInv, OneOwner

(* A grant by the owner p moves the ownership to the requester. *)
LEMMA GrantMoves ==
  ASSUME OneLock, MutexInv, TypeOK',
         NEW p \in Proc, NEW l \in Locks, NEW to \in Proc, NEW k \in Nat,
         NEW vt, HasLock(p, l),
         k <= req_seqno[to],
         UNCHANGED <<waiting, req_seqno>>,
         held' = [held EXCEPT ![p][l] = FALSE],
         next' = [next EXCEPT ![p][l] = to],
         release_seqno' = [release_seqno EXCEPT ![p][l] = <<to, k>>],
         reps' = reps \cup {Grant(p, to, k, vt)},
         \A m \in reqs' : m.seqno <= req_seqno[m.from],
         \A q, r \in Proc : rep_seqno_'[q][r] <= req_seqno[r]
  PROVE  MutexInv'
<1> release_seqno \in [Proc -> [Locks -> Proc \X Nat]] /\ held \in [Proc -> [Locks -> BOOLEAN]]
  BY DEF MutexInv, TypeOK
<1>0. \A q \in Proc : waiting[q] # NoLock => waiting[q] = l
  <2>1. \A q \in Proc : waiting[q] # NoLock => waiting[q] \in Locks
    BY DEF MutexInv, TypeOK
  <2>2. QED
    BY <2>1 DEF OneLock
<1>1. WaitingHolds'
  <2> SUFFICES ASSUME NEW q \in Proc, waiting[q] # NoLock
               PROVE  held'[q][waiting[q]] /\ req_seqno[q] > 0
    BY DEF WaitingHolds
  <2>1. waiting[q] = l /\ q # p
    BY <1>0 DEF HasLock
  <2>2. held[q][waiting[q]] /\ req_seqno[q] > 0
    BY DEF MutexInv, WaitingHolds
  <2>3. QED
    BY <2>1, <2>2
<1>2. NumbersKnown'
  <2>1. \A m \in reps' : m.seqno <= req_seqno[m.to]
    BY DEF MutexInv, NumbersKnown, Grant
  <2>2. ASSUME NEW q \in Proc, NEW x \in Locks
        PROVE  release_seqno'[q][x][2] <= req_seqno[release_seqno'[q][x][1]]
    <3>1. CASE q = p /\ x = l
      BY <3>1 DEF MutexInv, TypeOK
    <3>2. CASE ~ (q = p /\ x = l)
      <4>1. release_seqno'[q][x] = release_seqno[q][x]
        BY <3>2
      <4>2. QED
        BY <4>1 DEF MutexInv, NumbersKnown
    <3>3. QED
      BY <3>1, <3>2
  <2>3. QED
    BY <2>1, <2>2 DEF NumbersKnown
<1>3. ASSUME NEW q \in Proc, q # p PROVE ~ Owns(q, l)
  BY <1>3 DEF MutexInv, OneOwner, Owns
<1>4. waiting[p] # l /\ ~ GrantedTo(p, l)
  BY DEF HasLock, GrantedTo
<1>5. GrantsRecorded'
  <2> SUFFICES ASSUME NEW m \in reps', waiting[m.to] # NoLock,
                      m.seqno = req_seqno[m.to]
               PROVE  release_seqno'[m.via][waiting[m.to]] = <<m.to, m.seqno>>
    BY DEF GrantsRecorded
  <2>1. CASE m \in reps
    <3>1. m.to \in Proc /\ m.via \in Proc
      BY <2>1, ReplyFields DEF MutexInv
    <3>2. release_seqno[m.via][waiting[m.to]] = <<m.to, m.seqno>>
      BY <2>1 DEF MutexInv, GrantsRecorded
    <3>3. waiting[m.to] = l
      BY <3>1, <1>0
    <3>4. GrantedTo(m.to, l)
      BY <3>1, <3>2, <3>3 DEF GrantedTo
    <3>5. m.to = p
      BY <3>1, <3>4, <1>3 DEF Owns
    <3>6. QED
      BY <3>4, <3>5, <1>4
  <2>2. CASE m = Grant(p, to, k, vt)
    <3>1. m.to = to /\ m.via = p /\ m.seqno = k
      BY <2>2 DEF Grant
    <3>2. waiting[to] = l
      BY <3>1, <1>0
    <3>3. release_seqno'[p][l] = <<to, k>>
      OBVIOUS
    <3>4. QED
      BY <3>1, <3>2, <3>3
  <2>3. QED
    BY <2>1, <2>2
<1>6. ASSUME NEW q \in Proc, Owns(q, l)' PROVE q = to
  <2>1. CASE HasLock(q, l)'
    <3>1. CASE q = p
      BY <2>1, <3>1 DEF HasLock, MutexInv, TypeOK
    <3>2. CASE q # p
      BY <2>1, <3>2, <1>3 DEF HasLock, Owns, MutexInv, TypeOK
    <3>3. QED
      BY <3>1, <3>2
  <2>2. CASE GrantedTo(q, l)'
    <3>1. PICK g \in Proc : release_seqno'[g][l] = <<q, req_seqno[q]>>
      BY <2>2 DEF GrantedTo
    <3>2. CASE g = p
      BY <3>1, <3>2 DEF MutexInv, TypeOK
    <3>3. CASE g # p
      <4>1. release_seqno[g][l] = <<q, req_seqno[q]>> /\ waiting[q] = l
        BY <2>2, <3>1, <3>3 DEF MutexInv, TypeOK, GrantedTo
      <4>2. GrantedTo(q, l)
        BY <4>1 DEF GrantedTo
      <4>3. QED
        BY <4>2, <1>3, <1>4 DEF Owns
    <3>4. QED
      BY <3>2, <3>3
  <2>3. QED
    BY <1>6, <2>1, <2>2 DEF Owns
<1>7. OneOwner'
  BY <1>6 DEF OneOwner, OneLock
<1>8. QED
  BY <1>1, <1>2, <1>5, <1>7 DEF MutexInv

(* A process that changes held or next without gaining the lock, and no     *)
(* number, disturbs nothing.                                                *)
LEMMA OwnersShrink ==
  ASSUME MutexInv, TypeOK', UNCHANGED <<waiting, release_seqno, req_seqno, reps>>,
         \A m \in reqs' : m.seqno <= req_seqno[m.from],
         \A p, q \in Proc : rep_seqno_'[p][q] <= req_seqno[q],
         \A p \in Proc : \A l \in Locks :
           /\ HasLock(p, l)' => HasLock(p, l)
           /\ waiting[p] = l => (held[p][l] => held'[p][l])
  PROVE  MutexInv'
<1>1. WaitingHolds'
  BY DEF MutexInv, WaitingHolds, TypeOK
<1>2. NumbersKnown' /\ GrantsRecorded'
  BY DEF MutexInv, NumbersKnown, GrantsRecorded
<1>3. \A p \in Proc : \A l \in Locks : Owns(p, l)' => Owns(p, l)
  BY DEF Owns, GrantedTo
<1>4. OneOwner'
  BY <1>3 DEF MutexInv, OneOwner
<1>5. QED
  BY <1>1, <1>2, <1>4 DEF MutexInv

(* A new request at p raises only the number p has seen from its sender,    *)
(* and that one to a number the sender has given out.                       *)
LEMMA NewRequestKnown ==
  ASSUME MutexInv, NEW p \in Proc, NEW m \in reqs, NewRequest(p, m)
  PROVE  \A q, r \in Proc : rep_seqno_'[q][r] <= req_seqno[r]
<1>1. m.from \in Proc /\ m.seqno <= req_seqno[m.from]
  BY RequestFields DEF MutexInv, NumbersKnown
<1>2. rep_seqno_ \in [Proc -> [Proc -> Nat]]
  BY DEF MutexInv, TypeOK
<1>3. rep_seqno_' = [rep_seqno_ EXCEPT ![p][m.from] = m.seqno]
  BY DEF NewRequest
<1>4. \A q, r \in Proc : rep_seqno_[q][r] <= req_seqno[r]
  BY DEF MutexInv, NumbersKnown
<1>5. QED
  BY <1>1, <1>2, <1>3, <1>4

(* Every step preserves the invariant. *)
LEMMA MutexStep == OneLock /\ MutexInv /\ [Next]_vars => MutexInv'
<1> SUFFICES ASSUME OneLock, MutexInv, [Next]_vars PROVE MutexInv'
  OBVIOUS
<1> TypeOK /\ TypeOK'
  BY TypeStep DEF MutexInv
<1> /\ held \in [Proc -> [Locks -> BOOLEAN]]
    /\ next \in [Proc -> [Locks -> Proc]]
    /\ release_seqno \in [Proc -> [Locks -> Proc \X Nat]]
    /\ req_seqno \in [Proc -> Nat]
    /\ waiting \in [Proc -> Locks \cup {NoLock}]
  BY DEF TypeOK
<1> NumbersKnown
  BY DEF MutexInv
<1>a. /\ \A m \in reqs : m.seqno <= req_seqno[m.from]
      /\ \A p, q \in Proc : rep_seqno_[p][q] <= req_seqno[q]
  BY DEF NumbersKnown
<1>1. ASSUME NEW p \in Proc, Write(p) PROVE MutexInv'
  BY <1>1, <1>a, ViewsSame DEF Write, protocol
<1>2. ASSUME NEW p \in Proc, NEW l \in Locks, AcquireCached(p, l) PROVE MutexInv'
  <2>1. \A q \in Proc : \A x \in Locks :
          /\ HasLock(q, x)' => HasLock(q, x)
          /\ waiting[q] = x => (held[q][x] => held'[q][x])
    BY <1>2, NoLockIsNoLock DEF AcquireCached, HasLock, Running
  <2>2. QED
    BY <1>2, <1>a, <2>1, OwnersShrink DEF AcquireCached
<1>4. ASSUME NEW p \in Proc, NEW l \in Locks, ReleaseCached(p, l) PROVE MutexInv'
  <2>1. \A q \in Proc : \A x \in Locks :
          /\ HasLock(q, x)' => HasLock(q, x)
          /\ waiting[q] = x => (held[q][x] => held'[q][x])
    BY <1>4, NoLockIsNoLock DEF ReleaseCached, HasLock, Running
  <2>2. QED
    BY <1>4, <1>a, <2>1, OwnersShrink DEF ReleaseCached
<1>5. ASSUME NEW p \in Proc, NEW l \in Locks, ReleaseGrant(p, l) PROVE MutexInv'
  <2> DEFINE to == next[p][l]
             k == rep_seqno_[p][to]
  <2>1. to \in Proc /\ k \in Nat /\ k <= req_seqno[to]
    <3>1. to \in Proc
      OBVIOUS
    <3>2. rep_seqno_[p][to] \in Nat
      BY <3>1 DEF TypeOK
    <3>3. QED
      BY <3>1, <3>2, <1>a
  <2>2. HasLock(p, l)
    BY <1>5, NoLockIsNoLock DEF ReleaseGrant, HasLock, Running
  <2>3. next' = [next EXCEPT ![p][l] = to]
    BY <1>5 DEF ReleaseGrant
  <2>4. /\ reps' = reps \cup {Grant(p, to, k, Tmk_interval_create(p))}
        /\ release_seqno' = [release_seqno EXCEPT ![p][l] = <<to, k>>]
        /\ held' = [held EXCEPT ![p][l] = FALSE]
        /\ UNCHANGED <<waiting, req_seqno, reqs, rep_seqno_>>
    BY <1>5 DEF ReleaseGrant
  <2> HIDE DEF to, k
  <2>5. QED
    BY <2>1, <2>2, <2>3, <2>4, <1>a, GrantMoves
<1>6. ASSUME NEW p \in Proc, Rexmit(p) PROVE MutexInv'
  <2>1. AcquireRequest(p, sentTo[p], waiting[p], req_seqno[p]).from = p
        /\ AcquireRequest(p, sentTo[p], waiting[p], req_seqno[p]).seqno = req_seqno[p]
    BY DEF AcquireRequest
  <2>2. \A m \in reqs' : m.seqno <= req_seqno[m.from]
    BY <1>6, <2>1, <1>a DEF Rexmit
  <2>3. UNCHANGED <<held, next, waiting, release_seqno, req_seqno, rep_seqno_, reps>>
    BY <1>6 DEF Rexmit, protocol
  <2>4. QED
    BY <2>2, <2>3, <1>a, ViewsSame
<1>8. ASSUME NEW p \in Proc, NEW m \in reqs, HandlerGrant(p, m) PROVE MutexInv'
  <2> DEFINE vt == GrantTime(p, m.id)
  <2>1. /\ m.from \in Proc /\ m.id \in Locks /\ m.seqno \in Nat
        /\ m.seqno <= req_seqno[m.from]
    BY RequestFields, <1>a
  <2>2. HasLock(p, m.id)
    BY <1>8, <2>1, NoLockIsNoLock DEF HandlerGrant, HasLock, MutexInv, WaitingHolds
  <2>3. held' = [held EXCEPT ![p][m.id] = FALSE]
    BY <1>8, <2>1 DEF HandlerGrant
  <2>4. /\ reps' = reps \cup {Grant(p, m.from, m.seqno, vt)}
        /\ release_seqno' = [release_seqno EXCEPT ![p][m.id] = <<m.from, m.seqno>>]
        /\ next' = [next EXCEPT ![p][m.id] = m.from]
        /\ UNCHANGED <<waiting, req_seqno>>
    BY <1>8 DEF HandlerGrant, Enqueue
  <2>5. /\ \A q, r \in Proc : rep_seqno_'[q][r] <= req_seqno[r]
        /\ \A n \in reqs' : n.seqno <= req_seqno[n.from]
    <3>1. NewRequest(p, m) /\ ReceiveRequest(m, {})
      BY <1>8 DEF HandlerGrant
    <3>2. \A n \in reqs' : n.seqno <= req_seqno[n.from]
      BY <3>1, <1>a DEF ReceiveRequest
    <3>3. QED
      BY <3>1, <3>2, NewRequestKnown
  <2> HIDE DEF vt
  <2>6. QED
    BY <2>1, <2>2, <2>3, <2>4, <2>5, GrantMoves
<1>9. ASSUME NEW p \in Proc, NEW m \in reqs, HandlerQueue(p, m) PROVE MutexInv'
  <2>1. m.from \in Proc /\ m.id \in Locks
    BY RequestFields
  <2>2. \A q \in Proc : \A x \in Locks :
          /\ HasLock(q, x)' => HasLock(q, x)
          /\ waiting[q] = x => (held[q][x] => held'[q][x])
    BY <1>9, <2>1 DEF HandlerQueue, Enqueue, HasLock
  <2>3. /\ \A q, r \in Proc : rep_seqno_'[q][r] <= req_seqno[r]
        /\ \A n \in reqs' : n.seqno <= req_seqno[n.from]
    <3>1. NewRequest(p, m) /\ ReceiveRequest(m, {})
      BY <1>9 DEF HandlerQueue
    <3>2. \A n \in reqs' : n.seqno <= req_seqno[n.from]
      BY <3>1, <1>a DEF ReceiveRequest
    <3>3. QED
      BY <3>1, <3>2, NewRequestKnown
  <2>4. QED
    BY <1>9, <2>2, <2>3, OwnersShrink DEF HandlerQueue
<1>10. ASSUME NEW p \in Proc, NEW m \in reqs, HandlerForward(p, m) PROVE MutexInv'
  <2>1. tail[m.id] \in Proc /\ m \in Request
    BY RequestFields DEF TypeOK
  <2>2. \A n \in {Forward(m, p, tail[m.id])} : n.from = m.from /\ n.seqno = m.seqno
    BY <2>1, ForwardKeeps
  <2>3. /\ \A q, r \in Proc : rep_seqno_'[q][r] <= req_seqno[r]
        /\ \A n \in reqs' : n.seqno <= req_seqno[n.from]
    <3>1. NewRequest(p, m) /\ ReceiveRequest(m, {Forward(m, p, tail[m.id])})
      BY <1>10 DEF HandlerForward
    <3>2. \A n \in reqs' : n.seqno <= req_seqno[n.from]
      BY <2>2, <3>1, <1>a DEF ReceiveRequest
    <3>3. QED
      BY <3>1, <3>2, NewRequestKnown
  <2>4. QED
    BY <1>10, <2>3, ViewsSame DEF HandlerForward
<1>11. ASSUME NEW p \in Proc, NEW m \in reqs, HandlerError(p, m) PROVE MutexInv'
  <2>1. /\ \A q, r \in Proc : rep_seqno_'[q][r] <= req_seqno[r]
        /\ \A n \in reqs' : n.seqno <= req_seqno[n.from]
    <3>1. NewRequest(p, m) /\ ReceiveRequest(m, {})
      BY <1>11 DEF HandlerError
    <3>2. \A n \in reqs' : n.seqno <= req_seqno[n.from]
      BY <3>1, <1>a DEF ReceiveRequest
    <3>3. QED
      BY <3>1, <3>2, NewRequestKnown
  <2>2. QED
    BY <1>11, <2>1, ViewsSame DEF HandlerError
<1>12. ASSUME NEW p \in Proc, NEW m \in reqs, DuplicateGrant(p, m) PROVE MutexInv'
  <2>1. /\ m.from \in Proc /\ m.id \in Locks /\ m.seqno \in Nat
        /\ m.seqno <= req_seqno[m.from]
    BY RequestFields, <1>a
  <2> DEFINE g == Grant(p, m.from, m.seqno, proc_vector_time_[p])
  <2>2. g.to = m.from /\ g.via = p /\ g.seqno = m.seqno
    BY DEF Grant
  <2>3. reps' = reps \cup {g} /\ release_seqno[p][m.id] = <<m.from, m.seqno>>
    BY <1>12 DEF DuplicateGrant, DuplicateGranted
  <2> HIDE DEF g
  <2>4. waiting[m.from] # NoLock => waiting[m.from] = m.id
    BY <2>1 DEF OneLock
  <2>5. \A n \in reqs' : n.seqno <= req_seqno[n.from]
    <3>1. ReceiveRequest(m, {})
      BY <1>12 DEF DuplicateGrant
    <3>2. QED
      BY <3>1, <1>a DEF ReceiveRequest
  <2>6. UNCHANGED <<held, next, waiting, release_seqno, req_seqno, rep_seqno_>>
    BY <1>12 DEF DuplicateGrant, protocol
  <2>7. \A n \in reps' : n \in reps \/
          /\ n.seqno <= req_seqno[n.to]
          /\ waiting[n.to] # NoLock
               => release_seqno[n.via][waiting[n.to]] = <<n.to, n.seqno>>
    BY <2>1, <2>2, <2>3, <2>4
  <2>8. QED
    BY <2>5, <2>6, <2>7, <1>a, ViewsSame
<1>13. ASSUME NEW p \in Proc, NEW m \in reqs, DuplicateForward(p, m) PROVE MutexInv'
  <2>1. tail_[p][m.from] \in Proc /\ m \in Request
    BY RequestFields DEF TypeOK
  <2>2. \A n \in {Forward(m, p, tail_[p][m.from])} :
          n.from = m.from /\ n.seqno = m.seqno
    BY <2>1, ForwardKeeps
  <2>3. \A n \in reqs' : n.seqno <= req_seqno[n.from]
    <3>1. ReceiveRequest(m, {Forward(m, p, tail_[p][m.from])})
      BY <1>13 DEF DuplicateForward
    <3>2. QED
      BY <2>2, <3>1, <1>a DEF ReceiveRequest
  <2>4. QED
    BY <1>13, <2>3, <1>a, ViewsSame DEF DuplicateForward, protocol
<1>14. ASSUME NEW p \in Proc, NEW m \in reqs, DuplicateIgnore(p, m) PROVE MutexInv'
  <2>1. \A n \in reqs' : n.seqno <= req_seqno[n.from]
    <3>1. ReceiveRequest(m, {})
      BY <1>14 DEF DuplicateIgnore
    <3>2. QED
      BY <3>1, <1>a DEF ReceiveRequest
  <2>2. QED
    BY <1>14, <2>1, <1>a, ViewsSame DEF DuplicateIgnore, protocol
<1>15. ASSUME NEW m \in reqs, LoseRequest(m) PROVE MutexInv'
  BY <1>15, <1>a, ViewsSame DEF LoseRequest, protocol
<1>16. ASSUME NEW m \in reps, LoseReply(m) PROVE MutexInv'
  BY <1>16, <1>a, ViewsSame DEF LoseReply, protocol
<1>17. CASE UNCHANGED vars
  BY <1>17, <1>a, ViewsSame DEF vars, protocol
<1>3. ASSUME NEW p \in Proc, NEW l \in Locks, AcquireRemote(p, l) PROVE MutexInv'
  <2> DEFINE to == IF Manager(l) = p THEN tail[l] ELSE Manager(l)
             r == AcquireRequest(p, to, l, req_seqno[p] + 1)
  <2>1. /\ waiting[p] = NoLock /\ ~ held[p][l] /\ next[p][l] # p
        /\ held' = [held EXCEPT ![p][l] = TRUE]
        /\ next' = [next EXCEPT ![p][l] = p]
        /\ req_seqno' = [req_seqno EXCEPT ![p] = @ + 1]
        /\ reqs' = reqs \cup {r}
        /\ waiting' = [waiting EXCEPT ![p] = l]
        /\ UNCHANGED <<release_seqno, rep_seqno_, reps>>
    BY <1>3 DEF AcquireRemote, Running
  <2>2. r.from = p /\ r.seqno = req_seqno[p] + 1
    BY DEF AcquireRequest
  <2> HIDE DEF r, to
  <2>3. WaitingHolds'
    <3> SUFFICES ASSUME NEW q \in Proc, waiting'[q] # NoLock
                 PROVE  held'[q][waiting'[q]] /\ req_seqno'[q] > 0
      BY DEF WaitingHolds
    <3>1. CASE q = p
      BY <2>1, <3>1
    <3>2. CASE q # p
      <4>1. waiting'[q] = waiting[q] /\ req_seqno'[q] = req_seqno[q] /\ held'[q] = held[q]
        BY <2>1, <3>2
      <4>2. QED
        BY <4>1 DEF MutexInv, WaitingHolds
    <3>3. QED
      BY <3>1, <3>2
  <2>4. NumbersKnown'
    <3>1. \A q \in Proc : req_seqno'[q] \in Nat /\ req_seqno[q] <= req_seqno'[q]
      <4>1. req_seqno \in [Proc -> Nat] /\ req_seqno' = [req_seqno EXCEPT ![p] = @ + 1]
        BY <2>1 DEF TypeOK
      <4>2. QED
        BY <4>1, CountsUp
    <3>2. \A m \in reqs' : m.seqno <= req_seqno'[m.from]
      <4> SUFFICES ASSUME NEW m \in reqs' PROVE m.seqno <= req_seqno'[m.from]
        OBVIOUS
      <4>1. CASE m \in reqs
        <5>1. m.from \in Proc /\ m.seqno \in Nat /\ m.seqno <= req_seqno[m.from]
          BY <4>1, <1>a, RequestFields
        <5>2. QED
          BY <5>1, <3>1
      <4>2. CASE m = r
        BY <2>1, <2>2, <4>2
      <4>3. QED
        BY <2>1, <4>1, <4>2
    <3>3. \A m \in reps' : m.seqno <= req_seqno'[m.to]
      <4> SUFFICES ASSUME NEW m \in reps PROVE m.seqno <= req_seqno'[m.to]
        BY <2>1
      <4>1. m.to \in Proc /\ m.seqno \in Nat /\ m.seqno <= req_seqno[m.to]
        BY ReplyFields DEF NumbersKnown
      <4>2. QED
        BY <4>1, <3>1
    <3>4. \A q, x \in Proc : rep_seqno_'[q][x] <= req_seqno'[x]
      <4> SUFFICES ASSUME NEW q \in Proc, NEW x \in Proc
                   PROVE  rep_seqno_[q][x] <= req_seqno'[x]
        BY <2>1
      <4>1. rep_seqno_[q][x] \in Nat /\ rep_seqno_[q][x] <= req_seqno[x]
        BY <1>a DEF TypeOK
      <4>2. /\ req_seqno[x] \in Nat /\ req_seqno'[x] \in Nat
            /\ req_seqno[x] <= req_seqno'[x]
        BY <3>1
      <4>3. QED
        BY <4>1, <4>2, AtMostTransitive, Zenon
    <3>5. \A q \in Proc : \A x \in Locks :
            release_seqno'[q][x][2] <= req_seqno'[release_seqno'[q][x][1]]
      <4> SUFFICES ASSUME NEW q \in Proc, NEW x \in Locks
                   PROVE  release_seqno'[q][x][2] <= req_seqno'[release_seqno'[q][x][1]]
        OBVIOUS
      <4>1. release_seqno[q][x][1] \in Proc /\ release_seqno[q][x][2] \in Nat
        <5>1. release_seqno[q][x] \in Proc \X Nat
          OBVIOUS
        <5>2. QED
          BY <5>1
      <4>2. release_seqno[q][x][2] <= req_seqno[release_seqno[q][x][1]]
        BY DEF NumbersKnown
      <4> DEFINE y == release_seqno[q][x][1]
                 k == release_seqno[q][x][2]
      <4>3. /\ req_seqno[y] \in Nat /\ req_seqno'[y] \in Nat
            /\ req_seqno[y] <= req_seqno'[y]
        BY <3>1, <4>1
      <4>4. y \in Proc /\ k \in Nat /\ k <= req_seqno[y]
        BY <4>1, <4>2
      <4> HIDE DEF y, k
      <4>5. k <= req_seqno'[y]
        BY <4>3, <4>4, AtMostTransitive, Zenon
      <4>6. QED
        BY <4>5, <2>1 DEF y, k
    <3>6. QED
      BY <3>2, <3>3, <3>4, <3>5 DEF NumbersKnown
  <2>5. GrantsRecorded'
    <3> SUFFICES ASSUME NEW m \in reps, waiting'[m.to] # NoLock,
                        m.seqno = req_seqno'[m.to]
                 PROVE  release_seqno[m.via][waiting'[m.to]] = <<m.to, m.seqno>>
      BY <2>1 DEF GrantsRecorded
    <3>1. m.to \in Proc /\ m.seqno \in Nat /\ m.seqno <= req_seqno[m.to]
      BY ReplyFields DEF NumbersKnown
    <3>2. m.to # p
      <4>1. req_seqno'[p] = req_seqno[p] + 1 /\ req_seqno[p] \in Nat
        BY <2>1
      <4>2. QED
        BY <3>1, <4>1
    <3>3. waiting'[m.to] = waiting[m.to] /\ req_seqno'[m.to] = req_seqno[m.to]
      BY <2>1, <3>1, <3>2
    <3>4. QED
      BY <3>3 DEF MutexInv, GrantsRecorded
  <2>6. ASSUME NEW q \in Proc, Owns(q, l)' PROVE Owns(q, l)
    <3>1. CASE q = p
      <4>1. waiting'[p] = l /\ req_seqno'[p] = req_seqno[p] + 1
        BY <2>1
      <4>2. PICK g \in Proc : release_seqno[g][l] = <<p, req_seqno[p] + 1>>
        BY <2>1, <2>6, <3>1, <4>1 DEF Owns, HasLock, GrantedTo
      <4>3. release_seqno[g][l][2] <= req_seqno[release_seqno[g][l][1]]
        BY DEF NumbersKnown
      <4>4. QED
        BY <4>2, <4>3
    <3>2. CASE q # p
      <4>1. /\ waiting'[q] = waiting[q] /\ req_seqno'[q] = req_seqno[q]
            /\ held'[q] = held[q] /\ next'[q] = next[q]
        BY <2>1, <3>2
      <4>2. QED
        BY <2>1, <2>6, <4>1 DEF Owns, HasLock, GrantedTo
    <3>3. QED
      BY <3>1, <3>2
  <2>7. OneOwner'
    BY <2>6 DEF OneOwner, MutexInv, OneLock
  <2>8. QED
    BY <2>3, <2>4, <2>5, <2>7 DEF MutexInv
<1>7. ASSUME NEW p \in Proc, NEW m \in reps, Acquired(p, m) PROVE MutexInv'
  <2>1. /\ waiting[p] # NoLock /\ m.to = p /\ m.seqno = req_seqno[p]
        /\ waiting' = [waiting EXCEPT ![p] = NoLock]
        /\ reps' = reps \ {m}
        /\ UNCHANGED <<held, next, release_seqno, req_seqno, rep_seqno_, reqs>>
    BY <1>7 DEF Acquired, Running
  <2>2. GrantedTo(p, waiting[p]) /\ waiting[p] \in Locks
    BY <2>1, ReplyFields DEF MutexInv, GrantsRecorded, GrantedTo
  <2>3. ASSUME NEW l \in Locks, NEW q \in Proc, Owns(q, l)' PROVE Owns(q, l)
    <3>1. CASE q = p
      BY <3>1, <2>2 DEF Owns, OneLock
    <3>2. CASE q # p
      BY <2>1, <2>3, <3>2 DEF Owns, HasLock, GrantedTo
    <3>3. QED
      BY <3>1, <3>2
  <2>4. OneOwner'
    BY <2>3 DEF OneOwner, MutexInv
  <2>5. WaitingHolds'
    BY <2>1 DEF MutexInv, WaitingHolds
  <2>6. NumbersKnown' /\ GrantsRecorded'
    <3>1. NumbersKnown'
      BY <2>1 DEF NumbersKnown
    <3>2. GrantsRecorded'
      BY <2>1, ReplyFields DEF MutexInv, GrantsRecorded
    <3>3. QED
      BY <3>1, <3>2
  <2>7. QED
    BY <2>4, <2>5, <2>6 DEF MutexInv
<1>18. QED
  BY <1>1, <1>2, <1>3, <1>4, <1>5, <1>6, <1>7, <1>8, <1>9, <1>10, <1>11, <1>12,
     <1>13, <1>14, <1>15, <1>16, <1>17
  DEF Next, Step, Program, Handle

(* At most one process holds, caches or has been granted the lock, for any  *)
(* number of processes and whatever datagrams are lost, repeated or         *)
(* reordered, when the program uses one lock.                               *)
THEOREM SingleOwner == OneLock => (Spec => []OneOwner)
<1> SUFFICES ASSUME OneLock PROVE Spec => []OneOwner
  OBVIOUS
<1>1. MutexInv /\ [Next]_vars => MutexInv'
  BY MutexStep
<1>2. MutexInv => OneOwner
  BY DEF MutexInv
<1>3. QED
  BY MutexInit, <1>1, <1>2, PTL DEF Spec

(* Tmk_lock_acquire is exclusive under the same conditions: no two          *)
(* processes are between acquire and release of the lock.                   *)
THEOREM Exclusive == OneLock => (Spec => []MutualExclusion)
<1> SUFFICES ASSUME OneLock PROVE Spec => []MutualExclusion
  OBVIOUS
<1>1. OneOwner => MutualExclusion
  BY DEF OneOwner, Owns, HasLock, MutualExclusion, InCS
<1>2. QED
  BY SingleOwner, <1>1, PTL

=============================================================================
