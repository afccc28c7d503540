------------------------- MODULE TmkLockView_proofs -------------------------
(***************************************************************************)
(* What the lock of TmkLock hands over.  Interval numbers are not reused,   *)
(* for any number of locks; and with one lock the protocol implements       *)
(* AbstractLock: whoever takes the lock has been told of everything its     *)
(* last holder knew and wrote.  Any number of processes, datagrams lost,    *)
(* repeated and in any order, any bounds.                                   *)
(***************************************************************************)
EXTENDS TmkLock_proofs

(* The copy of its vector time by which a waiting process would number its  *)
(* own interval is up to date as long as it has an interval to close.       *)
FreshCopy ==
  \A p \in Proc : waiting[p] # NoLock /\ dirty[p] =>
    vector_time_[p] = proc_vector_time_[p][p]

CopyInv == TypeOK /\ FreshCopy

(* The view of the abstract lock, entry by entry. *)
Seen(p, q) == proc_vector_time_[p][q] + (IF q = p /\ dirty[p] THEN 1 ELSE 0)

(* v shows all that the last release of l must show. *)
Shows(v, l) == \A q \in Proc : released[l][q] <= v[q]

(* p's last grant of l went to the request r is blocked on. *)
Promised(g, r, l) == waiting[r] = l /\ release_seqno[g][l] = <<r, req_seqno[r]>>

(* r will take m when it comes. *)
Awaited(m) == waiting[m.to] # NoLock /\ m.seqno = req_seqno[m.to]

(* p caches l and does not use it. *)
Idle(p, l) == HasLock(p, l) /\ ~ held[p][l]

(* Nobody knows of an interval that is not closed. *)
KnownClosed ==
  /\ \A p, q \in Proc : proc_vector_time_[p][q] <= proc_vector_time_[q][q]
  /\ \A m \in reps : \A q \in Proc : m.vector_time[q] <= proc_vector_time_[q][q]

(* Who has the lock has seen what was released with it. *)
OwnerSees == \A p \in Proc, l \in Locks : HasLock(p, l) =>
  \A q \in Proc : released[l][q] <= Seen(p, q)

(* lock->time tells whether the writes made under l are in an interval. *)
TimeTells == \A p \in Proc, l \in Locks : Idle(p, l) =>
  time[p][l] <= proc_vector_time_[p][p] /\ released[l][p] <= time[p][l] + 1

(* Who has granted the lock can grant it again. *)
GranterShows == \A g, r \in Proc, l \in Locks :
  Promised(g, r, l) => Shows(proc_vector_time_[g], l)

GrantShows == \A m \in reps : Awaited(m) => Shows(m.vector_time, waiting[m.to])

(* The inductive invariant behind the refinement. *)
ViewInv ==
  /\ MutexInv /\ FreshCopy /\ KnownClosed
  /\ OwnerSees /\ TimeTells /\ GranterShows /\ GrantShows

-----------------------------------------------------------------------------
(* Interval numbers. *)

(* What a step may do to p's dirty pages and to its own interval number. *)
OwnAdvances(p) ==
  /\ dirty[p] /\ ~ dirty'[p] => proc_vector_time_'[p][p] = proc_vector_time_[p][p] + 1
  /\ dirty[p] = dirty'[p] => proc_vector_time_'[p][p] = proc_vector_time_[p][p]

LEMMA CopyInit == Init => CopyInv
  BY TypeInit, Zenon DEF Init, CopyInv, FreshCopy

(* A step that touches neither intervals nor dirty pages keeps the copy     *)
(* fresh, if whoever begins to wait or sends again takes a new one.         *)
LEMMA MemorySame ==
  ASSUME CopyInv, TypeOK', UNCHANGED <<proc_vector_time_, dirty>>,
         \A p \in Proc : \/ vector_time_'[p] = proc_vector_time_[p][p]
                         \/ vector_time_'[p] = vector_time_[p]
                            /\ (waiting'[p] # NoLock => waiting[p] # NoLock)
  PROVE  FreshCopy' /\ \A p \in Proc : OwnAdvances(p)
  BY Zenon DEF CopyInv, FreshCopy, OwnAdvances

(* A step of p that leaves the intervals and pages of the others alone. *)
LEMMA OwnStep ==
  ASSUME CopyInv, TypeOK', NEW p \in Proc,
         \A q \in Proc \ {p} : /\ proc_vector_time_'[q] = proc_vector_time_[q]
                               /\ dirty'[q] = dirty[q] /\ vector_time_'[q] = vector_time_[q]
                               /\ waiting'[q] = waiting[q],
         waiting'[p] # NoLock /\ dirty'[p] => vector_time_'[p] = proc_vector_time_'[p][p],
         OwnAdvances(p)
  PROVE  FreshCopy' /\ \A q \in Proc : OwnAdvances(q)
<1>1. ASSUME NEW q \in Proc PROVE OwnAdvances(q)
  BY Zenon DEF OwnAdvances, CopyInv
<1>2. FreshCopy'
  BY Zenon DEF CopyInv, FreshCopy
<1>3. QED
  BY <1>1, <1>2, Zenon

(* Tmk_interval_create numbers the interval it closes. *)
LEMMA CreateNumbers ==
  ASSUME TypeOK, NEW p \in Proc
  PROVE  /\ Tmk_interval_create(p) \in VectorTime
         /\ \A q \in Proc : Tmk_interval_create(p)[q] = Seen(p, q)
<1>1. proc_vector_time_[p] \in VectorTime /\ dirty[p] \in BOOLEAN
  BY Zenon DEF TypeOK
<1>2. \A q \in Proc : proc_vector_time_[p][q] \in Nat
  BY <1>1, Zenon DEF VectorTime
<1>3. CASE dirty[p]
  BY <1>1, <1>2, <1>3 DEF Tmk_interval_create, Seen, VectorTime
<1>4. CASE ~ dirty[p]
  BY <1>1, <1>2, <1>4 DEF Tmk_interval_create, Seen
<1>5. QED
  BY <1>3, <1>4, Zenon

(* What Tmk_interval_incorporate does to p's entries. *)
LEMMA IncorporateNumbers ==
  ASSUME CopyInv, NEW p \in Proc, waiting[p] # NoLock,
         NEW vt \in VectorTime, Tmk_interval_incorporate(p, vt)
  PROVE  /\ \A q \in Proc \ {p} : /\ proc_vector_time_'[q] = proc_vector_time_[q]
                                  /\ dirty'[q] = dirty[q]
         /\ \A q \in Proc \ {p} :
              proc_vector_time_'[p][q] = IF vt[q] > proc_vector_time_[p][q]
                                         THEN vt[q] ELSE proc_vector_time_[p][q]
         /\ \/ dirty'[p] = dirty[p] /\ proc_vector_time_'[p][p] = proc_vector_time_[p][p]
            \/ /\ dirty[p] /\ ~ dirty'[p]
               /\ proc_vector_time_'[p][p] = proc_vector_time_[p][p] + 1
<1> DEFINE new == {q \in Proc \ {p} : vt[q] > proc_vector_time_[p][q]}
           merged == [q \in Proc |-> IF q \in new THEN vt[q] ELSE proc_vector_time_[p][q]]
<1>1. /\ proc_vector_time_ \in [Proc -> VectorTime] /\ dirty \in [Proc -> BOOLEAN]
      /\ dirty[p] => vector_time_[p] = proc_vector_time_[p][p]
  BY Zenon DEF CopyInv, TypeOK, FreshCopy
<1>2. /\ merged[p] = proc_vector_time_[p][p]
      /\ \A q \in Proc \ {p} : merged[q] = IF vt[q] > proc_vector_time_[p][q]
                                           THEN vt[q] ELSE proc_vector_time_[p][q]
      /\ DOMAIN merged = Proc
  BY Zenon
<1>3. \/ /\ proc_vector_time_' = [proc_vector_time_ EXCEPT ![p] = merged]
         /\ dirty' = dirty
      \/ /\ dirty[p]
         /\ proc_vector_time_' =
              [proc_vector_time_ EXCEPT
                 ![p] = [merged EXCEPT ![p] = vector_time_[p] + 1]]
         /\ dirty' = [dirty EXCEPT ![p] = FALSE]
  BY Zenon DEF Tmk_interval_incorporate
<1> HIDE DEF merged, new
<1>4. CASE /\ proc_vector_time_' = [proc_vector_time_ EXCEPT ![p] = merged]
           /\ dirty' = dirty
  <2>1. /\ proc_vector_time_'[p] = merged
        /\ \A q \in Proc \ {p} : proc_vector_time_'[q] = proc_vector_time_[q]
    BY <1>1, <1>4, Zenon
  <2>2. QED
    BY <1>2, <1>4, <2>1, Zenon
<1>5. CASE /\ dirty[p]
           /\ proc_vector_time_' =
                [proc_vector_time_ EXCEPT
                   ![p] = [merged EXCEPT ![p] = vector_time_[p] + 1]]
           /\ dirty' = [dirty EXCEPT ![p] = FALSE]
  <2>1. /\ proc_vector_time_'[p] = [merged EXCEPT ![p] = vector_time_[p] + 1]
        /\ \A q \in Proc \ {p} : /\ proc_vector_time_'[q] = proc_vector_time_[q]
                                 /\ dirty'[q] = dirty[q]
        /\ ~ dirty'[p]
    BY <1>1, <1>5, Zenon
  <2>2. /\ proc_vector_time_'[p][p] = vector_time_[p] + 1
        /\ \A q \in Proc \ {p} : proc_vector_time_'[p][q] = merged[q]
    BY <1>2, <2>1, Zenon
  <2>3. QED
    BY <1>1, <1>2, <1>5, <2>1, <2>2, Zenon
<1>6. QED
  BY <1>3, <1>4, <1>5, Zenon

(* What granting an idle lock does to p's intervals. *)
LEMMA GrantNumbers ==
  ASSUME TypeOK, NEW p \in Proc, NEW l \in Locks,
         proc_vector_time_' = [proc_vector_time_ EXCEPT ![p] = GrantTime(p, l)],
         dirty' = [dirty EXCEPT ![p] = GrantDirty(p, l)]
  PROVE  /\ \A q \in Proc \ {p} : /\ proc_vector_time_'[q] = proc_vector_time_[q]
                                  /\ dirty'[q] = dirty[q]
         /\ proc_vector_time_'[p] = GrantTime(p, l)
         /\ \A q \in Proc : Seen(p, q)' = Seen(p, q)
         /\ \/ dirty'[p] = dirty[p] /\ proc_vector_time_'[p] = proc_vector_time_[p]
            \/ /\ dirty[p] /\ ~ dirty'[p]
               /\ \A q \in Proc : proc_vector_time_'[p][q] = Seen(p, q)
<1>1. /\ proc_vector_time_ \in [Proc -> VectorTime] /\ dirty \in [Proc -> BOOLEAN]
      /\ \A q \in Proc : proc_vector_time_[p][q] \in Nat
  BY Zenon DEF TypeOK, VectorTime
<1>2. /\ proc_vector_time_'[p] = GrantTime(p, l) /\ dirty'[p] = GrantDirty(p, l)
      /\ \A q \in Proc \ {p} : proc_vector_time_'[q] = proc_vector_time_[q]
                               /\ dirty'[q] = dirty[q]
  BY <1>1, Zenon
<1>3. CASE dirty[p] /\ time[p][l] = proc_vector_time_[p][p]
  <2>1. ~ dirty'[p] /\ \A q \in Proc : proc_vector_time_'[p][q] = Seen(p, q)
    <3>1. GrantTime(p, l) = Tmk_interval_create(p) /\ ~ GrantDirty(p, l)
      BY <1>3, Zenon DEF GrantTime, GrantDirty
    <3>2. dirty'[p] = FALSE
      BY <1>2, <3>1
    <3>3. proc_vector_time_'[p] = Tmk_interval_create(p)
      BY <1>2, <3>1, Zenon
    <3>4. \A q \in Proc : Tmk_interval_create(p)[q] = Seen(p, q)
      BY CreateNumbers, Zenon
    <3>5. QED
      BY <3>2, <3>3, <3>4, Zenon
  <2>2. \A q \in Proc : Seen(p, q) \in Nat
    BY <1>1 DEF Seen
  <2>3. \A q \in Proc : Seen(p, q)' = proc_vector_time_'[p][q] + 0
    BY <2>1, Zenon DEF Seen
  <2>4. \A q \in Proc : Seen(p, q)' = Seen(p, q)
    BY <2>1, <2>2, <2>3
  <2>5. QED
    BY <1>2, <1>3, <2>1, <2>4, Zenon
<1>4. CASE ~ (dirty[p] /\ time[p][l] = proc_vector_time_[p][p])
  <2>1. dirty'[p] = dirty[p] /\ proc_vector_time_'[p] = proc_vector_time_[p]
    <3>1. dirty[p] \in BOOLEAN
      BY <1>1, Zenon
    <3>2. CASE dirty[p]
      BY <1>2, <1>4, <3>2, Zenon DEF GrantTime, GrantDirty
    <3>3. CASE ~ dirty[p]
      BY <1>2, <3>1, <3>3, Zenon DEF GrantTime, GrantDirty, Tmk_interval_create
    <3>4. QED
      BY <3>2, <3>3, Zenon
  <2>2. \A q \in Proc : Seen(p, q)' = Seen(p, q)
    BY <2>1 DEF Seen
  <2>3. QED
    BY <1>2, <2>1, <2>2, Zenon
<1>5. QED
  BY <1>3, <1>4, Zenon

(* Closing p's interval. *)
LEMMA CloseNumbers ==
  ASSUME TypeOK, NEW p \in Proc, CloseInterval(p)
  PROVE  /\ \A q \in Proc \ {p} : /\ proc_vector_time_'[q] = proc_vector_time_[q]
                                  /\ dirty'[q] = dirty[q]
         /\ ~ dirty'[p]
         /\ \A q \in Proc : proc_vector_time_'[p][q] = Seen(p, q)
<1>1. proc_vector_time_ \in [Proc -> VectorTime] /\ dirty \in [Proc -> BOOLEAN]
  BY Zenon DEF TypeOK
<1>2. /\ proc_vector_time_' = [proc_vector_time_ EXCEPT ![p] = Tmk_interval_create(p)]
      /\ dirty' = [dirty EXCEPT ![p] = FALSE]
  BY Zenon DEF CloseInterval
<1>3. QED
  BY <1>1, <1>2, CreateNumbers, Zenon

LEMMA SnapshotFresh ==
  ASSUME TypeOK, NEW p \in Proc, Snapshot(p)
  PROVE  /\ UNCHANGED <<time, proc_vector_time_, dirty, released>>
         /\ \A q \in Proc : vector_time_'[q] = IF q = p THEN proc_vector_time_[p][p]
                                                        ELSE vector_time_[q]
  BY Zenon DEF Snapshot, TypeOK

(* Every step keeps the copies fresh and numbers intervals one by one. *)
LEMMA CopyStep ==
  ASSUME CopyInv, [Next]_vars
  PROVE  CopyInv' /\ \A p \in Proc : OwnAdvances(p)
<1>t. TypeOK /\ TypeOK'
  BY TypeStep, Zenon DEF CopyInv
<1> SUFFICES FreshCopy' /\ \A p \in Proc : OwnAdvances(p)
  BY <1>t, Zenon DEF CopyInv
<1> DEFINE Goal == FreshCopy' /\ \A p \in Proc : OwnAdvances(p)
<1>w. waiting \in [Proc -> Locks \cup {NoLock}] /\ dirty \in [Proc -> BOOLEAN]
  BY <1>t, Zenon DEF TypeOK
<1>s. ASSUME UNCHANGED <<memory, waiting>> PROVE Goal
  BY <1>s, <1>t, MemorySame, Zenon DEF memory
<1>1. ASSUME NEW p \in Proc, Write(p) PROVE Goal
  <2>1. waiting[p] = NoLock /\ ~ dirty[p] /\ dirty' = [dirty EXCEPT ![p] = TRUE]
        /\ UNCHANGED <<proc_vector_time_, vector_time_, waiting>>
    BY <1>1, Zenon DEF Write, Running, protocol
  <2>2. dirty'[p] = TRUE /\ \A q \in Proc \ {p} : dirty'[q] = dirty[q]
    BY <1>w, <2>1, Zenon
  <2>3. OwnAdvances(p)
    BY <2>1, <2>2, Zenon DEF OwnAdvances
  <2>4. QED
    BY <1>t, <2>1, <2>2, <2>3, OwnStep, Zenon
<1>2. ASSUME NEW p \in Proc, NEW l \in Locks, AcquireCached(p, l) PROVE Goal
  BY <1>2, <1>s, Zenon DEF AcquireCached
<1>3. ASSUME NEW p \in Proc, NEW l \in Locks, AcquireRemote(p, l) PROVE Goal
  <2>1. Snapshot(p) /\ waiting' = [waiting EXCEPT ![p] = l]
    BY <1>3, Zenon DEF AcquireRemote
  <2>2. \A q \in Proc \ {p} : waiting'[q] = waiting[q]
    BY <1>w, <2>1, Zenon
  <2>3. QED
    BY <1>t, <2>1, <2>2, SnapshotFresh, MemorySame, Zenon
<1>4. ASSUME NEW p \in Proc, NEW l \in Locks, ReleaseCached(p, l) PROVE Goal
  BY <1>4, <1>t, MemorySame, Zenon DEF ReleaseCached
<1>5. ASSUME NEW p \in Proc, NEW l \in Locks, ReleaseGrant(p, l) PROVE Goal
  <2>1. CloseInterval(p) /\ UNCHANGED <<waiting, vector_time_>>
    BY <1>5, Zenon DEF ReleaseGrant
  <2>2. OwnAdvances(p)
    <3>1. dirty[p] \in BOOLEAN /\ proc_vector_time_[p][p] \in Nat
      BY <1>t, Zenon DEF TypeOK, VectorTime
    <3>2. ~ dirty'[p] /\ proc_vector_time_'[p][p] = Seen(p, p)
      BY <1>t, <2>1, CloseNumbers, Zenon
    <3>3. Seen(p, p) = IF dirty[p] THEN proc_vector_time_[p][p] + 1
                                   ELSE proc_vector_time_[p][p]
      BY <3>1 DEF Seen
    <3>4. QED
      BY <3>1, <3>2, <3>3, Zenon DEF OwnAdvances
  <2>3. QED
    BY <1>t, <2>1, <2>2, CloseNumbers, OwnStep, Zenon
<1>6. ASSUME NEW p \in Proc, Rexmit(p) PROVE Goal
  <2>1. Snapshot(p) /\ UNCHANGED waiting
    BY <1>6, Zenon DEF Rexmit, protocol
  <2>2. QED
    BY <1>t, <2>1, SnapshotFresh, MemorySame, Zenon
<1>7. ASSUME NEW p \in Proc, NEW m \in reps, Acquired(p, m) PROVE Goal
  <2>1. /\ waiting[p] # NoLock /\ Tmk_interval_incorporate(p, m.vector_time)
        /\ waiting' = [waiting EXCEPT ![p] = NoLock] /\ UNCHANGED vector_time_
        /\ m.vector_time \in VectorTime
    BY <1>7, <1>t, Zenon DEF Acquired, Running, TypeOK, Reply
  <2>2. waiting'[p] = NoLock /\ \A q \in Proc \ {p} : waiting'[q] = waiting[q]
    BY <1>w, <2>1, Zenon
  <2>3. OwnAdvances(p)
    BY <2>1, IncorporateNumbers, Zenon DEF OwnAdvances
  <2>4. QED
    BY <1>t, <2>1, <2>2, <2>3, IncorporateNumbers, OwnStep, Zenon
<1>8. ASSUME NEW p \in Proc, NEW m \in reqs, HandlerGrant(p, m) PROVE Goal
  <2>1. /\ m.id \in Locks
        /\ proc_vector_time_' = [proc_vector_time_ EXCEPT ![p] = GrantTime(p, m.id)]
        /\ dirty' = [dirty EXCEPT ![p] = GrantDirty(p, m.id)]
        /\ UNCHANGED <<waiting, vector_time_>>
    BY <1>8, <1>t, RequestFields, Zenon DEF HandlerGrant
  <2>2. \/ dirty'[p] = dirty[p] /\ proc_vector_time_'[p] = proc_vector_time_[p]
        \/ dirty[p] /\ ~ dirty'[p] /\ proc_vector_time_'[p][p] = Seen(p, p)
    BY <1>t, <2>1, GrantNumbers, Zenon
  <2>3. OwnAdvances(p)
    BY <2>2, Zenon DEF OwnAdvances, Seen
  <2>4. waiting'[p] # NoLock /\ dirty'[p] => vector_time_'[p] = proc_vector_time_'[p][p]
    BY <2>1, <2>2, Zenon DEF CopyInv, FreshCopy
  <2>5. QED
    BY <1>t, <2>1, <2>3, <2>4, GrantNumbers, OwnStep, Zenon
<1>9. ASSUME NEW p \in Proc, NEW m \in reqs,
             HandlerQueue(p, m) \/ HandlerForward(p, m) \/ HandlerError(p, m)
      PROVE  Goal
  BY <1>9, <1>s, Zenon DEF HandlerQueue, HandlerForward, HandlerError
<1>10. ASSUME NEW p \in Proc, NEW m \in reqs,
              DuplicateGrant(p, m) \/ DuplicateForward(p, m) \/ DuplicateIgnore(p, m)
       PROVE  Goal
  BY <1>10, <1>s, Zenon DEF DuplicateGrant, DuplicateForward, DuplicateIgnore, protocol
<1>11. ASSUME NEW m, LoseRequest(m) \/ LoseReply(m) PROVE Goal
  BY <1>11, <1>s, Zenon DEF LoseRequest, LoseReply, protocol
<1>12. ASSUME UNCHANGED vars PROVE Goal
  BY <1>12, <1>s, Zenon DEF vars, protocol
<1> HIDE DEF Goal
<1>13. Goal
  BY <1>1, <1>2, <1>3, <1>4, <1>5, <1>6, <1>7, <1>8, <1>9, <1>10, <1>11, <1>12,
     Zenon DEF Next, Step, Program, Handle
<1>14. QED
  BY <1>13, Zenon DEF Goal

(* Interval numbers are never reused, for any number of processes and       *)
(* locks: although the number comes from a copy that may be older than an   *)
(* interval the handler has closed meanwhile, in that case nothing is left  *)
(* to be numbered.                                                          *)
THEOREM NumbersAdvance == Spec => IntervalsAdvance
<1>1. CopyInv /\ [Next]_vars =>
        CopyInv' /\ [\A p \in Proc :
                       /\ dirty[p] /\ ~ dirty'[p]
                            => proc_vector_time_'[p][p] = proc_vector_time_[p][p] + 1
                       /\ dirty[p] = dirty'[p]
                            => proc_vector_time_'[p][p] = proc_vector_time_[p][p]]_vars
  BY CopyStep, Zenon DEF OwnAdvances
<1>2. QED
  BY CopyInit, <1>1, PTL DEF Spec, IntervalsAdvance

-----------------------------------------------------------------------------
(* What the lock hands over. *)

LEMMA ViewTypes ==
  ASSUME TypeOK
  PROVE  /\ \A p, q \in Proc : /\ proc_vector_time_[p][q] \in Nat /\ Seen(p, q) \in Nat
                               /\ proc_vector_time_[p][q] <= Seen(p, q)
                               /\ Seen(p, q) <= proc_vector_time_[p][q] + 1
                               /\ q # p => Seen(p, q) = proc_vector_time_[p][q]
         /\ \A l \in Locks, q \in Proc : released[l][q] \in Nat
         /\ \A p \in Proc, l \in Locks : time[p][l] \in Nat
         /\ \A m \in reps : /\ m.to \in Proc /\ m.via \in Proc
                            /\ \A q \in Proc : m.vector_time[q] \in Nat
<1>1. \A p, q \in Proc : proc_vector_time_[p][q] \in Nat
  BY Zenon DEF TypeOK, VectorTime
<1>2. \A p, q \in Proc : /\ Seen(p, q) \in Nat /\ proc_vector_time_[p][q] <= Seen(p, q)
                         /\ Seen(p, q) <= proc_vector_time_[p][q] + 1
                         /\ q # p => Seen(p, q) = proc_vector_time_[p][q]
  BY <1>1 DEF Seen
<1>3. /\ \A l \in Locks, q \in Proc : released[l][q] \in Nat
      /\ \A p \in Proc, l \in Locks : time[p][l] \in Nat
  BY Zenon DEF TypeOK, VectorTime
<1>4. \A m \in reps : /\ m.to \in Proc /\ m.via \in Proc
                      /\ \A q \in Proc : m.vector_time[q] \in Nat
  BY Zenon DEF TypeOK, Reply, VectorTime
<1>5. QED
  BY <1>1, <1>2, <1>3, <1>4, Zenon

(* Closed intervals stay closed, and only they are passed on. *)
LEMMA ClosedKeep ==
  ASSUME TypeOK, TypeOK', KnownClosed,
         \A q \in Proc : proc_vector_time_[q][q] <= proc_vector_time_'[q][q],
         \A p, q \in Proc : \/ q = p
                            \/ proc_vector_time_'[p][q] = proc_vector_time_[p][q]
                            \/ \E m \in reps : proc_vector_time_'[p][q] = m.vector_time[q],
         \A m \in reps' : \/ m \in reps
                          \/ \E p \in Proc : \A q \in Proc :
                               m.vector_time[q] = proc_vector_time_'[p][q]
  PROVE  KnownClosed'
<1>t. /\ \A p, q \in Proc : proc_vector_time_[p][q] \in Nat /\ proc_vector_time_'[p][q] \in Nat
      /\ \A m \in reps : \A q \in Proc : m.vector_time[q] \in Nat
  <2>1. proc_vector_time_' \in [Proc -> [Proc -> Nat]]
    BY Zenon DEF TypeOK, VectorTime
  <2>2. \A p, q \in Proc : proc_vector_time_'[p][q] \in Nat
    BY <2>1
  <2>3. QED
    BY <2>2, ViewTypes, Zenon
<1>1. ASSUME NEW q \in Proc, NEW n \in Nat, n <= proc_vector_time_[q][q]
      PROVE  n <= proc_vector_time_'[q][q]
  <2>1. /\ proc_vector_time_[q][q] <= proc_vector_time_'[q][q]
        /\ proc_vector_time_[q][q] \in Nat /\ proc_vector_time_'[q][q] \in Nat
    BY <1>t, Zenon
  <2>2. QED
    BY <1>1, <2>1
<1>2. ASSUME NEW p \in Proc, NEW q \in Proc
      PROVE  proc_vector_time_'[p][q] <= proc_vector_time_'[q][q]
  <2>1. CASE q = p
    BY <1>t, <2>1
  <2>2. CASE proc_vector_time_'[p][q] = proc_vector_time_[p][q]
    BY <1>1, <1>t, <2>2, Zenon DEF KnownClosed
  <2>3. CASE \E m \in reps : proc_vector_time_'[p][q] = m.vector_time[q]
    BY <1>1, <1>t, <2>3, Zenon DEF KnownClosed
  <2>4. QED
    BY <2>1, <2>2, <2>3, Zenon
<1>3. ASSUME NEW m \in reps', NEW q \in Proc
      PROVE  m.vector_time[q] <= proc_vector_time_'[q][q]
  <2>1. CASE m \in reps
    BY <1>1, <1>t, <2>1, Zenon DEF KnownClosed
  <2>2. CASE \E p \in Proc : m.vector_time[q] = proc_vector_time_'[p][q]
    BY <1>2, <2>2, Zenon
  <2>3. QED
    BY <2>1, <2>2, Zenon
<1>4. QED
  BY <1>2, <1>3, Zenon DEF KnownClosed

(* A grant that will be taken was promised by its sender. *)
LEMMA AwaitedPromised ==
  ASSUME MutexInv, NEW m \in reps, Awaited(m)
  PROVE  Promised(m.via, m.to, waiting[m.to])
  BY Zenon DEF MutexInv, GrantsRecorded, Awaited, Promised

(* While p has the lock nobody else has been promised it. *)
LEMMA NoPromise ==
  ASSUME MutexInv, NEW p \in Proc, NEW l \in Locks, HasLock(p, l),
         NEW g \in Proc, NEW r \in Proc, Promised(g, r, l)
  PROVE  FALSE
<1>1. Owns(p, l) /\ Owns(r, l)
  BY Zenon DEF Owns, GrantedTo, Promised
<1>2. r = p
  BY <1>1, Zenon DEF MutexInv, OneOwner
<1>3. QED
  BY <1>2, Zenon DEF HasLock, Promised

(* Steps that release nothing. *)
LEMMA KeepView ==
  ASSUME ViewInv, MutexInv', FreshCopy', KnownClosed', released' = released,
         \A p, q \in Proc : /\ proc_vector_time_[p][q] <= proc_vector_time_'[p][q]
                            /\ Seen(p, q) <= Seen(p, q)',
         \A p \in Proc, l \in Locks : HasLock(p, l)' =>
           HasLock(p, l) \/ \A q \in Proc : released[l][q] <= Seen(p, q)',
         \A p \in Proc, l \in Locks : Idle(p, l)' =>
           Idle(p, l) /\ time'[p][l] = time[p][l],
         \A g, r \in Proc, l \in Locks : Promised(g, r, l)' =>
           Promised(g, r, l) \/ Shows(proc_vector_time_'[g], l),
         \A m \in reps' : Awaited(m)' =>
           \/ m \in reps /\ Awaited(m) /\ waiting'[m.to] = waiting[m.to]
           \/ Shows(m.vector_time, waiting'[m.to])
  PROVE  ViewInv'
<1>t. TypeOK /\ TypeOK'
  BY Zenon DEF ViewInv, MutexInv
<1>r. /\ \A l \in Locks, q \in Proc : released[l][q] \in Nat
      /\ \A p, q \in Proc : proc_vector_time_[p][q] \in Nat /\ Seen(p, q) \in Nat
      /\ \A p, q \in Proc : proc_vector_time_'[p][q] \in Nat
      /\ \A p \in Proc, l \in Locks : time[p][l] \in Nat
  <2>1. \A p, q \in Proc : proc_vector_time_'[p][q] \in Nat
    BY <1>t, ZenonT(40) DEF TypeOK, VectorTime
  <2>2. QED
    BY <1>t, <2>1, ViewTypes, Zenon
<1>s. \A p, q \in Proc : Seen(p, q)' \in Nat
  BY <1>r DEF Seen
<1>1. OwnerSees'
  <2> SUFFICES ASSUME NEW p \in Proc, NEW l \in Locks, HasLock(p, l)', NEW q \in Proc
               PROVE  released[l][q] <= Seen(p, q)'
    BY Zenon DEF OwnerSees
  <2>1. CASE HasLock(p, l)
    <3>1. released[l][q] <= Seen(p, q) /\ Seen(p, q) <= Seen(p, q)'
      BY <2>1, Zenon DEF ViewInv, OwnerSees
    <3>2. released[l][q] \in Nat /\ Seen(p, q) \in Nat /\ Seen(p, q)' \in Nat
      BY <1>r, <1>s, Zenon
    <3>3. QED
      BY <3>1, <3>2
  <2>2. QED
    BY <2>1, Zenon
<1>2. TimeTells'
  <2> SUFFICES ASSUME NEW p \in Proc, NEW l \in Locks, Idle(p, l)'
               PROVE  /\ time'[p][l] <= proc_vector_time_'[p][p]
                      /\ released[l][p] <= time'[p][l] + 1
    BY Zenon DEF TimeTells
  <2>1. /\ time'[p][l] = time[p][l] /\ released[l][p] <= time[p][l] + 1
        /\ time[p][l] <= proc_vector_time_[p][p]
        /\ proc_vector_time_[p][p] <= proc_vector_time_'[p][p]
    BY Zenon DEF ViewInv, TimeTells
  <2>2. /\ time[p][l] \in Nat /\ proc_vector_time_[p][p] \in Nat
        /\ proc_vector_time_'[p][p] \in Nat
    BY <1>r, Zenon
  <2>3. time[p][l] <= proc_vector_time_'[p][p]
    BY <2>1, <2>2
  <2>4. QED
    BY <2>1, <2>3, Zenon
<1>3. GranterShows'
  <2> SUFFICES ASSUME NEW g \in Proc, NEW r \in Proc, NEW l \in Locks, Promised(g, r, l)',
                      NEW q \in Proc
               PROVE  released[l][q] <= proc_vector_time_'[g][q]
    BY Zenon DEF GranterShows, Shows
  <2>1. CASE Promised(g, r, l)
    <3>1. /\ released[l][q] <= proc_vector_time_[g][q]
          /\ proc_vector_time_[g][q] <= proc_vector_time_'[g][q]
      BY <2>1, Zenon DEF ViewInv, GranterShows, Shows
    <3>2. /\ released[l][q] \in Nat /\ proc_vector_time_[g][q] \in Nat
          /\ proc_vector_time_'[g][q] \in Nat
      BY <1>r, Zenon
    <3>3. QED
      BY <3>1, <3>2
  <2>2. QED
    BY <2>1, Zenon DEF Shows
<1>4. GrantShows'
  <2> SUFFICES ASSUME NEW m \in reps', Awaited(m)'
               PROVE  \A q \in Proc : released[waiting'[m.to]][q] <= m.vector_time[q]
    BY Zenon DEF GrantShows, Shows
  <2>1. QED
    BY Zenon DEF ViewInv, GrantShows, Shows
<1>5. QED
  BY <1>1, <1>2, <1>3, <1>4, Zenon DEF ViewInv

(* p, who has the lock, releases it and shows what it has seen. *)
LEMMA ReleaseView ==
  ASSUME OneLock, ViewInv, MutexInv', FreshCopy', KnownClosed',
         NEW p \in Proc, NEW l \in Locks, HasLock(p, l),
         UNCHANGED <<waiting, req_seqno>>,
         released' = [released EXCEPT ![l] = Recorded(p)],
         \A q \in Proc : Seen(p, q)' = Seen(p, q),
         \A x \in Proc : HasLock(x, l)' => HasLock(x, l),
         Idle(p, l)' => time'[p][l] = proc_vector_time_[p][p]
                        /\ proc_vector_time_'[p][p] = proc_vector_time_[p][p],
         \A g, r \in Proc : Promised(g, r, l)' =>
           \/ Promised(g, r, l)
           \/ g = p /\ \A q \in Proc : proc_vector_time_'[p][q] = Seen(p, q),
         \A m \in reps' : m \in reps \/ \A q \in Proc : m.vector_time[q] = Seen(p, q)
  PROVE  ViewInv'
<1>m. MutexInv /\ TypeOK /\ TypeOK'
  BY Zenon DEF ViewInv, MutexInv
<1>l. \A k \in Locks : k = l
  BY Zenon DEF OneLock
<1>r. \A q \in Proc : released'[l][q] = Seen(p, q) /\ Seen(p, q) \in Nat
  <2>1. released'[l] = Tmk_interval_create(p)
    BY <1>m, ZenonT(40) DEF TypeOK, Recorded
  <2>2. QED
    BY <1>m, <2>1, CreateNumbers, ViewTypes, Zenon
<1>a. \A n \in Nat : n <= n
  OBVIOUS
<1>o. \A x \in Proc : HasLock(x, l)' => x = p
  BY <1>m, Zenon DEF MutexInv, OneOwner, Owns
<1>1. OwnerSees'
  <2> SUFFICES ASSUME NEW x \in Proc, NEW k \in Locks, HasLock(x, k)', NEW q \in Proc
               PROVE  released'[k][q] <= Seen(x, q)'
    BY Zenon DEF OwnerSees
  <2>1. k = l /\ x = p
    BY <1>l, <1>o, Zenon
  <2>2. QED
    BY <1>a, <1>r, <2>1, Zenon
<1>2. TimeTells'
  <2> SUFFICES ASSUME NEW x \in Proc, NEW k \in Locks, Idle(x, k)'
               PROVE  /\ time'[x][k] <= proc_vector_time_'[x][x]
                      /\ released'[k][x] <= time'[x][k] + 1
    BY Zenon DEF TimeTells
  <2>1. k = l /\ x = p
    BY <1>l, <1>o, Zenon DEF Idle
  <2>2. /\ time'[p][l] = proc_vector_time_[p][p]
        /\ proc_vector_time_'[p][p] = proc_vector_time_[p][p]
    BY <2>1, Zenon
  <2>3. /\ proc_vector_time_[p][p] \in Nat /\ Seen(p, p) <= proc_vector_time_[p][p] + 1
        /\ released'[l][p] = Seen(p, p)
    BY <1>m, <1>r, ViewTypes, Zenon
  <2>4. QED
    BY <1>a, <2>1, <2>2, <2>3, Zenon
<1>3. \A g, r \in Proc : ~ Promised(g, r, l)
  BY <1>m, NoPromise, Zenon
<1>4. GranterShows'
  <2> SUFFICES ASSUME NEW g \in Proc, NEW r \in Proc, NEW k \in Locks, Promised(g, r, k)',
                      NEW q \in Proc
               PROVE  released'[k][q] <= proc_vector_time_'[g][q]
    BY Zenon DEF GranterShows, Shows
  <2>1. k = l
    BY <1>l, Zenon
  <2>2. proc_vector_time_'[g][q] = Seen(p, q)
    BY <1>3, <2>1, Zenon
  <2>3. QED
    BY <1>a, <1>r, <2>1, <2>2, Zenon
<1>5. GrantShows'
  <2> SUFFICES ASSUME NEW m \in reps', Awaited(m)', NEW q \in Proc
               PROVE  released'[waiting'[m.to]][q] <= m.vector_time[q]
    BY Zenon DEF GrantShows, Shows
  <2>1. m.to \in Proc /\ waiting'[m.to] \in Locks
    <3>1. m.to \in Proc /\ waiting' \in [Proc -> Locks \cup {NoLock}]
      BY <1>m, Zenon DEF TypeOK, Reply
    <3>2. QED
      BY <3>1, Zenon DEF Awaited
  <2>2. waiting'[m.to] = l
    BY <1>l, <2>1, Zenon
  <2>3. m \notin reps
    <3> SUFFICES ASSUME m \in reps PROVE FALSE
      BY Zenon
    <3>1. Awaited(m) /\ waiting[m.to] = l /\ m.via \in Proc
      BY <1>m, <2>2, ViewTypes, Zenon DEF Awaited
    <3>2. Promised(m.via, m.to, l)
      BY <1>m, <3>1, AwaitedPromised, Zenon
    <3>3. QED
      BY <1>3, <2>1, <3>1, <3>2, Zenon
  <2>4. QED
    BY <1>a, <1>r, <2>2, <2>3, Zenon
<1>6. QED
  BY <1>1, <1>2, <1>4, <1>5, Zenon DEF ViewInv

(* Setting one entry leaves the others alone. *)
LEMMA EntryOnly ==
  ASSUME NEW X, NEW f \in [Proc -> [Locks -> X]], NEW p \in Proc, NEW l \in Locks,
         NEW e, NEW g, g = [f EXCEPT ![p][l] = e]
  PROVE  \A x \in Proc, k \in Locks : \/ x = p /\ k = l /\ g[x][k] = e
                                      \/ ~ (x = p /\ k = l) /\ g[x][k] = f[x][k]
  OBVIOUS

(* Steps that neither close nor take in intervals. *)
LEMMA QuietView ==
  ASSUME ViewInv, MutexInv', FreshCopy',
         UNCHANGED <<time, proc_vector_time_, dirty, released>>,
         \A p \in Proc, l \in Locks : HasLock(p, l)' => HasLock(p, l),
         \A p \in Proc, l \in Locks : Idle(p, l)' => Idle(p, l),
         \A g, r \in Proc, l \in Locks : Promised(g, r, l)' => Promised(g, r, l),
         \A m \in reps' :
           \/ /\ m \in reps
              /\ Awaited(m)' => Awaited(m) /\ waiting'[m.to] = waiting[m.to]
           \/ /\ \E p \in Proc : m.vector_time = proc_vector_time_[p]
              /\ Awaited(m)' => Shows(m.vector_time, waiting'[m.to])
  PROVE  ViewInv'
<1>t. TypeOK /\ TypeOK'
  BY Zenon DEF ViewInv, MutexInv
<1>1. \A p, q \in Proc : /\ proc_vector_time_[p][q] <= proc_vector_time_'[p][q]
                         /\ Seen(p, q) <= Seen(p, q)'
  <2> SUFFICES ASSUME NEW p \in Proc, NEW q \in Proc
               PROVE  /\ proc_vector_time_[p][q] <= proc_vector_time_'[p][q]
                      /\ Seen(p, q) <= Seen(p, q)'
    BY Zenon
  <2>1. proc_vector_time_[p][q] \in Nat /\ Seen(p, q) \in Nat /\ Seen(p, q)' = Seen(p, q)
    BY <1>t, ViewTypes, Zenon DEF Seen
  <2>2. QED
    BY <2>1
<1>2. KnownClosed'
  BY <1>1, <1>t, ClosedKeep, Zenon DEF ViewInv
<1>3. QED
  BY <1>1, <1>2, KeepView, Zenon

(* Steps that only move datagrams. *)
LEMMA DatagramView ==
  ASSUME ViewInv, MutexInv', FreshCopy',
         UNCHANGED <<time, proc_vector_time_, dirty, released>>,
         UNCHANGED <<held, next, waiting, release_seqno, req_seqno>>, reps' \subseteq reps
  PROVE  ViewInv'
<1>1. \A p \in Proc, l \in Locks : /\ HasLock(p, l)' => HasLock(p, l)
                                   /\ Idle(p, l)' => Idle(p, l)
  BY Zenon DEF HasLock, Idle
<1>2. /\ \A g, r \in Proc, l \in Locks : Promised(g, r, l)' => Promised(g, r, l)
      /\ \A m \in reps' : m \in reps /\ (Awaited(m)' => Awaited(m))
  BY Zenon DEF Promised, Awaited
<1>3. QED
  BY <1>1, <1>2, QuietView, Zenon

(* The grant of an idle lock shows what was released with it. *)
LEMMA GrantCovers ==
  ASSUME ViewInv, NEW p \in Proc, NEW l \in Locks, Idle(p, l)
  PROVE  /\ Shows(GrantTime(p, l), l)
         /\ \A q \in Proc : /\ proc_vector_time_[p][q] <= GrantTime(p, l)[q]
                            /\ GrantTime(p, l)[q] \in Nat
                            /\ q # p => GrantTime(p, l)[q] = proc_vector_time_[p][q]
<1>t. TypeOK
  BY Zenon DEF ViewInv, MutexInv
<1> SUFFICES ASSUME NEW q \in Proc
             PROVE  /\ released[l][q] <= GrantTime(p, l)[q]
                    /\ proc_vector_time_[p][q] <= GrantTime(p, l)[q]
                    /\ GrantTime(p, l)[q] \in Nat
                    /\ q # p => GrantTime(p, l)[q] = proc_vector_time_[p][q]
  BY Zenon DEF Shows
<1>1. /\ released[l][q] <= Seen(p, q)
      /\ time[p][l] <= proc_vector_time_[p][p] /\ released[l][p] <= time[p][l] + 1
  BY Zenon DEF ViewInv, OwnerSees, TimeTells, Idle
<1>2. /\ proc_vector_time_[p][q] \in Nat /\ Seen(p, q) \in Nat
      /\ proc_vector_time_[p][q] <= Seen(p, q)
      /\ q # p => Seen(p, q) = proc_vector_time_[p][q]
      /\ released[l][q] \in Nat /\ time[p][l] \in Nat
  BY <1>t, ViewTypes, Zenon
<1>3. CASE time[p][l] = proc_vector_time_[p][p]
  <2>1. GrantTime(p, l)[q] = Seen(p, q)
    BY <1>3, <1>t, CreateNumbers, Zenon DEF GrantTime
  <2>2. QED
    BY <1>1, <1>2, <2>1, Zenon
<1>4. CASE time[p][l] # proc_vector_time_[p][p]
  <2>1. GrantTime(p, l)[q] = proc_vector_time_[p][q]
    BY <1>4, Zenon DEF GrantTime
  <2>2. released[l][q] <= proc_vector_time_[p][q]
    <3>1. CASE q = p
      BY <1>1, <1>2, <1>4, <3>1
    <3>2. CASE q # p
      BY <1>1, <1>2, <3>2, Zenon
    <3>3. QED
      BY <3>1, <3>2, Zenon
  <2>3. proc_vector_time_[p][q] <= proc_vector_time_[p][q]
    BY <1>2
  <2>4. QED
    BY <1>2, <2>1, <2>2, <2>3, Zenon
<1>5. QED
  BY <1>3, <1>4, Zenon

LEMMA HandlerGrantView ==
  ASSUME OneLock, ViewInv, MutexInv', FreshCopy', NEW p \in Proc, NEW m \in reqs,
         HandlerGrant(p, m)
  PROVE  /\ ViewInv' /\ UNCHANGED <<held, waiting, released>>
         /\ \A x, q \in Proc : Seen(x, q)' = Seen(x, q)
<1>t. TypeOK /\ TypeOK'
  BY Zenon DEF ViewInv, MutexInv
<1>m. m.from \in Proc /\ m.id \in Locks /\ m.seqno \in Nat
  BY <1>t, RequestFields, Zenon
<1> DEFINE l == m.id
           vt == GrantTime(p, l)
           n == Grant(p, m.from, m.seqno, vt)
<1>1. /\ next[p][l] = p /\ ~ held[p][l]
      /\ next' = [next EXCEPT ![p][l] = m.from]
      /\ release_seqno' = [release_seqno EXCEPT ![p][l] = <<m.from, m.seqno>>]
      /\ proc_vector_time_' = [proc_vector_time_ EXCEPT ![p] = vt]
      /\ dirty' = [dirty EXCEPT ![p] = GrantDirty(p, l)]
      /\ reps' = reps \cup {n}
      /\ UNCHANGED <<held, req_seqno, waiting, time, released>>
  BY Zenon DEF HandlerGrant, Enqueue
<1>n. n.vector_time = vt /\ n.to = m.from /\ n.seqno = m.seqno
  BY DEF Grant
<1> HIDE DEF vt, n
<1>2. Idle(p, l)
  <2>1. waiting[p] # l
    BY <1>1, <1>m, NoLockIsNoLock, Zenon DEF ViewInv, MutexInv, WaitingHolds
  <2>2. QED
    BY <1>1, <2>1, Zenon DEF Idle, HasLock
<1>3. /\ \A q \in Proc \ {p} : /\ proc_vector_time_'[q] = proc_vector_time_[q]
                               /\ dirty'[q] = dirty[q]
      /\ proc_vector_time_'[p] = vt
      /\ \A q \in Proc : Seen(p, q)' = Seen(p, q)
  BY <1>1, <1>m, <1>t, GrantNumbers, Zenon DEF vt
<1>4. /\ Shows(vt, l)
      /\ \A q \in Proc : /\ proc_vector_time_[p][q] <= vt[q] /\ vt[q] \in Nat
                         /\ q # p => vt[q] = proc_vector_time_[p][q]
  BY <1>2, <1>m, GrantCovers, Zenon DEF vt
<1>5. \A x, q \in Proc : Seen(x, q)' = Seen(x, q)
  BY <1>3, Zenon DEF Seen
<1>6. \A x, q \in Proc : /\ proc_vector_time_[x][q] <= proc_vector_time_'[x][q]
                         /\ Seen(x, q) <= Seen(x, q)'
  <2>1. \A i \in Nat : i <= i
    OBVIOUS
  <2>2. \A x, q \in Proc : proc_vector_time_[x][q] \in Nat /\ Seen(x, q) \in Nat
    BY <1>t, ViewTypes, Zenon
  <2>3. QED
    BY <1>3, <1>4, <1>5, <2>1, <2>2, Zenon
<1>7. KnownClosed'
  <2>1. \A x, q \in Proc : q = x \/ proc_vector_time_'[x][q] = proc_vector_time_[x][q]
    BY <1>3, <1>4, Zenon
  <2>2. \A a \in reps' : a \in reps \/ \E x \in Proc : \A q \in Proc :
                                         a.vector_time[q] = proc_vector_time_'[x][q]
    BY <1>1, <1>3, <1>n, Zenon
  <2>3. QED
    BY <1>6, <1>t, <2>1, <2>2, ClosedKeep, Zenon DEF ViewInv
<1>8. \A x \in Proc, k \in Locks : /\ HasLock(x, k)' => HasLock(x, k)
                                   /\ Idle(x, k)' => Idle(x, k)
  <2>1. \A x \in Proc, k \in Locks :
          (x = p /\ k = l) \/ next'[x][k] = next[x][k]
    <3>1. next \in [Proc -> [Locks -> Proc]]
      BY <1>t, Zenon DEF TypeOK
    <3>2. QED
      BY <1>1, <1>m, <3>1, EntryOnly, Zenon
  <2>2. QED
    BY <1>1, <1>2, <2>1, Zenon DEF HasLock, Idle
<1>9. \A g, r \in Proc, k \in Locks : Promised(g, r, k)' =>
        Promised(g, r, k) \/ Shows(proc_vector_time_'[g], k)
  <2>1. \A g \in Proc, k \in Locks :
          (g = p /\ k = l) \/ release_seqno'[g][k] = release_seqno[g][k]
    <3>1. release_seqno \in [Proc -> [Locks -> Proc \X Nat]]
      BY <1>t, Zenon DEF TypeOK
    <3>2. QED
      BY <1>1, <1>m, <3>1, EntryOnly, Zenon
  <2>2. QED
    BY <1>1, <1>3, <1>4, <2>1, ZenonT(40) DEF Promised
<1>10. \A a \in reps' : Awaited(a)' =>
         \/ a \in reps /\ Awaited(a) /\ waiting'[a.to] = waiting[a.to]
         \/ Shows(a.vector_time, waiting'[a.to])
  <2> SUFFICES ASSUME NEW a \in reps', Awaited(a)', a \notin reps
               PROVE  Shows(a.vector_time, waiting'[a.to])
    BY <1>1, Zenon DEF Awaited
  <2>1. a = n /\ a.vector_time = vt /\ a.to = m.from
    BY <1>1, <1>n, Zenon
  <2>2. waiting[m.from] \in Locks
    <3>1. waiting \in [Proc -> Locks \cup {NoLock}]
      BY <1>t, Zenon DEF TypeOK
    <3>2. QED
      BY <1>1, <1>m, <2>1, <3>1, Zenon DEF Awaited
  <2>3. waiting'[a.to] = l
    BY <1>1, <1>m, <2>1, <2>2, Zenon DEF OneLock
  <2>4. QED
    BY <1>4, <2>1, <2>3, Zenon
<1>11. QED
  BY <1>1, <1>5, <1>6, <1>7, <1>8, <1>9, <1>10, KeepView, Zenon

(* The steps of AbstractLock, entry by entry. *)
Stutters ==
  /\ released' = released
  /\ \A x, q \in Proc : Seen(x, q)' = Seen(x, q)
  /\ \A x \in Proc, k \in Locks : InCS(x, k)' <=> InCS(x, k)

Writes(p) ==
  /\ released' = released
  /\ \A x, q \in Proc : Seen(x, q)' = IF x = p /\ q = p THEN Seen(x, q) + 1 ELSE Seen(x, q)
  /\ \A x \in Proc, k \in Locks : InCS(x, k)' <=> InCS(x, k)

Takes(p, l) ==
  /\ released' = released
  /\ \A x \in Proc : ~ InCS(x, l)
  /\ \A x \in Proc, k \in Locks : InCS(x, k)' <=> (x = p /\ k = l) \/ InCS(x, k)
  /\ \A x, q \in Proc : x # p \/ q = p => Seen(x, q)' = Seen(x, q)
  /\ \A q \in Proc : /\ Seen(p, q) <= Seen(p, q)' /\ released[l][q] <= Seen(p, q)'
                     /\ Seen(p, q)' <= Seen(q, q)

Drops(p, l) ==
  /\ released' = [released EXCEPT ![l] = Recorded(p)]
  /\ \A x, q \in Proc : Seen(x, q)' = Seen(x, q)
  /\ InCS(p, l) /\ \A x \in Proc : InCS(x, l) => x = p
  /\ \A x \in Proc, k \in Locks : InCS(x, k)' <=> ~ (x = p /\ k = l) /\ InCS(x, k)

(* Nobody sees more of q's writes than q itself. *)
LEMMA SeenByWriter ==
  ASSUME TypeOK, KnownClosed, NEW p \in Proc, NEW q \in Proc
  PROVE  Seen(p, q) <= Seen(q, q)
<1>1. /\ proc_vector_time_[q][q] <= Seen(q, q) /\ Seen(q, q) \in Nat
      /\ proc_vector_time_[p][q] \in Nat /\ proc_vector_time_[q][q] \in Nat
      /\ q # p => Seen(p, q) = proc_vector_time_[p][q]
  BY ViewTypes, Zenon
<1>2. proc_vector_time_[p][q] <= proc_vector_time_[q][q]
  BY Zenon DEF KnownClosed
<1>3. CASE q = p
  BY <1>1, <1>3
<1>4. CASE q # p
  <2>1. Seen(p, q) = proc_vector_time_[p][q]
    BY <1>1, <1>4, Zenon
  <2>2. QED
    BY <1>1, <1>2, <2>1
<1>5. QED
  BY <1>3, <1>4, Zenon

LEMMA WriteView ==
  ASSUME ViewInv, MutexInv', FreshCopy', NEW p \in Proc, Write(p)
  PROVE  ViewInv' /\ Writes(p)
<1>t. TypeOK /\ TypeOK'
  BY Zenon DEF ViewInv, MutexInv
<1>1. /\ ~ dirty[p] /\ dirty' = [dirty EXCEPT ![p] = TRUE]
      /\ UNCHANGED <<held, next, waiting, release_seqno, req_seqno>>
      /\ UNCHANGED <<time, proc_vector_time_, released, reps>>
  BY Zenon DEF Write, protocol
<1>2. dirty'[p] = TRUE /\ \A x \in Proc \ {p} : dirty'[x] = dirty[x]
  <2>1. dirty \in [Proc -> BOOLEAN]
    BY <1>t, Zenon DEF TypeOK
  <2>2. QED
    BY <1>1, <2>1, Zenon
<1>3. \A x, q \in Proc : proc_vector_time_[x][q] \in Nat /\ Seen(x, q) \in Nat
  BY <1>t, ViewTypes, Zenon
<1>4. \A x, q \in Proc : Seen(x, q)' = IF x = p /\ q = p THEN Seen(x, q) + 1 ELSE Seen(x, q)
  <2> SUFFICES ASSUME NEW x \in Proc, NEW q \in Proc
               PROVE  Seen(x, q)' = IF x = p /\ q = p THEN Seen(x, q) + 1 ELSE Seen(x, q)
    BY Zenon
  <2>1. CASE x = p /\ q = p
    BY <1>1, <1>2, <1>3, <2>1 DEF Seen
  <2>2. CASE ~ (x = p /\ q = p)
    <3>1. (q = x /\ dirty'[x]) <=> (q = x /\ dirty[x])
      BY <1>2, <2>2, Zenon
    <3>2. Seen(x, q)' = proc_vector_time_[x][q] + (IF q = x /\ dirty'[x] THEN 1 ELSE 0)
      BY <1>1, Zenon DEF Seen
    <3>3. Seen(x, q)' = Seen(x, q)
      BY <3>1, <3>2, Zenon DEF Seen
    <3>4. QED
      BY <2>2, <3>3, Zenon
  <2>3. QED
    BY <2>1, <2>2, Zenon
<1>5. \A x, q \in Proc : /\ proc_vector_time_[x][q] <= proc_vector_time_'[x][q]
                         /\ Seen(x, q) <= Seen(x, q)'
  <2>1. \A i \in Nat : i <= i /\ i <= i + 1
    OBVIOUS
  <2>2. QED
    BY <1>1, <1>3, <1>4, <2>1, Zenon
<1>6. KnownClosed'
  BY <1>1, Zenon DEF ViewInv, KnownClosed
<1>7. \A x \in Proc, k \in Locks :
        /\ HasLock(x, k)' <=> HasLock(x, k)
        /\ Idle(x, k)' <=> Idle(x, k)
        /\ InCS(x, k)' <=> InCS(x, k)
  BY <1>1, Zenon DEF HasLock, Idle, InCS
<1>8. /\ \A g, r \in Proc, k \in Locks : Promised(g, r, k)' <=> Promised(g, r, k)
      /\ \A m \in reps' : Awaited(m)' <=> Awaited(m)
  BY <1>1, Zenon DEF Promised, Awaited
<1>9. ViewInv'
  BY <1>1, <1>5, <1>6, <1>7, <1>8, KeepView, Zenon
<1>10. QED
  BY <1>1, <1>4, <1>7, <1>9, Zenon DEF Writes

LEMMA AcquireCachedView ==
  ASSUME ViewInv, MutexInv', FreshCopy', NEW p \in Proc, NEW l \in Locks,
         AcquireCached(p, l)
  PROVE  ViewInv' /\ Takes(p, l)
<1>t. TypeOK /\ MutexInv
  BY Zenon DEF ViewInv, MutexInv
<1>1. /\ waiting[p] = NoLock /\ ~ held[p][l] /\ next[p][l] = p
      /\ held' = [held EXCEPT ![p][l] = TRUE]
      /\ UNCHANGED <<next, waiting, release_seqno, req_seqno, reps>>
      /\ UNCHANGED <<time, proc_vector_time_, dirty, released>>
  BY Zenon DEF AcquireCached, Running, memory
<1>2. \A x \in Proc, k \in Locks : \/ x = p /\ k = l /\ held'[x][k] = TRUE
                                   \/ ~ (x = p /\ k = l) /\ held'[x][k] = held[x][k]
  <2>1. held \in [Proc -> [Locks -> BOOLEAN]]
    BY <1>t, Zenon DEF TypeOK
  <2>2. QED
    BY <1>1, <2>1, EntryOnly, Zenon
<1>3. HasLock(p, l) /\ p \in Proc
  BY <1>1, NoLockIsNoLock, Zenon DEF HasLock
<1>4. \A x \in Proc, k \in Locks : /\ HasLock(x, k)' => HasLock(x, k)
                                   /\ Idle(x, k)' => Idle(x, k)
  <2> SUFFICES ASSUME NEW x \in Proc, NEW k \in Locks
               PROVE  (HasLock(x, k)' => HasLock(x, k)) /\ (Idle(x, k)' => Idle(x, k))
    BY Zenon
  <2>1. CASE x = p /\ k = l
    BY <1>2, <1>3, <2>1, Zenon DEF Idle
  <2>2. CASE ~ (x = p /\ k = l)
    <3>1. held'[x][k] = held[x][k]
      BY <1>2, <2>2, Zenon
    <3>2. QED
      BY <1>1, <3>1, Zenon DEF HasLock, Idle
  <2>3. QED
    BY <2>1, <2>2, Zenon
<1>5. /\ \A g, r \in Proc, k \in Locks : Promised(g, r, k)' => Promised(g, r, k)
      /\ \A m \in reps' : m \in reps /\ (Awaited(m)' => Awaited(m))
  BY <1>1, Zenon DEF Promised, Awaited
<1>6. ViewInv'
  BY <1>1, <1>4, <1>5, QuietView, Zenon
<1>7. \A x \in Proc : ~ InCS(x, l)
  <2> SUFFICES ASSUME NEW x \in Proc, InCS(x, l) PROVE FALSE
    BY Zenon
  <2>1. x = p
    BY <1>3, <1>t, Zenon DEF InCS, HasLock, MutexInv, OneOwner, Owns
  <2>2. QED
    BY <1>1, <2>1, Zenon DEF InCS
<1>8. \A x \in Proc, k \in Locks : InCS(x, k)' <=> (x = p /\ k = l) \/ InCS(x, k)
  <2> SUFFICES ASSUME NEW x \in Proc, NEW k \in Locks
               PROVE  InCS(x, k)' <=> (x = p /\ k = l) \/ InCS(x, k)
    BY Zenon
  <2>1. CASE x = p /\ k = l
    BY <1>1, <1>2, <2>1, NoLockIsNoLock, Zenon DEF InCS
  <2>2. CASE ~ (x = p /\ k = l)
    <3>1. held'[x][k] = held[x][k]
      BY <1>2, <2>2, Zenon
    <3>2. QED
      BY <1>1, <2>2, <3>1, Zenon DEF InCS
  <2>3. QED
    BY <2>1, <2>2, Zenon
<1>9. \A x, q \in Proc : Seen(x, q)' = Seen(x, q)
  BY <1>1, Zenon DEF Seen
<1>10. \A q \in Proc : /\ Seen(p, q) <= Seen(p, q) /\ released[l][q] <= Seen(p, q)
                       /\ Seen(p, q) <= Seen(q, q)
  <2>1. \A q \in Proc : Seen(p, q) \in Nat
    BY <1>t, ViewTypes, Zenon
  <2>2. \A q \in Proc : Seen(p, q) <= Seen(p, q)
    BY <2>1
  <2>3. QED
    BY <1>3, <1>t, <2>2, SeenByWriter, Zenon DEF ViewInv, OwnerSees
<1>11. QED
  BY <1>1, <1>6, <1>7, <1>8, <1>9, <1>10, Zenon DEF Takes

(* A new request is answered by nothing that was sent before. *)
LEMMA AcquireRemoteView ==
  ASSUME ViewInv, MutexInv', FreshCopy', NEW p \in Proc, NEW l \in Locks,
         AcquireRemote(p, l)
  PROVE  ViewInv' /\ Stutters
<1>t. TypeOK /\ MutexInv /\ NumbersKnown
  BY Zenon DEF ViewInv, MutexInv
<1>1. /\ waiting[p] = NoLock /\ ~ held[p][l] /\ Snapshot(p)
      /\ held' = [held EXCEPT ![p][l] = TRUE]
      /\ next' = [next EXCEPT ![p][l] = p]
      /\ req_seqno' = [req_seqno EXCEPT ![p] = req_seqno[p] + 1]
      /\ waiting' = [waiting EXCEPT ![p] = l]
      /\ UNCHANGED <<release_seqno, reps>>
  BY Zenon DEF AcquireRemote, Running
<1>2. UNCHANGED <<time, proc_vector_time_, dirty, released>>
  BY <1>1, Zenon DEF Snapshot
<1>3. /\ \A x \in Proc, k \in Locks : \/ x = p /\ k = l /\ held'[x][k] = TRUE
                                      \/ ~ (x = p /\ k = l) /\ held'[x][k] = held[x][k]
      /\ \A x \in Proc, k \in Locks : \/ x = p /\ k = l /\ next'[x][k] = p
                                      \/ ~ (x = p /\ k = l) /\ next'[x][k] = next[x][k]
  <2>1. held \in [Proc -> [Locks -> BOOLEAN]] /\ next \in [Proc -> [Locks -> Proc]]
    BY <1>t, Zenon DEF TypeOK
  <2>2. QED
    BY <1>1, <2>1, EntryOnly, Zenon
<1>4. /\ waiting'[p] = l /\ req_seqno'[p] = req_seqno[p] + 1
      /\ \A x \in Proc \ {p} : waiting'[x] = waiting[x] /\ req_seqno'[x] = req_seqno[x]
      /\ req_seqno[p] \in Nat
  <2>1. waiting \in [Proc -> Locks \cup {NoLock}] /\ req_seqno \in [Proc -> Nat]
    BY <1>t, Zenon DEF TypeOK
  <2>2. QED
    BY <1>1, <2>1, Zenon
<1>5. ASSUME NEW x \in Proc, NEW k \in Locks
      PROVE  /\ HasLock(x, k)' => HasLock(x, k)
             /\ Idle(x, k)' => Idle(x, k)
             /\ InCS(x, k)' <=> InCS(x, k)
  <2>1. CASE x = p /\ k = l
    BY <1>1, <1>4, <2>1, Zenon DEF HasLock, Idle, InCS
  <2>2. CASE ~ (x = p /\ k = l)
    <3>1. held'[x][k] = held[x][k] /\ next'[x][k] = next[x][k]
      BY <1>3, <2>2, Zenon
    <3>2. waiting'[x] = k <=> waiting[x] = k
      <4>1. CASE x = p
        BY <1>1, <1>4, <2>2, <4>1, NoLockIsNoLock, Zenon
      <4>2. CASE x # p
        BY <1>4, <4>2, Zenon
      <4>3. QED
        BY <4>1, <4>2, Zenon
    <3>3. QED
      BY <3>1, <3>2, Zenon DEF HasLock, Idle, InCS
  <2>3. QED
    BY <2>1, <2>2, Zenon
<1>6. ASSUME NEW g \in Proc, NEW r \in Proc, NEW k \in Locks, Promised(g, r, k)'
      PROVE  Promised(g, r, k)
  <2>1. waiting'[r] = k /\ release_seqno[g][k] = <<r, req_seqno'[r]>>
    BY <1>1, <1>6, Zenon DEF Promised
  <2>2. CASE r = p
    <3>1. release_seqno[g][k][2] <= req_seqno[release_seqno[g][k][1]]
      BY <1>t, Zenon DEF NumbersKnown
    <3>2. req_seqno[p] + 1 <= req_seqno[p]
      BY <1>4, <2>1, <2>2, <3>1
    <3>3. QED
      BY <1>4, <3>2
  <2>3. CASE r # p
    BY <1>4, <2>1, <2>3, Zenon DEF Promised
  <2>4. QED
    BY <2>2, <2>3, Zenon
<1>7. ASSUME NEW m \in reps'
      PROVE  m \in reps /\ (Awaited(m)' => Awaited(m) /\ waiting'[m.to] = waiting[m.to])
  <2>1. m \in reps /\ m.to \in Proc /\ m.seqno \in Nat /\ m.seqno <= req_seqno[m.to]
    BY <1>1, <1>t, ReplyFields, Zenon DEF NumbersKnown
  <2>2. CASE m.to = p
    <3>1. m.seqno # req_seqno'[m.to]
      BY <1>4, <2>1, <2>2
    <3>2. QED
      BY <2>1, <3>1, Zenon DEF Awaited
  <2>3. CASE m.to # p
    BY <1>4, <2>1, <2>3, Zenon DEF Awaited
  <2>4. QED
    BY <2>2, <2>3, Zenon
<1>8. ViewInv'
  BY <1>2, <1>5, <1>6, <1>7, QuietView, Zenon
<1>9. \A x, q \in Proc : Seen(x, q)' = Seen(x, q)
  BY <1>2, Zenon DEF Seen
<1>10. QED
  BY <1>2, <1>5, <1>8, <1>9, Zenon DEF Stutters

(* The granter of p's request grants it again. *)
LEMMA DuplicateGrantView ==
  ASSUME OneLock, ViewInv, MutexInv', FreshCopy', NEW p \in Proc, NEW m \in reqs,
         DuplicateGrant(p, m)
  PROVE  ViewInv'
<1>t. TypeOK
  BY Zenon DEF ViewInv, MutexInv
<1>m. m.from \in Proc /\ m.id \in Locks
  BY <1>t, RequestFields, Zenon
<1> DEFINE n == Grant(p, m.from, m.seqno, proc_vector_time_[p])
<1>1. /\ release_seqno[p][m.id] = <<m.from, m.seqno>> /\ reps' = reps \cup {n}
      /\ UNCHANGED <<held, next, waiting, release_seqno, req_seqno>>
      /\ UNCHANGED <<time, proc_vector_time_, dirty, released>>
  BY Zenon DEF DuplicateGrant, DuplicateGranted, protocol, memory
<1>n. n.vector_time = proc_vector_time_[p] /\ n.to = m.from /\ n.seqno = m.seqno
  BY DEF Grant
<1> HIDE DEF n
<1>2. ASSUME Awaited(n) PROVE Shows(n.vector_time, waiting[n.to])
  <2>1. waiting[m.from] # NoLock /\ m.seqno = req_seqno[m.from]
    BY <1>2, <1>n, Zenon DEF Awaited
  <2>2. waiting[m.from] \in Locks
    <3>1. waiting \in [Proc -> Locks \cup {NoLock}]
      BY <1>t, Zenon DEF TypeOK
    <3>2. QED
      BY <1>m, <2>1, <3>1, Zenon
  <2>3. waiting[m.from] = m.id
    BY <1>m, <2>2, Zenon DEF OneLock
  <2>4. Promised(p, m.from, m.id)
    BY <1>1, <2>1, <2>3, Zenon DEF Promised
  <2>5. QED
    BY <1>m, <1>n, <2>3, <2>4, Zenon DEF ViewInv, GranterShows
<1>3. \A x \in Proc, k \in Locks : /\ HasLock(x, k)' => HasLock(x, k)
                                   /\ Idle(x, k)' => Idle(x, k)
  BY <1>1, Zenon DEF HasLock, Idle
<1>4. \A g, r \in Proc, k \in Locks : Promised(g, r, k)' => Promised(g, r, k)
  BY <1>1, Zenon DEF Promised
<1>5. \A a \in reps' :
        \/ a \in reps /\ (Awaited(a)' => Awaited(a) /\ waiting'[a.to] = waiting[a.to])
        \/ /\ \E x \in Proc : a.vector_time = proc_vector_time_[x]
           /\ Awaited(a)' => Shows(a.vector_time, waiting'[a.to])
  <2>1. \A a : Awaited(a)' <=> Awaited(a)
    BY <1>1, Zenon DEF Awaited
  <2>2. QED
    BY <1>1, <1>2, <1>n, <2>1, Zenon
<1>6. QED
  BY <1>1, <1>3, <1>4, <1>5, QuietView, Zenon

(* What p has seen once it has taken in the grant m. *)
LEMMA IncorporateView ==
  ASSUME ViewInv, TypeOK', NEW p \in Proc, waiting[p] # NoLock, NEW m \in reps,
         Tmk_interval_incorporate(p, m.vector_time)
  PROVE  /\ \A x, q \in Proc : x # p \/ q = p => Seen(x, q)' = Seen(x, q)
         /\ \A x, q \in Proc : /\ proc_vector_time_[x][q] <= proc_vector_time_'[x][q]
                               /\ Seen(x, q) <= Seen(x, q)'
         /\ \A q \in Proc : m.vector_time[q] <= Seen(p, q)' /\ Seen(p, q)' <= Seen(q, q)
         /\ \A x, q \in Proc : \/ q = x
                               \/ proc_vector_time_'[x][q] = proc_vector_time_[x][q]
                               \/ proc_vector_time_'[x][q] = m.vector_time[q]
<1>t. TypeOK /\ CopyInv /\ KnownClosed
  BY Zenon DEF ViewInv, MutexInv, CopyInv
<1>n. /\ \A x, q \in Proc : /\ proc_vector_time_[x][q] \in Nat /\ Seen(x, q) \in Nat
                            /\ proc_vector_time_[x][q] <= Seen(x, q)
                            /\ q # x => Seen(x, q) = proc_vector_time_[x][q]
      /\ \A q \in Proc : m.vector_time[q] \in Nat
  BY <1>t, ViewTypes, Zenon
<1>1. m.vector_time \in VectorTime
  BY <1>t, Zenon DEF TypeOK, Reply
<1> DEFINE vt == m.vector_time
<1>2. /\ \A q \in Proc \ {p} : /\ proc_vector_time_'[q] = proc_vector_time_[q]
                               /\ dirty'[q] = dirty[q]
      /\ \A q \in Proc \ {p} :
           proc_vector_time_'[p][q] = IF vt[q] > proc_vector_time_[p][q]
                                      THEN vt[q] ELSE proc_vector_time_[p][q]
      /\ \/ dirty'[p] = dirty[p] /\ proc_vector_time_'[p][p] = proc_vector_time_[p][p]
         \/ /\ dirty[p] /\ ~ dirty'[p]
            /\ proc_vector_time_'[p][p] = proc_vector_time_[p][p] + 1
  BY <1>1, <1>t, IncorporateNumbers, Zenon
<1>3. \A x, q \in Proc : x # p => Seen(x, q)' = Seen(x, q)
  BY <1>2, Zenon DEF Seen
<1>4. Seen(p, p)' = Seen(p, p) /\ proc_vector_time_[p][p] <= proc_vector_time_'[p][p]
  <2>1. CASE dirty'[p] = dirty[p] /\ proc_vector_time_'[p][p] = proc_vector_time_[p][p]
    BY <1>n, <2>1 DEF Seen
  <2>2. CASE /\ dirty[p] /\ ~ dirty'[p]
             /\ proc_vector_time_'[p][p] = proc_vector_time_[p][p] + 1
    BY <1>n, <2>2 DEF Seen
  <2>3. QED
    BY <1>2, <2>1, <2>2, Zenon
<1>5. ASSUME NEW q \in Proc, q # p
      PROVE  /\ Seen(p, q)' = proc_vector_time_'[p][q]
             /\ proc_vector_time_[p][q] <= proc_vector_time_'[p][q]
             /\ vt[q] <= proc_vector_time_'[p][q]
             /\ \/ proc_vector_time_'[p][q] = proc_vector_time_[p][q]
                \/ proc_vector_time_'[p][q] = vt[q]
  <2>1. /\ proc_vector_time_'[p][q] = IF vt[q] > proc_vector_time_[p][q]
                                      THEN vt[q] ELSE proc_vector_time_[p][q]
        /\ vt[q] \in Nat /\ proc_vector_time_[p][q] \in Nat
    BY <1>2, <1>5, <1>n, Zenon
  <2>2. /\ proc_vector_time_[p][q] <= proc_vector_time_'[p][q]
        /\ vt[q] <= proc_vector_time_'[p][q]
        /\ proc_vector_time_'[p][q] \in Nat
    BY <2>1
  <2>3. Seen(p, q)' = proc_vector_time_'[p][q]
    BY <1>5, <2>2 DEF Seen
  <2>4. QED
    BY <2>1, <2>2, <2>3, Zenon
<1>6. \A x, q \in Proc : /\ proc_vector_time_[x][q] <= proc_vector_time_'[x][q]
                         /\ Seen(x, q) <= Seen(x, q)'
  <2>1. \A i \in Nat : i <= i
    OBVIOUS
  <2> SUFFICES ASSUME NEW x \in Proc, NEW q \in Proc
               PROVE  /\ proc_vector_time_[x][q] <= proc_vector_time_'[x][q]
                      /\ Seen(x, q) <= Seen(x, q)'
    BY Zenon
  <2>2. CASE x # p
    <3>1. proc_vector_time_'[x] = proc_vector_time_[x] /\ Seen(x, q)' = Seen(x, q)
      BY <1>2, <1>3, <2>2, Zenon
    <3>2. QED
      BY <1>n, <2>1, <3>1, Zenon
  <2>3. CASE x = p /\ q = p
    BY <1>4, <1>n, <2>1, <2>3, Zenon
  <2>4. CASE x = p /\ q # p
    <3>1. Seen(p, q) = proc_vector_time_[p][q]
      BY <1>n, <2>4, Zenon
    <3>2. /\ Seen(p, q)' = proc_vector_time_'[p][q]
          /\ proc_vector_time_[p][q] <= proc_vector_time_'[p][q]
      BY <1>5, <2>4, Zenon
    <3>3. QED
      BY <2>4, <3>1, <3>2, Zenon
  <2>5. QED
    BY <2>2, <2>3, <2>4, Zenon
<1>7. ASSUME NEW q \in Proc PROVE vt[q] <= Seen(p, q)' /\ Seen(p, q)' <= Seen(q, q)
  <2>1. /\ vt[q] <= proc_vector_time_[q][q] /\ proc_vector_time_[p][q] <= proc_vector_time_[q][q]
        /\ proc_vector_time_[q][q] <= Seen(q, q)
        /\ vt[q] \in Nat /\ proc_vector_time_[q][q] \in Nat /\ Seen(q, q) \in Nat
        /\ proc_vector_time_[p][q] \in Nat
    BY <1>n, <1>t, Zenon DEF KnownClosed
  <2>2. vt[q] <= Seen(q, q) /\ proc_vector_time_[p][q] <= Seen(q, q) /\ Seen(q, q) <= Seen(q, q)
    BY <2>1
  <2>3. CASE q = p
    BY <1>4, <2>2, <2>3, Zenon
  <2>4. CASE q # p
    BY <1>5, <2>2, <2>4, Zenon
  <2>5. QED
    BY <2>3, <2>4, Zenon
<1>8. \A x, q \in Proc : \/ q = x
                         \/ proc_vector_time_'[x][q] = proc_vector_time_[x][q]
                         \/ proc_vector_time_'[x][q] = vt[q]
  <2> SUFFICES ASSUME NEW x \in Proc, NEW q \in Proc, q # x
               PROVE  \/ proc_vector_time_'[x][q] = proc_vector_time_[x][q]
                      \/ proc_vector_time_'[x][q] = vt[q]
    BY Zenon
  <2>1. CASE x # p
    <3>1. proc_vector_time_'[x] = proc_vector_time_[x]
      BY <1>2, <2>1, Zenon
    <3>2. QED
      BY <3>1, Zenon
  <2>2. CASE x = p
    BY <1>5, <2>2, Zenon
  <2>3. QED
    BY <2>1, <2>2, Zenon
<1>9. QED
  BY <1>3, <1>4, <1>6, <1>7, <1>8, Zenon

(* The acquire returns: nobody else is in, and p has seen all it must. *)
LEMMA AcquiredView ==
  ASSUME ViewInv, MutexInv', FreshCopy', NEW p \in Proc, NEW m \in reps, Acquired(p, m)
  PROVE  ViewInv' /\ Takes(p, waiting[p]) /\ waiting[p] \in Locks
<1>t. TypeOK /\ TypeOK' /\ MutexInv /\ WaitingHolds
  BY Zenon DEF ViewInv, MutexInv
<1> DEFINE l == waiting[p]
<1>1. /\ l # NoLock /\ m.to = p /\ m.seqno = req_seqno[p]
      /\ waiting' = [waiting EXCEPT ![p] = NoLock]
      /\ Tmk_interval_incorporate(p, m.vector_time)
      /\ reps' = reps \ {m}
      /\ UNCHANGED <<held, next, release_seqno, req_seqno, time, released>>
  BY Zenon DEF Acquired, Running
<1>2. /\ l \in Locks /\ waiting'[p] = NoLock
      /\ \A x \in Proc \ {p} : waiting'[x] = waiting[x]
  <2>1. waiting \in [Proc -> Locks \cup {NoLock}]
    BY <1>t, Zenon DEF TypeOK
  <2>2. QED
    BY <1>1, <2>1, Zenon
<1>3. Awaited(m) /\ Promised(m.via, p, l) /\ m.via \in Proc
  <2>1. Awaited(m) /\ m.via \in Proc
    BY <1>1, <1>t, ViewTypes, Zenon DEF Awaited
  <2>2. QED
    BY <1>1, <1>t, <2>1, AwaitedPromised, Zenon
<1>4. held[p][l] /\ \A x \in Proc : ~ HasLock(x, l)
  BY <1>1, <1>2, <1>3, <1>t, NoPromise, Zenon DEF WaitingHolds
<1>5. Shows(m.vector_time, l)
  BY <1>1, <1>3, Zenon DEF ViewInv, GrantShows
<1>6. /\ \A x, q \in Proc : x # p \/ q = p => Seen(x, q)' = Seen(x, q)
      /\ \A x, q \in Proc : /\ proc_vector_time_[x][q] <= proc_vector_time_'[x][q]
                            /\ Seen(x, q) <= Seen(x, q)'
      /\ \A q \in Proc : m.vector_time[q] <= Seen(p, q)' /\ Seen(p, q)' <= Seen(q, q)
      /\ \A x, q \in Proc : \/ q = x
                            \/ proc_vector_time_'[x][q] = proc_vector_time_[x][q]
                            \/ proc_vector_time_'[x][q] = m.vector_time[q]
  BY <1>1, <1>t, IncorporateView, Zenon
<1>7. \A q \in Proc : released[l][q] <= Seen(p, q)'
  <2> SUFFICES ASSUME NEW q \in Proc PROVE released[l][q] <= Seen(p, q)'
    BY Zenon
  <2>1. released[l][q] <= m.vector_time[q] /\ m.vector_time[q] <= Seen(p, q)'
    BY <1>5, <1>6, Zenon DEF Shows
  <2>2. released[l][q] \in Nat /\ m.vector_time[q] \in Nat
    BY <1>2, <1>t, ViewTypes, Zenon
  <2>3. Seen(p, q)' \in Nat
    <3>1. proc_vector_time_'[p][q] \in Nat
      BY <1>t, ZenonT(40) DEF TypeOK, VectorTime
    <3>2. QED
      BY <3>1 DEF Seen
  <2>4. QED
    BY <2>1, <2>2, <2>3, AtMostTransitive, Zenon
<1>8. KnownClosed'
  <2>1. \A a \in reps' : a \in reps
    BY <1>1, Zenon
  <2>2. QED
    BY <1>6, <1>t, <2>1, ClosedKeep, Zenon DEF ViewInv
<1> HIDE DEF l
<1>9. ASSUME NEW x \in Proc, NEW k \in Locks
      PROVE  /\ (x = p /\ k = l) \/ (HasLock(x, k)' <=> HasLock(x, k))
             /\ Idle(x, k)' => Idle(x, k)
             /\ InCS(x, k)' <=> (x = p /\ k = l) \/ InCS(x, k)
  <2>1. CASE x = p /\ k = l
    <3>1. waiting'[x] # k
      BY <1>2, <2>1, NoLockIsNoLock, Zenon
    <3>2. held'[x][k]
      BY <1>1, <1>4, <2>1, Zenon
    <3>3. QED
      BY <2>1, <3>1, <3>2, Zenon DEF Idle, InCS
  <2>2. CASE ~ (x = p /\ k = l)
    <3>1. waiting'[x] = k <=> waiting[x] = k
      <4>1. CASE x = p
        BY <1>2, <2>2, <4>1, NoLockIsNoLock, Zenon DEF l
      <4>2. CASE x # p
        BY <1>2, <4>2, Zenon
      <4>3. QED
        BY <4>1, <4>2, Zenon
    <3>2. QED
      BY <1>1, <2>2, <3>1, Zenon DEF HasLock, Idle, InCS
  <2>3. QED
    BY <2>1, <2>2, Zenon
<1>10. \A g, r \in Proc, k \in Locks : Promised(g, r, k)' => Promised(g, r, k)
  <2> SUFFICES ASSUME NEW g \in Proc, NEW r \in Proc, NEW k \in Locks, Promised(g, r, k)'
               PROVE  Promised(g, r, k)
    BY Zenon
  <2>1. r # p
    BY <1>2, NoLockIsNoLock, Zenon DEF Promised
  <2>2. QED
    BY <1>1, <1>2, <2>1, Zenon DEF Promised
<1>11. \A a \in reps' : Awaited(a)' =>
         a \in reps /\ Awaited(a) /\ waiting'[a.to] = waiting[a.to]
  <2> SUFFICES ASSUME NEW a \in reps', Awaited(a)'
               PROVE  a \in reps /\ Awaited(a) /\ waiting'[a.to] = waiting[a.to]
    BY Zenon
  <2>1. a \in reps /\ a.to # p
    BY <1>1, <1>2, Zenon DEF Awaited
  <2>2. a.to \in Proc
    BY <1>t, <2>1, ReplyFields, Zenon
  <2>3. QED
    BY <1>1, <1>2, <2>1, <2>2, Zenon DEF Awaited
<1>12. ViewInv'
  <2>1. \A x \in Proc, k \in Locks : HasLock(x, k)' =>
          HasLock(x, k) \/ \A q \in Proc : released[k][q] <= Seen(x, q)'
    BY <1>7, <1>9, Zenon
  <2>2. \A x \in Proc, k \in Locks : Idle(x, k)' =>
          Idle(x, k) /\ time'[x][k] = time[x][k]
    BY <1>1, <1>9, Zenon
  <2>3. QED
    BY <1>1, <1>6, <1>8, <1>10, <1>11, <2>1, <2>2, KeepView, Zenon
<1>13. \A x \in Proc : ~ InCS(x, l)
  BY <1>4, Zenon DEF InCS, HasLock
<1>14. QED
  BY <1>1, <1>2, <1>6, <1>7, <1>9, <1>12, <1>13, Zenon DEF Takes, l

(* Who releases is the only one in. *)
LEMMA ReleaserIn ==
  ASSUME MutexInv, NEW p \in Proc, NEW l \in Locks, waiting[p] = NoLock, held[p][l],
         held' = [held EXCEPT ![p][l] = FALSE], waiting' = waiting
  PROVE  /\ HasLock(p, l) /\ InCS(p, l) /\ \A x \in Proc : InCS(x, l) => x = p
         /\ \A x \in Proc, k \in Locks : InCS(x, k)' <=> ~ (x = p /\ k = l) /\ InCS(x, k)
         /\ \A x \in Proc, k \in Locks : held'[x][k] => held[x][k]
<1>1. \A x \in Proc, k \in Locks : \/ x = p /\ k = l /\ held'[x][k] = FALSE
                                   \/ ~ (x = p /\ k = l) /\ held'[x][k] = held[x][k]
  <2>1. held \in [Proc -> [Locks -> BOOLEAN]]
    BY Zenon DEF MutexInv, TypeOK
  <2>2. QED
    BY <2>1, EntryOnly, Zenon
<1>2. HasLock(p, l) /\ InCS(p, l)
  BY NoLockIsNoLock, Zenon DEF HasLock, InCS
<1>3. \A x \in Proc : InCS(x, l) => x = p
  BY <1>2, Zenon DEF InCS, HasLock, MutexInv, OneOwner, Owns
<1>4. ASSUME NEW x \in Proc, NEW k \in Locks
      PROVE  /\ InCS(x, k)' <=> ~ (x = p /\ k = l) /\ InCS(x, k)
             /\ held'[x][k] => held[x][k]
  <2>1. CASE x = p /\ k = l
    BY <1>1, <2>1, Zenon DEF InCS
  <2>2. CASE ~ (x = p /\ k = l)
    <3>1. held'[x][k] = held[x][k]
      BY <1>1, <2>2, Zenon
    <3>2. QED
      BY <2>2, <3>1, Zenon DEF InCS
  <2>3. QED
    BY <2>1, <2>2, Zenon
<1>5. QED
  BY <1>2, <1>3, <1>4, Zenon

LEMMA ReleaseCachedView ==
  ASSUME OneLock, ViewInv, MutexInv', FreshCopy', NEW p \in Proc, NEW l \in Locks,
         ReleaseCached(p, l)
  PROVE  ViewInv' /\ Drops(p, l)
<1>t. TypeOK /\ TypeOK' /\ MutexInv
  BY Zenon DEF ViewInv, MutexInv
<1>1. /\ waiting[p] = NoLock /\ held[p][l]
      /\ held' = [held EXCEPT ![p][l] = FALSE]
      /\ time' = [time EXCEPT ![p][l] = proc_vector_time_[p][p]]
      /\ released' = [released EXCEPT ![l] = Recorded(p)]
      /\ UNCHANGED <<next, release_seqno, req_seqno, waiting, reps>>
      /\ UNCHANGED <<proc_vector_time_, dirty>>
  BY Zenon DEF ReleaseCached, Running
<1>2. /\ HasLock(p, l) /\ InCS(p, l) /\ \A x \in Proc : InCS(x, l) => x = p
      /\ \A x \in Proc, k \in Locks : InCS(x, k)' <=> ~ (x = p /\ k = l) /\ InCS(x, k)
      /\ \A x \in Proc, k \in Locks : held'[x][k] => held[x][k]
  BY <1>1, <1>t, ReleaserIn, Zenon
<1>3. \A x, q \in Proc : Seen(x, q)' = Seen(x, q)
  BY <1>1, Zenon DEF Seen
<1>4. KnownClosed'
  BY <1>1, Zenon DEF ViewInv, KnownClosed
<1>5. \A x \in Proc : HasLock(x, l)' => HasLock(x, l)
  BY <1>1, <1>2, Zenon DEF HasLock
<1>6. time'[p][l] = proc_vector_time_[p][p]
  <2>1. time \in [Proc -> [Locks -> Nat]]
    BY <1>t, Zenon DEF TypeOK
  <2>2. QED
    BY <1>1, <2>1, EntryOnly, Zenon
<1>7. \A g, r \in Proc : Promised(g, r, l)' => Promised(g, r, l)
  BY <1>1, Zenon DEF Promised
<1>8. ViewInv'
  BY <1>1, <1>2, <1>3, <1>4, <1>5, <1>6, <1>7, ReleaseView, Zenon
<1>9. QED
  BY <1>1, <1>2, <1>3, <1>8, Zenon DEF Drops

LEMMA ReleaseGrantView ==
  ASSUME OneLock, ViewInv, MutexInv', FreshCopy', NEW p \in Proc, NEW l \in Locks,
         ReleaseGrant(p, l)
  PROVE  ViewInv' /\ Drops(p, l)
<1>t. TypeOK /\ TypeOK' /\ MutexInv
  BY Zenon DEF ViewInv, MutexInv
<1> DEFINE to == next[p][l]
           k == rep_seqno_[p][to]
           n == Grant(p, to, k, Tmk_interval_create(p))
<1>1. /\ waiting[p] = NoLock /\ held[p][l] /\ to # p
      /\ held' = [held EXCEPT ![p][l] = FALSE]
      /\ CloseInterval(p)
      /\ release_seqno' = [release_seqno EXCEPT ![p][l] = <<to, k>>]
      /\ reps' = reps \cup {n}
      /\ released' = [released EXCEPT ![l] = Recorded(p)]
      /\ UNCHANGED <<next, req_seqno, waiting, time>>
  BY Zenon DEF ReleaseGrant, Running
<1>n. n.vector_time = Tmk_interval_create(p)
  BY DEF Grant
<1> HIDE DEF n, k
<1>2. /\ HasLock(p, l) /\ InCS(p, l) /\ \A x \in Proc : InCS(x, l) => x = p
      /\ \A x \in Proc, j \in Locks : InCS(x, j)' <=> ~ (x = p /\ j = l) /\ InCS(x, j)
      /\ \A x \in Proc, j \in Locks : held'[x][j] => held[x][j]
  BY <1>1, <1>t, ReleaserIn, Zenon
<1>3. /\ \A q \in Proc \ {p} : /\ proc_vector_time_'[q] = proc_vector_time_[q]
                               /\ dirty'[q] = dirty[q]
      /\ ~ dirty'[p]
      /\ \A q \in Proc : proc_vector_time_'[p][q] = Seen(p, q)
  BY <1>1, <1>t, CloseNumbers, Zenon
<1>4. \A q \in Proc : /\ Tmk_interval_create(p)[q] = Seen(p, q) /\ Seen(p, q) \in Nat
                      /\ proc_vector_time_[p][q] <= Seen(p, q)
                      /\ q # p => Seen(p, q) = proc_vector_time_[p][q]
  BY <1>t, CreateNumbers, ViewTypes, Zenon
<1>5. \A x, q \in Proc : Seen(x, q)' = Seen(x, q)
  <2> SUFFICES ASSUME NEW x \in Proc, NEW q \in Proc PROVE Seen(x, q)' = Seen(x, q)
    BY Zenon
  <2>1. CASE x # p
    BY <1>3, <2>1, Zenon DEF Seen
  <2>2. CASE x = p
    <3>1. proc_vector_time_'[p][q] = Seen(p, q) /\ Seen(p, q) \in Nat /\ ~ dirty'[p]
      BY <1>3, <1>4, Zenon
    <3>2. Seen(p, q)' = proc_vector_time_'[p][q] + 0
      BY <3>1, Zenon DEF Seen
    <3>3. Seen(p, q)' = Seen(p, q)
      BY <3>1, <3>2
    <3>4. QED
      BY <2>2, <3>3, Zenon
  <2>3. QED
    BY <2>1, <2>2, Zenon
<1>6. KnownClosed'
  <2>1. \A x, q \in Proc : q = x \/ proc_vector_time_'[x][q] = proc_vector_time_[x][q]
    <3> SUFFICES ASSUME NEW x \in Proc, NEW q \in Proc, q # x
                 PROVE  proc_vector_time_'[x][q] = proc_vector_time_[x][q]
      BY Zenon
    <3>1. CASE x # p
      BY <1>3, <3>1, Zenon
    <3>2. CASE x = p
      BY <1>3, <1>4, <3>2, Zenon
    <3>3. QED
      BY <3>1, <3>2, Zenon
  <2>2. \A q \in Proc : proc_vector_time_[q][q] <= proc_vector_time_'[q][q]
    <3> SUFFICES ASSUME NEW q \in Proc
                 PROVE  proc_vector_time_[q][q] <= proc_vector_time_'[q][q]
      BY Zenon
    <3>1. CASE q = p
      BY <1>3, <1>4, <3>1, Zenon
    <3>2. CASE q # p
      <4>1. proc_vector_time_'[q][q] = proc_vector_time_[q][q]
        BY <1>3, <3>2, Zenon
      <4>2. proc_vector_time_[q][q] \in Nat
        BY <1>t, ViewTypes, Zenon
      <4>3. QED
        BY <4>1, <4>2
    <3>3. QED
      BY <3>1, <3>2, Zenon
  <2>3. \A a \in reps' : a \in reps \/ \E x \in Proc : \A q \in Proc :
                                         a.vector_time[q] = proc_vector_time_'[x][q]
    <3>1. \A q \in Proc : n.vector_time[q] = proc_vector_time_'[p][q]
      BY <1>3, <1>4, <1>n, Zenon
    <3>2. \A a \in reps' : a \in reps \/ a = n
      BY <1>1, Zenon
    <3>3. QED
      BY <3>1, <3>2, ZenonT(40)
  <2>4. QED
    BY <1>t, <2>1, <2>2, <2>3, ClosedKeep, Zenon DEF ViewInv
<1>7. \A x \in Proc : HasLock(x, l)' => HasLock(x, l)
  BY <1>1, <1>2, Zenon DEF HasLock
<1>8. ~ Idle(p, l)'
  BY <1>1, Zenon DEF Idle, HasLock
<1>9. \A g, r \in Proc : Promised(g, r, l)' =>
        \/ Promised(g, r, l)
        \/ g = p /\ \A q \in Proc : proc_vector_time_'[p][q] = Seen(p, q)
  <2>1. \A g \in Proc : g = p \/ release_seqno'[g][l] = release_seqno[g][l]
    <3>1. release_seqno \in [Proc -> [Locks -> Proc \X Nat]]
      BY <1>t, Zenon DEF TypeOK
    <3>2. QED
      BY <1>1, <3>1, EntryOnly, Zenon
  <2>2. QED
    BY <1>1, <1>3, <2>1, Zenon DEF Promised
<1>10. \A a \in reps' : a \in reps \/ \A q \in Proc : a.vector_time[q] = Seen(p, q)
  BY <1>1, <1>4, <1>n, Zenon
<1>11. ViewInv'
  BY <1>1, <1>2, <1>5, <1>6, <1>7, <1>8, <1>9, <1>10, ReleaseView, Zenon
<1>12. QED
  BY <1>1, <1>2, <1>5, <1>11, Zenon DEF Drops

(* p remembers who comes next while it holds the lock or waits for it. *)
LEMMA HandlerQueueView ==
  ASSUME ViewInv, MutexInv', FreshCopy', NEW p \in Proc, NEW m \in reqs,
         HandlerQueue(p, m)
  PROVE  ViewInv' /\ Stutters
<1>t. TypeOK
  BY Zenon DEF ViewInv, MutexInv
<1>m. m.id \in Locks
  BY <1>t, RequestFields, Zenon
<1>1. /\ held[p][m.id] /\ next' = [next EXCEPT ![p][m.id] = m.from]
      /\ UNCHANGED <<held, waiting, release_seqno, req_seqno, reps>>
      /\ UNCHANGED <<time, proc_vector_time_, dirty, released>>
  BY Zenon DEF HandlerQueue, Enqueue, memory
<1>2. \A x \in Proc, k \in Locks : (x = p /\ k = m.id) \/ next'[x][k] = next[x][k]
  <2>1. next \in [Proc -> [Locks -> Proc]]
    BY <1>t, Zenon DEF TypeOK
  <2>2. QED
    BY <1>1, <1>m, <2>1, EntryOnly, Zenon
<1>3. ASSUME NEW x \in Proc, NEW k \in Locks
      PROVE  (HasLock(x, k)' => HasLock(x, k)) /\ (Idle(x, k)' => Idle(x, k))
  <2>1. CASE x = p /\ k = m.id
    BY <1>1, <2>1, Zenon DEF HasLock, Idle
  <2>2. CASE next'[x][k] = next[x][k]
    BY <1>1, <2>2, Zenon DEF HasLock, Idle
  <2>3. QED
    BY <1>2, <2>1, <2>2, Zenon
<1>4. /\ \A g, r \in Proc, k \in Locks : Promised(g, r, k)' => Promised(g, r, k)
      /\ \A a \in reps' : a \in reps /\ (Awaited(a)' => Awaited(a))
  BY <1>1, Zenon DEF Promised, Awaited
<1>5. ViewInv'
  BY <1>1, <1>3, <1>4, QuietView, Zenon
<1>6. QED
  BY <1>1, <1>5, Zenon DEF Stutters, Seen, InCS

(* The other steps of the protocol: retransmission, forwarding, loss. *)
LEMMA NetworkView ==
  ASSUME ViewInv, MutexInv', FreshCopy',
         UNCHANGED <<held, next, waiting, release_seqno, req_seqno>>,
         UNCHANGED <<time, proc_vector_time_, dirty, released>>, reps' \subseteq reps
  PROVE  ViewInv' /\ Stutters
<1>1. ViewInv'
  BY DatagramView, Zenon
<1>2. QED
  BY <1>1, Zenon DEF Stutters, Seen, InCS

(* What a step is to the program. *)
Visible ==
  \/ Stutters
  \/ \E p \in Proc : Writes(p)
  \/ \E p \in Proc, l \in Locks : Takes(p, l) \/ Drops(p, l)

LEMMA ViewStep ==
  ASSUME OneLock, ViewInv, [Next]_vars
  PROVE  ViewInv' /\ Visible
<1>1. MutexInv' /\ FreshCopy'
  <2>1. MutexInv /\ CopyInv
    BY Zenon DEF ViewInv, MutexInv, CopyInv
  <2>2. MutexInv'
    BY <2>1, MutexStep, Zenon
  <2>3. CopyInv'
    BY <2>1, CopyStep, Zenon
  <2>4. QED
    BY <2>2, <2>3, Zenon DEF CopyInv
<1>2. ASSUME NEW p \in Proc, Program(p) PROVE ViewInv' /\ Visible
  <2>1. CASE Write(p)
    BY <1>1, <2>1, WriteView, Zenon DEF Visible
  <2>2. CASE \E l \in Locks : AcquireCached(p, l)
    BY <1>1, <2>2, AcquireCachedView, Zenon DEF Visible
  <2>3. CASE \E l \in Locks : AcquireRemote(p, l)
    BY <1>1, <2>3, AcquireRemoteView, Zenon DEF Visible
  <2>4. CASE \E l \in Locks : ReleaseCached(p, l)
    BY <1>1, <2>4, ReleaseCachedView, Zenon DEF Visible
  <2>5. CASE \E l \in Locks : ReleaseGrant(p, l)
    BY <1>1, <2>5, ReleaseGrantView, Zenon DEF Visible
  <2>6. QED
    BY <1>2, <2>1, <2>2, <2>3, <2>4, <2>5, Zenon DEF Program
<1>3. ASSUME NEW p \in Proc, Rexmit(p) PROVE ViewInv' /\ Visible
  <2>1. /\ UNCHANGED <<held, next, waiting, release_seqno, req_seqno>>
        /\ UNCHANGED <<time, proc_vector_time_, dirty, released>> /\ reps' \subseteq reps
    BY <1>3, Zenon DEF Rexmit, Snapshot, protocol
  <2>2. QED
    BY <1>1, <2>1, NetworkView, Zenon DEF Visible
<1>4. ASSUME NEW p \in Proc, NEW m \in reps, Acquired(p, m) PROVE ViewInv' /\ Visible
  <2>1. ViewInv' /\ Takes(p, waiting[p]) /\ waiting[p] \in Locks
    BY <1>1, <1>4, AcquiredView, Zenon
  <2>2. QED
    BY <2>1, Zenon DEF Visible
<1>5. ASSUME NEW p \in Proc, NEW m \in reqs, Handle(p, m) PROVE ViewInv' /\ Visible
  <2>1. CASE HandlerGrant(p, m)
    <3>1. /\ ViewInv' /\ UNCHANGED <<held, waiting, released>>
          /\ \A x, q \in Proc : Seen(x, q)' = Seen(x, q)
      BY <1>1, <2>1, HandlerGrantView, Zenon
    <3>2. QED
      BY <3>1, Zenon DEF Visible, Stutters, InCS
  <2>2. CASE HandlerQueue(p, m)
    BY <1>1, <2>2, HandlerQueueView, Zenon DEF Visible
  <2>3. CASE DuplicateGrant(p, m)
    <3>1. ViewInv'
      BY <1>1, <2>3, DuplicateGrantView, Zenon
    <3>2. UNCHANGED <<held, waiting, proc_vector_time_, dirty, released>>
      BY <2>3, Zenon DEF DuplicateGrant, protocol, memory
    <3>3. QED
      BY <3>1, <3>2, Zenon DEF Visible, Stutters, Seen, InCS
  <2>4. CASE HandlerForward(p, m) \/ HandlerError(p, m)
             \/ DuplicateForward(p, m) \/ DuplicateIgnore(p, m)
    <3>1. /\ UNCHANGED <<held, next, waiting, release_seqno, req_seqno>>
          /\ UNCHANGED <<time, proc_vector_time_, dirty, released>> /\ reps' \subseteq reps
      BY <2>4, Zenon DEF HandlerForward, HandlerError, DuplicateForward,
                         DuplicateIgnore, protocol, memory
    <3>2. QED
      BY <1>1, <3>1, NetworkView, Zenon DEF Visible
  <2>5. QED
    BY <1>5, <2>1, <2>2, <2>3, <2>4, Zenon DEF Handle
<1>6. ASSUME (\E m \in reqs : LoseRequest(m)) \/ (\E m \in reps : LoseReply(m))
             \/ UNCHANGED vars
      PROVE  ViewInv' /\ Visible
  <2>1. /\ UNCHANGED <<held, next, waiting, release_seqno, req_seqno>>
        /\ UNCHANGED <<time, proc_vector_time_, dirty, released>> /\ reps' \subseteq reps
    BY <1>6, Zenon DEF LoseRequest, LoseReply, vars, protocol, memory
  <2>2. QED
    BY <1>1, <2>1, NetworkView, Zenon DEF Visible
<1>7. QED
  BY <1>2, <1>3, <1>4, <1>5, <1>6, Zenon DEF Next, Step

LEMMA ViewInit == Init => ViewInv
<1> SUFFICES ASSUME Init PROVE ViewInv
  OBVIOUS
<1>1. MutexInv /\ FreshCopy
  BY MutexInit, CopyInit, Zenon DEF CopyInv
<1>2. /\ \A p, q \in Proc : proc_vector_time_[p][q] = 0
      /\ \A p \in Proc : waiting[p] = NoLock
      /\ \A p \in Proc, l \in Locks : time[p][l] = 0
      /\ \A l \in Locks, q \in Proc : released[l][q] = 0
      /\ \A p \in Proc : dirty[p] = FALSE
      /\ reps = {}
  BY Zenon DEF Init
<1>3. \A p, q \in Proc : Seen(p, q) = 0
  BY <1>2 DEF Seen
<1>4. 0 <= 0 /\ 0 <= 0 + 1
  OBVIOUS
<1>5. KnownClosed /\ OwnerSees /\ TimeTells /\ GrantShows
  BY <1>2, <1>3, <1>4, Zenon DEF KnownClosed, OwnerSees, TimeTells, GrantShows
<1>6. GranterShows
  BY <1>2, NoLockIsNoLock, Zenon DEF GranterShows, Promised
<1>7. QED
  BY <1>1, <1>5, <1>6, Zenon DEF ViewInv

-----------------------------------------------------------------------------
(* The refinement of AbstractLock. *)

(* The refinement mapping of Abstract. *)
View == [p \in Proc |-> Tmk_interval_create(p)]

Owners == [l \in Locks |-> {p \in Proc : InCS(p, l)}]

(* The mapped state is what Seen and InCS say. *)
Mapped ==
  /\ View \in [Proc -> [Proc -> Nat]]
  /\ \A p, q \in Proc : View[p][q] = Seen(p, q)

LEMMA MappedNow == TypeOK => Mapped
<1> SUFFICES ASSUME TypeOK PROVE Mapped
  OBVIOUS
<1>1. \A p \in Proc : /\ Tmk_interval_create(p) \in [Proc -> Nat]
                      /\ \A q \in Proc : Tmk_interval_create(p)[q] = Seen(p, q)
  BY CreateNumbers, Zenon DEF VectorTime
<1>2. QED
  BY <1>1, Zenon DEF Mapped, View

LEMMA MappedNext == TypeOK' => Mapped'
  BY MappedNow, PTL

(* Matrices with the same entries are equal. *)
LEMMA SameEntries ==
  ASSUME NEW v \in [Proc -> [Proc -> Nat]], NEW w \in [Proc -> [Proc -> Nat]],
         \A x, q \in Proc : v[x][q] = w[x][q]
  PROVE  v = w
<1>1. \A x \in Proc : v[x] = w[x]
  <2> SUFFICES ASSUME NEW x \in Proc PROVE v[x] = w[x]
    BY Zenon
  <2>1. v[x] \in [Proc -> Nat] /\ w[x] \in [Proc -> Nat]
    BY Zenon
  <2>2. QED
    BY <2>1
<1>2. QED
  BY <1>1

(* One entry is counted up. *)
LEMMA CountedEntry ==
  ASSUME NEW v \in [Proc -> [Proc -> Nat]], NEW w \in [Proc -> [Proc -> Nat]],
         NEW p \in Proc,
         \A x, q \in Proc : w[x][q] = IF x = p /\ q = p THEN v[x][q] + 1 ELSE v[x][q]
  PROVE  w = [v EXCEPT ![p][p] = @ + 1]
<1> DEFINE r == [v[p] EXCEPT ![p] = @ + 1]
           u == [v EXCEPT ![p] = r]
<1>1. /\ u \in [Proc -> [Proc -> Nat]]
      /\ \A x, q \in Proc : u[x][q] = IF x = p /\ q = p THEN v[x][q] + 1 ELSE v[x][q]
  <2>1. r \in [Proc -> Nat] /\ \A q \in Proc : r[q] = IF q = p THEN v[p][q] + 1 ELSE v[p][q]
    OBVIOUS
  <2> HIDE DEF r
  <2>2. /\ u \in [Proc -> [Proc -> Nat]] /\ u[p] = r
        /\ \A x \in Proc \ {p} : u[x] = v[x]
    BY <2>1, Zenon
  <2>3. QED
    BY <2>1, <2>2, Zenon
<1> HIDE DEF u
<1>2. ASSUME NEW x \in Proc, NEW q \in Proc PROVE w[x][q] = u[x][q]
  <2>1. /\ w[x][q] = IF x = p /\ q = p THEN v[x][q] + 1 ELSE v[x][q]
        /\ u[x][q] = IF x = p /\ q = p THEN v[x][q] + 1 ELSE v[x][q]
    BY <1>1, Zenon
  <2>2. QED
    BY <2>1, Zenon
<1>3. w = u
  BY <1>1, <1>2, SameEntries, Zenon
<1>4. u = [v EXCEPT ![p][p] = @ + 1]
  BY Zenon DEF u, r
<1>5. QED
  BY <1>3, <1>4, Zenon

(* The owners of l become S, those of the other locks stay. *)
LEMMA OwnersMove ==
  ASSUME NEW l \in Locks, NEW S \in SUBSET Proc,
         \A x \in Proc, k \in Locks : InCS(x, k)' <=> IF k = l THEN x \in S ELSE InCS(x, k)
  PROVE  Owners' = [Owners EXCEPT ![l] = S]
<1>1. \A k \in Locks : {x \in Proc : InCS(x, k)'} = IF k = l THEN S ELSE {x \in Proc : InCS(x, k)}
  <2> SUFFICES ASSUME NEW k \in Locks
               PROVE  {x \in Proc : InCS(x, k)'} = IF k = l THEN S ELSE {x \in Proc : InCS(x, k)}
    BY Zenon
  <2>1. CASE k = l
    <3>1. \A x \in Proc : InCS(x, k)' <=> x \in S
      BY <2>1, Zenon
    <3>2. {x \in Proc : InCS(x, k)'} = S
      BY <3>1, Zenon
    <3>3. QED
      BY <2>1, <3>2, Zenon
  <2>2. CASE k # l
    <3>1. \A x \in Proc : InCS(x, k)' <=> InCS(x, k)
      BY <2>2, Zenon
    <3>2. {x \in Proc : InCS(x, k)'} = {x \in Proc : InCS(x, k)}
      BY <3>1, Zenon
    <3>3. QED
      BY <2>2, <3>2, Zenon
  <2>3. QED
    BY <2>1, <2>2, Zenon
<1>2. Owners' = [k \in Locks |-> {x \in Proc : InCS(x, k)'}]
  BY Zenon DEF Owners
<1>3. [Owners EXCEPT ![l] = S] = [k \in Locks |-> IF k = l THEN S ELSE {x \in Proc : InCS(x, k)}]
  BY Zenon DEF Owners
<1>4. QED
  BY <1>1, <1>2, <1>3, Zenon

LEMMA OwnersStay ==
  ASSUME \A x \in Proc, k \in Locks : InCS(x, k)' <=> InCS(x, k)
  PROVE  Owners' = Owners
<1>1. \A k \in Locks : {x \in Proc : InCS(x, k)'} = {x \in Proc : InCS(x, k)}
  BY Zenon
<1>2. QED
  BY <1>1, Zenon DEF Owners

(* What the program sees of a step is a step of AbstractLock. *)
LEMMA VisibleStep ==
  ASSUME TypeOK, TypeOK', Visible
  PROVE  [Abstract!Next]_(Abstract!vars)
<1>1. Mapped /\ Mapped'
  BY MappedNow, MappedNext, Zenon
<1>2. /\ View \in [Proc -> [Proc -> Nat]] /\ View' \in [Proc -> [Proc -> Nat]]
      /\ \A p, q \in Proc : View[p][q] = Seen(p, q) /\ View'[p][q] = Seen(p, q)'
  BY <1>1, Zenon DEF Mapped
<1>e. ASSUME NEW x \in Proc, NEW q \in Proc, Seen(x, q)' = Seen(x, q)
      PROVE  View'[x][q] = View[x][q]
  <2>1. View[x][q] = Seen(x, q) /\ View'[x][q] = Seen(x, q)'
    BY <1>2, Zenon
  <2>2. QED
    BY <1>e, <2>1, Zenon
<1>3. CASE Stutters
  <2>1. \A x, q \in Proc : View'[x][q] = View[x][q]
    BY <1>3, <1>e, Zenon DEF Stutters
  <2>2. View' = View
    BY <1>2, <2>1, SameEntries, Zenon
  <2>3. Owners' = Owners /\ released' = released
    BY <1>3, OwnersStay, Zenon DEF Stutters
  <2>4. QED
    BY <2>2, <2>3, Zenon DEF Abstract!vars, View, Owners
<1>4. ASSUME NEW p \in Proc, Writes(p) PROVE Abstract!Next
  <2>1. \A x, q \in Proc : View'[x][q] = IF x = p /\ q = p THEN View[x][q] + 1 ELSE View[x][q]
    <3> SUFFICES ASSUME NEW x \in Proc, NEW q \in Proc
                 PROVE  View'[x][q] = IF x = p /\ q = p THEN View[x][q] + 1 ELSE View[x][q]
      BY Zenon
    <3>1. /\ Seen(x, q)' = IF x = p /\ q = p THEN Seen(x, q) + 1 ELSE Seen(x, q)
          /\ View'[x][q] = Seen(x, q)' /\ View[x][q] = Seen(x, q)
      BY <1>2, <1>4, Zenon DEF Writes
    <3>2. QED
      BY <3>1, Zenon
  <2>2. View' = [View EXCEPT ![p][p] = @ + 1]
    BY <1>2, <2>1, CountedEntry
  <2>3. Owners' = Owners /\ released' = released
    BY <1>4, OwnersStay, Zenon DEF Writes
  <2>4. Abstract!Write(p)
    BY <2>2, <2>3, Zenon DEF Abstract!Write, View, Owners
  <2>5. QED
    BY <2>4, Zenon DEF Abstract!Next
<1>5. ASSUME NEW p \in Proc, NEW l \in Locks, Takes(p, l) PROVE Abstract!Next
  <2>1. Owners[l] = {}
    BY <1>5, Zenon DEF Takes, Owners
  <2>2. Owners' = [Owners EXCEPT ![l] = {p}]
    <3>1. \A x \in Proc, k \in Locks :
            InCS(x, k)' <=> IF k = l THEN x \in {p} ELSE InCS(x, k)
      BY <1>5, Zenon DEF Takes
    <3>2. {p} \in SUBSET Proc
      BY Zenon
    <3>3. QED
      BY <3>1, <3>2, OwnersMove, Zenon
  <2>3. \A x \in Proc \ {p} : View'[x] = View[x]
    <3> SUFFICES ASSUME NEW x \in Proc, x # p PROVE View'[x] = View[x]
      BY Zenon
    <3>1. View'[x] \in [Proc -> Nat] /\ View[x] \in [Proc -> Nat]
      BY <1>2, Zenon
    <3>2. \A q \in Proc : View'[x][q] = View[x][q]
      BY <1>5, <1>e, Zenon DEF Takes
    <3>3. QED
      BY <3>1, <3>2
  <2>4. View'[p][p] = View[p][p]
    BY <1>5, <1>e, Zenon DEF Takes
  <2>5. \A q \in Proc : View'[p][q] >= View[p][q] /\ View'[p][q] >= released[l][q]
                        /\ View'[p][q] <= View[q][q]
    <3> SUFFICES ASSUME NEW q \in Proc
                 PROVE  View'[p][q] >= View[p][q] /\ View'[p][q] >= released[l][q]
                        /\ View'[p][q] <= View[q][q]
      BY Zenon
    <3>1. View[p][q] <= View'[p][q] /\ released[l][q] <= View'[p][q]
          /\ View'[p][q] <= View[q][q]
      BY <1>2, <1>5, Zenon DEF Takes
    <3>2. View[p][q] \in Nat /\ View'[p][q] \in Nat /\ released[l][q] \in Nat
      BY <1>2, ViewTypes, Zenon
    <3>3. QED
      BY <3>1, <3>2
  <2>6. Abstract!Take(p, l)
    BY <1>2, <1>5, <2>1, <2>2, <2>3, <2>4, <2>5, Zenon
       DEF Abstract!Take, Takes, View, Owners
  <2>7. QED
    BY <2>6, Zenon DEF Abstract!Next
<1>6. ASSUME NEW p \in Proc, NEW l \in Locks, Drops(p, l) PROVE Abstract!Next
  <2>1. Owners[l] = {p}
    <3>1. \A x \in Proc : InCS(x, l) <=> x = p
      BY <1>6, Zenon DEF Drops
    <3>2. QED
      BY <3>1, Zenon DEF Owners
  <2>2. Owners' = [Owners EXCEPT ![l] = {}]
    <3>1. \A x \in Proc, k \in Locks : InCS(x, k)' <=> IF k = l THEN x \in {} ELSE InCS(x, k)
      BY <1>6, Zenon DEF Drops
    <3>2. QED
      BY <3>1, OwnersMove, Zenon
  <2>3. View' = View
    <3>1. \A x, q \in Proc : View'[x][q] = View[x][q]
      BY <1>6, <1>e, Zenon DEF Drops
    <3>2. QED
      BY <1>2, <3>1, SameEntries, Zenon
  <2>4. released' = [released EXCEPT ![l] = View[p]]
    BY <1>6, Zenon DEF Drops, Recorded, View
  <2>5. Abstract!Drop(p, l)
    BY <2>1, <2>2, <2>3, <2>4, Zenon DEF Abstract!Drop, View, Owners
  <2>6. QED
    BY <2>5, Zenon DEF Abstract!Next
<1>7. QED
  BY <1>3, <1>4, <1>5, <1>6, Zenon DEF Visible

LEMMA AbstractInit == Init => Abstract!Init
<1> SUFFICES ASSUME Init PROVE Abstract!Init
  OBVIOUS
<1>1. \A p \in Proc, l \in Locks : ~ InCS(p, l)
  BY Zenon DEF Init, InCS
<1>2. Owners = [l \in Locks |-> {}]
  BY <1>1, Zenon DEF Owners
<1>3. View = [p \in Proc |-> [q \in Proc |-> 0]]
  BY Zenon DEF Init, View, Tmk_interval_create
<1>4. released = [l \in Locks |-> [q \in Proc |-> 0]]
  BY Zenon DEF Init
<1>5. QED
  BY <1>2, <1>3, <1>4, Zenon DEF Abstract!Init, View, Owners

(* With one lock the protocol of lock.c, with its caching, forwarding,      *)
(* retransmission, duplicate handler and lazily closed intervals, does what *)
(* AbstractLock says, whatever is lost, repeated or reordered: one owner at *)
(* a time, and an acquire sees all that the last release of the lock had    *)
(* seen and written, and nothing that was not written.                      *)
THEOREM LockRefines == OneLock => (Spec => ImplementsAbstractLock)
<1> SUFFICES ASSUME OneLock PROVE Spec => ImplementsAbstractLock
  OBVIOUS
<1>1. ViewInv /\ [Next]_vars => ViewInv' /\ [Abstract!Next]_(Abstract!vars)
  <2> SUFFICES ASSUME ViewInv, [Next]_vars
               PROVE  ViewInv' /\ [Abstract!Next]_(Abstract!vars)
    OBVIOUS
  <2>1. ViewInv' /\ Visible
    BY ViewStep, Zenon
  <2>2. TypeOK /\ TypeOK'
    BY <2>1, Zenon DEF ViewInv, MutexInv
  <2>3. [Abstract!Next]_(Abstract!vars)
    BY <2>1, <2>2, VisibleStep, Zenon
  <2>4. QED
    BY <2>1, <2>3, Zenon
<1>2. QED
  BY <1>1, ViewInit, AbstractInit, PTL DEF Spec, ImplementsAbstractLock, Abstract!Spec

=============================================================================
