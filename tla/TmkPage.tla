------------------------------ MODULE TmkPage ------------------------------
(***************************************************************************)
(* The shared memory of the TreadMarks runtime: the copies of one page at   *)
(* the processes, their twins and diffs (Tmk/src/page.c, segv.c, diff.c,    *)
(* interval.c), and what the collection of Tmk/src/repo.c does to them.     *)
(*                                                                          *)
(* The programs are free of data races: each word of the page has a lock,   *)
(* and a process touches a word only while it holds that lock.  Locks and   *)
(* barriers are those of TmkLock and TmkBarrier seen from above: one step   *)
(* hands a lock over together with the intervals the grant carries.  A      *)
(* critical section has one access; a longer one is a run of sections in    *)
(* which the lock stays cached.  All words lie in one page, so holders of   *)
(* different locks write the page at the same time.                         *)
(*                                                                          *)
(* The value of a word is the number of writes to it, modulo Values: with   *)
(* Values = 2 a second write restores the old contents, which a comparison  *)
(* with the twin cannot see.  Interval k of q is the pair <<q, k>>; since a  *)
(* process closes an interval only when the page is dirty, every interval   *)
(* has one write notice for the page.                                       *)
(*                                                                          *)
(* A page or diff request that is retransmitted is served again, by the     *)
(* same handler (Tmk/src/sigio.c:219, 225).  While the requester waits, a   *)
(* second answer for diffs equals the first, so it is left out; a second    *)
(* answer for a page may differ.  A copy of a request may also be handled   *)
(* after the wait is over: what it does to the receiver is modelled, and    *)
(* its answer is dropped for its sequence number.                           *)
(***************************************************************************)
EXTENDS Integers, Sequences, FiniteSetsExt

CONSTANTS
  NProcs,        \* Tmk_nprocs
  Words,         \* the words of the page; each is also the name of its lock
  Values,        \* the number of values of a word
  Ordered,       \* no datagram is overtaken by the later ones of a collection
  MaxLate,       \* bound: copies of requests on their way whose sender no longer waits
  MaxSyncs       \* bound: critical sections, barriers, which count twice, and such copies

ASSUME NProcsAssumption == NProcs \in Nat \ {0}
ASSUME ValuesAssumption == Values \in Nat \ {0, 1}
ASSUME BoundAssumption == MaxSyncs \in Nat /\ MaxLate \in Nat
ASSUME OrderedAssumption == Ordered \in BOOLEAN

Proc == 0 .. NProcs - 1

VARIABLES
  page,      \* page[p]: p's entry of page_array_, its intervals and vector time
  pc,        \* pc[p]: where p is, see PCs
  access,    \* access[p]: the access of p's critical section
  requests,  \* requests[p]: the diff requests of p that are not yet applied
  replies,   \* replies[p]: answers to p's page request
  late,      \* copies of requests that have been answered, still on their way
  lockAt,    \* lockAt[w]: the process that caches or holds lock w
  time,      \* time[w]: lock->time at lockAt[w]
  goal,      \* what the last barrier's replies carry: vector time, repo flag
  syncs,     \* how many critical sections and barriers there were
  last,      \* history: last[w], the number of writes to w
  seen       \* history: the writes each process, lock and barrier has seen

sync == <<lockAt, time, goal, syncs>>
vars == <<page, pc, access, requests, replies, late, sync, last, seen>>

(* "access": about to access a word, for the first time or again after      *)
(* segv_handler.  "page": waiting in Tmk_page_request.  "diff": waiting in  *)
(* Tmk_diff_request.  "arrived": waiting in Tmk_barrier.  "leaving": the    *)
(* reply of the barrier is under way.  "repodiff": waiting in the           *)
(* Tmk_diff_request of Tmk_repo.  "repo1", "repo2": waiting in its barriers. *)
PCs == {"run", "access", "page", "diff", "arrived", "leaving", "repodiff",
        "repo1", "repo2"}

Zero == [q \in Proc |-> 0]
None == [w \in {} |-> 0]
NoAccess == [write |-> FALSE, word |-> "none"]
NoneSeen == [w \in Words |-> 0]

(* Tmk_page_initialize; init_to_valid is the startup option                 *)
(* Tmk_page_init_to_valid.  stamps: the vector times of p's own intervals.  *)
(* diffs: the diffs p has, by write notice.                                 *)
Tmk_page_initialize(p, init_to_valid) ==
  [state   |-> IF init_to_valid THEN "valid" ELSE IF p = 0 THEN "private" ELSE "empty",
   prot    |-> IF init_to_valid THEN IF NProcs > 1 THEN "read" ELSE "write"
               ELSE IF p = 0 THEN "write" ELSE "none",
   manager |-> 0,
   mem     |-> [w \in Words |-> 0],
   twin    |-> None,
   dirty   |-> FALSE,
   vt      |-> Zero,
   stamps  |-> <<>>,
   diffs   |-> [n \in {} |-> None]]

Init ==
  /\ \E init_to_valid \in BOOLEAN :
       page = [p \in Proc |-> Tmk_page_initialize(p, init_to_valid)]
  /\ pc = [p \in Proc |-> "run"]
  /\ access = [p \in Proc |-> NoAccess]
  /\ requests = [p \in Proc |-> <<>>]
  /\ replies = [p \in Proc |-> {}]
  /\ late = {}
  /\ lockAt = [w \in Words |-> 0]
  /\ time = [w \in Words |-> 0]
  /\ goal = [vt |-> Zero, repo |-> FALSE, seen |-> NoneSeen]
  /\ syncs = 0
  /\ last = [w \in Words |-> 0]
  /\ seen = [proc |-> [p \in Proc |-> NoneSeen], lock |-> [w \in Words |-> NoneSeen]]

-----------------------------------------------------------------------------
(* Twins, diffs and intervals.  r is the page entry of p. *)

Tmk_diff_create(r) ==
  [w \in {v \in Words : r.mem[v] # r.twin[v]} |-> r.mem[w]]

(* diff_apply of the diffs ds, one after the other: the last one that has a *)
(* word decides.                                                            *)
diff_apply(mem, ds) ==
  [w \in Words |->
     LET having == {i \in DOMAIN ds : w \in DOMAIN ds[i]}
     IN  IF having = {} THEN mem[w] ELSE ds[Max(having)][w]]

Extend(f, g) == [n \in DOMAIN f \cup DOMAIN g |-> IF n \in DOMAIN g THEN g[n] ELSE f[n]]

HasTwin(r) == r.twin # None

(* The code at label twin of segv_handler: Tmk_twin_alloc_and_copy and      *)
(* Tmk_page_dirty_merge.                                                    *)
MakeTwin(r) == [r EXCEPT !.twin = r.mem, !.dirty = TRUE]

(* Tmk_interval_create(vector_time_), with vt for vector_time_. *)
Tmk_interval_create(r, p, vt) ==
  LET stamp == [vt EXCEPT ![p] = @ + 1]
  IN  IF r.dirty
      THEN [r EXCEPT !.dirty = FALSE, !.vt[p] = stamp[p], !.stamps = Append(@, stamp)]
      ELSE r

(* p's newest write notice has no diff. *)
Undiffed(r, p) == r.vt[p] > 0 /\ <<p, r.vt[p]>> \notin DOMAIN r.diffs

(* Tmk_diff_create for p's newest write notice, and Tmk_twin_free. *)
SaveDiff(r, p) ==
  [r EXCEPT !.diffs = Extend(@, [n \in {<<p, r.vt[p]>>} |-> Tmk_diff_create(r)]),
            !.twin = None]

(* Tmk_interval_incorporate when a notice meets a valid page: the twin is   *)
(* turned into the diff of p's newest interval, which is created first if   *)
(* the page is dirty; Tmk_page_inval_perform takes the page away.           *)
Invalidate(r, p, vt) ==
  LET closed  == IF Undiffed(r, p) THEN r ELSE Tmk_interval_create(r, p, vt)
      flushed == IF HasTwin(r) THEN SaveDiff(closed, p) ELSE r
  IN  [flushed EXCEPT !.state = "invalid", !.prot = "none"]

(* Tmk_interval_incorporate of all intervals up to vt. *)
Tmk_interval_incorporate(r, p, vt) ==
  LET new == {q \in Proc \ {p} : vt[q] > r.vt[q]}
      s   == IF new # {} /\ r.state = "valid" THEN Invalidate(r, p, r.vt) ELSE r
  IN  [s EXCEPT !.vt = [q \in Proc |-> IF q \in new THEN vt[q] ELSE s.vt[q]]]

-----------------------------------------------------------------------------
(* Tmk_diff_request: which diffs are missing, in which order they are       *)
(* applied, and which process is asked for which of them.                   *)

Stamp(n) == page[n[1]].stamps[n[2]]

Covers(m, n) == Stamp(m)[n[1]] >= Stamp(n)[n[1]]

(* The notices of q without a diff, newest first. *)
MissingFrom(r, q) ==
  LET ks == {k \in 1 .. r.vt[q] : \A j \in k .. r.vt[q] : <<q, j>> \notin DOMAIN r.diffs}
      from == r.vt[q] + 1
  IN  [i \in 1 .. Cardinality(ks) |-> <<q, from - i>>]

InsertLast(s, n) == [write_ |-> Append(s.write_, n), j |-> Len(s.write_) + 2]

(* write_[] gains n before the first entry from s.j on that n covers. *)
InsertNotice(s, n) ==
  LET later == {j \in s.j .. Len(s.write_) : Covers(n, s.write_[j])}
      j == Min(later \cup {Len(s.write_) + 1})
  IN  [write_ |-> SubSeq(s.write_, 1, j - 1) \o <<n>> \o SubSeq(s.write_, j, Len(s.write_)),
       j |-> j + 1]

(* op(... op(op(base, f(i)), f(j)) ..., f(k)) for S = {i, j, ..., k} in order. *)
InOrder(op(_, _), base, f(_), S) ==
  MapThenFoldSet(LAMBDA x, acc : op(acc, x), base, f, Max, S)

(* write_[], newest first. *)
SortedNotices(r) ==
  LET merge(write_, q) ==
        LET missing == MissingFrom(r, q)
        IN  InOrder(InsertNotice, [write_ |-> write_, j |-> 1],
                    LAMBDA i : missing[i], DOMAIN missing).write_
  IN  InOrder(merge, <<>>, LAMBDA q : q, Proc)

(* The requests, oldest diffs first.  A request grows while a later writer  *)
(* covers, and so has the diffs of, all notices since its last one; it goes *)
(* to its last writer.  got: the diffs, once they are sent.                 *)
DiffRequests(r) ==
  LET write_ == SortedNotices(r)
      old == [i \in DOMAIN write_ |-> write_[Len(write_) + 1 - i]]
      dominators(e) == {d \in e + 1 .. Len(old) : \A i \in e .. d - 1 : Covers(old[d], old[i])}
      end[e \in 1 .. Len(old)] ==
        IF dominators(e) = {} THEN e ELSE end[Min(dominators(e))]
      split[b \in 1 .. Len(old) + 1] ==
        IF b > Len(old) THEN <<>>
        ELSE <<[to |-> old[end[b]][1], notices |-> SubSeq(old, b, end[b]), got |-> <<>>]>>
             \o split[end[b] + 1]
  IN  split[1]

-----------------------------------------------------------------------------
(* The program's accesses and segv_handler. *)

Allowed(r, write) == r.prot = "write" \/ (r.prot = "read" /\ ~ write)

(* The end of segv_handler after the page is up to date. *)
FaultServed(r, write) == IF write THEN MakeTwin(r) ELSE [r EXCEPT !.prot = "read"]

ValidateNever(r) == r

(* page->state = valid, before Tmk_diff_request lets signals in again. *)
ValidateEarly(r) == [r EXCEPT !.state = "valid"]

(* Tmk_diff_request(page) in segv_handler. *)
RequestDiffs(p, r) ==
  LET reqs == DiffRequests(r)
  IN  /\ requests' = [requests EXCEPT ![p] = reqs]
      /\ page' = [page EXCEPT
           ![p] = IF reqs = <<>> THEN FaultServed(ValidateEarly(r), access[p].write)
                                 ELSE ValidateEarly(r)]
      /\ pc' = [pc EXCEPT ![p] = IF reqs = <<>> THEN "access" ELSE "diff"]

(* The access succeeds, and Tmk_lock_release ends the critical section.     *)
(* The grant to a waiting process is its Acquire.                           *)
Access(p) ==
  LET w == access[p].word
      n == IF access[p].write THEN last[w] + 1 ELSE last[w]
  IN  /\ pc[p] = "access"
      /\ Allowed(page[p], access[p].write)
      /\ page' = [page EXCEPT ![p].mem[w] = IF access[p].write THEN n % Values ELSE @]
      /\ last' = [last EXCEPT ![w] = n]
      /\ seen' = [seen EXCEPT !.proc[p][w] = n, !.lock[w] = [seen.proc[p] EXCEPT ![w] = n]]
      /\ time' = [time EXCEPT ![w] = page[p].vt[p]]
      /\ pc' = [pc EXCEPT ![p] = "run"]
      /\ access' = [access EXCEPT ![p] = NoAccess]
      /\ UNCHANGED <<requests, replies, late, lockAt, goal, syncs>>

(* The access faults.  The page is made writable for the handler. *)
segv_handler(p) ==
  LET r == [page[p] EXCEPT !.prot = "write"]
  IN  /\ pc[p] = "access"
      /\ ~ Allowed(page[p], access[p].write)
      /\ \/ /\ r.state = "valid"
            /\ page' = [page EXCEPT ![p] = MakeTwin(r)]
            /\ UNCHANGED <<pc, requests>>
         \/ /\ r.state = "empty"
            /\ page' = [page EXCEPT ![p] = r]
            /\ pc' = [pc EXCEPT ![p] = "page"]
            /\ UNCHANGED requests
         \/ /\ r.state \in {"invalid", "private"}
            /\ RequestDiffs(p, r)
      /\ UNCHANGED <<access, replies, late, sync, last, seen>>

(* What Tmk_page_sigio_handler sends: the twin if there is one. *)
SentPage(r) == IF HasTwin(r) THEN r.twin ELSE r.mem

(* The page entry afterwards: an invalid page is protected again, and a     *)
(* private page is private no longer.                                       *)
Shared(r) ==
  CASE r.state = "invalid" -> [r EXCEPT !.prot = "none"]
    [] r.state = "private" -> [r EXCEPT !.prot = "read", !.state = "valid"]
    [] OTHER -> r

(* A copy of a request to q may still be on its way when its answer is      *)
(* taken: the timer has fired in between.  A page request names no notice.  *)
MayLeave(q, notices) ==
  \E copies \in SUBSET {[to |-> q, notices |-> notices]} :
    /\ late' = late \cup copies
    /\ Cardinality(late') <= MaxLate /\ syncs + Cardinality(late') <= MaxSyncs

(* Tmk_page_sigio_handler at q, for p. *)
Tmk_page_sigio_handler(q, p) ==
  /\ pc[p] = "page" /\ page[p].manager = q
  /\ replies' = [replies EXCEPT ![p] = @ \cup {SentPage(page[q])}]
  /\ page' = [page EXCEPT ![q] = Shared(@)]
  /\ UNCHANGED <<pc, access, requests, late, sync, last, seen>>

(* The page arrives; segv_handler goes on to the diffs. *)
ReceivePage(p) ==
  /\ pc[p] = "page"
  /\ \E contents \in replies[p] : RequestDiffs(p, [page[p] EXCEPT !.mem = contents])
  /\ replies' = [replies EXCEPT ![p] = {}]
  /\ MayLeave(page[p].manager, <<>>)
  /\ UNCHANGED <<access, sync, last, seen>>

(* The diff that Tmk_diff_sigio_handler creates: the page is then          *)
(* write-protected and its twin freed.                                      *)
DiffOnDemand(r, q) == [SaveDiff(r, q) EXCEPT !.prot = "read"]

(* The page entry of q after the loop over the notices of a request. *)
Asked(r, q, ns) ==
  IF <<q, r.vt[q]>> \in Range(ns) /\ Undiffed(r, q) THEN DiffOnDemand(r, q) ELSE r

(* Tmk_diff_sigio_handler at q, for the i-th request of p. *)
Tmk_diff_sigio_handler(q, p, i) ==
  LET ns == requests[p][i].notices
      r  == Asked(page[q], q, ns)
  IN  /\ requests[p][i].to = q
      /\ requests[p][i].got = <<>>
      /\ page' = [page EXCEPT ![q] = r]
      /\ requests' = [requests EXCEPT ![p][i].got = [j \in DOMAIN ns |-> r.diffs[ns[j]]]]
      /\ UNCHANGED <<pc, access, replies, late, sync, last, seen>>

(* The same two handlers at q, for a copy m of a request whose sender no    *)
(* longer waits.                                                            *)
HandleLate(q, m) ==
  /\ m.to = q
  /\ page' = [page EXCEPT ![q] = IF m.notices = <<>> THEN Shared(@) ELSE Asked(@, q, m.notices)]
  /\ late' = late \ {m}
  /\ UNCHANGED <<pc, access, requests, replies, sync, last, seen>>

(* The diffs of a request are stored and applied, oldest first. *)
Applied(r, req) ==
  LET got == [n \in Range(req.notices) |->
                req.got[CHOOSE j \in DOMAIN req.notices : req.notices[j] = n]]
  IN  [r EXCEPT !.mem = diff_apply(@, req.got), !.diffs = Extend(@, got)]

(* Tmk_diff_request receives the replies in the order of the requests; the  *)
(* last one ends segv_handler or, in a collection, the work on the page.    *)
ReceiveDiffs(p) ==
  LET req  == Head(requests[p])
      r    == Applied(page[p], req)
      done == Tail(requests[p]) = <<>>
  IN  /\ pc[p] \in {"diff", "repodiff"}
      /\ req.got # <<>>
      /\ requests' = [requests EXCEPT ![p] = Tail(@)]
      /\ page' = [page EXCEPT
           ![p] = IF done THEN FaultServed(r, access[p].write) ELSE r]
      /\ pc' = [pc EXCEPT ![p] = CASE ~ done -> @
                                   [] done /\ pc[p] = "diff" -> "access"
                                   [] OTHER -> "repo1"]
      /\ MayLeave(req.to, req.notices)
      /\ UNCHANGED <<access, replies, sync, last, seen>>

-----------------------------------------------------------------------------
(* Locks and barriers, seen from above. *)

Later(s, t) == [w \in Words |-> IF s[w] > t[w] THEN s[w] ELSE t[w]]

(* Tmk_lock_acquire of the lock of w, which is free.  If it is cached at    *)
(* another process q, Tmk_lock_sigio_handler runs at q, whatever q waits    *)
(* for, and p incorporates the intervals that q sends.                      *)
Acquire(p, write, w) ==
  LET q == lockAt[w]
      granter == IF time[w] = page[q].vt[q]
                 THEN Tmk_interval_create(page[q], q, page[q].vt) ELSE page[q]
  IN  /\ pc[p] = "run"
      /\ access[q].word # w
      /\ syncs + Cardinality(late) < MaxSyncs
      /\ syncs' = syncs + 1
      /\ access' = [access EXCEPT ![p] = [write |-> write, word |-> w]]
      /\ pc' = [pc EXCEPT ![p] = "access"]
      /\ lockAt' = [lockAt EXCEPT ![w] = p]
      /\ page' = IF q = p THEN page
                 ELSE [page EXCEPT ![q] = granter,
                                   ![p] = Tmk_interval_incorporate(@, p, granter.vt)]
      /\ seen' = [seen EXCEPT !.proc[p] = Later(@, seen.lock[w])]
      /\ UNCHANGED <<requests, replies, late, time, goal, last>>

(* Tmk_barrier up to the wait.  The last arrival fixes the intervals that   *)
(* everybody is to know, and whether a heap asks for a collection.          *)
Arrive(p) ==
  LET r    == Tmk_interval_create(page[p], p, page[p].vt)
      last_one == \A q \in Proc \ {p} : pc[q] = "arrived"
  IN  /\ pc[p] = "run"
      /\ syncs + Cardinality(late) + 2 <= MaxSyncs
      /\ page' = [page EXCEPT ![p] = r]
      /\ IF last_one
         THEN /\ pc' = [q \in Proc |-> "leaving"]
              /\ \E repo \in BOOLEAN :
                   goal' = [vt |-> [q \in Proc |-> page'[q].vt[q]], repo |-> repo,
                            seen |-> [w \in Words |-> Max({seen.proc[q][w] : q \in Proc})]]
              /\ syncs' = syncs + 2
         ELSE /\ pc' = [pc EXCEPT ![p] = "arrived"]
              /\ UNCHANGED <<goal, syncs>>
      /\ UNCHANGED <<access, requests, replies, late, lockAt, time, last, seen>>

-----------------------------------------------------------------------------
(* Tmk_repo. *)

Writers(r) == {q \in Proc : r.vt[q] > 0}
Newest(r, q) == Stamp(<<q, r.vt[q]>>)

FirstWriter(r) == IF Writers(r) = {} THEN r ELSE [r EXCEPT !.manager = Min(Writers(r))]

PastLastWriter(r) ==
  IF Writers(r) = {} THEN r ELSE [r EXCEPT !.manager = Max(Writers(r)) + 1]

(* repo_update_manager: the writer of a newest interval that no later one   *)
(* in the order of the processes covers.                                    *)
repo_update_manager(r) ==
  LET choose(m, q) == IF \E k \in Proc : Newest(r, m)[k] > Newest(r, q)[k] THEN m ELSE q
      first == Min(Writers(r))
  IN  IF Writers(r) = {} THEN r
      ELSE [r EXCEPT !.manager = InOrder(choose, first, LAMBDA q : q, Writers(r) \ {first})]

(* p wrote the page and no other newest interval follows p's own. *)
Keeps(r, p) ==
  /\ r.vt[p] > 0
  /\ \A q \in Writers(r) \ {p} : Newest(r, q)[p] < Newest(r, p)[p]

(* The page loop of Tmk_repo, up to its diff request or first barrier. *)
RepoPage(r, p) ==
  CASE r.state = "valid" -> IF HasTwin(r) THEN [r EXCEPT !.twin = None, !.state = "private"] ELSE r
    [] r.state = "invalid" -> IF Keeps(r, p) THEN [r EXCEPT !.prot = "write", !.state = "valid"]
                              ELSE repo_update_manager([r EXCEPT !.state = "empty"])
    [] r.state = "empty" -> repo_update_manager(r)
    [] OTHER -> r

(* Tmk_barrier after the reply: the invalidations, and the start of the    *)
(* collection if the reply asks for one.                                    *)
Leave(p) ==
  LET r    == Tmk_interval_incorporate(page[p], p, goal.vt)
      reqs == IF goal.repo /\ r.state = "invalid" /\ Keeps(r, p) THEN DiffRequests(r) ELSE <<>>
  IN  /\ pc[p] = "leaving"
      /\ page' = [page EXCEPT ![p] = IF goal.repo THEN RepoPage(r, p) ELSE r]
      /\ requests' = [requests EXCEPT ![p] = reqs]
      /\ pc' = [pc EXCEPT ![p] = IF ~ goal.repo THEN "run" ELSE IF reqs = <<>> THEN "repo1" ELSE "repodiff"]
      /\ seen' = [seen EXCEPT !.proc[p] = Later(@, goal.seen)]
      /\ UNCHANGED <<access, replies, late, sync, last>>

(* The first repo_barrier, then the write notices, diffs and intervals go.  *)
(* Who has left the barrier has, if datagrams keep their order, handled all *)
(* that was sent to it before the others arrived at the barrier.            *)
RepoClear(p) ==
  /\ pc[p] = "repo1"
  /\ \A q \in Proc : pc[q] \notin {"leaving", "repodiff"}
  /\ Ordered => \A m \in late : m.to # p
  /\ page' = [page EXCEPT ![p].vt = Zero, ![p].stamps = <<>>, ![p].diffs = [n \in {} |-> None]]
  /\ pc' = [pc EXCEPT ![p] = "repo2"]
  /\ UNCHANGED <<access, requests, replies, late, sync, last, seen>>

PassSecondBarrier(p) == TRUE

(* The second repo_barrier opens when every process has cleared its state. *)
SecondBarrierOpen(p) == \A q \in Proc : pc[q] # "repo1"

RepoEnd(p) ==
  /\ pc[p] = "repo2"
  /\ SecondBarrierOpen(p)
  /\ pc' = [pc EXCEPT ![p] = "run"]
  /\ UNCHANGED <<page, access, requests, replies, late, sync, last, seen>>

-----------------------------------------------------------------------------
Next ==
  \/ \E p \in Proc, write \in BOOLEAN, w \in Words : Acquire(p, write, w)
  \/ \E p \in Proc : Access(p)
  \/ \E p \in Proc : segv_handler(p)
  \/ \E p \in Proc : ReceivePage(p)
  \/ \E p \in Proc : ReceiveDiffs(p)
  \/ \E p \in Proc : Arrive(p)
  \/ \E p \in Proc : Leave(p)
  \/ \E p \in Proc : RepoClear(p)
  \/ \E p \in Proc : RepoEnd(p)
  \/ \E q, p \in Proc : Tmk_page_sigio_handler(q, p)
  \/ \E q, p \in Proc : \E i \in DOMAIN requests[p] : Tmk_diff_sigio_handler(q, p, i)
  \/ \E q \in Proc : \E m \in late : HandleLate(q, m)

Spec == Init /\ [][Next]_vars

-----------------------------------------------------------------------------
(* Every variable stays within its type. *)
TypeOK ==
  /\ \A p \in Proc :
       /\ page[p].state \in {"private", "valid", "invalid", "empty"}
       /\ page[p].prot \in {"none", "read", "write"}
       /\ page[p].manager \in Proc
       /\ page[p].mem \in [Words -> 0 .. Values - 1]
       /\ page[p].twin \in {None} \cup [Words -> 0 .. Values - 1]
       /\ page[p].dirty \in BOOLEAN
       /\ page[p].vt \in [Proc -> Nat]
       /\ DOMAIN page[p].diffs \subseteq Proc \X Nat
  /\ pc \in [Proc -> PCs]
  /\ \A m \in late : m.to \in Proc
  /\ lockAt \in [Words -> Proc]
  /\ syncs \in 0 .. MaxSyncs
  /\ last \in [Words -> 0 .. MaxSyncs]

(* Release consistency of the memory itself: a process that may read a word *)
(* without a fault, and to which a chain of releases, acquires and barriers *)
(* leads from the last write of that word, finds the written value there.   *)
(* Twins, diffs made on demand, their order of application, page copies and *)
(* collections must together lose no write and revive no overwritten one.   *)
ReadsLatest ==
  \A p \in Proc, w \in Words :
    /\ pc[p] \in {"run", "access"}
    /\ page[p].prot # "none"
    /\ seen.proc[p][w] = last[w]
    => page[p].mem[w] = last[w] % Values

(* What Tmk_diff_sigio_handler relies on at q: it walks the list of notices *)
(* without a test for its end, sends the diffs of other writers without a   *)
(* test for them, and creates a missing diff of its own from the twin       *)
(* without a test for the twin.                                             *)
Servable(q, ns) ==
  \A j \in DOMAIN ns :
    /\ ns[j][2] <= page[q].vt[ns[j][1]]
    /\ \/ ns[j] \in DOMAIN page[q].diffs
       \/ ns[j] = <<q, page[q].vt[q]>> /\ HasTwin(page[q])

(* A diff request finds what it asks for, whether it is handled for the     *)
(* first time or is a late copy whose sender has gone on: the receiver is   *)
(* another process that knows every notice named, has the diffs of the      *)
(* other writers, and has a twin if its own newest notice is undiffed.  The *)
(* copy must not reach the receiver after a collection has taken the        *)
(* notices away; nothing in the code sees to that, it rests on Ordered.     *)
DiffServable ==
  /\ \A p \in Proc : \A i \in DOMAIN requests[p] :
       LET req == requests[p][i] IN
       req.got = <<>> => req.to # p /\ Servable(req.to, req.notices)
  /\ \A m \in late : Servable(m.to, m.notices)

(* An empty page names as its manager a process that has a copy, and keeps  *)
(* doing so when a collection discards copies and moves managers.           *)
ManagerHasCopy ==
  \A p \in Proc :
    page[p].state = "empty" /\ pc[p] \in {"run", "access", "page"}
      => page[page[p].manager].state # "empty"

(* Diffs are applied to a page that is mapped writable: a page request that *)
(* is served while segv_handler waits for diffs must not take the page      *)
(* away ("Validated page early to avoid race", page.c:65).                  *)
WritableWhileApplying ==
  \A p \in Proc : pc[p] \in {"page", "diff", "repodiff"} => page[p].prot = "write"
=============================================================================
