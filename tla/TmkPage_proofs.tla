--------------------------- MODULE TmkPage_proofs ---------------------------
(***************************************************************************)
(* A page is writable while segv_handler or a collection fetches it or its *)
(* diffs, and a write that no diff records yet still has its twin, for any *)
(* number of processes, words and values.                                  *)
(***************************************************************************)
EXTENDS TmkPage, TLAPS

Fields == {"state", "prot", "manager", "mem", "twin", "dirty", "vt", "stamps", "diffs"}

Fetching == {"page", "diff", "repodiff"}
InSection == {"access", "page", "diff"}

(* An entry of page_array_; a copy and a twin have all the words. *)
Entry(r) ==
  /\ DOMAIN r = Fields
  /\ r.dirty \in BOOLEAN
  /\ DOMAIN r.mem = Words
  /\ HasTwin(r) => DOMAIN r.twin = Words

(* What p wrote in an open interval, or in a closed one that has no diff    *)
(* yet, is in a valid and writable page with a twin; never both at once.    *)
Recorded(r, p) ==
  /\ r.dirty => ~ Undiffed(r, p)
  /\ r.dirty \/ Undiffed(r, p) => r.state = "valid" /\ r.prot = "write" /\ HasTwin(r)

(* Nothing is unrecorded in the page that p fetches, so that no request of  *)
(* another process makes p protect it; its state keeps the others off, too. *)
Fetched(r, p, c) ==
  c \in Fetching =>
    /\ r.prot = "write"
    /\ ~ r.dirty /\ ~ Undiffed(r, p)
    /\ r.state = IF c = "page" THEN "empty" ELSE "valid"

(* r is p's entry, c where p is, a its access and rs the answers to p. *)
ProcOK(r, p, c, a, rs) ==
  /\ Entry(r)
  /\ c # "repo1" => Recorded(r, p)
  /\ Fetched(r, p, c)
  /\ c \in {"arrived", "leaving", "repo1", "repo2"} => ~ r.dirty
  /\ c \in InSection => a.word \in Words
  /\ c \notin InSection => ~ a.write
  /\ \A contents \in rs : DOMAIN contents = Words

ProcInv(p) == ProcOK(page[p], p, pc[p], access[p], replies[p])

Typed ==
  /\ DOMAIN page = Proc /\ pc \in [Proc -> PCs]
  /\ DOMAIN access = Proc /\ DOMAIN replies = Proc

PageInv == Typed /\ \A p \in Proc : ProcInv(p)

-----------------------------------------------------------------------------
(* What the operations on an entry leave alone. *)
LEMMA TwinMade ==
  ASSUME NEW r, Entry(r), Words # {}
  PROVE  /\ Entry(MakeTwin(r)) /\ HasTwin(MakeTwin(r)) /\ MakeTwin(r).dirty
         /\ MakeTwin(r).state = r.state /\ MakeTwin(r).prot = r.prot
         /\ MakeTwin(r).vt = r.vt /\ MakeTwin(r).diffs = r.diffs
<1> DEFINE m == MakeTwin(r)
<1>1. /\ DOMAIN m = Fields /\ m.dirty /\ m.twin = r.mem /\ m.mem = r.mem
      /\ m.state = r.state /\ m.prot = r.prot /\ m.vt = r.vt /\ m.diffs = r.diffs
  BY DEF MakeTwin, Entry, Fields
<1>2. DOMAIN None = {}
  BY DEF None
<1>3. HasTwin(m)
  BY <1>1, <1>2, Zenon DEF Entry, HasTwin
<1> HIDE DEF m
<1>4. Entry(m)
  BY <1>1, Zenon DEF Entry
<1>5. QED
  BY <1>1, <1>3, <1>4, Zenon DEF m

LEMMA IntervalCreated ==
  ASSUME NEW r, Entry(r), NEW p, NEW vt
  PROVE  LET c == Tmk_interval_create(r, p, vt)
         IN  /\ Entry(c) /\ ~ c.dirty
             /\ c.state = r.state /\ c.prot = r.prot /\ c.twin = r.twin
             /\ c.diffs = r.diffs /\ (~ r.dirty => c = r)
<1> DEFINE c == Tmk_interval_create(r, p, vt)
           stamp == [vt EXCEPT ![p] = @ + 1]
           v == [r.vt EXCEPT ![p] = stamp[p]]
           ss == Append(r.stamps, stamp)
<1>1. CASE ~ r.dirty
  BY <1>1, Zenon DEF Tmk_interval_create
<1>2. CASE r.dirty
  <2>1. c = [r EXCEPT !.dirty = FALSE, !.vt = v, !.stamps = ss]
    BY <1>2 DEF Tmk_interval_create, Entry, Fields
  <2> HIDE DEF c, v, ss
  <2>2. /\ DOMAIN c = Fields /\ ~ c.dirty /\ c.dirty \in BOOLEAN
        /\ c.mem = r.mem /\ c.twin = r.twin
        /\ c.state = r.state /\ c.prot = r.prot /\ c.diffs = r.diffs
    BY <2>1 DEF Entry, Fields
  <2>3. Entry(c)
    BY <2>2, Zenon DEF Entry, HasTwin
  <2>4. QED
    BY <1>2, <2>2, <2>3, Zenon DEF c
<1>3. QED
  BY <1>1, <1>2, Zenon

LEMMA DiffSaved ==
  ASSUME NEW r, Entry(r), NEW p
  PROVE  LET s == SaveDiff(r, p)
         IN  /\ Entry(s) /\ ~ Undiffed(s, p)
             /\ s.state = r.state /\ s.prot = r.prot /\ s.dirty = r.dirty /\ s.vt = r.vt
<1> DEFINE s == SaveDiff(r, p)
           d == Tmk_diff_create(r)
           n == <<p, r.vt[p]>>
           e == Extend(r.diffs, [x \in {n} |-> d])
<1>1. s = [r EXCEPT !.diffs = e, !.twin = None]
  BY DEF SaveDiff, Entry, Fields
<1>2. n \in DOMAIN e
  BY Zenon DEF Extend
<1> HIDE DEF s, d, e
<1>3. /\ DOMAIN s = Fields /\ s.mem = r.mem /\ s.twin = None /\ s.dirty = r.dirty
      /\ s.state = r.state /\ s.prot = r.prot /\ s.vt = r.vt /\ s.diffs = e
  BY <1>1 DEF Entry, Fields
<1>4. Entry(s)
  BY <1>3, Zenon DEF Entry, HasTwin
<1>5. ~ Undiffed(s, p)
  BY <1>2, <1>3, Zenon DEF Undiffed
<1>6. QED
  BY <1>3, <1>4, <1>5, Zenon DEF s

(* Tmk_interval_incorporate leaves nothing unrecorded in a page it takes    *)
(* away, and no page unrecorded that it leaves.                             *)
LEMMA Invalidated ==
  ASSUME NEW r, Entry(r), NEW p, Recorded(r, p), NEW vt
  PROVE  LET i == Invalidate(r, p, vt)
         IN  /\ Entry(i) /\ ~ i.dirty /\ ~ Undiffed(i, p) /\ i.state = "invalid"
<1> DEFINE closed == IF Undiffed(r, p) THEN r ELSE Tmk_interval_create(r, p, vt)
           flushed == IF HasTwin(r) THEN SaveDiff(closed, p) ELSE r
           i == Invalidate(r, p, vt)
<1>1. Entry(closed) /\ ~ closed.dirty
  <2>1. CASE Undiffed(r, p)
    <3>1. closed = r
      BY <2>1, Zenon
    <3>2. ~ r.dirty
      BY <2>1 DEF Recorded, Entry
    <3>3. QED
      BY <3>1, <3>2, Zenon
  <2>2. CASE ~ Undiffed(r, p)
    <3> DEFINE c == Tmk_interval_create(r, p, vt)
    <3>1. Entry(c) /\ ~ c.dirty
      BY IntervalCreated
    <3>2. closed = c
      BY <2>2, Zenon
    <3> HIDE DEF c, closed
    <3>3. QED
      BY <3>1, <3>2, Zenon
  <2>3. QED
    BY <2>1, <2>2, Zenon
<1>2. Entry(flushed) /\ ~ flushed.dirty /\ ~ Undiffed(flushed, p)
  <2>1. CASE HasTwin(r)
    <3>1. flushed = SaveDiff(closed, p)
      BY <2>1, Zenon
    <3> HIDE DEF closed, flushed
    <3>2. Entry(flushed) /\ ~ Undiffed(flushed, p) /\ flushed.dirty = closed.dirty
      BY <1>1, <3>1, DiffSaved, Zenon
    <3>3. QED
      BY <1>1, <3>2, Zenon
  <2>2. CASE ~ HasTwin(r)
    <3>1. flushed = r
      BY <2>2, Zenon
    <3>2. ~ r.dirty /\ ~ Undiffed(r, p)
      BY <2>2 DEF Recorded, Entry
    <3>3. QED
      BY <3>1, <3>2, Zenon
  <2>3. QED
    BY <2>1, <2>2, Zenon
<1>3. i = [flushed EXCEPT !.state = "invalid", !.prot = "none"]
  BY Zenon DEF Invalidate
<1> HIDE DEF flushed, i
<1>4. /\ DOMAIN i = Fields /\ i.mem = flushed.mem /\ i.twin = flushed.twin /\ i.dirty = flushed.dirty
      /\ i.state = "invalid" /\ i.vt = flushed.vt /\ i.diffs = flushed.diffs
  BY <1>2, <1>3 DEF Entry, Fields
<1>5. QED
  BY <1>2, <1>4, Zenon DEF Entry, HasTwin, Undiffed, i

LEMMA Incorporated ==
  ASSUME NEW r, Entry(r), NEW p \in Proc, Recorded(r, p), NEW vt
  PROVE  LET i == Tmk_interval_incorporate(r, p, vt)
         IN  Entry(i) /\ Recorded(i, p) /\ (~ r.dirty => ~ i.dirty)
<1> DEFINE new == {q \in Proc \ {p} : vt[q] > r.vt[q]}
           s == IF new # {} /\ r.state = "valid" THEN Invalidate(r, p, r.vt) ELSE r
           v == [q \in Proc |-> IF q \in new THEN vt[q] ELSE s.vt[q]]
           i == Tmk_interval_incorporate(r, p, vt)
<1>1. i = [s EXCEPT !.vt = v]
  BY Zenon DEF Tmk_interval_incorporate
<1>2. v[p] = s.vt[p]
  BY Zenon
<1>3. Entry(s) /\ Recorded(s, p) /\ (~ r.dirty => ~ s.dirty)
  <2>1. CASE new # {} /\ r.state = "valid"
    <3>1. s = Invalidate(r, p, r.vt)
      BY <2>1, Zenon
    <3> HIDE DEF s
    <3>2. Entry(s) /\ ~ s.dirty /\ ~ Undiffed(s, p)
      BY <3>1, Invalidated, Zenon
    <3>3. QED
      BY <3>2 DEF Recorded
  <2>2. CASE ~ (new # {} /\ r.state = "valid")
    <3>1. s = r
      BY <2>2, Zenon
    <3>2. QED
      BY <3>1, Zenon
  <2>3. QED
    BY <2>1, <2>2, Zenon
<1> HIDE DEF s, v, i
<1>4. /\ DOMAIN i = Fields /\ i.mem = s.mem /\ i.twin = s.twin /\ i.dirty = s.dirty
      /\ i.state = s.state /\ i.prot = s.prot /\ i.vt = v /\ i.diffs = s.diffs
  BY <1>1, <1>3 DEF Entry, Fields
<1>5. Undiffed(i, p) <=> Undiffed(s, p)
  BY <1>2, <1>4, Zenon DEF Undiffed
<1>6. QED
  BY <1>3, <1>4, <1>5, Zenon DEF Entry, HasTwin, Recorded, i

(* The diffs that arrive change the words and the diffs p has, no more. *)
LEMMA DiffsApplied ==
  ASSUME NEW r, Entry(r), NEW p, NEW req
  PROVE  LET a == Applied(r, req)
         IN  /\ Entry(a) /\ a.state = r.state /\ a.prot = r.prot /\ a.dirty = r.dirty
             /\ a.twin = r.twin /\ (~ Undiffed(r, p) => ~ Undiffed(a, p))
<1> DEFINE got == [n \in Range(req.notices) |->
                     req.got[CHOOSE j \in DOMAIN req.notices : req.notices[j] = n]]
           mem == diff_apply(r.mem, req.got)
           diffs == Extend(r.diffs, got)
           a == Applied(r, req)
<1>1. a = [r EXCEPT !.mem = mem, !.diffs = diffs]
  BY DEF Applied, Entry, Fields
<1>2. DOMAIN mem = Words
  BY Zenon DEF diff_apply
<1>3. DOMAIN r.diffs \subseteq DOMAIN diffs
  <2> HIDE DEF got
  <2>1. QED
    BY Zenon DEF Extend
<1> HIDE DEF a, mem, diffs
<1>4. /\ DOMAIN a = Fields /\ a.mem = mem /\ a.twin = r.twin /\ a.dirty = r.dirty
      /\ a.state = r.state /\ a.prot = r.prot /\ a.vt = r.vt /\ a.diffs = diffs
  BY <1>1 DEF Entry, Fields
<1>5. Entry(a)
  BY <1>2, <1>4, Zenon DEF Entry, HasTwin
<1>6. ~ Undiffed(r, p) => ~ Undiffed(a, p)
  BY <1>3, <1>4, Zenon DEF Undiffed
<1>7. QED
  BY <1>4, <1>5, <1>6, Zenon DEF a

(* The end of segv_handler on an up-to-date page with nothing unrecorded.   *)
LEMMA Served ==
  ASSUME NEW r, Entry(r), NEW p, NEW write, Words # {},
         r.state = "valid", r.prot = "write", ~ r.dirty, ~ Undiffed(r, p)
  PROVE  LET f == FaultServed(r, write)
         IN  Entry(f) /\ Recorded(f, p) /\ (~ write => ~ f.dirty)
<1> DEFINE f == FaultServed(r, write)
<1>1. CASE write
  <2>1. f = MakeTwin(r)
    BY <1>1, Zenon DEF FaultServed
  <2> HIDE DEF f
  <2>2. /\ Entry(f) /\ HasTwin(f) /\ f.dirty /\ f.state = r.state
        /\ f.prot = r.prot /\ f.vt = r.vt /\ f.diffs = r.diffs
    BY <2>1, TwinMade, Zenon
  <2>3. ~ Undiffed(f, p)
    BY <2>2, Zenon DEF Undiffed
  <2>4. QED
    BY <1>1, <2>2, <2>3, Zenon DEF Recorded, f
<1>2. CASE ~ write
  <2>1. f = [r EXCEPT !.prot = "read"]
    BY <1>2, Zenon DEF FaultServed
  <2> HIDE DEF f
  <2>2. /\ DOMAIN f = Fields /\ f.mem = r.mem /\ f.twin = r.twin /\ f.dirty = r.dirty
        /\ f.vt = r.vt /\ f.diffs = r.diffs
    BY <2>1 DEF Entry, Fields
  <2>3. ~ Undiffed(f, p) /\ ~ f.dirty /\ Entry(f)
    BY <2>2, Zenon DEF Undiffed, Entry, HasTwin
  <2>4. QED
    BY <2>3, Zenon DEF Recorded, f
<1>3. QED
  BY <1>1, <1>2, Zenon

LEMMA Validated ==
  ASSUME NEW r, Entry(r), NEW p
  PROVE  LET v == ValidateEarly(r)
         IN  /\ Entry(v) /\ v.state = "valid" /\ v.prot = r.prot /\ v.dirty = r.dirty
             /\ Undiffed(v, p) <=> Undiffed(r, p)
<1> DEFINE v == ValidateEarly(r)
<1>1. /\ DOMAIN v = Fields /\ v.mem = r.mem /\ v.twin = r.twin /\ v.dirty = r.dirty
      /\ v.state = "valid" /\ v.prot = r.prot /\ v.vt = r.vt /\ v.diffs = r.diffs
  BY DEF ValidateEarly, Entry, Fields
<1> HIDE DEF v
<1>2. QED
  BY <1>1, Zenon DEF Entry, HasTwin, Undiffed, v

(* Serving others: a page with nothing unrecorded stays so, and a page that *)
(* is being fetched is not touched.                                         *)
LEMMA PageServed ==
  ASSUME NEW r, Entry(r), NEW p
  PROVE  LET s == Shared(r)
         IN  /\ Entry(s) /\ (Recorded(r, p) => Recorded(s, p)) /\ s.dirty = r.dirty
             /\ Undiffed(s, p) <=> Undiffed(r, p)
             /\ r.state \in {"valid", "empty"} => s = r
<1> DEFINE s == Shared(r)
<1>1. CASE r.state = "invalid"
  <2>1. s = [r EXCEPT !.prot = "none"]
    BY <1>1 DEF Shared
  <2> HIDE DEF s
  <2>2. /\ DOMAIN s = Fields /\ s.mem = r.mem /\ s.twin = r.twin /\ s.dirty = r.dirty
        /\ s.vt = r.vt /\ s.diffs = r.diffs
    BY <2>1 DEF Entry, Fields
  <2>3. Undiffed(s, p) <=> Undiffed(r, p)
    BY <2>2, Zenon DEF Undiffed
  <2>4. r.state # "valid" /\ r.state \notin {"valid", "empty"}
    BY <1>1
  <2>5. Recorded(r, p) => Recorded(s, p)
    BY <2>2, <2>3, <2>4, Zenon DEF Recorded
  <2>6. QED
    BY <2>2, <2>3, <2>4, <2>5, Zenon DEF Entry, HasTwin, s
<1>2. CASE r.state = "private"
  <2>1. s = [r EXCEPT !.prot = "read", !.state = "valid"]
    BY <1>2 DEF Shared
  <2> HIDE DEF s
  <2>2. /\ DOMAIN s = Fields /\ s.mem = r.mem /\ s.twin = r.twin /\ s.dirty = r.dirty
        /\ s.vt = r.vt /\ s.diffs = r.diffs
    BY <2>1 DEF Entry, Fields
  <2>3. Undiffed(s, p) <=> Undiffed(r, p)
    BY <2>2, Zenon DEF Undiffed
  <2>4. r.state # "valid" /\ r.state \notin {"valid", "empty"}
    BY <1>2
  <2>5. Recorded(r, p) => Recorded(s, p)
    BY <2>2, <2>3, <2>4, Zenon DEF Recorded
  <2>6. QED
    BY <2>2, <2>3, <2>4, <2>5, Zenon DEF Entry, HasTwin, s
<1>3. CASE r.state \notin {"invalid", "private"}
  <2>1. s = r
    BY <1>3 DEF Shared
  <2>2. QED
    BY <2>1, Zenon
<1>4. QED
  BY <1>1, <1>2, <1>3, Zenon

LEMMA DiffServed ==
  ASSUME NEW r, Entry(r), NEW p
  PROVE  LET d == DiffOnDemand(r, p)
         IN  Entry(d) /\ ~ Undiffed(d, p) /\ d.dirty = r.dirty
<1> DEFINE s == SaveDiff(r, p)
           d == DiffOnDemand(r, p)
<1>1. Entry(s) /\ ~ Undiffed(s, p) /\ s.dirty = r.dirty
  BY DiffSaved, Zenon
<1>2. d = [s EXCEPT !.prot = "read"]
  BY Zenon DEF DiffOnDemand
<1> HIDE DEF s, d
<1>3. /\ DOMAIN d = Fields /\ d.mem = s.mem /\ d.twin = s.twin /\ d.dirty = s.dirty
      /\ d.vt = s.vt /\ d.diffs = s.diffs
  BY <1>1, <1>2 DEF Entry, Fields
<1>4. QED
  BY <1>1, <1>3, Zenon DEF Entry, HasTwin, Undiffed, d

(* What holds of a process holds after it has served a request for the      *)
(* page; the page it is fetching is valid or empty.                         *)
LEMMA SharedOK ==
  ASSUME NEW r, NEW p, NEW c, NEW a, NEW rs, ProcOK(r, p, c, a, rs)
  PROVE  ProcOK(Shared(r), p, c, a, rs)
<1> DEFINE s == Shared(r)
<1>1. Entry(r)
  BY Zenon DEF ProcOK
<1>2. /\ Entry(s) /\ (Recorded(r, p) => Recorded(s, p)) /\ s.dirty = r.dirty
      /\ Undiffed(s, p) <=> Undiffed(r, p)
      /\ r.state \in {"valid", "empty"} => s = r
  BY <1>1, PageServed, Zenon
<1> HIDE DEF s
<1>3. c \in Fetching => r.state \in {"valid", "empty"}
  BY DEF ProcOK, Fetched
<1>4. Fetched(s, p, c)
  BY <1>2, <1>3, Zenon DEF ProcOK, Fetched
<1>5. ProcOK(s, p, c, a, rs)
  BY <1>2, <1>4, Zenon DEF ProcOK
<1>6. QED
  BY <1>5, Zenon DEF s

(* Nor does a request for diffs disturb it: a diff is made only of an       *)
(* unrecorded interval, so that the page is not one p is fetching.          *)
LEMMA AskedOK ==
  ASSUME NEW r, NEW p, NEW c, NEW a, NEW rs, NEW ns, ProcOK(r, p, c, a, rs)
  PROVE  ProcOK(Asked(r, p, ns), p, c, a, rs)
<1> DEFINE d == DiffOnDemand(r, p)
<1>1. Asked(r, p, ns) = r \/ (Undiffed(r, p) /\ Asked(r, p, ns) = d)
  BY Zenon DEF Asked
<1>2. Entry(r)
  BY Zenon DEF ProcOK
<1>3. Entry(d) /\ ~ Undiffed(d, p) /\ d.dirty = r.dirty
  BY <1>2, DiffServed, Zenon
<1> HIDE DEF d
<1>4. ASSUME Undiffed(r, p) PROVE ProcOK(d, p, c, a, rs)
  <2>1. c \notin Fetching
    BY <1>4, Zenon DEF ProcOK, Fetched
  <2>2. c # "repo1" => Recorded(d, p)
    BY <1>3, <1>4, Zenon DEF ProcOK, Recorded
  <2>3. QED
    BY <1>3, <2>1, <2>2, Zenon DEF ProcOK, Fetched
<1>5. QED
  BY <1>1, <1>4, Zenon

-----------------------------------------------------------------------------
(* A step that changes the state of p alone. *)
LEMMA OneProcess ==
  ASSUME PageInv, NEW p \in Proc, Typed', ProcInv(p)',
         \A q \in Proc : q # p => /\ page'[q] = page[q] /\ pc'[q] = pc[q]
                                  /\ access'[q] = access[q] /\ replies'[q] = replies[q]
  PROVE  PageInv'
<1>1. ASSUME NEW q \in Proc PROVE ProcInv(q)'
  <2>1. CASE q = p
    BY <2>1, Zenon
  <2>2. CASE q # p
    <3>1. ProcOK(page[q], q, pc[q], access[q], replies[q])
      BY Zenon DEF PageInv, ProcInv
    <3>2. ProcOK(page'[q], q, pc'[q], access'[q], replies'[q])
      BY <2>2, <3>1, Zenon
    <3>3. QED
      BY <3>2, Zenon DEF ProcInv
  <2>3. QED
    BY <2>1, <2>2, Zenon
<1>2. QED
  BY <1>1, Zenon DEF PageInv, Proc

(* What the invariant says of one process. *)
LEMMA ProcFacts ==
  ASSUME PageInv, NEW p \in Proc
  PROVE  /\ ProcOK(page[p], p, pc[p], access[p], replies[p]) /\ Entry(page[p])
         /\ pc[p] # "repo1" => Recorded(page[p], p)
         /\ pc[p] \in PCs
BY Zenon DEF PageInv, Typed, ProcInv, ProcOK

(* Tmk_diff_request from segv_handler, on a page with nothing unrecorded. *)
LEMMA DiffsRequested ==
  ASSUME PageInv, NEW p \in Proc, NEW r, Entry(r), NEW rs,
         pc[p] \in InSection, access[p].word \in Words, \A contents \in rs : DOMAIN contents = Words,
         r.prot = "write", ~ r.dirty, ~ Undiffed(r, p), RequestDiffs(p, r)
  PROVE  /\ DOMAIN page' = Proc /\ pc' \in [Proc -> PCs]
         /\ ProcOK(page'[p], p, pc'[p], access[p], rs)
         /\ \A q \in Proc : q # p => page'[q] = page[q] /\ pc'[q] = pc[q]
<1> DEFINE reqs == DiffRequests(r)
           v == ValidateEarly(r)
           f == FaultServed(v, access[p].write)
<1>1. /\ Entry(v) /\ v.state = "valid" /\ v.prot = "write" /\ ~ v.dirty /\ ~ Undiffed(v, p)
  BY Validated, Zenon
<1>2. DOMAIN page = Proc /\ pc \in [Proc -> PCs]
  BY Zenon DEF PageInv, Typed
<1>3. Words # {}
  OBVIOUS
<1> HIDE DEF v
<1>4. Entry(f) /\ Recorded(f, p)
  BY <1>1, <1>3, Served, Zenon
<1>5. /\ page' = [page EXCEPT ![p] = IF reqs = <<>> THEN f ELSE v]
      /\ pc' = [pc EXCEPT ![p] = IF reqs = <<>> THEN "access" ELSE "diff"]
  BY Zenon DEF RequestDiffs, v
<1> HIDE DEF f, reqs
<1>6. /\ DOMAIN page' = Proc /\ page'[p] = (IF reqs = <<>> THEN f ELSE v)
      /\ pc'[p] = (IF reqs = <<>> THEN "access" ELSE "diff")
      /\ \A q \in Proc : q # p => page'[q] = page[q] /\ pc'[q] = pc[q]
  BY <1>2, <1>5, Zenon
<1>7. pc' \in [Proc -> PCs]
  BY <1>2, <1>5 DEF PCs
<1>8. CASE reqs = <<>>
  <2>1. page'[p] = f /\ pc'[p] = "access"
    BY <1>6, <1>8, Zenon
  <2>2. ProcOK(f, p, "access", access[p], rs)
    BY <1>4 DEF ProcOK, Fetched, Fetching, InSection
  <2>3. QED
    BY <1>6, <1>7, <2>1, <2>2, Zenon
<1>9. CASE reqs # <<>>
  <2>1. page'[p] = v /\ pc'[p] = "diff"
    BY <1>6, <1>9, Zenon
  <2>2. Recorded(v, p)
    BY <1>1, Zenon DEF Recorded
  <2>3. ProcOK(v, p, "diff", access[p], rs)
    BY <1>1, <2>2 DEF ProcOK, Fetched, Fetching, InSection
  <2>4. QED
    BY <1>6, <1>7, <2>1, <2>3, Zenon
<1>10. QED
  BY <1>8, <1>9, Zenon

LEMMA AccessStep ==
  ASSUME PageInv, NEW p \in Proc, Access(p)
  PROVE  PageInv'
<1> DEFINE r == page[p]
           w == access[p].word
<1>1. /\ pc[p] = "access" /\ pc' = [pc EXCEPT ![p] = "run"]
      /\ access' = [access EXCEPT ![p] = NoAccess] /\ replies' = replies
  BY Zenon DEF Access
<1>2. \E n : page' = [page EXCEPT ![p] = [r EXCEPT !.mem = [r.mem EXCEPT ![w] = n]]]
  BY Zenon DEF Access
<1>3. PICK n : page' = [page EXCEPT ![p] = [r EXCEPT !.mem = [r.mem EXCEPT ![w] = n]]]
  BY <1>2, Zenon
<1>4. Typed
  BY Zenon DEF PageInv
<1>5. ProcOK(r, p, "access", access[p], replies[p]) /\ Entry(r) /\ Recorded(r, p)
  <2>1. pc[p] # "repo1"
    BY <1>1
  <2>2. QED
    BY <1>1, <2>1, ProcFacts, Zenon
<1> DEFINE s == [r EXCEPT !.mem = [r.mem EXCEPT ![w] = n]]
<1>6. /\ DOMAIN s = Fields /\ DOMAIN s.mem = Words /\ s.twin = r.twin /\ s.dirty = r.dirty
      /\ s.state = r.state /\ s.prot = r.prot /\ s.vt = r.vt /\ s.diffs = r.diffs
  BY <1>5 DEF Entry, Fields
<1> HIDE DEF s
<1>7. Entry(s) /\ Recorded(s, p)
  BY <1>5, <1>6, Zenon DEF Entry, Recorded, HasTwin, Undiffed
<1>8. /\ page'[p] = s /\ pc'[p] = "run" /\ access'[p] = NoAccess /\ replies'[p] = replies[p]
      /\ DOMAIN page' = Proc /\ DOMAIN access' = Proc
      /\ \A q \in Proc : q # p => page'[q] = page[q] /\ pc'[q] = pc[q] /\ access'[q] = access[q]
  BY <1>1, <1>3, <1>4, Zenon DEF Typed, s
<1>9. pc' \in [Proc -> PCs]
  BY <1>1, <1>4 DEF Typed, PCs
<1>10. ProcOK(s, p, "run", NoAccess, replies[p])
  BY <1>5, <1>7 DEF ProcOK, Fetched, Fetching, InSection, NoAccess
<1>11. ProcInv(p)'
  BY <1>8, <1>10, Zenon DEF ProcInv
<1>12. Typed'
  BY <1>1, <1>4, <1>8, <1>9, Zenon DEF Typed, Proc
<1>13. QED
  BY <1>1, <1>8, <1>11, <1>12, OneProcess, Zenon

LEMMA FaultStep ==
  ASSUME PageInv, NEW p \in Proc, segv_handler(p)
  PROVE  PageInv'
<1> DEFINE r == [page[p] EXCEPT !.prot = "write"]
<1>1. /\ pc[p] = "access" /\ ~ Allowed(page[p], access[p].write)
      /\ access' = access /\ replies' = replies
  BY Zenon DEF segv_handler
<1>2. Typed
  BY Zenon DEF PageInv
<1>3. ProcOK(page[p], p, "access", access[p], replies[p]) /\ Entry(page[p]) /\ Recorded(page[p], p)
  <2>1. pc[p] # "repo1"
    BY <1>1
  <2>2. QED
    BY <1>1, <2>1, ProcFacts, Zenon
<1>4. /\ DOMAIN r = Fields /\ r.mem = page[p].mem /\ r.twin = page[p].twin
      /\ r.dirty = page[p].dirty /\ r.state = page[p].state /\ r.prot = "write"
      /\ r.vt = page[p].vt /\ r.diffs = page[p].diffs
  BY <1>3 DEF Entry, Fields
<1>5. Entry(r)
  BY <1>3, <1>4, Zenon DEF Entry, HasTwin
<1>6. ~ r.dirty /\ ~ Undiffed(r, p)
  <2>1. page[p].prot # "write"
    BY <1>1, Zenon DEF Allowed
  <2>2. ~ page[p].dirty /\ ~ Undiffed(page[p], p)
    BY <1>3, <2>1, Zenon DEF Recorded
  <2>3. QED
    BY <1>4, <2>2, Zenon DEF Undiffed
<1>7. /\ access[p].word \in Words /\ Words # {} /\ pc[p] \in InSection
      /\ \A contents \in replies[p] : DOMAIN contents = Words
  BY <1>1, <1>3 DEF ProcOK, InSection
<1> HIDE DEF r
<1>8. CASE r.state = "valid" /\ page' = [page EXCEPT ![p] = MakeTwin(r)] /\ pc' = pc
  <2> DEFINE m == MakeTwin(r)
  <2>1. /\ Entry(m) /\ HasTwin(m) /\ m.dirty /\ m.state = r.state /\ m.prot = r.prot
        /\ m.vt = r.vt /\ m.diffs = r.diffs
    BY <1>5, <1>7, TwinMade, Zenon
  <2> HIDE DEF m
  <2>2. Recorded(m, p)
    BY <1>4, <1>6, <1>8, <2>1, Zenon DEF Recorded, Undiffed
  <2>3. page'[p] = m /\ DOMAIN page' = Proc /\ \A q \in Proc : q # p => page'[q] = page[q]
    BY <1>2, <1>8, Zenon DEF Typed, m
  <2>4. ProcOK(m, p, "access", access[p], replies[p])
    BY <1>7, <2>1, <2>2 DEF ProcOK, Fetched, Fetching, InSection
  <2>5. ProcInv(p)'
    BY <1>1, <1>8, <2>3, <2>4, Zenon DEF ProcInv
  <2>6. Typed'
    BY <1>1, <1>2, <1>8, <2>3, Zenon DEF Typed, Proc
  <2>7. QED
    BY <1>1, <1>8, <2>3, <2>5, <2>6, OneProcess, Zenon
<1>9. CASE /\ r.state = "empty" /\ page' = [page EXCEPT ![p] = r]
           /\ pc' = [pc EXCEPT ![p] = "page"]
  <2>1. /\ page'[p] = r /\ DOMAIN page' = Proc /\ pc'[p] = "page"
        /\ \A q \in Proc : q # p => page'[q] = page[q] /\ pc'[q] = pc[q]
    BY <1>2, <1>9, Zenon DEF Typed
  <2>2. Recorded(r, p)
    BY <1>6, Zenon DEF Recorded
  <2>3. ProcOK(r, p, "page", access[p], replies[p])
    BY <1>4, <1>5, <1>6, <1>7, <1>9, <2>2 DEF ProcOK, Fetched, Fetching, InSection
  <2>4. ProcInv(p)'
    BY <1>1, <2>1, <2>3, Zenon DEF ProcInv
  <2>5. pc' \in [Proc -> PCs]
    BY <1>2, <1>9 DEF Typed, PCs
  <2>6. Typed'
    BY <1>1, <1>2, <2>1, <2>5, Zenon DEF Typed, Proc
  <2>7. QED
    BY <1>1, <2>1, <2>4, <2>6, OneProcess, Zenon
<1>10. CASE RequestDiffs(p, r)
  <2>1. /\ DOMAIN page' = Proc /\ pc' \in [Proc -> PCs]
        /\ ProcOK(page'[p], p, pc'[p], access[p], replies[p])
        /\ \A q \in Proc : q # p => page'[q] = page[q] /\ pc'[q] = pc[q]
    BY <1>4, <1>5, <1>6, <1>7, <1>10, DiffsRequested, Zenon
  <2>2. Typed'
    BY <1>1, <1>2, <2>1, Zenon DEF Typed, Proc
  <2>3. ProcInv(p)'
    BY <1>1, <2>1, Zenon DEF ProcInv
  <2>4. QED
    BY <1>1, <2>1, <2>2, <2>3, OneProcess, Zenon
<1>11. QED
  BY <1>8, <1>9, <1>10, Zenon DEF segv_handler, r

(* Tmk_page_sigio_handler at q, for p: p gets one answer more. *)
LEMMA ServePageStep ==
  ASSUME PageInv, NEW q \in Proc, NEW p \in Proc, Tmk_page_sigio_handler(q, p)
  PROVE  PageInv'
<1> DEFINE r == page[q]
           s == Shared(r)
           sent == SentPage(r)
<1>1. /\ replies' = [replies EXCEPT ![p] = @ \cup {sent}]
      /\ page' = [page EXCEPT ![q] = s] /\ pc' = pc /\ access' = access
  BY Zenon DEF Tmk_page_sigio_handler
<1>2. Typed
  BY Zenon DEF PageInv
<1>3. Entry(r)
  BY ProcFacts, Zenon
<1>4. DOMAIN sent = Words
  BY <1>3, Zenon DEF SentPage, Entry
<1> HIDE DEF sent
<1>5. ASSUME NEW o \in Proc PROVE ProcOK(page[o], o, pc[o], access[o], replies'[o])
  <2>1. ProcOK(page[o], o, pc[o], access[o], replies[o])
    BY ProcFacts, Zenon
  <2>2. replies'[o] = replies[o] \/ replies'[o] = replies[o] \cup {sent}
    BY <1>1, <1>2, Zenon DEF Typed
  <2>3. \A contents \in replies'[o] : DOMAIN contents = Words
    BY <1>4, <2>1, <2>2, Zenon DEF ProcOK
  <2>4. QED
    BY <2>1, <2>3, Zenon DEF ProcOK
<1>6. ProcOK(s, q, pc[q], access[q], replies'[q])
  BY <1>5, SharedOK, Zenon
<1> HIDE DEF s
<1>7. /\ page'[q] = s /\ \A o \in Proc : o # q => page'[o] = page[o]
      /\ DOMAIN page' = Proc /\ DOMAIN replies' = Proc
  BY <1>1, <1>2, Zenon DEF Typed
<1>8. Typed'
  BY <1>1, <1>2, <1>7, Zenon DEF Typed, Proc
<1>9. ASSUME NEW o \in Proc PROVE ProcInv(o)'
  <2>1. ProcOK(page'[o], o, pc[o], access[o], replies'[o])
    BY <1>5, <1>6, <1>7, Zenon
  <2>2. QED
    BY <1>1, <2>1, Zenon DEF ProcInv
<1>10. QED
  BY <1>8, <1>9, Zenon DEF PageInv, Proc

LEMMA ReceivePageStep ==
  ASSUME PageInv, NEW p \in Proc, ReceivePage(p)
  PROVE  PageInv'
<1>1. pc[p] = "page" /\ replies' = [replies EXCEPT ![p] = {}] /\ access' = access
  BY Zenon DEF ReceivePage
<1>2. PICK contents \in replies[p] : RequestDiffs(p, [page[p] EXCEPT !.mem = contents])
  BY Zenon DEF ReceivePage
<1> DEFINE r == [page[p] EXCEPT !.mem = contents]
<1>3. Typed
  BY Zenon DEF PageInv
<1>4. ProcOK(page[p], p, "page", access[p], replies[p]) /\ Entry(page[p])
  BY <1>1, ProcFacts, Zenon
<1>5. /\ DOMAIN r = Fields /\ r.mem = contents /\ r.twin = page[p].twin
      /\ r.dirty = page[p].dirty /\ r.state = page[p].state /\ r.prot = page[p].prot
      /\ r.vt = page[p].vt /\ r.diffs = page[p].diffs
  BY <1>4 DEF Entry, Fields
<1>6. DOMAIN contents = Words
  BY <1>4, Zenon DEF ProcOK
<1>7. Entry(r)
  BY <1>4, <1>5, <1>6, Zenon DEF Entry, HasTwin
<1>8. "page" \in Fetching /\ "page" \in InSection /\ pc[p] \in InSection
  BY <1>1 DEF Fetching, InSection
<1>9. page[p].prot = "write" /\ ~ page[p].dirty /\ ~ Undiffed(page[p], p) /\ access[p].word \in Words
  BY <1>4, <1>8, Zenon DEF ProcOK, Fetched
<1> HIDE DEF r
<1>10. r.prot = "write" /\ ~ r.dirty /\ ~ Undiffed(r, p)
  BY <1>5, <1>9, Zenon DEF Undiffed
<1>11. RequestDiffs(p, r)
  BY <1>2, Zenon DEF r
<1>12. /\ DOMAIN page' = Proc /\ pc' \in [Proc -> PCs]
       /\ ProcOK(page'[p], p, pc'[p], access[p], {})
       /\ \A q \in Proc : q # p => page'[q] = page[q] /\ pc'[q] = pc[q]
  <2> DEFINE none == {}
  <2>1. \A c \in none : DOMAIN c = Words
    OBVIOUS
  <2> HIDE DEF none
  <2>2. /\ DOMAIN page' = Proc /\ pc' \in [Proc -> PCs]
        /\ ProcOK(page'[p], p, pc'[p], access[p], none)
        /\ \A q \in Proc : q # p => page'[q] = page[q] /\ pc'[q] = pc[q]
    BY <1>7, <1>8, <1>9, <1>10, <1>11, <2>1, DiffsRequested, Zenon
  <2>3. QED
    BY <2>2, Zenon DEF none
<1>13. /\ replies'[p] = {} /\ DOMAIN replies' = Proc
       /\ \A q \in Proc : q # p => replies'[q] = replies[q]
  BY <1>1, <1>3, Zenon DEF Typed
<1>14. Typed'
  BY <1>1, <1>3, <1>12, <1>13, Zenon DEF Typed, Proc
<1>15. ProcInv(p)'
  BY <1>1, <1>12, <1>13, Zenon DEF ProcInv
<1>16. QED
  BY <1>1, <1>12, <1>13, <1>14, <1>15, OneProcess, Zenon

(* A step that changes the entry of q alone, to one that is as good. *)
LEMMA EntryChanged ==
  ASSUME PageInv, NEW q \in Proc, NEW r, page' = [page EXCEPT ![q] = r],
         pc' = pc, access' = access, replies' = replies,
         ProcOK(r, q, pc[q], access[q], replies[q])
  PROVE  PageInv'
<1>1. Typed
  BY Zenon DEF PageInv
<1>2. DOMAIN page' = Proc /\ page'[q] = r /\ \A o \in Proc : o # q => page'[o] = page[o]
  BY <1>1, Zenon DEF Typed
<1>3. ProcInv(q)'
  BY <1>2, Zenon DEF ProcInv
<1>4. Typed'
  BY <1>1, <1>2, Zenon DEF Typed, Proc
<1>5. QED
  BY <1>2, <1>3, <1>4, OneProcess, Zenon

(* Tmk_diff_sigio_handler at q. *)
LEMMA ServeDiffStep ==
  ASSUME PageInv, NEW q \in Proc, NEW p, NEW i, Tmk_diff_sigio_handler(q, p, i)
  PROVE  PageInv'
<1> DEFINE r == Asked(page[q], q, requests[p][i].notices)
<1>1. page' = [page EXCEPT ![q] = r] /\ pc' = pc /\ access' = access /\ replies' = replies
  BY Zenon DEF Tmk_diff_sigio_handler
<1>2. ProcOK(page[q], q, pc[q], access[q], replies[q])
  BY ProcFacts, Zenon
<1>3. ProcOK(r, q, pc[q], access[q], replies[q])
  BY <1>2, AskedOK, Zenon
<1> HIDE DEF r
<1>4. QED
  BY <1>1, <1>3, EntryChanged, Zenon

(* Either handler at q, for a copy of a request that nobody waits for. *)
LEMMA LateStep ==
  ASSUME PageInv, NEW q \in Proc, NEW m, HandleLate(q, m)
  PROVE  PageInv'
<1> DEFINE r == IF m.notices = <<>> THEN Shared(page[q]) ELSE Asked(page[q], q, m.notices)
<1>1. page' = [page EXCEPT ![q] = r] /\ pc' = pc /\ access' = access /\ replies' = replies
  BY Zenon DEF HandleLate
<1>2. ProcOK(page[q], q, pc[q], access[q], replies[q])
  BY ProcFacts, Zenon
<1>3. ProcOK(r, q, pc[q], access[q], replies[q])
  <2>1. ProcOK(Shared(page[q]), q, pc[q], access[q], replies[q])
    BY <1>2, SharedOK, Zenon
  <2>2. ProcOK(Asked(page[q], q, m.notices), q, pc[q], access[q], replies[q])
    BY <1>2, AskedOK, Zenon
  <2>3. QED
    BY <2>1, <2>2, Zenon
<1> HIDE DEF r
<1>4. QED
  BY <1>1, <1>3, EntryChanged, Zenon

LEMMA ReceiveDiffsStep ==
  ASSUME PageInv, NEW p \in Proc, ReceiveDiffs(p)
  PROVE  PageInv'
<1> DEFINE req == Head(requests[p])
           r == Applied(page[p], req)
           done == Tail(requests[p]) = <<>>
           f == FaultServed(r, access[p].write)
<1>1. /\ pc[p] \in {"diff", "repodiff"} /\ access' = access /\ replies' = replies
      /\ page' = [page EXCEPT ![p] = IF done THEN f ELSE r]
      /\ pc' = [pc EXCEPT ![p] = CASE ~ done -> pc[p]
                                   [] done /\ pc[p] = "diff" -> "access"
                                   [] OTHER -> "repo1"]
  BY Zenon DEF ReceiveDiffs
<1>2. Typed
  BY Zenon DEF PageInv
<1>3. ProcOK(page[p], p, pc[p], access[p], replies[p]) /\ Entry(page[p])
  BY ProcFacts, Zenon
<1>4. pc[p] \in Fetching /\ pc[p] # "page" /\ pc[p] # "repo1"
  BY <1>1 DEF Fetching
<1>5. /\ page[p].state = "valid" /\ page[p].prot = "write" /\ ~ page[p].dirty
      /\ ~ Undiffed(page[p], p)
  BY <1>3, <1>4, Zenon DEF ProcOK, Fetched
<1>6. /\ Entry(r) /\ r.state = "valid" /\ r.prot = "write" /\ r.dirty = page[p].dirty
      /\ ~ Undiffed(r, p)
  BY <1>3, <1>5, DiffsApplied, Zenon
<1> HIDE DEF r, done
<1>7. ~ r.dirty
  BY <1>5, <1>6, Zenon
<1>8. CASE ~ done
  <2>1. /\ page'[p] = r /\ pc'[p] = pc[p] /\ DOMAIN page' = Proc /\ pc' \in [Proc -> PCs]
        /\ \A q \in Proc : q # p => page'[q] = page[q] /\ pc'[q] = pc[q]
    <3>1. page' = [page EXCEPT ![p] = r] /\ pc' = [pc EXCEPT ![p] = pc[p]]
      <4> HIDE DEF f
      <4>1. QED
        BY <1>1, <1>8, Zenon
    <3>2. pc' \in [Proc -> PCs]
      BY <1>2, <3>1 DEF Typed
    <3>3. QED
      BY <1>2, <3>1, <3>2, Zenon DEF Typed
  <2>2. Recorded(r, p)
    BY <1>6, <1>7, Zenon DEF Recorded
  <2>3. ProcOK(r, p, pc[p], access[p], replies[p])
    BY <1>3, <1>4, <1>6, <1>7, <2>2, Zenon DEF ProcOK, Fetched
  <2>4. ProcInv(p)'
    BY <1>1, <2>1, <2>3, Zenon DEF ProcInv
  <2>5. Typed'
    BY <1>1, <1>2, <2>1, Zenon DEF Typed, Proc
  <2>6. QED
    BY <1>1, <2>1, <2>4, <2>5, OneProcess, Zenon
<1>9. CASE done /\ pc[p] = "diff"
  <2>1. pc' = [pc EXCEPT ![p] = "access"] /\ page' = [page EXCEPT ![p] = f]
    BY <1>1, <1>9
  <2>2. access[p].word \in Words
    BY <1>3, <1>9 DEF ProcOK, InSection
  <2>3. Entry(f) /\ Recorded(f, p)
    BY <1>6, <1>7, <2>2, Served, Zenon
  <2> HIDE DEF f
  <2>4. /\ page'[p] = f /\ pc'[p] = "access" /\ DOMAIN page' = Proc
        /\ \A q \in Proc : q # p => page'[q] = page[q] /\ pc'[q] = pc[q]
    BY <1>2, <2>1, Zenon DEF Typed
  <2>5. pc' \in [Proc -> PCs]
    BY <1>2, <2>1 DEF Typed, PCs
  <2>6. ProcOK(f, p, "access", access[p], replies[p])
    BY <1>3, <2>2, <2>3 DEF ProcOK, Fetched, Fetching, InSection
  <2>7. ProcInv(p)'
    BY <1>1, <2>4, <2>6, Zenon DEF ProcInv
  <2>8. Typed'
    BY <1>1, <1>2, <2>4, <2>5, Zenon DEF Typed, Proc
  <2>9. QED
    BY <1>1, <2>4, <2>7, <2>8, OneProcess, Zenon
<1>10. CASE done /\ pc[p] = "repodiff"
  <2>1. pc' = [pc EXCEPT ![p] = "repo1"] /\ page' = [page EXCEPT ![p] = f]
    BY <1>1, <1>10
  <2>2. ~ access[p].write
    BY <1>3, <1>10 DEF ProcOK, InSection
  <2>3. f = [r EXCEPT !.prot = "read"]
    BY <2>2, Zenon DEF FaultServed
  <2> HIDE DEF f
  <2>4. /\ DOMAIN f = Fields /\ f.mem = r.mem /\ f.twin = r.twin /\ f.dirty = r.dirty
    BY <1>6, <2>3 DEF Entry, Fields
  <2>5. Entry(f) /\ ~ f.dirty
    BY <1>6, <1>7, <2>4, Zenon DEF Entry, HasTwin
  <2>6. /\ page'[p] = f /\ pc'[p] = "repo1" /\ DOMAIN page' = Proc
        /\ \A q \in Proc : q # p => page'[q] = page[q] /\ pc'[q] = pc[q]
    BY <1>2, <2>1, Zenon DEF Typed
  <2>7. pc' \in [Proc -> PCs]
    BY <1>2, <2>1 DEF Typed, PCs
  <2>8. ProcOK(f, p, "repo1", access[p], replies[p])
    BY <1>3, <2>2, <2>5 DEF ProcOK, Fetched, Fetching, InSection
  <2>9. ProcInv(p)'
    BY <1>1, <2>6, <2>8, Zenon DEF ProcInv
  <2>10. Typed'
    BY <1>1, <1>2, <2>6, <2>7, Zenon DEF Typed, Proc
  <2>11. QED
    BY <1>1, <2>6, <2>9, <2>10, OneProcess, Zenon
<1>11. QED
  BY <1>1, <1>8, <1>9, <1>10, Zenon

(* A grant: the interval of the granter is closed and the acquirer learns   *)
(* of it.  The granter may be anywhere, even fetching the page: then it has *)
(* no open interval.                                                        *)
LEMMA AcquireStep ==
  ASSUME PageInv, NEW p \in Proc, NEW write, NEW w \in Words, lockAt[w] \in Proc,
         Acquire(p, write, w)
  PROVE  PageInv'
<1> DEFINE q == lockAt[w]
           g == IF time[w] = page[q].vt[q]
                THEN Tmk_interval_create(page[q], q, page[q].vt) ELSE page[q]
           i == Tmk_interval_incorporate(page[p], p, g.vt)
           a == [write |-> write, word |-> w]
<1>1. /\ pc[p] = "run" /\ replies' = replies
      /\ access' = [access EXCEPT ![p] = a] /\ pc' = [pc EXCEPT ![p] = "access"]
  BY Zenon DEF Acquire
<1>2. \/ q = p /\ page' = page
      \/ q # p /\ page' = [page EXCEPT ![q] = g,
                                       ![p] = Tmk_interval_incorporate(@, p, g.vt)]
  BY Zenon DEF Acquire
<1>3. Typed
  BY Zenon DEF PageInv
<1>4. ProcOK(page[p], p, "run", access[p], replies[p]) /\ Entry(page[p]) /\ Recorded(page[p], p)
  <2>1. pc[p] # "repo1"
    BY <1>1
  <2>2. QED
    BY <1>1, <2>1, ProcFacts, Zenon
<1>5. ProcOK(page[q], q, pc[q], access[q], replies[q]) /\ Entry(page[q])
  BY ProcFacts, Zenon
<1>6. a.word \in Words
  OBVIOUS
<1>7. ProcOK(g, q, pc[q], access[q], replies[q])
  <2> DEFINE c == Tmk_interval_create(page[q], q, page[q].vt)
  <2>1. /\ Entry(c) /\ ~ c.dirty /\ c.state = page[q].state /\ c.prot = page[q].prot
        /\ c.twin = page[q].twin /\ c.diffs = page[q].diffs /\ (~ page[q].dirty => c = page[q])
    BY <1>5, IntervalCreated
  <2> HIDE DEF c
  <2>2. ASSUME page[q].dirty PROVE ProcOK(c, q, pc[q], access[q], replies[q])
    <3>1. pc[q] \notin Fetching /\ pc[q] \notin {"arrived", "leaving", "repo1", "repo2"}
      BY <1>5, <2>2, Zenon DEF ProcOK, Fetched
    <3>2. pc[q] # "repo1"
      BY <3>1
    <3>3. Recorded(c, q)
      BY <1>5, <2>1, <2>2, <3>2, Zenon DEF ProcOK, Recorded, HasTwin
    <3>4. QED
      BY <1>5, <2>1, <3>1, <3>3, Zenon DEF ProcOK, Fetched
  <2>3. ProcOK(c, q, pc[q], access[q], replies[q])
    BY <1>5, <2>1, <2>2, Zenon
  <2>4. g = c \/ g = page[q]
    BY Zenon DEF c
  <2> HIDE DEF g
  <2>5. QED
    BY <1>5, <2>3, <2>4, Zenon
<1>8. Entry(i) /\ Recorded(i, p)
  <2> HIDE DEF g
  <2>1. QED
    BY <1>4, Incorporated, Zenon
<1> HIDE DEF g, i, a
<1>9. /\ DOMAIN page' = Proc
      /\ \A o \in Proc : o # p => \/ page'[o] = page[o]
                                  \/ o = q /\ page'[o] = g
      /\ page'[p] = page[p] \/ page'[p] = i
  <2>1. CASE q = p /\ page' = page
    BY <1>3, <2>1, Zenon DEF Typed
  <2>2. CASE q # p /\ page' = [page EXCEPT ![q] = g, ![p] = Tmk_interval_incorporate(@, p, g.vt)]
    <3> DEFINE pg == [page EXCEPT ![q] = g]
    <3>1. page' = [pg EXCEPT ![p] = Tmk_interval_incorporate(pg[p], p, g.vt)]
      BY <2>2, Zenon
    <3>2. DOMAIN pg = Proc /\ pg[p] = page[p] /\ pg[q] = g
          /\ \A o \in Proc : o # q => pg[o] = page[o]
      BY <1>3, <2>2, Zenon DEF Typed
    <3> HIDE DEF pg
    <3>3. page' = [pg EXCEPT ![p] = i]
      BY <3>1, <3>2, Zenon DEF i
    <3>4. QED
      BY <2>2, <3>2, <3>3, Zenon
  <2>3. QED
    BY <1>2, <2>1, <2>2, Zenon
<1>10. /\ access'[p] = a /\ pc'[p] = "access" /\ DOMAIN access' = Proc
       /\ \A o \in Proc : o # p => access'[o] = access[o] /\ pc'[o] = pc[o]
  BY <1>1, <1>3, Zenon DEF Typed
<1>11. pc' \in [Proc -> PCs]
  BY <1>1, <1>3 DEF Typed, PCs
<1>12. Typed'
  BY <1>1, <1>3, <1>9, <1>10, <1>11, Zenon DEF Typed, Proc
<1>13. ProcInv(p)'
  <2>1. Entry(page'[p]) /\ Recorded(page'[p], p)
    BY <1>4, <1>8, <1>9, Zenon
  <2>2. ProcOK(page'[p], p, "access", a, replies[p])
    BY <1>4, <1>6, <2>1 DEF ProcOK, Fetched, Fetching, InSection
  <2>3. QED
    BY <1>1, <1>10, <2>2, Zenon DEF ProcInv
<1>14. ASSUME NEW o \in Proc, o # p PROVE ProcInv(o)'
  <2>1. ProcOK(page[o], o, pc[o], access[o], replies[o])
    BY ProcFacts, Zenon
  <2>2. ProcOK(page'[o], o, pc[o], access[o], replies[o])
    BY <1>7, <1>9, <1>14, <2>1, Zenon
  <2>3. QED
    BY <1>1, <1>10, <1>14, <2>2, Zenon DEF ProcInv
<1>15. \A o \in Proc : ProcInv(o)'
  BY <1>13, <1>14, Zenon
<1>16. QED
  BY <1>12, <1>15, Zenon DEF PageInv, Proc

LEMMA ArriveStep ==
  ASSUME PageInv, NEW p \in Proc, Arrive(p)
  PROVE  PageInv'
<1> DEFINE r == Tmk_interval_create(page[p], p, page[p].vt)
<1>1. pc[p] = "run" /\ page' = [page EXCEPT ![p] = r] /\ access' = access /\ replies' = replies
  BY Zenon DEF Arrive
<1>2. \/ (\A q \in Proc \ {p} : pc[q] = "arrived") /\ pc' = [q \in Proc |-> "leaving"]
      \/ pc' = [pc EXCEPT ![p] = "arrived"]
  BY Zenon DEF Arrive
<1>3. Typed
  BY Zenon DEF PageInv
<1>4. ProcOK(page[p], p, "run", access[p], replies[p]) /\ Entry(page[p]) /\ Recorded(page[p], p)
  <2>1. pc[p] # "repo1"
    BY <1>1
  <2>2. QED
    BY <1>1, <2>1, ProcFacts, Zenon
<1>5. /\ Entry(r) /\ ~ r.dirty /\ r.state = page[p].state /\ r.prot = page[p].prot
      /\ r.twin = page[p].twin /\ r.diffs = page[p].diffs /\ (~ page[p].dirty => r = page[p])
  BY <1>4, IntervalCreated
<1> HIDE DEF r
<1>6. Recorded(r, p)
  BY <1>4, <1>5, Zenon DEF Recorded, HasTwin
<1>7. page'[p] = r /\ DOMAIN page' = Proc /\ \A q \in Proc : q # p => page'[q] = page[q]
  BY <1>1, <1>3, Zenon DEF Typed
<1>8. ~ access[p].write /\ \A contents \in replies[p] : DOMAIN contents = Words
  BY <1>4 DEF ProcOK, InSection
<1>9. ProcOK(r, p, "arrived", access[p], replies[p]) /\ ProcOK(r, p, "leaving", access[p], replies[p])
  BY <1>5, <1>6, <1>8 DEF ProcOK, Fetched, Fetching, InSection
<1>10. CASE pc' = [pc EXCEPT ![p] = "arrived"]
  <2>1. pc'[p] = "arrived" /\ \A q \in Proc : q # p => pc'[q] = pc[q]
    BY <1>3, <1>10, Zenon DEF Typed
  <2>2. pc' \in [Proc -> PCs]
    BY <1>3, <1>10 DEF Typed, PCs
  <2>3. Typed'
    BY <1>1, <1>3, <1>7, <2>2, Zenon DEF Typed, Proc
  <2>4. ProcInv(p)'
    BY <1>1, <1>7, <1>9, <2>1, Zenon DEF ProcInv
  <2>5. QED
    BY <1>1, <1>7, <2>1, <2>3, <2>4, OneProcess, Zenon
<1>11. CASE (\A q \in Proc \ {p} : pc[q] = "arrived") /\ pc' = [q \in Proc |-> "leaving"]
  <2>1. \A q \in Proc : pc'[q] = "leaving"
    BY <1>11, Zenon
  <2>2. pc' \in [Proc -> PCs]
    BY <1>11 DEF PCs
  <2>3. Typed'
    BY <1>1, <1>3, <1>7, <2>2, Zenon DEF Typed, Proc
  <2>4. ASSUME NEW q \in Proc PROVE ProcInv(q)'
    <3>1. CASE q = p
      BY <1>1, <1>7, <1>9, <2>1, <3>1, Zenon DEF ProcInv
    <3>2. CASE q # p
      <4>1. ProcOK(page[q], q, "arrived", access[q], replies[q])
        BY <1>11, <3>2, ProcFacts, Zenon
      <4>2. ProcOK(page[q], q, "leaving", access[q], replies[q])
        BY <4>1 DEF ProcOK, Fetched, Fetching, InSection
      <4>3. QED
        BY <1>1, <1>7, <2>1, <3>2, <4>2, Zenon DEF ProcInv
    <3>3. QED
      BY <3>1, <3>2, Zenon
  <2>5. QED
    BY <2>3, <2>4, Zenon DEF PageInv, Proc
<1>12. QED
  BY <1>2, <1>10, <1>11, Zenon

(* The entry after Tmk_repo's work on it.  The twin goes without a diff:    *)
(* from here to the first repo_barrier a write may have neither.            *)
LEMMA Collected ==
  ASSUME NEW r, NEW p, Entry(r), ~ r.dirty
  PROVE  LET e == RepoPage(r, p)
         IN  /\ Entry(e) /\ ~ e.dirty /\ e.vt = r.vt /\ e.diffs = r.diffs
             /\ r.state = "invalid" /\ Keeps(r, p) => e.state = "valid" /\ e.prot = "write"
<1> DEFINE e == RepoPage(r, p)
<1>1. ASSUME NEW s, Entry(s), ~ s.dirty
      PROVE  LET m == repo_update_manager(s)
             IN  Entry(m) /\ ~ m.dirty /\ m.vt = s.vt /\ m.diffs = s.diffs
  <2> DEFINE m == repo_update_manager(s)
  <2>1. PICK x : m = s \/ m = [s EXCEPT !.manager = x]
    BY Zenon DEF repo_update_manager
  <2> HIDE DEF m
  <2>2. ASSUME m = [s EXCEPT !.manager = x]
        PROVE  /\ DOMAIN m = Fields /\ ~ m.dirty /\ m.dirty \in BOOLEAN /\ m.mem = s.mem
               /\ m.twin = s.twin /\ m.vt = s.vt /\ m.diffs = s.diffs
    BY <1>1, <2>2 DEF Entry, Fields
  <2>3. Entry(m) /\ ~ m.dirty /\ m.vt = s.vt /\ m.diffs = s.diffs
    BY <1>1, <2>1, <2>2, Zenon DEF Entry, HasTwin
  <2>4. QED
    BY <2>3, Zenon DEF m
<1>2. CASE r.state = "valid"
  <2> DEFINE n == [r EXCEPT !.twin = None, !.state = "private"]
  <2>1. e = n \/ e = r
    BY <1>2 DEF RepoPage
  <2>2. /\ DOMAIN n = Fields /\ ~ n.dirty /\ n.dirty \in BOOLEAN /\ n.mem = r.mem
        /\ n.twin = None /\ n.vt = r.vt /\ n.diffs = r.diffs
    BY DEF Entry, Fields
  <2> HIDE DEF n, e
  <2>3. Entry(n)
    BY <2>2, Zenon DEF Entry, HasTwin
  <2>4. r.state # "invalid"
    BY <1>2
  <2>5. QED
    BY <2>1, <2>2, <2>3, <2>4, Zenon DEF e
<1>3. CASE r.state = "invalid"
  <2>1. CASE Keeps(r, p)
    <3>1. e = [r EXCEPT !.prot = "write", !.state = "valid"]
      BY <1>3, <2>1 DEF RepoPage
    <3> HIDE DEF e
    <3>2. /\ DOMAIN e = Fields /\ ~ e.dirty /\ e.dirty \in BOOLEAN /\ e.mem = r.mem
          /\ e.twin = r.twin /\ e.vt = r.vt /\ e.diffs = r.diffs
          /\ e.state = "valid" /\ e.prot = "write"
      BY <3>1 DEF Entry, Fields
    <3>3. Entry(e)
      BY <3>2, Zenon DEF Entry, HasTwin
    <3>4. QED
      BY <3>2, <3>3, Zenon DEF e
  <2>2. CASE ~ Keeps(r, p)
    <3> DEFINE n == [r EXCEPT !.state = "empty"]
    <3>1. e = repo_update_manager(n)
      BY <1>3, <2>2 DEF RepoPage
    <3>2. /\ DOMAIN n = Fields /\ ~ n.dirty /\ n.dirty \in BOOLEAN /\ n.mem = r.mem
          /\ n.twin = r.twin /\ n.vt = r.vt /\ n.diffs = r.diffs
      BY DEF Entry, Fields
    <3> HIDE DEF n, e
    <3>3. Entry(n)
      BY <3>2, Zenon DEF Entry, HasTwin
    <3>4. Entry(e) /\ ~ e.dirty /\ e.vt = n.vt /\ e.diffs = n.diffs
      BY <1>1, <3>1, <3>2, <3>3, Zenon
    <3>5. QED
      BY <2>2, <3>2, <3>4, Zenon DEF e
  <2>3. QED
    BY <2>1, <2>2, Zenon
<1>4. CASE r.state = "empty"
  <2>1. e = repo_update_manager(r) /\ r.state # "invalid"
    BY <1>4 DEF RepoPage
  <2> HIDE DEF e
  <2>2. QED
    BY <1>1, <2>1, Zenon DEF e
<1>5. CASE r.state \notin {"valid", "invalid", "empty"}
  <2>1. e = r /\ r.state # "invalid"
    BY <1>5 DEF RepoPage
  <2> HIDE DEF e
  <2>2. QED
    BY <2>1, Zenon DEF e
<1>6. QED
  BY <1>2, <1>3, <1>4, <1>5

LEMMA LeaveStep ==
  ASSUME PageInv, NEW p \in Proc, Leave(p)
  PROVE  PageInv'
<1> DEFINE r == Tmk_interval_incorporate(page[p], p, goal.vt)
           reqs == IF goal.repo /\ r.state = "invalid" /\ Keeps(r, p)
                   THEN DiffRequests(r) ELSE <<>>
           e == IF goal.repo THEN RepoPage(r, p) ELSE r
           c == IF ~ goal.repo THEN "run" ELSE IF reqs = <<>> THEN "repo1" ELSE "repodiff"
<1>1. /\ pc[p] = "leaving" /\ access' = access /\ replies' = replies
      /\ page' = [page EXCEPT ![p] = e] /\ pc' = [pc EXCEPT ![p] = c]
  BY Zenon DEF Leave
<1>2. Typed
  BY Zenon DEF PageInv
<1>3. /\ ProcOK(page[p], p, "leaving", access[p], replies[p])
      /\ Entry(page[p]) /\ Recorded(page[p], p)
  <2>1. pc[p] # "repo1"
    BY <1>1
  <2>2. QED
    BY <1>1, <2>1, ProcFacts, Zenon
<1>4. ~ page[p].dirty
  BY <1>3 DEF ProcOK
<1>5. Entry(r) /\ Recorded(r, p) /\ ~ r.dirty
  BY <1>3, <1>4, Incorporated, Zenon
<1>6. ~ access[p].write /\ \A contents \in replies[p] : DOMAIN contents = Words
  BY <1>3 DEF ProcOK, InSection
<1>7. /\ ~ goal.repo => e = r /\ c = "run"
      /\ goal.repo => e = RepoPage(r, p) /\ c \in {"repo1", "repodiff"}
      /\ c = "repodiff" => goal.repo /\ r.state = "invalid" /\ Keeps(r, p)
  <2> HIDE DEF r
  <2>1. QED
    OBVIOUS
<1> HIDE DEF r, reqs, e, c
<1>8. ProcOK(e, p, c, access[p], replies[p])
  <2>1. CASE ~ goal.repo
    <3>1. e = r /\ c = "run"
      BY <1>7, <2>1, Zenon
    <3>2. QED
      BY <1>5, <1>6, <3>1 DEF ProcOK, Fetched, Fetching, InSection
  <2>2. CASE goal.repo
    <3>1. Entry(e) /\ ~ e.dirty /\ e.vt = r.vt /\ e.diffs = r.diffs
      <4>1. e = RepoPage(r, p)
        BY <1>7, <2>2, Zenon
      <4>2. QED
        BY <1>5, <4>1, Collected, Zenon
    <3>2. CASE c = "repo1"
      BY <1>6, <3>1, <3>2 DEF ProcOK, Fetched, Fetching, InSection
    <3>3. CASE c = "repodiff"
      <4>1. e.state = "valid" /\ e.prot = "write" /\ r.state = "invalid"
        BY <1>5, <1>7, <3>3, Collected, Zenon
      <4>2. ~ Undiffed(r, p)
        BY <1>5, <4>1 DEF Recorded
      <4>3. ~ Undiffed(e, p)
        BY <3>1, <4>2, Zenon DEF Undiffed
      <4>4. QED
        BY <1>6, <3>1, <3>3, <4>1, <4>3 DEF ProcOK, Fetched, Fetching, InSection, Recorded
    <3>4. QED
      BY <1>7, <2>2, <3>2, <3>3
  <2>3. QED
    BY <2>1, <2>2, Zenon
<1>9. c \in PCs
  BY <1>7 DEF PCs
<1>10. /\ page'[p] = e /\ pc'[p] = c /\ DOMAIN page' = Proc
       /\ \A q \in Proc : q # p => page'[q] = page[q] /\ pc'[q] = pc[q]
  BY <1>1, <1>2, Zenon DEF Typed
<1>11. pc' \in [Proc -> PCs]
  BY <1>1, <1>2, <1>9 DEF Typed
<1>12. Typed'
  BY <1>1, <1>2, <1>10, <1>11, Zenon DEF Typed, Proc
<1>13. ProcInv(p)'
  BY <1>1, <1>8, <1>10, Zenon DEF ProcInv
<1>14. QED
  BY <1>1, <1>10, <1>12, <1>13, OneProcess, Zenon

LEMMA RepoClearStep ==
  ASSUME PageInv, NEW p \in Proc, RepoClear(p)
  PROVE  PageInv'
<1> DEFINE old == page[p]
           none == [n \in {} |-> None]
           e == [old EXCEPT !.vt = Zero, !.stamps = <<>>, !.diffs = none]
<1>1. pc[p] = "repo1" /\ access' = access /\ replies' = replies /\ pc' = [pc EXCEPT ![p] = "repo2"]
  BY Zenon DEF RepoClear
<1>2. Typed
  BY Zenon DEF PageInv
<1>3. ProcOK(old, p, "repo1", access[p], replies[p]) /\ Entry(old)
  BY <1>1, ProcFacts, Zenon
<1>4. page' = [page EXCEPT ![p] = e]
  <2> HIDE DEF none
  <2>1. page' = [page EXCEPT ![p].vt = Zero, ![p].stamps = <<>>, ![p].diffs = none]
    BY Zenon DEF RepoClear, none
  <2>2. QED
    BY <1>2, <1>3, <2>1, Zenon DEF Typed, Entry, Fields
<1> HIDE DEF none
<1>5. /\ DOMAIN e = Fields /\ ~ e.dirty /\ e.dirty \in BOOLEAN /\ e.mem = old.mem
      /\ e.twin = old.twin /\ e.vt = Zero
  <2>1. ~ old.dirty
    BY <1>3 DEF ProcOK
  <2>2. QED
    BY <1>3, <2>1 DEF Entry, Fields
<1> HIDE DEF e, old
<1>6. Entry(e)
  BY <1>3, <1>5, Zenon DEF Entry, HasTwin
<1>7. ~ Undiffed(e, p)
  BY <1>5 DEF Undiffed, Zero
<1>8. ~ access[p].write /\ \A contents \in replies[p] : DOMAIN contents = Words
  BY <1>3 DEF ProcOK, InSection
<1>9. ProcOK(e, p, "repo2", access[p], replies[p])
  BY <1>5, <1>6, <1>7, <1>8 DEF ProcOK, Fetched, Fetching, InSection, Recorded
<1>10. /\ page'[p] = e /\ pc'[p] = "repo2" /\ DOMAIN page' = Proc
       /\ \A q \in Proc : q # p => page'[q] = page[q] /\ pc'[q] = pc[q]
  BY <1>1, <1>2, <1>4, Zenon DEF Typed
<1>11. pc' \in [Proc -> PCs]
  BY <1>1, <1>2 DEF Typed, PCs
<1>12. Typed'
  BY <1>1, <1>2, <1>10, <1>11, Zenon DEF Typed, Proc
<1>13. ProcInv(p)'
  BY <1>1, <1>9, <1>10, Zenon DEF ProcInv
<1>14. QED
  BY <1>1, <1>10, <1>12, <1>13, OneProcess, Zenon

LEMMA RepoEndStep ==
  ASSUME PageInv, NEW p \in Proc, RepoEnd(p)
  PROVE  PageInv'
<1>1. /\ pc[p] = "repo2" /\ access' = access /\ replies' = replies /\ page' = page
      /\ pc' = [pc EXCEPT ![p] = "run"]
  BY Zenon DEF RepoEnd
<1>2. Typed
  BY Zenon DEF PageInv
<1>3. ProcOK(page[p], p, "repo2", access[p], replies[p])
  BY <1>1, ProcFacts, Zenon
<1>4. ProcOK(page[p], p, "run", access[p], replies[p])
  BY <1>3 DEF ProcOK, Fetched, Fetching, InSection
<1>5. pc'[p] = "run" /\ \A q \in Proc : q # p => pc'[q] = pc[q]
  BY <1>1, <1>2, Zenon DEF Typed
<1>6. pc' \in [Proc -> PCs]
  BY <1>1, <1>2 DEF Typed, PCs
<1>7. Typed'
  BY <1>1, <1>2, <1>6, Zenon DEF Typed, Proc
<1>8. ProcInv(p)'
  BY <1>1, <1>4, <1>5, Zenon DEF ProcInv
<1>9. QED
  BY <1>1, <1>5, <1>7, <1>8, OneProcess, Zenon

-----------------------------------------------------------------------------
(* A lock is always cached by some process. *)
Locked == lockAt \in [Words -> Proc]

LEMMA LockedKept ==
  ASSUME Locked, [Next]_vars
  PROVE  Locked'
<1>1. ASSUME NEW p \in Proc, NEW write \in BOOLEAN, NEW w \in Words, Acquire(p, write, w)
      PROVE  Locked'
  <2>1. lockAt' = [lockAt EXCEPT ![w] = p]
    BY <1>1, Zenon DEF Acquire
  <2>2. QED
    BY <2>1 DEF Locked
<1>2. ASSUME lockAt' = lockAt PROVE Locked'
  BY <1>2, Zenon DEF Locked, Proc
<1>3. ASSUME UNCHANGED sync PROVE lockAt' = lockAt
  BY <1>3, Zenon DEF sync
<1>4. CASE UNCHANGED vars
  BY <1>2, <1>3, <1>4, Zenon DEF vars
<1>5. ASSUME NEW p \in Proc,
             \/ Access(p) \/ segv_handler(p) \/ ReceivePage(p) \/ ReceiveDiffs(p)
             \/ Arrive(p) \/ Leave(p) \/ RepoClear(p) \/ RepoEnd(p)
      PROVE  lockAt' = lockAt
  BY <1>3, <1>5, Zenon
     DEF Access, segv_handler, ReceivePage, ReceiveDiffs, Arrive, Leave, RepoClear, RepoEnd
<1>6. ASSUME NEW q \in Proc, NEW p \in Proc, Tmk_page_sigio_handler(q, p)
      PROVE  lockAt' = lockAt
  BY <1>3, <1>6, Zenon DEF Tmk_page_sigio_handler
<1>7. ASSUME NEW q \in Proc, NEW p \in Proc, NEW i \in DOMAIN requests[p],
             Tmk_diff_sigio_handler(q, p, i)
      PROVE  lockAt' = lockAt
  BY <1>3, <1>7, Zenon DEF Tmk_diff_sigio_handler
<1>8. ASSUME NEW q \in Proc, NEW m \in late, HandleLate(q, m) PROVE lockAt' = lockAt
  BY <1>3, <1>8, Zenon DEF HandleLate
<1>9. QED
  BY <1>1, <1>2, <1>4, <1>5, <1>6, <1>7, <1>8, Zenon DEF Next

LEMMA InitStep ==
  ASSUME Init
  PROVE  PageInv /\ Locked
<1>1. PICK init_to_valid \in BOOLEAN :
        page = [p \in Proc |-> Tmk_page_initialize(p, init_to_valid)]
  BY Zenon DEF Init
<1>2. /\ pc = [p \in Proc |-> "run"] /\ access = [p \in Proc |-> NoAccess]
      /\ replies = [p \in Proc |-> {}] /\ lockAt = [w \in Words |-> 0]
  BY Zenon DEF Init
<1>3. Locked
  BY <1>2, NProcsAssumption DEF Locked, Proc
<1>4. Typed
  BY <1>1, <1>2 DEF Typed, PCs
<1>5. ASSUME NEW p \in Proc PROVE ProcInv(p)
  <2> DEFINE r == Tmk_page_initialize(p, init_to_valid)
  <2>1. page[p] = r /\ pc[p] = "run" /\ access[p] = NoAccess /\ replies[p] = {}
    BY <1>1, <1>2, Zenon
  <2>2. /\ DOMAIN r = Fields /\ ~ r.dirty /\ r.dirty \in BOOLEAN
        /\ r.mem = [w \in Words |-> 0] /\ r.twin = None /\ r.vt = Zero
    BY DEF Tmk_page_initialize, Fields
  <2> HIDE DEF r
  <2>3. ~ Undiffed(r, p)
    BY <2>2 DEF Undiffed, Zero
  <2>4. Entry(r)
    BY <2>2, Zenon DEF Entry, HasTwin
  <2>5. ~ NoAccess.write
    BY DEF NoAccess
  <2>6. ProcOK(r, p, "run", NoAccess, {})
    BY <2>2, <2>3, <2>4, <2>5 DEF ProcOK, Fetched, Fetching, InSection, Recorded
  <2>7. QED
    BY <2>1, <2>6, Zenon DEF ProcInv
<1>6. QED
  BY <1>3, <1>4, <1>5, Zenon DEF PageInv

LEMMA PageStep ==
  ASSUME PageInv, Locked, [Next]_vars
  PROVE  PageInv'
<1>1. ASSUME NEW p \in Proc, NEW write \in BOOLEAN, NEW w \in Words, Acquire(p, write, w)
      PROVE  PageInv'
  <2>1. lockAt[w] \in Proc
    BY DEF Locked
  <2>2. QED
    BY <1>1, <2>1, AcquireStep, Zenon
<1>2. CASE UNCHANGED vars
  <2>1. page' = page /\ pc' = pc /\ access' = access /\ replies' = replies
    BY <1>2, Zenon DEF vars
  <2>2. QED
    BY <2>1, Zenon DEF PageInv, Typed, ProcInv, Proc
<1>3. ASSUME NEW p \in Proc,
             \/ Access(p) \/ segv_handler(p) \/ ReceivePage(p) \/ ReceiveDiffs(p)
             \/ Arrive(p) \/ Leave(p) \/ RepoClear(p) \/ RepoEnd(p)
      PROVE  PageInv'
  BY <1>3, AccessStep, FaultStep, ReceivePageStep, ReceiveDiffsStep, ArriveStep, LeaveStep,
     RepoClearStep, RepoEndStep, Zenon
<1>4. ASSUME NEW q \in Proc, NEW p \in Proc, Tmk_page_sigio_handler(q, p)
      PROVE  PageInv'
  BY <1>4, ServePageStep, Zenon
<1>5. ASSUME NEW q \in Proc, NEW p \in Proc, NEW i \in DOMAIN requests[p],
             Tmk_diff_sigio_handler(q, p, i)
      PROVE  PageInv'
  BY <1>5, ServeDiffStep, Zenon
<1>6. ASSUME NEW q \in Proc, NEW m \in late, HandleLate(q, m) PROVE PageInv'
  BY <1>6, LateStep, Zenon
<1>7. QED
  BY <1>1, <1>2, <1>3, <1>4, <1>5, <1>6, Zenon DEF Next

LEMMA Invariance == Spec => [](PageInv /\ Locked)
<1>1. Init => PageInv /\ Locked
  BY InitStep, Zenon
<1>2. PageInv /\ Locked /\ [Next]_vars => (PageInv /\ Locked)'
  BY PageStep, LockedKept, Zenon
<1>3. QED
  BY <1>1, <1>2, PTL DEF Spec

(* The page is mapped writable for as long as segv_handler waits for the    *)
(* page or its diffs and Tmk_repo for diffs, whatever requests the process  *)
(* serves meanwhile: page.c sets the state to valid early, so that          *)
(* Tmk_page_sigio_handler does not take an invalid page away, and there is  *)
(* no diff left for Tmk_diff_sigio_handler to create, after which it would  *)
(* protect the page.                                                        *)
THEOREM Writable == Spec => []WritableWhileApplying
<1>1. PageInv => WritableWhileApplying
  <2>1. SUFFICES ASSUME PageInv, NEW p \in Proc, pc[p] \in Fetching
                 PROVE  page[p].prot = "write"
    BY DEF WritableWhileApplying, Fetching
  <2>2. ProcOK(page[p], p, pc[p], access[p], replies[p])
    BY <2>1, ProcFacts, Zenon
  <2>3. QED
    BY <2>1, <2>2, Zenon DEF ProcOK, Fetched
<1>2. QED
  BY <1>1, Invariance, PTL

(* Except between Tmk_repo's work on the page and the first repo_barrier,   *)
(* a process that wrote the page since its last diff has a twin: the        *)
(* handler of a diff request (Tmk_diff_sigio_handler) compares with the     *)
(* twin without a test for it.                                              *)
TwinKept ==
  \A p \in Proc :
    /\ pc[p] # "repo1"
    /\ page[p].dirty \/ Undiffed(page[p], p)
    => HasTwin(page[p])

(* No write is without the twin that Tmk_diff_sigio_handler makes its diff   *)
(* from, the first phase of a collection excepted.                          *)
THEOREM WritesHaveTwins == Spec => []TwinKept
<1>1. PageInv => TwinKept
  <2>1. SUFFICES ASSUME PageInv, NEW p \in Proc, pc[p] # "repo1",
                        page[p].dirty \/ Undiffed(page[p], p)
                 PROVE  HasTwin(page[p])
    BY Zenon DEF TwinKept
  <2>2. Recorded(page[p], p)
    BY <2>1, ProcFacts, Zenon
  <2>3. QED
    BY <2>1, <2>2, Zenon DEF Recorded
<1>2. QED
  BY <1>1, Invariance, PTL

=============================================================================
