-------------------------- MODULE TmkSched_proofs --------------------------
(***************************************************************************)
(* Fork and join in TmkSched: every slave runs the master's functions, once *)
(* each and in order; a forked slave knows what the master knew; and the    *)
(* handler never runs out of request buffers.  Any number of processes and  *)
(* forks, any memory pressure, datagrams lost, repeated and reordered.      *)
(***************************************************************************)
EXTENDS TmkSched, FiniteSetTheorems, TLAPS

Vector == [Procs -> Nat]

Joins == [kind : {"join"}, from : Slaves, seqno : Nat, repo : BOOLEAN, have : Vector]
Replies == [kind : {"reply"}, to : Slaves, seqno : Nat, repo : BOOLEAN, func : Nat, have : Vector]

(* The types the argument needs. *)
Typed ==
  /\ spc \in [Slaves -> {"run", "wait", "repo", "done"}]
  /\ mask \subseteq Procs
  /\ rep \in [repo : BOOLEAN, func : Nat]
  /\ req \in [Slaves -> Joins] /\ req_from_ \in [Slaves -> Joins]
  /\ rep_seqno_ \in [Slaves -> Nat]
  /\ net \subseteq Joins \cup Replies
  /\ know \in [Procs -> Vector] /\ published \in Vector
  /\ forked \in Seq(Nat) /\ ran \in [Slaves -> Seq(Nat)]
  /\ taken \in Int

(* A slave's request number counts the functions it has run, and the one it *)
(* waits for.                                                               *)
Numbered(s) == req[s].seqno = Len(ran[s]) + (IF spc[s] = "wait" THEN 1 ELSE 0)

(* Only requests that were sent are under way; the newest is the slave's.   *)
JoinsKnown == \A m \in net : m.kind = "join" => m.seqno <= req[m.from].seqno

(* The master has one request of every slave in its mask, for the next fork,*)
(* and none of the others.                                                  *)
Masked(s) ==
  /\ rep_seqno_[s] = Len(forked) + (IF s \in mask THEN 1 ELSE 0)
  /\ rep_seqno_[s] <= req[s].seqno
  /\ s \in mask => req_from_[s].seqno = rep_seqno_[s]

(* The mask is full from the end of the join to the fork. *)
FullMask == mpc \in {"joined", "forking"} => mask = Procs

(* The reply buffer has the last function forked, except while the next one *)
(* is stored and the mask is full.                                          *)
BufferHolds ==
  mpc # "forking" /\ Len(forked) > 0 => rep.func = forked[Len(forked)]

(* A reply under way has the function of its fork, and what was known then. *)
ReplyTrue(m) ==
  /\ 1 <= m.seqno /\ m.seqno <= Len(forked)
  /\ m.func = forked[m.seqno]
  /\ m.seqno = Len(forked) => \A q \in Procs : published[q] <= m.have[q]

RepliesTrue == \A m \in net : m.kind = "reply" => ReplyTrue(m)

MasterKnows == \A q \in Procs : published[q] <= know[0][q]

Counted == taken = Cardinality(mask \ {0})

SchedInv ==
  /\ Typed /\ JoinsKnown /\ FullMask /\ BufferHolds /\ RepliesTrue /\ MasterKnows /\ Counted
  /\ \A s \in Slaves : Numbered(s) /\ Masked(s)
  /\ ForkInOrder /\ ForkPublishes

-----------------------------------------------------------------------------
Sized == NProcs \in Nat \ {0}

LEMMA ProcFacts ==
  ASSUME Sized
  PROVE  0 \in Procs /\ Slaves \subseteq Procs /\ Slaves = Procs \ {0}
  BY DEF Sized, Procs, Slaves

(* The fields of datagrams. *)
LEMMA JoinFields ==
  ASSUME NEW m \in Joins
  PROVE  /\ m.kind = "join" /\ m.from \in Slaves /\ m.seqno \in Nat
         /\ m.repo \in BOOLEAN /\ m.have \in Vector
  BY Zenon DEF Joins

LEMMA ReplyFields ==
  ASSUME NEW m \in Replies
  PROVE  /\ m.kind = "reply" /\ m.to \in Slaves /\ m.seqno \in Nat
         /\ m.repo \in BOOLEAN /\ m.func \in Nat /\ m.have \in Vector
  BY Zenon DEF Replies

LEMMA KindTells ==
  ASSUME Typed, NEW m \in net
  PROVE  /\ m.kind = "join" => m \in Joins
         /\ m.kind = "reply" => m \in Replies
<1>1. m \in Joins \/ m \in Replies
  BY Zenon DEF Typed
<1>2. m \in Joins => m.kind = "join"
  BY JoinFields, Zenon
<1>3. m \in Replies => m.kind = "reply"
  BY ReplyFields, Zenon
<1>4. "join" # "reply"
  OBVIOUS
<1>5. QED
  BY <1>1, <1>2, <1>3, <1>4, Zenon

LEMMA JoinType ==
  ASSUME NEW s \in Slaves, NEW k \in Nat, NEW r \in BOOLEAN, NEW v \in Vector
  PROVE  /\ Join(s, k, r, v) \in Joins
         /\ Join(s, k, r, v).seqno = k /\ Join(s, k, r, v).from = s
         /\ Join(s, k, r, v).have = v
  BY DEF Join, Joins

LEMMA ReplyType ==
  ASSUME Typed, NEW s \in Slaves, NEW k \in Nat, NEW v \in Vector
  PROVE  /\ Reply(s, k, v) \in Replies
         /\ Reply(s, k, v).seqno = k /\ Reply(s, k, v).to = s
         /\ Reply(s, k, v).have = v /\ Reply(s, k, v).func = rep.func
<1>1. rep.repo \in BOOLEAN /\ rep.func \in Nat
  BY Zenon DEF Typed
<1>2. QED
  BY <1>1 DEF Reply, Replies

(* Knowledge only grows. *)
LEMMA MergeGrows ==
  ASSUME NEW v \in Vector, NEW w \in Vector
  PROVE  /\ Merge(v, w) \in Vector
         /\ \A q \in Procs : v[q] <= Merge(v, w)[q] /\ w[q] <= Merge(v, w)[q]
<1>1. \A q \in Procs : v[q] \in Nat /\ w[q] \in Nat
  BY Zenon DEF Vector
<1>2. \A q \in Procs : Merge(v, w)[q] = IF v[q] < w[q] THEN w[q] ELSE v[q]
  BY Zenon DEF Merge
<1>3. \A q \in Procs : /\ v[q] <= Merge(v, w)[q] /\ w[q] <= Merge(v, w)[q]
                       /\ (IF v[q] < w[q] THEN w[q] ELSE v[q]) \in Nat
  BY <1>1, <1>2
<1>4. Merge(v, w) \in Vector
  BY <1>3, Zenon DEF Merge, Vector
<1>5. QED
  BY <1>3, <1>4, Zenon

(* Counting an entry up. *)
LEMMA EntryGrows ==
  ASSUME NEW v \in Vector, NEW p \in Procs
  PROVE  /\ [v EXCEPT ![p] = @ + 1] \in Vector
         /\ \A q \in Procs : v[q] <= [v EXCEPT ![p] = @ + 1][q]
<1>1. \A q \in Procs : v[q] \in Nat
  BY Zenon DEF Vector
<1>2. QED
  BY <1>1 DEF Vector

(* What the master takes from a request. *)
LEMMA IncorporatedGrows ==
  ASSUME Sized, Typed, NEW m \in Joins
  PROVE  Incorporated(m) \in Vector /\ \A q \in Procs : know[0][q] <= Incorporated(m)[q]
<1>1. know[0] \in Vector /\ m.from \in Procs /\ m.have \in Vector
  BY ProcFacts, JoinFields, Zenon DEF Typed
<1>2. \A q \in Procs : know[0][q] \in Nat /\ m.have[q] \in Nat
  BY <1>1, Zenon DEF Vector
<1>3. CASE 0 \in mask /\ m.have[m.from] > know[0][m.from]
  BY <1>1, <1>2, <1>3 DEF Incorporated, Vector
<1>4. CASE ~ (0 \in mask /\ m.have[m.from] > know[0][m.from])
  BY <1>1, <1>2, <1>4 DEF Incorporated
<1>5. QED
  BY <1>3, <1>4, Zenon

-----------------------------------------------------------------------------
(* Types. *)

LEMMA TypedInit == Sized /\ Init => Typed
<1> SUFFICES ASSUME Sized, Init PROVE Typed
  OBVIOUS
<1>1. know \in [Procs -> Vector] /\ \A p \in Procs : know[p] \in Vector
  BY DEF Init, Vector
<1>2. req \in [Slaves -> Joins]
  <2>1. \A s \in Slaves : Join(s, 0, FALSE, know[s]) \in Joins
    BY <1>1, ProcFacts, JoinType, Zenon
  <2>2. QED
    BY <2>1, Zenon DEF Init
<1>3. /\ forked \in Seq(Nat) /\ ran \in [Slaves -> Seq(Nat)]
      /\ rep \in [repo : BOOLEAN, func : Nat] /\ taken \in Int
      /\ rep_seqno_ \in [Slaves -> Nat]
  BY DEF Init
<1>4. QED
  BY <1>1, <1>2, <1>3, ProcFacts, Zenon DEF Init, Typed

(* What the master knows once it joins. *)
Joined == [q \in Procs |->
             IF q = 0 THEN know[0][0] + 1
             ELSE IF q \in mask /\ req_from_[q].have[q] > know[0][q] THEN req_from_[q].have[q]
             ELSE know[0][q]]

LEMMA JoinedGrows ==
  ASSUME Sized, Typed
  PROVE  Joined \in Vector /\ \A q \in Procs : know[0][q] <= Joined[q]
<1>1. know[0] \in Vector /\ \A s \in Slaves : req_from_[s].have \in Vector
  BY ProcFacts, JoinFields, Zenon DEF Typed
<1>2. \A q \in Procs : know[0][q] \in Nat /\ (q # 0 => req_from_[q].have[q] \in Nat)
  BY <1>1, ProcFacts, Zenon DEF Vector
<1>3. \A q \in Procs : Joined[q] = IF q = 0 THEN know[0][0] + 1
             ELSE IF q \in mask /\ req_from_[q].have[q] > know[0][q] THEN req_from_[q].have[q]
             ELSE know[0][q]
  BY Zenon DEF Joined
<1>4. \A q \in Procs : Joined[q] \in Nat /\ know[0][q] <= Joined[q]
  BY <1>2, <1>3
<1>5. DOMAIN Joined = Procs /\ Joined = [q \in Procs |-> Joined[q]]
  BY Zenon DEF Joined
<1>6. QED
  BY <1>4, <1>5, Zenon DEF Vector

(* One entry of a typed function is set. *)
LEMMA SetEntry ==
  ASSUME NEW S, NEW T, NEW f \in [S -> T], NEW s \in S, NEW t \in T, NEW g,
         g = [f EXCEPT ![s] = t]
  PROVE  g \in [S -> T] /\ g[s] = t /\ \A x \in S \ {s} : g[x] = f[x]
  BY Zenon

LEMMA TypedStep ==
  ASSUME Sized, Typed, [Next]_vars
  PROVE  Typed'
<1>t. /\ spc \in [Slaves -> {"run", "wait", "repo", "done"}]
      /\ mask \subseteq Procs
      /\ rep \in [repo : BOOLEAN, func : Nat]
      /\ req \in [Slaves -> Joins] /\ req_from_ \in [Slaves -> Joins]
      /\ rep_seqno_ \in [Slaves -> Nat]
      /\ net \subseteq Joins \cup Replies
      /\ know \in [Procs -> Vector] /\ published \in Vector
      /\ forked \in Seq(Nat) /\ ran \in [Slaves -> Seq(Nat)]
      /\ taken \in Int
  BY Zenon DEF Typed
<1>0. 0 \in Procs /\ Slaves \subseteq Procs
  BY ProcFacts, Zenon
<1>1. ASSUME NEW s \in Slaves, SlaveJoins(s) PROVE Typed'
  <2>1. PICK r \in BOOLEAN :
          LET own == [know[s] EXCEPT ![s] = @ + 1]
              m == Join(s, req[s].seqno + 1, r, own)
          IN /\ know' = [know EXCEPT ![s] = own]
             /\ req' = [req EXCEPT ![s] = m]
             /\ net' = net \cup {m}
    BY <1>1, Zenon DEF SlaveJoins
  <2> DEFINE own == [know[s] EXCEPT ![s] = @ + 1]
             m == Join(s, req[s].seqno + 1, r, own)
  <2>2. /\ know' = [know EXCEPT ![s] = own] /\ req' = [req EXCEPT ![s] = m]
        /\ net' = net \cup {m}
    BY <2>1, Zenon
  <2>3. own \in Vector
    BY <1>0, <1>t, EntryGrows, Zenon
  <2> HIDE DEF own
  <2>4. m \in Joins
    <3>1. req[s].seqno \in Nat
      BY <1>t, JoinFields, Zenon
    <3>2. req[s].seqno + 1 \in Nat
      BY <3>1
    <3>3. QED
      BY <2>3, <3>2, JoinType, Zenon
  <2> HIDE DEF m
  <2>5. know' \in [Procs -> Vector] /\ req' \in [Slaves -> Joins]
    BY <1>0, <1>t, <2>2, <2>3, <2>4, SetEntry, Zenon
  <2>6. spc' \in [Slaves -> {"run", "wait", "repo", "done"}]
    BY <1>1, <1>t, SetEntry, Zenon DEF SlaveJoins
  <2>7. QED
    BY <1>1, <1>t, <2>2, <2>4, <2>5, <2>6, Zenon DEF SlaveJoins, Typed
<1>2. ASSUME NEW s \in Slaves, Rexmit(s) PROVE Typed'
  <2>1. req[s] \in Joins
    BY <1>t, Zenon
  <2>2. QED
    BY <1>2, <1>t, <2>1, Zenon DEF Rexmit, Typed
<1>3. ASSUME NEW s \in Slaves, NEW m \in net, SlaveForks(s, m) PROVE Typed'
  <2>1. m \in Replies
    BY <1>3, KindTells, Zenon DEF SlaveForks
  <2>2. m.func \in Nat /\ m.have \in Vector
    BY <2>1, ReplyFields, Zenon
  <2>3. know' \in [Procs -> Vector]
    <3>1. Merge(know[s], m.have) \in Vector
      BY <1>0, <1>t, <2>2, MergeGrows, Zenon
    <3>2. QED
      BY <1>0, <1>3, <1>t, <3>1, SetEntry, Zenon DEF SlaveForks
  <2>4. ran' \in [Slaves -> Seq(Nat)]
    <3>1. Append(ran[s], m.func) \in Seq(Nat)
      BY <1>t, <2>2
    <3>2. QED
      BY <1>3, <1>t, <3>1, SetEntry, Zenon DEF SlaveForks
  <2>5. spc' \in [Slaves -> {"run", "wait", "repo", "done"}]
    <3>1. (IF m.repo THEN "repo" ELSE IF m.func = 0 THEN "done" ELSE "run")
            \in {"run", "wait", "repo", "done"}
      OBVIOUS
    <3>2. QED
      BY <1>3, <1>t, <3>1, SetEntry, Zenon DEF SlaveForks
  <2>6. QED
    BY <1>3, <1>t, <2>3, <2>4, <2>5, Zenon DEF SlaveForks, Typed
<1>4. ASSUME NEW m \in net, Tmk_sched_sigio_handler(m) PROVE Typed'
  <2>1. m \in Joins /\ m.from \in Slaves /\ m.seqno \in Nat /\ m.repo \in BOOLEAN
    BY <1>4, KindTells, JoinFields, Zenon DEF Tmk_sched_sigio_handler
  <2>2. /\ rep_seqno_' \in [Slaves -> Nat] /\ req_from_' \in [Slaves -> Joins]
    BY <1>4, <1>t, <2>1, SetEntry, Zenon DEF Tmk_sched_sigio_handler
  <2>3. know' \in [Procs -> Vector]
    <3>1. Incorporated(m) \in Vector
      BY <2>1, IncorporatedGrows, Zenon
    <3>2. QED
      BY <1>0, <1>4, <1>t, <3>1, SetEntry, Zenon DEF Tmk_sched_sigio_handler
  <2>4. rep' \in [repo : BOOLEAN, func : Nat]
    BY <1>4, <1>t, Zenon DEF Tmk_sched_sigio_handler
  <2>5. mask' \subseteq Procs /\ net' \subseteq net
    BY <1>0, <1>4, <1>t, <2>1, Zenon DEF Tmk_sched_sigio_handler
  <2>6. taken' \in Int
    <3>1. taken' = taken + 1
      BY <1>4, Zenon DEF Tmk_sched_sigio_handler
    <3>2. QED
      BY <1>t, <3>1
  <2>7. QED
    BY <1>4, <1>t, <2>2, <2>3, <2>4, <2>5, <2>6, Zenon DEF Tmk_sched_sigio_handler, Typed
<1>5. ASSUME NEW m \in net, Tmk_sched_sigio_duplicate_handler(m) PROVE Typed'
  <2>1. m \in Joins /\ m.from \in Slaves /\ m.seqno \in Nat
    BY <1>5, KindTells, JoinFields, Zenon DEF Tmk_sched_sigio_duplicate_handler
  <2>2. ReplyAgain(m) \in Replies
    BY <1>0, <1>t, <2>1, ReplyType, Zenon DEF ReplyAgain
  <2>3. net' \subseteq net \cup {ReplyAgain(m)}
    BY <1>5, Zenon DEF Tmk_sched_sigio_duplicate_handler
  <2>4. QED
    BY <1>5, <1>t, <2>2, <2>3, Zenon DEF Tmk_sched_sigio_duplicate_handler, Typed

<1>6. ASSUME Tmk_sched_join PROVE Typed'
  <2>1. know' = [know EXCEPT ![0] = Joined]
    BY <1>6, Zenon DEF Tmk_sched_join, Joined
  <2>2. know' \in [Procs -> Vector]
    BY <1>0, <1>t, <2>1, JoinedGrows, SetEntry, Zenon
  <2>3. rep' \in [repo : BOOLEAN, func : Nat]
    <3>1. \E b \in BOOLEAN : rep' = [rep EXCEPT !.repo = b]
      BY <1>6, Zenon DEF Tmk_sched_join
    <3>2. QED
      BY <1>t, <3>1, Zenon
  <2>4. mask' \subseteq Procs
    BY <1>0, <1>6, <1>t, Zenon DEF Tmk_sched_join
  <2>5. QED
    BY <1>6, <1>t, <2>2, <2>3, <2>4, Zenon DEF Tmk_sched_join, Typed
<1>7. ASSUME JoinReturns \/ MasterLeavesRepo PROVE Typed'
  BY <1>7, <1>t, Zenon DEF JoinReturns, MasterLeavesRepo, Typed
<1>8. ASSUME SetFunction PROVE Typed'
  <2>1. rep' \in [repo : BOOLEAN, func : Nat]
    <3>1. Func(Len(forked) + 1) \in Nat
      <4>1. Len(forked) + 1 \in Nat /\ 0 \in Nat
        BY <1>t
      <4>2. QED
        BY <4>1, Zenon DEF Func
    <3>2. rep' = [rep EXCEPT !.func = Func(Len(forked) + 1)]
      BY <1>8, Zenon DEF SetFunction
    <3>3. QED
      BY <1>t, <3>1, <3>2, Zenon
  <2>2. QED
    BY <1>8, <1>t, <2>1, Zenon DEF SetFunction, Typed
<1>9. ASSUME Tmk_sched_fork PROVE Typed'
  <2>1. ForkInterval \in Vector
    BY <1>0, <1>t, EntryGrows, Zenon DEF ForkInterval
  <2>2. know' \in [Procs -> Vector] /\ published' \in Vector
    BY <1>0, <1>9, <1>t, <2>1, SetEntry, Zenon DEF Tmk_sched_fork, ForkInterval
  <2>3. \A s \in Slaves : Reply(s, req_from_[s].seqno, ForkInterval) \in Replies
    BY <1>t, <2>1, JoinFields, ReplyType, Zenon
  <2>4. net' \subseteq Joins \cup Replies
    <3>1. net' = net \cup {Reply(s, req_from_[s].seqno, ForkInterval) : s \in Slaves}
      BY <1>9, Zenon DEF Tmk_sched_fork
    <3>2. {Reply(s, req_from_[s].seqno, ForkInterval) : s \in Slaves} \subseteq Replies
      BY <2>3, Zenon
    <3>3. QED
      BY <1>t, <3>1, <3>2, Zenon
  <2>5. taken' \in Int
    <3>1. taken' = taken - (NProcs - 1)
      BY <1>9, Zenon DEF Tmk_sched_fork, Released
    <3>2. QED
      BY <1>t, <3>1 DEF Sized
  <2>6. forked' \in Seq(Nat)
    <3>1. forked' = Append(forked, rep.func) /\ rep.func \in Nat
      BY <1>9, <1>t, Zenon DEF Tmk_sched_fork
    <3>2. QED
      BY <1>t, <3>1
  <2>7. mask' \subseteq Procs
    BY <1>9, Zenon DEF Tmk_sched_fork
  <2>8. QED
    BY <1>9, <1>t, <2>2, <2>4, <2>5, <2>6, <2>7, Zenon DEF Tmk_sched_fork, Typed
<1>10. ASSUME NEW s \in Slaves, SlaveLeavesRepo(s) PROVE Typed'
  <2>1. spc' \in [Slaves -> {"run", "wait", "repo", "done"}]
    BY <1>10, <1>t, SetEntry, Zenon DEF SlaveLeavesRepo
  <2>2. QED
    BY <1>10, <1>t, <2>1, Zenon DEF SlaveLeavesRepo, Typed
<1>11. ASSUME (\E m \in net : Lose(m)) \/ UNCHANGED vars PROVE Typed'
  BY <1>11, <1>t, Zenon DEF Lose, vars, Typed
<1>12. QED
  BY <1>1, <1>2, <1>3, <1>4, <1>5, <1>6, <1>7, <1>8, <1>9, <1>10, <1>11, Zenon
     DEF Next, Master, Handle

-----------------------------------------------------------------------------
(* The steps. *)

(* The lengths and numbers are natural numbers. *)
LEMMA Counts ==
  ASSUME Typed
  PROVE  /\ Len(forked) \in Nat
         /\ \A s \in Slaves : /\ Len(ran[s]) \in Nat /\ req[s].seqno \in Nat
                              /\ rep_seqno_[s] \in Nat /\ req_from_[s].seqno \in Nat
                              /\ req[s].from \in Slaves
<1>1. Len(forked) \in Nat
  BY DEF Typed
<1>2. ASSUME NEW s \in Slaves
      PROVE  /\ Len(ran[s]) \in Nat /\ req[s].seqno \in Nat
             /\ rep_seqno_[s] \in Nat /\ req_from_[s].seqno \in Nat
             /\ req[s].from \in Slaves
  <2>1. ran[s] \in Seq(Nat) /\ req[s] \in Joins /\ req_from_[s] \in Joins /\ rep_seqno_[s] \in Nat
    BY Zenon DEF Typed
  <2>2. Len(ran[s]) \in Nat
    BY <2>1
  <2>3. QED
    BY <2>1, <2>2, JoinFields, Zenon
<1>3. QED
  BY <1>1, <1>2, Zenon

(* Steps that move neither the forks nor the masters' requests. *)
LEMMA QuietStep ==
  ASSUME SchedInv, Typed',
         UNCHANGED <<mask, req, req_from_, rep_seqno_, taken, know, forked, ran, published>>,
         \A s \in Slaves : spc'[s] = "wait" <=> spc[s] = "wait",
         \A m \in net' : \/ m \in net
                         \/ m.kind = "join" /\ m.seqno <= req[m.from].seqno
                         \/ m.kind = "reply" /\ ReplyTrue(m),
         FullMask', BufferHolds'
  PROVE  SchedInv'
<1>1. ~ ("join" = "reply")
  OBVIOUS
<1>2. JoinsKnown' /\ RepliesTrue'
  BY <1>1, Zenon DEF SchedInv, JoinsKnown, RepliesTrue, ReplyTrue
<1>3. MasterKnows' /\ Counted' /\ ForkInOrder' /\ ForkPublishes'
  BY Zenon DEF SchedInv, MasterKnows, Counted, ForkInOrder, ForkPublishes
<1>4. \A s \in Slaves : Numbered(s)' /\ Masked(s)'
  BY Zenon DEF SchedInv, Numbered, Masked
<1>5. QED
  BY <1>2, <1>3, <1>4, Zenon DEF SchedInv

(* A slave that joins takes the number after those it has run. *)
LEMMA SlaveJoinsStep ==
  ASSUME Sized, SchedInv, Typed', NEW s \in Slaves, SlaveJoins(s)
  PROVE  SchedInv'
<1>t. Typed
  BY Zenon DEF SchedInv
<1>1. PICK r \in BOOLEAN :
        LET own == [know[s] EXCEPT ![s] = @ + 1]
            m == Join(s, req[s].seqno + 1, r, own)
        IN /\ know' = [know EXCEPT ![s] = own]
           /\ req' = [req EXCEPT ![s] = m]
           /\ net' = net \cup {m}
  BY Zenon DEF SlaveJoins
<1> DEFINE own == [know[s] EXCEPT ![s] = @ + 1]
           k == req[s].seqno + 1
           m == Join(s, k, r, own)
<1>2. /\ know' = [know EXCEPT ![s] = own] /\ req' = [req EXCEPT ![s] = m]
      /\ net' = net \cup {m}
  BY <1>1, Zenon
<1>3. /\ spc[s] = "run" /\ spc' = [spc EXCEPT ![s] = "wait"]
      /\ UNCHANGED <<mpc, mask, rep, req_from_, rep_seqno_, taken, forked, ran, published>>
  BY Zenon DEF SlaveJoins
<1>4. s \in Procs /\ know[s] \in Vector /\ req[s].seqno \in Nat /\ 0 \in Procs /\ s # 0
  BY <1>t, ProcFacts, Counts, Zenon DEF Typed
<1>5. own \in Vector /\ \A q \in Procs : know[s][q] <= own[q]
  BY <1>4, EntryGrows, Zenon
<1> HIDE DEF own
<1>6. k \in Nat /\ req[s].seqno <= k /\ k <= k
  BY <1>4
<1> HIDE DEF k
<1>7. m.kind = "join" /\ m.from = s /\ m.seqno = k
  <2>1. m \in Joins /\ m.from = s /\ m.seqno = k
    BY <1>5, <1>6, JoinType
  <2>2. QED
    BY <2>1, JoinFields, Zenon
<1> HIDE DEF m
<1>8. /\ req'[s] = m /\ \A x \in Slaves \ {s} : req'[x] = req[x] /\ spc'[x] = spc[x]
      /\ spc'[s] = "wait" /\ know'[s] = own /\ \A x \in Procs \ {s} : know'[x] = know[x]
  <2>1. /\ req \in [Slaves -> Joins] /\ know \in [Procs -> Vector]
        /\ spc \in [Slaves -> {"run", "wait", "repo", "done"}]
    BY <1>t, Zenon DEF Typed
  <2>2. QED
    BY <1>2, <1>3, <1>4, <2>1, Zenon
<1>9. ASSUME NEW x \in Slaves PROVE Numbered(x)' /\ Masked(x)'
  <2>1. Numbered(x) /\ Masked(x)
    BY Zenon DEF SchedInv
  <2>2. CASE x = s
    <3>1. req'[s].seqno = k /\ k = Len(ran[s]) + 1
      <4>1. req[s].seqno = Len(ran[s]) + 0
        BY <1>3, <2>1, <2>2, Zenon DEF Numbered
      <4>2. Len(ran[s]) \in Nat
        BY <1>t, Counts, Zenon
      <4>3. k = Len(ran[s]) + 1
        BY <1>4, <4>1, <4>2 DEF k
      <4>4. QED
        BY <1>7, <1>8, <4>3, Zenon
    <3>2. Numbered(s)'
      BY <1>3, <1>8, <3>1, Zenon DEF Numbered
    <3>3. rep_seqno_[s] <= k
      <4>1. rep_seqno_[s] <= req[s].seqno /\ rep_seqno_[s] \in Nat
        BY <1>t, <2>1, <2>2, Counts, Zenon DEF Masked
      <4>2. QED
        BY <1>4, <1>6, <4>1
    <3>4. Masked(s)'
      BY <1>3, <2>1, <2>2, <3>1, <3>3, Zenon DEF Masked
    <3>5. QED
      BY <2>2, <3>2, <3>4, Zenon
  <2>3. CASE x # s
    BY <1>3, <1>8, <2>1, <2>3, Zenon DEF Numbered, Masked
  <2>4. QED
    BY <2>2, <2>3, Zenon
<1>10. JoinsKnown'
  <2> SUFFICES ASSUME NEW a \in net', a.kind = "join" PROVE a.seqno <= req'[a.from].seqno
    BY Zenon DEF JoinsKnown
  <2>1. CASE a = m
    BY <1>6, <1>7, <1>8, <2>1, Zenon
  <2>2. CASE a \in net
    <3>1. a.seqno <= req[a.from].seqno /\ a.from \in Slaves /\ a.seqno \in Nat
      BY <1>t, <2>2, KindTells, JoinFields, Zenon DEF SchedInv, JoinsKnown
    <3>2. CASE a.from = s
      <4>1. a.seqno <= req[s].seqno
        BY <3>1, <3>2, Zenon
      <4>2. a.seqno <= k
        BY <1>4, <1>6, <3>1, <4>1
      <4>3. QED
        BY <1>7, <1>8, <3>2, <4>2, Zenon
    <3>3. CASE a.from # s
      BY <1>8, <3>1, <3>3, Zenon
    <3>4. QED
      BY <3>2, <3>3, Zenon
  <2>3. QED
    BY <1>2, <2>1, <2>2, Zenon
<1>11. RepliesTrue'
  <2>1. ~ ("join" = "reply")
    OBVIOUS
  <2>2. \A a \in net' : a.kind = "reply" => a \in net
    BY <1>2, <1>7, <2>1, Zenon
  <2>3. QED
    BY <1>3, <2>2, Zenon DEF SchedInv, RepliesTrue, ReplyTrue
<1>12. /\ FullMask' /\ BufferHolds' /\ MasterKnows' /\ Counted' /\ ForkInOrder'
  BY <1>3, <1>4, <1>8, Zenon DEF SchedInv, FullMask, BufferHolds, MasterKnows, Counted, ForkInOrder
<1>13. ForkPublishes'
  <2> SUFFICES ASSUME NEW x \in Slaves, Len(ran[x]) = Len(forked), NEW q \in Procs
               PROVE  know'[x][q] >= published[q]
    BY <1>3, Zenon DEF ForkPublishes
  <2>1. know[x][q] >= published[q]
    BY Zenon DEF SchedInv, ForkPublishes
  <2>2. CASE x = s
    <3>1. know[s][q] \in Nat /\ own[q] \in Nat /\ published[q] \in Nat /\ know[s][q] <= own[q]
      BY <1>4, <1>5, <1>t, Zenon DEF Vector, Typed
    <3>2. own[q] >= published[q]
      BY <2>1, <2>2, <3>1
    <3>3. QED
      BY <1>8, <2>2, <3>2, Zenon
  <2>3. CASE x # s
    BY <1>8, <2>1, <2>3, ProcFacts, Zenon
  <2>4. QED
    BY <2>2, <2>3, Zenon
<1>14. QED
  BY <1>9, <1>10, <1>11, <1>12, <1>13, Zenon DEF SchedInv

LEMMA AppendFacts ==
  ASSUME NEW q \in Seq(Nat), NEW x \in Nat
  PROVE  /\ Len(Append(q, x)) = Len(q) + 1 /\ Append(q, x)[Len(q) + 1] = x
         /\ \A k \in 1 .. Len(q) : Append(q, x)[k] = q[k]
  OBVIOUS

(* A slave runs the function of the reply to its own request. *)
LEMMA SlaveForksStep ==
  ASSUME Sized, SchedInv, Typed', NEW s \in Slaves, NEW m \in net, SlaveForks(s, m)
  PROVE  SchedInv'
<1>t. Typed
  BY Zenon DEF SchedInv
<1>1. /\ spc[s] = "wait" /\ m.kind = "reply" /\ m.seqno = req[s].seqno
      /\ net' = net \ {m} /\ know' = [know EXCEPT ![s] = Merge(@, m.have)]
      /\ ran' = [ran EXCEPT ![s] = Append(@, m.func)]
      /\ spc' = [spc EXCEPT ![s] = IF m.repo THEN "repo" ELSE IF m.func = 0 THEN "done" ELSE "run"]
      /\ UNCHANGED <<mpc, mask, rep, req, req_from_, rep_seqno_, taken, forked, published>>
  BY Zenon DEF SlaveForks
<1>2. /\ m.func \in Nat /\ m.have \in Vector /\ ReplyTrue(m)
      /\ s \in Procs /\ s # 0 /\ 0 \in Procs /\ know[s] \in Vector /\ ran[s] \in Seq(Nat)
  <2>1. m \in Replies
    BY <1>1, <1>t, KindTells, Zenon
  <2>2. QED
    BY <1>1, <1>t, <2>1, ReplyFields, ProcFacts, Zenon DEF Typed, SchedInv, RepliesTrue
<1>3. /\ ran'[s] = Append(ran[s], m.func) /\ \A x \in Slaves \ {s} : ran'[x] = ran[x]
      /\ know'[s] = Merge(know[s], m.have) /\ \A x \in Procs \ {s} : know'[x] = know[x]
      /\ spc'[s] = (IF m.repo THEN "repo" ELSE IF m.func = 0 THEN "done" ELSE "run")
      /\ \A x \in Slaves \ {s} : spc'[x] = spc[x]
  <2>1. /\ ran \in [Slaves -> Seq(Nat)] /\ know \in [Procs -> Vector]
        /\ spc \in [Slaves -> {"run", "wait", "repo", "done"}]
    BY <1>t, Zenon DEF Typed
  <2>2. QED
    BY <1>1, <1>2, <2>1, Zenon
<1>4. spc'[s] # "wait"
  BY <1>3
<1>5. /\ Len(ran'[s]) = Len(ran[s]) + 1 /\ ran'[s][Len(ran[s]) + 1] = m.func
      /\ \A k \in 1 .. Len(ran[s]) : ran'[s][k] = ran[s][k]
  <2> DEFINE a == Append(ran[s], m.func)
  <2>1. /\ Len(a) = Len(ran[s]) + 1 /\ a[Len(ran[s]) + 1] = m.func
        /\ \A k \in 1 .. Len(ran[s]) : a[k] = ran[s][k]
    BY <1>2, AppendFacts, Zenon
  <2>2. ran'[s] = a
    BY <1>3, Zenon
  <2> HIDE DEF a
  <2>3. QED
    BY <2>1, <2>2, Zenon
<1>6. m.seqno = Len(ran[s]) + 1 /\ Len(ran[s]) \in Nat /\ Len(forked) \in Nat
  BY <1>1, <1>t, Counts, Zenon DEF SchedInv, Numbered
<1>7. \A x \in Slaves : Numbered(x)' /\ Masked(x)'
  <2>1. \A x \in Slaves : Masked(x)'
    BY <1>1, Zenon DEF SchedInv, Masked
  <2>2. Numbered(s)'
    <3>1. req'[s].seqno = Len(ran[s]) + 1
      BY <1>1, <1>6, Zenon
    <3>2. Len(ran'[s]) + 0 = Len(ran[s]) + 1
      BY <1>5, <1>6
    <3>3. QED
      BY <1>4, <3>1, <3>2, Zenon DEF Numbered
  <2>3. ASSUME NEW x \in Slaves \ {s} PROVE Numbered(x)'
    <3>1. /\ req'[x] = req[x] /\ ran'[x] = ran[x] /\ spc'[x] = spc[x]
          /\ Numbered(x)
      BY <1>1, <1>3, <2>3, Zenon DEF SchedInv
    <3>2. QED
      BY <3>1, Zenon DEF Numbered
  <2>4. QED
    BY <2>1, <2>2, <2>3, Zenon
<1>8. /\ JoinsKnown' /\ RepliesTrue' /\ FullMask' /\ BufferHolds' /\ MasterKnows' /\ Counted'
  BY <1>1, <1>2, <1>3, Zenon DEF SchedInv, JoinsKnown, RepliesTrue, ReplyTrue, FullMask,
                                 BufferHolds, MasterKnows, Counted
<1>9. ForkInOrder'
  <2> SUFFICES ASSUME NEW x \in Slaves
               PROVE  /\ Len(ran'[x]) <= Len(forked)
                      /\ \A k \in 1 .. Len(ran'[x]) : ran'[x][k] = forked[k]
    BY <1>1, ZenonT(40) DEF ForkInOrder
  <2>1. Len(ran[x]) <= Len(forked) /\ \A k \in 1 .. Len(ran[x]) : ran[x][k] = forked[k]
    BY Zenon DEF SchedInv, ForkInOrder
  <2>2. CASE x = s
    <3>1. Len(ran'[s]) <= Len(forked)
      BY <1>2, <1>5, <1>6, Zenon DEF ReplyTrue
    <3>2. ASSUME NEW k \in 1 .. Len(ran'[s]) PROVE ran'[s][k] = forked[k]
      <4>1. k \in 1 .. Len(ran[s]) \/ k = Len(ran[s]) + 1
        BY <1>5, <1>6
      <4>2. CASE k \in 1 .. Len(ran[s])
        <5>1. ran'[s][k] = ran[s][k] /\ ran[s][k] = forked[k]
          BY <1>5, <2>1, <2>2, <4>2, Zenon
        <5>2. QED
          BY <5>1, Zenon
      <4>3. CASE k = Len(ran[s]) + 1
        <5>1. ran'[s][k] = m.func /\ m.func = forked[k]
          BY <1>2, <1>5, <1>6, <4>3, Zenon DEF ReplyTrue
        <5>2. QED
          BY <5>1, Zenon
      <4>4. QED
        BY <4>1, <4>2, <4>3, Zenon
    <3>3. QED
      BY <2>2, <3>1, <3>2, Zenon
  <2>3. CASE x # s
    BY <1>3, <2>1, <2>3, Zenon
  <2>4. QED
    BY <2>2, <2>3, Zenon
<1>10. ForkPublishes'
  <2> SUFFICES ASSUME NEW x \in Slaves, Len(ran'[x]) = Len(forked), NEW q \in Procs
               PROVE  know'[x][q] >= published[q]
    BY <1>1, Zenon DEF ForkPublishes
  <2>1. CASE x = s
    <3>1. m.seqno = Len(forked)
      BY <1>5, <1>6, <2>1, Zenon
    <3>2. /\ published[q] <= m.have[q] /\ m.have[q] <= Merge(know[s], m.have)[q]
          /\ Merge(know[s], m.have) \in Vector
      BY <1>2, <3>1, MergeGrows, Zenon DEF ReplyTrue
    <3>3. published[q] \in Nat /\ m.have[q] \in Nat /\ Merge(know[s], m.have)[q] \in Nat
      BY <1>2, <1>t, <3>2, Zenon DEF Vector, Typed
    <3>4. Merge(know[s], m.have)[q] >= published[q]
      BY <3>2, <3>3
    <3>5. QED
      BY <1>3, <2>1, <3>4, Zenon
  <2>2. CASE x # s
    BY <1>3, <2>2, ProcFacts, Zenon DEF SchedInv, ForkPublishes
  <2>3. QED
    BY <2>1, <2>2, Zenon
<1>11. QED
  BY <1>7, <1>8, <1>9, <1>10, Zenon DEF SchedInv

(* Nobody is more than one fork ahead of the master. *)
LEMMA NotAhead ==
  ASSUME SchedInv, NEW s \in Slaves
  PROVE  /\ req[s].seqno <= Len(forked) + 1
         /\ s \in mask => rep_seqno_[s] = Len(forked) + 1
         /\ s \notin mask => rep_seqno_[s] = Len(forked)
         /\ rep_seqno_[s] <= req[s].seqno
         /\ Len(forked) \in Nat /\ req[s].seqno \in Nat /\ rep_seqno_[s] \in Nat
<1>t. /\ Len(forked) \in Nat /\ req[s].seqno \in Nat /\ rep_seqno_[s] \in Nat
      /\ Len(ran[s]) \in Nat
  BY Counts, Zenon DEF SchedInv
<1>1. Len(ran[s]) <= Len(forked) /\ Numbered(s) /\ Masked(s)
  BY Zenon DEF SchedInv, ForkInOrder
<1>2. /\ spc[s] = "wait" => req[s].seqno = Len(ran[s]) + 1
      /\ spc[s] # "wait" => req[s].seqno = Len(ran[s]) + 0
      /\ s \in mask => rep_seqno_[s] = Len(forked) + 1
      /\ s \notin mask => rep_seqno_[s] = Len(forked) + 0
      /\ rep_seqno_[s] <= req[s].seqno
  BY <1>1, Zenon DEF Numbered, Masked
<1>3. QED
  BY <1>1, <1>2, <1>t

(* The handler takes one request of each slave for the next fork. *)
LEMMA HandlerStep ==
  ASSUME Sized, SchedInv, Typed', NEW m \in net, Tmk_sched_sigio_handler(m)
  PROVE  SchedInv'
<1> DEFINE f == m.from
<1>t. Typed
  BY Zenon DEF SchedInv
<1>1. /\ m.kind = "join" /\ m.seqno > rep_seqno_[f]
      /\ rep_seqno_' = [rep_seqno_ EXCEPT ![f] = m.seqno]
      /\ req_from_' = [req_from_ EXCEPT ![f] = m]
      /\ taken' = taken + 1 /\ mask' = mask \cup {f}
      /\ know' = [know EXCEPT ![0] = Incorporated(m)]
      /\ rep' = [rep EXCEPT !.repo = @ \/ (0 \in mask /\ m.repo)]
      /\ net' = net \ {m}
      /\ UNCHANGED <<mpc, spc, req, forked, ran, published>>
  BY Zenon DEF Tmk_sched_sigio_handler
<1>2. /\ m \in Joins /\ f \in Slaves /\ m.seqno \in Nat /\ m.seqno <= req[f].seqno
      /\ f \in Procs /\ f # 0 /\ 0 \in Procs
  <2>1. m \in Joins
    BY <1>1, <1>t, KindTells, Zenon
  <2>2. QED
    BY <1>1, <2>1, JoinFields, ProcFacts, Zenon DEF SchedInv, JoinsKnown
<1> HIDE DEF f
<1>3. f \notin mask /\ m.seqno = Len(forked) + 1
  <2>1. /\ req[f].seqno <= Len(forked) + 1
        /\ f \in mask => rep_seqno_[f] = Len(forked) + 1
        /\ f \notin mask => rep_seqno_[f] = Len(forked)
        /\ Len(forked) \in Nat /\ req[f].seqno \in Nat /\ rep_seqno_[f] \in Nat
    BY <1>2, NotAhead, Zenon
  <2>2. QED
    BY <1>1, <1>2, <2>1
<1>4. /\ rep_seqno_'[f] = m.seqno /\ req_from_'[f] = m /\ know'[0] = Incorporated(m)
      /\ \A x \in Slaves \ {f} : rep_seqno_'[x] = rep_seqno_[x] /\ req_from_'[x] = req_from_[x]
      /\ \A x \in Procs \ {0} : know'[x] = know[x]
      /\ rep'.func = rep.func
  <2>1. /\ rep_seqno_ \in [Slaves -> Nat] /\ req_from_ \in [Slaves -> Joins]
        /\ know \in [Procs -> Vector] /\ rep \in [repo : BOOLEAN, func : Nat]
    BY <1>t, Zenon DEF Typed
  <2>2. rep'.func = rep.func
    BY <1>1, <2>1
  <2>3. QED
    BY <1>1, <1>2, <2>1, <2>2, Zenon
<1>5. ASSUME NEW x \in Slaves PROVE Numbered(x)' /\ Masked(x)'
  <2>1. Numbered(x) /\ Masked(x)
    BY Zenon DEF SchedInv
  <2>2. Numbered(x)'
    BY <1>1, <2>1, Zenon DEF Numbered
  <2>3. CASE x = f
    <3>1. f \in mask' /\ rep_seqno_'[f] = Len(forked) + 1 /\ rep_seqno_'[f] <= req[f].seqno
      BY <1>1, <1>2, <1>3, <1>4, Zenon
    <3>2. req_from_'[f].seqno = rep_seqno_'[f]
      BY <1>4, Zenon
    <3>3. QED
      BY <1>1, <2>2, <2>3, <3>1, <3>2, Zenon DEF Masked
  <2>4. CASE x # f
    <3>1. /\ rep_seqno_'[x] = rep_seqno_[x] /\ req_from_'[x] = req_from_[x]
          /\ x \in mask' <=> x \in mask
      BY <1>1, <1>4, <2>4, Zenon
    <3>2. QED
      BY <1>1, <2>1, <2>2, <3>1, Zenon DEF Masked
  <2>5. QED
    BY <2>2, <2>3, <2>4, Zenon
<1>6. JoinsKnown' /\ RepliesTrue' /\ ForkInOrder' /\ BufferHolds'
  BY <1>1, <1>4, Zenon DEF SchedInv, JoinsKnown, RepliesTrue, ReplyTrue, ForkInOrder, BufferHolds
<1>7. FullMask'
  BY <1>1, <1>2, <1>3, Zenon DEF SchedInv, FullMask
<1>8. MasterKnows'
  <2> SUFFICES ASSUME NEW q \in Procs PROVE published[q] <= Incorporated(m)[q]
    BY <1>1, <1>4, Zenon DEF MasterKnows
  <2>1. published[q] <= know[0][q] /\ know[0][q] <= Incorporated(m)[q]
    BY <1>2, <1>t, IncorporatedGrows, Zenon DEF SchedInv, MasterKnows
  <2>2. published[q] \in Nat /\ know[0][q] \in Nat /\ Incorporated(m)[q] \in Nat
    <3>1. Incorporated(m) \in [Procs -> Nat]
      BY <1>2, <1>t, IncorporatedGrows, Zenon DEF Vector
    <3>2. published \in [Procs -> Nat] /\ know[0] \in [Procs -> Nat]
      BY <1>2, <1>t, Zenon DEF Typed, Vector
    <3>3. QED
      BY <3>1, <3>2, Zenon
  <2>3. QED
    BY <2>1, <2>2
<1>9. ForkPublishes'
  BY <1>1, <1>4, ProcFacts, Zenon DEF SchedInv, ForkPublishes
<1>10. Counted'
  <2>1. IsFiniteSet(mask \ {0}) /\ f \notin mask \ {0} /\ mask' \ {0} = (mask \ {0}) \cup {f}
    <3>1. IsFiniteSet(Procs)
      BY FS_Interval DEF Procs, Sized
    <3>2. mask \ {0} \in SUBSET Procs
      BY <1>t, Zenon DEF Typed
    <3>3. IsFiniteSet(mask \ {0})
      BY <3>1, <3>2, FS_Subset, Zenon
    <3>4. QED
      BY <1>1, <1>2, <1>3, <3>3, Zenon
  <2>2. Cardinality(mask' \ {0}) = Cardinality(mask \ {0}) + 1
    BY <2>1, FS_AddElement, Zenon
  <2>3. QED
    BY <1>1, <2>2, Zenon DEF SchedInv, Counted
<1>11. QED
  BY <1>5, <1>6, <1>7, <1>8, <1>9, <1>10, Zenon DEF SchedInv

(* A repeated request is answered only with the reply of the last fork. *)
LEMMA DuplicateStep ==
  ASSUME Sized, SchedInv, Typed', NEW m \in net, Tmk_sched_sigio_duplicate_handler(m)
  PROVE  SchedInv'
<1>t. Typed
  BY Zenon DEF SchedInv
<1> DEFINE f == m.from
           n == ReplyAgain(m)
<1>1. /\ m.kind = "join" /\ m.seqno <= rep_seqno_[f]
      /\ net' = (net \ {m}) \cup (IF AnswerAgain(f) /\ Awaited(m) THEN {n} ELSE {})
      /\ UNCHANGED <<mpc, spc, mask, rep, req, req_from_, rep_seqno_, taken, know,
                     forked, ran, published>>
  BY Zenon DEF Tmk_sched_sigio_duplicate_handler
<1>2. f \in Slaves /\ m.seqno \in Nat
  BY <1>1, <1>t, KindTells, JoinFields, Zenon
<1>3. ASSUME AnswerAgain(f), Awaited(m) PROVE n.kind = "reply" /\ ReplyTrue(n)
  <2>1. f \notin mask /\ spc[f] = "wait" /\ m.seqno = req[f].seqno
    BY <1>3, Zenon DEF AnswerAgain, Awaited
  <2>2. /\ know[0] \in Vector /\ f \in Procs
    BY <1>2, <1>t, ProcFacts, Zenon DEF Typed
  <2>3. /\ n \in Replies /\ n.seqno = m.seqno /\ n.have = know[0] /\ n.func = rep.func
    <3>1. n = Reply(f, m.seqno, know[0])
      BY Zenon DEF ReplyAgain
    <3> HIDE DEF n, f
    <3>2. /\ Reply(f, m.seqno, know[0]) \in Replies
          /\ Reply(f, m.seqno, know[0]).seqno = m.seqno
          /\ Reply(f, m.seqno, know[0]).have = know[0]
          /\ Reply(f, m.seqno, know[0]).func = rep.func
      BY <1>2, <1>t, <2>2, ReplyType
    <3>3. QED
      BY <3>1, <3>2, Zenon
  <2>4. m.seqno = Len(forked) /\ 1 <= m.seqno /\ Len(forked) \in Nat
    <3>1. /\ rep_seqno_[f] = Len(forked) /\ rep_seqno_[f] <= req[f].seqno
          /\ Len(forked) \in Nat /\ req[f].seqno \in Nat
      BY <1>2, <2>1, NotAhead, Zenon
    <3>2. req[f].seqno = Len(ran[f]) + 1 /\ Len(ran[f]) \in Nat
      BY <1>2, <1>t, <2>1, Counts, Zenon DEF SchedInv, Numbered
    <3>3. QED
      BY <1>1, <2>1, <3>1, <3>2
  <2>5. mpc # "forking"
    BY <2>1, <2>2, Zenon DEF SchedInv, FullMask
  <2>6. rep.func = forked[Len(forked)]
    <3>1. Len(forked) > 0
      BY <2>4
    <3>2. QED
      BY <2>5, <3>1, Zenon DEF SchedInv, BufferHolds
  <2>7. Len(forked) <= Len(forked)
    BY <2>4
  <2>8. 1 <= n.seqno /\ n.seqno <= Len(forked) /\ n.func = forked[n.seqno]
    BY <2>3, <2>4, <2>6, <2>7, Zenon
  <2>9. \A q \in Procs : published[q] <= n.have[q]
    BY <2>3, Zenon DEF SchedInv, MasterKnows
  <2>10. n.kind = "reply"
    BY <2>3, ReplyFields, Zenon
  <2>11. QED
    BY <2>8, <2>9, <2>10, Zenon DEF ReplyTrue
<1> HIDE DEF n, f
<1>4. \A a \in net' : a \in net \/ (a.kind = "reply" /\ ReplyTrue(a))
  <2>1. CASE AnswerAgain(f) /\ Awaited(m)
    <3>1. \A a \in net' : a \in net \/ a = n
      BY <1>1, <2>1, Zenon
    <3>2. QED
      BY <1>3, <2>1, <3>1, Zenon
  <2>2. CASE ~ (AnswerAgain(f) /\ Awaited(m))
    BY <1>1, <2>2, Zenon
  <2>3. QED
    BY <2>1, <2>2, Zenon
<1>5. FullMask' /\ BufferHolds'
  BY <1>1, Zenon DEF SchedInv, FullMask, BufferHolds
<1>6. QED
  BY <1>1, <1>4, <1>5, QuietStep, Zenon

(* The master joins. *)
LEMMA JoinStep ==
  ASSUME Sized, SchedInv, Typed', Tmk_sched_join
  PROVE  SchedInv'
<1>t. Typed /\ 0 \in Procs /\ Slaves = Procs \ {0}
  BY ProcFacts, Zenon DEF SchedInv
<1>1. /\ mpc = "run" /\ mpc' = "joining" /\ mask' = mask \cup {0}
      /\ know' = [know EXCEPT ![0] = Joined]
      /\ UNCHANGED <<spc, req, req_from_, rep_seqno_, taken, net, forked, ran, published>>
  BY Zenon DEF Tmk_sched_join, Joined
<1>2. rep'.func = rep.func
  <2>1. \E b : rep' = [rep EXCEPT !.repo = b]
    BY Zenon DEF Tmk_sched_join
  <2>2. rep \in [repo : BOOLEAN, func : Nat]
    BY <1>t, Zenon DEF Typed
  <2>3. QED
    BY <2>1, <2>2
<1>3. know'[0] = Joined /\ \A x \in Slaves : know'[x] = know[x]
  BY <1>1, <1>t, Zenon DEF Typed
<1>4. MasterKnows'
  <2> SUFFICES ASSUME NEW q \in Procs PROVE published[q] <= Joined[q]
    BY <1>1, <1>3, Zenon DEF MasterKnows
  <2>1. published[q] <= know[0][q] /\ know[0][q] <= Joined[q]
    BY <1>t, JoinedGrows, Zenon DEF SchedInv, MasterKnows
  <2>2. published[q] \in Nat /\ know[0][q] \in Nat /\ Joined[q] \in Nat
    <3>1. Joined \in [Procs -> Nat]
      BY <1>t, JoinedGrows, Zenon DEF Vector
    <3>2. published \in [Procs -> Nat] /\ know[0] \in [Procs -> Nat]
      BY <1>t, Zenon DEF Typed, Vector
    <3>3. QED
      BY <3>1, <3>2, Zenon
  <2>3. QED
    BY <2>1, <2>2
<1>5. \A x \in Slaves : x \in mask' <=> x \in mask
  BY <1>1, <1>t, Zenon
<1>6. \A x \in Slaves : Numbered(x)' /\ Masked(x)'
  BY <1>1, <1>5, Zenon DEF SchedInv, Numbered, Masked
<1>7. /\ JoinsKnown' /\ RepliesTrue' /\ ForkInOrder' /\ ForkPublishes'
  BY <1>1, <1>3, Zenon DEF SchedInv, JoinsKnown, RepliesTrue, ReplyTrue, ForkInOrder, ForkPublishes
<1>8. FullMask' /\ BufferHolds'
  <2>1. mpc # "forking" /\ mpc' \notin {"joined", "forking"}
    BY <1>1
  <2>2. QED
    BY <1>1, <1>2, <2>1, Zenon DEF SchedInv, FullMask, BufferHolds
<1>9. Counted'
  <2>1. mask' \ {0} = mask \ {0}
    BY <1>1, Zenon
  <2>2. QED
    BY <1>1, <2>1, Zenon DEF SchedInv, Counted
<1>10. QED
  BY <1>4, <1>6, <1>7, <1>8, <1>9, Zenon DEF SchedInv

(* With the mask full there is one request of every slave in the buffers. *)
LEMMA FullCount ==
  ASSUME Sized
  PROVE  IsFiniteSet(Procs \ {0}) /\ Cardinality(Procs \ {0}) = NProcs - 1
<1>1. IsFiniteSet(Procs) /\ Cardinality(Procs) = NProcs
  <2>1. 0 \in Int /\ NProcs - 1 \in Int /\ ~ (0 > NProcs - 1) /\ NProcs - 1 - 0 + 1 = NProcs
    BY DEF Sized
  <2>2. IsFiniteSet(0 .. NProcs - 1) /\ Cardinality(0 .. NProcs - 1) = NProcs - 1 - 0 + 1
    BY <2>1, FS_Interval
  <2>3. QED
    BY <2>1, <2>2, Zenon DEF Procs
<1>2. 0 \in Procs
  BY ProcFacts, Zenon
<1>3. QED
  BY <1>1, <1>2, FS_RemoveElement, Zenon

(* The fork answers every slave with the function it appends. *)
LEMMA ForkStep ==
  ASSUME Sized, SchedInv, Typed', Tmk_sched_fork
  PROVE  SchedInv'
<1>t. Typed /\ 0 \in Procs /\ Slaves = Procs \ {0}
  BY ProcFacts, Zenon DEF SchedInv
<1> DEFINE n == Len(forked)
           w == ForkInterval
<1>1. /\ mpc = "forking" /\ mask' = {} /\ know' = [know EXCEPT ![0] = w]
      /\ published' = w
      /\ net' = net \cup {Reply(s, req_from_[s].seqno, w) : s \in Slaves}
      /\ taken' = taken - (NProcs - 1) /\ forked' = Append(forked, rep.func)
      /\ UNCHANGED <<spc, rep, req, req_from_, rep_seqno_, ran>>
  BY Zenon DEF Tmk_sched_fork, ForkInterval, Released
<1>2. mpc' \notin {"joined", "forking"}
  BY DEF Tmk_sched_fork
<1>3. mask = Procs
  BY <1>1, Zenon DEF SchedInv, FullMask
<1>4. /\ n \in Nat /\ rep.func \in Nat /\ know[0] \in Vector /\ forked \in Seq(Nat)
  BY <1>t, Counts, Zenon DEF Typed
<1>5. Len(forked') = n + 1 /\ forked'[n + 1] = rep.func /\ \A k \in 1 .. n : forked'[k] = forked[k]
  BY <1>1, <1>4, AppendFacts, Zenon
<1>6. w \in Vector
  BY <1>1, Zenon DEF Typed
<1>7. \A s \in Slaves : req_from_[s].seqno = n + 1 /\ rep_seqno_[s] = n + 1 /\ rep_seqno_[s] <= req[s].seqno
  <2> SUFFICES ASSUME NEW s \in Slaves
               PROVE  req_from_[s].seqno = n + 1 /\ rep_seqno_[s] = n + 1 /\ rep_seqno_[s] <= req[s].seqno
    OBVIOUS
  <2>1. s \in mask
    BY <1>3, <1>t, Zenon
  <2>2. QED
    BY <2>1, NotAhead, Zenon DEF SchedInv, Masked
<1>8. know'[0] = w /\ \A s \in Slaves : know'[s] = know[s]
  BY <1>1, <1>t, Zenon DEF Typed
<1> HIDE DEF w
<1>9. JoinsKnown' /\ RepliesTrue'
  <2>1. ASSUME NEW a \in net', a \notin net
        PROVE  a.kind = "reply" /\ a.seqno = n + 1 /\ a.func = rep.func /\ a.have = w
    <3>1. PICK s \in Slaves : a = Reply(s, req_from_[s].seqno, w)
      BY <1>1, <2>1, Zenon
    <3>2. n + 1 \in Nat
      BY <1>4
    <3>3. /\ Reply(s, n + 1, w) \in Replies /\ Reply(s, n + 1, w).seqno = n + 1
          /\ Reply(s, n + 1, w).have = w /\ Reply(s, n + 1, w).func = rep.func
      BY <1>t, <1>6, <3>2, ReplyType
    <3>4. a = Reply(s, n + 1, w)
      BY <1>7, <3>1, Zenon
    <3>5. QED
      BY <3>3, <3>4, ReplyFields, Zenon
  <2>2. "join" # "reply"
    OBVIOUS
  <2>3. JoinsKnown'
    BY <1>1, <2>1, <2>2, Zenon DEF SchedInv, JoinsKnown
  <2>4. ASSUME NEW a \in net', a.kind = "reply" PROVE ReplyTrue(a)'
    <3>1. CASE a \in net
      <4>1. 1 <= a.seqno /\ a.seqno <= n /\ a.func = forked[a.seqno] /\ a.seqno \in Nat
        BY <2>4, <3>1, <1>t, KindTells, ReplyFields, Zenon DEF SchedInv, RepliesTrue, ReplyTrue
      <4>2. a.seqno \in 1 .. n /\ a.seqno <= n + 1 /\ a.seqno # n + 1
        BY <4>1, <1>4
      <4>3. QED
        BY <1>5, <4>1, <4>2, Zenon DEF ReplyTrue
    <3>2. CASE a \notin net
      <4>1. a.seqno = n + 1 /\ a.func = rep.func /\ a.have = w
        BY <2>1, <3>2, Zenon
      <4>2. 1 <= n + 1 /\ n + 1 <= n + 1
        BY <1>4
      <4>3. \A q \in Procs : w[q] <= w[q]
        <5>1. \A q \in Procs : w[q] \in Nat
          BY <1>6, Zenon DEF Vector
        <5>2. QED
          BY <5>1
      <4>4. QED
        BY <1>1, <1>5, <4>1, <4>2, <4>3, Zenon DEF ReplyTrue
    <3>3. QED
      BY <3>1, <3>2, Zenon
  <2>5. QED
    BY <2>3, <2>4, Zenon DEF RepliesTrue
<1>10. BufferHolds' /\ FullMask'
  <2>1. rep'.func = forked'[Len(forked')]
    BY <1>1, <1>5, Zenon
  <2>2. QED
    BY <1>2, <2>1, Zenon DEF BufferHolds, FullMask
<1>11. MasterKnows'
  <2>1. \A q \in Procs : w[q] \in Nat
    BY <1>6, Zenon DEF Vector
  <2>2. \A q \in Procs : w[q] <= w[q]
    BY <2>1
  <2>3. QED
    BY <1>1, <1>8, <2>2, Zenon DEF MasterKnows
<1>12. Counted'
  <2>1. taken = NProcs - 1
    BY <1>3, FullCount, Zenon DEF SchedInv, Counted
  <2>2. taken' = 0
    BY <1>1, <2>1 DEF Sized
  <2>3. mask' \ {0} = {}
    BY <1>1, Zenon
  <2>4. QED
    BY <2>2, <2>3, FS_EmptySet, Zenon DEF Counted
<1>13. \A s \in Slaves : Numbered(s)' /\ Masked(s)'
  <2>1. \A s \in Slaves : Numbered(s)'
    BY <1>1, Zenon DEF SchedInv, Numbered
  <2>2. ASSUME NEW s \in Slaves PROVE Masked(s)'
    <3>1. s \notin mask' /\ rep_seqno_'[s] = n + 1 /\ rep_seqno_'[s] <= req'[s].seqno
      BY <1>1, <1>7, Zenon
    <3>2. n + 1 = Len(forked') + 0
      BY <1>4, <1>5
    <3>3. QED
      BY <3>1, <3>2, Zenon DEF Masked
  <2>3. QED
    BY <2>1, <2>2, Zenon
<1>14. ForkInOrder' /\ ForkPublishes'
  <2>1. ASSUME NEW s \in Slaves
        PROVE  /\ Len(ran[s]) \in Nat /\ Len(ran[s]) <= n
               /\ \A k \in 1 .. Len(ran[s]) : ran[s][k] = forked[k]
    BY <1>t, Counts, Zenon DEF SchedInv, ForkInOrder
  <2>2. ASSUME NEW s \in Slaves
        PROVE  /\ Len(ran[s]) <= n + 1 /\ Len(ran[s]) # n + 1
               /\ \A k \in 1 .. Len(ran[s]) : k \in 1 .. n
    BY <2>1, <1>4
  <2>3. ForkInOrder'
    BY <1>1, <1>5, <2>1, <2>2, Zenon DEF ForkInOrder
  <2>4. ForkPublishes'
    BY <1>1, <1>5, <2>2, Zenon DEF ForkPublishes
  <2>5. QED
    BY <2>3, <2>4, Zenon
<1>15. QED
  BY <1>9, <1>10, <1>11, <1>12, <1>13, <1>14, Zenon DEF SchedInv

(* A slave's request is its own. *)
OwnRequests == \A s \in Slaves : req[s].from = s

LEMMA OwnRequestsStep ==
  ASSUME Typed, OwnRequests, [Next]_vars
  PROVE  OwnRequests'
<1>1. CASE req' = req
  BY <1>1, Zenon DEF OwnRequests
<1>2. ASSUME NEW s \in Slaves, SlaveJoins(s) PROVE OwnRequests'
  <2>1. PICK k, r, v : req' = [req EXCEPT ![s] = Join(s, k, r, v)]
    BY <1>2, ZenonT(40) DEF SlaveJoins
  <2>2. Join(s, k, r, v).from = s
    BY Zenon DEF Join
  <2>3. QED
    BY <2>1, <2>2, Zenon DEF OwnRequests, Typed
<1>3. CASE UNCHANGED vars
  BY <1>1, <1>3, Zenon DEF vars
<1>4. req' = req \/ (\E s \in Slaves : SlaveJoins(s)) \/ UNCHANGED vars
  BY Zenon DEF Next, Master, Handle, Tmk_sched_join, JoinReturns, SetFunction, Tmk_sched_fork,
               MasterLeavesRepo, Rexmit, SlaveLeavesRepo, Tmk_sched_sigio_handler,
               Tmk_sched_sigio_duplicate_handler, SlaveForks, Lose
<1>5. QED
  BY <1>1, <1>2, <1>3, <1>4, Zenon

(* The steps that move neither a function nor a request number. *)
LEMMA RexmitStep ==
  ASSUME SchedInv, OwnRequests, Typed', NEW s \in Slaves, Rexmit(s)
  PROVE  SchedInv'
<1>t. Typed
  BY Zenon DEF SchedInv
<1>1. /\ net' = net \cup {req[s]}
      /\ UNCHANGED <<mpc, spc, mask, rep, req, req_from_, rep_seqno_, taken, know,
                     forked, ran, published>>
  BY Zenon DEF Rexmit
<1>2. req[s].kind = "join" /\ req[s].seqno \in Nat
  BY <1>t, JoinFields, Zenon DEF Typed
<1>3. req[s].seqno <= req[req[s].from].seqno
  <2>1. req[s].from = s
    BY Zenon DEF OwnRequests
  <2>2. req[s].seqno <= req[s].seqno
    BY <1>2
  <2>3. QED
    BY <2>1, <2>2, Zenon
<1>4. \A a \in net' : a \in net \/ (a.kind = "join" /\ a.seqno <= req[a.from].seqno)
  <2>1. \A a \in net' : a \in net \/ a = req[s]
    BY <1>1, Zenon
  <2>2. QED
    BY <1>2, <1>3, <2>1, Zenon
<1>5. FullMask' /\ BufferHolds'
  BY <1>1, Zenon DEF SchedInv, FullMask, BufferHolds
<1>6. QED
  BY <1>1, <1>4, <1>5, QuietStep, Zenon

LEMMA LoseStep ==
  ASSUME SchedInv, Typed', NEW m \in net, Lose(m)
  PROVE  SchedInv'
<1>1. /\ net' = net \ {m}
      /\ UNCHANGED <<mpc, spc, mask, rep, req, req_from_, rep_seqno_, taken, know,
                     forked, ran, published>>
  BY Zenon DEF Lose
<1>2. FullMask' /\ BufferHolds'
  BY <1>1, Zenon DEF SchedInv, FullMask, BufferHolds
<1>3. QED
  BY <1>1, <1>2, QuietStep, Zenon

LEMMA LeaveRepoStep ==
  ASSUME SchedInv, Typed',
         MasterLeavesRepo \/ \E s \in Slaves : SlaveLeavesRepo(s)
  PROVE  SchedInv'
<1>t. spc \in [Slaves -> {"run", "wait", "repo", "done"}]
  BY Zenon DEF SchedInv, Typed
<1>1. CASE MasterLeavesRepo
  <2>1. /\ mpc = "repo" /\ mpc' \notin {"joined", "forking"}
        /\ UNCHANGED <<spc, mask, rep, req, req_from_, rep_seqno_, taken, net, know,
                       forked, ran, published>>
    BY <1>1 DEF MasterLeavesRepo
  <2>2. FullMask' /\ BufferHolds'
    <3>1. mpc # "forking"
      BY <2>1
    <3>2. QED
      BY <2>1, <3>1, Zenon DEF SchedInv, FullMask, BufferHolds
  <2>3. QED
    BY <2>1, <2>2, QuietStep, Zenon
<1>2. ASSUME NEW s \in Slaves, SlaveLeavesRepo(s) PROVE SchedInv'
  <2>1. /\ spc[s] = "repo" /\ \E k \in {"done", "run"} : spc' = [spc EXCEPT ![s] = k]
        /\ UNCHANGED <<mpc, mask, rep, req, req_from_, rep_seqno_, taken, net, know,
                       forked, ran, published>>
    BY <1>2, Zenon DEF SlaveLeavesRepo
  <2>2. \A x \in Slaves : spc'[x] = "wait" <=> spc[x] = "wait"
    BY <1>t, <2>1
  <2>3. FullMask' /\ BufferHolds'
    BY <2>1, Zenon DEF SchedInv, FullMask, BufferHolds
  <2>4. QED
    BY <2>1, <2>2, <2>3, QuietStep, Zenon
<1>3. QED
  BY <1>1, <1>2, Zenon

LEMMA MasterWaitsStep ==
  ASSUME SchedInv, Typed', JoinReturns \/ SetFunction
  PROVE  SchedInv'
<1>1. CASE JoinReturns
  <2>1. /\ mpc = "joining" /\ mpc' = "joined" /\ mask = Procs
        /\ UNCHANGED <<spc, mask, rep, req, req_from_, rep_seqno_, taken, net, know,
                       forked, ran, published>>
    BY <1>1, Zenon DEF JoinReturns
  <2>2. mpc # "forking"
    BY <2>1
  <2>3. FullMask' /\ BufferHolds'
    BY <2>1, <2>2, Zenon DEF SchedInv, FullMask, BufferHolds
  <2>4. QED
    BY <2>1, <2>3, QuietStep, Zenon
<1>2. CASE SetFunction
  <2>1. /\ mpc = "joined" /\ mpc' = "forking"
        /\ UNCHANGED <<spc, mask, req, req_from_, rep_seqno_, taken, net, know,
                       forked, ran, published>>
    BY <1>2, Zenon DEF SetFunction
  <2>2. mask = Procs
    BY <2>1, Zenon DEF SchedInv, FullMask
  <2>3. FullMask' /\ BufferHolds'
    BY <2>1, <2>2, Zenon DEF FullMask, BufferHolds
  <2>4. QED
    BY <2>1, <2>3, QuietStep, Zenon
<1>3. QED
  BY <1>1, <1>2, Zenon

-----------------------------------------------------------------------------
(* The invariance of it all. *)

LEMMA SchedInit ==
  ASSUME Sized, Init
  PROVE  SchedInv /\ OwnRequests
<1>1. Typed
  BY TypedInit, Zenon
<1>2. /\ mpc = "run" /\ mask = {} /\ net = {} /\ taken = 0 /\ forked = <<>>
      /\ published = know[0]
      /\ \A s \in Slaves : /\ spc[s] = "run" /\ ran[s] = <<>> /\ rep_seqno_[s] = 0
                           /\ req[s] = Join(s, 0, FALSE, know[s])
  BY Zenon DEF Init
<1>3. \A s \in Slaves : req[s].seqno = 0 /\ req[s].from = s
  <2>1. \A s \in Slaves : Join(s, 0, FALSE, know[s]).seqno = 0 /\ Join(s, 0, FALSE, know[s]).from = s
    BY DEF Join
  <2>2. QED
    BY <1>2, <2>1, ZenonT(40)
<1>4. Len(<<>>) = 0 /\ 0 + 0 = 0 /\ 0 <= 0 /\ ~ (0 > 0)
  OBVIOUS
<1>5. \A s \in Slaves : Numbered(s) /\ Masked(s)
  <2> SUFFICES ASSUME NEW s \in Slaves PROVE Numbered(s) /\ Masked(s)
    OBVIOUS
  <2>1. s \notin mask /\ spc[s] # "wait"
    BY <1>2, Zenon
  <2>2. Numbered(s)
    BY <1>2, <1>3, <1>4, <2>1, Zenon DEF Numbered
  <2>3. Masked(s)
    BY <1>2, <1>3, <1>4, <2>1, Zenon DEF Masked
  <2>4. QED
    BY <2>2, <2>3, Zenon
<1>6. JoinsKnown /\ RepliesTrue /\ OwnRequests
  BY <1>2, <1>3, Zenon DEF JoinsKnown, RepliesTrue, OwnRequests
<1>7. FullMask /\ BufferHolds
  <2>1. mpc \notin {"joined", "forking"} /\ ~ (Len(forked) > 0)
    BY <1>2
  <2>2. QED
    BY <2>1, Zenon DEF FullMask, BufferHolds
<1>8. MasterKnows
  <2>1. \A q \in Procs : know[0][q] \in Nat
    BY <1>1, ProcFacts, ZenonT(40) DEF Typed, Vector
  <2>2. \A q \in Procs : know[0][q] <= know[0][q]
    BY <2>1
  <2>3. QED
    BY <1>2, <2>2, Zenon DEF MasterKnows
<1>9. Counted
  <2>1. mask \ {0} = {}
    BY <1>2, Zenon
  <2>2. QED
    BY <1>2, <2>1, FS_EmptySet, Zenon DEF Counted
<1>10. ForkInOrder
  <2>1. \A k \in 1 .. Len(<<>>) : FALSE
    BY <1>4
  <2>2. QED
    BY <1>2, <1>4, <2>1, Zenon DEF ForkInOrder
<1>11. ForkPublishes
  <2>1. \A s \in Slaves : know[s] = know[0]
    BY ProcFacts, Zenon DEF Init
  <2>2. \A s \in Slaves, q \in Procs : know[s][q] = published[q] /\ published[q] \in Nat
    BY <1>1, <1>2, <2>1, Zenon DEF Typed, Vector
  <2>3. \A s \in Slaves, q \in Procs : know[s][q] >= published[q]
    BY <2>2
  <2>4. QED
    BY <2>3, Zenon DEF ForkPublishes
<1>12. QED
  BY <1>1, <1>5, <1>6, <1>7, <1>8, <1>9, <1>10, <1>11, Zenon DEF SchedInv

LEMMA SchedStep ==
  ASSUME Sized, SchedInv, OwnRequests, [Next]_vars
  PROVE  SchedInv' /\ OwnRequests'
<1>1. Typed /\ Typed'
  BY TypedStep, Zenon DEF SchedInv
<1>2. OwnRequests'
  BY <1>1, OwnRequestsStep, Zenon
<1>3. ASSUME Master PROVE SchedInv'
  <2>1. CASE Tmk_sched_join
    BY <1>1, <2>1, JoinStep, Zenon
  <2>2. CASE JoinReturns \/ SetFunction
    BY <1>1, <2>2, MasterWaitsStep, Zenon
  <2>3. CASE Tmk_sched_fork
    BY <1>1, <2>3, ForkStep, Zenon
  <2>4. CASE MasterLeavesRepo
    BY <1>1, <2>4, LeaveRepoStep, Zenon
  <2>5. QED
    BY <1>3, <2>1, <2>2, <2>3, <2>4, Zenon DEF Master
<1>4. ASSUME NEW s \in Slaves, SlaveJoins(s) \/ Rexmit(s) \/ SlaveLeavesRepo(s) \/ Handle(s)
      PROVE  SchedInv'
  <2>1. CASE SlaveJoins(s)
    BY <1>1, <2>1, SlaveJoinsStep, Zenon
  <2>2. CASE Rexmit(s)
    BY <1>1, <2>2, RexmitStep, Zenon
  <2>3. CASE SlaveLeavesRepo(s)
    BY <1>1, <2>3, LeaveRepoStep, Zenon
  <2>4. CASE Handle(s)
    BY <1>1, <2>4, HandlerStep, DuplicateStep, Zenon DEF Handle
  <2>5. QED
    BY <1>4, <2>1, <2>2, <2>3, <2>4, Zenon
<1>5. ASSUME NEW s \in Slaves, NEW m \in net, SlaveForks(s, m) PROVE SchedInv'
  BY <1>1, <1>5, SlaveForksStep, Zenon
<1>6. ASSUME NEW m \in net, Lose(m) PROVE SchedInv'
  BY <1>1, <1>6, LoseStep, Zenon
<1>7. CASE UNCHANGED vars
  <2>1. UNCHANGED <<mpc, spc, mask, rep, req, req_from_, rep_seqno_, taken, net, know,
                    forked, ran, published>>
    BY <1>7, Zenon DEF vars
  <2>2. FullMask' /\ BufferHolds'
    BY <2>1, Zenon DEF SchedInv, FullMask, BufferHolds
  <2>3. QED
    BY <1>1, <1>2, <2>1, <2>2, QuietStep, Zenon
<1>8. QED
  BY <1>2, <1>3, <1>4, <1>5, <1>6, <1>7, Zenon DEF Next

LEMMA SchedInvariant == Sized => (Spec => []SchedInv)
<1> SUFFICES ASSUME Sized PROVE Spec => []SchedInv
  OBVIOUS
<1>1. Init => SchedInv /\ OwnRequests
  BY SchedInit, Zenon
<1>2. SchedInv /\ OwnRequests /\ [Next]_vars => SchedInv' /\ OwnRequests'
  BY SchedStep, Zenon
<1>3. QED
  BY <1>1, <1>2, PTL DEF Spec

(* Tmk_sched_start: whatever datagrams are lost, repeated or late, a slave  *)
(* is given the functions of Tmk_sched_fork, each once and in order.        *)
THEOREM RunsInOrder == Sized => (Spec => []ForkInOrder)
<1>1. SchedInv => ForkInOrder
  BY Zenon DEF SchedInv
<1>2. QED
  BY <1>1, SchedInvariant, PTL

(* A slave that runs the latest function knows every interval the master    *)
(* knew when it forked, also when the reply it got was a repeated one.      *)
THEOREM ForkCarries == Sized => (Spec => []ForkPublishes)
<1>1. SchedInv => ForkPublishes
  BY Zenon DEF SchedInv
<1>2. QED
  BY <1>1, SchedInvariant, PTL

(* sigio_handler keeps at most one request of every slave: as many buffers  *)
(* as there are processes always leave a free one.                          *)
THEOREM BuffersSuffice == Sized => (Spec => []BufferLeft)
<1> SUFFICES ASSUME Sized PROVE Spec => []BufferLeft
  OBVIOUS
<1>1. SchedInv => BufferLeft
  <2> SUFFICES ASSUME SchedInv PROVE BufferLeft
    OBVIOUS
  <2>1. mask \ {0} \subseteq Procs \ {0}
    BY Zenon DEF SchedInv, Typed
  <2>2. /\ Cardinality(mask \ {0}) \in Nat /\ Cardinality(Procs \ {0}) \in Nat
        /\ Cardinality(mask \ {0}) <= Cardinality(Procs \ {0})
    BY <2>1, FullCount, FS_Subset, FS_CardinalityType, Zenon
  <2>3. taken = Cardinality(mask \ {0}) /\ Cardinality(Procs \ {0}) = NProcs - 1
    BY FullCount, Zenon DEF SchedInv, Counted
  <2>4. QED
    BY <2>2, <2>3 DEF BufferLeft, Sized
<1>2. QED
  BY <1>1, SchedInvariant, PTL

=============================================================================
