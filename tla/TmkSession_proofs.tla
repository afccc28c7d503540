------------------------- MODULE TmkSession_proofs -------------------------
(***************************************************************************)
(* Tmk_exit: every process serves process 0 until process 0 has left the   *)
(* program, for any number of processes and although datagrams are lost    *)
(* and repeated.                                                           *)
(***************************************************************************)
EXTENDS TmkSession, SequenceTheorems, TLAPS

Kinds == {"start", "connect", "accept", "barrier", "diff", "ask", "exit"}
Steps == Kinds \X Int

(* The steps of Tmk_startup; process 0 does not start itself. *)
StartupSteps ==
  {s \in {"start", "connect", "accept"} \X Int : s[1] = "start" => s[2] > 0}

(* What follows the barrier. *)
Ending(p) ==
  IF p = 0 THEN <<<<"diff", NProcs - 1>>>> \o Rounds(<<"ask">>, 1, NProcs - 1)
  ELSE <<<<"exit", 0>>>>

(* Process 0 has begun to ask the others to exit, after the barrier and the *)
(* fault that follows it.                                                   *)
Asking == Len(Startup(0)) + 2
Leaving == pos[0] > Asking

(* A process is gone because it was asked, and it is asked when process 0   *)
(* is leaving; a request to exit may be late, but never early.              *)
SessionInv ==
  /\ pos \in [Procs -> Nat] /\ DOMAIN exit_flag = Procs
  /\ \A m \in net : m[1] = "ask" => Leaving
  /\ \A p \in Procs : exit_flag[p] => Leaving
  /\ \A p \in Procs \ {0} : Gone(p) => exit_flag[p]

-----------------------------------------------------------------------------
(* The scripts. *)
LEMMA Widened ==
  ASSUME NEW S, NEW T, NEW f \in Seq(S), \A k \in 1 .. Len(f) : f[k] \in T
  PROVE  f \in Seq(T)
<1>1. Len(f) \in Nat /\ f \in [1 .. Len(f) -> S]
  OBVIOUS
<1>2. f \in [1 .. Len(f) -> T]
  BY <1>1
<1>3. QED
  BY <1>1, <1>2

LEMMA RoundsTyped ==
  ASSUME NEW l \in Nat \ {0}, NEW K, NEW ops \in Seq(K), Len(ops) = l,
         NEW first \in Int, NEW n \in Nat, l * n \in Nat
  PROVE  /\ Rounds(ops, first, n) \in Seq(K \X Int)
         /\ Len(Rounds(ops, first, n)) = l * n
         /\ \A k \in 1 .. l * n : Rounds(ops, first, n)[k][2] >= first
<1> DEFINE f == Rounds(ops, first, n)
<1>1. f = [k \in 1 .. l * n |-> <<ops[1 + ((k - 1) % l)], first + ((k - 1) \div l)>>]
  BY DEF Rounds
<1>2. ASSUME NEW k \in 1 .. l * n
      PROVE  f[k] \in K \X Int /\ f[k][2] >= first
  <2> DEFINE a == (k - 1) % l
             b == (k - 1) \div l
  <2>1. k - 1 \in Nat
    OBVIOUS
  <2>2. a \in 0 .. l - 1 /\ b \in Nat
    <3>1. \A x \in Nat : x % l \in 0 .. l - 1 /\ x \div l \in Nat
      OBVIOUS
    <3>2. QED
      BY <2>1, <3>1, Zenon
  <2>3. f[k] = <<ops[1 + a], first + b>>
    BY <1>1
  <2> HIDE DEF a, b, f
  <2>4. 1 + a \in 1 .. Len(ops) /\ first + b \in Int /\ first + b >= first
    BY <2>2
  <2>5. ops[1 + a] \in K
    BY <2>4
  <2>6. QED
    BY <2>3, <2>4, <2>5
<1> HIDE DEF f
<1>3. f \in [1 .. l * n -> K \X Int]
  <2>1. DOMAIN f = 1 .. l * n /\ f = [k \in DOMAIN f |-> f[k]]
    BY <1>1
  <2>2. QED
    BY <1>2, <2>1
<1>4. f \in Seq(K \X Int) /\ Len(f) = l * n
  BY <1>3
<1>5. QED
  BY <1>2, <1>4, Zenon DEF f

LEMMA RoundsStart ==
  ASSUME NEW l \in Nat \ {0}, NEW K \in SUBSET {"start", "connect", "accept"},
         NEW ops \in Seq(K), Len(ops) = l,
         NEW first \in Int, NEW n \in Nat, l * n \in Nat, "start" \in K => first > 0
  PROVE  Rounds(ops, first, n) \in Seq(StartupSteps)
<1> DEFINE f == Rounds(ops, first, n)
           d == l * n
<1>1. f \in Seq(K \X Int) /\ Len(f) = d /\ \A k \in 1 .. d : f[k][2] >= first
  BY RoundsTyped
<1> HIDE DEF f, d
<1>2. ASSUME NEW k \in 1 .. Len(f) PROVE f[k] \in StartupSteps
  <2>1. f[k] \in K \X Int /\ f[k][2] >= first
    BY <1>1
  <2>2. f[k] \in {"start", "connect", "accept"} \X Int
    BY <2>1, Zenon
  <2>3. f[k][1] = "start" => f[k][2] > 0
    <3>1. f[k][1] \in K /\ f[k][2] \in Int
      BY <2>1
    <3>2. QED
      BY <2>1, <3>1
  <2>4. QED
    BY <2>2, <2>3, Zenon DEF StartupSteps
<1>3. f \in Seq(StartupSteps)
  BY <1>1, <1>2, Widened, Zenon
<1>4. QED
  BY <1>3, Zenon DEF f

LEMMA StartupTyped ==
  ASSUME NEW p \in Procs
  PROVE  Startup(p) \in Seq(StartupSteps) /\ Len(Startup(p)) \in Nat
<1> DEFINE n == NProcs - 1 - p
           a == Rounds(<<"connect", "accept">>, 0, p)
           ops == IF p = 0 THEN <<"start", "accept", "connect">> ELSE <<"accept", "connect">>
           b == Rounds(ops, p + 1, n)
<1>1. p \in Nat /\ n \in Nat /\ 2 * p \in Nat /\ 2 * n \in Nat /\ 3 * n \in Nat
      /\ p + 1 \in Int /\ p + 1 > 0
  BY NProcsAssumption DEF Procs
<1> HIDE DEF n
<1>2. a \in Seq(StartupSteps)
  <2> DEFINE K == {"connect", "accept"}
  <2>1. /\ <<"connect", "accept">> \in Seq(K) /\ Len(<<"connect", "accept">>) = 2
        /\ K \in SUBSET {"start", "connect", "accept"} /\ "start" \notin K
        /\ 2 \in Nat \ {0} /\ 0 \in Int
    OBVIOUS
  <2> HIDE DEF K
  <2>2. QED
    BY <1>1, <2>1, RoundsStart, Zenon
<1>3. b \in Seq(StartupSteps)
  <2>1. CASE p = 0
    <3> DEFINE K == {"start", "connect", "accept"}
               o == <<"start", "accept", "connect">>
    <3>1. /\ o \in Seq(K) /\ Len(o) = 3 /\ K \in SUBSET {"start", "connect", "accept"}
          /\ 3 \in Nat \ {0}
      OBVIOUS
    <3>2. ops = o
      BY <2>1, Zenon
    <3> HIDE DEF K, o, ops
    <3>3. Rounds(o, p + 1, n) \in Seq(StartupSteps)
      BY <1>1, <3>1, RoundsStart, Zenon
    <3>4. QED
      BY <3>2, <3>3, Zenon
  <2>2. CASE p # 0
    <3> DEFINE K == {"connect", "accept"}
               o == <<"accept", "connect">>
    <3>1. /\ o \in Seq(K) /\ Len(o) = 2 /\ K \in SUBSET {"start", "connect", "accept"}
          /\ 2 \in Nat \ {0}
      OBVIOUS
    <3>2. ops = o
      BY <2>2, Zenon
    <3> HIDE DEF K, o, ops
    <3>3. Rounds(o, p + 1, n) \in Seq(StartupSteps)
      BY <1>1, <3>1, RoundsStart, Zenon
    <3>4. QED
      BY <3>2, <3>3, Zenon
  <2>3. QED
    BY <2>1, <2>2, Zenon
<1>4. Startup(p) = a \o b
  BY Zenon DEF Startup, n
<1> HIDE DEF a, b
<1>5. QED
  BY <1>2, <1>3, <1>4

LEMMA ManagerTyped == Manager \in Procs
<1>1. \A x \in Nat, l \in Nat \ {0} : x % l \in 0 .. l - 1
  OBVIOUS
<1>2. QED
  BY <1>1, NProcsAssumption, BarrierAssumption, Zenon DEF Manager, Procs

(* Where the steps of p's script are: the barrier follows the start-up, and *)
(* what is not the start-up, the barrier or the fault of process 0 is a     *)
(* request to exit or, elsewhere, the exit, which is the last step.         *)
LEMMA ScriptSteps ==
  ASSUME NEW p \in Procs
  PROVE  LET s == Script(p)
             l == Len(Startup(p))
         IN  /\ Len(s) \in Nat /\ Len(s) >= l + 2
             /\ \A k \in 1 .. l : s[k] \in StartupSteps
             /\ s[l + 1][1] = "barrier"
             /\ p = 0 => s[l + 2][1] = "diff" /\ \A k \in l + 3 .. Len(s) : s[k][1] = "ask"
             /\ p # 0 => Len(s) = l + 2 /\ s[l + 2][1] = "exit"
<1> DEFINE s == Script(p)
           l == Len(Startup(p))
           u == Startup(p)
           b == <<<<"barrier", Manager>>>>
           e == Ending(p)
<1>1. s = (u \o b) \o e
  BY Zenon DEF Script, Ending
<1>2. u \in Seq(StartupSteps) /\ l \in Nat
  BY StartupTyped, Zenon
<1>3. \A k \in 1 .. l : u[k] \in Steps /\ u[k] \in StartupSteps
  BY <1>2 DEF StartupSteps, Steps, Kinds
<1>4. u \in Seq(Steps)
  BY <1>2, <1>3
<1>5. b \in Seq(Steps) /\ Len(b) = 1 /\ b[1][1] = "barrier"
  BY ManagerTyped DEF Steps, Kinds, Procs
<1>6. /\ e \in Seq(Steps) /\ Len(e) \in Nat /\ Len(e) >= 1
      /\ p = 0 => e[1][1] = "diff" /\ \A k \in 2 .. Len(e) : e[k][1] = "ask"
      /\ p # 0 => Len(e) = 1 /\ e[1][1] = "exit"
  <2>1. CASE p # 0
    <3>1. e = <<<<"exit", 0>>>>
      BY <2>1, Zenon DEF Ending
    <3> HIDE DEF e
    <3>2. QED
      BY <2>1, <3>1 DEF Steps, Kinds
  <2>2. CASE p = 0
    <3> DEFINE d == <<<<"diff", NProcs - 1>>>>
               r == Rounds(<<"ask">>, 1, NProcs - 1)
    <3>1. e = d \o r
      BY <2>2, Zenon DEF Ending
    <3>2. d \in Seq(Steps) /\ Len(d) = 1 /\ d[1][1] = "diff"
      BY NProcsAssumption DEF Steps, Kinds
    <3>3. r \in Seq({"ask"} \X Int)
      <4> DEFINE K == {"ask"}
                 o == <<"ask">>
                 n == NProcs - 1
      <4>1. o \in Seq(K) /\ Len(o) = 1 /\ 1 \in Nat \ {0} /\ 1 \in Int
        OBVIOUS
      <4>2. n \in Nat /\ 1 * n \in Nat
        BY NProcsAssumption
      <4> HIDE DEF o, K, n
      <4>3. Rounds(o, 1, n) \in Seq(K \X Int)
        BY <4>1, <4>2, RoundsTyped, Zenon
      <4>4. QED
        BY <4>3, Zenon DEF o, K, n
    <3> HIDE DEF d, r, e
    <3>4. Len(r) \in Nat /\ \A k \in 1 .. Len(r) : r[k] \in Steps /\ r[k][1] = "ask"
      BY <3>3 DEF Steps, Kinds
    <3>5. r \in Seq(Steps)
      BY <3>3, <3>4, Widened, Zenon
    <3>6. /\ e \in Seq(Steps) /\ Len(e) = Len(d) + Len(r)
          /\ \A k \in 1 .. Len(d) + Len(r) : e[k] = IF k <= Len(d) THEN d[k] ELSE r[k - Len(d)]
      BY <3>1, <3>2, <3>5, ConcatProperties, Zenon
    <3>7. Len(e) = 1 + Len(r) /\ e[1] = d[1]
      BY <3>2, <3>4, <3>6
    <3>8. ASSUME NEW k \in 2 .. Len(e) PROVE e[k][1] = "ask"
      <4>1. e[k] = r[k - 1] /\ k - 1 \in 1 .. Len(r)
        BY <3>2, <3>4, <3>6, <3>7
      <4>2. QED
        BY <3>4, <4>1, Zenon
    <3>9. QED
      BY <2>2, <3>2, <3>4, <3>6, <3>7, <3>8
  <2>3. QED
    BY <2>1, <2>2, Zenon
<1> HIDE DEF s, u, b, e
<1> DEFINE c == u \o b
<1>7. /\ c \in Seq(Steps) /\ Len(c) = l + 1
      /\ \A k \in 1 .. l : c[k] = u[k]
      /\ c[l + 1] = b[1]
  <2> DEFINE m == Len(u)
  <2>1. m = l
    BY Zenon DEF u
  <2>2. /\ c \in Seq(Steps) /\ Len(c) = m + Len(b)
        /\ \A k \in 1 .. m + Len(b) : c[k] = IF k <= m THEN u[k] ELSE b[k - m]
    BY <1>4, <1>5, ConcatProperties, Zenon
  <2> HIDE DEF c, m, l
  <2>3. QED
    BY <1>2, <1>5, <2>1, <2>2
<1> HIDE DEF c, l
<1>8. /\ Len(s) = (l + 1) + Len(e)
      /\ \A k \in 1 .. l + 1 : s[k] = c[k]
      /\ \A k \in l + 2 .. Len(s) : s[k] = e[k - (l + 1)]
  <2>1. /\ Len(s) = Len(c) + Len(e)
        /\ \A k \in 1 .. Len(c) + Len(e) : s[k] = IF k <= Len(c) THEN c[k] ELSE e[k - Len(c)]
    <3>1. s = c \o e
      BY <1>1, Zenon DEF c
    <3>2. /\ Len(c \o e) = Len(c) + Len(e)
          /\ \A k \in 1 .. Len(c) + Len(e) :
               (c \o e)[k] = IF k <= Len(c) THEN c[k] ELSE e[k - Len(c)]
      <4>1. c \in Seq(Steps) /\ e \in Seq(Steps)
        BY <1>6, <1>7, Zenon
      <4>2. QED
        BY <4>1, ConcatProperties, Zenon
    <3>3. QED
      BY <3>1, <3>2, Zenon
  <2>2. QED
    BY <1>2, <1>6, <1>7, <2>1
<1>9. /\ Len(s) \in Nat /\ Len(s) >= l + 2
      /\ \A k \in 1 .. l : s[k] \in StartupSteps
      /\ s[l + 1][1] = "barrier"
  <2>1. Len(s) \in Nat /\ Len(s) >= l + 2
    BY <1>2, <1>6, <1>8
  <2>2. l + 1 \in 1 .. l + 1 /\ \A k \in 1 .. l : k \in 1 .. l + 1
    BY <1>2
  <2>3. QED
    BY <1>3, <1>5, <1>7, <1>8, <2>1, <2>2, Zenon
<1>10. p = 0 => s[l + 2][1] = "diff" /\ \A k \in l + 3 .. Len(s) : s[k][1] = "ask"
  <2>1. SUFFICES ASSUME p = 0
                 PROVE  s[l + 2][1] = "diff" /\ \A k \in l + 3 .. Len(s) : s[k][1] = "ask"
    OBVIOUS
  <2>2. s[l + 2] = e[1]
    BY <1>2, <1>6, <1>8
  <2>3. ASSUME NEW k \in l + 3 .. Len(s) PROVE s[k][1] = "ask"
    <3>1. s[k] = e[k - (l + 1)] /\ k - (l + 1) \in 2 .. Len(e)
      BY <1>2, <1>6, <1>8
    <3>2. QED
      BY <1>6, <2>1, <3>1
  <2>4. QED
    BY <1>6, <2>1, <2>2, <2>3, Zenon
<1>11. p # 0 => Len(s) = l + 2 /\ s[l + 2][1] = "exit"
  <2>1. SUFFICES ASSUME p # 0 PROVE Len(s) = l + 2 /\ s[l + 2][1] = "exit"
    OBVIOUS
  <2>2. Len(s) = l + 2
    <3>1. Len(e) = 1 /\ Len(s) = (l + 1) + Len(e)
      BY <1>6, <1>8, <2>1, Zenon
    <3>2. QED
      BY <1>2, <3>1
  <2>3. s[l + 2] = e[1]
    BY <1>2, <1>6, <1>8
  <2>4. QED
    BY <1>6, <2>1, <2>2, <2>3, Zenon
<1>12. QED
  BY <1>9, <1>10, <1>11, Zenon DEF s, l

-----------------------------------------------------------------------------
(* What p's step tells about its position. *)
LEMMA AskedLate ==
  ASSUME SessionInv, NEW p \in Procs, Step(p)[1] = "ask"
  PROVE  Leaving
<1> DEFINE s == Script(p)
           l == Len(Startup(p))
<1>1. pos[p] \in 1 .. Len(s) /\ Step(p) = s[pos[p]]
  BY DEF Step
<1>2. /\ l \in Nat /\ Len(s) \in Nat
      /\ \A k \in 1 .. l : s[k] \in StartupSteps
      /\ s[l + 1][1] = "barrier"
      /\ p = 0 => s[l + 2][1] = "diff"
      /\ p # 0 => Len(s) = l + 2 /\ s[l + 2][1] = "exit"
  BY ScriptSteps, StartupTyped, Zenon
<1>3. \A x \in StartupSteps : x[1] # "ask"
  BY DEF StartupSteps
<1> HIDE DEF s, l
<1>4. s[pos[p]][1] = "ask"
  BY <1>1, Zenon
<1>5. pos[p] \notin 1 .. l
  BY <1>2, <1>3, <1>4, Zenon
<1>6. pos[p] # l + 1 /\ pos[p] # l + 2
  <2>1. "ask" # "barrier" /\ "ask" # "diff" /\ "ask" # "exit"
    OBVIOUS
  <2>2. QED
    BY <1>2, <1>4, <2>1, Zenon
<1>7. p = 0
  BY <1>1, <1>2, <1>5, <1>6
<1>8. pos[p] > l + 2
  BY <1>1, <1>2, <1>5, <1>6
<1>9. QED
  BY <1>7, <1>8, Zenon DEF Leaving, Asking, l

LEMMA NotLast ==
  ASSUME SessionInv, NEW p \in Procs \ {0}, Step(p)[1] \notin {"exit", "none"}
  PROVE  pos[p] + 1 <= Len(Script(p))
<1> DEFINE s == Script(p)
<1>1. Len(s) \in Nat /\ s[Len(s)][1] = "exit"
  BY ScriptSteps, Zenon
<1>2. pos[p] \in 1 .. Len(s) /\ Step(p) = s[pos[p]]
  BY DEF Step
<1> HIDE DEF s
<1>3. pos[p] # Len(s)
  BY <1>1, <1>2
<1>4. pos[p] + 1 <= Len(s)
  BY <1>1, <1>2, <1>3
<1>5. QED
  BY <1>4, Zenon DEF s

LEMMA LeavingShown ==
  ASSUME SessionInv, Leaving
  PROVE  Step(0)[1] \in {"ask", "none"}
<1> DEFINE s == Script(0)
           l == Len(Startup(0))
<1>1. 0 \in Procs /\ pos[0] \in Nat
  BY NProcsAssumption DEF Procs, SessionInv
<1>2. l \in Nat /\ Len(s) \in Nat /\ \A k \in l + 3 .. Len(s) : s[k][1] = "ask"
  BY <1>1, ScriptSteps, StartupTyped, Zenon
<1>3. pos[0] > l + 2
  BY Zenon DEF Leaving, Asking
<1>4. Step(0) = IF pos[0] \in 1 .. Len(s) THEN s[pos[0]] ELSE <<"none", 0>>
  BY Zenon DEF Step
<1> HIDE DEF s, l
<1>5. pos[0] \in 1 .. Len(s) => pos[0] \in l + 3 .. Len(s)
  BY <1>1, <1>2, <1>3
<1>6. QED
  BY <1>2, <1>4, <1>5

-----------------------------------------------------------------------------
(* Process 0 does not go back, so what Leaving allows stays allowed. *)
LEMMA Grown ==
  ASSUME SessionInv, pos' \in [Procs -> Nat], pos'[0] >= pos[0]
  PROVE  Leaving => Leaving'
<1>1. 0 \in Procs /\ pos[0] \in Nat /\ pos'[0] \in Nat
  BY NProcsAssumption DEF Procs, SessionInv
<1>2. Asking \in Nat
  BY <1>1, StartupTyped DEF Asking
<1>3. Leaving' <=> pos'[0] > Asking
  BY DEF Leaving, Asking, Startup, Rounds
<1>4. Leaving <=> pos[0] > Asking
  BY Zenon DEF Leaving
<1> HIDE DEF Asking
<1>5. pos[0] > Asking => pos'[0] > Asking
  BY <1>1, <1>2
<1>6. QED
  BY <1>3, <1>4, <1>5, Zenon

(* A step of p alone that adds no request to exit. *)
LEMMA OwnStep ==
  ASSUME SessionInv, NEW p \in Procs, Advance(p), exit_flag' = exit_flag,
         \A m \in net' : m \in net \/ m[1] # "ask",
         p # 0 => pos[p] + 1 <= Len(Script(p)) \/ exit_flag[p]
  PROVE  SessionInv'
<1>1. pos' = [pos EXCEPT ![p] = pos[p] + 1] /\ pos \in [Procs -> Nat]
  BY Zenon DEF Advance, SessionInv
<1>2. pos' \in [Procs -> Nat]
  BY <1>1
<1>3. pos'[p] = pos[p] + 1 /\ \A q \in Procs : q # p => pos'[q] = pos[q]
  BY <1>1, Zenon
<1>4. pos'[0] >= pos[0]
  <2>1. 0 \in Procs
    BY NProcsAssumption DEF Procs
  <2>2. QED
    BY <1>1, <1>3, <2>1
<1>5. Leaving => Leaving'
  BY <1>2, <1>4, Grown, Zenon
<1>6. \A q \in Procs \ {0} : Gone(q)' => exit_flag[q]
  <2>1. SUFFICES ASSUME NEW q \in Procs \ {0}, Gone(q)' PROVE exit_flag[q]
    BY Zenon DEF Procs
  <2>2. pos'[q] > Len(Script(q))
    BY <2>1, Zenon DEF Gone, Script, Startup, Rounds, Manager
  <2>3. CASE q = p
    <3>1. Len(Script(q)) \in Nat /\ pos[p] \in Nat
      BY <1>1, ScriptSteps
    <3>2. ~ (pos[p] + 1 <= Len(Script(p)))
      BY <1>3, <2>2, <2>3, <3>1
    <3>3. QED
      BY <2>1, <2>3, <3>2, Zenon
  <2>4. CASE q # p
    BY <1>3, <2>2, <2>4, Zenon DEF SessionInv, Gone
  <2>5. QED
    BY <2>3, <2>4, Zenon
<1>7. QED
  BY <1>2, <1>5, <1>6, Zenon DEF SessionInv, Procs

(* A step that moves no process and adds no request to exit. *)
LEMMA NoMove ==
  ASSUME SessionInv, pos' = pos, exit_flag' = exit_flag,
         \A m \in net' : m \in net \/ m[1] # "ask"
  PROVE  SessionInv'
<1>1. Leaving' = Leaving /\ \A q : Gone(q)' = Gone(q)
  BY DEF Leaving, Asking, Gone, Script, Startup, Rounds, Manager
<1>2. QED
  BY <1>1, Zenon DEF SessionInv, Procs

LEMMA Answers ==
  ASSUME NEW kind, NEW p, NEW i, NEW m \in Answer(kind, p, i)
  PROVE  m[1] # "ask"
<1>1. m = <<"answer", p, i>>
  BY Zenon DEF Answer
<1>2. QED
  BY <1>1

-----------------------------------------------------------------------------
(* The actions. *)
LEMMA StartStep ==
  ASSUME SessionInv, NEW i \in Procs, start_process(i)
  PROVE  SessionInv'
<1>1. /\ Step(0) = <<"start", i>> /\ exit_flag' = exit_flag /\ net' = net
      /\ pos' = [pos EXCEPT ![0] = pos[0] + 1, ![i] = 1]
      /\ pos \in [Procs -> Nat]
  BY Zenon DEF start_process, SessionInv
<1>2. 0 \in Procs /\ pos[0] \in Nat
  BY <1>1, NProcsAssumption DEF Procs
<1>3. i # 0
  <2> DEFINE s == Script(0)
             l == Len(Startup(0))
  <2>1. pos[0] \in 1 .. Len(s) /\ s[pos[0]] = <<"start", i>>
    <3>1. <<"start", i>> # <<"none", 0>>
      OBVIOUS
    <3>2. QED
      BY <1>1, <3>1, Zenon DEF Step
  <2>2. /\ l \in Nat /\ Len(s) \in Nat /\ \A k \in 1 .. l : s[k] \in StartupSteps
        /\ s[l + 1][1] = "barrier" /\ s[l + 2][1] = "diff"
        /\ \A k \in l + 3 .. Len(s) : s[k][1] = "ask"
    BY <1>2, ScriptSteps, StartupTyped, Zenon
  <2> HIDE DEF s, l
  <2>3. s[pos[0]][1] = "start" /\ s[pos[0]][2] = i
    BY <2>1
  <2>4. pos[0] # l + 1 /\ pos[0] # l + 2 /\ pos[0] \notin l + 3 .. Len(s)
    BY <2>2, <2>3
  <2>5. pos[0] \in 1 .. l
    BY <2>1, <2>2, <2>4
  <2>6. s[pos[0]] \in StartupSteps
    BY <2>2, <2>5, Zenon
  <2>7. i > 0
    BY <2>3, <2>6 DEF StartupSteps
  <2>8. QED
    BY <2>7
<1>4. pos' \in [Procs -> Nat]
  BY <1>1, <1>2
<1>5. pos'[0] = pos[0] + 1 /\ pos'[i] = 1
      /\ \A q \in Procs : q # 0 /\ q # i => pos'[q] = pos[q]
  BY <1>1, <1>2, <1>3
<1>6. pos'[0] >= pos[0]
  BY <1>2, <1>5
<1>7. Leaving => Leaving'
  BY <1>4, <1>6, Grown, Zenon
<1>8. \A q \in Procs \ {0} : Gone(q)' => exit_flag[q]
  <2>1. SUFFICES ASSUME NEW q \in Procs \ {0}, Gone(q)' PROVE exit_flag[q]
    BY Zenon DEF Procs
  <2>2. pos'[q] > Len(Script(q))
    BY <2>1, Zenon DEF Gone, Script, Startup, Rounds, Manager
  <2>3. q # i
    <3>1. Len(Script(q)) \in Nat /\ Len(Startup(q)) \in Nat
          /\ Len(Script(q)) >= Len(Startup(q)) + 2
      BY ScriptSteps, StartupTyped, Zenon
    <3>2. ~ (1 > Len(Script(q)))
      BY <3>1
    <3>3. QED
      BY <1>5, <2>2, <3>2, Zenon
  <2>4. QED
    BY <1>5, <2>2, <2>3, Zenon DEF SessionInv, Gone
<1>9. QED
  BY <1>1, <1>4, <1>7, <1>8, Zenon DEF SessionInv, Procs

(* Only a step at "ask" sends a request to exit. *)
LEMMA RexmitStep ==
  ASSUME SessionInv, NEW p \in Procs, Rexmit(p)
  PROVE  SessionInv'
<1> DEFINE m == <<Step(p)[1], p, Step(p)[2]>>
<1>1. net' = net \cup {m} /\ pos' = pos /\ exit_flag' = exit_flag
  BY Zenon DEF Rexmit
<1>2. m[1] = Step(p)[1]
  OBVIOUS
<1> HIDE DEF m
<1>3. m[1] = "ask" => Leaving
  BY <1>2, AskedLate, Zenon
<1>4. CASE m[1] # "ask"
  BY <1>1, <1>4, NoMove, Zenon
<1>5. CASE m[1] = "ask"
  <2>1. Leaving' = Leaving /\ \A q : Gone(q)' = Gone(q)
    BY <1>1 DEF Leaving, Asking, Gone, Script, Startup, Rounds, Manager
  <2>2. QED
    BY <1>1, <1>3, <1>5, <2>1, Zenon DEF SessionInv, Procs
<1>6. QED
  BY <1>4, <1>5, Zenon

LEMMA AcceptStep ==
  ASSUME SessionInv, NEW p \in Procs, Tmk_accept(p)
  PROVE  SessionInv'
<1> DEFINE i == Step(p)[2]
<1>1. /\ Step(p)[1] = "accept" /\ Advance(p) /\ exit_flag' = exit_flag
      /\ net' = (net \ {<<"connect", i, p>>}) \cup Answer("connect", p, i)
  BY Zenon DEF Tmk_accept
<1>2. \A m \in net' : m \in net \/ m[1] # "ask"
  BY <1>1, Answers, Zenon
<1>3. Step(p)[1] \notin {"exit", "none"}
  BY <1>1
<1>4. p # 0 => pos[p] + 1 <= Len(Script(p))
  BY <1>3, NotLast, Zenon
<1>5. QED
  BY <1>1, <1>2, <1>4, OwnStep, Zenon

LEMMA ReturnStep ==
  ASSUME SessionInv, NEW p \in Procs, Return(p)
  PROVE  SessionInv'
<1>1. /\ Step(p)[1] \in {"connect", "diff", "ask"} \/ Step(p)[1] = "barrier"
      /\ Advance(p) /\ exit_flag' = exit_flag /\ net' \subseteq net
  BY Zenon DEF Return
<1>2. Step(p)[1] \notin {"exit", "none"}
  BY <1>1
<1>3. p # 0 => pos[p] + 1 <= Len(Script(p))
  BY <1>2, NotLast, Zenon
<1>4. QED
  BY <1>1, <1>3, OwnStep, Zenon

LEMMA ExitStep ==
  ASSUME SessionInv, NEW p \in Procs, Tmk_exit(p)
  PROVE  SessionInv'
<1>1. /\ exit_flag[p] /\ Advance(p) /\ exit_flag' = exit_flag
      /\ net' = net \cup {<<"answer", p, 0>>}
  BY Zenon DEF Tmk_exit, Asked
<1>2. <<"answer", p, 0>>[1] # "ask"
  OBVIOUS
<1>3. QED
  BY <1>1, <1>2, OwnStep, Zenon

LEMMA HandleStep ==
  ASSUME SessionInv, NEW p \in Procs, NEW i, Handle(p, i)
  PROVE  SessionInv'
<1>1. pos' = pos
  BY Zenon DEF Handle
<1>2. CASE AckAgain(p, i) \/ BarrierHandler(p, i) \/ DiffHandler(p, i)
  <2>1. exit_flag' = exit_flag
    BY <1>2, Zenon DEF AckAgain, BarrierHandler, DiffHandler
  <2>2. \A m \in net' : m \in net \/ m[1] # "ask"
    BY <1>2, Answers, Zenon DEF AckAgain, BarrierHandler, DiffHandler
  <2>3. QED
    BY <1>1, <2>1, <2>2, NoMove, Zenon
<1>3. CASE Tmk_exit_sigio_handler(p, i)
  <2>1. /\ <<"ask", i, p>> \in net /\ net' \subseteq net
        /\ exit_flag' = [exit_flag EXCEPT ![p] = TRUE]
    BY <1>3, Zenon DEF Tmk_exit_sigio_handler
  <2>2. <<"ask", i, p>>[1] = "ask"
    OBVIOUS
  <2>3. Leaving
    BY <2>1, <2>2, Zenon DEF SessionInv
  <2>4. Leaving' = Leaving /\ \A q : Gone(q)' = Gone(q)
    BY <1>1 DEF Leaving, Asking, Gone, Script, Startup, Rounds, Manager
  <2>5. DOMAIN exit_flag' = Procs /\ \A q \in Procs : exit_flag[q] => exit_flag'[q]
    BY <2>1, Zenon DEF SessionInv
  <2>6. QED
    BY <1>1, <2>1, <2>3, <2>4, <2>5, Zenon DEF SessionInv, Procs
<1>4. QED
  BY <1>2, <1>3, Zenon DEF Handle

LEMMA ManagerStep ==
  ASSUME SessionInv, BarrierManager
  PROVE  SessionInv'
<1>1. /\ Step(Manager)[1] = "barrier" /\ Advance(Manager) /\ exit_flag' = exit_flag
      /\ net' = net \cup {<<"answer", Manager, i>> : i \in mask}
  BY Zenon DEF BarrierManager
<1>2. \A i : <<"answer", Manager, i>>[1] # "ask"
  OBVIOUS
<1>3. \A m \in net' : m \in net \/ m[1] # "ask"
  BY <1>1, <1>2, Zenon
<1>4. Step(Manager)[1] \notin {"exit", "none"}
  BY <1>1
<1>5. Manager # 0 => pos[Manager] + 1 <= Len(Script(Manager))
  BY <1>4, ManagerTyped, NotLast, Zenon
<1>6. QED
  BY <1>1, <1>3, <1>5, ManagerTyped, OwnStep, Zenon

LEMMA SessionStart ==
  ASSUME Init
  PROVE  SessionInv
<1>1. /\ pos = [p \in Procs |-> IF p = 0 THEN 1 ELSE 0] /\ net = {}
      /\ exit_flag = [p \in Procs |-> FALSE]
  BY Zenon DEF Init
<1>2. pos \in [Procs -> Nat] /\ \A p \in Procs \ {0} : pos[p] = 0
  BY <1>1
<1>3. DOMAIN exit_flag = Procs /\ \A p \in Procs : ~ exit_flag[p]
  BY <1>1, Zenon
<1>4. ASSUME NEW p \in Procs \ {0} PROVE ~ Gone(p)
  <2>1. Len(Script(p)) \in Nat
    BY ScriptSteps, Zenon
  <2>2. ~ (0 > Len(Script(p)))
    BY <2>1
  <2>3. QED
    BY <1>2, <2>2, Zenon DEF Gone
<1>5. QED
  BY <1>1, <1>2, <1>3, <1>4, Zenon DEF SessionInv

LEMMA Invariance == Spec => []SessionInv
<1>1. Init => SessionInv
  BY SessionStart, Zenon
<1>2. SessionInv /\ [Next]_vars => SessionInv'
  <2>1. SUFFICES ASSUME SessionInv, [Next]_vars PROVE SessionInv'
    OBVIOUS
  <2>2. ASSUME NEW p \in Procs,
               \/ start_process(p) \/ Rexmit(p) \/ Tmk_accept(p) \/ Return(p) \/ Tmk_exit(p)
               \/ \E i \in Procs : Handle(p, i)
        PROVE  SessionInv'
    BY <2>1, <2>2, StartStep, RexmitStep, AcceptStep, ReturnStep, ExitStep, HandleStep, Zenon
  <2>3. ASSUME NEW m \in net, Lose(m) PROVE SessionInv'
    <3>1. pos' = pos /\ exit_flag' = exit_flag /\ net' \subseteq net
      BY <2>3, Zenon DEF Lose
    <3>2. QED
      BY <2>1, <3>1, NoMove, Zenon
  <2>4. CASE UNCHANGED vars
    <3>1. pos' = pos /\ exit_flag' = exit_flag /\ net' = net
      BY <2>4, Zenon DEF vars
    <3>2. QED
      BY <2>1, <3>1, NoMove, Zenon
  <2>5. QED
    BY <2>1, <2>2, <2>3, <2>4, ManagerStep, Zenon DEF Next
<1>3. QED
  BY <1>1, <1>2, PTL DEF Spec

(* No process but process 0 is gone before process 0 has left the program   *)
(* and asks for it in Tmk_exit: a lost, repeated or late datagram never     *)
(* makes Tmk_exit_sigio_handler see an exit request too early, and no other *)
(* step ends a script.                                                      *)
THEOREM ServedToTheEnd == Spec => []ServesProcessZero
<1>1. SessionInv => ServesProcessZero
  BY LeavingShown, Zenon DEF SessionInv, ServesProcessZero
<1>2. QED
  BY <1>1, Invariance, PTL

=============================================================================
