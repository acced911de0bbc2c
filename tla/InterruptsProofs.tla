-------------------------- MODULE InterruptsProofs --------------------------
(***************************************************************************)
(* Theorems about Interrupts, for every set of tasks and of interrupt      *)
(* lines: handlers run to their end and give their line back, interrupts   *)
(* come only when they can be served, every task has its own stack, and    *)
(* the linked list of the scheduler is a queue.                            *)
(*                                                                         *)
(* HandlersComplete is not inductive alone: that the line in service is    *)
(* that of the timer rests on the order of the set-up, after which every   *)
(* other line stays masked, and on the vectors, which by then are those    *)
(* of the kernel (IInv).  The other theorems need it, and besides that     *)
(* init_task is running or ready once it was created, and that the list    *)
(* holds some sequence of different tasks (TInv).                          *)
(***************************************************************************)
EXTENDS Interrupts, Basics, FiniteSetTheorems

(* The interrupt system is set up, as it is whenever an interrupt can come  *)
SetUp == base = "kernel" /\ idtr /\ 1 .. 15 \subseteq imr

(* Until the timer is on, the last step of the set-up, every line is masked *)
QuietBoot == mode = "boot" /\ booted >= 2 => intr = FALSE /\ imr = 0 .. 15

IInv ==
  /\ irr \subseteq Lines /\ isr \subseteq Lines /\ imr \subseteq 0 .. 15
  /\ iflag \in BOOLEAN
  /\ booted \in 0 .. Len(Steps)
  /\ mode = "boot" => booted < Len(Steps)
  /\ booted >= 1 => idtr
  /\ booted >= 2 => base = "kernel" /\ 1 .. 15 \subseteq imr
  /\ mode # "boot" => booted = Len(Steps)
  /\ iflag => booted >= 3
  /\ QuietBoot
  /\ HandlersComplete

-----------------------------------------------------------------------------
(***************************************************************************)
(* 1. The doubly linked list: when it holds the tasks s, in this order,    *)
(* and what the operations then make of it.                                *)
(***************************************************************************)
Links(s, pv, nx) ==
  /\ \A i \in 1 .. Len(s) : /\ nx[s[i]] = IF i = Len(s) THEN NULL ELSE s[i + 1]
                            /\ pv[s[i]] = IF i = 1 THEN NULL ELSE s[i - 1]
  /\ \A t \in Task : (\A i \in 1 .. Len(s) : s[i] # t) => pv[t] = NULL /\ nx[t] = NULL

Holds(l, s) ==
  /\ l \in Lists /\ s \in Seq(Task)
  /\ \A i, j \in 1 .. Len(s) : s[i] = s[j] => i = j
  /\ l.head = IF Len(s) = 0 THEN NULL ELSE s[1]
  /\ l.tail = IF Len(s) = 0 THEN NULL ELSE s[Len(s)]
  /\ Links(s, l.prev, l.next)

LEMMA HoldsFacts ==
  ASSUME NEW l, NEW s, Holds(l, s)
  PROVE  /\ Len(s) \in Nat /\ Len(s) <= Cardinality(Task) /\ Cardinality(Task) \in Nat
         /\ \A i \in 1 .. Len(s) : s[i] \in Task /\ s[i] # NULL
PROOF
  <1>1. Cardinality(Task) \in Nat
    BY TableAssumption, FS_CardinalityType
  <1>2. s \in Seq(Task) /\ Len(s) \in Nat
    BY DEF Holds
  <1>3. \A i \in 1 .. Len(s) : s[i] \in Task /\ s[i] # NULL
    BY <1>2, InitTaskAssumption
  <1> DEFINE n == Len(s)
             f == [i \in 1 .. n |-> s[i]]
  <1>4. IsFiniteSet(1 .. n) /\ Cardinality(1 .. n) = n
    BY <1>2, FS_Interval, SMTT(60)
  <1>5. SUFFICES ASSUME Cardinality(Task) < n PROVE FALSE
    BY <1>1, <1>2, <1>3
  <1>6. f \in [1 .. n -> Task]
    BY <1>3
  <1>7. PICK i, j \in 1 .. n : i # j /\ f[i] = f[j]
    <2> HIDE DEF f, n
    <2> QED BY <1>4, <1>5, <1>6, TableAssumption, FS_PigeonHole
  <1> QED BY <1>7 DEF Holds

LEMMA WalkSteps ==
  ASSUME NEW l, Cardinality(Task) \in Nat
  PROVE  /\ Walk(l)[0] = l.head
         /\ \A i \in 1 .. Cardinality(Task) :
              Walk(l)[i] = IF Walk(l)[i - 1] = NULL THEN NULL ELSE l.next[Walk(l)[i - 1]]
PROOF
  <1>1. Walk(l) = Trail(Cardinality(Task), l.head, NULL, l.next)
    BY DEF Walk, Trail
  <1> QED BY <1>1, TrailSteps

LEMMA WalkFollows ==
  ASSUME NEW l, NEW s, Holds(l, s)
  PROVE  \A i \in 0 .. Cardinality(Task) : Walk(l)[i] = IF i < Len(s) THEN s[i + 1] ELSE NULL
PROOF
  <1> DEFINE N == Cardinality(Task)
             T == {i \in 0 .. N : Walk(l)[i] = IF i < Len(s) THEN s[i + 1] ELSE NULL}
  <1>1. /\ Len(s) \in Nat /\ Len(s) <= N /\ N \in Nat
        /\ \A i \in 1 .. Len(s) : s[i] # NULL
    BY HoldsFacts
  <1>2. /\ Walk(l)[0] = l.head
        /\ \A i \in 1 .. N :
              Walk(l)[i] = IF Walk(l)[i - 1] = NULL THEN NULL ELSE l.next[Walk(l)[i - 1]]
    BY <1>1, WalkSteps
  <1>3. 0 \in T
    BY <1>1, <1>2 DEF Holds
  <1>4. ASSUME NEW i \in 0 .. N, i # N, i \in T
        PROVE  i + 1 \in T
    <2>1. i + 1 \in 1 .. N /\ i + 1 \in 0 .. N /\ (i + 1) - 1 = i
      BY <1>1, <1>4
    <2>2. Walk(l)[i + 1] = IF Walk(l)[i] = NULL THEN NULL ELSE l.next[Walk(l)[i]]
      BY <1>2, <2>1
    <2>3. CASE i < Len(s)
      <3>1. i + 1 \in 1 .. Len(s)
        BY <1>1, <2>3
      <3>2. Walk(l)[i] = s[i + 1] /\ s[i + 1] # NULL
        BY <1>1, <1>4, <2>3, <3>1
      <3>3. l.next[s[i + 1]] = IF i + 1 = Len(s) THEN NULL ELSE s[(i + 1) + 1]
        BY <3>1 DEF Holds, Links
      <3>4. Walk(l)[i + 1] = IF i + 1 < Len(s) THEN s[(i + 1) + 1] ELSE NULL
        BY <1>1, <2>2, <3>1, <3>2, <3>3
      <3> QED BY <2>1, <3>4
    <2>4. CASE ~(i < Len(s))
      <3>1. Walk(l)[i + 1] = NULL
        BY <1>4, <2>2, <2>4
      <3>2. ~(i + 1 < Len(s))
        BY <1>1, <2>4
      <3> QED BY <2>1, <3>1, <3>2
    <2> QED BY <2>3, <2>4
  <1>5. \A i \in 0 .. N : i \in T
    <2> HIDE DEF T, N
    <2> QED BY <1>1, <1>3, <1>4, Upwards
  <1> QED BY <1>5

LEMMA HoldsIn ==
  ASSUME NEW l, NEW s, Holds(l, s), NEW t \in Task
  PROVE  In(l, t) <=> \E i \in 1 .. Len(s) : s[i] = t
PROOF
  <1>1. /\ Len(s) \in Nat /\ Len(s) <= Cardinality(Task) /\ Cardinality(Task) \in Nat
        /\ \A i \in 0 .. Cardinality(Task) : Walk(l)[i] = IF i < Len(s) THEN s[i + 1] ELSE NULL
        /\ t # NULL
    BY HoldsFacts, WalkFollows, InitTaskAssumption
  <1>2. ASSUME In(l, t) PROVE \E i \in 1 .. Len(s) : s[i] = t
    <2>1. PICK i \in 0 .. Cardinality(Task) : Walk(l)[i] = t
      BY <1>2 DEF In
    <2>2. i < Len(s) /\ s[i + 1] = t
      BY <1>1, <2>1
    <2>3. i + 1 \in 1 .. Len(s)
      BY <1>1, <2>2
    <2> QED BY <2>2, <2>3
  <1>3. ASSUME NEW i \in 1 .. Len(s), s[i] = t PROVE In(l, t)
    <2>1. i - 1 \in 0 .. Cardinality(Task) /\ i - 1 < Len(s) /\ (i - 1) + 1 = i
      BY <1>1
    <2>2. Walk(l)[i - 1] = t
      BY <1>1, <1>3, <2>1
    <2> QED BY <2>1, <2>2 DEF In
  <1> QED BY <1>2, <1>3

LEMMA HoldsLinked ==
  ASSUME NEW l, NEW s, Holds(l, s)
  PROVE  Linked(l) = s
PROOF
  <1> DEFINE N == Cardinality(Task)
             D == {i \in 0 .. N - 1 : Walk(l)[i] # NULL}
  <1>1. /\ Len(s) \in Nat /\ Len(s) <= N /\ N \in Nat
        /\ \A i \in 1 .. Len(s) : s[i] # NULL
        /\ \A i \in 0 .. N : Walk(l)[i] = IF i < Len(s) THEN s[i + 1] ELSE NULL
        /\ s \in Seq(Task)
    BY HoldsFacts, WalkFollows DEF Holds
  <1> HIDE DEF N
  <1>2. D = 0 .. Len(s) - 1
    <2>1. ASSUME NEW i \in 0 .. N - 1
          PROVE  Walk(l)[i] # NULL <=> i < Len(s)
      BY <1>1
    <2> QED BY <1>1, <2>1
  <1>3. Cardinality(D) = Len(s)
    <2>1. Cardinality(0 .. Len(s) - 1) = Len(s)
      <3> DEFINE n == Len(s)
      <3> HIDE DEF n
      <3>1. 0 \in Int /\ n - 1 \in Int /\ n \in Nat
        BY <1>1 DEF n
      <3>2. Cardinality(0 .. n - 1) = IF 0 > n - 1 THEN 0 ELSE n - 1 - 0 + 1
        BY <3>1, FS_Interval
      <3>3. Cardinality(0 .. n - 1) = n
        BY <3>1, <3>2
      <3> QED BY <3>3 DEF n
    <2> QED BY <1>2, <2>1
  <1>4. Linked(l) = [i \in 1 .. Cardinality(D) |-> Walk(l)[i - 1]]
    BY DEF Linked, N
  <1> HIDE DEF D
  <1>5. \A i \in 1 .. Len(s) : Walk(l)[i - 1] = s[i]
    BY <1>1
  <1>6. s = [i \in 1 .. Len(s) |-> s[i]]
    BY <1>1
  <1> QED BY <1>3, <1>4, <1>5, <1>6

LEMMA HoldsSound ==
  ASSUME NEW l, NEW s, Holds(l, s)
  PROVE  ListSound(l)
PROOF
  <1>1. /\ Len(s) \in Nat /\ Len(s) <= Cardinality(Task) /\ Cardinality(Task) \in Nat
        /\ \A i \in 1 .. Len(s) : s[i] \in Task /\ s[i] # NULL
    BY HoldsFacts
  <1>2. Walk(l)[Cardinality(Task)] = NULL
    BY <1>1, WalkFollows
  <1>3. (l.head = NULL <=> Len(s) = 0) /\ (l.tail = NULL <=> Len(s) = 0)
    BY <1>1 DEF Holds
  <1>4. ASSUME Len(s) # 0
        PROVE  l.prev[l.head] = NULL /\ l.next[l.tail] = NULL /\ In(l, l.tail)
    <2>1. 1 \in 1 .. Len(s) /\ Len(s) \in 1 .. Len(s)
      BY <1>1, <1>4
    <2>2. l.head = s[1] /\ l.tail = s[Len(s)]
      BY <1>4 DEF Holds
    <2>3. In(l, s[Len(s)])
      BY <1>1, <2>1, HoldsIn
    <2> QED BY <2>1, <2>2, <2>3 DEF Holds, Links
  <1>5. ASSUME NEW t \in Task, In(l, t), l.next[t] # NULL
        PROVE  l.prev[l.next[t]] = t
    <2>1. PICK i \in 1 .. Len(s) : s[i] = t
      BY <1>5, HoldsIn
    <2>2. i # Len(s) /\ l.next[t] = s[i + 1]
      BY <1>5, <2>1 DEF Holds, Links
    <2>3. i + 1 \in 1 .. Len(s) /\ (i + 1) - 1 = i /\ i + 1 # 1
      BY <1>1, <2>1, <2>2
    <2>4. l.prev[s[i + 1]] = s[i]
      BY <2>3 DEF Holds, Links
    <2> QED BY <2>1, <2>2, <2>4
  <1>6. ASSUME NEW t \in Task, ~In(l, t)
        PROVE  l.prev[t] = NULL /\ l.next[t] = NULL
    BY <1>6, HoldsIn, SMTT(60) DEF Holds, Links
  <1> QED BY <1>2, <1>3, <1>4, <1>5, <1>6 DEF ListSound, Holds

LEMMA EmptyHolds == Holds(EmptyList, << >>)
BY DEF Holds, Links, EmptyList, Lists, Cell

(* task_list_add appends a task that is not on the list.                    *)
LEMMA AddedLinks ==
  ASSUME NEW s \in Seq(Task), \A i, j \in 1 .. Len(s) : s[i] = s[j] => i = j,
         NEW t \in Task, \A i \in 1 .. Len(s) : s[i] # t,
         NEW pv \in [Cell -> Cell], NEW nx \in [Cell -> Cell], Links(s, pv, nx)
  PROVE  Links(Append(s, t),
               [pv EXCEPT ![t] = IF Len(s) = 0 THEN NULL ELSE s[Len(s)]],
               IF Len(s) = 0 THEN [nx EXCEPT ![t] = NULL]
               ELSE [nx EXCEPT ![t] = NULL, ![s[Len(s)]] = t])
PROOF
  <1> DEFINE n == Len(s)
             r == Append(s, t)
             P == [pv EXCEPT ![t] = IF n = 0 THEN NULL ELSE s[n]]
             Q == IF n = 0 THEN [nx EXCEPT ![t] = NULL]
                  ELSE [nx EXCEPT ![t] = NULL, ![s[n]] = t]
  <1>1. /\ n \in Nat /\ \A i \in 1 .. n : s[i] \in Task /\ s[i] \in Cell
        /\ t \in Cell /\ n # 0 => n \in 1 .. n
    BY DEF Cell
  <1>2. /\ Len(r) = n + 1 /\ r[n + 1] = t
        /\ \A i \in 1 .. n : r[i] = s[i] /\ s[i] # t
    OBVIOUS
  <1>3. /\ \A i \in 1 .. n : /\ nx[s[i]] = IF i = n THEN NULL ELSE s[i + 1]
                           /\ pv[s[i]] = IF i = 1 THEN NULL ELSE s[i - 1]
        /\ \A u \in Task : (\A i \in 1 .. n : s[i] # u) => pv[u] = NULL /\ nx[u] = NULL
        /\ \A i, j \in 1 .. n : s[i] = s[j] => i = j
    BY DEF Links
  <1>4. /\ P[t] = IF n = 0 THEN NULL ELSE s[n]
        /\ n # 0 => Q[s[n]] = t
        /\ Q[t] = NULL
        /\ \A u \in Task : u # t => P[u] = pv[u]
        /\ \A u \in Task : u # t /\ ~(n # 0 /\ u = s[n]) => Q[u] = nx[u]
    BY <1>1, <1>2 DEF Cell
  <1> HIDE DEF n, r, P, Q
  <1>5. ASSUME NEW i \in 1 .. n + 1
        PROVE  /\ Q[r[i]] = IF i = n + 1 THEN NULL ELSE r[i + 1]
               /\ P[r[i]] = IF i = 1 THEN NULL ELSE r[i - 1]
    <2>1. CASE i = n + 1
      <3>1. i - 1 = n /\ (i = 1 <=> n = 0) /\ (n # 0 => r[n] = s[n])
        BY <1>1, <1>2, <2>1
      <3> QED BY <1>2, <1>4, <2>1, <3>1
    <2>2. CASE i \in 1 .. n
      <3>1. r[i] = s[i] /\ s[i] # t /\ s[i] \in Task /\ n # 0 /\ i # n + 1
        BY <1>1, <1>2, <2>2
      <3>2. i # 1 => i - 1 \in 1 .. n
        BY <1>1, <2>2
      <3>3. P[r[i]] = IF i = 1 THEN NULL ELSE r[i - 1]
        BY <1>2, <1>3, <1>4, <2>2, <3>1, <3>2
      <3>4. CASE i = n
        BY <1>2, <1>4, <3>1, <3>3, <3>4
      <3>5. CASE i # n
        <4>1. i + 1 \in 1 .. n
          BY <1>1, <2>2, <3>5
        <4>2. s[i] # s[n]
          BY <1>1, <1>3, <2>2, <3>1, <3>5
        <4>3. Q[r[i]] = s[i + 1]
          BY <1>3, <1>4, <2>2, <3>1, <3>5, <4>2
        <4> QED BY <1>2, <3>1, <3>3, <4>1, <4>3
      <3> QED BY <3>4, <3>5
    <2> QED BY <1>1, <2>1, <2>2
  <1>6. ASSUME NEW u \in Task, \A i \in 1 .. n + 1 : r[i] # u
        PROVE  P[u] = NULL /\ Q[u] = NULL
    <2>1. n + 1 \in 1 .. n + 1 /\ \A i \in 1 .. n : i \in 1 .. n + 1
      BY <1>1
    <2>2. u # t /\ \A i \in 1 .. n : s[i] # u
      BY <1>2, <1>6, <2>1
    <2>3. ~(n # 0 /\ u = s[n])
      BY <1>1, <2>2
    <2> QED BY <1>3, <1>4, <2>2, <2>3
  <1>7. Links(r, P, Q)
    BY <1>2, <1>5, <1>6 DEF Links
  <1> QED BY <1>7 DEF n, r, P, Q

LEMMA AddedHolds ==
  ASSUME NEW l, NEW s, Holds(l, s), NEW t \in Task, \A i \in 1 .. Len(s) : s[i] # t
  PROVE  Holds(Added(l, t), Append(s, t))
PROOF
  <1> DEFINE P == [l.prev EXCEPT ![t] = IF Len(s) = 0 THEN NULL ELSE s[Len(s)]]
             Q == IF Len(s) = 0 THEN [l.next EXCEPT ![t] = NULL]
                  ELSE [l.next EXCEPT ![t] = NULL, ![s[Len(s)]] = t]
             m == Added(l, t)
             r == Append(s, t)
  <1>1. /\ Len(s) \in Nat /\ \A i \in 1 .. Len(s) : s[i] \in Task /\ s[i] # NULL
        /\ t # NULL /\ s \in Seq(Task) /\ t \in Cell /\ NULL \in Cell
        /\ l \in Lists /\ l.prev \in [Cell -> Cell] /\ l.next \in [Cell -> Cell]
        /\ \A i, j \in 1 .. Len(s) : s[i] = s[j] => i = j
        /\ Links(s, l.prev, l.next)
        /\ l.head = IF Len(s) = 0 THEN NULL ELSE s[1]
        /\ l.tail = IF Len(s) = 0 THEN NULL ELSE s[Len(s)]
    BY HoldsFacts, InitTaskAssumption DEF Holds, Cell, Lists
  <1>2. l.head = NULL <=> Len(s) = 0
    BY <1>1
  <1>3. /\ m.head = (IF Len(s) = 0 THEN t ELSE s[1]) /\ m.tail = t
        /\ m.prev = P /\ m.next = Q /\ m \in Lists
    <2>1. CASE Len(s) = 0
      <3>1. m = [head |-> t, tail |-> t, prev |-> P, next |-> Q]
        BY <1>1, <1>2, <2>1 DEF Added, Lists
      <3> QED BY <1>1, <2>1, <3>1 DEF Lists
    <2>2. CASE Len(s) # 0
      <3>1. m = [head |-> l.head, tail |-> t, prev |-> P, next |-> Q]
        BY <1>1, <1>2, <2>2 DEF Added, Lists
      <3>2. s[Len(s)] \in Cell
        BY <1>1, <2>2 DEF Cell
      <3>3. P \in [Cell -> Cell] /\ Q \in [Cell -> Cell] /\ l.head \in Cell
        BY <1>1, <3>2 DEF Lists
      <3> HIDE DEF P, Q, m
      <3> QED BY <1>1, <2>2, <3>1, <3>3 DEF Lists
    <2> QED BY <2>1, <2>2
  <1>4. Links(r, P, Q)
    BY <1>1, AddedLinks
  <1>5. /\ r \in Seq(Task) /\ Len(r) = Len(s) + 1 /\ r[Len(s) + 1] = t
        /\ \A i \in 1 .. Len(s) : r[i] = s[i]
    BY <1>1
  <1>6. \A i, j \in 1 .. Len(r) : r[i] = r[j] => i = j
    BY <1>1, <1>5
  <1>7. /\ Len(r) # 0 /\ r[Len(r)] = t
        /\ r[1] = IF Len(s) = 0 THEN t ELSE s[1]
    BY <1>1, <1>5
  <1> HIDE DEF m, P, Q, r
  <1>8. Holds(m, r)
    BY <1>3, <1>4, <1>5, <1>6, <1>7 DEF Holds
  <1> QED BY <1>8 DEF m, r

(* task_list_remove of the head: schedule_handler removes no other task.    *)
LEMMA RemovedLinks ==
  ASSUME NEW s \in Seq(Task), s # << >>, \A i, j \in 1 .. Len(s) : s[i] = s[j] => i = j,
         NEW pv \in [Cell -> Cell], NEW nx \in [Cell -> Cell], Links(s, pv, nx)
  PROVE  Links(Tail(s), [pv EXCEPT ![nx[s[1]]] = pv[s[1]], ![s[1]] = NULL],
                        [nx EXCEPT ![pv[s[1]]] = nx[s[1]], ![s[1]] = NULL])
PROOF
  <1> DEFINE n == Len(s)
             h == s[1]
             r == Tail(s)
             P == [pv EXCEPT ![nx[h]] = pv[h], ![h] = NULL]
             Q == [nx EXCEPT ![pv[h]] = nx[h], ![h] = NULL]
  <1>1. /\ n \in Nat /\ n # 0 /\ 1 \in 1 .. n /\ h \in Task
        /\ \A i \in 1 .. n : s[i] \in Task /\ s[i] # NULL
        /\ \A u \in Task : u \in Cell /\ u # NULL
        /\ NULL \in Cell
    BY InitTaskAssumption DEF Cell
  <1>2. Len(r) = n - 1 /\ \A i \in 1 .. n - 1 : r[i] = s[i + 1]
    BY <1>1
  <1>3. /\ \A i \in 1 .. n : /\ nx[s[i]] = IF i = n THEN NULL ELSE s[i + 1]
                           /\ pv[s[i]] = IF i = 1 THEN NULL ELSE s[i - 1]
        /\ \A u \in Task : (\A i \in 1 .. n : s[i] # u) => pv[u] = NULL /\ nx[u] = NULL
        /\ \A i, j \in 1 .. n : s[i] = s[j] => i = j
    BY DEF Links
  <1>4. pv[h] = NULL /\ nx[h] = IF n = 1 THEN NULL ELSE s[2]
    <2>1. nx[s[1]] = (IF 1 = n THEN NULL ELSE s[1 + 1]) /\ pv[s[1]] = NULL
      <3> HIDE DEF n, h, P, Q, r
      <3> QED BY <1>1, <1>3
    <2>2. 1 + 1 = 2
      OBVIOUS
    <2> QED BY <2>1, <2>2
  <1>5. /\ P[h] = NULL /\ Q[h] = NULL
        /\ \A u \in Task : u # h => Q[u] = nx[u]
        /\ \A u \in Task : u # h => P[u] = IF u = nx[h] THEN NULL ELSE pv[u]
    BY <1>1, <1>4
  <1> HIDE DEF n, h, r, P, Q
  <1>6. h = s[1]
    BY DEF h
  <1>7. ASSUME NEW i \in 1 .. n - 1
        PROVE  /\ Q[r[i]] = IF i = n - 1 THEN NULL ELSE r[i + 1]
               /\ P[r[i]] = IF i = 1 THEN NULL ELSE r[i - 1]
    <2>1. i + 1 \in 1 .. n /\ i + 1 # 1 /\ (i + 1) - 1 = i /\ (i + 1 = n <=> i = n - 1)
          /\ i \in 1 .. n
      BY <1>1
    <2>2. r[i] = s[i + 1] /\ s[i + 1] \in Task /\ s[i + 1] # h
      BY <1>1, <1>2, <1>3, <1>6, <2>1
    <2>3. Q[r[i]] = IF i = n - 1 THEN NULL ELSE s[(i + 1) + 1]
      BY <1>3, <1>5, <2>1, <2>2
    <2>4. i # n - 1 => i + 1 \in 1 .. n - 1
      BY <1>1
    <2>5. Q[r[i]] = IF i = n - 1 THEN NULL ELSE r[i + 1]
      BY <1>2, <2>3, <2>4
    <2>6. CASE i = 1
      <3>1. s[i + 1] = nx[h]
        BY <1>1, <1>4, <2>1, <2>6
      <3> QED BY <1>5, <2>2, <2>5, <2>6, <3>1
    <2>7. CASE i # 1
      <3>1. i - 1 \in 1 .. n - 1 /\ (i - 1) + 1 = i /\ n # 1 /\ 2 \in 1 .. n
        BY <1>1, <2>7
      <3>2. r[i - 1] = s[i]
        BY <1>2, <3>1
      <3>3. s[i + 1] # s[2] /\ nx[h] = s[2]
        BY <1>1, <1>3, <1>4, <2>1, <2>7, <3>1
      <3>4. P[r[i]] = pv[s[i + 1]]
        BY <1>5, <2>2, <3>3
      <3>5. pv[s[i + 1]] = s[i]
        BY <1>3, <2>1
      <3> QED BY <2>5, <2>7, <3>2, <3>4, <3>5
    <2> QED BY <2>6, <2>7
  <1>8. ASSUME NEW u \in Task, \A i \in 1 .. n - 1 : r[i] # u
        PROVE  P[u] = NULL /\ Q[u] = NULL
    <2>1. CASE u = h
      BY <1>5, <2>1
    <2>2. CASE u # h
      <3>1. ASSUME NEW i \in 1 .. n PROVE s[i] # u
        <4>1. CASE i = 1
          BY <1>6, <2>2, <4>1
        <4>2. CASE i # 1
          <5>1. i - 1 \in 1 .. n - 1 /\ (i - 1) + 1 = i
            BY <1>1, <4>2
          <5> QED BY <1>2, <1>8, <5>1
        <4> QED BY <4>1, <4>2
      <3> QED BY <1>3, <1>5, <2>2, <3>1
    <2> QED BY <2>1, <2>2
  <1>9. Links(r, P, Q)
    BY <1>2, <1>7, <1>8 DEF Links
  <1> QED BY <1>9 DEF n, h, r, P, Q

LEMMA RemovedHolds ==
  ASSUME NEW l, NEW s, Holds(l, s), s # << >>
  PROVE  Holds(Removed(l, l.head), Tail(s))
PROOF
  <1> DEFINE h == s[1]
             P == [l.prev EXCEPT ![l.next[h]] = l.prev[h], ![h] = NULL]
             Q == [l.next EXCEPT ![l.prev[h]] = l.next[h], ![h] = NULL]
             m == Removed(l, h)
             r == Tail(s)
             n == Len(s)
  <1>1. /\ n \in Nat /\ n # 0 /\ 1 \in 1 .. n /\ n \in 1 .. n
        /\ \A i \in 1 .. n : s[i] \in Task /\ s[i] # NULL /\ s[i] \in Cell
        /\ s \in Seq(Task) /\ NULL \in Cell
        /\ l \in Lists /\ l.prev \in [Cell -> Cell] /\ l.next \in [Cell -> Cell]
        /\ \A i, j \in 1 .. n : s[i] = s[j] => i = j
        /\ Links(s, l.prev, l.next)
        /\ l.head = h /\ l.tail = s[n]
    <2>1. n \in Nat /\ n # 0 /\ s \in Seq(Task)
      BY DEF Holds
    <2>2. 1 \in 1 .. n /\ n \in 1 .. n
      BY <2>1
    <2>3. \A i \in 1 .. n : s[i] \in Task /\ s[i] # NULL /\ s[i] \in Cell
      BY HoldsFacts DEF Cell
    <2>4. l \in Lists /\ l.prev \in [Cell -> Cell] /\ l.next \in [Cell -> Cell] /\ NULL \in Cell
      BY DEF Holds, Lists, Cell
    <2>5. /\ \A i, j \in 1 .. n : s[i] = s[j] => i = j
          /\ Links(s, l.prev, l.next)
          /\ l.head = h /\ l.tail = s[n]
      BY <2>1 DEF Holds
    <2> QED BY <2>1, <2>2, <2>3, <2>4, <2>5
  <1>2. /\ l.prev[h] = NULL /\ l.next[h] = IF n = 1 THEN NULL ELSE s[2]
    <2>1. l.next[s[1]] = (IF 1 = n THEN NULL ELSE s[1 + 1]) /\ l.prev[s[1]] = NULL
      BY <1>1 DEF Links
    <2>2. 1 + 1 = 2
      OBVIOUS
    <2> QED BY <2>1, <2>2
  <1>3. In(l, h)
    BY <1>1, HoldsIn
  <1>4. h = l.tail <=> n = 1
    BY <1>1
  <1>5. m = [head |-> l.next[h], tail |-> IF n = 1 THEN NULL ELSE l.tail, prev |-> P, next |-> Q]
    BY <1>1, <1>2, <1>3, <1>4 DEF Removed, Unlinked, NewTail, Lists
  <1>6. Links(r, P, Q)
    BY <1>1, RemovedLinks
  <1>7. /\ r \in Seq(Task) /\ Len(r) = n - 1
        /\ \A i \in 1 .. n - 1 : r[i] = s[i + 1]
    BY <1>1
  <1>8. m \in Lists
    <2>1. P \in [Cell -> Cell] /\ Q \in [Cell -> Cell] /\ l.next[h] \in Cell /\ l.tail \in Cell
      BY <1>1
    <2> HIDE DEF P, Q, m, h
    <2> QED BY <1>1, <1>5, <2>1 DEF Lists
  <1> HIDE DEF m, P, Q, r, n, h
  <1>9. /\ m.head = IF Len(r) = 0 THEN NULL ELSE r[1]
        /\ m.tail = IF Len(r) = 0 THEN NULL ELSE r[Len(r)]
    <2>1. CASE n = 1
      BY <1>2, <1>5, <1>7, <2>1
    <2>2. CASE n # 1
      <3>1. 1 \in 1 .. n - 1 /\ n - 1 \in 1 .. n - 1 /\ (n - 1) + 1 = n /\ n - 1 # 0
        BY <1>1, <2>2
      <3> QED BY <1>1, <1>2, <1>5, <1>7, <2>2, <3>1
    <2> QED BY <2>1, <2>2
  <1>10. ASSUME NEW i \in 1 .. n - 1, NEW j \in 1 .. n - 1, r[i] = r[j]
         PROVE  i = j
    <2>1. i + 1 \in 1 .. n /\ j + 1 \in 1 .. n
      BY <1>1
    <2>2. s[i + 1] = s[j + 1]
      BY <1>7, <1>10
    <2>3. i + 1 = j + 1
      BY <1>1, <2>1, <2>2
    <2> QED BY <2>3
  <1>11. Holds(m, r)
    BY <1>5, <1>6, <1>7, <1>8, <1>9, <1>10 DEF Holds
  <1> QED BY <1>1, <1>11 DEF m, r, h

(* The same without the sequence                                            *)
Proper(l) == \E s : Holds(l, s)

LEMMA ProperIs ==
  ASSUME NEW l, Proper(l)
  PROVE  /\ ListSound(l) /\ l \in Lists
         /\ Linked(l) \in Seq(Task)
         /\ \A t \in Task : In(l, t) <=> \E i \in 1 .. Len(Linked(l)) : Linked(l)[i] = t
         /\ l.head = NULL <=> Linked(l) = << >>
         /\ l.head # NULL => l.head \in Task /\ In(l, l.head)
PROOF
  <1>1. PICK s : Holds(l, s)
    BY DEF Proper
  <1>2. Linked(l) = s /\ ListSound(l) /\ s \in Seq(Task) /\ l \in Lists
    BY <1>1, HoldsLinked, HoldsSound DEF Holds
  <1>3. \A t \in Task : In(l, t) <=> \E i \in 1 .. Len(s) : s[i] = t
    BY <1>1, HoldsIn
  <1>4. /\ Len(s) = 0 => l.head = NULL
        /\ Len(s) # 0 => l.head = s[1] /\ 1 \in 1 .. Len(s) /\ s[1] \in Task /\ s[1] # NULL
    BY <1>1, <1>2, InitTaskAssumption DEF Holds
  <1>5. Len(s) = 0 <=> s = << >>
    BY <1>2
  <1> QED BY <1>2, <1>3, <1>4, <1>5

LEMMA Adding ==
  ASSUME NEW l, Proper(l), NEW t \in Task, ~In(l, t)
  PROVE  /\ Proper(Added(l, t))
         /\ Linked(Added(l, t)) = Append(Linked(l), t)
         /\ \A u \in Task : In(Added(l, t), u) <=> In(l, u) \/ u = t
PROOF
  <1>1. PICK s : Holds(l, s)
    BY DEF Proper
  <1>2. s \in Seq(Task) /\ \A i \in 1 .. Len(s) : s[i] # t
    BY <1>1, HoldsIn DEF Holds
  <1>3. Holds(Added(l, t), Append(s, t))
    BY <1>1, <1>2, AddedHolds
  <1>4. Linked(l) = s /\ Linked(Added(l, t)) = Append(s, t)
    BY <1>1, <1>3, HoldsLinked
  <1>5. ASSUME NEW u \in Task
        PROVE  In(Added(l, t), u) <=> In(l, u) \/ u = t
    <2>1. In(Added(l, t), u) <=> \E i \in 1 .. Len(Append(s, t)) : Append(s, t)[i] = u
      <3>1. \A m, r : Holds(m, r) => (In(m, u) <=> \E i \in 1 .. Len(r) : r[i] = u)
        BY HoldsIn
      <3> QED BY <1>3, <3>1, Zenon
    <2>2. In(l, u) <=> \E i \in 1 .. Len(s) : s[i] = u
      BY <1>1, HoldsIn
    <2>3. /\ Len(Append(s, t)) = Len(s) + 1 /\ Append(s, t)[Len(s) + 1] = t
          /\ \A i \in 1 .. Len(s) : Append(s, t)[i] = s[i]
          /\ Len(s) \in Nat
      BY <1>2
    <2>4. /\ Len(s) + 1 \in 1 .. Len(s) + 1
          /\ \A i : i \in 1 .. Len(s) + 1 <=> i \in 1 .. Len(s) \/ i = Len(s) + 1
      BY <2>3
    <2> QED BY <2>1, <2>2, <2>3, <2>4
  <1> QED BY <1>3, <1>4, <1>5 DEF Proper

LEMMA Removing ==
  ASSUME NEW l, Proper(l), l.head # NULL
  PROVE  /\ Proper(Removed(l, l.head))
         /\ Linked(l) # << >> /\ Linked(Removed(l, l.head)) = Tail(Linked(l))
         /\ \A u \in Task : In(Removed(l, l.head), u) <=> In(l, u) /\ u # l.head
PROOF
  <1>1. PICK s : Holds(l, s)
    BY DEF Proper
  <1>2. /\ Linked(l) = s /\ s # << >> /\ s \in Seq(Task) /\ Len(s) \in Nat /\ Len(s) # 0
        /\ l.head = s[1]
        /\ \A i, j \in 1 .. Len(s) : s[i] = s[j] => i = j
    BY <1>1, HoldsLinked DEF Holds
  <1>3. Holds(Removed(l, l.head), Tail(s))
    BY <1>1, <1>2, RemovedHolds
  <1>4. Linked(Removed(l, l.head)) = Tail(s)
    BY <1>3, HoldsLinked
  <1>5. ASSUME NEW u \in Task
        PROVE  In(Removed(l, l.head), u) <=> In(l, u) /\ u # l.head
    <2>1. In(Removed(l, l.head), u) <=> \E i \in 1 .. Len(Tail(s)) : Tail(s)[i] = u
      BY <1>3, HoldsIn, ZenonT(60)
    <2>2. In(l, u) <=> \E i \in 1 .. Len(s) : s[i] = u
      BY <1>1, HoldsIn, ZenonT(60)
    <2>3. /\ Len(Tail(s)) = Len(s) - 1
          /\ \A i \in 1 .. Len(s) - 1 : Tail(s)[i] = s[i + 1]
      BY <1>2
    <2>4. ASSUME NEW i \in 1 .. Len(s) - 1
          PROVE  i + 1 \in 1 .. Len(s) /\ s[i + 1] # s[1]
      BY <1>2
    <2>5. ASSUME NEW i \in 1 .. Len(s), i # 1
          PROVE  i - 1 \in 1 .. Len(s) - 1 /\ (i - 1) + 1 = i
      BY <1>2, <2>5
    <2>6. ASSUME NEW i \in 1 .. Len(Tail(s)), Tail(s)[i] = u PROVE In(l, u) /\ u # l.head
      BY <1>2, <2>2, <2>3, <2>4, <2>6
    <2>7. ASSUME NEW i \in 1 .. Len(s), s[i] = u, u # l.head
          PROVE  \E j \in 1 .. Len(Tail(s)) : Tail(s)[j] = u
      <3>1. i # 1
        BY <1>2, <2>7
      <3>2. i - 1 \in 1 .. Len(Tail(s)) /\ Tail(s)[i - 1] = u
        BY <2>3, <2>5, <2>7, <3>1
      <3> QED BY <3>2
    <2> QED BY <2>1, <2>2, <2>6, <2>7
  <1> QED BY <1>2, <1>3, <1>4, <1>5 DEF Proper

-----------------------------------------------------------------------------
(***************************************************************************)
(* 2. Handlers run to their end and give their line back.                  *)
(***************************************************************************)
LEMMA StepsOfInit ==
  /\ Len(Steps) = 6
  /\ \A i \in 1 .. 6 : /\ Steps[i] = "idt" <=> i = 1
                       /\ Steps[i] = "pic" <=> i = 2
                       /\ Steps[i] = "sti" <=> i = 3
                       /\ Steps[i] = "create" <=> i = 4
                       /\ Steps[i] = "ready" <=> i = 5
                       /\ Steps[i] = "timer" <=> i = 6
BY DEF Steps

LEMMA InitIInv == Init => IInv
PROOF
  <1> SUFFICES ASSUME Init PROVE IInv
    OBVIOUS
  <1>1. /\ irr \subseteq Lines /\ isr = {} /\ imr = {} /\ booted = 0
        /\ mode = "boot" /\ iflag = FALSE
    BY DEF Init
  <1>2. HandlersComplete
    BY <1>1 DEF HandlersComplete, Handlers
  <1>3. isr \subseteq Lines /\ imr \subseteq 0 .. 15 /\ booted \in 0 .. Len(Steps) /\ booted < Len(Steps)
    BY <1>1, StepsOfInit
  <1>4. ~(booted >= 1) /\ ~(booted >= 2)
    BY <1>1
  <1> QED BY <1>1, <1>2, <1>3, <1>4, Zenon DEF IInv, QuietBoot

(* Which line the CPU can be asked for once the set-up is done             *)
LEMMA OnlyTheTimer ==
  ASSUME IInv, SetUp
  PROVE  Wanted(irr, imr, isr) \subseteq {0}
PROOF
  <1> SUFFICES ASSUME NEW q \in Lines, q \notin imr PROVE q = 0
    BY DEF IInv, Wanted
  <1>1. q = 0 \/ q \in 1 .. 15
    BY LinesAssumption
  <1> QED BY <1>1 DEF SetUp

LEMMA BootStep == IInv /\ Boot => IInv'
PROOF
  <1> SUFFICES ASSUME IInv, Boot PROVE IInv'
    OBVIOUS
  <1>1. /\ mode = "boot" /\ booted \in 0 .. 5 /\ booted' = booted + 1
        /\ mode' = IF booted' = 6 THEN "idle" ELSE "boot"
        /\ idtr' = (idtr \/ Steps[booted'] = "idt")
        /\ iflag' = (iflag \/ Steps[booted'] = "sti")
        /\ isr = {}
    BY StepsOfInit DEF IInv, Boot, Executes, HandlersComplete
  <1>2. /\ iflag' \in BOOLEAN
        /\ iflag' => booted' >= 3
        /\ idtr' = (idtr \/ booted' = 1)
    BY <1>1, StepsOfInit DEF IInv
  <1>3. isr' = {} => HandlersComplete'
    BY <1>1 DEF HandlersComplete, Handlers
  <1>4. /\ booted' \in 0 .. Len(Steps)
        /\ mode' = "boot" => booted' < Len(Steps)
        /\ mode' # "boot" => booted' = Len(Steps)
        /\ booted' >= 1 => idtr'
    <2>1. booted' \in 0 .. Len(Steps) /\ (booted' # 6 => booted' < Len(Steps))
      BY <1>1, StepsOfInit
    <2>2. booted' >= 1 => booted' = 1 \/ booted >= 1
      BY <1>1
    <2>3. booted' >= 1 => idtr'
      BY <1>2, <2>2, Zenon DEF IInv
    <2> QED BY <1>1, <2>1, <2>3, StepsOfInit
  <1>5. CASE booted' = 2
    <2>1. PicInit
      BY <1>1, <1>5, StepsOfInit DEF Boot
    <2>2. /\ base' = "kernel" /\ irr' = {} /\ isr' = {} /\ imr' = 0 .. 15
          /\ intr' = FALSE
      BY <2>1 DEF PicInit, MaskAfterInit
    <2>3. 1 .. 15 \subseteq imr' /\ imr' \subseteq 0 .. 15
      BY <2>2
    <2>4. irr' \subseteq Lines /\ isr' \subseteq Lines
      BY <2>2
    <2> QED BY <1>2, <1>3, <1>4, <2>2, <2>3, <2>4, Zenon DEF IInv, QuietBoot
  <1>6. CASE booted' = 6
    <2>1. EnableIrq(0)
      BY <1>1, <1>6, StepsOfInit DEF Boot
    <2>2. UNCHANGED <<base, irr, isr>> /\ imr' = imr \ {0}
      BY <2>1 DEF EnableIrq
    <2>3. 1 .. 15 \subseteq imr
      BY <1>1, <1>6 DEF IInv
    <2>4. 1 .. 15 \subseteq imr' /\ imr' \subseteq 0 .. 15
      BY <2>2, <2>3 DEF IInv
    <2>5. base' = "kernel"
      BY <1>1, <1>6, <2>2 DEF IInv
    <2>6. mode' # "boot"
      BY <1>1, <1>6
    <2> QED BY <1>1, <1>2, <1>3, <1>4, <2>2, <2>4, <2>5, <2>6, Zenon DEF IInv, QuietBoot
  <1>7. CASE booted' # 2 /\ booted' # 6
    <2>1. UNCHANGED pic
      BY <1>1, <1>7, StepsOfInit DEF Boot
    <2>2. UNCHANGED <<base, irr, isr, imr, intr>>
      BY <2>1 DEF pic
    <2>3. booted' >= 2 => booted >= 2
      BY <1>1, <1>7
    <2> QED BY <1>1, <1>2, <1>3, <1>4, <2>2, <2>3, Zenon DEF IInv, QuietBoot
  <1> QED BY <1>5, <1>6, <1>7

(* An interrupt that is taken is the tick of the timer or a spurious one.   *)
LEMMA InterruptStep == IInv /\ Interrupt => IInv'
PROOF
  <1> SUFFICES ASSUME IInv, Interrupt PROVE IInv'
    OBVIOUS
  <1>1. SetUp /\ isr = {} /\ iflag
    BY StepsOfInit DEF IInv, Interrupt, SetUp, HandlersComplete, Handlers
  <1>2. Wanted(irr, imr, isr) \subseteq {0}
    BY <1>1, OnlyTheTimer
  <1>3. /\ Vector(0) = 32 /\ Vector(7) = 39 /\ Service(32) = "timer" /\ Service(39) = "spurious"
    BY <1>1 DEF SetUp, Vector, Service, IDT_PIC1_OFFSET, IDT_PIC2_OFFSET
  <1>4. UNCHANGED <<base, imr, latch, idtr, booted>>
    BY DEF Interrupt
  <1>5. booted = Len(Steps)
    <2>1. mode # "boot"
      BY DEF IInv, QuietBoot, Interrupt
    <2> QED BY <2>1 DEF IInv
  <1>6. CASE Wanted(irr, imr, isr) = {}
    <2>1. Enter(39) /\ irr' = irr /\ isr' = isr
      BY <1>3, <1>6 DEF Interrupt
    <2>2. mode' = "spurious" /\ iflag' = FALSE
      BY <1>1, <1>3, <2>1 DEF Enter, SetUp, AfterGate
    <2>3. HandlersComplete'
      BY <1>1, <2>1, <2>2 DEF HandlersComplete
    <2> QED BY <1>1, <1>4, <1>5, <2>1, <2>2, <2>3, Zenon DEF IInv, SetUp, QuietBoot
  <1>7. CASE Wanted(irr, imr, isr) = {0}
    <2>1. Enter(32) /\ irr' = irr \ {0} /\ isr' = isr \cup {0}
      <3>1. (CHOOSE r \in {0} : \A s \in {0} : r <= s) = 0
        OBVIOUS
      <3> QED BY <1>3, <1>7, <3>1 DEF Interrupt
    <2>2. mode' = "timer" /\ iflag' = FALSE
      BY <1>1, <1>3, <2>1 DEF Enter, SetUp, AfterGate
    <2>3. isr' = {0} /\ irr' \subseteq Lines /\ isr' \subseteq Lines
      BY <1>1, <2>1, LinesAssumption DEF IInv
    <2>4. HandlersComplete'
      BY <2>2, <2>3 DEF HandlersComplete
    <2> QED BY <1>1, <1>4, <1>5, <2>2, <2>3, <2>4, Zenon DEF IInv, SetUp, QuietBoot
  <1> QED BY <1>2, <1>6, <1>7

(* The timer gives its line back before it goes on to the scheduler.        *)
LEMMA TimerStep == IInv /\ TimerHandler => IInv'
PROOF
  <1> SUFFICES ASSUME IInv, TimerHandler PROVE IInv'
    OBVIOUS
  <1>1. isr' = {}
    BY DEF IInv, TimerHandler, HandlersComplete, SendEoi, AfterEoi, Executes
  <1>2. mode' = "schedule" /\ mode = "timer" /\ iflag' = iflag /\ ~iflag
    BY DEF IInv, TimerHandler, CallSchedule, HandlersComplete, Handlers, Executes
  <1> QED BY <1>1, <1>2 DEF IInv, QuietBoot, TimerHandler, SendEoi, HandlersComplete

(* A step that leaves the controller alone, from a handler or user code,    *)
(* keeps IF clear in handlers.                                              *)
LEMMA QuietStep ==
  ASSUME IInv, mode \notin {"boot", "timer"}, mode' # "boot",
         iflag' \in BOOLEAN, mode' \in Handlers => ~iflag',
         UNCHANGED <<pic, idtr, booted>>
  PROVE  IInv'
BY StepsOfInit DEF IInv, QuietBoot, HandlersComplete, pic

LEMMA ScheduleStep == IInv /\ Schedule => IInv'
PROOF
  <1> SUFFICES ASSUME IInv, Schedule PROVE IInv'
    OBVIOUS
  <1>1. mode = "schedule" /\ ~iflag /\ UNCHANGED <<pic, idtr, booted>>
    BY DEF IInv, Schedule, Executes, HandlersComplete, Handlers
  <1>2. ASSUME NEW t, Resume(t, frame)
        PROVE  mode' \in {"wait", "user"} /\ iflag' \in BOOLEAN /\ (mode' = "wait" => ~iflag')
    BY <1>2 DEF Resume, UserFlag
  <1>3. \/ mode' \in {"wait", "user"} /\ iflag' \in BOOLEAN /\ (mode' = "wait" => ~iflag')
        \/ mode' = mode /\ iflag' = iflag
    BY <1>2 DEF Schedule
  <1> QED BY <1>1, <1>3, QuietStep DEF Handlers, IInv

LEMMA UserStep == IInv /\ (Syscall \/ Exception \/ SpuriousHandler) => IInv'
PROOF
  <1> SUFFICES ASSUME IInv, Syscall \/ Exception \/ SpuriousHandler PROVE IInv'
    OBVIOUS
  <1>1. CASE Syscall
    <2>1. mode = "user" /\ UNCHANGED <<pic, idtr, booted>> /\ iflag' = FALSE /\ mode' \in {"user", "syscall"}
      BY <1>1 DEF Syscall, Executes, Enter, AfterGate, Service, IDT_PIC1_OFFSET, IDT_PIC2_OFFSET
    <2> QED BY <2>1, QuietStep
  <1>2. CASE Exception
    <2>1. mode = "user" /\ UNCHANGED <<pic, idtr, booted>> /\ iflag' = iflag /\ mode' = mode
      BY <1>2 DEF Exception, Executes, cpu
    <2> QED BY <2>1, QuietStep DEF Handlers, IInv
  <1>3. CASE SpuriousHandler
    <2>1. mode = "spurious" /\ UNCHANGED <<pic, idtr, booted>> /\ iflag' = TRUE /\ mode' \in {"user", "idle"}
      BY <1>3 DEF SpuriousHandler, Executes
    <2> QED BY <2>1, QuietStep DEF Handlers
  <1> QED BY <1>1, <1>2, <1>3

LEMMA HandleSyscallStep == IInv /\ HandleSyscall => IInv'
PROOF
  <1> SUFFICES ASSUME IInv, HandleSyscall PROVE IInv'
    OBVIOUS
  <1>1. mode \in {"syscall", "wait"} /\ UNCHANGED <<pic, idtr, booted>> /\ ~iflag
    BY DEF HandleSyscall, Return, Execl, Exit, Wait, Fork, ReturnTo, Executes, IInv,
           HandlersComplete, Handlers
  <1>2. \/ mode' = "user" /\ iflag' \in BOOLEAN
        \/ mode' = "schedule" /\ iflag' = iflag
    BY DEF HandleSyscall, Return, Execl, Exit, Wait, Fork, ReturnTo, CallSchedule, UserFlag
  <1> QED BY <1>1, <1>2, QuietStep, SMTT(60) DEF Handlers, IInv

LEMMA DeviceStep == IInv /\ (Fall \/ \E q \in Lines : Rise(q)) => IInv'
PROOF
  <1> SUFFICES ASSUME IInv, Fall \/ \E q \in Lines : Rise(q) PROVE IInv'
    OBVIOUS
  <1>1. irr' \subseteq Lines /\ UNCHANGED <<base, imr, isr, cpu, booted>>
    BY DEF Fall, Rise, IInv
  <1>2. ASSUME imr = 0 .. 15, NEW r \in SUBSET Lines
        PROVE  Wanted(r, imr, isr) = {}
    <2>1. Lines \subseteq 0 .. 15
      BY LinesAssumption
    <2>2. r \ imr = {}
      BY <1>2, <2>1
    <2> QED BY <2>2 DEF Wanted
  <1>3. ASSUME imr = 0 .. 15, intr = FALSE
        PROVE  intr' = FALSE
    <2>1. Wanted(irr', imr, isr) = {}
      BY <1>1, <1>2, <1>3
    <2>2. intr' = intr \/ intr' = (intr \/ Wanted(irr', imr, isr) # {})
      BY DEF Fall, Rise
    <2> QED BY <1>3, <2>1, <2>2
  <1>4. QuietBoot'
    BY <1>1, <1>3 DEF IInv, QuietBoot, cpu
  <1> QED BY <1>1, <1>4 DEF IInv, HandlersComplete, cpu

LEMMA StutterStep == IInv /\ UNCHANGED vars => IInv'
BY DEF IInv, QuietBoot, HandlersComplete, vars, pic, cpu

LEMMA NextIInv == IInv /\ [Next]_vars => IInv'
BY BootStep, InterruptStep, TimerStep, ScheduleStep, UserStep, HandleSyscallStep, DeviceStep,
   StutterStep DEF Next, Spin

LEMMA HandlersAlways == Spec => []IInv
BY InitIInv, NextIInv, PTL DEF Spec

-----------------------------------------------------------------------------
(***************************************************************************)
(* 3. The running task, the stacks and the list of ready tasks.            *)
(*                                                                         *)
(* Why the scheduler always finds a task: init_task never exits, so it     *)
(* runs or is ready from the fifth step of the set-up on.  Why no stack is *)
(* shared: the TSS and the stack in use are those of the running task,     *)
(* which is not on the list.                                               *)
(***************************************************************************)
Running ==
  current # NULL => /\ current \in born /\ ~In(list, current)
                    /\ stack = current /\ tss = current

TInv ==
  /\ TypeOK
  /\ Proper(list)
  /\ \A t \in Task : In(list, t) => t \in born
  /\ Running
  /\ mode \in {"user", "syscall", "wait"} => current # NULL
  /\ mode \in {"boot", "idle"} => current = NULL
  /\ mode = "boot" /\ booted < 5 => list.head = NULL
  /\ booted >= 4 => init_task \in born
  /\ booted >= 5 => current = init_task \/ In(list, init_task)
  /\ OnlyExpectedInterrupts

LEMMA InitTInv == Init => TInv
PROOF
  <1> SUFFICES ASSUME Init PROVE TInv
    OBVIOUS
  <1>1. Proper(list) /\ list.head = NULL /\ Linked(list) = << >>
    BY EmptyHolds, HoldsLinked DEF Init, Proper, EmptyList
  <1>2. \A t \in Task : ~In(list, t)
    BY <1>1, ProperIs
  <1>3. TypeOK
    BY DEF Init, TypeOK, Modes, Halts, Cell
  <1>4. /\ current = NULL /\ mode = "boot" /\ booted = 0 /\ halted = "no"
    BY DEF Init
  <1>5. ~(booted >= 4) /\ ~(booted >= 5)
    BY <1>4
  <1> QED BY <1>1, <1>2, <1>3, <1>4, <1>5, Zenon DEF TInv, Running, OnlyExpectedInterrupts

(* A step that leaves the tasks alone                                        *)
LEMMA SameTasks ==
  ASSUME TInv, UNCHANGED <<tasks, booted>>, TypeOK',
         mode' \in {"boot", "idle"} => mode' = mode,
         mode' \in {"user", "syscall", "wait"} => current # NULL,
         current # NULL => stack' = current /\ tss' = tss,
         OnlyExpectedInterrupts'
  PROVE  TInv'
PROOF
  <1>1. UNCHANGED <<current, list, born, booted>>
    BY DEF tasks
  <1>2. Proper(list)' /\ Running'
    BY <1>1 DEF TInv, Running, Proper
  <1>3. mode' = "boot" /\ booted' < 5 => list'.head = NULL
    BY <1>1 DEF TInv
  <1> QED BY <1>1, <1>2, <1>3 DEF TInv

LEMMA DeviceTInv == TInv /\ (Fall \/ \E q \in Lines : Rise(q)) => TInv'
PROOF
  <1> SUFFICES ASSUME TInv, Fall \/ \E q \in Lines : Rise(q) PROVE TInv'
    OBVIOUS
  <1>1. /\ UNCHANGED <<base, imr, isr, latch, cpu, booted, tasks, halted>>
        /\ irr' \subseteq Lines /\ intr' \in BOOLEAN
    <2>1. CASE Fall
      BY <2>1 DEF Fall, TInv, TypeOK
    <2>2. ASSUME NEW q \in Lines, Rise(q)
          PROVE  /\ UNCHANGED <<base, imr, isr, latch, cpu, booted, tasks, halted>>
                 /\ irr' \subseteq Lines /\ intr' \in BOOLEAN
      BY <2>2 DEF Rise, TInv, TypeOK
    <2> QED BY <2>1, <2>2
  <1>2. TypeOK'
    BY <1>1 DEF TInv, TypeOK, cpu, tasks
  <1>3. UNCHANGED <<mode, stack, tss, current>>
    BY <1>1 DEF cpu, tasks
  <1> QED BY <1>1, <1>2, <1>3, SameTasks DEF TInv, Running, OnlyExpectedInterrupts

LEMMA StutterTInv == TInv /\ UNCHANGED vars => TInv'
PROOF
  <1> SUFFICES ASSUME TInv, UNCHANGED vars PROVE TInv'
    OBVIOUS
  <1>1. TypeOK'
    BY DEF TInv, TypeOK, vars, pic, cpu, tasks
  <1>2. UNCHANGED <<tasks, booted, mode, stack, tss, current, halted>>
    BY DEF vars, cpu, tasks
  <1> QED BY <1>1, <1>2, SameTasks DEF TInv, Running, OnlyExpectedInterrupts

(* The service of a vector that can come                                     *)
LEMMA Expected ==
  ASSUME IInv, TInv, Interrupt
  PROVE  /\ \E m \in {"timer", "spurious"} :
              mode' = m /\ iflag' = FALSE /\ stack' = (IF mode = "user" THEN tss ELSE stack)
         /\ halted' = "no"
         /\ irr' \subseteq Lines /\ isr' \subseteq Lines
PROOF
  <1>1. SetUp
    BY StepsOfInit DEF IInv, Interrupt, SetUp
  <1>2. Wanted(irr, imr, isr) \subseteq {0}
    BY <1>1, OnlyTheTimer
  <1>3. Vector(0) = 32 /\ Vector(7) = 39 /\ Service(32) = "timer" /\ Service(39) = "spurious"
    BY <1>1 DEF SetUp, Vector, Service, IDT_PIC1_OFFSET, IDT_PIC2_OFFSET
  <1>4. CASE Wanted(irr, imr, isr) = {}
    <2>1. Enter(39) /\ irr' = irr /\ isr' = isr
      BY <1>3, <1>4 DEF Interrupt
    <2> QED BY <1>1, <1>3, <2>1 DEF Enter, SetUp, AfterGate, IInv
  <1>5. CASE Wanted(irr, imr, isr) = {0}
    <2>1. (CHOOSE r \in {0} : \A s \in {0} : r <= s) = 0
      OBVIOUS
    <2>2. Enter(32) /\ irr' = irr \ {0} /\ isr' = isr \cup {0}
      BY <1>3, <1>5, <2>1 DEF Interrupt
    <2> QED BY <1>1, <1>3, <2>2, LinesAssumption DEF Enter, SetUp, AfterGate, IInv
  <1> QED BY <1>2, <1>4, <1>5

LEMMA InterruptTInv == IInv /\ TInv /\ Interrupt => TInv'
PROOF
  <1> SUFFICES ASSUME IInv, TInv, Interrupt PROVE TInv'
    OBVIOUS
  <1>1. /\ mode' \in {"timer", "spurious"} /\ iflag' = FALSE
        /\ stack' = (IF mode = "user" THEN tss ELSE stack)
        /\ halted' = "no" /\ irr' \subseteq Lines /\ isr' \subseteq Lines
    BY Expected
  <1>2. intr' = FALSE /\ UNCHANGED <<base, imr, latch, idtr, tss, booted, tasks>>
    BY DEF Interrupt
  <1>3. TypeOK'
    BY <1>1, <1>2 DEF TInv, TypeOK, tasks, Modes, Handlers, Halts
  <1>4. current # NULL => stack' = current /\ tss' = tss
    BY <1>1, <1>2 DEF TInv, Running
  <1> QED BY <1>1, <1>2, <1>3, <1>4, SameTasks DEF OnlyExpectedInterrupts

LEMMA HandlerTInv == IInv /\ TInv /\ (TimerHandler \/ SpuriousHandler \/ Syscall \/ Exception) => TInv'
PROOF
  <1> SUFFICES ASSUME IInv, TInv, TimerHandler \/ SpuriousHandler \/ Syscall \/ Exception
               PROVE  TInv'
    OBVIOUS
  <1>1. CASE SpuriousHandler
    <2>1. /\ UNCHANGED <<pic, idtr, stack, tss, booted, tasks, halted>> /\ iflag' = TRUE
          /\ mode' = IF current = NULL THEN "idle" ELSE "user"
      BY <1>1 DEF SpuriousHandler
    <2>2. TypeOK'
      BY <2>1 DEF TInv, TypeOK, pic, tasks, Modes
    <2>3. UNCHANGED <<current, list, born, booted>>
      BY <2>1 DEF tasks
    <2>4. Proper(list)' /\ Running' /\ OnlyExpectedInterrupts'
      BY <2>1, <2>3 DEF TInv, Running, Proper, OnlyExpectedInterrupts
    <2> QED BY <2>1, <2>2, <2>3, <2>4 DEF TInv
  <1>2. CASE Syscall
    <2>1. /\ mode = "user" /\ idtr /\ Service(128) = "syscall"
      BY <1>2, StepsOfInit DEF IInv, Syscall, Executes, Service, IDT_PIC1_OFFSET, IDT_PIC2_OFFSET
    <2>2. /\ iflag' = FALSE /\ stack' = tss /\ mode' = "syscall" /\ halted' = "no"
          /\ UNCHANGED <<pic, idtr, tss, booted, tasks>>
      BY <1>2, <2>1 DEF Syscall, Enter, AfterGate
    <2>3. TypeOK'
      BY <2>2 DEF TInv, TypeOK, pic, tasks, Modes, Handlers, Halts
    <2> QED BY <2>1, <2>2, <2>3, SameTasks DEF TInv, Running, OnlyExpectedInterrupts
  <1>3. CASE Exception
    <2>1. /\ halted' = "exception" /\ UNCHANGED <<pic, cpu, booted, tasks>>
      BY <1>3 DEF Exception
    <2>2. TypeOK'
      BY <2>1 DEF TInv, TypeOK, pic, cpu, tasks, Halts
    <2>3. UNCHANGED <<mode, stack, tss, current>>
      BY <2>1 DEF cpu, tasks
    <2> QED BY <2>1, <2>2, <2>3, SameTasks DEF TInv, Running, OnlyExpectedInterrupts
  <1>4. CASE TimerHandler
    <2>1. /\ mode' = "schedule" /\ isr' = AfterEoi(isr)
          /\ intr' = (intr \/ Wanted(irr, imr, isr') # {})
          /\ frame' = IF current = NULL THEN frame ELSE [frame EXCEPT ![current] = "top"]
          /\ UNCHANGED <<base, irr, imr, latch>>
          /\ UNCHANGED <<idtr, iflag, stack, tss, booted, current, list, born, context, halted>>
      BY <1>4 DEF TimerHandler, CallSchedule, SendEoi
    <2>2. isr' \subseteq Lines /\ intr' \in BOOLEAN
      BY <2>1 DEF TInv, TypeOK, AfterEoi
    <2>3. TypeOK'
      BY <2>1, <2>2 DEF TInv, TypeOK, Modes, Handlers
    <2>4. Proper(list)' /\ Running' /\ OnlyExpectedInterrupts'
      BY <2>1 DEF TInv, Running, Proper, OnlyExpectedInterrupts
    <2> QED BY <2>1, <2>3, <2>4 DEF TInv
  <1> QED BY <1>1, <1>2, <1>3, <1>4

LEMMA BootTInv == IInv /\ TInv /\ Boot => TInv'
PROOF
  <1> SUFFICES ASSUME IInv, TInv, Boot PROVE TInv'
    OBVIOUS
  <1>1. /\ mode = "boot" /\ booted \in 0 .. 5 /\ booted' = booted + 1 /\ booted' \in 1 .. 6
        /\ mode' = (IF booted' = 6 THEN "idle" ELSE "boot")
        /\ iflag' = (iflag \/ Steps[booted'] = "sti")
        /\ idtr' = (idtr \/ Steps[booted'] = "idt")
        /\ UNCHANGED <<stack, tss, current, frame, halted>> /\ current = NULL
    BY StepsOfInit DEF IInv, Boot, Executes, TInv
  <1>2. /\ born' = IF booted' = 4 THEN {init_task} ELSE born
        /\ list' = IF booted' = 5 THEN Added(list, init_task) ELSE list
        /\ context' = IF booted' = 4
                      THEN [context EXCEPT ![init_task] = IF iflag THEN "on" ELSE "off"]
                      ELSE context
    BY <1>1, StepsOfInit DEF Boot
  <1>3. PicInit \/ EnableIrq(0) \/ UNCHANGED pic
    <2>1. CASE Steps[booted'] = "pic"
      BY <2>1 DEF Boot
    <2>2. CASE Steps[booted'] = "timer"
      BY <2>2 DEF Boot
    <2>3. CASE Steps[booted'] # "pic" /\ Steps[booted'] # "timer"
      BY <2>3 DEF Boot
    <2> QED BY <2>1, <2>2, <2>3
  <1>4. /\ base' \in {"bios", "kernel"} /\ latch' = latch /\ irr' \subseteq Lines
        /\ isr' \subseteq Lines /\ imr' \subseteq 0 .. 15 /\ intr' \in BOOLEAN
    <2>1. CASE PicInit
      BY <2>1 DEF PicInit, MaskAfterInit
    <2>2. CASE EnableIrq(0)
      BY <2>2 DEF EnableIrq, TInv, TypeOK
    <2>3. CASE UNCHANGED pic
      BY <2>3 DEF pic, TInv, TypeOK
    <2> QED BY <1>3, <2>1, <2>2, <2>3
  <1>5. TypeOK'
    <2>1. iflag' \in BOOLEAN /\ idtr' \in BOOLEAN /\ mode' \in Modes
      BY <1>1 DEF Modes
    <2>2. context' \in [Task -> {"on", "off", "stale"}] /\ born' \subseteq Task
      BY <1>2, InitTaskAssumption DEF TInv, TypeOK
    <2> QED BY <1>1, <1>4, <2>1, <2>2 DEF TInv, TypeOK
  <1>6. Running' /\ OnlyExpectedInterrupts'
    BY <1>1 DEF Running, TInv, OnlyExpectedInterrupts
  <1>7. booted < 5 => \A t \in Task : ~In(list, t)
    BY <1>1, ProperIs DEF TInv
  <1>8. CASE booted' = 5
    <2>1. ~In(list, init_task) /\ booted < 5 /\ booted >= 4 /\ ~(booted' < 5)
      BY <1>1, <1>7, <1>8, InitTaskAssumption
    <2>2. /\ Proper(list') /\ \A u \in Task : In(list', u) <=> In(list, u) \/ u = init_task
      BY <1>2, <1>8, <2>1, InitTaskAssumption, Adding DEF TInv
    <2>3. In(list', init_task) /\ init_task \in born' /\ \A u \in Task : In(list', u) => u \in born'
      BY <1>2, <1>7, <1>8, <2>1, <2>2, InitTaskAssumption DEF TInv
    <2>4. Proper(list)'
      BY <2>2 DEF Proper
    <2> QED BY <1>1, <1>5, <1>6, <1>8, <2>1, <2>3, <2>4 DEF TInv
  <1>9. CASE booted' # 5
    <2>1. list' = list /\ Proper(list)'
      BY <1>2, <1>9 DEF TInv, Proper
    <2>2. \A t \in Task : In(list, t) => t \in born'
      BY <1>1, <1>2, <1>7 DEF TInv
    <2>3. mode' = "boot" /\ booted' < 5 => list'.head = NULL
      BY <1>1, <2>1 DEF TInv
    <2>4. booted' >= 4 => init_task \in born'
      BY <1>1, <1>2 DEF TInv
    <2>5. booted' >= 5 => current' = init_task \/ In(list', init_task)
      <3>1. booted' >= 5 => booted >= 5
        BY <1>1, <1>9
      <3> QED BY <1>1, <2>1, <3>1 DEF TInv
    <2>6. mode' \in {"boot", "idle"}
      BY <1>1
    <2> QED BY <1>1, <1>5, <1>6, <2>1, <2>2, <2>3, <2>4, <2>5, <2>6 DEF TInv
  <1> QED BY <1>8, <1>9

(* A switch to the task t                                                    *)
LEMMA Resumed ==
  ASSUME TypeOK, NEW t \in Task, Resume(t, frame)
  PROVE  /\ tss' = t /\ stack' = t /\ t # NULL
         /\ mode' \in {"wait", "user"} /\ iflag' \in BOOLEAN
         /\ halted' \in {"no", "bad_context"}
BY InitTaskAssumption DEF Resume, TssOf, UserFlag

LEMMA ScheduleTInv == IInv /\ TInv /\ Schedule => TInv'
PROOF
  <1> SUFFICES ASSUME IInv, TInv, Schedule PROVE TInv'
    OBVIOUS
  <1>1. /\ mode = "schedule" /\ booted >= 5
        /\ UNCHANGED <<pic, idtr, booted, born, frame, context>>
    BY StepsOfInit DEF IInv, Schedule, Executes
  <1>2. /\ TypeOK /\ Proper(list)
        /\ current # NULL => current \in Task /\ current \in born /\ ~In(list, current)
        /\ current = init_task \/ In(list, init_task)
    BY <1>1, InitTaskAssumption DEF TInv, Running, TypeOK, Cell
  <1>3. ASSUME NEW t \in Task, Resume(t, frame), current' = t, t \in born,
               Proper(list'), ~In(list', t), \A u \in Task : In(list', u) => u \in born,
               t = init_task \/ In(list', init_task)
        PROVE  TInv'
    <2>1. /\ tss' = t /\ stack' = t /\ t # NULL
          /\ mode' \in {"wait", "user"} /\ iflag' \in BOOLEAN
          /\ halted' \in {"no", "bad_context"}
      BY <1>2, <1>3, Resumed
    <2>2. TypeOK'
      BY <1>1, <1>2, <1>3, <2>1 DEF TypeOK, pic, Modes, Handlers, Halts, Cell
    <2>3. Running' /\ OnlyExpectedInterrupts' /\ Proper(list)'
      BY <1>1, <1>3, <2>1 DEF Running, OnlyExpectedInterrupts, Proper
    <2>4. booted' >= 4 => init_task \in born'
      BY <1>1 DEF TInv
    <2> QED BY <1>1, <1>3, <2>1, <2>2, <2>3, <2>4 DEF TInv
  <1>4. CASE list.head # NULL
    <2> DEFINE h == list.head
               rest == Removed(list, h)
    <2>1. current' = h /\ Resume(h, frame)
          /\ list' = IF current = NULL THEN rest ELSE Added(rest, current)
      BY <1>4 DEF Schedule
    <2>2. h \in Task /\ In(list, h) /\ h \in born /\ h # current
      BY <1>2, <1>4, ProperIs DEF TInv
    <2>3. Proper(rest) /\ \A u \in Task : In(rest, u) <=> In(list, u) /\ u # h
      BY <1>2, <1>4, Removing
    <2> HIDE DEF h, rest
    <2>4. CASE current = NULL
      <3>1. /\ Proper(list') /\ ~In(list', h) /\ \A u \in Task : In(list', u) => u \in born
            /\ h = init_task \/ In(list', init_task)
        BY <1>2, <2>1, <2>2, <2>3, <2>4, InitTaskAssumption DEF TInv
      <3> QED BY <1>3, <2>1, <2>2, <3>1
    <2>5. CASE current # NULL
      <3>1. ~In(rest, current) /\ current \in Task
        BY <1>2, <2>3, <2>5
      <3>2. /\ Proper(list') /\ \A u \in Task : In(list', u) <=> In(rest, u) \/ u = current
        BY <2>1, <2>3, <2>5, <3>1, Adding
      <3>3. /\ ~In(list', h) /\ \A u \in Task : In(list', u) => u \in born
            /\ h = init_task \/ In(list', init_task)
        BY <1>2, <2>2, <2>3, <2>5, <3>2, InitTaskAssumption DEF TInv
      <3> QED BY <1>3, <2>1, <2>2, <3>2, <3>3
    <2> QED BY <2>4, <2>5
  <1>5. CASE list.head = NULL
    <2>1. \A u \in Task : ~In(list, u)
      BY <1>2, <1>5, ProperIs
    <2>2. current = init_task /\ current # NULL
      BY <1>2, <2>1, InitTaskAssumption
    <2>3. Resume(current, frame) /\ current' = current /\ list' = list
      BY <1>5, <2>2 DEF Schedule
    <2> QED BY <1>2, <1>3, <2>1, <2>2, <2>3, InitTaskAssumption
  <1> QED BY <1>4, <1>5

LEMMA HandleSyscallTInv == IInv /\ TInv /\ HandleSyscall => TInv'
PROOF
  <1> SUFFICES ASSUME IInv, TInv, HandleSyscall PROVE TInv'
    OBVIOUS
  <1>1. /\ mode \in {"syscall", "wait"} /\ booted >= 5
        /\ UNCHANGED <<pic, idtr, booted, stack, tss, halted>>
    BY StepsOfInit DEF IInv, HandleSyscall, Executes, Return, Execl, Exit, Wait, Fork, ReturnTo
  <1>2. /\ TypeOK /\ Proper(list) /\ Running
        /\ current \in Task /\ current # NULL /\ current \in born /\ ~In(list, current)
        /\ current = init_task \/ In(list, init_task)
    BY <1>1, InitTaskAssumption DEF TInv, Running, TypeOK, Cell
  <1>3. ASSUME NEW c, ReturnTo(c)
        PROVE  mode' = "user" /\ iflag' \in BOOLEAN
    BY <1>3 DEF ReturnTo, UserFlag
  <1>4. CASE Return
    <2>1. mode' = "user" /\ iflag' \in BOOLEAN /\ UNCHANGED tasks
      BY <1>3, <1>4 DEF Return
    <2>2. TypeOK'
      BY <1>1, <1>2, <2>1 DEF TypeOK, pic, tasks, Modes
    <2> QED BY <1>1, <1>2, <2>1, <2>2, SameTasks DEF TInv, Running, OnlyExpectedInterrupts
  <1>5. CASE Execl
    <2>1. /\ mode' = "user" /\ iflag' \in BOOLEAN /\ UNCHANGED <<current, list, born>>
          /\ frame' = [frame EXCEPT ![current] = "top"]
          /\ context' = [context EXCEPT ![current] = IF iflag THEN "on" ELSE "off"]
      BY <1>3, <1>5 DEF Execl
    <2>2. TypeOK'
      BY <1>1, <1>2, <2>1 DEF TypeOK, pic, Modes
    <2>3. Running' /\ OnlyExpectedInterrupts' /\ Proper(list)'
      BY <1>1, <1>2, <2>1 DEF TInv, Running, OnlyExpectedInterrupts, Proper
    <2> QED BY <1>1, <1>2, <2>1, <2>2, <2>3 DEF TInv
  <1>6. CASE Exit
    <2>1. /\ mode' = "schedule" /\ current' = NULL /\ current # init_task
          /\ UNCHANGED <<iflag, list, born, frame, context>>
      BY <1>6 DEF Exit
    <2>2. TypeOK'
      BY <1>1, <1>2, <2>1 DEF TypeOK, pic, Modes, Handlers, Cell
    <2>3. Running' /\ OnlyExpectedInterrupts' /\ Proper(list)'
      BY <1>1, <1>2, <2>1 DEF TInv, Running, OnlyExpectedInterrupts, Proper
    <2> QED BY <1>1, <1>2, <2>1, <2>2, <2>3 DEF TInv
  <1>7. CASE Wait
    <2>1. /\ mode' = "schedule" /\ UNCHANGED <<iflag, current, list, born, context>>
          /\ frame' = [frame EXCEPT ![current] = "deep"]
      BY <1>2, <1>7 DEF Wait, CallSchedule
    <2>2. TypeOK'
      BY <1>1, <1>2, <2>1 DEF TypeOK, pic, Modes, Handlers
    <2>3. Running' /\ OnlyExpectedInterrupts' /\ Proper(list)'
      BY <1>1, <1>2, <2>1 DEF TInv, Running, OnlyExpectedInterrupts, Proper
    <2> QED BY <1>1, <1>2, <2>1, <2>2, <2>3 DEF TInv
  <1>8. ASSUME NEW t \in Task, Fork(t)
        PROVE  TInv'
    <2>1. /\ t \notin born /\ born' = born \cup {t} /\ mode' = "user" /\ iflag' \in BOOLEAN
          /\ current' = current /\ list' = Added(list, t)
          /\ frame' = [frame EXCEPT ![t] = "top"]
          /\ context' = [context EXCEPT ![t] = IF frame[current] = "top" THEN context[current]
                                               ELSE "stale"]
      BY <1>3, <1>8 DEF Fork
    <2>2. TypeOK'
      BY <1>1, <1>2, <2>1 DEF TypeOK, pic, Modes
    <2>3. ~In(list, t) /\ t # current
      BY <1>2, <2>1 DEF TInv
    <2>4. Proper(list') /\ \A u \in Task : In(list', u) <=> In(list, u) \/ u = t
      BY <1>2, <2>1, <2>3, Adding
    <2>5. Running' /\ OnlyExpectedInterrupts' /\ Proper(list)'
      BY <1>1, <1>2, <2>1, <2>3, <2>4 DEF TInv, Running, OnlyExpectedInterrupts, Proper
    <2>6. \A u \in Task : In(list', u) => u \in born'
      BY <2>1, <2>4 DEF TInv
    <2>7. current' = init_task \/ In(list', init_task)
      BY <1>2, <2>1, <2>4, InitTaskAssumption
    <2>8. booted' >= 4 => init_task \in born'
      BY <1>1, <2>1 DEF TInv
    <2> QED BY <1>1, <1>2, <2>1, <2>2, <2>5, <2>6, <2>7, <2>8 DEF TInv
  <1> QED BY <1>4, <1>5, <1>6, <1>7, <1>8 DEF HandleSyscall

LEMMA NextTInv == IInv /\ TInv /\ [Next]_vars => TInv'
BY BootTInv, InterruptTInv, HandlerTInv, ScheduleTInv, HandleSyscallTInv, DeviceTInv,
   StutterTInv DEF Next, Spin

LEMMA TasksAlways == Spec => []TInv
BY InitTInv, NextTInv, HandlersAlways, PTL DEF Spec

-----------------------------------------------------------------------------
(***************************************************************************)
(* 4. The theorems.                                                        *)
(***************************************************************************)

(* No handler is ever interrupted, and none leaves a line in service: what  *)
(* module Tasks takes for granted when it makes a handler one step          *)
(* (timer.c:30).                                                            *)
THEOREM HandlersRunThrough == Spec => []HandlersComplete
PROOF
  <1>1. IInv => HandlersComplete
    BY DEF IInv
  <1> QED BY <1>1, HandlersAlways, PTL

(* The order of init() is right for every timing of the interrupt lines: no *)
(* interrupt comes before the IDT, on a vector without a service, or before *)
(* there is a task to run (init.c:20, scheduler.c:165).                     *)
THEOREM InterruptsAreExpected == Spec => []OnlyExpectedInterrupts
PROOF
  <1>1. TInv => OnlyExpectedInterrupts
    BY DEF TInv
  <1> QED BY <1>1, TasksAlways, PTL

(* The kernel enters on the stack of the running task, which no other task  *)
(* uses.                                                                    *)
THEOREM StacksAreOwn == Spec => []OwnStack
PROOF
  <1>1. TInv => OwnStack
    BY DEF TInv, Running, OwnStack
  <1> QED BY <1>1, TasksAlways, PTL

(* The list of ready tasks is a proper doubly linked list, whatever is      *)
(* written to the neighbours at its ends.                                   *)
THEOREM ListStaysLinked == Spec => []WellLinked
PROOF
  <1>1. TInv => WellLinked
    BY ProperIs DEF TInv, WellLinked
  <1> QED BY <1>1, TasksAlways, PTL

(* What the queue waits for is what the list holds                          *)
LEMMA WaitsIsIn ==
  ASSUME Proper(list), NEW t \in Task
  PROVE  Queue!Waits(t) <=> In(list, t)
PROOF
  <1>1. Linked(list) \in Seq(Task)
        /\ (In(list, t) <=> \E i \in 1 .. Len(Linked(list)) : Linked(list)[i] = t)
    BY ProperIs
  <1>2. DOMAIN Linked(list) = 1 .. Len(Linked(list))
    BY <1>1
  <1> QED BY <1>1, <1>2 DEF Queue!Waits

(* The linked list of the scheduler is a first-in first-out queue: a task   *)
(* joins at the end when it is created, the head leaves when the running    *)
(* task has exited, and otherwise the running task takes its turn behind    *)
(* the others (scheduler.c, task_list_add and task_list_remove).            *)
THEOREM ListIsQueue == Spec => ImplementsQueue
PROOF
  <1>1. Init => Queue!Init
    BY EmptyHolds, HoldsLinked DEF Init, Queue!Init
  <1>2. IInv /\ TInv /\ [Next]_vars => [Queue!Next]_(Linked(list))
    <2> SUFFICES ASSUME IInv, TInv, [Next]_vars
                 PROVE  Queue!Next \/ Linked(list)' = Linked(list)
      OBVIOUS
    <2>1. /\ TypeOK /\ Proper(list)
          /\ current # NULL => current \in Task /\ current \in born /\ ~In(list, current)
      BY DEF TInv, Running, TypeOK, Cell
    <2>2. ASSUME list' = list PROVE Linked(list)' = Linked(list)
      BY <2>2
    <2>3. ASSUME NEW t \in Task, ~In(list, t), list' = Added(list, t) PROVE Queue!Next
      <3>1. ~Queue!Waits(t)
        BY <2>1, <2>3, WaitsIsIn
      <3>2. Linked(list)' = Append(Linked(list), t)
        BY <2>1, <2>3, Adding
      <3> QED BY <3>1, <3>2 DEF Queue!Next, Queue!Join
    <2>4. CASE Boot
      <3>1. /\ booted \in 0 .. 5 /\ booted' = booted + 1
            /\ list' = IF Steps[booted'] = "ready" THEN Added(list, init_task) ELSE list
        BY <2>4, StepsOfInit DEF Boot, Executes, IInv
      <3>2. CASE Steps[booted'] = "ready"
        <4>1. booted' \in 1 .. 6 /\ booted < 5 /\ mode = "boot"
          BY <2>4, <3>1, <3>2, StepsOfInit DEF Boot, Executes
        <4>2. ~In(list, init_task)
          BY <2>1, <4>1, InitTaskAssumption, ProperIs DEF TInv
        <4> QED BY <2>3, <3>1, <3>2, <4>2, InitTaskAssumption
      <3> QED BY <2>2, <3>1, <3>2
    <2>5. CASE Schedule
      <3>1. CASE list.head # NULL
        <4> DEFINE h == list.head
                   rest == Removed(list, h)
        <4>1. /\ Proper(rest) /\ Linked(list) # << >> /\ Linked(rest) = Tail(Linked(list))
              /\ \A u \in Task : In(rest, u) => In(list, u)
          BY <2>1, <3>1, Removing
        <4>2. list' = IF current = NULL THEN rest ELSE Added(rest, current)
          BY <2>5, <3>1 DEF Schedule
        <4> HIDE DEF h, rest
        <4>3. CASE current = NULL
          <5>1. Linked(list)' = Tail(Linked(list))
            BY <4>1, <4>2, <4>3
          <5> QED BY <4>1, <5>1 DEF Queue!Next, Queue!Leave
        <4>4. CASE current # NULL
          <5>1. ~In(rest, current) /\ current \in Task /\ ~In(list, current)
            BY <2>1, <4>1, <4>4
          <5>2. Linked(list)' = Append(Tail(Linked(list)), current)
            BY <4>1, <4>2, <4>4, <5>1, Adding
          <5>3. ~Queue!Waits(current)
            BY <2>1, <5>1, WaitsIsIn
          <5>4. Queue!Rotate(current)
            BY <4>1, <5>2, <5>3 DEF Queue!Rotate
          <5> QED BY <5>1, <5>4 DEF Queue!Next
        <4> QED BY <4>3, <4>4
      <3>2. CASE list.head = NULL
        <4>1. list' = list
          BY <2>5, <3>2 DEF Schedule
        <4> QED BY <2>2, <4>1
      <3> QED BY <3>1, <3>2
    <2>6. CASE HandleSyscall
      <3>1. ASSUME NEW t \in Task, Fork(t) PROVE Queue!Next
        <4>1. t \notin born /\ list' = Added(list, t)
          BY <3>1 DEF Fork
        <4>2. ~In(list, t)
          BY <4>1 DEF TInv
        <4> QED BY <2>3, <4>1, <4>2
      <3>2. CASE Return \/ Execl \/ Exit \/ Wait
        <4>1. list' = list
          BY <3>2 DEF Return, Execl, Exit, Wait, tasks
        <4> QED BY <2>2, <4>1
      <3> QED BY <2>6, <3>1, <3>2 DEF HandleSyscall
    <2>7. CASE \/ \E q \in Lines : Rise(q)
               \/ Fall \/ Interrupt \/ TimerHandler \/ SpuriousHandler
               \/ Syscall \/ Exception \/ Spin \/ UNCHANGED vars
      <3>1. list' = list
        BY <2>7 DEF Rise, Fall, Interrupt, TimerHandler, SpuriousHandler, Syscall, Exception,
                    Spin, vars, tasks
      <3> QED BY <2>2, <3>1
    <2> QED BY <2>4, <2>5, <2>6, <2>7 DEF Next
  <1> QED BY <1>1, <1>2, HandlersAlways, TasksAlways, PTL DEF Spec, ImplementsQueue, Queue!Spec
=============================================================================
