---------------------------- MODULE TasksProofs ----------------------------
(***************************************************************************)
(* Theorems about Tasks, for every size of the task table, every bound on  *)
(* pids and every set of exit codes and system calls.                      *)
(*                                                                         *)
(* RunQueueSound and NoSchedulerPanic are not inductive alone: that the    *)
(* exit of the running task always finds a successor rests on init, which  *)
(* is READY or RUNNING as long as the kernel runs.  IInv adds that, and    *)
(* the states a slot can have while it is in use or free.                  *)
(*                                                                         *)
(* Nor is ChildListsSound: that lists end and are disjoint survives a fork *)
(* or an exit only because each task has one owner and one place in its    *)
(* list.  CInv says that such an owner and place exist (Placed), and each  *)
(* operation is shown to leave new ones.                                   *)
(***************************************************************************)
EXTENDS Tasks, Basics, NaturalsInduction, WellFoundedInduction, FiniteSetTheorems, TLAPS

(* The run queue q and the running task cur agree with the states st. *)
InQueue(q, s) == \E i \in 1 .. Len(q) : q[i] = s

Agree(u, st, cur, q) ==
  /\ \A i, j \in 1 .. Len(q) : q[i] = q[j] => i = j
  /\ \A s \in Slot : (u[s] /\ st[s] = "READY") <=> InQueue(q, s)
  /\ \A s \in Slot : (u[s] /\ st[s] = "RUNNING") <=> cur = s

TableStates ==
  /\ \A s \in Slot : used[s] <=> state[s] \in {"READY", "RUNNING", "ZOMBIE"}
  /\ halted = "no" => state[init_task] \in {"READY", "RUNNING"}

IInv == TypeOK /\ RunQueueSound /\ NoSchedulerPanic /\ TableStates

(* The first slot is the slot of init, and no slot is a null pointer. *)
LEMMA SlotFacts ==
  /\ init_task \in Slot
  /\ NULL \notin Slot
  /\ ANY \notin Slot
  /\ Slot \subseteq Nat
PROOF
  <1>1. init_task \in Slot /\ Slot \subseteq Nat
    BY TableAssumption, SMTT(60) DEF Slot, init_task
  <1>2. NULL \notin Slot /\ ANY \notin Slot
    BY NullAssumption, SMTT(60) DEF Slot
  <1> QED BY <1>1, <1>2

(* Taking the head of a queue and putting a task that is not in it at its  *)
(* tail, as switch_to_running_state does with the task that was running.   *)
LEMMA RotateQueue ==
  ASSUME NEW q \in Seq(Slot), q # << >>, NEW c \in Slot, ~InQueue(q, c),
         \A i, j \in 1 .. Len(q) : q[i] = q[j] => i = j
  PROVE  LET r == Append(Tail(q), c) IN
         /\ r \in Seq(Slot)
         /\ \A i, j \in 1 .. Len(r) : r[i] = r[j] => i = j
         /\ \A s \in Slot : InQueue(r, s) <=> (s = c \/ (InQueue(q, s) /\ s # Head(q)))
PROOF
  <1> DEFINE r == Append(Tail(q), c)
  <1>1. /\ Tail(q) \in Seq(Slot) /\ Len(Tail(q)) = Len(q) - 1
        /\ Len(q) \in Nat /\ Len(q) >= 1
        /\ \A i \in 1 .. Len(q) - 1 : Tail(q)[i] = q[i + 1]
        /\ Head(q) = q[1]
    OBVIOUS
  <1>2. /\ r \in Seq(Slot) /\ Len(r) = Len(q)
        /\ r[Len(q)] = c
        /\ \A i \in 1 .. Len(q) - 1 : r[i] = q[i + 1]
    BY <1>1
  <1> HIDE DEF r
  <1>3. \A i \in 1 .. Len(q) : q[i] # c
    BY DEF InQueue
  <1>4. \A i, j \in 1 .. Len(r) : r[i] = r[j] => i = j
    <2> SUFFICES ASSUME NEW i \in 1 .. Len(r), NEW j \in 1 .. Len(r), r[i] = r[j]
                 PROVE  i = j
      OBVIOUS
    <2>1. i \in 1 .. Len(q) /\ j \in 1 .. Len(q)
      BY <1>2, SMTT(60)
    <2>2. \A k \in 1 .. Len(q) : k = Len(q) \/ k \in 1 .. Len(q) - 1
      <3>1. \A n \in Nat : \A k \in 1 .. n : k = n \/ k \in 1 .. n - 1
        OBVIOUS
      <3> QED BY <1>1, <3>1
    <2>3. \A k \in 1 .. Len(q) - 1 : k + 1 \in 1 .. Len(q) /\ r[k] = q[k + 1] /\ r[k] # c
      <3> SUFFICES ASSUME NEW k \in 1 .. Len(q) - 1
                   PROVE  k + 1 \in 1 .. Len(q) /\ r[k] = q[k + 1] /\ r[k] # c
        OBVIOUS
      <3>1. k + 1 \in 1 .. Len(q)
        BY <1>1
      <3> QED BY <1>2, <1>3, <3>1
    <2>4. CASE i = Len(q)
      BY <1>2, <2>1, <2>2, <2>3, <2>4
    <2>5. CASE j = Len(q)
      BY <1>2, <2>1, <2>2, <2>3, <2>5
    <2>6. CASE i \in 1 .. Len(q) - 1 /\ j \in 1 .. Len(q) - 1
      <3>1. i + 1 = j + 1
        BY <2>3, <2>6
      <3> QED BY <1>1, <2>6, <3>1
    <2> QED BY <2>1, <2>2, <2>4, <2>5, <2>6
  <1>5. ASSUME NEW s \in Slot
        PROVE  InQueue(r, s) <=> (s = c \/ (InQueue(q, s) /\ s # Head(q)))
    <2>1. ASSUME InQueue(r, s) PROVE s = c \/ (InQueue(q, s) /\ s # Head(q))
      <3>1. PICK i \in 1 .. Len(r) : r[i] = s
        BY <2>1 DEF InQueue
      <3>2. CASE i = Len(q)
        BY <1>2, <3>1, <3>2
      <3>3. CASE i \in 1 .. Len(q) - 1
        <4>1. i + 1 \in 1 .. Len(q) /\ q[i + 1] = s /\ i + 1 # 1
          BY <1>1, <1>2, <3>1, <3>3
        <4>2. s # q[1]
          BY <1>1, <4>1
        <4> QED BY <1>1, <4>1, <4>2 DEF InQueue
      <3>4. \A n \in Nat : \A k \in 1 .. n : k = n \/ k \in 1 .. n - 1
        OBVIOUS
      <3> QED BY <1>1, <1>2, <3>2, <3>3, <3>4
    <2>2. ASSUME s = c PROVE InQueue(r, s)
      BY <1>1, <1>2, <2>2 DEF InQueue
    <2>3. ASSUME InQueue(q, s), s # Head(q) PROVE InQueue(r, s)
      <3>1. PICK i \in 1 .. Len(q) : q[i] = s
        BY <2>3 DEF InQueue
      <3>2. i - 1 \in 1 .. Len(r) /\ r[i - 1] = s
        BY <1>1, <1>2, <2>3, <3>1
      <3> QED BY <3>2 DEF InQueue
    <2> QED BY <2>1, <2>2, <2>3, SMTT(60)
  <1> QED BY <1>2, <1>4, <1>5, Zenon DEF r

(* Taking the head of a queue, as when no task was running. *)
LEMMA PopQueue ==
  ASSUME NEW q \in Seq(Slot), q # << >>,
         \A i, j \in 1 .. Len(q) : q[i] = q[j] => i = j
  PROVE  /\ Tail(q) \in Seq(Slot)
         /\ \A i, j \in 1 .. Len(Tail(q)) : Tail(q)[i] = Tail(q)[j] => i = j
         /\ \A s \in Slot : InQueue(Tail(q), s) <=> (InQueue(q, s) /\ s # Head(q))
PROOF
  <1>1. /\ Tail(q) \in Seq(Slot) /\ Len(Tail(q)) = Len(q) - 1
        /\ Len(q) \in Nat /\ Len(q) >= 1
        /\ \A i \in 1 .. Len(q) - 1 : Tail(q)[i] = q[i + 1]
        /\ Head(q) = q[1]
    OBVIOUS
  <1>2. \A i, j \in 1 .. Len(Tail(q)) : Tail(q)[i] = Tail(q)[j] => i = j
    BY <1>1
  <1>3. ASSUME NEW s \in Slot
        PROVE  InQueue(Tail(q), s) <=> (InQueue(q, s) /\ s # Head(q))
    <2>1. ASSUME InQueue(Tail(q), s) PROVE InQueue(q, s) /\ s # Head(q)
      <3>1. PICK i \in 1 .. Len(Tail(q)) : Tail(q)[i] = s
        BY <2>1 DEF InQueue
      <3>2. i + 1 \in 1 .. Len(q) /\ q[i + 1] = s /\ i + 1 # 1 /\ 1 \in 1 .. Len(q)
        BY <1>1, <3>1
      <3> QED BY <1>1, <3>2 DEF InQueue
    <2>2. ASSUME InQueue(q, s), s # Head(q) PROVE InQueue(Tail(q), s)
      <3>1. PICK i \in 1 .. Len(q) : q[i] = s
        BY <2>2 DEF InQueue
      <3>2. i - 1 \in 1 .. Len(Tail(q)) /\ Tail(q)[i - 1] = s
        BY <1>1, <2>2, <3>1
      <3> QED BY <3>2 DEF InQueue
    <2> QED BY <2>1, <2>2
  <1> QED BY <1>1, <1>2, <1>3

(* Putting a task that is not in the queue at its tail, as fork does. *)
LEMMA PushQueue ==
  ASSUME NEW q \in Seq(Slot), NEW c \in Slot, ~InQueue(q, c),
         \A i, j \in 1 .. Len(q) : q[i] = q[j] => i = j
  PROVE  LET r == Append(q, c) IN
         /\ r \in Seq(Slot)
         /\ \A i, j \in 1 .. Len(r) : r[i] = r[j] => i = j
         /\ \A s \in Slot : InQueue(r, s) <=> (s = c \/ InQueue(q, s))
PROOF
  <1> DEFINE r == Append(q, c)
  <1>1. /\ r \in Seq(Slot) /\ Len(r) = Len(q) + 1 /\ Len(q) \in Nat
        /\ r[Len(q) + 1] = c
        /\ \A i \in 1 .. Len(q) : r[i] = q[i]
    OBVIOUS
  <1> HIDE DEF r
  <1>2. \A i \in 1 .. Len(q) : q[i] # c
    BY DEF InQueue
  <1>3. \A i, j \in 1 .. Len(r) : r[i] = r[j] => i = j
    <2> SUFFICES ASSUME NEW i \in 1 .. Len(r), NEW j \in 1 .. Len(r), r[i] = r[j]
                 PROVE  i = j
      OBVIOUS
    <2>1. CASE i <= Len(q) /\ j <= Len(q)
      BY <1>1, <2>1
    <2>2. CASE i = Len(q) + 1 \/ j = Len(q) + 1
      BY <1>1, <1>2, <2>2
    <2> QED BY <1>1, <2>1, <2>2
  <1>4. ASSUME NEW s \in Slot PROVE InQueue(r, s) <=> (s = c \/ InQueue(q, s))
    <2>1. ASSUME InQueue(r, s) PROVE s = c \/ InQueue(q, s)
      <3>1. PICK i \in 1 .. Len(r) : r[i] = s
        BY <2>1 DEF InQueue
      <3>2. i \in 1 .. Len(q) \/ i = Len(q) + 1
        BY <1>1
      <3> QED BY <1>1, <3>1, <3>2 DEF InQueue
    <2>2. ASSUME s = c PROVE InQueue(r, s)
      BY <1>1, <2>2 DEF InQueue
    <2>3. ASSUME InQueue(q, s) PROVE InQueue(r, s)
      <3>1. PICK i \in 1 .. Len(q) : q[i] = s
        BY <2>3 DEF InQueue
      <3>2. i \in 1 .. Len(r) /\ r[i] = s
        BY <1>1, <3>1
      <3> QED BY <3>2 DEF InQueue
    <2> QED BY <2>1, <2>2, <2>3
  <1> QED BY <1>1, <1>3, <1>4 DEF r

-----------------------------------------------------------------------------
(***************************************************************************)
(* schedule_handler keeps the queue, the states and the running task in    *)
(* agreement, and finds a task whenever one runs or is ready.              *)
(***************************************************************************)
LEMMA ScheduleAgrees ==
  ASSUME NEW st \in [Slot -> States], NEW cur \in Pointer,
         used \in [Slot -> BOOLEAN], ready \in Seq(Slot),
         Agree(used, st, cur, ready),
         cur # NULL \/ ready # << >>,
         Schedule(st, cur)
  PROVE  /\ state' \in [Slot -> States]
         /\ current' \in Pointer
         /\ ready' \in Seq(Slot)
         /\ halted' \in {"no", "bad_context"}
         /\ Agree(used, state', current', ready')
         /\ \A s \in Slot : \/ state'[s] = st[s]
                            \/ /\ st[s] \in {"READY", "RUNNING"}
                               /\ state'[s] \in {"READY", "RUNNING"}
PROOF
  <1>1. CASE ready = << >>
    <2>1. state' = st /\ current' = cur /\ ready' = ready /\ halted' = "no"
      BY <1>1 DEF Schedule
    <2>2. Agree(used, state', current', ready')
      BY <2>1
    <2> QED BY <2>1, <2>2
  <1>2. CASE ready # << >>
    <2> DEFINE next == Head(ready)
    <2>1. next \in Slot /\ InQueue(ready, next)
      <3>1. Len(ready) \in Nat /\ Len(ready) >= 1 /\ next = ready[1] /\ next \in Slot
        BY <1>2
      <3> QED BY <3>1 DEF InQueue
    <2>2. st[next] = "READY" /\ used[next]
      BY <2>1 DEF Agree
    <2>3. cur # NULL => /\ cur \in Slot /\ st[cur] = "RUNNING" /\ used[cur]
                        /\ ~InQueue(ready, cur) /\ cur # next
      BY <2>2, SlotFacts DEF Agree, Pointer
    <2>4. /\ state' = [s \in Slot |-> IF s = next THEN "RUNNING"
                                       ELSE IF s = cur THEN "READY" ELSE st[s]]
          /\ current' = next
          /\ ready' = Requeue(cur)
      BY <1>2 DEF Schedule
    <2>5. halted' \in {"no", "bad_context"}
      BY <1>2, <2>2, <2>3 DEF Schedule
    <2> HIDE DEF next
    <2>6. /\ state' \in [Slot -> States]
          /\ current' \in Pointer
          /\ \A s \in Slot : \/ state'[s] = st[s]
                             \/ /\ st[s] \in {"READY", "RUNNING"}
                                /\ state'[s] \in {"READY", "RUNNING"}
      <3>1. state' \in [Slot -> States] /\ current' \in Pointer
        BY <2>1, <2>4 DEF States, Pointer
      <3>2. \A s \in Slot : state'[s] = IF s = next THEN "RUNNING"
                                        ELSE IF s = cur THEN "READY" ELSE st[s]
        BY <2>4
      <3>3. \A s \in Slot : s = cur => st[s] = "RUNNING"
        BY <2>3, SlotFacts
      <3> QED BY <2>2, <3>1, <3>2, <3>3
    <2>7. \A i, j \in 1 .. Len(ready) : ready[i] = ready[j] => i = j
      BY DEF Agree
    <2>8. CASE cur = NULL
      <3>1. /\ ready' \in Seq(Slot)
            /\ \A i, j \in 1 .. Len(ready') : ready'[i] = ready'[j] => i = j
            /\ \A s \in Slot : InQueue(ready', s) <=> (InQueue(ready, s) /\ s # next)
        <4>1. ready' = Tail(ready) /\ next = Head(ready)
          BY <2>4, <2>8 DEF next, Requeue
        <4>2. /\ Tail(ready) \in Seq(Slot)
              /\ \A i, j \in 1 .. Len(Tail(ready)) :
                    Tail(ready)[i] = Tail(ready)[j] => i = j
              /\ \A s \in Slot : InQueue(Tail(ready), s)
                                 <=> (InQueue(ready, s) /\ s # Head(ready))
          BY <1>2, <2>7, PopQueue
        <4> QED BY <4>1, <4>2
      <3>2. \A s \in Slot : s # cur
        BY <2>8, SlotFacts
      <3>3. \A s \in Slot : state'[s] = IF s = next THEN "RUNNING" ELSE st[s]
        BY <2>4, <3>2
      <3>4. \A s \in Slot : (used[s] /\ state'[s] = "READY") <=> InQueue(ready', s)
        BY <3>1, <3>3 DEF Agree
      <3>5. \A s \in Slot : (used[s] /\ state'[s] = "RUNNING") <=> current' = s
        BY <2>1, <2>2, <2>4, <3>2, <3>3 DEF Agree
      <3> QED BY <2>5, <2>6, <3>1, <3>4, <3>5 DEF Agree
    <2>9. CASE cur # NULL
      <3>1. /\ ready' \in Seq(Slot)
            /\ \A i, j \in 1 .. Len(ready') : ready'[i] = ready'[j] => i = j
            /\ \A s \in Slot : InQueue(ready', s)
                               <=> (s = cur \/ (InQueue(ready, s) /\ s # next))
        <4>1. /\ ready' = Append(Tail(ready), cur) /\ next = Head(ready)
              /\ cur \in Slot /\ ~InQueue(ready, cur)
          BY <2>3, <2>4, <2>9, SlotFacts DEF next, Requeue
        <4>2. LET r == Append(Tail(ready), cur) IN
              /\ r \in Seq(Slot)
              /\ \A i, j \in 1 .. Len(r) : r[i] = r[j] => i = j
              /\ \A s \in Slot : InQueue(r, s)
                               <=> (s = cur \/ (InQueue(ready, s) /\ s # Head(ready)))
          BY <1>2, <2>7, <4>1, RotateQueue
        <4> QED BY <4>1, <4>2
      <3>2. \A s \in Slot : state'[s] = IF s = next THEN "RUNNING"
                                        ELSE IF s = cur THEN "READY" ELSE st[s]
        BY <2>4
      <3>3. \A s \in Slot : (used[s] /\ state'[s] = "READY") <=> InQueue(ready', s)
        BY <2>3, <2>9, <3>1, <3>2 DEF Agree
      <3>4. \A s \in Slot : (used[s] /\ state'[s] = "RUNNING") <=> current' = s
        BY <2>1, <2>2, <2>3, <2>4, <2>9, <3>2 DEF Agree
      <3> QED BY <2>5, <2>6, <3>1, <3>3, <3>4 DEF Agree
    <2> QED BY <2>8, <2>9
  <1> QED BY <1>1, <1>2

-----------------------------------------------------------------------------
LEMMA InitIInv == Init => IInv
PROOF
  <1> SUFFICES ASSUME Init PROVE IInv
    OBVIOUS
  <1>1. TypeOK
    BY SlotFacts, CodeAssumption
       DEF Init, TypeOK, States, Pointer, Halts, INIT_PID
  <1>2. RunQueueSound
    <2>1. Len(ready) = 1 /\ ready[1] = init_task
      BY DEF Init
    <2>2. \A i \in 1 .. Len(ready) : i = 1
      BY <2>1
    <2>3. \A s \in Slot : (\E i \in 1 .. Len(ready) : ready[i] = s) <=> s = init_task
      BY <2>1, <2>2
    <2>4. \A s \in Slot : /\ (used[s] /\ state[s] = "READY") <=> s = init_task
                          /\ state[s] # "RUNNING" /\ current # s
      BY SlotFacts DEF Init
    <2> QED BY <2>2, <2>3, <2>4 DEF RunQueueSound
  <1>3. NoSchedulerPanic /\ TableStates
    BY SlotFacts DEF Init, NoSchedulerPanic, TableStates
  <1> QED BY <1>1, <1>2, <1>3 DEF IInv

(* The invariant of the states before a step that the running task takes. *)
LEMMA Running ==
  ASSUME IInv, halted = "no", current # NULL
  PROVE  /\ current \in Slot
         /\ used[current] /\ state[current] = "RUNNING"
         /\ Agree(used, state, current, ready)
         /\ state \in [Slot -> States] /\ ready \in Seq(Slot)
         /\ used \in [Slot -> BOOLEAN]
PROOF
  <1>1. current \in Slot
    BY DEF IInv, TypeOK, Pointer
  <1>2. Agree(used, state, current, ready)
    BY DEF IInv, RunQueueSound, Agree, InQueue
  <1> QED BY <1>1, <1>2 DEF IInv, TypeOK, Agree

(* What a rescheduling leaves true, from the states st it started from. *)
LEMMA ScheduleStep ==
  ASSUME IInv, halted = "no",
         NEW st \in [Slot -> States], NEW cur \in Pointer,
         Agree(used, st, cur, ready),
         cur # NULL \/ ready # << >>,
         \A s \in Slot : used[s] <=> st[s] \in {"READY", "RUNNING", "ZOMBIE"},
         st[init_task] \in {"READY", "RUNNING"},
         Schedule(st, cur), used' = used
  PROVE  /\ state' \in [Slot -> States] /\ current' \in Pointer
         /\ ready' \in Seq(Slot) /\ halted' \in Halts
         /\ RunQueueSound' /\ NoSchedulerPanic' /\ TableStates'
PROOF
  <1>1. used \in [Slot -> BOOLEAN] /\ ready \in Seq(Slot)
    BY DEF IInv, TypeOK
  <1>2. /\ state' \in [Slot -> States] /\ current' \in Pointer
        /\ ready' \in Seq(Slot) /\ halted' \in {"no", "bad_context"}
        /\ Agree(used, state', current', ready')
        /\ \A s \in Slot : \/ state'[s] = st[s]
                           \/ /\ st[s] \in {"READY", "RUNNING"}
                              /\ state'[s] \in {"READY", "RUNNING"}
    BY <1>1, ScheduleAgrees
  <1>3. RunQueueSound'
    BY <1>2 DEF RunQueueSound, Agree, InQueue
  <1>4. TableStates'
    BY <1>2, SlotFacts DEF TableStates
  <1> QED BY <1>2, <1>3, <1>4 DEF Halts, NoSchedulerPanic

-----------------------------------------------------------------------------
(* Reaping a zombie frees its slot and touches no live task. *)
LEMMA ReapStep ==
  ASSUME IInv, halted = "no", NEW p \in Slot, NEW c \in Slot,
         state[c] = "ZOMBIE", Reap(p, c)
  PROVE  IInv'
PROOF
  <1>1. TypeOK'
    BY SlotFacts DEF IInv, TypeOK, Reap, States, Pointer
  <1>2. \A s \in Slot : /\ state'[s] = IF s = c THEN "DEAD" ELSE state[s]
                        /\ used'[s] = IF s = c THEN FALSE ELSE used[s]
    BY DEF IInv, TypeOK, Reap
  <1>3. ready' = ready /\ current' = current /\ halted' = halted
    BY DEF Reap
  <1>4. RunQueueSound'
    <2>1. ASSUME NEW s \in Slot, s # c
          PROVE  used'[s] = used[s] /\ state'[s] = state[s]
      BY <1>2, <2>1
    <2>c. ~used'[c] /\ state[c] # "READY" /\ state[c] # "RUNNING"
      BY <1>2
    <2>2. RunQueueSound
      BY DEF IInv
    <2>3. \A i, j \in 1 .. Len(ready') : ready'[i] = ready'[j] => i = j
      BY <1>3, <2>2 DEF RunQueueSound
    <2>4. ASSUME NEW s \in Slot
          PROVE  (used'[s] /\ state'[s] = "READY")
                 <=> \E i \in 1 .. Len(ready') : ready'[i] = s
      <3>1. (used[s] /\ state[s] = "READY") <=> \E i \in 1 .. Len(ready) : ready[i] = s
        BY <2>2 DEF RunQueueSound
      <3> QED BY <1>3, <2>1, <2>c, <3>1
    <2>5. ASSUME NEW s \in Slot
          PROVE  (used'[s] /\ state'[s] = "RUNNING") <=> current' = s
      <3>1. (used[s] /\ state[s] = "RUNNING") <=> current = s
        BY <2>2 DEF RunQueueSound
      <3> QED BY <1>3, <2>1, <2>c, <3>1
    <2> QED BY <2>3, <2>4, <2>5 DEF RunQueueSound
  <1>5. NoSchedulerPanic' /\ TableStates'
    BY <1>2, <1>3, SlotFacts DEF IInv, NoSchedulerPanic, TableStates
  <1> QED BY <1>1, <1>4, <1>5 DEF IInv

(* A waiting loop that found no zombie lets the next task run. *)
LEMMA SuspendStep ==
  ASSUME IInv, halted = "no", NEW p \in Slot, current = p,
         NEW target \in Pointer \cup {ANY}, Suspend(p, target)
  PROVE  IInv'
PROOF
  <1>1. current # NULL
    BY SlotFacts
  <1>2. /\ state' \in [Slot -> States] /\ current' \in Pointer
        /\ ready' \in Seq(Slot) /\ halted' \in Halts
        /\ RunQueueSound' /\ NoSchedulerPanic' /\ TableStates'
    <2>1. /\ Agree(used, state, p, ready) /\ state \in [Slot -> States]
      BY <1>1, Running
    <2>2. Schedule(state, p) /\ used' = used
      BY DEF Suspend, table
    <2>3. /\ \A s \in Slot : used[s] <=> state[s] \in {"READY", "RUNNING", "ZOMBIE"}
          /\ state[init_task] \in {"READY", "RUNNING"}
      BY DEF IInv, TableStates
    <2> QED BY <1>1, <2>1, <2>2, <2>3, ScheduleStep DEF Pointer
  <1>3. TypeOK'
    BY <1>2 DEF IInv, TypeOK, Suspend, table, lists
  <1> QED BY <1>2, <1>3 DEF IInv

LEMMA WaitLoopStep ==
  ASSUME IInv, halted = "no", NEW p \in Slot, current = p,
         NEW target \in Pointer \cup {ANY}, WaitLoop(p, target)
  PROVE  IInv'
PROOF
  <1>1. CASE \E c \in Found(p, target) : Reap(p, c)
    <2>1. PICK c \in Found(p, target) : Reap(p, c)
      BY <1>1
    <2>2. c \in Slot /\ state[c] = "ZOMBIE"
      BY DEF Found, Foremost, Zombies
    <2> QED BY <2>1, <2>2, ReapStep
  <1>2. CASE Suspend(p, target)
    BY <1>2, SuspendStep
  <1> QED BY <1>1, <1>2 DEF WaitLoop

(* The slot that fork takes is free, and it joins the queue. *)
LEMMA ForkStep ==
  ASSUME IInv, NEW p \in Slot, Fork(p), FirstFree \in Free
  PROVE  IInv'
PROOF
  <1> DEFINE c == FirstFree
  <1>1. c \in Slot /\ ~used[c]
    BY DEF Free
  <1>2. /\ used' = [used EXCEPT ![c] = TRUE]
        /\ state' = [state EXCEPT ![c] = "READY"]
        /\ ready' = Append(ready, c)
        /\ current' = current /\ halted' = halted
    BY DEF Fork, CreateTask
  <1>3. /\ parent' = [parent EXCEPT ![c] = p]
        /\ sibling' = [sibling EXCEPT ![c] = child[p]]
        /\ child' = [child EXCEPT ![c] = NULL, ![p] = c]
        /\ pid' = [pid EXCEPT ![c] = next_pid]
        /\ frame' = [frame EXCEPT ![c] = "top"]
        /\ context' = [context EXCEPT ![c] =
                         IF frame[p] = "top" THEN context[p] ELSE "stale"]
        /\ next_pid' = next_pid + 1
        /\ exit_code' = exit_code /\ waiting' = waiting
    BY DEF Fork, CreateTask, PidAfter
  <1> HIDE DEF c
  <1>4. ready \in Seq(Slot) /\ Agree(used, state, current, ready)
    BY DEF IInv, TypeOK, RunQueueSound, Agree, InQueue
  <1>5. ~InQueue(ready, c)
    BY <1>1, <1>4 DEF Agree
  <1>6. /\ ready' \in Seq(Slot)
        /\ \A i, j \in 1 .. Len(ready') : ready'[i] = ready'[j] => i = j
        /\ \A s \in Slot : InQueue(ready', s) <=> (s = c \/ InQueue(ready, s))
    BY <1>1, <1>2, <1>4, <1>5, PushQueue DEF Agree
  <1>7. TypeOK'
    <2> USE DEF IInv, TypeOK, Pointer
    <2>1. /\ used' \in [Slot -> BOOLEAN] /\ state' \in [Slot -> States]
          /\ current' \in Pointer /\ halted' \in Halts
      BY <1>1, <1>2 DEF States
    <2>2. pid' \in [Slot -> Nat] /\ next_pid' \in Nat /\ exit_code' \in [Slot -> Codes]
      BY <1>1, <1>3
    <2>3. /\ parent' \in [Slot -> Pointer] /\ sibling' \in [Slot -> Pointer]
          /\ child' \in [Slot -> Pointer]
      BY <1>1, <1>3
    <2>4. frame' \in [Slot -> {"top", "deep"}]
      BY <1>1, <1>3
    <2>5. context' \in [Slot -> {"on", "off", "stale"}]
      <3>1. (IF frame[p] = "top" THEN context[p] ELSE "stale") \in {"on", "off", "stale"}
        OBVIOUS
      <3> QED BY <1>1, <1>3, <3>1
    <2>6. waiting' \in [Slot -> Pointer \cup {ANY}]
      BY <1>3
    <2> QED BY <1>6, <2>1, <2>2, <2>3, <2>4, <2>5, <2>6
  <1>8. \A s \in Slot : /\ state'[s] = IF s = c THEN "READY" ELSE state[s]
                        /\ used'[s] = IF s = c THEN TRUE ELSE used[s]
    BY <1>2 DEF IInv, TypeOK
  <1>9. RunQueueSound'
    <2>1. \A s \in Slot : (used'[s] /\ state'[s] = "READY") <=> InQueue(ready', s)
      BY <1>4, <1>6, <1>8 DEF Agree
    <2>2. \A s \in Slot : (used'[s] /\ state'[s] = "RUNNING") <=> current' = s
      <3>1. state'[c] = "READY" /\ current' # c
        BY <1>1, <1>2, <1>4, <1>8 DEF Agree
      <3>2. \A s \in Slot : s # c => used'[s] = used[s] /\ state'[s] = state[s]
        BY <1>8
      <3>3. \A s \in Slot : s # c => ((used'[s] /\ state'[s] = "RUNNING") <=> current' = s)
        BY <1>2, <1>4, <3>2 DEF Agree
      <3> QED BY <3>1, <3>3
    <2> QED BY <1>6, <2>1, <2>2 DEF RunQueueSound, InQueue
  <1>10. NoSchedulerPanic' /\ TableStates'
    <2>1. \A s \in Slot : used'[s] <=> state'[s] \in {"READY", "RUNNING", "ZOMBIE"}
      <3>1. \A s \in Slot : s # c => used'[s] = used[s] /\ state'[s] = state[s]
        BY <1>8
      <3>2. used'[c] /\ state'[c] = "READY"
        BY <1>1, <1>8
      <3>3. \A s \in Slot : s # c => (used'[s] <=> state'[s] \in {"READY", "RUNNING", "ZOMBIE"})
        BY <3>1 DEF IInv, TableStates
      <3> QED BY <3>2, <3>3
    <2>2. halted' = "no" => state'[init_task] \in {"READY", "RUNNING"}
      BY <1>2, <1>8, SlotFacts DEF IInv, TableStates
    <2> QED BY <1>2, <2>1, <2>2 DEF IInv, NoSchedulerPanic, TableStates
  <1> QED BY <1>7, <1>9, <1>10 DEF IInv

-----------------------------------------------------------------------------
(***************************************************************************)
(* The invariant holds after every step.                                   *)
(***************************************************************************)
(* There is a smallest free slot, which get_free_task_union takes. *)
LEMMA FirstFreeIsFree == Free # {} => FirstFree \in Free
PROOF
  <1> SUFFICES ASSUME Free # {} PROVE FirstFree \in Free
    OBVIOUS
  <1>1. Free \subseteq Nat
    BY SlotFacts DEF Free
  <1>2. \E x \in Free : \A y \in Free : ~(<<y, x>> \in OpToRel(<, Nat))
    BY <1>1, WFMin, NatLessThanWellFounded, Zenon
  <1>3. PICK x \in Free : \A y \in Free : ~(<<y, x>> \in OpToRel(<, Nat))
    BY <1>2
  <1>4. OpToRel(<, Nat) = {ss \in Nat \X Nat : ss[1] < ss[2]}
    BY Zenon DEF OpToRel
  <1>5. \A y \in Free : ~(<<y, x>> \in {ss \in Nat \X Nat : ss[1] < ss[2]})
    BY <1>3, <1>4, Zenon
  <1>6. ASSUME NEW y \in Free PROVE x <= y
    <2>1. x \in Nat /\ y \in Nat
      BY <1>1
    <2>2. ~(<<y, x>> \in {ss \in Nat \X Nat : ss[1] < ss[2]})
      BY <1>5
    <2>3. ~(y < x)
      BY <2>1, <2>2
    <2> QED BY <2>1, <2>3
  <1> QED BY <1>6 DEF FirstFree

(* The lists that an exit rewrites keep their types. *)
LEMMA ExitTypes ==
  ASSUME TypeOK, NEW p \in Slot
  PROVE  /\ OrphansParent(p) \in [Slot -> Pointer]
         /\ JoinedSiblings(p) \in [Slot -> Pointer]
         /\ (IF child[p] = NULL THEN child
             ELSE [child EXCEPT ![init_task] = child[p]]) \in [Slot -> Pointer]
BY SlotFacts DEF TypeOK, Pointer, OrphansParent, JoinedSiblings

(* While the kernel runs, there is a task to schedule. *)
LEMMA SomeTask ==
  ASSUME IInv, halted = "no"
  PROVE  current # NULL \/ ready # << >>
PROOF
  <1> SUFFICES ASSUME current = NULL PROVE ready # << >>
    OBVIOUS
  <1>1. Agree(used, state, current, ready)
    BY DEF IInv, RunQueueSound, Agree, InQueue
  <1>2. used[init_task] /\ state[init_task] = "READY"
    BY <1>1, SlotFacts DEF IInv, TableStates, Agree
  <1>3. InQueue(ready, init_task)
    BY <1>1, <1>2, SlotFacts DEF Agree
  <1>4. PICK i \in 1 .. Len(ready) : ready[i] = init_task
    BY <1>3 DEF InQueue
  <1> QED BY <1>4

(* The exit of a task leaves init READY, so that a task is found to run. *)
LEMMA ExitSchedules ==
  ASSUME IInv, NEW p \in Slot, halted = "no", current = p, p # init_task
  PROVE  LET st == [state EXCEPT ![p] = "ZOMBIE"] IN
         /\ st \in [Slot -> States]
         /\ \A s \in Slot : st[s] = IF s = p THEN "ZOMBIE" ELSE state[s]
         /\ Agree(used, st, NULL, ready)
         /\ \A s \in Slot : used[s] <=> st[s] \in {"READY", "RUNNING", "ZOMBIE"}
         /\ st[init_task] = "READY"
         /\ ready # << >>
PROOF
  <1> DEFINE st == [state EXCEPT ![p] = "ZOMBIE"]
  <1>1. /\ used[p] /\ state[p] = "RUNNING"
        /\ Agree(used, state, current, ready)
        /\ state \in [Slot -> States]
    BY SlotFacts, Running
  <1>2. /\ st \in [Slot -> States]
        /\ \A s \in Slot : st[s] = IF s = p THEN "ZOMBIE" ELSE state[s]
    BY <1>1 DEF States
  <1> HIDE DEF st
  <1>3. Agree(used, st, NULL, ready)
    <2>1. \A s \in Slot : (used[s] /\ st[s] = "READY") <=> InQueue(ready, s)
      BY <1>1, <1>2 DEF Agree
    <2>2. \A s \in Slot : ~(used[s] /\ st[s] = "RUNNING") /\ NULL # s
      BY <1>1, <1>2, SlotFacts DEF Agree
    <2>3. \A i, j \in 1 .. Len(ready) : ready[i] = ready[j] => i = j
      BY <1>1 DEF Agree
    <2> QED BY <2>1, <2>2, <2>3 DEF Agree
  <1>4. /\ \A s \in Slot : used[s] <=> st[s] \in {"READY", "RUNNING", "ZOMBIE"}
        /\ st[init_task] = "READY" /\ used[init_task]
    <2>1. \A s \in Slot : used[s] <=> st[s] \in {"READY", "RUNNING", "ZOMBIE"}
      BY <1>1, <1>2 DEF IInv, TableStates
    <2>2. state[init_task] \in {"READY", "RUNNING"} /\ used[init_task]
      BY SlotFacts DEF IInv, TableStates
    <2>3. state[init_task] # "RUNNING"
      BY <1>1, <2>2, SlotFacts DEF Agree
    <2> QED BY <1>2, <2>1, <2>2, <2>3, SlotFacts
  <1>5. ready # << >>
    <2>1. InQueue(ready, init_task)
      BY <1>3, <1>4, SlotFacts DEF Agree
    <2>2. PICK i \in 1 .. Len(ready) : ready[i] = init_task
      BY <2>1 DEF InQueue
    <2> QED BY <2>2
  <1> QED BY <1>2, <1>3, <1>4, <1>5 DEF st

LEMMA ExitStep ==
  ASSUME IInv, NEW p \in Slot, NEW code \in Codes, Exit(p, code)
  PROVE  IInv'
PROOF
  <1> DEFINE st == [state EXCEPT ![p] = "ZOMBIE"]
  <1>1. halted = "no" /\ current = p /\ p # init_task
    BY DEF Exit, UserMode
  <1>2. Schedule(st, NULL) /\ used' = used
    BY DEF Exit
  <1>3. /\ st \in [Slot -> States]
        /\ Agree(used, st, NULL, ready)
        /\ \A s \in Slot : used[s] <=> st[s] \in {"READY", "RUNNING", "ZOMBIE"}
        /\ st[init_task] = "READY"
        /\ ready # << >>
    BY <1>1, ExitSchedules
  <1> HIDE DEF st
  <1>4. /\ state' \in [Slot -> States] /\ current' \in Pointer
        /\ ready' \in Seq(Slot) /\ halted' \in Halts
        /\ RunQueueSound' /\ NoSchedulerPanic' /\ TableStates'
    BY <1>1, <1>2, <1>3, ScheduleStep DEF Pointer
  <1>5. exit_code' \in [Slot -> Codes]
    BY DEF IInv, TypeOK, Exit
  <1>6. /\ parent' \in [Slot -> Pointer] /\ sibling' \in [Slot -> Pointer]
        /\ child' \in [Slot -> Pointer]
    BY ExitTypes DEF IInv, Exit
  <1>7. TypeOK'
    BY <1>4, <1>5, <1>6 DEF IInv, TypeOK, Exit
  <1> QED BY <1>4, <1>7 DEF IInv

(* A tick: the boot code and the running task are rescheduled alike. *)
LEMMA TickStep ==
  ASSUME IInv, \/ BootTick \/ \E p \in Slot : Tick(p)
  PROVE  IInv'
PROOF
  <1>1. halted = "no" /\ Schedule(state, current) /\ used' = used
    BY DEF BootTick, Tick, UserMode, table
  <1>2. /\ Agree(used, state, current, ready) /\ state \in [Slot -> States]
        /\ current \in Pointer
    BY DEF IInv, TypeOK, RunQueueSound, Agree, InQueue
  <1>3. /\ \A s \in Slot : used[s] <=> state[s] \in {"READY", "RUNNING", "ZOMBIE"}
        /\ state[init_task] \in {"READY", "RUNNING"}
    BY <1>1 DEF IInv, TableStates
  <1>4. current # NULL \/ ready # << >>
    BY <1>1, SomeTask
  <1>5. /\ state' \in [Slot -> States] /\ current' \in Pointer
        /\ ready' \in Seq(Slot) /\ halted' \in Halts
        /\ RunQueueSound' /\ NoSchedulerPanic' /\ TableStates'
    BY <1>1, <1>2, <1>3, <1>4, ScheduleStep
  <1>6. CASE BootTick
    BY <1>5, <1>6 DEF IInv, TypeOK, BootTick, table, lists
  <1>7. CASE \E p \in Slot : Tick(p)
    BY <1>5, <1>7 DEF IInv, TypeOK, Tick, table, lists
  <1> QED BY <1>6, <1>7

(* The panics outside the scheduler stop the kernel with the table as it is. *)
LEMMA HaltStep ==
  ASSUME IInv, \/ InitExit
               \/ \E p \in Slot : ForkTableFull(p) \/ WaitpidZero(p)
  PROVE  IInv'
PROOF
  <1>1. CASE \E p \in Slot : ForkTableFull(p) \/ WaitpidZero(p)
    <2>1. /\ UNCHANGED <<table, lists, state, current, ready, frame, context, waiting>>
          /\ halted' \in {"fork_null", "waitpid_zero"}
      BY <1>1 DEF ForkTableFull, WaitpidZero
    <2>2. TypeOK'
      BY <2>1 DEF IInv, TypeOK, Halts, table, lists
    <2>3. RunQueueSound'
      BY <2>1 DEF IInv, RunQueueSound, table
    <2>4. NoSchedulerPanic' /\ TableStates'
      BY <2>1 DEF NoSchedulerPanic, TableStates, table, IInv
    <2> QED BY <2>2, <2>3, <2>4 DEF IInv
  <1>2. CASE InitExit
    <2>1. /\ UNCHANGED <<table, lists, ready, frame, context, waiting>>
          /\ state' = [state EXCEPT ![init_task] = "ZOMBIE"]
          /\ current' = NULL /\ halted' = "init_exit"
          /\ halted = "no" /\ current = init_task
      BY <1>2 DEF InitExit, UserMode
    <2>2. TypeOK'
      BY <2>1 DEF IInv, TypeOK, Halts, States, Pointer, table, lists
    <2>3. /\ Agree(used, state, current, ready) /\ used[init_task]
          /\ state[init_task] = "RUNNING"
      BY <2>1, SlotFacts, Running
    <2>4. \A s \in Slot : state'[s] = IF s = init_task THEN "ZOMBIE" ELSE state[s]
      BY <2>1 DEF IInv, TypeOK
    <2>5. Agree(used', state', current', ready')
      <3>1. \A s \in Slot : (used'[s] /\ state'[s] = "READY") <=> InQueue(ready', s)
        BY <2>1, <2>3, <2>4 DEF Agree, table
      <3>2. \A s \in Slot : ~(used'[s] /\ state'[s] = "RUNNING") /\ current' # s
        BY <2>1, <2>3, <2>4, SlotFacts DEF Agree, table
      <3>3. \A i, j \in 1 .. Len(ready') : ready'[i] = ready'[j] => i = j
        BY <2>1, <2>3 DEF Agree
      <3> QED BY <3>1, <3>2, <3>3 DEF Agree
    <2>6. RunQueueSound'
      BY <2>5 DEF RunQueueSound, Agree, InQueue
    <2>7. NoSchedulerPanic' /\ TableStates'
      BY <2>1, <2>3, <2>4, SlotFacts DEF IInv, NoSchedulerPanic, TableStates, table
    <2> QED BY <2>2, <2>6, <2>7 DEF IInv
  <1> QED BY <1>1, <1>2

LEMMA ExeclStep ==
  ASSUME IInv, NEW p \in Slot, Execl(p)
  PROVE  IInv'
PROOF
  <1>1. UNCHANGED <<used, state, current, ready, halted>>
    BY DEF Execl, table
  <1>2. TypeOK'
    BY DEF IInv, TypeOK, Execl, table, lists
  <1>3. RunQueueSound'
    BY <1>1 DEF IInv, RunQueueSound
  <1>4. NoSchedulerPanic' /\ TableStates'
    BY <1>1 DEF IInv, NoSchedulerPanic, TableStates
  <1> QED BY <1>2, <1>3, <1>4 DEF IInv

LEMMA StutterStep == IInv /\ UNCHANGED vars => IInv'
PROOF
  <1> SUFFICES ASSUME IInv, UNCHANGED vars PROVE IInv'
    OBVIOUS
  <1>1. TypeOK' /\ NoSchedulerPanic' /\ TableStates'
    BY DEF IInv, TypeOK, NoSchedulerPanic, TableStates, vars
  <1>2. RunQueueSound'
    BY DEF IInv, RunQueueSound, vars
  <1> QED BY <1>1, <1>2 DEF IInv

LEMMA WaitStep ==
  ASSUME IInv, NEW p \in Slot,
         \/ Wait(p) \/ WaitAgain(p)
         \/ \E arg \in 1 .. PidSpace - 1, nohang \in BOOLEAN : Waitpid(p, arg, nohang)
  PROVE  IInv'
PROOF
  <1>1. CASE Wait(p)
    BY <1>1, WaitLoopStep DEF Wait, UserMode
  <1>2. CASE WaitAgain(p)
    <2>1. waiting[p] \in Pointer \cup {ANY}
      BY DEF IInv, TypeOK
    <2> QED BY <1>2, <2>1, WaitLoopStep DEF WaitAgain, InKernel
  <1>3. CASE \E arg \in 1 .. PidSpace - 1, nohang \in BOOLEAN : Waitpid(p, arg, nohang)
    <2>1. PICK arg \in 1 .. PidSpace - 1, nohang \in BOOLEAN : Waitpid(p, arg, nohang)
      BY <1>3
    <2>2. PICK target \in PidTarget(p, AbsPid(arg)) : WaitLoop(p, target)
      BY <2>1 DEF Waitpid
    <2>3. target \in Pointer \cup {ANY}
      BY <2>2 DEF PidTarget, Foremost, Pointer
    <2> QED BY <2>1, <2>2, <2>3, WaitLoopStep DEF Waitpid, UserMode
  <1> QED BY <1>1, <1>2, <1>3

LEMMA IInvStep == IInv /\ [Next]_vars => IInv'
PROOF
  <1> SUFFICES ASSUME IInv, [Next]_vars PROVE IInv'
    OBVIOUS
  <1>1. CASE BootTick
    BY <1>1, TickStep
  <1>2. ASSUME NEW p \in Slot, Tick(p) PROVE IInv'
    BY <1>2, TickStep
  <1>3. ASSUME NEW p \in Slot, Syscall(p) PROVE IInv'
    <2>1. CASE Fork(p)
      BY <2>1, ForkStep, FirstFreeIsFree DEF Fork, CreateTask
    <2>2. CASE ForkTableFull(p) \/ WaitpidZero(p)
      BY <2>2, HaltStep
    <2>3. CASE \E code \in Codes : Exit(p, code)
      BY <2>3, ExitStep
    <2>4. CASE Wait(p)
      BY <2>4, WaitStep
    <2>5. CASE \E arg \in 1 .. PidSpace - 1, nohang \in BOOLEAN : Waitpid(p, arg, nohang)
      BY <2>5, WaitStep
    <2>6. CASE Execl(p)
      BY <2>6, ExeclStep
    <2> QED BY <1>3, <2>1, <2>2, <2>3, <2>4, <2>5, <2>6 DEF Syscall
  <1>4. ASSUME NEW p \in Slot, WaitAgain(p) PROVE IInv'
    BY <1>4, WaitStep
  <1>5. CASE InitExit
    BY <1>5, HaltStep
  <1>6. CASE Spin \/ UNCHANGED vars
    BY <1>6, StutterStep DEF Spin
  <1> QED BY <1>1, <1>2, <1>3, <1>4, <1>5, <1>6 DEF Next

(* In every reachable state the invariant holds. *)
THEOREM Invariance == Spec => []IInv
  BY InitIInv, IInvStep, PTL DEF Spec

(* Every variable keeps its type: the task table, the lists and the queue   *)
(* hold slots, and pids and exit codes are numbers.                         *)
THEOREM TypeCorrect == Spec => []TypeOK
  BY Invariance, PTL DEF IInv

(* The run queue holds each ready task once, and current_task is the one    *)
(* running task, however forks, exits, waits and ticks interleave.          *)
THEOREM RunQueueIsSound == Spec => []RunQueueSound
  BY Invariance, PTL DEF IInv

(* The scheduler always finds a task, and none in an unexpected state.      *)
THEOREM SchedulerNeverPanics == Spec => []NoSchedulerPanic
  BY Invariance, PTL DEF IInv

-----------------------------------------------------------------------------
(***************************************************************************)
(* Pids.  Only fork changes a pid, and it takes the next one for a slot    *)
(* that was free; no other step puts a slot in use.                        *)
(***************************************************************************)
LEMMA PidsFrame ==
  ASSUME IInv, [Next]_vars,
         ~(\E p \in Slot : Fork(p))
  PROVE  /\ pid' = pid /\ next_pid' = next_pid
         /\ \A s \in Slot : used'[s] => used[s]
PROOF
  <1> DEFINE Frame == /\ pid' = pid /\ next_pid' = next_pid
                      /\ \A s \in Slot : used'[s] => used[s]
  <1>1. ASSUME NEW p \in Slot, NEW c \in Slot, Reap(p, c) PROVE Frame
    BY <1>1 DEF IInv, TypeOK, Reap
  <1>2. ASSUME NEW p \in Slot, NEW target, WaitLoop(p, target) PROVE Frame
    <2>1. CASE Suspend(p, target)
      BY <2>1 DEF Suspend, table
    <2>2. CASE \E c \in Found(p, target) : Reap(p, c)
      BY <1>1, <2>2 DEF Found, Foremost, Zombies
    <2> QED BY <1>2, <2>1, <2>2 DEF WaitLoop
  <1>3. ASSUME NEW p \in Slot, Syscall(p) PROVE Frame
    <2>1. CASE ForkTableFull(p) \/ WaitpidZero(p) \/ Execl(p)
      BY <2>1 DEF ForkTableFull, WaitpidZero, Execl, table
    <2>2. CASE \E code \in Codes : Exit(p, code)
      BY <2>2 DEF Exit
    <2>3. CASE Wait(p)
      BY <1>2, <2>3 DEF Wait
    <2>4. CASE \E arg \in 1 .. PidSpace - 1, nohang \in BOOLEAN : Waitpid(p, arg, nohang)
      BY <1>2, <2>4 DEF Waitpid
    <2> QED BY <1>3, <2>1, <2>2, <2>3, <2>4 DEF Syscall
  <1>4. ASSUME NEW p \in Slot, WaitAgain(p) PROVE Frame
    BY <1>2, <1>4 DEF WaitAgain
  <1>5. CASE BootTick \/ InitExit \/ Spin \/ UNCHANGED vars
    BY <1>5 DEF BootTick, InitExit, Spin, table, vars
  <1>6. ASSUME NEW p \in Slot, Tick(p) PROVE Frame
    BY <1>6 DEF Tick, table
  <1> QED BY <1>3, <1>4, <1>5, <1>6 DEF Next

LEMMA PidsStep == IInv /\ PidsUnique /\ [Next]_vars => PidsUnique'
PROOF
  <1> SUFFICES ASSUME IInv, PidsUnique, [Next]_vars PROVE PidsUnique'
    OBVIOUS
  <1>1. CASE ~(\E p \in Slot : Fork(p))
    <2>1. /\ pid' = pid /\ next_pid' = next_pid
          /\ \A s \in Slot : used'[s] => used[s]
      BY <1>1, PidsFrame
    <2> QED BY <2>1 DEF PidsUnique
  <1>2. ASSUME NEW p \in Slot, Fork(p) PROVE PidsUnique'
    <2> DEFINE c == FirstFree
    <2>1. c \in Slot /\ ~used[c]
      BY <1>2, FirstFreeIsFree DEF Fork, CreateTask, Free
    <2>2. /\ used' = [used EXCEPT ![c] = TRUE]
          /\ pid' = [pid EXCEPT ![c] = next_pid] /\ next_pid' = next_pid + 1
      BY <1>2 DEF Fork, CreateTask, PidAfter
    <2> HIDE DEF c
    <2>3. \A s \in Slot : /\ pid'[s] = IF s = c THEN next_pid ELSE pid[s]
                          /\ used'[s] = IF s = c THEN TRUE ELSE used[s]
      BY <2>2 DEF IInv, TypeOK
    <2>4. next_pid \in Nat /\ \A s \in Slot : pid[s] \in Nat
      BY DEF IInv, TypeOK
    <2>5. ASSUME NEW s \in Slot, used'[s]
          PROVE  pid'[s] < next_pid' /\ (s # c => used[s] /\ pid'[s] < next_pid)
      <3>1. CASE s = c
        <4>1. pid'[s] = next_pid
          BY <2>3, <3>1
        <4> QED BY <2>2, <2>4, <3>1, <4>1
      <3>2. CASE s # c
        <4>1. used[s] /\ pid'[s] = pid[s]
          BY <2>3, <2>5, <3>2
        <4>2. pid[s] < next_pid
          BY <4>1 DEF PidsUnique
        <4> QED BY <2>2, <2>4, <4>1, <4>2
      <3> QED BY <3>1, <3>2
    <2>6. ASSUME NEW s \in Slot, NEW t \in Slot, used'[s], used'[t], pid'[s] = pid'[t]
          PROVE  s = t
      <3>1. ASSUME NEW x \in Slot, x # c, used'[x]
            PROVE  used[x] /\ pid'[x] = pid[x] /\ pid'[x] < next_pid
        BY <2>3, <2>5, <3>1
      <3>2. pid'[c] = next_pid
        BY <2>1, <2>3
      <3>3. CASE s = c /\ t # c
        <4>1. pid'[t] < next_pid /\ pid'[t] = next_pid
          BY <2>6, <3>1, <3>2, <3>3
        <4> QED BY <2>4, <4>1
      <3>4. CASE s # c /\ t = c
        <4>1. pid'[s] < next_pid /\ pid'[s] = next_pid
          BY <2>6, <3>1, <3>2, <3>4
        <4> QED BY <2>4, <4>1
      <3>5. CASE s # c /\ t # c
        <4>1. used[s] /\ used[t] /\ pid[s] = pid[t]
          BY <2>6, <3>1, <3>5
        <4> QED BY <4>1 DEF PidsUnique
      <3> QED BY <3>3, <3>4, <3>5
    <2> QED BY <2>5, <2>6 DEF PidsUnique
  <1> QED BY <1>1, <1>2

(* No two tasks of the table, zombies included, ever share a pid.           *)
THEOREM PidsAreUnique == Spec => []PidsUnique
PROOF
  <1>1. Init => PidsUnique
    <2> SUFFICES ASSUME Init PROVE PidsUnique
      OBVIOUS
    <2>1. \A s \in Slot : used[s] => s = init_task
      BY DEF Init
    <2>2. pid[init_task] = 1 /\ next_pid = 2
      BY SlotFacts DEF Init, INIT_PID
    <2> QED BY <2>1, <2>2 DEF PidsUnique
  <1> QED BY <1>1, PidsStep, Invariance, PTL DEF Spec

-----------------------------------------------------------------------------
(***************************************************************************)
(* Zombies.  A zombie is not in the run queue and does not run, so that a  *)
(* rescheduling passes it over, and it is not free, so that no fork takes  *)
(* its slot.                                                               *)
(***************************************************************************)
LEMMA ScheduleKeepsZombies ==
  ASSUME IInv, Schedule(state, current), halted = "no"
  PROVE  \A s \in Slot : state[s] = "ZOMBIE" => state'[s] = "ZOMBIE"
PROOF
  <1>1. /\ Agree(used, state, current, ready) /\ state \in [Slot -> States]
        /\ current \in Pointer /\ used \in [Slot -> BOOLEAN] /\ ready \in Seq(Slot)
    BY DEF IInv, TypeOK, RunQueueSound, Agree, InQueue
  <1>2. \A s \in Slot : \/ state'[s] = state[s]
                        \/ /\ state[s] \in {"READY", "RUNNING"}
                          /\ state'[s] \in {"READY", "RUNNING"}
    BY <1>1, SomeTask, ScheduleAgrees
  <1> QED BY <1>2

LEMMA ExitKeepsZombies ==
  ASSUME IInv, NEW p \in Slot, NEW code \in Codes, Exit(p, code)
  PROVE  KeepZombies
PROOF
  <1> DEFINE st == [state EXCEPT ![p] = "ZOMBIE"]
  <1>1. halted = "no" /\ current = p /\ p # init_task /\ pid' = pid
        /\ Schedule(st, NULL) /\ exit_code' = [exit_code EXCEPT ![p] = code]
    BY DEF Exit, UserMode
  <1>2. /\ st \in [Slot -> States] /\ ready # << >>
        /\ \A s \in Slot : st[s] = IF s = p THEN "ZOMBIE" ELSE state[s]
        /\ Agree(used, st, NULL, ready)
    BY <1>1, ExitSchedules
  <1> HIDE DEF st
  <1>3. \A s \in Slot : \/ state'[s] = st[s]
                        \/ /\ st[s] \in {"READY", "RUNNING"}
                          /\ state'[s] \in {"READY", "RUNNING"}
    BY <1>1, <1>2, ScheduleAgrees DEF IInv, TypeOK, Pointer
  <1>4. state[p] = "RUNNING"
    BY <1>1, SlotFacts, Running
  <1>5. \A s \in Slot : state[s] = "ZOMBIE" =>
          state'[s] = "ZOMBIE" /\ exit_code'[s] = exit_code[s]
    BY <1>1, <1>2, <1>3, <1>4 DEF IInv, TypeOK
  <1> QED BY <1>1, <1>5 DEF KeepZombies

LEMMA WaitKeepsZombies ==
  ASSUME IInv, NEW p \in Slot, current = p, halted = "no",
         NEW target, WaitLoop(p, target)
  PROVE  KeepZombies
PROOF
  <1>1. CASE Suspend(p, target)
    <2>1. Schedule(state, current) /\ pid' = pid /\ exit_code' = exit_code
      BY <1>1 DEF Suspend, table
    <2> QED BY <2>1, ScheduleKeepsZombies DEF KeepZombies
  <1>2. ASSUME NEW c \in Found(p, target), Reap(p, c) PROVE KeepZombies
    <2>1. /\ state' = [state EXCEPT ![c] = "DEAD"] /\ used' = [used EXCEPT ![c] = FALSE]
          /\ pid' = pid /\ exit_code' = exit_code
      BY <1>2 DEF Reap
    <2>2. \A s \in Slot : used'[s] => s # c
      BY <2>1 DEF IInv, TypeOK
    <2>3. \A s \in Slot : s # c => state'[s] = state[s]
      BY <2>1 DEF IInv, TypeOK
    <2> QED BY <2>1, <2>2, <2>3 DEF KeepZombies
  <1> QED BY <1>1, <1>2 DEF WaitLoop

LEMMA ForkKeepsZombies ==
  ASSUME IInv, NEW p \in Slot, Fork(p)
  PROVE  KeepZombies
PROOF
  <1> DEFINE c == FirstFree
  <1>1. c \in Slot /\ ~used[c]
    BY FirstFreeIsFree DEF Fork, CreateTask, Free
  <1>2. /\ state' = [state EXCEPT ![c] = "READY"]
        /\ pid' = [pid EXCEPT ![c] = next_pid] /\ exit_code' = exit_code
    BY DEF Fork, CreateTask
  <1> HIDE DEF c
  <1>3. \A s \in Slot : used[s] => s # c
    BY <1>1
  <1>4. \A s \in Slot : s # c => state'[s] = state[s] /\ pid'[s] = pid[s]
    BY <1>2 DEF IInv, TypeOK
  <1> QED BY <1>2, <1>3, <1>4 DEF KeepZombies

LEMMA ZombieStep == IInv /\ [Next]_vars => [KeepZombies]_vars
PROOF
  <1> SUFFICES ASSUME IInv, [Next]_vars PROVE [KeepZombies]_vars
    OBVIOUS
  <1>1. CASE BootTick \/ \E p \in Slot : Tick(p)
    <2>1. /\ halted = "no" /\ Schedule(state, current)
          /\ pid' = pid /\ exit_code' = exit_code
      BY <1>1 DEF BootTick, Tick, UserMode, table
    <2> QED BY <2>1, ScheduleKeepsZombies DEF KeepZombies
  <1>2. ASSUME NEW p \in Slot, Syscall(p) PROVE KeepZombies
    <2>1. CASE Fork(p)
      BY <2>1, ForkKeepsZombies
    <2>2. CASE ForkTableFull(p) \/ WaitpidZero(p) \/ Execl(p)
      BY <2>2 DEF ForkTableFull, WaitpidZero, Execl, table, KeepZombies
    <2>3. CASE \E code \in Codes : Exit(p, code)
      BY <2>3, ExitKeepsZombies
    <2>4. CASE Wait(p)
      BY <2>4, WaitKeepsZombies DEF Wait, UserMode
    <2>5. CASE \E arg \in 1 .. PidSpace - 1, nohang \in BOOLEAN : Waitpid(p, arg, nohang)
      BY <2>5, WaitKeepsZombies DEF Waitpid, UserMode
    <2> QED BY <1>2, <2>1, <2>2, <2>3, <2>4, <2>5 DEF Syscall
  <1>3. ASSUME NEW p \in Slot, WaitAgain(p) PROVE KeepZombies
    BY <1>3, WaitKeepsZombies DEF WaitAgain, InKernel
  <1>4. CASE InitExit
    BY <1>4, SlotFacts DEF InitExit, table, KeepZombies, IInv, TypeOK
  <1>5. CASE Spin \/ UNCHANGED vars
    BY <1>5 DEF Spin
  <1> QED BY <1>1, <1>2, <1>3, <1>4, <1>5 DEF Next

(* What a task leaves for its parent when it exits, its pid and its exit    *)
(* code, stays as it is until the slot is given back.                       *)
THEOREM ZombiesAreKept == Spec => ZombiesKept
  BY Invariance, ZombieStep, PTL DEF Spec, ZombiesKept

-----------------------------------------------------------------------------
(***************************************************************************)
(* The run queue implements the first-in first-out queue of ReadyQueue.    *)
(***************************************************************************)
LEMMA ScheduleRotates ==
  ASSUME IInv, NEW st, NEW cur \in Pointer,
         cur # NULL => ~InQueue(ready, cur),
         Schedule(st, cur)
  PROVE  [Order!Next]_ready
PROOF
  <1>1. CASE ready = << >>
    BY <1>1 DEF Schedule
  <1>2. CASE ready # << >>
    <2>1. ready' = Requeue(cur)
      BY <1>2 DEF Schedule
    <2>2. CASE cur = NULL
      BY <1>2, <2>1, <2>2 DEF Requeue, Order!Next, Order!Leave
    <2>3. CASE cur # NULL
      <3>1. cur \in Slot /\ ready \in Seq(Slot)
        BY <2>3 DEF Pointer, IInv, TypeOK
      <3>2. ~Order!Waits(cur)
        BY <2>3, <3>1 DEF Order!Waits, InQueue
      <3>3. Order!Rotate(cur)
        BY <1>2, <2>1, <2>3, <3>2 DEF Requeue, Order!Rotate
      <3> QED BY <3>1, <3>3 DEF Order!Next
    <2> QED BY <2>2, <2>3
  <1> QED BY <1>1, <1>2

LEMMA WaitRotates ==
  ASSUME IInv, NEW p \in Slot, halted = "no", current = p,
         NEW target, WaitLoop(p, target)
  PROVE  [Order!Next]_ready
PROOF
  <1>1. CASE \E c \in Found(p, target) : Reap(p, c)
    BY <1>1 DEF Reap
  <1>2. CASE Suspend(p, target)
    <2>1. Schedule(state, p)
      BY <1>2 DEF Suspend
    <2>2. p \in Pointer /\ ~InQueue(ready, p)
      BY Running, SlotFacts DEF Agree, Pointer
    <2> QED BY <2>1, <2>2, ScheduleRotates
  <1> QED BY <1>1, <1>2 DEF WaitLoop

LEMMA QueueStep == IInv /\ [Next]_vars => [Order!Next]_ready
PROOF
  <1> SUFFICES ASSUME IInv, [Next]_vars PROVE [Order!Next]_ready
    OBVIOUS
  <1>1. CASE BootTick
    <2>1. Schedule(state, NULL)
      BY <1>1 DEF BootTick
    <2> QED BY <2>1, ScheduleRotates DEF Pointer
  <1>2. ASSUME NEW p \in Slot, Tick(p) PROVE [Order!Next]_ready
    <2>1. halted = "no" /\ current = p /\ Schedule(state, p)
      BY <1>2 DEF Tick, UserMode
    <2>2. p \in Pointer /\ ~InQueue(ready, p)
      BY <2>1, Running, SlotFacts DEF Agree, Pointer
    <2> QED BY <2>1, <2>2, ScheduleRotates
  <1>3. ASSUME NEW p \in Slot, Syscall(p) PROVE [Order!Next]_ready
    <2>1. CASE Fork(p)
      <3> DEFINE c == FirstFree
      <3>1. c \in Slot /\ ~used[c] /\ ready' = Append(ready, c)
        BY <2>1, FirstFreeIsFree DEF Fork, Free
      <3> HIDE DEF c
      <3>2. ~Order!Waits(c)
        BY <3>1 DEF IInv, TypeOK, RunQueueSound, Order!Waits
      <3> QED BY <3>1, <3>2 DEF Order!Next, Order!Join
    <2>2. CASE ForkTableFull(p) \/ WaitpidZero(p) \/ Execl(p)
      BY <2>2 DEF ForkTableFull, WaitpidZero, Execl
    <2>3. CASE \E code \in Codes : Exit(p, code)
      <3>1. Schedule([state EXCEPT ![p] = "ZOMBIE"], NULL)
        BY <2>3 DEF Exit
      <3> QED BY <3>1, ScheduleRotates DEF Pointer
    <2>4. CASE Wait(p)
      BY <2>4, WaitRotates DEF Wait, UserMode
    <2>5. CASE \E arg \in 1 .. PidSpace - 1, nohang \in BOOLEAN : Waitpid(p, arg, nohang)
      BY <2>5, WaitRotates DEF Waitpid, UserMode
    <2> QED BY <1>3, <2>1, <2>2, <2>3, <2>4, <2>5 DEF Syscall
  <1>4. ASSUME NEW p \in Slot, WaitAgain(p) PROVE [Order!Next]_ready
    BY <1>4, WaitRotates DEF WaitAgain, InKernel
  <1>5. CASE InitExit \/ Spin \/ UNCHANGED vars
    BY <1>5 DEF InitExit, Spin, vars
  <1> QED BY <1>1, <1>2, <1>3, <1>4, <1>5 DEF Next

(* Tasks run in the order in which they became ready: every change of the    *)
(* run queue is a join at the tail, a departure of the head, or both at      *)
(* once, and no other.                                                       *)
THEOREM RunsInOrder == Spec => FirstInFirstOut
PROOF
  <1>1. Init => Order!Init
    BY SlotFacts DEF Init, Order!Init
  <1> QED BY <1>1, Invariance, QueueStep, PTL DEF Spec, FirstInFirstOut, Order!Spec

-----------------------------------------------------------------------------
(***************************************************************************)
(* The lists of children.  ChildListsSound is not inductive: that a walk   *)
(* ends says nothing about where a walk through two spliced lists ends.    *)
(* Lists says where every task is: o[s] is the owner of the list that s is *)
(* in, NULL for a task that is in none, and r[s] its place in that list.   *)
(* live are the tasks that own lists; u, par, ch and sib are the fields    *)
(* used, parent, child and sibling.                                        *)
(***************************************************************************)
Heads(live, ch, o, r) ==
  \A p \in live : ch[p] # NULL => ch[p] \in Slot /\ o[ch[p]] = p /\ r[ch[p]] = 0

Owned(live, u, par, o) ==
  \A s \in Slot : o[s] # NULL => o[s] \in live /\ u[s] /\ par[s] = o[s]

Followed(sib, o, r) ==
  \A s \in Slot : o[s] # NULL /\ sib[s] # NULL =>
    sib[s] \in Slot /\ o[sib[s]] = o[s] /\ r[sib[s]] = r[s] + 1

Preceded(ch, sib, o, r) ==
  \A s \in Slot : o[s] # NULL =>
    IF r[s] = 0 THEN ch[o[s]] = s ELSE \E t \in Slot : o[t] = o[s] /\ sib[t] = s

Lists(live, u, par, ch, sib, o, r) ==
  /\ o \in [Slot -> Pointer] /\ r \in [Slot -> Nat]
  /\ live \subseteq Slot /\ \A s \in live : u[s]
  /\ Heads(live, ch, o, r)
  /\ Owned(live, u, par, o)
  /\ Followed(sib, o, r)
  /\ Preceded(ch, sib, o, r)

(* The child a task is suspended for is in its list. *)
Awaited(live, wait, o) ==
  \A p \in Slot : wait[p] # NULL =>
    p \in live /\ (wait[p] # ANY => wait[p] \in Slot /\ o[wait[p]] = p)

Living == {s \in Slot : Alive(s)}
Placed(o, r) ==
  Lists(Living, used, parent, child, sibling, o, r) /\ Awaited(Living, waiting, o)

CInv == \E o, r : Placed(o, r)

(* A step after which there are owners and places again, and for which a    *)
(* task that has an owner, or comes into the table, keeps or gets one, but  *)
(* for those that StayListed excepts                                        *)
Kept(o) ==
  \E o2, r2 :
    /\ Placed(o2, r2)'
    /\ \A c \in Slot :
         (used[c] => o[c] # NULL) /\ used'[c] /\ halted' # "init_exit" =>
           o2[c] # NULL \/ \E s \in Slot : used[s] /\ ~used'[s] /\ c \in Foremost(current, {c, s})

LEMMA WalkSteps ==
  ASSUME NEW p
  PROVE  /\ Walk(p)[0] = child[p]
         /\ \A i \in 1 .. NR_TASKS :
              Walk(p)[i] = IF Walk(p)[i - 1] = NULL THEN NULL ELSE sibling[Walk(p)[i - 1]]
PROOF
  <1>1. Walk(p) = Trail(NR_TASKS, child[p], NULL, sibling)
    BY DEF Walk, Trail
  <1>2. NR_TASKS \in Nat
    BY TableAssumption
  <1> QED BY <1>1, <1>2, TrailSteps

(* No function from 0 .. N to 0 .. N - 1 is injective.                      *)
LEMMA TooMany ==
  ASSUME NEW N \in Nat, NEW f \in [0 .. N -> 0 .. N - 1]
  PROVE  \E i, j \in 0 .. N : i # j /\ f[i] = f[j]
PROOF
  <1>1. /\ IsFiniteSet(0 .. N) /\ Cardinality(0 .. N) = N + 1
        /\ IsFiniteSet(0 .. N - 1) /\ Cardinality(0 .. N - 1) = N
    <2>1. N - 1 \in Int /\ 0 \in Int /\ N \in Int
      OBVIOUS
    <2>2. /\ IsFiniteSet(0 .. N) /\ Cardinality(0 .. N) = IF 0 > N THEN 0 ELSE N - 0 + 1
          /\ IsFiniteSet(0 .. N - 1)
          /\ Cardinality(0 .. N - 1) = IF 0 > N - 1 THEN 0 ELSE (N - 1) - 0 + 1
      BY <2>1, FS_Interval
    <2> QED BY <2>2
  <1>2. Cardinality(0 .. N - 1) < Cardinality(0 .. N)
    BY <1>1
  <1> QED BY <1>1, <1>2, FS_PigeonHole, Zenon

(* A walk through the list of p visits its members in the order of their    *)
(* places, all of them, and ends.                                           *)
LEMMA WalkVisits ==
  ASSUME NEW o, NEW r, Placed(o, r), NEW p \in Living
  PROVE  /\ Walk(p)[NR_TASKS] = NULL
         /\ \A i \in 0 .. NR_TASKS : Walk(p)[i] # NULL =>
              Walk(p)[i] \in Slot /\ o[Walk(p)[i]] = p /\ r[Walk(p)[i]] = i
         /\ \A s \in Slot : o[s] = p => r[s] \in 0 .. NR_TASKS - 1 /\ Walk(p)[r[s]] = s
PROOF
  <1> DEFINE N == NR_TASKS
             w == Walk(p)
             T == {i \in 0 .. N : w[i] # NULL => w[i] \in Slot /\ o[w[i]] = p /\ r[w[i]] = i}
             U == {i \in 0 .. N : \A s \in Slot : o[s] = p /\ r[s] = i => w[i] = s}
  <1>1. /\ w[0] = child[p]
        /\ \A i \in 1 .. N : w[i] = IF w[i - 1] = NULL THEN NULL ELSE sibling[w[i - 1]]
        /\ N \in Nat /\ N > 0
    BY WalkSteps, TableAssumption
  <1>2. /\ Heads(Living, child, o, r) /\ Followed(sibling, o, r)
        /\ Preceded(child, sibling, o, r)
        /\ r \in [Slot -> Nat] /\ p # NULL
    BY SlotFacts DEF Placed, Lists, Living
  <1> HIDE DEF N, w
  <1>3. \A i \in 0 .. N : i \in T
    <2>1. 0 \in T
      BY <1>1, <1>2 DEF Heads
    <2>2. ASSUME NEW i \in 0 .. N, i # N, i \in T PROVE i + 1 \in T
      <3>1. i + 1 \in 1 .. N /\ i + 1 \in 0 .. N /\ (i + 1) - 1 = i
        BY <1>1, <2>2
      <3>2. w[i + 1] = IF w[i] = NULL THEN NULL ELSE sibling[w[i]]
        BY <1>1, <3>1
      <3>3. w[i] # NULL => w[i] \in Slot /\ o[w[i]] = p /\ r[w[i]] = i
        BY <2>2
      <3> QED BY <1>2, <3>1, <3>2, <3>3 DEF Followed
    <2> HIDE DEF T
    <2> QED BY <1>1, <2>1, <2>2, Upwards
  <1>4. \A i \in 0 .. N : w[i] # NULL => w[i] \in Slot /\ o[w[i]] = p /\ r[w[i]] = i
    BY <1>3
  <1>5. w[N] = NULL
    <2>1. SUFFICES ASSUME w[N] # NULL PROVE FALSE
      OBVIOUS
    <2> DEFINE E == {k \in 0 .. N : w[N - k] # NULL}
    <2>2. \A k \in 0 .. N : k \in E
      <3>1. 0 \in E
        BY <1>1, <2>1
      <3>2. ASSUME NEW k \in 0 .. N, k # N, k \in E PROVE k + 1 \in E
        <4>1. N - k \in 1 .. N /\ (N - k) - 1 = N - (k + 1) /\ k + 1 \in 0 .. N
          BY <1>1, <3>2
        <4>2. w[N - k] # NULL
          BY <3>2
        <4>3. w[(N - k) - 1] # NULL
          BY <1>1, <4>1, <4>2
        <4> QED BY <4>1, <4>3
      <3> HIDE DEF E
      <3> QED BY <1>1, <3>1, <3>2, Upwards
    <2>3. ASSUME NEW i \in 0 .. N PROVE w[i] # NULL
      <3>1. N - i \in 0 .. N /\ N - (N - i) = i
        BY <1>1
      <3> QED BY <2>2, <3>1
    <2> DEFINE f == [i \in 0 .. N |-> w[i]]
    <2>4. f \in [0 .. N -> 0 .. N - 1]
      BY <1>4, <2>3 DEF Slot, N
    <2>5. \A i \in 0 .. N : f[i] = w[i]
      OBVIOUS
    <2> HIDE DEF f
    <2>6. PICK i \in 0 .. N, j \in 0 .. N : i # j /\ f[i] = f[j]
      BY <1>1, <2>4, TooMany
    <2> QED BY <1>4, <2>3, <2>5, <2>6
  <1>6. \A i \in 0 .. N : i \in U
    <2>1. 0 \in U
      BY <1>1, <1>2 DEF Preceded
    <2>2. ASSUME NEW i \in 0 .. N, i # N, i \in U PROVE i + 1 \in U
      <3>1. i + 1 \in 1 .. N /\ i + 1 \in 0 .. N /\ (i + 1) - 1 = i /\ i + 1 # 0
        BY <1>1, <2>2
      <3>2. ASSUME NEW s \in Slot, o[s] = p, r[s] = i + 1
            PROVE  w[i + 1] = s
        <4>1. PICK t \in Slot : o[t] = p /\ sibling[t] = s
          BY <1>2, <3>1, <3>2 DEF Preceded
        <4>2. r[s] = r[t] + 1 /\ r[t] \in Nat
          BY <1>2, <4>1, SlotFacts DEF Followed
        <4>3. r[t] = i
          BY <3>1, <3>2, <4>2
        <4>4. w[i] = t /\ t # NULL
          BY <2>2, <4>1, <4>3, SlotFacts
        <4> QED BY <1>1, <3>1, <4>1, <4>4
      <3> QED BY <3>1, <3>2
    <2> HIDE DEF U
    <2> QED BY <1>1, <2>1, <2>2, Upwards
  <1>7. ASSUME NEW s \in Slot, o[s] = p
        PROVE  r[s] \in 0 .. N - 1 /\ w[r[s]] = s
    <2> DEFINE Far == {k \in Nat : k >= N /\ \E t \in Slot : o[t] = p /\ r[t] = k}
    <2>1. Far = {}
      <3>1. SUFFICES ASSUME Far # {} PROVE FALSE
        OBVIOUS
      <3>2. PICK k \in Far : \A j \in Far : k <= j
        <4>1. Far \subseteq Nat
          OBVIOUS
        <4> HIDE DEF Far
        <4> QED BY <3>1, <4>1, LeastOf
      <3>3. PICK t \in Slot : o[t] = p /\ r[t] = k
        OBVIOUS
      <3>4. k # N
        <4>1. k = N => w[N] = t
          BY <1>1, <1>6, <3>3
        <4> QED BY <1>5, <4>1, SlotFacts
      <3>5. k \in Nat /\ k > N /\ k # 0
        BY <1>1, <3>4
      <3>6. PICK v \in Slot : o[v] = p /\ sibling[v] = t
        BY <1>2, <3>3, <3>5 DEF Preceded
      <3>7. r[t] = r[v] + 1 /\ r[v] \in Nat
        BY <1>2, <3>6, SlotFacts DEF Followed
      <3>8. r[v] \in Far /\ ~(k <= r[v])
        BY <1>1, <3>3, <3>5, <3>6, <3>7
      <3> QED BY <3>2, <3>8
    <2>2. r[s] \in Nat
      BY <1>2
    <2>3. r[s] \in 0 .. N - 1 /\ r[s] \in 0 .. N
      BY <1>1, <1>7, <2>1, <2>2
    <2> QED BY <1>6, <1>7, <2>3
  <1> QED BY <1>4, <1>5, <1>7 DEF N, w

LEMMA ChildrenAre ==
  ASSUME NEW o, NEW r, Placed(o, r), NEW p \in Living
  PROVE  /\ Children(p) = {s \in Slot : o[s] = p}
         /\ \A s, t \in Slot : o[s] = p /\ o[t] = p /\ r[s] = r[t] => s = t
         /\ child[p] # NULL => \E k \in Children(p) : sibling[k] = NULL
         /\ child[p] = NULL => Children(p) = {}
PROOF
  <1> DEFINE w == Walk(p)
  <1>1. /\ w[NR_TASKS] = NULL
        /\ \A i \in 0 .. NR_TASKS : w[i] # NULL => w[i] \in Slot /\ o[w[i]] = p /\ r[w[i]] = i
        /\ \A s \in Slot : o[s] = p => r[s] \in 0 .. NR_TASKS - 1 /\ w[r[s]] = s
    BY WalkVisits
  <1>2. NR_TASKS \in Nat /\ NR_TASKS > 0
    BY TableAssumption
  <1>3. Children(p) = {s \in Slot : o[s] = p}
    <2>1. ASSUME NEW s \in Slot, NEW i \in 0 .. NR_TASKS - 1, w[i] = s
          PROVE  o[s] = p
      <3>1. i \in 0 .. NR_TASKS /\ s # NULL
        BY <1>2, SlotFacts
      <3> QED BY <1>1, <2>1, <3>1
    <2> HIDE DEF w
    <2>2. \A s \in Slot : o[s] = p <=> \E i \in 0 .. NR_TASKS - 1 : w[i] = s
      BY <1>1, <2>1
    <2> QED BY <2>2 DEF Children, w
  <1>4. \A s, t \in Slot : o[s] = p /\ o[t] = p /\ r[s] = r[t] => s = t
    BY <1>1
  <1>5. ASSUME child[p] # NULL PROVE \E k \in Children(p) : sibling[k] = NULL
    <2> DEFINE Ends == {i \in 0 .. NR_TASKS : w[i] = NULL}
    <2>1. NR_TASKS \in Ends /\ Ends \subseteq Nat
      BY <1>1, <1>2
    <2>2. PICK m \in Ends : \A i \in Ends : m <= i
      <3> HIDE DEF Ends
      <3> QED BY <2>1, LeastOf
    <2>3. m # 0
      BY <1>5, WalkSteps
    <2>4. m - 1 \in 0 .. NR_TASKS /\ m - 1 \in 0 .. NR_TASKS - 1 /\ ~(m <= m - 1)
          /\ m \in 1 .. NR_TASKS
      BY <1>2, <2>3
    <2>5. w[m - 1] # NULL /\ w[m] = NULL
      BY <2>2, <2>4
    <2>6. w[m] = IF w[m - 1] = NULL THEN NULL ELSE sibling[w[m - 1]]
      BY <2>4, WalkSteps
    <2>7. w[m - 1] \in Children(p)
      BY <1>1, <2>4, <2>5 DEF Children
    <2> QED BY <2>5, <2>6, <2>7
  <1>6. ASSUME child[p] = NULL PROVE Children(p) = {}
    <2> DEFINE T == {i \in 0 .. NR_TASKS : w[i] = NULL}
    <2>1. 0 \in T
      BY <1>2, <1>6, WalkSteps
    <2>2. ASSUME NEW i \in 0 .. NR_TASKS, i # NR_TASKS, i \in T PROVE i + 1 \in T
      <3>1. i + 1 \in 1 .. NR_TASKS /\ i + 1 \in 0 .. NR_TASKS /\ (i + 1) - 1 = i
        BY <1>2, <2>2
      <3>2. w[i + 1] = IF w[(i + 1) - 1] = NULL THEN NULL ELSE sibling[w[(i + 1) - 1]]
        BY <3>1, WalkSteps
      <3> QED BY <2>2, <3>1, <3>2
    <2>3. \A i \in 0 .. NR_TASKS : i \in T
      <3> HIDE DEF T
      <3> QED BY <1>2, <2>1, <2>2, Upwards
    <2>4. \A i \in 0 .. NR_TASKS - 1 : w[i] = NULL
      BY <1>2, <2>3
    <2> QED BY <2>4, SlotFacts DEF Children
  <1> QED BY <1>3, <1>4, <1>5, <1>6

(* What the steps below use of Placed.                                      *)
LEMMA PlacedFacts ==
  ASSUME NEW o, NEW r, Placed(o, r)
  PROVE  /\ o \in [Slot -> Pointer] /\ r \in [Slot -> Nat]
         /\ \A s \in Living : s \in Slot /\ s # NULL /\ used[s]
         /\ \A s \in Slot : o[s] # NULL => o[s] \in Living /\ o[s] \in Slot /\ used[s]
                                           /\ parent[s] = o[s]
  BY SlotFacts DEF Placed, Lists, Owned, Living

(* A step that leaves the lists alone                                       *)
LEMMA FramePlaced ==
  ASSUME IInv, NEW o, NEW r, Placed(o, r),
         used' = used, parent' = parent, child' = child, sibling' = sibling,
         \A s \in Slot : (state'[s] = "ZOMBIE") <=> (state[s] = "ZOMBIE"),
         \/ waiting' = waiting
         \/ \E p \in Living : \E target :
              /\ waiting' = [waiting EXCEPT ![p] = target]
              /\ target # ANY => target \in Slot /\ o[target] = p
  PROVE  Kept(o)
PROOF
  <1>1. Living' = Living
    BY DEF Living, Alive
  <1>2. Lists(Living', used', parent', child', sibling', o, r)
    BY <1>1 DEF Placed
  <1>3. Awaited(Living, waiting', o)
    BY DEF Placed, Awaited, IInv, TypeOK
  <1>4. Placed(o, r)'
    BY <1>1, <1>2, <1>3 DEF Placed
  <1> QED BY <1>4 DEF Kept

(* schedule() moves tasks between READY and RUNNING only.                   *)
LEMMA ScheduleFrame ==
  ASSUME IInv, halted = "no", Schedule(state, current)
  PROVE  \A s \in Slot : (state'[s] = "ZOMBIE") <=> (state[s] = "ZOMBIE")
PROOF
  <1>1. /\ Agree(used, state, current, ready) /\ state \in [Slot -> States]
        /\ current \in Pointer /\ used \in [Slot -> BOOLEAN] /\ ready \in Seq(Slot)
    BY DEF IInv, TypeOK, RunQueueSound, Agree, InQueue
  <1>2. \A s \in Slot : \/ state'[s] = state[s]
                        \/ /\ state[s] \in {"READY", "RUNNING"}
                          /\ state'[s] \in {"READY", "RUNNING"}
    BY <1>1, SomeTask, ScheduleAgrees
  <1> QED BY <1>2

(* A fork puts the new task in front of the children of its parent.         *)
LEMMA ForkPlaced ==
  ASSUME IInv, NEW o, NEW r, Placed(o, r), NEW p \in Slot, Fork(p)
  PROVE  Kept(o)
PROOF
  <1>1. PICK c \in Slot : c = FirstFree /\ ~used[c]
    BY FirstFreeIsFree DEF Fork, CreateTask, Free
  <1>2. used[p] /\ state[p] = "RUNNING"
    BY Running, SlotFacts DEF Fork, UserMode
  <1>3. /\ used'    = [used EXCEPT ![c] = TRUE]
        /\ parent'  = [parent EXCEPT ![c] = p]
        /\ sibling' = [sibling EXCEPT ![c] = child[p]]
        /\ child'   = [child EXCEPT ![c] = NULL, ![p] = c]
        /\ state'   = [state EXCEPT ![c] = "READY"]
        /\ waiting' = waiting
    BY <1>1 DEF Fork, CreateTask
  <1>4. /\ c # p
        /\ \A s \in Slot :
             /\ used'[s] = (s = c \/ used[s])
             /\ parent'[s] = IF s = c THEN p ELSE parent[s]
             /\ sibling'[s] = IF s = c THEN child[p] ELSE sibling[s]
             /\ child'[s] = IF s = p THEN c ELSE IF s = c THEN NULL ELSE child[s]
             /\ state'[s] = IF s = c THEN "READY" ELSE state[s]
    BY <1>1, <1>2, <1>3 DEF IInv, TypeOK
  <1>5. /\ p \in Living /\ c \notin Living /\ Living \subseteq Slot
        /\ Living' = Living \cup {c}
    BY <1>1, <1>2, <1>4 DEF Living, Alive
  <1>6. /\ o \in [Slot -> Pointer] /\ r \in [Slot -> Nat] /\ p # NULL /\ c # NULL
        /\ o[c] = NULL /\ \A s \in Slot : o[s] # c
    BY <1>1, <1>5, PlacedFacts, SlotFacts
  <1> DEFINE o2 == [s \in Slot |-> IF s = c THEN p ELSE o[s]]
             r2 == [s \in Slot |-> IF s = c THEN 0 ELSE IF o[s] = p THEN r[s] + 1 ELSE r[s]]
  <1>7. \A s \in Slot : /\ o2[s] = IF s = c THEN p ELSE o[s]
                        /\ r2[s] = IF s = c THEN 0 ELSE IF o[s] = p THEN r[s] + 1 ELSE r[s]
    OBVIOUS
  <1>8. o2 \in [Slot -> Pointer] /\ r2 \in [Slot -> Nat]
    BY <1>6 DEF Pointer
  <1> HIDE DEF o2, r2
  <1>9. /\ Heads(Living, child, o, r) /\ Owned(Living, used, parent, o)
        /\ Followed(sibling, o, r) /\ Preceded(child, sibling, o, r)
        /\ \A s \in Living : used[s]
        /\ Awaited(Living, waiting, o)
    BY DEF Placed, Lists
  <1>10. Heads(Living', child', o2, r2)
    <2> SUFFICES ASSUME NEW s \in Living', child'[s] # NULL
                 PROVE  child'[s] \in Slot /\ o2[child'[s]] = s /\ r2[child'[s]] = 0
      BY DEF Heads
    <2>1. CASE s = p
      BY <1>1, <1>4, <1>7, <2>1
    <2>2. CASE s # p
      <3>1. s \in Living /\ s # c /\ s \in Slot /\ child'[s] = child[s]
        BY <1>1, <1>4, <1>5, <2>2
      <3>2. child[s] \in Slot /\ o[child[s]] = s /\ r[child[s]] = 0
        BY <1>9, <3>1 DEF Heads
      <3>3. child[s] # c
        BY <1>6, <3>1, <3>2, PlacedFacts
      <3> QED BY <1>7, <2>2, <3>1, <3>2, <3>3
    <2> QED BY <2>1, <2>2
  <1>11. Owned(Living', used', parent', o2)
    BY <1>1, <1>4, <1>5, <1>7, <1>9 DEF Owned
  <1>12. Followed(sibling', o2, r2)
    <2> SUFFICES ASSUME NEW s \in Slot, o2[s] # NULL, sibling'[s] # NULL
                 PROVE  /\ sibling'[s] \in Slot /\ o2[sibling'[s]] = o2[s]
                        /\ r2[sibling'[s]] = r2[s] + 1
      BY DEF Followed
    <2>1. CASE s = c
      <3>1. sibling'[s] = child[p] /\ child[p] # NULL
        BY <1>4, <2>1
      <3>2. child[p] \in Slot /\ o[child[p]] = p /\ r[child[p]] = 0
        BY <1>5, <1>9, <3>1 DEF Heads
      <3>3. child[p] # c
        BY <1>6, <3>2
      <3> QED BY <1>7, <2>1, <3>1, <3>2, <3>3
    <2>2. CASE s # c
      <3>1. o[s] # NULL /\ sibling'[s] = sibling[s] /\ o2[s] = o[s]
        BY <1>4, <1>7, <2>2
      <3>2. sibling[s] \in Slot /\ o[sibling[s]] = o[s] /\ r[sibling[s]] = r[s] + 1
        BY <1>9, <3>1 DEF Followed
      <3>3. sibling[s] # c
        BY <1>6, <3>1, <3>2
      <3>4. r[s] \in Nat
        BY <1>6
      <3> QED BY <1>7, <2>2, <3>1, <3>2, <3>3, <3>4
    <2> QED BY <2>1, <2>2
  <1>13. Preceded(child', sibling', o2, r2)
    <2> SUFFICES ASSUME NEW s \in Slot, o2[s] # NULL
                 PROVE  IF r2[s] = 0 THEN child'[o2[s]] = s
                        ELSE \E t \in Slot : o2[t] = o2[s] /\ sibling'[t] = s
      BY DEF Preceded
    <2>1. CASE s = c
      BY <1>4, <1>7, <2>1
    <2>2. CASE s # c /\ o[s] = p
      <3>1. r2[s] # 0 /\ o2[s] = p
        BY <1>6, <1>7, <2>2
      <3>2. CASE r[s] = 0
        <4>1. child[p] = s
          BY <1>6, <1>9, <2>2, <3>2 DEF Preceded
        <4> QED BY <1>1, <1>4, <1>7, <3>1, <4>1
      <3>3. CASE r[s] # 0
        <4>1. PICK t \in Slot : o[t] = p /\ sibling[t] = s
          BY <1>6, <1>9, <2>2, <3>3 DEF Preceded
        <4>2. t # c
          BY <1>6, <4>1
        <4> QED BY <1>4, <1>7, <3>1, <4>1, <4>2
      <3> QED BY <3>2, <3>3
    <2>3. CASE s # c /\ o[s] # p
      <3>1. o2[s] = o[s] /\ r2[s] = r[s] /\ o[s] \in Slot /\ o[s] # c /\ o[s] # NULL
        BY <1>6, <1>7, <2>3, PlacedFacts
      <3>2. CASE r[s] = 0
        <4>1. child[o[s]] = s
          BY <1>9, <3>1, <3>2 DEF Preceded
        <4> QED BY <1>4, <2>3, <3>1, <3>2, <4>1
      <3>3. CASE r[s] # 0
        <4>1. PICK t \in Slot : o[t] = o[s] /\ sibling[t] = s
          BY <1>9, <3>1, <3>3 DEF Preceded
        <4>2. t # c
          BY <1>6, <3>1, <4>1
        <4> QED BY <1>4, <1>7, <3>1, <3>3, <4>1, <4>2
      <3> QED BY <3>2, <3>3
    <2> QED BY <2>1, <2>2, <2>3
  <1>14. Awaited(Living', waiting', o2)
    <2> SUFFICES ASSUME NEW q \in Slot, waiting[q] # NULL
                 PROVE  /\ q \in Living'
                        /\ waiting[q] # ANY => waiting[q] \in Slot /\ o2[waiting[q]] = q
      BY <1>3 DEF Awaited
    <2>1. q \in Living /\ (waiting[q] # ANY => waiting[q] \in Slot /\ o[waiting[q]] = q)
      BY <1>9 DEF Awaited
    <2>2. q # NULL
      BY SlotFacts
    <2> QED BY <1>5, <1>6, <1>7, <2>1, <2>2
  <1>15. Living' \subseteq Slot /\ \A s \in Living' : used'[s]
    BY <1>1, <1>4, <1>5, <1>9
  <1>16. Placed(o2, r2)'
    <2>1. Lists(Living', used', parent', child', sibling', o2, r2)
      BY <1>8, <1>10, <1>11, <1>12, <1>13, <1>15 DEF Lists
    <2> QED BY <1>14, <2>1 DEF Placed
  <1>17. \A s \in Slot : (used[s] => o[s] # NULL) /\ used'[s] => o2[s] # NULL
    BY <1>4, <1>6, <1>7
  <1> QED BY <1>16, <1>17 DEF Kept

(* An exit puts the whole list of the task in front of the list of init.    *)
LEMMA ExitPlaced ==
  ASSUME IInv, NEW o, NEW r, Placed(o, r), NEW p \in Slot, NEW code \in Codes, Exit(p, code)
  PROVE  Kept(o)
PROOF
  <1>1. /\ halted = "no" /\ current = p /\ p # init_task /\ waiting[p] = NULL
        /\ used' = used /\ waiting' = waiting
        /\ parent' = OrphansParent(p) /\ sibling' = JoinedSiblings(p)
        /\ child' = IF child[p] = NULL THEN child ELSE [child EXCEPT ![init_task] = child[p]]
        /\ Schedule([state EXCEPT ![p] = "ZOMBIE"], NULL)
    BY DEF Exit, UserMode
  <1>2. used[p] /\ state[p] = "RUNNING" /\ used[init_task] /\ state[init_task] # "ZOMBIE"
        /\ init_task \in Slot
    <2>1. used[p] /\ state[p] = "RUNNING"
      BY <1>1, Running, SlotFacts
    <2>2. state[init_task] \in {"READY", "RUNNING"}
      BY <1>1 DEF IInv, TableStates
    <2> QED BY <2>1, <2>2, SlotFacts DEF IInv, TableStates
  <1>3. \A s \in Slot : (state'[s] = "ZOMBIE") <=> (s = p \/ state[s] = "ZOMBIE")
    <2> DEFINE st == [state EXCEPT ![p] = "ZOMBIE"]
    <2>1. /\ st \in [Slot -> States] /\ ready # << >> /\ Schedule(st, NULL)
          /\ \A s \in Slot : st[s] = IF s = p THEN "ZOMBIE" ELSE state[s]
          /\ Agree(used, st, NULL, ready)
      BY <1>1, ExitSchedules
    <2> HIDE DEF st
    <2>2. \A s \in Slot : \/ state'[s] = st[s]
                          \/ /\ st[s] \in {"READY", "RUNNING"}
                            /\ state'[s] \in {"READY", "RUNNING"}
      BY <2>1, ScheduleAgrees DEF IInv, TypeOK, Pointer
    <2> QED BY <2>1, <2>2
  <1>4. /\ p \in Living /\ init_task \in Living /\ Living' = Living \ {p}
    BY <1>1, <1>2, <1>3 DEF Living, Alive
  <1>5. /\ o \in [Slot -> Pointer] /\ r \in [Slot -> Nat] /\ p # NULL /\ init_task # NULL
        /\ Living \subseteq Slot /\ \A s \in Living : s \in Slot /\ s # NULL /\ used[s]
        /\ \A s \in Slot : o[s] # NULL => o[s] \in Living /\ o[s] \in Slot
    BY <1>2, PlacedFacts, SlotFacts DEF Placed, Lists
  <1>6. /\ Heads(Living, child, o, r) /\ Owned(Living, used, parent, o)
        /\ Followed(sibling, o, r) /\ Preceded(child, sibling, o, r)
        /\ Awaited(Living, waiting, o)
    BY DEF Placed, Lists
  <1>7. /\ Children(p) = {s \in Slot : o[s] = p}
        /\ child[p] = NULL => Children(p) = {}
        /\ child[p] # NULL => \E k \in Children(p) : sibling[k] = NULL
    BY <1>4, ChildrenAre
  <1>8. ASSUME NEW q \in Slot, waiting'[q] # NULL
        PROVE  /\ q \in Living' /\ q # p
               /\ waiting'[q] # ANY => waiting'[q] \in Slot /\ o[waiting'[q]] = q
    BY <1>1, <1>4, <1>6, <1>8 DEF Awaited
  <1>9. CASE child[p] = NULL
    <2>1. child' = child /\ sibling' = sibling /\ \A s \in Slot : parent'[s] = parent[s]
      BY <1>1, <1>7, <1>9 DEF JoinedSiblings, OrphansParent
    <2>2. \A s \in Slot : o[s] # p
      BY <1>7, <1>9
    <2>3. Heads(Living', child', o, r)
      BY <1>4, <1>6, <2>1 DEF Heads
    <2>4. Owned(Living', used', parent', o)
      BY <1>1, <1>4, <1>6, <2>1, <2>2 DEF Owned
    <2>5. Followed(sibling', o, r) /\ Preceded(child', sibling', o, r)
      BY <1>6, <2>1
    <2>6. Awaited(Living', waiting', o)
      BY <1>8 DEF Awaited
    <2>7. Lists(Living', used', parent', child', sibling', o, r)
      BY <1>1, <1>4, <1>5, <2>3, <2>4, <2>5 DEF Lists
    <2>8. Placed(o, r)'
      BY <2>6, <2>7 DEF Placed
    <2> QED BY <1>1, <2>8 DEF Kept
  <1>10. CASE child[p] # NULL
    <2>1. PICK k \in Children(p) : k = (CHOOSE l \in Children(p) : sibling[l] = NULL) /\ sibling[k] = NULL
      BY <1>7, <1>10
    <2>2. k \in Slot /\ o[k] = p
      BY <1>7
    <2>3. \A s \in Slot :
             /\ parent'[s] = IF o[s] = p THEN init_task ELSE parent[s]
             /\ sibling'[s] = IF s = k THEN child[init_task] ELSE sibling[s]
             /\ child'[s] = IF s = init_task THEN child[p] ELSE child[s]
      <3>1. \A s \in Slot : parent'[s] = IF o[s] = p THEN init_task ELSE parent[s]
        BY <1>1, <1>7 DEF OrphansParent
      <3>2. sibling' = [sibling EXCEPT ![k] = child[init_task]]
        BY <1>1, <2>1 DEF JoinedSiblings
      <3>3. \A s \in Slot : sibling'[s] = IF s = k THEN child[init_task] ELSE sibling[s]
        BY <2>2, <3>2 DEF IInv, TypeOK
      <3>4. \A s \in Slot : child'[s] = IF s = init_task THEN child[p] ELSE child[s]
        BY <1>1, <1>2, <1>10 DEF IInv, TypeOK
      <3> QED BY <3>1, <3>3, <3>4
    <2> DEFINE o2 == [s \in Slot |-> IF o[s] = p THEN init_task ELSE o[s]]
               r2 == [s \in Slot |-> IF o[s] = init_task THEN r[s] + r[k] + 1 ELSE r[s]]
    <2>4. \A s \in Slot : /\ o2[s] = IF o[s] = p THEN init_task ELSE o[s]
                          /\ r2[s] = IF o[s] = init_task THEN r[s] + r[k] + 1 ELSE r[s]
      OBVIOUS
    <2>5. r[k] \in Nat /\ \A s \in Slot : r[s] \in Nat
      BY <1>5, <2>2
    <2>6. o2 \in [Slot -> Pointer] /\ r2 \in [Slot -> Nat]
      BY <1>2, <1>5, <2>5 DEF Pointer
    <2> HIDE DEF o2, r2
    <2>7. Heads(Living', child', o2, r2)
      <3> SUFFICES ASSUME NEW s \in Living', child'[s] # NULL
                   PROVE  child'[s] \in Slot /\ o2[child'[s]] = s /\ r2[child'[s]] = 0
        BY DEF Heads
      <3>1. s \in Living /\ s # p /\ s \in Slot
        BY <1>4, <1>5
      <3>2. CASE s = init_task
        <4>1. child'[s] = child[p] /\ child[p] \in Slot /\ o[child[p]] = p /\ r[child[p]] = 0
          BY <1>4, <1>6, <1>10, <2>3, <3>1, <3>2 DEF Heads
        <4> QED BY <1>1, <2>4, <3>2, <4>1
      <3>3. CASE s # init_task
        <4>1. child'[s] = child[s] /\ child[s] \in Slot /\ o[child[s]] = s /\ r[child[s]] = 0
          BY <1>6, <2>3, <3>1, <3>3 DEF Heads
        <4> QED BY <2>4, <3>1, <3>3, <4>1
      <3> QED BY <3>2, <3>3
    <2>8. Owned(Living', used', parent', o2)
      <3> SUFFICES ASSUME NEW s \in Slot, o2[s] # NULL
                   PROVE  o2[s] \in Living' /\ used'[s] /\ parent'[s] = o2[s]
        BY DEF Owned
      <3>1. o[s] # NULL
        BY <1>5, <2>4
      <3>2. o[s] \in Living /\ used[s] /\ parent[s] = o[s]
        BY <1>6, <3>1 DEF Owned
      <3> QED BY <1>1, <1>4, <2>3, <2>4, <3>2
    <2>9. Followed(sibling', o2, r2)
      <3> SUFFICES ASSUME NEW s \in Slot, o2[s] # NULL, sibling'[s] # NULL
                   PROVE  /\ sibling'[s] \in Slot /\ o2[sibling'[s]] = o2[s]
                          /\ r2[sibling'[s]] = r2[s] + 1
        BY DEF Followed
      <3>1. CASE s = k
        <4>1. sibling'[s] = child[init_task] /\ child[init_task] # NULL
          BY <2>3, <3>1
        <4> DEFINE h == child[init_task]
        <4>2. h \in Slot /\ o[h] = init_task /\ r[h] = 0
          BY <1>4, <1>6, <4>1 DEF Heads
        <4>3. sibling'[s] = h
          BY <4>1
        <4> HIDE DEF h
        <4>4. o2[h] = init_task /\ r2[h] = 0 + r[k] + 1
          BY <1>1, <2>4, <4>2
        <4>5. o2[s] = init_task /\ r2[s] = r[k]
          BY <1>1, <2>2, <2>4, <3>1
        <4> QED BY <2>5, <4>2, <4>3, <4>4, <4>5
      <3>2. CASE s # k
        <4>1. o[s] # NULL /\ sibling'[s] = sibling[s] /\ sibling[s] # NULL
          BY <1>5, <2>3, <2>4, <3>2
        <4>2. sibling[s] \in Slot /\ o[sibling[s]] = o[s] /\ r[sibling[s]] = r[s] + 1
          BY <1>6, <4>1 DEF Followed
        <4>3. r[s] \in Nat
          BY <2>5
        <4>4. o2[sibling[s]] = o2[s]
          BY <2>4, <4>2
        <4>5. r2[sibling[s]] = r2[s] + 1
          BY <2>4, <2>5, <4>2, <4>3
        <4> QED BY <4>1, <4>2, <4>4, <4>5
      <3> QED BY <3>1, <3>2
    <2>10. Preceded(child', sibling', o2, r2)
      <3> SUFFICES ASSUME NEW s \in Slot, o2[s] # NULL
                   PROVE  IF r2[s] = 0 THEN child'[o2[s]] = s
                          ELSE \E t \in Slot : o2[t] = o2[s] /\ sibling'[t] = s
        BY DEF Preceded
      <3>1. o[s] # NULL
        BY <1>5, <2>4
      <3>2. IF r[s] = 0 THEN child[o[s]] = s ELSE \E t \in Slot : o[t] = o[s] /\ sibling[t] = s
        BY <1>6, <3>1 DEF Preceded
      <3>3. s # NULL /\ r[s] \in Nat
        BY <2>5, SlotFacts
      <3>4. CASE r[s] # 0
        <4>1. PICK t \in Slot : o[t] = o[s] /\ sibling[t] = s
          BY <3>2, <3>4
        <4>2. t # k /\ sibling'[t] = s /\ o2[t] = o2[s]
          BY <2>1, <2>3, <2>4, <3>3, <4>1
        <4>3. r2[s] # 0
          BY <2>4, <2>5, <3>3, <3>4
        <4> QED BY <4>2, <4>3
      <3>5. CASE r[s] = 0 /\ o[s] = init_task
        <4>1. child[init_task] = s
          BY <3>2, <3>5
        <4>2. sibling'[k] = s /\ o2[k] = o2[s]
          BY <1>1, <2>2, <2>3, <2>4, <3>5, <4>1
        <4>3. r2[s] # 0
          BY <2>4, <2>5, <3>3, <3>5
        <4> QED BY <2>2, <4>2, <4>3
      <3>6. CASE r[s] = 0 /\ o[s] # init_task
        <4>1. r2[s] = 0 /\ child[o[s]] = s
          BY <2>4, <3>2, <3>6
        <4>2. CASE o[s] = p
          BY <1>2, <2>3, <2>4, <4>1, <4>2
        <4>3. CASE o[s] # p
          <5>1. o2[s] = o[s] /\ o[s] \in Slot
            BY <1>5, <2>4, <3>1, <4>3
          <5> QED BY <2>3, <3>6, <4>1, <5>1
        <4> QED BY <4>2, <4>3
      <3> QED BY <3>4, <3>5, <3>6
    <2>11. Awaited(Living', waiting', o2)
      <3> SUFFICES ASSUME NEW q \in Slot, waiting'[q] # NULL
                   PROVE  /\ q \in Living'
                          /\ waiting'[q] # ANY => waiting'[q] \in Slot /\ o2[waiting'[q]] = q
        BY DEF Awaited
      <3> QED BY <1>8, <2>4
    <2>12. Lists(Living', used', parent', child', sibling', o2, r2)
      BY <1>1, <1>4, <1>5, <2>6, <2>7, <2>8, <2>9, <2>10 DEF Lists
    <2>13. Placed(o2, r2)'
      BY <2>11, <2>12 DEF Placed
    <2>14. \A s \in Slot : (used[s] => o[s] # NULL) /\ used'[s] => o2[s] # NULL
      BY <1>1, <1>5, <2>4
    <2> QED BY <2>13, <2>14 DEF Kept
  <1> QED BY <1>9, <1>10

(* wait() cuts the list of the waiter behind the child that it returns.     *)
LEMMA ReapPlaced ==
  ASSUME IInv, NEW o, NEW r, Placed(o, r), NEW p \in Living,
         NEW c \in Slot, o[c] = p, state[c] = "ZOMBIE", current = p, Reap(p, c)
  PROVE  Kept(o)
PROOF
  <1>1. /\ child'   = [child EXCEPT ![p] = sibling[c]]
        /\ state'   = [state EXCEPT ![c] = "DEAD"]
        /\ used'    = [used EXCEPT ![c] = FALSE]
        /\ waiting' = [waiting EXCEPT ![p] = NULL]
        /\ parent' = parent /\ sibling' = sibling
    BY DEF Reap
  <1>2. /\ o \in [Slot -> Pointer] /\ r \in [Slot -> Nat] /\ p # NULL /\ p \in Slot
        /\ Living \subseteq Slot /\ \A s \in Living : s \in Slot /\ s # NULL /\ used[s]
        /\ \A s \in Slot : o[s] # NULL => o[s] \in Living /\ o[s] \in Slot
    BY PlacedFacts DEF Placed, Lists
  <1>3. \A s \in Slot : /\ child'[s] = IF s = p THEN sibling[c] ELSE child[s]
                        /\ state'[s] = IF s = c THEN "DEAD" ELSE state[s]
                        /\ used'[s] <=> (s # c /\ used[s])
                        /\ waiting'[s] = IF s = p THEN NULL ELSE waiting[s]
    <2>1. \A s \in Slot : child'[s] = IF s = p THEN sibling[c] ELSE child[s]
      BY <1>1, <1>2 DEF IInv, TypeOK
    <2>2. \A s \in Slot : state'[s] = IF s = c THEN "DEAD" ELSE state[s]
      BY <1>1 DEF IInv, TypeOK
    <2>3. \A s \in Slot : used'[s] <=> (s # c /\ used[s])
      BY <1>1 DEF IInv, TypeOK
    <2>4. \A s \in Slot : waiting'[s] = IF s = p THEN NULL ELSE waiting[s]
      BY <1>1, <1>2 DEF IInv, TypeOK
    <2> QED BY <2>1, <2>2, <2>3, <2>4
  <1>4. Living' = Living /\ c \notin Living
    <2>1. c \notin Living /\ ~used'[c]
      BY <1>3 DEF Living, Alive
    <2>2. \A s \in Slot : s # c => (used'[s] <=> used[s]) /\ state'[s] = state[s]
      BY <1>3
    <2> QED BY <2>1, <2>2 DEF Living, Alive
  <1>5. /\ Heads(Living, child, o, r) /\ Owned(Living, used, parent, o)
        /\ Followed(sibling, o, r) /\ Preceded(child, sibling, o, r)
        /\ Awaited(Living, waiting, o)
    BY DEF Placed, Lists
  <1>6. \A s \in Slot : o[s] = p /\ r[s] = r[c] => s = c
    BY ChildrenAre
  <1>7. r[c] \in Nat /\ \A s \in Slot : r[s] \in Nat
    BY <1>2
  <1> DEFINE Behind(s) == r[s] > r[c]
             o2 == [s \in Slot |-> IF o[s] = p /\ ~Behind(s) THEN NULL ELSE o[s]]
             r2 == [s \in Slot |-> IF o[s] = p /\ Behind(s) THEN r[s] - r[c] - 1 ELSE r[s]]
  <1>8. \A s \in Slot : /\ o2[s] = IF o[s] = p /\ ~Behind(s) THEN NULL ELSE o[s]
                        /\ r2[s] = IF o[s] = p /\ Behind(s) THEN r[s] - r[c] - 1 ELSE r[s]
    OBVIOUS
  <1>9. o2 \in [Slot -> Pointer] /\ r2 \in [Slot -> Nat]
    <2>1. \A s \in Slot : Behind(s) => r[s] - r[c] - 1 \in Nat
      BY <1>7
    <2> HIDE DEF Behind
    <2> QED BY <1>2, <1>7, <2>1 DEF Pointer
  <1> HIDE DEF o2, r2
  <1>10. o2[c] = NULL
    BY <1>7, <1>8
  <1>11. Heads(Living', child', o2, r2)
    <2> SUFFICES ASSUME NEW s \in Living', child'[s] # NULL
                 PROVE  child'[s] \in Slot /\ o2[child'[s]] = s /\ r2[child'[s]] = 0
      BY DEF Heads
    <2>1. s \in Living /\ s \in Slot
      BY <1>2, <1>4
    <2>2. CASE s = p
      <3> DEFINE h == sibling[c]
      <3>1. child'[s] = h /\ h # NULL
        BY <1>3, <2>1, <2>2
      <3>2. h \in Slot /\ o[h] = p /\ r[h] = r[c] + 1
        BY <1>2, <1>5, <3>1 DEF Followed
      <3> HIDE DEF h
      <3> QED BY <1>7, <1>8, <2>2, <3>1, <3>2
    <2>3. CASE s # p
      <3>1. child'[s] = child[s] /\ child[s] \in Slot /\ o[child[s]] = s /\ r[child[s]] = 0
        BY <1>3, <1>5, <2>1, <2>3 DEF Heads
      <3> QED BY <1>8, <2>3, <3>1
    <2> QED BY <2>2, <2>3
  <1>12. Owned(Living', used', parent', o2)
    <2> SUFFICES ASSUME NEW s \in Slot, o2[s] # NULL
                 PROVE  o2[s] \in Living' /\ used'[s] /\ parent'[s] = o2[s]
      BY DEF Owned
    <2>1. o2[s] = o[s] /\ s # c
      BY <1>8, <1>10
    <2>2. o[s] \in Living /\ used[s] /\ parent[s] = o[s]
      BY <1>5, <2>1 DEF Owned
    <2> QED BY <1>1, <1>3, <1>4, <2>1, <2>2
  <1>13. Followed(sibling', o2, r2)
    <2> SUFFICES ASSUME NEW s \in Slot, o2[s] # NULL, sibling[s] # NULL
                 PROVE  sibling[s] \in Slot /\ o2[sibling[s]] = o2[s] /\ r2[sibling[s]] = r2[s] + 1
      BY <1>1 DEF Followed
    <2>1. o2[s] = o[s] /\ (o[s] = p => Behind(s))
      BY <1>8
    <2>2. sibling[s] \in Slot /\ o[sibling[s]] = o[s] /\ r[sibling[s]] = r[s] + 1
      BY <1>5, <2>1 DEF Followed
    <2>3. CASE o[s] = p
      <3>1. Behind(s) /\ Behind(sibling[s])
        BY <1>7, <2>1, <2>2, <2>3
      <3>2. o2[sibling[s]] = p /\ r2[sibling[s]] = r[sibling[s]] - r[c] - 1 /\ r2[s] = r[s] - r[c] - 1
        BY <1>8, <2>2, <2>3, <3>1
      <3> QED BY <1>7, <2>1, <2>2, <2>3, <3>2
    <2>4. CASE o[s] # p
      BY <1>8, <2>1, <2>2, <2>4
    <2> QED BY <2>3, <2>4
  <1>14. Preceded(child', sibling', o2, r2)
    <2> SUFFICES ASSUME NEW s \in Slot, o2[s] # NULL
                 PROVE  IF r2[s] = 0 THEN child'[o2[s]] = s
                        ELSE \E t \in Slot : o2[t] = o2[s] /\ sibling[t] = s
      BY <1>1 DEF Preceded
    <2>1. o2[s] = o[s] /\ (o[s] = p => Behind(s)) /\ s # NULL
      BY <1>8, SlotFacts
    <2>2. IF r[s] = 0 THEN child[o[s]] = s ELSE \E t \in Slot : o[t] = o[s] /\ sibling[t] = s
      BY <1>5, <2>1 DEF Preceded
    <2>3. CASE o[s] = p
      <3>1. r[s] # 0 /\ r2[s] = r[s] - r[c] - 1
        BY <1>7, <1>8, <2>1, <2>3
      <3>2. PICK t \in Slot : o[t] = p /\ sibling[t] = s
        BY <2>2, <2>3, <3>1
      <3>3. r[s] = r[t] + 1
        BY <1>2, <1>5, <2>1, <3>2 DEF Followed
      <3>4. CASE r2[s] = 0
        <4>1. r[t] = r[c]
          BY <1>7, <3>1, <3>3, <3>4
        <4>2. t = c
          BY <1>6, <3>2, <4>1
        <4>3. child'[p] = s
          BY <1>2, <1>3, <3>2, <4>2
        <4> QED BY <2>1, <2>3, <3>4, <4>3
      <3>5. CASE r2[s] # 0
        <4>1. Behind(t)
          BY <1>7, <2>1, <2>3, <3>1, <3>3, <3>5
        <4>2. o2[t] = p
          BY <1>8, <3>2, <4>1
        <4> QED BY <2>1, <2>3, <3>2, <3>5, <4>2
      <3> QED BY <3>4, <3>5
    <2>4. CASE o[s] # p
      <3>1. r2[s] = r[s] /\ o[s] \in Slot
        BY <1>2, <1>8, <2>1, <2>4
      <3>2. CASE r[s] = 0
        BY <1>3, <2>1, <2>2, <2>4, <3>1, <3>2
      <3>3. CASE r[s] # 0
        <4>1. PICK t \in Slot : o[t] = o[s] /\ sibling[t] = s
          BY <2>2, <3>3
        <4>2. o2[t] = o2[s]
          BY <1>8, <2>1, <2>4, <4>1
        <4> QED BY <3>1, <3>3, <4>1, <4>2
      <3> QED BY <3>2, <3>3
    <2> QED BY <2>3, <2>4
  <1>15. Awaited(Living', waiting', o2)
    <2> SUFFICES ASSUME NEW q \in Slot, waiting'[q] # NULL
                 PROVE  /\ q \in Living'
                        /\ waiting'[q] # ANY => waiting'[q] \in Slot /\ o2[waiting'[q]] = q
      BY DEF Awaited
    <2>1. q # p /\ waiting'[q] = waiting[q]
      BY <1>3
    <2>2. q \in Living /\ (waiting[q] # ANY => waiting[q] \in Slot /\ o[waiting[q]] = q)
      BY <1>5, <2>1 DEF Awaited
    <2> QED BY <1>4, <1>8, <2>1, <2>2
  <1>16. Placed(o2, r2)'
    <2>1. \A s \in Living' : s \in Slot /\ used'[s]
      BY <1>2, <1>3, <1>4
    <2>2. Lists(Living', used', parent', child', sibling', o2, r2)
      BY <1>9, <1>11, <1>12, <1>13, <1>14, <2>1 DEF Lists
    <2> QED BY <1>15, <2>2 DEF Placed
  <1>17. ASSUME NEW s \in Slot, used[s] => o[s] # NULL, used'[s], o2[s] = NULL
         PROVE  used[c] /\ ~used'[c] /\ s \in Foremost(current, {s, c})
    <2>1. used[s] /\ o[s] = p /\ ~Behind(s) /\ r[s] <= r[c]
      BY <1>3, <1>7, <1>8, <1>17
    <2>2. used[c] /\ ~used'[c]
      BY <1>2, <1>3, PlacedFacts
    <2>3. r[s] \in 0 .. NR_TASKS - 1 /\ Walk(p)[r[s]] = s
      BY <2>1, WalkVisits
    <2>4. ASSUME NEW j \in 0 .. r[s] - 1 PROVE Walk(p)[j] \notin {s, c}
      <3>1. j \in 0 .. NR_TASKS /\ j < r[s] /\ j < r[c]
        BY <1>7, <2>1, <2>3, TableAssumption
      <3>2. Walk(p)[j] # NULL => r[Walk(p)[j]] = j
        BY <3>1, WalkVisits
      <3>3. s # NULL /\ c # NULL
        BY SlotFacts
      <3> QED BY <1>7, <3>1, <3>2, <3>3
    <2> QED BY <2>2, <2>3, <2>4 DEF Foremost
  <1> QED BY <1>16, <1>17 DEF Kept

(* When the init task exits, its list has no owner that could wait.         *)
LEMMA InitExitPlaced ==
  ASSUME IInv, NEW o, NEW r, Placed(o, r), InitExit
  PROVE  Kept(o)
PROOF
  <1> DEFINE p == init_task
  <1>1. /\ state' = [state EXCEPT ![p] = "ZOMBIE"] /\ waiting[p] = NULL
        /\ used' = used /\ parent' = parent /\ child' = child /\ sibling' = sibling
        /\ waiting' = waiting
    BY DEF InitExit, UserMode, table, lists
  <1>2. p \in Slot
    BY SlotFacts
  <1> HIDE DEF p
  <1>3. Living' = Living \ {p}
    BY <1>1, <1>2 DEF Living, Alive, IInv, TypeOK
  <1>4. /\ o \in [Slot -> Pointer] /\ r \in [Slot -> Nat] /\ p # NULL
        /\ Living \subseteq Slot /\ \A s \in Living : s \in Slot /\ s # NULL /\ used[s]
    BY <1>2, PlacedFacts, SlotFacts DEF Placed, Lists
  <1>5. /\ Heads(Living, child, o, r) /\ Owned(Living, used, parent, o)
        /\ Followed(sibling, o, r) /\ Preceded(child, sibling, o, r)
        /\ Awaited(Living, waiting, o)
    BY DEF Placed, Lists
  <1>6. PICK o2 \in [Slot -> Pointer] : \A s \in Slot : o2[s] = IF o[s] = p THEN NULL ELSE o[s]
    <2>1. [s \in Slot |-> IF o[s] = p THEN NULL ELSE o[s]] \in [Slot -> Pointer]
      BY <1>4 DEF Pointer
    <2> QED BY <2>1
  <1>7. Heads(Living', child', o2, r)
    BY <1>1, <1>3, <1>5, <1>6 DEF Heads
  <1>8. Owned(Living', used', parent', o2)
    BY <1>1, <1>3, <1>5, <1>6 DEF Owned
  <1>9. Followed(sibling', o2, r)
    BY <1>1, <1>5, <1>6 DEF Followed
  <1>10. Preceded(child', sibling', o2, r)
    <2> SUFFICES ASSUME NEW s \in Slot, o2[s] # NULL
                 PROVE  IF r[s] = 0 THEN child[o2[s]] = s
                        ELSE \E t \in Slot : o2[t] = o2[s] /\ sibling[t] = s
      BY <1>1 DEF Preceded
    <2>1. o2[s] = o[s] /\ o[s] # p
      BY <1>6
    <2>2. IF r[s] = 0 THEN child[o[s]] = s ELSE \E t \in Slot : o[t] = o[s] /\ sibling[t] = s
      BY <1>5, <2>1 DEF Preceded
    <2> QED BY <1>6, <2>1, <2>2
  <1>11. Awaited(Living', waiting', o2)
    <2> SUFFICES ASSUME NEW q \in Slot, waiting[q] # NULL
                 PROVE  /\ q \in Living'
                        /\ waiting[q] # ANY => waiting[q] \in Slot /\ o2[waiting[q]] = q
      BY <1>1 DEF Awaited
    <2>1. q \in Living /\ (waiting[q] # ANY => waiting[q] \in Slot /\ o[waiting[q]] = q)
      BY <1>5 DEF Awaited
    <2>2. q # p
      BY <1>1
    <2> QED BY <1>3, <1>6, <2>1, <2>2
  <1>12. Placed(o2, r)'
    <2>1. Lists(Living', used', parent', child', sibling', o2, r)
      BY <1>1, <1>3, <1>4, <1>6, <1>7, <1>8, <1>9, <1>10 DEF Lists
    <2> QED BY <1>11, <2>1 DEF Placed
  <1>13. halted' = "init_exit"
    BY DEF InitExit
  <1> QED BY <1>12, <1>13 DEF Kept

(* The child that a loop over the list of p finds is a child of p.          *)
LEMMA ForemostChild ==
  ASSUME NEW p, NEW S, NEW c \in Foremost(p, S)
  PROVE  c \in S /\ (c \in Slot => c \in Children(p))
  BY DEF Foremost, Children

LEMMA FoundChild ==
  ASSUME NEW o, NEW r, Placed(o, r), NEW p \in Living,
         NEW target, target # ANY => target \in Slot /\ o[target] = p,
         NEW c \in Found(p, target)
  PROVE  c \in Slot /\ state[c] = "ZOMBIE" /\ o[c] = p
PROOF
  <1>1. CASE target = ANY
    <2>1. c \in Foremost(p, Zombies)
      BY <1>1 DEF Found
    <2>2. c \in Zombies /\ c \in Slot /\ state[c] = "ZOMBIE"
      BY <2>1, ForemostChild DEF Zombies
    <2>3. c \in Children(p)
      BY <2>1, <2>2, ForemostChild
    <2> QED BY <2>2, <2>3, ChildrenAre
  <1>2. CASE target # ANY
    BY <1>2 DEF Found, Zombies
  <1> QED BY <1>1, <1>2

LEMMA TargetChild ==
  ASSUME NEW o, NEW r, Placed(o, r), NEW p \in Living,
         NEW n, NEW target \in PidTarget(p, n), target # ANY
  PROVE  target \in Slot /\ o[target] = p
PROOF
  <1> DEFINE S == {s \in Slot : pid[s] = n}
  <1>1. target \in Foremost(p, S)
    BY DEF PidTarget
  <1>2. S \subseteq Slot
    OBVIOUS
  <1> HIDE DEF S
  <1>3. target \in Slot /\ target \in Children(p)
    BY <1>1, <1>2, ForemostChild
  <1> QED BY <1>3, ChildrenAre

LEMMA WaitPlaced ==
  ASSUME IInv, NEW o, NEW r, Placed(o, r), NEW p \in Slot, halted = "no", current = p,
         NEW target, target # ANY => target \in Slot /\ o[target] = p,
         WaitLoop(p, target)
  PROVE  Kept(o)
PROOF
  <1>1. p \in Living
    BY Running, SlotFacts DEF Living, Alive
  <1>2. CASE Suspend(p, target)
    <2>1. /\ Schedule(state, current) /\ waiting' = [waiting EXCEPT ![p] = target]
          /\ used' = used /\ parent' = parent /\ child' = child /\ sibling' = sibling
      BY <1>2 DEF Suspend, table, lists
    <2>2. \A s \in Slot : (state'[s] = "ZOMBIE") <=> (state[s] = "ZOMBIE")
      BY <2>1, ScheduleFrame
    <2> QED BY <1>1, <2>1, <2>2, FramePlaced
  <1>3. ASSUME NEW c \in Found(p, target), Reap(p, c) PROVE Kept(o)
    <2>1. c \in Slot /\ state[c] = "ZOMBIE" /\ o[c] = p
      BY <1>1, FoundChild
    <2> QED BY <1>1, <1>3, <2>1, ReapPlaced
  <1> QED BY <1>2, <1>3 DEF WaitLoop

LEMMA SyscallPlaced ==
  ASSUME IInv, NEW o, NEW r, Placed(o, r), NEW p \in Slot, Syscall(p)
  PROVE  Kept(o)
PROOF
  <1>1. ASSUME Fork(p) PROVE Kept(o)
    BY <1>1, ForkPlaced
  <1>2. ASSUME ForkTableFull(p) \/ WaitpidZero(p) \/ Execl(p) PROVE Kept(o)
    <2>1. /\ used' = used /\ parent' = parent /\ child' = child /\ sibling' = sibling
          /\ state' = state /\ waiting' = waiting
      BY <1>2 DEF ForkTableFull, WaitpidZero, Execl, table, lists
    <2> QED BY <2>1, FramePlaced
  <1>3. ASSUME NEW code \in Codes, Exit(p, code) PROVE Kept(o)
    BY <1>3, ExitPlaced
  <1>4. ASSUME Wait(p) PROVE Kept(o)
    BY <1>4, WaitPlaced DEF Wait, UserMode
  <1>5. ASSUME NEW arg \in 1 .. PidSpace - 1, NEW nohang \in BOOLEAN, Waitpid(p, arg, nohang)
        PROVE  Kept(o)
    <2>1. /\ halted = "no" /\ current = p
      BY <1>5 DEF Waitpid, UserMode
    <2>2. PICK target \in PidTarget(p, AbsPid(arg)) : WaitLoop(p, target)
      BY <1>5 DEF Waitpid
    <2>3. target # ANY => target \in Slot /\ o[target] = p
      <3>1. p \in Living
        BY <2>1, Running, SlotFacts DEF Living, Alive
      <3> QED BY <3>1, TargetChild
    <2> QED BY <2>1, <2>2, <2>3, WaitPlaced
  <1> QED BY <1>1, <1>2, <1>3, <1>4, <1>5 DEF Syscall

LEMMA ListsKept ==
  ASSUME IInv, NEW o, NEW r, Placed(o, r), [Next]_vars
  PROVE  Kept(o)
PROOF
  <1>1. CASE BootTick \/ \E p \in Slot : Tick(p)
    <2>1. /\ halted = "no" /\ Schedule(state, current) /\ waiting' = waiting
          /\ used' = used /\ parent' = parent /\ child' = child /\ sibling' = sibling
      BY <1>1 DEF BootTick, Tick, UserMode, table, lists
    <2>2. \A s \in Slot : (state'[s] = "ZOMBIE") <=> (state[s] = "ZOMBIE")
      BY <2>1, ScheduleFrame
    <2> QED BY <2>1, <2>2, FramePlaced
  <1>2. ASSUME NEW p \in Slot, Syscall(p) PROVE Kept(o)
    BY <1>2, SyscallPlaced
  <1>3. ASSUME NEW p \in Slot, WaitAgain(p) PROVE Kept(o)
    <2>1. halted = "no" /\ current = p /\ waiting[p] # NULL /\ WaitLoop(p, waiting[p])
      BY <1>3 DEF WaitAgain, InKernel
    <2>2. waiting[p] # ANY => waiting[p] \in Slot /\ o[waiting[p]] = p
      BY <2>1 DEF Placed, Awaited
    <2> QED BY <2>1, <2>2, WaitPlaced
  <1>4. CASE InitExit
    BY <1>4, InitExitPlaced
  <1>5. CASE Spin \/ UNCHANGED vars
    <2>1. /\ used' = used /\ parent' = parent /\ child' = child /\ sibling' = sibling
          /\ state' = state /\ waiting' = waiting
      BY <1>5 DEF Spin, vars
    <2> QED BY <2>1, FramePlaced
  <1> QED BY <1>1, <1>2, <1>3, <1>4, <1>5 DEF Next

LEMMA ListsStep == IInv /\ CInv /\ [Next]_vars => CInv'
PROOF
  <1> SUFFICES ASSUME IInv, CInv, [Next]_vars PROVE CInv'
    OBVIOUS
  <1>1. PICK o, r : Placed(o, r)
    BY DEF CInv
  <1>2. Kept(o)
    BY <1>1, ListsKept
  <1> QED BY <1>2 DEF Kept, CInv

LEMMA InitPlaced == Init => CInv
PROOF
  <1> SUFFICES ASSUME Init PROVE CInv
    OBVIOUS
  <1> DEFINE o == [s \in Slot |-> NULL]
             r == [s \in Slot |-> 0]
  <1>1. /\ o \in [Slot -> Pointer] /\ r \in [Slot -> Nat]
        /\ \A s \in Slot : o[s] = NULL
    BY DEF Pointer
  <1> HIDE DEF o, r
  <1>2. Living \subseteq Slot /\ \A s \in Living : used[s]
    BY DEF Living, Alive
  <1>3. Heads(Living, child, o, r)
    BY <1>2 DEF Init, Heads
  <1>4. /\ Owned(Living, used, parent, o) /\ Followed(sibling, o, r)
        /\ Preceded(child, sibling, o, r)
    BY <1>1 DEF Owned, Followed, Preceded
  <1>5. Awaited(Living, waiting, o)
    BY DEF Init, Awaited
  <1>6. Placed(o, r)
    BY <1>1, <1>2, <1>3, <1>4, <1>5 DEF Placed, Lists
  <1> QED BY <1>6 DEF CInv

LEMMA ListsInvariance == Spec => [](IInv /\ CInv)
PROOF
  <1>1. Init => IInv /\ CInv
    BY InitIInv, InitPlaced
  <1>2. (IInv /\ CInv) /\ [Next]_vars => (IInv /\ CInv)'
    BY IInvStep, ListsStep
  <1> QED BY <1>1, <1>2, PTL DEF Spec

(* The children of a live task form a list that ends, of tasks of the table *)
(* that know it as their parent, and no task is in two lists, after any     *)
(* number of forks, exits that splice lists, and waits that cut them.       *)
THEOREM ChildListsAreSound == Spec => []ChildListsSound
PROOF
  <1>1. IInv /\ CInv => ChildListsSound
    <2> SUFFICES ASSUME IInv, CInv PROVE ChildListsSound
      OBVIOUS
    <2>0. PICK o, r : Placed(o, r)
      BY DEF CInv
    <2>1. ASSUME NEW p \in Slot, Alive(p)
          PROVE  Walk(p)[NR_TASKS] = NULL /\ Children(p) = {s \in Slot : o[s] = p}
      <3>1. p \in Living
        BY <2>1 DEF Living
      <3> QED BY <2>0, <3>1, WalkVisits, ChildrenAre
    <2>2. ASSUME NEW p \in Slot, Alive(p), NEW c \in Children(p)
          PROVE  used[c] /\ parent[c] = p
      <3>1. c \in Slot /\ o[c] = p /\ p # NULL
        BY <2>1, <2>2, SlotFacts
      <3> QED BY <2>0, <3>1, PlacedFacts
    <2>3. ASSUME NEW p \in Slot, NEW q \in Slot, Alive(p), Alive(q), p # q
          PROVE  Children(p) \cap Children(q) = {}
      <3>1. Children(p) = {s \in Slot : o[s] = p} /\ Children(q) = {s \in Slot : o[s] = q}
        BY <2>1, <2>3
      <3> QED BY <2>3, <3>1
    <2>4. TypeOK
      BY DEF IInv
    <2> QED BY <2>1, <2>2, <2>3, <2>4 DEF ChildListsSound
  <1> QED BY <1>1, ListsInvariance, PTL

(* While sys_waitpid is suspended, the child that it keeps a pointer to     *)
(* stays in the table and in the list of the waiter.                        *)
THEOREM WaitTargetsAreValid == Spec => []WaitTargetValid
PROOF
  <1>1. IInv /\ CInv => WaitTargetValid
    <2> SUFFICES ASSUME IInv, CInv, NEW p \in Slot, NEW c \in Slot, Alive(p), waiting[p] = c
                 PROVE  used[c] /\ c \in Children(p)
      BY DEF WaitTargetValid
    <2>0. PICK o, r : Placed(o, r)
      BY DEF CInv
    <2>1. c # NULL /\ c # ANY /\ p # NULL /\ p \in Living
      BY SlotFacts DEF Living
    <2>2. o[c] = p
      BY <2>0, <2>1 DEF Placed, Awaited
    <2>3. Children(p) = {s \in Slot : o[s] = p}
      BY <2>0, <2>1, ChildrenAre
    <2> QED BY <2>0, <2>1, <2>2, <2>3, PlacedFacts
  <1> QED BY <1>1, ListsInvariance, PTL

-----------------------------------------------------------------------------
(***************************************************************************)
(* Slots are given back by the parent.  The parent field of an orphan is   *)
(* rewritten when it is adopted, and Placed ties it to the list in which   *)
(* wait() finds the zombie.                                                *)
(***************************************************************************)
KeptOrReaped ==
  \A s \in Slot : used[s] /\ ~used'[s] => state[s] = "ZOMBIE" /\ current = parent[s]

LEMMA WaitReaps ==
  ASSUME IInv, NEW o, NEW r, Placed(o, r), NEW p \in Slot, halted = "no", current = p,
         NEW target, target # ANY => target \in Slot /\ o[target] = p,
         WaitLoop(p, target)
  PROVE  KeptOrReaped
PROOF
  <1>1. p \in Living
    BY Running, SlotFacts DEF Living, Alive
  <1>2. CASE Suspend(p, target)
    <2>1. used' = used
      BY <1>2 DEF Suspend, table
    <2> QED BY <2>1 DEF KeptOrReaped
  <1>3. ASSUME NEW c \in Found(p, target), Reap(p, c) PROVE KeptOrReaped
    <2>1. c \in Slot /\ state[c] = "ZOMBIE" /\ o[c] = p
      BY <1>1, FoundChild
    <2>2. p # NULL
      BY SlotFacts
    <2>3. parent[c] = p
      BY <2>1, <2>2, PlacedFacts
    <2>4. \A s \in Slot : used[s] /\ ~used'[s] => s = c
      BY <1>3 DEF Reap, IInv, TypeOK
    <2> QED BY <2>1, <2>3, <2>4 DEF KeptOrReaped
  <1> QED BY <1>2, <1>3 DEF WaitLoop

LEMMA ReapedStep == IInv /\ CInv /\ [Next]_vars => [KeptOrReaped]_vars
PROOF
  <1> SUFFICES ASSUME IInv, CInv, [Next]_vars PROVE [KeptOrReaped]_vars
    OBVIOUS
  <1>0. PICK o, r : Placed(o, r)
    BY DEF CInv
  <1>1. CASE BootTick \/ InitExit \/ Spin \/ UNCHANGED vars
    BY <1>1 DEF BootTick, InitExit, Spin, table, vars, KeptOrReaped
  <1>2. ASSUME NEW p \in Slot, Tick(p) PROVE KeptOrReaped
    BY <1>2 DEF Tick, table, KeptOrReaped
  <1>3. ASSUME NEW p \in Slot, Syscall(p) PROVE KeptOrReaped
    <2>1. CASE Fork(p)
      <3>1. used' = [used EXCEPT ![FirstFree] = TRUE]
        BY <2>1 DEF Fork, CreateTask
      <3>2. \A s \in Slot : used[s] => used'[s]
        BY <3>1 DEF IInv, TypeOK
      <3> QED BY <3>2 DEF KeptOrReaped
    <2>2. CASE ForkTableFull(p) \/ WaitpidZero(p) \/ Execl(p)
      BY <2>2 DEF ForkTableFull, WaitpidZero, Execl, table, KeptOrReaped
    <2>3. CASE \E code \in Codes : Exit(p, code)
      BY <2>3 DEF Exit, KeptOrReaped
    <2>4. CASE Wait(p)
      BY <1>0, <2>4, WaitReaps DEF Wait, UserMode
    <2>5. ASSUME NEW arg \in 1 .. PidSpace - 1, NEW nohang \in BOOLEAN, Waitpid(p, arg, nohang)
          PROVE  KeptOrReaped
      <3>1. /\ halted = "no" /\ current = p
        BY <2>5 DEF Waitpid, UserMode
      <3>2. PICK target \in PidTarget(p, AbsPid(arg)) : WaitLoop(p, target)
        BY <2>5 DEF Waitpid
      <3>3. target # ANY => target \in Slot /\ o[target] = p
        <4>1. p \in Living
          BY <3>1, Running, SlotFacts DEF Living, Alive
        <4> QED BY <1>0, <4>1, TargetChild
      <3> QED BY <1>0, <3>1, <3>2, <3>3, WaitReaps
    <2> QED BY <1>3, <2>1, <2>2, <2>3, <2>4, <2>5 DEF Syscall
  <1>4. ASSUME NEW p \in Slot, WaitAgain(p) PROVE KeptOrReaped
    <2>1. halted = "no" /\ current = p /\ waiting[p] # NULL /\ WaitLoop(p, waiting[p])
      BY <1>4 DEF WaitAgain, InKernel
    <2>2. waiting[p] # ANY => waiting[p] \in Slot /\ o[waiting[p]] = p
      BY <1>0, <2>1 DEF Placed, Awaited
    <2> QED BY <1>0, <2>1, <2>2, WaitReaps
  <1> QED BY <1>1, <1>2, <1>3, <1>4 DEF Next

(* Those that have an owner are the ones in the lists.                      *)
OwnersHave == \A o, r : Placed(o, r) => \A c \in Slot : Listed(c) <=> o[c] # NULL

LEMMA ListedAre == OwnersHave
PROOF
  <1> SUFFICES ASSUME NEW o, NEW r, Placed(o, r), NEW c \in Slot
               PROVE  Listed(c) <=> o[c] # NULL
    BY DEF OwnersHave
  <1>1. ASSUME NEW p \in Slot, Alive(p), c \in Children(p) PROVE o[c] # NULL
    <2>1. p \in Living /\ p # NULL
      BY <1>1, SlotFacts DEF Living
    <2> QED BY <1>1, <2>1, ChildrenAre
  <1>2. ASSUME o[c] # NULL PROVE Listed(c)
    <2>1. o[c] \in Living /\ o[c] \in Slot
      BY <1>2, PlacedFacts
    <2>2. c \in Children(o[c]) /\ Alive(o[c])
      BY <2>1, ChildrenAre DEF Living
    <2> QED BY <2>1, <2>2 DEF Listed
  <1> QED BY <1>1, <1>2 DEF Listed

LEMMA ListedStep == IInv /\ CInv /\ [Next]_vars => StayListed
PROOF
  <1> SUFFICES ASSUME IInv, CInv, [Next]_vars PROVE StayListed
    OBVIOUS
  <1>1. PICK o, r : Placed(o, r)
    BY DEF CInv
  <1>2. PICK o2, r2 :
          /\ Placed(o2, r2)'
          /\ \A c \in Slot :
               (used[c] => o[c] # NULL) /\ used'[c] /\ halted' # "init_exit" =>
                 o2[c] # NULL \/ \E s \in Slot : used[s] /\ ~used'[s] /\ c \in Foremost(current, {c, s})
    BY <1>1, ListsKept DEF Kept
  <1>3. \A c \in Slot : Listed(c) <=> o[c] # NULL
    BY <1>1, ListedAre DEF OwnersHave
  <1>4. OwnersHave'
    BY ListedAre, PTL
  <1>5. \A c \in Slot : Listed(c)' <=> o2[c] # NULL
    BY <1>2, <1>4 DEF OwnersHave
  <1> QED BY <1>2, <1>3, <1>5 DEF StayListed

(* A slot is given back only as a zombie, by its parent of that moment,     *)
(* init for a task whose first parent has exited (syscall.c:107, 201).      *)
(* Until then the task stays in the list of children of a live task: forks  *)
(* put it there, exits hand it on, and nothing but a wait that finds a      *)
(* child behind it loses it.                                                *)
THEOREM OnlyParentsReap == Spec => ReapedByParent
PROOF
  <1>1. IInv /\ CInv /\ [Next]_vars => [KeptOrReaped /\ StayListed]_vars
    BY ReapedStep, ListedStep
  <1> QED BY <1>1, ListsInvariance, PTL DEF Spec, ReapedByParent, KeptOrReaped

=============================================================================
