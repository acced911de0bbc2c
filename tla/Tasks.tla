------------------------------- MODULE Tasks -------------------------------
(***************************************************************************)
(* The task table, the round-robin scheduler and the process system calls  *)
(* (kernel/task.c, kernel/scheduler.c, kernel/syscall.c, kernel/timer.c    *)
(* and the context switching of kernel/entry.S).                           *)
(*                                                                         *)
(* There is one CPU.  The timer and the system calls enter the kernel      *)
(* through interrupt gates, which clear IF, so a handler runs to its end,  *)
(* or to its next schedule(), without interruption: that is one action     *)
(* here.  Tasks interleave at a timer tick in user mode and inside the     *)
(* waiting loops of sys_wait and sys_waitpid.                              *)
(*                                                                         *)
(* A slot of task_unions stands for the task_struct it holds.  The run     *)
(* queue is a sequence: module TaskList shows that the doubly linked list  *)
(* of scheduler.c implements one.  Address spaces are in module Paging.    *)
(***************************************************************************)
EXTENDS Naturals, Sequences, FiniteSets

CONSTANTS
  NR_TASKS,  (* number of slots of the task table                          *)
  NULL,      (* the null task pointer                                      *)
  ANY,       (* "any child", the target of wait() and waitpid(-1)          *)
  PidSpace,  (* pid_t is unsigned: pids are numbers modulo PidSpace        *)
  MaxPid,    (* bound of the model: the last pid that is handed out        *)
  Codes,     (* exit codes that tasks use                                  *)
  Calls      (* the system calls that user programs issue                  *)

Slot == 0 .. NR_TASKS - 1
init_task == 0
INIT_PID == 1

ASSUME TableAssumption == NR_TASKS \in Nat \ {0}
ASSUME NullAssumption == NULL \notin Slot /\ ANY \notin Slot /\ NULL # ANY
ASSUME PidAssumption == MaxPid \in Nat /\ PidSpace \in Nat /\ MaxPid + 1 < PidSpace
ASSUME CodeAssumption == Codes \subseteq Nat /\ 0 \in Codes
ASSUME CallAssumption == Calls \subseteq {"fork", "exit", "wait", "waitpid", "execl"}

VARIABLES
  used,       (* is_used[]                                                 *)
  state,      (* task_struct.state                                         *)
  pid,
  exit_code,
  parent,
  child,      (* head of the list of children                              *)
  sibling,    (* next element of the list that the task is in              *)
  next_pid,   (* the static _pid of create_task                            *)
  current,    (* current_task; NULL while the boot code sleeps in hlt      *)
  ready,      (* ready_tasks                                               *)
  frame,      (* where interrupt_frame points: the frame at the top of the *)
              (* kernel stack, or a deeper one pushed by schedule()        *)
  context,    (* the user context of that top frame: IF set, IF clear, or  *)
              (* stale stack contents                                      *)
  waiting,    (* the child that the suspended wait loop of a task is for   *)
  halted      (* why the kernel spins in panic() or in a failed assertion  *)

table == <<used, pid, exit_code, parent, next_pid>>
lists == <<child, sibling>>
vars  == <<used, state, pid, exit_code, parent, child, sibling, next_pid,
           current, ready, frame, context, waiting, halted>>

Pointer == Slot \cup {NULL}
States  == {"NONE", "READY", "RUNNING", "ZOMBIE", "DEAD"}
Halts   == {"no", "no_task", "bad_state", "bad_context",
            "init_exit", "fork_null", "waitpid_zero"}

TypeOK ==
  /\ used      \in [Slot -> BOOLEAN]
  /\ state     \in [Slot -> States]
  /\ pid       \in [Slot -> Nat]
  /\ exit_code \in [Slot -> Codes]
  /\ parent    \in [Slot -> Pointer]
  /\ child     \in [Slot -> Pointer]
  /\ sibling   \in [Slot -> Pointer]
  /\ next_pid  \in Nat
  /\ current   \in Pointer
  /\ ready     \in Seq(Slot)
  /\ frame     \in [Slot -> {"top", "deep"}]
  /\ context   \in [Slot -> {"on", "off", "stale"}]
  /\ waiting   \in [Slot -> Pointer \cup {ANY}]
  /\ halted    \in Halts

-----------------------------------------------------------------------------
(***************************************************************************)
(* The list of children.  Walk(p)[i] is the i-th task that a loop over     *)
(* p->child, ->sibling, ... visits, NULL after the last one.               *)
(***************************************************************************)
Walk(p) ==
  LET at[i \in 0 .. NR_TASKS] ==
        IF i = 0 THEN child[p]
        ELSE IF at[i - 1] = NULL THEN NULL ELSE sibling[at[i - 1]]
  IN  at

Children(p) == {s \in Slot : \E i \in 0 .. NR_TASKS - 1 : Walk(p)[i] = s}

(* The loops over the list stop at the first child that satisfies their     *)
(* condition, here a set S of slots: Foremost is empty when no child does.  *)
HeadOnly(p, S) == S \cap {child[p]}

Foremost(p, S) ==
  {c \in S : \E i \in 0 .. NR_TASKS - 1 :
               /\ Walk(p)[i] = c
               /\ \A j \in 0 .. i - 1 : Walk(p)[j] \notin S}

Zombies == {s \in Slot : state[s] = "ZOMBIE"}

-----------------------------------------------------------------------------
(***************************************************************************)
(* task_init and scheduler_init: the init task is in the table and in the  *)
(* run queue, and the boot code sleeps until the first timer interrupt.    *)
(***************************************************************************)
Init ==
  /\ used      = [s \in Slot |-> s = init_task]
  /\ state     = [s \in Slot |-> IF s = init_task THEN "READY" ELSE "NONE"]
  /\ pid       = [s \in Slot |-> IF s = init_task THEN INIT_PID ELSE 0]
  /\ exit_code = [s \in Slot |-> 0]
  /\ parent    = [s \in Slot |-> NULL]
  /\ child     = [s \in Slot |-> NULL]
  /\ sibling   = [s \in Slot |-> NULL]
  /\ next_pid  = INIT_PID + 1
  /\ current   = NULL
  /\ ready     = <<init_task>>
  /\ frame     = [s \in Slot |-> "top"]
  /\ context   = [s \in Slot |-> "on"]
  /\ waiting   = [s \in Slot |-> NULL]
  /\ halted    = "no"

(***************************************************************************)
(* schedule_handler and context_switch_to, from task states st and running *)
(* task cur.  The head of the run queue is taken, the running task goes to *)
(* its tail, and the head resumes at its saved frame; without a ready task *)
(* the running one goes on, and if there is none the assertion in          *)
(* running_task fails.  Resuming a user context that is only stale stack   *)
(* contents faults, and every fault handler of isr.c panics.               *)
(***************************************************************************)
HeadNotRemoved(cur) == IF cur = NULL THEN ready ELSE Append(ready, cur)
RunningDropped(cur) == Tail(ready)
RunningFirst(cur)   == IF cur = NULL THEN Tail(ready) ELSE <<cur>> \o Tail(ready)

Requeue(cur) == IF cur = NULL THEN Tail(ready) ELSE Append(Tail(ready), cur)

Schedule(st, cur) ==
  IF ready = <<>>
  THEN /\ halted' = IF cur = NULL THEN "no_task" ELSE "no"
       /\ state' = st
       /\ current' = cur
       /\ ready' = ready
  ELSE LET next == Head(ready) IN
       /\ state' = [s \in Slot |-> IF s = next THEN "RUNNING"
                                   ELSE IF s = cur THEN "READY" ELSE st[s]]
       /\ current' = next
       /\ ready' = Requeue(cur)
       /\ halted' = CASE \/ st[next] # "READY"
                         \/ cur # NULL /\ st[cur] # "RUNNING"    -> "bad_state"
                      [] /\ st[next] = "READY"
                         /\ cur = NULL \/ st[cur] = "RUNNING"
                         /\ frame[next] = "top"
                         /\ context[next] = "stale"              -> "bad_context"
                      [] OTHER                                   -> "no"

(* The running task executes user code, or a wait loop inside the kernel.  *)
UserMode(p) == halted = "no" /\ current = p /\ waiting[p] = NULL
InKernel(p) == halted = "no" /\ current = p /\ waiting[p] # NULL

(***************************************************************************)
(* isr_timer and timer_handler: interrupts are taken in user mode when the *)
(* context has IF set, and in the hlt loop of scheduler_init.              *)
(***************************************************************************)
BootTick ==
  /\ halted = "no" /\ current = NULL
  /\ Schedule(state, NULL)
  /\ UNCHANGED <<table, lists, frame, context, waiting>>

Tick(p) ==
  /\ UserMode(p) /\ context[p] = "on"
  /\ frame' = [frame EXCEPT ![p] = "top"]
  /\ Schedule(state, p)
  /\ UNCHANGED <<table, lists, context, waiting>>

-----------------------------------------------------------------------------
(***************************************************************************)
(* sys_fork, fork_task and create_task.  The child is put first in the     *)
(* list of its parent and last in the run queue.  Its user context is what *)
(* parent->interrupt_frame points to: the frame of this system call when   *)
(* that is the top frame, and otherwise stack contents left over from an   *)
(* earlier call of schedule(), since a system call does not store its      *)
(* frame in the task.                                                      *)
(***************************************************************************)
ZombieSlotsToo == {s \in Slot : ~used[s] \/ state[s] = "ZOMBIE"}

Free == {s \in Slot : ~used[s]}

(* get_free_task_union: the free slot with the smallest index *)
FirstFree == CHOOSE s \in Free : \A t \in Free : s <= t

(* the _pid++ of create_task *)
SamePid(n) == n

PidAfter(n) == n + 1

(* create_task, for a parent p and the slot c *)
CreateTask(p, c) ==
  /\ used'    = [used EXCEPT ![c] = TRUE]
  /\ parent'  = [parent EXCEPT ![c] = p]
  /\ sibling' = [sibling EXCEPT ![c] = child[p]]
  /\ child'   = [child EXCEPT ![c] = NULL, ![p] = c]
  /\ pid'     = [pid EXCEPT ![c] = next_pid]
  /\ next_pid' = PidAfter(next_pid)
  /\ frame'   = [frame EXCEPT ![c] = "top"]

Fork(p) ==
  /\ "fork" \in Calls /\ UserMode(p)
  /\ Free # {}
  /\ next_pid <= MaxPid
  /\ LET c == FirstFree IN
     /\ CreateTask(p, c)
     /\ context' = [context EXCEPT ![c] =
                      IF frame[p] = "top" THEN context[p] ELSE "stale"]
     /\ state'   = [state EXCEPT ![c] = "READY"]
     /\ ready'   = Append(ready, c)
  /\ UNCHANGED <<exit_code, current, waiting, halted>>

(* No free slot: fork_task returns NULL and sys_fork writes through it. *)
ForkTableFull(p) ==
  /\ "fork" \in Calls /\ UserMode(p)
  /\ Free = {}
  /\ halted' = "fork_null"
  /\ UNCHANGED <<table, lists, state, current, ready, frame, context, waiting>>

(***************************************************************************)
(* sys_exit and task_exit.  The task becomes a zombie, its children become *)
(* children of init, in front of those init has, and the next task runs.   *)
(***************************************************************************)
ParentsKept(p) == parent
ListNotJoined(p) == sibling

OrphansParent(p) ==
  [s \in Slot |-> IF s \in Children(p) THEN init_task ELSE parent[s]]

JoinedSiblings(p) ==
  LET last == CHOOSE k \in Children(p) : sibling[k] = NULL
  IN  IF Children(p) = {} THEN sibling
      ELSE [sibling EXCEPT ![last] = child[init_task]]

Exit(p, code) ==
  /\ "exit" \in Calls /\ UserMode(p)
  /\ p # init_task
  /\ exit_code' = [exit_code EXCEPT ![p] = code]
  /\ parent' = OrphansParent(p)
  /\ sibling' = JoinedSiblings(p)
  /\ child' = IF child[p] = NULL THEN child
              ELSE [child EXCEPT ![init_task] = child[p]]
  /\ Schedule([state EXCEPT ![p] = "ZOMBIE"], NULL)
  /\ UNCHANGED <<used, pid, next_pid, frame, context, waiting>>

(* task_exit panics when the init task exits. *)
InitExit ==
  /\ "exit" \in Calls /\ UserMode(init_task)
  /\ state' = [state EXCEPT ![init_task] = "ZOMBIE"]
  /\ current' = NULL
  /\ halted' = "init_exit"
  /\ UNCHANGED <<table, lists, ready, frame, context, waiting>>

-----------------------------------------------------------------------------
(***************************************************************************)
(* The end of sys_wait and sys_waitpid: the list of children now starts    *)
(* after the child that was found, and its slot is free (task_dead).       *)
(***************************************************************************)
Reap(p, c) ==
  /\ child'   = [child EXCEPT ![p] = sibling[c]]
  /\ state'   = [state EXCEPT ![c] = "DEAD"]
  /\ used'    = [used EXCEPT ![c] = FALSE]
  /\ waiting' = [waiting EXCEPT ![p] = NULL]
  /\ UNCHANGED <<pid, exit_code, parent, sibling, next_pid,
                 current, ready, frame, context, halted>>

(* schedule() inside a wait loop of p that is for target *)
Suspend(p, target) ==
  /\ waiting' = [waiting EXCEPT ![p] = target]
  /\ frame' = [frame EXCEPT ![p] = "deep"]
  /\ Schedule(state, p)
  /\ UNCHANGED <<table, lists, context>>

(* One round of the loop: any zombie child, or the child that is waited for *)
Found(p, target) ==
  IF target = ANY THEN Foremost(p, Zombies) ELSE {target} \cap Zombies

WaitLoop(p, target) ==
  \/ \E c \in Found(p, target) : Reap(p, c)
  \/ Found(p, target) = {} /\ Suspend(p, target)

(* sys_wait; without a child it returns -1 *)
Wait(p) ==
  /\ "wait" \in Calls /\ UserMode(p)
  /\ child[p] # NULL
  /\ WaitLoop(p, ANY)

(* The resumed loop of sys_wait or sys_waitpid *)
WaitAgain(p) ==
  /\ InKernel(p)
  /\ WaitLoop(p, waiting[p])

(***************************************************************************)
(* sys_waitpid.  In `pid < -1 ? -pid : pid` the -1 becomes the largest     *)
(* pid_t, so every other argument is negated.  Then the largest pid_t      *)
(* stands for any child, 0 panics, and another value names the child with  *)
(* that pid: without such a child the call returns -1, and with WNOHANG it *)
(* returns 0 instead of waiting.                                           *)
(***************************************************************************)
Negate(n) == (PidSpace - n) % PidSpace
AbsPid(n) == IF n < PidSpace - 1 THEN Negate(n) ELSE n
PidTarget(p, n) ==
  IF n = PidSpace - 1 THEN {ANY} ELSE Foremost(p, {s \in Slot : pid[s] = n})

Waitpid(p, arg, nohang) ==
  /\ "waitpid" \in Calls /\ UserMode(p)
  /\ child[p] # NULL
  /\ AbsPid(arg) # 0
  /\ \E target \in PidTarget(p, AbsPid(arg)) :
       /\ nohang => Found(p, target) # {}
       /\ WaitLoop(p, target)

WaitpidZero(p) ==
  /\ "waitpid" \in Calls /\ UserMode(p)
  /\ child[p] # NULL
  /\ halted' = "waitpid_zero"
  /\ UNCHANGED <<table, lists, state, current, ready, frame, context, waiting>>

(***************************************************************************)
(* sys_execl and init_task_stack, when the file can be loaded: a new user  *)
(* context whose flags are those of the running handler, with IF clear.    *)
(***************************************************************************)
Execl(p) ==
  /\ "execl" \in Calls /\ UserMode(p)
  /\ frame' = [frame EXCEPT ![p] = "top"]
  /\ context' = [context EXCEPT ![p] = "off"]
  /\ UNCHANGED <<table, lists, state, current, ready, waiting, halted>>

(* spin() in assert.c, where panic() and a failed assertion end *)
Spin == halted # "no" /\ UNCHANGED vars

-----------------------------------------------------------------------------
Syscall(p) ==
  \/ Fork(p)
  \/ ForkTableFull(p)
  \/ \E code \in Codes : Exit(p, code)
  \/ Wait(p)
  \/ \E arg \in 1 .. PidSpace - 1, nohang \in BOOLEAN : Waitpid(p, arg, nohang)
  \/ WaitpidZero(p)
  \/ Execl(p)

Next ==
  \/ BootTick
  \/ \E p \in Slot : Tick(p) \/ Syscall(p) \/ WaitAgain(p)
  \/ InitExit
  \/ Spin

(* The timer keeps interrupting code that runs with IF set, and the CPU     *)
(* keeps executing a wait loop; user programs may spin for ever.            *)
Fairness == WF_vars(BootTick) /\ \A p \in Slot : WF_vars(Tick(p)) /\ WF_vars(WaitAgain(p))

Spec == Init /\ [][Next]_vars /\ Fairness

-----------------------------------------------------------------------------
(***************************************************************************)
(* What the table, the run queue and the lists promise.                    *)
(***************************************************************************)
Alive(s) == used[s] /\ state[s] # "ZOMBIE"

(* The run queue holds every ready task exactly once and no other task, and *)
(* current_task is the one task in state RUNNING: switch_to_ready_state,    *)
(* switch_to_running_state and the system calls keep three records of one   *)
(* fact (the state, the list and current_task) together.                    *)
RunQueueSound ==
  /\ \A i, j \in 1 .. Len(ready) : ready[i] = ready[j] => i = j
  /\ \A s \in Slot : (used[s] /\ state[s] = "READY")
                    <=> \E i \in 1 .. Len(ready) : ready[i] = s
  /\ \A s \in Slot : (used[s] /\ state[s] = "RUNNING") <=> current = s

(* schedule_handler always finds a task to run, although tasks exit, wait   *)
(* and are never blocked: the assertion of running_task(1) and the panics   *)
(* "invalid task state" of scheduler.c are never reached.                   *)
NoSchedulerPanic == halted \notin {"no_task", "bad_state"}

(* The lists of children of the live tasks are proper lists: they end, hold *)
(* only tasks that are in the table and whose parent is the owner, and no   *)
(* task is in two of them, although exits splice whole lists together and   *)
(* wait cuts them.  Includes TypeOK.                                        *)
ChildListsSound ==
  /\ TypeOK
  /\ \A p \in Slot : Alive(p) =>
       /\ Walk(p)[NR_TASKS] = NULL
       /\ \A c \in Children(p) : used[c] /\ parent[c] = p
  /\ \A p, q \in Slot : Alive(p) /\ Alive(q) /\ p # q
                        => Children(p) \cap Children(q) = {}

(* sys_waitpid keeps a pointer to the child across schedule(): while it is  *)
(* suspended, that child stays in the table and in the list of the waiter,  *)
(* whatever other tasks exit, fork or are adopted meanwhile.                *)
WaitTargetValid ==
  \A p, c \in Slot : Alive(p) /\ waiting[p] = c => used[c] /\ c \in Children(p)

(* No two tasks in the table, zombies included, have the same pid, and the  *)
(* next pid is fresh.                                                       *)
PidsUnique ==
  \A s, t \in Slot : used[s] =>
    /\ pid[s] < next_pid
    /\ used[t] /\ pid[s] = pid[t] => s = t

(* A task stays in the lists of children from its fork on, through exits    *)
(* that splice lists, until its slot is given back: only a wait that finds  *)
(* another child behind it in the list takes it off (syscall.c:107, 201),   *)
(* and the exit of init, which panics.                                      *)
Listed(c) == \E p \in Slot : Alive(p) /\ c \in Children(p)

StayListed ==
  \A c \in Slot :
    (used[c] => Listed(c)) /\ used'[c] /\ halted' # "init_exit" =>
      \/ Listed(c)'
      \/ \E s \in Slot : used[s] /\ ~used'[s] /\ c \in Foremost(current, {c, s})

(* A slot is given back only when it is a zombie, and by its parent, which  *)
(* is running wait() or waitpid(), even when the parent that forked it has  *)
(* exited and init adopted it; and nothing else takes a task out of reach   *)
(* of its parent than StayListed says.                                      *)
ReapedByParent ==
  [][/\ \A s \in Slot : used[s] /\ ~used'[s] => state[s] = "ZOMBIE" /\ current = parent[s]
     /\ StayListed]_vars

(* Until then its pid and exit code are kept for the parent ("NOTE" above   *)
(* task_exit), and it is never scheduled again.                             *)
KeepZombies ==
  \A s \in Slot : used[s] /\ state[s] = "ZOMBIE" /\ used'[s] =>
    /\ state'[s] = "ZOMBIE"
    /\ pid'[s] = pid[s]
    /\ exit_code'[s] = exit_code[s]

ZombiesKept == [][KeepZombies]_vars

(* The run queue is the queue of ReadyQueue: forks join at its tail, and     *)
(* every rescheduling takes the task that waited longest.                   *)
Order == INSTANCE ReadyQueue WITH Task <- Slot, queue <- ready
FirstInFirstOut == Order!Spec

(* From some moment on, one program keeps the CPU: it was started by execl, *)
(* runs with IF clear, and makes no more system calls.                      *)
KeepsCpu == \E p \in Slot : <>[](UserMode(p) /\ context[p] = "off")

(* No starvation: a ready task runs, unless the kernel stops for good or a  *)
(* program that no interrupt can reach keeps the CPU.  The run queue is     *)
(* first in, first out, and ticks keep coming to every other program.       *)
ReadyTasksRun ==
  \/ KeepsCpu
  \/ \A s \in Slot : (used[s] /\ state[s] = "READY")
                      ~> (state[s] = "RUNNING" \/ halted # "no")

(* A wait that could return does return: a task suspended in wait() or      *)
(* waitpid() for a child that is a zombie leaves the loop, under the same   *)
(* condition.                                                               *)
WaitersReturn ==
  \/ KeepsCpu
  \/ \A p \in Slot : (waiting[p] # NULL /\ Found(p, waiting[p]) # {})
                      ~> (waiting[p] = NULL \/ halted # "no")

-----------------------------------------------------------------------------
(***************************************************************************)
(* What comments and tests of the repository say and the code does not do. *)
(***************************************************************************)

(* wait() and waitpid() take one child, the one they return, out of the     *)
(* list ("remove from the list of children of the parent", syscall.c:106    *)
(* and 200): every other task stays in the list of a live task, so that     *)
(* it can be waited for.                                                    *)
NoChildLost ==
  \A s \in Slot : halted = "no" /\ used[s] /\ s # init_task => Listed(s)

(* Only pids below -1 are replaced by their absolute value (syscall.c:128): *)
(* waitpid(n) is about the child whose pid is n.                            *)
WaitpidNamesChild ==
  \A p \in Slot : \A c \in Children(p) :
    current = p => PidTarget(p, AbsPid(pid[c])) = {c}

(* The new task gets the interrupt context of its parent: "return address,  *)
(* stack pointer and so on" (task.c:193), never other stack contents.       *)
ForkCopiesContext == \A s \in Slot : used[s] => context[s] # "stale"

=============================================================================
