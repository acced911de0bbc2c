----------------------------- MODULE Interrupts -----------------------------
(***************************************************************************)
(* Interrupts and context switches: kernel/init.c, idt.c, isr.c, pic.c,    *)
(* timer.c, the entry points of entry.S and the switch of scheduler.c,     *)
(* together with the 8259 interrupt controllers and the PIT they drive     *)
(* (external).  Module Tasks takes a handler to be one step that nothing   *)
(* interrupts, and ticks to keep coming; here both are shown, step by      *)
(* step: an interrupt is taken between two instructions whenever IF is set *)
(* and the controller asks for it.                                         *)
(*                                                                         *)
(* Of a task only what a switch touches is kept: where its saved frame is, *)
(* IF in its user context, and its place in the list of ready tasks, which *)
(* is the linked list of module TaskList.                                  *)
(***************************************************************************)
EXTENDS Naturals, FiniteSets, TaskList

CONSTANTS
  init_task,
  Lines     (* the interrupt lines in use: 0 is the PIT, 8 .. 15 are lines *)
            (* of the second 8259                                          *)

ASSUME InitTaskAssumption == init_task \in Task /\ NULL \notin Task
ASSUME LinesAssumption == 0 \in Lines /\ Lines \subseteq {0, 1} \cup 8 .. 15

VARIABLES
  base,     (* who programmed the vectors of the 8259s: "bios", "kernel"   *)
  irr,      (* lines with a request that has not been acknowledged         *)
  imr,      (* masked lines                                                *)
  isr,      (* lines in service, until their EOI                           *)
  intr,     (* the controller asks the CPU for an interrupt                *)
  latch,    (* does the 8259 keep a request when its line falls again?     *)
  idtr,     (* the IDT is loaded                                           *)
  iflag,    (* EFLAGS.IF                                                   *)
  mode,     (* what the CPU executes                                       *)
  stack,    (* whose kernel stack it uses, or will use: NULL for entry.S's *)
  tss,      (* the task whose TSS, with its kernel stack, set_tss copied   *)
  booted,   (* number of steps of init() that are done                     *)
  current,  (* current_task                                                *)
  list,     (* ready_tasks                                                 *)
  born,     (* tasks that were created                                     *)
  frame,    (* where interrupt_frame of a task points (as in Tasks)        *)
  context,  (* its user context: IF set, IF clear or stale stack contents  *)
  halted    (* why nothing goes on                                         *)

pic   == <<base, irr, imr, isr, intr, latch>>
cpu   == <<idtr, iflag, mode, stack, tss>>
tasks == <<current, list, born, frame, context>>
vars  == <<pic, cpu, booted, tasks, halted>>

Handlers == {"syscall", "wait", "timer", "schedule", "spurious"}
Modes    == {"boot", "idle", "user"} \cup Handlers
Halts    == {"no", "stray", "no_idt", "no_task", "exception", "bad_context"}

TypeOK ==
  /\ base \in {"bios", "kernel"} /\ latch \in {"keeps", "drops"}
  /\ irr \subseteq Lines /\ imr \subseteq 0 .. 15 /\ isr \subseteq Lines
  /\ intr \in BOOLEAN /\ idtr \in BOOLEAN /\ iflag \in BOOLEAN
  /\ mode \in Modes /\ halted \in Halts
  /\ stack \in Cell /\ tss \in Cell /\ current \in Cell
  /\ born \subseteq Task
  /\ frame \in [Task -> {"top", "deep"}]
  /\ context \in [Task -> {"on", "off", "stale"}]

-----------------------------------------------------------------------------
(***************************************************************************)
(* The 8259s.  A line in service holds back itself and the lines behind    *)
(* it; the second chip is heard only while line 2 is not masked.           *)
(***************************************************************************)
Wanted(requests, masks, service) ==
  {q \in requests \ masks : /\ q >= 8 => 2 \notin masks
                            /\ \A s \in service : q < s}

(* pic_init: the ICWs clear every register and set the vectors, and then    *)
(* OCW1 masks every line.                                                   *)
NothingMasked == {}
MaskAfterInit == 0 .. 15

PicInit ==
  /\ base' = "kernel" /\ irr' = {} /\ isr' = {} /\ intr' = FALSE
  /\ imr' = MaskAfterInit
  /\ UNCHANGED latch

(* pic_enable_irq *)
EnableIrq(q) ==
  /\ imr' = imr \ {q}
  /\ intr' = (intr \/ Wanted(irr, imr', isr) # {})
  /\ UNCHANGED <<base, irr, isr, latch>>

(* pic_send_eoi: the line of highest priority is no longer in service *)
NoEoi(service) == service
AfterEoi(service) == {s \in service : \E t \in service : t < s}

SendEoi ==
  /\ isr' = AfterEoi(isr)
  /\ intr' = (intr \/ Wanted(irr, imr, isr') # {})
  /\ UNCHANGED <<base, irr, imr, latch>>

(* A device raises its line.  The PIT does so at every period, whatever     *)
(* rate the BIOS or start_timer has set.                                    *)
Rise(q) ==
  /\ halted = "no" /\ q \notin irr
  /\ irr' = irr \cup {q}
  /\ intr' = (intr \/ Wanted(irr', imr, isr) # {})
  /\ UNCHANGED <<base, imr, isr, latch, cpu, booted, tasks, halted>>

(* Half a period, 25 ms, later the PIT lowers its line (mode 3).  A CPU     *)
(* with IF set has answered long before, and a handler other than that of a *)
(* system call has ended.  Otherwise the request may be gone by the time    *)
(* the CPU asks for it (Bochs, see isr_spurious_irq), or not (QEMU).        *)
Fall ==
  /\ halted = "no" /\ latch = "drops" /\ 0 \in irr /\ ~(iflag /\ intr)
  /\ mode \in {"boot", "user", "syscall", "wait"}
  /\ irr' = irr \ {0}
  /\ UNCHANGED <<base, imr, isr, intr, latch, cpu, booted, tasks, halted>>

-----------------------------------------------------------------------------
(***************************************************************************)
(* idt_init: who serves a vector.  The services of isr.c, for exceptions   *)
(* and for every vector without a service of its own, panic.               *)
(***************************************************************************)
IDT_PIC1_OFFSET == 32
IDT_PIC2_OFFSET == 40

Service(v) ==
  CASE v = IDT_PIC1_OFFSET -> "timer"
    [] v \in {IDT_PIC1_OFFSET + 7, IDT_PIC2_OFFSET + 7} -> "spurious"
    [] v = 128 -> "syscall"
    [] OTHER -> "panic"

(* The vector of a line, as the BIOS and as pic_init program the 8259s *)
Vector(q) ==
  IF base = "bios" THEN IF q < 8 THEN 8 + q ELSE 112 + (q - 8)
  ELSE IF q < 8 THEN IDT_PIC1_OFFSET + q ELSE IDT_PIC2_OFFSET + (q - 8)

(* Every gate is an interrupt gate (GT_INT), which clears IF. *)
TrapGate(flag)  == flag
AfterGate(flag) == FALSE

(* Entering the kernel from user mode switches to the stack in the TSS. *)
Enter(v) ==
  /\ iflag' = AfterGate(iflag)
  /\ stack' = IF mode = "user" THEN tss ELSE stack
  /\ IF ~idtr \/ Service(v) = "panic"
     THEN mode' = mode /\ halted' = IF idtr THEN "stray" ELSE "no_idt"
     ELSE mode' = Service(v) /\ halted' = "no"

(* The CPU finishes an instruction with IF set and answers the controller.  *)
(* When no request is left, the 8259 gives the vector of its line 7.        *)
Interrupt ==
  /\ halted = "no" /\ iflag /\ intr
  /\ LET ready == Wanted(irr, imr, isr)
         q == CHOOSE r \in ready : \A s \in ready : r <= s
     IN  IF ready = {} THEN Enter(Vector(7)) /\ UNCHANGED <<irr, isr>>
         ELSE Enter(Vector(q)) /\ irr' = irr \ {q} /\ isr' = isr \cup {q}
  /\ intr' = FALSE
  /\ UNCHANGED <<base, imr, latch, idtr, tss, booted, tasks>>

(* The CPU executes its next instruction. *)
Executes(m) == halted = "no" /\ mode = m /\ ~(iflag /\ intr)

-----------------------------------------------------------------------------
(***************************************************************************)
(* init() and scheduler_init.  The steps that touch neither interrupts nor *)
(* tasks are left out.                                                     *)
(***************************************************************************)
TimerEarly == <<"idt", "pic", "sti", "create", "timer", "ready">>
Steps == <<"idt", "pic", "sti", "create", "ready", "timer">>

Boot ==
  /\ Executes("boot")
  /\ booted' = booted + 1
  /\ mode' = IF booted' = Len(Steps) THEN "idle" ELSE "boot"
  /\ LET step == Steps[booted'] IN
     /\ idtr'  = (idtr \/ step = "idt")
     /\ iflag' = (iflag \/ step = "sti")
     /\ CASE step = "pic"   -> PicInit
          [] step = "timer" -> EnableIrq(0)
          [] OTHER          -> UNCHANGED pic
     /\ born' = IF step = "create" THEN {init_task} ELSE born
     /\ context' = IF step = "create"
                   THEN [context EXCEPT ![init_task] = IF iflag THEN "on" ELSE "off"]
                   ELSE context
     /\ list' = IF step = "ready" THEN Added(list, init_task) ELSE list
  /\ UNCHANGED <<stack, tss, current, frame, halted>>

-----------------------------------------------------------------------------
(***************************************************************************)
(* context_switch_to: the TSS, the stack and the saved frame of t.  A task *)
(* that schedule() suspended goes on in its wait loop, with IF clear as    *)
(* pushf found it; another one goes on in user mode.                       *)
(***************************************************************************)
TssKept(t) == tss
TssOf(t)   == t

NeverSet(c)   == FALSE
UserFlag(c)   == c = "on"

Resume(t, fr) ==
  /\ tss' = TssOf(t)
  /\ stack' = t
  /\ IF fr[t] = "deep" THEN mode' = "wait" /\ iflag' = FALSE /\ halted' = "no"
     ELSE /\ mode' = "user"
          /\ iflag' = UserFlag(context[t])
          /\ halted' = IF context[t] = "stale" THEN "bad_context" ELSE "no"

(* schedule_handler, from the list of ready tasks *)
Schedule ==
  /\ Executes("schedule")
  /\ IF list.head # NULL
     THEN /\ current' = list.head
          /\ list' = IF current = NULL THEN Removed(list, list.head)
                     ELSE Added(Removed(list, list.head), current)
          /\ Resume(list.head, frame)
     ELSE IF current # NULL
     THEN Resume(current, frame) /\ UNCHANGED <<current, list>>
     ELSE halted' = "no_task" /\ UNCHANGED <<tss, stack, mode, iflag, current, list>>
  /\ UNCHANGED <<pic, idtr, booted, born, frame, context>>

(* schedule_handler(fr) begins: the running task is at this frame *)
CallSchedule(fr) ==
  /\ mode' = "schedule"
  /\ frame' = IF current = NULL THEN frame ELSE [frame EXCEPT ![current] = fr]

(* isr_timer and timer_handler: the EOI goes out before the switch, which   *)
(* never returns.                                                           *)
TimerHandler ==
  /\ Executes("timer")
  /\ SendEoi
  /\ CallSchedule("top")
  /\ UNCHANGED <<idtr, iflag, stack, tss, booted, current, list, born, context, halted>>

(* isr_spurious_irq returns to what was interrupted, without an EOI. *)
SpuriousHandler ==
  /\ Executes("spurious")
  /\ mode' = IF current = NULL THEN "idle" ELSE "user"
  /\ iflag' = TRUE
  /\ UNCHANGED <<pic, idtr, stack, tss, booted, tasks, halted>>

-----------------------------------------------------------------------------
(***************************************************************************)
(* User code.  It issues int 0x80, or an instruction that raises an        *)
(* exception, or goes on computing.                                        *)
(***************************************************************************)
Syscall ==
  /\ Executes("user")
  /\ Enter(128)
  /\ UNCHANGED <<pic, idtr, tss, booted, tasks>>

Exception ==
  /\ Executes("user")
  /\ \E v \in {0, 6, 13, 14} :
       Service(v) = "panic" /\ halted' = "exception"
  /\ UNCHANGED <<pic, cpu, booted, tasks>>

(* The end of isr_syscall: iret to the user context c *)
ReturnTo(c) ==
  /\ mode' = "user"
  /\ iflag' = UserFlag(c)
  /\ UNCHANGED <<idtr, stack, tss>>

(* A system call that changes nothing here, or a wait that is over *)
Return ==
  /\ Executes("syscall") \/ Executes("wait")
  /\ ReturnTo(context[current])
  /\ UNCHANGED <<pic, booted, tasks, halted>>

(* fork: the new task gets the context that interrupt_frame of its parent   *)
(* points to, and is ready.                                                 *)
Fork(t) ==
  /\ Executes("syscall") /\ t \notin born
  /\ born' = born \cup {t}
  /\ frame' = [frame EXCEPT ![t] = "top"]
  /\ context' = [context EXCEPT ![t] = IF frame[current] = "top" THEN context[current] ELSE "stale"]
  /\ list' = Added(list, t)
  /\ ReturnTo(context[current])
  /\ UNCHANGED <<pic, booted, current, halted>>

(* execl: a new context with the flags of this handler *)
Execl ==
  /\ Executes("syscall")
  /\ LET c == IF iflag THEN "on" ELSE "off" IN
     /\ context' = [context EXCEPT ![current] = c]
     /\ ReturnTo(c)
  /\ frame' = [frame EXCEPT ![current] = "top"]
  /\ UNCHANGED <<pic, booted, current, list, born, halted>>

(* exit: the kernel goes on, on the stack of the zombie, to the next task *)
Exit ==
  /\ Executes("syscall") /\ current # init_task
  /\ current' = NULL
  /\ mode' = "schedule"
  /\ UNCHANGED <<pic, idtr, iflag, stack, tss, booted, list, born, frame, context, halted>>

(* schedule() in a wait loop, for the first time or again *)
Wait ==
  /\ Executes("syscall") \/ Executes("wait")
  /\ CallSchedule("deep")
  /\ UNCHANGED <<pic, idtr, iflag, stack, tss, booted, current, list, born, context, halted>>

HandleSyscall == Return \/ Execl \/ Exit \/ Wait \/ \E t \in Task : Fork(t)

(* A panic spins; the boot code of the kernel sleeps in hlt. *)
Spin == halted # "no" /\ UNCHANGED vars

-----------------------------------------------------------------------------
(* bootsect has cleared IF; the BIOS left its own vectors, no line masked   *)
(* and the PIT running.                                                     *)
Init ==
  /\ base = "bios" /\ imr = {} /\ isr = {}
  /\ irr \in SUBSET Lines /\ intr = (irr # {})
  /\ latch \in {"keeps", "drops"}
  /\ idtr = FALSE /\ iflag = FALSE /\ mode = "boot" /\ booted = 0
  /\ stack = NULL /\ tss = NULL /\ current = NULL
  /\ list = EmptyList /\ born = {}
  /\ frame = [t \in Task |-> "top"] /\ context = [t \in Task |-> "on"]
  /\ halted = "no"

Next ==
  \/ \E q \in Lines : Rise(q)
  \/ Fall \/ Interrupt
  \/ Boot \/ Schedule \/ TimerHandler \/ SpuriousHandler
  \/ Syscall \/ Exception \/ HandleSyscall
  \/ Spin

(* The PIT keeps ticking, and the CPU keeps executing the kernel and takes  *)
(* interrupts it can take; user code may compute for ever.                  *)
Fairness ==
  /\ WF_vars(Rise(0)) /\ WF_vars(Interrupt) /\ WF_vars(Boot)
  /\ WF_vars(Schedule) /\ WF_vars(TimerHandler) /\ WF_vars(SpuriousHandler)
  /\ WF_vars(HandleSyscall)

Spec == Init /\ [][Next]_vars /\ Fairness

-----------------------------------------------------------------------------
(* No interrupt comes too early or from an unexpected line: init() loads    *)
(* the IDT, moves the vectors away from those of exceptions and masks every *)
(* line before it sets IF, and a task is ready before the timer is on, so   *)
(* that the first tick finds one.                                           *)
OnlyExpectedInterrupts == halted \notin {"stray", "no_idt", "no_task"}

(* A handler runs to its end, or to its context switch, without being       *)
(* interrupted, whether its task was interrupted with IF set or not: what   *)
(* module Tasks takes for granted.  And a line stays in service only while  *)
(* its handler is about to send the EOI: neither a switch, which never      *)
(* returns to the handler, nor a spurious interrupt leaves one behind that  *)
(* would hold back every later tick (timer.c:29).                           *)
HandlersComplete ==
  /\ mode \in Handlers => ~iflag
  /\ isr # {} => mode = "timer" /\ isr = {0}

(* An entry from user mode uses the kernel stack of the running task, and   *)
(* two tasks never share one: the TSS follows every switch, also the one    *)
(* away from a task that exits.                                             *)
OwnStack ==
  /\ mode = "user" /\ halted = "no" => tss = current
  /\ current # NULL => stack = current /\ ~In(list, current)

(* The list of ready tasks stays a proper doubly linked list. *)
WellLinked == TypeOK /\ ListSound(list)

(* Along every switch, fork and exit the linked list behaves like the queue *)
(* of ReadyQueue: first in, first out.                                      *)
Queue == INSTANCE ReadyQueue WITH queue <- Linked(list)
ImplementsQueue == Queue!Spec

(* No program keeps the CPU by computing: the scheduler gets its turn again *)
(* and again, unless the kernel panics or a program that execl started,     *)
(* with IF clear, never waits or exits.  A controller that drops requests   *)
(* can be outrun by a program that is in a system call at every tick.       *)
KeepsCpu == \E t \in Task : <>[](current = t /\ context[t] = "off")

TicksKeepComing ==
  \/ KeepsCpu
  \/ latch = "drops" /\ []<>(mode = "syscall")
  \/ []<>(mode = "schedule" \/ halted # "no")
=============================================================================
