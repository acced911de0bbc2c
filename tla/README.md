# FiRSTSTEP: specifications, model checking and proofs

FiRSTSTEP is a small 32-bit x86 operating system: a boot loader, a kernel with
round-robin scheduling, paging and process system calls, a read-only FAT16 file
system over polled ATA, and two user programs. This directory holds TLA+
modules of its loader and kernel, the TLC configurations that check them, and theorems
about them that TLAPS checks. All statements about the code refer to `src/`.

## 1. Inventory

The kernel runs on one CPU. The timer (`int 0x20`) and the system calls
(`int 0x80`) enter through interrupt gates, which clear IF; a handler therefore
runs without interruption until it returns or calls `schedule()`. User code runs
with IF set and can be preempted anywhere, except after `execl` (section 6).
`Interrupts` shows this step by step; the other modules of the kernel use it.

| part | state | operations | interacts with |
|---|---|---|---|
| scheduler (`scheduler.c`, `timer.c`, `entry.S`) | `current_task`, `ready_tasks` (head, tail, the links in the tasks), `state`, `interrupt_frame` | `switch_task_state` and its five targets, `schedule_handler`, `schedule`, `timer_handler`, `scheduler_init` | reads and writes the task table; loads the page directory and the TSS of the next task |
| task table (`task.c`) | `is_used[]`, `task_unions[]`: pid, exit code, parent, child, sibling; `_pid` | `create_task`, `create_task_from_elf`, `reload_task_from_elf`, `fork_task`, `task_exit`, `task_dead` | called by the system calls; uses paging, the loader, the scheduler |
| system calls (`syscall.c`) | the wait loop a task is suspended in | `sys_fork`, `sys_exit`, `sys_wait`, `sys_waitpid`, `sys_execl`, `sys_write`, `sys_getpid`, `sys_test` | called by user code; may suspend in `schedule()` |
| page allocator (`pmu.c`) | list of runs of free pages, node buffer and bitmap, `count` | `pmu_init`, `pmu_alloc`, `pmu_free` | every part that needs a page |
| address spaces (`mem.c`) | page directories and tables, CR3 | `create_user_page_dir`, `map_physical_page`, `map_physical_page_to_linear`, `copy_page_dir_and_memory`, `free_user_page_dir`, `switch_page_dir` | uses the allocator; called by tasks and loader |
| ELF loader (`elf.c`) | none | `elf_loader` | reads files, allocates and maps pages |
| file system (`fs.c`) | parameters of the partition, static sector buffers | `file_open`, `file_read`, `fs_init` | calls `ata_read` |
| disk (`ata.c`) | registers of the drive | `ata_read`, `ata_write` | polled, no interrupt |
| terminal (`tty.c`) | screen start, cursor, video memory | `tty_write`, `tty_clear` | `sys_write`, `printk` |
| formatting, division, strings (`lib/`) | none | `vsprintf`, `number`, `__udivdi3`, `__umoddi3`, `mem*`, `str*` | everywhere |
| boot loader (`bootsect.S`, `setup.S`, `setupmain.c`) | the file it reads to 0x8000, the range of the kernel | reads the setup program, finds partition, volume and kernel file, loads its segments | leaves its arguments at 0x1000 for `mem_init` |
| interrupts (`init.c`, `idt.c`, `isr.c`, `pic.c`, `timer.c`, `entry.S`) | IDT, masks and registers of the 8259s, IF, the kernel stack in use | `idt_init`, `pic_init`, `pic_enable_irq`, `pic_send_eoi`, the entry points, `isr_spurious_irq`, the panics of `isr.c` | calls the scheduler and the system calls |
| GDT and TSS (`gdt.c`) | descriptors, the TSS | `gdt_init`, `set_tss` | the scheduler copies the TSS of the next task |

What is hard here, and what should hold all the same:

* **Interleaving in wait loops and at ticks.** A task suspended in `sys_wait` or
  `sys_waitpid` holds pointers into lists that other tasks change: they fork, exit,
  are adopted by init, and reap. The lists must stay lists, the pointers valid and
  the loops must end.
* **Three records of one fact.** `state`, membership in `ready_tasks` and
  `current_task` are changed one after the other in functions that call each other
  recursively.
* **Ownership of pages.** Fork, exec and exit build and tear down trees of pages,
  may fail half way, and run partly under the directory that they free.
* **A list in a fixed buffer.** Allocations and frees in any order must keep the runs
  sorted and merged without leaking nodes.
* **Interrupts while they are being set up, and lost ones.** The BIOS leaves the PIT running,
  the 8259s with vectors that collide with those of exceptions, and no line masked; a
  tick that falls into a system call may be lost; a handler that switches never returns.
* **A disk that fails.** Reads time out or fail; some callers test for it and some
  go on with what a static buffer still holds; a drive may come up with the sector of
  a read that the driver has given up.
* **Hand-over at boot.** The loader works in the memory that it fills, from a file whose length it
  learns on the way, and the kernel takes over the pages behind its own end.
* **Boundaries.** A read can begin and end anywhere in a sector, a cluster or the
  file; the screen reaches the end of video memory.
* **Limits.** Task slots, nodes, pages, the pid counter, the width of `pid_t`.

`PROJECT.json` lists each hazard at its line, with the properties that watch it.

## 2. Modules

| module | models | abstract counterpart |
|---|---|---|
| `Boot` | the loader up to a kernel with its own page tables | the kernel file as the disk has it: `RootEntry`, `FileSector`, `Segments` |
| `Interrupts` | set-up of interrupts, 8259s, handlers and switches, instruction by instruction | run queue: `ReadyQueue` |
| `Tasks` | task table, scheduler, system calls | run queue: `ReadyQueue` |
| `TaskList` | operators: the doubly linked list behind `ready_tasks` | the sequence `Linked` |
| `ReadyQueue` | what the run queue promises | |
| `Pmu` | the page allocator with its nodes and bitmap | `PageSet` |
| `PageSet` | a set of free pages, lowest first | |
| `Paging` | address spaces, their construction, copy and release, CR3, the loader | takes pages as `PageSet` does |
| `Ata` | `ata_read` and the drive that it polls | |
| `Fat16` | `fs_init`, lookup of paths and reads of files, over `Ata` | the file tree and the bytes of a file: `Resolve`, `ByteOf` |
| `Division`, `Number`, `Format` | `__udivdi3`, `__umoddi3`; the conversion of numbers; formats and arguments | positional value: `Numeral` |
| `Tty` | the terminal | |
| `Console` | `printk` and `sys_write`: `Format` composed with `Tty` | what a caller asks for: `Wanted` |
| `TasksProofs`, `PmuProofs`, `PagingProofs`, `InterruptsProofs`, `BootProofs` | theorems about the modules they are named after | |
| `Fat16Proofs`, `ConsoleProofs` | theorems about `Fat16` and `Ata`; about `Console`, `Tty`, `Division`, `Number` and `Format` | |
| `Basics` | lemmas that the proofs share: least elements, walks along links, division, sequences without repetition | |
| `MC*` | instances for TLC | |

**Boot.** Memory is counted in sectors, whose contents are a sector of the disk, zeros or a name for
what is there. `LoadSetup` is `bootsect.S`; `TestA20` to `EnterKernel` are the parts of
`setupmain`, with one step per sector, per cluster and per program header; `InitPmu` and `InitPages` are
`mem_init`. Each read may deliver junk instead, `MaxFaults` times.

**Interrupts.** `Boot` walks through `Steps`, the order in which `init` and `scheduler_init` touch
interrupts and tasks. Each handler is entered by `Enter` and consists of the steps of the code
(`TimerHandler`, then `Schedule`, which ends in `Resume`, or the end of a system call). `Executes(m)` is the CPU
about to execute the next instruction of m, which it does only if no interrupt is to be taken first. The
8259s and the PIT are external: `irr`, `imr`, `isr` are their registers, and `latch` tells a controller that
drops a request when its line falls (Bochs, `pic.c:120`) from one that keeps it. Of system calls, what changes
lists and frames is kept: `Fork`, `Execl`, `Exit`, `Wait`, `Return`. `frame` and `context`
mean what they mean in `Tasks`.

**Tasks.** A slot of `task_unions` stands for the `task_struct` in it. One action is
one handler, from the interrupt to the next return or switch, because IF is clear:
`Tick`, `Fork`, `Exit`, `Wait`, `Waitpid`, `Execl`; a wait that suspends is continued by
`WaitAgain`. `Schedule(st, cur)` is `schedule_handler` with the state changes of the
functions it calls; `st` and `cur` are the states and `current_task` that the caller
has left. `Free`, `FirstFree`, `Foremost` are the loops over slots and children. What a
context switch resumes is abstracted to two facts per task: whether
`interrupt_frame` is the frame at the top of the kernel stack or one pushed by
`schedule()` further down, and whether the user context saved at the top has IF set,
clear, or is stale. A panic, a failed assertion or a write through NULL sets
`halted`, after which only `Spin` is possible.

**TaskList.** `task_list_add` and `task_list_remove`, write by write, with the
writes through NULL neighbours kept as writes to a pseudo task. `Interrupts` keeps its ready
tasks in it, and `ImplementsQueue` justifies the sequence that `Tasks` uses.

**Pmu.** Addresses are page numbers. Each call is one action; the four ways in which
`pmu_add_record` can merge are four operators. `FreeTwice` is a caller's mistake, which
the assertions of the function exist for.

**Paging.** The kernel builds an address space page by page: `todo` lists the cells
(directory, tables, frames) in the order in which the code allocates them, `Take` is
one `pmu_alloc` with what follows it up to the next. `Touched` are the pages the
kernel reads and writes through the directory that CR3 holds. A page holds bytes that are leftovers, zero, part of a
table or named by their offset in a file; `Loaded` is the arithmetic of `elf_loader` for one page. `Load` and `StartCopy` open
the two kinds of construction; `Replace`, `Install`, `LoadFails`, `ForkFails` end them. `Exit` frees the running task's space, for which
CR3 goes to the kernel's directory (`mem.c:183`), and `Switch` follows.

**Ata.** The driver is in front of a command or of a sector; the drive is busy, ready,
has a sector, or reports an error. Polling is waiting for the drive to leave "busy",
and `GiveUp` is a poll whose retries are used up while it has not. The drive does not learn of
that: `late` says that a command was written while a sector of another was waiting. The four
actions of the drive are external, taken from how `ata.c` reads its status.

**Fat16.** `FsInit`, `MbrRead` and `VolumeRead` are `fs_init`. A call of `file_open` or `file_read` is a sequence of steps with one `ata_read` between
two of them: `RootRead`, `DirRead`, `Followed` and `DataRead` are what the code does with the result.
`fatbuf` and `dirbuf` are the two static buffers, which keep their contents after a failure
that is ignored. `NextPart` gives `fat_read` the next of the three parts of `file_read` (`ReadPart`); an offset
inside a sector is read from even if no byte is wanted (`fs.c:415`). A sector
stands for its contents, and a byte for its place in a sector. `mishap` is a history of the
call for the properties.

**Division, Number, Format, Tty, Console.** `printk` formats a message and writes it; `sys_write` writes any text.
Each is one step, since both run with IF clear. `vsprintf` goes through the format in `FormatRound`s;
`Conversion` reads what one asks for, and `Converted` takes its argument from the words of the stack. `number`
uses the long division of `math.c`. `Spelling` and `Arguments` are the caller: they write the
message that `Wanted` gives the meaning of. The contents of video memory are reduced to the lines that may hold text, and
`strayed` records what past writes did, as the terminal keeps its promises only for
some writes: whether one deleted before the first cell, left the cursor more than a line away or had it
there on the way, was longer than the cells below the lowest screen, or came back above or from below the screen.

## 3. Runs

| run | question | instance |
|---|---|---|
| `boot` | the loader starts the right kernel or refuses, never overwrites itself or the hardware area, ends; the kernel gets the pages behind it | 672 disks: 4 partition tables, 4 root directories, 6 chains of clusters, kernels that end in 7 places; one failed read; gate A20 closed or open |
| `interrupts` | no early or unexpected interrupt, handlers run through and give their line back, stacks, the linked list is a queue, ticks keep coming | 3 tasks; PIT, keyboard and drive; a controller of either kind |
| `tasks_safety` | run queue, scheduler panics, lists of children, targets of waits, pids, reaping, order of the queue, zombies; ready tasks run, waits return | 4 slots, pids up to 5, every system call |
| `tasks_lost_child`, `tasks_waitpid`, `tasks_fork_context` | three promises of comments that the code does not keep | 3 slots |
| `pmu` | list, pages, nodes and panics of the allocator; it is a set of pages | 7 pages, 3 nodes |
| `paging` | pages are conserved, CR3 is live, spaces are well formed, collisions come from files, segments are loaded as the file has them | 3 tasks, 2 entries per table, pages of 3 bytes, 17 pages of which 16 in the kernel area, 4 files |
| `paging_fork_copy` | a promise of a comment that the code does not keep | the same, a file of two pages |
| `fat16` | `fs_init` finds the right volume or stops, lookups and bytes are right, reads are complete and inside clusters, calls return, with a disk that fails | a volume of 2-sector clusters, directories and files of up to three clusters, two faults |
| `fat16_stale_lookup` | a promise of a comment that the code does not keep | the same, one fault |
| `console` | cursor and characters stay where they belong, formats are read as they were written, numbers are printed as their numerals | 2 lines of 5 in a memory of 4 lines and 4 cells; addresses modulo 64; words of 8 bits |

Each module has one type invariant; in `Tasks`, `Pmu`, `Paging`, `Fat16`, `Tty`, `Console` and `Interrupts` it is the
first conjunct of the structural invariant (`ChildListsSound` in `Tasks`).

Why the bounds suffice. Four slots give init, a parent and two children with a
sibling order, and a slot that is reused after a reaping (pids up to 5 allow a
fourth fork into it); the table can fill up, which is the failure of
`get_free_task_union`. `PidSpace` is the smallest that leaves -1 and the negation
of every pid distinct. The run has one exit code, as no property but `ZombiesKept` depends on codes, and that one
is proved for all of them. Three tasks give a list of two with a running task, and an
empty one; three lines are one in use, one of higher and one of lower priority behind the second chip.
The area for the kernel file holds two clusters and a half, so a chain can fill it to the last
sector; the ends of the kernel lie on boundaries of pages and inside them, inside the area of the first table, on its boundary, in the
first page of the second area and behind it, and where too few pages are left. Seven pages and three nodes let runs
join on both sides, on either and on none, and let the nodes run out, which 1024
nodes do too when every other page is freed. Two entries per table make a stack
spill into the second table. `kernel_area_page_dir_end_index` is
represented by the set `KernelArea`; its last page but one keeps the boundary
between reachable and unreachable pages inside the instance. Three bytes per page let a segment, its part in the file and
the file itself end at the start of a page, inside one and at its end. No symmetry is used,
as slots and pages are ordered. The volume has a directory whose wanted entry is in
its second cluster, a file of three clusters out of order and not full, and another
of the same name elsewhere; two faults are enough for a timeout and the late sector to
meet a failure. The memory of the terminal ends inside a line, as that of the code
does (16384 cells are 204 lines of 80 and 64 cells), so a line can run over the end; it has 4 of 5 cells there, since
the writes that go below the screen and come back need that many to leave a character behind. Words
of 8 bits, of which a `uint64_t` has two, hold numbers whose reversal fits and ones whose does not, in each base;
the values are those at the ends of each size, with its sign. Three partition tables have the first bootable entry
in the second place, a first bootable volume of another kind, and none.

Named bounds: `MaxPid` stops forks (the code's counter is an `int`; section 6), `NR_TASKS`
(100 slots in the code), `ENTRIES` (1024), `PAGE_SIZE` (4096), `NODE_COUNT` (1024), `Total`, `MaxFaults` (the disk of the code may
fail for ever, and then calls still return), `COUNTS` (2^16), `SECT_SIZE` (512), `BITS` (64), `WORD`, `SHORT`, `CHAR` (32, 16, 8),
`PrintAt` (where TLC lets `printk` begin: the first cell), `MemSize` and the addresses of `Boot`, `Garbage` (what a
failed read of the allocation table yields).

Fairness. In `Tasks`, `Tick` and `BootTick` are weakly fair; `Interrupts` is where that comes from
(`TicksKeepComing`): the PIT is fair (`Rise(0)`), the CPU takes an interrupt that it can take and goes on
with the code of the kernel. `WaitAgain` is weakly fair: a resumed wait loop is kernel code that
the CPU executes. Nothing is assumed of programs, which may spin and never issue a
call. A program that `execl` has started runs with IF clear and may keep the CPU for ever: `ReadyTasksRun`,
`WaitersReturn` and `TicksKeepComing` except the behaviours in which one does (`KeepsCpu`), and
only those. On a controller that drops requests, `TicksKeepComing` also excepts a program that is in
a system call at every tick; `Tasks` leaves that controller out. `Fall` takes a handler other than that of
a system call to be shorter than half a period of the PIT, 25 ms. In `Fat16`,
`Step` is code of the kernel and `Disk` a poll: the drive answers or the retries are used
up, both end the poll. In `Boot` the program is alone and the drive becomes ready in the end (`waitdisk`
has no limit; `read_sectors` of `bootsect.S` would wait for ever for DRQ after an error, so faults begin behind it).

## 4. Proofs

`TasksProofs` proves, for every number of slots, every set of exit codes and calls and
every bound on pids:

* `TypeCorrect`: `TypeOK`;
* `RunQueueIsSound`: `RunQueueSound`, and `SchedulerNeverPanics`: `NoSchedulerPanic`;
* `PidsAreUnique`: `PidsUnique`; `ZombiesAreKept`: `ZombiesKept`;
* `RunsInOrder`: `Tasks` implements `ReadyQueue` (`FirstInFirstOut`).

They rest on `Invariance`, the inductive invariant. `RunQueueSound` alone is not
inductive: a fork appends a slot that must not be in the queue, which follows from
`used`; a switch needs that the head of the queue is READY and that `current` is
RUNNING; an exit leaves `current` NULL, and that the queue is then not empty needs that
init is in it, since init never becomes a zombie without halting. The invariant adds these facts
about init and about the states of slots that are in use. The proofs have one
lemma per action, and lemmas on `Tail` and `Append` for the queue.

* `ChildListsAreSound`: `ChildListsSound`, and `WaitTargetsAreValid`: `WaitTargetValid`;
* `OnlyParentsReap`: `ReapedByParent`.

`ChildListsSound` has one direction only: a task in a list is in the table and has the owner of the list as its parent. The converse is
false (`NoChildLost`, section 5). How far it holds is a property of steps, `StayListed` in `ReapedByParent`: a task is listed
from its fork on, and stays listed when lists are spliced, until its slot is given back or a wait reaps a child behind it.

The lists of children have an invariant of their own, `CInv`. That each walk ends, is free of repetitions and
meets only children is not inductive: `task_exit` splices the list of the dying task in front of that of init, and
nothing in `ChildListsSound` says that the walk through the first ends in the last child that `task_exit` finds. `CInv`
says that there are two functions, the owner of the list that a task is in and its place there, with which `child`, `sibling`
and `parent` agree locally. Each action gives new ones: a fork moves the places of one list up by one, an exit
moves those of init up by the length of the spliced list, and a wait that reaps behind others (section 5)
takes those in front out of every list. `Kept` says which places an action keeps, from which `StayListed` follows. What `Walk` computes then follows by induction along the places.

`PmuProofs` proves, for every range of pages and every number of nodes:

* `FreeListAlwaysSound`: `FreeListSound`, `PagesAlwaysConserved`: `PagesConserved`, `BufferAlwaysSuffices`:
  `BufferSuffices`, `NeverAFalseAlarm`: `NoFalseAlarm`;
* `AllocatorIsPageSet`: `Pmu` implements `PageSet` (`ImplementsPageSet`).

`FreeListSound` speaks of the walk from the head, which a step changes as a whole. The invariant says instead what each node
knows (`Linked`: it has a predecessor, and no run lies between it and its successor) and that runs do not even
touch (`Separate`); a step then changes what two nodes know. Section 2 of the module shows once that a walk through such nodes meets all of them
in the order of their addresses. That the buffer suffices counts the gaps between runs: two neighbouring runs have a held page between them.
In the refinement, that the first page of the head is the lowest free one is `Linked` again.

`InterruptsProofs` proves, for every set of tasks and of lines that `LinesAssumption` allows and both kinds of controllers:

* `HandlersRunThrough`: `HandlersComplete`, and `InterruptsAreExpected`: `OnlyExpectedInterrupts`;
* `StacksAreOwn`: `OwnStack`, and `ListStaysLinked`: `WellLinked`;
* `ListIsQueue`: the linked list implements `ReadyQueue` (`ImplementsQueue`).

That the line in service is that of the timer is not inductive: it needs that every
other line stays masked, that the vectors are those of the kernel (`SetUp`), and, for an interrupt during the
set-up, that until the last step no line is heard at all (`QuietBoot`). So the order of the steps of `init`
is part of the invariant. The second half rests on `Holds(l, s)`, that the links of l spell the sequence s: `task_list_add`
and `task_list_remove`, write by write, turn a list that holds s into one that holds s with a task appended or removed. With it, `TInv`
follows the running task, its stack and the TSS. That the scheduler finds a task needs that `init_task` is running or ready
from the fifth step of the set-up on.

`BootProofs` proves, for every layout that `LayoutAssumption` allows, every disk of
`DisksAssumption` (which says that the segments of a kernel file lie above 1 MB, as `link.ld` puts them, and have no more data than
memory, as in every ELF file: `setupmain.c:204` copies `filesz` bytes whatever `memsz` is), and every number of failed reads:

* `LoaderStaysIntact`: `LoaderIntact`. The
  invariant adds where the pointer of the file is in each stage, and that memory outside the area of the file
  has what the loader put there.
* `HandoverIsSafe`: `HandoverSafe`. `HInv` follows the end of the kernel along the loop over the program headers
  (`EndsAt`) and through the argument area to `mem_init`; the rest is arithmetic: rounding up to pages leaves nothing out and takes nothing
  too much, and `end_index` (`mem.c:292`) ends with the area of the last unit of the kernel (`AreaCovers`), except for a kernel that ends in the
  first page of an area, for which it may end one area earlier. Kernels that cross an area anywhere else are not excepted.
* `KernelIsRight`: `KernelRight`, for disks that `VolumesAssumption` allows. `KInv` says how far the loader is, as long
  as no read failed: in the root directory no entry of the sectors behind is a kernel; while the file is read, there
  is a number c of clusters of its chain that have a meaning and are in memory, one after the other (`FileRead`); over the program
  headers, the segments behind are in place (`Placed`) and the lowest address of them is kept (`StartsAt`, beside `EndsAt`). That they stay
  there needs that segments are apart and above the area of the file, and the page tables behind them.
  That the loader refuses a disk that has a kernel is excluded stage by stage: each error without a fault shows
  that `Bootable` is false, of the file too large for its area because no shorter chain ends (`NoRoom`). The
  chain is a function on all numbers, which has to be shown to exist (`OrbitSteps` in `Basics`).

`PagingProofs` proves, for every number of tasks, pages, programs and entries of a table:

* `PagesAreConserved`: `PagesConserved`, and `DirectoryStaysLive`: `DirectoryLive`;
* `SpacesStayWellFormed`: `SpacesWellFormed`, and `OnlyImagesCollide`: `CollisionsFromImages`;
* `ImageIsLoaded`: `ImageLoaded`.

The first two share the invariant `IInv`. That a space is installed without losing an older one needs
that its owner has none in the phase `stack` (`Construction`): in a fork because the slot was free, in an exec
because `Replace` freed the old one. That CR3 never holds a freed directory needs who runs on it in each phase
(`Directories`): the running task while it loads, nobody for certain while it copies, the parent again or nobody afterwards. There is
one lemma per action; four lemmas say how a take, a free, a drop and an install move
pages, and `LowestIsFree` that `pmu_alloc` hands out a free one.
The next two rest on `SInv`, about the cells that are built and those still in `todo`: together they hold a table for each frame, and never a cell
twice, unless segments share a page. A program is planned below directory entry 1 only, so the stack, below entry 0, finds its
cell free. The last rests on `Filled`: while a program is loaded, each byte of its segments is
in a page already as the file has it, or in one that is still to be taken. That a byte lands once and in the page that `elf_loader` maps
for it is the arithmetic of section 4 of the module.

`ConsoleProofs` proves, for every size of screen and video memory and writes of any characters and length (`TtySpec`):

* `CursorStaysOnScreen`: `CursorOnScreen`, `WritesStayInside`: `WritesInside`, `FreshLinesScrollIn`: `FreshLines`.

Positions are compared by their lines. `Reached` says how far down the characters of a write have come after each of
them, and the invariant `Steady` that the writes so far kept the cursor on the screen. The proof changed two properties,
which held in a smaller instance and are false in general: with four cells below the lowest screen, a write
that goes two lines down and comes back by DEL sets a character outside, and one that comes back by BS and DEL
from the end of the bottom line leaves a character in the line that scrolls in. `far` and `back` in `strayed` name
these, and the run has a screen and texts in which they happen. `PrintingKeepsTerminal` says the same of `Console`, where
`printk` formats what is written.

For every width of a `uint64_t`, number and divisor:

* `DivisionIsRight`: `__udivdi3` and `__umoddi3` compute quotient and remainder. The invariant of the loop is `Halfway`: after k
  bits, these are quotient and remainder of the number that the bits make. It shows that the remainder never needs the bit
  that `remain << 1` shifts out (`math.c:31`, `72`).
* `NumeralsAreRight`: `reverse_uint` counts the digits of any number, and `number` prints the numeral from its result if a number
  has room for it reversed. `Spells` says that the result has the last digits of the number in the other order; this is kept by each
  round, and read back by `Digits`.

And for every set of messages with legal parts (`MessagesAssumption`), all texts and all widths of the words:

* `NumbersArePrintedRight`: `NumberRight`. The reference `Wanted` knows nothing of formats; `Spelling` and `Arguments` write a part as
  its caller would, and `vsprintf` has to find it there. `Stands(q, i, s)` says that s is in q from place i on.
  `SpellingParts` and `ArgumentsParts` say where the flags, width, precision, size, type and words of a part stand,
  `ConversionIs` that `Conversion` reads them, up to the first character behind (`Count` and `skip_atoi` stop where
  they should, as no width begins with a "0" that would be a flag), `ReadValue` that the argument is taken from the right words with its size and sign,
  and `PrintedNumber` what `number` makes of it. `MessagePrinted` puts these together: the rounds of
  `vsprintf` reach, behind each part, the character, the word and the output (`Spot`) that the parts before
  it make. The length is right for every number, since `NumeralsAreRight` counts the digits without a condition; the digits are for
  the numbers that `Covered` names, whose reversal fits (`PowerFits`).

`Fat16Proofs` proves, for every caller of the driver:

* `SectorsAreRight`: `RightSectors` (`AtaSpec`). The invariant adds that the drive will next transfer the sector
  that follows those already read (`InStep`). `Fat16` is one such caller: it changes the variables of the driver
  only by `AtaCall` and `AtaNext`.

and for every consistent volume (`VolumeAssumption`), every geometry, every offset and size of reads and every number of faults:

* `ReadsAreRight`: `ReadRight`;
* `ClustersAreLegal`: `LegalClusters`, and `ReadsStayInside`: `ReadsInsideClusters`;
* `OpensAreRight`: `OpenRight`, for every tree of directories.

The invariant has the layers of the code. `CallInv` says which sectors the driver was asked for in each `pc` and how many are
left. `Undisturbed` says that no call of `fs_init` follows on one that was given up; without it a late sector could
stand for the volume. It holds since a read that fails in `fs_init` leads to a panic and not to another read. `WalkInv` says that the chain
is in use up to the offset looked for (`Covered`), and that `cur` and `off` are at that offset of it
(`Reached`): this is why the code may leave out the check of each cluster, and it rests on the chain of a
file being as long as its size asks for. `ReadInv` says that the bytes in `data`
continue those in `out` and are completed by `need` to the part that `file_read` has asked for; the cases are those of
`file_read` (inside a sector, whole sectors, the last sector), and the arithmetic of sectors, clusters and
parts is in lemmas.

`OpenRight` has an invariant of its own, `OInv`, which is inductive together with the other: of the names of the path, those before the next one have
led to the directory that is searched, to it alone if names are unique (`Leads`, where `Levels` has the entries that each
further name leads to), and the sectors of it before `index` do not have the name (`SearchRoot`, `NoneBefore`). So what is found next is where the path leads, and when
the sectors of the root or the chain of a directory are used up, nothing is. That the chain is used up only after all sectors that
belong to the directory is the arithmetic of clusters and sectors again (`NotHere`, `AllBefore`). The reference
`Sectors` follows a chain for as many steps as there are clusters; that this reaches every sector the code can read is a
pigeonhole argument (`ShortChain`). `OpenRight` says that a lookup fails only for a path that names nothing under the
condition that no name is twice in a directory (`UniqueNames`): the code goes on with the first of two and does
not come back to the second. The volumes of the run meet it.

The provers have no induction over data: the library's theorems take an operator as a parameter. `Basics` does without: a set of
numbers without a least element is empty (`LeastOf`, from the well-founded order of the numbers), and a statement that passes from k
to k + 1 holds up to N since the least counterexample has a predecessor (`Upwards`). The same argument shows that a
recursive function of a walk or a write exists and obeys its equation (`TrailSteps`, `StepsExist`, `PiecesExist`).

The assumptions are those of the modules on their constants, which TLC evaluates in each run. Those that say more than the
type of a constant: `InitTaskAssumption`, `TaskAssumption` and `NullAssumption` (`NULL` is no task), `LayoutAssumption` (the places of the boot loader lie in the
order of `setup.S` and `setupmain.c`), `DisksAssumption` (above), `VolumesAssumption` (clusters
have sectors, a root directory consists of full sectors and entries below `RESERVED` of the allocation table are numbers; the segments
of a kernel file, one at least, are apart and inside memory, as `link.ld` places them), `ImagesAssumption` of `Paging`
(segments end within the first table's area), `AtaAssumption` (a
count of sectors can be 1), `TtyAssumption` (the screen fits into video memory, which is less than half of the addresses),
`WidthAssumption` (a `char` is shorter than a `short`, that than a word, and a `uint64_t` has two words),
`MessagesAssumption` (what callers of `printk` pass: a value that its size holds, a width and a precision that an `int` holds and that
are written into the format only if they are not negative, text without "%" or NUL) and
`VolumeAssumption` (an entry and a cluster in use name a cluster in use or none, and the chain of a file is as
long as its size).

Model-checked only: the liveness properties (`BootEnds`, `TicksKeepComing`, `ReadyTasksRun`, `WaitersReturn`, `CallsReturn`), as
liveness under fairness and ENABLED are out of this prover's reach. Each safety invariant, action property and
refinement that a passing run checks is a theorem.

## 5. Disagreements between comments and code

Each is a run in which TLC finds a counterexample.

* `NoChildLost` (`syscall.c:107`, `201`): reaping a child drops those in front of it from
  the list of the parent.
* `WaitpidNamesChild` (`syscall.c:129`): `pid_t` is unsigned, so `waitpid(n)` looks for -n.
* `ForkCopiesContext` (`task.c:194`): fork copies what `interrupt_frame` points to, which
  after a suspended wait is no live frame.
* `ForkCopiesMemory` (`mem.c:157`): every page of the child gets the contents of the first
  entry of its table.

* `OpenFindsPath` (`fs.c:192`, `249`): after a read of a directory that failed, the entry of
  another directory is found in the static buffer and returned.

## 6. Behaviour that the models have and no run singles out

* `execl` stores the EFLAGS of the handler (`task.c:60`), in which IF is clear: the
  new image cannot be preempted, while `pic.c:119` speaks of IRET restoring IF. `ReadyTasksRun`,
  `WaitersReturn` and `TicksKeepComing` except it by name (`KeepsCpu`).
* A fork with a full table writes through NULL (`syscall.c:39`), while `usr/init.c:9`
  tests for -1.
* `pmu_alloc` panics without a page (`pmu.c:145`); its comment (`pmu.c:139`) and the
  tests of its callers expect 0.
* Pages above the kernel area are written at their physical address under the
  directory of a task (`mem.c:26`, `elf.c:71`), which maps only the kernel area: `Paging` stops
  with "wild" there.
* Each fork maps a stack page that its copied context never uses (`task.c:51`), so
  each generation takes one page more.
* The pid counter is never reset (`task.c:91`).
* `elf_loader` ignores the result of `file_read` (`elf.c:71`, FIXME at `elf.c:14`): a program whose file ends too early runs with what
  its pages held before. `ImageLoaded` is about the bytes that the file has.
* An exception of user code stops the kernel (`isr.c`): "exception" in `Interrupts`.
* On a controller that drops requests, a program that is in a system call at every tick outruns the timer
  (`pic.c:117`); `TicksKeepComing` excepts it.
* A kernel file whose chain of clusters ends too early is started with junk behind it (`setupmain.c:154`), and the
  loader ignores read errors (`setupmain.c:278`); `KernelRight` has both as conditions.
* The name of the kernel is compared by prefix (`setupmain.c:119`).
* `kernel_area_page_dir_end_index` leaves out the last table's area of a kernel that ends in the first page of it
  (`mem.c:292`); `HandoverSafe` excepts such kernels, and no others.
* A command is written when BSY and DRDY allow it (`ata.c:94`), without a look at DRQ, although
  `ata.c:23` says that the status must be examined further. `RightSectors`, `OpenRight` and
  `ReadRight` set the calls aside in which this happens.
* A failed read of the allocation table is ignored (`fs.c:113`); `ReadRight` is conditional on it too.
* A name of more than twelve characters in a path stops the kernel (`fs.c:42`).
* On a volume whose chain of a directory has a cycle, the lookup of an absent name never ends
  (`fs.c:235`); the assumptions of `Fat16` describe a consistent volume.
* A write that goes on by several lines scrolls by one (`tty.c:156`); DEL before the first cell
  wraps the cursor round (`tty.c:141`); a line that runs over the end of the lowest screen is
  set outside video memory, as the FIXME at `tty.c:114` says (`WritesInside` has the condition).
* `reverse_uint` overflows for large numbers (`vsprintf.c:73`); `NumberRight` is about numbers of
  half the width, every 32-bit value. `LEFT` and `ZEROPAD` together add zeros behind a number.

## 7. Not modelled

* Of the boot loader: the change to protected mode, the messages, the port reads of `detect_memory`, the LBA28
  limit in `readsect`, and the wait for DRQ of `bootsect.S`, which an error would make endless.
* Of the descriptors (`gdt.c`, `idt.h`): their layout; the TSS is the task whose kernel stack it names. User and kernel selectors.
* `DEBUG` builds: `DEBUGK` in the naked `isr_spurious_irq` would use registers that nothing has saved.
* `sys_write` is in `Console`; `sys_getpid` and `sys_test` change no state of the modelled parts.
* Attributes of pages (user, writable); a segment in the kernel area, which panics (`mem.c:92`); a read of the disk that fails while a
  program is loaded. That `kernel_page_init` does not clear the tables it takes.
* In the file system, the comparison of 8.3 names character by character: names are values. `ata_write` has no caller.
* Of `vsprintf`, a format that ends inside a conversion, behind whose end the loop reads on, and the end of the
  buffer, both of which its FIXMEs and callers leave to the caller.
* `string.c` is used through what its functions do; user programs are any sequence of system calls; build and
  image scripts run on the host.

## 8. Plan

Done: `ReadyQueue`, `Tasks`, `TaskList`, `PageSet`, `Pmu`, `Paging`, `Ata`, `Fat16`, `Division`,
`Number`, `Format`, `Tty`, `Console`, `Interrupts`, `Boot`, and the proofs of section 4. What could be added next:

1. `ata_write` and the writing half of the file system, once the code has a caller for them.
2. `Paging` with the write attribute of pages, once a fork copies what it should (`ForkCopiesMemory`).
