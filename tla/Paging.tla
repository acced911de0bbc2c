------------------------------- MODULE Paging -------------------------------
(***************************************************************************)
(* Address spaces: page directories, page tables and the frames they map   *)
(* (kernel/mem.c), and the operations of kernel/task.c and kernel/elf.c    *)
(* that build, copy and free them.                                         *)
(*                                                                         *)
(* An address space is a function from its cells (the directory, a table,  *)
(* a mapped frame) to physical pages.  The kernel builds one page by page, *)
(* and pages come from the set of free pages that Pmu implements.  While   *)
(* it builds, no other task runs; a page is read and written at its        *)
(* physical address, through whatever directory CR3 holds at that time:    *)
(* the kernel's own maps every page, that of a task only the kernel area.  *)
(***************************************************************************)
EXTENDS Naturals, Sequences, FiniteSets

CONSTANTS
  Task,        (* slots of the task table                                  *)
  init_task,
  Page,        (* physical pages of the allocator                          *)
  KernelArea,  (* the pages that every directory maps at their address     *)
  Images,      (* program files: the segments that are loaded, the size of *)
               (* the file, and whether the header has an entry point      *)
  ENTRIES,     (* entries of a page table (1024)                           *)
  PAGE_SIZE,   (* bytes of a page (4096)                                   *)
  NULL         (* the kernel's page directory in CR3; no task              *)

Area == {0, 1}        (* directory entries for users: stacks and programs  *)
Dir         == <<"dir">>
Tab(i)      == <<"tab", i>>
Frame(i, j) == <<"frame", i, j>>
Frames      == {Frame(i, j) : i \in Area, j \in 0 .. ENTRIES - 1}
Cell        == {Dir} \cup {Tab(i) : i \in Area} \cup Frames

ASSUME TaskAssumption == init_task \in Task /\ NULL \notin Task
ASSUME PageAssumption ==
  Page \subseteq Nat \ {0} /\ KernelArea \subseteq Page /\ NULL \notin Page
ASSUME EntriesAssumption == ENTRIES \in Nat \ {0} /\ PAGE_SIZE \in Nat \ {0}

(* A program header with PT_LOAD that occupies memory; addresses count from  *)
(* the start of the area of programs                                        *)
Segment == [vaddr : Nat, offset : Nat, filesz : Nat, memsz : Nat \ {0}]

ASSUME ImagesAssumption ==
  /\ Images \subseteq [segs : Seq(Segment), size : Nat, entry : BOOLEAN] /\ NULL \notin Images
  /\ \A img \in Images : \A k \in DOMAIN img.segs :
       img.segs[k].vaddr + img.segs[k].memsz <= ENTRIES * PAGE_SIZE

VARIABLES
  free,      (* the pages of the allocator                                 *)
  space,     (* page_dir of each task and what it maps                     *)
  data,      (* the bytes of each page                                     *)
  zombies,   (* exited tasks that still have their slot                    *)
  cr3,
  running,   (* the task that runs or whose system call runs               *)
  phase,     (* what the kernel does, "user" when it does nothing          *)
  image,     (* the file being loaded, NULL in a fork                      *)
  building,  (* the address space under construction                       *)
  owner,     (* the task that gets it                                      *)
  todo,      (* the cells it needs next, in order of their allocation      *)
  halted

work == <<image, building, owner, todo>>
vars == <<free, space, data, zombies, cr3, running, phase, work, halted>>

NoSpace == [c \in {} |-> 0]
Pages(s) == {s[c] : c \in DOMAIN s}
(* A byte: unknown leftovers, zero, part of a table, or one of a file        *)
Old == 0
Zero == 1
Entry == 2
FileByte(o) == 3 + o
OldPage   == [x \in 0 .. PAGE_SIZE - 1 |-> Old]
TablePage == [x \in 0 .. PAGE_SIZE - 1 |-> Entry]

Live == {t \in Task : space[t] # NoSpace}
Phases == {"boot", "user", "create", "copy", "load", "stack", "exit"}
Halts  == {"no", "no_page", "mapped", "wild", "fork_null", "no_entry", "no_init"}

TypeOK ==
  /\ free     \subseteq Page
  /\ \A t \in Task : DOMAIN space[t] \subseteq Cell /\ Pages(space[t]) \subseteq Page
  /\ zombies  \subseteq Task \ {init_task}
  /\ cr3      \in Page \cup {NULL}
  /\ running  \in Task \cup {NULL}
  /\ phase    \in Phases
  /\ image    \in Images \cup {NULL}
  /\ DOMAIN building \subseteq Cell /\ Pages(building) \subseteq Page
  /\ owner    \in Task \cup {NULL}
  /\ todo     \in Seq(Cell)
  /\ halted   \in Halts

-----------------------------------------------------------------------------
(***************************************************************************)
(* The order in which the loops over a directory and its tables visit the  *)
(* cells below it, and those of S in this order.                           *)
(***************************************************************************)
InOrder ==
  [k \in 1 .. 2 * (ENTRIES + 1) |->
     LET i == (k - 1) \div (ENTRIES + 1)
         j == (k - 1) % (ENTRIES + 1)
     IN  IF j = 0 THEN Tab(i) ELSE Frame(i, j - 1)]

Chosen(S) ==
  LET upTo[k \in 0 .. 2 * (ENTRIES + 1)] ==
        IF k = 0 THEN << >>
        ELSE upTo[k - 1] \o (IF InOrder[k] \in S THEN <<InOrder[k]>> ELSE << >>)
  IN  upTo[2 * (ENTRIES + 1)]

(* copy_page_dir_and_memory: a table and a frame for each one of the source *)
CopyCells(s) == Chosen(DOMAIN s)

(* elf_loader: a frame for each page of a segment, and the table, which is   *)
(* allocated when the first frame is mapped                                 *)
FirstPage(seg) == seg.vaddr \div PAGE_SIZE
LastPage(seg)  == (seg.vaddr + seg.memsz - 1) \div PAGE_SIZE
PagesOf(seg)   == FirstPage(seg) .. LastPage(seg)

LoadPages(img) ==
  LET upTo[k \in 0 .. Len(img.segs)] ==
        IF k = 0 THEN << >>
        ELSE upTo[k - 1] \o [i \in 1 .. Cardinality(PagesOf(img.segs[k])) |->
                               FirstPage(img.segs[k]) + i - 1]
  IN  upTo[Len(img.segs)]

LoadCells(img) ==
  LET pages == LoadPages(img)
      frames == [k \in DOMAIN pages |-> Frame(1, pages[k])]
  IN  IF frames = << >> THEN << >> ELSE <<Head(frames), Tab(1)>> \o Tail(frames)

(***************************************************************************)
(* What elf_loader writes into the frame of page j of a segment: write_size  *)
(* bytes from the offset of v_addr on, those from the file that it still     *)
(* has (file_read stops at the end of the file), and zeros behind them.      *)
(***************************************************************************)
Min2(a, b) == IF a <= b THEN a ELSE b

VAddr(seg, j) == IF j = FirstPage(seg) THEN seg.vaddr ELSE j * PAGE_SIZE
WriteSize(seg, j) ==
  Min2(seg.vaddr + seg.memsz - VAddr(seg, j), PAGE_SIZE - (VAddr(seg, j) % PAGE_SIZE))

NotAdvanced(seg, j) == 0

WriteBytes(seg, j) ==
  LET before[i \in FirstPage(seg) .. j] ==
        IF i = FirstPage(seg) THEN 0 ELSE before[i - 1] + WriteSize(seg, i - 1)
  IN  before[j]

Loaded(img, seg, j) ==
  LET from  == VAddr(seg, j) % PAGE_SIZE
      write == WriteBytes(seg, j)
      read  == IF write < seg.filesz THEN Min2(WriteSize(seg, j), seg.filesz - write) ELSE 0
      at(x) == seg.offset + write + x - from
  IN  [x \in 0 .. PAGE_SIZE - 1 |->
         IF x < from \/ x >= from + WriteSize(seg, j) THEN Old
         ELSE IF x >= from + read THEN Zero
         ELSE IF at(x) < img.size THEN FileByte(at(x)) ELSE Old]

(* init_task_stack: a frame at the first unmapped user address, and the     *)
(* table when that is the first of its area                                *)
AllFrames(s) == Chosen(Frames)

Unmapped(s) == Chosen(Frames \ DOMAIN s)
FrameOnly(s) == <<Head(Unmapped(s))>>

StackCells(s) ==
  LET f == Head(Unmapped(s))
  IN  IF Tab(f[2]) \in DOMAIN s THEN <<f>> ELSE <<f, Tab(f[2])>>

Lowest(S) == CHOOSE a \in S : \A b \in S : a <= b

Init ==
  /\ free = Page
  /\ space = [t \in Task |-> NoSpace]
  /\ data = [a \in Page |-> OldPage]
  /\ zombies = {}
  /\ cr3 = NULL /\ running = NULL
  /\ phase = "boot"
  /\ image = NULL /\ building = NoSpace /\ owner = NULL /\ todo = << >>
  /\ halted = "no"

(***************************************************************************)
(* The next page for the space under construction.  The directory, a table *)
(* and a frame that is filled are written at once; a frame is mapped by    *)
(* writing its table.  Under the directory of a task only the kernel area  *)
(* is mapped at its own address: any other access faults or hits a page of *)
(* that task, and the model stops.                                         *)
(***************************************************************************)
TablesOf(c) == {b \in DOMAIN building : b = Dir \/ (c # Dir /\ b = Tab(c[2]))}
Touched(c, a) ==
  (IF phase = "stack" /\ c \in Frames THEN {} ELSE {a}) \cup {building[b] : b \in TablesOf(c)}

Reachable(S) == cr3 = NULL \/ S \subseteq KernelArea

(* In a copy, the frame that a cell's contents come from: the source        *)
(* pointer is that of the table, so it is the first entry of the table.     *)
FirstEntry(s, c) == Frame(c[2], 0)

Contents(c) ==
  CASE c \notin Frames                   -> TablePage
    [] c \in Frames /\ phase = "copy"    ->
         LET s == space[running] IN
         IF FirstEntry(s, c) \in DOMAIN s THEN data[s[FirstEntry(s, c)]] ELSE OldPage
    [] c \in Frames /\ phase = "load"    ->
         LET k == CHOOSE k \in DOMAIN image.segs : c[3] \in PagesOf(image.segs[k])
         IN  Loaded(image, image.segs[k], c[3])
    [] c \in Frames /\ phase = "stack"   -> OldPage

Taking == halted = "no" /\ phase \notin {"boot", "user", "exit"} /\ todo # << >>

Take ==
  /\ Taking /\ free # {}
  /\ LET a == Lowest(free)
         c == Head(todo)
     IN  /\ c \notin DOMAIN building
         /\ Reachable(Touched(c, a))
         /\ free' = free \ {a}
         /\ building' = [b \in DOMAIN building \cup {c} |-> IF b = c THEN a ELSE building[b]]
         /\ data' = [data EXCEPT ![a] = Contents(c)]
  /\ todo' = Tail(todo)
  /\ UNCHANGED <<space, zombies, cr3, running, phase, image, owner, halted>>

(* pmu_alloc panics, a page is mapped twice, or the access goes wild. *)
TakeFails ==
  /\ Taking
  /\ \/ free = {} /\ halted' = "no_page"
     \/ free # {} /\ Head(todo) \in DOMAIN building /\ halted' = "mapped"
     \/ /\ free # {} /\ Head(todo) \notin DOMAIN building
        /\ ~Reachable(Touched(Head(todo), Lowest(free))) /\ halted' = "wild"
  /\ UNCHANGED <<free, space, data, zombies, cr3, running, phase, work>>

(* free_user_page_dir: the frames, the tables and the directory *)
TablesLeaked(s) == free \cup {s[c] : c \in DOMAIN s \cap (Frames \cup {Dir})}

Freed(s)  == free \cup Pages(s)
Forget(s) == data' = [a \in Page |-> IF a \in Pages(s) THEN OldPage ELSE data[a]]
Rest == phase' = "user" /\ image' = NULL /\ owner' = NULL /\ todo' = << >>

Done(p) == halted = "no" /\ phase = p /\ todo = << >>

-----------------------------------------------------------------------------
(***************************************************************************)
(* Every construction starts with create_user_page_dir: of the init task,  *)
(* of the new image of the running task, of a child.                       *)
(***************************************************************************)
Create(img, t) ==
  /\ halted = "no"
  /\ phase' = "create"
  /\ image' = img /\ owner' = t
  /\ building' = NoSpace /\ todo' = <<Dir>>
  /\ UNCHANGED <<free, space, data, zombies, cr3, running, halted>>

BootInit  == phase = "boot" /\ \E img \in Images : Create(img, init_task)
StartExec == phase = "user" /\ running # NULL /\ \E img \in Images : Create(img, running)
StartFork == phase = "user" /\ running # NULL /\ Create(NULL, NULL)

Load ==
  /\ Done("create") /\ image # NULL
  /\ phase' = "load" /\ todo' = LoadCells(image)
  /\ UNCHANGED <<free, space, data, zombies, cr3, running, image, building, owner, halted>>

(* copy_page_dir_and_memory runs under the kernel's directory ... *)
StartCopy ==
  /\ Done("create") /\ image = NULL
  /\ phase' = "copy" /\ todo' = CopyCells(space[running])
  /\ cr3' = NULL
  /\ UNCHANGED <<free, space, data, zombies, running, image, building, owner, halted>>

(* ... and restores the one it found.  create_task then takes a slot. *)
FreeSlots == {t \in Task : t \notin Live \cup zombies}

EndCopy ==
  /\ Done("copy")
  /\ cr3' = space[running][Dir]
  /\ \E t \in FreeSlots : owner' = t
  /\ IF Unmapped(building) = << >>
     THEN halted' = "no_entry" /\ UNCHANGED <<phase, todo>>
     ELSE phase' = "stack" /\ todo' = StackCells(building) /\ UNCHANGED halted
  /\ UNCHANGED <<free, space, data, zombies, running, image, building>>

(* Without one everything is freed, fork_task returns NULL and sys_fork      *)
(* writes through it.                                                       *)
ForkFails ==
  /\ Done("copy") /\ FreeSlots = {}
  /\ cr3' = space[running][Dir]
  /\ free' = Freed(building) /\ Forget(building)
  /\ building' = NoSpace
  /\ halted' = "fork_null" /\ Rest
  /\ UNCHANGED <<space, zombies, running>>

(***************************************************************************)
(* A file that is missing, is not ELF or has no entry point: what has been *)
(* loaded is freed.  For init that is a panic.                             *)
(***************************************************************************)
LoadFails ==
  /\ Done("load") /\ ~image.entry
  /\ free' = Freed(building) /\ Forget(building)
  /\ building' = NoSpace
  /\ halted' = IF running = NULL THEN "no_init" ELSE "no"
  /\ Rest
  /\ UNCHANGED <<space, zombies, cr3, running>>

(* The new image is complete.  exec frees the old one, which CR3 still holds, *)
(* so that the kernel's directory is loaded, and then maps a stack.           *)
Cr3Kept(s) == cr3
Cr3After(s) == IF Dir \in DOMAIN s /\ cr3 = s[Dir] THEN NULL ELSE cr3

Replace ==
  /\ Done("load") /\ image.entry
  /\ free' = Freed(space[owner]) /\ Forget(space[owner])
  /\ cr3' = Cr3After(space[owner])
  /\ space' = [space EXCEPT ![owner] = NoSpace]
  /\ phase' = "stack" /\ todo' = StackCells(building)
  /\ UNCHANGED <<zombies, running, image, building, owner, halted>>

(* The stack is mapped: the space belongs to its task, and an exec loads it. *)
Install ==
  /\ Done("stack")
  /\ space' = [space EXCEPT ![owner] = building]
  /\ building' = NoSpace
  /\ cr3' = IF owner = running THEN building[Dir] ELSE cr3
  /\ Rest
  /\ UNCHANGED <<free, data, zombies, running, halted>>

(***************************************************************************)
(* task_exit, which frees the space that CR3 holds, so that the kernel's   *)
(* directory is loaded first; context_switch_to, behind it, at a tick or   *)
(* in a wait loop; and the reaping of the zombie, which concerns its slot  *)
(* only.                                                                   *)
(***************************************************************************)
Exit ==
  /\ halted = "no" /\ phase = "user"
  /\ running # NULL /\ running # init_task
  /\ free' = Freed(space[running]) /\ Forget(space[running])
  /\ cr3' = Cr3After(space[running])
  /\ space' = [space EXCEPT ![running] = NoSpace]
  /\ zombies' = zombies \cup {running}
  /\ phase' = "exit"
  /\ UNCHANGED <<running, work, halted>>

Switch(t) ==
  /\ halted = "no" /\ phase \in {"user", "exit"} /\ t \in Live
  /\ running' = t /\ cr3' = space[t][Dir]
  /\ phase' = "user"
  /\ UNCHANGED <<free, space, data, zombies, work, halted>>

Reap(t) ==
  /\ halted = "no" /\ phase = "user" /\ t \in zombies
  /\ zombies' = zombies \ {t}
  /\ UNCHANGED <<free, space, data, cr3, running, phase, work, halted>>

Spin == halted # "no" /\ UNCHANGED vars

Next ==
  \/ BootInit \/ StartExec \/ StartFork
  \/ Take \/ TakeFails
  \/ Load \/ LoadFails \/ Replace
  \/ StartCopy \/ EndCopy \/ ForkFails
  \/ Install
  \/ Exit
  \/ \E t \in Task : Switch(t) \/ Reap(t)
  \/ Spin

Spec == Init /\ [][Next]_vars

-----------------------------------------------------------------------------
Injective(s) == \A b, c \in DOMAIN s : s[b] = s[c] => b = c

(* Every page is free or has one use: one cell of one address space or of    *)
(* the one under construction.  No page is shared between tasks, and forks,  *)
(* exits and execs, also those that fail after loading half a program, give  *)
(* back exactly what they took.                                             *)
PagesConserved ==
  halted = "no" =>
    /\ free \cup Pages(building) \cup UNION {Pages(space[t]) : t \in Task} = Page
    /\ Injective(building) /\ \A t \in Task : Injective(space[t])
    /\ free \cap Pages(building) = {}
    /\ \A t \in Task : Pages(space[t]) \cap (free \cup Pages(building)) = {}
    /\ \A t, u \in Task : t # u => Pages(space[t]) \cap Pages(space[u]) = {}

(* CR3 never holds a directory that has been freed, also between the steps   *)
(* of exec and exit, and user code runs in its own address space.            *)
DirectoryLive ==
  halted = "no" =>
    /\ cr3 = NULL \/ \E t \in Live : cr3 = space[t][Dir]
    /\ phase = "user" /\ running # NULL => cr3 = space[running][Dir]

(* A directory that a task runs with has a table for every frame it maps.    *)
SpacesWellFormed ==
  /\ TypeOK
  /\ \A t \in Live :
       /\ Dir \in DOMAIN space[t]
       /\ \A i \in Area, j \in 0 .. ENTRIES - 1 :
            Frame(i, j) \in DOMAIN space[t] => Tab(i) \in DOMAIN space[t]
       /\ \E i \in Area, j \in 0 .. ENTRIES - 1 : Frame(i, j) \in DOMAIN space[t]

SegmentsCollide(img) ==
  \E k, l \in DOMAIN img.segs :
    k # l /\ PagesOf(img.segs[k]) \cap PagesOf(img.segs[l]) # {}

(* "Linear address has been mapped" accuses only a program whose segments    *)
(* share a page: the stack and the copies never collide with anything.       *)
CollisionsFromImages ==
  halted = "mapped" =>
    phase = "load" /\ SegmentsCollide(image)

(* "Load the program of the ELF file into memory" (elf.c:10): each byte of a *)
(* segment has what the file has for it or, behind filesz, zero, wherever    *)
(* the segment begins and ends in its pages; it is kept from its page being  *)
(* written to the return to user code.                                      *)
ImageLoaded ==
  phase \in {"load", "stack"} /\ image # NULL /\ ~SegmentsCollide(image) =>
    \A k \in DOMAIN image.segs :
      LET seg == image.segs[k] IN
      \A i \in 0 .. seg.memsz - 1 :
        LET a == seg.vaddr + i
            f == Frame(1, a \div PAGE_SIZE)
            b == data[building[f]][a % PAGE_SIZE]
        IN  f \in DOMAIN building =>
              IF i >= seg.filesz THEN b = Zero
              ELSE seg.offset + i < image.size => b = FileByte(seg.offset + i)

(* "Copy the page directory and the data of the memory it maps" (mem.c:118):  *)
(* the pages of a child hold what the pages of its parent hold.              *)
ForkCopiesMemory ==
  phase = "copy" => \A c \in DOMAIN building \cap Frames :
                      data[building[c]] = data[space[running][c]]
=============================================================================
