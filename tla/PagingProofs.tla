---------------------------- MODULE PagingProofs ----------------------------
(***************************************************************************)
(* Theorems about Paging, for every set of tasks, pages and images and     *)
(* every size of pages and page tables.                                    *)
(*   1. No page is lost, shared or given back twice, and CR3 never holds a *)
(*      directory that has been freed.  Both need to know whose space is   *)
(*      under construction in each phase: that its owner has no other one  *)
(*      when it is installed, that it has its directory by then, and that  *)
(*      a call that fails returns to a task whose directory CR3 holds.     *)
(*   2. The cells that a construction asks for.                            *)
(*   3. Address spaces are well formed and only images collide: an          *)
(*      invariant about the cells that are built and planned.               *)
(*   4. The arithmetic of elf_loader.                                      *)
(*   5. Programs are in memory as the file has them.                       *)
(* The theorems are at the end.                                            *)
(***************************************************************************)
EXTENDS Paging, Basics, FiniteSetTheorems

(* What is built in each phase, and for whom                               *)
Construction ==
  /\ phase \in Phases
  /\ phase \in {"boot", "user", "exit"} => building = NoSpace
  /\ phase = "create" => todo = <<Dir>> \/ (todo = << >> /\ Dir \in DOMAIN building)
  /\ phase \in {"copy", "load", "stack"} => Dir \in DOMAIN building
  /\ phase \in {"create", "load"} /\ image # NULL =>
       owner \in Task /\ (running = NULL \/ owner = running)
  /\ phase = "create" /\ image = NULL => running # NULL
  /\ phase = "load" => image # NULL
  /\ phase = "stack" => owner \in Task /\ space[owner] = NoSpace

(* Which directory CR3 holds in each phase                                 *)
Current(t) == t \in Live /\ cr3 = space[t][Dir]

Directories ==
  /\ running \in Task \cup {NULL}
  /\ \A t \in Live : Dir \in DOMAIN space[t]
  /\ cr3 = NULL \/ \E t \in Live : cr3 = space[t][Dir]
  /\ phase = "boot" => running = NULL
  /\ phase \in {"boot", "user", "create", "load"} => running = NULL \/ Current(running)
  /\ phase = "copy" => running \in Live
  /\ phase = "stack" => running = NULL \/ owner = running \/ Current(running)

Sound == DOMAIN space = Task /\ PagesConserved /\ Construction /\ Directories
IInv  == halted = "no" => Sound

-----------------------------------------------------------------------------
LEMMA Empty == Pages(NoSpace) = {} /\ Injective(NoSpace) /\ DOMAIN NoSpace = {}
BY DEF Pages, Injective, NoSpace

LEMMA LowestIsFree ==
  ASSUME NEW S, S \subseteq Nat, S # {}
  PROVE  Lowest(S) \in S
PROOF
  <1>1. \E a \in S : \A b \in S : a <= b
    BY LeastOf
  <1> QED BY <1>1 DEF Lowest

(* A page that was free goes to a new cell of the space under construction. *)
LEMMA TakeConserves ==
  ASSUME halted = "no", PagesConserved,
         NEW a \in free, NEW c, c \notin DOMAIN building,
         free' = free \ {a}, space' = space,
         building' = [b \in DOMAIN building \cup {c} |-> IF b = c THEN a ELSE building[b]]
  PROVE  PagesConserved'
PROOF
  <1>1. a \notin Pages(building) /\ \A t \in Task : a \notin Pages(space[t])
    BY DEF PagesConserved
  <1>2. Pages(building') = Pages(building) \cup {a}
    BY DEF Pages
  <1>3. Injective(building')
    BY <1>1 DEF PagesConserved, Injective, Pages
  <1> QED BY <1>1, <1>2, <1>3 DEF PagesConserved

(* The space under construction is freed.                                   *)
LEMMA DropConserves ==
  ASSUME halted = "no", PagesConserved,
         free' = Freed(building), space' = space, building' = NoSpace
  PROVE  PagesConserved'
BY Empty DEF PagesConserved, Freed

(* A task's space is freed.                                                 *)
LEMMA FreeConserves ==
  ASSUME halted = "no", PagesConserved, DOMAIN space = Task, NEW t \in Task,
         free' = Freed(space[t]), space' = [space EXCEPT ![t] = NoSpace], building' = building
  PROVE  PagesConserved'
PROOF
  <1>1. space'[t] = NoSpace /\ \A u \in Task \ {t} : space'[u] = space[u]
    OBVIOUS
  <1> QED BY <1>1, Empty DEF PagesConserved, Freed

(* The space under construction becomes that of a task without one.         *)
LEMMA GiveConserves ==
  ASSUME halted = "no", PagesConserved, DOMAIN space = Task, NEW t \in Task, space[t] = NoSpace,
         free' = free, space' = [space EXCEPT ![t] = building], building' = NoSpace
  PROVE  PagesConserved'
PROOF
  <1>1. space'[t] = building /\ \A u \in Task \ {t} : space'[u] = space[u]
    OBVIOUS
  <1> QED BY <1>1, Empty DEF PagesConserved

LEMMA SameConserves ==
  ASSUME halted = "no", PagesConserved, UNCHANGED <<free, space, building>>
  PROVE  PagesConserved'
BY DEF PagesConserved

-----------------------------------------------------------------------------
(***************************************************************************)
(* The boot state, and the steps that start a construction or move it on.  *)
(***************************************************************************)
LEMMA InitIInv == Init => IInv
PROOF
  <1> SUFFICES ASSUME Init PROVE Sound
    BY DEF IInv
  <1>1. \A t \in Task : space[t] = NoSpace
    BY DEF Init
  <1>2. PagesConserved
    BY <1>1, Empty DEF Init, PagesConserved
  <1>3. Construction
    BY DEF Init, Construction, Phases
  <1>4. Directories
    BY <1>1 DEF Init, Directories, Live
  <1> QED BY <1>2, <1>3, <1>4 DEF Init, Sound

LEMMA CreateSound ==
  ASSUME halted = "no", Sound, NEW img, NEW t, Create(img, t),
         \/ phase = "boot" /\ img \in Images /\ t = init_task
         \/ phase = "user" /\ running # NULL /\ img \in Images \cup {NULL}
              /\ (img # NULL => t = running)
  PROVE  Sound'
PROOF
  <1>1. building = NoSpace
    BY DEF Sound, Construction
  <1>2. PagesConserved'
    BY <1>1, SameConserves DEF Sound, Create
  <1>3. Construction'
    BY TaskAssumption, ImagesAssumption DEF Sound, Create, Construction, Directories, Phases
  <1>4. Directories'
    BY DEF Sound, Create, Directories, Current, Live
  <1> QED BY <1>2, <1>3, <1>4 DEF Sound, Create

LEMMA LoadSound ==
  ASSUME halted = "no", Sound, Load
  PROVE  Sound'
PROOF
  <1>1. PagesConserved'
    BY SameConserves DEF Sound, Load
  <1>2. Construction'
    BY DEF Sound, Load, Done, Construction, Phases
  <1>3. Directories'
    BY DEF Sound, Load, Done, Directories, Current, Live
  <1> QED BY <1>1, <1>2, <1>3 DEF Sound, Load

LEMMA StartCopySound ==
  ASSUME halted = "no", Sound, StartCopy
  PROVE  Sound'
PROOF
  <1>1. PagesConserved'
    BY SameConserves DEF Sound, StartCopy
  <1>2. Construction'
    BY DEF Sound, StartCopy, Done, Construction, Phases
  <1>3. Directories'
    BY DEF Sound, StartCopy, Done, Construction, Directories, Current, Live
  <1> QED BY <1>1, <1>2, <1>3 DEF Sound, StartCopy

-----------------------------------------------------------------------------
(***************************************************************************)
(* A page is allocated: the directory of a construction is its first page.  *)
(***************************************************************************)
LEMMA TakeSound ==
  ASSUME halted = "no", Sound, Take
  PROVE  Sound'
PROOF
  <1>1. Lowest(free) \in free
    BY LowestIsFree, PageAssumption DEF Sound, PagesConserved, Take
  <1>2. PagesConserved'
    BY <1>1, TakeConserves DEF Sound, Take
  <1>3. DOMAIN building' = DOMAIN building \cup {Head(todo)}
    BY DEF Take
  <1>4. phase = "create" => todo' = << >> /\ Dir \in DOMAIN building'
    <2>1. SUFFICES ASSUME phase = "create"
                   PROVE  todo' = << >> /\ Dir \in DOMAIN building'
      OBVIOUS
    <2>2. todo = <<Dir>>
      BY <2>1 DEF Sound, Construction, Take, Taking
    <2>3. ASSUME NEW c PROVE Head(<<c>>) = c /\ Tail(<<c>>) = << >>
      OBVIOUS
    <2>4. Head(todo) = Dir /\ todo' = << >>
      BY <2>2, <2>3 DEF Take
    <2> QED BY <1>3, <2>4
  <1>5. Construction'
    BY <1>3, <1>4 DEF Sound, Construction, Take, Taking
  <1>6. Directories'
    BY DEF Sound, Take, Directories, Current, Live
  <1> QED BY <1>2, <1>5, <1>6 DEF Sound, Take

(***************************************************************************)
(* The copy is complete: the child takes a slot without an address space,   *)
(* and CR3 holds the directory of the parent again.                        *)
(***************************************************************************)
LEMMA EndCopySound ==
  ASSUME halted = "no", Sound, EndCopy, halted' = "no"
  PROVE  Sound'
PROOF
  <1>1. phase = "copy" /\ phase' = "stack" /\ running \in Live
    BY DEF Sound, EndCopy, Done, Directories
  <1>2. PagesConserved'
    BY SameConserves DEF Sound, EndCopy
  <1>3. owner' \in Task /\ space'[owner'] = NoSpace
    BY DEF EndCopy, FreeSlots, Live
  <1>4. Construction'
    BY <1>1, <1>3 DEF Sound, EndCopy, Construction, Phases
  <1>5. Directories'
    BY <1>1 DEF Sound, EndCopy, Directories, Current, Live
  <1> QED BY <1>2, <1>4, <1>5 DEF Sound, EndCopy

(***************************************************************************)
(* An exec that fails gives back what it loaded, under the directory of    *)
(* its task.                                                               *)
(***************************************************************************)
LEMMA LoadFailsSound ==
  ASSUME halted = "no", Sound, LoadFails
  PROVE  Sound'
PROOF
  <1>1. PagesConserved'
    BY DropConserves DEF Sound, LoadFails
  <1>2. Construction'
    BY DEF Sound, LoadFails, Rest, Construction, Phases
  <1>3. Directories'
    BY DEF Sound, LoadFails, Done, Rest, Directories, Current, Live
  <1> QED BY <1>1, <1>2, <1>3 DEF Sound, LoadFails

(***************************************************************************)
(* The old space is freed after CR3 has left its directory.                *)
(***************************************************************************)
LEMMA ReplaceSound ==
  ASSUME halted = "no", Sound, Replace
  PROVE  Sound'
PROOF
  <1>1. /\ phase = "load" /\ phase' = "stack"
        /\ owner \in Task /\ (running = NULL \/ owner = running)
        /\ UNCHANGED <<owner, running, building, halted>>
    BY DEF Sound, Replace, Done, Construction
  <1>2. space'[owner] = NoSpace /\ \A u \in Task \ {owner} : space'[u] = space[u]
    BY <1>1 DEF Sound, Replace
  <1>3. PagesConserved'
    BY <1>1, FreeConserves DEF Sound, Replace
  <1>4. Construction'
    BY <1>1, <1>2 DEF Sound, Construction, Phases
  <1>5. cr3' = NULL \/ \E t \in Live' : cr3' = space'[t][Dir]
    <2>1. CASE cr3' = NULL
      BY <2>1
    <2>2. CASE cr3' # NULL
      <3>1. cr3' = cr3 /\ (owner \in Live => cr3 # space[owner][Dir])
        BY <2>2 DEF Sound, Replace, Cr3After, Directories, Live
      <3>2. PICK t \in Live : cr3 = space[t][Dir]
        BY <2>2, <3>1 DEF Sound, Directories
      <3>3. t # owner /\ t \in Task /\ t \in Live'
        BY <1>2, <3>1, <3>2 DEF Live
      <3> QED BY <1>2, <3>1, <3>2, <3>3
    <2> QED BY <2>1, <2>2
  <1>6. Directories'
    BY <1>1, <1>2, <1>5 DEF Sound, Directories, Live
  <1> QED BY <1>3, <1>4, <1>6 DEF Sound, Replace

(***************************************************************************)
(* The new space goes to a task without one; in an exec CR3 loads it.      *)
(***************************************************************************)
LEMMA InstallSound ==
  ASSUME halted = "no", Sound, Install
  PROVE  Sound'
PROOF
  <1>1. /\ phase = "stack" /\ phase' = "user"
        /\ owner \in Task /\ space[owner] = NoSpace /\ Dir \in DOMAIN building
        /\ running = NULL \/ owner = running \/ Current(running)
        /\ UNCHANGED <<running, free, halted>>
    BY DEF Sound, Install, Done, Rest, Construction, Directories
  <1>2. space'[owner] = building /\ \A u \in Task \ {owner} : space'[u] = space[u]
    BY <1>1 DEF Sound, Install
  <1>3. building # NoSpace
    BY <1>1, Empty
  <1>4. Live' = Live \cup {owner} /\ owner \notin Live
    BY <1>1, <1>2, <1>3 DEF Live
  <1>5. PagesConserved'
    BY <1>1, GiveConserves DEF Sound, Install
  <1>6. Construction'
    BY <1>1 DEF Install, Construction, Phases
  <1>7. cr3' = NULL \/ \E t \in Live' : cr3' = space'[t][Dir]
    BY <1>1, <1>2, <1>4 DEF Sound, Install, Directories, Live
  <1>8. running = NULL \/ (running \in Live' /\ cr3' = space'[running][Dir])
    BY <1>1, <1>2, <1>4 DEF Install, Current, Live
  <1>9. \A t \in Live' : Dir \in DOMAIN space'[t]
    BY <1>1, <1>2, <1>4 DEF Sound, Directories, Live
  <1>10. Directories'
    BY <1>1, <1>7, <1>8, <1>9 DEF Sound, Directories, Current
  <1> QED BY <1>5, <1>6, <1>10 DEF Sound, Install

-----------------------------------------------------------------------------
(***************************************************************************)
(* The steps of the scheduler.                                             *)
(***************************************************************************)
LEMMA SwitchSound ==
  ASSUME halted = "no", Sound, NEW t \in Task, Switch(t)
  PROVE  Sound'
PROOF
  <1>1. PagesConserved'
    BY SameConserves DEF Sound, Switch, work
  <1>2. Construction'
    BY DEF Sound, Switch, work, Construction, Phases
  <1>3. Directories'
    BY DEF Sound, Switch, work, Directories, Current, Live
  <1> QED BY <1>1, <1>2, <1>3 DEF Sound, Switch

LEMMA ExitSound ==
  ASSUME halted = "no", Sound, Exit
  PROVE  Sound'
PROOF
  <1>1. /\ running \in Task /\ Current(running) /\ phase = "user" /\ phase' = "exit"
        /\ running' = running
    BY DEF Sound, Exit, Directories
  <1>2. space'[running] = NoSpace /\ \A u \in Task \ {running} : space'[u] = space[u]
    BY <1>1 DEF Sound, Exit
  <1>3. Live' = Live \ {running}
    BY <1>1, <1>2 DEF Live
  <1>4. PagesConserved'
    BY <1>1, FreeConserves DEF Sound, Exit, work
  <1>5. Construction'
    BY <1>1 DEF Sound, Exit, work, Construction, Phases
  <1>6. cr3' = NULL
    BY <1>1 DEF Exit, Cr3After, Current, Sound, Directories
  <1>7. \A u \in Live' : Dir \in DOMAIN space'[u]
    BY <1>2, <1>3 DEF Sound, Directories, Live
  <1>8. Directories'
    BY <1>1, <1>6, <1>7 DEF Directories
  <1>9. DOMAIN space' = Task
    BY DEF Sound, Exit
  <1> QED BY <1>4, <1>5, <1>8, <1>9 DEF Sound

LEMMA UnchangedSound ==
  ASSUME halted = "no", Sound,
         UNCHANGED <<free, space, cr3, running, phase, work, halted>>
  PROVE  Sound'
PROOF
  <1>1. PagesConserved'
    BY SameConserves DEF Sound, work
  <1>2. Construction'
    BY DEF Sound, work, Construction
  <1>3. Directories'
    BY DEF Sound, work, Directories, Current, Live
  <1> QED BY <1>1, <1>2, <1>3 DEF Sound

-----------------------------------------------------------------------------
(***************************************************************************)
(* The kernel never resumes after it halted, so a step that leaves the     *)
(* system running starts in one that runs.                                 *)
(***************************************************************************)
LEMMA NextIInv == IInv /\ [Next]_vars => IInv'
PROOF
  <1> SUFFICES ASSUME IInv, [Next]_vars, halted' = "no"
               PROVE  Sound'
    BY DEF IInv
  <1>1. CASE UNCHANGED vars
    <2>1. halted = "no" /\ Sound
      BY <1>1 DEF vars, IInv
    <2> QED BY <1>1, <2>1, UnchangedSound DEF vars
  <1>2. ASSUME halted = "no"
        PROVE  Sound
    BY <1>2 DEF IInv
  <1>3. CASE BootInit
    BY <1>2, <1>3, CreateSound DEF BootInit, Create
  <1>4. CASE StartExec
    BY <1>2, <1>4, CreateSound DEF StartExec, Create
  <1>5. CASE StartFork
    BY <1>2, <1>5, CreateSound DEF StartFork, Create
  <1>6. CASE Take
    BY <1>2, <1>6, TakeSound DEF Take, Taking
  <1>7. CASE TakeFails
    BY <1>7 DEF TakeFails
  <1>8. CASE Load
    BY <1>2, <1>8, LoadSound DEF Load, Done
  <1>9. CASE LoadFails
    BY <1>2, <1>9, LoadFailsSound DEF LoadFails, Done
  <1>10. CASE Replace
    BY <1>2, <1>10, ReplaceSound DEF Replace, Done
  <1>11. CASE StartCopy
    BY <1>2, <1>11, StartCopySound DEF StartCopy, Done
  <1>12. CASE EndCopy
    BY <1>2, <1>12, EndCopySound DEF EndCopy, Done
  <1>13. CASE ForkFails
    BY <1>13 DEF ForkFails
  <1>14. CASE Install
    BY <1>2, <1>14, InstallSound DEF Install, Done
  <1>15. ASSUME NEW t \in Task, Switch(t)
         PROVE  Sound'
    BY <1>2, <1>15, SwitchSound DEF Switch
  <1>16. CASE Exit
    BY <1>2, <1>16, ExitSound DEF Exit
  <1>17. ASSUME NEW t \in Task, Reap(t)
         PROVE  Sound'
    BY <1>2, <1>17, UnchangedSound DEF Reap
  <1>18. CASE Spin
    BY <1>18 DEF Spin, vars
  <1> QED
    BY <1>1, <1>3, <1>4, <1>5, <1>6, <1>7, <1>8, <1>9, <1>10, <1>11, <1>12,
       <1>13, <1>14, <1>15, <1>16, <1>17, <1>18 DEF Next

LEMMA IInvAlways == Spec => []IInv
BY InitIInv, NextIInv, PTL DEF Spec

-----------------------------------------------------------------------------
(***************************************************************************)
(* 2. The cells that a construction asks for: those of a copy, of a stack  *)
(* and of a program are different from each other, and a frame never comes *)
(* without its table.                                                      *)
(***************************************************************************)
Below == Cell \ {Dir}
Last  == 2 * (ENTRIES + 1)

LEMMA Cells ==
  /\ \A i : Tab(i) # Dir
  /\ \A i, j : Frame(i, j) # Dir
  /\ \A i, k : Tab(i) = Tab(k) => i = k
  /\ \A i, j, k, l : Frame(i, j) = Frame(k, l) => i = k /\ j = l
  /\ \A i, k, l : Tab(i) # Frame(k, l)
  /\ \A i, j : Frame(i, j)[2] = i /\ Frame(i, j)[3] = j
BY DEF Tab, Frame, Dir

LEMMA OrderIs ==
  /\ Last \in Nat
  /\ \A k \in 1 .. Last : InOrder[k] \in Below
  /\ \A k, l \in 1 .. Last : InOrder[k] = InOrder[l] => k = l
  /\ \A c \in Below : \E k \in 1 .. Last : InOrder[k] = c
PROOF
  <1> DEFINE E == ENTRIES + 1
             I(k) == (k - 1) \div E
             J(k) == (k - 1) % E
  <1>1. ENTRIES \in Nat /\ ENTRIES > 0 /\ E \in Nat /\ E > 0 /\ Last = 2 * E /\ Last \in Nat
    BY EntriesAssumption DEF Last
  <1>2. ASSUME NEW k \in 1 .. Last
        PROVE  I(k) \in Area /\ J(k) \in 0 .. ENTRIES /\ k - 1 = E * I(k) + J(k)
    <2>1. k - 1 \in Nat /\ k - 1 < 2 * E
      BY <1>1
    <2>2. I(k) \in Nat /\ J(k) \in 0 .. E - 1 /\ k - 1 = E * I(k) + J(k)
      BY <1>1, <2>1, DivMod
    <2>3. I(k) < 2
      <3>1. 2 <= I(k) => E * 2 <= E * I(k)
        BY <1>1, <2>2
      <3> HIDE DEF I, J, E
      <3> QED BY <1>1, <2>1, <2>2, <3>1
    <2> QED BY <1>1, <2>2, <2>3 DEF Area
  <1>3. ASSUME NEW k \in 1 .. Last
        PROVE  InOrder[k] = IF J(k) = 0 THEN Tab(I(k)) ELSE Frame(I(k), J(k) - 1)
    BY DEF InOrder, Last
  <1> HIDE DEF I, J
  <1>4. ASSUME NEW k \in 1 .. Last
        PROVE  InOrder[k] \in Below
    <2>1. CASE J(k) = 0
      BY <1>2, <1>3, <2>1, Cells DEF Below, Cell
    <2>2. CASE J(k) # 0
      <3>1. J(k) - 1 \in 0 .. ENTRIES - 1
        BY <1>1, <1>2, <2>2
      <3> QED BY <1>2, <1>3, <2>2, <3>1, Cells DEF Below, Cell, Frames
    <2> QED BY <2>1, <2>2
  <1>5. ASSUME NEW k \in 1 .. Last, NEW l \in 1 .. Last, InOrder[k] = InOrder[l]
        PROVE  k = l
    <2>1. I(k) = I(l) /\ J(k) = J(l)
      <3>1. J(k) \in Nat /\ J(l) \in Nat
        BY <1>1, <1>2
      <3> QED BY <1>3, <1>5, <3>1, Cells
    <2>2. k - 1 = l - 1
      BY <1>2, <2>1
    <2> QED BY <1>1, <2>2
  <1>6. ASSUME NEW i \in Area, NEW r \in 0 .. ENTRIES
        PROVE  \E k \in 1 .. Last : I(k) = i /\ J(k) = r
    <2>1. /\ E * i + r \in Nat /\ (E * i + r + 1) - 1 = E * i + r
          /\ E * i + r + 1 \in 1 .. Last /\ r \in 0 .. E - 1 /\ i \in Nat
      BY <1>1 DEF Area
    <2>2. (E * i + r) \div E = i /\ (E * i + r) % E = r
      BY <1>1, <2>1, DivIs
    <2> QED BY <2>1, <2>2 DEF I, J
  <1>7. ASSUME NEW c \in Below
        PROVE  \E k \in 1 .. Last : InOrder[k] = c
    <2>1. CASE \E i \in Area : c = Tab(i)
      <3>1. PICK i \in Area : c = Tab(i)
        BY <2>1
      <3>2. 0 \in 0 .. ENTRIES
        BY <1>1
      <3>3. PICK k \in 1 .. Last : I(k) = i /\ J(k) = 0
        BY <1>6, <3>2
      <3> QED BY <1>3, <3>1, <3>3
    <2>2. CASE c \in Frames
      <3>1. PICK i \in Area, j \in 0 .. ENTRIES - 1 : c = Frame(i, j)
        BY <2>2 DEF Frames
      <3>2. j + 1 \in 0 .. ENTRIES /\ j + 1 # 0 /\ (j + 1) - 1 = j
        BY <1>1
      <3>3. PICK k \in 1 .. Last : I(k) = i /\ J(k) = j + 1
        BY <1>6, <3>2
      <3> QED BY <1>3, <3>1, <3>2, <3>3
    <2> QED BY <2>1, <2>2 DEF Below, Cell
  <1> QED BY <1>1, <1>4, <1>5, <1>7

(* The cells of S, each once                                                *)
LEMMA ChosenIs ==
  ASSUME NEW S
  PROVE  /\ Chosen(S) \in Seq(Cell) /\ Distinct(Chosen(S))
         /\ Elements(Chosen(S)) = Below \cap S
PROOF
  <1> DEFINE piece == [k \in 1 .. Last |-> IF InOrder[k] \in S THEN <<InOrder[k]>> ELSE << >>]
  <1>1. ASSUME NEW k \in 1 .. Last
        PROVE  /\ piece[k] \in Seq(Cell) /\ Distinct(piece[k])
               /\ Elements(piece[k]) = {InOrder[k]} \cap S
    <2>1. InOrder[k] \in Cell
      BY OrderIs DEF Below
    <2>2. CASE InOrder[k] \in S
      <3>1. piece[k] = <<InOrder[k]>> /\ Len(<<InOrder[k]>>) = 1 /\ <<InOrder[k]>>[1] = InOrder[k]
        BY <2>2
      <3> QED BY <2>1, <2>2, <3>1 DEF Elements, Distinct
    <2>3. CASE InOrder[k] \notin S
      <3>1. piece[k] = << >>
        BY <2>3
      <3> QED BY <2>3, <3>1 DEF Elements, Distinct
    <2> QED BY <2>2, <2>3
  <1>2. piece \in [1 .. Last -> Seq(Cell)] /\ Last \in Nat
    BY <1>1, OrderIs
  <1>3. \E at : at = [k \in 0 .. Last |-> IF k = 0 THEN << >> ELSE at[k - 1] \o piece[k]]
    <2> HIDE DEF piece
    <2> QED BY <1>2, PiecesExist
  <1>4. ASSUME NEW at
        PROVE  [k \in 0 .. Last |-> IF k = 0 THEN << >> ELSE at[k - 1] \o piece[k]]
               = [k \in 0 .. Last |-> IF k = 0 THEN << >>
                    ELSE at[k - 1] \o (IF InOrder[k] \in S THEN <<InOrder[k]>> ELSE << >>)]
    <2>1. ASSUME NEW k \in 0 .. Last, k # 0
          PROVE  piece[k] = IF InOrder[k] \in S THEN <<InOrder[k]>> ELSE << >>
      BY <1>2, <2>1
    <2> HIDE DEF piece
    <2> QED BY <2>1
  <1> DEFINE w == CHOOSE at : at = [k \in 0 .. Last |-> IF k = 0 THEN << >>
                    ELSE at[k - 1] \o (IF InOrder[k] \in S THEN <<InOrder[k]>> ELSE << >>)]
  <1>5. Chosen(S) = w[Last]
    BY DEF Chosen, Last
  <1>6. w = [k \in 0 .. Last |-> IF k = 0 THEN << >> ELSE w[k - 1] \o piece[k]]
    <2> DEFINE Is(at) == at = [k \in 0 .. Last |-> IF k = 0 THEN << >>
                    ELSE at[k - 1] \o (IF InOrder[k] \in S THEN <<InOrder[k]>> ELSE << >>)]
    <2>1. \E at : Is(at)
      <3> HIDE DEF piece
      <3>1. PICK at : at = [k \in 0 .. Last |-> IF k = 0 THEN << >> ELSE at[k - 1] \o piece[k]]
        BY <1>3
      <3>2. Is(at)
        BY <1>4, <3>1, Zenon
      <3> HIDE DEF Is
      <3> QED BY <3>2, Zenon
    <2>2. Is(CHOOSE at : Is(at))
      <3> HIDE DEF Is
      <3> QED BY <2>1, Zenon
    <2>3. Is(w)
      BY <2>2, Zenon
    <2> HIDE DEF w, piece
    <2> QED BY <1>4, <2>3
  <1> HIDE DEF w, piece
  <1>7. /\ w[Last] \in Seq(Cell)
        /\ Elements(w[Last]) = UNION {Elements(piece[l]) : l \in 1 .. Last}
        /\ /\ \A l \in 1 .. Last : Distinct(piece[l])
           /\ \A l, m \in 1 .. Last : l # m => Elements(piece[l]) \cap Elements(piece[m]) = {}
           => Distinct(w[Last])
    BY <1>2, <1>6, PiecesAre
  <1>8. ASSUME NEW l \in 1 .. Last, NEW m \in 1 .. Last, l # m
        PROVE  Elements(piece[l]) \cap Elements(piece[m]) = {}
    <2>1. InOrder[l] # InOrder[m]
      BY <1>8, OrderIs
    <2>2. Elements(piece[l]) \subseteq {InOrder[l]} /\ Elements(piece[m]) \subseteq {InOrder[m]}
      BY <1>1
    <2> QED BY <2>1, <2>2
  <1>9. UNION {Elements(piece[l]) : l \in 1 .. Last} = Below \cap S
    <2>1. ASSUME NEW c \in Below \cap S
          PROVE  c \in UNION {Elements(piece[l]) : l \in 1 .. Last}
      <3>1. PICK k \in 1 .. Last : InOrder[k] = c
        BY OrderIs
      <3>2. c \in Elements(piece[k])
        BY <1>1, <3>1
      <3> QED BY <3>2
    <2>2. ASSUME NEW c \in UNION {Elements(piece[l]) : l \in 1 .. Last}
          PROVE  c \in Below \cap S
      <3>1. PICK k \in 1 .. Last : c \in Elements(piece[k])
        BY <2>2
      <3>2. c = InOrder[k] /\ c \in S
        BY <1>1, <3>1
      <3> QED BY <3>2, OrderIs
    <2> QED BY <2>1, <2>2
  <1>10. \A l \in 1 .. Last : Distinct(piece[l])
    BY <1>1
  <1> QED BY <1>5, <1>7, <1>8, <1>9, <1>10

(* The pages of a segment are entries of its page table.                    *)
LEMMA SegmentIs ==
  ASSUME NEW img \in Images, NEW k \in DOMAIN img.segs
  PROVE  /\ img.segs \in Seq(Segment) /\ img.segs[k] \in Segment
         /\ img.segs[k].vaddr + img.segs[k].memsz <= ENTRIES * PAGE_SIZE
PROOF
  <1>1. img.segs \in Seq(Segment)
    BY ImagesAssumption
  <1> QED BY <1>1, ImagesAssumption

LEMMA PagesInTable ==
  ASSUME NEW img \in Images, NEW k \in DOMAIN img.segs
  PROVE  LET seg == img.segs[k]
         IN  /\ FirstPage(seg) \in Nat /\ LastPage(seg) \in Nat
             /\ FirstPage(seg) <= LastPage(seg) /\ LastPage(seg) < ENTRIES
             /\ Cardinality(PagesOf(seg)) = LastPage(seg) - FirstPage(seg) + 1
             /\ PAGE_SIZE * LastPage(seg) < seg.vaddr + seg.memsz
PROOF
  <1> DEFINE seg == img.segs[k]
             v == seg.vaddr
             m == seg.memsz
             F == FirstPage(seg)
             L == LastPage(seg)
  <1>1. seg \in Segment /\ v + m <= ENTRIES * PAGE_SIZE
    BY SegmentIs
  <1>2. v \in Nat /\ m \in Nat /\ m > 0
    BY <1>1 DEF Segment
  <1>3. PAGE_SIZE \in Nat /\ PAGE_SIZE > 0 /\ ENTRIES \in Nat
    BY EntriesAssumption
  <1> HIDE DEF v, m
  <1>4. v + m - 1 \in Nat /\ v <= v + m - 1 /\ v + m - 1 < ENTRIES * PAGE_SIZE
    <2>1. ENTRIES * PAGE_SIZE \in Nat
      BY <1>3
    <2> QED BY <1>1, <1>2, <2>1
  <1>5. F = v \div PAGE_SIZE /\ L = (v + m - 1) \div PAGE_SIZE
    BY DEF FirstPage, LastPage, v, m
  <1>6. F \in Nat /\ L \in Nat /\ F <= L
    BY <1>2, <1>3, <1>4, <1>5, DivMod, DivOrder
  <1>7. PAGE_SIZE * L <= v + m - 1
    <2>1. /\ v + m - 1 = PAGE_SIZE * L + ((v + m - 1) % PAGE_SIZE)
          /\ (v + m - 1) % PAGE_SIZE \in 0 .. PAGE_SIZE - 1
      BY <1>3, <1>4, <1>5, DivMod
    <2> DEFINE r == (v + m - 1) % PAGE_SIZE
    <2>2. r \in Nat /\ v + m - 1 = PAGE_SIZE * L + r /\ PAGE_SIZE * L \in Nat
      BY <1>3, <1>6, <2>1
    <2> HIDE DEF r
    <2> QED BY <1>2, <2>2
  <1>8. L < ENTRIES
    <2>1. SUFFICES ASSUME ENTRIES <= L PROVE FALSE
      BY <1>3, <1>6
    <2>2. PAGE_SIZE * ENTRIES <= PAGE_SIZE * L
      BY <1>3, <1>6, <2>1
    <2>3. PAGE_SIZE * ENTRIES = ENTRIES * PAGE_SIZE /\ PAGE_SIZE * ENTRIES \in Nat /\ PAGE_SIZE * L \in Nat
      BY <1>3, <1>6
    <2> QED BY <1>2, <1>4, <1>7, <2>2, <2>3
  <1>9. Cardinality(PagesOf(seg)) = L - F + 1
    <2>1. PagesOf(seg) = F .. L
      BY DEF PagesOf
    <2> HIDE DEF F, L
    <2>2. Cardinality(F .. L) = IF F > L THEN 0 ELSE L - F + 1
      BY <1>6, FS_Interval
    <2> QED BY <1>6, <2>1, <2>2
  <1>10. PAGE_SIZE * L < v + m
    <2>1. PAGE_SIZE * L \in Nat
      BY <1>3, <1>6
    <2> QED BY <1>2, <1>7, <2>1
  <1> QED BY <1>6, <1>8, <1>9, <1>10 DEF v, m

(* The pages of a program's segments, in the order of its headers           *)
LoadPagesOf(img) == UNION {PagesOf(img.segs[k]) : k \in DOMAIN img.segs}

LEMMA LoadPagesAre ==
  ASSUME NEW img \in Images
  PROVE  /\ LoadPages(img) \in Seq(0 .. ENTRIES - 1)
         /\ Elements(LoadPages(img)) = LoadPagesOf(img)
         /\ ~SegmentsCollide(img) => Distinct(LoadPages(img))
PROOF
  <1> DEFINE segs == img.segs
             N == Len(segs)
             Count(k) == Cardinality(PagesOf(segs[k]))
             piece == [k \in 1 .. N |-> [i \in 1 .. Count(k) |-> FirstPage(segs[k]) + i - 1]]
             S == 0 .. ENTRIES - 1
  <1>0. ENTRIES \in Nat
    BY EntriesAssumption
  <1>1. N \in Nat /\ DOMAIN segs = 1 .. N
    <2>1. segs \in Seq(Segment)
      BY ImagesAssumption
    <2> QED BY <2>1
  <1>2. ASSUME NEW k \in 1 .. N
        PROVE  /\ piece[k] \in Seq(S) /\ Distinct(piece[k])
               /\ Elements(piece[k]) = PagesOf(segs[k])
    <2> DEFINE f == FirstPage(segs[k])
               l == LastPage(segs[k])
               c == Count(k)
    <2>1. f \in Nat /\ l \in Nat /\ f <= l /\ l < ENTRIES /\ c = l - f + 1
      BY <1>1, PagesInTable
    <2>2. PagesOf(segs[k]) = f .. l
      BY DEF PagesOf
    <2>3. piece[k] = [i \in 1 .. c |-> f + i - 1]
      OBVIOUS
    <2> HIDE DEF piece, f, l, c
    <2>4. c \in Nat /\ \A i \in 1 .. c : f + i - 1 \in S /\ f + i - 1 \in f .. l
      BY <1>0, <2>1
    <2>5. piece[k] \in Seq(S) /\ Len(piece[k]) = c /\ \A i \in 1 .. c : piece[k][i] = f + i - 1
      BY <2>3, <2>4
    <2>6. Distinct(piece[k])
      BY <2>1, <2>4, <2>5 DEF Distinct
    <2>7. \A x \in f .. l : x - f + 1 \in 1 .. c /\ f + (x - f + 1) - 1 = x
      BY <2>1
    <2>8. Elements(piece[k]) = f .. l
      <3>1. ASSUME NEW x \in f .. l PROVE x \in Elements(piece[k])
        BY <2>5, <2>7 DEF Elements
      <3>2. ASSUME NEW x \in Elements(piece[k]) PROVE x \in f .. l
        <4>1. PICK i \in 1 .. c : x = piece[k][i]
          BY <2>5 DEF Elements
        <4> QED BY <2>4, <2>5, <4>1
      <3> QED BY <3>1, <3>2
    <2> QED BY <2>2, <2>5, <2>6, <2>8
  <1>3. piece \in [1 .. N -> Seq(S)]
    BY <1>2
  <1>4. ASSUME NEW at
        PROVE  [k \in 0 .. N |-> IF k = 0 THEN << >> ELSE at[k - 1] \o piece[k]]
               = [k \in 0 .. N |-> IF k = 0 THEN << >>
                    ELSE at[k - 1] \o [i \in 1 .. Count(k) |-> FirstPage(segs[k]) + i - 1]]
    <2>1. ASSUME NEW k \in 0 .. N, k # 0
          PROVE  piece[k] = [i \in 1 .. Count(k) |-> FirstPage(segs[k]) + i - 1]
      BY <1>1, <2>1
    <2> HIDE DEF piece, Count, segs
    <2> QED BY <2>1
  <1> DEFINE Is(at) == at = [k \in 0 .. N |-> IF k = 0 THEN << >>
                    ELSE at[k - 1] \o [i \in 1 .. Count(k) |-> FirstPage(segs[k]) + i - 1]]
             w == CHOOSE at : Is(at)
  <1>5. LoadPages(img) = w[N]
    BY DEF LoadPages
  <1> HIDE DEF piece, N, Count, segs
  <1>6. w = [k \in 0 .. N |-> IF k = 0 THEN << >> ELSE w[k - 1] \o piece[k]]
    <2>1. \E at : Is(at)
      <3>1. PICK at : at = [k \in 0 .. N |-> IF k = 0 THEN << >> ELSE at[k - 1] \o piece[k]]
        BY <1>1, <1>3, PiecesExist
      <3>2. Is(at)
        BY <1>4, <3>1
      <3> HIDE DEF Is
      <3> QED BY <3>2
    <2>2. Is(w)
      <3> HIDE DEF Is
      <3> QED BY <2>1
    <2> HIDE DEF w
    <2> QED BY <1>4, <2>2
  <1> HIDE DEF w, S
  <1>7. /\ w[N] \in Seq(S)
        /\ Elements(w[N]) = UNION {Elements(piece[l]) : l \in 1 .. N}
        /\ /\ \A l \in 1 .. N : Distinct(piece[l])
           /\ \A l, m \in 1 .. N : l # m => Elements(piece[l]) \cap Elements(piece[m]) = {}
           => Distinct(w[N])
    BY <1>1, <1>3, <1>6, PiecesAre
  <1>8. UNION {Elements(piece[l]) : l \in 1 .. N} = LoadPagesOf(img)
    BY <1>1, <1>2 DEF LoadPagesOf, segs
  <1>9. ASSUME ~SegmentsCollide(img), NEW l \in 1 .. N, NEW m \in 1 .. N, l # m
        PROVE  Elements(piece[l]) \cap Elements(piece[m]) = {}
    <2>1. PagesOf(segs[l]) \cap PagesOf(segs[m]) = {}
      BY <1>1, <1>9 DEF SegmentsCollide, segs
    <2> QED BY <1>2, <2>1
  <1>10. \A l \in 1 .. N : Distinct(piece[l])
    BY <1>2
  <1> QED BY <1>5, <1>7, <1>8, <1>9, <1>10 DEF S

(* Its cells: a frame for each page, and behind the first one the table      *)
LEMMA LoadCellsAre ==
  ASSUME NEW img \in Images
  PROVE  /\ LoadCells(img) \in Seq(Cell)
         /\ ~SegmentsCollide(img) => Distinct(LoadCells(img))
         /\ Elements(LoadCells(img)) \subseteq {Tab(1)} \cup {Frame(1, j) : j \in 0 .. ENTRIES - 1}
         /\ \A j \in LoadPagesOf(img) : Frame(1, j) \in Elements(LoadCells(img))
         /\ LoadPagesOf(img) # {} => Tab(1) \in Elements(LoadCells(img))
         /\ LoadPagesOf(img) = {} => Elements(LoadCells(img)) = {}
PROOF
  <1> DEFINE pages == LoadPages(img)
             S == 0 .. ENTRIES - 1
             F1 == {Frame(1, j) : j \in S}
             frames == [k \in DOMAIN pages |-> Frame(1, pages[k])]
  <1>1. /\ pages \in Seq(S) /\ Elements(pages) = LoadPagesOf(img)
        /\ ~SegmentsCollide(img) => Distinct(pages)
    BY LoadPagesAre
  <1>2. LoadCells(img) = IF frames = << >> THEN << >> ELSE <<Head(frames), Tab(1)>> \o Tail(frames)
    BY DEF LoadCells
  <1>3. F1 \subseteq Cell /\ Tab(1) \in Cell /\ Tab(1) \notin F1
    BY Cells DEF Cell, Frames, Area
  <1> HIDE DEF pages, S
  <1>4. DOMAIN pages = 1 .. Len(pages) /\ Len(pages) \in Nat
    BY <1>1
  <1>5. /\ frames \in Seq(F1) /\ Len(frames) = Len(pages)
        /\ \A k \in 1 .. Len(pages) : frames[k] = Frame(1, pages[k])
    BY <1>1, <1>4
  <1>6. Elements(frames) = {Frame(1, j) : j \in LoadPagesOf(img)}
    <2>1. Elements(frames) = {Frame(1, j) : j \in Elements(pages)}
      <3> HIDE DEF frames
      <3> QED BY <1>5 DEF Elements
    <2> QED BY <1>1, <2>1
  <1>7. ~SegmentsCollide(img) => Distinct(frames)
    <2> HIDE DEF frames
    <2> QED BY <1>1, <1>5, Cells DEF Distinct
  <1> HIDE DEF frames, F1
  <1>8. CASE frames = << >>
    <2>1. LoadCells(img) = << >>
      BY <1>2, <1>8
    <2>2. Elements(<< >>) = {} /\ Distinct(<< >>) /\ << >> \in Seq(Cell)
      BY DEF Elements, Distinct
    <2>3. LoadPagesOf(img) = {}
      BY <1>6, <1>8, <2>2
    <2> QED BY <2>1, <2>2, <2>3
  <1>9. CASE frames # << >>
    <2> DEFINE h == Head(frames)
               q == Tail(frames)
               p == <<h, Tab(1)>>
    <2>1. /\ h \in F1 /\ q \in Seq(F1)
          /\ Elements(frames) = {h} \cup Elements(q)
          /\ Distinct(frames) => Distinct(q) /\ h \notin Elements(q)
      BY <1>5, <1>9, HeadAndTail
    <2>2. LoadCells(img) = p \o q
      BY <1>2, <1>9
    <2> HIDE DEF h, q
    <2>3. p \in Seq(Cell) /\ q \in Seq(Cell)
      <3>1. h \in Cell
        BY <1>3, <2>1
      <3>2. Seq(F1) \subseteq Seq(Cell)
        BY <1>3
      <3> QED BY <1>3, <2>1, <3>1, <3>2
    <2>4. Elements(p) = {h, Tab(1)} /\ Distinct(p)
      <3>1. Len(p) = 2 /\ p[1] = h /\ p[2] = Tab(1) /\ h # Tab(1)
        BY <1>3, <2>1
      <3> HIDE DEF p
      <3>2. \A i : i \in 1 .. 2 <=> i = 1 \/ i = 2
        OBVIOUS
      <3> QED BY <3>1, <3>2 DEF Elements, Distinct
    <2> HIDE DEF p
    <2>5. /\ p \o q \in Seq(Cell)
          /\ Elements(p \o q) = Elements(p) \cup Elements(q)
          /\ Distinct(p) /\ Distinct(q) /\ Elements(p) \cap Elements(q) = {} => Distinct(p \o q)
      BY <2>3, Concatenation
    <2>6. Elements(p \o q) = {Tab(1)} \cup {Frame(1, j) : j \in LoadPagesOf(img)}
      BY <1>6, <2>1, <2>4, <2>5
    <2>7. Elements(frames) \subseteq F1
      BY <1>5 DEF Elements
    <2>8. ~SegmentsCollide(img) => Elements(p) \cap Elements(q) = {}
      BY <1>3, <1>7, <2>1, <2>4, <2>7
    <2>9. LoadPagesOf(img) # {}
      BY <1>6, <2>1
    <2> QED BY <1>6, <1>7, <2>1, <2>2, <2>4, <2>5, <2>6, <2>7, <2>8, <2>9 DEF F1, S
  <1> QED BY <1>8, <1>9

(* The cells of a stack: the first frame that is not mapped, and the table   *)
(* unless there is one                                                      *)
LEMMA StackCellsAre ==
  ASSUME NEW s, Unmapped(s) # << >>
  PROVE  /\ StackCells(s) \in Seq(Cell) /\ Distinct(StackCells(s))
         /\ Elements(StackCells(s)) \cap DOMAIN s = {}
         /\ \E i \in Area, j \in 0 .. ENTRIES - 1 :
              /\ Frame(i, j) \in Elements(StackCells(s))
              /\ Elements(StackCells(s)) \subseteq {Frame(i, j), Tab(i)}
              /\ Tab(i) \in DOMAIN s \cup Elements(StackCells(s))
PROOF
  <1> DEFINE f == Head(Unmapped(s))
  <1>1. f \in Frames \ DOMAIN s
    <2>1. Unmapped(s) \in Seq(Cell) /\ Elements(Unmapped(s)) = Below \cap (Frames \ DOMAIN s)
      BY ChosenIs DEF Unmapped
    <2>2. Head(Unmapped(s)) \in Elements(Unmapped(s))
      BY <2>1, HeadAndTail
    <2> QED BY <2>1, <2>2
  <1>2. StackCells(s) = IF Tab(f[2]) \in DOMAIN s THEN <<f>> ELSE <<f, Tab(f[2])>>
    BY DEF StackCells
  <1> HIDE DEF f
  <1>3. PICK i \in Area, j \in 0 .. ENTRIES - 1 : f = Frame(i, j)
    BY <1>1 DEF Frames
  <1>4. f[2] = i /\ f # Tab(i) /\ f \in Cell /\ Tab(i) \in Cell
    BY <1>1, <1>3, Cells DEF Cell
  <1>5. CASE Tab(i) \in DOMAIN s
    <2> DEFINE p == <<f>>
    <2>1. StackCells(s) = p /\ p \in Seq(Cell) /\ Len(p) = 1 /\ p[1] = f
      BY <1>2, <1>4, <1>5
    <2> HIDE DEF p
    <2>2. Elements(p) = {f} /\ Distinct(p)
      BY <2>1 DEF Elements, Distinct
    <2> QED BY <1>1, <1>3, <1>5, <2>1, <2>2
  <1>6. CASE Tab(i) \notin DOMAIN s
    <2> DEFINE p == <<f, Tab(i)>>
    <2>1. StackCells(s) = p /\ p \in Seq(Cell) /\ Len(p) = 2 /\ p[1] = f /\ p[2] = Tab(i)
      BY <1>2, <1>4, <1>6
    <2> HIDE DEF p
    <2>2. Elements(p) = {f, Tab(i)} /\ Distinct(p)
      <3>1. \A k : k \in 1 .. 2 <=> k = 1 \/ k = 2
        OBVIOUS
      <3> QED BY <1>4, <2>1, <3>1 DEF Elements, Distinct
    <2> QED BY <1>1, <1>3, <1>6, <2>1, <2>2
  <1> QED BY <1>5, <1>6

(* While a frame is unmapped, there is a first one.                         *)
LEMMA FirstUnmapped ==
  ASSUME NEW s, NEW c \in Frames, c \notin DOMAIN s
  PROVE  Unmapped(s) # << >>
PROOF
  <1>1. Elements(Unmapped(s)) = Below \cap (Frames \ DOMAIN s)
    BY ChosenIs DEF Unmapped
  <1>2. c \in Below
    <2>1. c # Dir
      BY Cells DEF Frames
    <2> QED BY <2>1 DEF Below, Cell
  <1>3. c \in Elements(Unmapped(s))
    BY <1>1, <1>2
  <1>4. Elements(<< >>) = {}
    BY DEF Elements
  <1> QED BY <1>3, <1>4

-----------------------------------------------------------------------------
(***************************************************************************)
(* 3. What is built and what is still to be built, Planned, never has a     *)
(* frame without its table, and never the same cell twice unless segments  *)
(* of the program collide.  A program is loaded below directory entry 1     *)
(* only, so that its stack finds a free cell below entry 0.                 *)
(***************************************************************************)
Closed(C) ==
  \A i \in Area, j \in 0 .. ENTRIES - 1 : Frame(i, j) \in C => Tab(i) \in C
HasFrame(C) == \E i \in Area, j \in 0 .. ENTRIES - 1 : Frame(i, j) \in C
Whole(C) == Dir \in C /\ Closed(C) /\ HasFrame(C)
Programs == {Dir, Tab(1)} \cup {Frame(1, j) : j \in 0 .. ENTRIES - 1}

Planned == DOMAIN building \cup Elements(todo)
Fresh   == Distinct(todo) /\ Elements(todo) \cap DOMAIN building = {}

Plan ==
  /\ Closed(Planned)
  /\ phase = "stack" => HasFrame(Planned)
  /\ phase = "create" => Planned \subseteq {Dir}
  /\ phase = "load" => Planned \subseteq Programs
  /\ phase # "load" \/ ~SegmentsCollide(image) => Fresh

Formed == /\ \A t \in Live : Whole(DOMAIN space[t])
          /\ Plan
SInv == TypeOK /\ Formed /\ CollisionsFromImages

LEMMA EmptySequence == Elements(<< >>) = {} /\ Distinct(<< >>)
BY DEF Elements, Distinct

LEMMA OneElement ==
  ASSUME NEW c
  PROVE  Elements(<<c>>) = {c} /\ Distinct(<<c>>)
PROOF
  <1> DEFINE q == <<c>>
  <1>1. Len(q) = 1 /\ q[1] = c
    OBVIOUS
  <1> HIDE DEF q
  <1>2. Elements(q) = {c} /\ Distinct(q)
    BY <1>1 DEF Elements, Distinct
  <1> QED BY <1>2 DEF q

LEMMA InitSInv == Init => SInv
PROOF
  <1> SUFFICES ASSUME Init PROVE SInv
    OBVIOUS
  <1>1. \A t \in Task : space[t] = NoSpace
    BY DEF Init
  <1>2. TypeOK
    BY <1>1, Empty DEF Init, TypeOK, Phases, Halts
  <1>3. Planned = {} /\ Fresh
    BY Empty, EmptySequence DEF Init, Planned, Fresh
  <1>4. Formed
    BY <1>1, <1>3 DEF Init, Formed, Plan, Live, Closed
  <1>5. CollisionsFromImages
    BY DEF Init, CollisionsFromImages
  <1> QED BY <1>2, <1>4, <1>5 DEF SInv

(* Nothing but what a task runs with is changed.                            *)
LEMMA SamePlan ==
  ASSUME Plan, UNCHANGED <<phase, image, building, todo>>
  PROVE  Plan'
BY DEF Plan, Planned, Fresh

LEMMA IdlePlan ==
  ASSUME Plan, UNCHANGED <<image, building, todo>>,
         phase \in {"user", "exit"}, phase' \in {"user", "exit"}
  PROVE  Plan'
BY DEF Plan, Planned, Fresh

LEMMA CreateSInv ==
  ASSUME halted = "no", Sound, SInv, NEW img, NEW t, Create(img, t),
         img \in Images \cup {NULL}, t \in Task \cup {NULL}
  PROVE  SInv'
PROOF
  <1>1. Dir \in Cell /\ <<Dir>> \in Seq(Cell)
    BY DEF Cell
  <1>2. TypeOK'
    BY <1>1, Empty DEF SInv, TypeOK, Create, Phases
  <1>3. Planned' = {Dir} /\ Fresh'
    BY Empty, OneElement DEF Create, Planned, Fresh
  <1>4. Formed'
    <2>1. Live' = Live /\ space' = space /\ phase' = "create"
      BY DEF Live, Create
    <2> QED BY <1>3, <2>1, Cells DEF SInv, Formed, Plan, Closed
  <1>5. CollisionsFromImages'
    BY DEF Create, CollisionsFromImages
  <1> QED BY <1>2, <1>4, <1>5 DEF SInv

LEMMA LoadSInv ==
  ASSUME halted = "no", Sound, SInv, Load
  PROVE  SInv'
PROOF
  <1>1. image \in Images /\ image' = image /\ building' = building /\ phase' = "load"
    BY DEF SInv, TypeOK, Load
  <1>2. /\ todo' = LoadCells(image) /\ todo' \in Seq(Cell)
        /\ ~SegmentsCollide(image) => Distinct(todo')
        /\ Elements(todo') \subseteq {Tab(1)} \cup {Frame(1, j) : j \in 0 .. ENTRIES - 1}
        /\ LoadPagesOf(image) # {} => Tab(1) \in Elements(todo')
        /\ LoadPagesOf(image) = {} => Elements(todo') = {}
    BY <1>1, LoadCellsAre DEF Load
  <1>3. TypeOK'
    BY <1>2 DEF SInv, TypeOK, Load, Phases
  <1>4. DOMAIN building = {Dir}
    <2>1. todo = << >> /\ Dir \in DOMAIN building
      BY DEF Sound, Construction, Load, Done
    <2> QED BY <2>1 DEF SInv, Formed, Plan, Planned, Load, Done
  <1>5. Plan'
    BY <1>1, <1>2, <1>4, Cells DEF Plan, Planned, Fresh, Closed, Programs
  <1>6. Formed'
    BY <1>5 DEF SInv, Formed, Load, Live
  <1>7. CollisionsFromImages'
    BY DEF Load, CollisionsFromImages
  <1> QED BY <1>3, <1>6, <1>7 DEF SInv

(* What TypeOK says of one address space                                    *)
LEMMA SpaceTyped ==
  ASSUME TypeOK, NEW t \in Live
  PROVE  /\ t \in Task /\ DOMAIN space[t] \subseteq Cell /\ Pages(space[t]) \subseteq Page
         /\ Dir \in DOMAIN space[t] => space[t][Dir] \in Page
BY DEF TypeOK, Live, Pages

LEMMA StartCopySInv ==
  ASSUME halted = "no", Sound, SInv, StartCopy
  PROVE  SInv'
PROOF
  <1>1. running \in Live /\ Dir \in DOMAIN building /\ todo = << >> /\ phase = "create"
    BY DEF Sound, Construction, Directories, Current, StartCopy, Done
  <1> DEFINE D == DOMAIN space[running]
  <1>2. D \subseteq Cell /\ Closed(D)
    BY <1>1, SpaceTyped DEF SInv, Formed, Whole
  <1>3. DOMAIN building = {Dir}
    BY <1>1 DEF SInv, Formed, Plan, Planned
  <1>4. /\ todo' \in Seq(Cell) /\ Distinct(todo')
        /\ Elements(todo') = Below \cap D
    BY ChosenIs DEF StartCopy, CopyCells
  <1>5. TypeOK'
    BY <1>4 DEF SInv, TypeOK, StartCopy, Phases
  <1>6. Planned' = {Dir} \cup (Below \cap D) /\ Fresh'
    BY <1>3, <1>4 DEF StartCopy, Planned, Fresh, Below
  <1> HIDE DEF D
  <1>7. Closed(Planned')
    <2>1. \A i \in Area : Tab(i) \in Below
      BY Cells DEF Below, Cell
    <2> QED BY <1>2, <1>6, <2>1, Cells DEF Closed
  <1>8. Formed'
    BY <1>6, <1>7 DEF SInv, Formed, Plan, StartCopy, Live
  <1>9. CollisionsFromImages'
    BY DEF StartCopy, CollisionsFromImages
  <1> QED BY <1>5, <1>8, <1>9 DEF SInv

(* The stack is planned for the complete building.                          *)
LEMMA StackPlan ==
  ASSUME Plan, todo = << >>, Unmapped(building) # << >>,
         building' = building, todo' = StackCells(building), phase' = "stack"
  PROVE  Plan' /\ todo' \in Seq(Cell)
PROOF
  <1> DEFINE D == DOMAIN building
             E == Elements(todo')
  <1>1. Planned = D /\ Closed(D)
    BY EmptySequence DEF Plan, Planned
  <1>2. todo' \in Seq(Cell) /\ Fresh' /\ Planned' = D \cup E
    BY StackCellsAre DEF Fresh, Planned
  <1>3. PICK i \in Area, j \in 0 .. ENTRIES - 1 :
          Frame(i, j) \in E /\ E \subseteq {Frame(i, j), Tab(i)} /\ Tab(i) \in D \cup E
    BY StackCellsAre
  <1> HIDE DEF D, E
  <1>4. Closed(Planned') /\ HasFrame(Planned')
    BY <1>1, <1>2, <1>3, Cells DEF Closed, HasFrame
  <1> QED BY <1>2, <1>4 DEF Plan

LEMMA EndCopySInv ==
  ASSUME halted = "no", Sound, SInv, EndCopy
  PROVE  SInv'
PROOF
  <1>1. running \in Live /\ todo = << >> /\ phase = "copy"
    BY DEF Sound, Directories, EndCopy, Done
  <1>2. cr3' \in Page
    BY <1>1, SpaceTyped DEF SInv, Formed, Whole, EndCopy
  <1>3. owner' \in Task
    BY DEF EndCopy, FreeSlots
  <1>4. CASE Unmapped(building) = << >>
    <2>1. UNCHANGED <<phase, image, building, todo>> /\ halted' = "no_entry"
      BY <1>4 DEF EndCopy
    <2>2. TypeOK'
      BY <1>2, <1>3, <2>1 DEF SInv, TypeOK, EndCopy, Halts
    <2>3. Plan'
      BY <2>1, SamePlan DEF SInv, Formed
    <2> QED BY <2>1, <2>2, <2>3 DEF SInv, Formed, CollisionsFromImages, EndCopy, Live
  <1>5. CASE Unmapped(building) # << >>
    <2>1. phase' = "stack" /\ todo' = StackCells(building) /\ building' = building /\ halted' = "no"
      BY <1>5 DEF EndCopy
    <2>2. Plan' /\ todo' \in Seq(Cell)
      BY <1>1, <1>5, <2>1, StackPlan DEF SInv, Formed
    <2>3. TypeOK'
      BY <1>2, <1>3, <2>1, <2>2 DEF SInv, TypeOK, EndCopy, Phases
    <2> QED BY <2>1, <2>2, <2>3 DEF SInv, Formed, CollisionsFromImages, EndCopy, Live
  <1> QED BY <1>4, <1>5

(* A construction is given up, or there is none any more.                   *)
LEMMA NoPlan ==
  ASSUME building' = NoSpace, Rest
  PROVE  Plan' /\ image' \in Images \cup {NULL} /\ owner' \in Task \cup {NULL}
         /\ todo' \in Seq(Cell) /\ phase' \in Phases
         /\ DOMAIN building' \subseteq Cell /\ Pages(building') \subseteq Page
PROOF
  <1>1. Planned' = {} /\ Fresh'
    BY Empty, EmptySequence DEF Rest, Planned, Fresh
  <1> QED BY <1>1, Empty DEF Rest, Plan, Closed, Phases

LEMMA ForkFailsSInv ==
  ASSUME halted = "no", Sound, SInv, ForkFails
  PROVE  SInv'
PROOF
  <1>1. running \in Live
    BY DEF Sound, Directories, ForkFails, Done
  <1>2. cr3' \in Page
    BY <1>1, SpaceTyped DEF SInv, Formed, Whole, ForkFails
  <1>3. TypeOK'
    BY <1>2, NoPlan DEF SInv, TypeOK, ForkFails, Freed, Halts
  <1>4. Formed'
    BY NoPlan DEF SInv, Formed, ForkFails, Live
  <1> QED BY <1>3, <1>4 DEF SInv, CollisionsFromImages, ForkFails

LEMMA LoadFailsSInv ==
  ASSUME halted = "no", Sound, SInv, LoadFails
  PROVE  SInv'
PROOF
  <1>1. TypeOK'
    BY NoPlan DEF SInv, TypeOK, LoadFails, Freed, Halts
  <1>2. Formed'
    BY NoPlan DEF SInv, Formed, LoadFails, Live
  <1> QED BY <1>1, <1>2 DEF SInv, CollisionsFromImages, LoadFails

LEMMA ReplaceSInv ==
  ASSUME halted = "no", Sound, SInv, Replace
  PROVE  SInv'
PROOF
  <1>1. /\ phase = "load" /\ todo = << >> /\ owner \in Task /\ image \in Images
        /\ phase' = "stack" /\ todo' = StackCells(building) /\ building' = building
        /\ halted' = "no" /\ image' = image /\ owner' = owner
    BY DEF Sound, Construction, SInv, TypeOK, Replace, Done
  <1>2. space'[owner] = NoSpace /\ \A u \in Task \ {owner} : space'[u] = space[u]
    BY <1>1 DEF Sound, Replace
  <1>3. Unmapped(building) # << >>
    <2>1. Frame(0, 0) \in Frames
      BY EntriesAssumption DEF Frames, Area
    <2>2. DOMAIN building \subseteq Programs
      BY <1>1 DEF SInv, Formed, Plan, Planned
    <2>3. Frame(0, 0) \notin DOMAIN building
      BY <2>2, Cells DEF Programs
    <2> QED BY <2>1, <2>3, FirstUnmapped
  <1>4. Plan' /\ todo' \in Seq(Cell)
    BY <1>1, <1>3, StackPlan DEF SInv, Formed
  <1>5. cr3' \in Page \cup {NULL}
    BY DEF SInv, TypeOK, Replace, Cr3After
  <1>6. free' \subseteq Page
    BY <1>1 DEF SInv, TypeOK, Replace, Freed
  <1>7. TypeOK'
    BY <1>1, <1>2, <1>4, <1>5, <1>6, Empty DEF SInv, TypeOK, Replace, Phases
  <1>8. \A t \in Live' : t \in Live /\ space'[t] = space[t]
    BY <1>2 DEF Live
  <1>9. Formed'
    BY <1>4, <1>8 DEF SInv, Formed
  <1> QED BY <1>1, <1>7, <1>9 DEF SInv, CollisionsFromImages

LEMMA InstallSInv ==
  ASSUME halted = "no", Sound, SInv, Install
  PROVE  SInv'
PROOF
  <1>1. phase = "stack" /\ todo = << >> /\ owner \in Task /\ Dir \in DOMAIN building
    BY DEF Sound, Construction, Install, Done
  <1>2. space'[owner] = building /\ \A u \in Task \ {owner} : space'[u] = space[u]
    BY <1>1 DEF Sound, Install
  <1>3. Whole(DOMAIN building)
    BY <1>1, EmptySequence DEF SInv, Formed, Plan, Planned, Whole
  <1>4. building[Dir] \in Page
    BY <1>1 DEF SInv, TypeOK, Pages
  <1>5. TypeOK'
    BY <1>1, <1>2, <1>4, NoPlan DEF SInv, TypeOK, Install
  <1>6. Formed'
    BY <1>2, <1>3, NoPlan DEF SInv, Formed, Install, Live
  <1> QED BY <1>5, <1>6 DEF SInv, CollisionsFromImages, Install

LEMMA SwitchSInv ==
  ASSUME halted = "no", Sound, SInv, NEW t \in Task, Switch(t)
  PROVE  SInv'
PROOF
  <1>1. cr3' \in Page
    BY SpaceTyped DEF SInv, Formed, Whole, Switch
  <1>2. TypeOK'
    BY <1>1 DEF SInv, TypeOK, Switch, work, Phases
  <1>3. Plan'
    BY IdlePlan DEF SInv, Formed, Switch, work
  <1>4. Formed'
    BY <1>3 DEF SInv, Formed, Switch, Live
  <1> QED BY <1>2, <1>4 DEF SInv, CollisionsFromImages, Switch

LEMMA ExitSInv ==
  ASSUME halted = "no", Sound, SInv, Exit
  PROVE  SInv'
PROOF
  <1>1. running \in Task /\ running # init_task
    BY DEF Sound, Directories, Exit
  <1>2. space'[running] = NoSpace /\ \A u \in Task \ {running} : space'[u] = space[u]
    BY <1>1 DEF Sound, Exit
  <1>3. cr3' \in Page \cup {NULL}
    BY DEF SInv, TypeOK, Exit, Cr3After
  <1>4. free' \subseteq Page
    BY <1>1 DEF SInv, TypeOK, Exit, Freed
  <1>5. TypeOK'
    BY <1>1, <1>2, <1>3, <1>4, Empty DEF SInv, TypeOK, Exit, work, Phases
  <1>6. \A u \in Live' : u \in Live /\ space'[u] = space[u]
    BY <1>2 DEF Live
  <1>7. Plan'
    BY IdlePlan DEF SInv, Formed, Exit, work
  <1>8. Formed'
    BY <1>6, <1>7 DEF SInv, Formed
  <1> QED BY <1>5, <1>8 DEF SInv, CollisionsFromImages, Exit

LEMMA ReapSInv ==
  ASSUME halted = "no", Sound, SInv, NEW t \in Task, Reap(t)
  PROVE  SInv'
PROOF
  <1>1. TypeOK'
    BY DEF SInv, TypeOK, Reap, work
  <1>2. Formed'
    BY SamePlan DEF SInv, Formed, Reap, work, Live
  <1> QED BY <1>1, <1>2 DEF SInv, CollisionsFromImages, Reap

(***************************************************************************)
(* The next cell: a page that is mapped already is met only in a program    *)
(* whose segments collide.                                                  *)
(***************************************************************************)
LEMMA TakeSInv ==
  ASSUME halted = "no", Sound, SInv, Take
  PROVE  SInv'
PROOF
  <1> DEFINE c == Head(todo)
             a == Lowest(free)
  <1>1. /\ c \in Cell /\ todo' \in Seq(Cell)
        /\ Elements(todo) = {c} \cup Elements(todo')
        /\ Distinct(todo) => Distinct(todo') /\ c \notin Elements(todo')
    BY HeadAndTail DEF SInv, TypeOK, Take, Taking
  <1>2. a \in free /\ a \in Page
    BY LowestIsFree, PageAssumption DEF Sound, PagesConserved, SInv, TypeOK, Take
  <1>3. /\ building' = [b \in DOMAIN building \cup {c} |-> IF b = c THEN a ELSE building[b]]
        /\ free' = free \ {a}
        /\ UNCHANGED <<space, zombies, cr3, running, phase, image, owner, halted>>
    BY DEF Take
  <1> HIDE DEF c, a
  <1>4. DOMAIN building' = DOMAIN building \cup {c} /\ Pages(building') \subseteq Pages(building) \cup {a}
    BY <1>3 DEF Pages
  <1>5. TypeOK'
    BY <1>1, <1>2, <1>3, <1>4 DEF SInv, TypeOK
  <1>6. Planned' = Planned
    BY <1>1, <1>4 DEF Planned
  <1>7. Fresh => Fresh'
    BY <1>1, <1>4 DEF Fresh
  <1>8. Formed'
    BY <1>3, <1>6, <1>7 DEF SInv, Formed, Plan, Live
  <1> QED BY <1>3, <1>5, <1>8 DEF SInv, CollisionsFromImages

LEMMA TakeFailsSInv ==
  ASSUME halted = "no", Sound, SInv, TakeFails
  PROVE  SInv'
PROOF
  <1>1. UNCHANGED <<free, space, zombies, cr3, running, phase, image, building, owner, todo>>
    BY DEF TakeFails, work
  <1>2. TypeOK'
    BY <1>1 DEF SInv, TypeOK, TakeFails, Halts
  <1>3. Formed'
    BY <1>1, SamePlan DEF SInv, Formed, Live
  <1>4. ASSUME halted' = "mapped"
        PROVE  phase = "load" /\ SegmentsCollide(image)
    <2>1. Head(todo) \in DOMAIN building
      BY <1>4 DEF TakeFails
    <2>2. Head(todo) \in Elements(todo)
      BY HeadAndTail DEF SInv, TypeOK, TakeFails, Taking
    <2> QED BY <2>1, <2>2 DEF SInv, Formed, Plan, Fresh
  <1> QED BY <1>1, <1>2, <1>3, <1>4 DEF SInv, CollisionsFromImages

LEMMA NextSInv == IInv /\ SInv /\ [Next]_vars => SInv'
PROOF
  <1> SUFFICES ASSUME IInv, SInv, [Next]_vars
               PROVE  SInv'
    OBVIOUS
  <1>1. CASE UNCHANGED vars
    <2>1. TypeOK' /\ CollisionsFromImages'
      BY <1>1 DEF SInv, TypeOK, CollisionsFromImages, vars, work
    <2>2. Formed'
      BY <1>1, SamePlan DEF SInv, Formed, vars, work, Live
    <2> QED BY <2>1, <2>2 DEF SInv
  <1>2. ASSUME halted = "no"
        PROVE  Sound
    BY <1>2 DEF IInv
  <1>3. CASE BootInit
    BY <1>2, <1>3, CreateSInv, TaskAssumption DEF BootInit, Create
  <1>4. CASE StartExec
    BY <1>2, <1>4, CreateSInv DEF StartExec, Create, SInv, TypeOK
  <1>5. CASE StartFork
    BY <1>2, <1>5, CreateSInv DEF StartFork, Create
  <1>6. CASE Take
    BY <1>2, <1>6, TakeSInv DEF Take, Taking
  <1>7. CASE TakeFails
    BY <1>2, <1>7, TakeFailsSInv DEF TakeFails, Taking
  <1>8. CASE Load
    BY <1>2, <1>8, LoadSInv DEF Load, Done
  <1>9. CASE LoadFails
    BY <1>2, <1>9, LoadFailsSInv DEF LoadFails, Done
  <1>10. CASE Replace
    BY <1>2, <1>10, ReplaceSInv DEF Replace, Done
  <1>11. CASE StartCopy
    BY <1>2, <1>11, StartCopySInv DEF StartCopy, Done
  <1>12. CASE EndCopy
    BY <1>2, <1>12, EndCopySInv DEF EndCopy, Done
  <1>13. CASE ForkFails
    BY <1>2, <1>13, ForkFailsSInv DEF ForkFails, Done
  <1>14. CASE Install
    BY <1>2, <1>14, InstallSInv DEF Install, Done
  <1>15. ASSUME NEW t \in Task, Switch(t)
         PROVE  SInv'
    BY <1>2, <1>15, SwitchSInv DEF Switch
  <1>16. CASE Exit
    BY <1>2, <1>16, ExitSInv DEF Exit
  <1>17. ASSUME NEW t \in Task, Reap(t)
         PROVE  SInv'
    BY <1>2, <1>17, ReapSInv DEF Reap
  <1>18. CASE Spin
    BY <1>1, <1>18 DEF Spin
  <1> QED
    BY <1>1, <1>3, <1>4, <1>5, <1>6, <1>7, <1>8, <1>9, <1>10, <1>11, <1>12,
       <1>13, <1>14, <1>15, <1>16, <1>17, <1>18 DEF Next

LEMMA SInvAlways == Spec => []SInv
PROOF
  <1>1. Spec => SInv /\ []IInv /\ [][Next]_vars
    BY InitSInv, IInvAlways, PTL DEF Spec
  <1> QED BY <1>1, NextSInv, PTL

-----------------------------------------------------------------------------
(***************************************************************************)
(* 4. What elf_loader writes into the frames of a segment: the bytes        *)
(* written before a page are those between the segment's first address and *)
(* the page's.                                                             *)
(***************************************************************************)
LEMMA VAddrIs ==
  ASSUME NEW img \in Images, NEW k \in DOMAIN img.segs, NEW j \in PagesOf(img.segs[k])
  PROVE  LET seg == img.segs[k]
             va  == VAddr(seg, j)
         IN  /\ va \in Nat /\ va % PAGE_SIZE \in 0 .. PAGE_SIZE - 1
             /\ va = PAGE_SIZE * j + (va % PAGE_SIZE)
             /\ seg.vaddr <= va /\ va < seg.vaddr + seg.memsz
             /\ j # FirstPage(seg) => va % PAGE_SIZE = 0
PROOF
  <1> DEFINE seg == img.segs[k]
             v == seg.vaddr
             m == seg.memsz
             F == FirstPage(seg)
             L == LastPage(seg)
             P == PAGE_SIZE
             va == VAddr(seg, j)
  <1>1. v \in Nat /\ m \in Nat /\ m > 0
    <2>1. seg \in Segment
      BY SegmentIs
    <2> QED BY <2>1 DEF Segment
  <1>2. P \in Nat /\ P > 0
    BY EntriesAssumption
  <1>3. F \in Nat /\ L \in Nat /\ P * L < v + m
    BY PagesInTable
  <1>4. j \in F .. L
    BY DEF PagesOf
  <1>5. va = IF j = F THEN v ELSE j * P
    BY DEF VAddr
  <1>6. v \div P = F /\ v % P \in 0 .. P - 1 /\ v = P * F + (v % P)
    BY <1>1, <1>2, DivMod DEF FirstPage
  <1> HIDE DEF v, m, F, L, P, va
  <1> DEFINE Right == /\ va \in Nat /\ va % P \in 0 .. P - 1
                      /\ va = P * j + (va % P)
                      /\ v <= va /\ va < v + m
                      /\ j # F => va % P = 0
  <1>7. ASSUME j = F
        PROVE  Right
    <2>1. va = v
      BY <1>5, <1>7
    <2>2. va % P \in 0 .. P - 1 /\ va = P * j + (va % P)
      BY <1>6, <1>7, <2>1
    <2>3. v <= va /\ va < v + m
      BY <1>1, <2>1
    <2> QED BY <1>1, <1>7, <2>1, <2>2, <2>3
  <1>8. ASSUME j # F
        PROVE  Right
    <2>1. j \in Nat /\ F + 1 <= j /\ j <= L
      BY <1>3, <1>4, <1>8
    <2>2. P * (F + 1) <= P * j /\ P * j <= P * L /\ P * j \in Nat /\ P * L \in Nat
      BY <1>2, <1>3, <2>1, SMTT(60)
    <2>3. va = P * j /\ va = P * j + 0 /\ 0 \in 0 .. P - 1
      BY <1>2, <1>5, <1>8, <2>1, <2>2
    <2>4. va % P = 0
      BY <1>2, <2>1, <2>2, <2>3, DivIs, SMTT(60)
    <2>5. v < P * (F + 1)
      <3> DEFINE r == v % P
      <3>1. r \in 0 .. P - 1 /\ v = P * F + r
        BY <1>6
      <3> HIDE DEF r
      <3>2. P * (F + 1) = P * F + P /\ P * F \in Nat
        BY <1>2, <1>3
      <3> QED BY <1>2, <3>1, <3>2
    <2>6. P * (F + 1) \in Nat
      BY <1>2, <1>3
    <2>7. v <= va /\ va < v + m
      BY <1>1, <1>3, <2>2, <2>3, <2>5, <2>6
    <2>8. va % P \in 0 .. P - 1 /\ va = P * j + (va % P)
      BY <2>3, <2>4
    <2> QED BY <2>2, <2>3, <2>4, <2>7, <2>8
  <1> HIDE DEF Right
  <1>9. Right
    BY <1>7, <1>8
  <1> QED BY <1>9, Zenon DEF Right, v, m, F, P, va

LEMMA WriteSizeIs ==
  ASSUME NEW img \in Images, NEW k \in DOMAIN img.segs, NEW j \in PagesOf(img.segs[k]),
         j + 1 \in PagesOf(img.segs[k])
  PROVE  WriteSize(img.segs[k], j) = VAddr(img.segs[k], j + 1) - VAddr(img.segs[k], j)
PROOF
  <1> DEFINE seg == img.segs[k]
             e == seg.vaddr + seg.memsz
             P == PAGE_SIZE
             va == VAddr(seg, j)
             vb == VAddr(seg, j + 1)
             r == va % P
  <1>1. /\ va \in Nat /\ r \in 0 .. P - 1 /\ va = P * j + r
        /\ vb \in Nat /\ vb < e
    BY VAddrIs
  <1>2. P \in Nat /\ P > 0 /\ e \in Nat
    <2>1. seg \in Segment
      BY SegmentIs
    <2> QED BY <2>1, EntriesAssumption DEF Segment
  <1>3. j \in Nat /\ j + 1 # FirstPage(seg)
    BY PagesInTable DEF PagesOf
  <1>4. vb = (j + 1) * P
    BY <1>3 DEF VAddr
  <1>5. WriteSize(seg, j) = IF e - va <= P - r THEN e - va ELSE P - r
    <2> DEFINE d == seg.vaddr + seg.memsz - va
    <2>1. WriteSize(seg, j) = IF d <= P - r THEN d ELSE P - r
      BY Zenon DEF WriteSize, Min2
    <2>2. seg \in Segment
      BY SegmentIs
    <2>3. seg.vaddr \in Nat /\ seg.memsz \in Nat
      BY <2>2 DEF Segment
    <2>4. d = e - va
      <3> HIDE DEF va
      <3> QED BY <1>1, <2>3
    <2> QED BY <2>1, <2>4
  <1> HIDE DEF e, P, va, vb, r
  <1>6. P - r = vb - va
    <2>1. (j + 1) * P = P * j + P /\ P * j \in Nat
      BY <1>2, <1>3
    <2> QED BY <1>1, <1>2, <1>4, <2>1
  <1>7. ~(e - va <= P - r)
    BY <1>1, <1>2, <1>6
  <1> QED BY <1>5, <1>6, <1>7 DEF va, vb

LEMMA WriteBytesIs ==
  ASSUME NEW img \in Images, NEW k \in DOMAIN img.segs, NEW j \in PagesOf(img.segs[k])
  PROVE  WriteBytes(img.segs[k], j) = VAddr(img.segs[k], j) - img.segs[k].vaddr
PROOF
  <1> DEFINE seg == img.segs[k]
             v == seg.vaddr
             F == FirstPage(seg)
             VA(i) == VAddr(seg, i)
             Is(at) == at = [i \in F .. j |-> IF i = F THEN 0 ELSE at[i - 1] + WriteSize(seg, i - 1)]
  <1>1. v \in Nat
    <2>1. seg \in Segment
      BY SegmentIs
    <2> QED BY <2>1 DEF Segment
  <1>2. F \in Nat /\ j \in Nat /\ F <= j /\ \A i \in F .. j : i \in PagesOf(seg)
    <2>1. F \in Nat /\ LastPage(seg) \in Nat /\ j \in F .. LastPage(seg)
      BY PagesInTable DEF PagesOf
    <2> QED BY <2>1 DEF PagesOf
  <1>3. VA(F) = v /\ \A i \in F .. j : VA(i) \in Nat
    <2>1. VA(F) = v
      BY DEF VAddr
    <2> QED BY <1>2, <2>1, VAddrIs
  <1>4. ASSUME NEW i \in F .. j, i # F
        PROVE  WriteSize(seg, i - 1) = VA(i) - VA(i - 1)
    <2>1. i - 1 \in F .. j /\ (i - 1) + 1 = i
      BY <1>2, <1>4
    <2>2. i - 1 \in PagesOf(seg) /\ i \in PagesOf(seg)
      BY <1>2, <2>1
    <2> QED BY <2>1, <2>2, WriteSizeIs
  <1>5. WriteBytes(seg, j) = (CHOOSE at : Is(at))[j]
    BY DEF WriteBytes
  <1> HIDE DEF seg, v, F, VA
  <1>6. \E at : Is(at)
    <2> DEFINE g == [i \in F .. j |-> VA(i) - v]
    <2>1. ASSUME NEW i \in F .. j
          PROVE  g[i] = IF i = F THEN 0 ELSE g[i - 1] + WriteSize(seg, i - 1)
      <3>1. CASE i = F
        BY <1>1, <1>3, <3>1
      <3>2. CASE i # F
        <4>1. i - 1 \in F .. j
          BY <1>2, <3>2
        <4>2. g[i - 1] = VA(i - 1) - v /\ g[i] = VA(i) - v
          BY <4>1
        <4>3. VA(i) \in Nat /\ VA(i - 1) \in Nat
          BY <1>3, <4>1
        <4> QED BY <1>1, <1>4, <3>2, <4>2, <4>3
      <3> QED BY <3>1, <3>2
    <2>2. Is(g)
      BY <2>1
    <2> HIDE DEF g, Is
    <2> QED BY <2>2
  <1> DEFINE w == CHOOSE at : Is(at)
  <1>7. Is(w)
    <2> HIDE DEF Is
    <2> QED BY <1>6
  <1> HIDE DEF w
  <1> DEFINE T == {n \in 0 .. j - F : w[F + n] = VA(F + n) - v}
  <1>8. 0 \in T
    <2>1. F \in F .. j /\ F + 0 = F /\ 0 \in 0 .. j - F
      BY <1>2
    <2> QED BY <1>1, <1>3, <1>7, <2>1
  <1>9. ASSUME NEW n \in 0 .. j - F, n # j - F, n \in T
        PROVE  n + 1 \in T
    <2> DEFINE i == F + (n + 1)
    <2>1. i \in F .. j /\ i # F /\ i - 1 = F + n /\ i - 1 \in F .. j /\ n + 1 \in 0 .. j - F
      BY <1>2, <1>9
    <2>2. w[i - 1] = VA(i - 1) - v
      BY <1>9, <2>1
    <2>3. w[i] = w[i - 1] + WriteSize(seg, i - 1)
      BY <1>7, <2>1
    <2>4. VA(i) \in Nat /\ VA(i - 1) \in Nat /\ WriteSize(seg, i - 1) = VA(i) - VA(i - 1)
      BY <1>3, <1>4, <2>1
    <2>5. w[i] = VA(i) - v
      BY <1>1, <2>2, <2>3, <2>4
    <2> QED BY <2>1, <2>5
  <1>10. j - F \in T
    <2>1. j - F \in Nat /\ j - F \in 0 .. j - F
      BY <1>2
    <2> HIDE DEF T
    <2> QED BY <1>8, <1>9, <2>1, Upwards
  <1>11. w[j] = VA(j) - v
    <2>1. F + (j - F) = j
      BY <1>2
    <2> QED BY <1>10, <2>1
  <1> QED BY <1>5, <1>11 DEF seg, v, VA, w

(* Byte i of a segment is in its page what the file, or the zeroing behind   *)
(* what the file has, put there.                                            *)
LEMMA LoadedIs ==
  ASSUME NEW img \in Images, NEW k \in DOMAIN img.segs, NEW i \in 0 .. img.segs[k].memsz - 1
  PROVE  LET seg == img.segs[k]
             a   == seg.vaddr + i
             b   == Loaded(img, seg, a \div PAGE_SIZE)[a % PAGE_SIZE]
         IN  /\ a \div PAGE_SIZE \in PagesOf(seg)
             /\ i >= seg.filesz => b = Zero
             /\ i < seg.filesz /\ seg.offset + i < img.size => b = FileByte(seg.offset + i)
PROOF
  <1> DEFINE seg == img.segs[k]
             v == seg.vaddr
             m == seg.memsz
             z == seg.filesz
             o == seg.offset
             P == PAGE_SIZE
             a == v + i
             j == a \div P
             x == a % P
             va == VAddr(seg, j)
             from == va % P
             write == WriteBytes(seg, j)
             size == WriteSize(seg, j)
             read == IF write < z THEN Min2(size, z - write) ELSE 0
             at(y) == o + write + y - from
             Byte(y) == IF y < from \/ y >= from + size THEN Old
                        ELSE IF y >= from + read THEN Zero
                        ELSE IF at(y) < img.size THEN FileByte(at(y)) ELSE Old
  <1>1. v \in Nat /\ m \in Nat /\ m > 0 /\ z \in Nat /\ o \in Nat /\ img.size \in Nat
    <2>1. seg \in Segment
      BY SegmentIs
    <2>2. img.size \in Nat
      BY ImagesAssumption
    <2>3. v \in Nat /\ m \in Nat /\ m > 0 /\ z \in Nat /\ o \in Nat
      BY <2>1 DEF Segment
    <2> QED BY <2>2, <2>3
  <1>2. P \in Nat /\ P > 0
    BY EntriesAssumption
  <1>3. i \in Nat /\ i < m
    BY <1>1
  <1>4. a \in Nat /\ v <= a /\ a <= v + m - 1 /\ v + m - 1 \in Nat
    <2> HIDE DEF v, m
    <2> QED BY <1>1, <1>3
  <1>5. j \in Nat /\ x \in 0 .. P - 1 /\ a = P * j + x
    <2> HIDE DEF v, P
    <2> QED BY <1>2, <1>4, DivMod
  <1>6. j \in PagesOf(seg)
    <2>1. v \div P <= j /\ j <= (v + m - 1) \div P
      <3> HIDE DEF v, m, P
      <3> QED BY <1>1, <1>2, <1>4, DivOrder
    <2>2. FirstPage(seg) <= j /\ j <= LastPage(seg)
      BY <2>1 DEF FirstPage, LastPage
    <2>3. FirstPage(seg) \in Nat /\ LastPage(seg) \in Nat
      BY PagesInTable
    <2> HIDE DEF j
    <2> QED BY <1>5, <2>2, <2>3 DEF PagesOf
  <1>7. /\ va \in Nat /\ from \in 0 .. P - 1 /\ va = P * j + from /\ v <= va /\ va < v + m
        /\ j # FirstPage(seg) => from = 0
        /\ j = FirstPage(seg) => va = v
    <2>1. j = FirstPage(seg) => va = v
      BY DEF VAddr
    <2> HIDE DEF j
    <2> QED BY <1>6, <2>1, VAddrIs
  <1>8. write = va - v
    <2> HIDE DEF j
    <2> QED BY <1>6, WriteBytesIs
  <1>9. size = IF (v + m) - va <= P - from THEN (v + m) - va ELSE P - from
    <2> DEFINE d == v + m - va
    <2>1. size = IF d <= P - from THEN d ELSE P - from
      BY Zenon DEF WriteSize, Min2
    <2> HIDE DEF v, m, va, P, from, size
    <2>2. d = (v + m) - va
      BY <1>1, <1>7
    <2> QED BY <2>1, <2>2
  <1>10. Loaded(img, seg, j)[x] = Byte(x)
    <2>1. Loaded(img, seg, j) = [y \in 0 .. P - 1 |-> Byte(y)]
      BY Zenon DEF Loaded
    <2> HIDE DEF x, Byte, P
    <2> QED BY <1>5, <2>1
  <1>11. read = IF write < z THEN (IF size <= z - write THEN size ELSE z - write) ELSE 0
    BY Zenon DEF Min2
  <1> HIDE DEF seg, v, m, z, o, P, j, x, va, from, write, size, read
  <1>12. /\ x - from \in Nat /\ x < from + size /\ write \in Nat /\ i = write + (x - from)
         /\ size \in Nat
    <2> DEFINE q == P * j
    <2>1. q \in Nat /\ a = q + x /\ va = q + from
      BY <1>2, <1>5, <1>7
    <2> HIDE DEF q
    <2>2. write \in Nat /\ i = write + (x - from)
      BY <1>1, <1>3, <1>5, <1>7, <1>8, <2>1
    <2>3. x - from \in Nat
      <3>1. CASE j = FirstPage(seg)
        BY <1>3, <1>5, <1>7, <1>8, <2>2, <3>1
      <3>2. CASE j # FirstPage(seg)
        BY <1>5, <1>7, <3>2
      <3> QED BY <3>1, <3>2
    <2>4. x - from < (v + m) - va
      BY <1>1, <1>3, <1>5, <1>7, <1>8, <2>2
    <2>5. x - from < P - from
      BY <1>2, <1>5, <1>7
    <2>6. size \in Nat /\ x - from < size
      BY <1>1, <1>2, <1>7, <1>9, <2>3, <2>4, <2>5
    <2> QED BY <1>5, <1>7, <2>2, <2>3, <2>6
  <1>13. ASSUME i >= z
         PROVE  Byte(x) = Zero
    <2>1. read \in Nat /\ read <= x - from
      BY <1>1, <1>3, <1>11, <1>12, <1>13
    <2>2. ~(x < from) /\ ~(x >= from + size) /\ x >= from + read
      BY <1>2, <1>5, <1>7, <1>12, <2>1
    <2> QED BY <2>2
  <1>14. ASSUME i < z, o + i < img.size
         PROVE  Byte(x) = FileByte(o + i)
    <2>1. read \in Nat /\ x - from < read
      BY <1>1, <1>2, <1>3, <1>5, <1>7, <1>11, <1>12, <1>14
    <2>2. ~(x < from) /\ ~(x >= from + size) /\ ~(x >= from + read)
      BY <1>2, <1>5, <1>7, <1>12, <2>1
    <2>3. at(x) = o + i
      BY <1>1, <1>2, <1>5, <1>7, <1>12
    <2> QED BY <1>14, <2>2, <2>3
  <1> HIDE DEF Byte
  <1>15. /\ j \in PagesOf(seg)
         /\ i >= z => Loaded(img, seg, j)[x] = Zero
         /\ i < z /\ o + i < img.size => Loaded(img, seg, j)[x] = FileByte(o + i)
    BY <1>6, <1>10, <1>13, <1>14
  <1> QED BY <1>15, Zenon DEF seg, v, z, o, P, j, x

-----------------------------------------------------------------------------
(***************************************************************************)
(* 5. The frames of a program that is being loaded are built or planned;    *)
(* those that are built hold their part of it, since the pages that later  *)
(* steps write were free or belong to the old program.                     *)
(***************************************************************************)
ImageFrames == {Frame(1, j) : j \in LoadPagesOf(image)}
Loading     == image # NULL /\ phase \in {"load", "stack"} /\ ~SegmentsCollide(image)

FramesHold ==
  \A k \in DOMAIN image.segs : \A j \in PagesOf(image.segs[k]) :
    Frame(1, j) \in DOMAIN building =>
      data[building[Frame(1, j)]] = Loaded(image, image.segs[k], j)

Filled ==
  /\ DOMAIN data = Page
  /\ phase = "copy" => image = NULL
  /\ Loading =>
       /\ phase = "load" => ImageFrames \subseteq Planned
       /\ phase = "stack" => ImageFrames \subseteq DOMAIN building
       /\ FramesHold

LEMMA InitFilled == Init => Filled
BY DEF Init, Filled, Loading

(* A step outside of a construction, or one that ends it                    *)
LEMMA IdleFilled ==
  ASSUME DOMAIN data' = Page,
         phase' = "copy" => image' = NULL,
         phase' \notin {"load", "stack"} \/ image' = NULL
  PROVE  Filled'
BY DEF Filled, Loading

LEMMA ForgetKeepsPages ==
  ASSUME NEW s, Forget(s)
  PROVE  DOMAIN data' = Page /\ \A a \in Page \ Pages(s) : data'[a] = data[a]
BY DEF Forget

LEMMA LoadFilled ==
  ASSUME halted = "no", Sound, SInv, Filled, Load
  PROVE  Filled'
PROOF
  <1>1. /\ image \in Images /\ image' = image /\ building' = building /\ phase' = "load"
        /\ data' = data /\ todo' = LoadCells(image)
    BY DEF SInv, TypeOK, Load
  <1>2. ImageFrames' \subseteq Planned'
    BY <1>1, LoadCellsAre DEF ImageFrames, Planned
  <1>3. DOMAIN building \subseteq {Dir}
    BY DEF SInv, Formed, Plan, Planned, Load, Done
  <1>4. FramesHold'
    BY <1>1, <1>3, Cells DEF FramesHold
  <1> QED BY <1>1, <1>2, <1>4 DEF Filled

LEMMA ReplaceFilled ==
  ASSUME halted = "no", Sound, SInv, Filled, Replace
  PROVE  Filled'
PROOF
  <1>1. /\ phase = "load" /\ todo = << >> /\ owner \in Task
        /\ phase' = "stack" /\ building' = building /\ image' = image
        /\ Forget(space[owner])
    BY DEF Sound, Construction, Replace, Done
  <1>2. DOMAIN data' = Page /\ \A a \in Page \ Pages(space[owner]) : data'[a] = data[a]
    BY <1>1, ForgetKeepsPages
  <1>3. \A c \in DOMAIN building : building[c] \in Page \ Pages(space[owner])
    <2>1. Pages(space[owner]) \cap Pages(building) = {} /\ Pages(building) \subseteq Page
      BY <1>1 DEF Sound, PagesConserved, SInv, TypeOK
    <2> QED BY <2>1 DEF Pages
  <1>4. ASSUME Loading'
        PROVE  ImageFrames' \subseteq DOMAIN building' /\ FramesHold'
    <2>1. Loading /\ ImageFrames' = ImageFrames
      BY <1>1, <1>4 DEF Loading, ImageFrames
    <2>2. ImageFrames \subseteq DOMAIN building /\ FramesHold
      BY <1>1, <2>1, EmptySequence DEF Filled, Planned
    <2>3. FramesHold'
      BY <1>1, <1>2, <1>3, <2>2 DEF FramesHold
    <2> QED BY <1>1, <2>1, <2>2, <2>3
  <1> QED BY <1>1, <1>2, <1>4 DEF Filled

LEMMA TakeFilled ==
  ASSUME halted = "no", Sound, SInv, Filled, Take
  PROVE  Filled'
PROOF
  <1> DEFINE c == Head(todo)
             a == Lowest(free)
  <1>1. Elements(todo) = {c} \cup Elements(todo')
    BY HeadAndTail DEF SInv, TypeOK, Take, Taking
  <1>2. a \in free /\ a \in Page
    BY LowestIsFree, PageAssumption DEF SInv, TypeOK, Take
  <1>3. /\ c \notin DOMAIN building
        /\ building' = [b \in DOMAIN building \cup {c} |-> IF b = c THEN a ELSE building[b]]
        /\ data' = [data EXCEPT ![a] = Contents(c)]
        /\ phase' = phase /\ image' = image
    BY DEF Take
  <1> HIDE DEF c, a
  <1>4. DOMAIN building' = DOMAIN building \cup {c} /\ Planned' = Planned
    BY <1>1, <1>3 DEF Planned
  <1>5. DOMAIN data' = Page /\ data'[a] = Contents(c) /\ \A b \in Page \ {a} : data'[b] = data[b]
    BY <1>2, <1>3 DEF Filled
  <1>6. \A b \in DOMAIN building : building'[b] = building[b] /\ building[b] \in Page \ {a}
    <2>1. a \notin Pages(building) /\ Pages(building) \subseteq Page
      BY <1>2 DEF Sound, PagesConserved, SInv, TypeOK
    <2> QED BY <1>3, <2>1 DEF Pages
  <1>7. ASSUME Loading'
        PROVE  /\ phase' = "load" => ImageFrames' \subseteq Planned'
               /\ phase' = "stack" => ImageFrames' \subseteq DOMAIN building'
               /\ FramesHold'
    <2>1. Loading /\ ImageFrames' = ImageFrames /\ FramesHold
      BY <1>3, <1>7 DEF Loading, ImageFrames, Filled
    <2>2. ASSUME NEW k \in DOMAIN image.segs, NEW j \in PagesOf(image.segs[k]),
                 Frame(1, j) \in DOMAIN building'
          PROVE  data'[building'[Frame(1, j)]] = Loaded(image, image.segs[k], j)
      <3>1. CASE Frame(1, j) \in DOMAIN building
        BY <1>5, <1>6, <2>1, <3>1 DEF FramesHold
      <3>2. CASE Frame(1, j) = c
        <4>1. phase = "load"
          <5>1. Frame(1, j) \in ImageFrames
            BY DEF ImageFrames, LoadPagesOf
          <5>2. phase = "stack" => c \in DOMAIN building
            BY <2>1, <3>2, <5>1 DEF Filled
          <5> QED BY <1>3, <2>1, <5>2 DEF Loading
        <4>2. image \in Images
          BY <2>1 DEF SInv, TypeOK, Loading
        <4>3. c \in Frames /\ c[3] = j
          <5>1. j \in 0 .. ENTRIES - 1
            BY <4>2, PagesInTable, EntriesAssumption DEF PagesOf
          <5>2. 1 \in Area
            BY DEF Area
          <5> QED BY <3>2, <5>1, <5>2, Cells DEF Frames
        <4> DEFINE kk == CHOOSE l \in DOMAIN image.segs : c[3] \in PagesOf(image.segs[l])
        <4>4. Contents(c) = Loaded(image, image.segs[kk], c[3])
          BY <4>1, <4>3 DEF Contents
        <4>5. kk \in DOMAIN image.segs /\ j \in PagesOf(image.segs[kk])
          BY <4>3
        <4> HIDE DEF kk
        <4>6. kk = k
          BY <2>1, <4>5 DEF Loading, SegmentsCollide
        <4>7. building'[c] = a
          BY <1>3
        <4> QED BY <1>5, <3>2, <4>3, <4>4, <4>6, <4>7
      <3> QED BY <1>4, <2>2, <3>1, <3>2
    <2>3. FramesHold'
      BY <1>3, <2>2 DEF FramesHold
    <2> QED BY <1>3, <1>4, <2>1, <2>3 DEF Filled
  <1>8. phase' = "copy" => image' = NULL
    BY <1>3 DEF Filled
  <1> QED BY <1>5, <1>7, <1>8 DEF Filled

(* The old space is left alone and so is the construction.                  *)
LEMMA SameFilled ==
  ASSUME Filled, UNCHANGED <<data, phase, image, building, todo>>
  PROVE  Filled'
BY DEF Filled, Loading, FramesHold, ImageFrames, Planned

LEMMA NextFilled == IInv /\ SInv /\ Filled /\ [Next]_vars => Filled'
PROOF
  <1> SUFFICES ASSUME IInv, SInv, Filled, [Next]_vars
               PROVE  Filled'
    OBVIOUS
  <1>0. DOMAIN data = Page
    BY DEF Filled
  <1>1. CASE UNCHANGED vars
    BY <1>1, SameFilled DEF vars, work
  <1>2. ASSUME halted = "no"
        PROVE  Sound
    BY <1>2 DEF IInv
  <1>3. CASE BootInit
    BY <1>0, <1>3, IdleFilled DEF BootInit, Create
  <1>4. CASE StartExec
    BY <1>0, <1>4, IdleFilled DEF StartExec, Create
  <1>5. CASE StartFork
    BY <1>0, <1>5, IdleFilled DEF StartFork, Create
  <1>6. CASE Take
    BY <1>2, <1>6, TakeFilled DEF Take, Taking
  <1>7. CASE TakeFails
    BY <1>7, SameFilled DEF TakeFails, work
  <1>8. CASE Load
    BY <1>2, <1>8, LoadFilled DEF Load, Done
  <1>9. CASE LoadFails
    BY <1>9, IdleFilled, ForgetKeepsPages DEF LoadFails, Rest
  <1>10. CASE Replace
    BY <1>2, <1>10, ReplaceFilled DEF Replace, Done
  <1>11. CASE StartCopy
    BY <1>0, <1>11, IdleFilled DEF StartCopy
  <1>12. CASE EndCopy
    <2>1. data' = data /\ image' = NULL
      BY <1>12 DEF EndCopy, Done, Filled
    <2> QED BY <1>0, <2>1, IdleFilled
  <1>13. CASE ForkFails
    BY <1>13, IdleFilled, ForgetKeepsPages DEF ForkFails, Rest
  <1>14. CASE Install
    BY <1>0, <1>14, IdleFilled DEF Install, Rest
  <1>15. ASSUME NEW t \in Task, Switch(t)
         PROVE  Filled'
    BY <1>0, <1>15, IdleFilled DEF Switch
  <1>16. CASE Exit
    BY <1>16, IdleFilled, ForgetKeepsPages DEF Exit, work
  <1>17. ASSUME NEW t \in Task, Reap(t)
         PROVE  Filled'
    BY <1>17, SameFilled DEF Reap, work
  <1>18. CASE Spin
    BY <1>1, <1>18 DEF Spin
  <1> QED
    BY <1>1, <1>3, <1>4, <1>5, <1>6, <1>7, <1>8, <1>9, <1>10, <1>11, <1>12,
       <1>13, <1>14, <1>15, <1>16, <1>17, <1>18 DEF Next

LEMMA FilledAlways == Spec => []Filled
PROOF
  <1>1. Spec => Filled /\ []IInv /\ []SInv /\ [][Next]_vars
    BY InitFilled, IInvAlways, SInvAlways, PTL DEF Spec
  <1> QED BY <1>1, NextFilled, PTL

LEMMA FilledImplies == SInv /\ Filled => ImageLoaded
PROOF
  <1> SUFFICES ASSUME SInv, Filled, Loading, NEW k \in DOMAIN image.segs,
                      NEW i \in 0 .. image.segs[k].memsz - 1,
                      Frame(1, (image.segs[k].vaddr + i) \div PAGE_SIZE) \in DOMAIN building
               PROVE  LET seg == image.segs[k]
                          a   == seg.vaddr + i
                          b   == data[building[Frame(1, a \div PAGE_SIZE)]][a % PAGE_SIZE]
                      IN  IF i >= seg.filesz THEN b = Zero
                          ELSE seg.offset + i < image.size => b = FileByte(seg.offset + i)
    BY DEF ImageLoaded, Loading
  <1> DEFINE seg == image.segs[k]
             a == seg.vaddr + i
             j == a \div PAGE_SIZE
             x == a % PAGE_SIZE
  <1>1. image \in Images
    BY DEF SInv, TypeOK, Loading
  <1>2. /\ j \in PagesOf(seg)
        /\ i >= seg.filesz => Loaded(image, seg, j)[x] = Zero
        /\ i < seg.filesz /\ seg.offset + i < image.size
             => Loaded(image, seg, j)[x] = FileByte(seg.offset + i)
    BY <1>1, LoadedIs
  <1>3. Frame(1, j) \in DOMAIN building
    OBVIOUS
  <1>4. data[building[Frame(1, j)]] = Loaded(image, seg, j)
    <2> HIDE DEF j
    <2> QED BY <1>2, <1>3 DEF Filled, FramesHold
  <1>5. i \in Nat /\ seg.filesz \in Nat
    <2>1. seg \in Segment
      BY <1>1, SegmentIs
    <2> QED BY <2>1 DEF Segment
  <1>6. i >= seg.filesz \/ i < seg.filesz
    BY <1>5
  <1>7. i >= seg.filesz => ~(i < seg.filesz)
    BY <1>5
  <1> HIDE DEF x, j
  <1> QED BY <1>2, <1>4, <1>6, <1>7, Zenon DEF x, j

(* Every page is free or has exactly one use, whatever the programs fork,    *)
(* execute and exit, and however far a failed exec had come (task.c:112-223): *)
(* PagesConserved for every size of the system.                              *)
THEOREM PagesAreConserved == Spec => []PagesConserved
PROOF
  <1>1. IInv => PagesConserved
    BY DEF IInv, Sound, PagesConserved
  <1> QED BY <1>1, IInvAlways, PTL

(* CR3 never holds a page directory that was freed, also while exec and exit *)
(* free the one they run on (task.c:112-117, 163), and user code runs with    *)
(* that of its own task.                                                    *)
THEOREM DirectoryStaysLive == Spec => []DirectoryLive
PROOF
  <1>1. IInv => DirectoryLive
    BY DEF IInv, Sound, Directories, Current, DirectoryLive
  <1> QED BY <1>1, IInvAlways, PTL

(* A directory that a task runs with has a table for every frame it maps and *)
(* at least one frame (mem.c:131-145, task.c:72-99): SpacesWellFormed for     *)
(* every size of the system.                                                *)
THEOREM SpacesStayWellFormed == Spec => []SpacesWellFormed
PROOF
  <1>1. SInv => SpacesWellFormed
    BY DEF SInv, Formed, Whole, Closed, HasFrame, SpacesWellFormed
  <1> QED BY <1>1, SInvAlways, PTL

(* "Linear address has been mapped" (mem.c:46) is the fault of a program     *)
(* whose segments share a page, never of a fork or of a stack.              *)
THEOREM OnlyImagesCollide == Spec => []CollisionsFromImages
PROOF
  <1>1. SInv => CollisionsFromImages
    BY DEF SInv
  <1> QED BY <1>1, SInvAlways, PTL

(* Each byte of a segment is in memory what the file has for it, or zero     *)
(* behind filesz, from the writing of its page (elf.c:54-84) until the task   *)
(* returns to user code, for every layout of segments over pages.           *)
THEOREM ImageIsLoaded == Spec => []ImageLoaded
BY FilledImplies, FilledAlways, SInvAlways, PTL
=============================================================================
