-------------------------------- MODULE Pmu --------------------------------
(***************************************************************************)
(* The page allocator of kernel/pmu.c: a list, sorted by address, of runs  *)
(* of free pages.  The nodes of the list come from a fixed buffer with a   *)
(* bitmap.  Addresses are page numbers.  It runs with interrupts off or    *)
(* before the first task, so every call is one action.                     *)
(***************************************************************************)
EXTENDS Naturals, FiniteSets

CONSTANTS
  First, Total,   (* pmu_init(addr, count): the pages First .. First + Total - 1 *)
  NODE_COUNT,     (* size of the buffer of nodes                                 *)
  NULL            (* the null node pointer                                       *)

Page == First .. First + Total - 1
Node == 0 .. NODE_COUNT - 1

ASSUME RangeAssumption == First \in Nat \ {0} /\ Total \in Nat \ {0}
ASSUME NodeAssumption == NODE_COUNT \in Nat \ {0} /\ NULL \notin Node

VARIABLES
  count,     (* pmu.count                                                  *)
  head,      (* pmu.head                                                   *)
  addr, cnt, next,   (* the fields of node_buf[]                           *)
  bitmap,    (* the set of nodes whose bit is set                          *)
  held,      (* the pages that callers got and did not give back           *)
  halted     (* the assertion or panic that stopped the kernel             *)

list == <<head, addr, cnt, next, bitmap>>
vars == <<count, head, addr, cnt, next, bitmap, held, halted>>

TypeOK ==
  /\ count  \in 0 .. Total + 1
  /\ head   \in Node \cup {NULL}
  /\ addr   \in [Node -> Nat]
  /\ cnt    \in [Node -> 0 .. Total]
  /\ next   \in [Node -> Node \cup {NULL}]
  /\ bitmap \subseteq Node
  /\ held   \subseteq Page
  /\ halted \in {"no", "no_page", "overlap", "exhausted"}

-----------------------------------------------------------------------------
(* Chain[i] is the node that a walk from the head reaches after i links. *)
Chain ==
  LET at[i \in 0 .. NODE_COUNT] ==
        IF i = 0 THEN head
        ELSE IF at[i - 1] = NULL THEN NULL ELSE next[at[i - 1]]
  IN  at

Listed    == {n \in Node : \E i \in 0 .. NODE_COUNT : Chain[i] = n}
Run(n)    == addr[n] .. addr[n] + cnt[n] - 1
FreePages == UNION {Run(n) : n \in Listed}

(* pmu_init: one run with every page, in the first node *)
Init ==
  /\ count = Total
  /\ head = 0
  /\ addr = [n \in Node |-> IF n = 0 THEN First ELSE 0]
  /\ cnt = [n \in Node |-> IF n = 0 THEN Total ELSE 0]
  /\ next = [n \in Node |-> NULL]
  /\ bitmap = {0}
  /\ held = {}
  /\ halted = "no"

(* The fields of a node after free_node *)
BitKept(n)  == bitmap
FreeBit(n) == bitmap \ {n}

(***************************************************************************)
(* pmu_alloc: the first page of the first run; the node goes back to the   *)
(* buffer with the last page of its run.                                   *)
(***************************************************************************)
AllocEmpty ==
  /\ halted = "no" /\ count = 0
  /\ halted' = "no_page"
  /\ UNCHANGED <<count, list, held>>

Alloc ==
  /\ halted = "no" /\ count # 0
  /\ count' = count - 1
  /\ held' = held \cup {addr[head]}
  /\ IF cnt[head] = 1
     THEN /\ head' = next[head]
          /\ addr' = [addr EXCEPT ![head] = 0]
          /\ cnt' = [cnt EXCEPT ![head] = 0]
          /\ next' = [next EXCEPT ![head] = NULL]
          /\ bitmap' = FreeBit(head)
     ELSE /\ addr' = [addr EXCEPT ![head] = @ + 1]
          /\ cnt' = [cnt EXCEPT ![head] = @ - 1]
          /\ UNCHANGED <<head, next, bitmap>>
  /\ UNCHANGED halted

-----------------------------------------------------------------------------
(***************************************************************************)
(* pmu_add_record for one page a.  After is the first node at or above a,  *)
(* Before the one in front of it.                                          *)
(***************************************************************************)
Place(a) == CHOOSE i \in 0 .. NODE_COUNT :
              /\ Chain[i] = NULL \/ a <= addr[Chain[i]]
              /\ \A j \in 0 .. i - 1 : Chain[j] # NULL /\ addr[Chain[j]] < a
After(a)  == Chain[Place(a)]
Before(a) == IF Place(a) = 0 THEN NULL ELSE Chain[Place(a) - 1]

BeforeIgnored(a) == After(a) # NULL /\ a + 1 > addr[After(a)]
TouchingToo(a) == After(a) # NULL /\ a + 1 >= addr[After(a)]

Overlaps(a) ==
  \/ Before(a) # NULL /\ addr[Before(a)] + cnt[Before(a)] > a
  \/ After(a) # NULL /\ a + 1 > addr[After(a)]

OnePageApart(a) == After(a) # NULL /\ a + 2 = addr[After(a)]

JoinsAfter(a)  == After(a) # NULL /\ a + 1 = addr[After(a)]
JoinsBefore(a) == Before(a) # NULL /\ addr[Before(a)] + cnt[Before(a)] = a

(* alloc_node: the first node whose bit is clear *)
FirstNode     == 0

FirstUnused == CHOOSE n \in Node \ bitmap : \A m \in Node \ bitmap : n <= m

(* The page closes the gap between two runs: the later one is absorbed. *)
JoinBoth(a) ==
  /\ JoinsAfter(a) /\ JoinsBefore(a)
  /\ cnt' = [cnt EXCEPT ![Before(a)] = @ + 1 + cnt[After(a)], ![After(a)] = 0]
  /\ next' = [next EXCEPT ![Before(a)] = next[After(a)], ![After(a)] = NULL]
  /\ addr' = [addr EXCEPT ![After(a)] = 0]
  /\ bitmap' = FreeBit(After(a))
  /\ UNCHANGED <<head, halted>>

JoinAfter(a) ==
  /\ JoinsAfter(a) /\ ~JoinsBefore(a)
  /\ addr' = [addr EXCEPT ![After(a)] = a]
  /\ cnt' = [cnt EXCEPT ![After(a)] = @ + 1]
  /\ UNCHANGED <<head, next, bitmap, halted>>

(* Otherwise a node is taken first, even if the page joins the run before   *)
(* it and the node is given back at once.                                   *)
JoinBefore(a) ==
  /\ ~JoinsAfter(a) /\ JoinsBefore(a)
  /\ Node \ bitmap # {}
  /\ cnt' = [cnt EXCEPT ![Before(a)] = @ + 1]
  /\ UNCHANGED <<head, addr, next, bitmap, halted>>

Insert(a) ==
  /\ ~JoinsAfter(a) /\ ~JoinsBefore(a)
  /\ Node \ bitmap # {}
  /\ LET n == FirstUnused IN
     /\ bitmap' = bitmap \cup {n}
     /\ addr' = [addr EXCEPT ![n] = a]
     /\ cnt' = [cnt EXCEPT ![n] = 1]
     /\ head' = IF Before(a) = NULL THEN n ELSE head
     /\ next' = IF Before(a) = NULL THEN [next EXCEPT ![n] = After(a)]
                ELSE [next EXCEPT ![n] = After(a), ![Before(a)] = n]
  /\ UNCHANGED halted

Exhausted(a) ==
  /\ ~JoinsAfter(a) /\ bitmap = Node
  /\ halted' = "exhausted"
  /\ UNCHANGED list

AddRecord(a) ==
  /\ count' = count + 1
  /\ \/ ~Overlaps(a) /\ (JoinBoth(a) \/ JoinAfter(a) \/ JoinBefore(a)
                         \/ Insert(a) \/ Exhausted(a))
     \/ Overlaps(a) /\ halted' = "overlap" /\ UNCHANGED list

(* pmu_free *)
Free(a) ==
  /\ halted = "no" /\ a \in held
  /\ held' = held \ {a}
  /\ AddRecord(a)

(* A caller's mistake, which the two assertions on ranges are there for *)
FreeTwice(a) ==
  /\ halted = "no" /\ a \in FreePages
  /\ UNCHANGED held
  /\ AddRecord(a)

Spin == halted # "no" /\ UNCHANGED vars

Next == Alloc \/ AllocEmpty \/ (\E a \in Page : Free(a) \/ FreeTwice(a)) \/ Spin
Spec == Init /\ [][Next]_vars

-----------------------------------------------------------------------------
(* The list is sorted, its runs are not empty and neither overlap nor touch  *)
(* (pages that could be one run are one run), through every order of allocs  *)
(* and frees; a double free never gets a page into the list a second time.   *)
(* A node's bit is set exactly while it is on the list: the merges and the   *)
(* emptied runs give their nodes back.                                       *)
FreeListSound ==
  /\ TypeOK
  /\ bitmap = Listed
  /\ Chain[NODE_COUNT] = NULL
  /\ \A n \in Listed : cnt[n] > 0
  /\ \A n \in Listed : next[n] # NULL => addr[n] + cnt[n] < addr[next[n]]

(* Every page is in the list or with a caller, never both, and pmu.count is  *)
(* the number of pages in the list: pmu_alloc relies on it alone to know     *)
(* that the list is not empty.                                               *)
PagesConserved ==
  halted = "no" => /\ held \cap FreePages = {}
                   /\ held \cup FreePages = Page
                   /\ count = Cardinality(FreePages)

(* The panic "page node buffer exhausted" comes only when every node holds a *)
(* run of its own, so that the callers hold a page in every gap: nodes do    *)
(* not leak, although a page that only extends a run takes a node first.     *)
BufferSuffices == halted = "exhausted" => Cardinality(held) >= NODE_COUNT - 1

(* The assertions on ranges accuse only a caller that frees a free page.     *)
NoFalseAlarm == [][\A a \in held : Free(a) => halted' # "overlap"]_vars

(* The list implements the set of free pages, lowest page first.             *)
Pages == INSTANCE PageSet WITH free <- FreePages
ImplementsPageSet == Pages!Spec
=============================================================================
