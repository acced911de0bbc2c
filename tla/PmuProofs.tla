----------------------------- MODULE PmuProofs -----------------------------
(***************************************************************************)
(* Theorems about Pmu, for every range of pages and every number of nodes: *)
(* the list of runs is sorted and merged, every page is free or held, the  *)
(* buffer of nodes runs out only when it must, and the allocator           *)
(* implements PageSet.                                                     *)
(*                                                                         *)
(* The list is described by what each node knows of its neighbours         *)
(* (Linked), which the steps keep by reasoning about the two nodes they    *)
(* touch; that a walk from the head then meets every node, in the order    *)
(* of their addresses, is shown once for all states (section 2).           *)
(***************************************************************************)
EXTENDS Pmu, Basics, FiniteSetTheorems

(* Runs lie in the range of the allocator; two of them do not even touch.  *)
Separate ==
  /\ \A n \in bitmap : cnt[n] > 0 /\ First <= addr[n] /\ addr[n] + cnt[n] <= First + Total
  /\ \A m, n \in bitmap : m # n => \/ addr[m] + cnt[m] < addr[n]
                                   \/ addr[n] + cnt[n] < addr[m]

(* The head is the lowest run and next leads to the next higher one.       *)
Linked ==
  /\ head = NULL => bitmap = {}
  /\ head # NULL => head \in bitmap /\ \A m \in bitmap : addr[head] <= addr[m]
  /\ \A n \in bitmap :
       /\ next[n] # NULL =>
            /\ next[n] \in bitmap /\ addr[n] < addr[next[n]]
            /\ \A m \in bitmap : addr[m] <= addr[n] \/ addr[next[n]] <= addr[m]
       /\ next[n] = NULL => \A m \in bitmap : addr[m] <= addr[n]
       /\ n # head => \E p \in bitmap : next[p] = n

IInv == TypeOK /\ Separate /\ Linked /\ PagesConserved /\ BufferSuffices

-----------------------------------------------------------------------------
(***************************************************************************)
(* 1. The recursion of Chain.                                              *)
(***************************************************************************)
(* The walk from the head exists.                                          *)
LEMMA ChainWalks ==
  /\ Chain[0] = head
  /\ \A i \in 1 .. NODE_COUNT :
       Chain[i] = IF Chain[i - 1] = NULL THEN NULL ELSE next[Chain[i - 1]]
PROOF
  <1>1. NODE_COUNT \in Nat
    BY NodeAssumption
  <1>2. Chain = Trail(NODE_COUNT, head, NULL, next)
    BY DEF Chain, Trail
  <1> QED BY <1>1, <1>2, TrailSteps

-----------------------------------------------------------------------------
(***************************************************************************)
(* 2. A linked list is walked through completely, in the order of the      *)
(* addresses, and ends after at most NODE_COUNT links.                     *)
(***************************************************************************)
ListOK ==
  /\ head   \in Node \cup {NULL}
  /\ addr   \in [Node -> Nat]
  /\ cnt    \in [Node -> 0 .. Total]
  /\ next   \in [Node -> Node \cup {NULL}]
  /\ bitmap \subseteq Node

Structure == ListOK /\ Separate /\ Linked

LEMMA ChainStays ==
  ASSUME Structure
  PROVE  \A i \in 0 .. NODE_COUNT : Chain[i] \in bitmap \cup {NULL}
PROOF
  <1> DEFINE T == {i \in 0 .. NODE_COUNT : Chain[i] \in bitmap \cup {NULL}}
  <1>0. NODE_COUNT \in Nat
    BY NodeAssumption
  <1>1. 0 \in T
    BY <1>0, ChainWalks DEF Structure, Linked
  <1>2. ASSUME NEW i \in 0 .. NODE_COUNT, i # NODE_COUNT, i \in T
        PROVE  i + 1 \in T
    <2>1. i + 1 \in 1 .. NODE_COUNT /\ i + 1 \in 0 .. NODE_COUNT /\ (i + 1) - 1 = i
      BY <1>0, <1>2
    <2>2. Chain[i + 1] = IF Chain[i] = NULL THEN NULL ELSE next[Chain[i]]
      BY <2>1, ChainWalks
    <2>3. Chain[i + 1] \in bitmap \cup {NULL}
      BY <1>2, <2>2 DEF Structure, Linked
    <2> QED BY <2>1, <2>3
  <1>3. \A i \in 0 .. NODE_COUNT : i \in T
    <2> HIDE DEF T
    <2> QED BY <1>0, <1>1, <1>2, Upwards
  <1> QED BY <1>3

(* A node that is reached was reached through nodes of lower addresses.     *)
LEMMA ChainAscends ==
  ASSUME Structure, NEW j \in 0 .. NODE_COUNT, Chain[j] # NULL
  PROVE  \A i \in 0 .. j : i # j => Chain[i] # NULL /\ addr[Chain[i]] < addr[Chain[j]]
PROOF
  <1> DEFINE Up(k) == Chain[k] # NULL =>
               \A i \in 0 .. k : i # k => Chain[i] # NULL /\ addr[Chain[i]] < addr[Chain[k]]
             T == {k \in 0 .. NODE_COUNT : Up(k)}
  <1>0. NODE_COUNT \in Nat
    BY NodeAssumption
  <1>1. 0 \in T
    BY <1>0
  <1>2. ASSUME NEW k \in 0 .. NODE_COUNT, k # NODE_COUNT, k \in T
        PROVE  k + 1 \in T
    <2>1. k + 1 \in 1 .. NODE_COUNT /\ k + 1 \in 0 .. NODE_COUNT /\ (k + 1) - 1 = k
      BY <1>0, <1>2
    <2>2. Chain[k + 1] = IF Chain[k] = NULL THEN NULL ELSE next[Chain[k]]
      BY <2>1, ChainWalks
    <2>3. SUFFICES ASSUME Chain[k + 1] # NULL, NEW i \in 0 .. k + 1, i # k + 1
                   PROVE  Chain[i] # NULL /\ addr[Chain[i]] < addr[Chain[k + 1]]
      BY <2>1
    <2>4. Chain[k] # NULL /\ addr[Chain[k]] < addr[Chain[k + 1]]
      BY <2>2, <2>3, ChainStays DEF Structure, Linked
    <2>5. CASE i = k
      BY <2>4, <2>5
    <2>6. CASE i # k
      <3>1. i \in 0 .. k /\ i \in 0 .. NODE_COUNT
        BY <1>0, <2>3, <2>6
      <3>2. Chain[i] # NULL /\ addr[Chain[i]] < addr[Chain[k]]
        BY <1>2, <2>4, <2>6, <3>1
      <3>3. Chain[i] \in Node /\ Chain[k] \in Node /\ Chain[k + 1] \in Node
        BY <2>1, <2>3, <2>4, <3>1, <3>2, ChainStays DEF Structure, ListOK
      <3> QED BY <2>4, <3>2, <3>3 DEF Structure, ListOK
    <2> QED BY <2>5, <2>6
  <1>3. \A k \in 0 .. NODE_COUNT : k \in T
    <2> HIDE DEF T
    <2> QED BY <1>0, <1>1, <1>2, Upwards
  <1> QED BY <1>3

LEMMA ChainEnds ==
  ASSUME Structure
  PROVE  Chain[NODE_COUNT] = NULL
PROOF
  <1>0. NODE_COUNT \in Nat
    BY NodeAssumption
  <1> SUFFICES ASSUME Chain[NODE_COUNT] # NULL PROVE FALSE
    OBVIOUS
  <1> DEFINE f == [i \in 0 .. NODE_COUNT |-> Chain[i]]
  <1>1. NODE_COUNT \in 0 .. NODE_COUNT
    BY <1>0
  <1>2. \A i \in 0 .. NODE_COUNT : Chain[i] # NULL
    BY <1>1, ChainAscends
  <1>3. f \in [0 .. NODE_COUNT -> Node]
    BY <1>2, ChainStays DEF Structure, ListOK
  <1>4. IsFiniteSet(0 .. NODE_COUNT) /\ Cardinality(0 .. NODE_COUNT) = NODE_COUNT + 1
    BY <1>0, FS_Interval
  <1>5. IsFiniteSet(Node) /\ Cardinality(Node) = NODE_COUNT
    BY NodeAssumption, FS_Interval DEF Node
  <1>6. Cardinality(Node) < Cardinality(0 .. NODE_COUNT)
    BY <1>0, <1>4, <1>5
  <1>7. PICK i, j \in 0 .. NODE_COUNT : i # j /\ f[i] = f[j]
    <2> HIDE DEF f
    <2> QED BY <1>3, <1>4, <1>5, <1>6, FS_PigeonHole, ZenonT(60)
  <1>8. Chain[i] = Chain[j] /\ addr[Chain[i]] \in Nat
    BY <1>3, <1>7 DEF Structure, ListOK
  <1>9. CASE i < j
    <2>1. i \in 0 .. j
      BY <1>0, <1>9
    <2>2. addr[Chain[i]] < addr[Chain[j]]
      BY <1>2, <1>7, <2>1, ChainAscends
    <2> QED BY <1>8, <2>2
  <1>10. CASE j < i
    <2>1. j \in 0 .. i
      BY <1>0, <1>10
    <2>2. addr[Chain[j]] < addr[Chain[i]]
      BY <1>2, <1>7, <2>1, ChainAscends
    <2> QED BY <1>8, <2>2
  <1> QED BY <1>0, <1>7, <1>9, <1>10

(* A node that is not reached would have a lower one that is not.           *)
LEMMA ListedIsBitmap ==
  ASSUME Structure
  PROVE  Listed = bitmap
PROOF
  <1>0. NODE_COUNT \in Nat
    BY NodeAssumption
  <1>1. Listed \subseteq bitmap
    <2> SUFFICES ASSUME NEW n \in Listed PROVE n \in bitmap
      OBVIOUS
    <2>1. n # NULL /\ \E i \in 0 .. NODE_COUNT : Chain[i] = n
      BY NodeAssumption DEF Listed
    <2> QED BY <2>1, ChainStays
  <1> DEFINE Lost == bitmap \ Listed
             S == {addr[n] : n \in Lost}
  <1>2. SUFFICES ASSUME Lost # {} PROVE FALSE
    BY <1>1
  <1>3. S \subseteq Nat /\ S # {}
    BY <1>2 DEF Structure, ListOK
  <1>4. PICK a \in S : \A b \in S : a <= b
    <2> HIDE DEF S
    <2> QED BY <1>3, LeastOf
  <1>5. PICK n \in Lost : addr[n] = a
    BY <1>4
  <1>6. n \in bitmap /\ n \notin Listed /\ \A m \in Lost : addr[n] <= addr[m]
    BY <1>4, <1>5
  <1>7. n # head
    <2>1. 0 \in 0 .. NODE_COUNT /\ Chain[0] = head
      BY <1>0, ChainWalks
    <2> QED BY <1>6, <2>1 DEF Listed, Structure, ListOK
  <1>8. PICK p \in bitmap : next[p] = n
    BY <1>6, <1>7 DEF Structure, Linked
  <1>9. addr[p] < addr[n]
    BY <1>6, <1>8, NodeAssumption DEF Structure, Linked, ListOK
  <1>10. p \in Listed
    BY <1>6, <1>9 DEF Structure, ListOK
  <1>11. PICK i \in 0 .. NODE_COUNT : Chain[i] = p
    BY <1>10 DEF Listed
  <1>12. p # NULL
    BY NodeAssumption DEF Structure, ListOK
  <1>13. i # NODE_COUNT
    BY <1>11, <1>12, ChainEnds
  <1>14. i + 1 \in 1 .. NODE_COUNT /\ i + 1 \in 0 .. NODE_COUNT /\ (i + 1) - 1 = i
    BY <1>0, <1>13
  <1>15. Chain[i + 1] = n
    BY <1>8, <1>11, <1>12, <1>14, ChainWalks
  <1> QED BY <1>6, <1>14, <1>15 DEF Listed, Structure, ListOK

(* The free pages, without the walk                                        *)
LEMMA FreePagesAre ==
  ASSUME Structure, NEW x
  PROVE  x \in FreePages <=> \E n \in bitmap : x \in Run(n)
BY ListedIsBitmap DEF FreePages

LEMMA Sound ==
  ASSUME TypeOK, Separate, Linked
  PROVE  FreeListSound
PROOF
  <1>1. Structure
    BY DEF Structure, ListOK, TypeOK
  <1>2. bitmap = Listed /\ Chain[NODE_COUNT] = NULL
    BY <1>1, ListedIsBitmap, ChainEnds
  <1>3. ASSUME NEW n \in bitmap, next[n] # NULL PROVE addr[n] + cnt[n] < addr[next[n]]
    <2>1. n \in Node /\ next[n] \in bitmap /\ next[n] \in Node /\ addr[n] < addr[next[n]]
      BY <1>3 DEF Linked, TypeOK
    <2>2. /\ addr[n] \in Nat /\ addr[next[n]] \in Nat
          /\ cnt[n] \in Nat /\ cnt[next[n]] \in Nat /\ cnt[next[n]] > 0
      BY <2>1, RangeAssumption DEF TypeOK, Separate
    <2>3. n # next[n]
      BY <2>1, <2>2
    <2>4. addr[n] + cnt[n] < addr[next[n]] \/ addr[next[n]] + cnt[next[n]] < addr[n]
      BY <2>1, <2>3 DEF Separate
    <2> QED BY <2>1, <2>2, <2>4
  <1> QED BY <1>2, <1>3 DEF FreeListSound, Separate

-----------------------------------------------------------------------------
(***************************************************************************)
(* 3. Where a page belongs in the list: the two runs around it.            *)
(***************************************************************************)
LEMMA PlaceExists ==
  ASSUME Structure, NEW a \in Nat
  PROVE  /\ Place(a) \in 0 .. NODE_COUNT
         /\ Chain[Place(a)] = NULL \/ a <= addr[Chain[Place(a)]]
         /\ \A j \in 0 .. Place(a) - 1 : Chain[j] # NULL /\ addr[Chain[j]] < a
PROOF
  <1>0. NODE_COUNT \in Nat
    BY NodeAssumption
  <1> DEFINE Stop(i) == Chain[i] = NULL \/ a <= addr[Chain[i]]
             S == {i \in 0 .. NODE_COUNT : Stop(i)}
  <1>1. S \subseteq Nat
    BY <1>0
  <1>2. NODE_COUNT \in S
    BY <1>0, ChainEnds
  <1>3. PICK i \in S : \A k \in S : i <= k
    <2> HIDE DEF S
    <2> QED BY <1>1, <1>2, LeastOf
  <1>4. i \in 0 .. NODE_COUNT /\ Stop(i)
    BY <1>3
  <1>5. ASSUME NEW j \in 0 .. i - 1
        PROVE  Chain[j] # NULL /\ addr[Chain[j]] < a
    <2>1. j \in 0 .. NODE_COUNT /\ ~(i <= j)
      BY <1>0, <1>4
    <2>2. ~Stop(j)
      BY <1>3, <2>1
    <2>3. Chain[j] \in Node
      BY <2>1, <2>2, ChainStays DEF Structure, ListOK
    <2>4. addr[Chain[j]] \in Nat
      BY <2>3 DEF Structure, ListOK
    <2> QED BY <2>2, <2>4
  <1> QED BY <1>4, <1>5 DEF Place

LEMMA Around ==
  ASSUME Structure, NEW a \in Nat
  PROVE  /\ After(a) \in bitmap \cup {NULL}
         /\ Before(a) \in bitmap \cup {NULL}
         /\ Before(a) = NULL => After(a) = head
         /\ Before(a) # NULL => next[Before(a)] = After(a) /\ addr[Before(a)] < a
         /\ After(a) # NULL => a <= addr[After(a)]
PROOF
  <1>0. NODE_COUNT \in Nat
    BY NodeAssumption
  <1> DEFINE p == Place(a)
  <1>1. /\ p \in 0 .. NODE_COUNT
        /\ Chain[p] = NULL \/ a <= addr[Chain[p]]
        /\ \A j \in 0 .. p - 1 : Chain[j] # NULL /\ addr[Chain[j]] < a
    BY PlaceExists
  <1> HIDE DEF p
  <1>2. After(a) = Chain[p] /\ Before(a) = IF p = 0 THEN NULL ELSE Chain[p - 1]
    BY DEF p, After, Before
  <1>3. CASE p = 0
    BY <1>1, <1>2, <1>3, ChainWalks, ChainStays
  <1>4. CASE p # 0
    <2>1. p - 1 \in 0 .. NODE_COUNT /\ p \in 1 .. NODE_COUNT /\ p - 1 \in 0 .. p - 1
      BY <1>0, <1>1, <1>4
    <2>2. Chain[p - 1] # NULL /\ addr[Chain[p - 1]] < a
      BY <1>1, <2>1
    <2>3. Chain[p] = next[Chain[p - 1]]
      BY <2>1, <2>2, ChainWalks
    <2> QED BY <1>1, <1>2, <1>4, <2>1, <2>2, <2>3, ChainStays
  <1> QED BY <1>3, <1>4

(* Every other run lies on one side of the two, at a distance.              *)
LEMMA Elsewhere ==
  ASSUME Structure, NEW a \in Nat, NEW m \in bitmap, m # Before(a), m # After(a)
  PROVE  \/ Before(a) # NULL /\ addr[m] + cnt[m] < addr[Before(a)]
         \/ After(a) # NULL /\ addr[After(a)] + cnt[After(a)] < addr[m]
PROOF
  <1> DEFINE b == Before(a)
             c == After(a)
  <1>1. /\ b \in bitmap \cup {NULL} /\ c \in bitmap \cup {NULL}
        /\ b = NULL => c = head
        /\ b # NULL => next[b] = c
    BY Around
  <1>2. m # b /\ m # c
    OBVIOUS
  <1> HIDE DEF b, c
  <1>3. \/ b # NULL /\ addr[m] <= addr[b]
        \/ c # NULL /\ addr[c] <= addr[m]
    BY <1>1 DEF Structure, Linked
  <1>4. ASSUME NEW n \in bitmap
        PROVE  addr[n] \in Nat /\ cnt[n] \in Nat /\ cnt[n] > 0
    BY RangeAssumption DEF Structure, ListOK, Separate
  <1>5. CASE b # NULL /\ addr[m] <= addr[b]
    <2>1. addr[m] + cnt[m] < addr[b] \/ addr[b] + cnt[b] < addr[m]
      BY <1>1, <1>2, <1>5 DEF Structure, Separate
    <2>2. addr[m] + cnt[m] < addr[b]
      BY <1>1, <1>4, <1>5, <2>1
    <2> QED BY <1>5, <2>2 DEF b
  <1>6. CASE c # NULL /\ addr[c] <= addr[m]
    <2>1. addr[m] + cnt[m] < addr[c] \/ addr[c] + cnt[c] < addr[m]
      BY <1>1, <1>2, <1>6 DEF Structure, Separate
    <2>2. addr[c] + cnt[c] < addr[m]
      BY <1>1, <1>4, <1>6, <2>1
    <2> QED BY <1>6, <2>2 DEF c
  <1> QED BY <1>3, <1>5, <1>6

(* The assertions on ranges compare with two runs only; that decides whether *)
(* the page is in any of them.                                               *)
LEMMA OverlapsAreFree ==
  ASSUME Structure, NEW a \in Nat
  PROVE  Overlaps(a) <=> a \in FreePages
PROOF
  <1> DEFINE b == Before(a)
             c == After(a)
  <1>1. /\ b \in bitmap \cup {NULL} /\ c \in bitmap \cup {NULL}
        /\ b # NULL => addr[b] < a
        /\ c # NULL => a <= addr[c]
    BY Around
  <1>2. \A m \in bitmap : m # b /\ m # c =>
             \/ b # NULL /\ addr[m] + cnt[m] < addr[b]
             \/ c # NULL /\ addr[c] + cnt[c] < addr[m]
    BY Elsewhere
  <1>3. ASSUME NEW n \in bitmap
        PROVE  addr[n] \in Nat /\ cnt[n] \in Nat /\ cnt[n] > 0
    BY RangeAssumption DEF Structure, ListOK, Separate
  <1>4. Overlaps(a) <=> \/ b # NULL /\ addr[b] + cnt[b] > a
                        \/ c # NULL /\ a + 1 > addr[c]
    BY DEF Overlaps
  <1> HIDE DEF b, c
  <1>5. Overlaps(a) => \E n \in bitmap : a \in Run(n)
    BY <1>1, <1>3, <1>4 DEF Run
  <1>6. ASSUME NEW m \in bitmap, a \in Run(m) PROVE Overlaps(a)
    <2>1. addr[m] <= a /\ a < addr[m] + cnt[m]
      BY <1>3, <1>6 DEF Run
    <2>2. CASE m = b \/ m = c
      <3>1. m # NULL
        BY NodeAssumption DEF Structure, ListOK
      <3> QED BY <1>3, <1>4, <2>1, <2>2, <3>1
    <2>3. CASE m # b /\ m # c
      <3>1. \/ b \in bitmap /\ addr[b] < a /\ addr[m] + cnt[m] < addr[b]
            \/ c \in bitmap /\ a <= addr[c] /\ addr[c] + cnt[c] < addr[m]
        BY <1>1, <1>2, <2>3
      <3> QED BY <1>3, <2>1, <3>1
    <2> QED BY <2>2, <2>3
  <1> QED BY <1>5, <1>6, FreePagesAre

-----------------------------------------------------------------------------
(***************************************************************************)
(* 4. What each operation does to the list and to the set of free pages.   *)
(***************************************************************************)
LEMMA Runs ==
  ASSUME Structure
  PROVE  /\ \A n \in bitmap : /\ n \in Node /\ n # NULL
                              /\ addr[n] \in Nat /\ cnt[n] \in Nat /\ cnt[n] > 0
                              /\ First <= addr[n] /\ addr[n] + cnt[n] <= First + Total
         /\ \A m, n \in bitmap : addr[m] = addr[n] => m = n
PROOF
  <1>1. \A n \in bitmap : /\ n \in Node /\ n # NULL
                          /\ addr[n] \in Nat /\ cnt[n] \in Nat /\ cnt[n] > 0
    BY RangeAssumption, NodeAssumption DEF Structure, ListOK, Separate
  <1>2. ASSUME NEW m \in bitmap, NEW n \in bitmap, addr[m] = addr[n], m # n
        PROVE  FALSE
    <2>1. addr[m] + cnt[m] < addr[n] \/ addr[n] + cnt[n] < addr[m]
      BY <1>2 DEF Structure, Separate
    <2> QED BY <1>1, <1>2, <2>1
  <1> QED BY <1>1, <1>2 DEF Structure, Separate

LEMMA FreePagesInvariant ==
  Structure => /\ FreePages \subseteq Page
               /\ \A x : x \in FreePages <=> \E n \in bitmap : x \in Run(n)
PROOF
  <1> SUFFICES ASSUME Structure
               PROVE  FreePages \subseteq Page
    BY FreePagesAre
  <1>1. ASSUME NEW n \in bitmap, NEW x \in Run(n) PROVE x \in Page
    BY Runs, RangeAssumption DEF Run, Page
  <1> QED BY <1>1, FreePagesAre

LEMMA FreePagesNext ==
  Structure' => /\ FreePages' \subseteq Page
                /\ \A x : x \in FreePages' <=>
                        \E n \in bitmap' : x \in addr'[n] .. addr'[n] + cnt'[n] - 1
PROOF
  <1>1. (Structure => /\ FreePages \subseteq Page
                      /\ \A x : x \in FreePages <=> \E n \in bitmap : x \in Run(n))'
    BY FreePagesInvariant, PTL
  <1> QED BY <1>1 DEF Run

(* The links stay right when the addresses change but not their order.       *)
LEMMA OrderKept ==
  ASSUME Structure, head' = head, next' = next, bitmap' = bitmap,
         \A n \in bitmap : addr[n] \in Nat /\ addr'[n] \in Nat,
         \A m, n \in bitmap : addr'[m] <= addr'[n] <=> addr[m] <= addr[n]
  PROVE  Linked'
PROOF
  <1>1. Linked
    BY DEF Structure
  <1>2. ASSUME NEW n \in bitmap, next[n] # NULL
        PROVE  /\ next[n] \in bitmap /\ addr'[n] < addr'[next[n]]
               /\ \A m \in bitmap : addr'[m] <= addr'[n] \/ addr'[next[n]] <= addr'[m]
    BY <1>1, <1>2 DEF Linked
  <1>3. \A n \in bitmap : next[n] = NULL => \A m \in bitmap : addr'[m] <= addr'[n]
    BY <1>1 DEF Linked
  <1>4. \A n \in bitmap : n # head => \E p \in bitmap : next[p] = n
    BY <1>1 DEF Linked
  <1>5. head # NULL => head \in bitmap /\ \A m \in bitmap : addr'[head] <= addr'[m]
    BY <1>1 DEF Linked
  <1>6. head = NULL => bitmap = {}
    BY <1>1 DEF Linked
  <1> QED BY <1>2, <1>3, <1>4, <1>5, <1>6 DEF Linked

(* pmu_alloc takes the lowest page of the lowest run.                        *)
LEMMA AllocKeeps ==
  ASSUME Structure, head # NULL, Alloc
  PROVE  /\ Structure'
         /\ addr[head] \in FreePages
         /\ \A x \in FreePages : addr[head] <= x
         /\ FreePages' = FreePages \ {addr[head]}
PROOF
  <1>1. head \in bitmap /\ \A m \in bitmap : addr[head] <= addr[m]
    BY DEF Structure, Linked
  <1>2. /\ \A n \in bitmap : /\ n \in Node /\ n # NULL
                             /\ addr[n] \in Nat /\ cnt[n] \in Nat /\ cnt[n] > 0
                             /\ First <= addr[n] /\ addr[n] + cnt[n] <= First + Total
        /\ \A m, n \in bitmap : addr[m] = addr[n] => m = n
    BY Runs
  <1>3. addr[head] \in Run(head)
    BY <1>1, <1>2 DEF Run
  <1>4. addr[head] \in FreePages /\ \A x \in FreePages : addr[head] <= x
    <2>1. ASSUME NEW n \in bitmap, NEW x \in Run(n) PROVE addr[head] <= x
      BY <1>1, <1>2 DEF Run
    <2> QED BY <1>1, <1>3, <2>1, FreePagesInvariant
  <1>5. ASSUME NEW n \in bitmap, n # head
        PROVE  addr[head] + cnt[head] < addr[n]
    <2>1. addr[head] + cnt[head] < addr[n] \/ addr[n] + cnt[n] < addr[head]
      BY <1>1, <1>5 DEF Structure, Separate
    <2> QED BY <1>1, <1>2, <2>1
  <1>6. CASE cnt[head] = 1
    <2>1. /\ head' = next[head]
          /\ addr' = [addr EXCEPT ![head] = 0]
          /\ cnt' = [cnt EXCEPT ![head] = 0]
          /\ next' = [next EXCEPT ![head] = NULL]
          /\ bitmap' = bitmap \ {head}
      BY <1>6 DEF Alloc, FreeBit
    <2>2. ListOK'
      BY <2>1, RangeAssumption DEF Structure, ListOK
    <2>3. \A n \in bitmap' : /\ n \in bitmap /\ n # head
                             /\ addr'[n] = addr[n] /\ cnt'[n] = cnt[n] /\ next'[n] = next[n]
      BY <1>2, <2>1 DEF Structure, ListOK
    <2>4. Separate'
      BY <2>3 DEF Structure, Separate
    <2>5. head' = NULL => bitmap' = {}
      <3> SUFFICES ASSUME next[head] = NULL, NEW n \in bitmap, n # head
                   PROVE  FALSE
        BY <2>1
      <3>1. addr[n] <= addr[head]
        BY <1>1 DEF Structure, Linked
      <3>2. addr[head] + cnt[head] < addr[n]
        BY <1>5
      <3> QED BY <1>1, <1>2, <3>1, <3>2
    <2>6. head' # NULL => head' \in bitmap' /\ \A m \in bitmap' : addr'[head'] <= addr'[m]
      <3> SUFFICES ASSUME head' # NULL
                   PROVE  head' \in bitmap' /\ \A m \in bitmap' : addr'[head'] <= addr'[m]
        OBVIOUS
      <3>1. /\ head' \in bitmap /\ addr[head] < addr[head']
            /\ \A m \in bitmap : addr[m] <= addr[head] \/ addr[head'] <= addr[m]
        BY <1>1, <2>1 DEF Structure, Linked
      <3>2. head' \in bitmap'
        BY <1>1, <1>2, <2>1, <3>1
      <3>3. ASSUME NEW m \in bitmap' PROVE addr'[head'] <= addr'[m]
        BY <1>1, <1>2, <1>5, <2>3, <3>1, <3>2
      <3> QED BY <3>2, <3>3
    <2>7. ASSUME NEW n \in bitmap'
          PROVE  /\ next'[n] # NULL =>
                     /\ next'[n] \in bitmap' /\ addr'[n] < addr'[next'[n]]
                     /\ \A m \in bitmap' : addr'[m] <= addr'[n] \/ addr'[next'[n]] <= addr'[m]
                 /\ next'[n] = NULL => \A m \in bitmap' : addr'[m] <= addr'[n]
                 /\ n # head' => \E p \in bitmap' : next'[p] = n
      <3>1. n \in bitmap /\ n # head /\ addr'[n] = addr[n] /\ next'[n] = next[n]
        BY <2>3
      <3>2. next[n] # head
        BY <1>1, <1>2, <3>1 DEF Structure, Linked
      <3>3. next'[n] # NULL =>
                     /\ next'[n] \in bitmap' /\ addr'[n] < addr'[next'[n]]
                     /\ \A m \in bitmap' : addr'[m] <= addr'[n] \/ addr'[next'[n]] <= addr'[m]
        <4> SUFFICES ASSUME next[n] # NULL
                     PROVE  /\ next'[n] \in bitmap' /\ addr'[n] < addr'[next'[n]]
                            /\ \A m \in bitmap' : addr'[m] <= addr'[n] \/ addr'[next'[n]] <= addr'[m]
          BY <3>1
        <4>1. /\ next[n] \in bitmap /\ addr[n] < addr[next[n]]
              /\ \A m \in bitmap : addr[m] <= addr[n] \/ addr[next[n]] <= addr[m]
          BY <3>1 DEF Structure, Linked
        <4>2. next[n] \in bitmap'
          BY <2>1, <3>2, <4>1
        <4> QED BY <2>3, <3>1, <4>1, <4>2
      <3>4. next'[n] = NULL => \A m \in bitmap' : addr'[m] <= addr'[n]
        BY <2>3, <3>1 DEF Structure, Linked
      <3>5. n # head' => \E p \in bitmap' : next'[p] = n
        <4> SUFFICES ASSUME n # next[head] PROVE \E p \in bitmap' : next'[p] = n
          BY <2>1
        <4>1. PICK p \in bitmap : next[p] = n
          BY <3>1 DEF Structure, Linked
        <4>2. p \in bitmap'
          BY <2>1, <4>1
        <4> QED BY <2>3, <4>1, <4>2
      <3> QED BY <3>3, <3>4, <3>5
    <2>8. Linked'
      BY <2>5, <2>6, <2>7 DEF Linked
    <2>9. Structure'
      BY <2>2, <2>4, <2>8 DEF Structure
    <2>10. ASSUME NEW x
           PROVE  x \in FreePages' <=> x \in FreePages /\ x # addr[head]
      <3>1. ASSUME NEW n \in bitmap', x \in addr'[n] .. addr'[n] + cnt'[n] - 1
            PROVE  n \in bitmap /\ x \in Run(n) /\ x # addr[head]
        BY <1>1, <1>2, <1>5, <2>3, <3>1 DEF Run
      <3>2. ASSUME NEW n \in bitmap, x \in Run(n), x # addr[head]
            PROVE  n \in bitmap' /\ x \in addr'[n] .. addr'[n] + cnt'[n] - 1
        <4>1. n # head
          BY <1>1, <1>2, <1>6, <3>2 DEF Run
        <4> QED BY <2>1, <2>3, <3>2, <4>1 DEF Run
      <3>3. x \in FreePages <=> \E n \in bitmap : x \in Run(n)
        BY FreePagesInvariant
      <3>4. x \in FreePages' <=> \E n \in bitmap' : x \in addr'[n] .. addr'[n] + cnt'[n] - 1
        BY <2>9, FreePagesNext
      <3> QED BY <3>1, <3>2, <3>3, <3>4
    <2> QED BY <1>4, <2>9, <2>10
  <1>7. CASE cnt[head] # 1
    <2>1. /\ head' = head /\ next' = next /\ bitmap' = bitmap
          /\ addr' = [addr EXCEPT ![head] = @ + 1]
          /\ cnt' = [cnt EXCEPT ![head] = @ - 1]
      BY <1>7 DEF Alloc
    <2>2. cnt[head] \in 0 .. Total /\ cnt[head] - 1 \in 0 .. Total /\ cnt[head] > 1
      BY <1>1, <1>2, <1>7, RangeAssumption DEF Structure, ListOK
    <2>3. /\ \A n \in bitmap : n # head => addr'[n] = addr[n] /\ cnt'[n] = cnt[n]
          /\ addr'[head] = addr[head] + 1 /\ cnt'[head] = cnt[head] - 1
      BY <1>1, <1>2, <2>1 DEF Structure, ListOK
    <2>4. ListOK'
      BY <1>1, <1>2, <2>1, <2>2 DEF Structure, ListOK
    <2>5. Separate'
      <3>1. ASSUME NEW n \in bitmap
            PROVE  cnt'[n] > 0 /\ First <= addr'[n] /\ addr'[n] + cnt'[n] <= First + Total
        BY <1>1, <1>2, <2>2, <2>3, RangeAssumption
      <3>2. ASSUME NEW m \in bitmap, NEW n \in bitmap, m # n
            PROVE  addr'[m] + cnt'[m] < addr'[n] \/ addr'[n] + cnt'[n] < addr'[m]
        <4>1. addr[m] + cnt[m] < addr[n] \/ addr[n] + cnt[n] < addr[m]
          BY <3>2 DEF Structure, Separate
        <4> QED BY <1>1, <1>2, <2>2, <2>3, <3>2, <4>1
      <3> QED BY <2>1, <3>1, <3>2 DEF Separate
    <2>6. /\ \A n \in bitmap : addr[n] \in Nat /\ addr'[n] \in Nat
          /\ \A m, n \in bitmap : addr'[m] <= addr'[n] <=> addr[m] <= addr[n]
      BY <1>1, <1>2, <1>5, <2>2, <2>3
    <2>7. Linked'
      BY <2>1, <2>6, OrderKept
    <2>8. Structure'
      BY <2>4, <2>5, <2>7 DEF Structure
    <2>9. ASSUME NEW x
           PROVE  x \in FreePages' <=> x \in FreePages /\ x # addr[head]
      <3>1. ASSUME NEW n \in bitmap
            PROVE  x \in addr'[n] .. addr'[n] + cnt'[n] - 1 <=> x \in Run(n) /\ x # addr[head]
        BY <1>1, <1>2, <1>5, <2>2, <2>3 DEF Run
      <3>2. x \in FreePages <=> \E n \in bitmap : x \in Run(n)
        BY FreePagesInvariant
      <3>3. x \in FreePages' <=> \E n \in bitmap : x \in addr'[n] .. addr'[n] + cnt'[n] - 1
        BY <2>1, <2>8, FreePagesNext
      <3> QED BY <3>1, <3>2, <3>3
    <2> QED BY <1>4, <2>8, <2>9
  <1> QED BY <1>6, <1>7

(* A page that is in no run lies in the gap between two neighbours.          *)
LEMMA Gap ==
  ASSUME Structure, NEW a \in Page, ~Overlaps(a), NEW b, b = Before(a), NEW c, c = After(a)
  PROVE  /\ a \in Nat /\ First <= a /\ a + 1 <= First + Total
         /\ b \in bitmap \cup {NULL} /\ c \in bitmap \cup {NULL}
         /\ b = NULL => c = head
         /\ b # NULL => next[b] = c /\ addr[b] + cnt[b] <= a
         /\ c # NULL => a + 1 <= addr[c]
         /\ \A m \in bitmap : \/ b # NULL /\ addr[m] <= addr[b]
                              \/ c # NULL /\ addr[c] <= addr[m]
         /\ \A m \in bitmap : m # b /\ m # c =>
                 \/ b # NULL /\ addr[m] + cnt[m] < addr[b]
                 \/ c # NULL /\ addr[c] + cnt[c] < addr[m]
PROOF
  <1>1. a \in Nat /\ First <= a /\ a + 1 <= First + Total
    BY RangeAssumption DEF Page
  <1>2. /\ b \in bitmap \cup {NULL} /\ c \in bitmap \cup {NULL}
        /\ b = NULL => c = head
        /\ b # NULL => next[b] = c /\ addr[b] < a
        /\ c # NULL => a <= addr[c]
    BY <1>1, Around
  <1>3. \A n \in bitmap : addr[n] \in Nat /\ cnt[n] \in Nat
    BY Runs
  <1>4. /\ b # NULL => addr[b] + cnt[b] <= a
        /\ c # NULL => a + 1 <= addr[c]
    BY <1>1, <1>2, <1>3 DEF Overlaps
  <1>5. \A m \in bitmap : \/ b # NULL /\ addr[m] <= addr[b]
                          \/ c # NULL /\ addr[c] <= addr[m]
    BY <1>2 DEF Structure, Linked
  <1>6. \A m \in bitmap : m # b /\ m # c =>
             \/ b # NULL /\ addr[m] + cnt[m] < addr[b]
             \/ c # NULL /\ addr[c] + cnt[c] < addr[m]
    BY <1>1, Elsewhere
  <1> QED BY <1>1, <1>2, <1>4, <1>5, <1>6

(* A node has one predecessor.                                               *)
LEMMA OnePredecessor ==
  ASSUME Structure, NEW m \in bitmap, NEW n \in bitmap, next[m] = next[n], next[m] # NULL
  PROVE  m = n
PROOF
  <1>1. /\ next[m] \in bitmap
        /\ addr[m] < addr[next[m]] /\ addr[n] < addr[next[m]]
        /\ addr[n] <= addr[m] \/ addr[next[m]] <= addr[n]
        /\ addr[m] <= addr[n] \/ addr[next[m]] <= addr[m]
    BY DEF Structure, Linked
  <1>2. addr[m] \in Nat /\ addr[n] \in Nat /\ addr[next[m]] \in Nat
    BY <1>1, Runs
  <1> QED BY <1>1, <1>2, Runs

(* The page fills the gap: the run behind it becomes part of the one before. *)
LEMMA JoinBothKeeps ==
  ASSUME Structure, NEW a \in Page, ~Overlaps(a), JoinBoth(a)
  PROVE  Structure' /\ FreePages' = FreePages \cup {a}
PROOF
  <1> DEFINE b == Before(a)
             c == After(a)
  <1>1. /\ a \in Nat /\ First <= a /\ a + 1 <= First + Total
        /\ b \in bitmap \cup {NULL} /\ c \in bitmap \cup {NULL}
        /\ b # NULL => next[b] = c
        /\ \A m \in bitmap : m # b /\ m # c =>
                 \/ b # NULL /\ addr[m] + cnt[m] < addr[b]
                 \/ c # NULL /\ addr[c] + cnt[c] < addr[m]
    BY Gap
  <1>2. /\ c # NULL /\ a + 1 = addr[c]
        /\ b # NULL /\ addr[b] + cnt[b] = a
        /\ cnt' = [cnt EXCEPT ![b] = @ + 1 + cnt[c], ![c] = 0]
        /\ next' = [next EXCEPT ![b] = next[c], ![c] = NULL]
        /\ addr' = [addr EXCEPT ![c] = 0]
        /\ bitmap' = bitmap \ {c}
        /\ head' = head
    BY DEF JoinBoth, JoinsAfter, JoinsBefore, FreeBit
  <1> HIDE DEF b, c
  <1>3. b \in bitmap /\ c \in bitmap /\ next[b] = c
    BY <1>1, <1>2
  <1>4. /\ \A n \in bitmap : /\ n \in Node /\ n # NULL
                             /\ addr[n] \in Nat /\ cnt[n] \in Nat /\ cnt[n] > 0
                             /\ First <= addr[n] /\ addr[n] + cnt[n] <= First + Total
        /\ \A m, n \in bitmap : addr[m] = addr[n] => m = n
    BY Runs
  <1>5. b # c
    BY <1>2, <1>3, <1>4
  <1>6. /\ \A n \in bitmap' : n \in bitmap /\ n # c /\ addr'[n] = addr[n]
        /\ \A n \in bitmap' : n # b => cnt'[n] = cnt[n] /\ next'[n] = next[n]
        /\ b \in bitmap' /\ cnt'[b] = cnt[b] + 1 + cnt[c] /\ next'[b] = next[c]
    BY <1>2, <1>3, <1>4, <1>5 DEF Structure, ListOK
  <1>7. /\ cnt[b] + 1 + cnt[c] \in 0 .. Total
        /\ cnt[b] + 1 + cnt[c] > 0
        /\ addr[b] + (cnt[b] + 1 + cnt[c]) = addr[c] + cnt[c]
    BY <1>2, <1>3, <1>4, RangeAssumption
  <1>8. ListOK'
    BY <1>2, <1>3, <1>7, RangeAssumption DEF Structure, ListOK
  <1>9. Separate'
    <2>1. ASSUME NEW n \in bitmap'
          PROVE  cnt'[n] > 0 /\ First <= addr'[n] /\ addr'[n] + cnt'[n] <= First + Total
      <3>1. CASE n = b
        BY <1>3, <1>4, <1>6, <1>7, <3>1
      <3>2. CASE n # b
        BY <1>4, <1>6, <3>2
      <3> QED BY <3>1, <3>2
    <2>2. ASSUME NEW m \in bitmap', NEW n \in bitmap', m # n
          PROVE  addr'[m] + cnt'[m] < addr'[n] \/ addr'[n] + cnt'[n] < addr'[m]
      <3>1. addr[m] + cnt[m] < addr[n] \/ addr[n] + cnt[n] < addr[m]
        BY <1>6, <2>2 DEF Structure, Separate
      <3>2. CASE m # b /\ n # b
        BY <1>6, <3>1, <3>2
      <3>3. CASE m = b
        <4>1. addr[n] + cnt[n] < addr[b] \/ addr[c] + cnt[c] < addr[n]
          BY <1>1, <1>6, <2>2, <3>3
        <4>2. addr'[b] + cnt'[b] = addr[c] + cnt[c] /\ addr'[b] = addr[b]
          BY <1>6, <1>7
        <4>3. n # b /\ addr'[n] = addr[n] /\ cnt'[n] = cnt[n]
          BY <1>6, <2>2, <3>3
        <4> QED BY <3>3, <4>1, <4>2, <4>3
      <3>4. CASE n = b
        <4>1. addr[m] + cnt[m] < addr[b] \/ addr[c] + cnt[c] < addr[m]
          BY <1>1, <1>6, <2>2, <3>4
        <4>2. addr'[b] + cnt'[b] = addr[c] + cnt[c] /\ addr'[b] = addr[b]
          BY <1>6, <1>7
        <4>3. m # b /\ addr'[m] = addr[m] /\ cnt'[m] = cnt[m]
          BY <1>6, <2>2, <3>4
        <4> QED BY <3>4, <4>1, <4>2, <4>3
      <3> QED BY <3>2, <3>3, <3>4
    <2> QED BY <2>1, <2>2 DEF Separate
  <1>10. addr[b] < addr[c] /\ \A m \in bitmap : addr[m] <= addr[b] \/ addr[c] <= addr[m]
    BY <1>2, <1>3 DEF Structure, Linked
  <1>11. \A m \in bitmap' : addr[m] <= addr[c] => addr[m] <= addr[b]
    BY <1>3, <1>4, <1>6, <1>10
  <1>12. head # NULL /\ head \in bitmap' /\ \A m \in bitmap' : addr'[head'] <= addr'[m]
    <2>1. head # NULL /\ head \in bitmap /\ \A m \in bitmap : addr[head] <= addr[m]
      BY <1>3 DEF Structure, Linked
    <2>2. head # c
      BY <1>3, <1>4, <1>10, <2>1
    <2>3. head \in bitmap'
      BY <1>2, <2>1, <2>2
    <2> QED BY <1>2, <1>6, <2>1, <2>3
  <1>13. ASSUME NEW n \in bitmap'
         PROVE  /\ next'[n] # NULL =>
                    /\ next'[n] \in bitmap' /\ addr'[n] < addr'[next'[n]]
                    /\ \A m \in bitmap' : addr'[m] <= addr'[n] \/ addr'[next'[n]] <= addr'[m]
                /\ next'[n] = NULL => \A m \in bitmap' : addr'[m] <= addr'[n]
    <2>1. CASE n = b
      <3>1. CASE next[c] = NULL
        <4>1. \A m \in bitmap : addr[m] <= addr[c]
          BY <1>3, <3>1 DEF Structure, Linked
        <4> QED BY <1>6, <1>11, <2>1, <3>1, <4>1
      <3>2. CASE next[c] # NULL
        <4>1. /\ next[c] \in bitmap /\ addr[c] < addr[next[c]]
              /\ \A m \in bitmap : addr[m] <= addr[c] \/ addr[next[c]] <= addr[m]
          BY <1>3, <3>2 DEF Structure, Linked
        <4>2. next[c] \in bitmap' /\ addr[b] < addr[next[c]]
          BY <1>2, <1>3, <1>4, <1>10, <4>1
        <4> QED BY <1>6, <1>11, <2>1, <3>2, <4>1, <4>2
      <3> QED BY <3>1, <3>2
    <2>2. CASE n # b
      <3>1. n \in bitmap /\ next'[n] = next[n] /\ addr'[n] = addr[n]
        BY <1>6, <2>2
      <3>2. next[n] # c
        BY <1>2, <1>3, <2>2, <3>1, OnePredecessor
      <3>3. CASE next[n] = NULL
        <4>1. \A m \in bitmap : addr[m] <= addr[n]
          BY <3>1, <3>3 DEF Structure, Linked
        <4> QED BY <1>6, <3>1, <3>3, <4>1
      <3>4. CASE next[n] # NULL
        <4>1. /\ next[n] \in bitmap /\ addr[n] < addr[next[n]]
              /\ \A m \in bitmap : addr[m] <= addr[n] \/ addr[next[n]] <= addr[m]
          BY <3>1, <3>4 DEF Structure, Linked
        <4>2. next[n] \in bitmap'
          BY <1>2, <3>2, <4>1
        <4> QED BY <1>6, <3>1, <3>4, <4>1, <4>2
      <3> QED BY <3>3, <3>4
    <2> QED BY <2>1, <2>2
  <1>14. ASSUME NEW n \in bitmap', n # head' PROVE \E p \in bitmap' : next'[p] = n
    <2>1. n \in bitmap /\ n # c /\ n # head
      BY <1>2, <1>6, <1>14
    <2>2. PICK p \in bitmap : next[p] = n
      BY <2>1 DEF Structure, Linked
    <2>3. CASE p = c
      BY <1>6, <2>2, <2>3
    <2>4. CASE p # c
      <3>1. p \in bitmap' /\ p # b
        BY <1>2, <1>3, <2>1, <2>2, <2>4
      <3> QED BY <1>6, <2>2, <3>1
    <2> QED BY <2>3, <2>4
  <1>15. Linked'
    BY <1>2, <1>12, <1>13, <1>14 DEF Linked
  <1>16. Structure'
    BY <1>8, <1>9, <1>15 DEF Structure
  <1>17. ASSUME NEW x PROVE x \in FreePages' <=> x \in FreePages \/ x = a
    <2>1. x \in addr'[b] .. addr'[b] + cnt'[b] - 1 <=> x \in Run(b) \/ x \in Run(c) \/ x = a
      BY <1>1, <1>2, <1>3, <1>4, <1>6 DEF Run
    <2>2. \A n \in bitmap' : n # b => addr'[n] .. addr'[n] + cnt'[n] - 1 = Run(n)
      BY <1>6 DEF Run
    <2>3. x \in FreePages <=> \E n \in bitmap : x \in Run(n)
      BY FreePagesInvariant
    <2>4. x \in FreePages' <=> \E n \in bitmap' : x \in addr'[n] .. addr'[n] + cnt'[n] - 1
      BY <1>16, FreePagesNext
    <2>5. \A n : n \in bitmap <=> n \in bitmap' \/ n = c
      BY <1>2, <1>3
    <2>6. b \in bitmap'
      BY <1>6
    <2> QED BY <2>1, <2>2, <2>3, <2>4, <2>5, <2>6
  <1> QED BY <1>16, <1>17

(* The page comes right before a run, which then begins with it.             *)
LEMMA JoinAfterKeeps ==
  ASSUME Structure, NEW a \in Page, ~Overlaps(a), JoinAfter(a)
  PROVE  Structure' /\ FreePages' = FreePages \cup {a}
PROOF
  <1> DEFINE b == Before(a)
             c == After(a)
  <1>1. /\ a \in Nat /\ First <= a /\ a + 1 <= First + Total
        /\ b \in bitmap \cup {NULL} /\ c \in bitmap \cup {NULL}
        /\ b # NULL => next[b] = c /\ addr[b] + cnt[b] <= a
        /\ \A m \in bitmap : m # b /\ m # c =>
                 \/ b # NULL /\ addr[m] + cnt[m] < addr[b]
                 \/ c # NULL /\ addr[c] + cnt[c] < addr[m]
    BY Gap
  <1>2. /\ c # NULL /\ a + 1 = addr[c]
        /\ ~(b # NULL /\ addr[b] + cnt[b] = a)
        /\ addr' = [addr EXCEPT ![c] = a]
        /\ cnt' = [cnt EXCEPT ![c] = @ + 1]
        /\ head' = head /\ next' = next /\ bitmap' = bitmap
    BY DEF JoinAfter, JoinsAfter, JoinsBefore
  <1> HIDE DEF b, c
  <1>3. c \in bitmap
    BY <1>1, <1>2
  <1>4. /\ \A n \in bitmap : /\ n \in Node /\ n # NULL
                             /\ addr[n] \in Nat /\ cnt[n] \in Nat /\ cnt[n] > 0
                             /\ First <= addr[n] /\ addr[n] + cnt[n] <= First + Total
        /\ \A m, n \in bitmap : addr[m] = addr[n] => m = n
    BY Runs
  <1>5. /\ \A n \in bitmap : n # c => addr'[n] = addr[n] /\ cnt'[n] = cnt[n]
        /\ addr'[c] = a /\ cnt'[c] = cnt[c] + 1
    BY <1>2, <1>3, <1>4 DEF Structure, ListOK
  <1>6. ASSUME NEW m \in bitmap, m # c
        PROVE  addr[m] + cnt[m] < a \/ addr[c] + cnt[c] < addr[m]
    BY <1>1, <1>2, <1>3, <1>4, <1>6
  <1>7. cnt[c] + 1 \in 0 .. Total
    BY <1>1, <1>2, <1>3, <1>4, RangeAssumption
  <1>8. ListOK'
    BY <1>1, <1>2, <1>3, <1>7 DEF Structure, ListOK
  <1>9. Separate'
    <2>1. ASSUME NEW n \in bitmap
          PROVE  cnt'[n] > 0 /\ First <= addr'[n] /\ addr'[n] + cnt'[n] <= First + Total
      BY <1>1, <1>2, <1>3, <1>4, <1>5
    <2>2. ASSUME NEW m \in bitmap, NEW n \in bitmap, m # n
          PROVE  addr'[m] + cnt'[m] < addr'[n] \/ addr'[n] + cnt'[n] < addr'[m]
      <3>1. addr[m] + cnt[m] < addr[n] \/ addr[n] + cnt[n] < addr[m]
        BY <2>2 DEF Structure, Separate
      <3>2. CASE m # c /\ n # c
        BY <1>5, <3>1, <3>2
      <3>3. CASE m = c
        BY <1>1, <1>2, <1>3, <1>4, <1>5, <1>6, <2>2, <3>3
      <3>4. CASE n = c
        BY <1>1, <1>2, <1>3, <1>4, <1>5, <1>6, <2>2, <3>4
      <3> QED BY <3>2, <3>3, <3>4
    <2> QED BY <1>2, <2>1, <2>2 DEF Separate
  <1>10. /\ \A n \in bitmap : addr[n] \in Nat /\ addr'[n] \in Nat
         /\ \A m, n \in bitmap : addr'[m] <= addr'[n] <=> addr[m] <= addr[n]
    BY <1>1, <1>2, <1>3, <1>4, <1>5, <1>6
  <1>11. Linked'
    BY <1>2, <1>10, OrderKept
  <1>12. Structure'
    BY <1>8, <1>9, <1>11 DEF Structure
  <1>13. ASSUME NEW x PROVE x \in FreePages' <=> x \in FreePages \/ x = a
    <2>1. x \in addr'[c] .. addr'[c] + cnt'[c] - 1 <=> x \in Run(c) \/ x = a
      BY <1>1, <1>2, <1>3, <1>4, <1>5 DEF Run
    <2>2. \A n \in bitmap : n # c => addr'[n] .. addr'[n] + cnt'[n] - 1 = Run(n)
      BY <1>5 DEF Run
    <2>3. x \in FreePages <=> \E n \in bitmap : x \in Run(n)
      BY FreePagesInvariant
    <2>4. x \in FreePages' <=> \E n \in bitmap : x \in addr'[n] .. addr'[n] + cnt'[n] - 1
      BY <1>2, <1>12, FreePagesNext
    <2> QED BY <1>3, <2>1, <2>2, <2>3, <2>4
  <1> QED BY <1>12, <1>13

(* The page comes right after a run, which then ends with it.               *)
LEMMA JoinBeforeKeeps ==
  ASSUME Structure, NEW a \in Page, ~Overlaps(a), JoinBefore(a)
  PROVE  Structure' /\ FreePages' = FreePages \cup {a}
PROOF
  <1> DEFINE b == Before(a)
             c == After(a)
  <1>1. /\ a \in Nat /\ First <= a /\ a + 1 <= First + Total
        /\ b \in bitmap \cup {NULL} /\ c \in bitmap \cup {NULL}
        /\ c # NULL => a + 1 <= addr[c]
        /\ \A m \in bitmap : m # b /\ m # c =>
                 \/ b # NULL /\ addr[m] + cnt[m] < addr[b]
                 \/ c # NULL /\ addr[c] + cnt[c] < addr[m]
    BY Gap
  <1>2. /\ b # NULL /\ addr[b] + cnt[b] = a
        /\ ~(c # NULL /\ a + 1 = addr[c])
        /\ cnt' = [cnt EXCEPT ![b] = @ + 1]
        /\ head' = head /\ addr' = addr /\ next' = next /\ bitmap' = bitmap
    BY DEF JoinBefore, JoinsAfter, JoinsBefore
  <1> HIDE DEF b, c
  <1>3. b \in bitmap
    BY <1>1, <1>2
  <1>4. /\ \A n \in bitmap : /\ n \in Node /\ n # NULL
                             /\ addr[n] \in Nat /\ cnt[n] \in Nat /\ cnt[n] > 0
                             /\ First <= addr[n] /\ addr[n] + cnt[n] <= First + Total
        /\ \A m, n \in bitmap : addr[m] = addr[n] => m = n
    BY Runs
  <1>5. /\ \A n \in bitmap : n # b => cnt'[n] = cnt[n]
        /\ cnt'[b] = cnt[b] + 1
    BY <1>2, <1>3, <1>4 DEF Structure, ListOK
  <1>6. ASSUME NEW m \in bitmap, m # b
        PROVE  addr[m] + cnt[m] < addr[b] \/ a + 1 < addr[m]
    BY <1>1, <1>2, <1>3, <1>4, <1>6
  <1>7. cnt[b] + 1 \in 0 .. Total /\ addr[b] + (cnt[b] + 1) = a + 1 /\ cnt[b] + 1 > 0
    BY <1>1, <1>2, <1>3, <1>4, RangeAssumption
  <1>8. ListOK'
    BY <1>2, <1>3, <1>7 DEF Structure, ListOK
  <1>9. Separate'
    <2>1. ASSUME NEW n \in bitmap
          PROVE  cnt'[n] > 0 /\ First <= addr[n] /\ addr[n] + cnt'[n] <= First + Total
      BY <1>1, <1>3, <1>4, <1>5, <1>7
    <2>2. ASSUME NEW m \in bitmap, NEW n \in bitmap, m # n
          PROVE  addr[m] + cnt'[m] < addr[n] \/ addr[n] + cnt'[n] < addr[m]
      <3>1. addr[m] + cnt[m] < addr[n] \/ addr[n] + cnt[n] < addr[m]
        BY <2>2 DEF Structure, Separate
      <3>2. CASE m # b /\ n # b
        BY <1>5, <3>1, <3>2
      <3>3. CASE m = b
        BY <1>5, <1>6, <1>7, <2>2, <3>3
      <3>4. CASE n = b
        BY <1>5, <1>6, <1>7, <2>2, <3>4
      <3> QED BY <3>2, <3>3, <3>4
    <2> QED BY <1>2, <2>1, <2>2 DEF Separate
  <1>10. Linked'
    BY <1>2 DEF Structure, Linked
  <1>11. Structure'
    BY <1>8, <1>9, <1>10 DEF Structure
  <1>12. ASSUME NEW x PROVE x \in FreePages' <=> x \in FreePages \/ x = a
    <2>1. x \in addr[b] .. addr[b] + cnt'[b] - 1 <=> x \in Run(b) \/ x = a
      BY <1>1, <1>2, <1>3, <1>4, <1>5 DEF Run
    <2>2. \A n \in bitmap : n # b => addr[n] .. addr[n] + cnt'[n] - 1 = Run(n)
      BY <1>5 DEF Run
    <2>3. x \in FreePages <=> \E n \in bitmap : x \in Run(n)
      BY FreePagesInvariant
    <2>4. x \in FreePages' <=> \E n \in bitmap : x \in addr[n] .. addr[n] + cnt'[n] - 1
      BY <1>2, <1>11, FreePagesNext
    <2> QED BY <1>3, <2>1, <2>2, <2>3, <2>4
  <1> QED BY <1>11, <1>12

(* alloc_node finds a node that is not on the list.                         *)
LEMMA FirstUnusedFree ==
  ASSUME Structure, Node \ bitmap # {}
  PROVE  FirstUnused \in Node \ bitmap
PROOF
  <1>1. Node \ bitmap \subseteq Nat
    BY NodeAssumption DEF Node
  <1>2. \E n \in Node \ bitmap : \A m \in Node \ bitmap : n <= m
    BY <1>1, LeastOf
  <1> QED BY <1>2 DEF FirstUnused

(* A run of its own, between two neighbours.                                *)
LEMMA InsertKeeps ==
  ASSUME Structure, NEW a \in Page, ~Overlaps(a), Insert(a)
  PROVE  Structure' /\ FreePages' = FreePages \cup {a}
PROOF
  <1> DEFINE b == Before(a)
             c == After(a)
             n == FirstUnused
  <1>1. /\ a \in Nat /\ First <= a /\ a + 1 <= First + Total
        /\ b \in bitmap \cup {NULL} /\ c \in bitmap \cup {NULL}
        /\ b = NULL => c = head
        /\ b # NULL => next[b] = c /\ addr[b] + cnt[b] <= a
        /\ c # NULL => a + 1 <= addr[c]
        /\ \A m \in bitmap : \/ b # NULL /\ addr[m] <= addr[b]
                             \/ c # NULL /\ addr[c] <= addr[m]
        /\ \A m \in bitmap : m # b /\ m # c =>
                 \/ b # NULL /\ addr[m] + cnt[m] < addr[b]
                 \/ c # NULL /\ addr[c] + cnt[c] < addr[m]
    BY Gap
  <1>2. n \in Node /\ n \notin bitmap /\ n # NULL
    BY FirstUnusedFree, NodeAssumption DEF Insert
  <1>3. /\ ~(c # NULL /\ a + 1 = addr[c])
        /\ ~(b # NULL /\ addr[b] + cnt[b] = a)
        /\ bitmap' = bitmap \cup {n}
        /\ addr' = [addr EXCEPT ![n] = a]
        /\ cnt' = [cnt EXCEPT ![n] = 1]
        /\ head' = IF b = NULL THEN n ELSE head
        /\ next' = IF b = NULL THEN [next EXCEPT ![n] = c]
                   ELSE [next EXCEPT ![n] = c, ![b] = n]
    BY DEF Insert, JoinsAfter, JoinsBefore
  <1> HIDE DEF b, c, n
  <1>4. /\ \A m \in bitmap : /\ m \in Node /\ m # NULL
                             /\ addr[m] \in Nat /\ cnt[m] \in Nat /\ cnt[m] > 0
                             /\ First <= addr[m] /\ addr[m] + cnt[m] <= First + Total
        /\ \A m, k \in bitmap : addr[m] = addr[k] => m = k
    BY Runs
  <1>5. /\ \A m \in bitmap : m # n /\ addr'[m] = addr[m] /\ cnt'[m] = cnt[m]
        /\ \A m \in bitmap : m # b => next'[m] = next[m]
        /\ addr'[n] = a /\ cnt'[n] = 1 /\ next'[n] = c
        /\ b # NULL => next'[b] = n
    BY <1>1, <1>2, <1>3, <1>4 DEF Structure, ListOK
  <1>6. ASSUME NEW m \in bitmap
        PROVE  addr[m] + cnt[m] < a \/ a + 1 < addr[m]
    <2>1. CASE m = b \/ m = c
      BY <1>1, <1>3, <1>4, <2>1
    <2>2. CASE m # b /\ m # c
      BY <1>1, <1>3, <1>4, <2>2
    <2> QED BY <2>1, <2>2
  <1>7. ListOK'
    BY <1>1, <1>2, <1>3, RangeAssumption DEF Structure, ListOK
  <1>8. Separate'
    <2>1. ASSUME NEW m \in bitmap'
          PROVE  cnt'[m] > 0 /\ First <= addr'[m] /\ addr'[m] + cnt'[m] <= First + Total
      BY <1>1, <1>3, <1>4, <1>5
    <2>2. ASSUME NEW m \in bitmap', NEW k \in bitmap', m # k
          PROVE  addr'[m] + cnt'[m] < addr'[k] \/ addr'[k] + cnt'[k] < addr'[m]
      <3>1. CASE m # n /\ k # n
        BY <1>3, <1>5, <2>2, <3>1 DEF Structure, Separate
      <3>2. CASE m = n
        BY <1>3, <1>5, <1>6, <2>2, <3>2
      <3>3. CASE k = n
        BY <1>3, <1>5, <1>6, <2>2, <3>3
      <3> QED BY <3>1, <3>2, <3>3
    <2> QED BY <2>1, <2>2 DEF Separate
  <1>9. ASSUME NEW m \in bitmap
        PROVE  /\ addr[m] < a => b # NULL /\ addr[m] <= addr[b]
               /\ a < addr[m] => c # NULL /\ addr[c] <= addr[m]
    BY <1>1, <1>3, <1>4
  <1>10. head' \in bitmap' /\ head' # NULL /\ \A m \in bitmap' : addr'[head'] <= addr'[m]
    <2>1. CASE b = NULL
      <3>1. \A m \in bitmap : a < addr[m]
        BY <1>1, <1>4, <1>6, <1>9, <2>1
      <3> QED BY <1>1, <1>2, <1>3, <1>4, <1>5, <2>1, <3>1
    <2>2. CASE b # NULL
      <3>1. b \in bitmap /\ addr[b] < a
        BY <1>1, <1>4, <2>2
      <3>2. head # NULL /\ head \in bitmap /\ \A m \in bitmap : addr[head] <= addr[m]
        BY <3>1 DEF Structure, Linked
      <3> QED BY <1>1, <1>3, <1>4, <1>5, <2>2, <3>1, <3>2
    <2> QED BY <2>1, <2>2
  <1>11. ASSUME NEW m \in bitmap'
         PROVE  /\ next'[m] # NULL =>
                    /\ next'[m] \in bitmap' /\ addr'[m] < addr'[next'[m]]
                    /\ \A k \in bitmap' : addr'[k] <= addr'[m] \/ addr'[next'[m]] <= addr'[k]
                /\ next'[m] = NULL => \A k \in bitmap' : addr'[k] <= addr'[m]
    <2>1. CASE m = n
      <3>1. \A k \in bitmap : addr[k] <= a \/ (c # NULL /\ addr[c] <= addr[k])
        BY <1>1, <1>4, <1>9
      <3>2. addr'[m] = a /\ next'[m] = c
        BY <1>5, <2>1
      <3>3. CASE c = NULL
        BY <1>1, <1>3, <1>5, <3>1, <3>2, <3>3
      <3>4. CASE c # NULL
        <4>1. c \in bitmap' /\ addr'[c] = addr[c] /\ a < addr[c]
          BY <1>1, <1>3, <1>4, <1>5, <3>4
        <4>2. \A k \in bitmap' : addr'[k] <= a \/ addr[c] <= addr'[k]
          BY <1>1, <1>3, <1>5, <3>1
        <4> QED BY <3>2, <3>4, <4>1, <4>2
      <3> QED BY <3>3, <3>4
    <2>2. CASE m = b /\ m # n
      <3>1. b \in bitmap /\ addr[b] < a /\ next'[b] = n
        BY <1>1, <1>3, <1>4, <1>5, <2>2
      <3>2. \A k \in bitmap : addr[k] <= addr[b] \/ a <= addr[k]
        BY <1>1, <1>4, <1>9
      <3>3. addr'[m] = addr[b] /\ next'[m] = n /\ n # NULL /\ n \in bitmap' /\ addr'[n] = a
        BY <1>2, <1>3, <1>5, <2>2, <3>1
      <3>4. \A k \in bitmap' : addr'[k] <= addr[b] \/ a <= addr'[k]
        BY <1>1, <1>3, <1>5, <3>2
      <3> QED BY <3>1, <3>3, <3>4
    <2>3. CASE m # b /\ m # n
      <3>1. m \in bitmap /\ next'[m] = next[m]
        BY <1>3, <1>5, <2>3
      <3>2. CASE next[m] = NULL
        <4>1. \A k \in bitmap : addr[k] <= addr[m]
          BY <3>1, <3>2 DEF Structure, Linked
        <4>2. a <= addr[m]
          BY <1>1, <1>4, <1>9, <2>3, <3>1, <4>1
        <4> QED BY <1>3, <1>5, <3>1, <3>2, <4>1, <4>2
      <3>3. CASE next[m] # NULL
        <4>1. /\ next[m] \in bitmap /\ addr[m] < addr[next[m]]
              /\ \A k \in bitmap : addr[k] <= addr[m] \/ addr[next[m]] <= addr[k]
          BY <3>1, <3>3 DEF Structure, Linked
        <4>2. a <= addr[m] \/ addr[next[m]] <= a
          <5> SUFFICES ASSUME addr[m] < a PROVE addr[next[m]] <= a
            BY <1>1, <1>4, <3>1
          <5>1. b \in bitmap /\ addr[m] <= addr[b] /\ addr[b] < a
            BY <1>1, <1>4, <1>9, <3>1
          <5>2. addr[m] < addr[b]
            BY <1>4, <2>3, <3>1, <5>1
          <5> QED BY <1>1, <1>4, <3>1, <4>1, <5>1, <5>2
        <4>3. /\ addr'[m] = addr[m] /\ next'[m] = next[m]
              /\ next[m] \in bitmap' /\ addr'[next[m]] = addr[next[m]]
          BY <1>3, <1>5, <3>1, <4>1
        <4>4. \A k \in bitmap' : addr'[k] <= addr[m] \/ addr[next[m]] <= addr'[k]
          BY <1>3, <1>5, <4>1, <4>2
        <4> QED BY <3>3, <4>1, <4>3, <4>4
      <3> QED BY <3>2, <3>3
    <2> QED BY <2>1, <2>2, <2>3
  <1>12. ASSUME NEW m \in bitmap', m # head' PROVE \E p \in bitmap' : next'[p] = m
    <2>1. CASE m = n
      BY <1>1, <1>3, <1>5, <1>12, <2>1
    <2>2. CASE m = c /\ m # n
      BY <1>3, <1>5, <2>2
    <2>3. CASE m # n /\ m # c
      <3>1. m \in bitmap /\ m # head
        BY <1>1, <1>3, <1>12, <2>3
      <3>2. PICK p \in bitmap : next[p] = m
        BY <3>1 DEF Structure, Linked
      <3>3. p # b
        BY <1>1, <1>4, <2>3, <3>2
      <3> QED BY <1>3, <1>5, <3>2, <3>3
    <2> QED BY <2>1, <2>2, <2>3
  <1>13. Linked'
    BY <1>10, <1>11, <1>12 DEF Linked
  <1>14. Structure'
    BY <1>7, <1>8, <1>13 DEF Structure
  <1>15. ASSUME NEW x PROVE x \in FreePages' <=> x \in FreePages \/ x = a
    <2>1. x \in addr'[n] .. addr'[n] + cnt'[n] - 1 <=> x = a
      BY <1>1, <1>5
    <2>2. \A m \in bitmap : addr'[m] .. addr'[m] + cnt'[m] - 1 = Run(m)
      BY <1>5 DEF Run
    <2>3. x \in FreePages <=> \E m \in bitmap : x \in Run(m)
      BY FreePagesInvariant
    <2>4. x \in FreePages' <=> \E m \in bitmap' : x \in addr'[m] .. addr'[m] + cnt'[m] - 1
      BY <1>14, FreePagesNext
    <2> QED BY <1>3, <2>1, <2>2, <2>3, <2>4
  <1> QED BY <1>14, <1>15

-----------------------------------------------------------------------------
(***************************************************************************)
(* 5. The invariant.                                                       *)
(***************************************************************************)
LEMMA PagesFinite ==
  ASSUME NEW S, S \subseteq Page
  PROVE  IsFiniteSet(S) /\ Cardinality(S) \in 0 .. Total
PROOF
  <1>1. First \in Int /\ First + Total - 1 \in Int /\ Total \in Nat
    BY RangeAssumption
  <1>2. IsFiniteSet(Page) /\ Cardinality(Page) = Total
    BY <1>1, RangeAssumption, FS_Interval DEF Page
  <1>3. IsFiniteSet(S) /\ Cardinality(S) <= Total
    BY <1>2, FS_Subset
  <1>4. Cardinality(S) \in Nat
    BY <1>3, FS_CardinalityType
  <1> QED BY <1>1, <1>3, <1>4

LEMMA InitIInv == Init => IInv
PROOF
  <1> SUFFICES ASSUME Init PROVE IInv
    OBVIOUS
  <1>1. 0 \in Node
    BY NodeAssumption DEF Node
  <1>2. TypeOK
    BY <1>1, RangeAssumption DEF Init, TypeOK
  <1>3. addr[0] = First /\ cnt[0] = Total /\ next[0] = NULL
    BY <1>1 DEF Init
  <1>4. Separate
    BY <1>3, RangeAssumption DEF Init, Separate
  <1>5. Linked
    BY <1>1, <1>3, RangeAssumption, NodeAssumption DEF Init, Linked
  <1>6. Structure
    BY <1>2, <1>4, <1>5 DEF Structure, TypeOK, ListOK
  <1>7. FreePages = Page
    <2>1. \A x : x \in FreePages <=> \E n \in bitmap : x \in Run(n)
      BY <1>6, FreePagesInvariant
    <2>2. Run(0) = Page
      BY <1>3 DEF Run, Page
    <2> QED BY <2>1, <2>2 DEF Init
  <1>8. Cardinality(Page) = Total
    BY RangeAssumption, FS_Interval DEF Page
  <1>9. PagesConserved
    BY <1>7, <1>8 DEF Init, PagesConserved
  <1> QED BY <1>2, <1>4, <1>5, <1>9 DEF IInv, Init, BufferSuffices

(* What the allocator does with a page in hand that is not free: the page   *)
(* joins the free pages, or the buffer is exhausted.                        *)
LEMMA AddRecordStep ==
  ASSUME Structure, NEW a \in Page, ~Overlaps(a), AddRecord(a)
  PROVE  /\ Structure'
         /\ \/ halted' = halted /\ FreePages' = FreePages \cup {a}
            \/ /\ halted' = "exhausted" /\ FreePages' = FreePages
               /\ ~JoinsAfter(a) /\ bitmap = Node /\ UNCHANGED list
PROOF
  <1>1. CASE JoinBoth(a)
    BY <1>1, JoinBothKeeps DEF JoinBoth
  <1>2. CASE JoinAfter(a)
    BY <1>2, JoinAfterKeeps DEF JoinAfter
  <1>3. CASE JoinBefore(a)
    BY <1>3, JoinBeforeKeeps DEF JoinBefore
  <1>4. CASE Insert(a)
    BY <1>4, InsertKeeps DEF Insert
  <1>5. CASE Exhausted(a)
    <2>1. UNCHANGED list
      BY <1>5 DEF Exhausted
    <2>2. Structure'
      BY <2>1 DEF list, Structure, ListOK, Separate, Linked
    <2>3. FreePages' = FreePages
      BY <2>1 DEF list, FreePages, Listed, Chain, Run
    <2> QED BY <1>5, <2>1, <2>2, <2>3 DEF Exhausted
  <1> QED BY <1>1, <1>2, <1>3, <1>4, <1>5 DEF AddRecord

(* With every node on the list there is a page in front of every run but    *)
(* the first that a caller holds, and none of these is the page that came.  *)
LEMMA GapsAreHeld ==
  ASSUME Structure, NEW H, Page \ FreePages \subseteq H, H \subseteq Page,
         NEW a \in Page, ~Overlaps(a), ~JoinsAfter(a), bitmap = Node
  PROVE  Cardinality(H \ {a}) >= NODE_COUNT - 1
PROOF
  <1> DEFINE S == Node \ {head}
             T == H \ {a}
             f == [n \in S |-> addr[n] - 1]
  <1>1. NODE_COUNT \in Nat /\ NODE_COUNT > 0 /\ 0 \in Node
    BY NodeAssumption DEF Node
  <1>2. /\ \A n \in bitmap : /\ n \in Node /\ n # NULL
                             /\ addr[n] \in Nat /\ cnt[n] \in Nat /\ cnt[n] > 0
                             /\ First <= addr[n] /\ addr[n] + cnt[n] <= First + Total
        /\ \A m, n \in bitmap : addr[m] = addr[n] => m = n
    BY Runs
  <1>3. head \in bitmap /\ \A n \in bitmap : addr[head] <= addr[n]
    BY <1>1 DEF Structure, Linked
  <1>4. ASSUME NEW n \in S
        PROVE  addr[n] - 1 \in T
    <2>1. n \in bitmap /\ n # head
      OBVIOUS
    <2>2. addr[head] < addr[n]
      BY <1>2, <1>3, <2>1
    <2>3. addr[n] - 1 \in Page
      BY <1>2, <1>3, <2>1, <2>2, RangeAssumption DEF Page
    <2>4. ASSUME NEW m \in bitmap, addr[n] - 1 \in Run(m) PROVE FALSE
      <3>1. addr[m] <= addr[n] - 1 /\ addr[n] - 1 < addr[m] + cnt[m]
        BY <1>2, <2>1, <2>4 DEF Run
      <3>2. m # n
        BY <1>2, <2>1, <3>1
      <3>3. addr[m] + cnt[m] < addr[n] \/ addr[n] + cnt[n] < addr[m]
        BY <2>1, <3>2 DEF Structure, Separate
      <3> QED BY <1>2, <2>1, <3>1, <3>3
    <2>5. addr[n] - 1 \notin FreePages
      BY <2>4, FreePagesInvariant
    <2>6. addr[n] - 1 # a
      <3> SUFFICES ASSUME a + 1 = addr[n] PROVE FALSE
        BY <1>2, <2>1
      <3> DEFINE b == Before(a)
                 c == After(a)
      <3>1. /\ a \in Nat
            /\ b \in bitmap \cup {NULL} /\ c \in bitmap \cup {NULL}
            /\ b # NULL => addr[b] + cnt[b] <= a
            /\ c # NULL => a + 1 <= addr[c]
            /\ n # b /\ n # c =>
                 \/ b # NULL /\ addr[n] + cnt[n] < addr[b]
                 \/ c # NULL /\ addr[c] + cnt[c] < addr[n]
        BY <2>1, Gap
      <3>2. ~(c # NULL /\ a + 1 = addr[c])
        BY DEF JoinsAfter
      <3> HIDE DEF b, c
      <3>3. n # c
        BY <1>2, <2>1, <3>2
      <3>4. n # b
        BY <1>2, <2>1, <3>1
      <3> QED BY <1>2, <2>1, <3>1, <3>3, <3>4
    <2> QED BY <2>3, <2>5, <2>6
  <1>5. IsFiniteSet(Node) /\ Cardinality(Node) = NODE_COUNT
    BY <1>1, FS_Interval DEF Node
  <1>6. IsFiniteSet(S) /\ Cardinality(S) = NODE_COUNT - 1
    BY <1>2, <1>3, <1>5, FS_RemoveElement
  <1>7. IsFiniteSet(T) /\ Cardinality(T) \in Nat
    <2>1. T \subseteq Page
      OBVIOUS
    <2> HIDE DEF T
    <2> QED BY <2>1, PagesFinite, RangeAssumption
  <1>8. SUFFICES ASSUME Cardinality(T) < Cardinality(S) PROVE FALSE
    BY <1>1, <1>6, <1>7
  <1>9. f \in [S -> T]
    BY <1>4
  <1>10. PICK m, n \in S : m # n /\ f[m] = f[n]
    <2> HIDE DEF f, S, T
    <2> QED BY <1>6, <1>7, <1>8, <1>9, FS_PigeonHole
  <1>11. addr[m] - 1 = addr[n] - 1 /\ m \in bitmap /\ n \in bitmap
    BY <1>10
  <1> QED BY <1>2, <1>10, <1>11

LEMMA AllocStep ==
  ASSUME IInv, Alloc
  PROVE  /\ IInv'
         /\ addr[head] \in FreePages
         /\ \A x \in FreePages : addr[head] <= x
         /\ FreePages' = FreePages \ {addr[head]}
PROOF
  <1> DEFINE a == addr[head]
  <1>1. Structure
    BY DEF IInv, TypeOK, Structure, ListOK
  <1>2. /\ halted = "no" /\ count # 0
        /\ count' = count - 1 /\ held' = held \cup {a} /\ halted' = halted
    BY DEF Alloc
  <1>3. /\ held \cap FreePages = {} /\ held \cup FreePages = Page
        /\ count = Cardinality(FreePages)
    BY <1>2 DEF IInv, PagesConserved
  <1>4. head # NULL
    <2>1. FreePages # {}
      BY <1>2, <1>3, FS_EmptySet
    <2>2. bitmap # {}
      BY <1>1, <2>1, FreePagesInvariant
    <2> QED BY <1>1, <2>2 DEF Structure, Linked
  <1>5. /\ Structure' /\ a \in FreePages /\ \A x \in FreePages : a <= x
        /\ FreePages' = FreePages \ {a}
    BY <1>1, <1>4, AllocKeeps
  <1>6. FreePages \subseteq Page /\ FreePages' \subseteq Page
    BY <1>3, <1>5
  <1> HIDE DEF a
  <1>7. IsFiniteSet(FreePages) /\ Cardinality(FreePages) \in 0 .. Total
    BY <1>6, PagesFinite
  <1>8. Cardinality(FreePages') = count - 1 /\ count - 1 \in 0 .. Total
    BY <1>2, <1>3, <1>5, <1>7, RangeAssumption, FS_RemoveElement, SMTT(60)
  <1>9. PagesConserved'
    BY <1>2, <1>3, <1>5, <1>8 DEF PagesConserved
  <1>10. TypeOK'
    <2>1. count' \in 0 .. Total + 1
      BY <1>2, <1>8, RangeAssumption
    <2>2. held' \subseteq Page
      BY <1>2, <1>3, <1>5
    <2>3. halted' \in {"no", "no_page", "overlap", "exhausted"}
      BY <1>2
    <2> QED BY <1>5, <2>1, <2>2, <2>3 DEF TypeOK, Structure, ListOK
  <1>11. BufferSuffices'
    BY <1>2 DEF BufferSuffices
  <1> QED BY <1>5, <1>9, <1>10, <1>11 DEF IInv, Structure, a

LEMMA FreeStep ==
  ASSUME IInv, NEW a \in held, Free(a)
  PROVE  /\ IInv'
         /\ halted' # "overlap"
         /\ \/ FreePages' = FreePages
            \/ a \notin FreePages /\ FreePages' = FreePages \cup {a}
PROOF
  <1>1. Structure
    BY DEF IInv, TypeOK, Structure, ListOK
  <1>2. halted = "no" /\ held' = held \ {a} /\ AddRecord(a) /\ count' = count + 1
    BY DEF Free, AddRecord
  <1>3. /\ held \cap FreePages = {} /\ held \cup FreePages = Page
        /\ count = Cardinality(FreePages)
    BY <1>2 DEF IInv, PagesConserved
  <1>4. a \in Page /\ a \in Nat /\ a \notin FreePages
    BY <1>3, RangeAssumption DEF Page
  <1>5. ~Overlaps(a)
    BY <1>1, <1>4, OverlapsAreFree
  <1>6. /\ Structure'
        /\ \/ halted' = halted /\ FreePages' = FreePages \cup {a}
           \/ /\ halted' = "exhausted" /\ FreePages' = FreePages
              /\ ~JoinsAfter(a) /\ bitmap = Node /\ UNCHANGED list
    BY <1>1, <1>2, <1>4, <1>5, AddRecordStep
  <1>7. FreePages \subseteq Page /\ FreePages' \subseteq Page
    BY <1>3, <1>4, <1>6
  <1>8. IsFiniteSet(FreePages) /\ count \in 0 .. Total
    BY <1>3, <1>7, PagesFinite
  <1>9. TypeOK'
    <2>1. count' \in 0 .. Total + 1
      BY <1>2, <1>8, RangeAssumption
    <2>2. held' \subseteq Page
      BY <1>2, <1>3
    <2>3. halted' \in {"no", "no_page", "overlap", "exhausted"}
      BY <1>2, <1>6
    <2> QED BY <1>6, <2>1, <2>2, <2>3 DEF TypeOK, Structure, ListOK
  <1>10. PagesConserved'
    <2> SUFFICES ASSUME halted' = "no" PROVE PagesConserved'
      BY DEF PagesConserved
    <2>1. FreePages' = FreePages \cup {a}
      BY <1>6
    <2>2. Cardinality(FreePages') = count + 1
      BY <1>3, <1>4, <1>8, <2>1, FS_AddElement
    <2> QED BY <1>2, <1>3, <1>4, <2>1, <2>2 DEF PagesConserved
  <1>11. BufferSuffices'
    <2> SUFFICES ASSUME halted' = "exhausted" PROVE Cardinality(held') >= NODE_COUNT - 1
      BY DEF BufferSuffices
    <2>1. ~JoinsAfter(a) /\ bitmap = Node
      BY <1>2, <1>6
    <2>2. Page \ FreePages \subseteq held /\ held \subseteq Page
      BY <1>3
    <2> QED BY <1>1, <1>2, <1>4, <1>5, <2>1, <2>2, GapsAreHeld
  <1> QED BY <1>2, <1>4, <1>6, <1>9, <1>10, <1>11 DEF IInv, Structure

(* The assertions catch every page that is freed twice.                      *)
LEMMA FreeTwiceStep ==
  ASSUME IInv, NEW a \in Page, FreeTwice(a)
  PROVE  IInv' /\ halted' = "overlap" /\ FreePages' = FreePages
PROOF
  <1>1. Structure
    BY DEF IInv, TypeOK, Structure, ListOK
  <1>2. halted = "no" /\ a \in FreePages /\ held' = held /\ AddRecord(a) /\ count' = count + 1
    BY DEF FreeTwice, AddRecord
  <1>3. Overlaps(a)
    BY <1>1, <1>2, RangeAssumption, OverlapsAreFree DEF Page
  <1>4. halted' = "overlap" /\ UNCHANGED list
    BY <1>2, <1>3 DEF AddRecord
  <1>5. FreePages' = FreePages
    BY <1>4 DEF list, FreePages, Listed, Chain, Run
  <1>6. count \in 0 .. Total
    <2>1. count = Cardinality(FreePages) /\ FreePages \subseteq Page
      BY <1>1, <1>2, FreePagesInvariant DEF IInv, PagesConserved
    <2> QED BY <2>1, PagesFinite
  <1>7. TypeOK'
    BY <1>2, <1>4, <1>6, RangeAssumption DEF IInv, TypeOK, list
  <1>8. Separate' /\ Linked'
    BY <1>4 DEF IInv, Separate, Linked, list
  <1>9. PagesConserved' /\ BufferSuffices'
    BY <1>4 DEF PagesConserved, BufferSuffices
  <1> QED BY <1>4, <1>5, <1>7, <1>8, <1>9 DEF IInv

LEMMA AllocEmptyStep ==
  ASSUME IInv, AllocEmpty
  PROVE  IInv' /\ FreePages' = FreePages
PROOF
  <1>1. halted' = "no_page" /\ UNCHANGED <<count, list, held>>
    BY DEF AllocEmpty
  <1>2. FreePages' = FreePages
    BY <1>1 DEF list, FreePages, Listed, Chain, Run
  <1>3. TypeOK' /\ Separate' /\ Linked'
    BY <1>1 DEF IInv, TypeOK, Separate, Linked, list
  <1>4. PagesConserved' /\ BufferSuffices'
    BY <1>1 DEF PagesConserved, BufferSuffices
  <1> QED BY <1>2, <1>3, <1>4 DEF IInv

LEMMA StutterStep ==
  ASSUME IInv, UNCHANGED vars
  PROVE  IInv' /\ FreePages' = FreePages
PROOF
  <1>1. FreePages' = FreePages
    BY DEF vars, FreePages, Listed, Chain, Run
  <1>2. TypeOK' /\ Separate' /\ Linked'
    BY DEF IInv, TypeOK, Separate, Linked, vars
  <1>3. PagesConserved' /\ BufferSuffices'
    BY <1>1 DEF IInv, PagesConserved, BufferSuffices, vars
  <1> QED BY <1>1, <1>2, <1>3 DEF IInv

LEMMA FreeIsOfHeld ==
  ASSUME NEW a, Free(a)
  PROVE  a \in held
BY DEF Free

LEMMA NextIInv == IInv /\ [Next]_vars => IInv'
PROOF
  <1> SUFFICES ASSUME IInv, [Next]_vars PROVE IInv'
    OBVIOUS
  <1>1. CASE Alloc
    BY <1>1, AllocStep
  <1>2. CASE AllocEmpty
    BY <1>2, AllocEmptyStep
  <1>3. ASSUME NEW a \in Page, Free(a) PROVE IInv'
    BY <1>3, FreeIsOfHeld, FreeStep
  <1>4. ASSUME NEW a \in Page, FreeTwice(a) PROVE IInv'
    BY <1>4, FreeTwiceStep
  <1>5. CASE Spin
    BY <1>5, StutterStep DEF Spin
  <1>6. CASE UNCHANGED vars
    BY <1>6, StutterStep
  <1> QED BY <1>1, <1>2, <1>3, <1>4, <1>5, <1>6 DEF Next

LEMMA IInvAlways == Spec => []IInv
BY InitIInv, NextIInv, PTL DEF Spec

-----------------------------------------------------------------------------
(***************************************************************************)
(* 6. The theorems.                                                        *)
(***************************************************************************)

(* However pages are taken and given back, the list stays sorted and        *)
(* merged, it is exactly the nodes whose bit is set, and it ends.           *)
THEOREM FreeListAlwaysSound == Spec => []FreeListSound
PROOF
  <1>1. IInv => FreeListSound
    BY Sound DEF IInv
  <1> QED BY <1>1, IInvAlways, PTL

(* No page is lost or in two hands, and pmu.count is the number of pages    *)
(* in the list, so pmu_alloc never follows a null head.                     *)
THEOREM PagesAlwaysConserved == Spec => []PagesConserved
PROOF
  <1>1. IInv => PagesConserved
    BY DEF IInv
  <1> QED BY <1>1, IInvAlways, PTL

(* Running out of nodes takes callers that hold a page in each of           *)
(* NODE_COUNT - 1 gaps: for every size of the buffer, nodes do not leak.    *)
THEOREM BufferAlwaysSuffices == Spec => []BufferSuffices
PROOF
  <1>1. IInv => BufferSuffices
    BY DEF IInv
  <1> QED BY <1>1, IInvAlways, PTL

(* pmu_free of a page that its caller holds never fails the assertions on   *)
(* overlapping ranges.                                                      *)
THEOREM NeverAFalseAlarm == Spec => NoFalseAlarm
PROOF
  <1>1. IInv /\ [Next]_vars => [\A a \in held : Free(a) => halted' # "overlap"]_vars
    BY FreeStep
  <1> QED BY <1>1, IInvAlways, PTL DEF Spec, NoFalseAlarm

(* pmu_alloc and pmu_free implement a set of pages from which the lowest is *)
(* taken: the list, its runs and its nodes are not seen by the callers.     *)
THEOREM AllocatorIsPageSet == Spec => ImplementsPageSet
PROOF
  <1>1. Init => Pages!Init
    <2> SUFFICES ASSUME Init PROVE FreePages = Page
      BY DEF Pages!Init
    <2>1. PagesConserved /\ held = {} /\ halted = "no"
      BY InitIInv DEF IInv, Init
    <2> QED BY <2>1 DEF PagesConserved
  <1>2. IInv /\ [Next]_vars => [Pages!Next]_FreePages
    <2> SUFFICES ASSUME IInv, [Next]_vars PROVE Pages!Next \/ FreePages' = FreePages
      OBVIOUS
    <2>1. CASE Alloc
      <3>1. /\ addr[head] \in FreePages /\ \A x \in FreePages : addr[head] <= x
            /\ FreePages' = FreePages \ {addr[head]}
        BY <2>1, AllocStep
      <3>2. FreePages \subseteq Nat
        <4>1. FreePages \subseteq Page
          BY FreePagesInvariant DEF IInv, TypeOK, Structure, ListOK
        <4> QED BY <4>1, RangeAssumption DEF Page
      <3>3. Pages!Lowest(FreePages) = addr[head]
        <4> DEFINE Is(x) == x \in FreePages /\ \A y \in FreePages : x <= y
        <4>1. Is(addr[head])
          BY <3>1
        <4>2. ASSUME NEW x, Is(x) PROVE x = addr[head]
          <5>1. x \in Nat /\ addr[head] \in Nat
            BY <3>1, <3>2, <4>2
          <5>2. x <= addr[head] /\ addr[head] <= x
            BY <3>1, <4>2
          <5> QED BY <5>1, <5>2
        <4>3. Is(CHOOSE x : Is(x))
          <5> HIDE DEF Is
          <5> QED BY <4>1, Zenon
        <4>4. Pages!Lowest(FreePages) = CHOOSE x : Is(x)
          BY Zenon DEF Pages!Lowest
        <4> QED BY <4>2, <4>3, <4>4
      <3>4. Pages!Take
        BY <3>1, <3>3 DEF Pages!Take
      <3> QED BY <3>4 DEF Pages!Next
    <2>2. CASE AllocEmpty
      BY <2>2, AllocEmptyStep
    <2>3. ASSUME NEW a \in Page, Free(a) PROVE Pages!Next \/ FreePages' = FreePages
      <3>1. \/ FreePages' = FreePages
            \/ a \notin FreePages /\ FreePages' = FreePages \cup {a}
        BY <2>3, FreeIsOfHeld, FreeStep
      <3> QED BY <3>1 DEF Pages!Next, Pages!Give
    <2>4. ASSUME NEW a \in Page, FreeTwice(a) PROVE FreePages' = FreePages
      BY <2>4, FreeTwiceStep
    <2>5. CASE Spin
      BY <2>5, StutterStep DEF Spin
    <2>6. CASE UNCHANGED vars
      BY <2>6, StutterStep
    <2> QED BY <2>1, <2>2, <2>3, <2>4, <2>5, <2>6 DEF Next
  <1> QED BY <1>1, <1>2, IInvAlways, PTL DEF Spec, ImplementsPageSet, Pages!Spec
=============================================================================
