------------------------------ MODULE TaskList ------------------------------
(***************************************************************************)
(* The doubly linked list of kernel/scheduler.c that holds the ready       *)
(* tasks, as operators on the list as one value: its head and tail and the *)
(* prev and next fields of the tasks.  task_list_remove writes the fields  *)
(* of the neighbours without a test for NULL: those writes go to low       *)
(* memory that nobody reads as a task, here the fields of the pseudo task  *)
(* NULL.                                                                   *)
(***************************************************************************)
EXTENDS Naturals, Sequences, FiniteSets

CONSTANTS Task, NULL

ASSUME TableAssumption == IsFiniteSet(Task)     (* the slots of task_table *)

Cell == Task \cup {NULL}
Lists == [head : Cell, tail : Cell, prev : [Cell -> Cell], next : [Cell -> Cell]]

EmptyList == [head |-> NULL, tail |-> NULL,
              prev |-> [c \in Cell |-> NULL], next |-> [c \in Cell |-> NULL]]

(* Walk(l)[i]: the cell after i links from the head *)
Walk(l) ==
  LET at[i \in 0 .. Cardinality(Task)] ==
        IF i = 0 THEN l.head
        ELSE IF at[i - 1] = NULL THEN NULL ELSE l.next[at[i - 1]]
  IN  at
In(l, t) == \E i \in 0 .. Cardinality(Task) : Walk(l)[i] = t

(* task_list_add *)
Pushed(l, t) == [l EXCEPT !.head = t, !.next[t] = l.head, !.prev = [@ EXCEPT ![l.head] = t, ![t] = NULL]]

Added(l, t) ==
  IF l.head = NULL
  THEN [l EXCEPT !.head = t, !.tail = t, !.prev[t] = NULL, !.next[t] = NULL]
  ELSE [l EXCEPT !.tail = t, !.prev[t] = l.tail,
                 !.next = [@ EXCEPT ![t] = NULL, ![l.tail] = t]]

(* The neighbours of t after its removal, and its own fields reset *)
Unlinked(l, t) ==
  [l EXCEPT !.next = [@ EXCEPT ![l.prev[t]] = l.next[t], ![t] = NULL],
            !.prev = [@ EXCEPT ![l.next[t]] = l.prev[t], ![t] = NULL]]

TailKept(l, t) == l.tail
NewTail(l, t)  == IF t = l.tail THEN l.prev[t] ELSE l.tail

(* task_list_remove; without t in the list it changes nothing *)
Removed(l, t) ==
  IF ~In(l, t) THEN l
  ELSE [Unlinked(l, t) EXCEPT !.head = IF t = l.head THEN l.next[t] ELSE l.head,
                              !.tail = NewTail(l, t)]

-----------------------------------------------------------------------------
(* The tasks on a list, in order *)
Linked(l) == LET n == Cardinality({i \in 0 .. Cardinality(Task) - 1 : Walk(l)[i] # NULL})
             IN  [i \in 1 .. n |-> Walk(l)[i - 1]]

(* Walking forwards along next and backwards along prev visits the same      *)
(* tasks: head and tail are the ends, every link has its counterpart, and    *)
(* a task off the list has no links left over from an earlier stay.          *)
ListSound(l) ==
  /\ l \in Lists
  /\ Walk(l)[Cardinality(Task)] = NULL
  /\ (l.head = NULL) <=> (l.tail = NULL)
  /\ l.head # NULL => l.prev[l.head] = NULL /\ l.next[l.tail] = NULL /\ In(l, l.tail)
  /\ \A t \in Task : In(l, t) /\ l.next[t] # NULL => l.prev[l.next[t]] = t
  /\ \A t \in Task : ~In(l, t) => l.prev[t] = NULL /\ l.next[t] = NULL
=============================================================================
