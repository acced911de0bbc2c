----------------------------- MODULE ReadyQueue -----------------------------
(***************************************************************************)
(* What the run queue promises: ready tasks wait in the order in which     *)
(* they became ready, and the one that waited longest runs next.           *)
(***************************************************************************)
EXTENDS Sequences

CONSTANT Task
VARIABLE queue

Waits(t) == \E i \in DOMAIN queue : queue[i] = t

Init == queue = << >> \/ \E t \in Task : queue = <<t>>

Join(t)   == ~Waits(t) /\ queue' = Append(queue, t)
Leave     == queue # << >> /\ queue' = Tail(queue)
Rotate(t) == queue # << >> /\ ~Waits(t) /\ queue' = Append(Tail(queue), t)

Next == Leave \/ \E t \in Task : Join(t) \/ Rotate(t)
Spec == Init /\ [][Next]_queue
=============================================================================
