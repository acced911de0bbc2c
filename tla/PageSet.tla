------------------------------ MODULE PageSet ------------------------------
(***************************************************************************)
(* What the page allocator promises: a set of free pages, from which the   *)
(* lowest is handed out and to which a page that is not free is returned.  *)
(***************************************************************************)
EXTENDS Naturals

CONSTANT Page      (* page numbers *)
VARIABLE free

Lowest(S) == CHOOSE a \in S : \A b \in S : a <= b

Init == free = Page
Take == free # {} /\ free' = free \ {Lowest(free)}
Give(a) == a \notin free /\ free' = free \cup {a}
Next == Take \/ \E a \in Page : Give(a)
Spec == Init /\ [][Next]_free
=============================================================================
