------------------------------ MODULE LosList ------------------------------
(***************************************************************************)
(* The kernel's intrusive doubly linked lists (los_list.h), as the         *)
(* scheduler uses them: every task control block carries ONE link node,    *)
(* stPendList, and that node is threaded through a ready queue, the wait   *)
(* list of a kernel object, the free list or the recycle list.  A family   *)
(* of lists is a function from list heads to sequences of tasks.           *)
(***************************************************************************)
EXTENDS Integers, Sequences, SequencesExt

(***************************************************************************)
(* x is linked in the list whose head is h.                                *)
(***************************************************************************)
Linked(l, h, x) == Contains(l[h], x)

(***************************************************************************)
(* x's link node is in some list (its pointers are not NULL).              *)
(***************************************************************************)
IsLinked(l, x) == \E h \in DOMAIN l : Linked(l, h, x)

(***************************************************************************)
(* One sequence without its element x.                                     *)
(***************************************************************************)
Without(s, x) ==
    IF Contains(s, x)
    THEN RemoveAt(s, CHOOSE i \in 1..Len(s) : s[i] = x)
    ELSE s

(***************************************************************************)
(* LOS_ListDelete unlinks a node from whatever list holds it: the code     *)
(* does not name the list, it patches the two neighbours.                  *)
(***************************************************************************)
LOS_ListDelete(l, x) == [h \in DOMAIN l |-> Without(l[h], x)]

LOS_ListTailInsert(l, h, x) == [l EXCEPT ![h] = Append(@, x)]

LOS_ListAdd(l, h, x) == [l EXCEPT ![h] = <<x>> \o @]

(***************************************************************************)
(* Every node of list r, from its first on, deleted from it and added to   *)
(* list h.                                                                 *)
(***************************************************************************)
AddedAll(l, h, r) == [l EXCEPT ![h] = Reverse(l[r]) \o @, ![r] = <<>>]

(***************************************************************************)
(* The discipline the one link node imposes: no two positions of the whole *)
(* family of lists hold the same node.                                     *)
(***************************************************************************)
LinkedOnce(l) ==
    \A g, h \in DOMAIN l :
        \A i \in 1..Len(l[g]), j \in 1..Len(l[h]) :
            l[g][i] = l[h][j] => g = h /\ i = j

=============================================================================
