------------------------------ MODULE DeltaList ------------------------------
(***************************************************************************)
(* A list sorted by time in which each entry keeps its time RELATIVE to    *)
(* the entry before it, so that the passing of time touches the head only: *)
(* the slots of the kernel's timer wheel (SortLink) and the list of running*)
(* software timers (LosSwtmr).  s is the list, w the relative times.       *)
(***************************************************************************)
EXTENDS Integers, Sequences

(***************************************************************************)
(* The time of the i-th entry: the running sum of the relative ones.       *)
(***************************************************************************)
Total(s, w, i) ==
    LET sum[k \in 0 .. i] == IF k = 0 THEN 0 ELSE sum[k - 1] + w[s[k]]
    IN  sum[i]

PlaceOf(s, x) == CHOOSE k \in 1 .. Len(s) : s[k] = x

(***************************************************************************)
(* Where the walk that looks for the place of a new entry, n from now, ends*)
(* at the first entry that is later, or behind the last one.               *)
(***************************************************************************)
PlaceFor(s, w, n) ==
    LET later == {i \in 1 .. Len(s) : Total(s, w, i) > n}
    IN  IF later = {} THEN Len(s) + 1 ELSE CHOOSE i \in later : \A j \in later : i <= j

=============================================================================
