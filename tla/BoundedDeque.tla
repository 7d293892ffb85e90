---------------------------- MODULE BoundedDeque ----------------------------
(***************************************************************************)
(* What a LiteOS queue promises: at most QueueLen messages, put at the tail*)
(* (LOS_QueueWrite) or, urgent ones, at the head (LOS_QueueWriteHead), and *)
(* taken from the head; none is lost, duplicated or overwritten.           *)
(***************************************************************************)
EXTENDS Integers, Sequences

CONSTANTS Queues, QueueLen, Messages

VARIABLES
    contents,       \* the messages of a queue, head first
    exists          \* the queues that have been created

Put(q, m) ==
    /\ Len(contents[q]) < QueueLen
    /\ \/ contents' = [contents EXCEPT ![q] = Append(@, m)]
       \/ contents' = [contents EXCEPT ![q] = <<m>> \o @]

Take(q) ==
    /\ contents[q] # <<>>
    /\ contents' = [contents EXCEPT ![q] = Tail(@)]

DequeInit == contents = [q \in Queues |-> <<>>] /\ exists \subseteq Queues

DequeNext ==
    \E q \in Queues :
        \/ /\ q \in exists
           /\ Take(q) \/ \E m \in Messages : Put(q, m)
           /\ UNCHANGED exists
        \/ /\ q \notin exists
           /\ exists' = exists \cup {q}
           /\ contents' = [contents EXCEPT ![q] = <<>>]
        \/ /\ q \in exists
           /\ exists' = exists \ {q}
           /\ UNCHANGED contents

DequeSpec == DequeInit /\ [][DequeNext]_<<contents, exists>>
=============================================================================
