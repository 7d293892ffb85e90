------------------------------ MODULE MCSwtmr ------------------------------
EXTENDS LosSwtmr

Periodic(n, s) == [interval |-> n, mode |-> "PERIOD", sensitive |-> s]

MCCreated == {Periodic(2, FALSE), Periodic(4, FALSE), Periodic(3, FALSE),
              [interval |-> 1, mode |-> "ONCE", sensitive |-> TRUE],
              [interval |-> 1, mode |-> "NO_SELFDELETE", sensitive |-> FALSE]}

(***************************************************************************)
(* What a free block was created as last matters to nobody who has deleted *)
(* its ID: states that differ in it alone count as one.                    *)
(***************************************************************************)
MCView == <<listVars, state, freeList, timerID, align, queued, tickVars,
            [i \in {j \in Timers : state[j] # "UNUSED"} |-> kind[i]]>>
=============================================================================
