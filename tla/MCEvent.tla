------------------------------ MODULE MCEvent ------------------------------
EXTENDS LosEvent, TLC

CONSTANTS idle, a, b, c, e1, eList, x1, x2

MCTasks == {idle, a, b, c}
MCInitReady == (0 :> <<a>>) @@ (1 :> <<b, c>>) @@ (2 :> <<idle>>)
MCInitFree == <<>>
MCWaitersOf == e1 :> eList
MCReadsOf ==
    [t \in MCTasks |->
        IF t = a THEN {[mask |-> {x1}, any |-> TRUE, clr |-> TRUE]}
        ELSE IF t = b THEN {[mask |-> {x1, x2}, any |-> FALSE, clr |-> TRUE]}
        ELSE IF t = c THEN {[mask |-> {x1, x2}, any |-> TRUE, clr |-> FALSE]}
        ELSE {}]
MCIsrWrites == {{x1}}
MCTimeoutsOf == [t \in MCTasks |-> IF t = b THEN {0, 1} ELSE IF t = c THEN {2} ELSE {0}]
=============================================================================
