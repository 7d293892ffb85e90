-------------------------------- MODULE MCSem --------------------------------
EXTENDS LosSem, TLC

CONSTANTS idle, a, b, c, s1, sList

MCTasks == {idle, a, b, c}
MCInitReady == (0 :> <<a>>) @@ (1 :> <<b, c>>) @@ (2 :> <<idle>>)
MCInitFree == <<>>
MCWaitersOf == s1 :> sList
MCTimeoutsOf == [t \in MCTasks |-> IF t = a THEN {0, 1} ELSE IF t = b THEN {0, 2} ELSE {0}]
MCCreated == s1 :> 0
=============================================================================
