------------------------------- MODULE MCQueue -------------------------------
EXTENDS LosQueue, TLC

CONSTANTS idle, a, b, c, q1, rList, wList, mine, yours

MCTasks == {idle, a, b, c}
MCInitReady == (0 :> <<a>>) @@ (1 :> <<b, c>>) @@ (2 :> <<idle>>)
MCInitFree == <<>>
MCListOf == q1 :> [read |-> rList, write |-> wList]
MCMessageOf == [t \in MCTasks |-> IF t = a THEN mine ELSE yours]
=============================================================================
