-------------------------------- MODULE MCMux --------------------------------
EXTENDS LosMux, TLC

CONSTANTS idle, a, b, c, m1, mList

MCTasks == {idle, a, b, c}
MCInitReady == (0 :> <<a>>) @@ (1 :> <<b>>) @@ (2 :> <<c>>) @@ (3 :> <<idle>>)
MCInitFree == <<>>
MCWaitersOf == m1 :> mList
=============================================================================
