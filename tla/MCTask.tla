------------------------------- MODULE MCTask -------------------------------
EXTENDS LosTask, TLC

CONSTANTS idle, a, b, c

MCTasks == {idle, a, b, c}
MCInitReady == (0 :> <<>>) @@ (1 :> <<a>>) @@ (2 :> <<idle>>)
MCInitFree == <<b, c>>
=============================================================================
