----------------------------- MODULE MCTaskLive -----------------------------
(***************************************************************************)
(* Three tasks share a priority: the time slice is what turns them.        *)
(***************************************************************************)
EXTENDS LosTask, TLC

CONSTANTS idle, a, b, c

MCTasks == {idle, a, b, c}
MCInitReady == (0 :> <<a, b, c>>) @@ (1 :> <<idle>>)

MCInitFree == <<>>
=============================================================================
