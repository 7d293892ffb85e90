----------------------------- MODULE TaskTimers -----------------------------
(***************************************************************************)
(* What the kernel's sorted timer list promises to the scheduler: a task   *)
(* that is put on it for n ticks comes off at the n-th tick after that,    *)
(* unless it is taken off earlier.  Nothing is said of how the list is     *)
(* laid out; SortLink, the hashed and delta-encoded list of los_task.c,    *)
(* is shown to implement this module.                                      *)
(***************************************************************************)
EXTENDS Integers

CONSTANTS
    Tasks,      \* the task control blocks
    Delays      \* the timeouts, in ticks, that callers ask for

ASSUME DelaysAssumption == Delays \subseteq Nat \ {0}

VARIABLE
    timer       \* ticks left of the task's timeout, Off when it has none

Off == -1

TimersTypeOK == timer \in [Tasks -> Nat \cup {Off}]

Armed(t) == timer[t] # Off

Due(t) == timer[t] = 0

NoneDue == \A t \in Tasks : ~Due(t)

TimersInit == timer = [t \in Tasks |-> Off]

(***************************************************************************)
(* The value of timer after an operation (osTaskAdd2TimerList,             *)
(* osTimerListDelete, one tick).                                           *)
(***************************************************************************)
Arm(t, n) == [timer EXCEPT ![t] = n]

Disarm(t) == [timer EXCEPT ![t] = Off]

Elapse == [t \in Tasks |-> IF timer[t] = Off THEN Off ELSE timer[t] - 1]

-----------------------------------------------------------------------------
(***************************************************************************)
(* The abstract specification.  Advance, the next tick, has to wait until  *)
(* every timeout that is due has been served: none is ever late.           *)
(***************************************************************************)
Start(t, n) == ~Armed(t) /\ timer' = Arm(t, n)

Cancel(t) == Armed(t) /\ timer' = Disarm(t)

Advance == NoneDue /\ timer' = Elapse

Expire(t) == Due(t) /\ timer' = Disarm(t)

TimersNext ==
    \/ \E t \in Tasks, n \in Delays : Start(t, n)
    \/ \E t \in Tasks : Cancel(t) \/ Expire(t)
    \/ Advance

TimersSpec == TimersInit /\ [][TimersNext]_timer

=============================================================================
