----------------------------- MODULE SoftTimers -----------------------------
(***************************************************************************)
(* What software timers promise: a timer that is started expires after its *)
(* interval; a periodic one that may be aligned with others expires for the*)
(* first time after its interval at the latest; from then on a periodic    *)
(* timer expires once per interval.  Nothing is said of lists and counts.  *)
(***************************************************************************)
EXTENDS Integers

CONSTANTS
    Timers,
    Kinds           \* what a timer can be created as: interval, mode, sensitive

VARIABLES
    left,           \* ticks to the next expiry, Off when the timer does not run
    kind            \* what the timer was created as

Off == -1

SoftInit == left = [i \in Timers |-> Off] /\ kind \in [Timers -> Kinds]

(***************************************************************************)
(* Timer i has n ticks left from now on, the others what they had.         *)
(***************************************************************************)
LeftBecomes(i, n) == UNCHANGED kind /\ left' = [left EXCEPT ![i] = n]

Periodic(i) == kind[i].mode = "PERIOD"

Create(i, k) ==
    /\ kind' = [kind EXCEPT ![i] = k]
    /\ left[i] = Off
    /\ UNCHANGED left

FirstIntervals(i) ==
    IF Periodic(i) /\ ~kind[i].sensitive THEN 1 .. kind[i].interval
                                           ELSE {kind[i].interval}

Start(i) == \E n \in FirstIntervals(i) : LeftBecomes(i, n)

Stop(i) == LeftBecomes(i, Off)

Advance ==
    /\ UNCHANGED kind
    /\ \A i \in Timers : left[i] # 0
    /\ left' = [i \in Timers |-> IF left[i] = Off THEN Off ELSE left[i] - 1]

Expire(i) ==
    /\ left[i] = 0
    /\ LeftBecomes(i, IF Periodic(i) THEN kind[i].interval ELSE Off)

SoftNext ==
    \/ Advance
    \/ \E i \in Timers :
           \/ Start(i) \/ Stop(i) \/ Expire(i)
           \/ \E k \in Kinds : Create(i, k)

SoftSpec == SoftInit /\ [][SoftNext]_<<left, kind>>
=============================================================================
