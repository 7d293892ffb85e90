------------------------------ MODULE SortLink ------------------------------
(***************************************************************************)
(* The sorted timer list of los_task.c (g_stTskSortLink): a wheel of       *)
(* OS_TSK_SORTLINK_LEN slots.  A task that waits n ticks is hashed to the  *)
(* slot the cursor reaches after n ticks; within a slot the entries are    *)
(* sorted and each keeps the number of full turns of the wheel (uwRollNum) *)
(* RELATIVE to the entry before it, so that a tick touches the head only.  *)
(***************************************************************************)
EXTENDS DeltaList, SequencesExt

CONSTANTS
    Tasks,
    Delays,
    SORTLINK_LEN        \* OS_TSK_SORTLINK_LEN, 32 in the code

ASSUME SortLinkAssumption == SORTLINK_LEN \in Nat \ {0} /\ Delays \subseteq Nat \ {0}

VARIABLES
    sortLink,           \* pstSortLink: slot -> tasks, head first
    usCursor,           \* the slot of the current tick
    sortIndex,          \* high bits of uwIdxRollNum: the slot of a task
    rollNum,            \* low bits of uwIdxRollNum: turns after the entry before
    scanning            \* osTaskScan is walking the slot under the cursor

vars == <<sortLink, usCursor, sortIndex, rollNum, scanning>>

Slots == 0 .. SORTLINK_LEN - 1

OnList(t) == Contains(sortLink[sortIndex[t]], t)

Init ==
    /\ sortLink = [s \in Slots |-> <<>>]
    /\ usCursor = 0
    /\ sortIndex = [t \in Tasks |-> 0]
    /\ rollNum = [t \in Tasks |-> 0]
    /\ scanning = FALSE

(***************************************************************************)
(* Turns of the wheel until the i-th entry of slot s is due.               *)
(***************************************************************************)
Turns(s, i) == Total(s, rollNum, i)

RollTooSmall(n) == n \div SORTLINK_LEN - 1      \* faulty: takes the turn off always

RollOf(n) == n \div SORTLINK_LEN - (IF n % SORTLINK_LEN > 0 THEN 0 ELSE 1)

(***************************************************************************)
(* osTaskAdd2TimerList: hash, then walk the slot subtracting roll numbers  *)
(* until an entry that is later; that entry becomes relative to the new    *)
(* one.  A multiple of the wheel's length lands on the cursor's own slot,  *)
(* which is reached after a full turn, hence the turn taken off.           *)
(***************************************************************************)
osTaskAdd2TimerList(t, uwTimeout) ==
    LET idx   == uwTimeout % SORTLINK_LEN
        roll  == RollOf(uwTimeout)
        slot  == (idx + usCursor) % SORTLINK_LEN
        s     == sortLink[slot]
        pos   == PlaceFor(s, rollNum, roll)
        own   == roll - Turns(s, pos - 1)
    IN  /\ sortLink' = [sortLink EXCEPT ![slot] = InsertAt(s, pos, t)]
        /\ sortIndex' = [sortIndex EXCEPT ![t] = slot]
        /\ rollNum' = [u \in Tasks |->
                          IF u = t THEN own
                          ELSE IF pos <= Len(s) /\ u = s[pos] THEN rollNum[u] - own
                          ELSE rollNum[u]]
        /\ UNCHANGED <<usCursor, scanning>>

DeleteKeepsTurns(t) ==      \* faulty: the turns of the deleted entry are lost
    LET s == sortLink[sortIndex[t]]
    IN  /\ sortLink' = [sortLink EXCEPT ![sortIndex[t]] = Remove(s, t)]
        /\ UNCHANGED <<usCursor, sortIndex, rollNum, scanning>>

(***************************************************************************)
(* osTimerListDelete: the entry after the deleted one inherits its turns.  *)
(***************************************************************************)
osTimerListDelete(t) ==
    LET s == sortLink[sortIndex[t]]
        i == PlaceOf(s, t)
    IN  /\ sortLink' = [sortLink EXCEPT ![sortIndex[t]] = RemoveAt(s, i)]
        /\ rollNum' = IF i < Len(s)
                      THEN [rollNum EXCEPT ![s[i+1]] = @ + rollNum[t]]
                      ELSE rollNum
        /\ UNCHANGED <<usCursor, sortIndex, scanning>>

(***************************************************************************)
(* osTaskScan, in the steps of its loop: move the cursor; take off the     *)
(* heads that have no turn left; stop at the first that has one, which is  *)
(* where the whole slot pays for this turn.                                *)
(***************************************************************************)
ScanStart ==
    LET next == (usCursor + 1) % SORTLINK_LEN
    IN  /\ ~scanning
        /\ usCursor' = next
        /\ scanning' = (sortLink[next] # <<>>)
        /\ UNCHANGED <<sortLink, sortIndex, rollNum>>

ScanExpire ==
    LET s == sortLink[usCursor]
    IN  /\ scanning
        /\ rollNum[Head(s)] = 0
        /\ sortLink' = [sortLink EXCEPT ![usCursor] = Tail(s)]
        /\ scanning' = (Tail(s) # <<>>)
        /\ UNCHANGED <<usCursor, sortIndex, rollNum>>

StopKeepsTurns ==       \* faulty: the slot does not pay for the turn
    /\ scanning
    /\ rollNum[Head(sortLink[usCursor])] > 0
    /\ scanning' = FALSE
    /\ UNCHANGED <<sortLink, usCursor, sortIndex, rollNum>>

ScanStop ==
    LET s == sortLink[usCursor]
    IN  /\ scanning
        /\ rollNum[Head(s)] > 0
        /\ rollNum' = [rollNum EXCEPT ![Head(s)] = @ - 1]
        /\ scanning' = FALSE
        /\ UNCHANGED <<sortLink, usCursor, sortIndex>>

(***************************************************************************)
(* A task is put on the list by the call that blocks it, so it is not on   *)
(* it already; it is taken off by whoever wakes or deletes it.  Both run   *)
(* with interrupts off, between two ticks.                                 *)
(***************************************************************************)
Next ==
    \/ \E t \in Tasks, n \in Delays :
           ~scanning /\ ~OnList(t) /\ osTaskAdd2TimerList(t, n)
    \/ \E t \in Tasks : ~scanning /\ OnList(t) /\ osTimerListDelete(t)
    \/ ScanStart
    \/ ScanExpire
    \/ ScanStop

(***************************************************************************)
(* The tick interrupt keeps coming and its handler finishes its loop.      *)
(***************************************************************************)
Fairness == WF_vars(ScanStart) /\ WF_vars(ScanExpire) /\ WF_vars(ScanStop)

Spec == Init /\ [][Next]_vars /\ Fairness

-----------------------------------------------------------------------------
(***************************************************************************)
(* Types; roll numbers are unsigned in the code, so a subtraction that     *)
(* went below zero would be a timeout of 2^27 turns.                       *)
(***************************************************************************)
TypeOK ==
    /\ sortLink \in [Slots -> Seq(Tasks)]
    /\ usCursor \in Slots
    /\ sortIndex \in [Tasks -> Slots]
    /\ rollNum \in [Tasks -> Nat]
    /\ scanning \in BOOLEAN

(***************************************************************************)
(* The refinement mapping: what the hash and the relative roll numbers say *)
(* of the ticks a task has left.                                           *)
(***************************************************************************)
TicksLeft(t) ==
    LET slot  == sortIndex[t]
        dist  == (slot - usCursor) % SORTLINK_LEN
        turns == Turns(sortLink[slot], PlaceOf(sortLink[slot], t))
    IN  IF ~OnList(t) THEN -1
        ELSE IF dist = 0 /\ ~scanning THEN SORTLINK_LEN * (turns + 1)
        ELSE dist + SORTLINK_LEN * turns

Exact == INSTANCE TaskTimers WITH timer <- [t \in Tasks |-> TicksLeft(t)]

(***************************************************************************)
(* The wheel implements exact timeouts: whatever was hashed, inserted in   *)
(* between and deleted from between, each entry comes off at its own tick. *)
(***************************************************************************)
ImplementsTaskTimers == Exact!TimersSpec

(***************************************************************************)
(* Every task put on the list comes off it: no timeout is lost in a slot.  *)
(***************************************************************************)
EveryTimeoutEnds == \A t \in Tasks : OnList(t) ~> ~OnList(t)

=============================================================================
