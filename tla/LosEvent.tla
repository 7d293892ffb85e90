------------------------------ MODULE LosEvent ------------------------------
(***************************************************************************)
(* Events (los_event.c): a word of bits that tasks and interrupt handlers  *)
(* write and on which tasks wait, for any or for all bits of a mask, with  *)
(* or without clearing them.                                               *)
(***************************************************************************)
EXTENDS LosTask

CONSTANTS
    Events,         \* the event control blocks
    WaitersOf,      \* the head of an event's wait list, stEventList
    Bits,           \* the bits of uwEventID that are used
    ReadsOf,        \* what a task reads: a set of requests (see Requests)
    TimeoutsOf,     \* timeouts a task passes to LOS_EventRead; Forever waits for ever
    EventUsers,     \* tasks that read, poll, write and clear
    EventCreators,  \* tasks that initialise and destroy
    IsrWrites       \* masks an interrupt handler writes

(***************************************************************************)
(* uwEventMask, and uwMode taken apart: LOS_WAITMODE_OR (any) or _AND, and *)
(* LOS_WAITMODE_CLR.                                                       *)
(***************************************************************************)
Requests == [mask : (SUBSET Bits) \ {{}}, any : BOOLEAN, clr : BOOLEAN]

ASSUME EventAssumption ==
    /\ WaitersOf \in [Events -> PendLists]
    /\ \A d, e \in Events : WaitersOf[d] = WaitersOf[e] => d = e
    /\ NoTask \notin Events
    /\ ReadsOf \in [Tasks -> SUBSET Requests]
    /\ TimeoutsOf \in [Tasks -> SUBSET (Delays \cup {Forever})]
    /\ EventUsers \cup EventCreators \subseteq Tasks \ {Idle}
    /\ IsrWrites \subseteq SUBSET Bits

VARIABLES
    eventID,        \* uwEventID, as the set of its bits
    ready,          \* the events whose stEventList is initialised
    request,        \* uwEventMask and uwEventMode of the task
    readFrom,       \* the event of a LOS_EventRead that waits
    taken           \* history: since the task was woken, bits it waited for were
                    \* cleared by others, or its event was initialised again

eventVars == <<eventID, ready, request, readFrom, taken>>
allVars == <<taskVars, eventVars>>

Waiters(e) == list[WaitersOf[e]]

SomeRequest == [mask |-> {}, any |-> FALSE, clr |-> FALSE]

EventInit ==
    /\ TaskInit
    /\ eventID = [e \in Events |-> {}]
    /\ ready = Events
    /\ request = [t \in Tasks |-> SomeRequest]
    /\ readFrom = [t \in Tasks |-> NoTask]
    /\ taken = [t \in Tasks |-> FALSE]

(***************************************************************************)
(* The tasks woken by a write that have not polled again.                  *)
(***************************************************************************)
Woken(e) ==
    {t \in Tasks : /\ pc[t] \in {"wait", "woken"}
                   /\ readFrom[t] = e
                   /\ status[t] \cap {"PEND", "TIMEOUT"} = {}}

(***************************************************************************)
(* Bits go away, and the woken tasks other than t that came for them miss  *)
(* them.                                                                   *)
(***************************************************************************)
Cleared(e, bits, t) ==
    /\ eventID' = [eventID EXCEPT ![e] = @ \ bits]
    /\ taken' = [u \in Tasks |-> \/ taken[u] /\ u # t
                                 \/ /\ u \in Woken(e) \ {t}
                                    /\ request[u].mask \cap bits \cap eventID[e] # {}]

-----------------------------------------------------------------------------
(***************************************************************************)
(* Initialising an event a second time drops its bits.  Done over tasks    *)
(* that wait it would cut them off a list their own links still lead to;   *)
(* no caller does that, and a sequence cannot show it.                     *)
(***************************************************************************)
LOS_EventInit(t, e) ==
    /\ Calls(t)
    /\ Waiters(e) = <<>>
    /\ ready' = ready \cup {e}
    /\ eventID' = [eventID EXCEPT ![e] = {}]
    /\ taken' = [u \in Tasks |-> taken[u] \/ u \in Woken(e)]
    /\ UNCHANGED <<taskVars, request, readFrom>>

LOS_EventDestory(t, e) ==
    /\ Calls(t)
    /\ e \in ready
    /\ Waiters(e) = <<>>
    /\ ready' = ready \ {e}
    /\ UNCHANGED <<taskVars, eventID, request, readFrom, taken>>

(***************************************************************************)
(* LOS_EventPoll: what a request finds in the word, {} if it is not        *)
(* satisfied.  Polling clears it under LOS_WAITMODE_CLR.                   *)
(***************************************************************************)
LOS_EventPoll(word, r) ==
    IF r.any \/ r.mask \subseteq word THEN r.mask \cap word ELSE {}

Polled(e, r, t) == Cleared(e, IF r.clr THEN LOS_EventPoll(eventID[e], r) ELSE {}, t)

(***************************************************************************)
(* LOS_EventRead returns at once, with a timeout of 0 or events that are   *)
(* there (LOS_EventPoll does the same and asks for no initialised event),  *)
(* or waits; a task that is woken and did not time out polls again.        *)
(***************************************************************************)
EventReadNoWait(t, e) ==
    /\ Calls(t)
    /\ \E r \in ReadsOf[t] : Polled(e, r, t)
    /\ UNCHANGED <<taskVars, ready, request, readFrom>>

LOS_EventRead(t, e, r, n) ==
    /\ Calls(t)
    /\ e \in ready
    /\ LOS_EventPoll(eventID[e], r) = {}
    /\ taskLock = 0
    /\ request' = [request EXCEPT ![t] = r]
    /\ osTaskWait(Queues, t, WaitersOf[e], "PEND", n)
    /\ readFrom' = [readFrom EXCEPT ![t] = e]
    /\ Goto(t, "wait")
    /\ UNCHANGED <<prio, cpuVars, taskLock, tickVars, handle, eventID, ready, taken>>

TimedOut(t) == "TIMEOUT" \in status[t]

EventReadReturns(t) ==
    /\ InTask(t) /\ pc[t] = "woken"
    /\ status' = [status EXCEPT ![t] = @ \ {"TIMEOUT"}]
    /\ IF TimedOut(t) THEN UNCHANGED <<eventID, taken>>
                      ELSE Polled(readFrom[t], request[t], t)
    /\ readFrom' = [readFrom EXCEPT ![t] = NoTask]
    /\ request' = [request EXCEPT ![t] = SomeRequest]
    /\ Goto(t, "user")
    /\ UNCHANGED <<listVars, prio, timer, cpuVars, taskLock, tickVars, handle, fault, ready>>

(***************************************************************************)
(* A write wakes every waiter it satisfies: "any" looks at the bits        *)
(* written, "all" at the whole word.                                       *)
(***************************************************************************)
MatchesNewBits(t, e, bits) ==       \* faulty: "all" looks at the bits written, too
    IF request[t].any THEN request[t].mask \cap bits # {}
                      ELSE request[t].mask \subseteq bits

MatchesAny(t, e, bits) ==           \* faulty: "all" treated as "any"
    request[t].mask \cap bits # {}

Matches(t, e, bits) ==
    IF request[t].any THEN request[t].mask \cap bits # {}
                      ELSE request[t].mask \subseteq eventID[e] \cup bits

Resumes(e, bits) == {t \in ToSet(Waiters(e)) : Matches(t, e, bits)}

(***************************************************************************)
(* osTaskWake for the tasks W of the wait list ts, in its order.           *)
(***************************************************************************)
WakeOne(q, t) ==
    IF "SUSPEND" \in status[t] THEN Unlinked(q, t)
    ELSE osPriqueueEnqueue(Unlinked(q, t), t, prio[t])

QueuesAfter(ts, W) ==
    LET walk[k \in 0 .. Len(ts)] ==
            IF k = 0 THEN Queues
            ELSE IF ts[k] \in W THEN WakeOne(walk[k - 1], ts[k])
            ELSE walk[k - 1]
    IN  walk[Len(ts)]

WakeAll(ts, W) ==
    /\ Become(QueuesAfter(ts, W))
    /\ status' = [u \in TCBs |-> IF u \notin W THEN status[u]
                                 ELSE NoLonger(status[u], "PEND") \cup
                                      IF "SUSPEND" \in status[u] THEN {} ELSE {"READY"}]
    /\ timer' = [u \in Tasks |-> IF u \in W /\ TimedOut(u) THEN Off ELSE timer[u]]
    /\ fault' = \E u \in W : TimedOut(u) /\ ~Armed(u)

Written(e, bits) ==
    /\ e \in ready
    /\ eventID' = [eventID EXCEPT ![e] = @ \cup bits]
    /\ WakeAll(Waiters(e), Resumes(e, bits))
    /\ UNCHANGED <<prio, taskLock, tickVars, handle, ready, request, readFrom, taken>>

LOS_EventWrite(t, e, bits) ==
    /\ Calls(t)
    /\ Written(e, bits)
    /\ IF Resumes(e, bits) # {} THEN Goto(t, "sched") ELSE UNCHANGED pc
    /\ UNCHANGED cpuVars

IsrEventWrite(e, bits) ==
    /\ InIsr
    /\ Written(e, bits)
    /\ IF Resumes(e, bits) # {} THEN LOS_Schedule ELSE UNCHANGED cpuVars
    /\ UNCHANGED pc

LOS_EventClear(t, e, kept) ==
    /\ Calls(t)
    /\ Cleared(e, Bits \ kept, NoTask)
    /\ UNCHANGED <<taskVars, ready, request, readFrom>>

-----------------------------------------------------------------------------
EventCall ==
    \/ \E t \in EventCreators, e \in Events : LOS_EventInit(t, e) \/ LOS_EventDestory(t, e)
    \/ \E t \in EventUsers, e \in Events :
           \/ EventReadNoWait(t, e)
           \/ \E r \in ReadsOf[t], n \in TimeoutsOf[t] : LOS_EventRead(t, e, r, n)
           \/ \E bits \in SUBSET Bits : LOS_EventWrite(t, e, bits) \/ LOS_EventClear(t, e, bits)
    \/ \E t \in EventUsers : EventReadReturns(t)
    \/ \E e \in Events, bits \in IsrWrites : IsrEventWrite(e, bits)

(***************************************************************************)
(* Whatever else the tasks do.                                             *)
(***************************************************************************)
OtherCall ==
    /\ TaskNext
    /\ LET gone == {t \in Tasks : "UNUSED" \in status'[t]}
       IN  /\ readFrom' = [t \in Tasks |-> IF t \in gone THEN NoTask ELSE readFrom[t]]
           /\ request' = [t \in Tasks |-> IF t \in gone THEN SomeRequest ELSE request[t]]
           /\ taken' = [t \in Tasks |-> taken[t] /\ t \notin gone]
    /\ UNCHANGED <<eventID, ready>>

EventNext == OtherCall \/ EventCall

EventSpec == EventInit /\ [][EventNext]_allVars

-----------------------------------------------------------------------------
(***************************************************************************)
(* No task waits for events that are there, although LOS_EventWrite shows  *)
(* the waiters for "any" only the bits it writes and not the word: bits    *)
(* that wait in the word, timeouts and clearings in between included.      *)
(***************************************************************************)
WaitersUnsatisfied ==
    \A e \in Events : \A t \in ToSet(Waiters(e)) :
        e \in ready /\ LOS_EventPoll(eventID[e], request[t]) = {}

(***************************************************************************)
(* A task that a write has woken finds what it waited for when it polls    *)
(* again, however long it takes to run, unless another reader or a clear   *)
(* took some of it: that alone makes LOS_EventRead return 0.               *)
(***************************************************************************)
WokenFindEvents ==
    \A e \in Events : \A t \in Woken(e) :
        taken[t] \/ LOS_EventPoll(eventID[e], request[t]) # {}
=============================================================================
