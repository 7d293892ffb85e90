------------------------------- MODULE LosSem -------------------------------
(***************************************************************************)
(* Counting and binary semaphores (los_sem.c).                             *)
(***************************************************************************)
EXTENDS LosTask

CONSTANTS
    Sems,           \* the semaphore control blocks
    WaitersOf,      \* the head of a semaphore's wait list, stSemList
    Created,        \* semaphores that exist at the start: block -> count
    COUNTING_MAX,   \* OS_SEM_COUNTING_MAX_COUNT, 0xFFFF in the code
    TimeoutsOf,     \* timeouts a task passes to LOS_SemPend; Forever waits for ever
    SemCreators,    \* tasks that create and delete semaphores
    SemUsers,       \* tasks that pend and post
    IsrUsesSems     \* an interrupt handler posts, and pends without waiting

BINARY_MAX == 1     \* OS_SEM_BINARY_MAX_COUNT

ASSUME SemAssumption ==
    /\ IsFiniteSet(Sems)       \* an array too, g_pstAllSem
    /\ WaitersOf \in [Sems -> PendLists]
    /\ \A r, s \in Sems : WaitersOf[r] = WaitersOf[s] => r = s
    /\ COUNTING_MAX \in Nat \ {0}
    /\ DOMAIN Created \subseteq Sems
    /\ \A s \in DOMAIN Created : Created[s] \in 0 .. COUNTING_MAX
    /\ TimeoutsOf \in [Tasks -> SUBSET (Delays \cup {Forever})]
    /\ SemCreators \cup SemUsers \subseteq Tasks \ {Idle}
    /\ IsrUsesSems \in BOOLEAN

VARIABLES
    semCount,       \* usSemCount
    semMax,         \* usMaxSemCount; 0 in a block that is not in use (usSemStat)
    unusedSem,      \* g_stUnusedSemList
    pended,         \* pstSemPended, of a LOS_SemPend that waits
    tokens          \* history: posts less acquisitions, from the initial count

semVars == <<semCount, semMax, unusedSem, pended, tokens>>
allVars == <<taskVars, semVars>>

InUse(s) == semMax[s] > 0

Waiters(s) == list[WaitersOf[s]]

(***************************************************************************)
(* The tasks a post has woken that have not returned from LOS_SemPend yet: *)
(* each carries a token.  (One that timed out still has the TIMEOUT flag.) *)
(***************************************************************************)
Carriers(s) ==
    {t \in Tasks : /\ pc[t] \in {"wait", "woken"}
                   /\ pended[t] = s
                   /\ status[t] \cap {"PEND", "TIMEOUT"} = {}}

SemInit ==
    /\ TaskInit
    /\ semCount = [s \in Sems |-> IF s \in DOMAIN Created THEN Created[s] ELSE 0]
    /\ semMax = [s \in Sems |-> IF s \in DOMAIN Created THEN COUNTING_MAX ELSE 0]
    /\ unusedSem \in SetToSeqs(Sems \ DOMAIN Created)
    /\ pended = [t \in Tasks |-> NoTask]
    /\ tokens = semCount

(***************************************************************************)
(* osSemCreate, for LOS_SemCreate and LOS_BinarySemCreate.  A deleted      *)
(* semaphore may have carriers still, which bring their tokens along.      *)
(***************************************************************************)
osSemCreate(t, n, max) ==
    /\ Calls(t)
    /\ n <= max
    /\ unusedSem # <<>>
    /\ LET s == Head(unusedSem)
       IN  /\ semCount' = [semCount EXCEPT ![s] = n]
           /\ semMax' = [semMax EXCEPT ![s] = max]
           /\ tokens' = [tokens EXCEPT ![s] = n + Cardinality(Carriers(s))]
    /\ unusedSem' = Tail(unusedSem)
    /\ UNCHANGED <<taskVars, pended>>

DeleteWithWaiters(t, s) ==      \* faulty: the wait list is not looked at
    /\ Calls(t)
    /\ InUse(s)
    /\ semMax' = [semMax EXCEPT ![s] = 0]
    /\ unusedSem' = <<s>> \o unusedSem
    /\ UNCHANGED <<taskVars, semCount, pended, tokens>>

LOS_SemDelete(t, s) ==
    /\ Calls(t)
    /\ InUse(s)
    /\ Waiters(s) = <<>>
    /\ semMax' = [semMax EXCEPT ![s] = 0]
    /\ unusedSem' = <<s>> \o unusedSem
    /\ UNCHANGED <<taskVars, semCount, pended, tokens>>

(***************************************************************************)
(* LOS_SemPend takes a token at once (an interrupt handler can do no more),*)
(* or waits: in the wait list before interrupts are on again, so that no   *)
(* post in between is missed.  The TIMEOUT flag tells, when the task runs  *)
(* again, which of the two woke it.                                        *)
(***************************************************************************)
LOS_SemPend(t, s) ==
    /\ Calls(t)
    /\ InUse(s)
    /\ semCount[s] > 0
    /\ semCount' = [semCount EXCEPT ![s] = @ - 1]
    /\ tokens' = [tokens EXCEPT ![s] = @ - 1]
    /\ UNCHANGED <<taskVars, semMax, unusedSem, pended>>

IsrSemPend(s) ==
    /\ InIsr /\ IsrUsesSems
    /\ InUse(s)
    /\ semCount[s] > 0
    /\ semCount' = [semCount EXCEPT ![s] = @ - 1]
    /\ tokens' = [tokens EXCEPT ![s] = @ - 1]
    /\ UNCHANGED <<taskVars, semMax, unusedSem, pended>>

SemPendWaits(t, s, n) ==
    /\ Calls(t)
    /\ InUse(s)
    /\ semCount[s] = 0
    /\ taskLock = 0
    /\ osTaskWait(Queues, t, WaitersOf[s], "PEND", n)
    /\ pended' = [pended EXCEPT ![t] = s]
    /\ Goto(t, "wait")
    /\ UNCHANGED <<prio, cpuVars, taskLock, tickVars, handle,
                   semCount, semMax, unusedSem, tokens>>

TimedOut(t) == "TIMEOUT" \in status[t]

SemPendReturns(t) ==
    /\ InTask(t) /\ pc[t] = "woken"
    /\ status' = [status EXCEPT ![t] = @ \ {"TIMEOUT"}]
    /\ tokens' = IF TimedOut(t) THEN tokens ELSE [tokens EXCEPT ![pended[t]] = @ - 1]
    /\ pended' = [pended EXCEPT ![t] = NoTask]
    /\ Goto(t, "user")
    /\ UNCHANGED <<listVars, prio, timer, cpuVars, taskLock, tickVars, handle, fault,
                   semCount, semMax, unusedSem>>

FullTooLate(s) == semCount[s] > semMax[s]       \* faulty: off by one

Full(s) == semCount[s] = semMax[s]

(***************************************************************************)
(* LOS_SemPost hands the token to the first waiter, or counts it.          *)
(***************************************************************************)
Posted(s) ==
    /\ InUse(s)
    /\ ~Full(s)
    /\ tokens' = [tokens EXCEPT ![s] = @ + 1]
    /\ IF Waiters(s) # <<>>
       THEN /\ osTaskWake(Queues, Head(Waiters(s)), "PEND")
            /\ UNCHANGED semCount
       ELSE /\ semCount' = [semCount EXCEPT ![s] = @ + 1]
            /\ UNCHANGED <<listVars, status, timer, fault>>
    /\ UNCHANGED <<prio, taskLock, tickVars, handle, semMax, unusedSem, pended>>

LOS_SemPost(t, s) ==
    /\ Calls(t)
    /\ Posted(s)
    /\ IF Waiters(s) # <<>> THEN Goto(t, "sched") ELSE UNCHANGED pc
    /\ UNCHANGED cpuVars

IsrSemPost(s) ==
    /\ InIsr /\ IsrUsesSems
    /\ Posted(s)
    /\ IF Waiters(s) # <<>> THEN LOS_Schedule ELSE UNCHANGED cpuVars
    /\ UNCHANGED pc

-----------------------------------------------------------------------------
SemCall ==
    \/ \E t \in SemCreators, s \in Sems : LOS_SemDelete(t, s)
    \/ \E t \in SemCreators, n \in 0 .. COUNTING_MAX :
           osSemCreate(t, n, COUNTING_MAX) \/ osSemCreate(t, n, BINARY_MAX)
    \/ \E t \in SemUsers, s \in Sems :
           \/ LOS_SemPend(t, s)
           \/ \E n \in TimeoutsOf[t] : SemPendWaits(t, s, n)
           \/ LOS_SemPost(t, s)
    \/ \E t \in SemUsers : SemPendReturns(t)
    \/ \E s \in Sems : IsrSemPend(s) \/ IsrSemPost(s)

(***************************************************************************)
(* Whatever else the tasks do.  A task that is deleted takes the token it  *)
(* carries with it.                                                        *)
(***************************************************************************)
OtherCall ==
    /\ TaskNext
    /\ LET gone == {t \in Tasks : "UNUSED" \in status'[t]}
       IN  /\ pended' = [t \in Tasks |-> IF t \in gone THEN NoTask ELSE pended[t]]
           /\ tokens' = [s \in Sems |-> tokens[s] - Cardinality(Carriers(s) \cap gone)]
    /\ UNCHANGED <<semCount, semMax, unusedSem>>

SemNext == OtherCall \/ SemCall

SemSpec == SemInit /\ [][SemNext]_allVars

-----------------------------------------------------------------------------
(***************************************************************************)
(* Types; a count never goes past the maximum of its semaphore's kind; a   *)
(* control block is in the free list, once, exactly when it is not in use. *)
(***************************************************************************)
SemTypeOK ==
    /\ TaskTypeOK
    /\ semCount \in [Sems -> 0 .. COUNTING_MAX]
    /\ \A s \in Sems : InUse(s) => semCount[s] <= semMax[s]
    /\ semMax \in [Sems -> {0, BINARY_MAX, COUNTING_MAX}]
    /\ unusedSem \in Seq(Sems) /\ IsInjective(unusedSem)
    /\ ToSet(unusedSem) = {s \in Sems : ~InUse(s)}
    /\ pended \in [Tasks -> Sems \cup {NoTask}]
    /\ tokens \in [Sems -> Nat]

(***************************************************************************)
(* No token is lost or made up when a post meets a timeout, a suspension   *)
(* or another interrupt: what was posted and not yet taken is in the count *)
(* or on its way to exactly one task.                                      *)
(***************************************************************************)
TokensConserved ==
    \A s \in Sems : InUse(s) => tokens[s] = semCount[s] + Cardinality(Carriers(s))

(***************************************************************************)
(* Nobody waits for a semaphore that has tokens, or that does not exist.   *)
(***************************************************************************)
WaitersFindNothing ==
    \A s \in Sems : Waiters(s) # <<>> => InUse(s) /\ semCount[s] = 0
=============================================================================
