------------------------------- MODULE LosMux -------------------------------
(***************************************************************************)
(* Recursive mutexes with priority inheritance (los_mux.c).                *)
(***************************************************************************)
EXTENDS LosTask

CONSTANTS
    Muxes,          \* the mutex control blocks
    WaitersOf,      \* the head of a mutex's wait list, stMuxList
    CreatedMuxes,   \* mutexes that exist at the start
    MaxDepth,       \* bound on the nesting of LOS_MuxPend
    Timeouts,       \* timeouts passed to LOS_MuxPend; Forever waits for ever
    MuxCreators,    \* tasks that create and delete mutexes
    MuxUsers        \* tasks that pend and post

ASSUME MuxAssumption ==
    /\ IsFiniteSet(Muxes)      \* an array, g_pstAllMux
    /\ WaitersOf \in [Muxes -> PendLists]
    /\ \A l, m \in Muxes : WaitersOf[l] = WaitersOf[m] => l = m
    /\ NoTask \notin Muxes
    /\ CreatedMuxes \subseteq Muxes
    /\ MaxDepth \in Nat \ {0}
    /\ Timeouts \subseteq Delays \cup {Forever}
    /\ MuxCreators \cup MuxUsers \subseteq Tasks \ {Idle}

VARIABLES
    muxUsed,        \* the mutexes with ucMuxStat = OS_MUX_USED
    muxCount,       \* usMuxCount
    muxOwner,       \* pstOwner
    muxPrio,        \* usPriority: the owner's priority before any boost
    unusedMux,      \* g_stUnusedMuxList
    wanted,         \* pstMuxPended, of a LOS_MuxPend that waits
    granted,        \* history: the pends that returned LOS_OK to a task, less its posts
    basePrio        \* history: a task's priority but for what mutexes did to it

muxVars == <<muxUsed, muxCount, muxOwner, muxPrio, unusedMux, wanted, granted, basePrio>>
allVars == <<taskVars, muxVars>>

Waiters(m) == list[WaitersOf[m]]

MuxInit ==
    /\ TaskInit
    /\ muxUsed = CreatedMuxes
    /\ muxCount = [m \in Muxes |-> 0]
    /\ muxOwner = [m \in Muxes |-> NoTask]
    /\ muxPrio = [m \in Muxes |-> 0]
    /\ unusedMux \in SetToSeqs(Muxes \ CreatedMuxes)
    /\ wanted = [t \in Tasks |-> NoTask]
    /\ granted = [m \in Muxes |-> [t \in Tasks |-> 0]]
    /\ basePrio = prio

LOS_MuxCreate(t) ==
    /\ Calls(t)
    /\ unusedMux # <<>>
    /\ LET m == Head(unusedMux)
       IN  /\ muxUsed' = muxUsed \cup {m}
           /\ muxCount' = [muxCount EXCEPT ![m] = 0]
           /\ muxPrio' = [muxPrio EXCEPT ![m] = 0]
           /\ muxOwner' = [muxOwner EXCEPT ![m] = NoTask]
    /\ unusedMux' = Tail(unusedMux)
    /\ UNCHANGED <<taskVars, wanted, granted, basePrio>>

LOS_MuxDelete(t, m) ==
    /\ Calls(t)
    /\ m \in muxUsed
    /\ Waiters(m) = <<>> /\ muxCount[m] = 0
    /\ muxUsed' = muxUsed \ {m}
    /\ unusedMux' = <<m>> \o unusedMux
    /\ UNCHANGED <<taskVars, muxCount, muxOwner, muxPrio, wanted, granted, basePrio>>

PendRecordsAgain(t, m) ==       \* faulty: a nested pend records the boosted priority
    /\ Calls(t)
    /\ m \in muxUsed
    /\ muxCount[m] < MaxDepth
    /\ muxCount[m] = 0 \/ muxOwner[m] = t
    /\ muxOwner' = [muxOwner EXCEPT ![m] = t]
    /\ muxPrio' = [muxPrio EXCEPT ![m] = prio[t]]
    /\ muxCount' = [muxCount EXCEPT ![m] = @ + 1]
    /\ granted' = [granted EXCEPT ![m][t] = @ + 1]
    /\ UNCHANGED <<taskVars, muxUsed, unusedMux, wanted, basePrio>>

(***************************************************************************)
(* LOS_MuxPend: a free mutex, or one the caller owns already, is had at    *)
(* once; otherwise the owner is lifted to the caller's priority, if that is*)
(* higher, and the caller waits.                                           *)
(***************************************************************************)
LOS_MuxPend(t, m) ==
    /\ Calls(t)
    /\ m \in muxUsed
    /\ muxCount[m] < MaxDepth
    /\ \/ /\ muxCount[m] = 0
          /\ muxOwner' = [muxOwner EXCEPT ![m] = t]
          /\ muxPrio' = [muxPrio EXCEPT ![m] = prio[t]]
       \/ /\ muxCount[m] > 0 /\ muxOwner[m] = t
          /\ UNCHANGED <<muxOwner, muxPrio>>
    /\ muxCount' = [muxCount EXCEPT ![m] = @ + 1]
    /\ granted' = [granted EXCEPT ![m][t] = @ + 1]
    /\ UNCHANGED <<taskVars, muxUsed, unusedMux, wanted, basePrio>>

MuxPendWaits(t, m, n) ==
    LET owner  == muxOwner[m]
        boosts == prio[owner] > prio[t]
    IN  /\ Calls(t)
        /\ m \in muxUsed
        /\ muxCount[m] > 0 /\ owner # t
        /\ taskLock = 0
        /\ prio' = IF boosts THEN [prio EXCEPT ![owner] = prio[t]] ELSE prio
        /\ osTaskWait(IF boosts THEN osTaskPriModify(Queues, owner, prio[t]) ELSE Queues,
                      t, WaitersOf[m], "PEND", n)
        /\ wanted' = [wanted EXCEPT ![t] = m]
        /\ Goto(t, "wait")
        /\ UNCHANGED <<cpuVars, taskLock, tickVars, handle,
                       muxUsed, muxCount, muxOwner, muxPrio, unusedMux, granted, basePrio>>

MuxPendReturns(t) ==
    /\ InTask(t) /\ pc[t] = "woken"
    /\ status' = [status EXCEPT ![t] = @ \ {"TIMEOUT"}]
    /\ granted' = IF "TIMEOUT" \in status[t] THEN granted
                  ELSE [granted EXCEPT ![wanted[t]][t] = @ + 1]
    /\ wanted' = [wanted EXCEPT ![t] = NoTask]
    /\ Goto(t, "user")
    /\ UNCHANGED <<listVars, prio, timer, cpuVars, taskLock, tickVars, handle, fault,
                   muxUsed, muxCount, muxOwner, muxPrio, unusedMux, basePrio>>

PostsUnowned(t, m) ==       \* faulty: the owner is not looked at
    /\ Calls(t)
    /\ m \in muxUsed
    /\ muxCount[m] > 0

(***************************************************************************)
(* LOS_MuxPost by the owner: the last post restores the priority, and gives*)
(* the mutex to the first waiter.  With no waiter LOS_Schedule is not      *)
(* called, whether or not the priority fell.                               *)
(***************************************************************************)
MayPost(t, m) ==
    /\ Calls(t)
    /\ m \in muxUsed
    /\ muxCount[m] > 0 /\ muxOwner[m] = t

Restored(t, m) ==
    IF prio[t] # muxPrio[m] THEN osTaskPriModify(Queues, t, muxPrio[m]) ELSE Queues

Ungranted(t, m) == granted' = [granted EXCEPT ![m][t] = @ - 1]

MuxPostNested(t, m) ==
    /\ MayPost(t, m)
    /\ muxCount[m] > 1
    /\ muxCount' = [muxCount EXCEPT ![m] = @ - 1]
    /\ Ungranted(t, m)
    /\ UNCHANGED <<taskVars, muxUsed, muxOwner, muxPrio, unusedMux, wanted, basePrio>>

MuxPostFrees(t, m) ==
    /\ MayPost(t, m)
    /\ muxCount[m] = 1 /\ Waiters(m) = <<>>
    /\ muxCount' = [muxCount EXCEPT ![m] = 0]
    /\ prio' = [prio EXCEPT ![t] = muxPrio[m]]
    /\ Become(Restored(t, m))
    /\ Ungranted(t, m)
    /\ UNCHANGED <<status, timer, cpuVars, taskLock, tickVars, callVars, fault,
                   muxUsed, muxOwner, muxPrio, unusedMux, wanted, basePrio>>

MuxPostHandsOver(t, m) ==
    /\ MayPost(t, m)
    /\ muxCount[m] = 1 /\ Waiters(m) # <<>>
    /\ LET next == Head(Waiters(m))
       IN  /\ muxOwner' = [muxOwner EXCEPT ![m] = next]
           /\ muxPrio' = [muxPrio EXCEPT ![m] = prio[next]]
           /\ osTaskWake(Restored(t, m), next, "PEND")
    /\ prio' = [prio EXCEPT ![t] = muxPrio[m]]
    /\ Ungranted(t, m)
    /\ Goto(t, "sched")
    /\ UNCHANGED <<cpuVars, taskLock, tickVars, handle,
                   muxUsed, muxCount, unusedMux, wanted, basePrio>>

-----------------------------------------------------------------------------
(***************************************************************************)
(* What else the tasks do.  A caller of LOS_TaskPriSet or LOS_TaskCreate   *)
(* sets the priority a task has of its own.                                *)
(***************************************************************************)
OtherCall ==
    /\ TaskNext
    /\ basePrio' = [t \in TCBs |-> IF prio'[t] # prio[t] THEN prio'[t] ELSE basePrio[t]]
    /\ UNCHANGED <<muxUsed, muxCount, muxOwner, muxPrio, unusedMux, wanted, granted>>

MuxCall ==
    \/ \E t \in MuxCreators : LOS_MuxCreate(t) \/ \E m \in Muxes : LOS_MuxDelete(t, m)
    \/ \E t \in MuxUsers, m \in Muxes :
           \/ LOS_MuxPend(t, m)
           \/ \E n \in Timeouts : MuxPendWaits(t, m, n)
           \/ MuxPostNested(t, m)
           \/ MuxPostFrees(t, m)
           \/ MuxPostHandsOver(t, m)
    \/ \E t \in MuxUsers : MuxPendReturns(t)

MuxNext == OtherCall \/ MuxCall

MuxSpec == MuxInit /\ [][MuxNext]_allVars

-----------------------------------------------------------------------------
(***************************************************************************)
(* Types; no task releases a mutex more often than it was granted it; a    *)
(* control block is in the free list, once, exactly when it is not in use. *)
(***************************************************************************)
MuxTypeOK ==
    /\ TaskTypeOK
    /\ muxUsed \subseteq Muxes
    /\ muxCount \in [Muxes -> 0 .. MaxDepth]
    /\ muxOwner \in [Muxes -> Tasks \cup {NoTask}]
    /\ muxPrio \in [Muxes -> Prio]
    /\ unusedMux \in Seq(Muxes) /\ IsInjective(unusedMux)
    /\ ToSet(unusedMux) = Muxes \ muxUsed
    /\ wanted \in [Tasks -> Muxes \cup {NoTask}]
    /\ granted \in [Muxes -> [Tasks -> 0 .. MaxDepth]]
    /\ basePrio \in [TCBs -> Prio]

(***************************************************************************)
(* A task was given the mutex and has not returned from LOS_MuxPend yet.   *)
(***************************************************************************)
Arriving(t, m) ==
    /\ pc[t] \in {"wait", "woken"}
    /\ wanted[t] = m
    /\ status[t] \cap {"PEND", "TIMEOUT"} = {}

(***************************************************************************)
(* What the callers were told agrees with the control block: a mutex that  *)
(* some task was granted, or is about to be, is counted and owned by that  *)
(* task, so there is never a second one.  A hand-over that met a timeout   *)
(* would give the mutex to a task that is told it has not got it.          *)
(***************************************************************************)
GrantedToOwner ==
    \A m \in muxUsed :
        /\ \A t \in Tasks :
               granted[m][t] > 0 \/ Arriving(t, m) => muxOwner[m] = t
        /\ muxCount[m] > 0 =>
               muxCount[m] = granted[m][muxOwner[m]]
                             + (IF Arriving(muxOwner[m], m) THEN 1 ELSE 0)
        /\ Waiters(m) # <<>> => muxCount[m] > 0

Holds(t, m) == m \in muxUsed /\ muxCount[m] > 0 /\ muxOwner[m] = t

(***************************************************************************)
(* A task that holds no mutex is back at the priority it has of its own.   *)
(***************************************************************************)
BoostEnds ==
    \A t \in Tasks : (\A m \in Muxes : ~Holds(t, m)) => prio[t] = basePrio[t]

(***************************************************************************)
(* The owner of a mutex is at least as urgent as every task that waits for *)
(* it: no priority inversion.                                              *)
(***************************************************************************)
PriorityInherited ==
    \A m \in muxUsed : muxCount[m] > 0 =>
        \A i \in 1..Len(Waiters(m)) : prio[muxOwner[m]] <= prio[Waiters(m)[i]]
=============================================================================
