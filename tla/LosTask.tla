------------------------------ MODULE LosTask ------------------------------
(***************************************************************************)
(* The LiteOS scheduler on one Cortex-M core: los_task.c, los_priqueue.c,  *)
(* los_timeslice.c, los_tick.c, LOS_Schedule of los_hw.c and PendSV.       *)
(*                                                                         *)
(* A kernel call made by the running task is a critical section (interrupts*)
(* off), then, with interrupts on again, LOS_Schedule: two steps, so that  *)
(* interrupts fall between them.  A context switch is the PendSV           *)
(* exception, requested by one step and taken by another.  PendSV has the  *)
(* lowest priority: in task context it is taken at once, so a task takes   *)
(* no step while it is pending; interrupt handlers do.                     *)
(*                                                                         *)
(* A definition marked "faulty", here and in the other modules, is a       *)
(* variant of the definition after it with a mistake in it: no action uses *)
(* it; with it in the other's place some property must fail.               *)
(***************************************************************************)
EXTENDS LosList, TaskTimers, FiniteSets

CONSTANTS
    Idle,           \* the idle task, g_uwIdleTaskID
    Dummy,          \* g_pstTaskCBArray[g_uwTskMaxNum]: stands for a deleted runner
    NoTask,         \* a null task pointer
    LowestPrio,     \* OS_TASK_PRIORITY_LOWEST, the idle task's
    InitReady,      \* the ready lists LOS_Start finds: priority -> tasks
    InitFree,       \* the control blocks no task uses yet
    FreeTask,       \* list head g_stLosFreeTask
    RecyleList,     \* list head g_stTskRecyleList
    PendLists,      \* heads of the wait lists of kernel objects
    TIMESLICE,      \* LOSCFG_BASE_CORE_TIMESLICE_TIMEOUT
    MaxLock,        \* bound on the nesting of LOS_TaskLock
    NewPrios,       \* priorities passed to LOS_TaskCreate and LOS_TaskPriSet
    DelayIDs,       \* tasks that call LOS_TaskDelay
    SuspendIDs,     \* tasks passed to LOS_TaskSuspend and LOS_TaskResume,
    DeleteIDs,      \* and to LOS_TaskDelete, by tasks
    IsrSuspendIDs,  \* tasks an interrupt handler suspends,
    IsrResumeIDs,   \* resumes,
    IsrDeleteIDs,   \* and deletes
    NestedIsr       \* device interrupts preempt the tick handler

Prio == 0 .. LowestPrio
ListHeads == Prio \cup PendLists \cup {FreeTask, RecyleList}
TCBs == Tasks \cup {Dummy}
Forever == 0        \* LOS_WAIT_FOREVER, as a timeout

InitList == [h \in ListHeads |-> IF h \in Prio THEN InitReady[h]
                                ELSE IF h = FreeTask THEN InitFree ELSE <<>>]

Flags == {"UNUSED", "SUSPEND", "READY", "RUNNING", "DELAY", "TIMEOUT", "PEND", "PEND_QUEUE"}

(***************************************************************************)
(* OS_CHECK_TASK_BLOCK: TIMEOUT is not in it, and stays set on a task whose*)
(* wait timed out until the call it waits in has seen it.                  *)
(***************************************************************************)
BlockFlags == {"DELAY", "PEND", "SUSPEND", "PEND_QUEUE"}

ASSUME TaskAssumption ==
    /\ IsFiniteSet(Tasks)      \* control blocks are an array, g_pstTaskCBArray
    /\ Idle \in Tasks
    /\ Dummy \notin Tasks
    /\ NoTask \notin Tasks \cup {Dummy}
    /\ LowestPrio \in Nat
    /\ FreeTask # RecyleList
    /\ FreeTask \notin Prio \cup PendLists
    /\ RecyleList \notin Prio \cup PendLists
    /\ Prio \cap PendLists = {}
    /\ InitReady \in [Prio -> Seq(Tasks)]
    /\ InitFree \in Seq(Tasks)
    /\ LinkedOnce(InitList)
    /\ \A t \in Tasks : IsLinked(InitList, t)
    /\ InitReady[LowestPrio] = <<Idle>>
    /\ NewPrios \subseteq Prio
    /\ TIMESLICE \in Nat \ {0}
    /\ MaxLock \in Nat
    /\ DelayIDs \cup SuspendIDs \cup DeleteIDs \subseteq Tasks \ {Idle}
    /\ IsrSuspendIDs \cup IsrResumeIDs \cup IsrDeleteIDs \subseteq Tasks \ {Idle}
    /\ NestedIsr \in BOOLEAN

VARIABLES
    list,           \* the lists threaded through stPendList, by head
    bitmap,         \* g_uwPriQueueBitmap, as the set of its priorities
    status,         \* usTaskStatus, as the set of its flags
    prio,           \* usPriority
    runTask,        \* g_stLosTask.pstRunTask
    newTask,        \* g_stLosTask.pstNewTask
    pendSV,         \* PendSV is pending
    taskLock,       \* g_usLosTaskLock
    isr,            \* where the tick handler is: "none" when it does not run
    scanTask,       \* osTaskScan: the entry taken off the timer list,
    scanStatus,     \*             its status as read before that (usTempStatus),
    needSched,      \*             and bNeedSchedule
    sliceTask,      \* g_stTaskTimeSlice.pstTask
    sliceLeft,      \* ticks until g_stTaskTimeSlice.usTime
    pc,             \* where a task is in the kernel call it makes
    handle,         \* the task a LOS_TaskCreate in progress is creating
    fault           \* a NULL link was followed: the core is in HardFault

listVars  == <<list, bitmap>>
cpuVars   == <<runTask, newTask, pendSV>>
scanVars  == <<isr, scanTask, scanStatus, needSched>>
sliceVars == <<sliceTask, sliceLeft>>
tickVars  == <<scanVars, sliceVars>>
callVars  == <<pc, handle>>
taskVars  == <<list, bitmap, status, prio, timer, cpuVars, taskLock, tickVars,
               callVars, fault>>

-----------------------------------------------------------------------------
(***************************************************************************)
(* The priority queue: the ready lists and the bitmap of those not empty.  *)
(* osPriqueueDequeue clears the bit of priority p if its list is now empty.*)
(***************************************************************************)
Ready(t) == "READY" \in status[t]

Queues == [list |-> list, bitmap |-> bitmap]

Become(q) == list' = q.list /\ bitmap' = q.bitmap

osPriqueueTop == list[CHOOSE p \in bitmap : \A q \in bitmap : p <= q][1]

EnqueueNoBit(q, t, p) ==       \* faulty: the bitmap is not updated
    [list |-> LOS_ListTailInsert(q.list, p, t), bitmap |-> q.bitmap]

osPriqueueEnqueue(q, t, p) ==
    [list |-> LOS_ListTailInsert(q.list, p, t), bitmap |-> q.bitmap \cup {p}]

osPriqueueDequeue(q, t, p) ==
    LET l == LOS_ListDelete(q.list, t)
    IN  [list |-> l, bitmap |-> IF l[p] = <<>> THEN q.bitmap \ {p} ELSE q.bitmap]

Unlinked(q, t) == [q EXCEPT !.list = LOS_ListDelete(@, t)]

PendFlagOnly(flags) == "PEND" \in flags     \* faulty: queues forgotten

(***************************************************************************)
(* A status word that says: linked in the wait list of a kernel object.    *)
(***************************************************************************)
OnPendList(flags) == flags \cap {"PEND", "PEND_QUEUE"} # {}

ScheduleOnce ==     \* faulty: a switch that is pending already is not redirected
    /\ newTask' = IF pendSV THEN newTask ELSE osPriqueueTop'
    /\ pendSV' = (pendSV \/ (runTask # osPriqueueTop' /\ taskLock = 0))
    /\ runTask' = runTask

(***************************************************************************)
(* LOS_Schedule, on the lists the step leaves behind.                      *)
(***************************************************************************)
LOS_Schedule ==
    /\ newTask' = osPriqueueTop'
    /\ pendSV' = (pendSV \/ (runTask # osPriqueueTop' /\ taskLock = 0))
    /\ runTask' = runTask

PriModifyInPlace(q, t, p) == q       \* faulty: the task stays in its old queue

(***************************************************************************)
(* osTaskPriModify, and the same lines of LOS_TaskPriSet, on the queues q: *)
(* a ready task moves to the tail of its new priority.                     *)
(***************************************************************************)
osTaskPriModify(q, t, p) ==
    IF Ready(t) THEN osPriqueueEnqueue(osPriqueueDequeue(q, t, prio[t]), t, p) ELSE q

(***************************************************************************)
(* osTaskWait: the running task leaves the ready queue for the tail of a   *)
(* wait list, and is put on the timer list unless it waits forever.  A     *)
(* task that runs although it is in no ready queue (see IsrTaskSuspend)    *)
(* has NULL link pointers: the core faults.                                *)
(***************************************************************************)
osTaskWait(q, t, h, flag, n) ==
    /\ fault' = ~Ready(t)
    /\ Become([osPriqueueDequeue(q, t, prio[t]) EXCEPT !.list = LOS_ListTailInsert(@, h, t)])
    /\ status' = [status EXCEPT ![t] = (@ \ {"READY"}) \cup {flag}
                                       \cup IF n = Forever THEN {} ELSE {"TIMEOUT"}]
    /\ timer' = IF n = Forever THEN timer ELSE Arm(t, n)

KeepsTimeout(flags, flag) == flags \ {flag}     \* faulty: the waiter will think it timed out

NoLonger(flags, flag) == flags \ {flag, "TIMEOUT"}

(***************************************************************************)
(* osTaskWake.  A task with TIMEOUT is taken off the timer list; if it is  *)
(* on none, its link pointers are NULL and the core faults.                *)
(***************************************************************************)
osTaskWake(q, t, flag) ==
    LET timed == "TIMEOUT" \in status[t]
        rest  == NoLonger(status[t], flag)
    IN  /\ fault' = (timed /\ ~Armed(t))
        /\ timer' = IF timed THEN Disarm(t) ELSE timer
        /\ IF "SUSPEND" \in rest
           THEN /\ Become(Unlinked(q, t))
                /\ status' = [status EXCEPT ![t] = rest]
           ELSE /\ Become(osPriqueueEnqueue(Unlinked(q, t), t, prio[t]))
                /\ status' = [status EXCEPT ![t] = rest \cup {"READY"}]

-----------------------------------------------------------------------------
(***************************************************************************)
(* LOS_Start: the idle task and the tasks created before it are ready, the *)
(* highest runs.                                                           *)
(***************************************************************************)
TaskInit ==
    /\ TimersInit
    /\ list = InitList
    /\ bitmap = {p \in Prio : InitReady[p] # <<>>}
    /\ prio = [t \in TCBs |-> IF \E p \in Prio : Linked(InitList, p, t)
                              THEN CHOOSE p \in Prio : Linked(InitList, p, t)
                              ELSE LowestPrio]
    /\ runTask = osPriqueueTop
    /\ newTask = runTask
    /\ status = [t \in TCBs |-> IF t = runTask THEN {"READY", "RUNNING"}
                                ELSE IF \E p \in Prio : Linked(InitList, p, t) THEN {"READY"}
                                ELSE {"UNUSED"}]
    /\ pendSV = FALSE
    /\ taskLock = 0
    /\ isr = "none" /\ scanTask = NoTask /\ scanStatus = {} /\ needSched = FALSE
    /\ sliceTask = NoTask /\ sliceLeft = 0
    /\ pc = [t \in Tasks |-> "user"]
    /\ handle = [t \in Tasks |-> NoTask]
    /\ fault = FALSE

(***************************************************************************)
(* When code runs.  Task context: the running task, no interrupt pending   *)
(* or active.  A device interrupt: between two instructions of a task, and *)
(* inside the tick handler if its priority is higher.                      *)
(***************************************************************************)
InTask(t) == runTask = t /\ ~pendSV /\ isr = "none" /\ ~fault

Calls(t) == t # Idle /\ InTask(t) /\ pc[t] = "user"

InIsr == ~fault /\ (isr = "none" \/ NestedIsr)

Goto(t, l) == pc' = [pc EXCEPT ![t] = l]

(***************************************************************************)
(* A caller has the ID of a task once the call that created it returned.   *)
(***************************************************************************)
Known(x) == x \in Tasks /\ \A t \in Tasks : handle[t] # x

(***************************************************************************)
(* The second half of a call: LOS_Schedule with interrupts on.  A call that*)
(* waits ("wait") goes on, once its task runs again, at "woken".           *)
(***************************************************************************)
Scheduling(t) == pc[t] \in {"sched", "wait"}

Schedule(t) ==
    /\ InTask(t) /\ Scheduling(t)
    /\ Goto(t, IF pc[t] = "wait" THEN "woken" ELSE "user")
    /\ UNCHANGED <<listVars, status, prio, timer, taskLock, tickVars, handle, fault>>
    /\ LOS_Schedule

(***************************************************************************)
(* PendSV_Handler: RUNNING moves from pstRunTask to pstNewTask.            *)
(***************************************************************************)
PendSV_Handler ==
    /\ pendSV /\ isr = "none" /\ ~fault
    /\ status' = [u \in TCBs |-> IF u = newTask THEN status[u] \cup {"RUNNING"}
                                 ELSE IF u = runTask THEN status[u] \ {"RUNNING"}
                                 ELSE status[u]]
    /\ runTask' = newTask
    /\ pendSV' = FALSE
    /\ UNCHANGED <<listVars, prio, timer, newTask, taskLock, tickVars, callVars, fault>>

-----------------------------------------------------------------------------
(***************************************************************************)
(* LOS_TaskCreateOnly: reclaim the tasks that deleted themselves, take a   *)
(* free control block and fill it in.  LOS_TaskCreate goes on from "create"*)
(* with interrupts on in between.                                          *)
(***************************************************************************)
Reclaimed == AddedAll(list, FreeTask, RecyleList)

LOS_TaskCreateOnly(t, p, next) ==
    /\ Calls(t)
    /\ p # LowestPrio
    /\ Reclaimed[FreeTask] # <<>>
    /\ LET x == Head(Reclaimed[FreeTask])
       IN  /\ list' = LOS_ListDelete(Reclaimed, x)
           /\ status' = [status EXCEPT ![x] = {"SUSPEND"}]
           /\ prio' = [prio EXCEPT ![x] = p]
           /\ handle' = IF next = "create" THEN [handle EXCEPT ![t] = x] ELSE handle
           /\ pc' = [pc EXCEPT ![t] = next]
    /\ UNCHANGED <<bitmap, timer, cpuVars, taskLock, tickVars, fault>>

(***************************************************************************)
(* No free control block, or no memory for the stack: the block taken goes *)
(* back to the head of the free list; the reclaiming stays done.           *)
(***************************************************************************)
LOS_TaskCreateFails(t) ==
    /\ Calls(t)
    /\ list' = Reclaimed
    /\ UNCHANGED <<bitmap, status, prio, timer, cpuVars, taskLock, tickVars, callVars, fault>>

LOS_TaskCreate(t) ==
    /\ InTask(t) /\ pc[t] = "create"
    /\ LET x == handle[t]
       IN  /\ status' = [status EXCEPT ![x] = (@ \ {"SUSPEND"}) \cup {"READY"}]
           /\ Become(osPriqueueEnqueue(Queues, x, prio[x]))
    /\ LOS_Schedule
    /\ Goto(t, "user")
    /\ handle' = [handle EXCEPT ![t] = NoTask]
    /\ UNCHANGED <<prio, timer, taskLock, tickVars, fault>>

(***************************************************************************)
(* LOS_TaskSuspend.  Only when the target runs is the switch that must     *)
(* follow looked for.                                                      *)
(***************************************************************************)
CanSuspend(x) ==
    /\ Known(x)
    /\ status[x] \cap {"UNUSED", "SUSPEND"} = {}
    /\ "RUNNING" \in status[x] => taskLock = 0

SuspendedInQueue(x) ==      \* faulty: the task stays in its ready queue
    /\ status' = [status EXCEPT ![x] = (@ \ {"READY"}) \cup {"SUSPEND"}]
    /\ UNCHANGED listVars

Suspended(x) ==
    /\ status' = [status EXCEPT ![x] = (@ \ {"READY"}) \cup {"SUSPEND"}]
    /\ IF Ready(x)
       THEN Become(osPriqueueDequeue(Queues, x, prio[x]))
       ELSE UNCHANGED listVars

LOS_TaskSuspend(t, x) ==
    /\ Calls(t)
    /\ CanSuspend(x)
    /\ Suspended(x)
    /\ IF x = runTask THEN Goto(t, "sched") ELSE UNCHANGED pc
    /\ UNCHANGED <<prio, timer, cpuVars, taskLock, tickVars, handle, fault>>

IsrTaskSuspend(x) ==
    /\ InIsr
    /\ CanSuspend(x)
    /\ Suspended(x)
    /\ IF x = runTask THEN LOS_Schedule ELSE UNCHANGED cpuVars
    /\ UNCHANGED <<prio, timer, taskLock, tickVars, callVars, fault>>

(***************************************************************************)
(* LOS_TaskResume: a task that also waits or sleeps only loses SUSPEND.    *)
(***************************************************************************)
CanResume(x) == Known(x) /\ "UNUSED" \notin status[x] /\ "SUSPEND" \in status[x]

ResumedTooEarly(x) ==       \* faulty: SUSPEND is tested before it is cleared
    /\ status' = [status EXCEPT ![x] = @ \ {"SUSPEND"}]
    /\ UNCHANGED listVars

Resumed(x) ==
    LET rest == status[x] \ {"SUSPEND"}
    IN  IF rest \cap BlockFlags = {}
        THEN /\ status' = [status EXCEPT ![x] = rest \cup {"READY"}]
             /\ Become(osPriqueueEnqueue(Queues, x, prio[x]))
        ELSE /\ status' = [status EXCEPT ![x] = rest]
             /\ UNCHANGED listVars

Blocked(x) == (status[x] \ {"SUSPEND"}) \cap BlockFlags # {}

ResumeNoSchedule(t, x) ==       \* faulty: no switch is looked for
    /\ Calls(t)
    /\ CanResume(x)
    /\ Resumed(x)
    /\ UNCHANGED <<prio, timer, cpuVars, taskLock, tickVars, callVars, fault>>

LOS_TaskResume(t, x) ==
    /\ Calls(t)
    /\ CanResume(x)
    /\ Resumed(x)
    /\ IF Blocked(x) THEN UNCHANGED pc ELSE Goto(t, "sched")
    /\ UNCHANGED <<prio, timer, cpuVars, taskLock, tickVars, handle, fault>>

IsrTaskResume(x) ==
    /\ InIsr
    /\ CanResume(x)
    /\ Resumed(x)
    /\ IF Blocked(x) THEN UNCHANGED cpuVars ELSE LOS_Schedule
    /\ UNCHANGED <<prio, timer, taskLock, tickVars, callVars, fault>>

(***************************************************************************)
(* LOS_TaskDelete.  A task that runs cannot be freed under its own feet: it*)
(* goes to the recycle list and the dummy control block takes its place    *)
(* until the switch; its scheduler lock is broken.                         *)
(***************************************************************************)
CanDelete(x) == Known(x) /\ "UNUSED" \notin status[x]

TimedOnWait(x) == "TIMEOUT" \in status[x]      \* faulty: sleepers forgotten

Timed(x) == status[x] \cap {"DELAY", "TIMEOUT"} # {}

Deleted(x) ==
    LET running == "RUNNING" \in status[x]
        out     == IF Ready(x) THEN osPriqueueDequeue(Queues, x, prio[x])
                   ELSE IF OnPendList(status[x]) THEN Unlinked(Queues, x) ELSE Queues
    IN  /\ Become([out EXCEPT !.list = IF running THEN LOS_ListTailInsert(@, RecyleList, x)
                                                  ELSE LOS_ListAdd(@, FreeTask, x)])
        /\ timer' = IF Timed(x) THEN Disarm(x) ELSE timer
        /\ fault' = (Timed(x) /\ ~Armed(x))
        /\ status' = [status EXCEPT
                        ![x] = {"UNUSED"},
                        ![Dummy] = IF running
                                   THEN (status[x] \ {"READY", "SUSPEND"}) \cup {"UNUSED"}
                                   ELSE @]
        /\ newTask' = osPriqueueTop'
        /\ runTask' = IF running THEN Dummy ELSE runTask
        /\ pendSV' = (pendSV \/ running)
        /\ taskLock' = IF running THEN 0 ELSE taskLock
        /\ Goto(x, "user")
        /\ handle' = [handle EXCEPT ![x] = NoTask]
        /\ UNCHANGED <<prio, tickVars>>

LOS_TaskDelete(t, x) == Calls(t) /\ CanDelete(x) /\ Deleted(x)

IsrTaskDelete(x) == InIsr /\ CanDelete(x) /\ Deleted(x)

LOS_TaskDelay(t, n) ==
    /\ Calls(t)
    /\ taskLock = 0
    /\ Become(osPriqueueDequeue(Queues, t, prio[t]))
    /\ status' = [status EXCEPT ![t] = (@ \ {"READY"}) \cup {"DELAY"}]
    /\ timer' = Arm(t, n)
    /\ fault' = ~Ready(t)
    /\ Goto(t, "sched")
    /\ UNCHANGED <<prio, cpuVars, taskLock, tickVars, handle>>

LOS_TaskPriSet(t, x, p) ==
    /\ Calls(t)
    /\ Known(x) /\ x # Idle
    /\ "UNUSED" \notin status[x]
    /\ Become(osTaskPriModify(Queues, x, p))
    /\ prio' = [prio EXCEPT ![x] = p]
    /\ IF Ready(x) THEN Goto(t, "sched") ELSE UNCHANGED pc
    /\ UNCHANGED <<status, timer, cpuVars, taskLock, tickVars, handle, fault>>

(***************************************************************************)
(* LOS_TaskYield: to the tail of its priority, if another task is there.   *)
(***************************************************************************)
Yields(t) == Ready(t) /\ Len(list[prio[t]]) > 1

LOS_TaskYield(t) ==
    /\ Calls(t)
    /\ Yields(t)
    /\ list' = LOS_ListTailInsert(LOS_ListDelete(list, t), prio[t], t)
    /\ Goto(t, "sched")
    /\ UNCHANGED <<bitmap, status, prio, timer, cpuVars, taskLock, tickVars, handle, fault>>

LOS_TaskLock(t) ==
    /\ Calls(t)
    /\ taskLock < MaxLock
    /\ taskLock' = taskLock + 1
    /\ UNCHANGED <<listVars, status, prio, timer, cpuVars, tickVars, callVars, fault>>

UnlockUnchecked(t) ==       \* faulty: unlocks what is not locked
    /\ Calls(t)
    /\ taskLock' = taskLock - 1
    /\ IF taskLock = 1 THEN Goto(t, "sched") ELSE UNCHANGED pc
    /\ UNCHANGED <<listVars, status, prio, timer, cpuVars, tickVars, handle, fault>>

LOS_TaskUnlock(t) ==
    /\ Calls(t)
    /\ taskLock > 0
    /\ taskLock' = taskLock - 1
    /\ IF taskLock = 1 THEN Goto(t, "sched") ELSE UNCHANGED pc
    /\ UNCHANGED <<listVars, status, prio, timer, cpuVars, tickVars, handle, fault>>

-----------------------------------------------------------------------------
(***************************************************************************)
(* osTickHandler: count the tick, check the time slice (osTimesliceCheck   *)
(* yields for the running task when it is used up), scan the timer list.   *)
(***************************************************************************)
SliceOver == (IF sliceTask = runTask THEN sliceLeft ELSE TIMESLICE) = 1

SliceNeverYields ==     \* faulty: the slice is counted and never enforced
    /\ sliceTask' = IF SliceOver THEN NoTask ELSE runTask
    /\ sliceLeft' = (IF sliceTask = runTask THEN sliceLeft ELSE TIMESLICE) - 1
    /\ UNCHANGED <<list, cpuVars>>

osTimesliceCheck ==
    /\ sliceTask' = IF SliceOver THEN NoTask ELSE runTask
    /\ sliceLeft' = (IF sliceTask = runTask THEN sliceLeft ELSE TIMESLICE) - 1
    /\ IF SliceOver /\ Yields(runTask)
       THEN /\ list' = LOS_ListTailInsert(LOS_ListDelete(list, runTask), prio[runTask], runTask)
            /\ LOS_Schedule
       ELSE UNCHANGED <<list, cpuVars>>

TickStopsInIdle ==      \* faulty: ticks are not counted while the idle task runs
    /\ isr = "none" /\ ~fault
    /\ timer' = IF runTask = Idle THEN timer ELSE Elapse
    /\ isr' = IF \E t \in Tasks : timer'[t] = 0 THEN "scan" ELSE "none"
    /\ UNCHANGED <<bitmap, status, prio, taskLock, scanTask, scanStatus, needSched,
                   callVars, fault>>
    /\ osTimesliceCheck

osTickHandler ==
    /\ isr = "none" /\ ~fault
    /\ timer' = Elapse
    /\ isr' = IF \E t \in Tasks : timer[t] = 1 THEN "scan" ELSE "none"
    /\ UNCHANGED <<bitmap, status, prio, taskLock, scanTask, scanStatus, needSched,
                   callVars, fault>>
    /\ osTimesliceCheck

(***************************************************************************)
(* osTaskScan takes no lock.  ScanExpire: read the status of a task that   *)
(* is due and unlink it from the timer list.  ScanWake: act on the status  *)
(* that was read.                                                          *)
(***************************************************************************)
ScanExpire(x) ==
    /\ isr = "scan" /\ ~fault
    /\ Due(x)
    /\ timer' = Disarm(x)
    /\ scanTask' = x
    /\ scanStatus' = status[x]
    /\ isr' = "wake"
    /\ UNCHANGED <<listVars, status, prio, cpuVars, taskLock, needSched, sliceVars,
                   callVars, fault>>

ScanWake ==
    LET x     == scanTask
        pends == OnPendList(scanStatus)
        over  == IF "PEND" \in scanStatus THEN "PEND"
                 ELSE IF "PEND_QUEUE" \in scanStatus THEN "PEND_QUEUE" ELSE "DELAY"
        out   == IF pends THEN Unlinked(Queues, x) ELSE Queues
    IN  /\ isr = "wake" /\ ~fault
        /\ fault' = (pends /\ ~IsLinked(list, x))
        /\ IF "SUSPEND" \in scanStatus
           THEN /\ status' = [status EXCEPT ![x] = @ \ {over}]
                /\ Become(out)
                /\ UNCHANGED needSched
           ELSE /\ status' = [status EXCEPT ![x] = (@ \ {over}) \cup {"READY"}]
                /\ Become(osPriqueueEnqueue(out, x, prio[x]))
                /\ needSched' = TRUE
        /\ isr' = "scan"
        /\ scanTask' = NoTask
        /\ scanStatus' = {}
        /\ UNCHANGED <<prio, timer, cpuVars, taskLock, sliceVars, callVars>>

ScanDone ==
    /\ isr = "scan" /\ NoneDue /\ ~fault
    /\ isr' = "none"
    /\ needSched' = FALSE
    /\ UNCHANGED <<listVars, status, prio, timer, taskLock, scanTask, scanStatus,
                   sliceVars, callVars, fault>>
    /\ IF needSched THEN LOS_Schedule ELSE UNCHANGED cpuVars

-----------------------------------------------------------------------------
TaskCall(t) ==
    \/ Schedule(t)
    \/ LOS_TaskCreate(t)
    \/ LOS_TaskCreateFails(t)
    \/ \E p \in NewPrios : \/ LOS_TaskCreateOnly(t, p, "create")
                           \/ LOS_TaskCreateOnly(t, p, "user")
    \/ \E x \in SuspendIDs : LOS_TaskSuspend(t, x) \/ LOS_TaskResume(t, x)
    \/ \E x \in DeleteIDs : LOS_TaskDelete(t, x)
    \/ \E n \in Delays : t \in DelayIDs /\ LOS_TaskDelay(t, n)
    \/ \E x \in Tasks, p \in NewPrios : LOS_TaskPriSet(t, x, p)
    \/ LOS_TaskYield(t)
    \/ LOS_TaskLock(t)
    \/ LOS_TaskUnlock(t)

Interrupt ==
    \/ \E x \in IsrSuspendIDs : IsrTaskSuspend(x)
    \/ \E x \in IsrResumeIDs : IsrTaskResume(x)
    \/ \E x \in IsrDeleteIDs : IsrTaskDelete(x)

Tick == osTickHandler \/ (\E x \in Tasks : ScanExpire(x)) \/ ScanWake \/ ScanDone

TaskNext == (\E t \in Tasks : TaskCall(t)) \/ Interrupt \/ Tick \/ PendSV_Handler

TaskSpec == TaskInit /\ [][TaskNext]_taskVars

(***************************************************************************)
(* The tick timer never stops and its handler is shorter than a tick, so a *)
(* pending PendSV is taken between two ticks however often they come; a    *)
(* kernel call that has begun goes on when its task runs.                  *)
(***************************************************************************)
TaskFairness ==
    /\ WF_taskVars(Tick)
    /\ SF_taskVars(PendSV_Handler)
    /\ \A t \in Tasks \ {Idle} : SF_taskVars(Schedule(t)) /\ SF_taskVars(LOS_TaskCreate(t))

TaskFairSpec == TaskSpec /\ TaskFairness

-----------------------------------------------------------------------------
(***************************************************************************)
(* The types of the scheduler's variables (los_task.ph, los_priqueue.c).   *)
(***************************************************************************)
TaskTypeOK ==
    /\ TimersTypeOK
    /\ list \in [ListHeads -> Seq(Tasks)]
    /\ bitmap \subseteq Prio
    /\ status \in [TCBs -> SUBSET Flags]
    /\ prio \in [TCBs -> Prio]
    /\ runTask \in TCBs
    /\ newTask \in Tasks
    /\ pendSV \in BOOLEAN
    /\ taskLock \in Nat
    /\ isr \in {"none", "scan", "wake"}
    /\ scanTask \in Tasks \cup {NoTask}
    /\ scanStatus \in SUBSET Flags
    /\ needSched \in BOOLEAN
    /\ sliceTask \in TCBs \cup {NoTask}
    /\ sliceLeft \in 0 .. TIMESLICE
    /\ pc \in [Tasks -> {"user", "sched", "create", "wait", "woken"}]
    /\ handle \in [Tasks -> Tasks \cup {NoTask}]
    /\ fault \in BOOLEAN

(***************************************************************************)
(* The one link node of a task is in the list its status says: the ready   *)
(* list of its own priority, a wait list, the free or the recycle list; or *)
(* in none.                                                                *)
(***************************************************************************)
LinkMatchesStatus ==
    \A t \in Tasks :
        /\ \A p \in Prio : Linked(list, p, t) <=> (Ready(t) /\ prio[t] = p)
        /\ (\E h \in PendLists : Linked(list, h, t))
               <=> status[t] \cap {"PEND", "PEND_QUEUE"} # {}
        /\ (Linked(list, FreeTask, t) \/ Linked(list, RecyleList, t))
               <=> "UNUSED" \in status[t]

(***************************************************************************)
(* A task's link node is at one place of one list: a queue operation on a  *)
(* node that another operation has linked already would tie two lists      *)
(* together.                                                               *)
(***************************************************************************)
OneListPerTask == LinkedOnce(list)

(***************************************************************************)
(* g_uwPriQueueBitmap has the bit of a priority exactly when its ready list*)
(* is not empty: osPriqueueTop neither misses a task nor finds an empty    *)
(* list.                                                                   *)
(***************************************************************************)
BitmapExact == \A p \in Prio : p \in bitmap <=> list[p] # <<>>

(***************************************************************************)
(* With no interrupt at work, no switch pending and the scheduler not      *)
(* locked, a task that executes its own code is the first task of the      *)
(* highest ready priority: no path forgets to look for a switch.           *)
(***************************************************************************)
HighestRuns ==
    \A t \in Tasks :
        InTask(t) /\ ~Scheduling(t) /\ taskLock = 0 => t = osPriqueueTop

(***************************************************************************)
(* A task that nothing blocks is ready: no wake-up is lost between the     *)
(* paths that clear the reasons for blocking one by one.                   *)
(***************************************************************************)
UnblockedIsReady ==
    isr # "wake" =>
        \A t \in Tasks : Known(t) /\ "UNUSED" \notin status[t]
                         /\ status[t] \cap BlockFlags = {} => Ready(t)

(***************************************************************************)
(* The timer list holds the tasks that sleep or wait with a timeout, and   *)
(* no others (a task whose wait timed out keeps TIMEOUT but not its wait). *)
(***************************************************************************)
TimerMatchesStatus ==
    \A t \in Tasks :
        Armed(t) <=> /\ ~(isr = "wake" /\ scanTask = t)
                     /\ \/ "DELAY" \in status[t]
                        \/ /\ "TIMEOUT" \in status[t]
                           /\ status[t] \cap {"PEND", "PEND_QUEUE"} # {}

(***************************************************************************)
(* The four together: whatever order tasks, handlers and ticks come in, no *)
(* operation of los_task.c leaves the lists, the bitmap, the timers and the*)
(* status words telling different stories.                                 *)
(***************************************************************************)
ListsMatchStatus ==
    LinkMatchesStatus /\ OneListPerTask /\ BitmapExact /\ TimerMatchesStatus

(***************************************************************************)
(* No operation takes a node off a list that it is not on (its pointers are*)
(* NULL then, and los_list.h follows them).                                *)
(***************************************************************************)
NoFault == ~fault

(***************************************************************************)
(* A context switch goes to a ready task of the highest ready priority.    *)
(***************************************************************************)
SwitchesToHighest ==
    [][runTask' # runTask /\ runTask' \in Tasks
          => /\ Ready(runTask')
             /\ \A t \in Tasks : Ready(t) => prio[runTask'] <= prio[t]]_taskVars

(***************************************************************************)
(* Round robin: a task that stays ready at the highest ready priority is   *)
(* not kept from the processor by others of its priority.                  *)
(***************************************************************************)
Waits(t) == /\ Ready(t)
            /\ \A u \in Tasks : Ready(u) => prio[t] <= prio[u]
            /\ taskLock = 0

NoStarvation == \A t \in Tasks \ {Idle} : ~<>[](Waits(t) /\ runTask # t)

(***************************************************************************)
(* Every timeout ends: a task on the timer list comes off it, by the tick  *)
(* or by whoever wakes it, whatever runs meanwhile.                        *)
(***************************************************************************)
EverySleepEnds == \A t \in Tasks \ {Idle} : Armed(t) ~> ~Armed(t)
=============================================================================
