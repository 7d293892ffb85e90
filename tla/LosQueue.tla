------------------------------ MODULE LosQueue ------------------------------
(***************************************************************************)
(* Message queues (los_queue.c).  A queue is a ring of slots with two      *)
(* counters: the messages a reader may take and the slots a writer may     *)
(* fill.  A blocked reader or writer is woken with a message, or a slot,   *)
(* that is in neither counter: it is reserved until that task runs.        *)
(***************************************************************************)
EXTENDS LosTask

CONSTANTS
    QueueCBs,       \* the queue control blocks
    QueueLen,       \* usQueueLen
    ListOf,         \* stReadWriteList: queue -> "read" or "write" -> list head
    CreatedQueues,  \* queues that exist at the start
    Messages,
    MessageOf,      \* the message a task writes
    IsrMessage,     \* and the one an interrupt handler writes
    Timeouts,       \* timeouts passed to reads and writes
    QueueCreators, Readers, Writers,    \* who calls what
    IsrReads, IsrWrites

Ways == {"readHead", "writeTail", "writeHead"}      \* OS_QUEUE_OPERATE_GET

Side(way) == IF way = "readHead" THEN "read" ELSE "write"   \* OS_QUEUE_READ_WRITE_GET

Other(side) == IF side = "read" THEN "write" ELSE "read"

ASSUME QueueAssumption ==
    /\ IsFiniteSet(QueueCBs)      \* an array, g_pstAllQueue
    /\ QueueLen \in Nat \ {0}
    /\ ListOf \in [QueueCBs -> [{"read", "write"} -> PendLists]]
    /\ \A p, q \in QueueCBs, r, w \in {"read", "write"} :
           ListOf[p][r] = ListOf[q][w] => p = q /\ r = w
    /\ CreatedQueues \subseteq QueueCBs
    /\ IsrMessage \in Messages
    /\ MessageOf \in [Tasks -> Messages]
    /\ Timeouts \subseteq Delays \cup {Forever}
    /\ QueueCreators \cup Readers \cup Writers \subseteq Tasks \ {Idle}
    /\ IsrReads \in BOOLEAN /\ IsrWrites \in BOOLEAN

VARIABLES
    queueUsed,      \* the queues with usQueueState = OS_QUEUE_INUSED
    freeQueues,     \* g_stFreeQueueList
    count,          \* usReadWriteableCnt
    slot,           \* pucQueue
    queueHead, queueTail,   \* usQueueHead, usQueueTail
    operation       \* the osQueueOperate a blocked task is in

queueVars == <<queueUsed, freeQueues, count, slot, queueHead, queueTail, operation>>
allVars == <<taskVars, queueVars>>

NoOperation == [queue |-> NoTask, way |-> "none"]

Waiters(q, side) == list[ListOf[q][side]]

QueueInit ==
    /\ TaskInit
    /\ queueUsed = CreatedQueues
    /\ freeQueues \in SetToSeqs(QueueCBs \ CreatedQueues)
    /\ count = [q \in QueueCBs |-> [read |-> 0, write |-> QueueLen]]
    /\ slot = [q \in QueueCBs |-> [i \in 0 .. QueueLen - 1 |-> IsrMessage]]
    /\ queueHead = [q \in QueueCBs |-> 0]
    /\ queueTail = [q \in QueueCBs |-> 0]
    /\ operation = [t \in Tasks |-> NoOperation]

(***************************************************************************)
(* A blocked reader, or writer, that was woken and has not run yet.        *)
(***************************************************************************)
Reserves(t, q, side) ==
    /\ pc[t] \in {"wait", "woken"}
    /\ operation[t].queue = q /\ Side(operation[t].way) = side
    /\ status[t] \cap {"PEND_QUEUE", "TIMEOUT"} = {}

Reserved(q, side) == Cardinality({t \in Tasks : Reserves(t, q, side)})

LOS_QueueCreate(t) ==
    /\ Calls(t)
    /\ freeQueues # <<>>
    /\ LET q == Head(freeQueues)
       IN  /\ queueUsed' = queueUsed \cup {q}
           /\ count' = [count EXCEPT ![q] = [read |-> 0, write |-> QueueLen]]
           /\ queueHead' = [queueHead EXCEPT ![q] = 0]
           /\ queueTail' = [queueTail EXCEPT ![q] = 0]
    /\ freeQueues' = Tail(freeQueues)
    /\ UNCHANGED <<taskVars, slot, operation>>

DeleteReserved(t, q) ==     \* faulty: the counters are not added up
    /\ Calls(t)
    /\ q \in queueUsed
    /\ Waiters(q, "read") = <<>> /\ Waiters(q, "write") = <<>>
    /\ queueUsed' = queueUsed \ {q}
    /\ freeQueues' = <<q>> \o freeQueues
    /\ UNCHANGED <<taskVars, count, slot, queueHead, queueTail, operation>>

(***************************************************************************)
(* LOS_QueueDelete refuses while a task waits, and while the counters do   *)
(* not add up: then some task has a reservation.                           *)
(***************************************************************************)
LOS_QueueDelete(t, q) ==
    /\ Calls(t)
    /\ q \in queueUsed
    /\ Waiters(q, "read") = <<>> /\ Waiters(q, "write") = <<>>
    /\ count[q].read + count[q].write = QueueLen
    /\ queueUsed' = queueUsed \ {q}
    /\ freeQueues' = <<q>> \o freeQueues
    /\ UNCHANGED <<taskVars, count, slot, queueHead, queueTail, operation>>

NoWrap(i) == i + 1      \* faulty: runs off the end of the ring

After(i) == (i + 1) % QueueLen

NoStepBack(i) == i      \* faulty: overwrites the oldest message

Previous(i) == (i - 1) % QueueLen

(***************************************************************************)
(* osQueueBufferOperate: copy in or out, and move the head or the tail.    *)
(***************************************************************************)
osQueueBufferOperate(q, way, m) ==
    LET before == Previous(queueHead[q])
    IN  CASE way = "readHead" ->
               /\ queueHead' = [queueHead EXCEPT ![q] = After(@)]
               /\ UNCHANGED <<slot, queueTail>>
          [] way = "writeHead" ->
               /\ queueHead' = [queueHead EXCEPT ![q] = before]
               /\ slot' = [slot EXCEPT ![q][before] = m]
               /\ UNCHANGED queueTail
          [] way = "writeTail" ->
               /\ slot' = [slot EXCEPT ![q][queueTail[q]] = m]
               /\ queueTail' = [queueTail EXCEPT ![q] = After(@)]
               /\ UNCHANGED queueHead

(***************************************************************************)
(* What osQueueOperate does once it has a message or a slot, with counter  *)
(* values cnt: operate, then wake a task of the other side, or count for   *)
(* it.                                                                     *)
(***************************************************************************)
Operated(q, way, m, cnt) ==
    LET side  == Other(Side(way))
        peers == Waiters(q, side)
    IN  /\ osQueueBufferOperate(q, way, m)
        /\ IF peers # <<>>
           THEN /\ osTaskWake(Queues, Head(peers), "PEND_QUEUE")
                /\ count' = [count EXCEPT ![q] = cnt]
           ELSE /\ count' = [count EXCEPT ![q] = [cnt EXCEPT ![side] = @ + 1]]
                /\ UNCHANGED <<listVars, status, timer, fault>>
        /\ UNCHANGED <<prio, taskLock, tickVars, handle, queueUsed, freeQueues>>

Counted(q, way) == [count[q] EXCEPT ![Side(way)] = @ - 1]

Wakes(q, way) == Waiters(q, Other(Side(way))) # <<>>

osQueueOperate(t, q, way) ==
    /\ Calls(t)
    /\ q \in queueUsed
    /\ count[q][Side(way)] > 0
    /\ Operated(q, way, MessageOf[t], Counted(q, way))
    /\ IF Wakes(q, way) THEN Goto(t, "sched") ELSE UNCHANGED pc
    /\ UNCHANGED <<cpuVars, operation>>

QueueOperateWaits(t, q, way, n) ==
    /\ Calls(t)
    /\ q \in queueUsed
    /\ count[q][Side(way)] = 0
    /\ taskLock = 0
    /\ osTaskWait(Queues, t, ListOf[q][Side(way)], "PEND_QUEUE", n)
    /\ operation' = [operation EXCEPT ![t] = [queue |-> q, way |-> way]]
    /\ Goto(t, "wait")
    /\ UNCHANGED <<prio, cpuVars, taskLock, tickVars, handle,
                   queueUsed, freeQueues, count, slot, queueHead, queueTail>>

QueueOperateTimesOut(t) ==
    /\ InTask(t) /\ pc[t] = "woken"
    /\ "TIMEOUT" \in status[t]
    /\ status' = [status EXCEPT ![t] = @ \ {"TIMEOUT"}]
    /\ operation' = [operation EXCEPT ![t] = NoOperation]
    /\ Goto(t, "user")
    /\ UNCHANGED <<listVars, prio, timer, cpuVars, taskLock, tickVars, handle, fault,
                   queueUsed, freeQueues, count, slot, queueHead, queueTail>>

GoesOnCounting(t) ==        \* faulty: counts the reserved message or slot once more
    LET q == operation[t].queue
        way == operation[t].way
    IN  /\ InTask(t) /\ pc[t] = "woken"
        /\ "TIMEOUT" \notin status[t]
        /\ count[q][Side(way)] > 0
        /\ Operated(q, way, MessageOf[t], Counted(q, way))
        /\ operation' = [operation EXCEPT ![t] = NoOperation]
        /\ Goto(t, IF Wakes(q, way) THEN "sched" ELSE "user")
        /\ UNCHANGED cpuVars

QueueOperateGoesOn(t) ==
    LET q == operation[t].queue
        way == operation[t].way
    IN  /\ InTask(t) /\ pc[t] = "woken"
        /\ "TIMEOUT" \notin status[t]
        /\ Operated(q, way, MessageOf[t], count[q])
        /\ operation' = [operation EXCEPT ![t] = NoOperation]
        /\ Goto(t, IF Wakes(q, way) THEN "sched" ELSE "user")
        /\ UNCHANGED cpuVars

IsrQueueOperate(q, way) ==
    /\ InIsr
    /\ q \in queueUsed
    /\ count[q][Side(way)] > 0
    /\ Operated(q, way, IsrMessage, Counted(q, way))
    /\ IF Wakes(q, way) THEN LOS_Schedule ELSE UNCHANGED cpuVars
    /\ UNCHANGED <<pc, operation>>

-----------------------------------------------------------------------------
OtherCall ==
    /\ TaskNext
    /\ operation' = [t \in Tasks |-> IF "UNUSED" \in status'[t] THEN NoOperation
                                     ELSE operation[t]]
    /\ UNCHANGED <<queueUsed, freeQueues, count, slot, queueHead, queueTail>>

Uses(t) == {way \in Ways : t \in (IF Side(way) = "read" THEN Readers ELSE Writers)}

IsrWays == {way \in Ways : IF Side(way) = "read" THEN IsrReads ELSE IsrWrites}

QueueCall ==
    \/ \E t \in QueueCreators : LOS_QueueCreate(t) \/ \E q \in QueueCBs : LOS_QueueDelete(t, q)
    \/ \E t \in Tasks, q \in QueueCBs : \E way \in Uses(t) :
           \/ osQueueOperate(t, q, way)
           \/ \E n \in Timeouts : QueueOperateWaits(t, q, way, n)
    \/ \E t \in Tasks : QueueOperateTimesOut(t) \/ QueueOperateGoesOn(t)
    \/ \E q \in QueueCBs, way \in IsrWays : IsrQueueOperate(q, way)

QueueNext == OtherCall \/ QueueCall

QueueSpec == QueueInit /\ [][QueueNext]_allVars

-----------------------------------------------------------------------------
(***************************************************************************)
(* Types; the counters stay within the queue and the indices on the ring; a*)
(* control block is in the free list, once, exactly when it is not in use. *)
(***************************************************************************)
QueueTypeOK ==
    /\ TaskTypeOK
    /\ queueUsed \subseteq QueueCBs
    /\ freeQueues \in Seq(QueueCBs) /\ IsInjective(freeQueues)
    /\ ToSet(freeQueues) = QueueCBs \ queueUsed
    /\ count \in [QueueCBs -> [read : 0 .. QueueLen, write : 0 .. QueueLen]]
    /\ slot \in [QueueCBs -> [0 .. QueueLen - 1 -> Messages]]
    /\ queueHead \in [QueueCBs -> 0 .. QueueLen - 1]
    /\ queueTail \in [QueueCBs -> 0 .. QueueLen - 1]
    /\ operation \in [Tasks -> [queue : QueueCBs \cup {NoTask}, way : Ways \cup {"none"}]]

(***************************************************************************)
(* Every slot of a queue is readable, writable or reserved for one woken   *)
(* task; the ring's two indices agree with that; and tasks wait on one side*)
(* only while there is nothing for them.                                   *)
(***************************************************************************)
Used(q) == count[q].read + Reserved(q, "read")

SlotsConserved ==
    \A q \in queueUsed :
        /\ Used(q) + count[q].write + Reserved(q, "write") = QueueLen
        /\ (queueHead[q] + Used(q)) % QueueLen = queueTail[q]
        /\ \A side \in {"read", "write"} : Waiters(q, side) # <<>> => count[q][side] = 0

(***************************************************************************)
(* The mapping to the abstract queue: the used slots from the head on.     *)
(***************************************************************************)
Contents(q) == [i \in 1 .. Used(q) |-> slot[q][(queueHead[q] + i - 1) % QueueLen]]

Deque == INSTANCE BoundedDeque
         WITH Queues <- QueueCBs,
              contents <- [q \in QueueCBs |-> Contents(q)],
              exists <- queueUsed

(***************************************************************************)
(* A queue is a bounded queue of messages, whoever is woken when, whatever *)
(* times out: a write of one task never lands in a slot that another has   *)
(* yet to read.                                                            *)
(***************************************************************************)
ImplementsBoundedDeque == Deque!DequeSpec

(***************************************************************************)
(* A queue is not deleted under a task that was woken to use it.           *)
(***************************************************************************)
ReservedQueueExists ==
    \A t \in Tasks, q \in QueueCBs, side \in {"read", "write"} :
        Reserves(t, q, side) => q \in queueUsed
=============================================================================
