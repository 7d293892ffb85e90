--------------------------- MODULE LosQueueProofs ----------------------------
(***************************************************************************)
(* Proofs about message queues: counters, reservations and ring indices    *)
(* agree, and a queue is a bounded double-ended queue, for any number of   *)
(* tasks, queues and slots, if no task that uses queues is deleted (what a *)
(* woken task had reserved is lost with it).                               *)
(***************************************************************************)
EXTENDS LosQueue, LosTaskProofs, FiniteSetTheorems

UsersLive == (DeleteIDs \cup IsrDeleteIDs) \cap (Readers \cup Writers) = {}

Sides == {"read", "write"}

RingsOK ==
    /\ queueUsed \subseteq QueueCBs
    /\ count \in [QueueCBs -> [read : 0 .. QueueLen, write : 0 .. QueueLen]]
    /\ slot \in [QueueCBs -> [0 .. QueueLen - 1 -> Messages]]
    /\ queueHead \in [QueueCBs -> 0 .. QueueLen - 1]
    /\ queueTail \in [QueueCBs -> 0 .. QueueLen - 1]

(***************************************************************************)
(* The free blocks: none twice, none of them in use.                       *)
(***************************************************************************)
FreeOK ==
    /\ freeQueues \in Seq(QueueCBs)
    /\ NoRepeat(freeQueues)
    /\ \A q \in QueueCBs : Contains(freeQueues, q) <=> q \notin queueUsed

OperationOK ==
    /\ operation \in [Tasks -> [queue : QueueCBs \cup {NoTask}, way : Ways \cup {"none"}]]
    /\ \A t \in Tasks : Waiting(pc[t]) => /\ t \in Readers \cup Writers
                                          /\ operation[t].queue \in QueueCBs
                                          /\ operation[t].way \in Ways

WaitersExist == \A q \in QueueCBs, side \in Sides : Waiters(q, side) # <<>> => q \in queueUsed

(***************************************************************************)
(* Who is in a wait list of a queue waits for that side of it.             *)
(***************************************************************************)
LinkedWaits ==
    \A q \in QueueCBs, side \in Sides, t \in Tasks :
        Linked(list, ListOf[q][side], t) =>
            /\ operation[t].queue = q /\ Side(operation[t].way) = side
            /\ "PEND_QUEUE" \in status[t]

QueueInv ==
    /\ WaitInv
    /\ RingsOK
    /\ FreeOK
    /\ OperationOK
    /\ SlotsConserved
    /\ ReservedQueueExists
    /\ WaitersExist
    /\ fault \/ LinkedWaits

-----------------------------------------------------------------------------
(***************************************************************************)
(* The runs' invariants from the inductive one.                            *)
(***************************************************************************)
LEMMA QueueInvImplies ==
    ASSUME QueueInv
    PROVE  QueueTypeOK /\ SlotsConserved /\ ReservedQueueExists
  <1>1. IsInjective(freeQueues) /\ ToSet(freeQueues) = QueueCBs \ queueUsed
    BY FreeListFacts DEF QueueInv, FreeOK
  <1> QED BY <1>1 DEF QueueInv, WaitInv, TaskInv, QueueTypeOK, RingsOK, FreeOK, OperationOK

(***************************************************************************)
(* A wait list with a first task, and one with none.                       *)
(***************************************************************************)
LEMMA WaitLists ==
    ASSUME NEW l \in [ListHeads -> Seq(Tasks)], NEW q \in QueueCBs, NEW side \in Sides
    PROVE  /\ l[ListOf[q][side]] # <<>> <=> \E y \in Tasks : Linked(l, ListOf[q][side], y)
           /\ l[ListOf[q][side]] # <<>> =>
                  /\ Head(l[ListOf[q][side]]) \in Tasks
                  /\ Linked(l, ListOf[q][side], Head(l[ListOf[q][side]]))
  <1> DEFINE h == ListOf[q][side]
  <1>1. h \in PendLists /\ h \in ListHeads
    BY QueueAssumption DEF ListHeads, Sides
  <1> HIDE DEF h
  <1>2. l[h] = <<>> <=> \A y \in Tasks : ~Linked(l, h, y)
    BY <1>1, EmptyLinksNone
  <1>3. l[h] # <<>> => l[h][1] \in Tasks /\ Linked(l, h, l[h][1])
    BY <1>1, EmptyLinksNone
  <1>4. Head(l[h]) = l[h][1]
    OBVIOUS
  <1> QED BY <1>2, <1>3, <1>4 DEF h

LEMMA NoNewWaiters ==
    ASSUME NEW l \in [ListHeads -> Seq(Tasks)], NEW k \in [ListHeads -> Seq(Tasks)],
           \A g \in PendLists : \A y : Linked(k, g, y) => Linked(l, g, y),
           NEW q \in QueueCBs, NEW side \in Sides, k[ListOf[q][side]] # <<>>
    PROVE  l[ListOf[q][side]] # <<>>
  <1>1. PICK y \in Tasks : Linked(k, ListOf[q][side], y)
    BY WaitLists
  <1>2. Linked(l, ListOf[q][side], y)
    BY <1>1, QueueAssumption DEF Sides
  <1> QED BY <1>2, WaitLists

(***************************************************************************)
(* Reservations, as sets and as numbers.                                   *)
(***************************************************************************)
Holders(q, side) == {t \in Tasks : Reserves(t, q, side)}

LEMMA TaskSets ==
    \A S \in SUBSET Tasks : IsFiniteSet(S) /\ Cardinality(S) \in Nat
  <1>1. IsFiniteSet(Tasks)
    BY TaskAssumption
  <1> QED BY <1>1, FS_Subset, FS_CardinalityType

LEMMA HolderFacts ==
    ASSUME NEW q, NEW side
    PROVE  /\ Reserved(q, side) = Cardinality(Holders(q, side))
           /\ Holders(q, side) \in SUBSET Tasks
           /\ IsFiniteSet(Holders(q, side)) /\ Reserved(q, side) \in Nat
           /\ Holders(q, side) # {} => Reserved(q, side) > 0
           /\ Holders(q, side) = {} => Reserved(q, side) = 0
  <1>1. Reserved(q, side) = Cardinality(Holders(q, side)) /\ Holders(q, side) \in SUBSET Tasks
    BY DEF Reserved, Holders
  <1>2. IsFiniteSet(Holders(q, side)) /\ Reserved(q, side) \in Nat
    BY <1>1, TaskSets
  <1>3. Cardinality(Holders(q, side)) = 0 <=> Holders(q, side) = {}
    BY <1>2, FS_EmptySet
  <1> QED BY <1>1, <1>2, <1>3

LEMMA Facts ==
    ASSUME QueueInv
    PROVE  /\ queueUsed \subseteq QueueCBs
           /\ count \in [QueueCBs -> [read : 0 .. QueueLen, write : 0 .. QueueLen]]
           /\ slot \in [QueueCBs -> [0 .. QueueLen - 1 -> Messages]]
           /\ queueHead \in [QueueCBs -> 0 .. QueueLen - 1]
           /\ queueTail \in [QueueCBs -> 0 .. QueueLen - 1]
           /\ operation \in [Tasks -> [queue : QueueCBs \cup {NoTask}, way : Ways \cup {"none"}]]
           /\ QueueLen \in Nat /\ QueueLen > 0
           /\ pc \in [Tasks -> {"user", "sched", "create", "wait", "woken"}]
           /\ status \in [TCBs -> SUBSET Flags]
           /\ list \in [ListHeads -> Seq(Tasks)]
           /\ prio \in [TCBs -> Prio]
           /\ Tasks \subseteq TCBs
           /\ \A q \in QueueCBs, side \in Sides : ListOf[q][side] \in PendLists
  BY QueueAssumption DEF QueueInv, RingsOK, OperationOK, WaitInv, TaskInv, TaskTypeOK, TCBs, Sides

-----------------------------------------------------------------------------
(***************************************************************************)
(* A step of the scheduler leaves every reservation as it is.              *)
(***************************************************************************)
LEMMA ReservesStay ==
    ASSUME QueueInv, UsersLive, TaskNext, WaitsEnd, NEW t \in Tasks, NEW q, NEW side,
           operation' = [u \in Tasks |-> IF "UNUSED" \in status'[u] THEN NoOperation
                                         ELSE operation[u]],
           \A u \in Tasks : "UNUSED" \in status[u] => ~Waiting(pc[u])
    PROVE  /\ Reserves(t, q, side)' <=> Reserves(t, q, side)
           /\ Waiting(pc'[t]) <=> Waiting(pc[t])
           /\ Waiting(pc[t]) => operation'[t] = operation[t]
  <1>1. /\ Reserves(t, q, side)' <=> /\ Waiting(pc'[t])
                                     /\ operation'[t].queue = q /\ Side(operation'[t].way) = side
                                     /\ status'[t] \cap {"PEND_QUEUE", "TIMEOUT"} = {}
        /\ Reserves(t, q, side) <=> /\ Waiting(pc[t])
                                    /\ operation[t].queue = q /\ Side(operation[t].way) = side
                                    /\ status[t] \cap {"PEND_QUEUE", "TIMEOUT"} = {}
    BY DEF Reserves, Waiting, Side
  <1>2. CASE Waiting(pc[t])
    <2>1. Waiting(pc'[t])
      <3>1. t \in Readers \cup Writers /\ TaskTypeOK
        BY <1>2 DEF QueueInv, OperationOK, WaitInv, TaskInv
      <3> QED BY <1>2, <3>1, WaitersStay DEF UsersLive
    <2>2. Unaffected(t) \/ TimesOut(t)
      BY <2>1 DEF WaitsEnd, Dies, Born
    <2>3. "UNUSED" \notin status'[t]
      BY <1>2, <2>2 DEF Unaffected, TimesOut, Marks
    <2>4. operation'[t] = operation[t]
      BY <2>3
    <2> QED BY <1>1, <1>2, <2>1, <2>2, <2>4 DEF Unaffected, TimesOut, Marks
  <1>3. CASE ~Waiting(pc[t])
    <2>1. ~Waiting(pc'[t])
      BY <1>3 DEF WaitsEnd, Unaffected, TimesOut, Dies, Born
    <2> QED BY <1>1, <1>3, <2>1
  <1> QED BY <1>2, <1>3

(***************************************************************************)
(* What the abstract queue sees.                                           *)
(***************************************************************************)
Kept(q) == Contents(q)' = Contents(q)

LEMMA SameContents ==
    ASSUME NEW q \in QueueCBs, count'[q].read = count[q].read, slot'[q] = slot[q],
           queueHead'[q] = queueHead[q], Reserved(q, "read")' = Reserved(q, "read")
    PROVE  Kept(q) /\ Used(q)' = Used(q)
  BY DEF Kept, Contents, Used

(***************************************************************************)
(* Steps that leave the queues and every reservation alone.                *)
(***************************************************************************)
LEMMA UnmovedInv ==
    ASSUME QueueInv, WaitInv', OperationOK', fault' \/ LinkedWaits',
           UNCHANGED <<queueUsed, freeQueues, count, slot, queueHead, queueTail>>,
           \A t \in Tasks : \A q, side : Reserves(t, q, side)' <=> Reserves(t, q, side),
           \A q \in QueueCBs, side \in Sides : Waiters(q, side)' # <<>> =>
               Waiters(q, side) # <<>> \/ (q \in queueUsed /\ count[q][side] = 0)
    PROVE  QueueInv' /\ \A q \in QueueCBs : Kept(q)
  <1>1. RingsOK' /\ FreeOK'
    BY DEF QueueInv, RingsOK, FreeOK
  <1>2. \A q, side : Holders(q, side)' = Holders(q, side)
    BY DEF Holders
  <1>3. \A q, side : Reserved(q, side)' = Reserved(q, side)
    BY <1>2 DEF Reserved, Holders
  <1>4. \A q \in QueueCBs : Kept(q) /\ Used(q)' = Used(q)
    BY <1>3, SameContents
  <1>5. SlotsConserved'
    BY <1>3, <1>4, Facts DEF QueueInv, SlotsConserved, Sides
  <1>6. ReservedQueueExists'
    BY DEF QueueInv, ReservedQueueExists
  <1>7. WaitersExist'
    BY DEF QueueInv, WaitersExist
  <1> QED BY <1>1, <1>4, <1>5, <1>6, <1>7 DEF QueueInv

LEMMA OtherCallInv ==
    ASSUME QueueInv, UsersLive, ~NestedIsr, OtherCall
    PROVE  QueueInv' /\ UNCHANGED queueUsed /\ \A q \in QueueCBs : Kept(q)
  <1>1. /\ TaskNext
        /\ operation' = [u \in Tasks |-> IF "UNUSED" \in status'[u] THEN NoOperation
                                         ELSE operation[u]]
        /\ UNCHANGED <<queueUsed, freeQueues, count, slot, queueHead, queueTail>>
    BY DEF OtherCall
  <1>2. WaitInv' /\ WaitsEnd /\ ~fault
    BY <1>1, WaitStep, FaultedStops DEF QueueInv
  <1>3. list' \in [ListHeads -> Seq(Tasks)]
    BY <1>2 DEF WaitInv, TaskInv, TaskTypeOK
  <1>4. \A u \in Tasks : "UNUSED" \in status[u] => ~Waiting(pc[u])
    BY <1>2 DEF QueueInv, WaitInv, WaitersOK
  <1>5. \A t \in Tasks : \A q, side : /\ Reserves(t, q, side)' <=> Reserves(t, q, side)
                                      /\ Waiting(pc'[t]) <=> Waiting(pc[t])
                                      /\ Waiting(pc[t]) => operation'[t] = operation[t]
    BY <1>1, <1>2, <1>4, ReservesStay
  <1>6. OperationOK'
    <2>1. NoOperation \in [queue : QueueCBs \cup {NoTask}, way : Ways \cup {"none"}]
      BY DEF NoOperation
    <2>2. operation' \in [Tasks -> [queue : QueueCBs \cup {NoTask}, way : Ways \cup {"none"}]]
      BY <1>1, <2>1, Facts
    <2> QED BY <1>5, <2>2 DEF QueueInv, OperationOK
  <1>7. ASSUME NEW q \in QueueCBs, NEW side \in Sides, Waiters(q, side)' # <<>>
         PROVE  Waiters(q, side) # <<>>
    BY <1>2, <1>3, <1>7, Facts, NoNewWaiters DEF WaitsEnd, Shrinks, Waiters
  <1>8. fault' \/ LinkedWaits'
    <2>1. ASSUME ~fault', NEW q \in QueueCBs, NEW side \in Sides, NEW t \in Tasks,
                 Linked(list', ListOf[q][side], t)
          PROVE  /\ operation'[t].queue = q /\ Side(operation'[t].way) = side
                 /\ "PEND_QUEUE" \in status'[t]
      <3>1. /\ operation[t].queue = q /\ Side(operation[t].way) = side
            /\ "PEND_QUEUE" \in status[t]
        BY <1>2, <2>1, Facts DEF WaitsEnd, Shrinks, QueueInv, LinkedWaits
      <3>2. Pending(t)'
        BY <1>2, <2>1, Facts DEF WaitInv, TaskInv, Healthy, QueuesOK, InPlace, Queues, Pending
      <3>3. Unaffected(t)
        BY <1>2, <3>2 DEF WaitsEnd, TimesOut, Dies, Born, Pending, WaitFlags
      <3>4. operation'[t] = operation[t]
        BY <1>2, <1>5, <3>1 DEF QueueInv, WaitInv, WaitersOK, Pending, WaitFlags
      <3> QED BY <3>1, <3>3, <3>4 DEF Unaffected, Marks
    <2> QED BY <2>1 DEF LinkedWaits, Side
  <1> QED BY <1>1, <1>2, <1>5, <1>6, <1>7, <1>8, UnmovedInv

LEMMA StutterInv ==
    ASSUME QueueInv, UNCHANGED allVars
    PROVE  QueueInv' /\ UNCHANGED queueUsed /\ \A q \in QueueCBs : Kept(q)
  <1>1. /\ UNCHANGED <<queueUsed, freeQueues, count, slot, queueHead, queueTail, operation>>
        /\ UNCHANGED <<list, status, pc, fault>> /\ UNCHANGED taskVars
    BY DEF allVars, queueVars, taskVars, callVars
  <1>2. WaitInv' /\ OperationOK' /\ (fault' \/ LinkedWaits')
    BY <1>1, WaitStutter DEF QueueInv, OperationOK, LinkedWaits
  <1>3. \A t \in Tasks : \A q, side : Reserves(t, q, side)' <=> Reserves(t, q, side)
    BY <1>1 DEF Reserves
  <1>4. \A q \in QueueCBs, side \in Sides : Waiters(q, side)' = Waiters(q, side)
    BY <1>1 DEF Waiters
  <1> QED BY <1>1, <1>2, <1>3, <1>4, UnmovedInv

(***************************************************************************)
(* LOS_QueueRead or LOS_QueueWrite that waits.                             *)
(***************************************************************************)
LEMMA OperateWaitsInv ==
    ASSUME QueueInv, NEW t \in Tasks, NEW b \in QueueCBs, NEW way \in Uses(t), NEW n \in Timeouts,
           QueueOperateWaits(t, b, way, n)
    PROVE  QueueInv' /\ UNCHANGED queueUsed /\ \A q \in QueueCBs : Kept(q)
  <1> DEFINE side == Side(way)
             h    == ListOf[b][side]
             f    == "PEND_QUEUE"
  <1>1. /\ Calls(t) /\ b \in queueUsed /\ count[b][side] = 0 /\ taskLock = 0 /\ ~fault
        /\ osTaskWait(Queues, t, h, f, n)
        /\ operation' = [operation EXCEPT ![t] = [queue |-> b, way |-> way]]
        /\ pc' = [pc EXCEPT ![t] = "wait"]
        /\ UNCHANGED prio
        /\ UNCHANGED <<runTask, newTask, pendSV, taskLock, isr, scanTask, scanStatus, needSched,
                       sliceTask, sliceLeft, handle>>
        /\ UNCHANGED <<queueUsed, freeQueues, count, slot, queueHead, queueTail>>
    BY DEF QueueOperateWaits, Goto, cpuVars, tickVars, scanVars, sliceVars, Calls, InTask
  <1>2. /\ way \in Ways /\ side \in Sides /\ t \in Readers \cup Writers
        /\ h \in PendLists /\ f \in WaitFlags /\ n \in Delays \cup {Forever}
    <2>1. way \in Ways /\ side \in Sides /\ t \in Readers \cup Writers
      BY DEF Uses, Side, Sides
    <2>2. n \in Delays \cup {Forever}
      BY QueueAssumption
    <2> QED BY <2>1, <2>2, Facts DEF WaitFlags
  <1> HIDE DEF h, f
  <1>3. /\ QueuesOK(Queues, status, prio') /\ prio' \in [TCBs -> Prio] /\ prio'[t] = prio[t]
        /\ Queues.list = list
    BY <1>1 DEF QueueInv, WaitInv, TaskInv, Healthy, TaskTypeOK, Queues
  <1>4. /\ WaitInv'
        /\ \A u \in Tasks \ {t} : status'[u] = status[u]
        /\ f \in status'[t]
        /\ \A g \in PendLists : \A y :
               Linked(list', g, y) <=> (Linked(list, g, y) /\ y # t) \/ (g = h /\ y = t)
    <2>1. /\ WaitInv'
          /\ \A u \in Tasks \ {t} : status'[u] = status[u]
          /\ f \in status'[t]
          /\ \A g \in PendLists : \A y :
                 Linked(list', g, y) <=> (Linked(Queues.list, g, y) /\ y # t) \/ (g = h /\ y = t)
      BY <1>1, <1>2, <1>3, WaitEffect DEF QueueInv
    <2> QED BY <1>3, <2>1
  <1>5. /\ pc'[t] = "wait" /\ operation'[t] = [queue |-> b, way |-> way]
        /\ \A u \in Tasks \ {t} : pc'[u] = pc[u] /\ operation'[u] = operation[u]
        /\ operation' \in [Tasks -> [queue : QueueCBs \cup {NoTask}, way : Ways \cup {"none"}]]
    BY <1>1, <1>2, Facts
  <1>6. OperationOK'
    BY <1>2, <1>5 DEF QueueInv, OperationOK
  <1>7. ASSUME NEW u \in Tasks, NEW q, NEW s PROVE Reserves(u, q, s)' <=> Reserves(u, q, s)
    <2>1. CASE u = t
      <3>1. ~Reserves(t, q, s)
        BY <1>1 DEF Reserves, Calls
      <3>2. ~Reserves(t, q, s)'
        BY <1>4 DEF Reserves, f
      <3> QED BY <2>1, <3>1, <3>2
    <2>2. CASE u # t
      BY <1>4, <1>5, <2>2 DEF Reserves, Side
    <2> QED BY <2>1, <2>2
  <1>8. list' \in [ListHeads -> Seq(Tasks)]
    BY <1>4 DEF WaitInv, TaskInv, TaskTypeOK
  <1>9. ASSUME NEW q \in QueueCBs, NEW s \in Sides, Linked(list', ListOf[q][s], t)
        PROVE  q = b /\ s = side
    <2>1. ListOf[q][s] = ListOf[b][side]
      BY <1>4, <1>9, Facts DEF h
    <2> QED BY <1>2, <2>1, QueueAssumption DEF Sides
  <1>10. ASSUME NEW q \in QueueCBs, NEW s \in Sides, Waiters(q, s)' # <<>>
         PROVE  Waiters(q, s) # <<>> \/ (q \in queueUsed /\ count[q][s] = 0)
    <2>1. PICK y \in Tasks : Linked(list', ListOf[q][s], y)
      BY <1>8, <1>10, WaitLists DEF Waiters
    <2>2. CASE y = t
      BY <1>1, <1>9, <2>1, <2>2
    <2>3. CASE y # t
      <3>1. Linked(list, ListOf[q][s], y)
        BY <1>4, <2>1, <2>3, Facts
      <3> QED BY <3>1, Facts, WaitLists DEF Waiters
    <2> QED BY <2>2, <2>3
  <1>11. LinkedWaits'
    <2>1. ASSUME NEW q \in QueueCBs, NEW s \in Sides, NEW u \in Tasks, Linked(list', ListOf[q][s], u)
          PROVE  /\ operation'[u].queue = q /\ Side(operation'[u].way) = s
                 /\ "PEND_QUEUE" \in status'[u]
      <3>1. CASE u = t
        BY <1>4, <1>5, <1>9, <2>1, <3>1 DEF f
      <3>2. CASE u # t
        <4>1. Linked(list, ListOf[q][s], u)
          BY <1>4, <2>1, <3>2, Facts
        <4>2. /\ operation[u].queue = q /\ Side(operation[u].way) = s
              /\ "PEND_QUEUE" \in status[u]
          BY <1>1, <4>1 DEF QueueInv, LinkedWaits
        <4> QED BY <1>4, <1>5, <3>2, <4>2
      <3> QED BY <3>1, <3>2
    <2> QED BY <2>1 DEF LinkedWaits, Side
  <1> QED BY <1>1, <1>4, <1>6, <1>7, <1>10, <1>11, UnmovedInv

(***************************************************************************)
(* The call returns after its timeout: it had no reservation.              *)
(***************************************************************************)
LEMMA TimesOutInv ==
    ASSUME QueueInv, NEW t \in Tasks, QueueOperateTimesOut(t)
    PROVE  QueueInv' /\ UNCHANGED queueUsed /\ \A q \in QueueCBs : Kept(q)
  <1>1. /\ InTask(t) /\ pc[t] = "woken" /\ "TIMEOUT" \in status[t]
        /\ status' = [status EXCEPT ![t] = @ \ {"TIMEOUT"}]
        /\ operation' = [operation EXCEPT ![t] = NoOperation]
        /\ pc' = [pc EXCEPT ![t] = "user"]
        /\ UNCHANGED <<list, bitmap, prio, timer, runTask, newTask, pendSV, taskLock, isr, scanTask,
                       scanStatus, needSched, sliceTask, sliceLeft, handle, fault>>
        /\ UNCHANGED <<queueUsed, freeQueues, count, slot, queueHead, queueTail>>
    BY DEF QueueOperateTimesOut, Goto, listVars, cpuVars, tickVars, scanVars, sliceVars
  <1>2. WaitInv' /\ ~Pending(t) /\ ~fault
    <2>1. WaitInv' /\ ~Pending(t)
      BY <1>1, ReturnStep DEF QueueInv
    <2> QED BY <1>1, <2>1 DEF InTask
  <1>3. /\ pc'[t] = "user" /\ operation'[t] = NoOperation
        /\ \A u \in Tasks \ {t} : pc'[u] = pc[u] /\ operation'[u] = operation[u] /\ status'[u] = status[u]
        /\ operation' \in [Tasks -> [queue : QueueCBs \cup {NoTask}, way : Ways \cup {"none"}]]
    BY <1>1, Facts DEF NoOperation
  <1>4. OperationOK'
    BY <1>3 DEF QueueInv, OperationOK, Waiting
  <1>5. ASSUME NEW u \in Tasks, NEW q, NEW s PROVE Reserves(u, q, s)' <=> Reserves(u, q, s)
    <2>1. CASE u = t
      BY <1>1, <1>3, <2>1 DEF Reserves
    <2>2. CASE u # t
      BY <1>3, <2>2 DEF Reserves, Side
    <2> QED BY <2>1, <2>2
  <1>6. LinkedWaits'
    <2>1. ASSUME NEW q \in QueueCBs, NEW s \in Sides, NEW u \in Tasks, Linked(list, ListOf[q][s], u)
          PROVE  /\ operation'[u].queue = q /\ Side(operation'[u].way) = s
                 /\ "PEND_QUEUE" \in status'[u]
      <3>1. /\ operation[u].queue = q /\ Side(operation[u].way) = s
            /\ "PEND_QUEUE" \in status[u]
        BY <1>2, <2>1 DEF QueueInv, LinkedWaits
      <3>2. u # t
        BY <1>2, <3>1 DEF Pending, WaitFlags
      <3> QED BY <1>3, <3>1, <3>2
    <2> QED BY <1>1, <2>1 DEF LinkedWaits, Side
  <1>7. \A q \in QueueCBs, s \in Sides : Waiters(q, s)' = Waiters(q, s)
    BY <1>1 DEF Waiters
  <1> QED BY <1>1, <1>2, <1>4, <1>5, <1>6, <1>7, UnmovedInv

-----------------------------------------------------------------------------
(***************************************************************************)
(* The ring: n messages from slot h on.                                    *)
(***************************************************************************)
Slot(i) == i % QueueLen

Span(s, h, n) == [i \in 1 .. n |-> s[Slot(h + i - 1)]]

Overwritten(r, s, e, m) ==
    /\ r \in [0 .. QueueLen - 1 -> Messages] /\ r[e] = m
    /\ \A i \in 0 .. QueueLen - 1 : i # e => r[i] = s[i]

LEMMA SomeSlots ==
    QueueLen \in Nat /\ QueueLen > 0
  BY QueueAssumption

LEMMA Wraps ==
    ASSUME NEW i \in 0 .. 2 * QueueLen - 1
    PROVE  /\ Slot(i) = IF i < QueueLen THEN i ELSE i - QueueLen
           /\ Slot(i) \in 0 .. QueueLen - 1
  <1>1. QueueLen \in Nat \ {0}
    BY QueueAssumption
  <1>2. Slot(i) = IF i < QueueLen THEN i ELSE i - QueueLen
    <2>1. CASE i < QueueLen
      <3>1. i \in 0 .. QueueLen - 1
        BY <1>1, <2>1
      <3> QED BY <1>1, <2>1, <3>1 DEF Slot
    <2>2. CASE ~(i < QueueLen)
      <3>1. i \in QueueLen .. 2 * QueueLen - 1
        BY <1>1, <2>2
      <3> QED BY <1>1, <2>2, <3>1 DEF Slot
    <2> QED BY <2>1, <2>2
  <1> QED BY <1>1, <1>2

LEMMA AfterPrevious ==
    ASSUME NEW h \in 0 .. QueueLen - 1
    PROVE  /\ After(h) = IF h + 1 < QueueLen THEN h + 1 ELSE 0
           /\ Previous(h) = IF h = 0 THEN QueueLen - 1 ELSE h - 1
           /\ After(h) \in 0 .. QueueLen - 1 /\ Previous(h) \in 0 .. QueueLen - 1
  <1>1. QueueLen \in Nat \ {0}
    BY QueueAssumption
  <1>2. After(h) = IF h + 1 < QueueLen THEN h + 1 ELSE 0
    <2> DEFINE j == h + 1
    <2>1. j \in 0 .. 2 * QueueLen - 1
      BY <1>1
    <2>2. After(h) = Slot(j)
      BY DEF After, Slot
    <2> HIDE DEF j
    <2>3. Slot(j) = IF j < QueueLen THEN j ELSE j - QueueLen
      BY <2>1, SomeSlots, Wraps
    <2>4. After(h) = IF j < QueueLen THEN j ELSE j - QueueLen
      BY <2>2, <2>3
    <2> QED BY <1>1, <2>4 DEF j
  <1>3. Previous(h) = IF h = 0 THEN QueueLen - 1 ELSE h - 1
    <2>1. CASE h = 0
      <3>1. (0 - 1) % QueueLen = QueueLen - 1
        BY <1>1
      <3> QED BY <2>1, <3>1 DEF Previous
    <2>2. CASE h # 0
      <3>1. h - 1 \in 0 .. 2 * QueueLen - 1 /\ h - 1 < QueueLen
        BY <1>1, <2>2
      <3>2. Slot(h - 1) = h - 1
        BY <3>1, SomeSlots, Wraps
      <3> QED BY <2>2, <3>2 DEF Previous, Slot
    <2> QED BY <2>1, <2>2
  <1> QED BY <1>1, <1>2, <1>3

LEMMA SpanSeq ==
    ASSUME NEW s \in [0 .. QueueLen - 1 -> Messages], NEW h \in 0 .. QueueLen - 1,
           NEW n \in 0 .. QueueLen
    PROVE  /\ Span(s, h, n) \in Seq(Messages) /\ Len(Span(s, h, n)) = n
           /\ \A i \in 1 .. n : /\ Span(s, h, n)[i] = s[Slot(h + i - 1)]
                                /\ Slot(h + i - 1) \in 0 .. QueueLen - 1
  <1>1. \A i \in 1 .. n : h + i - 1 \in 0 .. 2 * QueueLen - 1
    BY SomeSlots
  <1>2. \A i \in 1 .. n : Slot(h + i - 1) \in 0 .. QueueLen - 1
    BY <1>1, SomeSlots, Wraps
  <1>3. n \in Nat
    BY SomeSlots
  <1>4. Span(s, h, n) \in [1 .. n -> Messages]
    BY <1>2 DEF Span
  <1>5. Span(s, h, n) \in Seq(Messages) /\ Len(Span(s, h, n)) = n
    BY <1>3, <1>4
  <1> QED BY <1>2, <1>5 DEF Span

(***************************************************************************)
(* A read at the head takes the first message.                             *)
(***************************************************************************)
LEMMA SpanTake ==
    ASSUME NEW s \in [0 .. QueueLen - 1 -> Messages], NEW h \in 0 .. QueueLen - 1,
           NEW n \in 1 .. QueueLen
    PROVE  /\ Span(s, h, n) # <<>> /\ Span(s, After(h), n - 1) = Tail(Span(s, h, n))
           /\ Slot(After(h) + (n - 1)) = Slot(h + n)
  <1> DEFINE a == Span(s, h, n)
             b == Span(s, After(h), n - 1)
  <1>1. After(h) \in 0 .. QueueLen - 1 /\ n - 1 \in 0 .. QueueLen /\ n \in 0 .. QueueLen /\ n > 0
    <2>1. After(h) \in 0 .. QueueLen - 1
      BY AfterPrevious
    <2> QED BY <2>1, SomeSlots
  <1>2. /\ a \in Seq(Messages) /\ Len(a) = n
        /\ \A i \in 1 .. n : a[i] = s[Slot(h + i - 1)]
    BY <1>1, SpanSeq
  <1>3. /\ b \in Seq(Messages) /\ Len(b) = n - 1
        /\ \A i \in 1 .. n - 1 : b[i] = s[Slot(After(h) + i - 1)]
    BY <1>1, SpanSeq
  <1> HIDE DEF a, b
  <1>4. ASSUME NEW i \in 1 .. n PROVE Slot(After(h) + i - 1) = Slot(h + i)
    <2>1. /\ After(h) = IF h + 1 < QueueLen THEN h + 1 ELSE 0
          /\ QueueLen \in Nat /\ QueueLen > 0
      BY SomeSlots, AfterPrevious
    <2>2. h + i \in 0 .. 2 * QueueLen - 1 /\ After(h) + i - 1 \in 0 .. 2 * QueueLen - 1
      BY <1>1, <2>1
    <2>3. Slot(h + i) = IF h + i < QueueLen THEN h + i ELSE h + i - QueueLen
      BY <2>1, <2>2, Wraps
    <2>4. Slot(After(h) + i - 1) = IF After(h) + i - 1 < QueueLen THEN After(h) + i - 1
                                   ELSE After(h) + i - 1 - QueueLen
      BY <1>1, <2>1, <2>2, Wraps
    <2> QED BY <1>1, <2>1, <2>3, <2>4
  <1>5. a # <<>> /\ Tail(a) \in Seq(Messages) /\ Len(Tail(a)) = n - 1
        /\ \A i \in 1 .. n - 1 : Tail(a)[i] = a[i + 1]
    BY <1>1, <1>2
  <1>6. ASSUME NEW i \in 1 .. n - 1 PROVE b[i] = Tail(a)[i]
    <2>1. i \in 1 .. n /\ i + 1 \in 1 .. n /\ h + (i + 1) - 1 = h + i
      BY <1>1
    <2>2. a[i + 1] = s[Slot(h + i)]
      BY <1>2, <2>1
    <2> QED BY <1>3, <1>4, <1>5, <2>1, <2>2
  <1>7. b = Tail(a)
    BY <1>3, <1>5, <1>6
  <1>8. After(h) + (n - 1) = After(h) + n - 1 /\ n \in 1 .. n
    BY <1>1
  <1> QED BY <1>4, <1>5, <1>7, <1>8 DEF a, b

(***************************************************************************)
(* A write at the tail adds a last message, and disturbs no other.         *)
(***************************************************************************)
LEMMA SpanAppend ==
    ASSUME NEW s \in [0 .. QueueLen - 1 -> Messages], NEW h \in 0 .. QueueLen - 1,
           NEW n \in 0 .. QueueLen - 1, NEW m \in Messages,
           NEW e \in 0 .. QueueLen - 1, e = Slot(h + n),
           NEW r, Overwritten(r, s, e, m)
    PROVE  /\ Span(r, h, n + 1) = Append(Span(s, h, n), m)
           /\ Slot(h + (n + 1)) = After(e)
  <1> DEFINE a == Span(s, h, n)
             b == Span(r, h, n + 1)
  <1>1. /\ QueueLen \in Nat /\ QueueLen > 0
        /\ e = IF h + n < QueueLen THEN h + n ELSE h + n - QueueLen
        /\ e \in 0 .. QueueLen - 1
    <2>1. QueueLen \in Nat /\ QueueLen > 0
      BY SomeSlots
    <2>2. h + n \in 0 .. 2 * QueueLen - 1
      BY <2>1
    <2> QED BY <2>1, <2>2, SomeSlots, Wraps
  <1>2. Slot(h + (n + 1)) = After(e)
    <2>1. h + (n + 1) \in 0 .. 2 * QueueLen - 1
      BY <1>1
    <2>2. Slot(h + (n + 1)) = IF h + (n + 1) < QueueLen THEN h + (n + 1)
                              ELSE h + (n + 1) - QueueLen
      BY <1>1, <2>1, Wraps
    <2>3. After(e) = IF e + 1 < QueueLen THEN e + 1 ELSE 0
      BY <1>1, AfterPrevious
    <2> QED BY <1>1, <2>2, <2>3
  <1>3. r \in [0 .. QueueLen - 1 -> Messages] /\ r[e] = m
        /\ \A i \in 0 .. QueueLen - 1 : i # e => r[i] = s[i]
    BY DEF Overwritten
  <1>4. n \in 0 .. QueueLen /\ n + 1 \in 0 .. QueueLen
    BY <1>1
  <1>5. /\ a \in Seq(Messages) /\ Len(a) = n
        /\ \A i \in 1 .. n : /\ a[i] = s[Slot(h + i - 1)]
                             /\ Slot(h + i - 1) \in 0 .. QueueLen - 1
    BY <1>4, SpanSeq
  <1>6. /\ b \in Seq(Messages) /\ Len(b) = n + 1
        /\ \A i \in 1 .. n + 1 : b[i] = r[Slot(h + i - 1)]
    BY <1>3, <1>4, SpanSeq
  <1> HIDE DEF a, b
  <1>7. /\ Append(a, m) \in Seq(Messages) /\ Len(Append(a, m)) = n + 1
        /\ \A i \in 1 .. n : Append(a, m)[i] = a[i]
        /\ Append(a, m)[n + 1] = m
    BY <1>5
  <1>8. ASSUME NEW i \in 1 .. n PROVE b[i] = a[i]
    <2>1. h + i - 1 \in 0 .. 2 * QueueLen - 1 /\ i \in 1 .. n + 1
      BY <1>1
    <2>2. Slot(h + i - 1) # e
      <3>1. Slot(h + i - 1) = IF h + i - 1 < QueueLen THEN h + i - 1 ELSE h + i - 1 - QueueLen
        BY <2>1, SomeSlots, Wraps
      <3> QED BY <1>1, <3>1
    <2> QED BY <1>3, <1>5, <1>6, <2>1, <2>2
  <1>9. b[n + 1] = m
    <2>1. n + 1 \in 1 .. n + 1 /\ h + (n + 1) - 1 = h + n
      BY <1>1
    <2> QED BY <1>3, <1>6, <2>1
  <1>10. \A i \in 1 .. n + 1 : b[i] = Append(a, m)[i]
    <2>1. \A i \in 1 .. n + 1 : i \in 1 .. n \/ i = n + 1
      BY <1>1
    <2> QED BY <1>7, <1>8, <1>9, <2>1
  <1>11. b = Append(a, m)
    BY <1>6, <1>7, <1>10
  <1> QED BY <1>1, <1>2, <1>11 DEF a, b

(***************************************************************************)
(* A step back of the head makes room for one more before the same tail.   *)
(***************************************************************************)
LEMMA StepBack ==
    ASSUME NEW h \in 0 .. QueueLen - 1, NEW n \in 0 .. QueueLen - 1,
           NEW e \in 0 .. QueueLen - 1, e = Previous(h)
    PROVE  \A i \in 0 .. n : Slot(e + (i + 1)) = Slot(h + i)
  <1>1. QueueLen \in Nat /\ QueueLen > 0 /\ e = IF h = 0 THEN QueueLen - 1 ELSE h - 1
    BY SomeSlots, AfterPrevious
  <1>2. ASSUME NEW i \in 0 .. n PROVE Slot(e + (i + 1)) = Slot(h + i)
    <2>1. e + (i + 1) \in 0 .. 2 * QueueLen - 1 /\ h + i \in 0 .. 2 * QueueLen - 1
      BY <1>1
    <2>2. Slot(e + (i + 1)) = IF e + (i + 1) < QueueLen THEN e + (i + 1)
                              ELSE e + (i + 1) - QueueLen
      BY <1>1, <2>1, Wraps
    <2>3. Slot(h + i) = IF h + i < QueueLen THEN h + i ELSE h + i - QueueLen
      BY <1>1, <2>1, Wraps
    <2> QED BY <1>1, <2>2, <2>3
  <1> QED BY <1>2

(***************************************************************************)
(* An urgent write, before the head, becomes the first message.            *)
(***************************************************************************)
Pushed(m, a) == <<m>> \o a

LEMMA SpanPush ==
    ASSUME NEW s \in [0 .. QueueLen - 1 -> Messages], NEW h \in 0 .. QueueLen - 1,
           NEW n \in 0 .. QueueLen - 1, NEW m \in Messages,
           NEW e \in 0 .. QueueLen - 1, e = Previous(h),
           NEW r, Overwritten(r, s, e, m)
    PROVE  Span(r, e, n + 1) = Pushed(m, Span(s, h, n))
  <1> DEFINE a == Span(s, h, n)
             b == Span(r, e, n + 1)
  <1>1. /\ QueueLen \in Nat /\ QueueLen > 0
        /\ e = IF h = 0 THEN QueueLen - 1 ELSE h - 1
        /\ e \in 0 .. QueueLen - 1
    BY SomeSlots, AfterPrevious
  <1>2. \A i \in 0 .. n : Slot(e + (i + 1)) = Slot(h + i)
    BY StepBack
  <1>3. r \in [0 .. QueueLen - 1 -> Messages] /\ r[e] = m
        /\ \A i \in 0 .. QueueLen - 1 : i # e => r[i] = s[i]
    BY DEF Overwritten
  <1>4. n \in 0 .. QueueLen /\ n + 1 \in 0 .. QueueLen /\ n \in 0 .. n
    BY <1>1
  <1>5. /\ a \in Seq(Messages) /\ Len(a) = n
        /\ \A i \in 1 .. n : /\ a[i] = s[Slot(h + i - 1)]
                             /\ Slot(h + i - 1) \in 0 .. QueueLen - 1
    BY <1>4, SpanSeq
  <1>6. /\ b \in Seq(Messages) /\ Len(b) = n + 1
        /\ \A i \in 1 .. n + 1 : b[i] = r[Slot(e + i - 1)]
    BY <1>1, <1>3, <1>4, SpanSeq
  <1> HIDE DEF a, b
  <1>7. /\ <<m>> \o a \in Seq(Messages) /\ Len(<<m>> \o a) = n + 1
        /\ (<<m>> \o a)[1] = m
        /\ \A i \in 2 .. n + 1 : (<<m>> \o a)[i] = a[i - 1]
    <2>1. a \in Seq(Messages) /\ Len(a) = n /\ n \in Nat
      BY <1>1, <1>5
    <2> QED BY <2>1
  <1>8. b[1] = m
    <2>1. 1 \in 1 .. n + 1 /\ e + 1 - 1 = e /\ e \in 0 .. 2 * QueueLen - 1 /\ e < QueueLen
      BY <1>1
    <2>2. Slot(e) = e
      BY <2>1, SomeSlots, Wraps
    <2> QED BY <1>3, <1>6, <2>1, <2>2
  <1>9. ASSUME NEW i \in 2 .. n + 1 PROVE b[i] = a[i - 1]
    <2>1. /\ i - 1 \in 1 .. n /\ i - 2 \in 0 .. n /\ i \in 1 .. n + 1
          /\ e + ((i - 2) + 1) = e + i - 1 /\ h + (i - 2) = h + (i - 1) - 1
      BY <1>1
    <2>2. Slot(e + i - 1) = Slot(h + (i - 1) - 1)
      BY <1>2, <2>1
    <2>3. Slot(h + (i - 1) - 1) # e
      <3>1. h + (i - 1) - 1 \in 0 .. 2 * QueueLen - 1
        BY <1>1
      <3>2. Slot(h + (i - 1) - 1) = IF h + (i - 1) - 1 < QueueLen THEN h + (i - 1) - 1
                                           ELSE h + (i - 1) - 1 - QueueLen
        BY <3>1, SomeSlots, Wraps
      <3> QED BY <1>1, <3>2
    <2> QED BY <1>3, <1>5, <1>6, <2>1, <2>2, <2>3
  <1>10. \A i \in 1 .. n + 1 : b[i] = (<<m>> \o a)[i]
    <2>1. \A i \in 1 .. n + 1 : i \in 2 .. n + 1 \/ i = 1
      BY <1>1
    <2> QED BY <1>7, <1>8, <1>9, <2>1
  <1>11. b = <<m>> \o a
    BY <1>6, <1>7, <1>10, SMTT(60)
  <1> QED BY <1>1, <1>2, <1>4, <1>11 DEF a, b, Pushed

(***************************************************************************)
(* What a step on queue b shows of the abstract queue.                     *)
(***************************************************************************)
Takes(b) == Contents(b) # <<>> /\ Contents(b)' = Tail(Contents(b))

Puts(b, m) ==
    /\ Len(Contents(b)) < QueueLen
    /\ Contents(b)' = Append(Contents(b), m) \/ Contents(b)' = <<m>> \o Contents(b)

Operates(b) ==
    /\ b \in queueUsed /\ UNCHANGED queueUsed
    /\ \A q \in QueueCBs \ {b} : Kept(q)
    /\ Takes(b) \/ \E m \in Messages : Puts(b, m)

Appears(b) ==
    /\ b \notin queueUsed /\ queueUsed' = queueUsed \cup {b}
    /\ \A q \in QueueCBs \ {b} : Kept(q)
    /\ Contents(b)' = <<>>

Vanishes(b) ==
    /\ b \in queueUsed /\ queueUsed' = queueUsed \ {b}
    /\ \A q \in QueueCBs : Kept(q)

(***************************************************************************)
(* A queue that is not in use has no waiter and no reservation.            *)
(***************************************************************************)
LEMMA UnusedIdle ==
    ASSUME QueueInv, NEW b \in QueueCBs, b \notin queueUsed, NEW side \in Sides
    PROVE  Waiters(b, side) = <<>> /\ Reserved(b, side) = 0
  <1>1. Holders(b, side) = {}
    BY DEF QueueInv, ReservedQueueExists, Holders, Sides
  <1> QED BY <1>1, HolderFacts DEF QueueInv, WaitersExist

(***************************************************************************)
(* Calls that change no task and no reservation.                           *)
(***************************************************************************)
LEMMA QuietCall ==
    ASSUME QueueInv, UNCHANGED <<taskVars, operation>>
    PROVE  /\ WaitInv' /\ OperationOK' /\ (fault' \/ LinkedWaits')
           /\ \A t \in Tasks : \A q, side : Reserves(t, q, side)' <=> Reserves(t, q, side)
           /\ \A q, side : Reserved(q, side)' = Reserved(q, side)
           /\ \A q, side : Waiters(q, side)' = Waiters(q, side)
  <1>1. UNCHANGED <<list, status, pc, fault>>
    BY DEF taskVars, callVars, listVars
  <1>2. WaitInv' /\ OperationOK' /\ (fault' \/ LinkedWaits')
    BY <1>1, WaitStutter DEF QueueInv, OperationOK, LinkedWaits
  <1>3. \A t \in Tasks : \A q, side : Reserves(t, q, side)' <=> Reserves(t, q, side)
    BY <1>1 DEF Reserves
  <1>4. \A q, side : Reserved(q, side)' = Reserved(q, side)
    BY <1>3 DEF Reserved
  <1> QED BY <1>1, <1>2, <1>3, <1>4 DEF Waiters

LEMMA CreateInv ==
    ASSUME QueueInv, NEW t \in Tasks, LOS_QueueCreate(t)
    PROVE  QueueInv' /\ \E b \in QueueCBs : Appears(b)
  <1> DEFINE c == [read |-> 0, write |-> QueueLen]
             d == Head(freeQueues)
  <1>1. /\ freeQueues # <<>> /\ freeQueues' = Tail(freeQueues)
        /\ queueUsed' = queueUsed \cup {d}
        /\ count' = [count EXCEPT ![d] = c]
        /\ queueHead' = [queueHead EXCEPT ![d] = 0]
        /\ queueTail' = [queueTail EXCEPT ![d] = 0]
        /\ UNCHANGED slot /\ UNCHANGED <<taskVars, operation>>
    BY DEF LOS_QueueCreate
  <1>2. /\ d \in QueueCBs /\ Contains(freeQueues, d)
        /\ Tail(freeQueues) \in Seq(QueueCBs) /\ NoRepeat(Tail(freeQueues))
        /\ \A y : Contains(Tail(freeQueues), y) <=> Contains(freeQueues, y) /\ y # d
    BY <1>1, PopFacts DEF QueueInv, FreeOK
  <1> HIDE DEF d
  <1>3. PICK b \in QueueCBs : b = d
    BY <1>2
  <1>4. b \notin queueUsed
    BY <1>2, <1>3 DEF QueueInv, FreeOK
  <1>5. c \in [read : 0 .. QueueLen, write : 0 .. QueueLen] /\ c.read = 0 /\ c.write = QueueLen
    BY Facts
  <1> HIDE DEF c
  <1>6. /\ count'[b] = c /\ queueHead'[b] = 0 /\ queueTail'[b] = 0
        /\ count' \in [QueueCBs -> [read : 0 .. QueueLen, write : 0 .. QueueLen]]
        /\ queueHead' \in [QueueCBs -> 0 .. QueueLen - 1]
        /\ queueTail' \in [QueueCBs -> 0 .. QueueLen - 1]
        /\ \A q \in QueueCBs \ {b} : /\ count'[q] = count[q] /\ queueHead'[q] = queueHead[q]
                                     /\ queueTail'[q] = queueTail[q]
    BY <1>1, <1>3, <1>5, Facts
  <1>7. /\ WaitInv' /\ OperationOK' /\ (fault' \/ LinkedWaits')
        /\ \A u \in Tasks : \A q, side : Reserves(u, q, side)' <=> Reserves(u, q, side)
        /\ \A q, side : Reserved(q, side)' = Reserved(q, side)
        /\ \A q, side : Waiters(q, side)' = Waiters(q, side)
    BY <1>1, QuietCall
  <1>8. /\ Reserved(b, "read")' = 0 /\ Reserved(b, "write")' = 0
        /\ Waiters(b, "read")' = <<>> /\ Waiters(b, "write")' = <<>>
    BY <1>4, <1>7, UnusedIdle DEF Sides
  <1>9. RingsOK' /\ FreeOK'
    <2>1. RingsOK'
      BY <1>1, <1>2, <1>6, Facts DEF RingsOK
    <2> QED BY <1>1, <1>2, <2>1 DEF QueueInv, FreeOK
  <1>10. Contents(b)' = <<>> /\ Used(b)' = 0
    <2>1. Used(b)' = 0
      BY <1>5, <1>6, <1>8 DEF Used
    <2>2. Contents(b)' = Span(slot'[b], queueHead'[b], 0)
      BY <2>1 DEF Contents, Span, Slot
    <2>3. slot'[b] \in [0 .. QueueLen - 1 -> Messages] /\ queueHead'[b] \in 0 .. QueueLen - 1
      BY <1>6, <1>9 DEF RingsOK
    <2>4. 0 \in 0 .. QueueLen
      BY Facts
    <2>5. /\ Span(slot'[b], queueHead'[b], 0) \in Seq(Messages)
          /\ Len(Span(slot'[b], queueHead'[b], 0)) = 0
      BY <2>3, <2>4, SpanSeq
    <2> QED BY <2>1, <2>2, <2>5
  <1>11. ASSUME NEW q \in QueueCBs \ {b} PROVE Kept(q) /\ Used(q)' = Used(q)
    BY <1>1, <1>6, <1>7, SameContents
  <1>12. SlotsConserved'
    <2>1. ASSUME NEW q \in queueUsed'
          PROVE  /\ Used(q)' + count'[q].write + Reserved(q, "write")' = QueueLen
                 /\ (queueHead'[q] + Used(q)') % QueueLen = queueTail'[q]
                 /\ \A side \in {"read", "write"} : Waiters(q, side)' # <<>> => count'[q][side] = 0
      <3>1. CASE q = b
        <4>1. (0 + 0) % QueueLen = 0
          BY SomeSlots
        <4>2. 0 + QueueLen + 0 = QueueLen
          BY SomeSlots
        <4> QED BY <1>5, <1>6, <1>8, <1>10, <3>1, <4>1, <4>2
      <3>2. CASE q # b
        <4>1. q \in queueUsed /\ q \in QueueCBs \ {b}
          BY <1>1, <1>3, <2>1, <3>2, Facts
        <4> QED BY <1>6, <1>7, <1>11, <4>1 DEF QueueInv, SlotsConserved
      <3> QED BY <3>1, <3>2
    <2> QED BY <2>1 DEF SlotsConserved
  <1>13. ReservedQueueExists' /\ WaitersExist'
    BY <1>1, <1>7 DEF QueueInv, ReservedQueueExists, WaitersExist
  <1>14. Appears(b)
    BY <1>1, <1>3, <1>4, <1>10, <1>11 DEF Appears
  <1> QED BY <1>7, <1>9, <1>12, <1>13, <1>14 DEF QueueInv

(***************************************************************************)
(* The counters of a queue that may be deleted add up: nothing is reserved.*)
(***************************************************************************)
LEMMA DeleteInv ==
    ASSUME QueueInv, NEW t \in Tasks, NEW b \in QueueCBs, LOS_QueueDelete(t, b)
    PROVE  QueueInv' /\ Vanishes(b)
  <1>1. /\ b \in queueUsed
        /\ Waiters(b, "read") = <<>> /\ Waiters(b, "write") = <<>>
        /\ count[b].read + count[b].write = QueueLen
        /\ queueUsed' = queueUsed \ {b}
        /\ freeQueues' = <<b>> \o freeQueues
        /\ UNCHANGED <<count, slot, queueHead, queueTail>> /\ UNCHANGED <<taskVars, operation>>
    BY DEF LOS_QueueDelete
  <1>2. /\ WaitInv' /\ OperationOK' /\ (fault' \/ LinkedWaits')
        /\ \A u \in Tasks : \A q, side : Reserves(u, q, side)' <=> Reserves(u, q, side)
        /\ \A q, side : Reserved(q, side)' = Reserved(q, side)
        /\ \A q, side : Waiters(q, side)' = Waiters(q, side)
    BY <1>1, QuietCall
  <1>3. \A q \in QueueCBs : Kept(q) /\ Used(q)' = Used(q)
    BY <1>1, <1>2, SameContents
  <1>4. RingsOK' /\ FreeOK'
    <2>1. RingsOK'
      BY <1>1 DEF QueueInv, RingsOK
    <2>2. ~Contains(freeQueues, b) /\ freeQueues \in Seq(QueueCBs) /\ NoRepeat(freeQueues)
      BY <1>1 DEF QueueInv, FreeOK
    <2>3. /\ <<b>> \o freeQueues \in Seq(QueueCBs) /\ NoRepeat(<<b>> \o freeQueues)
          /\ \A y : Contains(<<b>> \o freeQueues, y) <=> Contains(freeQueues, y) \/ y = b
      BY <2>2, PushFacts
    <2> QED BY <1>1, <2>1, <2>3 DEF QueueInv, FreeOK
  <1>5. SlotsConserved'
    BY <1>1, <1>2, <1>3, Facts DEF QueueInv, SlotsConserved
  <1>6. Holders(b, "read") = {} /\ Holders(b, "write") = {}
    <2>1. Used(b) + count[b].write + Reserved(b, "write") = QueueLen
      BY <1>1 DEF QueueInv, SlotsConserved
    <2>2. Reserved(b, "read") \in Nat /\ Reserved(b, "write") \in Nat
      BY HolderFacts
    <2>3. count[b].read \in Int /\ count[b].write \in Int
      BY Facts
    <2>4. Reserved(b, "read") = 0 /\ Reserved(b, "write") = 0
      BY <1>1, <2>1, <2>2, <2>3, SomeSlots DEF Used
    <2>5. ~(Reserved(b, "read") > 0) /\ ~(Reserved(b, "write") > 0)
      BY <2>4
    <2> QED BY <2>5, HolderFacts
  <1>7. ReservedQueueExists'
    <2>1. \A u \in Tasks, side \in {"read", "write"} : ~Reserves(u, b, side)
      BY <1>6 DEF Holders
    <2> QED BY <1>1, <1>2, <2>1 DEF QueueInv, ReservedQueueExists
  <1>8. WaitersExist'
    BY <1>1, <1>2 DEF QueueInv, WaitersExist, Sides
  <1> QED BY <1>1, <1>2, <1>3, <1>4, <1>5, <1>7, <1>8 DEF QueueInv, Vanishes

-----------------------------------------------------------------------------
(***************************************************************************)
(* osQueueBufferOperate, on a ring whose n messages end at its tail.       *)
(***************************************************************************)
LEMMA RingStep ==
    ASSUME RingsOK, NEW b \in QueueCBs, NEW way \in Ways, NEW m \in Messages,
           osQueueBufferOperate(b, way, m),
           NEW n \in 0 .. QueueLen, queueTail[b] = Slot(queueHead[b] + n),
           way = "readHead" => n > 0, way # "readHead" => n < QueueLen,
           NEW k, k = IF way = "readHead" THEN n - 1 ELSE n + 1
    PROVE  /\ slot' \in [QueueCBs -> [0 .. QueueLen - 1 -> Messages]]
           /\ queueHead' \in [QueueCBs -> 0 .. QueueLen - 1]
           /\ queueTail' \in [QueueCBs -> 0 .. QueueLen - 1]
           /\ \A q \in QueueCBs \ {b} : /\ slot'[q] = slot[q] /\ queueHead'[q] = queueHead[q]
                                        /\ queueTail'[q] = queueTail[q]
           /\ queueTail'[b] = Slot(queueHead'[b] + k)
           /\ way = "readHead" =>
                  /\ Span(slot[b], queueHead[b], n) # <<>>
                  /\ Span(slot'[b], queueHead'[b], k) = Tail(Span(slot[b], queueHead[b], n))
           /\ way = "writeTail" =>
                  Span(slot'[b], queueHead'[b], k) = Append(Span(slot[b], queueHead[b], n), m)
           /\ way = "writeHead" =>
                  Span(slot'[b], queueHead'[b], k) = <<m>> \o Span(slot[b], queueHead[b], n)
  <1>1. PICK h \in 0 .. QueueLen - 1 : h = queueHead[b]
    BY DEF RingsOK
  <1>2. PICK e \in 0 .. QueueLen - 1 : e = queueTail[b]
    BY DEF RingsOK
  <1>3. PICK s \in [0 .. QueueLen - 1 -> Messages] : s = slot[b]
    BY DEF RingsOK
  <1>4. /\ After(h) \in 0 .. QueueLen - 1 /\ Previous(h) \in 0 .. QueueLen - 1
        /\ After(e) \in 0 .. QueueLen - 1
    BY AfterPrevious
  <1>5. CASE way = "readHead"
    <2>1. queueHead' = [queueHead EXCEPT ![b] = After(@)] /\ UNCHANGED <<slot, queueTail>>
      BY <1>5 DEF osQueueBufferOperate
    <2>2. /\ queueHead'[b] = After(h)
          /\ \A q \in QueueCBs \ {b} : queueHead'[q] = queueHead[q]
          /\ queueHead' \in [QueueCBs -> 0 .. QueueLen - 1]
      BY <1>1, <1>4, <2>1 DEF RingsOK
    <2>3. n \in 1 .. QueueLen /\ k = n - 1
      BY <1>5, SomeSlots
    <2>4. /\ Span(s, h, n) # <<>> /\ Span(s, After(h), n - 1) = Tail(Span(s, h, n))
          /\ Slot(After(h) + (n - 1)) = Slot(h + n)
      BY <2>3, SpanTake
    <2> QED BY <1>1, <1>2, <1>3, <1>5, <2>1, <2>2, <2>3, <2>4 DEF RingsOK
  <1>6. CASE way = "writeTail"
    <2>1. /\ slot' = [slot EXCEPT ![b][e] = m]
          /\ queueTail' = [queueTail EXCEPT ![b] = After(@)]
          /\ UNCHANGED queueHead
      BY <1>2, <1>6 DEF osQueueBufferOperate
    <2>2. /\ queueTail'[b] = After(e)
          /\ \A q \in QueueCBs \ {b} : queueTail'[q] = queueTail[q]
          /\ queueTail' \in [QueueCBs -> 0 .. QueueLen - 1]
      BY <1>2, <1>4, <2>1 DEF RingsOK
    <2>3. /\ slot'[b] = [s EXCEPT ![e] = m]
          /\ \A q \in QueueCBs \ {b} : slot'[q] = slot[q]
          /\ slot' \in [QueueCBs -> [0 .. QueueLen - 1 -> Messages]]
      BY <1>3, <2>1 DEF RingsOK
    <2>4. n \in 0 .. QueueLen - 1 /\ k = n + 1
      BY <1>6, SomeSlots
    <2>5. e = Slot(h + n)
      BY <1>1, <1>2
    <2>6. PICK r : r = slot'[b] /\ Overwritten(r, s, e, m)
      BY <2>3 DEF Overwritten
    <2>7. /\ Span(r, h, n + 1) = Append(Span(s, h, n), m)
          /\ Slot(h + (n + 1)) = After(e)
      BY <2>4, <2>5, <2>6, SpanAppend
    <2> QED BY <1>1, <1>2, <1>3, <1>6, <2>1, <2>2, <2>3, <2>4, <2>6, <2>7 DEF RingsOK
  <1>7. CASE way = "writeHead"
    <2>0. PICK p \in 0 .. QueueLen - 1 : p = Previous(h)
      BY <1>4
    <2>1. /\ slot' = [slot EXCEPT ![b][p] = m]
          /\ queueHead' = [queueHead EXCEPT ![b] = p]
          /\ UNCHANGED queueTail
      BY <1>1, <1>7, <2>0 DEF osQueueBufferOperate
    <2>2. p \in 0 .. QueueLen - 1
      BY <1>4, <2>0
    <2>3. n \in 0 .. QueueLen - 1 /\ k = n + 1
      BY <1>7, SomeSlots
    <2>5. /\ queueHead'[b] = p
          /\ \A q \in QueueCBs \ {b} : queueHead'[q] = queueHead[q]
          /\ queueHead' \in [QueueCBs -> 0 .. QueueLen - 1]
      BY <2>1, <2>2 DEF RingsOK
    <2>6. /\ slot'[b] = [s EXCEPT ![p] = m]
          /\ \A q \in QueueCBs \ {b} : slot'[q] = slot[q]
          /\ slot' \in [QueueCBs -> [0 .. QueueLen - 1 -> Messages]]
      BY <1>3, <2>1, <2>2 DEF RingsOK
    <2>4. PICK r : r = slot'[b] /\ Overwritten(r, s, p, m)
      BY <2>2, <2>6 DEF Overwritten
    <2>7. /\ Span(r, p, n + 1) = <<m>> \o Span(s, h, n)
          /\ Slot(p + (n + 1)) = Slot(h + n)
      <3>1. n \in 0 .. QueueLen - 1 /\ Overwritten(r, s, p, m)
        BY <2>3, <2>4
      <3>2. Span(r, p, n + 1) = Pushed(m, Span(s, h, n))
        BY <2>0, <3>1, SomeSlots, SpanPush
      <3>3. Slot(p + (n + 1)) = Slot(h + n)
        <4>1. \A i \in 0 .. n : Slot(p + (i + 1)) = Slot(h + i)
          BY <2>0, <3>1, SomeSlots, StepBack
        <4>2. n \in 0 .. n
          BY <3>1, SomeSlots
        <4> QED BY <4>1, <4>2
      <3> QED BY <3>2, <3>3 DEF Pushed
    <2> QED BY <1>1, <1>2, <1>3, <1>7, <2>1, <2>3, <2>4, <2>5, <2>6, <2>7 DEF RingsOK
  <1> QED BY <1>5, <1>6, <1>7 DEF Ways

(***************************************************************************)
(* T is the caller if it goes on after a wait, X is the task that is woken.*)
(***************************************************************************)
ReservesMove(b, side, T, X) ==
    /\ \A u \in Tasks : \A q, s :
           Reserves(u, q, s)' <=> \/ Reserves(u, q, s) /\ u \notin T
                                  \/ u \in X /\ q = b /\ s = Other(side)
    /\ T = {} \/ \E t \in Tasks : T = {t} /\ Reserves(t, b, side)
    /\ X = {} \/ \E x \in Tasks : X = {x} /\ \A q, s : ~Reserves(x, q, s)

LEMMA ReservedMove ==
    ASSUME NEW b \in QueueCBs, NEW side \in Sides, NEW T, NEW X, ReservesMove(b, side, T, X)
    PROVE  /\ Reserved(b, side)' = IF T = {} THEN Reserved(b, side) ELSE Reserved(b, side) - 1
           /\ Reserved(b, Other(side))' = IF X = {} THEN Reserved(b, Other(side))
                                          ELSE Reserved(b, Other(side)) + 1
           /\ \A q \in QueueCBs \ {b} : \A s : Reserved(q, s)' = Reserved(q, s)
  <1>1. Other(side) # side /\ Other(side) \in Sides
    BY DEF Other, Sides
  <1>2. \A q, s : /\ Reserved(q, s) = Cardinality(Holders(q, s))
                  /\ Reserved(q, s)' = Cardinality(Holders(q, s)')
    BY DEF Reserved, Holders
  <1>3. \A q, s : IsFiniteSet(Holders(q, s)) /\ Reserved(q, s) \in Nat
    BY HolderFacts
  <1>4. Reserved(b, side)' = IF T = {} THEN Reserved(b, side) ELSE Reserved(b, side) - 1
    <2>1. \A u \in Tasks : Reserves(u, b, side)' <=> Reserves(u, b, side) /\ u \notin T
      BY <1>1 DEF ReservesMove
    <2>2. Holders(b, side)' = Holders(b, side) \ T
      BY <2>1 DEF Holders
    <2>3. CASE T = {}
      BY <1>2, <2>2, <2>3
    <2>4. CASE T # {}
      <3>1. PICK t \in Tasks : T = {t} /\ Reserves(t, b, side)
        BY <2>4 DEF ReservesMove
      <3>2. t \in Holders(b, side)
        BY <3>1 DEF Holders
      <3>3. Cardinality(Holders(b, side) \ {t}) = Cardinality(Holders(b, side)) - 1
        BY <1>3, <3>2, FS_RemoveElement
      <3> QED BY <1>2, <2>2, <2>4, <3>1, <3>3
    <2> QED BY <2>3, <2>4
  <1>5. Reserved(b, Other(side))' = IF X = {} THEN Reserved(b, Other(side))
                                    ELSE Reserved(b, Other(side)) + 1
    <2>1. \A u \in Tasks : Reserves(u, b, Other(side)) => u \notin T
      BY <1>1 DEF ReservesMove, Reserves
    <2>2. \A u \in Tasks : Reserves(u, b, Other(side))' <=> Reserves(u, b, Other(side)) \/ u \in X
      BY <2>1 DEF ReservesMove
    <2>3. X \subseteq Tasks
      BY DEF ReservesMove
    <2>4. Holders(b, Other(side))' = Holders(b, Other(side)) \cup X
      BY <2>2, <2>3 DEF Holders
    <2>5. CASE X = {}
      BY <1>2, <2>4, <2>5
    <2>6. CASE X # {}
      <3>1. PICK x \in Tasks : X = {x} /\ \A q, s : ~Reserves(x, q, s)
        BY <2>6 DEF ReservesMove
      <3>2. x \notin Holders(b, Other(side))
        BY <3>1 DEF Holders
      <3>3. Cardinality(Holders(b, Other(side)) \cup {x}) = Cardinality(Holders(b, Other(side))) + 1
        BY <1>3, <3>2, FS_AddElement
      <3> QED BY <1>2, <2>4, <2>6, <3>1, <3>3
    <2> QED BY <2>5, <2>6
  <1>6. ASSUME NEW q \in QueueCBs \ {b}, NEW s PROVE Reserved(q, s)' = Reserved(q, s)
    <2>1. \A u \in Tasks : Reserves(u, q, s) => u \notin T
      BY DEF ReservesMove, Reserves
    <2>2. \A u \in Tasks : Reserves(u, q, s)' <=> Reserves(u, q, s)
      BY <2>1 DEF ReservesMove
    <2>3. Holders(q, s)' = Holders(q, s)
      BY <2>2 DEF Holders
    <2> QED BY <1>2, <2>3
  <1> QED BY <1>4, <1>5, <1>6

(***************************************************************************)
(* The two counters of a block.                                            *)
(***************************************************************************)
Counters == [read : Int, write : Int]

Inc(c, side) == [c EXCEPT ![side] = @ + 1]

Dec(c, side) == [c EXCEPT ![side] = @ - 1]

Moved(c, side, T, X) ==
    LET d == IF T = {} THEN Dec(c, side) ELSE c
    IN  IF X = {} THEN Inc(d, Other(side)) ELSE d

LEMMA SetCounters ==
    ASSUME NEW c \in Counters, NEW side \in Sides
    PROVE  /\ Dec(c, side) \in Counters /\ Inc(c, side) \in Counters
           /\ Dec(c, side)[side] = c[side] - 1 /\ Dec(c, side)[Other(side)] = c[Other(side)]
           /\ Inc(c, side)[side] = c[side] + 1 /\ Inc(c, side)[Other(side)] = c[Other(side)]
           /\ c[side] \in Int
  <1>1. CASE side = "read"
    BY <1>1 DEF Counters, Other, Dec, Inc
  <1>2. CASE side = "write"
    BY <1>2 DEF Counters, Other, Dec, Inc
  <1> QED BY <1>1, <1>2 DEF Sides

LEMMA CountersMove ==
    ASSUME NEW c \in [read : 0 .. QueueLen, write : 0 .. QueueLen], NEW side \in Sides, NEW T, NEW X
    PROVE  /\ Moved(c, side, T, X) \in Counters
           /\ Moved(c, side, T, X)[side] = IF T = {} THEN c[side] - 1 ELSE c[side]
           /\ Moved(c, side, T, X)[Other(side)] = IF X = {} THEN c[Other(side)] + 1
                                                  ELSE c[Other(side)]
           /\ c[side] \in 0 .. QueueLen /\ c[Other(side)] \in 0 .. QueueLen
  <1>1. c \in Counters /\ Other(side) \in Sides /\ Other(Other(side)) = side
    BY SomeSlots DEF Counters, Other, Sides
  <1>2. c[side] \in 0 .. QueueLen /\ c[Other(side)] \in 0 .. QueueLen
    BY DEF Other, Sides
  <1>3. PICK d : d = IF T = {} THEN Dec(c, side) ELSE c
    OBVIOUS
  <1>4. /\ d \in Counters /\ d[side] = IF T = {} THEN c[side] - 1 ELSE c[side]
        /\ d[Other(side)] = c[Other(side)]
    BY <1>1, <1>3, SetCounters
  <1>5. PICK o \in Sides : o = Other(side)
    BY <1>1
  <1>6. /\ Inc(d, o) \in Counters /\ Inc(d, o)[o] = d[o] + 1 /\ Inc(d, o)[Other(o)] = d[Other(o)]
    BY <1>4, SetCounters
  <1>7. Moved(c, side, T, X) = IF X = {} THEN Inc(d, o) ELSE d
    BY <1>3, <1>5 DEF Moved
  <1> QED BY <1>1, <1>2, <1>4, <1>5, <1>6, <1>7

(***************************************************************************)
(* osQueueOperate once it has a message or a slot.                         *)
(***************************************************************************)
LEMMA OperatedInv ==
    ASSUME QueueInv, NEW b \in QueueCBs, b \in queueUsed, NEW way \in Ways, NEW m \in Messages,
           NEW T, NEW X,
           osQueueBufferOperate(b, way, m),
           UNCHANGED <<queueUsed, freeQueues>>,
           WaitInv', OperationOK', fault' \/ LinkedWaits',
           ReservesMove(b, Side(way), T, X),
           T = {} => count[b][Side(way)] > 0,
           X = {} <=> Waiters(b, Other(Side(way))) = <<>>,
           count' = [count EXCEPT ![b] = Moved(count[b], Side(way), T, X)],
           \A q \in QueueCBs, s \in Sides : Waiters(q, s)' # <<>> => Waiters(q, s) # <<>>
    PROVE  QueueInv' /\ Operates(b)
  <1>1. PICK side \in Sides : side = Side(way)
    BY DEF Side, Sides
  <1>2. PICK o \in Sides : o = Other(side)
    BY DEF Other, Sides
  <1>3. PICK c \in [read : 0 .. QueueLen, write : 0 .. QueueLen] : c = count[b]
    BY Facts
  <1>4. PICK e : e = Moved(c, side, T, X)
    OBVIOUS
  <1>5. count' = [count EXCEPT ![b] = e]
    BY <1>1, <1>3, <1>4
  <1>6. /\ e \in Counters
        /\ e[side] = IF T = {} THEN c[side] - 1 ELSE c[side]
        /\ e[o] = IF X = {} THEN c[o] + 1 ELSE c[o]
        /\ c[side] \in 0 .. QueueLen /\ c[o] \in 0 .. QueueLen
    BY <1>2, <1>4, CountersMove
  <1>7. /\ count'[b] = e
        /\ \A q \in QueueCBs \ {b} : count'[q] = count[q]
        /\ DOMAIN count' = QueueCBs /\ count' = [q \in QueueCBs |-> count'[q]]
    BY <1>5, Facts
  <1>8. /\ Reserved(b, side)' = IF T = {} THEN Reserved(b, side) ELSE Reserved(b, side) - 1
        /\ Reserved(b, o)' = IF X = {} THEN Reserved(b, o) ELSE Reserved(b, o) + 1
        /\ \A q \in QueueCBs \ {b} : \A s : Reserved(q, s)' = Reserved(q, s)
    BY <1>1, <1>2, ReservedMove
  <1>9. Reserved(b, side) \in Nat /\ Reserved(b, o) \in Nat /\ (T # {} => Reserved(b, side) > 0)
    <2>1. T # {} => Holders(b, side) # {}
      BY <1>1 DEF ReservesMove, Holders
    <2> QED BY <2>1, HolderFacts
  <1>10. c[side] + Reserved(b, side) + c[o] + Reserved(b, o) = QueueLen
    <2>1. Used(b) + count[b].write + Reserved(b, "write") = QueueLen
      BY DEF QueueInv, SlotsConserved
    <2>2. CASE side = "read"
      BY <1>2, <1>3, <1>6, <1>9, <2>1, <2>2 DEF Used, Other
    <2>3. CASE side = "write"
      BY <1>2, <1>3, <1>6, <1>9, <2>1, <2>3 DEF Used, Other
    <2> QED BY <2>2, <2>3 DEF Sides
  <1>11. PICK x \in Nat, y \in Nat, r \in Nat, z \in Nat :
             x = c[side] /\ y = c[o] /\ r = Reserved(b, side) /\ z = Reserved(b, o)
    BY <1>6, <1>9, SomeSlots
  <1>12. PICK p \in 0 .. 1 : /\ e[side] = x - p /\ Reserved(b, side)' = r - (1 - p)
                             /\ p = 1 => x > 0
                             /\ p = 0 => r > 0
                             /\ p = 0 <=> T # {}
    <2>1. CASE T = {}
      <3>1. x > 0
        BY <1>1, <1>3, <1>11, <2>1
      <3>2. e[side] = x - 1 /\ Reserved(b, side)' = r - (1 - 1)
        BY <1>6, <1>8, <1>11, <2>1
      <3> QED BY <2>1, <3>1, <3>2
    <2>2. CASE T # {}
      <3>1. r > 0
        BY <1>9, <1>11, <2>2
      <3>2. e[side] = x - 0 /\ Reserved(b, side)' = r - (1 - 0)
        BY <1>6, <1>8, <1>11, <2>2
      <3> QED BY <2>2, <3>1, <3>2
    <2> QED BY <2>1, <2>2
  <1>13. PICK w \in 0 .. 1 : e[o] = y + w /\ Reserved(b, o)' = z + (1 - w)
    <2>1. CASE X = {}
      <3>1. e[o] = y + 1 /\ Reserved(b, o)' = z + (1 - 1)
        BY <1>6, <1>8, <1>11, <2>1
      <3> QED BY <3>1
    <2>2. CASE X # {}
      <3>1. e[o] = y + 0 /\ Reserved(b, o)' = z + (1 - 0)
        BY <1>6, <1>8, <1>11, <2>2
      <3> QED BY <3>1
    <2> QED BY <2>1, <2>2
  <1>14. x + r + y + z = QueueLen /\ QueueLen \in Nat
    BY <1>10, <1>11, SomeSlots
  <1>15. /\ x - p \in 0 .. QueueLen /\ y + w \in 0 .. QueueLen
         /\ r - (1 - p) \in Nat /\ z + (1 - w) \in Nat
         /\ (x - p) + (r - (1 - p)) = x + r - 1 /\ (y + w) + (z + (1 - w)) = y + z + 1
         /\ x + r \in 1 .. QueueLen /\ y + z \in 0 .. QueueLen - 1
         /\ (x + r - 1) + (y + w) + (z + (1 - w)) = QueueLen
         /\ (y + z + 1) + (x - p) + (r - (1 - p)) = QueueLen
    BY <1>12, <1>13, <1>14
  <1>16. e \in [read : 0 .. QueueLen, write : 0 .. QueueLen]
    <2>1. e[side] \in 0 .. QueueLen /\ e[o] \in 0 .. QueueLen
      BY <1>12, <1>13, <1>15
    <2>2. e.read \in 0 .. QueueLen /\ e.write \in 0 .. QueueLen
      BY <1>2, <2>1 DEF Other, Sides
    <2> QED BY <1>6, <2>2 DEF Counters
  <1>17. count' \in [QueueCBs -> [read : 0 .. QueueLen, write : 0 .. QueueLen]]
    BY <1>5, <1>16, Facts
  <1>18. /\ Used(b) \in 0 .. QueueLen
         /\ way = "readHead" => Used(b) > 0
         /\ way # "readHead" => Used(b) < QueueLen
         /\ Used(b)' = IF way = "readHead" THEN Used(b) - 1 ELSE Used(b) + 1
         /\ Used(b)' + e.write + Reserved(b, "write")' = QueueLen
    <2>1. CASE way = "readHead"
      <3>1. side = "read" /\ o = "write"
        BY <1>1, <1>2, <2>1 DEF Side, Other
      <3>2. Used(b) = c[side] + Reserved(b, side) /\ Used(b)' = e[side] + Reserved(b, side)'
        BY <1>3, <1>7, <3>1 DEF Used
      <3>3. Used(b) = x + r /\ Used(b)' = x + r - 1
        BY <1>11, <1>12, <1>15, <3>2
      <3>4. e.write = y + w /\ Reserved(b, "write")' = z + (1 - w)
        BY <1>13, <3>1
      <3> QED BY <1>15, <2>1, <3>3, <3>4
    <2>2. CASE way # "readHead"
      <3>1. side = "write" /\ o = "read"
        BY <1>1, <1>2, <2>2 DEF Side, Other
      <3>2. Used(b) = c[o] + Reserved(b, o) /\ Used(b)' = e[o] + Reserved(b, o)'
        BY <1>3, <1>7, <3>1 DEF Used
      <3>3. Used(b) = y + z /\ Used(b)' = y + z + 1
        BY <1>11, <1>13, <1>15, <3>2
      <3>4. e.write = x - p /\ Reserved(b, "write")' = r - (1 - p)
        BY <1>12, <3>1
      <3> QED BY <1>15, <2>2, <3>3, <3>4
    <2> QED BY <2>1, <2>2
  <1>19. PICK n \in 0 .. QueueLen : n = Used(b)
    BY <1>18
  <1>20. PICK k : k = Used(b)'
    OBVIOUS
  <1>21. queueTail[b] = Slot(queueHead[b] + n)
    BY <1>19 DEF QueueInv, SlotsConserved, Slot
  <1>22. /\ slot' \in [QueueCBs -> [0 .. QueueLen - 1 -> Messages]]
         /\ queueHead' \in [QueueCBs -> 0 .. QueueLen - 1]
         /\ queueTail' \in [QueueCBs -> 0 .. QueueLen - 1]
         /\ \A q \in QueueCBs \ {b} : /\ slot'[q] = slot[q] /\ queueHead'[q] = queueHead[q]
                                      /\ queueTail'[q] = queueTail[q]
         /\ queueTail'[b] = Slot(queueHead'[b] + k)
         /\ way = "readHead" =>
                /\ Span(slot[b], queueHead[b], n) # <<>>
                /\ Span(slot'[b], queueHead'[b], k) = Tail(Span(slot[b], queueHead[b], n))
         /\ way = "writeTail" =>
                Span(slot'[b], queueHead'[b], k) = Append(Span(slot[b], queueHead[b], n), m)
         /\ way = "writeHead" =>
                Span(slot'[b], queueHead'[b], k) = <<m>> \o Span(slot[b], queueHead[b], n)
    <2>1. RingsOK
      BY DEF QueueInv
    <2>2. k = IF way = "readHead" THEN n - 1 ELSE n + 1
      BY <1>18, <1>19, <1>20
    <2>3. (way = "readHead" => n > 0) /\ (way # "readHead" => n < QueueLen)
      BY <1>18, <1>19
    <2> QED BY <1>21, <2>1, <2>2, <2>3, RingStep
  <1>23. RingsOK' /\ FreeOK'
    BY <1>17, <1>22 DEF QueueInv, RingsOK, FreeOK
  <1>24. ASSUME NEW q \in QueueCBs \ {b} PROVE Kept(q) /\ Used(q)' = Used(q)
    BY <1>7, <1>8, <1>22, SameContents
  <1>25. SlotsConserved'
    <2>1. ASSUME NEW q \in queueUsed'
          PROVE  /\ Used(q)' + count'[q].write + Reserved(q, "write")' = QueueLen
                 /\ (queueHead'[q] + Used(q)') % QueueLen = queueTail'[q]
                 /\ \A s \in {"read", "write"} : Waiters(q, s)' # <<>> => count'[q][s] = 0
      <3>1. CASE q = b
        <4>1. Waiters(b, side)' # <<>> => e[side] = 0
          <5>1. Waiters(b, side)' # <<>> => c[side] = 0
            BY <1>3 DEF QueueInv, SlotsConserved, Sides
          <5>2. c[side] = 0 => T # {}
            BY <1>1, <1>3, <1>6
          <5> QED BY <1>6, <5>1, <5>2
        <4>2. Waiters(b, o)' # <<>> => e[o] = 0
          <5>1. Waiters(b, o)' # <<>> => c[o] = 0 /\ Waiters(b, o) # <<>>
            BY <1>3 DEF QueueInv, SlotsConserved, Sides
          <5> QED BY <1>1, <1>2, <1>6, <5>1
        <4>3. \A s \in {"read", "write"} : s = side \/ s = o
          BY <1>2 DEF Other, Sides
        <4>4. (queueHead'[b] + Used(b)') % QueueLen = queueTail'[b]
          BY <1>20, <1>22 DEF Slot
        <4> QED BY <1>7, <1>18, <3>1, <4>1, <4>2, <4>3, <4>4
      <3>2. CASE q # b
        <4>1. q \in queueUsed /\ q \in QueueCBs \ {b}
          BY <2>1, <3>2, Facts
        <4> QED BY <1>7, <1>8, <1>22, <1>24, <4>1, ZenonT(60) DEF QueueInv, SlotsConserved, Sides
      <3> QED BY <3>1, <3>2
    <2> QED BY <2>1 DEF SlotsConserved
  <1>26. ReservedQueueExists' /\ WaitersExist'
    <2>1. ReservedQueueExists'
      BY DEF QueueInv, ReservedQueueExists, ReservesMove
    <2> QED BY <2>1 DEF QueueInv, WaitersExist
  <1>27. Operates(b)
    <2>1. Contents(b) = Span(slot[b], queueHead[b], n)
      BY <1>19 DEF Contents, Span, Slot
    <2>2. Contents(b)' = Span(slot'[b], queueHead'[b], k)
      BY <1>20 DEF Contents, Span, Slot
    <2>3. CASE way = "readHead"
      BY <1>22, <1>24, <2>1, <2>2, <2>3 DEF Operates, Takes
    <2>4. CASE way # "readHead"
      <3>1. slot[b] \in [0 .. QueueLen - 1 -> Messages] /\ queueHead[b] \in 0 .. QueueLen - 1
        BY Facts
      <3>2. Len(Span(slot[b], queueHead[b], n)) = n
        BY <3>1, SpanSeq
      <3>3. Len(Contents(b)) < QueueLen
        BY <1>18, <1>19, <2>1, <2>4, <3>2
      <3>4. Contents(b)' = Append(Contents(b), m) \/ Contents(b)' = <<m>> \o Contents(b)
        BY <1>22, <2>1, <2>2, <2>4 DEF Ways
      <3> QED BY <1>24, <3>3, <3>4 DEF Operates, Puts
    <2> QED BY <2>3, <2>4
  <1> QED BY <1>23, <1>25, <1>26, <1>27 DEF QueueInv

(***************************************************************************)
(* osQueueOperate that finds a message, or a slot, and no waiting peer.    *)
(***************************************************************************)
LEMMA QuietOperateInv ==
    ASSUME QueueInv, NEW b \in QueueCBs, b \in queueUsed, NEW way \in Ways, NEW m \in Messages,
           count[b][Side(way)] > 0, Waiters(b, Other(Side(way))) = <<>>,
           Operated(b, way, m, Counted(b, way)), UNCHANGED <<pc, operation>>, UNCHANGED cpuVars
    PROVE  QueueInv' /\ Operates(b)
  <1>1. /\ osQueueBufferOperate(b, way, m)
        /\ count' = [count EXCEPT ![b] = [Counted(b, way) EXCEPT ![Other(Side(way))] = @ + 1]]
        /\ UNCHANGED <<listVars, status, timer, fault, prio, taskLock, tickVars, handle>>
        /\ UNCHANGED <<queueUsed, freeQueues>>
    BY DEF Operated
  <1>2. count' = [count EXCEPT ![b] = Moved(count[b], Side(way), {}, {})]
    BY <1>1 DEF Counted, Moved, Inc, Dec
  <1>3. UNCHANGED <<taskVars, operation>>
    BY <1>1 DEF taskVars, callVars, listVars
  <1>4. /\ WaitInv' /\ OperationOK' /\ (fault' \/ LinkedWaits')
        /\ \A t \in Tasks : \A q, side : Reserves(t, q, side)' <=> Reserves(t, q, side)
        /\ \A q, side : Waiters(q, side)' = Waiters(q, side)
    BY <1>3, QuietCall
  <1>5. ReservesMove(b, Side(way), {}, {})
    BY <1>4 DEF ReservesMove
  <1> QED BY <1>1, <1>2, <1>4, <1>5, OperatedInv

(***************************************************************************)
(* What is known of a task that goes on after its wait.                    *)
(***************************************************************************)
LEMMA GoerReserves ==
    ASSUME QueueInv, NEW t \in Tasks, GoesOn(t)
    PROVE  /\ operation[t].queue \in QueueCBs /\ operation[t].queue \in queueUsed
           /\ operation[t].way \in Ways
           /\ Reserves(t, operation[t].queue, Side(operation[t].way))
           /\ ~Pending(t) /\ ~fault
  <1>1. /\ t = runTask /\ ~pendSV /\ pc[t] = "woken" /\ "TIMEOUT" \notin status[t] /\ ~fault
    BY DEF GoesOn, InTask
  <1>2. ~Pending(t)
    BY <1>1 DEF QueueInv, WaitInv, RunnerOK, Pending
  <1>3. operation[t].queue \in QueueCBs /\ operation[t].way \in Ways
    BY <1>1 DEF QueueInv, OperationOK, Waiting
  <1>4. Reserves(t, operation[t].queue, Side(operation[t].way))
    BY <1>1, <1>2 DEF Reserves, Pending, WaitFlags
  <1>5. Side(operation[t].way) \in {"read", "write"}
    BY DEF Side
  <1> QED BY <1>1, <1>2, <1>3, <1>4, <1>5 DEF QueueInv, ReservedQueueExists

(***************************************************************************)
(* The call that waited goes on, and wakes nobody: its reservation becomes *)
(* a message, or a slot, of the other side.                                *)
(***************************************************************************)
LEMMA ReturningOperateInv ==
    ASSUME QueueInv, NEW t \in Tasks, QueueOperateGoesOn(t),
           NEW b, b = operation[t].queue, NEW way, way = operation[t].way,
           ~Wakes(b, way)
    PROVE  QueueInv' /\ Operates(b)
  <1>1. /\ InTask(t) /\ pc[t] = "woken" /\ "TIMEOUT" \notin status[t]
        /\ Operated(b, way, MessageOf[t], count[b])
        /\ operation' = [operation EXCEPT ![t] = NoOperation]
        /\ pc' = [pc EXCEPT ![t] = "user"]
        /\ UNCHANGED cpuVars
    BY DEF QueueOperateGoesOn, Goto
  <1>2. /\ osQueueBufferOperate(b, way, MessageOf[t])
        /\ count' = [count EXCEPT ![b] = [count[b] EXCEPT ![Other(Side(way))] = @ + 1]]
        /\ UNCHANGED <<listVars, status, timer, fault, prio, taskLock, tickVars, handle>>
        /\ UNCHANGED <<queueUsed, freeQueues>>
        /\ Waiters(b, Other(Side(way))) = <<>>
    BY <1>1 DEF Operated, Wakes
  <1>3. /\ b \in QueueCBs /\ b \in queueUsed /\ way \in Ways
        /\ Reserves(t, b, Side(way)) /\ ~Pending(t) /\ ~fault
    BY <1>1, GoerReserves DEF GoesOn
  <1>4. status' = [status EXCEPT ![t] = @ \ {"TIMEOUT"}]
    <2>1. status[t] \ {"TIMEOUT"} = status[t]
      BY <1>1
    <2> QED BY <1>2, <2>1, Facts
  <1>5. UNCHANGED <<list, bitmap, prio, timer, runTask, newTask, pendSV, taskLock, isr, scanTask,
                    scanStatus, needSched, sliceTask, sliceLeft, handle, fault>>
    BY <1>1, <1>2 DEF listVars, cpuVars, tickVars, scanVars, sliceVars
  <1>6. WaitInv'
    BY <1>1, <1>4, <1>5, ReturnStep DEF QueueInv
  <1>7. /\ pc'[t] = "user" /\ operation'[t] = NoOperation
        /\ \A u \in Tasks \ {t} : pc'[u] = pc[u] /\ operation'[u] = operation[u] /\ status'[u] = status[u]
        /\ operation' \in [Tasks -> [queue : QueueCBs \cup {NoTask}, way : Ways \cup {"none"}]]
    BY <1>1, <1>2, Facts DEF NoOperation
  <1>8. OperationOK'
    BY <1>7 DEF QueueInv, OperationOK, Waiting
  <1>9. LinkedWaits'
    <2>1. ASSUME NEW q \in QueueCBs, NEW s \in Sides, NEW u \in Tasks, Linked(list, ListOf[q][s], u)
          PROVE  /\ operation'[u].queue = q /\ Side(operation'[u].way) = s
                 /\ "PEND_QUEUE" \in status'[u]
      <3>1. /\ operation[u].queue = q /\ Side(operation[u].way) = s
            /\ "PEND_QUEUE" \in status[u]
        BY <1>3, <2>1 DEF QueueInv, LinkedWaits
      <3>2. u # t
        BY <1>3, <3>1 DEF Pending, WaitFlags
      <3> QED BY <1>7, <3>1, <3>2
    <2> QED BY <1>5, <2>1 DEF LinkedWaits, Side
  <1>10. ReservesMove(b, Side(way), {t}, {})
    <2>1. ASSUME NEW u \in Tasks, NEW q, NEW s
          PROVE  Reserves(u, q, s)' <=> Reserves(u, q, s) /\ u # t
      <3>1. CASE u = t
        BY <1>7, <3>1 DEF Reserves
      <3>2. CASE u # t
        BY <1>7, <3>2 DEF Reserves, Side
      <3> QED BY <3>1, <3>2
    <2> QED BY <1>3, <2>1 DEF ReservesMove
  <1>11. count' = [count EXCEPT ![b] = Moved(count[b], Side(way), {t}, {})]
    <2>1. {t} # {}
      OBVIOUS
    <2> QED BY <1>2, <2>1 DEF Moved, Inc
  <1>12. \A q, s : Waiters(q, s)' = Waiters(q, s)
    BY <1>5 DEF Waiters
  <1>13. MessageOf[t] \in Messages /\ {t} # {}
    BY QueueAssumption
  <1> QED BY <1>2, <1>3, <1>6, <1>8, <1>9, <1>10, <1>11, <1>12, <1>13, OperatedInv

(***************************************************************************)
(* The peer that osQueueOperate wakes: what its status and the wait lists  *)
(* are after the step, by a task's call or by an interrupt handler.        *)
(***************************************************************************)
ToSched(t) == pc' = [pc EXCEPT ![t] = "sched"]

LEMMA WokenPeer ==
    ASSUME QueueInv, NEW b \in QueueCBs, NEW o \in Sides, Waiters(b, o) # <<>>,
           osTaskWake(Queues, Head(Waiters(b, o)), "PEND_QUEUE"), ~fault, isr = "none",
           UNCHANGED <<prio, taskLock, tickVars, handle>>,
           \/ LOS_Schedule /\ UNCHANGED pc
           \/ UNCHANGED cpuVars /\ \E t \in Tasks : (Calls(t) \/ GoesOn(t)) /\ ToSched(t)
    PROVE  \E x \in Tasks :
               /\ "PEND_QUEUE" \in status[x] /\ Waiting(pc[x])
               /\ operation[x].queue = b /\ Side(operation[x].way) = o
               /\ WaitInv' /\ Waiting(pc'[x]) /\ status'[x] \cap Marks = {}
               /\ \A u \in Tasks \ {x} : status'[u] = status[u]
               /\ \A g \in PendLists : \A y : Linked(list', g, y) <=> Linked(list, g, y) /\ y # x
  <1> DEFINE x == Head(Waiters(b, o))
             f == "PEND_QUEUE"
  <1>1. x \in Tasks /\ Linked(list, ListOf[b][o], x)
    BY Facts, WaitLists DEF Waiters
  <1>2. /\ operation[x].queue = b /\ Side(operation[x].way) = o
        /\ "PEND_QUEUE" \in status[x] /\ f \in WaitFlags /\ f \in status[x]
    BY <1>1 DEF QueueInv, LinkedWaits, WaitFlags
  <1>3. Waiting(pc[x])
    BY <1>1, <1>2 DEF QueueInv, WaitInv, WaitersOK, Pending
  <1>4. /\ QueuesOK(Queues, status, prio') /\ prio' \in [TCBs -> Prio] /\ prio'[x] = prio[x]
        /\ UNCHANGED <<isr, scanTask, scanStatus, needSched, sliceTask, sliceLeft, handle, taskLock>>
        /\ osTaskWake(Queues, x, f)
        /\ \/ LOS_Schedule /\ UNCHANGED pc
           \/ /\ UNCHANGED <<runTask, newTask, pendSV>>
              /\ \E t \in Tasks : (Calls(t) \/ GoesOn(t)) /\ pc' = [pc EXCEPT ![t] = "sched"]
    BY DEF QueueInv, WaitInv, TaskInv, TaskTypeOK, Healthy, tickVars, scanVars, sliceVars, cpuVars, ToSched
  <1> HIDE DEF x, f
  <1>5. /\ WaitInv'
        /\ \A u \in Tasks \ {x} : status'[u] = status[u]
        /\ status'[x] \cap Marks = {}
        /\ \A g \in PendLists : \A y :
               Linked(list', g, y) <=> Linked(Queues.list, g, y) /\ y # x
        /\ Waiting(pc'[x])
    BY <1>1, <1>2, <1>4, WakeStepInv DEF QueueInv
  <1>6. Queues.list = list
    BY DEF Queues
  <1> QED BY <1>1, <1>2, <1>3, <1>5, <1>6

(***************************************************************************)
(* osQueueOperate that wakes a peer: the message, or the slot, is reserved *)
(* for it.  T is the caller if it goes on after a wait of its own.         *)
(***************************************************************************)
LEMMA WakingOperateInv ==
    ASSUME QueueInv, NEW b \in QueueCBs, b \in queueUsed, NEW way \in Ways, NEW m \in Messages,
           NEW T, NEW cnt, Wakes(b, way), Operated(b, way, m, cnt), ~fault, isr = "none",
           \/ /\ T = {} /\ cnt = Counted(b, way) /\ count[b][Side(way)] > 0 /\ UNCHANGED operation
              /\ \/ LOS_Schedule /\ UNCHANGED pc
                 \/ UNCHANGED cpuVars /\ \E t \in Tasks : Calls(t) /\ ToSched(t)
           \/ \E t \in Tasks : /\ T = {t} /\ cnt = count[b] /\ GoesOn(t) /\ ToSched(t)
                               /\ Reserves(t, b, Side(way))
                               /\ operation' = [operation EXCEPT ![t] = NoOperation]
                               /\ UNCHANGED cpuVars
    PROVE  QueueInv' /\ Operates(b)
  <1>1. PICK o \in Sides : o = Other(Side(way))
    BY DEF Other, Side, Sides
  <1>2. /\ osQueueBufferOperate(b, way, m)
        /\ osTaskWake(Queues, Head(Waiters(b, o)), "PEND_QUEUE")
        /\ count' = [count EXCEPT ![b] = cnt]
        /\ UNCHANGED <<prio, taskLock, tickVars, handle>>
        /\ UNCHANGED <<queueUsed, freeQueues>>
        /\ Waiters(b, o) # <<>>
    BY <1>1 DEF Operated, Wakes
  <1>3. \/ LOS_Schedule /\ UNCHANGED pc
        \/ UNCHANGED cpuVars /\ \E t \in Tasks : (Calls(t) \/ GoesOn(t)) /\ ToSched(t)
    OBVIOUS
  <1>4. PICK x \in Tasks :
            /\ "PEND_QUEUE" \in status[x] /\ Waiting(pc[x])
            /\ operation[x].queue = b /\ Side(operation[x].way) = o
            /\ WaitInv' /\ Waiting(pc'[x]) /\ status'[x] \cap Marks = {}
            /\ \A u \in Tasks \ {x} : status'[u] = status[u]
            /\ \A g \in PendLists : \A y : Linked(list', g, y) <=> Linked(list, g, y) /\ y # x
    BY <1>2, <1>3, WokenPeer
  <1>5. T = {} \/ \E t \in Tasks \ {x} : T = {t} /\ Reserves(t, b, Side(way))
    BY <1>4 DEF Reserves
  <1>6. \A u \in Tasks \ T : /\ operation'[u] = operation[u]
                             /\ Waiting(pc'[u]) <=> Waiting(pc[u])
    <2>1. CASE T = {} /\ UNCHANGED operation /\ UNCHANGED pc
      BY <2>1
    <2>2. CASE T = {} /\ UNCHANGED operation /\ \E t \in Tasks : Calls(t) /\ ToSched(t)
      <3>1. TaskTypeOK
        BY DEF QueueInv, WaitInv, TaskInv
      <3> QED BY <2>2, <3>1, CallerWaits DEF ToSched
    <2>3. CASE \E t \in Tasks : /\ T = {t} /\ ToSched(t)
                                /\ operation' = [operation EXCEPT ![t] = NoOperation]
      BY <2>3, Facts DEF ToSched
    <2> QED BY <2>1, <2>2, <2>3
  <1>7. \A t \in T : operation'[t] = NoOperation /\ ~Waiting(pc'[t])
    BY Facts DEF ToSched, Waiting
  <1>8. OperationOK'
    <2>1. operation' \in [Tasks -> [queue : QueueCBs \cup {NoTask}, way : Ways \cup {"none"}]]
      <3>1. CASE UNCHANGED operation
        BY <3>1, Facts
      <3>2. CASE \E t \in Tasks : operation' = [operation EXCEPT ![t] = NoOperation]
        BY <3>2, Facts DEF NoOperation
      <3> QED BY <3>1, <3>2
    <2> QED BY <1>6, <1>7, <2>1 DEF QueueInv, OperationOK
  <1>9. LinkedWaits'
    <2>1. ASSUME NEW q \in QueueCBs, NEW s \in Sides, NEW u \in Tasks, Linked(list', ListOf[q][s], u)
          PROVE  /\ operation'[u].queue = q /\ Side(operation'[u].way) = s
                 /\ "PEND_QUEUE" \in status'[u]
      <3>1. Linked(list, ListOf[q][s], u) /\ u # x
        BY <1>4, <2>1, Facts
      <3>2. /\ operation[u].queue = q /\ Side(operation[u].way) = s
            /\ "PEND_QUEUE" \in status[u]
        BY <3>1 DEF QueueInv, LinkedWaits
      <3>3. u \notin T
        BY <1>5, <3>2 DEF Reserves
      <3> QED BY <1>4, <1>6, <3>1, <3>2, <3>3
    <2> QED BY <2>1 DEF LinkedWaits, Side
  <1>10. ReservesMove(b, Side(way), T, {x})
    <2>1. ASSUME NEW u \in Tasks, NEW q, NEW s
          PROVE  Reserves(u, q, s)' <=> \/ Reserves(u, q, s) /\ u \notin T
                                        \/ u = x /\ q = b /\ s = o
      <3>1. CASE u = x
        <4>1. x \notin T /\ ~Reserves(x, q, s)
          BY <1>4, <1>5 DEF Reserves
        <4>2. operation'[x] = operation[x] /\ status'[x] \cap {"PEND_QUEUE", "TIMEOUT"} = {}
          BY <1>4, <1>6, <4>1 DEF Marks
        <4>3. Reserves(x, q, s)' <=> q = b /\ s = o
          BY <1>4, <4>2 DEF Reserves, Waiting, Side
        <4> QED BY <3>1, <4>1, <4>3
      <3>2. CASE u # x /\ u \notin T
        BY <1>4, <1>6, <3>2 DEF Reserves, Waiting, Side
      <3>3. CASE u # x /\ u \in T
        BY <1>7, <3>3 DEF Reserves, Waiting
      <3> QED BY <3>1, <3>2, <3>3
    <2>2. \A q, s : ~Reserves(x, q, s)
      BY <1>4 DEF Reserves
    <2> QED BY <1>1, <1>5, <2>1, <2>2 DEF ReservesMove
  <1>11. count' = [count EXCEPT ![b] = Moved(count[b], Side(way), T, {x})]
    <2>1. {x} # {}
      OBVIOUS
    <2>2. cnt = Moved(count[b], Side(way), T, {x})
      <3>1. CASE T = {} /\ cnt = Counted(b, way)
        BY <2>1, <3>1 DEF Moved, Dec, Counted
      <3>2. CASE T # {} /\ cnt = count[b]
        BY <2>1, <3>2 DEF Moved
      <3> QED BY <3>1, <3>2
    <2> QED BY <1>2, <2>2
  <1>12. ASSUME NEW q \in QueueCBs, NEW s \in Sides, Waiters(q, s)' # <<>>
         PROVE  Waiters(q, s) # <<>>
    <2>1. list' \in [ListHeads -> Seq(Tasks)]
      BY <1>4 DEF WaitInv, TaskInv, TaskTypeOK
    <2>2. \A g \in PendLists : \A y : Linked(list', g, y) => Linked(list, g, y)
      BY <1>4
    <2>3. list'[ListOf[q][s]] # <<>> /\ list \in [ListHeads -> Seq(Tasks)]
      BY <1>12, Facts DEF Waiters
    <2>4. list[ListOf[q][s]] # <<>>
      BY <2>1, <2>2, <2>3, NoNewWaiters, ZenonT(60)
    <2> QED BY <2>4 DEF Waiters
  <1>13. /\ T = {} => count[b][Side(way)] > 0
         /\ {x} = {} <=> Waiters(b, Other(Side(way))) = <<>>
    <2>1. {x} # {}
      OBVIOUS
    <2> QED BY <1>1, <1>2, <2>1
  <1> QED BY <1>2, <1>4, <1>8, <1>9, <1>10, <1>11, <1>12, <1>13, OperatedInv

LEMMA GoesOnInv ==
    ASSUME QueueInv, NEW t \in Tasks, QueueOperateGoesOn(t)
    PROVE  QueueInv' /\ \E b \in QueueCBs : Operates(b)
  <1>1. PICK b : b = operation[t].queue
    OBVIOUS
  <1>2. PICK way : way = operation[t].way
    OBVIOUS
  <1>3. /\ GoesOn(t) /\ ~fault /\ isr = "none"
        /\ Operated(b, way, MessageOf[t], count[b])
        /\ operation' = [operation EXCEPT ![t] = NoOperation]
        /\ pc' = [pc EXCEPT ![t] = IF Wakes(b, way) THEN "sched" ELSE "user"]
        /\ UNCHANGED cpuVars
    BY <1>1, <1>2 DEF QueueOperateGoesOn, GoesOn, InTask, Goto
  <1>4. b \in QueueCBs /\ b \in queueUsed /\ way \in Ways /\ Reserves(t, b, Side(way))
    BY <1>1, <1>2, <1>3, GoerReserves
  <1>5. CASE Wakes(b, way)
    <2>1. ToSched(t) /\ MessageOf[t] \in Messages
      BY <1>3, <1>5, QueueAssumption DEF ToSched
    <2>2. \E u \in Tasks : /\ {t} = {u} /\ count[b] = count[b] /\ GoesOn(u) /\ ToSched(u)
                           /\ Reserves(u, b, Side(way))
                           /\ operation' = [operation EXCEPT ![u] = NoOperation]
                           /\ UNCHANGED cpuVars
      BY <1>3, <1>4, <2>1
    <2> QED BY <1>3, <1>4, <1>5, <2>1, <2>2, WakingOperateInv
  <1>6. CASE ~Wakes(b, way)
    BY <1>1, <1>2, <1>4, <1>6, ReturningOperateInv
  <1> QED BY <1>5, <1>6

LEMMA OperateInv ==
    ASSUME QueueInv, NEW t \in Tasks, NEW b \in QueueCBs, NEW way \in Ways,
           osQueueOperate(t, b, way)
    PROVE  QueueInv' /\ Operates(b)
  <1>1. /\ Calls(t) /\ b \in queueUsed /\ count[b][Side(way)] > 0 /\ ~fault /\ isr = "none"
        /\ Operated(b, way, MessageOf[t], Counted(b, way))
        /\ IF Wakes(b, way) THEN ToSched(t) ELSE UNCHANGED pc
        /\ UNCHANGED cpuVars /\ UNCHANGED operation
        /\ MessageOf[t] \in Messages
    BY QueueAssumption DEF osQueueOperate, Goto, ToSched, Calls, InTask
  <1>2. CASE Wakes(b, way)
    BY <1>1, <1>2, WakingOperateInv
  <1>3. CASE ~Wakes(b, way)
    <2>1. Waiters(b, Other(Side(way))) = <<>>
      BY <1>3 DEF Wakes
    <2> QED BY <1>1, <1>3, <2>1, QuietOperateInv
  <1> QED BY <1>2, <1>3

LEMMA IsrOperateInv ==
    ASSUME QueueInv, ~NestedIsr, NEW b \in QueueCBs, NEW way \in Ways, IsrQueueOperate(b, way)
    PROVE  QueueInv' /\ Operates(b)
  <1>1. /\ b \in queueUsed /\ count[b][Side(way)] > 0 /\ ~fault /\ isr = "none"
        /\ Operated(b, way, IsrMessage, Counted(b, way))
        /\ IF Wakes(b, way) THEN LOS_Schedule ELSE UNCHANGED cpuVars
        /\ UNCHANGED pc /\ UNCHANGED operation
        /\ IsrMessage \in Messages
    BY QueueAssumption DEF IsrQueueOperate, InIsr
  <1>2. CASE Wakes(b, way)
    BY <1>1, <1>2, WakingOperateInv
  <1>3. CASE ~Wakes(b, way)
    <2>1. Waiters(b, Other(Side(way))) = <<>>
      BY <1>3 DEF Wakes
    <2> QED BY <1>1, <1>3, <2>1, QuietOperateInv
  <1> QED BY <1>2, <1>3

-----------------------------------------------------------------------------
(***************************************************************************)
(* Together.                                                               *)
(***************************************************************************)
LEMMA QueueInitInv ==
    ASSUME QueueInit
    PROVE  QueueInv /\ \A q \in QueueCBs : Contents(q) = <<>>
  <1>1. TaskInit /\ WaitInv
    BY InitWaits DEF QueueInit
  <1>2. /\ list = InitList /\ pc = [t \in Tasks |-> "user"]
    BY <1>1 DEF TaskInit
  <1>3. /\ count = [q \in QueueCBs |-> [read |-> 0, write |-> QueueLen]]
        /\ slot = [q \in QueueCBs |-> [i \in 0 .. QueueLen - 1 |-> IsrMessage]]
        /\ queueHead = [q \in QueueCBs |-> 0] /\ queueTail = [q \in QueueCBs |-> 0]
        /\ operation = [t \in Tasks |-> NoOperation]
        /\ queueUsed = CreatedQueues /\ CreatedQueues \subseteq QueueCBs
        /\ freeQueues \in SetToSeqs(QueueCBs \ CreatedQueues)
        /\ IsrMessage \in Messages
    BY QueueAssumption DEF QueueInit
  <1>4. RingsOK
    <2>1. 0 \in 0 .. QueueLen - 1 /\ 0 \in 0 .. QueueLen /\ QueueLen \in 0 .. QueueLen
      BY SomeSlots
    <2>2. [read |-> 0, write |-> QueueLen] \in [read : 0 .. QueueLen, write : 0 .. QueueLen]
      BY <2>1
    <2> QED BY <1>3, <2>1, <2>2 DEF RingsOK
  <1>5. FreeOK
    <2> DEFINE S == QueueCBs \ CreatedQueues
    <2>1. IsFiniteSet(S) /\ freeQueues \in SetToSeqs(S)
      BY <1>3, QueueAssumption, FS_Difference
    <2>2. freeQueues \in Seq(S) /\ NoRepeat(freeQueues) /\ \A y : Contains(freeQueues, y) <=> y \in S
      BY <2>1, AnyOrderFacts
    <2>3. \A q \in QueueCBs : q \notin queueUsed <=> q \in S
      BY <1>3
    <2> QED BY <2>2, <2>3 DEF FreeOK
  <1>6. OperationOK
    BY <1>2, <1>3 DEF OperationOK, Waiting, NoOperation
  <1>7. \A q \in QueueCBs, s \in Sides : Waiters(q, s) = <<>>
    <2>1. \A q \in QueueCBs, s \in Sides : ListOf[q][s] \in PendLists
      BY QueueAssumption DEF Sides
    <2> QED BY <1>2, <2>1, TaskAssumption DEF InitList, ListHeads, Waiters
  <1>8. WaitersExist /\ LinkedWaits
    BY <1>7 DEF WaitersExist, Waiters, LinkedWaits, Linked, Contains
  <1>9. \A q, s : Holders(q, s) = {}
    BY <1>2 DEF Holders, Reserves
  <1>10. \A q, s : Reserved(q, s) = 0
    BY <1>9, HolderFacts
  <1>11. \A q \in QueueCBs : Used(q) = 0 /\ count[q].read = 0 /\ count[q].write = QueueLen
    BY <1>3, <1>10 DEF Used
  <1>12. SlotsConserved
    <2>1. 0 + QueueLen + 0 = QueueLen /\ (0 + 0) % QueueLen = 0
      BY SomeSlots
    <2> QED BY <1>3, <1>7, <1>10, <1>11, <2>1 DEF SlotsConserved, Sides
  <1>13. ReservedQueueExists
    BY <1>9 DEF ReservedQueueExists, Holders
  <1>14. ASSUME NEW q \in QueueCBs PROVE Contents(q) = <<>>
    <2>1. Contents(q) = Span(slot[q], queueHead[q], 0)
      BY <1>11 DEF Contents, Span, Slot
    <2>2. /\ slot[q] \in [0 .. QueueLen - 1 -> Messages] /\ queueHead[q] \in 0 .. QueueLen - 1
          /\ 0 \in 0 .. QueueLen
      BY <1>4, SomeSlots DEF RingsOK
    <2>3. /\ Span(slot[q], queueHead[q], 0) \in Seq(Messages)
          /\ Len(Span(slot[q], queueHead[q], 0)) = 0
      BY <2>2, SpanSeq
    <2> QED BY <2>1, <2>3
  <1> QED BY <1>1, <1>4, <1>5, <1>6, <1>8, <1>12, <1>13, <1>14 DEF QueueInv

(***************************************************************************)
(* What a step shows of the abstract queues.                               *)
(***************************************************************************)
Shown ==
    \/ UNCHANGED queueUsed /\ \A q \in QueueCBs : Kept(q)
    \/ \E b \in QueueCBs : Appears(b) \/ Vanishes(b) \/ Operates(b)

LEMMA QueueStep ==
    ASSUME ~NestedIsr, UsersLive
    PROVE  QueueInv /\ [QueueNext]_allVars => QueueInv' /\ Shown
  <1> SUFFICES ASSUME QueueInv, [QueueNext]_allVars PROVE QueueInv' /\ Shown
    OBVIOUS
  <1>1. CASE OtherCall
    BY <1>1, OtherCallInv DEF Shown
  <1>2. CASE UNCHANGED allVars
    BY <1>2, StutterInv DEF Shown
  <1>3. ASSUME NEW t \in QueueCreators, LOS_QueueCreate(t) PROVE QueueInv' /\ Shown
    BY <1>3, CreateInv, QueueAssumption DEF Shown
  <1>4. ASSUME NEW t \in QueueCreators, NEW q \in QueueCBs, LOS_QueueDelete(t, q)
        PROVE  QueueInv' /\ Shown
    BY <1>4, DeleteInv, QueueAssumption DEF Shown
  <1>5. ASSUME NEW t \in Tasks, NEW q \in QueueCBs, NEW way \in Uses(t), osQueueOperate(t, q, way)
        PROVE  QueueInv' /\ Shown
    <2>1. way \in Ways
      BY DEF Uses
    <2> QED BY <1>5, <2>1, OperateInv DEF Shown
  <1>6. ASSUME NEW t \in Tasks, NEW q \in QueueCBs, NEW way \in Uses(t), NEW n \in Timeouts,
               QueueOperateWaits(t, q, way, n)
        PROVE  QueueInv' /\ Shown
    BY <1>6, OperateWaitsInv DEF Shown
  <1>7. ASSUME NEW t \in Tasks, QueueOperateTimesOut(t) PROVE QueueInv' /\ Shown
    BY <1>7, TimesOutInv DEF Shown
  <1>8. ASSUME NEW t \in Tasks, QueueOperateGoesOn(t) PROVE QueueInv' /\ Shown
    BY <1>8, GoesOnInv DEF Shown
  <1>9. ASSUME NEW q \in QueueCBs, NEW way \in IsrWays, IsrQueueOperate(q, way)
        PROVE  QueueInv' /\ Shown
    <2>1. way \in Ways
      BY DEF IsrWays
    <2> QED BY <1>9, <2>1, IsrOperateInv DEF Shown
  <1> QED BY <1>1, <1>2, <1>3, <1>4, <1>5, <1>6, <1>7, <1>8, <1>9 DEF QueueNext, QueueCall

(***************************************************************************)
(* los_queue.c keeps the blocks, the rings, the wait lists and what woken  *)
(* tasks have reserved in agreement, whoever calls it when.                *)
(***************************************************************************)
THEOREM QueueInvariant ==
    ASSUME ~NestedIsr, UsersLive
    PROVE  QueueSpec => []QueueInv
  <1>1. QueueInit => QueueInv
    BY QueueInitInv
  <1>2. QueueInv /\ [QueueNext]_allVars => QueueInv'
    BY QueueStep
  <1> QED BY <1>1, <1>2, PTL DEF QueueSpec

(***************************************************************************)
(* Neither counter of a queue passes the number of its slots or falls below*)
(* zero, and both indices stay on the ring.                                *)
(***************************************************************************)
THEOREM QueueTypes ==
    ASSUME ~NestedIsr, UsersLive
    PROVE  QueueSpec => []QueueTypeOK
  <1>1. QueueInv => QueueTypeOK
    BY QueueInvImplies
  <1> QED BY <1>1, QueueInvariant, PTL

(***************************************************************************)
(* Every slot is readable, writable or reserved for one woken task, the    *)
(* ring's indices agree with that, and no task waits for what is there:    *)
(* usReadWriteableCnt is decremented when a task is woken, not when it     *)
(* runs, and never twice for one message.                                  *)
(***************************************************************************)
THEOREM SlotsAlwaysConserved ==
    ASSUME ~NestedIsr, UsersLive
    PROVE  QueueSpec => []SlotsConserved
  <1>1. QueueInv => SlotsConserved
    BY QueueInvImplies
  <1> QED BY <1>1, QueueInvariant, PTL

(***************************************************************************)
(* LOS_QueueDelete, which tests wait lists and counters, does not delete a *)
(* queue under a task that was woken to use it and has not run yet.        *)
(***************************************************************************)
THEOREM NoQueueDeletedUnderTask ==
    ASSUME ~NestedIsr, UsersLive
    PROVE  QueueSpec => []ReservedQueueExists
  <1>1. QueueInv => ReservedQueueExists
    BY QueueInvImplies
  <1> QED BY <1>1, QueueInvariant, PTL

-----------------------------------------------------------------------------
(***************************************************************************)
(* The refinement, step by step.                                           *)
(***************************************************************************)
Abstract == [q \in QueueCBs |-> Contents(q)]

LEMMA AbstractStep ==
    ASSUME QueueInv, Shown
    PROVE  Deque!DequeNext \/ (Abstract' = Abstract /\ UNCHANGED queueUsed)
  <1> DEFINE C == Abstract
             D == Abstract'
  <1>1. C = [q \in QueueCBs |-> Contents(q)] /\ D = [q \in QueueCBs |-> Contents(q)']
    BY DEF Abstract
  <1>2. Deque!DequeNext <=>
            \E q \in QueueCBs :
                \/ /\ q \in queueUsed
                   /\ \/ C[q] # <<>> /\ D = [C EXCEPT ![q] = Tail(@)]
                      \/ \E m \in Messages :
                             /\ Len(C[q]) < QueueLen
                             /\ \/ D = [C EXCEPT ![q] = Append(@, m)]
                                \/ D = [C EXCEPT ![q] = <<m>> \o @]
                   /\ UNCHANGED queueUsed
                \/ /\ q \notin queueUsed
                   /\ queueUsed' = queueUsed \cup {q}
                   /\ D = [C EXCEPT ![q] = <<>>]
                \/ /\ q \in queueUsed
                   /\ queueUsed' = queueUsed \ {q}
                   /\ D = C
    BY DEF Deque!DequeNext, Deque!Take, Deque!Put, Abstract
  <1> HIDE DEF C, D
  <1>3. CASE UNCHANGED queueUsed /\ \A q \in QueueCBs : Kept(q)
    <2>1. D = C
      BY <1>1, <1>3 DEF Kept
    <2> QED BY <1>3, <2>1 DEF C, D
  <1>4. ASSUME NEW b \in QueueCBs, NEW c, Contents(b)' = c, \A q \in QueueCBs \ {b} : Kept(q)
        PROVE  D = [C EXCEPT ![b] = c] /\ C[b] = Contents(b)
    BY <1>1, <1>4 DEF Kept
  <1>5. ASSUME NEW b \in QueueCBs, Appears(b) PROVE Deque!DequeNext
    <2>1. D = [C EXCEPT ![b] = <<>>]
      BY <1>4, <1>5 DEF Appears
    <2> QED BY <1>2, <1>5, <2>1 DEF Appears
  <1>6. ASSUME NEW b \in QueueCBs, Vanishes(b) PROVE Deque!DequeNext
    <2>1. D = C
      BY <1>1, <1>6 DEF Vanishes, Kept
    <2> QED BY <1>2, <1>6, <2>1 DEF Vanishes
  <1>7. ASSUME NEW b \in QueueCBs, Operates(b) PROVE Deque!DequeNext
    <2>1. b \in queueUsed /\ UNCHANGED queueUsed /\ \A q \in QueueCBs \ {b} : Kept(q)
      BY <1>7 DEF Operates
    <2>2. CASE Takes(b)
      <3>1. D = [C EXCEPT ![b] = Tail(@)] /\ C[b] # <<>>
        BY <1>4, <2>1, <2>2 DEF Takes
      <3> QED BY <1>2, <2>1, <3>1
    <2>3. ASSUME NEW m \in Messages, Puts(b, m) PROVE Deque!DequeNext
      <3>1. C[b] = Contents(b) /\ Len(C[b]) < QueueLen
        BY <1>4, <2>1, <2>3 DEF Puts
      <3>2. D = [C EXCEPT ![b] = Append(@, m)] \/ D = [C EXCEPT ![b] = <<m>> \o @]
        BY <1>4, <2>1, <2>3, <3>1 DEF Puts
      <3> QED BY <1>2, <2>1, <3>1, <3>2
    <2> QED BY <1>7, <2>2, <2>3 DEF Operates
  <1> QED BY <1>3, <1>5, <1>6, <1>7 DEF Shown

(***************************************************************************)
(* A queue is a bounded double-ended queue: each step that puts a message  *)
(* in or takes one out does so at an end and loses, duplicates and         *)
(* overwrites none, and every other step leaves what it holds alone.       *)
(***************************************************************************)
THEOREM QueuesAreBoundedDeques ==
    ASSUME ~NestedIsr, UsersLive
    PROVE  QueueSpec => ImplementsBoundedDeque
  <1>1. QueueInit => Deque!DequeInit
    <2>1. QueueInit => queueUsed \subseteq QueueCBs
      BY QueueAssumption DEF QueueInit
    <2> QED BY <2>1, QueueInitInv DEF Deque!DequeInit
  <1>2. QueueInv /\ [QueueNext]_allVars => [Deque!DequeNext]_<<Abstract, queueUsed>>
    BY QueueStep, AbstractStep
  <1> QED BY <1>1, <1>2, QueueInvariant, PTL DEF QueueSpec, ImplementsBoundedDeque, Deque!DequeSpec, Abstract

=============================================================================
