---------------------------- MODULE LosMuxProofs ----------------------------
(***************************************************************************)
(* Proofs about mutexes: what the control block says of its owner is what  *)
(* the tasks were told, for any number of tasks and mutexes, if no task    *)
(* that uses mutexes is deleted (los_mux.c does nothing about such a task);*)
(* and a boost ends with the mutex, for tasks that hold one at a time.     *)
(***************************************************************************)
EXTENDS LosMux, LosTaskProofs, FiniteSetTheorems

UsersLive == (DeleteIDs \cup IsrDeleteIDs) \cap MuxUsers = {}

BlocksOK ==
    /\ muxUsed \subseteq Muxes
    /\ muxCount \in [Muxes -> 0 .. MaxDepth]
    /\ muxOwner \in [Muxes -> Tasks \cup {NoTask}]
    /\ muxPrio \in [Muxes -> Prio]
    /\ basePrio \in [TCBs -> Prio]
    /\ granted \in [Muxes -> [Tasks -> 0 .. MaxDepth]]
    /\ \A m \in Muxes : muxCount[m] > 0 => m \in muxUsed /\ muxOwner[m] \in MuxUsers

(***************************************************************************)
(* The free blocks: none twice, and those that are not in use.             *)
(***************************************************************************)
UnusedOK ==
    /\ unusedMux \in Seq(Muxes)
    /\ NoRepeat(unusedMux)
    /\ \A m \in Muxes : Contains(unusedMux, m) <=> m \notin muxUsed

WantedOK ==
    /\ wanted \in [Tasks -> Muxes \cup {NoTask}]
    /\ \A t \in Tasks : Waiting(pc[t]) => t \in MuxUsers /\ wanted[t] \in Muxes

(***************************************************************************)
(* The control block and what the callers of LOS_MuxPend were told.        *)
(***************************************************************************)
OwnersKnow ==
    \A m \in Muxes : \A t \in Tasks :
        granted[m][t] > 0 \/ Arriving(t, m) => muxCount[m] > 0 /\ muxOwner[m] = t

DepthsMatch ==
    \A m \in Muxes : muxCount[m] > 0 =>
        muxCount[m] = granted[m][muxOwner[m]] + (IF Arriving(muxOwner[m], m) THEN 1 ELSE 0)

WaitersHaveOwner == \A m \in Muxes : Waiters(m) # <<>> => muxCount[m] > 0

(***************************************************************************)
(* Who is in the wait list of a mutex waits for that one.                  *)
(***************************************************************************)
LinkedWaits ==
    \A m \in Muxes, t \in Tasks :
        Linked(list, WaitersOf[m], t) => wanted[t] = m /\ "PEND" \in status[t]

MuxInv ==
    /\ WaitInv
    /\ BlocksOK
    /\ UnusedOK
    /\ WantedOK
    /\ OwnersKnow
    /\ DepthsMatch
    /\ WaitersHaveOwner
    /\ fault \/ LinkedWaits

-----------------------------------------------------------------------------
(***************************************************************************)
(* The runs' invariants from the inductive one.                            *)
(***************************************************************************)
LEMMA MuxInvImplies ==
    ASSUME MuxInv
    PROVE  MuxTypeOK /\ GrantedToOwner
  <1>1. IsInjective(unusedMux) /\ ToSet(unusedMux) = Muxes \ muxUsed
    BY FreeListFacts DEF MuxInv, UnusedOK
  <1> QED BY <1>1 DEF MuxInv, WaitInv, TaskInv, MuxTypeOK, BlocksOK, UnusedOK, WantedOK,
                      GrantedToOwner, OwnersKnow, DepthsMatch, WaitersHaveOwner

(***************************************************************************)
(* A wait list with a first task, and one with none.                       *)
(***************************************************************************)
LEMMA WaitLists ==
    ASSUME NEW l \in [ListHeads -> Seq(Tasks)], NEW m \in Muxes
    PROVE  /\ l[WaitersOf[m]] # <<>> <=> \E y \in Tasks : Linked(l, WaitersOf[m], y)
           /\ l[WaitersOf[m]] # <<>> =>
                  /\ Head(l[WaitersOf[m]]) \in Tasks
                  /\ Linked(l, WaitersOf[m], Head(l[WaitersOf[m]]))
  <1> DEFINE h == WaitersOf[m]
  <1>1. h \in PendLists /\ h \in ListHeads
    BY MuxAssumption DEF ListHeads
  <1> HIDE DEF h
  <1>2. l[h] = <<>> <=> \A y \in Tasks : ~Linked(l, h, y)
    BY <1>1, EmptyLinksNone
  <1>3. l[h] # <<>> => l[h][1] \in Tasks /\ Linked(l, h, l[h][1])
    BY <1>1, EmptyLinksNone
  <1>4. Head(l[h]) = l[h][1]
    OBVIOUS
  <1> QED BY <1>2, <1>3, <1>4 DEF h

-----------------------------------------------------------------------------
(***************************************************************************)
(* osTaskPriModify: the queues agree with the new priority, and no wait    *)
(* list changes.                                                           *)
(***************************************************************************)
LEMMA ModifiedQueues ==
    ASSUME Good, NEW x \in Tasks, NEW p \in Prio
    PROVE  /\ QueuesOK(osTaskPriModify(Queues, x, p), status, [prio EXCEPT ![x] = p])
           /\ \A g \in PendLists : \A y :
                  Linked(osTaskPriModify(Queues, x, p).list, g, y) <=> Linked(list, g, y)
  <1> DEFINE pr == [prio EXCEPT ![x] = p]
             d  == osPriqueueDequeue(Queues, x, prio[x])
  <1>1. /\ QueuesOK(Queues, status, prio) /\ prio \in [TCBs -> Prio]
        /\ x \in TCBs /\ list \in [ListHeads -> Seq(Tasks)] /\ LinkedOnce(list)
        /\ InPlace(list, x, status[x], prio[x])
    BY DEF Good, Healthy, TaskTypeOK, TCBs, QueuesOK, WellFormed, Queues
  <1>2. pr[x] = p /\ \A u \in Tasks \ {x} : pr[u] = prio[u]
    BY <1>1 DEF TCBs
  <1> HIDE DEF pr
  <1>3. CASE Ready(x)
    <2>1. Floating(d, x, status, prio)
      BY <1>1, <1>3, DequeueFloats DEF Ready
    <2>2. d.list = LOS_ListDelete(list, x)
      BY DEF osPriqueueDequeue, Queues
    <2>3. /\ LOS_ListDelete(list, x) \in [ListHeads -> Seq(Tasks)]
          /\ \A h \in ListHeads : \A y :
                 Linked(LOS_ListDelete(list, x), h, y) <=> Linked(list, h, y) /\ y # x
      BY <1>1, ListDeleteFacts
    <2>4. osTaskPriModify(Queues, x, p) = osPriqueueEnqueue(d, x, p)
      BY <1>3 DEF osTaskPriModify
    <2> HIDE DEF d
    <2>5. "READY" \in status[x] /\ status[x] \cap {"PEND", "PEND_QUEUE", "UNUSED"} = {}
      BY <1>3 DEF Good, Healthy, ShapeOK, Ready, BlockFlags
    <2>6. QueuesOK(osPriqueueEnqueue(d, x, p), status, pr)
      BY <1>2, <2>1, <2>5, EnqueuePlaces
    <2>7. \A g \in PendLists : ~Linked(list, g, x)
      BY <1>1, <2>5 DEF InPlace, WaitFlags
    <2>8. osPriqueueEnqueue(d, x, p).list = LOS_ListTailInsert(LOS_ListDelete(list, x), p, x)
      BY <2>2 DEF osPriqueueEnqueue
    <2>9. \A g \in PendLists : \A y :
              Linked(osPriqueueEnqueue(d, x, p).list, g, y) <=> Linked(list, g, y)
      <3> DEFINE l == LOS_ListDelete(list, x)
      <3>1. l \in [ListHeads -> Seq(Tasks)] /\ p \in ListHeads \ PendLists
        BY <2>3, OtherHeads
      <3>2. \A g \in PendLists : \A y : Linked(l, g, y) <=> Linked(list, g, y)
        BY <2>3, <2>7 DEF ListHeads
      <3> HIDE DEF l
      <3>3. \A g \in PendLists : LOS_ListTailInsert(l, p, x)[g] = l[g]
        BY <3>1, ElsewhereSame
      <3>4. osPriqueueEnqueue(d, x, p).list = LOS_ListTailInsert(l, p, x)
        BY <2>8 DEF l
      <3> QED BY <3>2, <3>3, <3>4 DEF Linked
    <2> QED BY <2>4, <2>6, <2>9 DEF pr
  <1>4. CASE ~Ready(x)
    <2>1. osTaskPriModify(Queues, x, p) = Queues
      BY <1>4 DEF osTaskPriModify
    <2>2. QueuesOK(Queues, status, pr)
      BY <1>1, <1>2, <1>4, OtherFlagsChange DEF Ready
    <2> QED BY <2>1, <2>2 DEF pr, Queues
  <1> QED BY <1>3, <1>4

(***************************************************************************)
(* The priority of a task changes and nothing else of the scheduler's: no  *)
(* switch is looked for.                                                   *)
(***************************************************************************)
LEMMA ModifiedStep ==
    ASSUME WaitInv, ~fault, NEW x \in Tasks, NEW p \in Prio,
           Become(osTaskPriModify(Queues, x, p)), prio' = [prio EXCEPT ![x] = p],
           UNCHANGED <<status, timer, runTask, newTask, pendSV, taskLock, isr, scanTask, scanStatus,
                       needSched, sliceTask, sliceLeft, handle, fault, pc>>
    PROVE  /\ WaitInv'
           /\ \A g \in PendLists : \A y : Linked(list', g, y) <=> Linked(list, g, y)
  <1>1. Good /\ RunnerOK /\ WaitersOK
    BY DEF WaitInv, TaskInv, Good
  <1> DEFINE q == osTaskPriModify(Queues, x, p)
  <1>2. /\ QueuesOK(q, status, prio')
        /\ \A g \in PendLists : \A y : Linked(q.list, g, y) <=> Linked(list, g, y)
    BY <1>1, ModifiedQueues
  <1>3. list' = q.list /\ bitmap' = q.bitmap
    BY DEF Become
  <1> HIDE DEF q
  <1>4. Queues' = q
    BY <1>2, <1>3 DEF QueuesOK, WellFormed, Queues
  <1>5. QueuesOK(Queues, status, prio)'
    BY <1>2, <1>4
  <1>6. prio' \in [TCBs -> Prio]
    BY <1>1 DEF Good, TaskTypeOK
  <1>7. TaskTypeOK'
    BY <1>1, <1>5, <1>6, ListTypes DEF Good, TaskTypeOK, TimersTypeOK
  <1>8. ShapeOK' /\ HandlesOK' /\ ScanOK' /\ SliceOK' /\ TimerMatchesStatus' /\ Ready(Idle)'
    BY <1>1 DEF Good, Healthy, ShapeOK, HandlesOK, ScanOK, NoneDue, Due, SliceOK,
                TimerMatchesStatus, Armed, Ready
  <1>9. RunnerOK' /\ WaitersOK'
    BY <1>1 DEF RunnerOK, WaitersOK, Pending
  <1> QED BY <1>2, <1>3, <1>5, <1>7, <1>8, <1>9 DEF WaitInv, TaskInv, Healthy

(***************************************************************************)
(* A step of the scheduler leaves every hand-over as it is.                *)
(***************************************************************************)
LEMMA ArrivalsStay ==
    ASSUME MuxInv, UsersLive, TaskNext, WaitsEnd, UNCHANGED wanted, NEW t \in Tasks, NEW m
    PROVE  /\ Arriving(t, m)' <=> Arriving(t, m)
           /\ Waiting(pc'[t]) <=> Waiting(pc[t])
  <1>1. /\ Arriving(t, m)' <=> /\ Waiting(pc'[t]) /\ wanted[t] = m
                               /\ status'[t] \cap {"PEND", "TIMEOUT"} = {}
        /\ Arriving(t, m) <=> /\ Waiting(pc[t]) /\ wanted[t] = m
                              /\ status[t] \cap {"PEND", "TIMEOUT"} = {}
    BY DEF Arriving, Waiting
  <1>2. CASE Waiting(pc[t])
    <2>1. Waiting(pc'[t])
      <3>1. t \in MuxUsers /\ TaskTypeOK
        BY <1>2 DEF MuxInv, WantedOK, WaitInv, TaskInv
      <3> QED BY <1>2, <3>1, WaitersStay DEF UsersLive
    <2>2. Unaffected(t) \/ TimesOut(t)
      BY <2>1 DEF WaitsEnd, Dies, Born
    <2> QED BY <1>1, <1>2, <2>1, <2>2 DEF Unaffected, TimesOut, Marks
  <1>3. CASE ~Waiting(pc[t])
    <2>1. ~Waiting(pc'[t])
      BY <1>3 DEF WaitsEnd, Unaffected, TimesOut, Dies, Born
    <2> QED BY <1>1, <1>3, <2>1
  <1> QED BY <1>2, <1>3

LEMMA OtherCallInv ==
    ASSUME MuxInv, UsersLive, ~NestedIsr, OtherCall
    PROVE  MuxInv'
  <1>1. /\ TaskNext
        /\ basePrio' = [t \in TCBs |-> IF prio'[t] # prio[t] THEN prio'[t] ELSE basePrio[t]]
        /\ UNCHANGED <<muxUsed, muxCount, muxOwner, muxPrio, unusedMux, wanted, granted>>
    BY DEF OtherCall
  <1>2. WaitInv' /\ WaitsEnd /\ ~fault
    BY <1>1, WaitStep, FaultedStops DEF MuxInv
  <1>3. list \in [ListHeads -> Seq(Tasks)] /\ list' \in [ListHeads -> Seq(Tasks)]
    BY <1>2 DEF MuxInv, WaitInv, TaskInv, TaskTypeOK
  <1>4. \A m \in Muxes : WaitersOf[m] \in PendLists
    BY MuxAssumption
  <1>5. \A t \in Tasks : \A m : /\ Arriving(t, m)' <=> Arriving(t, m)
                                /\ Waiting(pc'[t]) <=> Waiting(pc[t])
    BY <1>1, <1>2, ArrivalsStay
  <1>6. BlocksOK' /\ UnusedOK'
    <2>1. prio' \in [TCBs -> Prio] /\ basePrio \in [TCBs -> Prio]
      BY <1>2 DEF MuxInv, BlocksOK, WaitInv, TaskInv, TaskTypeOK
    <2>2. basePrio' \in [TCBs -> Prio]
      BY <1>1, <2>1
    <2> QED BY <1>1, <2>2 DEF MuxInv, BlocksOK, UnusedOK
  <1>7. WantedOK'
    BY <1>1, <1>5 DEF MuxInv, WantedOK
  <1>8. OwnersKnow'
    BY <1>1, <1>5 DEF MuxInv, OwnersKnow
  <1>9. DepthsMatch'
    <2>1. \A m \in Muxes : muxCount[m] > 0 => muxOwner[m] \in Tasks
      BY MuxAssumption DEF MuxInv, BlocksOK
    <2>2. \A m \in Muxes : muxCount[m] > 0 =>
              (Arriving(muxOwner[m], m)' <=> Arriving(muxOwner[m], m))
      BY <1>1, <1>5, <2>1 DEF Arriving
    <2> QED BY <1>1, <2>2 DEF MuxInv, DepthsMatch
  <1>10. WaitersHaveOwner'
    <2>1. ASSUME NEW m \in Muxes, Waiters(m)' # <<>> PROVE Waiters(m) # <<>>
      <3>1. PICK y \in Tasks : Linked(list', WaitersOf[m], y)
        BY <1>3, <2>1, WaitLists DEF Waiters
      <3>2. Linked(list, WaitersOf[m], y)
        BY <1>2, <1>4, <3>1 DEF WaitsEnd, Shrinks
      <3> QED BY <1>3, <3>2, WaitLists DEF Waiters
    <2> QED BY <1>1, <2>1 DEF MuxInv, WaitersHaveOwner
  <1>11. fault' \/ LinkedWaits'
    <2>1. ASSUME ~fault', NEW m \in Muxes, NEW t \in Tasks, Linked(list', WaitersOf[m], t)
          PROVE  wanted'[t] = m /\ "PEND" \in status'[t]
      <3>1. wanted[t] = m /\ "PEND" \in status[t]
        BY <1>2, <1>4, <2>1 DEF WaitsEnd, Shrinks, MuxInv, LinkedWaits
      <3>2. Pending(t)'
        BY <1>2, <1>4, <2>1 DEF WaitInv, TaskInv, Healthy, QueuesOK, InPlace, Queues, Pending
      <3>3. Unaffected(t)
        BY <1>2, <3>2 DEF WaitsEnd, TimesOut, Dies, Born, Pending, WaitFlags
      <3> QED BY <1>1, <3>1, <3>3 DEF Unaffected, Marks
    <2> QED BY <2>1 DEF LinkedWaits
  <1> QED BY <1>2, <1>6, <1>7, <1>8, <1>9, <1>10, <1>11 DEF MuxInv

-----------------------------------------------------------------------------
(***************************************************************************)
(* Calls that leave the scheduler alone change only the control blocks.    *)
(***************************************************************************)
LEMMA QuietCall ==
    ASSUME MuxInv, UNCHANGED <<taskVars, wanted>>, BlocksOK', UnusedOK',
           \A m \in Muxes : \A u \in Tasks :
               granted'[m][u] > 0 \/ Arriving(u, m) => muxCount'[m] > 0 /\ muxOwner'[m] = u,
           \A m \in Muxes : muxCount'[m] > 0 =>
               muxCount'[m] = granted'[m][muxOwner'[m]]
                              + (IF Arriving(muxOwner'[m], m) THEN 1 ELSE 0),
           \A m \in Muxes : Waiters(m) # <<>> => muxCount'[m] > 0
    PROVE  MuxInv'
  <1>1. UNCHANGED <<list, status, pc, fault, wanted>>
    BY DEF taskVars, listVars, callVars
  <1>2. WaitInv'
    BY WaitStutter DEF MuxInv
  <1>3. WantedOK' /\ (fault' \/ LinkedWaits') /\ WaitersHaveOwner'
    BY <1>1 DEF MuxInv, WantedOK, LinkedWaits, WaitersHaveOwner, Waiters
  <1>4. OwnersKnow'
    BY <1>1 DEF OwnersKnow, Arriving
  <1>5. DepthsMatch'
    BY <1>1 DEF DepthsMatch, Arriving
  <1> QED BY <1>2, <1>3, <1>4, <1>5 DEF MuxInv

LEMMA Facts ==
    ASSUME MuxInv
    PROVE  /\ muxUsed \subseteq Muxes
           /\ muxCount \in [Muxes -> 0 .. MaxDepth] /\ MaxDepth \in Nat
           /\ muxOwner \in [Muxes -> Tasks \cup {NoTask}]
           /\ muxPrio \in [Muxes -> Prio]
           /\ basePrio \in [TCBs -> Prio] /\ prio \in [TCBs -> Prio]
           /\ granted \in [Muxes -> [Tasks -> 0 .. MaxDepth]]
           /\ pc \in [Tasks -> {"user", "sched", "create", "wait", "woken"}]
           /\ status \in [TCBs -> SUBSET Flags]
           /\ list \in [ListHeads -> Seq(Tasks)]
           /\ wanted \in [Tasks -> Muxes \cup {NoTask}]
           /\ MuxUsers \subseteq Tasks /\ Tasks \subseteq TCBs
           /\ \A m \in Muxes : /\ WaitersOf[m] \in PendLists
                               /\ muxCount[m] > 0 => muxOwner[m] \in MuxUsers /\ m \in muxUsed
  BY MuxAssumption DEF MuxInv, BlocksOK, WantedOK, WaitInv, TaskInv, TaskTypeOK, TCBs

(***************************************************************************)
(* A mutex that is not counted is granted to nobody.                       *)
(***************************************************************************)
LEMMA FreeMux ==
    ASSUME MuxInv, NEW m \in Muxes, ~(muxCount[m] > 0)
    PROVE  /\ \A u \in Tasks : granted[m][u] = 0 /\ ~Arriving(u, m)
           /\ Waiters(m) = <<>>
           /\ muxCount[m] = 0
  <1>1. \A u \in Tasks : granted[m][u] \in 0 .. MaxDepth /\ ~(granted[m][u] > 0) /\ ~Arriving(u, m)
    BY Facts DEF MuxInv, OwnersKnow
  <1>2. Waiters(m) = <<>>
    BY DEF MuxInv, WaitersHaveOwner
  <1> QED BY <1>1, <1>2, Facts

LEMMA CreateInv ==
    ASSUME MuxInv, NEW t \in Tasks, LOS_MuxCreate(t)
    PROVE  MuxInv'
  <1> DEFINE b == Head(unusedMux)
  <1>1. /\ unusedMux \in Seq(Muxes) /\ unusedMux # <<>> /\ NoRepeat(unusedMux)
        /\ muxUsed' = muxUsed \cup {b}
        /\ muxCount' = [muxCount EXCEPT ![b] = 0]
        /\ muxPrio' = [muxPrio EXCEPT ![b] = 0]
        /\ muxOwner' = [muxOwner EXCEPT ![b] = NoTask]
        /\ unusedMux' = Tail(unusedMux)
        /\ UNCHANGED <<taskVars, wanted, granted, basePrio>>
    BY DEF LOS_MuxCreate, MuxInv, UnusedOK
  <1>2. /\ b \in Muxes /\ Contains(unusedMux, b)
        /\ Tail(unusedMux) \in Seq(Muxes) /\ NoRepeat(Tail(unusedMux))
        /\ \A y : Contains(Tail(unusedMux), y) <=> Contains(unusedMux, y) /\ y # b
    BY <1>1, PopFacts
  <1> HIDE DEF b
  <1>3. b \notin muxUsed
    BY <1>2 DEF MuxInv, UnusedOK
  <1>4. ~(muxCount[b] > 0)
    BY <1>2, <1>3, Facts
  <1>5. 0 \in Prio
    BY TaskAssumption DEF Prio
  <1>6. /\ muxCount'[b] = 0 /\ muxCount' \in [Muxes -> 0 .. MaxDepth]
        /\ muxPrio' \in [Muxes -> Prio]
        /\ muxOwner' \in [Muxes -> Tasks \cup {NoTask}]
        /\ \A m \in Muxes \ {b} : muxCount'[m] = muxCount[m] /\ muxOwner'[m] = muxOwner[m]
    BY <1>1, <1>2, <1>5, Facts
  <1>7. BlocksOK'
    <2>1. \A m \in Muxes : muxCount'[m] > 0 => m \in muxUsed' /\ muxOwner'[m] \in MuxUsers
      BY <1>1, <1>6, Facts
    <2> QED BY <1>1, <1>2, <1>6, <2>1, Facts DEF BlocksOK
  <1>8. UnusedOK'
    BY <1>1, <1>2 DEF MuxInv, UnusedOK
  <1>9. \A m \in Muxes : \A u \in Tasks :
            granted'[m][u] > 0 \/ Arriving(u, m) => muxCount'[m] > 0 /\ muxOwner'[m] = u
    BY <1>1, <1>2, <1>4, <1>6, FreeMux DEF MuxInv, OwnersKnow
  <1>10. \A m \in Muxes : muxCount'[m] > 0 =>
            muxCount'[m] = granted'[m][muxOwner'[m]]
                           + (IF Arriving(muxOwner'[m], m) THEN 1 ELSE 0)
    BY <1>1, <1>6 DEF MuxInv, DepthsMatch
  <1>11. \A m \in Muxes : Waiters(m) # <<>> => muxCount'[m] > 0
    BY <1>2, <1>4, <1>6, FreeMux DEF MuxInv, WaitersHaveOwner
  <1>12. UNCHANGED <<taskVars, wanted>>
    BY <1>1
  <1> QED BY <1>7, <1>8, <1>9, <1>10, <1>11, <1>12, QuietCall

LEMMA DeleteInv ==
    ASSUME MuxInv, NEW t \in Tasks, NEW b \in Muxes, LOS_MuxDelete(t, b)
    PROVE  MuxInv'
  <1>1. /\ b \in muxUsed /\ muxCount[b] = 0
        /\ muxUsed' = muxUsed \ {b}
        /\ unusedMux' = <<b>> \o unusedMux
        /\ UNCHANGED <<taskVars, muxCount, muxOwner, muxPrio, wanted, granted, basePrio>>
        /\ unusedMux \in Seq(Muxes) /\ NoRepeat(unusedMux) /\ ~Contains(unusedMux, b)
    BY DEF LOS_MuxDelete, MuxInv, UnusedOK
  <1>2. /\ <<b>> \o unusedMux \in Seq(Muxes) /\ NoRepeat(<<b>> \o unusedMux)
        /\ \A y : Contains(<<b>> \o unusedMux, y) <=> Contains(unusedMux, y) \/ y = b
    BY <1>1, PushFacts
  <1>3. BlocksOK'
    <2>1. \A m \in Muxes : muxCount[m] > 0 => m # b
      BY <1>1
    <2> QED BY <1>1, <2>1 DEF MuxInv, BlocksOK
  <1>4. UnusedOK'
    BY <1>1, <1>2 DEF MuxInv, UnusedOK
  <1>5. \A m \in Muxes : \A u \in Tasks :
            granted'[m][u] > 0 \/ Arriving(u, m) => muxCount'[m] > 0 /\ muxOwner'[m] = u
    BY <1>1 DEF MuxInv, OwnersKnow
  <1>6. \A m \in Muxes : muxCount'[m] > 0 =>
            muxCount'[m] = granted'[m][muxOwner'[m]]
                           + (IF Arriving(muxOwner'[m], m) THEN 1 ELSE 0)
    BY <1>1 DEF MuxInv, DepthsMatch
  <1>7. \A m \in Muxes : Waiters(m) # <<>> => muxCount'[m] > 0
    BY <1>1 DEF MuxInv, WaitersHaveOwner
  <1>8. UNCHANGED <<taskVars, wanted>>
    BY <1>1
  <1> QED BY <1>3, <1>4, <1>5, <1>6, <1>7, <1>8, QuietCall

(***************************************************************************)
(* A task in user code is on its way out of no LOS_MuxPend.                *)
(***************************************************************************)
LEMMA CallerFree ==
    ASSUME MuxInv, NEW t \in Tasks, Calls(t), NEW m \in Muxes
    PROVE  /\ ~Arriving(t, m)
           /\ muxCount[m] > 0 /\ muxOwner[m] = t => muxCount[m] = granted[m][t]
           /\ ~(muxCount[m] > 0 /\ muxOwner[m] = t) => granted[m][t] = 0
  <1>1. ~Arriving(t, m)
    BY DEF Calls, Arriving
  <1>2. muxCount[m] > 0 /\ muxOwner[m] = t => muxCount[m] = granted[m][t]
    BY <1>1, Facts DEF MuxInv, DepthsMatch
  <1>3. granted[m][t] \in Nat
    BY Facts
  <1>4. granted[m][t] > 0 => muxCount[m] > 0 /\ muxOwner[m] = t
    BY DEF MuxInv, OwnersKnow
  <1> QED BY <1>1, <1>2, <1>3, <1>4

LEMMA PendInv ==
    ASSUME MuxInv, NEW t \in MuxUsers, NEW b \in Muxes, LOS_MuxPend(t, b)
    PROVE  MuxInv'
  <1>1. /\ Calls(t) /\ b \in muxUsed /\ muxCount[b] < MaxDepth
        /\ \/ /\ muxCount[b] = 0
              /\ muxOwner' = [muxOwner EXCEPT ![b] = t]
              /\ muxPrio' = [muxPrio EXCEPT ![b] = prio[t]]
           \/ /\ muxCount[b] > 0 /\ muxOwner[b] = t
              /\ UNCHANGED <<muxOwner, muxPrio>>
        /\ muxCount' = [muxCount EXCEPT ![b] = @ + 1]
        /\ granted' = [granted EXCEPT ![b][t] = @ + 1]
        /\ UNCHANGED <<taskVars, muxUsed, unusedMux, wanted, basePrio>>
        /\ t \in Tasks
    BY MuxAssumption DEF LOS_MuxPend
  <1>2. /\ ~Arriving(t, b)
        /\ granted[b][t] = muxCount[b]
        /\ \A u \in Tasks \ {t} : granted[b][u] = 0 /\ ~Arriving(u, b)
    <2>1. CASE muxCount[b] = 0
      <3>1. ~(muxCount[b] > 0)
        BY <2>1
      <3> QED BY <1>1, <2>1, <3>1, FreeMux
    <2>2. CASE muxCount[b] > 0 /\ muxOwner[b] = t
      <3>1. \A u \in Tasks \ {t} : ~(granted[b][u] > 0) /\ ~Arriving(u, b)
        BY <2>2 DEF MuxInv, OwnersKnow
      <3>2. \A u \in Tasks : granted[b][u] \in Nat
        BY Facts
      <3> QED BY <1>1, <2>2, <3>1, <3>2, CallerFree
    <2> QED BY <1>1, <2>1, <2>2
  <1>3. /\ muxCount'[b] = muxCount[b] + 1 /\ muxCount' \in [Muxes -> 0 .. MaxDepth]
        /\ \A m \in Muxes \ {b} : muxCount'[m] = muxCount[m]
    BY <1>1, Facts
  <1>4. /\ granted' \in [Muxes -> [Tasks -> 0 .. MaxDepth]]
        /\ granted'[b][t] = granted[b][t] + 1
        /\ \A u \in Tasks \ {t} : granted'[b][u] = granted[b][u]
        /\ \A m \in Muxes \ {b} : granted'[m] = granted[m]
    <2>1. granted[b][t] + 1 \in 0 .. MaxDepth
      BY <1>1, <1>2, Facts
    <2> QED BY <1>1, <2>1, Facts
  <1>5. /\ muxOwner'[b] = t /\ muxOwner' \in [Muxes -> Tasks \cup {NoTask}]
        /\ muxPrio' \in [Muxes -> Prio]
        /\ \A m \in Muxes \ {b} : muxOwner'[m] = muxOwner[m]
    BY <1>1, Facts
  <1>6. BlocksOK'
    <2>1. \A m \in Muxes : muxCount'[m] > 0 => m \in muxUsed' /\ muxOwner'[m] \in MuxUsers
      BY <1>1, <1>3, <1>5, Facts
    <2> QED BY <1>1, <1>3, <1>4, <1>5, <2>1, Facts DEF BlocksOK
  <1>7. UnusedOK'
    BY <1>1 DEF MuxInv, UnusedOK
  <1>8. ASSUME NEW m \in Muxes, NEW u \in Tasks, granted'[m][u] > 0 \/ Arriving(u, m)
        PROVE  muxCount'[m] > 0 /\ muxOwner'[m] = u
    <2>1. CASE m = b
      <3>1. u = t
        BY <1>2, <1>4, <1>8, <2>1
      <3> QED BY <1>3, <1>5, <2>1, <3>1, Facts
    <2>2. CASE m # b
      BY <1>3, <1>4, <1>5, <1>8, <2>2 DEF MuxInv, OwnersKnow
    <2> QED BY <2>1, <2>2
  <1>9. ASSUME NEW m \in Muxes, muxCount'[m] > 0
        PROVE  muxCount'[m] = granted'[m][muxOwner'[m]]
                              + (IF Arriving(muxOwner'[m], m) THEN 1 ELSE 0)
    <2>1. CASE m = b
      <3>1. muxCount[b] + 1 = granted[b][t] + 1 + 0
        BY <1>2, Facts
      <3> QED BY <1>2, <1>3, <1>4, <1>5, <2>1, <3>1
    <2>2. CASE m # b
      BY <1>3, <1>4, <1>5, <1>9, <2>2 DEF MuxInv, DepthsMatch
    <2> QED BY <2>1, <2>2
  <1>10. ASSUME NEW m \in Muxes, Waiters(m) # <<>> PROVE muxCount'[m] > 0
    <2>1. CASE m = b
      <3>1. muxCount[b] \in Nat
        BY Facts
      <3> QED BY <1>3, <2>1, <3>1
    <2>2. CASE m # b
      BY <1>3, <1>10, <2>2 DEF MuxInv, WaitersHaveOwner
    <2> QED BY <2>1, <2>2
  <1>11. UNCHANGED <<taskVars, wanted>>
    BY <1>1
  <1> QED BY <1>6, <1>7, <1>8, <1>9, <1>10, <1>11, QuietCall

(***************************************************************************)
(* The counts after LOS_MuxPost by the owner t, who held b once or more.   *)
(***************************************************************************)
LEMMA Ungrants ==
    ASSUME MuxInv, NEW t \in Tasks, NEW b \in Muxes, MayPost(t, b), Ungranted(t, b)
    PROVE  /\ muxCount[b] = granted[b][t] /\ b \in muxUsed /\ t \in MuxUsers
           /\ granted' \in [Muxes -> [Tasks -> 0 .. MaxDepth]]
           /\ granted'[b][t] = muxCount[b] - 1
           /\ \A u \in Tasks \ {t} : granted'[b][u] = 0 /\ ~Arriving(u, b)
           /\ ~Arriving(t, b)
           /\ \A m \in Muxes \ {b} : granted'[m] = granted[m]
  <1>1. /\ Calls(t) /\ b \in muxUsed /\ muxCount[b] > 0 /\ muxOwner[b] = t
        /\ granted' = [granted EXCEPT ![b][t] = @ - 1]
    BY DEF MayPost, Ungranted
  <1>2. muxCount[b] = granted[b][t] /\ ~Arriving(t, b)
    BY <1>1, CallerFree
  <1>3. \A u \in Tasks \ {t} : granted[b][u] = 0 /\ ~Arriving(u, b)
    <2>1. \A u \in Tasks \ {t} : ~(granted[b][u] > 0) /\ ~Arriving(u, b)
      BY <1>1 DEF MuxInv, OwnersKnow
    <2>2. \A u \in Tasks : granted[b][u] \in Nat
      BY Facts
    <2> QED BY <2>1, <2>2
  <1>4. granted[b][t] - 1 \in 0 .. MaxDepth
    BY <1>1, <1>2, Facts
  <1> QED BY <1>1, <1>2, <1>3, <1>4, Facts

LEMMA PostNestedInv ==
    ASSUME MuxInv, NEW t \in MuxUsers, NEW b \in Muxes, MuxPostNested(t, b)
    PROVE  MuxInv'
  <1>1. /\ MayPost(t, b) /\ Ungranted(t, b) /\ muxCount[b] > 1
        /\ muxCount' = [muxCount EXCEPT ![b] = @ - 1]
        /\ UNCHANGED <<taskVars, muxUsed, muxOwner, muxPrio, unusedMux, wanted, basePrio>>
        /\ t \in Tasks /\ muxOwner[b] = t
    BY MuxAssumption DEF MuxPostNested, MayPost
  <1>2. /\ granted' \in [Muxes -> [Tasks -> 0 .. MaxDepth]]
        /\ granted'[b][t] = muxCount[b] - 1
        /\ \A u \in Tasks \ {t} : granted'[b][u] = 0 /\ ~Arriving(u, b)
        /\ ~Arriving(t, b)
        /\ \A m \in Muxes \ {b} : granted'[m] = granted[m]
    BY <1>1, Ungrants
  <1>3. /\ muxCount'[b] = muxCount[b] - 1 /\ muxCount'[b] > 0
        /\ muxCount' \in [Muxes -> 0 .. MaxDepth]
        /\ \A m \in Muxes \ {b} : muxCount'[m] = muxCount[m]
    <2>1. muxCount[b] - 1 \in 0 .. MaxDepth /\ muxCount[b] - 1 > 0
      BY <1>1, Facts
    <2> QED BY <1>1, <2>1, Facts
  <1>4. BlocksOK'
    <2>1. \A m \in Muxes : muxCount'[m] > 0 => muxCount[m] > 0
      BY <1>1, <1>3, Facts
    <2> QED BY <1>1, <1>2, <1>3, <2>1, Facts DEF BlocksOK
  <1>5. UnusedOK'
    BY <1>1 DEF MuxInv, UnusedOK
  <1>6. ASSUME NEW m \in Muxes, NEW u \in Tasks, granted'[m][u] > 0 \/ Arriving(u, m)
        PROVE  muxCount'[m] > 0 /\ muxOwner'[m] = u
    <2>1. CASE m = b
      BY <1>1, <1>2, <1>3, <1>6, <2>1
    <2>2. CASE m # b
      BY <1>1, <1>2, <1>3, <1>6, <2>2 DEF MuxInv, OwnersKnow
    <2> QED BY <2>1, <2>2
  <1>7. ASSUME NEW m \in Muxes, muxCount'[m] > 0
        PROVE  muxCount'[m] = granted'[m][muxOwner'[m]]
                              + (IF Arriving(muxOwner'[m], m) THEN 1 ELSE 0)
    <2>1. CASE m = b
      <3>1. muxCount[b] - 1 = (muxCount[b] - 1) + 0
        BY Facts
      <3> QED BY <1>1, <1>2, <1>3, <2>1, <3>1
    <2>2. CASE m # b
      BY <1>1, <1>2, <1>3, <1>7, <2>2 DEF MuxInv, DepthsMatch
    <2> QED BY <2>1, <2>2
  <1>8. ASSUME NEW m \in Muxes, Waiters(m) # <<>> PROVE muxCount'[m] > 0
    BY <1>3, <1>8 DEF MuxInv, WaitersHaveOwner
  <1>9. UNCHANGED <<taskVars, wanted>>
    BY <1>1
  <1> QED BY <1>4, <1>5, <1>6, <1>7, <1>8, <1>9, QuietCall

(***************************************************************************)
(* The priority that LOS_MuxPost restores, in the queues.                  *)
(***************************************************************************)
LEMMA RestoredQueues ==
    ASSUME Good, NEW t \in Tasks, NEW b \in Muxes, muxPrio[b] \in Prio
    PROVE  /\ QueuesOK(Restored(t, b), status, [prio EXCEPT ![t] = muxPrio[b]])
           /\ [prio EXCEPT ![t] = muxPrio[b]] \in [TCBs -> Prio]
           /\ \A g \in PendLists : \A y :
                  Linked(Restored(t, b).list, g, y) <=> Linked(list, g, y)
  <1>1. prio \in [TCBs -> Prio] /\ t \in TCBs /\ QueuesOK(Queues, status, prio)
    BY DEF Good, Healthy, TaskTypeOK, TCBs
  <1>2. CASE prio[t] # muxPrio[b]
    BY <1>1, <1>2, ModifiedQueues DEF Restored
  <1>3. CASE prio[t] = muxPrio[b]
    <2>1. [prio EXCEPT ![t] = muxPrio[b]] = prio
      BY <1>1, <1>3
    <2>2. Restored(t, b) = Queues /\ Queues.list = list
      BY <1>3 DEF Restored, Queues
    <2>3. QueuesOK(Restored(t, b), status, [prio EXCEPT ![t] = muxPrio[b]])
      BY <1>1, <2>1, <2>2
    <2>4. [prio EXCEPT ![t] = muxPrio[b]] \in [TCBs -> Prio]
      BY <1>1
    <2> QED BY <2>2, <2>3, <2>4
  <1> QED BY <1>2, <1>3

LEMMA RestoredStep ==
    ASSUME WaitInv, ~fault, NEW t \in Tasks, NEW b \in Muxes, muxPrio[b] \in Prio,
           Become(Restored(t, b)), prio' = [prio EXCEPT ![t] = muxPrio[b]],
           UNCHANGED <<status, timer, cpuVars, taskLock, tickVars, callVars, fault>>
    PROVE  /\ WaitInv'
           /\ \A g \in PendLists : \A y : Linked(list', g, y) <=> Linked(list, g, y)
  <1>1. prio \in [TCBs -> Prio] /\ t \in TCBs
    BY DEF WaitInv, TaskInv, TaskTypeOK, TCBs
  <1>2. CASE prio[t] # muxPrio[b]
    <2>1. Become(osTaskPriModify(Queues, t, muxPrio[b]))
      BY <1>2 DEF Restored
    <2>2. UNCHANGED <<status, timer, runTask, newTask, pendSV, taskLock, isr, scanTask, scanStatus,
                      needSched, sliceTask, sliceLeft, handle, fault, pc>>
      BY DEF cpuVars, tickVars, scanVars, sliceVars, callVars
    <2> QED BY <2>1, <2>2, ModifiedStep
  <1>3. CASE prio[t] = muxPrio[b]
    <2>1. UNCHANGED prio
      BY <1>1, <1>3
    <2>2. UNCHANGED listVars
      BY <1>3 DEF Restored, Become, Queues, listVars
    <2>3. UNCHANGED taskVars
      BY <2>1, <2>2 DEF taskVars, listVars
    <2> QED BY <2>2, <2>3, WaitStutter DEF listVars
  <1> QED BY <1>2, <1>3

(***************************************************************************)
(* What a step has to show for the wait lists when they do not change.     *)
(***************************************************************************)
LEMMA SameWaiters ==
    ASSUME NEW l \in [ListHeads -> Seq(Tasks)], NEW k \in [ListHeads -> Seq(Tasks)],
           \A g \in PendLists : \A y : Linked(k, g, y) => Linked(l, g, y),
           NEW m \in Muxes, k[WaitersOf[m]] # <<>>
    PROVE  l[WaitersOf[m]] # <<>>
  <1>1. PICK y \in Tasks : Linked(k, WaitersOf[m], y)
    BY WaitLists
  <1>2. Linked(l, WaitersOf[m], y)
    BY <1>1, MuxAssumption
  <1> QED BY <1>2, WaitLists

LEMMA PostFreesInv ==
    ASSUME MuxInv, NEW t \in MuxUsers, NEW b \in Muxes, MuxPostFrees(t, b)
    PROVE  MuxInv'
  <1>1. /\ MayPost(t, b) /\ Ungranted(t, b) /\ muxCount[b] = 1 /\ Waiters(b) = <<>>
        /\ muxCount' = [muxCount EXCEPT ![b] = 0]
        /\ prio' = [prio EXCEPT ![t] = muxPrio[b]]
        /\ Become(Restored(t, b))
        /\ UNCHANGED <<status, timer, cpuVars, taskLock, tickVars, callVars, fault>>
        /\ UNCHANGED <<muxUsed, muxOwner, muxPrio, unusedMux, wanted, basePrio>>
        /\ t \in Tasks /\ ~fault /\ muxPrio[b] \in Prio
    BY MuxAssumption, Facts DEF MuxPostFrees, MayPost, Calls, InTask
  <1>2. /\ granted' \in [Muxes -> [Tasks -> 0 .. MaxDepth]]
        /\ \A u \in Tasks : granted'[b][u] = 0 /\ ~Arriving(u, b)
        /\ \A m \in Muxes \ {b} : granted'[m] = granted[m]
    <2>1. muxCount[b] - 1 = 0
      BY <1>1
    <2> QED BY <1>1, <2>1, Ungrants
  <1>3. /\ WaitInv'
        /\ \A g \in PendLists : \A y : Linked(list', g, y) <=> Linked(list, g, y)
    BY <1>1, RestoredStep DEF MuxInv
  <1>4. /\ muxCount'[b] = 0 /\ muxCount' \in [Muxes -> 0 .. MaxDepth]
        /\ \A m \in Muxes \ {b} : muxCount'[m] = muxCount[m]
    BY <1>1, Facts
  <1>5. BlocksOK'
    <2>1. \A m \in Muxes : muxCount'[m] > 0 => muxCount[m] > 0
      BY <1>1, <1>4, Facts
    <2> QED BY <1>1, <1>2, <1>4, <2>1, Facts DEF BlocksOK
  <1>6. UnusedOK' /\ WantedOK'
    BY <1>1 DEF MuxInv, UnusedOK, WantedOK, callVars
  <1>7. UNCHANGED <<pc, status, wanted, fault>>
    BY <1>1 DEF callVars
  <1>8. OwnersKnow'
    <2>1. ASSUME NEW m \in Muxes, NEW u \in Tasks, granted'[m][u] > 0 \/ Arriving(u, m)
          PROVE  muxCount'[m] > 0 /\ muxOwner'[m] = u
      <3>1. m # b
        BY <1>2, <2>1
      <3> QED BY <1>1, <1>2, <1>4, <2>1, <3>1 DEF MuxInv, OwnersKnow
    <2> QED BY <1>7, <2>1 DEF OwnersKnow, Arriving
  <1>9. DepthsMatch'
    <2>1. ASSUME NEW m \in Muxes, muxCount'[m] > 0
          PROVE  muxCount'[m] = granted'[m][muxOwner'[m]]
                                + (IF Arriving(muxOwner'[m], m) THEN 1 ELSE 0)
      BY <1>1, <1>2, <1>4, <2>1 DEF MuxInv, DepthsMatch
    <2> QED BY <1>7, <2>1 DEF DepthsMatch, Arriving
  <1>10. list' \in [ListHeads -> Seq(Tasks)]
    BY <1>3 DEF WaitInv, TaskInv, TaskTypeOK
  <1>11. WaitersHaveOwner'
    <2>1. ASSUME NEW m \in Muxes, Waiters(m)' # <<>> PROVE muxCount'[m] > 0
      <3>1. Waiters(m) # <<>>
        BY <1>3, <1>10, <2>1, Facts, SameWaiters DEF Waiters
      <3>2. m # b
        BY <1>1, <3>1
      <3> QED BY <1>4, <3>1, <3>2 DEF MuxInv, WaitersHaveOwner
    <2> QED BY <2>1 DEF WaitersHaveOwner
  <1>12. LinkedWaits'
    <2>1. LinkedWaits
      BY <1>1 DEF MuxInv
    <2> QED BY <1>3, <1>7, <2>1, MuxAssumption DEF LinkedWaits
  <1> QED BY <1>3, <1>5, <1>6, <1>8, <1>9, <1>11, <1>12 DEF MuxInv

(***************************************************************************)
(* LOS_MuxPend that waits: the owner may move in the ready queue, the      *)
(* caller goes to the tail of the mutex's wait list.                       *)
(***************************************************************************)
LEMMA PendWaitsInv ==
    ASSUME MuxInv, NEW t \in MuxUsers, NEW b \in Muxes, NEW n \in Timeouts, MuxPendWaits(t, b, n)
    PROVE  MuxInv'
  <1> DEFINE owner  == muxOwner[b]
             boosts == prio[owner] > prio[t]
             q      == IF boosts THEN osTaskPriModify(Queues, owner, prio[t]) ELSE Queues
             h      == WaitersOf[b]
             f      == "PEND"
  <1>1. /\ Calls(t) /\ taskLock = 0 /\ muxCount[b] > 0 /\ owner # t
        /\ prio' = IF boosts THEN [prio EXCEPT ![owner] = prio[t]] ELSE prio
        /\ osTaskWait(q, t, h, f, n)
        /\ wanted' = [wanted EXCEPT ![t] = b]
        /\ pc' = [pc EXCEPT ![t] = "wait"]
        /\ UNCHANGED <<runTask, newTask, pendSV, taskLock, isr, scanTask, scanStatus, needSched,
                       sliceTask, sliceLeft, handle>>
        /\ UNCHANGED <<muxUsed, muxCount, muxOwner, muxPrio, unusedMux, granted, basePrio>>
    BY DEF MuxPendWaits, Goto, cpuVars, tickVars, scanVars, sliceVars
  <1>2. /\ t \in Tasks /\ h \in PendLists /\ n \in Delays \cup {Forever} /\ f \in WaitFlags
        /\ owner \in Tasks /\ Good
        /\ prio \in [TCBs -> Prio] /\ t \in TCBs /\ owner \in TCBs
    <2>1. n \in Delays \cup {Forever}
      BY MuxAssumption
    <2>2. t \in Tasks /\ h \in PendLists /\ owner \in Tasks
      BY <1>1, Facts
    <2>3. Good
      BY <1>1 DEF MuxInv, WaitInv, TaskInv, Good, Calls, InTask
    <2> QED BY <2>1, <2>2, <2>3, Facts DEF WaitFlags
  <1>3. /\ QueuesOK(q, status, prio') /\ prio' \in [TCBs -> Prio] /\ prio'[t] = prio[t]
        /\ \A g \in PendLists : \A y : Linked(q.list, g, y) <=> Linked(list, g, y)
    <2>1. CASE boosts
      <3>1. prio' = [prio EXCEPT ![owner] = prio[t]] /\ q = osTaskPriModify(Queues, owner, prio[t])
        BY <1>1, <2>1
      <3> HIDE DEF q, owner, boosts
      <3>2. prio[t] \in Prio
        BY <1>2
      <3>3. /\ QueuesOK(q, status, prio')
            /\ \A g \in PendLists : \A y : Linked(q.list, g, y) <=> Linked(list, g, y)
        BY <1>2, <3>1, <3>2, ModifiedQueues
      <3> QED BY <1>1, <1>2, <3>1, <3>2, <3>3
    <2>2. CASE ~boosts
      <3>1. prio' = prio /\ q = Queues
        BY <1>1, <2>2
      <3>2. QueuesOK(Queues, status, prio) /\ Queues.list = list
        BY <1>2 DEF Good, Healthy, Queues
      <3> HIDE DEF q, boosts
      <3> QED BY <1>2, <3>1, <3>2
    <2> QED BY <2>1, <2>2
  <1> HIDE DEF q, boosts, h, f, owner
  <1>4. /\ WaitInv'
        /\ \A u \in Tasks \ {t} : status'[u] = status[u]
        /\ f \in status'[t]
        /\ \A g \in PendLists : \A y :
               Linked(list', g, y) <=> (Linked(list, g, y) /\ y # t) \/ (g = h /\ y = t)
    <2>1. /\ WaitInv'
          /\ \A u \in Tasks \ {t} : status'[u] = status[u]
          /\ f \in status'[t]
          /\ \A g \in PendLists : \A y :
                 Linked(list', g, y) <=> (Linked(q.list, g, y) /\ y # t) \/ (g = h /\ y = t)
      BY <1>1, <1>2, <1>3, WaitEffect DEF MuxInv
    <2> QED BY <1>3, <2>1
  <1>5. /\ list' \in [ListHeads -> Seq(Tasks)] /\ list \in [ListHeads -> Seq(Tasks)]
    BY <1>4, Facts DEF WaitInv, TaskInv, TaskTypeOK
  <1>6. /\ pc'[t] = "wait" /\ wanted'[t] = b
        /\ \A u \in Tasks \ {t} : pc'[u] = pc[u] /\ wanted'[u] = wanted[u]
        /\ wanted' \in [Tasks -> Muxes \cup {NoTask}]
    BY <1>1, <1>2, Facts
  <1>7. BlocksOK' /\ UnusedOK'
    BY <1>1 DEF MuxInv, BlocksOK, UnusedOK
  <1>8. WantedOK'
    BY <1>6 DEF MuxInv, WantedOK
  <1>9. ASSUME NEW m \in Muxes, NEW u \in Tasks PROVE Arriving(u, m)' <=> Arriving(u, m)
    <2>1. CASE u = t
      <3>1. ~Arriving(t, m)
        BY <1>1, <1>2, CallerFree
      <3>2. ~Arriving(t, m)'
        BY <1>4 DEF Arriving, f
      <3> QED BY <2>1, <3>1, <3>2 DEF Arriving
    <2>2. CASE u # t
      BY <1>4, <1>6, <2>2 DEF Arriving
    <2> QED BY <2>1, <2>2
  <1>10. OwnersKnow'
    BY <1>1, <1>9 DEF MuxInv, OwnersKnow
  <1>11. DepthsMatch'
    <2>1. ASSUME NEW m \in Muxes, muxCount[m] > 0
          PROVE  Arriving(muxOwner[m], m)' <=> Arriving(muxOwner[m], m)
      <3>1. PICK o \in Tasks : o = muxOwner[m]
        BY <2>1, Facts
      <3>2. Arriving(o, m)' <=> Arriving(o, m)
        BY <1>9
      <3>3. muxOwner' = muxOwner
        BY <1>1
      <3> QED BY <3>1, <3>2, <3>3 DEF Arriving
    <2> QED BY <1>1, <2>1 DEF MuxInv, DepthsMatch
  <1>12. WaitersHaveOwner'
    <2>1. ASSUME NEW m \in Muxes, Waiters(m)' # <<>> PROVE muxCount'[m] > 0
      <3>1. PICK y \in Tasks : Linked(list', WaitersOf[m], y)
        BY <1>5, <2>1, WaitLists DEF Waiters
      <3>2. Linked(list, WaitersOf[m], y) \/ m = b
        BY <1>4, <3>1, MuxAssumption DEF h
      <3>3. Linked(list, WaitersOf[m], y) => Waiters(m) # <<>>
        BY <1>5, WaitLists DEF Waiters
      <3> QED BY <1>1, <3>2, <3>3 DEF MuxInv, WaitersHaveOwner
    <2> QED BY <2>1 DEF WaitersHaveOwner
  <1>13. LinkedWaits'
    <2>1. ASSUME NEW m \in Muxes, NEW u \in Tasks, Linked(list', WaitersOf[m], u)
          PROVE  wanted'[u] = m /\ "PEND" \in status'[u]
      <3>1. CASE u = t
        <4>1. ~(Linked(list, WaitersOf[m], u) /\ u # t)
          BY <3>1
        <4>2. WaitersOf[m] = WaitersOf[b]
          BY <1>4, <2>1, <4>1, MuxAssumption DEF h
        <4>3. m = b
          BY <4>2, MuxAssumption
        <4> QED BY <1>4, <1>6, <3>1, <4>3 DEF f
      <3>2. CASE u # t
        <4>1. Linked(list, WaitersOf[m], u)
          BY <1>4, <2>1, <3>2, MuxAssumption
        <4>2. wanted[u] = m /\ "PEND" \in status[u]
          BY <1>1, <4>1 DEF MuxInv, LinkedWaits, Calls, InTask
        <4> QED BY <1>4, <1>6, <3>2, <4>2
      <3> QED BY <3>1, <3>2
    <2> QED BY <2>1 DEF LinkedWaits
  <1> QED BY <1>4, <1>7, <1>8, <1>10, <1>11, <1>12, <1>13 DEF MuxInv

(***************************************************************************)
(* LOS_MuxPost with a waiter: the first one owns the mutex from now on, and*)
(* will find so when it runs.                                              *)
(***************************************************************************)
LEMMA PostHandsOverInv ==
    ASSUME MuxInv, NEW t \in MuxUsers, NEW b \in Muxes, MuxPostHandsOver(t, b)
    PROVE  MuxInv'
  <1> DEFINE x == Head(Waiters(b))
             f == "PEND"
             q == Restored(t, b)
  <1>1. /\ MayPost(t, b) /\ Ungranted(t, b) /\ muxCount[b] = 1 /\ Waiters(b) # <<>>
        /\ muxOwner' = [muxOwner EXCEPT ![b] = x]
        /\ muxPrio' = [muxPrio EXCEPT ![b] = prio[x]]
        /\ osTaskWake(q, x, f)
        /\ prio' = [prio EXCEPT ![t] = muxPrio[b]]
        /\ pc' = [pc EXCEPT ![t] = "sched"]
        /\ UNCHANGED <<isr, scanTask, scanStatus, needSched, sliceTask, sliceLeft, handle, taskLock>>
        /\ UNCHANGED <<runTask, newTask, pendSV>>
        /\ UNCHANGED <<muxUsed, muxCount, unusedMux, wanted, basePrio>>
    BY DEF MuxPostHandsOver, Goto, cpuVars, tickVars, scanVars, sliceVars
  <1>2. Calls(t) /\ t \in Tasks /\ ~fault /\ isr = "none"
    BY <1>1, MuxAssumption DEF MayPost, Calls, InTask
  <1>3. x \in Tasks /\ Linked(list, WaitersOf[b], x)
    BY <1>1, Facts, WaitLists DEF Waiters
  <1> HIDE DEF x, f, q
  <1>4. /\ wanted[x] = b /\ "PEND" \in status[x]
        /\ f \in WaitFlags /\ f \in status[x]
    BY <1>2, <1>3 DEF MuxInv, LinkedWaits, WaitFlags, f
  <1>5. Waiting(pc[x]) /\ x \in MuxUsers
    BY <1>2, <1>3, <1>4 DEF MuxInv, WaitInv, WaitersOK, Pending, WantedOK
  <1>6. x # t
    BY <1>2, <1>5 DEF Calls, Waiting
  <1>7. /\ QueuesOK(q, status, prio') /\ prio' \in [TCBs -> Prio] /\ prio'[x] = prio[x]
        /\ \A g \in PendLists : \A y : Linked(q.list, g, y) <=> Linked(list, g, y)
    <2>1. Good /\ muxPrio[b] \in Prio
      BY <1>2, Facts DEF MuxInv, WaitInv, TaskInv, Good
    <2>2. /\ QueuesOK(q, status, prio') /\ prio' \in [TCBs -> Prio]
          /\ \A g \in PendLists : \A y : Linked(q.list, g, y) <=> Linked(list, g, y)
      BY <1>1, <1>2, <2>1, RestoredQueues DEF q
    <2>3. prio'[x] = prio[x]
      BY <1>1, <1>3, <1>6, Facts
    <2> QED BY <2>2, <2>3
  <1>8. /\ WaitInv'
        /\ \A u \in Tasks \ {x} : status'[u] = status[u]
        /\ status'[x] \cap Marks = {}
        /\ \A g \in PendLists : \A y : Linked(list', g, y) <=> Linked(list, g, y) /\ y # x
        /\ \A u \in Tasks : Waiting(pc'[u]) <=> Waiting(pc[u])
    <2>1. /\ WaitInv'
          /\ \A u \in Tasks \ {x} : status'[u] = status[u]
          /\ status'[x] \cap Marks = {}
          /\ \A g \in PendLists : \A y : Linked(list', g, y) <=> Linked(q.list, g, y) /\ y # x
      BY <1>1, <1>2, <1>3, <1>4, <1>7, WakeStepInv DEF MuxInv
    <2>2. \A u \in Tasks : Waiting(pc'[u]) <=> Waiting(pc[u])
      BY <1>1, <1>2, CallerWaits DEF MuxInv, WaitInv, TaskInv
    <2> QED BY <1>7, <2>1, <2>2
  <1>9. /\ granted' \in [Muxes -> [Tasks -> 0 .. MaxDepth]]
        /\ \A u \in Tasks : granted'[b][u] = 0
        /\ \A u \in Tasks : ~Arriving(u, b)
        /\ \A m \in Muxes \ {b} : granted'[m] = granted[m]
    <2>1. muxCount[b] - 1 = 0
      BY <1>1
    <2> QED BY <1>1, <1>2, <2>1, Ungrants
  <1>10. /\ muxOwner'[b] = x /\ muxOwner' \in [Muxes -> Tasks \cup {NoTask}]
         /\ muxPrio' \in [Muxes -> Prio]
         /\ \A m \in Muxes \ {b} : muxOwner'[m] = muxOwner[m]
    BY <1>1, <1>3, Facts
  <1>11. BlocksOK'
    <2>1. \A m \in Muxes : muxCount[m] > 0 => muxOwner'[m] \in MuxUsers /\ m \in muxUsed
      BY <1>5, <1>10, Facts
    <2> QED BY <1>1, <1>9, <1>10, <2>1, Facts DEF BlocksOK
  <1>12. UnusedOK' /\ WantedOK'
    BY <1>1, <1>8 DEF MuxInv, UnusedOK, WantedOK
  <1>13. ASSUME NEW m \in Muxes, NEW u \in Tasks
         PROVE  Arriving(u, m)' <=> Arriving(u, m) \/ (u = x /\ m = b)
    <2>1. /\ Arriving(u, m)' <=> /\ Waiting(pc'[u]) /\ wanted[u] = m
                                 /\ status'[u] \cap {"PEND", "TIMEOUT"} = {}
          /\ Arriving(u, m) <=> /\ Waiting(pc[u]) /\ wanted[u] = m
                                /\ status[u] \cap {"PEND", "TIMEOUT"} = {}
      BY <1>1 DEF Arriving, Waiting
    <2>2. CASE u = x
      BY <1>4, <1>5, <1>8, <2>1, <2>2 DEF Marks
    <2>3. CASE u # x
      BY <1>8, <2>1, <2>3
    <2> QED BY <2>2, <2>3
  <1>14. OwnersKnow'
    <2>1. ASSUME NEW m \in Muxes, NEW u \in Tasks, granted'[m][u] > 0 \/ Arriving(u, m)'
          PROVE  muxCount'[m] > 0 /\ muxOwner'[m] = u
      <3>1. CASE m = b
        <4>1. u = x
          BY <1>9, <1>13, <2>1, <3>1
        <4> QED BY <1>1, <1>10, <3>1, <4>1
      <3>2. CASE m # b
        <4>1. granted[m][u] > 0 \/ Arriving(u, m)
          BY <1>9, <1>13, <2>1, <3>2
        <4> QED BY <1>1, <1>10, <3>2, <4>1 DEF MuxInv, OwnersKnow
      <3> QED BY <3>1, <3>2
    <2> QED BY <2>1 DEF OwnersKnow
  <1>15. DepthsMatch'
    <2>1. ASSUME NEW m \in Muxes, muxCount'[m] > 0
          PROVE  muxCount'[m] = granted'[m][muxOwner'[m]]
                                + (IF Arriving(muxOwner[m], m)' THEN 1 ELSE 0)
      <3>1. CASE m = b
        <4>0. PICK z \in Tasks : z = x
          BY <1>3
        <4>1. Arriving(z, b)'
          BY <1>13, <4>0
        <4>2. Arriving(muxOwner[b], b)'
          BY <1>10, <4>0, <4>1 DEF Arriving
        <4>3. muxCount'[b] = 1 /\ granted'[b][muxOwner'[b]] = 0
          BY <1>1, <1>3, <1>9, <1>10
        <4> QED BY <3>1, <4>2, <4>3
      <3>2. CASE m # b
        <4>1. muxCount[m] > 0 /\ muxOwner'[m] = muxOwner[m]
          BY <1>1, <1>10, <2>1, <3>2
        <4>2. PICK o \in Tasks : o = muxOwner[m]
          BY <4>1, Facts
        <4>3. Arriving(o, m)' <=> Arriving(o, m)
          BY <1>13, <3>2
        <4>4. Arriving(muxOwner[m], m)' <=> Arriving(muxOwner[m], m)
          BY <4>1, <4>2, <4>3 DEF Arriving
        <4> QED BY <1>1, <1>9, <3>2, <4>1, <4>4 DEF MuxInv, DepthsMatch
      <3> QED BY <3>1, <3>2
    <2> QED BY <2>1 DEF DepthsMatch
  <1>16. list' \in [ListHeads -> Seq(Tasks)]
    BY <1>8 DEF WaitInv, TaskInv, TaskTypeOK
  <1>17. WaitersHaveOwner'
    <2>1. ASSUME NEW m \in Muxes, Waiters(m)' # <<>> PROVE muxCount'[m] > 0
      <3>1. Waiters(m) # <<>>
        BY <1>8, <1>16, <2>1, Facts, SameWaiters DEF Waiters
      <3> QED BY <1>1, <3>1 DEF MuxInv, WaitersHaveOwner
    <2> QED BY <2>1 DEF WaitersHaveOwner
  <1>18. LinkedWaits'
    <2>1. ASSUME NEW m \in Muxes, NEW u \in Tasks, Linked(list', WaitersOf[m], u)
          PROVE  wanted'[u] = m /\ "PEND" \in status'[u]
      <3>1. Linked(list, WaitersOf[m], u) /\ u # x
        BY <1>8, <2>1, MuxAssumption
      <3>2. wanted[u] = m /\ "PEND" \in status[u]
        BY <1>2, <3>1 DEF MuxInv, LinkedWaits
      <3> QED BY <1>1, <1>8, <3>1, <3>2
    <2> QED BY <2>1 DEF LinkedWaits
  <1> QED BY <1>8, <1>11, <1>12, <1>14, <1>15, <1>17, <1>18 DEF MuxInv

(***************************************************************************)
(* LOS_MuxPend returns: the task owns the mutex, or it timed out.          *)
(***************************************************************************)
LEMMA ReturnsInv ==
    ASSUME MuxInv, NEW t \in Tasks, MuxPendReturns(t)
    PROVE  MuxInv'
  <1>1. /\ InTask(t) /\ pc[t] = "woken"
        /\ status' = [status EXCEPT ![t] = @ \ {"TIMEOUT"}]
        /\ granted' = IF "TIMEOUT" \in status[t] THEN granted
                      ELSE [granted EXCEPT ![wanted[t]][t] = @ + 1]
        /\ wanted' = [wanted EXCEPT ![t] = NoTask]
        /\ pc' = [pc EXCEPT ![t] = "user"]
        /\ UNCHANGED <<list, bitmap, prio, timer, runTask, newTask, pendSV, taskLock, isr, scanTask,
                       scanStatus, needSched, sliceTask, sliceLeft, handle, fault>>
        /\ UNCHANGED <<muxUsed, muxCount, muxOwner, muxPrio, unusedMux, basePrio>>
    BY DEF MuxPendReturns, Goto, listVars, cpuVars, tickVars, scanVars, sliceVars
  <1>2. /\ WaitInv' /\ ~Pending(t)
        /\ ~fault
    <2>1. WaitInv' /\ ~Pending(t)
      BY <1>1, ReturnStep DEF MuxInv
    <2> QED BY <1>1, <2>1 DEF InTask
  <1>3. PICK b \in Muxes : b = wanted[t]
    BY <1>1 DEF MuxInv, WantedOK, Waiting
  <1>4. "PEND" \notin status[t]
    BY <1>2 DEF Pending, WaitFlags
  <1>5. /\ pc'[t] = "user" /\ wanted'[t] = NoTask
        /\ \A u \in Tasks \ {t} : pc'[u] = pc[u] /\ wanted'[u] = wanted[u] /\ status'[u] = status[u]
        /\ wanted' \in [Tasks -> Muxes \cup {NoTask}]
    BY <1>1, Facts
  <1>6. \A m \in Muxes : Arriving(t, m) <=> m = b /\ "TIMEOUT" \notin status[t]
    BY <1>1, <1>3, <1>4 DEF Arriving
  <1>7. /\ granted' \in [Muxes -> [Tasks -> 0 .. MaxDepth]]
        /\ granted'[b][t] = granted[b][t] + (IF Arriving(t, b) THEN 1 ELSE 0)
        /\ \A m \in Muxes, u \in Tasks : m # b \/ u # t => granted'[m][u] = granted[m][u]
    <2>1. CASE "TIMEOUT" \in status[t]
      <3>1. granted' = granted /\ ~Arriving(t, b)
        BY <1>1, <1>6, <2>1
      <3> QED BY <3>1, Facts
    <2>2. CASE "TIMEOUT" \notin status[t]
      <3>1. granted' = [granted EXCEPT ![b][t] = @ + 1] /\ Arriving(t, b)
        BY <1>1, <1>3, <1>6, <2>2
      <3>2. muxCount[b] > 0 /\ muxOwner[b] = t
        BY <3>1 DEF MuxInv, OwnersKnow
      <3>3. muxCount[b] = granted[b][t] + 1
        BY <3>1, <3>2 DEF MuxInv, DepthsMatch
      <3>4. granted[b][t] + 1 \in 0 .. MaxDepth
        BY <3>3, Facts
      <3> QED BY <3>1, <3>4, Facts
    <2> QED BY <2>1, <2>2
  <1>8. ASSUME NEW m \in Muxes, NEW u \in Tasks
        PROVE  Arriving(u, m)' <=> Arriving(u, m) /\ u # t
    <2>1. CASE u = t
      BY <1>5, <2>1 DEF Arriving
    <2>2. CASE u # t
      BY <1>5, <2>2 DEF Arriving
    <2> QED BY <2>1, <2>2
  <1>9. BlocksOK' /\ UnusedOK'
    BY <1>1, <1>7 DEF MuxInv, BlocksOK, UnusedOK
  <1>10. WantedOK'
    BY <1>5 DEF MuxInv, WantedOK, Waiting
  <1>11. OwnersKnow'
    <2>1. ASSUME NEW m \in Muxes, NEW u \in Tasks, granted'[m][u] > 0 \/ Arriving(u, m)'
          PROVE  muxCount'[m] > 0 /\ muxOwner'[m] = u
      <3>1. granted[m][u] > 0 \/ Arriving(u, m)
        <4>1. CASE m = b /\ u = t
          <5>1. granted[b][t] \in Nat
            BY Facts
          <5> QED BY <1>7, <1>8, <2>1, <4>1, <5>1
        <4>2. CASE m # b \/ u # t
          BY <1>7, <1>8, <2>1, <4>2
        <4> QED BY <4>1, <4>2
      <3> QED BY <1>1, <3>1 DEF MuxInv, OwnersKnow
    <2> QED BY <2>1 DEF OwnersKnow
  <1>12. DepthsMatch'
    <2>1. ASSUME NEW m \in Muxes, muxCount'[m] > 0
          PROVE  muxCount'[m] = granted'[m][muxOwner'[m]]
                                + (IF Arriving(muxOwner[m], m)' THEN 1 ELSE 0)
      <3>1. muxCount[m] > 0 /\ muxOwner' = muxOwner /\ muxCount' = muxCount
        BY <1>1, <2>1
      <3>2. PICK o \in Tasks : o = muxOwner[m]
        BY <3>1, Facts
      <3>3. muxCount[m] = granted[m][o] + (IF Arriving(o, m) THEN 1 ELSE 0)
        BY <3>1, <3>2 DEF MuxInv, DepthsMatch
      <3>4. Arriving(muxOwner[m], m)' <=> Arriving(o, m) /\ o # t
        <4>1. Arriving(o, m)' <=> Arriving(o, m) /\ o # t
          BY <1>8
        <4> QED BY <3>1, <3>2, <4>1 DEF Arriving
      <3>5. granted[m][o] \in Nat
        BY Facts
      <3>6. granted'[m][o] = granted[m][o] + (IF Arriving(o, m) /\ o = t THEN 1 ELSE 0)
        <4>1. CASE o = t /\ m = b
          BY <1>7, <4>1
        <4>2. CASE o # t \/ m # b
          BY <1>6, <1>7, <3>5, <4>2
        <4> QED BY <4>1, <4>2
      <3> QED BY <3>1, <3>2, <3>3, <3>4, <3>5, <3>6
    <2> QED BY <2>1 DEF DepthsMatch
  <1>13. WaitersHaveOwner'
    BY <1>1 DEF MuxInv, WaitersHaveOwner, Waiters
  <1>14. LinkedWaits'
    <2>1. ASSUME NEW m \in Muxes, NEW u \in Tasks, Linked(list, WaitersOf[m], u)
          PROVE  wanted'[u] = m /\ "PEND" \in status'[u]
      <3>1. wanted[u] = m /\ "PEND" \in status[u]
        BY <1>2, <2>1 DEF MuxInv, LinkedWaits
      <3> QED BY <1>4, <1>5, <3>1
    <2> QED BY <1>1, <2>1 DEF LinkedWaits
  <1> QED BY <1>2, <1>9, <1>10, <1>11, <1>12, <1>13, <1>14 DEF MuxInv

-----------------------------------------------------------------------------
(***************************************************************************)
(* osMuxInit: every block is free, and nobody waits.                       *)
(***************************************************************************)
LEMMA MuxInitInv ==
    ASSUME MuxInit
    PROVE  MuxInv
  <1>1. TaskInit /\ WaitInv
    BY InitWaits DEF MuxInit
  <1>2. /\ list = InitList /\ pc = [t \in Tasks |-> "user"]
        /\ prio \in [TCBs -> Prio]
    BY <1>1 DEF TaskInit, WaitInv, TaskInv, TaskTypeOK
  <1>3. 0 \in Prio /\ MaxDepth \in Nat /\ CreatedMuxes \subseteq Muxes
    BY TaskAssumption, MuxAssumption DEF Prio
  <1>4. BlocksOK
    BY <1>2, <1>3 DEF MuxInit, BlocksOK
  <1>5. UnusedOK
    <2> DEFINE S == Muxes \ CreatedMuxes
    <2>1. IsFiniteSet(S) /\ unusedMux \in SetToSeqs(S)
      BY MuxAssumption, FS_Difference DEF MuxInit
    <2>2. unusedMux \in Seq(S) /\ NoRepeat(unusedMux) /\ \A y : Contains(unusedMux, y) <=> y \in S
      BY <2>1, AnyOrderFacts
    <2>3. \A m \in Muxes : m \notin muxUsed <=> m \in S
      BY DEF MuxInit
    <2> QED BY <2>2, <2>3 DEF UnusedOK
  <1>6. WantedOK
    BY <1>2 DEF MuxInit, WantedOK, Waiting
  <1>7. OwnersKnow /\ DepthsMatch
    BY <1>2 DEF MuxInit, OwnersKnow, DepthsMatch, Arriving
  <1>8. \A m \in Muxes : list[WaitersOf[m]] = <<>>
    BY <1>2, MuxAssumption, TaskAssumption DEF InitList, ListHeads
  <1>9. WaitersHaveOwner /\ LinkedWaits
    BY <1>8 DEF WaitersHaveOwner, Waiters, LinkedWaits, Linked, Contains
  <1> QED BY <1>1, <1>4, <1>5, <1>6, <1>7, <1>9 DEF MuxInv

LEMMA MuxStep ==
    ASSUME MuxInv, UsersLive, ~NestedIsr, [MuxNext]_allVars
    PROVE  MuxInv'
  <1>1. MuxCreators \subseteq Tasks /\ MuxUsers \subseteq Tasks
    BY MuxAssumption
  <1>2. CASE OtherCall
    BY <1>2, OtherCallInv
  <1>3. ASSUME NEW t \in MuxCreators, LOS_MuxCreate(t) \/ \E m \in Muxes : LOS_MuxDelete(t, m)
        PROVE  MuxInv'
    BY <1>1, <1>3, CreateInv, DeleteInv
  <1>4. ASSUME NEW t \in MuxUsers, NEW m \in Muxes,
               \/ LOS_MuxPend(t, m)
               \/ \E n \in Timeouts : MuxPendWaits(t, m, n)
               \/ MuxPostNested(t, m)
               \/ MuxPostFrees(t, m)
               \/ MuxPostHandsOver(t, m)
        PROVE  MuxInv'
    BY <1>4, PendInv, PendWaitsInv, PostNestedInv, PostFreesInv, PostHandsOverInv
  <1>5. ASSUME NEW t \in MuxUsers, MuxPendReturns(t) PROVE MuxInv'
    BY <1>1, <1>5, ReturnsInv
  <1>6. CASE UNCHANGED allVars
    <2>1. UNCHANGED <<taskVars, muxUsed, muxCount, muxOwner, muxPrio, unusedMux, wanted, granted, basePrio>>
      BY <1>6 DEF allVars, muxVars
    <2>2. BlocksOK' /\ UnusedOK'
      BY <2>1 DEF MuxInv, BlocksOK, UnusedOK
    <2> QED BY <2>1, <2>2, QuietCall DEF MuxInv, OwnersKnow, DepthsMatch, WaitersHaveOwner
  <1> QED BY <1>2, <1>3, <1>4, <1>5, <1>6 DEF MuxNext, MuxCall

-----------------------------------------------------------------------------
(***************************************************************************)
(* The inductive invariant of los_mux.c over the scheduler: blocks, wait   *)
(* lists, counts and the tasks on their way out of LOS_MuxPend fit together*)
(* whatever calls, interrupts, time-outs and suspensions do.               *)
(***************************************************************************)
THEOREM MuxInvariant ==
    ASSUME ~NestedIsr, UsersLive
    PROVE  MuxSpec => []MuxInv
  <1>1. MuxInit => MuxInv
    BY MuxInitInv
  <1>2. MuxInv /\ [MuxNext]_allVars => MuxInv'
    BY MuxStep
  <1> QED BY <1>1, <1>2, PTL DEF MuxSpec

(***************************************************************************)
(* los_mux.c keeps every nesting count within its bound, and every pointer *)
(* it follows on a block or a task; no task releases a mutex more often    *)
(* than LOS_MuxPend told it that it had it.                                *)
(***************************************************************************)
THEOREM MuxTypes ==
    ASSUME ~NestedIsr, UsersLive
    PROVE  MuxSpec => []MuxTypeOK
  <1>1. MuxInv => MuxTypeOK
    BY MuxInvImplies
  <1> QED BY <1>1, MuxInvariant, PTL

(***************************************************************************)
(* Mutual exclusion: the one task that LOS_MuxPend told that it had the    *)
(* mutex, or will tell when it runs, is the owner, and it was told so as   *)
(* often as the block counts; so no hand-over is given to a task that timed*)
(* out, and nobody waits for a mutex without an owner.                     *)
(***************************************************************************)
THEOREM GrantsMatchOwner ==
    ASSUME ~NestedIsr, UsersLive
    PROVE  MuxSpec => []GrantedToOwner
  <1>1. MuxInv => GrantedToOwner
    BY MuxInvImplies
  <1> QED BY <1>1, MuxInvariant, PTL

-----------------------------------------------------------------------------
(***************************************************************************)
(* What a boost relies on: no task holds two mutexes, for LOS_MuxPost out  *)
(* of order restores a priority that another mutex had boosted; and nobody *)
(* calls LOS_TaskPriSet for a task that holds one, for LOS_MuxPost undoes  *)
(* it.                                                                     *)
(***************************************************************************)
OneAtATime ==
    \A t \in Tasks, l, m \in Muxes : Holds(t, l) /\ Holds(t, m) => l = m

OwnersKeepBase ==
    \A t \in Tasks : (\E m \in Muxes : Holds(t, m)) => basePrio'[t] = basePrio[t]

(***************************************************************************)
(* The block remembers the priority that its owner has of its own.         *)
(***************************************************************************)
BoostInv ==
    /\ MuxInv
    /\ BoostEnds
    /\ \A t \in Tasks, m \in Muxes : Holds(t, m) => muxPrio[m] = basePrio[t]

(***************************************************************************)
(* A step that changes the holder of one mutex only, from o to p.          *)
(***************************************************************************)
LEMMA HoldersMove ==
    ASSUME BoostInv, OneAtATime, OneAtATime', UNCHANGED basePrio, NEW b \in Muxes,
           \A m \in Muxes \ {b} : muxPrio'[m] = muxPrio[m],
           \A m \in Muxes \ {b}, t \in Tasks : Holds(t, m)' <=> Holds(t, m),
           \A t \in Tasks : Holds(t, b)' => muxPrio'[b] = basePrio[t],
           \A t \in Tasks : prio'[t] = prio[t] \/ prio'[t] = basePrio[t] \/ Holds(t, b)',
           \A t \in Tasks : Holds(t, b) /\ ~Holds(t, b)' => prio'[t] = basePrio[t]
    PROVE  BoostEnds' /\ \A t \in Tasks, m \in Muxes : Holds(t, m)' => muxPrio'[m] = basePrio'[t]
  <1>1. ASSUME NEW t \in Tasks, \A m \in Muxes : ~Holds(t, m)' PROVE prio'[t] = basePrio'[t]
    <2>1. CASE Holds(t, b)
      BY <1>1, <2>1
    <2>2. CASE ~Holds(t, b)
      <3>1. \A m \in Muxes : ~Holds(t, m)
        BY <1>1, <2>2
      <3> QED BY <1>1, <3>1 DEF BoostInv, BoostEnds
    <2> QED BY <2>1, <2>2
  <1>2. ASSUME NEW t \in Tasks, NEW m \in Muxes, Holds(t, m)' PROVE muxPrio'[m] = basePrio'[t]
    BY <1>2 DEF BoostInv
  <1> QED BY <1>1, <1>2 DEF BoostEnds

LEMMA OtherCallBoost ==
    ASSUME BoostInv, OtherCall, OwnersKeepBase
    PROVE  BoostEnds' /\ \A t \in Tasks, m \in Muxes : Holds(t, m)' => muxPrio'[m] = basePrio'[t]
  <1>1. /\ basePrio' = [t \in TCBs |-> IF prio'[t] # prio[t] THEN prio'[t] ELSE basePrio[t]]
        /\ \A t \in Tasks, m \in Muxes : Holds(t, m)' <=> Holds(t, m)
        /\ muxPrio' = muxPrio
    BY DEF OtherCall, Holds
  <1>2. ASSUME NEW t \in Tasks, \A m \in Muxes : ~Holds(t, m)' PROVE prio'[t] = basePrio'[t]
    <2>1. prio[t] = basePrio[t]
      BY <1>1, <1>2 DEF BoostInv, BoostEnds
    <2>2. t \in TCBs
      BY DEF TCBs
    <2> QED BY <1>1, <2>1, <2>2
  <1>3. ASSUME NEW t \in Tasks, NEW m \in Muxes, Holds(t, m)' PROVE muxPrio'[m] = basePrio'[t]
    <2>1. Holds(t, m) /\ muxPrio[m] = basePrio[t]
      BY <1>1, <1>3 DEF BoostInv
    <2> QED BY <1>1, <2>1 DEF OwnersKeepBase
  <1> QED BY <1>2, <1>3 DEF BoostEnds

(***************************************************************************)
(* Blocks are made and freed while nobody holds them.                      *)
(***************************************************************************)
LEMMA BlockBoost ==
    ASSUME BoostInv, OneAtATime, OneAtATime', NEW t \in Tasks,
           LOS_MuxCreate(t) \/ \E m \in Muxes : LOS_MuxDelete(t, m)
    PROVE  BoostEnds' /\ \A u \in Tasks, m \in Muxes : Holds(u, m)' => muxPrio'[m] = basePrio'[u]
  <1>1. CASE LOS_MuxCreate(t)
    <2>0. PICK b \in Muxes : b = Head(unusedMux) /\ Contains(unusedMux, b)
      BY <1>1, PopFacts DEF LOS_MuxCreate, BoostInv, MuxInv, UnusedOK
    <2>1. /\ unusedMux \in Seq(Muxes) /\ unusedMux # <<>> /\ NoRepeat(unusedMux)
          /\ muxUsed' = muxUsed \cup {b}
          /\ muxCount' = [muxCount EXCEPT ![b] = 0]
          /\ muxPrio' = [muxPrio EXCEPT ![b] = 0]
          /\ muxOwner' = [muxOwner EXCEPT ![b] = NoTask]
          /\ UNCHANGED <<taskVars, basePrio>>
      BY <1>1, <2>0 DEF LOS_MuxCreate, BoostInv, MuxInv, UnusedOK
    <2>3. b \notin muxUsed
      BY <2>0 DEF BoostInv, MuxInv, UnusedOK
    <2>4. \A u \in Tasks : ~Holds(u, b) /\ ~Holds(u, b)'
      BY <2>1, <2>3, Facts DEF Holds, BoostInv
    <2>5. \A m \in Muxes \ {b}, u \in Tasks : Holds(u, m)' <=> Holds(u, m)
      BY <2>1, Facts DEF Holds, BoostInv
    <2>6. \A m \in Muxes \ {b} : muxPrio'[m] = muxPrio[m]
      BY <2>1, Facts DEF BoostInv
    <2>7. UNCHANGED <<prio, basePrio>>
      BY <2>1 DEF taskVars
    <2> QED BY <2>4, <2>5, <2>6, <2>7, HoldersMove
  <1>2. ASSUME NEW b \in Muxes, LOS_MuxDelete(t, b)
        PROVE  BoostEnds' /\ \A u \in Tasks, m \in Muxes : Holds(u, m)' => muxPrio'[m] = basePrio'[u]
    <2>1. /\ muxCount[b] = 0 /\ muxUsed' = muxUsed \ {b}
          /\ UNCHANGED <<taskVars, muxCount, muxOwner, muxPrio, basePrio>>
      BY <1>2 DEF LOS_MuxDelete
    <2>2. /\ \A u \in Tasks : ~Holds(u, b) /\ ~Holds(u, b)'
          /\ \A m \in Muxes \ {b}, u \in Tasks : Holds(u, m)' <=> Holds(u, m)
      BY <2>1 DEF Holds
    <2>3. UNCHANGED <<prio, basePrio, muxPrio>>
      BY <2>1 DEF taskVars
    <2> QED BY <2>2, <2>3, HoldersMove
  <1> QED BY <1>1, <1>2

LEMMA PendBoost ==
    ASSUME BoostInv, OneAtATime, OneAtATime', NEW t \in Tasks, NEW b \in Muxes, LOS_MuxPend(t, b)
    PROVE  BoostEnds' /\ \A u \in Tasks, m \in Muxes : Holds(u, m)' => muxPrio'[m] = basePrio'[u]
  <1>1. /\ b \in muxUsed
        /\ \/ /\ muxCount[b] = 0
              /\ muxOwner' = [muxOwner EXCEPT ![b] = t]
              /\ muxPrio' = [muxPrio EXCEPT ![b] = prio[t]]
           \/ /\ muxCount[b] > 0 /\ muxOwner[b] = t
              /\ UNCHANGED <<muxOwner, muxPrio>>
        /\ muxCount' = [muxCount EXCEPT ![b] = @ + 1]
        /\ UNCHANGED <<taskVars, muxUsed, basePrio>>
    BY DEF LOS_MuxPend
  <1>2. UNCHANGED <<prio, basePrio>>
    BY <1>1 DEF taskVars
  <1>3. /\ muxCount'[b] > 0 /\ muxOwner'[b] = t
        /\ \A m \in Muxes \ {b} : /\ muxCount'[m] = muxCount[m]
                                  /\ muxOwner'[m] = muxOwner[m]
                                  /\ muxPrio'[m] = muxPrio[m]
    BY <1>1, Facts DEF BoostInv
  <1>4. /\ \A u \in Tasks : Holds(u, b)' <=> u = t
        /\ \A m \in Muxes \ {b}, u \in Tasks : Holds(u, m)' <=> Holds(u, m)
    BY <1>1, <1>3 DEF Holds
  <1>5. muxPrio'[b] = basePrio[t]
    <2>1. CASE muxCount[b] = 0
      <3>1. \A m \in Muxes : ~Holds(t, m)
        <4>1. ~Holds(t, b)
          BY <2>1 DEF Holds
        <4>2. ASSUME NEW m \in Muxes \ {b}, Holds(t, m) PROVE FALSE
          BY <1>4, <4>2 DEF OneAtATime
        <4> QED BY <4>1, <4>2
      <3>2. prio[t] = basePrio[t]
        BY <3>1 DEF BoostInv, BoostEnds
      <3> QED BY <1>1, <2>1, <3>2, Facts DEF BoostInv
    <2>2. CASE muxCount[b] > 0
      <3>1. Holds(t, b) /\ muxPrio' = muxPrio
        BY <1>1, <2>2 DEF Holds
      <3> QED BY <3>1 DEF BoostInv
    <2>3. muxCount[b] = 0 \/ muxCount[b] > 0
      BY <1>1
    <2> QED BY <2>1, <2>2, <2>3
  <1>6. \A u \in Tasks : Holds(u, b) => Holds(u, b)'
    BY <1>1, <1>4 DEF Holds
  <1> QED BY <1>2, <1>3, <1>4, <1>5, <1>6, HoldersMove

(***************************************************************************)
(* A wait and a nested LOS_MuxPost change no holder; the boost is of one.  *)
(***************************************************************************)
LEMMA KeepBoost ==
    ASSUME BoostInv, OneAtATime, OneAtATime', NEW t \in MuxUsers, NEW b \in Muxes,
           (\E n \in Timeouts : MuxPendWaits(t, b, n)) \/ MuxPostNested(t, b)
    PROVE  BoostEnds' /\ \A u \in Tasks, m \in Muxes : Holds(u, m)' => muxPrio'[m] = basePrio'[u]
  <1>1. UNCHANGED <<muxUsed, muxOwner, muxPrio, basePrio>>
    BY DEF MuxPendWaits, MuxPostNested
  <1>2. /\ \A m \in Muxes : muxCount'[m] > 0 <=> muxCount[m] > 0
        /\ \A u \in Tasks : prio'[u] = prio[u] \/ Holds(u, b)
    <2>1. ASSUME NEW n \in Timeouts, MuxPendWaits(t, b, n)
          PROVE  muxCount' = muxCount /\ \A u \in Tasks : prio'[u] = prio[u] \/ Holds(u, b)
      <3>1. /\ b \in muxUsed /\ muxCount[b] > 0 /\ muxCount' = muxCount
            /\ prio' = prio \/ prio' = [prio EXCEPT ![muxOwner[b]] = prio[t]]
        BY <2>1 DEF MuxPendWaits
      <3> QED BY <3>1, Facts DEF Holds, BoostInv
    <2>2. CASE MuxPostNested(t, b)
      <3>1. /\ muxCount[b] > 1 /\ muxCount' = [muxCount EXCEPT ![b] = @ - 1]
            /\ UNCHANGED prio
        BY <2>2 DEF MuxPostNested, taskVars
      <3>2. muxCount'[b] > 0 /\ \A m \in Muxes \ {b} : muxCount'[m] = muxCount[m]
        BY <3>1, Facts DEF BoostInv
      <3>3. muxCount[b] > 0
        BY <3>1, Facts DEF BoostInv
      <3> QED BY <3>1, <3>2, <3>3
    <2> QED BY <2>1, <2>2
  <1>3. \A m \in Muxes, u \in Tasks : Holds(u, m)' <=> Holds(u, m)
    BY <1>1, <1>2 DEF Holds
  <1>4. \A u \in Tasks : Holds(u, b)' => muxPrio'[b] = basePrio[u]
    BY <1>1, <1>3 DEF BoostInv
  <1> QED BY <1>1, <1>2, <1>3, <1>4, HoldersMove

(***************************************************************************)
(* The last LOS_MuxPost: the former owner is at its own priority again.    *)
(***************************************************************************)
LEMMA PostBoost ==
    ASSUME BoostInv, OneAtATime, OneAtATime', NEW t \in MuxUsers, NEW b \in Muxes,
           MuxPostFrees(t, b) \/ MuxPostHandsOver(t, b)
    PROVE  BoostEnds' /\ \A u \in Tasks, m \in Muxes : Holds(u, m)' => muxPrio'[m] = basePrio'[u]
  <1> DEFINE x == Head(Waiters(b))
  <1>1. /\ MayPost(t, b)
        /\ prio' = [prio EXCEPT ![t] = muxPrio[b]]
        /\ UNCHANGED <<muxUsed, basePrio>>
        /\ \/ /\ muxCount' = [muxCount EXCEPT ![b] = 0]
              /\ UNCHANGED <<muxOwner, muxPrio>>
           \/ /\ muxOwner' = [muxOwner EXCEPT ![b] = x]
              /\ muxPrio' = [muxPrio EXCEPT ![b] = prio[x]]
              /\ Waiters(b) # <<>> /\ UNCHANGED muxCount
    BY DEF MuxPostFrees, MuxPostHandsOver
  <1>2. Holds(t, b) /\ t \in Tasks /\ Calls(t) /\ ~fault
    BY <1>1, MuxAssumption DEF Holds, MayPost, Calls, InTask
  <1>3. prio'[t] = basePrio[t] /\ \A u \in Tasks \ {t} : prio'[u] = prio[u]
    <2>1. muxPrio[b] = basePrio[t]
      BY <1>2 DEF BoostInv
    <2> QED BY <1>1, <1>2, <2>1, Facts DEF BoostInv
  <1>4. /\ \A m \in Muxes \ {b} : muxPrio'[m] = muxPrio[m]
        /\ \A m \in Muxes \ {b}, u \in Tasks : Holds(u, m)' <=> Holds(u, m)
    BY <1>1, Facts DEF Holds, BoostInv
  <1>5. \A u \in Tasks : Holds(u, b) => u = t
    BY <1>2 DEF Holds
  <1>6. \A u \in Tasks : Holds(u, b)' => muxPrio'[b] = basePrio[u]
    <2>1. CASE muxCount' = [muxCount EXCEPT ![b] = 0]
      BY <2>1, Facts DEF Holds, BoostInv
    <2>2. CASE /\ muxOwner' = [muxOwner EXCEPT ![b] = x]
               /\ muxPrio' = [muxPrio EXCEPT ![b] = prio[x]]
               /\ Waiters(b) # <<>> /\ UNCHANGED muxCount
      <3>1. PICK y \in Tasks : y = x /\ Linked(list, WaitersOf[b], y)
        BY <2>2, Facts, WaitLists DEF Waiters, BoostInv
      <3>2. /\ muxOwner'[b] = y /\ muxPrio'[b] = prio[y]
            /\ \A u \in Tasks : Holds(u, b)' => u = y
        BY <2>2, <3>1, Facts DEF BoostInv, Holds
      <3>3. Holds(y, b)'
        BY <1>1, <1>2, <2>2, <3>2 DEF Holds
      <3>4. y # t
        <4>1. "PEND" \in status[y]
          BY <1>2, <3>1 DEF BoostInv, MuxInv, LinkedWaits
        <4>2. Waiting(pc[y])
          BY <1>2, <4>1 DEF BoostInv, MuxInv, WaitInv, WaitersOK, Pending, WaitFlags
        <4> QED BY <1>2, <4>2 DEF Calls, Waiting
      <3>5. \A m \in Muxes : ~Holds(y, m)
        <4>1. ~Holds(y, b)
          BY <1>5, <3>4
        <4>2. ASSUME NEW m \in Muxes \ {b}, Holds(y, m) PROVE FALSE
          BY <1>4, <3>3, <4>2 DEF OneAtATime
        <4> QED BY <4>1, <4>2
      <3>6. prio[y] = basePrio[y]
        BY <3>5 DEF BoostInv, BoostEnds
      <3> QED BY <3>2, <3>6
    <2> QED BY <1>1, <2>1, <2>2
  <1>7. \A u \in Tasks : prio'[u] = prio[u] \/ prio'[u] = basePrio[u]
    BY <1>3
  <1>8. \A u \in Tasks : Holds(u, b) => prio'[u] = basePrio[u]
    BY <1>3, <1>5
  <1> QED BY <1>1, <1>4, <1>6, <1>7, <1>8, HoldersMove

LEMMA BoostStep ==
    ASSUME BoostInv, UsersLive, ~NestedIsr, OneAtATime, OneAtATime',
           [MuxNext]_allVars, [OwnersKeepBase]_allVars
    PROVE  BoostInv'
  <1> DEFINE Kept == \A u \in Tasks, m \in Muxes : Holds(u, m) => muxPrio[m] = basePrio[u]
  <1>1. MuxInv'
    BY MuxStep DEF BoostInv
  <1>2. MuxCreators \subseteq Tasks /\ MuxUsers \subseteq Tasks
    BY MuxAssumption
  <1>3. ASSUME UNCHANGED <<prio, basePrio, muxUsed, muxCount, muxOwner, muxPrio>>
        PROVE  BoostEnds' /\ Kept'
    BY <1>3 DEF BoostInv, BoostEnds, Holds
  <1>4. ASSUME OtherCall, OwnersKeepBase PROVE BoostEnds' /\ Kept'
    BY <1>4, OtherCallBoost
  <1>5. ASSUME NEW t \in MuxCreators, LOS_MuxCreate(t) \/ \E m \in Muxes : LOS_MuxDelete(t, m)
        PROVE  BoostEnds' /\ Kept'
    BY <1>2, <1>5, BlockBoost
  <1>6. ASSUME NEW t \in MuxUsers, NEW m \in Muxes,
               \/ LOS_MuxPend(t, m)
               \/ \E n \in Timeouts : MuxPendWaits(t, m, n)
               \/ MuxPostNested(t, m)
               \/ MuxPostFrees(t, m)
               \/ MuxPostHandsOver(t, m)
        PROVE  BoostEnds' /\ Kept'
    BY <1>2, <1>6, PendBoost, KeepBoost, PostBoost
  <1>7. ASSUME NEW t \in MuxUsers, MuxPendReturns(t) PROVE BoostEnds' /\ Kept'
    <2>1. UNCHANGED <<prio, basePrio, muxUsed, muxCount, muxOwner, muxPrio>>
      BY <1>7 DEF MuxPendReturns
    <2> QED BY <1>3, <2>1
  <1>8. BoostEnds' /\ Kept'
    <2>1. CASE UNCHANGED allVars
      BY <1>3, <2>1 DEF allVars, muxVars, taskVars
    <2>2. CASE ~UNCHANGED allVars
      BY <1>4, <1>5, <1>6, <1>7, <2>2 DEF MuxNext, MuxCall
    <2> QED BY <2>1, <2>2
  <1> QED BY <1>1, <1>8 DEF BoostInv

(***************************************************************************)
(* A task that holds no mutex runs at the priority it has of its own: every*)
(* boost ends, through timeouts of the waiter that caused it and nested    *)
(* pends, for tasks that hold one mutex at a time and whose priority nobody*)
(* sets meanwhile.                                                         *)
(***************************************************************************)
THEOREM EveryBoostEnds ==
    ASSUME ~NestedIsr, UsersLive
    PROVE  MuxSpec /\ []OneAtATime /\ [][OwnersKeepBase]_allVars => []BoostEnds
  <1>1. MuxInit => BoostInv
    <2>1. MuxInit => MuxInv
      BY MuxInitInv
    <2>2. MuxInit => basePrio = prio /\ \A t \in Tasks, m \in Muxes : ~Holds(t, m)
      BY DEF MuxInit, Holds
    <2> QED BY <2>1, <2>2 DEF BoostInv, BoostEnds
  <1>2. /\ BoostInv /\ OneAtATime /\ OneAtATime'
        /\ [MuxNext]_allVars /\ [OwnersKeepBase]_allVars
        => BoostInv'
    BY BoostStep
  <1>3. BoostInv => BoostEnds
    BY DEF BoostInv
  <1> QED BY <1>1, <1>2, <1>3, PTL DEF MuxSpec

=============================================================================
