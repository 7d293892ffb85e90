---------------------------- MODULE LosTaskProofs ----------------------------
(***************************************************************************)
(* The inductive invariant of the scheduler and its proof, for any number  *)
(* of tasks, priorities and wait lists, when device interrupts do not      *)
(* preempt the tick handler (with NestedIsr the invariant is false).       *)
(*                                                                         *)
(* The argument is about where the one link node of a task is.  QueuesOK   *)
(* says that the lists agree with the status words and the bitmap with the *)
(* lists.  Every operation takes a task out of the lists it is in, after   *)
(* which the task is Floating, and then puts it where its new status says. *)
(***************************************************************************)
EXTENDS LosTask, LosListTheorems, WellFoundedInduction

-----------------------------------------------------------------------------
(***************************************************************************)
(* The lists q, for status words st and priorities pr.                     *)
(***************************************************************************)
WaitFlags == {"PEND", "PEND_QUEUE"}

InPlace(l, t, flags, p) ==
    /\ \A h \in Prio : Linked(l, h, t) <=> ("READY" \in flags /\ p = h)
    /\ (\E h \in PendLists : Linked(l, h, t)) <=> flags \cap WaitFlags # {}
    /\ (Linked(l, FreeTask, t) \/ Linked(l, RecyleList, t)) <=> "UNUSED" \in flags

WellFormed(q) ==
    /\ q \in [list : [ListHeads -> Seq(Tasks)], bitmap : SUBSET Prio]
    /\ LinkedOnce(q.list)
    /\ \A p \in Prio : p \in q.bitmap <=> q.list[p] # <<>>

QueuesOK(q, st, pr) ==
    /\ WellFormed(q)
    /\ \A t \in Tasks : InPlace(q.list, t, st[t], pr[t])

Floating(q, x, st, pr) ==
    /\ WellFormed(q)
    /\ ~IsLinked(q.list, x)
    /\ \A t \in Tasks \ {x} : InPlace(q.list, t, st[t], pr[t])

(***************************************************************************)
(* What the flags of a status word exclude.                                *)
(***************************************************************************)
ShapeOK ==
    /\ "READY" \notin status[Dummy]
    /\ \A t \in Tasks :
           /\ status[t] \cap (BlockFlags \cup {"READY", "UNUSED"}) # {}
           /\ "READY" \in status[t] => status[t] \cap (BlockFlags \cup {"UNUSED"}) = {}
           /\ "UNUSED" \in status[t] => status[t] \cap BlockFlags = {}
           /\ "DELAY" \in status[t] => status[t] \cap WaitFlags = {}
           /\ ~({"PEND", "PEND_QUEUE"} \subseteq status[t])
           /\ "TIMEOUT" \in status[t] => pc[t] \in {"wait", "woken"}

(***************************************************************************)
(* A task under creation belongs to one creator, and nothing else is said  *)
(* of it but that it is suspended.                                         *)
(***************************************************************************)
HandlesOK ==
    /\ \A t \in Tasks : handle[t] # NoTask <=> pc[t] = "create"
    /\ \A t \in Tasks : handle[t] # NoTask =>
           status[handle[t]] \cap {"READY", "UNUSED", "DELAY", "PEND", "PEND_QUEUE"} = {}
    /\ \A t, u \in Tasks : handle[t] = handle[u] /\ handle[t] # NoTask => t = u

(***************************************************************************)
(* Between ticks no timeout is due; between the two steps of osTaskScan the*)
(* status that was read is that of a task that sleeps or waits with a      *)
(* timeout.                                                                *)
(***************************************************************************)
ScanOK ==
    /\ isr = "none" => NoneDue
    /\ isr = "wake" => /\ scanTask \in Tasks
                       /\ scanStatus = status[scanTask]
                       /\ \/ "DELAY" \in scanStatus
                          \/ "TIMEOUT" \in scanStatus /\ scanStatus \cap WaitFlags # {}

SliceOK == sliceTask # NoTask => sliceLeft > 0

Healthy ==
    /\ QueuesOK(Queues, status, prio)
    /\ ShapeOK
    /\ HandlesOK
    /\ ScanOK
    /\ SliceOK
    /\ TimerMatchesStatus
    /\ Ready(Idle)

(***************************************************************************)
(* The inductive invariant: once the core has faulted it takes no step.    *)
(***************************************************************************)
TaskInv == TaskTypeOK /\ (fault \/ Healthy)

LEMMA SamePlace ==
    ASSUME NEW l, NEW m, NEW t, NEW flags, NEW p, InPlace(m, t, flags, p),
           \A h \in ListHeads : Linked(l, h, t) <=> Linked(m, h, t)
    PROVE  InPlace(l, t, flags, p)
  BY DEF InPlace, ListHeads

-----------------------------------------------------------------------------
(***************************************************************************)
(* Every task can be floated: taken out of a ready queue, out of whatever  *)
(* other list it is in, or as it is when it is in none.                    *)
(***************************************************************************)
LEMMA DequeueFloats ==
    ASSUME NEW q, NEW st, NEW pr, NEW x \in Tasks,
           QueuesOK(q, st, pr), "READY" \in st[x],
           pr[x] \in Prio
    PROVE  Floating(osPriqueueDequeue(q, x, pr[x]), x, st, pr)
  <1> DEFINE d == osPriqueueDequeue(q, x, pr[x])
             l == LOS_ListDelete(q.list, x)
  <1>1. /\ q.list \in [ListHeads -> Seq(Tasks)] /\ q.bitmap \in SUBSET Prio
        /\ LinkedOnce(q.list)
        /\ \A t \in Tasks : InPlace(q.list, t, st[t], pr[t])
        /\ \A p \in Prio : p \in q.bitmap <=> q.list[p] # <<>>
    BY DEF QueuesOK, WellFormed
  <1>2. /\ l \in [ListHeads -> Seq(Tasks)]
        /\ LinkedOnce(l)
        /\ \A h \in ListHeads : \A y : Linked(l, h, y) <=> Linked(q.list, h, y) /\ y # x
        /\ \A h \in ListHeads : ~Linked(q.list, h, x) => l[h] = q.list[h]
    BY <1>1, ListDeleteFacts
  <1>3. d.list = l /\ d.bitmap = IF l[pr[x]] = <<>> THEN q.bitmap \ {pr[x]} ELSE q.bitmap
    BY DEF osPriqueueDequeue
  <1>4. \A p \in Prio : p \in d.bitmap <=> d.list[p] # <<>>
    <2> SUFFICES ASSUME NEW p \in Prio PROVE p \in d.bitmap <=> d.list[p] # <<>>
      OBVIOUS
    <2>1. CASE p = pr[x]
      <3>1. p \in q.bitmap
        BY <1>1, <2>1, EmptyLinksNone DEF InPlace, ListHeads
      <3> QED BY <3>1, <2>1, <1>3
    <2>2. CASE p # pr[x]
      <3>1. ~Linked(q.list, p, x)
        BY <1>1, <2>2 DEF InPlace
      <3>2. p \in ListHeads
        BY DEF ListHeads
      <3> QED BY <1>1, <1>2, <1>3, <2>2, <3>1, <3>2
    <2> QED BY <2>1, <2>2
  <1>5. WellFormed(d)
    <2>1. d = [list |-> d.list, bitmap |-> d.bitmap]
      BY DEF osPriqueueDequeue
    <2>2. d.bitmap \in SUBSET Prio
      BY <1>1, <1>3
    <2> QED BY <2>1, <2>2, <1>2, <1>3, <1>4 DEF WellFormed
  <1>6. ~IsLinked(d.list, x)
    BY <1>2, <1>3 DEF IsLinked
  <1>7. \A t \in Tasks \ {x} : InPlace(d.list, t, st[t], pr[t])
    <2> SUFFICES ASSUME NEW t \in Tasks \ {x} PROVE InPlace(l, t, st[t], pr[t])
      BY <1>3
    <2> QED BY <1>1, <1>2, SamePlace
  <1> QED BY <1>5, <1>6, <1>7 DEF Floating

LEMMA UnlinkFloats ==
    ASSUME NEW q, NEW st, NEW pr, NEW x \in Tasks,
           QueuesOK(q, st, pr), "READY" \notin st[x]
    PROVE  Floating(Unlinked(q, x), x, st, pr)
  <1> DEFINE d == Unlinked(q, x)
             l == LOS_ListDelete(q.list, x)
  <1>1. /\ q \in [list : [ListHeads -> Seq(Tasks)], bitmap : SUBSET Prio]
        /\ LinkedOnce(q.list)
        /\ \A t \in Tasks : InPlace(q.list, t, st[t], pr[t])
        /\ \A p \in Prio : p \in q.bitmap <=> q.list[p] # <<>>
    BY DEF QueuesOK, WellFormed
  <1>2. /\ l \in [ListHeads -> Seq(Tasks)]
        /\ LinkedOnce(l)
        /\ \A h \in ListHeads : \A y : Linked(l, h, y) <=> Linked(q.list, h, y) /\ y # x
        /\ \A h \in ListHeads : ~Linked(q.list, h, x) => l[h] = q.list[h]
    BY <1>1, ListDeleteFacts
  <1>3. d.list = l /\ d.bitmap = q.bitmap /\ d = [list |-> l, bitmap |-> q.bitmap]
    BY <1>1 DEF Unlinked
  <1>4. \A p \in Prio : p \in d.bitmap <=> d.list[p] # <<>>
    <2> SUFFICES ASSUME NEW p \in Prio PROVE l[p] = <<>> <=> q.list[p] = <<>>
      BY <1>1, <1>3
    <2>1. ~Linked(q.list, p, x) /\ p \in ListHeads
      BY <1>1 DEF InPlace, ListHeads
    <2> QED BY <1>2, <2>1
  <1>5. WellFormed(d)
    BY <1>1, <1>2, <1>3, <1>4 DEF WellFormed
  <1>6. ~IsLinked(d.list, x)
    BY <1>2, <1>3 DEF IsLinked
  <1>7. \A t \in Tasks \ {x} : InPlace(d.list, t, st[t], pr[t])
    <2> SUFFICES ASSUME NEW t \in Tasks \ {x} PROVE InPlace(l, t, st[t], pr[t])
      BY <1>3
    <2> QED BY <1>1, <1>2, SamePlace
  <1> QED BY <1>5, <1>6, <1>7 DEF Floating

LEMMA UnlistedFloats ==
    ASSUME NEW q, NEW st, NEW pr, NEW x \in Tasks,
           QueuesOK(q, st, pr), st[x] \cap {"READY", "PEND", "PEND_QUEUE", "UNUSED"} = {}
    PROVE  Floating(q, x, st, pr)
  <1>1. ~IsLinked(q.list, x)
    BY DEF QueuesOK, WellFormed, InPlace, IsLinked, ListHeads, WaitFlags
  <1> QED BY <1>1 DEF QueuesOK, Floating

-----------------------------------------------------------------------------
(***************************************************************************)
(* A floating task can be put where a new status word says.                *)
(***************************************************************************)
LEMMA EnqueuePlaces ==
    ASSUME NEW q, NEW st, NEW pr, NEW x \in Tasks, Floating(q, x, st, pr),
           NEW st2, NEW pr2, NEW p \in Prio,
           \A t \in Tasks \ {x} : st2[t] = st[t] /\ pr2[t] = pr[t],
           pr2[x] = p, "READY" \in st2[x], st2[x] \cap {"PEND", "PEND_QUEUE", "UNUSED"} = {}
    PROVE  QueuesOK(osPriqueueEnqueue(q, x, p), st2, pr2)
  <1> DEFINE d == osPriqueueEnqueue(q, x, p)
             l == LOS_ListTailInsert(q.list, p, x)
  <1>0. p \in ListHeads
    BY DEF ListHeads
  <1>1. /\ q.list \in [ListHeads -> Seq(Tasks)] /\ q.bitmap \in SUBSET Prio
        /\ LinkedOnce(q.list) /\ ~IsLinked(q.list, x)
        /\ \A t \in Tasks \ {x} : InPlace(q.list, t, st[t], pr[t])
        /\ \A r \in Prio : r \in q.bitmap <=> q.list[r] # <<>>
    BY DEF Floating, WellFormed
  <1>2. /\ l \in [ListHeads -> Seq(Tasks)]
        /\ LinkedOnce(l)
        /\ \A h \in ListHeads : \A y :
               Linked(l, h, y) <=> Linked(q.list, h, y) \/ (h = p /\ y = x)
        /\ l[p] # <<>>
        /\ \A h \in ListHeads \ {p} : l[h] = q.list[h]
    BY <1>0, <1>1, TailInsertFacts
  <1>3. d = [list |-> l, bitmap |-> q.bitmap \cup {p}]
    BY DEF osPriqueueEnqueue
  <1>4. \A r \in Prio : r \in d.bitmap <=> d.list[r] # <<>>
    <2> SUFFICES ASSUME NEW r \in Prio PROVE r \in d.bitmap <=> d.list[r] # <<>>
      OBVIOUS
    <2>0. r \in ListHeads
      BY DEF ListHeads
    <2>1. CASE r = p
      BY <2>1, <1>2, <1>3
    <2>2. CASE r # p
      BY <2>0, <2>2, <1>1, <1>2, <1>3
    <2> QED BY <2>1, <2>2
  <1>5. WellFormed(d)
    BY <1>1, <1>2, <1>3, <1>4 DEF WellFormed
  <1>6. ASSUME NEW t \in Tasks PROVE InPlace(l, t, st2[t], pr2[t])
    <2>1. CASE t = x
      <3>1. \A h \in ListHeads : Linked(l, h, x) <=> h = p
        BY <1>1, <1>2 DEF IsLinked
      <3> QED BY <2>1, <3>1, TaskAssumption DEF InPlace, ListHeads, WaitFlags
    <2>2. CASE t # x
      <3>1. \A h \in ListHeads : Linked(l, h, t) <=> Linked(q.list, h, t)
        BY <1>2, <2>2
      <3> QED BY <2>2, <3>1, <1>1, SamePlace
    <2> QED BY <2>1, <2>2
  <1> QED BY <1>3, <1>5, <1>6 DEF QueuesOK

LEMMA OtherListPlaces ==
    ASSUME NEW q, NEW st, NEW pr, NEW x \in Tasks, Floating(q, x, st, pr),
           NEW h \in ListHeads \ Prio, NEW l,
           l \in {LOS_ListTailInsert(q.list, h, x), LOS_ListAdd(q.list, h, x)},
           NEW st2, NEW pr2,
           \A t \in Tasks \ {x} : st2[t] = st[t] /\ pr2[t] = pr[t],
           "READY" \notin st2[x],
           h \in PendLists <=> st2[x] \cap WaitFlags # {},
           h \in {FreeTask, RecyleList} <=> "UNUSED" \in st2[x]
    PROVE  QueuesOK([q EXCEPT !.list = l], st2, pr2)
  <1>1. /\ q \in [list : [ListHeads -> Seq(Tasks)], bitmap : SUBSET Prio]
        /\ LinkedOnce(q.list) /\ ~IsLinked(q.list, x)
        /\ \A t \in Tasks \ {x} : InPlace(q.list, t, st[t], pr[t])
        /\ \A r \in Prio : r \in q.bitmap <=> q.list[r] # <<>>
    BY DEF Floating, WellFormed
  <1>2. /\ l \in [ListHeads -> Seq(Tasks)]
        /\ LinkedOnce(l)
        /\ \A g \in ListHeads : \A y :
               Linked(l, g, y) <=> Linked(q.list, g, y) \/ (g = h /\ y = x)
        /\ \A g \in ListHeads \ {h} : l[g] = q.list[g]
    <2> DEFINE Linking(m) ==
            /\ m \in [ListHeads -> Seq(Tasks)]
            /\ LinkedOnce(m)
            /\ \A g \in ListHeads : \A y :
                   Linked(m, g, y) <=> Linked(q.list, g, y) \/ (g = h /\ y = x)
            /\ \A g \in ListHeads \ {h} : m[g] = q.list[g]
    <2>0. h \in ListHeads /\ q.list \in [ListHeads -> Seq(Tasks)]
      BY <1>1
    <2>1. Linking(LOS_ListTailInsert(q.list, h, x))
      BY <2>0, <1>1, TailInsertFacts
    <2>2. Linking(LOS_ListAdd(q.list, h, x))
      BY <2>0, <1>1, ListAddFacts
    <2> HIDE DEF Linking
    <2>3. Linking(l)
      BY <2>1, <2>2
    <2> QED BY <2>3 DEF Linking
  <1>3. \A r \in Prio : l[r] = q.list[r]
    BY <1>2 DEF ListHeads
  <1>4. WellFormed([q EXCEPT !.list = l])
    BY <1>1, <1>2, <1>3 DEF WellFormed
  <1>5. ASSUME NEW t \in Tasks PROVE InPlace(l, t, st2[t], pr2[t])
    <2>1. CASE t = x
      <3>1. \A g \in ListHeads : Linked(l, g, x) <=> g = h
        BY <1>1, <1>2 DEF IsLinked
      <3> QED BY <2>1, <3>1, TaskAssumption DEF InPlace, ListHeads, WaitFlags
    <2>2. CASE t # x
      <3>1. \A g \in ListHeads : Linked(l, g, t) <=> Linked(q.list, g, t)
        BY <1>2, <2>2
      <3> QED BY <2>2, <3>1, <1>1, SamePlace
    <2> QED BY <2>1, <2>2
  <1>6. [q EXCEPT !.list = l].list = l
    BY <1>1
  <1> QED BY <1>4, <1>5, <1>6 DEF QueuesOK

LEMMA StaysUnlisted ==
    ASSUME NEW q, NEW st, NEW pr, NEW x \in Tasks, Floating(q, x, st, pr),
           NEW st2, NEW pr2,
           \A t \in Tasks \ {x} : st2[t] = st[t] /\ pr2[t] = pr[t],
           st2[x] \cap {"READY", "PEND", "PEND_QUEUE", "UNUSED"} = {}
    PROVE  QueuesOK(q, st2, pr2)
  <1>1. InPlace(q.list, x, st2[x], pr2[x])
    BY TaskAssumption DEF Floating, WellFormed, IsLinked, InPlace, ListHeads, WaitFlags
  <1> QED BY <1>1 DEF Floating, QueuesOK

(***************************************************************************)
(* Flags that say nothing of lists, and the priority of a task that is not *)
(* ready, may change where they like.                                      *)
(***************************************************************************)
LEMMA OtherFlagsChange ==
    ASSUME NEW q, NEW st, NEW pr, QueuesOK(q, st, pr), NEW st2, NEW pr2,
           \A t \in Tasks :
               /\ st2[t] \cap {"READY", "PEND", "PEND_QUEUE", "UNUSED"}
                      = st[t] \cap {"READY", "PEND", "PEND_QUEUE", "UNUSED"}
               /\ "READY" \in st[t] => pr2[t] = pr[t]
    PROVE  QueuesOK(q, st2, pr2)
  <1>1. ASSUME NEW t \in Tasks PROVE InPlace(q.list, t, st2[t], pr2[t])
    <2>1. /\ "READY" \in st2[t] <=> "READY" \in st[t]
          /\ "UNUSED" \in st2[t] <=> "UNUSED" \in st[t]
          /\ "PEND" \in st2[t] <=> "PEND" \in st[t]
          /\ "PEND_QUEUE" \in st2[t] <=> "PEND_QUEUE" \in st[t]
      OBVIOUS
    <2>2. st2[t] \cap WaitFlags # {} <=> st[t] \cap WaitFlags # {}
      BY <2>1 DEF WaitFlags
    <2>3. InPlace(q.list, t, st[t], pr[t])
      BY DEF QueuesOK
    <2> QED BY <2>1, <2>2, <2>3 DEF InPlace
  <1> QED BY <1>1 DEF QueuesOK

(***************************************************************************)
(* As long as some task is ready, osPriqueueTop finds one: the first of the*)
(* highest ready priority.                                                 *)
(***************************************************************************)
LEMMA TopIsTask ==
    ASSUME NEW l, NEW b, NEW st, NEW pr, NEW i \in Tasks,
           QueuesOK([list |-> l, bitmap |-> b], st, pr), "READY" \in st[i], pr[i] \in Prio
    PROVE  /\ l[CHOOSE p \in b : \A r \in b : p <= r][1] \in Tasks
           /\ \E p \in Prio : Linked(l, p, l[CHOOSE q \in b : \A r \in b : q <= r][1])
  <1>1. /\ l \in [ListHeads -> Seq(Tasks)] /\ b \in SUBSET Prio
        /\ \A p \in Prio : p \in b <=> l[p] # <<>>
        /\ InPlace(l, i, st[i], pr[i])
    BY DEF QueuesOK, WellFormed
  <1>2. pr[i] \in b
    BY <1>1, EmptyLinksNone DEF InPlace, ListHeads
  <1> DEFINE top == CHOOSE p \in b : \A r \in b : p <= r
  <1>3. \E p \in b : \A r \in b : p <= r
    <2>1. b \in SUBSET Nat /\ b # {}
      BY <1>1, <1>2 DEF Prio
    <2> QED BY <2>1, NatMinimum
  <1>4. top \in b
    BY <1>3
  <1> HIDE DEF top
  <1>5. top \in Prio /\ top \in ListHeads /\ l[top] # <<>>
    BY <1>1, <1>4 DEF ListHeads
  <1>6. l[top][1] \in Tasks /\ Linked(l, top, l[top][1])
    BY <1>1, <1>5, EmptyLinksNone
  <1> QED BY <1>5, <1>6 DEF top

LEMMA ReclaimKeeps ==
    ASSUME NEW q, NEW st, NEW pr, QueuesOK(q, st, pr)
    PROVE  QueuesOK([q EXCEPT !.list = AddedAll(q.list, FreeTask, RecyleList)], st, pr)
  <1> DEFINE m == AddedAll(q.list, FreeTask, RecyleList)
  <1>1. /\ q \in [list : [ListHeads -> Seq(Tasks)], bitmap : SUBSET Prio]
        /\ q.list \in [ListHeads -> Seq(Tasks)]
        /\ LinkedOnce(q.list)
        /\ \A t \in Tasks : InPlace(q.list, t, st[t], pr[t])
        /\ \A r \in Prio : r \in q.bitmap <=> q.list[r] # <<>>
    BY DEF QueuesOK, WellFormed
  <1>2. FreeTask \in ListHeads /\ RecyleList \in ListHeads /\ FreeTask # RecyleList
    BY TaskAssumption DEF ListHeads
  <1>3. /\ m \in [ListHeads -> Seq(Tasks)]
        /\ LinkedOnce(m)
        /\ \A g \in ListHeads : \A y :
               Linked(m, g, y) <=> g # RecyleList
                   /\ (Linked(q.list, g, y) \/ (g = FreeTask /\ Linked(q.list, RecyleList, y)))
        /\ \A g \in ListHeads \ {FreeTask, RecyleList} : m[g] = q.list[g]
    BY <1>1, <1>2, AddedAllFacts
  <1> HIDE DEF m
  <1>4. \A r \in Prio : m[r] = q.list[r]
    BY <1>3, TaskAssumption DEF ListHeads
  <1>5. WellFormed([q EXCEPT !.list = m])
    BY <1>1, <1>3, <1>4 DEF WellFormed
  <1>6. ASSUME NEW t \in Tasks PROVE InPlace(m, t, st[t], pr[t])
    <2>1. \A h \in Prio \cup PendLists : Linked(m, h, t) <=> Linked(q.list, h, t)
      BY <1>3, TaskAssumption DEF ListHeads
    <2>2. (Linked(m, FreeTask, t) \/ Linked(m, RecyleList, t))
              <=> (Linked(q.list, FreeTask, t) \/ Linked(q.list, RecyleList, t))
      BY <1>2, <1>3
    <2>3. InPlace(q.list, t, st[t], pr[t])
      BY <1>1
    <2> QED BY <2>1, <2>2, <2>3 DEF InPlace
  <1>7. [q EXCEPT !.list = m].list = m
    BY <1>1
  <1> QED BY <1>5, <1>6, <1>7 DEF QueuesOK, m

-----------------------------------------------------------------------------
(***************************************************************************)
(* One lemma per operation: from a healthy state it leads to a healthy or  *)
(* a faulted one.  First what does not touch a list.                       *)
(***************************************************************************)
Good == TaskTypeOK /\ Healthy

LEMMA ScheduleTypes ==
    ASSUME LOS_Schedule, QueuesOK(Queues, status, prio)', Ready(Idle)',
           prio' \in [TCBs -> Prio], pendSV \in BOOLEAN
    PROVE  newTask' \in Tasks /\ pendSV' \in BOOLEAN /\ runTask' = runTask
  <1>1. osPriqueueTop' \in Tasks
    <2>1. QueuesOK([list |-> list', bitmap |-> bitmap'], status', prio')
      BY DEF Queues
    <2>2. Idle \in Tasks /\ "READY" \in status'[Idle] /\ prio'[Idle] \in Prio
      BY TaskAssumption DEF Ready, TCBs
    <2> QED BY <2>1, <2>2, TopIsTask DEF osPriqueueTop
  <1> QED BY <1>1 DEF LOS_Schedule

LEMMA ScheduleStep ==
    ASSUME Good, NEW t \in Tasks, Schedule(t)
    PROVE  Good'
  <1> USE DEF Good, Healthy
  <1>1. /\ UNCHANGED <<list, bitmap, status, prio, timer, taskLock, isr, scanTask, scanStatus,
                      needSched, sliceTask, sliceLeft, handle, fault>>
        /\ LOS_Schedule
        /\ pc' = [pc EXCEPT ![t] = IF pc[t] = "wait" THEN "woken" ELSE "user"]
        /\ pc[t] \in {"sched", "wait"}
    BY DEF Schedule, Scheduling, Goto, listVars, tickVars, scanVars, sliceVars
  <1>2. QueuesOK(Queues, status, prio)' /\ Ready(Idle)'
    BY <1>1 DEF Queues, Ready
  <1>3. newTask' \in Tasks /\ pendSV' \in BOOLEAN /\ runTask' = runTask
    BY <1>1, <1>2, ScheduleTypes DEF TaskTypeOK
  <1>4. TaskTypeOK'
    BY <1>1, <1>3 DEF TaskTypeOK, TimersTypeOK
  <1>5. ShapeOK' /\ HandlesOK'
    BY <1>1 DEF ShapeOK, HandlesOK, TaskTypeOK
  <1>6. ScanOK' /\ SliceOK' /\ TimerMatchesStatus'
    BY <1>1 DEF ScanOK, NoneDue, Due, SliceOK, TimerMatchesStatus, Armed
  <1> QED BY <1>2, <1>4, <1>5, <1>6

LEMMA PendSVStep ==
    ASSUME Good, PendSV_Handler
    PROVE  Good'
  <1> USE DEF Good, Healthy
  <1>1. /\ UNCHANGED <<list, bitmap, prio, timer, newTask, taskLock, isr, scanTask, scanStatus,
                      needSched, sliceTask, sliceLeft, pc, handle, fault>>
        /\ isr = "none"
        /\ runTask' = newTask /\ pendSV' = FALSE
        /\ status' \in [TCBs -> SUBSET Flags]
        /\ \A u \in TCBs : status'[u] \ {"RUNNING"} = status[u] \ {"RUNNING"}
    BY DEF PendSV_Handler, listVars, tickVars, scanVars, sliceVars, callVars, TaskTypeOK, Flags
  <1>2. \A u \in TCBs : \A f : f # "RUNNING" => (f \in status'[u] <=> f \in status[u])
    BY <1>1
  <1>3. QueuesOK(Queues, status', prio')
    <2>1. \A u \in Tasks : status'[u] \cap {"READY", "PEND", "PEND_QUEUE", "UNUSED"}
                               = status[u] \cap {"READY", "PEND", "PEND_QUEUE", "UNUSED"}
      BY <1>2 DEF TCBs
    <2> QED BY <1>1, <2>1, OtherFlagsChange
  <1>4. QueuesOK(Queues, status, prio)' /\ Ready(Idle)'
    BY <1>1, <1>2, <1>3, TaskAssumption DEF Queues, Ready, TCBs
  <1>5. TaskTypeOK'
    BY <1>1 DEF TaskTypeOK, TimersTypeOK, TCBs
  <1>6. ShapeOK'
    BY <1>1, <1>2 DEF ShapeOK, TCBs, BlockFlags, WaitFlags
  <1>7. HandlesOK'
    BY <1>1, <1>2 DEF HandlesOK, TaskTypeOK, TCBs
  <1>8. ScanOK' /\ SliceOK'
    BY <1>1 DEF ScanOK, NoneDue, Due, SliceOK
  <1>9. TimerMatchesStatus'
    BY <1>1, <1>2 DEF TimerMatchesStatus, Armed, TCBs
  <1> QED BY <1>4, <1>5, <1>6, <1>7, <1>8, <1>9

LEMMA LockStep ==
    ASSUME Good, NEW t \in Tasks, LOS_TaskLock(t) \/ LOS_TaskUnlock(t)
    PROVE  Good'
  <1> USE DEF Good, Healthy
  <1>1. /\ UNCHANGED <<list, bitmap, status, prio, timer, runTask, newTask, pendSV, isr, scanTask,
                      scanStatus, needSched, sliceTask, sliceLeft, handle, fault>>
        /\ taskLock' \in Nat
        /\ pc[t] = "user" /\ pc' \in {pc, [pc EXCEPT ![t] = "sched"]}
    BY DEF LOS_TaskLock, LOS_TaskUnlock, Calls, Goto, listVars, cpuVars, tickVars, scanVars,
           sliceVars, callVars, TaskTypeOK
  <1>2. QueuesOK(Queues, status, prio)' /\ Ready(Idle)'
    BY <1>1 DEF Queues, Ready
  <1>3. TaskTypeOK'
    BY <1>1 DEF TaskTypeOK, TimersTypeOK
  <1>4. ShapeOK' /\ HandlesOK'
    BY <1>1 DEF ShapeOK, HandlesOK, TaskTypeOK
  <1>5. ScanOK' /\ SliceOK' /\ TimerMatchesStatus'
    BY <1>1 DEF ScanOK, NoneDue, Due, SliceOK, TimerMatchesStatus, Armed
  <1> QED BY <1>2, <1>3, <1>4, <1>5

-----------------------------------------------------------------------------
(***************************************************************************)
(* Steps of a call between ticks: what they leave alone, and that they let *)
(* no creator, and no waiter with a timeout, forget what it is doing.      *)
(***************************************************************************)
BetweenTicks ==
    /\ isr = "none"
    /\ UNCHANGED <<isr, scanTask, scanStatus, needSched, sliceTask, sliceLeft>>
    /\ pc' \in [Tasks -> {"user", "sched", "create", "wait", "woken"}]

KeepsCalls ==
    /\ UNCHANGED handle
    /\ \A t \in Tasks : /\ pc'[t] = "create" <=> pc[t] = "create"
                        /\ pc[t] \in {"wait", "woken"} /\ "TIMEOUT" \in status[t]
                               => pc'[t] \in {"wait", "woken"}

LEMMA ListTypes ==
    ASSUME QueuesOK(Queues, status, prio)'
    PROVE  list' \in [ListHeads -> Seq(Tasks)] /\ bitmap' \subseteq Prio
  BY DEF QueuesOK, WellFormed, Queues

LEMMA CallKeeps ==
    ASSUME TaskTypeOK, NEW t \in Tasks, pc[t] = "user", UNCHANGED handle,
           pc' \in {pc, [pc EXCEPT ![t] = "sched"]}
    PROVE  KeepsCalls /\ pc' \in [Tasks -> {"user", "sched", "create", "wait", "woken"}]
  BY DEF KeepsCalls, TaskTypeOK

LEMMA SuspendedEffect ==
    ASSUME Good, NEW x \in Tasks \ {Idle}, CanSuspend(x), Suspended(x),
           UNCHANGED <<prio, timer>>, BetweenTicks, KeepsCalls
    PROVE  Healthy' /\ status' \in [TCBs -> SUBSET Flags]
  <1> USE DEF Good, Healthy
  <1>1. /\ x \in TCBs /\ status \in [TCBs -> SUBSET Flags] /\ prio \in [TCBs -> Prio]
        /\ status' = [status EXCEPT ![x] = (@ \ {"READY"}) \cup {"SUSPEND"}]
        /\ "UNUSED" \notin status[x]
        /\ \A t \in Tasks : handle[t] # x
    BY DEF CanSuspend, Suspended, Known, TaskTypeOK, TCBs
  <1>2. status' \in [TCBs -> SUBSET Flags]
    BY <1>1 DEF Flags
  <1>3. QueuesOK(Queues', status', prio')
    <2>1. CASE Ready(x)
      <3> DEFINE d == osPriqueueDequeue(Queues, x, prio[x])
      <3>1. Floating(d, x, status, prio)
        BY <1>1, <2>1, DequeueFloats DEF Ready
      <3>2. status'[x] \cap {"READY", "PEND", "PEND_QUEUE", "UNUSED"} = {}
        BY <1>1, <2>1 DEF ShapeOK, Ready, BlockFlags
      <3>3. QueuesOK(d, status', prio')
        BY <1>1, <3>1, <3>2, StaysUnlisted DEF TCBs
      <3>4. Queues' = d
        BY <2>1 DEF Suspended, Become, Queues, osPriqueueDequeue
      <3> QED BY <3>3, <3>4
    <2>2. CASE ~Ready(x)
      <3>1. Queues' = Queues
        BY <2>2 DEF Suspended, listVars, Queues
      <3>2. QueuesOK(Queues, status', prio')
        BY <1>1, <2>2, OtherFlagsChange, ZenonT(60) DEF Ready, TCBs
      <3> QED BY <3>1, <3>2
    <2> QED BY <2>1, <2>2
  <1>4. ShapeOK'
    BY <1>1, TaskAssumption, ZenonT(60) DEF ShapeOK, BlockFlags, WaitFlags, TCBs, KeepsCalls
  <1>5. HandlesOK'
    BY <1>1 DEF HandlesOK, TaskTypeOK, KeepsCalls, TCBs
  <1>6. ScanOK' /\ SliceOK'
    BY DEF ScanOK, SliceOK, BetweenTicks, NoneDue, Due
  <1>7. TimerMatchesStatus'
    BY <1>1 DEF TimerMatchesStatus, BetweenTicks, Armed, TCBs
  <1>8. Ready(Idle)'
    BY <1>1, TaskAssumption DEF Ready, TCBs
  <1> QED BY <1>2, <1>3, <1>4, <1>5, <1>6, <1>7, <1>8

LEMMA SuspendStep ==
    ASSUME Good, NEW t \in Tasks, NEW x \in Tasks \ {Idle}, LOS_TaskSuspend(t, x)
    PROVE  Good'
  <1>1. /\ UNCHANGED <<prio, timer, runTask, newTask, pendSV, taskLock, handle, fault>>
        /\ UNCHANGED <<isr, scanTask, scanStatus, needSched, sliceTask, sliceLeft>>
        /\ isr = "none" /\ pc[t] = "user"
        /\ CanSuspend(x) /\ Suspended(x)
        /\ pc' \in {pc, [pc EXCEPT ![t] = "sched"]}
    BY DEF LOS_TaskSuspend, Calls, InTask, Goto, cpuVars, tickVars, scanVars, sliceVars
  <1>2. BetweenTicks /\ KeepsCalls
    BY <1>1, CallKeeps DEF BetweenTicks, Good
  <1>3. Healthy' /\ status' \in [TCBs -> SUBSET Flags]
    BY <1>1, <1>2, SuspendedEffect
  <1>4. TaskTypeOK'
    BY <1>1, <1>2, <1>3, ListTypes DEF Good, Healthy, TaskTypeOK, TimersTypeOK, BetweenTicks
  <1> QED BY <1>3, <1>4 DEF Good

LEMMA IsrSuspendStep ==
    ASSUME Good, ~NestedIsr, NEW x \in Tasks \ {Idle}, IsrTaskSuspend(x)
    PROVE  Good'
  <1>1. /\ UNCHANGED <<prio, timer, taskLock, handle, fault, pc>>
        /\ UNCHANGED <<isr, scanTask, scanStatus, needSched, sliceTask, sliceLeft>>
        /\ isr = "none"
        /\ CanSuspend(x) /\ Suspended(x)
        /\ LOS_Schedule \/ UNCHANGED <<runTask, newTask, pendSV>>
    BY DEF IsrTaskSuspend, InIsr, cpuVars, tickVars, scanVars, sliceVars, callVars
  <1>2. BetweenTicks /\ KeepsCalls
    BY <1>1 DEF BetweenTicks, KeepsCalls, Good, TaskTypeOK
  <1>3. Healthy' /\ status' \in [TCBs -> SUBSET Flags]
    BY <1>1, <1>2, SuspendedEffect
  <1>4. newTask' \in Tasks /\ pendSV' \in BOOLEAN /\ runTask' = runTask
    BY <1>1, <1>3, ScheduleTypes DEF Good, Healthy, TaskTypeOK
  <1>5. TaskTypeOK'
    BY <1>1, <1>3, <1>4, ListTypes DEF Good, Healthy, TaskTypeOK, TimersTypeOK
  <1> QED BY <1>3, <1>5 DEF Good

LEMMA ResumedEffect ==
    ASSUME Good, NEW x \in Tasks, CanResume(x), Resumed(x),
           UNCHANGED <<prio, timer>>, BetweenTicks, KeepsCalls
    PROVE  Healthy' /\ status' \in [TCBs -> SUBSET Flags]
  <1> USE DEF Good, Healthy
  <1> DEFINE rest == status[x] \ {"SUSPEND"}
  <1>1. /\ x \in TCBs /\ status \in [TCBs -> SUBSET Flags] /\ prio \in [TCBs -> Prio]
        /\ status' = [status EXCEPT ![x] = IF rest \cap BlockFlags = {}
                                           THEN rest \cup {"READY"} ELSE rest]
        /\ "UNUSED" \notin status[x] /\ "READY" \notin status[x]
        /\ \A t \in Tasks : handle[t] # x
    BY DEF CanResume, Resumed, Known, TaskTypeOK, TCBs, ShapeOK, BlockFlags
  <1>2. status' \in [TCBs -> SUBSET Flags]
    BY <1>1 DEF Flags
  <1>3. QueuesOK(Queues', status', prio')
    <2>1. CASE rest \cap BlockFlags = {}
      <3> DEFINE d == osPriqueueEnqueue(Queues, x, prio[x])
      <3>1. status[x] \cap {"READY", "PEND", "PEND_QUEUE", "UNUSED"} = {}
        BY <1>1, <2>1 DEF BlockFlags
      <3>2. Floating(Queues, x, status, prio)
        BY <3>1, UnlistedFloats
      <3>3. /\ "READY" \in status'[x] /\ prio[x] \in Prio
            /\ status'[x] \cap {"PEND", "PEND_QUEUE", "UNUSED"} = {}
            /\ \A t \in Tasks \ {x} : status'[t] = status[t] /\ prio'[t] = prio[t]
        BY <1>1, <2>1, <3>1 DEF TCBs
      <3>4. QueuesOK(d, status', prio')
        BY <3>2, <3>3, EnqueuePlaces
      <3>5. Queues' = d
        BY <2>1 DEF Resumed, Become, Queues, osPriqueueEnqueue
      <3> QED BY <3>4, <3>5
    <2>2. CASE rest \cap BlockFlags # {}
      <3>1. Queues' = Queues
        BY <2>2 DEF Resumed, listVars, Queues
      <3>2. QueuesOK(Queues, status', prio')
        BY <1>1, <2>2, OtherFlagsChange DEF TCBs
      <3> QED BY <3>1, <3>2
    <2> QED BY <2>1, <2>2
  <1>4. ShapeOK'
    BY <1>1, TaskAssumption DEF ShapeOK, BlockFlags, WaitFlags, TCBs, KeepsCalls
  <1>5. HandlesOK'
    BY <1>1 DEF HandlesOK, TaskTypeOK, KeepsCalls, TCBs
  <1>6. ScanOK' /\ SliceOK'
    BY DEF ScanOK, SliceOK, BetweenTicks, NoneDue, Due
  <1>7. TimerMatchesStatus'
    BY <1>1 DEF TimerMatchesStatus, BetweenTicks, Armed, TCBs
  <1>8. Ready(Idle)'
    BY <1>1, TaskAssumption DEF Ready, TCBs
  <1> QED BY <1>2, <1>3, <1>4, <1>5, <1>6, <1>7, <1>8

LEMMA ResumeStep ==
    ASSUME Good, NEW t \in Tasks, NEW x \in Tasks, LOS_TaskResume(t, x)
    PROVE  Good'
  <1>1. /\ UNCHANGED <<prio, timer, runTask, newTask, pendSV, taskLock, handle, fault>>
        /\ UNCHANGED <<isr, scanTask, scanStatus, needSched, sliceTask, sliceLeft>>
        /\ isr = "none" /\ pc[t] = "user"
        /\ CanResume(x) /\ Resumed(x)
        /\ pc' \in {pc, [pc EXCEPT ![t] = "sched"]}
    BY DEF LOS_TaskResume, Calls, InTask, Goto, cpuVars, tickVars, scanVars, sliceVars
  <1>2. BetweenTicks /\ KeepsCalls
    BY <1>1, CallKeeps DEF BetweenTicks, Good
  <1>3. Healthy' /\ status' \in [TCBs -> SUBSET Flags]
    BY <1>1, <1>2, ResumedEffect
  <1>4. TaskTypeOK'
    BY <1>1, <1>2, <1>3, ListTypes DEF Good, Healthy, TaskTypeOK, TimersTypeOK, BetweenTicks
  <1> QED BY <1>3, <1>4 DEF Good

LEMMA IsrResumeStep ==
    ASSUME Good, ~NestedIsr, NEW x \in Tasks, IsrTaskResume(x)
    PROVE  Good'
  <1>1. /\ UNCHANGED <<prio, timer, taskLock, handle, fault, pc>>
        /\ UNCHANGED <<isr, scanTask, scanStatus, needSched, sliceTask, sliceLeft>>
        /\ isr = "none"
        /\ CanResume(x) /\ Resumed(x)
        /\ LOS_Schedule \/ UNCHANGED <<runTask, newTask, pendSV>>
    BY DEF IsrTaskResume, InIsr, cpuVars, tickVars, scanVars, sliceVars, callVars
  <1>2. BetweenTicks /\ KeepsCalls
    BY <1>1 DEF BetweenTicks, KeepsCalls, Good, TaskTypeOK
  <1>3. Healthy' /\ status' \in [TCBs -> SUBSET Flags]
    BY <1>1, <1>2, ResumedEffect
  <1>4. newTask' \in Tasks /\ pendSV' \in BOOLEAN /\ runTask' = runTask
    BY <1>1, <1>3, ScheduleTypes DEF Good, Healthy, TaskTypeOK
  <1>5. TaskTypeOK'
    BY <1>1, <1>3, <1>4, ListTypes DEF Good, Healthy, TaskTypeOK, TimersTypeOK
  <1> QED BY <1>3, <1>5 DEF Good

-----------------------------------------------------------------------------
(***************************************************************************)
(* Creation: a control block goes from the free list to no list, and then  *)
(* to a ready queue.                                                       *)
(***************************************************************************)
LEMMA CreateFailsStep ==
    ASSUME Good, NEW t \in Tasks, LOS_TaskCreateFails(t)
    PROVE  Good'
  <1> USE DEF Good, Healthy
  <1>1. /\ UNCHANGED <<bitmap, status, prio, timer, runTask, newTask, pendSV, taskLock, isr,
                      scanTask, scanStatus, needSched, sliceTask, sliceLeft, pc, handle, fault>>
        /\ list' = Reclaimed
    BY DEF LOS_TaskCreateFails, cpuVars, tickVars, scanVars, sliceVars, callVars
  <1>2. QueuesOK(Queues, status, prio)'
    <2>1. Queues' = [Queues EXCEPT !.list = AddedAll(Queues.list, FreeTask, RecyleList)]
      BY <1>1 DEF Queues, Reclaimed
    <2>2. QueuesOK(Queues', status, prio)
      BY <2>1, ReclaimKeeps
    <2> QED BY <2>2, <1>1
  <1>3. TaskTypeOK'
    BY <1>1, <1>2, ListTypes DEF TaskTypeOK, TimersTypeOK
  <1>4. ShapeOK' /\ HandlesOK' /\ ScanOK' /\ SliceOK' /\ TimerMatchesStatus' /\ Ready(Idle)'
    BY <1>1 DEF ShapeOK, HandlesOK, ScanOK, NoneDue, Due, SliceOK, TimerMatchesStatus, Armed, Ready
  <1> QED BY <1>2, <1>3, <1>4

LEMMA CreateOnlyStep ==
    ASSUME Good, NEW t \in Tasks, NEW p \in Prio, NEW next \in {"create", "user"},
           LOS_TaskCreateOnly(t, p, next)
    PROVE  Good'
  <1> USE DEF Good, Healthy
  <1> DEFINE x == Head(Reclaimed[FreeTask])
             r == [Queues EXCEPT !.list = AddedAll(Queues.list, FreeTask, RecyleList)]
  <1>1. /\ UNCHANGED <<bitmap, timer, runTask, newTask, pendSV, taskLock, isr,
                      scanTask, scanStatus, needSched, sliceTask, sliceLeft, fault>>
        /\ isr = "none" /\ pc[t] = "user"
        /\ Reclaimed[FreeTask] # <<>>
        /\ list' = LOS_ListDelete(Reclaimed, x)
        /\ status' = [status EXCEPT ![x] = {"SUSPEND"}]
        /\ prio' = [prio EXCEPT ![x] = p]
        /\ handle' = IF next = "create" THEN [handle EXCEPT ![t] = x] ELSE handle
        /\ pc' = [pc EXCEPT ![t] = next]
    BY DEF LOS_TaskCreateOnly, Calls, InTask, cpuVars, tickVars, scanVars, sliceVars
  <1>2. QueuesOK(r, status, prio) /\ r = [list |-> Reclaimed, bitmap |-> bitmap]
    BY ReclaimKeeps DEF Queues, Reclaimed
  <1>3. Reclaimed \in [ListHeads -> Seq(Tasks)] /\ FreeTask \in ListHeads
    BY <1>2 DEF QueuesOK, WellFormed, ListHeads
  <1>4. x \in Tasks /\ Linked(Reclaimed, FreeTask, x) /\ x = Reclaimed[FreeTask][1]
    BY <1>1, <1>3, EmptyLinksNone
  <1>5. "UNUSED" \in status[x] /\ "READY" \notin status[x] /\ status[x] \cap BlockFlags = {}
    BY <1>2, <1>4 DEF QueuesOK, InPlace, ShapeOK
  <1> HIDE DEF x
  <1>6. QueuesOK(Queues, status, prio)'
    <2>1. Floating(Unlinked(r, x), x, status, prio)
      BY <1>2, <1>4, <1>5, UnlinkFloats
    <2>2. Queues' = Unlinked(r, x)
      <3>1. Unlinked([list |-> Reclaimed, bitmap |-> bitmap], x)
                = [list |-> LOS_ListDelete(Reclaimed, x), bitmap |-> bitmap]
        BY DEF Unlinked
      <3> HIDE DEF r
      <3> QED BY <3>1, <1>1, <1>2 DEF Queues
    <2>3. /\ status'[x] \cap {"READY", "PEND", "PEND_QUEUE", "UNUSED"} = {}
          /\ \A u \in Tasks \ {x} : status'[u] = status[u] /\ prio'[u] = prio[u]
      BY <1>1, <1>4 DEF TaskTypeOK, TCBs
    <2>4. QueuesOK(Unlinked(r, x), status', prio')
      BY <2>1, <2>3, <1>4, StaysUnlisted
    <2> QED BY <2>2, <2>4
  <1>7. TaskTypeOK'
    <2>1. status' \in [TCBs -> SUBSET Flags] /\ prio' \in [TCBs -> Prio]
      BY <1>1, <1>4 DEF TaskTypeOK, Flags
    <2>2. /\ handle' \in [Tasks -> Tasks \cup {NoTask}]
          /\ pc' \in [Tasks -> {"user", "sched", "create", "wait", "woken"}]
      BY <1>1, <1>4 DEF TaskTypeOK
    <2> QED BY <2>1, <2>2, <1>1, <1>6, ListTypes DEF TaskTypeOK, TimersTypeOK
  <1>8. ShapeOK'
    BY <1>1, <1>4, TaskAssumption DEF ShapeOK, TaskTypeOK, BlockFlags, WaitFlags, TCBs
  <1>9. HandlesOK'
    <2>1. \A u \in Tasks : handle[u] # x
      BY <1>4, <1>5, TaskAssumption DEF HandlesOK
    <2>2. x # NoTask
      BY <1>4, TaskAssumption
    <2>3. ASSUME NEW u \in Tasks PROVE handle'[u] # NoTask <=> pc'[u] = "create"
      BY <1>1, <2>2 DEF HandlesOK, TaskTypeOK
    <2>4. ASSUME NEW u \in Tasks, handle'[u] # NoTask
          PROVE  status'[handle'[u]] \cap {"READY", "UNUSED", "DELAY", "PEND", "PEND_QUEUE"} = {}
      <3>1. CASE handle'[u] = x
        BY <3>1, <1>1, <1>4 DEF TaskTypeOK, TCBs
      <3>2. CASE handle'[u] # x
        <4>1. handle'[u] = handle[u]
          BY <3>2, <1>1 DEF TaskTypeOK
        <4> QED BY <4>1, <3>2, <2>4, <1>1, <1>4 DEF HandlesOK, TaskTypeOK, TCBs
      <3> QED BY <3>1, <3>2
    <2>5. ASSUME NEW u \in Tasks, NEW v \in Tasks, handle'[u] = handle'[v], handle'[u] # NoTask
          PROVE  u = v
      BY <2>1, <2>5, <1>1 DEF HandlesOK, TaskTypeOK
    <2> QED BY <2>3, <2>4, <2>5 DEF HandlesOK
  <1>10. ScanOK' /\ SliceOK'
    BY <1>1 DEF ScanOK, SliceOK, NoneDue, Due
  <1>11. TimerMatchesStatus'
    <2>1. status[x] \cap {"DELAY", "PEND", "PEND_QUEUE"} = {}
      BY <1>5 DEF BlockFlags
    <2> QED BY <1>1, <1>4, <2>1 DEF TimerMatchesStatus, Armed, TaskTypeOK, TCBs
  <1>12. Ready(Idle)'
    BY <1>1, <1>4, <1>5, TaskAssumption DEF Ready, TaskTypeOK, TCBs
  <1> QED BY <1>6, <1>7, <1>8, <1>9, <1>10, <1>11, <1>12

LEMMA CreateStep ==
    ASSUME Good, NEW t \in Tasks, LOS_TaskCreate(t)
    PROVE  Good'
  <1> USE DEF Good, Healthy
  <1> DEFINE x == handle[t]
  <1>1. /\ UNCHANGED <<prio, timer, taskLock, isr, scanTask, scanStatus, needSched, sliceTask,
                      sliceLeft, fault>>
        /\ isr = "none" /\ pc[t] = "create"
        /\ status' = [status EXCEPT ![x] = (@ \ {"SUSPEND"}) \cup {"READY"}]
        /\ Become(osPriqueueEnqueue(Queues, x, prio[x]))
        /\ LOS_Schedule
        /\ handle' = [handle EXCEPT ![t] = NoTask]
        /\ pc' = [pc EXCEPT ![t] = "user"]
    BY DEF LOS_TaskCreate, InTask, Goto, tickVars, scanVars, sliceVars
  <1>2. /\ x \in Tasks /\ x \in TCBs
        /\ status[x] \cap {"READY", "UNUSED", "DELAY", "PEND", "PEND_QUEUE"} = {}
        /\ \A u \in Tasks \ {t} : handle[u] # x
    BY <1>1 DEF HandlesOK, TaskTypeOK, TCBs
  <1>3. status \in [TCBs -> SUBSET Flags] /\ prio \in [TCBs -> Prio]
    BY DEF TaskTypeOK
  <1> HIDE DEF x
  <1>4. QueuesOK(Queues, status, prio)'
    <2> DEFINE d == osPriqueueEnqueue(Queues, x, prio[x])
    <2>1. Floating(Queues, x, status, prio)
      BY <1>2, UnlistedFloats
    <2>2. /\ "READY" \in status'[x] /\ prio[x] \in Prio /\ prio'[x] = prio[x]
          /\ status'[x] \cap {"PEND", "PEND_QUEUE", "UNUSED"} = {}
          /\ \A u \in Tasks \ {x} : status'[u] = status[u] /\ prio'[u] = prio[u]
      BY <1>1, <1>2, <1>3 DEF TCBs
    <2>3. QueuesOK(d, status', prio')
      BY <1>2, <2>1, <2>2, EnqueuePlaces
    <2>4. Queues' = d
      BY <1>1 DEF Become, Queues, osPriqueueEnqueue
    <2> QED BY <2>3, <2>4
  <1>5. Ready(Idle)'
    BY <1>1, <1>2, <1>3, TaskAssumption DEF Ready, TCBs
  <1>6. newTask' \in Tasks /\ pendSV' \in BOOLEAN /\ runTask' = runTask
    BY <1>1, <1>4, <1>5, ScheduleTypes DEF TaskTypeOK
  <1>7. TaskTypeOK'
    <2>1. status' \in [TCBs -> SUBSET Flags]
      BY <1>1, <1>3 DEF Flags
    <2>2. /\ handle' \in [Tasks -> Tasks \cup {NoTask}]
          /\ pc' \in [Tasks -> {"user", "sched", "create", "wait", "woken"}]
      BY <1>1 DEF TaskTypeOK
    <2> QED BY <2>1, <2>2, <1>1, <1>4, <1>6, ListTypes DEF TaskTypeOK, TimersTypeOK
  <1>8. ShapeOK'
    BY <1>1, <1>2, <1>3, TaskAssumption DEF ShapeOK, TaskTypeOK, BlockFlags, WaitFlags, TCBs
  <1>9. HandlesOK'
    BY <1>1, <1>2, <1>3 DEF HandlesOK, TaskTypeOK, TCBs
  <1>10. ScanOK' /\ SliceOK'
    BY <1>1 DEF ScanOK, SliceOK, NoneDue, Due
  <1>11. TimerMatchesStatus'
    BY <1>1, <1>2, <1>3 DEF TimerMatchesStatus, Armed, TCBs
  <1> QED BY <1>4, <1>5, <1>7, <1>8, <1>9, <1>10, <1>11

-----------------------------------------------------------------------------
(***************************************************************************)
(* Deletion: wherever the task is, it goes to the free or the recycle list.*)
(***************************************************************************)
LEMMA DeletedEffect ==
    ASSUME Good, NEW x \in Tasks \ {Idle}, isr = "none", CanDelete(x), Deleted(x)
    PROVE  Good'
  <1> USE DEF Good, Healthy
  <1> DEFINE running == "RUNNING" \in status[x]
             linked  == status[x] \cap {"PEND", "PEND_QUEUE"} # {}
             out     == IF Ready(x) THEN osPriqueueDequeue(Queues, x, prio[x])
                        ELSE IF linked THEN Unlinked(Queues, x) ELSE Queues
             h       == IF running THEN RecyleList ELSE FreeTask
             l       == IF running THEN LOS_ListTailInsert(out.list, RecyleList, x)
                                   ELSE LOS_ListAdd(out.list, FreeTask, x)
  <1>1. /\ UNCHANGED <<prio, isr, scanTask, scanStatus, needSched, sliceTask, sliceLeft>>
        /\ timer' = IF status[x] \cap {"DELAY", "TIMEOUT"} # {} THEN Disarm(x) ELSE timer
        /\ status' = [status EXCEPT ![x] = {"UNUSED"},
                                    ![Dummy] = IF running
                                               THEN (status[x] \ {"READY", "SUSPEND"}) \cup {"UNUSED"}
                                               ELSE @]
        /\ newTask' = osPriqueueTop'
        /\ runTask' = IF running THEN Dummy ELSE runTask
        /\ pendSV' = (pendSV \/ running)
        /\ taskLock' = IF running THEN 0 ELSE taskLock
        /\ pc' = [pc EXCEPT ![x] = "user"]
        /\ handle' = [handle EXCEPT ![x] = NoTask]
        /\ fault' \in BOOLEAN
        /\ Become([out EXCEPT !.list = IF running THEN LOS_ListTailInsert(@, RecyleList, x)
                                                  ELSE LOS_ListAdd(@, FreeTask, x)])
    BY DEF Deleted, Timed, OnPendList, Goto, tickVars, scanVars, sliceVars
  <1>2. /\ x \in TCBs /\ x # Dummy /\ Dummy \in TCBs
        /\ status \in [TCBs -> SUBSET Flags] /\ prio \in [TCBs -> Prio]
        /\ "UNUSED" \notin status[x]
        /\ \A t \in Tasks : handle[t] # x
    BY TaskAssumption DEF CanDelete, Known, TaskTypeOK, TCBs
  <1>3. /\ status'[x] = {"UNUSED"}
        /\ \A t \in Tasks \ {x} : status'[t] = status[t]
        /\ status' \in [TCBs -> SUBSET Flags]
        /\ "READY" \notin status'[Dummy]
    BY <1>1, <1>2, TaskAssumption DEF TCBs, Flags, ShapeOK
  <1>4. Floating(out, x, status, prio)
    <2>1. CASE Ready(x)
      <3>1. Floating(osPriqueueDequeue(Queues, x, prio[x]), x, status, prio)
        BY <1>2, <2>1, DequeueFloats DEF Ready
      <3> QED BY <2>1, <3>1
    <2>2. CASE ~Ready(x) /\ linked
      <3>1. Floating(Unlinked(Queues, x), x, status, prio)
        BY <2>2, UnlinkFloats DEF Ready
      <3> QED BY <2>2, <3>1
    <2>3. CASE ~Ready(x) /\ ~linked
      <3>1. status[x] \cap {"READY", "PEND", "PEND_QUEUE", "UNUSED"} = {}
        BY <2>3, <1>2 DEF Ready
      <3>2. Floating(Queues, x, status, prio)
        BY <3>1, UnlistedFloats
      <3> QED BY <2>3, <3>2
    <2> QED BY <2>1, <2>2, <2>3
  <1> HIDE DEF out
  <1>5. QueuesOK(Queues, status, prio)'
    <2>1. /\ h \in ListHeads \ Prio /\ h \notin PendLists
          /\ h \in {FreeTask, RecyleList}
      BY TaskAssumption DEF ListHeads
    <2>2. l \in {LOS_ListTailInsert(out.list, h, x), LOS_ListAdd(out.list, h, x)}
      OBVIOUS
    <2> HIDE DEF l, h
    <2>3. QueuesOK([out EXCEPT !.list = l], status', prio')
      <3>1. \A t \in Tasks \ {x} : status'[t] = status[t] /\ prio'[t] = prio[t]
        BY <1>1, <1>3
      <3>2. /\ "READY" \notin status'[x]
            /\ status'[x] \cap WaitFlags = {}
            /\ "UNUSED" \in status'[x]
        BY <1>3 DEF WaitFlags
      <3> QED BY <1>4, <2>1, <2>2, <3>1, <3>2, OtherListPlaces
    <2>4. Queues' = [out EXCEPT !.list = l]
      <3>1. out \in [list : [ListHeads -> Seq(Tasks)], bitmap : SUBSET Prio]
        BY <1>4 DEF Floating, WellFormed
      <3>2. list' = l /\ bitmap' = out.bitmap
        BY <1>1, <3>1 DEF Become, l
      <3> QED BY <3>1, <3>2 DEF Queues
    <2> QED BY <2>3, <2>4
  <1> HIDE DEF l, h, linked
  <1>6. Ready(Idle)'
    BY <1>2, <1>3, TaskAssumption DEF Ready, TCBs
  <1>7. newTask' \in Tasks
    <2>1. QueuesOK([list |-> list', bitmap |-> bitmap'], status', prio')
      BY <1>5 DEF Queues
    <2>2. Idle \in Tasks /\ "READY" \in status'[Idle] /\ prio'[Idle] \in Prio
      BY <1>1, <1>2, <1>6, TaskAssumption DEF Ready, TCBs
    <2> QED BY <1>1, <2>1, <2>2, TopIsTask DEF osPriqueueTop
  <1>8. timer' \in [Tasks -> Nat \cup {Off}] /\ \A t \in Tasks \ {x} : timer'[t] = timer[t]
    BY <1>1 DEF Disarm, TaskTypeOK, TimersTypeOK
  <1>9. timer'[x] = Off
    <2>1. CASE status[x] \cap {"DELAY", "TIMEOUT"} # {}
      BY <1>1, <2>1 DEF Disarm, TaskTypeOK, TimersTypeOK
    <2>2. CASE status[x] \cap {"DELAY", "TIMEOUT"} = {}
      BY <1>1, <2>2 DEF TimerMatchesStatus, Armed
    <2> QED BY <2>1, <2>2
  <1>10. TaskTypeOK'
    <2>1. /\ handle' \in [Tasks -> Tasks \cup {NoTask}]
          /\ pc' \in [Tasks -> {"user", "sched", "create", "wait", "woken"}]
      BY <1>1 DEF TaskTypeOK
    <2>2. runTask' \in TCBs /\ pendSV' \in BOOLEAN /\ taskLock' \in Nat
      BY <1>1, <1>2 DEF TaskTypeOK
    <2> QED BY <1>1, <1>3, <1>5, <1>7, <1>8, <2>1, <2>2, ListTypes DEF TaskTypeOK, TimersTypeOK
  <1>11. /\ \A t \in Tasks \ {x} : pc'[t] = pc[t] /\ handle'[t] = handle[t]
         /\ pc'[x] = "user" /\ handle'[x] = NoTask
    BY <1>1 DEF TaskTypeOK
  <1>12. ShapeOK'
    BY <1>3, <1>11 DEF ShapeOK, BlockFlags, WaitFlags
  <1>13. HandlesOK'
    <2>1. \A t \in Tasks : handle'[t] # NoTask => t # x /\ handle'[t] = handle[t] /\ handle[t] # x
                                                  /\ handle[t] \in Tasks
      BY <1>2, <1>11 DEF TaskTypeOK
    <2>2. \A t \in Tasks : handle'[t] # NoTask => status'[handle'[t]] = status[handle[t]]
      BY <1>3, <2>1
    <2> QED BY <1>11, <2>1, <2>2 DEF HandlesOK
  <1>14. ScanOK' /\ SliceOK'
    BY <1>1, <1>8, <1>9 DEF ScanOK, SliceOK, NoneDue, Due, Off
  <1>15. TimerMatchesStatus'
    <2>1. ASSUME NEW t \in Tasks \ {x} PROVE timer'[t] = timer[t] /\ status'[t] = status[t]
      BY <1>3, <1>8
    <2>2. isr' # "wake" /\ isr # "wake"
      BY <1>1
    <2> QED BY <1>3, <1>9, <2>1, <2>2 DEF TimerMatchesStatus, Armed
  <1> QED BY <1>15, <1>5, <1>6, <1>10, <1>11, <1>12, <1>13, <1>14

LEMMA DeleteStep ==
    ASSUME Good, NEW x \in Tasks \ {Idle},
           (\E t \in Tasks : LOS_TaskDelete(t, x)) \/ (~NestedIsr /\ IsrTaskDelete(x))
    PROVE  Good'
  <1>1. isr = "none" /\ CanDelete(x) /\ Deleted(x)
    BY DEF LOS_TaskDelete, IsrTaskDelete, Calls, InTask, InIsr
  <1> QED BY <1>1, DeletedEffect

-----------------------------------------------------------------------------
(***************************************************************************)
(* A task that goes to sleep while it is in no ready queue (an interrupt   *)
(* suspended it, and it runs) makes the core fault; otherwise it leaves    *)
(* the ready queue for the timer list.                                     *)
(***************************************************************************)
LEMMA DelayStep ==
    ASSUME Good, NEW t \in Tasks, NEW n \in Delays, LOS_TaskDelay(t, n)
    PROVE  TaskTypeOK' /\ (fault' \/ Healthy')
  <1> USE DEF Good, Healthy
  <1> DEFINE d == osPriqueueDequeue(Queues, t, prio[t])
  <1>1. /\ UNCHANGED <<prio, runTask, newTask, pendSV, taskLock, isr, scanTask, scanStatus,
                      needSched, sliceTask, sliceLeft, handle>>
        /\ isr = "none" /\ pc[t] = "user" /\ t # Idle
        /\ list' = d.list /\ bitmap' = d.bitmap
        /\ status' = [status EXCEPT ![t] = (@ \ {"READY"}) \cup {"DELAY"}]
        /\ timer' = [timer EXCEPT ![t] = n]
        /\ fault' = ~Ready(t)
        /\ pc' = [pc EXCEPT ![t] = "sched"]
    BY DEF LOS_TaskDelay, Calls, InTask, Goto, Become, Arm, cpuVars, tickVars, scanVars, sliceVars
  <1>2. /\ t \in TCBs /\ t # Dummy
        /\ status \in [TCBs -> SUBSET Flags] /\ prio \in [TCBs -> Prio]
        /\ n \in Nat \ {0}
    BY TaskAssumption, DelaysAssumption DEF TaskTypeOK, TCBs
  <1>3. list' \in [ListHeads -> Seq(Tasks)] /\ bitmap' \subseteq Prio
    <2>1. /\ list \in [ListHeads -> Seq(Tasks)] /\ bitmap \subseteq Prio
          /\ LinkedOnce(list)
      BY DEF TaskTypeOK, QueuesOK, WellFormed, Queues
    <2>2. LOS_ListDelete(list, t) \in [ListHeads -> Seq(Tasks)]
      BY <2>1, ListDeleteFacts
    <2>3. list' = LOS_ListDelete(list, t) /\ bitmap' \subseteq bitmap
      BY <1>1 DEF osPriqueueDequeue, Queues
    <2> QED BY <2>1, <2>2, <2>3
  <1>4. KeepsCalls
    BY <1>1, CallKeeps
  <1>5. TaskTypeOK'
    <2>1. /\ pc' \in [Tasks -> {"user", "sched", "create", "wait", "woken"}]
          /\ timer' \in [Tasks -> Nat \cup {Off}]
          /\ status' \in [TCBs -> SUBSET Flags]
      BY <1>1, <1>2 DEF TaskTypeOK, TimersTypeOK, Flags
    <2> QED BY <1>1, <1>3, <2>1 DEF TaskTypeOK, TimersTypeOK
  <1>6. ASSUME Ready(t) PROVE Healthy'
    <2>1. QueuesOK(Queues, status, prio)'
      <3>1. Floating(d, t, status, prio)
        BY <1>2, <1>6, DequeueFloats DEF Ready
      <3>2. /\ status'[t] \cap {"READY", "PEND", "PEND_QUEUE", "UNUSED"} = {}
            /\ \A u \in Tasks \ {t} : status'[u] = status[u] /\ prio'[u] = prio[u]
        BY <1>1, <1>2, <1>6 DEF ShapeOK, Ready, BlockFlags, TCBs
      <3>3. QueuesOK(d, status', prio')
        BY <3>1, <3>2, StaysUnlisted
      <3>4. Queues' = d
        BY <1>1 DEF Queues, osPriqueueDequeue
      <3> QED BY <3>3, <3>4
    <2>2. ShapeOK'
      BY <1>1, <1>2, <1>4, <1>6, TaskAssumption
         DEF ShapeOK, BlockFlags, WaitFlags, TCBs, KeepsCalls, Ready
    <2>3. HandlesOK'
      BY <1>1, <1>2, <1>4, <1>6 DEF HandlesOK, TaskTypeOK, KeepsCalls, TCBs, Ready
    <2>4. ScanOK' /\ SliceOK'
      BY <1>1, <1>2 DEF ScanOK, SliceOK, NoneDue, Due, TaskTypeOK, TimersTypeOK
    <2>5. TimerMatchesStatus'
      BY <1>1, <1>2 DEF TimerMatchesStatus, Armed, TCBs, Off, TaskTypeOK, TimersTypeOK
    <2>6. Ready(Idle)'
      BY <1>1, <1>2, TaskAssumption DEF Ready, TCBs
    <2> QED BY <2>1, <2>2, <2>3, <2>4, <2>5, <2>6
  <1> QED BY <1>1, <1>5, <1>6

LEMMA PriSetStep ==
    ASSUME Good, NEW t \in Tasks, NEW x \in Tasks, NEW p \in Prio, LOS_TaskPriSet(t, x, p)
    PROVE  Good'
  <1> USE DEF Good, Healthy
  <1>1. /\ UNCHANGED <<status, timer, runTask, newTask, pendSV, taskLock, isr, scanTask, scanStatus,
                      needSched, sliceTask, sliceLeft, handle, fault>>
        /\ isr = "none" /\ pc[t] = "user"
        /\ "UNUSED" \notin status[x]
        /\ Become(osTaskPriModify(Queues, x, p))
        /\ prio' = [prio EXCEPT ![x] = p]
        /\ pc' \in {pc, [pc EXCEPT ![t] = "sched"]}
    BY DEF LOS_TaskPriSet, Calls, InTask, Goto, cpuVars, tickVars, scanVars, sliceVars
  <1>2. /\ x \in TCBs
        /\ status \in [TCBs -> SUBSET Flags] /\ prio \in [TCBs -> Prio]
        /\ prio' \in [TCBs -> Prio]
        /\ prio'[x] = p /\ \A u \in Tasks \ {x} : prio'[u] = prio[u]
    BY <1>1 DEF TaskTypeOK, TCBs
  <1>3. KeepsCalls /\ pc' \in [Tasks -> {"user", "sched", "create", "wait", "woken"}]
    BY <1>1, CallKeeps
  <1>4. QueuesOK(Queues, status, prio)'
    <2>1. CASE Ready(x)
      <3> DEFINE d == osPriqueueDequeue(Queues, x, prio[x])
                 e == osPriqueueEnqueue(d, x, p)
      <3>1. Floating(d, x, status, prio)
        BY <1>2, <2>1, DequeueFloats DEF Ready
      <3> HIDE DEF d
      <3>2. "READY" \in status[x] /\ status[x] \cap {"PEND", "PEND_QUEUE", "UNUSED"} = {}
        BY <1>1, <2>1 DEF ShapeOK, Ready, BlockFlags
      <3>3. QueuesOK(e, status, prio')
        BY <1>2, <3>1, <3>2, EnqueuePlaces
      <3>4. Queues' = e
        BY <1>1, <2>1 DEF osTaskPriModify, Become, Queues, osPriqueueEnqueue, d
      <3> QED BY <1>1, <3>3, <3>4
    <2>2. CASE ~Ready(x)
      <3>1. Queues' = Queues
        BY <1>1, <2>2 DEF osTaskPriModify, Become, Queues
      <3>2. QueuesOK(Queues, status, prio')
        BY <1>2, <2>2, OtherFlagsChange DEF Ready
      <3> QED BY <1>1, <3>1, <3>2
    <2> QED BY <2>1, <2>2
  <1>5. TaskTypeOK'
    BY <1>1, <1>2, <1>3, <1>4, ListTypes DEF TaskTypeOK, TimersTypeOK
  <1>6. ShapeOK' /\ HandlesOK'
    BY <1>1, <1>3 DEF ShapeOK, HandlesOK, KeepsCalls
  <1>7. ScanOK' /\ SliceOK' /\ TimerMatchesStatus' /\ Ready(Idle)'
    BY <1>1 DEF ScanOK, NoneDue, Due, SliceOK, TimerMatchesStatus, Armed, Ready
  <1> QED BY <1>4, <1>5, <1>6, <1>7

-----------------------------------------------------------------------------
(***************************************************************************)
(* Yielding: to the tail of the same ready queue, whose bit stays set.     *)
(***************************************************************************)
LEMMA YieldPlaces ==
    ASSUME Good, NEW t \in Tasks, Ready(t),
           list' = LOS_ListTailInsert(LOS_ListDelete(list, t), prio[t], t),
           UNCHANGED <<bitmap, status, prio>>
    PROVE  QueuesOK(Queues, status, prio)'
  <1> USE DEF Good, Healthy
  <1> DEFINE p == prio[t]
             d == osPriqueueDequeue(Queues, t, p)
             e == osPriqueueEnqueue(d, t, p)
  <1>1. /\ p \in Prio
        /\ "READY" \in status[t] /\ status[t] \cap {"PEND", "PEND_QUEUE", "UNUSED"} = {}
    BY DEF TaskTypeOK, TCBs, ShapeOK, Ready, BlockFlags
  <1>2. Floating(d, t, status, prio)
    BY <1>1, DequeueFloats
  <1>3. QueuesOK(e, status, prio)
    <2> HIDE DEF d, p
    <2> QED BY <1>1, <1>2, EnqueuePlaces DEF p
  <1>4. p \in bitmap
    <2>1. Linked(list, p, t) /\ list \in [ListHeads -> Seq(Tasks)]
      BY <1>1 DEF QueuesOK, InPlace, Queues, TaskTypeOK
    <2>2. list[p] # <<>>
      BY <1>1, <2>1, EmptyLinksNone DEF ListHeads
    <2> QED BY <1>1, <2>2 DEF QueuesOK, WellFormed, Queues
  <1>5. Queues' = e
    BY <1>4 DEF Queues, osPriqueueDequeue, osPriqueueEnqueue
  <1> QED BY <1>3, <1>5

LEMMA YieldStep ==
    ASSUME Good, NEW t \in Tasks, LOS_TaskYield(t)
    PROVE  Good'
  <1> USE DEF Good, Healthy
  <1>1. /\ UNCHANGED <<bitmap, status, prio, timer, runTask, newTask, pendSV, taskLock, isr, scanTask,
                      scanStatus, needSched, sliceTask, sliceLeft, handle, fault>>
        /\ isr = "none" /\ pc[t] = "user" /\ Ready(t)
        /\ list' = LOS_ListTailInsert(LOS_ListDelete(list, t), prio[t], t)
        /\ pc' \in {pc, [pc EXCEPT ![t] = "sched"]}
    BY DEF LOS_TaskYield, Yields, Calls, InTask, Goto, cpuVars, tickVars, scanVars, sliceVars
  <1>2. QueuesOK(Queues, status, prio)'
    BY <1>1, YieldPlaces
  <1>3. KeepsCalls /\ pc' \in [Tasks -> {"user", "sched", "create", "wait", "woken"}]
    BY <1>1, CallKeeps
  <1>4. TaskTypeOK'
    BY <1>1, <1>2, <1>3, ListTypes DEF TaskTypeOK, TimersTypeOK
  <1>5. ShapeOK' /\ HandlesOK'
    BY <1>1, <1>3 DEF ShapeOK, HandlesOK, KeepsCalls
  <1>6. ScanOK' /\ SliceOK' /\ TimerMatchesStatus' /\ Ready(Idle)'
    BY <1>1 DEF ScanOK, NoneDue, Due, SliceOK, TimerMatchesStatus, Armed, Ready
  <1> QED BY <1>2, <1>4, <1>5, <1>6

-----------------------------------------------------------------------------
(***************************************************************************)
(* The tick.                                                               *)
(***************************************************************************)
LEMMA TickStep ==
    ASSUME Good, osTickHandler
    PROVE  Good'
  <1> USE DEF Good, Healthy
  <1> DEFINE left == IF sliceTask = runTask THEN sliceLeft ELSE TIMESLICE
  <1>1. /\ UNCHANGED <<bitmap, status, prio, taskLock, scanTask, scanStatus, needSched, pc, handle,
                      fault>>
        /\ isr = "none"
        /\ timer' = [t \in Tasks |-> IF timer[t] = Off THEN Off ELSE timer[t] - 1]
        /\ isr' = IF \E t \in Tasks : timer[t] = 1 THEN "scan" ELSE "none"
        /\ sliceTask' = IF left = 1 THEN NoTask ELSE runTask
        /\ sliceLeft' = left - 1
    BY DEF osTickHandler, osTimesliceCheck, SliceOver, Elapse, callVars
  <1>2. left \in 1 .. TIMESLICE
    BY TaskAssumption DEF SliceOK, TaskTypeOK, TCBs
  <1>3. Ready(Idle)'
    BY <1>1 DEF Ready
  <1>4. /\ QueuesOK(Queues, status, prio)'
        /\ runTask' = runTask /\ newTask' \in Tasks /\ pendSV' \in BOOLEAN
    <2>1. CASE SliceOver /\ Yields(runTask)
      <3>1. /\ list' = LOS_ListTailInsert(LOS_ListDelete(list, runTask), prio[runTask], runTask)
            /\ LOS_Schedule
        BY <2>1 DEF osTickHandler, osTimesliceCheck
      <3>2. runTask \in Tasks /\ Ready(runTask)
        BY <2>1 DEF Yields, Ready, TaskTypeOK, TCBs, ShapeOK
      <3>3. QueuesOK(Queues, status, prio)'
        BY <1>1, <3>1, <3>2, YieldPlaces
      <3> QED BY <1>1, <1>3, <3>1, <3>3, ScheduleTypes DEF TaskTypeOK
    <2>2. CASE ~(SliceOver /\ Yields(runTask))
      <3>1. UNCHANGED <<list, runTask, newTask, pendSV>>
        BY <2>2 DEF osTickHandler, osTimesliceCheck, cpuVars
      <3> QED BY <1>1, <3>1 DEF Queues, TaskTypeOK
    <2> QED BY <2>1, <2>2
  <1> HIDE DEF left
  <1>5. timer' \in [Tasks -> Nat \cup {Off}] /\ \A t \in Tasks : timer[t] = Off <=> timer'[t] = Off
    BY <1>1 DEF TaskTypeOK, TimersTypeOK, Off, ScanOK, NoneDue, Due
  <1>6. TaskTypeOK'
    <2>1. sliceTask' \in TCBs \cup {NoTask} /\ sliceLeft' \in 0 .. TIMESLICE
      BY <1>1, <1>2, TaskAssumption DEF TaskTypeOK
    <2> QED BY <1>1, <1>4, <1>5, <2>1, ListTypes DEF TaskTypeOK, TimersTypeOK
  <1>7. ShapeOK' /\ HandlesOK'
    BY <1>1 DEF ShapeOK, HandlesOK
  <1>8. ScanOK'
    BY <1>1, <1>5 DEF ScanOK, NoneDue, Due, Off, TaskTypeOK, TimersTypeOK
  <1>9. SliceOK'
    BY <1>1, <1>2, TaskAssumption DEF SliceOK
  <1>10. TimerMatchesStatus'
    BY <1>1, <1>5 DEF TimerMatchesStatus, Armed
  <1> QED BY <1>3, <1>4, <1>6, <1>7, <1>8, <1>9, <1>10

LEMMA ExpireStep ==
    ASSUME Good, NEW x \in Tasks, ScanExpire(x)
    PROVE  Good'
  <1> USE DEF Good, Healthy
  <1>1. /\ UNCHANGED <<list, bitmap, status, prio, runTask, newTask, pendSV, taskLock, needSched,
                      sliceTask, sliceLeft, pc, handle, fault>>
        /\ isr = "scan" /\ timer[x] = 0
        /\ timer' = [timer EXCEPT ![x] = Off]
        /\ scanTask' = x
        /\ scanStatus' = status[x]
        /\ isr' = "wake"
    BY DEF ScanExpire, Due, Disarm, listVars, cpuVars, sliceVars, callVars
  <1>2. QueuesOK(Queues, status, prio)' /\ Ready(Idle)'
    BY <1>1 DEF Queues, Ready
  <1>3. TaskTypeOK'
    BY <1>1 DEF TaskTypeOK, TimersTypeOK, TCBs
  <1>4. ShapeOK' /\ HandlesOK' /\ SliceOK'
    BY <1>1 DEF ShapeOK, HandlesOK, SliceOK
  <1>5. ScanOK'
    BY <1>1 DEF ScanOK, TimerMatchesStatus, Armed, Off, WaitFlags
  <1>6. TimerMatchesStatus'
    BY <1>1 DEF TimerMatchesStatus, Armed, TaskTypeOK, TimersTypeOK
  <1> QED BY <1>2, <1>3, <1>4, <1>5, <1>6

LEMMA WakeStep ==
    ASSUME Good, ScanWake
    PROVE  Good'
  <1> USE DEF Good, Healthy
  <1> DEFINE x     == scanTask
             pends == status[x] \cap {"PEND", "PEND_QUEUE"} # {}
             over  == IF "PEND" \in status[x] THEN "PEND"
                      ELSE IF "PEND_QUEUE" \in status[x] THEN "PEND_QUEUE" ELSE "DELAY"
             out   == IF pends THEN Unlinked(Queues, x) ELSE Queues
             rest  == status[x] \ {over}
  <1>0. scanStatus = status[scanTask]
    BY DEF ScanWake, ScanOK
  <1>1. /\ UNCHANGED <<prio, timer, runTask, newTask, pendSV, taskLock, sliceTask, sliceLeft, pc,
                      handle>>
        /\ isr = "wake" /\ isr' = "scan"
        /\ fault' \in BOOLEAN
        /\ scanTask' = NoTask /\ scanStatus' = {}
        /\ needSched' \in {needSched, TRUE}
        /\ status' = [status EXCEPT ![x] = IF "SUSPEND" \in status[x] THEN rest
                                           ELSE rest \cup {"READY"}]
        /\ IF "SUSPEND" \in status[x] THEN Become(out)
           ELSE Become(osPriqueueEnqueue(out, x, prio[x]))
    BY <1>0 DEF ScanWake, OnPendList, cpuVars, sliceVars, callVars
  <1>2. /\ x \in Tasks /\ x \in TCBs /\ x # Dummy
        /\ status \in [TCBs -> SUBSET Flags] /\ prio \in [TCBs -> Prio]
        /\ status[x] \cap {"DELAY", "PEND", "PEND_QUEUE"} # {}
    BY <1>1, TaskAssumption DEF ScanOK, TaskTypeOK, TCBs, WaitFlags
  <1>3. /\ "READY" \notin status[x] /\ "UNUSED" \notin status[x]
        /\ rest \cap {"READY", "UNUSED", "DELAY", "PEND", "PEND_QUEUE"} = {}
        /\ rest \subseteq status[x]
    BY <1>2 DEF ShapeOK, BlockFlags, WaitFlags
  <1>4. Floating(out, x, status, prio)
    <2>1. CASE pends
      <3>1. Floating(Unlinked(Queues, x), x, status, prio)
        BY <1>2, <1>3, UnlinkFloats
      <3> QED BY <2>1, <3>1
    <2>2. CASE ~pends
      <3>1. status[x] \cap {"READY", "PEND", "PEND_QUEUE", "UNUSED"} = {}
        BY <1>3, <2>2
      <3>2. Floating(Queues, x, status, prio)
        BY <1>2, <3>1, UnlistedFloats
      <3> QED BY <2>2, <3>2
    <2> QED BY <2>1, <2>2
  <1> HIDE DEF out, rest, x
  <1>5. /\ status'[x] = IF "SUSPEND" \in status[x] THEN rest ELSE rest \cup {"READY"}
        /\ \A t \in TCBs \ {x} : status'[t] = status[t]
        /\ status' \in [TCBs -> SUBSET Flags]
    BY <1>1, <1>2, <1>3 DEF Flags
  <1>6. QueuesOK(Queues, status, prio)'
    <2>0. \A t \in Tasks \ {x} : status'[t] = status[t] /\ prio'[t] = prio[t]
      BY <1>1, <1>5 DEF TCBs
    <2>1. CASE "SUSPEND" \in status[x]
      <3>1. status'[x] \cap {"READY", "PEND", "PEND_QUEUE", "UNUSED"} = {}
        BY <1>3, <1>5, <2>1
      <3>2. QueuesOK(out, status', prio')
        BY <1>2, <1>4, <2>0, <3>1, StaysUnlisted
      <3>3. out = [list |-> out.list, bitmap |-> out.bitmap]
        BY <1>4 DEF Floating, WellFormed
      <3>4. Queues' = out
        BY <1>1, <2>1, <3>3 DEF Become, Queues
      <3> QED BY <3>2, <3>4
    <2>2. CASE "SUSPEND" \notin status[x]
      <3>1. /\ "READY" \in status'[x] /\ prio[x] \in Prio /\ prio'[x] = prio[x]
            /\ status'[x] \cap {"PEND", "PEND_QUEUE", "UNUSED"} = {}
        BY <1>1, <1>2, <1>3, <1>5, <2>2
      <3>2. QueuesOK(osPriqueueEnqueue(out, x, prio[x]), status', prio')
        BY <1>2, <1>4, <2>0, <3>1, EnqueuePlaces
      <3>3. Queues' = osPriqueueEnqueue(out, x, prio[x])
        BY <1>1, <2>2 DEF Become, Queues, osPriqueueEnqueue
      <3> QED BY <3>2, <3>3
    <2> QED BY <2>1, <2>2
  <1>7. TaskTypeOK'
    BY <1>1, <1>5, <1>6, ListTypes DEF TaskTypeOK, TimersTypeOK
  <1>8. ShapeOK'
    <2>1. "READY" \notin status'[Dummy]
      BY <1>2, <1>5 DEF ShapeOK, TCBs
    <2>2. \A t \in Tasks \ {x} : status'[t] = status[t] /\ pc'[t] = pc[t]
      BY <1>1, <1>5 DEF TCBs
    <2>3. "TIMEOUT" \in status'[x] => pc'[x] \in {"wait", "woken"}
      BY <1>1, <1>2, <1>3, <1>5 DEF ShapeOK
    <2>4. /\ status'[x] \cap (BlockFlags \cup {"READY", "UNUSED"}) # {}
          /\ "READY" \in status'[x] => status'[x] \cap BlockFlags = {}
          /\ status'[x] \cap {"UNUSED", "DELAY", "PEND", "PEND_QUEUE"} = {}
      <3>1. "SUSPEND" \in status[x] => "SUSPEND" \in rest /\ "SUSPEND" \in status'[x]
        BY <1>5 DEF rest
      <3>2. "SUSPEND" \in status[x] => "READY" \notin status'[x]
        BY <1>3, <1>5
      <3>3. "SUSPEND" \notin status[x] => "READY" \in status'[x] /\ "SUSPEND" \notin status'[x]
        BY <1>3, <1>5
      <3>4. status'[x] \cap {"UNUSED", "DELAY", "PEND", "PEND_QUEUE"} = {}
        BY <1>3, <1>5
      <3> QED BY <3>1, <3>2, <3>3, <3>4 DEF BlockFlags
    <2> QED BY <2>1, <2>2, <2>3, <2>4 DEF ShapeOK, BlockFlags, WaitFlags
  <1>9. HandlesOK'
    <2>1. \A t \in Tasks : handle[t] # NoTask => handle[t] \in TCBs /\ handle[t] # x
      BY <1>2 DEF HandlesOK, TaskTypeOK, TCBs
    <2>2. \A t \in Tasks : handle[t] # NoTask => status'[handle[t]] = status[handle[t]]
      BY <1>5, <2>1
    <2> QED BY <1>1, <2>2 DEF HandlesOK
  <1>10. ScanOK' /\ SliceOK'
    BY <1>1 DEF ScanOK, SliceOK
  <1>11. TimerMatchesStatus'
    <2>1. \A t \in Tasks \ {x} : status'[t] = status[t]
      BY <1>5 DEF TCBs
    <2>2. status'[x] \cap {"DELAY", "PEND", "PEND_QUEUE"} = {}
      BY <1>3, <1>5
    <2>3. timer[x] = Off
      BY <1>1, <1>2 DEF TimerMatchesStatus, Armed, x
    <2> QED BY <1>1, <2>1, <2>2, <2>3 DEF TimerMatchesStatus, Armed, x
  <1>12. Ready(Idle)'
    BY <1>2, <1>3, <1>5, TaskAssumption DEF Ready, TCBs
  <1> QED BY <1>6, <1>7, <1>8, <1>9, <1>10, <1>11, <1>12

LEMMA DoneStep ==
    ASSUME Good, ScanDone
    PROVE  Good'
  <1> USE DEF Good, Healthy
  <1>1. /\ UNCHANGED <<list, bitmap, status, prio, timer, taskLock, scanTask, scanStatus,
                      sliceTask, sliceLeft, pc, handle, fault>>
        /\ isr = "scan" /\ NoneDue /\ isr' = "none" /\ needSched' = FALSE
        /\ LOS_Schedule \/ UNCHANGED <<runTask, newTask, pendSV>>
    BY DEF ScanDone, listVars, sliceVars, callVars, cpuVars
  <1>2. QueuesOK(Queues, status, prio)' /\ Ready(Idle)'
    BY <1>1 DEF Queues, Ready
  <1>3. newTask' \in Tasks /\ pendSV' \in BOOLEAN /\ runTask' = runTask
    BY <1>1, <1>2, ScheduleTypes DEF TaskTypeOK
  <1>4. TaskTypeOK'
    BY <1>1, <1>3 DEF TaskTypeOK, TimersTypeOK
  <1>5. ShapeOK' /\ HandlesOK' /\ SliceOK' /\ ScanOK' /\ TimerMatchesStatus'
    BY <1>1 DEF ShapeOK, HandlesOK, SliceOK, ScanOK, NoneDue, Due, TimerMatchesStatus, Armed
  <1> QED BY <1>2, <1>4, <1>5

-----------------------------------------------------------------------------
(***************************************************************************)
(* LOS_Start leaves a healthy state.                                       *)
(***************************************************************************)
LEMMA InitHealthy ==
    ASSUME TaskInit
    PROVE  Good
  <1> DEFINE Listed(t) == \E p \in Prio : Linked(InitList, p, t)
             st == [t \in TCBs |-> IF Listed(t) THEN {"READY"} ELSE {"UNUSED"}]
  <1>1. /\ timer = [t \in Tasks |-> Off]
        /\ list = InitList
        /\ bitmap = {p \in Prio : InitReady[p] # <<>>}
        /\ prio = [t \in TCBs |-> IF Listed(t)
                                  THEN CHOOSE p \in Prio : Linked(InitList, p, t)
                                  ELSE LowestPrio]
        /\ runTask = osPriqueueTop /\ newTask = runTask
        /\ status = [t \in TCBs |-> IF t = runTask THEN {"READY", "RUNNING"}
                                    ELSE IF Listed(t) THEN {"READY"} ELSE {"UNUSED"}]
        /\ pendSV = FALSE /\ taskLock = 0
        /\ isr = "none" /\ scanTask = NoTask /\ scanStatus = {} /\ needSched = FALSE
        /\ sliceTask = NoTask /\ sliceLeft = 0
        /\ pc = [t \in Tasks |-> "user"]
        /\ handle = [t \in Tasks |-> NoTask]
        /\ fault = FALSE
    BY DEF TaskInit, TimersInit
  <1>2. /\ InitList \in [ListHeads -> Seq(Tasks)]
        /\ \A p \in Prio : InitList[p] = InitReady[p] /\ p \in ListHeads
        /\ \A h \in PendLists \cup {RecyleList} : InitList[h] = <<>> /\ h \in ListHeads
        /\ FreeTask \in ListHeads /\ FreeTask \notin Prio
    BY TaskAssumption DEF InitList, ListHeads
  <1>3. \A h \in PendLists \cup {RecyleList} : \A t : ~Linked(InitList, h, t)
    BY <1>2, EmptyLinksNone
  <1>4. \A g, h \in ListHeads : \A t : Linked(InitList, g, t) /\ Linked(InitList, h, t) => g = h
    BY <1>2, TaskAssumption, LinkedOnceHeads
  <1>5. ASSUME NEW t \in Tasks PROVE Linked(InitList, FreeTask, t) <=> ~Listed(t)
    <2>1. \E h \in ListHeads : Linked(InitList, h, t)
      BY <1>2, TaskAssumption DEF IsLinked
    <2> QED BY <1>2, <1>3, <1>4, <2>1 DEF ListHeads
  <1>6. prio \in [TCBs -> Prio] /\ \A t \in Tasks : \A p \in Prio : Linked(InitList, p, t) => prio[t] = p
    <2>1. LowestPrio \in Prio
      BY TaskAssumption DEF Prio
    <2>2. \A t \in TCBs : Listed(t) => (CHOOSE p \in Prio : Linked(InitList, p, t)) \in Prio
      OBVIOUS
    <2>3. \A t \in Tasks : \A p \in Prio :
              Linked(InitList, p, t) => p = CHOOSE q \in Prio : Linked(InitList, q, t)
      BY <1>2, <1>4
    <2> HIDE DEF Listed
    <2>4. prio \in [TCBs -> Prio]
      BY <1>1, <2>1, <2>2
    <2> QED BY <1>1, <2>3, <2>4 DEF Listed, TCBs
  <1>7. \A t \in Tasks : Listed(t) => Linked(InitList, prio[t], t)
    BY <1>6
  <1> HIDE DEF Listed
  <1>8. QueuesOK(Queues, st, prio)
    <2>1. WellFormed(Queues)
      BY <1>1, <1>2, TaskAssumption DEF WellFormed, Queues
    <2>2. ASSUME NEW t \in Tasks PROVE InPlace(InitList, t, st[t], prio[t])
      <3>1. st[t] = IF Listed(t) THEN {"READY"} ELSE {"UNUSED"}
        BY DEF TCBs
      <3>2. \A h \in Prio : Linked(InitList, h, t) <=> Listed(t) /\ prio[t] = h
        BY <1>6, <1>7 DEF Listed
      <3>3. /\ "READY" \in st[t] <=> Listed(t)
            /\ "UNUSED" \in st[t] <=> ~Listed(t)
            /\ st[t] \cap WaitFlags = {}
        BY <3>1 DEF WaitFlags
      <3> HIDE DEF st
      <3>4. \A h \in PendLists \cup {RecyleList} : ~Linked(InitList, h, t)
        BY <1>3
      <3> QED BY <3>2, <3>3, <3>4, <1>5 DEF InPlace
    <2> QED BY <1>1, <2>1, <2>2 DEF QueuesOK, Queues
  <1>9. Listed(Idle) /\ Idle \in Tasks /\ Idle \in TCBs
    <2>1. InitList[LowestPrio] = <<Idle>> /\ LowestPrio \in Prio
      BY <1>2, TaskAssumption DEF Prio
    <2>2. Linked(InitList, LowestPrio, Idle)
      BY <1>2, <2>1, EmptyLinksNone
    <2> QED BY <2>1, <2>2, TaskAssumption DEF Listed, TCBs
  <1>10. runTask \in Tasks /\ Listed(runTask)
    <2>1. "READY" \in st[Idle] /\ prio[Idle] \in Prio
      BY <1>6, <1>9
    <2>2. QueuesOK([list |-> list, bitmap |-> bitmap], st, prio)
      BY <1>8 DEF Queues
    <2> HIDE DEF st
    <2> QED BY <1>1, <1>9, <2>1, <2>2, TopIsTask DEF osPriqueueTop, Listed
  <1>11. /\ \A t \in TCBs : status[t] \in {{"READY", "RUNNING"}, {"READY"}, {"UNUSED"}}
         /\ \A t \in TCBs : ("READY" \in status[t] <=> Listed(t)) /\ (Listed(t) <=> "UNUSED" \notin status[t])
         /\ status \in [TCBs -> SUBSET Flags]
    BY <1>1, <1>10 DEF Flags
  <1>12. QueuesOK(Queues, status, prio)
    <2>1. \A t \in Tasks : status[t] \cap {"READY", "PEND", "PEND_QUEUE", "UNUSED"}
                           = st[t] \cap {"READY", "PEND", "PEND_QUEUE", "UNUSED"}
      BY <1>11 DEF TCBs
    <2> HIDE DEF st
    <2> QED BY <1>8, <2>1, OtherFlagsChange
  <1>13. ~Listed(Dummy)
    <2>1. ASSUME NEW p \in Prio PROVE ~Linked(InitList, p, Dummy)
      BY <1>2, TaskAssumption, EmptyLinksNone
    <2> QED BY <2>1 DEF Listed
  <1>14. TaskTypeOK
    <2>1. /\ list \in [ListHeads -> Seq(Tasks)] /\ bitmap \subseteq Prio
          /\ runTask \in TCBs /\ newTask \in Tasks /\ pendSV \in BOOLEAN /\ taskLock \in Nat
      BY <1>1, <1>2, <1>10 DEF TCBs
    <2>2. /\ isr \in {"none", "scan", "wake"} /\ scanTask \in Tasks \cup {NoTask}
          /\ scanStatus \in SUBSET Flags /\ needSched \in BOOLEAN
          /\ sliceTask \in TCBs \cup {NoTask} /\ sliceLeft \in 0 .. TIMESLICE
          /\ fault \in BOOLEAN
      <3>1. 0 \in 0 .. TIMESLICE
        BY TaskAssumption
      <3>2. {} \in SUBSET Flags
        OBVIOUS
      <3> QED BY <1>1, <3>1, <3>2
    <2>3. /\ pc \in [Tasks -> {"user", "sched", "create", "wait", "woken"}]
          /\ handle \in [Tasks -> Tasks \cup {NoTask}]
          /\ timer \in [Tasks -> Nat \cup {Off}]
      BY <1>1
    <2> QED BY <1>6, <1>11, <2>1, <2>2, <2>3 DEF TaskTypeOK, TimersTypeOK
  <1>15. ShapeOK
    BY <1>1, <1>11, <1>13 DEF ShapeOK, TCBs, BlockFlags, WaitFlags
  <1>16. HandlesOK /\ ScanOK /\ SliceOK
    BY <1>1 DEF HandlesOK, ScanOK, SliceOK, NoneDue, Due, Off
  <1>17. TimerMatchesStatus
    BY <1>1, <1>11 DEF TimerMatchesStatus, Armed, TCBs
  <1>18. Ready(Idle)
    BY <1>9, <1>11 DEF Ready
  <1> QED BY <1>12, <1>14, <1>15, <1>16, <1>17, <1>18 DEF Good, Healthy

-----------------------------------------------------------------------------
(***************************************************************************)
(* Every step of the system leads from a healthy state to a healthy or a   *)
(* faulted one, and a faulted core takes no step.                          *)
(***************************************************************************)
LEMMA CallStep ==
    ASSUME Good, NEW t \in Tasks, TaskCall(t)
    PROVE  TaskInv'
  <1>1. /\ NewPrios \subseteq Prio
        /\ SuspendIDs \subseteq Tasks \ {Idle} /\ DeleteIDs \subseteq Tasks \ {Idle}
    BY TaskAssumption
  <1>2. CASE Schedule(t)
    BY <1>2, ScheduleStep DEF TaskInv, Good
  <1>3. CASE LOS_TaskCreate(t)
    BY <1>3, CreateStep DEF TaskInv, Good
  <1>4. CASE LOS_TaskCreateFails(t)
    BY <1>4, CreateFailsStep DEF TaskInv, Good
  <1>5. ASSUME NEW p \in NewPrios,
               LOS_TaskCreateOnly(t, p, "create") \/ LOS_TaskCreateOnly(t, p, "user")
        PROVE  TaskInv'
    BY <1>1, <1>5, CreateOnlyStep DEF TaskInv, Good
  <1>6. ASSUME NEW x \in SuspendIDs, LOS_TaskSuspend(t, x) \/ LOS_TaskResume(t, x)
        PROVE  TaskInv'
    BY <1>1, <1>6, SuspendStep, ResumeStep DEF TaskInv, Good
  <1>7. ASSUME NEW x \in DeleteIDs, LOS_TaskDelete(t, x)
        PROVE  TaskInv'
    BY <1>1, <1>7, DeleteStep DEF TaskInv, Good
  <1>8. ASSUME NEW n \in Delays, LOS_TaskDelay(t, n)
        PROVE  TaskInv'
    BY <1>8, DelayStep DEF TaskInv
  <1>9. ASSUME NEW x \in Tasks, NEW p \in NewPrios, LOS_TaskPriSet(t, x, p)
        PROVE  TaskInv'
    BY <1>1, <1>9, PriSetStep DEF TaskInv, Good
  <1>10. CASE LOS_TaskYield(t)
    BY <1>10, YieldStep DEF TaskInv, Good
  <1>11. CASE LOS_TaskLock(t) \/ LOS_TaskUnlock(t)
    BY <1>11, LockStep DEF TaskInv, Good
  <1> QED BY <1>2, <1>3, <1>4, <1>5, <1>6, <1>7, <1>8, <1>9, <1>10, <1>11 DEF TaskCall

LEMMA InterruptStep ==
    ASSUME Good, ~NestedIsr, Interrupt
    PROVE  TaskInv'
  <1>1. /\ IsrSuspendIDs \subseteq Tasks \ {Idle} /\ IsrResumeIDs \subseteq Tasks \ {Idle}
        /\ IsrDeleteIDs \subseteq Tasks \ {Idle}
    BY TaskAssumption
  <1>2. ASSUME NEW x \in IsrSuspendIDs, IsrTaskSuspend(x) PROVE TaskInv'
    BY <1>1, <1>2, IsrSuspendStep DEF TaskInv, Good
  <1>3. ASSUME NEW x \in IsrResumeIDs, IsrTaskResume(x) PROVE TaskInv'
    BY <1>1, <1>3, IsrResumeStep DEF TaskInv, Good
  <1>4. ASSUME NEW x \in IsrDeleteIDs, IsrTaskDelete(x) PROVE TaskInv'
    BY <1>1, <1>4, DeleteStep DEF TaskInv, Good
  <1> QED BY <1>2, <1>3, <1>4 DEF Interrupt

LEMMA StutterStep ==
    ASSUME TaskInv, UNCHANGED taskVars
    PROVE  TaskInv'
  <1>1. UNCHANGED <<list, bitmap, status, prio, timer, runTask, newTask, pendSV, taskLock, isr,
                    scanTask, scanStatus, needSched, sliceTask, sliceLeft, pc, handle, fault>>
    BY DEF taskVars, cpuVars, tickVars, scanVars, sliceVars, callVars
  <1>2. TaskTypeOK'
    BY <1>1 DEF TaskInv, TaskTypeOK, TimersTypeOK
  <1>3. ASSUME Healthy PROVE Healthy'
    BY <1>1, <1>3 DEF Healthy, Queues, ShapeOK, HandlesOK, ScanOK, NoneDue, Due, SliceOK,
                      TimerMatchesStatus, Armed, Ready
  <1> QED BY <1>1, <1>2, <1>3 DEF TaskInv

LEMMA FaultedStops ==
    ASSUME TaskNext
    PROVE  ~fault
  BY DEF TaskNext, TaskCall, Interrupt, Tick, PendSV_Handler, Schedule, LOS_TaskCreate,
         LOS_TaskCreateFails, LOS_TaskCreateOnly, LOS_TaskSuspend, LOS_TaskResume, LOS_TaskDelete,
         LOS_TaskDelay, LOS_TaskPriSet, LOS_TaskYield, LOS_TaskLock, LOS_TaskUnlock,
         IsrTaskSuspend, IsrTaskResume, IsrTaskDelete, InIsr, osTickHandler, ScanExpire, ScanWake,
         ScanDone, Calls, InTask

LEMMA InvStep ==
    ASSUME TaskInv, ~NestedIsr, [TaskNext]_taskVars
    PROVE  TaskInv'
  <1>1. CASE UNCHANGED taskVars
    BY <1>1, StutterStep
  <1>2. CASE TaskNext
    <2>1. Good
      BY <1>2, FaultedStops DEF TaskInv, Good
    <2>2. ASSUME NEW t \in Tasks, TaskCall(t) PROVE TaskInv'
      BY <2>1, <2>2, CallStep
    <2>3. CASE Interrupt
      BY <2>1, <2>3, InterruptStep
    <2>4. CASE osTickHandler
      BY <2>1, <2>4, TickStep DEF TaskInv, Good
    <2>5. ASSUME NEW x \in Tasks, ScanExpire(x) PROVE TaskInv'
      BY <2>1, <2>5, ExpireStep DEF TaskInv, Good
    <2>6. CASE ScanWake
      BY <2>1, <2>6, WakeStep DEF TaskInv, Good
    <2>7. CASE ScanDone
      BY <2>1, <2>7, DoneStep DEF TaskInv, Good
    <2>8. CASE PendSV_Handler
      BY <2>1, <2>8, PendSVStep DEF TaskInv, Good
    <2> QED BY <1>2, <2>2, <2>3, <2>4, <2>5, <2>6, <2>7, <2>8 DEF TaskNext, Tick
  <1> QED BY <1>1, <1>2

(***************************************************************************)
(* TaskInv is an invariant of the scheduler, whatever the tasks, the       *)
(* priorities, the initial ready lists and the calls made.                 *)
(***************************************************************************)
THEOREM TaskInvariant ==
    ASSUME ~NestedIsr
    PROVE  TaskSpec => []TaskInv
  <1>1. TaskInit => TaskInv
    BY InitHealthy DEF TaskInv, Good
  <1>2. TaskInv /\ [TaskNext]_taskVars => TaskInv'
    BY InvStep
  <1> QED BY <1>1, <1>2, PTL DEF TaskSpec

(***************************************************************************)
(* Every variable of the scheduler keeps its type: no queue, status word or*)
(* pointer of los_task.c ever holds what it must not.                      *)
(***************************************************************************)
THEOREM TypeCorrect ==
    ASSUME ~NestedIsr
    PROVE  TaskSpec => []TaskTypeOK
  <1>1. TaskInv => TaskTypeOK
    BY DEF TaskInv
  <1> QED BY <1>1, TaskInvariant, PTL

(***************************************************************************)
(* The queues agree with the status words, the bitmap with the queues and  *)
(* the timer list with both, as long as the core has not faulted: no       *)
(* operation of los_task.c, made by a task, an interrupt handler or the    *)
(* tick, leaves a task in a list its status denies or in two lists at once.*)
(***************************************************************************)
THEOREM ListsAgree ==
    ASSUME ~NestedIsr
    PROVE  TaskSpec => [](NoFault => ListsMatchStatus)
  <1>1. TaskInv => (NoFault => ListsMatchStatus)
    <2> SUFFICES ASSUME Healthy
                 PROVE  ListsMatchStatus
      BY DEF TaskInv, NoFault
    <2>1. /\ LinkedOnce(list)
          /\ \A p \in Prio : p \in bitmap <=> list[p] # <<>>
          /\ \A t \in Tasks : InPlace(list, t, status[t], prio[t])
      BY DEF Healthy, QueuesOK, WellFormed, Queues
    <2>2. LinkMatchesStatus
      BY <2>1 DEF LinkMatchesStatus, InPlace, WaitFlags, Ready
    <2>3. TimerMatchesStatus
      BY DEF Healthy
    <2> QED BY <2>1, <2>2, <2>3 DEF ListsMatchStatus, OneListPerTask, BitmapExact
  <1> QED BY <1>1, TaskInvariant, PTL

(***************************************************************************)
(* No wake-up is lost: the paths that clear the reasons for blocking one   *)
(* by one (LOS_TaskResume, osTaskScan, LOS_TaskSuspend of a waiting task)  *)
(* never leave a task with none of them and in no ready queue.             *)
(***************************************************************************)
THEOREM NoLostWakeUp ==
    ASSUME ~NestedIsr
    PROVE  TaskSpec => [](NoFault => UnblockedIsReady)
  <1>1. TaskInv => (NoFault => UnblockedIsReady)
    BY DEF TaskInv, NoFault, Healthy, ShapeOK, UnblockedIsReady, Ready
  <1> QED BY <1>1, TaskInvariant, PTL

-----------------------------------------------------------------------------
(***************************************************************************)
(* That the highest ready task runs, that every context switch goes to it, *)
(* and that the core never faults: for any number of tasks and priorities, *)
(* when device interrupts do not preempt the tick handler and no handler   *)
(* suspends a task (with either, the properties are false).                *)
(*                                                                         *)
(* The switch to the highest task may be outstanding in three places: the  *)
(* running task is about to call LOS_Schedule, PendSV is pending, or the   *)
(* tick handler has woken a task and will call LOS_Schedule when its scan  *)
(* ends.  SwitchOK says that there is no fourth.                           *)
(***************************************************************************)

(***************************************************************************)
(* Between a kernel call's critical section and its LOS_Schedule, with the *)
(* scheduler not locked, the running task may have left its ready queue.   *)
(***************************************************************************)
Leaving(t) == Scheduling(t) /\ taskLock = 0

SwitchOK ==
    /\ pendSV => taskLock = 0
    /\ pendSV /\ ~needSched => newTask = osPriqueueTop
    /\ runTask = Dummy => pendSV
    /\ isr = "none" => ~needSched
    /\ runTask \in Tasks /\ ~pendSV /\ ~Leaving(runTask) => Ready(runTask)
    /\ runTask \in Tasks /\ ~pendSV /\ ~Scheduling(runTask) /\ taskLock = 0 /\ ~needSched
           => runTask = osPriqueueTop

RunningOK == \A t \in Tasks : "RUNNING" \in status[t] <=> t = runTask

(***************************************************************************)
(* Calls of los_task.c wait for no kernel object.                          *)
(***************************************************************************)
NobodyWaits == \A t \in Tasks : pc[t] \notin {"wait", "woken"}

SchedInv == ~fault /\ Good /\ SwitchOK /\ RunningOK /\ NobodyWaits

-----------------------------------------------------------------------------
(***************************************************************************)
(* The task that osPriqueueTop finds in the queues q.                      *)
(***************************************************************************)
TopOf(q) == q.list[CHOOSE p \in q.bitmap : \A r \in q.bitmap : p <= r][1]

LEMMA TopOfQueues ==
    osPriqueueTop = TopOf(Queues)
  BY DEF osPriqueueTop, TopOf, Queues

LEMMA HighestBit ==
    ASSUME NEW b \in SUBSET Prio, NEW p \in b, \A r \in b : p <= r
    PROVE  (CHOOSE q \in b : \A r \in b : q <= r) = p
  <1>1. \A q \in b : (\A r \in b : q <= r) => q = p
    BY DEF Prio
  <1> QED BY <1>1

(***************************************************************************)
(* It is ready, and no ready task has a higher priority.                   *)
(***************************************************************************)
LEMMA TopFacts ==
    ASSUME NEW q, NEW st, NEW pr, QueuesOK(q, st, pr), \A t \in Tasks : pr[t] \in Prio,
           "READY" \in st[Idle]
    PROVE  /\ TopOf(q) \in Tasks
           /\ "READY" \in st[TopOf(q)]
           /\ \A t \in Tasks : "READY" \in st[t] => pr[TopOf(q)] <= pr[t]
           /\ pr[TopOf(q)] \in q.bitmap
           /\ \A r \in q.bitmap : pr[TopOf(q)] <= r
           /\ q.list[pr[TopOf(q)]] # <<>>
           /\ TopOf(q) = q.list[pr[TopOf(q)]][1]
  <1>1. /\ q.list \in [ListHeads -> Seq(Tasks)] /\ q.bitmap \in SUBSET Prio
        /\ \A p \in Prio : p \in q.bitmap <=> q.list[p] # <<>>
        /\ \A t \in Tasks : InPlace(q.list, t, st[t], pr[t])
    BY DEF QueuesOK, WellFormed
  <1>2. \A t \in Tasks : "READY" \in st[t] => pr[t] \in q.bitmap
    BY <1>1, EmptyLinksNone DEF InPlace, ListHeads
  <1>3. PICK p \in q.bitmap : \A r \in q.bitmap : p <= r
    <2>1. q.bitmap \in SUBSET Nat /\ q.bitmap # {}
      BY <1>1, <1>2, TaskAssumption DEF Prio
    <2> QED BY <2>1, NatMinimum
  <1>4. TopOf(q) = q.list[p][1]
    BY <1>1, <1>3, HighestBit DEF TopOf
  <1>5. q.list[p] # <<>> /\ p \in Prio /\ p \in ListHeads
    BY <1>1 DEF ListHeads
  <1>6. TopOf(q) \in Tasks /\ Linked(q.list, p, TopOf(q))
    BY <1>1, <1>4, <1>5, EmptyLinksNone
  <1>7. "READY" \in st[TopOf(q)] /\ pr[TopOf(q)] = p
    BY <1>1, <1>5, <1>6 DEF InPlace
  <1> QED BY <1>2, <1>3, <1>4, <1>5, <1>6, <1>7

(***************************************************************************)
(* It is the same for queues that differ only in lists of other kinds, and *)
(* after another task has left the queues.                                 *)
(***************************************************************************)
LEMMA SameTop ==
    ASSUME NEW q, NEW d, NEW st, NEW pr, QueuesOK(q, st, pr), \A t \in Tasks : pr[t] \in Prio,
           "READY" \in st[Idle],
           d.bitmap = q.bitmap, \A p \in Prio : d.list[p] = q.list[p]
    PROVE  TopOf(d) = TopOf(q)
  <1>1. PICK p \in q.bitmap : \A r \in q.bitmap : p <= r
    BY TopFacts
  <1>2. q.bitmap \in SUBSET Prio
    BY DEF QueuesOK, WellFormed
  <1> QED BY <1>1, <1>2, HighestBit DEF TopOf

LEMMA TopStays ==
    ASSUME NEW q, NEW d, NEW st, NEW pr, QueuesOK(q, st, pr), \A t \in Tasks : pr[t] \in Prio,
           "READY" \in st[Idle], NEW x \in Tasks, x # TopOf(q),
           \A p \in Prio : d.list[p] = LOS_ListDelete(q.list, x)[p],
           d.bitmap = q.bitmap \/ (\E p \in Prio : d.list[p] = <<>> /\ d.bitmap = q.bitmap \ {p})
    PROVE  TopOf(d) = TopOf(q)
  <1> DEFINE top == pr[TopOf(q)]
  <1>1. /\ top \in q.bitmap /\ \A r \in q.bitmap : top <= r
        /\ q.list[top] # <<>>
        /\ TopOf(q) = q.list[top][1]
    BY TopFacts
  <1> HIDE DEF top
  <1>2. q.bitmap \in SUBSET Prio /\ q.list \in [ListHeads -> Seq(Tasks)]
    BY DEF QueuesOK, WellFormed
  <1>3. top \in ListHeads
    BY <1>1, <1>2 DEF ListHeads
  <1>4. d.list[top] # <<>> /\ d.list[top][1] = TopOf(q)
    <2>1. d.list[top] = Without(q.list[top], x)
      BY <1>1, <1>2, <1>3 DEF LOS_ListDelete
    <2>2. q.list[top] \in Seq(Tasks)
      BY <1>2, <1>3
    <2> QED BY <1>1, <2>1, <2>2, WithoutKeepsHead
  <1>5. top \in d.bitmap /\ d.bitmap \in SUBSET Prio /\ \A r \in d.bitmap : top <= r
    BY <1>1, <1>2, <1>4
  <1> QED BY <1>4, <1>5, HighestBit DEF TopOf

(***************************************************************************)
(* The two for a step between two healthy states.                          *)
(***************************************************************************)
LEMMA GoodTop ==
    ASSUME Good
    PROVE  /\ osPriqueueTop \in Tasks
           /\ Ready(osPriqueueTop)
           /\ \A t \in Tasks : Ready(t) => prio[osPriqueueTop] <= prio[t]
  <1>1. /\ QueuesOK(Queues, status, prio) /\ "READY" \in status[Idle]
        /\ \A t \in Tasks : prio[t] \in Prio
    BY DEF Good, Healthy, Ready, TaskTypeOK, TCBs
  <1> QED BY <1>1, TopFacts, TopOfQueues DEF Ready

LEMMA NextTop ==
    ASSUME Good'
    PROVE  osPriqueueTop' \in Tasks /\ Ready(osPriqueueTop)'
  <1>1. /\ QueuesOK(Queues', status', prio') /\ "READY" \in status'[Idle]
        /\ \A t \in Tasks : prio'[t] \in Prio
    BY DEF Good, Healthy, Ready, TaskTypeOK, TCBs
  <1>2. osPriqueueTop' = TopOf(Queues')
    BY DEF osPriqueueTop, TopOf, Queues
  <1> QED BY <1>1, <1>2, TopFacts DEF Ready

LEMMA TopUnchanged ==
    ASSUME Good, UNCHANGED bitmap, \A p \in Prio : list'[p] = list[p]
    PROVE  osPriqueueTop' = osPriqueueTop
  <1>1. /\ QueuesOK(Queues, status, prio) /\ "READY" \in status[Idle]
        /\ \A t \in Tasks : prio[t] \in Prio
    BY DEF Good, Healthy, Ready, TaskTypeOK, TCBs
  <1> DEFINE d == [list |-> list', bitmap |-> bitmap']
  <1>2. TopOf(d) = TopOf(Queues)
    <2>1. d.bitmap = Queues.bitmap /\ \A p \in Prio : d.list[p] = Queues.list[p]
      BY DEF Queues
    <2> HIDE DEF d
    <2> QED BY <1>1, <2>1, SameTop
  <1> QED BY <1>2 DEF osPriqueueTop, TopOf, Queues

LEMMA TopLeft ==
    ASSUME Good, NEW x \in Tasks, x # osPriqueueTop, NEW d,
           d \in {osPriqueueDequeue(Queues, x, prio[x]), Unlinked(Queues, x), Queues},
           bitmap' = d.bitmap, \A p \in Prio : list'[p] = d.list[p]
    PROVE  osPriqueueTop' = osPriqueueTop
  <1>1. /\ QueuesOK(Queues, status, prio) /\ "READY" \in status[Idle]
        /\ \A t \in Tasks : prio[t] \in Prio
    BY DEF Good, Healthy, Ready, TaskTypeOK, TCBs
  <1>2. x # TopOf(Queues)
    BY TopOfQueues
  <1> DEFINE e == [list |-> list', bitmap |-> bitmap']
  <1>3. e.list = list' /\ e.bitmap = bitmap'
    OBVIOUS
  <1>4. osPriqueueTop' = TopOf(e)
    BY DEF osPriqueueTop, TopOf
  <1> HIDE DEF e
  <1>5. CASE d = Queues
    BY <1>1, <1>3, <1>4, <1>5, SameTop, TopOfQueues
  <1>6. CASE d = osPriqueueDequeue(Queues, x, prio[x])
    <2>1. /\ d.list = LOS_ListDelete(Queues.list, x)
          /\ d.bitmap = Queues.bitmap
               \/ (d.list[prio[x]] = <<>> /\ d.bitmap = Queues.bitmap \ {prio[x]})
      BY <1>6 DEF osPriqueueDequeue
    <2> QED BY <1>1, <1>2, <1>3, <1>4, <2>1, TopStays, TopOfQueues
  <1>7. CASE d = Unlinked(Queues, x)
    <2>1. d.list = LOS_ListDelete(Queues.list, x) /\ d.bitmap = Queues.bitmap
      BY <1>7 DEF Unlinked, Queues
    <2> QED BY <1>1, <1>2, <1>3, <1>4, <2>1, TopStays, TopOfQueues
  <1> QED BY <1>5, <1>6, <1>7

-----------------------------------------------------------------------------
(***************************************************************************)
(* What a task finds when it runs.                                         *)
(***************************************************************************)
LEMMA RunnerFacts ==
    ASSUME SchedInv, NEW t \in Tasks, InTask(t)
    PROVE  /\ runTask = t /\ ~pendSV /\ isr = "none" /\ ~needSched /\ ~fault
           /\ "RUNNING" \in status[t]
           /\ taskLock > 0 => Ready(t)
           /\ pc[t] \in {"user", "create"} => Ready(t)
           /\ pc[t] \in {"user", "create"} /\ taskLock = 0 => t = osPriqueueTop
  BY DEF SchedInv, SwitchOK, RunningOK, InTask, Leaving, Scheduling, Good, TaskTypeOK

(***************************************************************************)
(* Two ways to keep SwitchOK: to call LOS_Schedule last, or, in a task, to *)
(* stay the highest, hold the scheduler lock or be about to call it.       *)
(***************************************************************************)
LEMMA Rescheduled ==
    ASSUME Good', SwitchOK, LOS_Schedule, UNCHANGED taskLock,
           isr' = "none" => ~needSched',
           runTask \in Tasks /\ ~pendSV /\ taskLock > 0 => Ready(runTask)'
    PROVE  SwitchOK'
  <1>1. /\ newTask' = osPriqueueTop' /\ runTask' = runTask
        /\ pendSV' = (pendSV \/ (runTask # osPriqueueTop' /\ taskLock = 0))
    BY DEF LOS_Schedule
  <1>2. /\ pendSV => taskLock = 0
        /\ runTask = Dummy => pendSV
    BY DEF SwitchOK
  <1>3. Ready(osPriqueueTop)'
    BY NextTop
  <1>4. taskLock \in Nat
    BY DEF Good, TaskTypeOK
  <1>5. runTask \in Tasks /\ ~pendSV' => Ready(runTask)'
    <2>1. ~pendSV' => ~pendSV /\ (runTask = osPriqueueTop' \/ taskLock # 0)
      BY <1>1
    <2>2. CASE runTask = osPriqueueTop'
      BY <1>1, <1>3, <2>2 DEF Ready
    <2>3. CASE ~pendSV /\ taskLock > 0
      BY <2>3
    <2> QED BY <1>4, <2>1, <2>2, <2>3
  <1> QED BY <1>1, <1>2, <1>5 DEF SwitchOK

LEMMA RunsOn ==
    ASSUME SwitchOK, ~pendSV, isr = "none",
           UNCHANGED <<runTask, newTask, pendSV, isr, needSched>>,
           Ready(runTask)' \/ Leaving(runTask)',
           Scheduling(runTask)' \/ taskLock' # 0 \/ osPriqueueTop' = runTask
    PROVE  SwitchOK'
  BY DEF SwitchOK

(***************************************************************************)
(* A step that sets no fault: the invariant gives what osTaskWait,         *)
(* LOS_TaskDelete and osTaskScan take for granted.                         *)
(***************************************************************************)
LEMMA StaysUp ==
    ASSUME SchedInv, ~NestedIsr, TaskNext
    PROVE  ~fault'
  <1> USE DEF SchedInv
  <1>1. ASSUME NEW t \in Tasks, NEW n, LOS_TaskDelay(t, n) PROVE ~fault'
    BY <1>1, RunnerFacts DEF LOS_TaskDelay, Calls
  <1>2. ASSUME NEW x \in Tasks, isr = "none", Deleted(x) PROVE ~fault'
    <2>1. "TIMEOUT" \notin status[x]
      BY DEF Good, Healthy, ShapeOK, NobodyWaits
    <2>2. "DELAY" \in status[x] => Armed(x)
      BY <1>2 DEF Good, Healthy, TimerMatchesStatus
    <2> QED BY <1>2, <2>1, <2>2 DEF Deleted, Timed
  <1>3. CASE ScanWake
    <2>1. scanTask \in Tasks /\ scanStatus = status[scanTask]
      BY <1>3 DEF ScanWake, Good, Healthy, ScanOK
    <2>2. OnPendList(status[scanTask]) => IsLinked(list, scanTask)
      <3>1. InPlace(list, scanTask, status[scanTask], prio[scanTask])
        BY <2>1 DEF Good, Healthy, QueuesOK, Queues
      <3>2. PendLists \subseteq DOMAIN list
        BY DEF Good, TaskTypeOK, ListHeads
      <3> QED BY <3>1, <3>2 DEF InPlace, OnPendList, WaitFlags, IsLinked
    <2>3. fault' = (OnPendList(scanStatus) /\ ~IsLinked(list, scanTask))
      BY <1>3 DEF ScanWake
    <2> QED BY <2>1, <2>2, <2>3
  <1>4. ASSUME NEW t \in Tasks, TaskCall(t) PROVE ~fault'
    <2>1. ASSUME NEW x \in DeleteIDs, LOS_TaskDelete(t, x) PROVE ~fault'
      BY <2>1, <1>2, TaskAssumption DEF LOS_TaskDelete, Calls, InTask
    <2>2. ASSUME NEW n \in Delays, LOS_TaskDelay(t, n) PROVE ~fault'
      BY <2>2, <1>1
    <2>3. ASSUME NEW x \in SuspendIDs, LOS_TaskSuspend(t, x) \/ LOS_TaskResume(t, x) PROVE ~fault'
      BY <2>3 DEF LOS_TaskSuspend, LOS_TaskResume
    <2>4. ASSUME NEW p \in NewPrios, LOS_TaskCreateOnly(t, p, "create") \/ LOS_TaskCreateOnly(t, p, "user")
          PROVE  ~fault'
      BY <2>4 DEF LOS_TaskCreateOnly
    <2>5. ASSUME NEW x \in Tasks, NEW p \in NewPrios, LOS_TaskPriSet(t, x, p) PROVE ~fault'
      BY <2>5 DEF LOS_TaskPriSet
    <2>6. CASE \/ Schedule(t) \/ LOS_TaskCreate(t) \/ LOS_TaskCreateFails(t)
               \/ LOS_TaskYield(t) \/ LOS_TaskLock(t) \/ LOS_TaskUnlock(t)
      BY <2>6 DEF Schedule, LOS_TaskCreate, LOS_TaskCreateFails, LOS_TaskYield, LOS_TaskLock,
                  LOS_TaskUnlock
    <2> QED BY <1>4, <2>1, <2>2, <2>3, <2>4, <2>5, <2>6 DEF TaskCall
  <1>5. CASE Interrupt
    <2>1. ASSUME NEW x \in IsrDeleteIDs, IsrTaskDelete(x) PROVE ~fault'
      BY <2>1, <1>2, TaskAssumption DEF IsrTaskDelete, InIsr
    <2>2. ASSUME NEW x \in Tasks, IsrTaskSuspend(x) \/ IsrTaskResume(x) PROVE ~fault'
      BY <2>2 DEF IsrTaskSuspend, IsrTaskResume
    <2> QED BY <1>5, <2>1, <2>2, TaskAssumption DEF Interrupt
  <1>6. CASE osTickHandler \/ (\E x \in Tasks : ScanExpire(x)) \/ ScanDone \/ PendSV_Handler
    BY <1>6 DEF osTickHandler, ScanExpire, ScanDone, PendSV_Handler
  <1> QED BY <1>3, <1>4, <1>5, <1>6 DEF TaskNext, Tick

-----------------------------------------------------------------------------
(***************************************************************************)
(* One lemma per operation again.  That its step leads to a good state is  *)
(* was shown above; here it is used as a hypothesis.                       *)
(***************************************************************************)
SchedKept == SwitchOK /\ RunningOK /\ NobodyWaits

LEMMA ScheduleKeeps ==
    ASSUME SchedInv, Good', NEW t \in Tasks, Schedule(t)
    PROVE  SchedKept'
  <1> USE DEF SchedInv
  <1>1. /\ InTask(t)
        /\ pc' = [pc EXCEPT ![t] = IF pc[t] = "wait" THEN "woken" ELSE "user"]
        /\ UNCHANGED <<status, taskLock, isr, needSched>>
        /\ LOS_Schedule
    BY DEF Schedule, Goto, tickVars, scanVars
  <1>2. SwitchOK'
    BY <1>1, RunnerFacts, Rescheduled DEF Ready, LOS_Schedule
  <1>3. RunningOK'
    BY <1>1 DEF RunningOK, LOS_Schedule
  <1>4. NobodyWaits'
    BY <1>1 DEF NobodyWaits, Good, TaskTypeOK
  <1> QED BY <1>2, <1>3, <1>4 DEF SchedKept

LEMMA PendSVKeeps ==
    ASSUME SchedInv, Good', PendSV_Handler
    PROVE  SchedKept'
  <1> USE DEF SchedInv
  <1>1. /\ UNCHANGED <<list, bitmap, newTask, taskLock, isr, needSched, pc>>
        /\ pendSV /\ isr = "none"
        /\ runTask' = newTask /\ pendSV' = FALSE
        /\ status' = [u \in TCBs |-> IF u = newTask THEN status[u] \cup {"RUNNING"}
                                     ELSE IF u = runTask THEN status[u] \ {"RUNNING"}
                                     ELSE status[u]]
    BY DEF PendSV_Handler, listVars, tickVars, scanVars, callVars
  <1>2. newTask = osPriqueueTop /\ osPriqueueTop' = osPriqueueTop
    BY <1>1 DEF SwitchOK, osPriqueueTop
  <1>3. newTask \in Tasks /\ newTask # Dummy
    BY TaskAssumption DEF Good, TaskTypeOK
  <1>4. Ready(runTask)'
    BY <1>1, <1>2, NextTop DEF Ready
  <1>5. SwitchOK'
    BY <1>1, <1>2, <1>3, <1>4 DEF SwitchOK
  <1>6. RunningOK'
    BY <1>1, <1>3 DEF RunningOK, TCBs
  <1>7. NobodyWaits'
    BY <1>1 DEF NobodyWaits
  <1> QED BY <1>5, <1>6, <1>7 DEF SchedKept

LEMMA LockKeeps ==
    ASSUME SchedInv, NEW t \in Tasks, LOS_TaskLock(t) \/ LOS_TaskUnlock(t)
    PROVE  SchedKept'
  <1> USE DEF SchedInv
  <1>1. /\ UNCHANGED <<list, bitmap, status, runTask, newTask, pendSV, isr, needSched>>
        /\ InTask(t) /\ pc[t] = "user"
        /\ \/ taskLock' = taskLock + 1 /\ pc' = pc
           \/ taskLock' = taskLock - 1 /\ taskLock # 1 /\ taskLock > 0 /\ pc' = pc
           \/ pc' = [pc EXCEPT ![t] = "sched"]
    BY DEF LOS_TaskLock, LOS_TaskUnlock, Calls, Goto, listVars, cpuVars, tickVars, scanVars, callVars
  <1>2. /\ runTask = t /\ ~pendSV /\ isr = "none" /\ Ready(t)
        /\ pc \in [Tasks -> {"user", "sched", "create", "wait", "woken"}] /\ taskLock \in Nat
    BY <1>1, RunnerFacts DEF Good, TaskTypeOK
  <1>3. Scheduling(runTask)' \/ taskLock' # 0
    BY <1>1, <1>2 DEF Scheduling
  <1>4. SwitchOK'
    BY <1>1, <1>2, <1>3, RunsOn DEF Ready
  <1>5. RunningOK' /\ NobodyWaits'
    BY <1>1, <1>2 DEF RunningOK, NobodyWaits
  <1> QED BY <1>4, <1>5 DEF SchedKept

(***************************************************************************)
(* Creation and the change of a priority.                                  *)
(***************************************************************************)
LEMMA CreateFailsKeeps ==
    ASSUME SchedInv, NEW t \in Tasks, LOS_TaskCreateFails(t)
    PROVE  SchedKept'
  <1> USE DEF SchedInv
  <1>1. /\ UNCHANGED <<bitmap, status, runTask, newTask, pendSV, taskLock, isr, needSched, pc>>
        /\ InTask(t) /\ pc[t] = "user"
        /\ list' = Reclaimed
    BY DEF LOS_TaskCreateFails, Calls, cpuVars, tickVars, scanVars, callVars
  <1>2. \A p \in Prio : list'[p] = list[p]
    BY <1>1, TaskAssumption DEF Reclaimed, AddedAll, Good, TaskTypeOK, ListHeads
  <1>3. osPriqueueTop' = osPriqueueTop
    BY <1>1, <1>2, TopUnchanged
  <1>4. /\ runTask = t /\ ~pendSV /\ isr = "none" /\ Ready(t)
        /\ taskLock # 0 \/ t = osPriqueueTop
    BY <1>1, RunnerFacts DEF Good, TaskTypeOK
  <1>5. SwitchOK'
    BY <1>1, <1>3, <1>4, RunsOn DEF Ready
  <1>6. RunningOK' /\ NobodyWaits'
    BY <1>1 DEF RunningOK, NobodyWaits
  <1> QED BY <1>5, <1>6 DEF SchedKept

LEMMA CreateOnlyKeeps ==
    ASSUME SchedInv, NEW t \in Tasks, NEW p \in Prio, NEW next \in {"create", "user"},
           LOS_TaskCreateOnly(t, p, next)
    PROVE  SchedKept'
  <1> USE DEF SchedInv
  <1> DEFINE x == Head(Reclaimed[FreeTask])
             r == [Queues EXCEPT !.list = AddedAll(Queues.list, FreeTask, RecyleList)]
  <1>1. /\ UNCHANGED <<bitmap, runTask, newTask, pendSV, taskLock, isr, needSched>>
        /\ InTask(t) /\ pc[t] = "user"
        /\ Reclaimed[FreeTask] # <<>>
        /\ list' = LOS_ListDelete(Reclaimed, x)
        /\ status' = [status EXCEPT ![x] = {"SUSPEND"}]
        /\ pc' = [pc EXCEPT ![t] = next]
    BY DEF LOS_TaskCreateOnly, Calls, cpuVars, tickVars, scanVars
  <1>2. QueuesOK(r, status, prio) /\ r = [list |-> Reclaimed, bitmap |-> bitmap]
    BY ReclaimKeeps DEF Queues, Reclaimed, Good, Healthy
  <1>3. /\ Reclaimed \in [ListHeads -> Seq(Tasks)] /\ LinkedOnce(Reclaimed)
        /\ FreeTask \in ListHeads
    BY <1>2 DEF QueuesOK, WellFormed, ListHeads
  <1>4. x \in Tasks /\ Linked(Reclaimed, FreeTask, x)
    BY <1>1, <1>3, EmptyLinksNone
  <1>5. "READY" \notin status[x] /\ \A h \in Prio : ~Linked(Reclaimed, h, x)
    BY <1>2, <1>4 DEF QueuesOK, InPlace, ShapeOK, Good, Healthy
  <1> HIDE DEF x
  <1>6. \A h \in Prio : list'[h] = list[h]
    <2>1. \A h \in Prio : list'[h] = Reclaimed[h]
      BY <1>1, <1>3, <1>5, ListDeleteFacts DEF ListHeads
    <2>2. \A h \in Prio : Reclaimed[h] = list[h]
      BY TaskAssumption DEF Reclaimed, AddedAll, Good, TaskTypeOK, ListHeads
    <2> QED BY <2>1, <2>2
  <1>7. osPriqueueTop' = osPriqueueTop
    BY <1>1, <1>6, TopUnchanged
  <1>8. /\ runTask = t /\ ~pendSV /\ isr = "none" /\ Ready(t) /\ "RUNNING" \in status[t]
        /\ taskLock # 0 \/ t = osPriqueueTop
    BY <1>1, RunnerFacts DEF Good, TaskTypeOK
  <1>9. t # x /\ status \in [TCBs -> SUBSET Flags] /\ t \in TCBs /\ x \in TCBs
    BY <1>4, <1>5, <1>8 DEF Ready, Good, TaskTypeOK, TCBs
  <1>10. SwitchOK'
    BY <1>1, <1>7, <1>8, <1>9, RunsOn DEF Ready
  <1>11. RunningOK'
    BY <1>1, <1>4, <1>8, <1>9 DEF RunningOK, TCBs
  <1>12. NobodyWaits'
    BY <1>1 DEF NobodyWaits, Good, TaskTypeOK
  <1> QED BY <1>10, <1>11, <1>12 DEF SchedKept

LEMMA CreateKeeps ==
    ASSUME SchedInv, Good', NEW t \in Tasks, LOS_TaskCreate(t)
    PROVE  SchedKept'
  <1> USE DEF SchedInv
  <1> DEFINE x == handle[t]
  <1>1. /\ UNCHANGED <<taskLock, isr, needSched>>
        /\ InTask(t) /\ pc[t] = "create"
        /\ status' = [status EXCEPT ![x] = (@ \ {"SUSPEND"}) \cup {"READY"}]
        /\ LOS_Schedule /\ runTask' = runTask
        /\ pc' = [pc EXCEPT ![t] = "user"]
    BY DEF LOS_TaskCreate, Goto, tickVars, scanVars, LOS_Schedule
  <1>2. x \in Tasks /\ status \in [TCBs -> SUBSET Flags]
    BY <1>1 DEF Good, Healthy, HandlesOK, TaskTypeOK
  <1> HIDE DEF x
  <1>3. \A u \in Tasks : (Ready(u) => Ready(u)') /\ ("RUNNING" \in status'[u] <=> "RUNNING" \in status[u])
    BY <1>1, <1>2 DEF Ready, TCBs
  <1>4. runTask = t /\ isr = "none" /\ ~needSched /\ Ready(t)
    BY <1>1, RunnerFacts
  <1>5. Ready(runTask)'
    BY <1>1, <1>3, <1>4 DEF Ready
  <1>6. SwitchOK'
    BY <1>1, <1>4, <1>5, Rescheduled
  <1>7. RunningOK' /\ NobodyWaits'
    BY <1>1, <1>3 DEF RunningOK, NobodyWaits, Good, TaskTypeOK
  <1> QED BY <1>6, <1>7 DEF SchedKept

LEMMA PriSetKeeps ==
    ASSUME SchedInv, NEW t \in Tasks, NEW x \in Tasks, NEW p \in Prio, LOS_TaskPriSet(t, x, p)
    PROVE  SchedKept'
  <1> USE DEF SchedInv
  <1>1. /\ UNCHANGED <<status, runTask, newTask, pendSV, taskLock, isr, needSched>>
        /\ InTask(t) /\ pc[t] = "user"
        /\ Become(osTaskPriModify(Queues, x, p))
        /\ IF Ready(x) THEN pc' = [pc EXCEPT ![t] = "sched"] ELSE pc' = pc
    BY DEF LOS_TaskPriSet, Calls, Goto, cpuVars, tickVars, scanVars
  <1>2. /\ runTask = t /\ ~pendSV /\ isr = "none" /\ Ready(t)
        /\ taskLock # 0 \/ t = osPriqueueTop
    BY <1>1, RunnerFacts DEF Good, TaskTypeOK
  <1>3. Scheduling(runTask)' \/ taskLock' # 0 \/ osPriqueueTop' = runTask
    <2>1. CASE Ready(x)
      BY <1>1, <1>2, <2>1 DEF Scheduling, Good, TaskTypeOK
    <2>2. CASE ~Ready(x)
      <3>1. UNCHANGED <<list, bitmap>>
        BY <1>1, <2>2 DEF osTaskPriModify, Become, Queues
      <3> QED BY <1>1, <1>2, <3>1 DEF osPriqueueTop
    <2> QED BY <2>1, <2>2
  <1>4. SwitchOK'
    BY <1>1, <1>2, <1>3, RunsOn DEF Ready
  <1>5. RunningOK' /\ NobodyWaits'
    BY <1>1 DEF RunningOK, NobodyWaits, Good, TaskTypeOK
  <1> QED BY <1>4, <1>5 DEF SchedKept

(***************************************************************************)
(* A task leaves the queues: by itself, or because the running task, which *)
(* stays the first of the highest priority, takes it out.                  *)
(***************************************************************************)
LEMMA SuspendKeeps ==
    ASSUME SchedInv, NEW t \in Tasks, NEW x \in Tasks, LOS_TaskSuspend(t, x)
    PROVE  SchedKept'
  <1> USE DEF SchedInv
  <1>1. /\ UNCHANGED <<prio, runTask, newTask, pendSV, taskLock, isr, needSched>>
        /\ InTask(t) /\ pc[t] = "user"
        /\ "RUNNING" \in status[x] => taskLock = 0
        /\ status' = [status EXCEPT ![x] = (@ \ {"READY"}) \cup {"SUSPEND"}]
        /\ IF Ready(x) THEN Become(osPriqueueDequeue(Queues, x, prio[x])) ELSE UNCHANGED listVars
        /\ IF x = runTask THEN pc' = [pc EXCEPT ![t] = "sched"] ELSE pc' = pc
    BY DEF LOS_TaskSuspend, Suspended, CanSuspend, Calls, Goto, cpuVars, tickVars, scanVars
  <1>2. /\ runTask = t /\ ~pendSV /\ isr = "none" /\ Ready(t) /\ "RUNNING" \in status[t]
        /\ taskLock # 0 \/ t = osPriqueueTop
        /\ status \in [TCBs -> SUBSET Flags] /\ x \in TCBs /\ t \in TCBs
        /\ pc \in [Tasks -> {"user", "sched", "create", "wait", "woken"}]
    BY <1>1, RunnerFacts DEF Good, TaskTypeOK, TCBs
  <1>3. Ready(runTask)' \/ Leaving(runTask)'
    BY <1>1, <1>2 DEF Ready, Leaving, Scheduling
  <1>4. Scheduling(runTask)' \/ taskLock' # 0 \/ osPriqueueTop' = runTask
    <2>1. CASE x = t
      BY <1>1, <1>2, <2>1 DEF Scheduling
    <2>2. CASE x # t /\ t = osPriqueueTop
      <3> DEFINE d == IF Ready(x) THEN osPriqueueDequeue(Queues, x, prio[x]) ELSE Queues
      <3>1. list' = d.list /\ bitmap' = d.bitmap
        BY <1>1 DEF Become, listVars, Queues
      <3>2. d \in {osPriqueueDequeue(Queues, x, prio[x]), Unlinked(Queues, x), Queues}
        OBVIOUS
      <3> HIDE DEF d
      <3>3. osPriqueueTop' = osPriqueueTop
        BY <2>2, <3>1, <3>2, TopLeft
      <3> QED BY <1>1, <1>2, <2>2, <3>3
    <2> QED BY <1>1, <1>2, <2>1, <2>2
  <1>5. SwitchOK'
    BY <1>1, <1>2, <1>3, <1>4, RunsOn
  <1>6. RunningOK' /\ NobodyWaits'
    BY <1>1, <1>2 DEF RunningOK, NobodyWaits, TCBs
  <1> QED BY <1>5, <1>6 DEF SchedKept

LEMMA DelayKeeps ==
    ASSUME SchedInv, NEW t \in Tasks, NEW n \in Delays, LOS_TaskDelay(t, n)
    PROVE  SchedKept'
  <1> USE DEF SchedInv
  <1>1. /\ UNCHANGED <<runTask, newTask, pendSV, taskLock, isr, needSched>>
        /\ InTask(t) /\ pc[t] = "user" /\ taskLock = 0
        /\ status' = [status EXCEPT ![t] = (@ \ {"READY"}) \cup {"DELAY"}]
        /\ pc' = [pc EXCEPT ![t] = "sched"]
    BY DEF LOS_TaskDelay, Calls, Goto, cpuVars, tickVars, scanVars
  <1>2. runTask = t /\ ~pendSV /\ isr = "none"
    BY <1>1, RunnerFacts
  <1>3. Scheduling(runTask)' /\ Leaving(runTask)'
    BY <1>1, <1>2 DEF Scheduling, Leaving, Good, TaskTypeOK
  <1>4. SwitchOK'
    BY <1>1, <1>2, <1>3, RunsOn
  <1>5. RunningOK' /\ NobodyWaits'
    BY <1>1 DEF RunningOK, NobodyWaits, Good, TaskTypeOK, TCBs
  <1> QED BY <1>4, <1>5 DEF SchedKept

LEMMA YieldKeeps ==
    ASSUME SchedInv, NEW t \in Tasks, LOS_TaskYield(t)
    PROVE  SchedKept'
  <1> USE DEF SchedInv
  <1>1. /\ UNCHANGED <<status, runTask, newTask, pendSV, taskLock, isr, needSched>>
        /\ InTask(t) /\ pc[t] = "user" /\ Ready(t)
        /\ pc' = [pc EXCEPT ![t] = "sched"]
    BY DEF LOS_TaskYield, Yields, Calls, Goto, cpuVars, tickVars, scanVars
  <1>2. runTask = t /\ ~pendSV /\ isr = "none"
    BY <1>1, RunnerFacts
  <1>3. Scheduling(runTask)' /\ Ready(runTask)'
    BY <1>1, <1>2 DEF Scheduling, Ready, Good, TaskTypeOK
  <1>4. SwitchOK'
    BY <1>1, <1>2, <1>3, RunsOn
  <1>5. RunningOK' /\ NobodyWaits'
    BY <1>1 DEF RunningOK, NobodyWaits, Good, TaskTypeOK
  <1> QED BY <1>4, <1>5 DEF SchedKept

(***************************************************************************)
(* Deletion, by a task or a handler: osPriqueueTop is looked up whoever    *)
(* was deleted, so a pending switch does not go to a deleted task.         *)
(***************************************************************************)
LEMMA DeletedKeeps ==
    ASSUME SchedInv, NEW x \in Tasks, isr = "none", Deleted(x)
    PROVE  SchedKept'
  <1> USE DEF SchedInv
  <1> DEFINE running == "RUNNING" \in status[x]
             out     == IF Ready(x) THEN osPriqueueDequeue(Queues, x, prio[x])
                        ELSE IF OnPendList(status[x]) THEN Unlinked(Queues, x) ELSE Queues
  <1>1. /\ UNCHANGED <<isr, needSched>>
        /\ status' = [status EXCEPT ![x] = {"UNUSED"},
                                    ![Dummy] = IF running
                                               THEN (status[x] \ {"READY", "SUSPEND"}) \cup {"UNUSED"}
                                               ELSE @]
        /\ newTask' = osPriqueueTop'
        /\ runTask' = IF running THEN Dummy ELSE runTask
        /\ pendSV' = (pendSV \/ running)
        /\ taskLock' = IF running THEN 0 ELSE taskLock
        /\ pc' = [pc EXCEPT ![x] = "user"]
        /\ Become([out EXCEPT !.list = IF running THEN LOS_ListTailInsert(@, RecyleList, x)
                                                  ELSE LOS_ListAdd(@, FreeTask, x)])
    BY DEF Deleted, Goto, tickVars, scanVars
  <1>2. /\ x # Dummy /\ x \in TCBs /\ Dummy \in TCBs /\ pendSV \in BOOLEAN
        /\ status \in [TCBs -> SUBSET Flags]
        /\ pc \in [Tasks -> {"user", "sched", "create", "wait", "woken"}]
        /\ ~needSched
        /\ running <=> x = runTask
    BY TaskAssumption DEF Good, TaskTypeOK, TCBs, SwitchOK, RunningOK
  <1>3. /\ status'[x] = {"UNUSED"}
        /\ \A u \in Tasks \ {x} : status'[u] = status[u] /\ pc'[u] = pc[u]
        /\ pc'[x] = "user"
    BY <1>1, <1>2, TaskAssumption DEF TCBs
  <1>4. out \in {osPriqueueDequeue(Queues, x, prio[x]), Unlinked(Queues, x), Queues}
    OBVIOUS
  <1>5. bitmap' = out.bitmap /\ \A p \in Prio : list'[p] = out.list[p]
    <2> DEFINE l == IF running THEN LOS_ListTailInsert(out.list, RecyleList, x)
                               ELSE LOS_ListAdd(out.list, FreeTask, x)
    <2>1. out.list \in [ListHeads -> Seq(Tasks)] /\ DOMAIN out = {"list", "bitmap"}
          /\ out = [list |-> out.list, bitmap |-> out.bitmap]
      <3>1. Queues.list \in [ListHeads -> Seq(Tasks)] /\ LinkedOnce(Queues.list)
        BY DEF Good, Healthy, QueuesOK, WellFormed
      <3>2. LOS_ListDelete(Queues.list, x) \in [ListHeads -> Seq(Tasks)]
        BY <3>1, ListDeleteFacts
      <3> QED BY <3>1, <3>2 DEF osPriqueueDequeue, Unlinked, Queues
    <2> HIDE DEF out
    <2>2. list' = l /\ bitmap' = out.bitmap
      BY <1>1, <2>1 DEF Become
    <2>3. \A p \in Prio : l[p] = out.list[p]
      BY <2>1, TaskAssumption DEF ListHeads, LOS_ListTailInsert, LOS_ListAdd
    <2> QED BY <2>2, <2>3
  <1> HIDE DEF out
  <1>6. CASE running
    <2>1. SwitchOK'
      BY <1>1, <1>2, <1>6, TaskAssumption DEF SwitchOK
    <2>2. RunningOK'
      <3>1. x = runTask /\ runTask' = Dummy
        BY <1>1, <1>2, <1>6
      <3>2. \A u \in Tasks : "RUNNING" \notin status'[u] /\ u # Dummy
        BY <1>3, <3>1, TaskAssumption DEF RunningOK
      <3> QED BY <3>1, <3>2 DEF RunningOK
    <2>3. NobodyWaits'
      BY <1>3 DEF NobodyWaits
    <2> QED BY <2>1, <2>2, <2>3 DEF SchedKept
  <1>7. CASE ~running
    <2>1. UNCHANGED <<runTask, pendSV, taskLock>> /\ x # runTask
      BY <1>1, <1>2, <1>7
    <2>2. runTask = osPriqueueTop => osPriqueueTop' = osPriqueueTop
      BY <2>1, <1>4, <1>5, TopLeft
    <2>3. runTask \in Tasks => /\ Ready(runTask)' <=> Ready(runTask)
                               /\ Scheduling(runTask)' <=> Scheduling(runTask)
      BY <1>3, <2>1 DEF Ready, Scheduling
    <2>4. SwitchOK'
      BY <1>1, <1>2, <2>1, <2>2, <2>3 DEF SwitchOK, Leaving
    <2>5. RunningOK'
      BY <1>2, <1>3, <1>7, <2>1 DEF RunningOK
    <2>6. NobodyWaits'
      BY <1>3 DEF NobodyWaits
    <2> QED BY <2>4, <2>5, <2>6 DEF SchedKept
  <1> QED BY <1>6, <1>7

(***************************************************************************)
(* A resumed task may be the highest: both callers look for the switch.    *)
(***************************************************************************)
LEMMA ResumedKeeps ==
    ASSUME SchedInv, NEW x \in Tasks, CanResume(x), Resumed(x)
    PROVE  /\ \A u \in Tasks : /\ Ready(u) => "READY" \in status'[u]
                               /\ "RUNNING" \in status'[u] <=> "RUNNING" \in status[u]
           /\ Blocked(x) => UNCHANGED <<list, bitmap>>
  <1> USE DEF SchedInv
  <1>1. status \in [TCBs -> SUBSET Flags] /\ x \in TCBs
    BY DEF Good, TaskTypeOK, TCBs
  <1>2. /\ \/ status' = [status EXCEPT ![x] = (status[x] \ {"SUSPEND"}) \cup {"READY"}]
           \/ status' = [status EXCEPT ![x] = status[x] \ {"SUSPEND"}]
        /\ Blocked(x) => UNCHANGED <<list, bitmap>>
    BY DEF Resumed, Blocked, listVars
  <1> QED BY <1>1, <1>2 DEF Ready, TCBs

LEMMA ResumeKeeps ==
    ASSUME SchedInv, NEW t \in Tasks, NEW x \in Tasks, LOS_TaskResume(t, x)
    PROVE  SchedKept'
  <1> USE DEF SchedInv
  <1>1. /\ UNCHANGED <<runTask, newTask, pendSV, taskLock, isr, needSched>>
        /\ InTask(t) /\ pc[t] = "user"
        /\ CanResume(x) /\ Resumed(x)
        /\ IF Blocked(x) THEN pc' = pc ELSE pc' = [pc EXCEPT ![t] = "sched"]
    BY DEF LOS_TaskResume, Calls, Goto, cpuVars, tickVars, scanVars
  <1>2. /\ runTask = t /\ ~pendSV /\ isr = "none" /\ Ready(t)
        /\ taskLock # 0 \/ t = osPriqueueTop
        /\ pc \in [Tasks -> {"user", "sched", "create", "wait", "woken"}]
    BY <1>1, RunnerFacts DEF Good, TaskTypeOK
  <1>3. Ready(runTask)'
    BY <1>1, <1>2, ResumedKeeps DEF Ready
  <1>4. Scheduling(runTask)' \/ taskLock' # 0 \/ osPriqueueTop' = runTask
    <2>1. CASE Blocked(x)
      <3>1. UNCHANGED <<list, bitmap>>
        BY <1>1, <2>1, ResumedKeeps
      <3> QED BY <1>1, <1>2, <3>1 DEF osPriqueueTop
    <2>2. CASE ~Blocked(x)
      BY <1>1, <1>2, <2>2 DEF Scheduling
    <2> QED BY <2>1, <2>2
  <1>5. SwitchOK'
    BY <1>1, <1>2, <1>3, <1>4, RunsOn
  <1>6. RunningOK' /\ NobodyWaits'
    BY <1>1, <1>2, ResumedKeeps DEF RunningOK, NobodyWaits
  <1> QED BY <1>5, <1>6 DEF SchedKept

LEMMA IsrResumeKeeps ==
    ASSUME SchedInv, Good', ~NestedIsr, NEW x \in Tasks, IsrTaskResume(x)
    PROVE  SchedKept'
  <1> USE DEF SchedInv
  <1>1. /\ UNCHANGED <<taskLock, isr, needSched, pc>>
        /\ isr = "none" /\ ~needSched
        /\ CanResume(x) /\ Resumed(x)
        /\ IF Blocked(x) THEN UNCHANGED <<runTask, newTask, pendSV>> ELSE LOS_Schedule
        /\ runTask' = runTask
    BY DEF IsrTaskResume, InIsr, cpuVars, tickVars, scanVars, callVars, LOS_Schedule, SwitchOK
  <1>2. runTask \in Tasks /\ Ready(runTask) => Ready(runTask)'
    BY <1>1, ResumedKeeps DEF Ready
  <1>3. SwitchOK'
    <2>1. CASE Blocked(x)
      <3>1. UNCHANGED <<list, bitmap>>
        BY <1>1, <2>1, ResumedKeeps
      <3> QED BY <1>1, <1>2, <2>1, <3>1 DEF SwitchOK, osPriqueueTop, Leaving, Scheduling
    <2>2. CASE ~Blocked(x)
      <3>1. runTask \in Tasks /\ ~pendSV /\ taskLock > 0 => Ready(runTask)'
        BY <1>2 DEF SwitchOK, Leaving, Good, TaskTypeOK
      <3> QED BY <1>1, <2>2, <3>1, Rescheduled
    <2> QED BY <2>1, <2>2
  <1>4. RunningOK' /\ NobodyWaits'
    BY <1>1, ResumedKeeps DEF RunningOK, NobodyWaits
  <1> QED BY <1>3, <1>4 DEF SchedKept

-----------------------------------------------------------------------------
(***************************************************************************)
(* The tick handler.                                                       *)
(***************************************************************************)
LEMMA TickKeeps ==
    ASSUME SchedInv, Good', osTickHandler
    PROVE  SchedKept'
  <1> USE DEF SchedInv
  <1>1. /\ UNCHANGED <<bitmap, status, taskLock, needSched, pc>>
        /\ isr = "none" /\ ~needSched
        /\ runTask' = runTask
        /\ LOS_Schedule \/ UNCHANGED <<list, newTask, pendSV>>
    BY DEF osTickHandler, osTimesliceCheck, cpuVars, callVars, LOS_Schedule, SwitchOK
  <1>2. SwitchOK'
    <2>1. CASE LOS_Schedule
      <3>1. runTask \in Tasks /\ ~pendSV /\ taskLock > 0 => Ready(runTask)'
        BY <1>1 DEF SwitchOK, Leaving, Good, TaskTypeOK, Ready
      <3> QED BY <1>1, <2>1, <3>1, Rescheduled
    <2>2. CASE UNCHANGED <<list, newTask, pendSV>>
      BY <1>1, <2>2 DEF SwitchOK, osPriqueueTop, Leaving, Scheduling, Ready
    <2> QED BY <1>1, <2>1, <2>2
  <1>3. RunningOK' /\ NobodyWaits'
    BY <1>1 DEF RunningOK, NobodyWaits
  <1> QED BY <1>2, <1>3 DEF SchedKept

LEMMA ExpireKeeps ==
    ASSUME SchedInv, NEW x \in Tasks, ScanExpire(x)
    PROVE  SchedKept'
  <1> USE DEF SchedInv
  <1>1. /\ UNCHANGED <<list, bitmap, status, runTask, newTask, pendSV, taskLock, needSched, pc>>
        /\ isr' = "wake"
    BY DEF ScanExpire, listVars, cpuVars, callVars
  <1> QED BY <1>1 DEF SchedKept, SwitchOK, RunningOK, NobodyWaits, osPriqueueTop, Leaving, Scheduling, Ready

LEMMA WakeKeeps ==
    ASSUME SchedInv, ScanWake
    PROVE  SchedKept'
  <1> USE DEF SchedInv
  <1> DEFINE x   == scanTask
             out == IF OnPendList(scanStatus) THEN Unlinked(Queues, x) ELSE Queues
  <1>1. /\ UNCHANGED <<prio, runTask, newTask, pendSV, taskLock, pc>>
        /\ isr = "wake" /\ isr' = "scan"
        /\ \E over \in {"PEND", "PEND_QUEUE", "DELAY"} :
               \/ status' = [status EXCEPT ![x] = @ \ {over}]
               \/ status' = [status EXCEPT ![x] = (@ \ {over}) \cup {"READY"}]
        /\ IF "SUSPEND" \in scanStatus THEN Become(out) /\ UNCHANGED needSched
                                       ELSE needSched' = TRUE
    BY DEF ScanWake, cpuVars, callVars
  <1>2. /\ x \in Tasks /\ scanStatus = status[x]
        /\ status[x] \cap {"DELAY", "PEND", "PEND_QUEUE"} # {}
        /\ status \in [TCBs -> SUBSET Flags] /\ x \in TCBs
    BY <1>1 DEF Good, Healthy, ScanOK, TaskTypeOK, TCBs, WaitFlags
  <1>3. \A u \in Tasks : /\ Ready(u) => "READY" \in status'[u]
                         /\ "RUNNING" \in status'[u] <=> "RUNNING" \in status[u]
    BY <1>1, <1>2 DEF Ready, TCBs
  <1>4. runTask \in Tasks /\ Ready(runTask) => Ready(runTask)'
    BY <1>1, <1>3 DEF Ready
  <1>5. SwitchOK'
    <2>1. CASE "SUSPEND" \in scanStatus
      <3>1. x # osPriqueueTop
        BY <1>2, GoodTop DEF Good, Healthy, ShapeOK, BlockFlags, Ready
      <3>2. out \in {osPriqueueDequeue(Queues, x, prio[x]), Unlinked(Queues, x), Queues}
        OBVIOUS
      <3>3. bitmap' = out.bitmap /\ \A p \in Prio : list'[p] = out.list[p]
        BY <1>1, <2>1 DEF Become
      <3> HIDE DEF out, x
      <3>4. osPriqueueTop' = osPriqueueTop
        BY <1>2, <3>1, <3>2, <3>3, TopLeft
      <3> QED BY <1>1, <1>4, <2>1, <3>4 DEF SwitchOK, Leaving, Scheduling
    <2>2. CASE "SUSPEND" \notin scanStatus
      BY <1>1, <1>4, <2>2 DEF SwitchOK, Leaving, Scheduling
    <2> QED BY <2>1, <2>2
  <1>6. RunningOK' /\ NobodyWaits'
    BY <1>1, <1>3 DEF RunningOK, NobodyWaits
  <1> QED BY <1>5, <1>6 DEF SchedKept

LEMMA DoneKeeps ==
    ASSUME SchedInv, Good', ScanDone
    PROVE  SchedKept'
  <1> USE DEF SchedInv
  <1>1. /\ UNCHANGED <<list, bitmap, status, taskLock, pc>>
        /\ isr' = "none" /\ needSched' = FALSE
        /\ IF needSched THEN LOS_Schedule ELSE UNCHANGED <<newTask, pendSV>>
        /\ runTask' = runTask
    BY DEF ScanDone, listVars, callVars, cpuVars, LOS_Schedule
  <1>2. SwitchOK'
    <2>1. CASE needSched
      <3>1. runTask \in Tasks /\ ~pendSV /\ taskLock > 0 => Ready(runTask)'
        BY <1>1 DEF SwitchOK, Leaving, Good, TaskTypeOK, Ready
      <3> QED BY <1>1, <2>1, <3>1, Rescheduled
    <2>2. CASE ~needSched
      BY <1>1, <2>2 DEF SwitchOK, osPriqueueTop, Leaving, Scheduling, Ready
    <2> QED BY <2>1, <2>2
  <1>3. RunningOK' /\ NobodyWaits'
    BY <1>1 DEF RunningOK, NobodyWaits
  <1> QED BY <1>2, <1>3 DEF SchedKept

-----------------------------------------------------------------------------
(***************************************************************************)
(* SchedInv holds after LOS_Start and after every step.                    *)
(***************************************************************************)
LEMMA InitSched ==
    ASSUME TaskInit
    PROVE  SchedInv
  <1>1. Good
    BY InitHealthy
  <1>2. /\ runTask = osPriqueueTop /\ pendSV = FALSE /\ isr = "none" /\ needSched = FALSE
        /\ fault = FALSE
        /\ pc = [t \in Tasks |-> "user"]
    BY DEF TaskInit
  <1>3. \A t \in TCBs : "RUNNING" \in status[t] <=> t = runTask
    BY DEF TaskInit
  <1>4. runTask \in Tasks /\ Ready(runTask)
    BY <1>1, <1>2, GoodTop
  <1>5. SwitchOK
    BY <1>2, <1>4, TaskAssumption DEF SwitchOK
  <1>6. RunningOK /\ NobodyWaits
    BY <1>2, <1>3 DEF RunningOK, NobodyWaits, TCBs
  <1> QED BY <1>1, <1>2, <1>5, <1>6 DEF SchedInv

LEMMA CallKeepsSwitch ==
    ASSUME SchedInv, Good', NEW t \in Tasks, TaskCall(t)
    PROVE  SchedKept'
  <1>1. /\ NewPrios \subseteq Prio
        /\ SuspendIDs \subseteq Tasks /\ DeleteIDs \subseteq Tasks
    BY TaskAssumption
  <1>2. ASSUME NEW p \in NewPrios,
               LOS_TaskCreateOnly(t, p, "create") \/ LOS_TaskCreateOnly(t, p, "user")
        PROVE  SchedKept'
    BY <1>1, <1>2, CreateOnlyKeeps
  <1>3. ASSUME NEW x \in SuspendIDs, LOS_TaskSuspend(t, x) \/ LOS_TaskResume(t, x)
        PROVE  SchedKept'
    BY <1>1, <1>3, SuspendKeeps, ResumeKeeps
  <1>4. ASSUME NEW x \in DeleteIDs, LOS_TaskDelete(t, x)
        PROVE  SchedKept'
    BY <1>1, <1>4, DeletedKeeps DEF LOS_TaskDelete, Calls, InTask
  <1>5. ASSUME NEW n \in Delays, LOS_TaskDelay(t, n)
        PROVE  SchedKept'
    BY <1>5, DelayKeeps
  <1>6. ASSUME NEW x \in Tasks, NEW p \in NewPrios, LOS_TaskPriSet(t, x, p)
        PROVE  SchedKept'
    BY <1>1, <1>6, PriSetKeeps
  <1>7. CASE \/ Schedule(t) \/ LOS_TaskCreate(t) \/ LOS_TaskCreateFails(t)
             \/ LOS_TaskYield(t) \/ LOS_TaskLock(t) \/ LOS_TaskUnlock(t)
    BY <1>7, ScheduleKeeps, CreateKeeps, CreateFailsKeeps, YieldKeeps, LockKeeps
  <1> QED BY <1>2, <1>3, <1>4, <1>5, <1>6, <1>7 DEF TaskCall

LEMMA SchedStep ==
    ASSUME SchedInv, ~NestedIsr, IsrSuspendIDs = {}, [TaskNext]_taskVars
    PROVE  SchedInv'
  <1>1. CASE UNCHANGED taskVars
    <2>1. UNCHANGED <<list, bitmap, status, runTask, newTask, pendSV, taskLock, isr, needSched,
                      pc, fault>>
      BY <1>1 DEF taskVars, cpuVars, tickVars, scanVars, callVars
    <2>2. TaskInv'
      BY <1>1, StutterStep DEF SchedInv, TaskInv, Good
    <2>3. SwitchOK' /\ RunningOK' /\ NobodyWaits'
      BY <2>1 DEF SchedInv, SwitchOK, RunningOK, NobodyWaits, osPriqueueTop, Leaving, Scheduling,
                  Ready
    <2> QED BY <2>1, <2>2, <2>3 DEF SchedInv, TaskInv, Good
  <1>2. CASE TaskNext
    <2>1. ~fault'
      BY <1>2, StaysUp
    <2>2. Good'
      <3>1. TaskInv'
        BY InvStep DEF SchedInv, TaskInv, Good
      <3> QED BY <2>1, <3>1 DEF TaskInv, Good
    <2>3. ASSUME NEW t \in Tasks, TaskCall(t) PROVE SchedKept'
      BY <2>2, <2>3, CallKeepsSwitch
    <2>4. ASSUME Interrupt PROVE SchedKept'
      <3>1. ASSUME NEW x \in IsrResumeIDs, IsrTaskResume(x) PROVE SchedKept'
        BY <2>2, <3>1, IsrResumeKeeps, TaskAssumption
      <3>2. ASSUME NEW x \in IsrDeleteIDs, IsrTaskDelete(x) PROVE SchedKept'
        BY <3>2, DeletedKeeps, TaskAssumption DEF IsrTaskDelete, InIsr
      <3> QED BY <2>4, <3>1, <3>2 DEF Interrupt
    <2>5. ASSUME Tick \/ PendSV_Handler PROVE SchedKept'
      BY <2>2, <2>5, TickKeeps, ExpireKeeps, WakeKeeps, DoneKeeps, PendSVKeeps DEF Tick
    <2>6. SchedKept'
      BY <1>2, <2>3, <2>4, <2>5 DEF TaskNext
    <2> QED BY <2>1, <2>2, <2>6 DEF SchedInv, SchedKept
  <1> QED BY <1>1, <1>2

(***************************************************************************)
(* SchedInv is an invariant of the scheduler if interrupt handlers do not  *)
(* preempt the tick and suspend no task: one that suspends the task a      *)
(* pending switch will start leaves g_stLosTask.pstNewTask stale.          *)
(***************************************************************************)
THEOREM SchedInvariant ==
    ASSUME ~NestedIsr, IsrSuspendIDs = {}
    PROVE  TaskSpec => []SchedInv
  <1>1. TaskInit => SchedInv
    BY InitSched
  <1>2. SchedInv /\ [TaskNext]_taskVars => SchedInv'
    BY SchedStep
  <1> QED BY <1>1, <1>2, PTL DEF TaskSpec

(***************************************************************************)
(* No kernel call of a task, an interrupt handler or the tick forgets to   *)
(* look for the switch it made necessary (los_task.c's LOS_Schedule calls, *)
(* bNeedSchedule of osTaskScan, osTimesliceCheck): the task that executes  *)
(* its own code is the first of the highest ready priority.                *)
(***************************************************************************)
THEOREM HighestAlwaysRuns ==
    ASSUME ~NestedIsr, IsrSuspendIDs = {}
    PROVE  TaskSpec => []HighestRuns
  <1>1. SchedInv => HighestRuns
    BY DEF SchedInv, SwitchOK, HighestRuns, InTask
  <1> QED BY <1>1, SchedInvariant, PTL

(***************************************************************************)
(* PendSV never switches to a task that has meanwhile left the ready queue *)
(* or been overtaken by another: whatever happens between the request of a *)
(* switch and the exception, g_stLosTask.pstNewTask is brought up to date. *)
(***************************************************************************)
THEOREM SwitchesGoToHighest ==
    ASSUME ~NestedIsr, IsrSuspendIDs = {}
    PROVE  TaskSpec => SwitchesToHighest
  <1>1. ASSUME SchedInv, [TaskNext]_taskVars, runTask' # runTask, runTask' \in Tasks
        PROVE  /\ Ready(runTask')
               /\ \A t \in Tasks : Ready(t) => prio[runTask'] <= prio[t]
    <2>1. runTask' = newTask /\ pendSV /\ isr = "none"
      <3>1. LOS_Schedule => runTask' = runTask
        BY DEF LOS_Schedule
      <3>2. \A x : Deleted(x) => runTask' \in {Dummy, runTask}
        BY DEF Deleted
      <3>3. Dummy \notin Tasks
        BY TaskAssumption
      <3>4. ASSUME NEW t \in Tasks, TaskCall(t) PROVE FALSE
        BY <1>1, <3>1, <3>2, <3>3, <3>4
           DEF TaskCall, Schedule, LOS_TaskCreate, LOS_TaskCreateFails, LOS_TaskCreateOnly,
               LOS_TaskSuspend, LOS_TaskResume, LOS_TaskDelete, LOS_TaskDelay, LOS_TaskPriSet,
               LOS_TaskYield, LOS_TaskLock, LOS_TaskUnlock, cpuVars
      <3>5. ~Interrupt /\ ~Tick
        BY <1>1, <3>1, <3>2, <3>3
           DEF Interrupt, IsrTaskSuspend, IsrTaskResume, IsrTaskDelete, Tick, osTickHandler,
               osTimesliceCheck, ScanExpire, ScanWake, ScanDone, cpuVars
      <3>6. UNCHANGED taskVars => FALSE
        BY <1>1 DEF taskVars, cpuVars
      <3> QED BY <1>1, <3>4, <3>5, <3>6 DEF TaskNext, PendSV_Handler
    <2>2. newTask = osPriqueueTop
      BY <1>1, <2>1 DEF SchedInv, SwitchOK
    <2> QED BY <1>1, <2>1, <2>2, GoodTop DEF SchedInv
  <1>2. SchedInv /\ [TaskNext]_taskVars =>
            [runTask' # runTask /\ runTask' \in Tasks
                => /\ Ready(runTask')
                   /\ \A t \in Tasks : Ready(t) => prio[runTask'] <= prio[t]]_taskVars
    BY <1>1
  <1> QED BY <1>2, SchedInvariant, PTL DEF TaskSpec, SwitchesToHighest

(***************************************************************************)
(* The calls of TaskSpec never fault.  No task waits for a kernel object in*)
(* TaskSpec: the deletion after a timed-out wait, which takes the task off *)
(* the timer list a second time, is not among its calls.                   *)
(***************************************************************************)
LEMMA NoFaultWithoutWaits ==
    ASSUME ~NestedIsr, IsrSuspendIDs = {}
    PROVE  TaskSpec => []NoFault
  <1>1. SchedInv => NoFault
    BY DEF SchedInv, NoFault
  <1> QED BY <1>1, SchedInvariant, PTL

(***************************************************************************)
(* What holds until the core faults (ListsAgree, NoLostWakeUp) holds always*)
(* among tasks that sleep, are suspended and resumed, and do not wait for a*)
(* kernel object: lists, bitmap, timers and status words tell one story,   *)
(* and a task that nothing blocks is ready.                                *)
(***************************************************************************)
THEOREM ListsAlwaysAgree ==
    ASSUME ~NestedIsr, IsrSuspendIDs = {}
    PROVE  TaskSpec => []ListsMatchStatus /\ []UnblockedIsReady
  BY ListsAgree, NoLostWakeUp, NoFaultWithoutWaits, PTL

-----------------------------------------------------------------------------
(***************************************************************************)
(* For the proofs about semaphores and other objects: what the scheduler   *)
(* does to a task that waits.  Every step of LosTask leaves the wait of a  *)
(* task alone, ends it by its timeout, or ends it with the task; and a task*)
(* runs again only when its wait is over.                                  *)
(***************************************************************************)
Waiting(l) == l \in {"wait", "woken"}

Pending(t) == status[t] \cap WaitFlags # {}

(***************************************************************************)
(* PendSV does not start a task that waits.  The running task may be in a  *)
(* wait list only between osTaskWait and its LOS_Schedule.                 *)
(***************************************************************************)
RunnerOK ==
    /\ pendSV => ~Pending(newTask)
    /\ runTask \in Tasks /\ ~pendSV /\ Pending(runTask)
           => pc[runTask] = "wait" /\ taskLock = 0

WaitersOK ==
    \A t \in Tasks : /\ "UNUSED" \in status[t] => ~Waiting(pc[t])
                     /\ Pending(t) => Waiting(pc[t])

WaitInv == TaskInv /\ (fault \/ (RunnerOK /\ WaitersOK))

-----------------------------------------------------------------------------
(***************************************************************************)
(* What a step of the scheduler may do to the wait of a task.              *)
(***************************************************************************)
Marks == {"UNUSED", "TIMEOUT", "PEND", "PEND_QUEUE"}

Unaffected(t) ==
    /\ Waiting(pc'[t]) <=> Waiting(pc[t])
    /\ status'[t] \cap Marks = status[t] \cap Marks

TimesOut(t) ==
    /\ pc'[t] = pc[t]
    /\ "TIMEOUT" \in status[t] /\ "TIMEOUT" \in status'[t]
    /\ "UNUSED" \notin status[t] /\ "UNUSED" \notin status'[t]
    /\ status'[t] \cap WaitFlags = {}

Dies(t) == status'[t] = {"UNUSED"} /\ ~Waiting(pc'[t])

Born(t) == "UNUSED" \in status[t] /\ status'[t] = {"SUSPEND"} /\ ~Waiting(pc'[t])

(***************************************************************************)
(* No wait list gains a task.                                              *)
(***************************************************************************)
Shrinks(m) == \A h \in PendLists : \A y : Linked(m, h, y) => Linked(list, h, y)

WaitsEnd ==
    /\ \A t \in Tasks : Unaffected(t) \/ TimesOut(t) \/ Dies(t) \/ Born(t)
    /\ Shrinks(list')

(***************************************************************************)
(* What most steps do to the processor: at most look for a switch, and     *)
(* nothing to a running task that has just begun to wait.                  *)
(***************************************************************************)
Calm ==
    /\ runTask' = runTask
    /\ UNCHANGED <<newTask, pendSV>> \/ LOS_Schedule
    /\ runTask \in Tasks /\ ~pendSV /\ pc[runTask] = "wait"
           => pc'[runTask] = "wait" /\ UNCHANGED taskLock

LEMMA ElsewhereSame ==
    ASSUME NEW l \in [ListHeads -> Seq(Tasks)], NEW g \in ListHeads \ PendLists, NEW x
    PROVE  \A h \in PendLists : /\ LOS_ListTailInsert(l, g, x)[h] = l[h]
                                /\ LOS_ListAdd(l, g, x)[h] = l[h]
  BY DEF LOS_ListTailInsert, LOS_ListAdd, ListHeads

LEMMA OtherHeads ==
    /\ \A p \in Prio : p \in ListHeads \ PendLists
    /\ FreeTask \in ListHeads \ PendLists /\ RecyleList \in ListHeads \ PendLists
  BY TaskAssumption DEF ListHeads

(***************************************************************************)
(* The queue operations make no wait list longer, when what they insert    *)
(* goes to another list.                                                   *)
(***************************************************************************)
LEMMA OpsShrink ==
    ASSUME Good, NEW x \in Tasks
    PROVE  /\ list \in [ListHeads -> Seq(Tasks)]
           /\ LOS_ListDelete(list, x) \in [ListHeads -> Seq(Tasks)]
           /\ Shrinks(list)
           /\ Shrinks(LOS_ListDelete(list, x))
           /\ \A l \in [ListHeads -> Seq(Tasks)], g \in ListHeads \ PendLists :
                  Shrinks(l) => /\ Shrinks(LOS_ListTailInsert(l, g, x))
                                /\ Shrinks(LOS_ListAdd(l, g, x))
  <1>1. list \in [ListHeads -> Seq(Tasks)] /\ LinkedOnce(list)
    BY DEF Good, Healthy, TaskTypeOK, QueuesOK, WellFormed, Queues
  <1>2. /\ LOS_ListDelete(list, x) \in [ListHeads -> Seq(Tasks)]
        /\ \A h \in ListHeads : \A y :
               Linked(LOS_ListDelete(list, x), h, y) <=> Linked(list, h, y) /\ y # x
    BY <1>1, ListDeleteFacts
  <1>3. Shrinks(list) /\ Shrinks(LOS_ListDelete(list, x))
    BY <1>2 DEF Shrinks, ListHeads
  <1>4. ASSUME NEW l \in [ListHeads -> Seq(Tasks)], NEW g \in ListHeads \ PendLists, Shrinks(l)
        PROVE  Shrinks(LOS_ListTailInsert(l, g, x)) /\ Shrinks(LOS_ListAdd(l, g, x))
    <2>1. \A h \in PendLists : /\ LOS_ListTailInsert(l, g, x)[h] = l[h]
                                /\ LOS_ListAdd(l, g, x)[h] = l[h]
      BY ElsewhereSame
    <2> QED BY <1>4, <2>1 DEF Shrinks, Linked
  <1> QED BY <1>1, <1>2, <1>3, <1>4

(***************************************************************************)
(* The same for the operations on the priority queue.                      *)
(***************************************************************************)
LEMMA QueueOpsShrink ==
    ASSUME Good, NEW x \in Tasks, NEW p, NEW r \in Prio
    PROVE  /\ Shrinks(Queues.list)
           /\ Shrinks(osPriqueueDequeue(Queues, x, p).list)
           /\ Shrinks(osPriqueueEnqueue(Queues, x, r).list)
           /\ Shrinks(osPriqueueEnqueue(osPriqueueDequeue(Queues, x, p), x, r).list)
           /\ Shrinks(Unlinked(Queues, x).list)
           /\ Shrinks(osPriqueueEnqueue(Unlinked(Queues, x), x, r).list)
  <1>1. Queues.list = list /\ Unlinked(Queues, x).list = LOS_ListDelete(list, x)
    BY DEF Queues, Unlinked
  <1>2. osPriqueueDequeue(Queues, x, p).list = LOS_ListDelete(list, x)
    BY DEF Queues, osPriqueueDequeue
  <1>3. \A q : osPriqueueEnqueue(q, x, r).list = LOS_ListTailInsert(q.list, r, x)
    BY DEF osPriqueueEnqueue
  <1>4. /\ list \in [ListHeads -> Seq(Tasks)] /\ Shrinks(list)
        /\ LOS_ListDelete(list, x) \in [ListHeads -> Seq(Tasks)]
        /\ Shrinks(LOS_ListDelete(list, x))
        /\ r \in ListHeads \ PendLists
    BY OpsShrink, OtherHeads
  <1>5. /\ Shrinks(LOS_ListTailInsert(list, r, x))
        /\ Shrinks(LOS_ListTailInsert(LOS_ListDelete(list, x), r, x))
    BY <1>4, OpsShrink
  <1> QED BY <1>1, <1>2, <1>3, <1>4, <1>5

LEMMA ReclaimShrinks ==
    ASSUME Good
    PROVE  /\ Shrinks(Reclaimed)
           /\ Reclaimed \in [ListHeads -> Seq(Tasks)] /\ LinkedOnce(Reclaimed)
           /\ \A x \in Tasks : Linked(Reclaimed, FreeTask, x) => "UNUSED" \in status[x]
  <1> DEFINE r == [Queues EXCEPT !.list = AddedAll(Queues.list, FreeTask, RecyleList)]
  <1>1. QueuesOK(r, status, prio) /\ r = [list |-> Reclaimed, bitmap |-> bitmap]
    BY ReclaimKeeps DEF Queues, Reclaimed, Good, Healthy
  <1>2. \A h \in PendLists : Reclaimed[h] = list[h]
    BY TaskAssumption DEF Reclaimed, AddedAll, Good, TaskTypeOK, ListHeads
  <1>3. Shrinks(Reclaimed)
    BY <1>2 DEF Shrinks, Linked
  <1> QED BY <1>1, <1>3 DEF QueuesOK, WellFormed, InPlace

-----------------------------------------------------------------------------
(***************************************************************************)
(* One lemma per operation.  First the tasks' calls.                       *)
(***************************************************************************)
LEMMA ScheduleWaits ==
    ASSUME Good, NEW t \in Tasks, Schedule(t)
    PROVE  WaitsEnd
  <1>1. /\ UNCHANGED <<list, status>>
        /\ pc' = [pc EXCEPT ![t] = IF pc[t] = "wait" THEN "woken" ELSE "user"]
        /\ pc[t] \in {"sched", "wait"}
    BY DEF Schedule, Scheduling, Goto, listVars
  <1>2. pc \in [Tasks -> {"user", "sched", "create", "wait", "woken"}]
    BY DEF Good, TaskTypeOK
  <1>3. \A u \in Tasks : Unaffected(u)
    BY <1>1, <1>2 DEF Unaffected, Waiting
  <1> QED BY <1>1, <1>3 DEF WaitsEnd, Shrinks

LEMMA PendSVWaits ==
    ASSUME Good, PendSV_Handler
    PROVE  WaitsEnd
  <1>1. /\ UNCHANGED <<list, pc>>
        /\ \A u \in TCBs : status'[u] \ {"RUNNING"} = status[u] \ {"RUNNING"}
    BY DEF PendSV_Handler, listVars, callVars
  <1>2. \A u \in Tasks : status'[u] \cap Marks = status[u] \cap Marks
    BY <1>1 DEF Marks, TCBs
  <1> QED BY <1>1, <1>2 DEF WaitsEnd, Unaffected, Shrinks

(***************************************************************************)
(* A call of a task that does not wait; it changes no mark, or makes a free*)
(* control block a new task.                                               *)
(***************************************************************************)
LEMMA CallWaits ==
    ASSUME Good, WaitersOK, NEW t \in Tasks, InTask(t), ~Waiting(pc[t]), NEW l, ~Waiting(l),
           pc' \in {pc, [pc EXCEPT ![t] = l]},
           \A u \in Tasks : \/ status'[u] \cap Marks = status[u] \cap Marks
                            \/ "UNUSED" \in status[u] /\ status'[u] = {"SUSPEND"},
           Shrinks(list'),
           runTask' = runTask, UNCHANGED <<newTask, pendSV>> \/ LOS_Schedule
    PROVE  WaitsEnd /\ Calm
  <1>1. pc \in [Tasks -> {"user", "sched", "create", "wait", "woken"}]
    BY DEF Good, TaskTypeOK
  <1>2. \A u \in Tasks : Waiting(pc'[u]) <=> Waiting(pc[u])
    BY <1>1
  <1>3. Calm
    BY DEF Calm, InTask, Waiting
  <1>4. ASSUME NEW u \in Tasks PROVE Unaffected(u) \/ Born(u)
    BY <1>2 DEF Unaffected, Born, WaitersOK
  <1> QED BY <1>3, <1>4 DEF WaitsEnd

(***************************************************************************)
(* The flags that the calls of los_task.c set and clear are no marks.      *)
(***************************************************************************)
LEMMA SameMarks ==
    ASSUME NEW st \in [TCBs -> SUBSET Flags], NEW x \in TCBs, NEW new,
           new \ {"READY", "SUSPEND", "DELAY", "RUNNING"}
               = st[x] \ {"READY", "SUSPEND", "DELAY", "RUNNING"}
    PROVE  \A u \in Tasks : [st EXCEPT ![x] = new][u] \cap Marks = st[u] \cap Marks
  <1>1. new \cap Marks = st[x] \cap Marks
    BY DEF Marks
  <1> QED BY <1>1 DEF TCBs

LEMMA LockWaits ==
    ASSUME Good, WaitersOK, NEW t \in Tasks, LOS_TaskLock(t) \/ LOS_TaskUnlock(t)
    PROVE  WaitsEnd /\ Calm
  <1>1. /\ UNCHANGED <<list, status, runTask, newTask, pendSV>>
        /\ InTask(t) /\ pc[t] = "user" /\ pc' \in {pc, [pc EXCEPT ![t] = "sched"]}
    BY DEF LOS_TaskLock, LOS_TaskUnlock, Calls, Goto, listVars, cpuVars, callVars
  <1>2. ~Waiting("user") /\ ~Waiting("sched") /\ Shrinks(list')
    BY <1>1 DEF Waiting, Shrinks
  <1> QED BY <1>1, <1>2, CallWaits

LEMMA CreateFailsWaits ==
    ASSUME Good, WaitersOK, NEW t \in Tasks, LOS_TaskCreateFails(t)
    PROVE  WaitsEnd /\ Calm
  <1>1. /\ UNCHANGED <<status, runTask, newTask, pendSV, pc>>
        /\ InTask(t) /\ pc[t] = "user" /\ list' = Reclaimed
    BY DEF LOS_TaskCreateFails, Calls, cpuVars, callVars
  <1>2. Shrinks(list')
    BY <1>1, ReclaimShrinks
  <1>3. ~Waiting("user")
    BY DEF Waiting
  <1> QED BY <1>1, <1>2, <1>3, CallWaits

LEMMA CreateOnlyWaits ==
    ASSUME Good, WaitersOK, NEW t \in Tasks, NEW p, NEW next \in {"create", "user"},
           LOS_TaskCreateOnly(t, p, next)
    PROVE  WaitsEnd /\ Calm
  <1> DEFINE x == Head(Reclaimed[FreeTask])
  <1>1. /\ UNCHANGED <<runTask, newTask, pendSV>>
        /\ InTask(t) /\ pc[t] = "user"
        /\ Reclaimed[FreeTask] # <<>>
        /\ list' = LOS_ListDelete(Reclaimed, x)
        /\ status' = [status EXCEPT ![x] = {"SUSPEND"}]
        /\ pc' = [pc EXCEPT ![t] = next]
    BY DEF LOS_TaskCreateOnly, Calls, cpuVars
  <1>2. /\ Shrinks(Reclaimed)
        /\ Reclaimed \in [ListHeads -> Seq(Tasks)] /\ LinkedOnce(Reclaimed)
        /\ FreeTask \in ListHeads
    BY ReclaimShrinks, OtherHeads
  <1>3. x \in Tasks /\ "UNUSED" \in status[x]
    BY <1>1, <1>2, ReclaimShrinks, EmptyLinksNone
  <1> HIDE DEF x
  <1>4. Shrinks(list')
    <2>1. \A h \in ListHeads : \A y : Linked(list', h, y) => Linked(Reclaimed, h, y)
      BY <1>1, <1>2, ListDeleteFacts
    <2> QED BY <1>2, <2>1 DEF Shrinks, ListHeads
  <1>5. \A u \in Tasks : \/ status'[u] \cap Marks = status[u] \cap Marks
                         \/ "UNUSED" \in status[u] /\ status'[u] = {"SUSPEND"}
    BY <1>1, <1>3 DEF Good, TaskTypeOK, TCBs
  <1>6. ~Waiting(pc[t]) /\ ~Waiting(next)
    BY <1>1 DEF Waiting
  <1> QED BY <1>1, <1>4, <1>5, <1>6, CallWaits

LEMMA CreateWaits ==
    ASSUME Good, WaitersOK, NEW t \in Tasks, LOS_TaskCreate(t)
    PROVE  WaitsEnd /\ Calm
  <1> DEFINE x == handle[t]
  <1>1. /\ InTask(t) /\ pc[t] = "create"
        /\ status' = [status EXCEPT ![x] = (status[x] \ {"SUSPEND"}) \cup {"READY"}]
        /\ list' = osPriqueueEnqueue(Queues, x, prio[x]).list
        /\ LOS_Schedule /\ runTask' = runTask
        /\ pc' = [pc EXCEPT ![t] = "user"]
    BY DEF LOS_TaskCreate, Goto, Become, LOS_Schedule
  <1>2. x \in Tasks /\ x \in TCBs /\ status \in [TCBs -> SUBSET Flags] /\ prio[x] \in Prio
    BY <1>1 DEF Good, Healthy, HandlesOK, TaskTypeOK, TCBs
  <1> HIDE DEF x
  <1>3. Shrinks(list')
    BY <1>1, <1>2, QueueOpsShrink
  <1>4. \A u \in Tasks : status'[u] \cap Marks = status[u] \cap Marks
    BY <1>1, <1>2, SameMarks
  <1>5. ~Waiting("create") /\ ~Waiting("user")
    BY DEF Waiting
  <1> QED BY <1>1, <1>3, <1>4, <1>5, CallWaits

LEMMA PriSetWaits ==
    ASSUME Good, WaitersOK, NEW t \in Tasks, NEW x \in Tasks, NEW p \in Prio,
           LOS_TaskPriSet(t, x, p)
    PROVE  WaitsEnd /\ Calm
  <1>1. /\ UNCHANGED <<status, runTask, newTask, pendSV>>
        /\ InTask(t) /\ pc[t] = "user"
        /\ list' = osTaskPriModify(Queues, x, p).list
        /\ pc' \in {pc, [pc EXCEPT ![t] = "sched"]}
    BY DEF LOS_TaskPriSet, Calls, Goto, Become, cpuVars
  <1>2. Shrinks(list')
    BY <1>1, QueueOpsShrink DEF osTaskPriModify
  <1>3. ~Waiting("user") /\ ~Waiting("sched")
    BY DEF Waiting
  <1> QED BY <1>1, <1>2, <1>3, CallWaits

LEMMA SuspendedWaits ==
    ASSUME Good, NEW x \in Tasks, Suspended(x)
    PROVE  /\ \A u \in Tasks : status'[u] \cap Marks = status[u] \cap Marks
           /\ Shrinks(list')
  <1>1. /\ status \in [TCBs -> SUBSET Flags] /\ x \in TCBs /\ prio[x] \in Prio
        /\ status' = [status EXCEPT ![x] = (status[x] \ {"READY"}) \cup {"SUSPEND"}]
    BY DEF Suspended, Good, TaskTypeOK, TCBs
  <1>2. list' = list \/ list' = osPriqueueDequeue(Queues, x, prio[x]).list
    BY DEF Suspended, Become, listVars
  <1>3. Shrinks(list')
    BY <1>1, <1>2, OpsShrink, QueueOpsShrink
  <1> QED BY <1>1, <1>3, SameMarks

LEMMA SuspendWaits ==
    ASSUME Good, WaitersOK, NEW t \in Tasks, NEW x \in Tasks, LOS_TaskSuspend(t, x)
    PROVE  WaitsEnd /\ Calm
  <1>1. /\ UNCHANGED <<runTask, newTask, pendSV>>
        /\ InTask(t) /\ pc[t] = "user" /\ Suspended(x)
        /\ pc' \in {pc, [pc EXCEPT ![t] = "sched"]}
    BY DEF LOS_TaskSuspend, Calls, Goto, cpuVars
  <1>2. ~Waiting("user") /\ ~Waiting("sched")
    BY DEF Waiting
  <1> QED BY <1>1, <1>2, SuspendedWaits, CallWaits

LEMMA ResumedWaits ==
    ASSUME Good, NEW x \in Tasks, Resumed(x)
    PROVE  /\ \A u \in Tasks : status'[u] \cap Marks = status[u] \cap Marks
           /\ Shrinks(list')
  <1>1. status \in [TCBs -> SUBSET Flags] /\ x \in TCBs /\ prio[x] \in Prio
    BY DEF Good, TaskTypeOK, TCBs
  <1>2. \/ status' = [status EXCEPT ![x] = (status[x] \ {"SUSPEND"}) \cup {"READY"}]
        \/ status' = [status EXCEPT ![x] = status[x] \ {"SUSPEND"}]
    BY DEF Resumed
  <1>3. list' = list \/ list' = osPriqueueEnqueue(Queues, x, prio[x]).list
    BY DEF Resumed, Become, listVars
  <1>4. Shrinks(list')
    BY <1>1, <1>3, OpsShrink, QueueOpsShrink
  <1>5. CASE status' = [status EXCEPT ![x] = (status[x] \ {"SUSPEND"}) \cup {"READY"}]
    BY <1>1, <1>4, <1>5, SameMarks
  <1>6. CASE status' = [status EXCEPT ![x] = status[x] \ {"SUSPEND"}]
    BY <1>1, <1>4, <1>6, SameMarks
  <1> QED BY <1>2, <1>5, <1>6

LEMMA ResumeWaits ==
    ASSUME Good, WaitersOK, NEW t \in Tasks, NEW x \in Tasks, LOS_TaskResume(t, x)
    PROVE  WaitsEnd /\ Calm
  <1>1. /\ UNCHANGED <<runTask, newTask, pendSV>>
        /\ InTask(t) /\ pc[t] = "user" /\ Resumed(x)
        /\ pc' \in {pc, [pc EXCEPT ![t] = "sched"]}
    BY DEF LOS_TaskResume, Calls, Goto, cpuVars
  <1>2. ~Waiting("user") /\ ~Waiting("sched")
    BY DEF Waiting
  <1> QED BY <1>1, <1>2, ResumedWaits, CallWaits

LEMMA DelayWaits ==
    ASSUME Good, WaitersOK, NEW t \in Tasks, NEW n, LOS_TaskDelay(t, n)
    PROVE  WaitsEnd /\ Calm
  <1>1. /\ UNCHANGED <<runTask, newTask, pendSV>>
        /\ InTask(t) /\ pc[t] = "user"
        /\ list' = osPriqueueDequeue(Queues, t, prio[t]).list
        /\ status' = [status EXCEPT ![t] = (status[t] \ {"READY"}) \cup {"DELAY"}]
        /\ pc' = [pc EXCEPT ![t] = "sched"]
    BY DEF LOS_TaskDelay, Calls, Goto, Become, cpuVars
  <1>2. status \in [TCBs -> SUBSET Flags] /\ t \in TCBs /\ prio[t] \in Prio
    BY DEF Good, TaskTypeOK, TCBs
  <1>3. Shrinks(list')
    BY <1>1, <1>2, QueueOpsShrink
  <1>4. \A u \in Tasks : status'[u] \cap Marks = status[u] \cap Marks
    BY <1>1, <1>2, SameMarks
  <1>5. ~Waiting("user") /\ ~Waiting("sched")
    BY DEF Waiting
  <1> QED BY <1>1, <1>3, <1>4, <1>5, CallWaits

LEMMA YieldShrinks ==
    ASSUME Good, NEW t \in Tasks, list' = LOS_ListTailInsert(LOS_ListDelete(list, t), prio[t], t)
    PROVE  Shrinks(list')
  <1>1. prio[t] \in ListHeads \ PendLists
    BY OtherHeads DEF Good, TaskTypeOK, TCBs
  <1>2. /\ LOS_ListDelete(list, t) \in [ListHeads -> Seq(Tasks)]
        /\ Shrinks(LOS_ListDelete(list, t))
    BY OpsShrink
  <1> QED BY <1>1, <1>2, OpsShrink

LEMMA YieldWaits ==
    ASSUME Good, WaitersOK, NEW t \in Tasks, LOS_TaskYield(t)
    PROVE  WaitsEnd /\ Calm
  <1>1. /\ UNCHANGED <<status, runTask, newTask, pendSV>>
        /\ InTask(t) /\ pc[t] = "user"
        /\ list' = LOS_ListTailInsert(LOS_ListDelete(list, t), prio[t], t)
        /\ pc' = [pc EXCEPT ![t] = "sched"]
    BY DEF LOS_TaskYield, Calls, Goto, cpuVars
  <1>2. ~Waiting("user") /\ ~Waiting("sched") /\ Shrinks(list')
    BY <1>1, YieldShrinks DEF Waiting
  <1> QED BY <1>1, <1>2, CallWaits

-----------------------------------------------------------------------------
(***************************************************************************)
(* Interrupt handlers, the tick and the deletion of a task.                *)
(***************************************************************************)
LEMMA QuietWaits ==
    ASSUME UNCHANGED pc, \A u \in Tasks : status'[u] \cap Marks = status[u] \cap Marks,
           Shrinks(list'), UNCHANGED taskLock,
           UNCHANGED <<runTask, newTask, pendSV>> \/ LOS_Schedule
    PROVE  WaitsEnd /\ Calm
  BY DEF WaitsEnd, Unaffected, Calm, LOS_Schedule

LEMMA IsrSuspendWaits ==
    ASSUME Good, NEW x \in Tasks, IsrTaskSuspend(x)
    PROVE  WaitsEnd /\ Calm
  <1>1. /\ UNCHANGED <<taskLock, pc>> /\ Suspended(x)
        /\ UNCHANGED <<runTask, newTask, pendSV>> \/ LOS_Schedule
    BY DEF IsrTaskSuspend, cpuVars, callVars
  <1> QED BY <1>1, SuspendedWaits, QuietWaits

LEMMA IsrResumeWaits ==
    ASSUME Good, NEW x \in Tasks, IsrTaskResume(x)
    PROVE  WaitsEnd /\ Calm
  <1>1. /\ UNCHANGED <<taskLock, pc>> /\ Resumed(x)
        /\ UNCHANGED <<runTask, newTask, pendSV>> \/ LOS_Schedule
    BY DEF IsrTaskResume, cpuVars, callVars
  <1> QED BY <1>1, ResumedWaits, QuietWaits

LEMMA TickWaits ==
    ASSUME Good, osTickHandler
    PROVE  WaitsEnd /\ Calm
  <1>1. /\ UNCHANGED <<status, taskLock, pc>>
        /\ \/ UNCHANGED <<list, runTask, newTask, pendSV>>
           \/ /\ Yields(runTask)
              /\ list' = LOS_ListTailInsert(LOS_ListDelete(list, runTask), prio[runTask], runTask)
              /\ LOS_Schedule
    BY DEF osTickHandler, osTimesliceCheck, cpuVars, callVars
  <1>2. Yields(runTask) => runTask \in Tasks
    BY DEF Yields, Ready, Good, Healthy, ShapeOK, TaskTypeOK, TCBs
  <1>3. Shrinks(list')
    BY <1>1, <1>2, YieldShrinks DEF Shrinks
  <1> QED BY <1>1, <1>3, QuietWaits

LEMMA ExpireWaits ==
    ASSUME NEW x, ScanExpire(x)
    PROVE  WaitsEnd /\ Calm
  <1>1. UNCHANGED <<list, status, taskLock, pc, runTask, newTask, pendSV>>
    BY DEF ScanExpire, listVars, cpuVars, callVars
  <1> QED BY <1>1, QuietWaits DEF Shrinks

LEMMA DoneWaits ==
    ASSUME ScanDone
    PROVE  WaitsEnd /\ Calm
  <1>1. /\ UNCHANGED <<list, status, taskLock, pc>>
        /\ UNCHANGED <<runTask, newTask, pendSV>> \/ LOS_Schedule
    BY DEF ScanDone, listVars, cpuVars, callVars
  <1> QED BY <1>1, QuietWaits DEF Shrinks

(***************************************************************************)
(* osTaskScan ends a sleep or, leaving TIMEOUT behind, a wait.             *)
(***************************************************************************)
LEMMA WakeWaits ==
    ASSUME Good, ScanWake
    PROVE  WaitsEnd /\ Calm
  <1> DEFINE x    == scanTask
             over == IF "PEND" \in status[x] THEN "PEND"
                     ELSE IF "PEND_QUEUE" \in status[x] THEN "PEND_QUEUE" ELSE "DELAY"
             out  == IF OnPendList(status[x]) THEN Unlinked(Queues, x) ELSE Queues
  <1>1. /\ x \in Tasks /\ x \in TCBs /\ scanStatus = status[x]
        /\ \/ "DELAY" \in status[x]
           \/ "TIMEOUT" \in status[x] /\ status[x] \cap WaitFlags # {}
        /\ status \in [TCBs -> SUBSET Flags] /\ prio[x] \in Prio
    BY DEF ScanWake, Good, Healthy, ScanOK, TaskTypeOK, TCBs
  <1>2. /\ UNCHANGED <<runTask, newTask, pendSV, taskLock, pc>>
        /\ \/ status' = [status EXCEPT ![x] = status[x] \ {over}]
           \/ status' = [status EXCEPT ![x] = (status[x] \ {over}) \cup {"READY"}]
        /\ list' = out.list \/ list' = osPriqueueEnqueue(out, x, prio[x]).list
    BY <1>1 DEF ScanWake, Become, cpuVars, callVars
  <1>3. Shrinks(list')
    BY <1>1, <1>2, QueueOpsShrink
  <1>4. /\ \A u \in Tasks \ {x} : status'[u] = status[u]
        /\ status'[x] = status[x] \ {over} \/ status'[x] = (status[x] \ {over}) \cup {"READY"}
    BY <1>1, <1>2 DEF TCBs
  <1>5. Unaffected(x) \/ TimesOut(x)
    <2>1. CASE "DELAY" \in status[x]
      <3>1. status[x] \cap WaitFlags = {} /\ over = "DELAY"
        BY <1>1, <2>1 DEF Good, Healthy, ShapeOK, WaitFlags
      <3> QED BY <1>2, <1>4, <3>1 DEF Unaffected, Marks
    <2>2. CASE "DELAY" \notin status[x]
      <3>1. /\ "TIMEOUT" \in status[x] /\ "UNUSED" \notin status[x]
            /\ (status[x] \ {over}) \cap WaitFlags = {} /\ over \in WaitFlags
        BY <1>1, <2>2 DEF Good, Healthy, ShapeOK, WaitFlags, BlockFlags
      <3> QED BY <1>2, <1>4, <3>1 DEF TimesOut, WaitFlags
    <2> QED BY <2>1, <2>2
  <1>6. ASSUME NEW u \in Tasks \ {x} PROVE Unaffected(u)
    BY <1>2, <1>4 DEF Unaffected
  <1> QED BY <1>2, <1>3, <1>5, <1>6 DEF WaitsEnd, Calm

LEMMA DeletedWaits ==
    ASSUME Good, NEW x \in Tasks, Deleted(x)
    PROVE  WaitsEnd /\ status'[x] = {"UNUSED"}
  <1> DEFINE running == "RUNNING" \in status[x]
             out     == IF Ready(x) THEN osPriqueueDequeue(Queues, x, prio[x])
                        ELSE IF OnPendList(status[x]) THEN Unlinked(Queues, x) ELSE Queues
  <1>1. /\ status' = [status EXCEPT ![x] = {"UNUSED"},
                                    ![Dummy] = IF running
                                               THEN (status[x] \ {"READY", "SUSPEND"}) \cup {"UNUSED"}
                                               ELSE @]
        /\ pc' = [pc EXCEPT ![x] = "user"]
        /\ Become([out EXCEPT !.list = IF running THEN LOS_ListTailInsert(@, RecyleList, x)
                                                  ELSE LOS_ListAdd(@, FreeTask, x)])
    BY DEF Deleted, Goto
  <1>2. /\ out \in {[list |-> list, bitmap |-> out.bitmap],
                    [list |-> LOS_ListDelete(list, x), bitmap |-> out.bitmap]}
    BY DEF osPriqueueDequeue, Unlinked, Queues
  <1> HIDE DEF out
  <1>3. /\ list' = LOS_ListTailInsert(out.list, RecyleList, x) \/ list' = LOS_ListAdd(out.list, FreeTask, x)
        /\ out.list = list \/ out.list = LOS_ListDelete(list, x)
    BY <1>1, <1>2 DEF Become
  <1>4. Shrinks(list')
    <2>1. out.list \in [ListHeads -> Seq(Tasks)] /\ Shrinks(out.list)
      BY <1>3, OpsShrink
    <2> QED BY <1>3, <2>1, OpsShrink, OtherHeads
  <1>5. /\ status'[x] = {"UNUSED"} /\ pc'[x] = "user"
        /\ \A u \in Tasks \ {x} : status'[u] = status[u] /\ pc'[u] = pc[u]
    BY <1>1, TaskAssumption DEF Good, TaskTypeOK, TCBs
  <1>6. Dies(x) /\ \A u \in Tasks \ {x} : Unaffected(u)
    BY <1>5 DEF Dies, Unaffected, Waiting
  <1> QED BY <1>4, <1>5, <1>6 DEF WaitsEnd

-----------------------------------------------------------------------------
(***************************************************************************)
(* Together: every step of the scheduler.                                  *)
(***************************************************************************)
LEMMA TaskEffect ==
    ASSUME Good, WaitersOK, ~NestedIsr, TaskNext
    PROVE  /\ WaitsEnd
           /\ \/ Calm
              \/ \E t \in Tasks : Schedule(t)
              \/ \E x \in Tasks : Deleted(x)
              \/ PendSV_Handler
  <1>1. /\ NewPrios \subseteq Prio
        /\ SuspendIDs \cup DeleteIDs \cup IsrSuspendIDs \cup IsrResumeIDs \cup IsrDeleteIDs
               \subseteq Tasks
    BY TaskAssumption
  <1>2. ASSUME NEW t \in Tasks, TaskCall(t)
        PROVE  WaitsEnd /\ (Calm \/ Schedule(t) \/ \E x \in Tasks : Deleted(x))
    <2>1. CASE Schedule(t)
      BY <2>1, ScheduleWaits
    <2>2. CASE LOS_TaskCreate(t) \/ LOS_TaskCreateFails(t) \/ LOS_TaskYield(t)
      BY <2>2, CreateWaits, CreateFailsWaits, YieldWaits
    <2>3. CASE LOS_TaskLock(t) \/ LOS_TaskUnlock(t)
      BY <2>3, LockWaits
    <2>4. ASSUME NEW p \in NewPrios,
                 LOS_TaskCreateOnly(t, p, "create") \/ LOS_TaskCreateOnly(t, p, "user")
          PROVE  WaitsEnd /\ Calm
      BY <2>4, CreateOnlyWaits
    <2>5. ASSUME NEW x \in SuspendIDs, LOS_TaskSuspend(t, x) \/ LOS_TaskResume(t, x)
          PROVE  WaitsEnd /\ Calm
      BY <1>1, <2>5, SuspendWaits, ResumeWaits
    <2>6. ASSUME NEW x \in DeleteIDs, LOS_TaskDelete(t, x)
          PROVE  WaitsEnd /\ Deleted(x)
      BY <1>1, <2>6, DeletedWaits DEF LOS_TaskDelete
    <2>7. ASSUME NEW n \in Delays, LOS_TaskDelay(t, n)
          PROVE  WaitsEnd /\ Calm
      BY <2>7, DelayWaits
    <2>8. ASSUME NEW x \in Tasks, NEW p \in NewPrios, LOS_TaskPriSet(t, x, p)
          PROVE  WaitsEnd /\ Calm
      BY <1>1, <2>8, PriSetWaits
    <2> QED BY <1>1, <1>2, <2>1, <2>2, <2>3, <2>4, <2>5, <2>6, <2>7, <2>8 DEF TaskCall
  <1>3. CASE Interrupt
    <2>1. ASSUME NEW x \in IsrSuspendIDs, IsrTaskSuspend(x) PROVE WaitsEnd /\ Calm
      BY <1>1, <2>1, IsrSuspendWaits
    <2>2. ASSUME NEW x \in IsrResumeIDs, IsrTaskResume(x) PROVE WaitsEnd /\ Calm
      BY <1>1, <2>2, IsrResumeWaits
    <2>3. ASSUME NEW x \in IsrDeleteIDs, IsrTaskDelete(x) PROVE WaitsEnd /\ Deleted(x)
      BY <1>1, <2>3, DeletedWaits DEF IsrTaskDelete
    <2> QED BY <1>1, <1>3, <2>1, <2>2, <2>3 DEF Interrupt
  <1>4. CASE Tick
    BY <1>4, TickWaits, ExpireWaits, WakeWaits, DoneWaits DEF Tick
  <1>5. CASE PendSV_Handler
    BY <1>5, PendSVWaits
  <1> QED BY <1>2, <1>3, <1>4, <1>5 DEF TaskNext

(***************************************************************************)
(* A task runs again only when its wait is over.                           *)
(***************************************************************************)
LEMMA PendingShrinks ==
    ASSUME WaitersOK, WaitsEnd, NEW t \in Tasks, Pending(t)'
    PROVE  Pending(t) /\ Unaffected(t) /\ Waiting(pc[t])
  <1>1. ~TimesOut(t) /\ ~Dies(t) /\ ~Born(t)
    BY DEF Pending, TimesOut, Dies, Born, WaitFlags
  <1>2. Unaffected(t)
    BY <1>1 DEF WaitsEnd
  <1>3. Pending(t)
    BY <1>2 DEF Pending, Unaffected, WaitFlags, Marks
  <1> QED BY <1>2, <1>3 DEF WaitersOK

LEMMA Reawaits ==
    ASSUME TaskTypeOK, Good', LOS_Schedule, RunnerOK,
           \A t \in Tasks : Pending(t)' => Pending(t),
           \A t \in Tasks : t = runTask /\ ~pendSV /\ Pending(t)' =>
               \/ pc'[t] = "wait" /\ taskLock' = 0
               \/ taskLock = 0
    PROVE  RunnerOK'
  <1>1. osPriqueueTop' \in Tasks /\ Ready(osPriqueueTop)'
    BY NextTop
  <1>2. ~Pending(osPriqueueTop)'
    BY <1>1 DEF Good, Healthy, ShapeOK, Ready, Pending, WaitFlags, BlockFlags
  <1>3. /\ newTask' = osPriqueueTop' /\ runTask' = runTask
        /\ pendSV' = (pendSV \/ (runTask # osPriqueueTop' /\ taskLock = 0))
    BY DEF LOS_Schedule
  <1>4. ~Pending(newTask)'
    BY <1>2, <1>3 DEF Pending
  <1>5. ASSUME runTask \in Tasks, ~pendSV', Pending(runTask)'
        PROVE  pc'[runTask] = "wait" /\ taskLock' = 0
    BY <1>2, <1>3, <1>5 DEF Pending, TaskTypeOK
  <1> QED BY <1>3, <1>4, <1>5 DEF RunnerOK

LEMMA WaitStep ==
    ASSUME WaitInv, ~NestedIsr, TaskNext
    PROVE  WaitInv' /\ WaitsEnd
  <1>1. ~fault /\ Good /\ RunnerOK /\ WaitersOK /\ TaskInv'
    BY FaultedStops, InvStep DEF WaitInv, TaskInv, Good
  <1>2. WaitsEnd
    BY <1>1, TaskEffect
  <1>3. ASSUME ~fault' PROVE RunnerOK' /\ WaitersOK'
    <2>1. Good'
      BY <1>1, <1>3 DEF TaskInv, Good
    <2>2. WaitersOK'
      <3> SUFFICES ASSUME NEW t \in Tasks
                   PROVE  /\ "UNUSED" \in status'[t] => ~Waiting(pc'[t])
                          /\ Pending(t)' => Waiting(pc'[t])
        BY DEF WaitersOK
      <3>1. CASE Unaffected(t)
        BY <1>1, <1>2, <3>1, PendingShrinks DEF WaitersOK, Unaffected, Marks
      <3>2. CASE ~Unaffected(t)
        <4>1. ~Pending(t)'
          BY <1>1, <1>2, <3>2, PendingShrinks
        <4> QED BY <1>2, <3>2, <4>1 DEF WaitsEnd, TimesOut, Dies, Born
      <3> QED BY <3>1, <3>2
    <2>3. \A t \in Tasks : Pending(t)' => Pending(t)
      BY <1>1, <1>2, PendingShrinks
    <2>4. ASSUME Calm PROVE RunnerOK'
      <3>1. CASE UNCHANGED <<newTask, pendSV>>
        BY <1>1, <2>3, <2>4, <3>1 DEF Calm, RunnerOK, Good, TaskTypeOK, Pending
      <3>2. CASE LOS_Schedule
        <4>1. \A t \in Tasks : t = runTask /\ ~pendSV /\ Pending(t)' =>
                  pc'[t] = "wait" /\ taskLock' = 0
          BY <1>1, <2>3, <2>4 DEF Calm, RunnerOK, Pending
        <4> QED BY <1>1, <2>1, <2>3, <3>2, <4>1, Reawaits DEF Good
      <3> QED BY <2>4, <3>1, <3>2 DEF Calm
    <2>5. ASSUME NEW t \in Tasks, Schedule(t) PROVE RunnerOK'
      <3>1. LOS_Schedule /\ runTask = t /\ ~pendSV
        BY <2>5 DEF Schedule, InTask
      <3>2. Pending(t)' => taskLock = 0
        BY <1>1, <2>3, <3>1 DEF RunnerOK
      <3> QED BY <1>1, <2>1, <2>3, <3>1, <3>2, Reawaits DEF Good
    <2>6. ASSUME NEW x \in Tasks, Deleted(x) PROVE RunnerOK'
      <3> DEFINE running == "RUNNING" \in status[x]
      <3>1. /\ newTask' = osPriqueueTop'
            /\ runTask' = IF running THEN Dummy ELSE runTask
            /\ pendSV' = (pendSV \/ running)
            /\ taskLock' = IF running THEN 0 ELSE taskLock
            /\ pc' = [pc EXCEPT ![x] = "user"]
        BY <2>6 DEF Deleted, Goto
      <3>2. status'[x] = {"UNUSED"}
        BY <1>1, <2>6, DeletedWaits
      <3>3. ~Pending(x)'
        BY <3>2 DEF Pending, WaitFlags
      <3>4. ~Pending(newTask)'
        <4>1. osPriqueueTop' \in Tasks /\ Ready(osPriqueueTop)'
          BY <2>1, NextTop
        <4> QED BY <2>1, <3>1, <4>1
               DEF Good, Healthy, ShapeOK, Ready, Pending, WaitFlags, BlockFlags
      <3>5. ASSUME runTask' \in Tasks, ~pendSV', Pending(runTask)'
            PROVE  pc'[runTask'] = "wait" /\ taskLock' = 0
        <4>1. runTask' = runTask /\ ~pendSV /\ taskLock' = taskLock
          BY <3>1, <3>5
        <4>2. runTask # x
          BY <3>3, <3>5, <4>1
        <4> QED BY <1>1, <2>3, <3>1, <3>5, <4>1, <4>2 DEF RunnerOK, Pending, Good, TaskTypeOK
      <3> QED BY <3>4, <3>5 DEF RunnerOK
    <2>7. ASSUME PendSV_Handler PROVE RunnerOK'
      <3>1. pendSV /\ runTask' = newTask /\ newTask' = newTask /\ ~pendSV' /\ newTask \in Tasks
        BY <1>1, <2>7 DEF PendSV_Handler, Good, TaskTypeOK
      <3> QED BY <1>1, <2>3, <3>1 DEF RunnerOK, Pending
    <2>8. RunnerOK'
      BY <1>1, <2>4, <2>5, <2>6, <2>7, TaskEffect
    <2> QED BY <2>2, <2>8
  <1> QED BY <1>1, <1>2, <1>3 DEF WaitInv

(***************************************************************************)
(* A task that waits goes on waiting unless it is deleted.                 *)
(***************************************************************************)
LEMMA WaitersStay ==
    ASSUME TaskTypeOK, TaskNext, NEW u \in Tasks, u \notin DeleteIDs \cup IsrDeleteIDs, Waiting(pc[u])
    PROVE  Waiting(pc'[u])
  <1>1. pc \in [Tasks -> {"user", "sched", "create", "wait", "woken"}]
    BY DEF TaskTypeOK
  <1>2. ASSUME NEW x \in Tasks \ {u}, Deleted(x) PROVE pc'[u] = pc[u]
    BY <1>1, <1>2 DEF Deleted, Goto
  <1>3. ASSUME NEW t \in Tasks, TaskCall(t) PROVE Waiting(pc'[u])
    <2>1. CASE Schedule(t)
      BY <1>1, <2>1 DEF Schedule, Scheduling, Goto, Waiting
    <2>2. ASSUME NEW x \in DeleteIDs, LOS_TaskDelete(t, x) PROVE Waiting(pc'[u])
      BY <1>2, <2>2, TaskAssumption DEF LOS_TaskDelete
    <2>3. CASE \/ LOS_TaskCreate(t)
               \/ LOS_TaskCreateFails(t)
               \/ \E p \in NewPrios : \/ LOS_TaskCreateOnly(t, p, "create")
                                      \/ LOS_TaskCreateOnly(t, p, "user")
               \/ \E x \in SuspendIDs : LOS_TaskSuspend(t, x) \/ LOS_TaskResume(t, x)
               \/ \E n \in Delays : LOS_TaskDelay(t, n)
               \/ \E x \in Tasks, p \in NewPrios : LOS_TaskPriSet(t, x, p)
               \/ LOS_TaskYield(t) \/ LOS_TaskLock(t) \/ LOS_TaskUnlock(t)
      <3>1. /\ pc[t] \in {"user", "create"}
            /\ pc' = pc \/ \E l : pc' = [pc EXCEPT ![t] = l]
        BY <2>3 DEF LOS_TaskCreate, LOS_TaskCreateFails, LOS_TaskCreateOnly, LOS_TaskSuspend,
                    LOS_TaskResume, LOS_TaskDelay, LOS_TaskPriSet, LOS_TaskYield, LOS_TaskLock,
                    LOS_TaskUnlock, Calls, Goto, callVars
      <3>2. u # t
        BY <3>1 DEF Waiting
      <3> QED BY <1>1, <3>1, <3>2
    <2> QED BY <1>3, <2>1, <2>2, <2>3 DEF TaskCall
  <1>4. CASE Interrupt
    <2>1. ASSUME NEW x \in IsrDeleteIDs, IsrTaskDelete(x) PROVE Waiting(pc'[u])
      BY <1>2, <2>1, TaskAssumption DEF IsrTaskDelete
    <2> QED BY <1>4, <2>1 DEF Interrupt, IsrTaskSuspend, IsrTaskResume, callVars
  <1>5. CASE Tick \/ PendSV_Handler
    BY <1>5 DEF Tick, osTickHandler, ScanExpire, ScanWake, ScanDone, PendSV_Handler, callVars
  <1> QED BY <1>3, <1>4, <1>5 DEF TaskNext

LEMMA WaitStutter ==
    ASSUME WaitInv, UNCHANGED taskVars
    PROVE  WaitInv'
  <1>1. UNCHANGED <<status, runTask, newTask, pendSV, taskLock, pc, fault>>
    BY DEF taskVars, cpuVars, callVars
  <1>2. RunnerOK /\ WaitersOK => RunnerOK' /\ WaitersOK'
    BY <1>1 DEF RunnerOK, WaitersOK, Pending
  <1> QED BY <1>1, <1>2, StutterStep DEF WaitInv

LEMMA InitWaits ==
    ASSUME TaskInit
    PROVE  WaitInv
  <1>1. Good
    BY InitHealthy
  <1>2. /\ pc = [t \in Tasks |-> "user"] /\ pendSV = FALSE
        /\ status = [t \in TCBs |-> IF t = runTask THEN {"READY", "RUNNING"}
                                ELSE IF \E p \in Prio : Linked(InitList, p, t) THEN {"READY"}
                                ELSE {"UNUSED"}]
    BY DEF TaskInit
  <1>3. \A t \in Tasks : ~Pending(t)
    BY <1>2 DEF Pending, WaitFlags, TCBs
  <1> QED BY <1>1, <1>2, <1>3 DEF WaitInv, TaskInv, Good, RunnerOK, WaitersOK, Waiting

-----------------------------------------------------------------------------
(***************************************************************************)
(* osTaskWait, made by a running task on queues q that agree with its      *)
(* caller's priorities (a mutex moves its owner first): the task is in the *)
(* wait list, alone, and no other list has changed for the others.         *)
(***************************************************************************)
LEMMA WaitsAdded ==
    ASSUME NEW q, NEW st, NEW pr, QueuesOK(q, st, pr), NEW t \in Tasks, NEW p,
           NEW h \in PendLists,
           list' = LOS_ListTailInsert(osPriqueueDequeue(q, t, p).list, h, t),
           bitmap' = osPriqueueDequeue(q, t, p).bitmap
    PROVE  /\ list' \in [ListHeads -> Seq(Tasks)] /\ bitmap' \subseteq Prio
           /\ \A g \in PendLists : \A y :
                  Linked(list', g, y) <=> (Linked(q.list, g, y) /\ y # t) \/ (g = h /\ y = t)
  <1>1. /\ q.list \in [ListHeads -> Seq(Tasks)] /\ q.bitmap \subseteq Prio
        /\ LinkedOnce(q.list)
    BY DEF QueuesOK, WellFormed
  <1>2. /\ LOS_ListDelete(q.list, t) \in [ListHeads -> Seq(Tasks)]
        /\ \A g \in ListHeads : \A y :
               Linked(LOS_ListDelete(q.list, t), g, y) <=> Linked(q.list, g, y) /\ y # t
    BY <1>1, ListDeleteFacts
  <1>3. /\ list' = LOS_ListTailInsert(LOS_ListDelete(q.list, t), h, t)
        /\ bitmap' \subseteq q.bitmap
    BY DEF osPriqueueDequeue
  <1>4. h \in ListHeads /\ \A g \in PendLists : g \in ListHeads
    BY DEF ListHeads
  <1> DEFINE l == LOS_ListDelete(q.list, t)
  <1> HIDE DEF l
  <1>5. /\ LOS_ListTailInsert(l, h, t) \in [ListHeads -> Seq(Tasks)]
        /\ \A g \in ListHeads : \A y :
               Linked(LOS_ListTailInsert(l, h, t), g, y) <=> Linked(l, g, y) \/ (g = h /\ y = t)
    BY <1>2, <1>4, TailInsertFacts DEF l
  <1> QED BY <1>1, <1>2, <1>3, <1>4, <1>5 DEF l

LEMMA WaitEffect ==
    ASSUME WaitInv, NEW t \in Tasks, Calls(t), taskLock = 0,
           NEW q, QueuesOK(q, status, prio'), prio' \in [TCBs -> Prio], prio'[t] = prio[t],
           NEW h \in PendLists, NEW flag \in WaitFlags, NEW n \in Delays \cup {Forever},
           osTaskWait(q, t, h, flag, n),
           pc' = [pc EXCEPT ![t] = "wait"],
           UNCHANGED <<runTask, newTask, pendSV, taskLock, isr, scanTask, scanStatus, needSched,
                       sliceTask, sliceLeft, handle>>
    PROVE  /\ WaitInv'
           /\ \A u \in Tasks \ {t} : status'[u] = status[u]
           /\ flag \in status'[t] /\ ("UNUSED" \in status'[t] => "UNUSED" \in status[t])
           /\ \A g \in PendLists : \A y :
                  Linked(list', g, y) <=> (Linked(q.list, g, y) /\ y # t) \/ (g = h /\ y = t)
  <1> DEFINE d    == osPriqueueDequeue(q, t, prio[t])
             l    == LOS_ListTailInsert(d.list, h, t)
             timed == IF n = Forever THEN {} ELSE {"TIMEOUT"}
             new  == (status[t] \ {"READY"}) \cup {flag} \cup timed
  <1>1. /\ Good /\ RunnerOK /\ WaitersOK
        /\ ~fault /\ runTask = t /\ ~pendSV /\ isr = "none" /\ pc[t] = "user" /\ t # Idle
        /\ "TIMEOUT" \notin status[t]
    BY DEF WaitInv, TaskInv, Calls, InTask, Good, Healthy, ShapeOK
  <1>2. /\ t \in TCBs /\ t # Dummy
        /\ status \in [TCBs -> SUBSET Flags]
        /\ pc \in [Tasks -> {"user", "sched", "create", "wait", "woken"}]
        /\ timer \in [Tasks -> Nat \cup {Off}]
        /\ n # Forever => n \in Nat \ {0}
        /\ n = Forever \/ n \in Delays
    BY <1>1, TaskAssumption, DelaysAssumption DEF Good, TaskTypeOK, TimersTypeOK, TCBs
  <1>3. d \in [list : {d.list}, bitmap : {d.bitmap}]
    BY DEF osPriqueueDequeue
  <1>4. /\ list' = l /\ bitmap' = d.bitmap
        /\ status' = [status EXCEPT ![t] = new]
        /\ timer' = IF n = Forever THEN timer ELSE [timer EXCEPT ![t] = n]
        /\ fault' = ~Ready(t)
    <2>1. Become([d EXCEPT !.list = LOS_ListTailInsert(@, h, t)])
      BY DEF osTaskWait
    <2>2. [d EXCEPT !.list = LOS_ListTailInsert(@, h, t)].list = l
      BY <1>3
    <2>3. [d EXCEPT !.list = LOS_ListTailInsert(@, h, t)].bitmap = d.bitmap
      BY <1>3
    <2> QED BY <2>1, <2>2, <2>3 DEF osTaskWait, Become, Arm
  <1>5. /\ list' \in [ListHeads -> Seq(Tasks)] /\ bitmap' \subseteq Prio
        /\ \A g \in PendLists : \A y :
               Linked(list', g, y) <=> (Linked(q.list, g, y) /\ y # t) \/ (g = h /\ y = t)
    BY <1>4, WaitsAdded
  <1>6. /\ status'[t] = new /\ \A u \in TCBs \ {t} : status'[u] = status[u]
        /\ new \subseteq Flags
        /\ status' \in [TCBs -> SUBSET Flags]
    <2>1. new \subseteq Flags
      BY <1>2 DEF Flags, WaitFlags
    <2> HIDE DEF new
    <2> QED BY <1>2, <1>4, <2>1
  <1>7. /\ pc'[t] = "wait" /\ \A u \in Tasks \ {t} : pc'[u] = pc[u]
        /\ pc' \in [Tasks -> {"user", "sched", "create", "wait", "woken"}]
    BY <1>2
  <1>8. /\ timer' \in [Tasks -> Nat \cup {Off}]
        /\ \A u \in Tasks \ {t} : timer'[u] = timer[u]
        /\ timer'[t] = IF n = Forever THEN timer[t] ELSE n
    BY <1>2, <1>4
  <1>9. flag \in new /\ ("UNUSED" \in new => "UNUSED" \in status[t])
    BY DEF WaitFlags
  <1>10. TaskTypeOK'
    BY <1>1, <1>4, <1>5, <1>6, <1>7, <1>8 DEF Good, TaskTypeOK, TimersTypeOK
  <1>11. ASSUME Ready(t) PROVE Healthy' /\ RunnerOK' /\ WaitersOK'
    <2>1. /\ "READY" \in status[t] /\ status[t] \cap (BlockFlags \cup {"UNUSED"}) = {}
      BY <1>1, <1>11 DEF Ready, Good, Healthy, ShapeOK
    <2>2. /\ "READY" \notin new /\ "UNUSED" \notin new /\ "DELAY" \notin new
          /\ new \cap WaitFlags = {flag}
          /\ "TIMEOUT" \in new <=> n # Forever
      BY <1>1, <2>1 DEF BlockFlags, WaitFlags
    <2> HIDE DEF new
    <2>3. QueuesOK(Queues', status', prio')
      <3>1. Floating(d, t, status, prio')
        <4>1. Floating(osPriqueueDequeue(q, t, prio'[t]), t, status, prio')
          BY <1>2, <2>1, DequeueFloats
        <4> QED BY <4>1
      <3>2. [d EXCEPT !.list = l] = Queues'
        BY <1>3, <1>4 DEF Queues
      <3>3. h \in ListHeads \ Prio /\ h \notin {FreeTask, RecyleList}
        BY TaskAssumption DEF ListHeads
      <3>4. l \in {LOS_ListTailInsert(d.list, h, t), LOS_ListAdd(d.list, h, t)}
        OBVIOUS
      <3>5. /\ \A u \in Tasks \ {t} : status'[u] = status[u] /\ prio'[u] = prio'[u]
            /\ "READY" \notin status'[t] /\ status'[t] \cap WaitFlags # {}
            /\ "UNUSED" \notin status'[t]
        BY <1>6, <2>2 DEF TCBs
      <3> HIDE DEF d, l
      <3>6. QueuesOK([d EXCEPT !.list = l], status', prio')
        BY <3>1, <3>3, <3>4, <3>5, OtherListPlaces
      <3> QED BY <3>2, <3>6
    <2>4. ShapeOK'
      <3>1. "READY" \notin status'[Dummy]
        BY <1>1, <1>2, <1>6 DEF Good, Healthy, ShapeOK, TCBs
      <3>2. ASSUME NEW u \in Tasks \ {t}
            PROVE status'[u] = status[u] /\ pc'[u] = pc[u]
        BY <1>6, <1>7 DEF TCBs
      <3>3. /\ status'[t] \cap (BlockFlags \cup {"READY", "UNUSED"}) # {}
            /\ ~({"PEND", "PEND_QUEUE"} \subseteq status'[t])
        BY <1>6, <1>9, <2>2 DEF BlockFlags, WaitFlags
      <3> QED BY <1>1, <1>6, <1>7, <2>2, <3>1, <3>2, <3>3 DEF Good, Healthy, ShapeOK
    <2>5. HandlesOK'
      <3>1. \A u \in Tasks : handle[u] # NoTask => handle[u] \in Tasks \ {t}
        BY <1>1, <2>1 DEF Good, Healthy, HandlesOK, TaskTypeOK
      <3>2. \A u \in Tasks : pc'[u] = "create" <=> pc[u] = "create"
        BY <1>1, <1>7
      <3> QED BY <1>1, <1>6, <3>1, <3>2 DEF Good, Healthy, HandlesOK, TCBs
    <2>6. ScanOK' /\ SliceOK'
      BY <1>1, <1>2, <1>8 DEF Good, Healthy, ScanOK, SliceOK, NoneDue, Due
    <2>7. TimerMatchesStatus'
      <3>1. timer[t] = Off
        BY <1>1, <2>1 DEF Good, Healthy, TimerMatchesStatus, Armed, BlockFlags
      <3>2. Armed(t)' <=> n # Forever
        BY <1>2, <1>8, <3>1 DEF Armed, Off
      <3>3. "DELAY" \in status'[t] \/ ("TIMEOUT" \in status'[t] /\ status'[t] \cap {"PEND", "PEND_QUEUE"} # {})
                <=> n # Forever
        BY <1>6, <2>2 DEF WaitFlags
      <3>4. ASSUME NEW u \in Tasks \ {t}
            PROVE  status'[u] = status[u] /\ timer'[u] = timer[u]
        BY <1>6, <1>8 DEF TCBs
      <3> QED BY <1>1, <3>2, <3>3, <3>4 DEF Good, Healthy, TimerMatchesStatus, Armed
    <2>8. Ready(Idle)'
      BY <1>1, <1>6, TaskAssumption DEF Good, Healthy, Ready, TCBs
    <2>9. RunnerOK'
      BY <1>1, <1>7 DEF RunnerOK
    <2>10. WaitersOK'
      BY <1>1, <1>6, <1>7, <2>2 DEF WaitersOK, Waiting, Pending, TCBs
    <2>11. QueuesOK(Queues, status, prio)'
      BY <2>3
    <2> QED BY <2>4, <2>5, <2>6, <2>7, <2>8, <2>9, <2>10, <2>11 DEF Healthy
  <1>12. WaitInv'
    BY <1>4, <1>10, <1>11 DEF WaitInv, TaskInv
  <1>13. \A u \in Tasks \ {t} : status'[u] = status[u]
    BY <1>6 DEF TCBs
  <1> QED BY <1>5, <1>6, <1>9, <1>12, <1>13

-----------------------------------------------------------------------------
(***************************************************************************)
(* osTaskWake, of a task x that waits, between ticks: it leaves its wait   *)
(* list, and its status no longer says that it waits or timed out.         *)
(***************************************************************************)
LEMMA WakeEffect ==
    ASSUME Good, NEW x \in Tasks, NEW flag \in WaitFlags, flag \in status[x],
           NEW q, QueuesOK(q, status, prio'), prio' \in [TCBs -> Prio], prio'[x] = prio[x],
           osTaskWake(q, x, flag), BetweenTicks, KeepsCalls
    PROVE  /\ ~fault' /\ fault' \in BOOLEAN
           /\ Healthy'
           /\ status' \in [TCBs -> SUBSET Flags]
           /\ timer' \in [Tasks -> Nat \cup {Off}]
           /\ \A u \in Tasks \ {x} : status'[u] = status[u]
           /\ status'[x] \cap Marks = {}
           /\ \A g \in PendLists : \A y :
                  Linked(list', g, y) <=> Linked(q.list, g, y) /\ y # x
  <1> USE DEF Good, Healthy
  <1> DEFINE rest == status[x] \ {flag, "TIMEOUT"}
             d    == Unlinked(q, x)
  <1>1. /\ x \in TCBs /\ x # Dummy
        /\ status \in [TCBs -> SUBSET Flags] /\ prio[x] \in Prio
        /\ timer \in [Tasks -> Nat \cup {Off}]
    BY TaskAssumption DEF TaskTypeOK, TimersTypeOK, TCBs
  <1>2. /\ "READY" \notin status[x] /\ "UNUSED" \notin status[x] /\ "DELAY" \notin status[x]
        /\ rest \cap (Marks \cup {"READY", "DELAY"}) = {}
        /\ rest \subseteq status[x]
    BY DEF ShapeOK, WaitFlags, BlockFlags, Marks
  <1>3. Armed(x) <=> "TIMEOUT" \in status[x]
    BY DEF TimerMatchesStatus, BetweenTicks, WaitFlags, ShapeOK
  <1>4. /\ ~fault' /\ fault' \in BOOLEAN
        /\ timer' = IF "TIMEOUT" \in status[x] THEN [timer EXCEPT ![x] = Off] ELSE timer
        /\ status' = [status EXCEPT ![x] = IF "SUSPEND" \in rest THEN rest ELSE rest \cup {"READY"}]
        /\ IF "SUSPEND" \in rest THEN Become(d) ELSE Become(osPriqueueEnqueue(d, x, prio[x]))
    BY <1>3 DEF osTaskWake, NoLonger, Disarm
  <1> HIDE DEF rest
  <1>5. /\ status'[x] = IF "SUSPEND" \in rest THEN rest ELSE rest \cup {"READY"}
        /\ \A u \in TCBs \ {x} : status'[u] = status[u]
        /\ status' \in [TCBs -> SUBSET Flags]
    BY <1>1, <1>2, <1>4 DEF Flags
  <1>6. status'[x] \cap Marks = {}
    BY <1>2, <1>5 DEF Marks
  <1>7. Floating(d, x, status, prio')
    BY <1>2, UnlinkFloats
  <1>8. /\ q.list \in [ListHeads -> Seq(Tasks)] /\ LinkedOnce(q.list)
        /\ d.list = LOS_ListDelete(q.list, x)
        /\ d \in [list : [ListHeads -> Seq(Tasks)], bitmap : SUBSET Prio]
    BY <1>7 DEF QueuesOK, WellFormed, Unlinked, Floating
  <1> HIDE DEF d
  <1>9. \A g \in PendLists : \A y : Linked(list', g, y) <=> Linked(q.list, g, y) /\ y # x
    <2>1. \A g \in PendLists : \A y : Linked(d.list, g, y) <=> Linked(q.list, g, y) /\ y # x
      <3>1. \A g \in ListHeads : \A y :
                Linked(LOS_ListDelete(q.list, x), g, y) <=> Linked(q.list, g, y) /\ y # x
        <4> DEFINE l == q.list
        <4>1. l \in [ListHeads -> Seq(Tasks)] /\ LinkedOnce(l)
          BY <1>8
        <4> HIDE DEF l
        <4>2. \A g \in ListHeads : \A y :
                  Linked(LOS_ListDelete(l, x), g, y) <=> Linked(l, g, y) /\ y # x
          BY ONLY <4>1, ListDeleteFacts
        <4> QED BY <4>2 DEF l
      <3>2. d.list = LOS_ListDelete(q.list, x) /\ PendLists \subseteq ListHeads
        BY <1>8 DEF ListHeads
      <3> QED BY <3>1, <3>2
    <2>2. \A g \in PendLists : list'[g] = d.list[g]
      <3>1. list' = d.list \/ list' = LOS_ListTailInsert(d.list, prio[x], x)
        BY <1>4 DEF Become, osPriqueueEnqueue
      <3>2. prio[x] \in ListHeads \ PendLists
        BY <1>1, OtherHeads
      <3> DEFINE l == d.list
                 h == prio[x]
      <3>3. l \in [ListHeads -> Seq(Tasks)]
        BY <1>8
      <3> HIDE DEF l, h
      <3>4. \A g \in PendLists : LOS_ListTailInsert(l, h, x)[g] = l[g]
        <4>1. h \in ListHeads \ PendLists
          BY <3>2 DEF h
        <4> QED BY <3>3, <4>1, ElsewhereSame
      <3> QED BY <3>1, <3>4 DEF l, h
    <2> QED BY <2>1, <2>2 DEF Linked
  <1>10. QueuesOK(Queues, status, prio)'
    <2>0. \A u \in Tasks \ {x} : status'[u] = status[u] /\ prio'[u] = prio'[u]
      BY <1>5 DEF TCBs
    <2>1. CASE "SUSPEND" \in rest
      <3>1. status'[x] \cap {"READY", "PEND", "PEND_QUEUE", "UNUSED"} = {}
        BY <1>2, <1>5, <2>1 DEF Marks
      <3>2. QueuesOK(d, status', prio')
        BY <1>7, <2>0, <3>1, StaysUnlisted
      <3>3. Queues' = d
        BY <1>4, <1>8, <2>1 DEF Become, Queues
      <3> QED BY <3>2, <3>3
    <2>2. CASE "SUSPEND" \notin rest
      <3>1. /\ "READY" \in status'[x]
            /\ status'[x] \cap {"PEND", "PEND_QUEUE", "UNUSED"} = {}
        BY <1>2, <1>5, <2>2 DEF Marks
      <3>2. QueuesOK(osPriqueueEnqueue(d, x, prio[x]), status', prio')
        BY <1>1, <1>7, <2>0, <3>1, EnqueuePlaces
      <3>3. Queues' = osPriqueueEnqueue(d, x, prio[x])
        BY <1>4, <2>2 DEF Become, Queues, osPriqueueEnqueue
      <3> QED BY <3>2, <3>3
    <2> QED BY <2>1, <2>2
  <1>11. ShapeOK'
    <2>1. "READY" \notin status'[Dummy]
      BY <1>1, <1>5 DEF ShapeOK, TCBs
    <2>2. \A u \in Tasks \ {x} : status'[u] = status[u]
      BY <1>5 DEF TCBs
    <2>3. /\ status'[x] \cap (BlockFlags \cup {"READY", "UNUSED"}) # {}
          /\ "READY" \in status'[x] => status'[x] \cap (BlockFlags \cup {"UNUSED"}) = {}
          /\ "UNUSED" \notin status'[x] /\ "DELAY" \notin status'[x] /\ "TIMEOUT" \notin status'[x]
          /\ "PEND" \notin status'[x]
      BY <1>2, <1>5 DEF BlockFlags, Marks
    <2> QED BY <2>1, <2>2, <2>3 DEF ShapeOK, KeepsCalls
  <1>12. HandlesOK'
    <2>1. \A u \in Tasks : handle[u] # NoTask => handle[u] \in Tasks \ {x}
      BY DEF HandlesOK, TaskTypeOK, WaitFlags
    <2> QED BY <1>5, <2>1 DEF HandlesOK, KeepsCalls, TCBs
  <1>13. /\ timer' \in [Tasks -> Nat \cup {Off}] /\ timer'[x] = Off
         /\ \A u \in Tasks \ {x} : timer'[u] = timer[u]
    BY <1>1, <1>3, <1>4 DEF Armed
  <1>14. ScanOK' /\ SliceOK'
    BY <1>13 DEF ScanOK, SliceOK, BetweenTicks, NoneDue, Due, Off
  <1>15. TimerMatchesStatus'
    <2>1. "DELAY" \notin status'[x] /\ "TIMEOUT" \notin status'[x]
      BY <1>2, <1>5 DEF Marks
    <2>2. \A u \in Tasks \ {x} : status'[u] = status[u] /\ timer'[u] = timer[u]
      BY <1>5, <1>13 DEF TCBs
    <2> QED BY <1>13, <2>1, <2>2 DEF TimerMatchesStatus, BetweenTicks, Armed
  <1>16. Ready(Idle)'
    BY <1>2, <1>5, TaskAssumption DEF Ready, TCBs
  <1> QED BY <1>4, <1>5, <1>6, <1>9, <1>10, <1>11, <1>12, <1>13, <1>14, <1>15, <1>16 DEF TCBs

(***************************************************************************)
(* A call goes on to LOS_Schedule and leaves every wait alone.             *)
(***************************************************************************)
LEMMA CallerWaits ==
    ASSUME TaskTypeOK, NEW t \in Tasks, Calls(t), pc' = [pc EXCEPT ![t] = "sched"]
    PROVE  \A u \in Tasks : Waiting(pc'[u]) <=> Waiting(pc[u])
  BY DEF TaskTypeOK, Calls, Waiting

(***************************************************************************)
(* A call that waited goes on, and its timeout did not expire.             *)
(***************************************************************************)
GoesOn(t) == InTask(t) /\ pc[t] = "woken" /\ "TIMEOUT" \notin status[t]

(***************************************************************************)
(* The whole step: a task's call that wakes x and will look for a switch,  *)
(* or an interrupt handler that looks for one itself.                      *)
(***************************************************************************)
LEMMA WakeStepInv ==
    ASSUME WaitInv, NEW x \in Tasks, NEW flag \in WaitFlags, flag \in status[x],
           NEW q, QueuesOK(q, status, prio'), prio' \in [TCBs -> Prio], prio'[x] = prio[x],
           osTaskWake(q, x, flag), ~fault, isr = "none",
           UNCHANGED <<isr, scanTask, scanStatus, needSched, sliceTask, sliceLeft, handle, taskLock>>,
           \/ LOS_Schedule /\ UNCHANGED pc
           \/ /\ UNCHANGED <<runTask, newTask, pendSV>>
              /\ \E t \in Tasks : /\ Calls(t) \/ GoesOn(t)
                                 /\ pc' = [pc EXCEPT ![t] = "sched"]
    PROVE  /\ WaitInv'
           /\ \A u \in Tasks \ {x} : status'[u] = status[u]
           /\ status'[x] \cap Marks = {}
           /\ \A g \in PendLists : \A y :
                  Linked(list', g, y) <=> Linked(q.list, g, y) /\ y # x
           /\ Waiting(pc'[x]) /\ ~Pending(x)'
  <1>1. /\ Good /\ RunnerOK /\ WaitersOK /\ TaskTypeOK
        /\ pc \in [Tasks -> {"user", "sched", "create", "wait", "woken"}]
    BY DEF WaitInv, TaskInv, Good, TaskTypeOK
  <1>2. /\ KeepsCalls /\ BetweenTicks
        /\ \A u \in Tasks : Waiting(pc'[u]) => Waiting(pc[u])
        /\ \A u \in Tasks : Pending(u) => Waiting(pc'[u])
        /\ \A u \in Tasks : pc[u] = "wait" => pc'[u] = "wait"
    <2>1. CASE UNCHANGED pc
      BY <1>1, <2>1 DEF KeepsCalls, BetweenTicks, WaitersOK
    <2>2. ASSUME NEW t \in Tasks, Calls(t) \/ GoesOn(t), pc' = [pc EXCEPT ![t] = "sched"]
          PROVE  /\ KeepsCalls /\ BetweenTicks
                 /\ \A u \in Tasks : Waiting(pc'[u]) => Waiting(pc[u])
                 /\ \A u \in Tasks : Pending(u) => Waiting(pc'[u])
                 /\ \A u \in Tasks : pc[u] = "wait" => pc'[u] = "wait"
      <3>1. /\ pc[t] = "user" \/ (pc[t] = "woken" /\ "TIMEOUT" \notin status[t])
            /\ pc[t] # "wait" /\ t = runTask /\ ~pendSV
        BY <2>2 DEF Calls, GoesOn, InTask
      <3>2. ~Pending(t)
        BY <1>1, <3>1 DEF RunnerOK
      <3>3. pc'[t] = "sched" /\ \A u \in Tasks \ {t} : pc'[u] = pc[u]
        BY <1>1, <2>2
      <3>4. KeepsCalls /\ BetweenTicks
        BY <1>1, <2>2, <3>1, <3>3 DEF KeepsCalls, BetweenTicks
      <3> QED BY <1>1, <3>1, <3>2, <3>3, <3>4 DEF Waiting, WaitersOK
    <2> QED BY <2>1, <2>2
  <1>3. /\ ~fault' /\ fault' \in BOOLEAN
        /\ Healthy'
        /\ status' \in [TCBs -> SUBSET Flags]
        /\ timer' \in [Tasks -> Nat \cup {Off}]
        /\ \A u \in Tasks \ {x} : status'[u] = status[u]
        /\ status'[x] \cap Marks = {}
        /\ \A g \in PendLists : \A y :
               Linked(list', g, y) <=> Linked(q.list, g, y) /\ y # x
    BY <1>1, <1>2, WakeEffect
  <1>4. newTask' \in Tasks /\ pendSV' \in BOOLEAN /\ runTask' = runTask
    <2>1. QueuesOK(Queues, status, prio)' /\ Ready(Idle)'
      BY <1>3 DEF Healthy
    <2> QED BY <1>1, <2>1, ScheduleTypes DEF TaskTypeOK
  <1>5. TaskTypeOK'
    <2>1. list' \in [ListHeads -> Seq(Tasks)] /\ bitmap' \subseteq Prio
      BY <1>3, ListTypes DEF Healthy
    <2> QED BY <1>1, <1>2, <1>3, <1>4, <2>1 DEF TaskTypeOK, TimersTypeOK, BetweenTicks
  <1>6. \A u \in Tasks : Pending(u)' => Pending(u)
    BY <1>3 DEF Pending, Marks, WaitFlags
  <1>7. RunnerOK'
    <2>1. ASSUME LOS_Schedule PROVE RunnerOK'
      <3>1. \A u \in Tasks : u = runTask /\ ~pendSV /\ Pending(u)' =>
                pc'[u] = "wait" /\ taskLock' = 0
        BY <1>1, <1>2, <1>6 DEF RunnerOK, Pending
      <3>2. Good'
        BY <1>3, <1>5 DEF Good
      <3> QED BY <1>1, <1>6, <2>1, <3>1, <3>2, Reawaits
    <2>2. ASSUME UNCHANGED <<runTask, newTask, pendSV>> PROVE RunnerOK'
      <3>1. newTask \in Tasks
        BY <1>1 DEF TaskTypeOK
      <3> QED BY <1>1, <1>2, <1>6, <2>2, <3>1 DEF RunnerOK, Pending
    <2> QED BY <2>1, <2>2
  <1>8. WaitersOK'
    <2>1. ASSUME NEW u \in Tasks
          PROVE  /\ "UNUSED" \in status'[u] => ~Waiting(pc'[u])
                 /\ Pending(u)' => Waiting(pc'[u])
      <3>1. CASE u = x
        BY <1>3, <3>1 DEF Pending, Marks, WaitFlags
      <3>2. CASE u # x
        BY <1>1, <1>2, <1>3, <1>6, <3>2 DEF WaitersOK
      <3> QED BY <3>1, <3>2
    <2> QED BY <2>1 DEF WaitersOK
  <1>9. Waiting(pc'[x]) /\ ~Pending(x)'
    BY <1>2, <1>3 DEF Pending, Marks, WaitFlags
  <1> QED BY <1>3, <1>5, <1>7, <1>8, <1>9 DEF WaitInv, TaskInv

(***************************************************************************)
(* The task runs again: its wait is over, and the call it made returns.    *)
(***************************************************************************)
LEMMA ReturnStep ==
    ASSUME WaitInv, NEW t \in Tasks, InTask(t), pc[t] = "woken",
           status' = [status EXCEPT ![t] = @ \ {"TIMEOUT"}],
           pc' = [pc EXCEPT ![t] = "user"],
           UNCHANGED <<list, bitmap, prio, timer, runTask, newTask, pendSV, taskLock, isr, scanTask,
                       scanStatus, needSched, sliceTask, sliceLeft, handle, fault>>
    PROVE  WaitInv' /\ ~Pending(t) /\ "UNUSED" \notin status[t]
  <1>1. /\ TaskTypeOK /\ Healthy /\ RunnerOK /\ WaitersOK
        /\ runTask = t /\ ~pendSV /\ isr = "none"
        /\ pc \in [Tasks -> {"user", "sched", "create", "wait", "woken"}]
        /\ status \in [TCBs -> SUBSET Flags] /\ t \in TCBs /\ t # Dummy
    BY TaskAssumption DEF WaitInv, TaskInv, InTask, TaskTypeOK, TCBs
  <1>2. ~Pending(t) /\ "UNUSED" \notin status[t]
    BY <1>1 DEF RunnerOK, WaitersOK, Waiting
  <1>3. /\ status'[t] = status[t] \ {"TIMEOUT"}
        /\ \A u \in TCBs \ {t} : status'[u] = status[u]
        /\ status' \in [TCBs -> SUBSET Flags]
    BY <1>1
  <1>4. /\ pc'[t] = "user" /\ \A u \in Tasks \ {t} : pc'[u] = pc[u]
        /\ pc' \in [Tasks -> {"user", "sched", "create", "wait", "woken"}]
    BY <1>1
  <1>5. TaskTypeOK'
    BY <1>1, <1>3, <1>4 DEF TaskTypeOK, TimersTypeOK
  <1>6. QueuesOK(Queues, status, prio)'
    <2>1. \A u \in Tasks : status'[u] \cap {"READY", "PEND", "PEND_QUEUE", "UNUSED"}
                               = status[u] \cap {"READY", "PEND", "PEND_QUEUE", "UNUSED"}
      BY <1>3 DEF TCBs
    <2>2. QueuesOK(Queues, status', prio')
      BY <1>1, <2>1, OtherFlagsChange DEF Healthy
    <2> QED BY <2>2 DEF Queues
  <1>7. ShapeOK'
    <2>1. "READY" \notin status'[Dummy]
      BY <1>1, <1>3 DEF Healthy, ShapeOK, TCBs
    <2>2. \A u \in Tasks \ {t} : status'[u] = status[u]
      BY <1>3 DEF TCBs
    <2>3. \A f : f # "TIMEOUT" => (f \in status'[t] <=> f \in status[t])
      BY <1>3
    <2>4. "TIMEOUT" \notin status'[t]
      BY <1>3
    <2> QED BY <1>1, <1>4, <2>1, <2>2, <2>3, <2>4 DEF Healthy, ShapeOK, BlockFlags, WaitFlags
  <1>8. HandlesOK'
    BY <1>1, <1>3, <1>4 DEF Healthy, HandlesOK, TaskTypeOK, TCBs
  <1>9. ScanOK' /\ SliceOK'
    BY <1>1 DEF Healthy, ScanOK, SliceOK, NoneDue, Due
  <1>10. TimerMatchesStatus'
    BY <1>1, <1>2, <1>3 DEF Healthy, TimerMatchesStatus, Armed, Pending, WaitFlags, TCBs
  <1>11. Ready(Idle)'
    BY <1>1, <1>3, TaskAssumption DEF Healthy, Ready, TCBs
  <1>12. \A u \in Tasks : Pending(u)' => Pending(u)
    BY <1>3 DEF Pending, TCBs
  <1>13. RunnerOK' /\ WaitersOK'
    <2>1. RunnerOK'
      BY <1>1, <1>2, <1>12 DEF RunnerOK, Pending
    <2>2. WaitersOK'
      BY <1>1, <1>2, <1>3, <1>4, <1>12 DEF WaitersOK, Waiting, TCBs
    <2> QED BY <2>1, <2>2
  <1>14. Healthy'
    BY <1>6, <1>7, <1>8, <1>9, <1>10, <1>11 DEF Healthy
  <1> QED BY <1>2, <1>5, <1>13, <1>14 DEF WaitInv, TaskInv

=============================================================================
