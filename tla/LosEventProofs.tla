--------------------------- MODULE LosEventProofs ---------------------------
(***************************************************************************)
(* Proofs about events: types, that nobody waits for events that are there,*)
(* and that a woken reader finds what it waited for.  Device interrupts do *)
(* not preempt the tick handler here; handlers may suspend any task.       *)
(***************************************************************************)
EXTENDS LosEvent, LosTaskProofs

WordsOK ==
    /\ eventID \in [Events -> SUBSET Bits]
    /\ ready \subseteq Events
    /\ request \in [Tasks -> Requests \cup {SomeRequest}]
    /\ readFrom \in [Tasks -> Events \cup {NoTask}]
    /\ taken \in [Tasks -> BOOLEAN]

(***************************************************************************)
(* Who is in the wait list of an event reads that one.                     *)
(***************************************************************************)
LinkedReads ==
    \A e \in Events, t \in Tasks :
        Linked(list, WaitersOf[e], t) =>
            readFrom[t] = e /\ request[t] \in Requests /\ "PEND" \in status[t]

EventInv ==
    /\ WaitInv
    /\ WordsOK
    /\ WaitersUnsatisfied
    /\ WokenFindEvents
    /\ fault \/ LinkedReads

-----------------------------------------------------------------------------
(***************************************************************************)
(* The queues while LOS_EventWrite goes down the wait list.  Step is what  *)
(* one position of the list adds, Walk the queues after each of them.      *)
(***************************************************************************)
Step(ts, W, k, q) == IF ts[k] \in W THEN WakeOne(q, ts[k]) ELSE q

WalkTo(f, ts, W, n) ==
    f = [k \in 0 .. n |->
            IF k = 0 THEN Queues
            ELSE IF ts[k] \in W THEN WakeOne(f[k - 1], ts[k])
            ELSE f[k - 1]]

LEMMA WalkExists ==
    ASSUME NEW ts, NEW W, NEW n \in Nat
    PROVE  \E f : WalkTo(f, ts, W, n)
  <1> DEFINE bad == {i \in Nat : \A f : ~WalkTo(f, ts, W, i)}
  <1>1. ASSUME bad # {} PROVE FALSE
    <2>1. PICK p \in bad : \A r \in bad : p <= r
      BY <1>1, NatMinimum
    <2>2. CASE p = 0
      <3> DEFINE f == [k \in 0 .. 0 |-> Queues]
      <3>1. f = [k \in 0 .. 0 |->
                    IF k = 0 THEN Queues
                    ELSE IF ts[k] \in W THEN WakeOne(f[k - 1], ts[k])
                    ELSE f[k - 1]]
        OBVIOUS
      <3> HIDE DEF f
      <3>2. WalkTo(f, ts, W, 0)
        BY <3>1 DEF WalkTo
      <3> QED BY <2>1, <2>2, <3>2
    <2>3. CASE p # 0
      <3>1. p - 1 \in Nat /\ p - 1 \notin bad
        BY <2>1, <2>3
      <3>2. PICK f : WalkTo(f, ts, W, p - 1)
        BY <3>1
      <3> DEFINE g == [k \in 0 .. p |-> IF k < p THEN f[k] ELSE Step(ts, W, p, f[p - 1])]
      <3>3. ASSUME NEW k \in 0 .. p
            PROVE  g[k] = IF k = 0 THEN Queues
                          ELSE IF ts[k] \in W THEN WakeOne(g[k - 1], ts[k])
                          ELSE g[k - 1]
        <4>1. CASE k < p
          <5>1. g[k] = f[k] /\ k \in 0 .. (p - 1)
            BY <2>1, <4>1
          <5>2. k # 0 => g[k - 1] = f[k - 1]
            BY <2>1, <4>1
          <5>3. f[k] = IF k = 0 THEN Queues
                       ELSE IF ts[k] \in W THEN WakeOne(f[k - 1], ts[k])
                       ELSE f[k - 1]
            BY <3>2, <5>1 DEF WalkTo
          <5> HIDE DEF g
          <5> QED BY <5>1, <5>2, <5>3
        <4>2. CASE k = p
          <5>1. g[k] = Step(ts, W, p, f[p - 1]) /\ g[k - 1] = f[p - 1] /\ k # 0
            BY <2>1, <2>3, <4>2
          <5> HIDE DEF g
          <5> QED BY <4>2, <5>1 DEF Step
        <4> QED BY <2>1, <4>1, <4>2
      <3>4. g = [k \in 0 .. p |->
                    IF k = 0 THEN Queues
                    ELSE IF ts[k] \in W THEN WakeOne(g[k - 1], ts[k])
                    ELSE g[k - 1]]
        <4> DEFINE h == [k \in 0 .. p |->
                           IF k = 0 THEN Queues
                           ELSE IF ts[k] \in W THEN WakeOne(g[k - 1], ts[k])
                           ELSE g[k - 1]]
        <4>1. \A k \in 0 .. p : g[k] = h[k]
          BY <3>3
        <4>2. g = [k \in 0 .. p |-> g[k]]
          OBVIOUS
        <4>3. h = [k \in 0 .. p |-> h[k]]
          OBVIOUS
        <4> HIDE DEF g, h
        <4>4. g = h
          BY <4>1, <4>2, <4>3
        <4> QED BY <4>4 DEF h
      <3> HIDE DEF g
      <3>5. WalkTo(g, ts, W, p)
        BY <3>4 DEF WalkTo
      <3> QED BY <2>1, <3>5
    <2> QED BY <2>2, <2>3
  <1> QED BY <1>1

(***************************************************************************)
(* QueuesAfter is where such a walk ends.                                  *)
(***************************************************************************)
LEMMA WalkEnds ==
    ASSUME NEW S, NEW ts \in Seq(S), NEW W
    PROVE  \E f : /\ QueuesAfter(ts, W) = f[Len(ts)]
                  /\ f[0] = Queues
                  /\ \A k \in 1 .. Len(ts) : f[k] = Step(ts, W, k, f[k - 1])
  <1> DEFINE f == CHOOSE g : WalkTo(g, ts, W, Len(ts))
  <1>1. WalkTo(f, ts, W, Len(ts))
    BY WalkExists
  <1>2. QueuesAfter(ts, W) = f[Len(ts)]
    BY DEF QueuesAfter, WalkTo
  <1> HIDE DEF f
  <1>3. f[0] = Queues /\ \A k \in 1 .. Len(ts) : f[k] = Step(ts, W, k, f[k - 1])
    <2> DEFINE n == Len(ts)
               r == [k \in 0 .. n |->
                        IF k = 0 THEN Queues
                        ELSE IF ts[k] \in W THEN WakeOne(f[k - 1], ts[k])
                        ELSE f[k - 1]]
    <2>1. n \in Nat
      OBVIOUS
    <2>2. f = r
      BY <1>1 DEF WalkTo
    <2> HIDE DEF n
    <2>3. r[0] = Queues
      BY <2>1
    <2>4. ASSUME NEW k \in 1 .. n PROVE f[k] = Step(ts, W, k, f[k - 1])
      <3>1. k \in 0 .. n /\ k # 0
        BY <2>1
      <3>2. r[k] = Step(ts, W, k, f[k - 1])
        BY <3>1 DEF Step
      <3> HIDE DEF r
      <3> QED BY <2>2, <3>2
    <2> HIDE DEF r
    <2>5. f[0] = Queues
      BY <2>2, <2>3
    <2> QED BY <2>4, <2>5 DEF n
  <1> QED BY <1>2, <1>3

(***************************************************************************)
(* One wake-up on the way: x goes from the wait list to its ready queue, or*)
(* to no list if it is suspended, and the rest stays where it was.         *)
(***************************************************************************)
LEMMA WakeOneKeeps ==
    ASSUME NEW q, NEW st, NEW st2, NEW x \in Tasks,
           QueuesOK(q, st, prio), prio[x] \in Prio, "READY" \notin st[x],
           \A u \in Tasks \ {x} : st2[u] = st[u],
           st2[x] \cap Marks = {},
           "READY" \in st2[x] <=> "SUSPEND" \notin status[x]
    PROVE  /\ QueuesOK(WakeOne(q, x), st2, prio)
           /\ \A h \in PendLists : \A y :
                  Linked(WakeOne(q, x).list, h, y) <=> Linked(q.list, h, y) /\ y # x
  <1> DEFINE d == Unlinked(q, x)
             l == q.list
             p == prio[x]
  <1>1. Floating(d, x, st, prio)
    BY UnlinkFloats
  <1>2. /\ l \in [ListHeads -> Seq(Tasks)] /\ LinkedOnce(l)
        /\ d.list = LOS_ListDelete(l, x)
        /\ d.list \in [ListHeads -> Seq(Tasks)]
    BY <1>1 DEF QueuesOK, WellFormed, Unlinked, Floating
  <1>3. \A u \in Tasks \ {x} : st2[u] = st[u] /\ prio[u] = prio[u]
    OBVIOUS
  <1>4. \A h \in PendLists : \A y : Linked(d.list, h, y) <=> Linked(l, h, y) /\ y # x
    <2> HIDE DEF d, l
    <2>1. \A h \in ListHeads : \A y : Linked(LOS_ListDelete(l, x), h, y) <=> Linked(l, h, y) /\ y # x
      BY ONLY <1>2, ListDeleteFacts
    <2> QED BY <1>2, <2>1 DEF ListHeads
  <1>5. CASE "SUSPEND" \in status[x]
    <2>1. st2[x] \cap {"READY", "PEND", "PEND_QUEUE", "UNUSED"} = {}
      BY <1>5 DEF Marks
    <2>2. WakeOne(q, x) = d
      BY <1>5 DEF WakeOne
    <2> HIDE DEF d
    <2>3. QueuesOK(d, st2, prio)
      BY <1>1, <1>3, <2>1, StaysUnlisted
    <2> QED BY <1>4, <2>2, <2>3
  <1>6. CASE "SUSPEND" \notin status[x]
    <2>1. "READY" \in st2[x] /\ st2[x] \cap {"PEND", "PEND_QUEUE", "UNUSED"} = {}
      BY <1>6 DEF Marks
    <2>2. WakeOne(q, x) = osPriqueueEnqueue(d, x, p)
      BY <1>6 DEF WakeOne
    <2> HIDE DEF d
    <2>3. QueuesOK(osPriqueueEnqueue(d, x, p), st2, prio)
      BY <1>1, <1>3, <2>1, EnqueuePlaces
    <2>4. \A h \in PendLists : osPriqueueEnqueue(d, x, p).list[h] = d.list[h]
      <3> DEFINE m == d.list
      <3>1. osPriqueueEnqueue(d, x, p).list = LOS_ListTailInsert(m, p, x)
        BY DEF osPriqueueEnqueue
      <3>2. p \in ListHeads \ PendLists /\ m \in [ListHeads -> Seq(Tasks)]
        BY <1>2, OtherHeads
      <3> HIDE DEF m, p
      <3>3. \A h \in PendLists : LOS_ListTailInsert(m, p, x)[h] = m[h]
        BY <3>2, ElsewhereSame
      <3> QED BY <3>1, <3>3 DEF m
    <2> QED BY <1>4, <2>2, <2>3, <2>4 DEF Linked
  <1> QED BY <1>5, <1>6

(***************************************************************************)
(* The status a write leaves in a task it wakes.                           *)
(***************************************************************************)
Roused(u) == (status[u] \ {"PEND", "TIMEOUT"}) \cup
             IF "SUSPEND" \in status[u] THEN {} ELSE {"READY"}

RousedIn(W) == [u \in TCBs |-> IF u \in W THEN Roused(u) ELSE status[u]]

LEMMA WalkKeeps ==
    ASSUME Good, NEW g \in PendLists, NEW W \in SUBSET Tasks,
           \A u \in W : Linked(list, g, u) /\ "PEND" \in status[u]
    PROVE  /\ QueuesOK(QueuesAfter(list[g], W), RousedIn(W), prio)
           /\ \A h \in PendLists : \A y :
                  Linked(QueuesAfter(list[g], W).list, h, y) <=> Linked(list, h, y) /\ y \notin W
  <1> DEFINE ts == list[g]
             n  == Len(ts)
             Passed(k) == {u \in W : \E i \in 1 .. k : ts[i] = u}
  <1>1. /\ list \in [ListHeads -> Seq(Tasks)] /\ LinkedOnce(list)
        /\ QueuesOK(Queues, status, prio) /\ Queues.list = list
        /\ status \in [TCBs -> SUBSET Flags]
        /\ \A u \in Tasks : prio[u] \in Prio /\ u \in TCBs
    BY DEF Good, Healthy, TaskTypeOK, QueuesOK, WellFormed, Queues, TCBs
  <1>2. g \in ListHeads /\ ts \in Seq(Tasks) /\ n \in Nat
    BY <1>1 DEF ListHeads
  <1>3. NoRepeat(ts)
    BY <1>1, <1>2, LinkedOnceHalves
  <1>4. PICK f : /\ QueuesAfter(ts, W) = f[n]
                 /\ f[0] = Queues
                 /\ \A k \in 1 .. n : f[k] = Step(ts, W, k, f[k - 1])
    BY <1>2, WalkEnds
  <1>5. \A u \in W : \E i \in 1 .. n : ts[i] = u
    BY DEF Linked, Contains
  <1>6. \A u \in W : "READY" \notin status[u] /\ Roused(u) \cap Marks = {}
                     /\ ("READY" \in Roused(u) <=> "SUSPEND" \notin status[u])
    BY DEF Good, Healthy, ShapeOK, BlockFlags, Roused, Marks
  <1> HIDE DEF ts, n
  <1> DEFINE P(k) == /\ QueuesOK(f[k], RousedIn(Passed(k)), prio)
                     /\ \A h \in PendLists : \A y :
                            Linked(f[k].list, h, y) <=> Linked(list, h, y) /\ y \notin Passed(k)
             bad == {k \in Nat : k <= n /\ ~P(k)}
  <1>7. P(0)
    <2>1. Passed(0) = {}
      OBVIOUS
    <2>2. RousedIn(Passed(0)) = status
      BY <1>1, <2>1 DEF RousedIn
    <2> HIDE DEF Passed
    <2> QED BY <1>1, <1>4, <2>1, <2>2
  <1>8. ASSUME NEW k \in 1 .. n, P(k - 1) PROVE P(k)
    <2> DEFINE x == ts[k]
               st == RousedIn(Passed(k - 1))
               st2 == RousedIn(Passed(k))
               q == f[k - 1]
    <2>1. x \in Tasks
      BY <1>2 DEF n
    <2>2. Passed(k) = IF x \in W THEN Passed(k - 1) \cup {x} ELSE Passed(k - 1)
      OBVIOUS
    <2>3. x \notin Passed(k - 1)
      <3>1. \A i \in 1 .. (k - 1) : ts[i] # ts[k]
        BY <1>2, <1>3 DEF NoRepeat, n
      <3> QED BY <3>1
    <2>4. f[k] = IF x \in W THEN WakeOne(q, x) ELSE q
      BY <1>4 DEF Step
    <2> HIDE DEF Passed
    <2>5. CASE x \notin W
      BY <1>8, <2>2, <2>4, <2>5
    <2>6. CASE x \in W
      <3>1. \A u \in Tasks \ {x} : st2[u] = st[u]
        BY <1>1, <2>2, <2>6 DEF RousedIn
      <3>2. st[x] = status[x] /\ st2[x] = Roused(x)
        BY <1>1, <2>1, <2>2, <2>3, <2>6 DEF RousedIn
      <3>3. QueuesOK(q, st, prio)
        BY <1>8
      <3> HIDE DEF st, st2, q, x
      <3>4. /\ QueuesOK(WakeOne(q, x), st2, prio)
            /\ \A h \in PendLists : \A y :
                   Linked(WakeOne(q, x).list, h, y) <=> Linked(q.list, h, y) /\ y # x
        <4>1. x \in Tasks /\ prio[x] \in Prio
          BY <1>1, <2>1
        <4>2. "READY" \notin st[x]
          BY <1>6, <2>6, <3>2
        <4>3. st2[x] \cap Marks = {}
          BY <1>6, <2>6, <3>2
        <4>4. "READY" \in st2[x] <=> "SUSPEND" \notin status[x]
          BY <1>6, <2>6, <3>2
        <4> QED BY ONLY <3>1, <3>3, <4>1, <4>2, <4>3, <4>4, WakeOneKeeps
      <3>5. \A h \in PendLists : \A y :
                Linked(q.list, h, y) <=> Linked(list, h, y) /\ y \notin Passed(k - 1)
        BY <1>8 DEF q
      <3>6. f[k] = WakeOne(q, x) /\ Passed(k) = Passed(k - 1) \cup {x}
        BY <2>2, <2>4, <2>6 DEF x, q
      <3>7. QueuesOK(f[k], RousedIn(Passed(k)), prio)
        BY <3>4, <3>6 DEF st2
      <3> QED BY <3>4, <3>5, <3>6, <3>7
    <2> QED BY <2>5, <2>6
  <1>9. P(n)
    <2> HIDE DEF P
    <2>1. ASSUME bad # {} PROVE FALSE
      <3>1. PICK p \in bad : \A r \in bad : p <= r
        BY <2>1, NatMinimum
      <3>2. p # 0 /\ p \in 1 .. n
        BY <1>2, <1>7, <3>1
      <3>3. P(p - 1)
        BY <1>2, <3>1, <3>2
      <3> QED BY <1>8, <3>1, <3>2, <3>3
    <2> QED BY <1>2, <2>1
  <1>10. Passed(n) = W
    BY <1>5 DEF n, ts
  <1> QED BY <1>4, <1>9, <1>10 DEF ts

(***************************************************************************)
(* The whole write: the tasks W of one wait list are woken, by a task that *)
(* will look for a switch or by a handler that looks for one itself.       *)
(***************************************************************************)
LEMMA WakeAllInv ==
    ASSUME WaitInv, NEW g \in PendLists, NEW W \in SUBSET Tasks,
           \A u \in W : Linked(list, g, u) /\ "PEND" \in status[u],
           WakeAll(list[g], W), ~fault, isr = "none",
           UNCHANGED <<prio, isr, scanTask, scanStatus, needSched, sliceTask, sliceLeft, handle, taskLock>>,
           \/ LOS_Schedule /\ UNCHANGED pc
           \/ /\ UNCHANGED <<runTask, newTask, pendSV>>
              /\ \/ UNCHANGED pc
                 \/ \E t \in Tasks : Calls(t) /\ pc' = [pc EXCEPT ![t] = "sched"]
    PROVE  /\ WaitInv'
           /\ \A u \in Tasks \ W : status'[u] = status[u]
           /\ \A u \in W : status'[u] \cap Marks = {}
           /\ \A h \in PendLists : \A y :
                  Linked(list', h, y) <=> Linked(list, h, y) /\ y \notin W
           /\ \A u \in Tasks : Waiting(pc'[u]) <=> Waiting(pc[u])
           /\ ~fault'
  <1>1. /\ Good /\ RunnerOK /\ WaitersOK /\ TaskTypeOK
        /\ pc \in [Tasks -> {"user", "sched", "create", "wait", "woken"}]
        /\ status \in [TCBs -> SUBSET Flags]
        /\ timer \in [Tasks -> Nat \cup {Off}]
        /\ Tasks \subseteq TCBs /\ Dummy \notin Tasks /\ Dummy \in TCBs /\ Idle \in Tasks
    BY TaskAssumption DEF WaitInv, TaskInv, Good, TaskTypeOK, TimersTypeOK, TCBs
  <1>2. /\ KeepsCalls /\ BetweenTicks
        /\ \A u \in Tasks : Waiting(pc'[u]) <=> Waiting(pc[u])
        /\ \A u \in Tasks : pc[u] = "wait" => pc'[u] = "wait"
    <2>1. CASE UNCHANGED pc
      BY <1>1, <2>1 DEF KeepsCalls, BetweenTicks
    <2>2. ASSUME NEW t \in Tasks, Calls(t), pc' = [pc EXCEPT ![t] = "sched"]
          PROVE  /\ KeepsCalls /\ BetweenTicks
                 /\ \A u \in Tasks : Waiting(pc'[u]) <=> Waiting(pc[u])
                 /\ \A u \in Tasks : pc[u] = "wait" => pc'[u] = "wait"
      <3>1. pc[t] = "user" /\ pc'[t] = "sched" /\ \A u \in Tasks \ {t} : pc'[u] = pc[u]
        BY <1>1, <2>2 DEF Calls
      <3> QED BY <1>1, <2>2, <3>1 DEF KeepsCalls, BetweenTicks, Waiting
    <2> QED BY <2>1, <2>2
  <1>3. \A u \in W : /\ "READY" \notin status[u] /\ "UNUSED" \notin status[u]
                     /\ "DELAY" \notin status[u] /\ "PEND_QUEUE" \notin status[u]
                     /\ Armed(u) <=> "TIMEOUT" \in status[u]
    BY <1>1 DEF Good, Healthy, ShapeOK, BlockFlags, WaitFlags, TimerMatchesStatus
  <1>4. /\ status' = RousedIn(W)
        /\ list' = QueuesAfter(list[g], W).list /\ bitmap' = QueuesAfter(list[g], W).bitmap
        /\ timer' = [u \in Tasks |-> IF u \in W /\ "TIMEOUT" \in status[u] THEN Off ELSE timer[u]]
        /\ ~fault' /\ fault' \in BOOLEAN
    BY <1>3 DEF WakeAll, RousedIn, Roused, NoLonger, Become, TimedOut
  <1>5. /\ \A u \in TCBs \ W : status'[u] = status[u]
        /\ \A u \in W : status'[u] = Roused(u)
        /\ status' \in [TCBs -> SUBSET Flags]
    <2>1. \A u \in TCBs : Roused(u) \in SUBSET Flags
      BY <1>1 DEF Roused, Flags
    <2> QED BY <1>1, <1>4, <2>1 DEF RousedIn
  <1>6. \A u \in W : /\ Roused(u) \cap (Marks \cup {"DELAY"}) = {}
                     /\ Roused(u) \cap {"READY", "SUSPEND"} # {}
                     /\ ~({"READY", "SUSPEND"} \subseteq Roused(u))
    BY <1>3 DEF Roused, Marks
  <1>7. \A h \in PendLists : \A y : Linked(list', h, y) <=> Linked(list, h, y) /\ y \notin W
    BY <1>1, <1>4, WalkKeeps
  <1>8. QueuesOK(Queues, status, prio)'
    <2>1. QueuesOK(QueuesAfter(list[g], W), status', prio)
      BY <1>1, <1>4, WalkKeeps
    <2> DEFINE q == QueuesAfter(list[g], W)
    <2>2. q = [list |-> q.list, bitmap |-> q.bitmap]
      BY <2>1 DEF QueuesOK, WellFormed
    <2>3. Queues' = q
      BY <1>4, <2>2 DEF Queues
    <2> QED BY <2>1, <2>3
  <1>9. ShapeOK'
    <2>1. "READY" \notin status'[Dummy]
      BY <1>1, <1>5 DEF Good, Healthy, ShapeOK
    <2>2. ASSUME NEW u \in W
          PROVE  /\ status'[u] \cap (BlockFlags \cup {"READY", "UNUSED"}) # {}
                 /\ "READY" \in status'[u] => status'[u] \cap (BlockFlags \cup {"UNUSED"}) = {}
                 /\ "UNUSED" \notin status'[u] /\ "DELAY" \notin status'[u]
                 /\ "TIMEOUT" \notin status'[u] /\ "PEND" \notin status'[u]
      BY <1>5, <1>6 DEF BlockFlags, Marks
    <2>3. \A u \in Tasks \ W : status'[u] = status[u]
      BY <1>1, <1>5
    <2> QED BY <1>1, <1>2, <2>1, <2>2, <2>3 DEF Good, Healthy, ShapeOK, KeepsCalls
  <1>10. HandlesOK'
    <2>1. \A u \in Tasks : handle[u] # NoTask => handle[u] \in Tasks \ W
      BY <1>1 DEF Good, Healthy, HandlesOK, TaskTypeOK
    <2>2. \A u \in Tasks : handle[u] # NoTask => status'[handle[u]] = status[handle[u]]
      BY <1>1, <1>5, <2>1
    <2> QED BY <1>1, <1>2, <2>2 DEF Good, Healthy, HandlesOK, KeepsCalls
  <1>11. /\ timer' \in [Tasks -> Nat \cup {Off}]
         /\ \A u \in W : timer'[u] = Off
         /\ \A u \in Tasks \ W : timer'[u] = timer[u]
    BY <1>1, <1>3, <1>4 DEF Armed
  <1>12. ScanOK' /\ SliceOK'
    BY <1>1, <1>2, <1>11 DEF Good, Healthy, ScanOK, SliceOK, BetweenTicks, NoneDue, Due, Off
  <1>13. TimerMatchesStatus'
    <2>1. \A u \in W : "DELAY" \notin status'[u] /\ "TIMEOUT" \notin status'[u]
      BY <1>5, <1>6 DEF Marks
    <2>2. \A u \in Tasks \ W : status'[u] = status[u] /\ timer'[u] = timer[u]
      BY <1>1, <1>5, <1>11
    <2> QED BY <1>1, <1>2, <1>11, <2>1, <2>2
            DEF Good, Healthy, TimerMatchesStatus, BetweenTicks, Armed
  <1>14. Ready(Idle)'
    <2>1. Idle \notin W
      BY <1>1, <1>3 DEF Good, Healthy, Ready
    <2> QED BY <1>1, <1>5, <2>1 DEF Good, Healthy, Ready
  <1>15. Healthy'
    BY <1>8, <1>9, <1>10, <1>12, <1>13, <1>14 DEF Healthy
  <1>16. newTask' \in Tasks /\ pendSV' \in BOOLEAN /\ runTask' = runTask
    BY <1>1, <1>8, <1>14, ScheduleTypes DEF TaskTypeOK
  <1>17. TaskTypeOK'
    <2>1. list' \in [ListHeads -> Seq(Tasks)] /\ bitmap' \subseteq Prio
      BY <1>8, ListTypes
    <2> QED BY <1>1, <1>2, <1>4, <1>5, <1>11, <1>16, <2>1 DEF TaskTypeOK, TimersTypeOK, BetweenTicks
  <1>18. \A u \in Tasks : Pending(u)' => Pending(u)
    BY <1>1, <1>5, <1>6 DEF Pending, Marks, WaitFlags
  <1>19. RunnerOK'
    <2>1. ASSUME LOS_Schedule PROVE RunnerOK'
      <3>1. \A u \in Tasks : u = runTask /\ ~pendSV /\ Pending(u)' =>
                pc'[u] = "wait" /\ taskLock' = 0
        BY <1>1, <1>2, <1>18 DEF RunnerOK, Pending
      <3>2. Good'
        BY <1>15, <1>17 DEF Good
      <3> QED BY <1>1, <1>18, <2>1, <3>1, <3>2, Reawaits
    <2>2. ASSUME UNCHANGED <<runTask, newTask, pendSV>> PROVE RunnerOK'
      <3>1. newTask \in Tasks
        BY <1>1 DEF TaskTypeOK
      <3> QED BY <1>1, <1>2, <1>18, <2>2, <3>1 DEF RunnerOK, Pending
    <2> QED BY <2>1, <2>2
  <1>20. WaitersOK'
    <2>1. ASSUME NEW u \in Tasks
          PROVE  /\ "UNUSED" \in status'[u] => ~Waiting(pc'[u])
                 /\ Pending(u)' => Waiting(pc'[u])
      <3>1. CASE u \in W
        BY <1>5, <1>6, <3>1 DEF Pending, Marks, WaitFlags
      <3>2. CASE u \notin W
        BY <1>1, <1>2, <1>5, <1>18, <3>2 DEF WaitersOK
      <3> QED BY <3>1, <3>2
    <2> QED BY <2>1 DEF WaitersOK
  <1>21. WaitInv'
    BY <1>15, <1>17, <1>19, <1>20 DEF WaitInv, TaskInv
  <1>22. /\ \A u \in Tasks \ W : status'[u] = status[u]
         /\ \A u \in W : status'[u] \cap Marks = {}
    BY <1>1, <1>5, <1>6
  <1> QED BY <1>2, <1>4, <1>7, <1>21, <1>22

-----------------------------------------------------------------------------
(***************************************************************************)
(* A wait list in terms of the links in it.                                *)
(***************************************************************************)
LEMMA InWaiters ==
    ASSUME NEW e \in Events, list \in [ListHeads -> Seq(Tasks)]
    PROVE  \A t : t \in ToSet(Waiters(e)) <=> t \in Tasks /\ Linked(list, WaitersOf[e], t)
  <1> DEFINE s == list[WaitersOf[e]]
  <1>1. s \in Seq(Tasks)
    BY EventAssumption DEF ListHeads
  <1>2. \A t : t \in ToSet(s) <=> \E i \in 1 .. Len(s) : s[i] = t
    BY <1>1 DEF ToSet
  <1>3. \A t : Linked(list, WaitersOf[e], t) <=> \E i \in 1 .. Len(s) : s[i] = t
    BY DEF Linked, Contains
  <1>4. \A i \in 1 .. Len(s) : s[i] \in Tasks
    BY <1>1
  <1> QED BY <1>2, <1>3, <1>4 DEF Waiters

(***************************************************************************)
(* WaitersUnsatisfied, link by link.                                       *)
(***************************************************************************)
Unsatisfied ==
    \A e \in Events, t \in Tasks :
        Linked(list, WaitersOf[e], t) =>
            e \in ready /\ LOS_EventPoll(eventID[e], request[t]) = {}

LEMMA LinkByLink ==
    ASSUME TaskTypeOK
    PROVE  WaitersUnsatisfied <=> Unsatisfied
  BY InWaiters DEF WaitersUnsatisfied, Unsatisfied, TaskTypeOK

(***************************************************************************)
(* What a request finds in a word that loses or gains bits.                *)
(***************************************************************************)
LEMMA PollFacts ==
    ASSUME NEW word \in SUBSET Bits, NEW r \in Requests \cup {SomeRequest}
    PROVE  /\ \A bits : LOS_EventPoll(word, r) = {} => LOS_EventPoll(word \ bits, r) = {}
           /\ \A bits : LOS_EventPoll(word, r) # {} /\ r.mask \cap bits \cap word = {}
                  => LOS_EventPoll(word \ bits, r) # {}
           /\ \A bits : LOS_EventPoll(word, r) # {} => LOS_EventPoll(word \cup bits, r) # {}
           /\ LOS_EventPoll(word, SomeRequest) = {}
           /\ LOS_EventPoll(word, r) \subseteq word
  BY DEF LOS_EventPoll, Requests, SomeRequest

(***************************************************************************)
(* The runs' invariants from the inductive one.                            *)
(***************************************************************************)
LEMMA EventInvImplies ==
    ASSUME EventInv
    PROVE  WaitersUnsatisfied /\ WokenFindEvents
  BY DEF EventInv

-----------------------------------------------------------------------------
(***************************************************************************)
(* A step of the scheduler, or of any other caller: who is linked or woken *)
(* after it was so before, and has the same request.                       *)
(***************************************************************************)
LEMMA OtherCallInv ==
    ASSUME EventInv, ~NestedIsr, OtherCall
    PROVE  EventInv'
  <1> DEFINE gone == {t \in Tasks : "UNUSED" \in status'[t]}
  <1>1. /\ TaskNext
        /\ readFrom' = [t \in Tasks |-> IF t \in gone THEN NoTask ELSE readFrom[t]]
        /\ request' = [t \in Tasks |-> IF t \in gone THEN SomeRequest ELSE request[t]]
        /\ taken' = [t \in Tasks |-> taken[t] /\ t \notin gone]
        /\ UNCHANGED <<eventID, ready>>
    BY DEF OtherCall
  <1>2. WaitInv' /\ WaitsEnd /\ ~fault
    <2>1. WaitInv' /\ WaitsEnd
      BY <1>1, WaitStep DEF EventInv
    <2>2. ~fault
      BY <1>1, FaultedStops
    <2> QED BY <2>1, <2>2
  <1>3. \A t \in Tasks : "UNUSED" \in status[t] => ~Waiting(pc[t])
    BY <1>2 DEF EventInv, WaitInv, WaitersOK
  <1>4. TaskTypeOK /\ TaskTypeOK' /\ WordsOK
    BY <1>2 DEF EventInv, WaitInv, TaskInv
  <1>5. \A e \in Events : WaitersOf[e] \in PendLists /\ e # NoTask
    BY EventAssumption
  <1>6. WordsOK'
    <2>1. /\ readFrom' \in [Tasks -> Events \cup {NoTask}]
          /\ request' \in [Tasks -> Requests \cup {SomeRequest}]
          /\ taken' \in [Tasks -> BOOLEAN]
      <3> HIDE DEF gone
      <3> QED BY <1>1, <1>4 DEF WordsOK
    <2> QED BY <1>1, <1>4, <2>1 DEF WordsOK
  <1>7. WaitersUnsatisfied'
    <2>1. ASSUME NEW e \in Events, NEW t \in Tasks, Linked(list', WaitersOf[e], t)
          PROVE  e \in ready /\ LOS_EventPoll(eventID[e], request'[t]) = {}
      <3>1. Linked(list, WaitersOf[e], t)
        BY <1>2, <1>5, <2>1 DEF WaitsEnd, Shrinks
      <3>2. e \in ready /\ LOS_EventPoll(eventID[e], request[t]) = {}
        BY <1>4, <3>1, LinkByLink DEF EventInv, Unsatisfied
      <3>3. LOS_EventPoll(eventID[e], SomeRequest) = {}
        BY <1>4, PollFacts DEF WordsOK
      <3> QED BY <1>1, <3>2, <3>3
    <2>2. Unsatisfied'
      BY <1>1, <2>1 DEF Unsatisfied, LOS_EventPoll
    <2> QED BY <1>4, <2>2, LinkByLink, PTL
  <1>8. WokenFindEvents'
    <2>1. ASSUME NEW e \in Events, NEW t \in Tasks, t \in Woken(e)'
          PROVE  taken'[t] \/ LOS_EventPoll(eventID'[e], request'[t]) # {}
      <3>1. Waiting(pc'[t]) /\ readFrom'[t] = e /\ status'[t] \cap {"PEND", "TIMEOUT"} = {}
        BY <2>1 DEF Woken, Waiting
      <3>2. t \notin gone
        BY <1>1, <1>5, <3>1
      <3>3. Unaffected(t)
        BY <1>2, <3>1, <3>2 DEF WaitsEnd, TimesOut, Dies, Born
      <3>4. readFrom[t] = e /\ Waiting(pc[t]) /\ status[t] \cap {"PEND", "TIMEOUT"} = {}
        BY <1>1, <3>1, <3>2, <3>3 DEF Unaffected, Marks
      <3>5. t \in Woken(e)
        BY <3>4 DEF Woken, Waiting
      <3>6. taken[t] \/ LOS_EventPoll(eventID[e], request[t]) # {}
        BY <3>5 DEF EventInv, WokenFindEvents
      <3>7. taken'[t] = taken[t] /\ request'[t] = request[t]
        <4>1. taken[t] \in BOOLEAN
          BY <1>4 DEF WordsOK
        <4> QED BY <1>1, <3>2, <4>1
      <3> QED BY <1>1, <3>6, <3>7
    <2>2. \A e \in Events : Woken(e)' \subseteq Tasks
      BY DEF Woken
    <2> QED BY <2>1, <2>2 DEF WokenFindEvents, LOS_EventPoll
  <1>9. fault' \/ LinkedReads'
    <2>1. ASSUME ~fault', NEW e \in Events, NEW t \in Tasks, Linked(list', WaitersOf[e], t)
          PROVE  readFrom'[t] = e /\ request'[t] \in Requests /\ "PEND" \in status'[t]
      <3>1. readFrom[t] = e /\ request[t] \in Requests /\ "PEND" \in status[t]
        BY <1>2, <1>5, <2>1 DEF WaitsEnd, Shrinks, EventInv, LinkedReads
      <3>2. Pending(t)'
        BY <1>2, <1>5, <2>1 DEF WaitInv, TaskInv, Healthy, QueuesOK, InPlace, Queues, Pending
      <3>3. Unaffected(t)
        BY <1>2, <3>2 DEF WaitsEnd, TimesOut, Dies, Born, Pending, WaitFlags
      <3>4. "UNUSED" \notin status'[t]
        BY <1>2, <2>1, <3>2 DEF WaitInv, WaitersOK
      <3> QED BY <1>1, <3>1, <3>3, <3>4 DEF Unaffected, Marks
    <2> QED BY <2>1 DEF LinkedReads
  <1> QED BY <1>2, <1>6, <1>7, <1>8, <1>9 DEF EventInv

-----------------------------------------------------------------------------
(***************************************************************************)
(* What task u came for is in the word of d after the step, if nobody took *)
(* it away.                                                                *)
(***************************************************************************)
StillFinds(d, u) == taken'[u] \/ LOS_EventPoll(eventID'[d], request[u]) # {}

(***************************************************************************)
(* Calls that leave the scheduler and the readers alone: they change the   *)
(* word of one event, and what their clearing takes from woken readers.    *)
(***************************************************************************)
LEMMA QuietCall ==
    ASSUME EventInv, UNCHANGED <<taskVars, request, readFrom>>, WordsOK',
           \A e \in Events, t \in Tasks : Linked(list, WaitersOf[e], t) =>
               e \in ready' /\ LOS_EventPoll(eventID'[e], request[t]) = {},
           \A e \in Events : \A t \in Woken(e) :
               StillFinds(e, t)
    PROVE  EventInv'
  <1>1. UNCHANGED <<list, status, pc, fault>>
    BY DEF taskVars, listVars, callVars
  <1>2. WaitInv'
    BY WaitStutter DEF EventInv
  <1>3. TaskTypeOK'
    BY <1>2 DEF WaitInv, TaskInv
  <1>4. WaitersUnsatisfied'
    <2>1. Unsatisfied'
      BY <1>1 DEF Unsatisfied, LOS_EventPoll
    <2> QED BY <1>3, <2>1, LinkByLink, PTL
  <1>5. WokenFindEvents'
    <2>1. \A e \in Events : Woken(e)' = Woken(e)
      BY <1>1 DEF Woken
    <2> QED BY <2>1 DEF WokenFindEvents, LOS_EventPoll, StillFinds
  <1>6. fault' \/ LinkedReads'
    BY <1>1 DEF EventInv, LinkedReads
  <1> QED BY <1>2, <1>4, <1>5, <1>6 DEF EventInv

(***************************************************************************)
(* Bits that go away leave no waiter satisfied, and are taken from the     *)
(* woken readers that came for them.                                       *)
(***************************************************************************)
LEMMA ClearedFacts ==
    ASSUME EventInv, NEW e \in Events, NEW bits, NEW t, Cleared(e, bits, t)
    PROVE  /\ eventID' \in [Events -> SUBSET Bits] /\ taken' \in [Tasks -> BOOLEAN]
           /\ \A d \in Events : eventID'[d] = IF d = e THEN eventID[e] \ bits ELSE eventID[d]
           /\ \A d \in Events, u \in Tasks : Linked(list, WaitersOf[d], u) =>
                  d \in ready /\ LOS_EventPoll(eventID'[d], request[u]) = {}
           /\ \A d \in Events, u \in Tasks : u \in Woken(d) /\ u # t =>
                  StillFinds(d, u)
  <1>1. /\ eventID' = [eventID EXCEPT ![e] = eventID[e] \ bits]
        /\ taken' = [u \in Tasks |-> \/ taken[u] /\ u # t
                                     \/ /\ u \in Woken(e) \ {t}
                                        /\ request[u].mask \cap bits \cap eventID[e] # {}]
    BY DEF Cleared
  <1>2. TaskTypeOK /\ WordsOK
    BY DEF EventInv, WaitInv, TaskInv
  <1>3. \A d \in Events : eventID'[d] = IF d = e THEN eventID[e] \ bits ELSE eventID[d]
    BY <1>1, <1>2 DEF WordsOK
  <1>4. eventID' \in [Events -> SUBSET Bits] /\ taken' \in [Tasks -> BOOLEAN]
    BY <1>1, <1>2 DEF WordsOK
  <1>5. ASSUME NEW d \in Events, NEW u \in Tasks, Linked(list, WaitersOf[d], u)
        PROVE  d \in ready /\ LOS_EventPoll(eventID'[d], request[u]) = {}
    <2>1. d \in ready /\ LOS_EventPoll(eventID[d], request[u]) = {}
      BY <1>2, <1>5, LinkByLink DEF EventInv, Unsatisfied
    <2>2. LOS_EventPoll(eventID[d] \ bits, request[u]) = {}
      BY <1>2, <2>1, PollFacts DEF WordsOK
    <2> QED BY <1>3, <2>1, <2>2
  <1>6. ASSUME NEW d \in Events, NEW u \in Woken(d) \ {t}
        PROVE  StillFinds(d, u)
    <2>1. u \in Tasks
      BY DEF Woken
    <2>2. taken[u] \/ LOS_EventPoll(eventID[d], request[u]) # {}
      BY DEF EventInv, WokenFindEvents
    <2>3. CASE d # e
      BY <1>1, <1>3, <2>1, <2>2, <2>3 DEF StillFinds
    <2>4. CASE d = e
      <3>1. CASE taken[u] \/ request[u].mask \cap bits \cap eventID[e] # {}
        BY <1>1, <1>6, <2>1, <2>4, <3>1 DEF StillFinds
      <3>2. CASE ~taken[u] /\ request[u].mask \cap bits \cap eventID[e] = {}
        <4>1. LOS_EventPoll(eventID[e] \ bits, request[u]) # {}
          BY <1>2, <2>1, <2>2, <2>4, <3>2, PollFacts DEF WordsOK
        <4> QED BY <1>3, <2>4, <4>1 DEF StillFinds
      <3> QED BY <3>1, <3>2
    <2> QED BY <2>3, <2>4
  <1>7. \A d \in Events : Woken(d) \subseteq Tasks
    BY DEF Woken
  <1> QED BY <1>3, <1>4, <1>5, <1>6, <1>7

LEMMA ClearInv ==
    ASSUME EventInv, NEW e \in Events, NEW bits, NEW t, Cleared(e, bits, t),
           t \notin Tasks \/ ~Waiting(pc[t]),
           UNCHANGED <<taskVars, ready, request, readFrom>>
    PROVE  EventInv'
  <1>1. WordsOK'
    BY ClearedFacts DEF EventInv, WordsOK
  <1>2. \A d \in Events : t \notin Woken(d)
    BY DEF Woken, Waiting
  <1>3. \A d \in Events : \A u \in Woken(d) : StillFinds(d, u)
    <2>1. \A d \in Events, u \in Tasks : u \in Woken(d) /\ u # t => StillFinds(d, u)
      BY ClearedFacts
    <2>2. \A d \in Events : Woken(d) \subseteq Tasks
      BY DEF Woken
    <2> QED BY <1>2, <2>1, <2>2
  <1>4. \A d \in Events, u \in Tasks : Linked(list, WaitersOf[d], u) =>
            d \in ready' /\ LOS_EventPoll(eventID'[d], request[u]) = {}
    BY ClearedFacts
  <1>5. UNCHANGED <<taskVars, request, readFrom>>
    OBVIOUS
  <1> QED BY <1>1, <1>3, <1>4, <1>5, QuietCall

LEMMA InitialiseInv ==
    ASSUME EventInv, NEW t, NEW e \in Events, LOS_EventInit(t, e) \/ LOS_EventDestory(t, e)
    PROVE  EventInv'
  <1>1. TaskTypeOK /\ WordsOK /\ Unsatisfied
    BY LinkByLink DEF EventInv, WaitInv, TaskInv
  <1>2. CASE LOS_EventInit(t, e)
    <2>1. /\ ready' = ready \cup {e}
          /\ Waiters(e) = <<>>
          /\ eventID' = [eventID EXCEPT ![e] = {}]
          /\ taken' = [u \in Tasks |-> taken[u] \/ u \in Woken(e)]
          /\ UNCHANGED <<taskVars, request, readFrom>>
      BY <1>2 DEF LOS_EventInit
    <2>2. WordsOK'
      <3>1. taken' \in [Tasks -> BOOLEAN]
        BY <1>1, <2>1 DEF WordsOK
      <3>2. eventID' \in [Events -> SUBSET Bits]
        BY <1>1, <2>1 DEF WordsOK
      <3> QED BY <1>1, <2>1, <3>1, <3>2 DEF WordsOK
    <2>3. \A d \in Events \ {e} : eventID'[d] = eventID[d]
      BY <1>1, <2>1 DEF WordsOK
    <2>0. \A u \in Tasks : ~Linked(list, WaitersOf[e], u)
      BY <2>1 DEF Waiters, Linked, Contains
    <2>4. \A d \in Events, u \in Tasks : Linked(list, WaitersOf[d], u) =>
              d \in ready' /\ LOS_EventPoll(eventID'[d], request[u]) = {}
      BY <1>1, <2>0, <2>1, <2>3 DEF Unsatisfied
    <2>5. ASSUME NEW d \in Events, NEW u \in Woken(d)
          PROVE  StillFinds(d, u)
      <3>1. u \in Tasks /\ (taken[u] \/ LOS_EventPoll(eventID[d], request[u]) # {})
        BY <2>5 DEF Woken, EventInv, WokenFindEvents
      <3> QED BY <2>1, <2>3, <2>5, <3>1 DEF StillFinds
    <2> QED BY <2>1, <2>2, <2>4, <2>5, QuietCall
  <1>3. CASE LOS_EventDestory(t, e)
    <2>1. /\ Waiters(e) = <<>> /\ ready' = ready \ {e}
          /\ UNCHANGED <<eventID, request, readFrom, taken>> /\ UNCHANGED <<taskVars, request, readFrom>>
      BY <1>3 DEF LOS_EventDestory
    <2>2. WordsOK'
      BY <1>1, <2>1 DEF WordsOK
    <2>3. \A u \in Tasks : ~Linked(list, WaitersOf[e], u)
      BY <2>1 DEF Waiters, Linked, Contains
    <2>4. \A d \in Events, u \in Tasks : Linked(list, WaitersOf[d], u) =>
              d \in ready' /\ LOS_EventPoll(eventID'[d], request[u]) = {}
      BY <1>1, <2>1, <2>3 DEF Unsatisfied
    <2>5. \A d \in Events : \A u \in Woken(d) : StillFinds(d, u)
      BY <2>1 DEF EventInv, WokenFindEvents, StillFinds
    <2> QED BY <2>1, <2>2, <2>4, <2>5, QuietCall
  <1> QED BY <1>2, <1>3

-----------------------------------------------------------------------------
(***************************************************************************)
(* LOS_EventRead that waits: the task joins the list of an event that has  *)
(* not got what it reads.                                                  *)
(***************************************************************************)
LEMMA ReadWaitsInv ==
    ASSUME EventInv, NEW t \in Tasks, NEW e \in Events, NEW r \in Requests,
           NEW n \in Delays \cup {Forever}, LOS_EventRead(t, e, r, n)
    PROVE  EventInv'
  <1>1. /\ Calls(t) /\ e \in ready /\ LOS_EventPoll(eventID[e], r) = {} /\ taskLock = 0
        /\ osTaskWait(Queues, t, WaitersOf[e], "PEND", n)
        /\ request' = [request EXCEPT ![t] = r]
        /\ readFrom' = [readFrom EXCEPT ![t] = e]
        /\ pc' = [pc EXCEPT ![t] = "wait"]
        /\ UNCHANGED <<prio, runTask, newTask, pendSV, taskLock, isr, scanTask, scanStatus,
                       needSched, sliceTask, sliceLeft, handle>>
        /\ UNCHANGED <<eventID, ready, taken>>
    BY DEF LOS_EventRead, Goto, cpuVars, tickVars, scanVars, sliceVars
  <1>2. /\ ~fault /\ pc[t] = "user"
        /\ QueuesOK(Queues, status, prio') /\ prio' \in [TCBs -> Prio] /\ prio'[t] = prio[t]
        /\ pc \in [Tasks -> {"user", "sched", "create", "wait", "woken"}]
        /\ TaskTypeOK /\ WordsOK
    BY <1>1 DEF Calls, InTask, EventInv, WaitInv, TaskInv, TaskTypeOK, Healthy
  <1>3. /\ WaitInv'
        /\ \A u \in Tasks \ {t} : status'[u] = status[u]
        /\ "PEND" \in status'[t]
        /\ \A g \in PendLists : \A y :
               Linked(list', g, y) <=> (Linked(Queues.list, g, y) /\ y # t) \/ (g = WaitersOf[e] /\ y = t)
    <2> DEFINE h == WaitersOf[e]
               f == "PEND"
    <2>1. h \in PendLists /\ f \in WaitFlags /\ osTaskWait(Queues, t, h, f, n)
      BY <1>1, EventAssumption DEF WaitFlags
    <2> HIDE DEF h, f
    <2>2. /\ WaitInv'
          /\ \A u \in Tasks \ {t} : status'[u] = status[u]
          /\ f \in status'[t]
          /\ \A g \in PendLists : \A y :
                 Linked(list', g, y) <=> (Linked(Queues.list, g, y) /\ y # t) \/ (g = h /\ y = t)
      BY <1>1, <1>2, <2>1, WaitEffect DEF EventInv
    <2> QED BY <2>2 DEF h, f
  <1>4. /\ pc'[t] = "wait" /\ readFrom'[t] = e /\ request'[t] = r
        /\ \A u \in Tasks \ {t} : /\ pc'[u] = pc[u] /\ readFrom'[u] = readFrom[u]
                                  /\ request'[u] = request[u]
    BY <1>1, <1>2 DEF WordsOK
  <1>5. WordsOK'
    BY <1>1, <1>2 DEF WordsOK
  <1>6. ASSUME NEW d \in Events, NEW u \in Tasks, Linked(list', WaitersOf[d], u)
        PROVE  \/ u = t /\ d = e
               \/ u # t /\ Linked(list, WaitersOf[d], u)
    BY <1>3, <1>6, EventAssumption DEF Queues
  <1>7. WaitersUnsatisfied'
    <2>1. ASSUME NEW d \in Events, NEW u \in Tasks, Linked(list', WaitersOf[d], u)
          PROVE  d \in ready /\ LOS_EventPoll(eventID[d], request'[u]) = {}
      <3>1. CASE u = t /\ d = e
        BY <1>1, <1>4, <3>1
      <3>2. CASE u # t /\ Linked(list, WaitersOf[d], u)
        BY <1>2, <1>4, <3>2, LinkByLink DEF EventInv, Unsatisfied
      <3> QED BY <1>6, <2>1, <3>1, <3>2
    <2>2. Unsatisfied'
      BY <1>1, <2>1 DEF Unsatisfied, LOS_EventPoll
    <2>3. TaskTypeOK'
      BY <1>3 DEF WaitInv, TaskInv
    <2> QED BY <2>2, <2>3, LinkByLink, PTL
  <1>8. WokenFindEvents'
    <2>1. ASSUME NEW d \in Events, NEW u \in Woken(d)'
          PROVE  u \in Woken(d) /\ u \in Tasks \ {t}
      BY <1>3, <1>4 DEF Woken
    <2>2. \A d \in Events : \A u \in Woken(d)' :
              taken'[u] \/ LOS_EventPoll(eventID'[d], request'[u]) # {}
      BY <1>1, <1>4, <2>1 DEF EventInv, WokenFindEvents
    <2> QED BY <2>2 DEF WokenFindEvents, LOS_EventPoll
  <1>9. LinkedReads'
    <2>1. ASSUME NEW d \in Events, NEW u \in Tasks, Linked(list', WaitersOf[d], u)
          PROVE  readFrom'[u] = d /\ request'[u] \in Requests /\ "PEND" \in status'[u]
      <3>1. CASE u = t /\ d = e
        BY <1>3, <1>4, <3>1
      <3>2. CASE u # t /\ Linked(list, WaitersOf[d], u)
        BY <1>2, <1>3, <1>4, <3>2 DEF EventInv, LinkedReads
      <3> QED BY <1>6, <2>1, <3>1, <3>2
    <2> QED BY <2>1 DEF LinkedReads
  <1> QED BY <1>3, <1>5, <1>7, <1>8, <1>9 DEF EventInv

(***************************************************************************)
(* LOS_EventRead polls again and returns.                                  *)
(***************************************************************************)
LEMMA ReturnsInv ==
    ASSUME EventInv, NEW t \in Tasks, EventReadReturns(t)
    PROVE  EventInv'
  <1>1. /\ InTask(t) /\ pc[t] = "woken"
        /\ status' = [status EXCEPT ![t] = @ \ {"TIMEOUT"}]
        /\ readFrom' = [readFrom EXCEPT ![t] = NoTask]
        /\ request' = [request EXCEPT ![t] = SomeRequest]
        /\ pc' = [pc EXCEPT ![t] = "user"]
        /\ UNCHANGED <<list, bitmap, prio, timer, runTask, newTask, pendSV, taskLock, isr, scanTask,
                       scanStatus, needSched, sliceTask, sliceLeft, handle, fault>>
        /\ UNCHANGED ready
    BY DEF EventReadReturns, Goto, listVars, cpuVars, tickVars, scanVars, sliceVars
  <1>2. /\ WaitInv' /\ ~Pending(t)
        /\ ~fault /\ TaskTypeOK /\ WordsOK /\ TaskTypeOK'
    <2>1. WaitInv' /\ ~Pending(t)
      BY <1>1, ReturnStep DEF EventInv
    <2> QED BY <1>1, <2>1 DEF InTask, EventInv, WaitInv, TaskInv
  <1>3. /\ pc'[t] = "user" /\ readFrom'[t] = NoTask /\ request'[t] = SomeRequest
        /\ \A u \in Tasks \ {t} : /\ pc'[u] = pc[u] /\ readFrom'[u] = readFrom[u]
                                  /\ status'[u] = status[u] /\ request'[u] = request[u]
        /\ readFrom' \in [Tasks -> Events \cup {NoTask}]
        /\ request' \in [Tasks -> Requests \cup {SomeRequest}]
    BY <1>1, <1>2 DEF TCBs, WordsOK, TaskTypeOK
  <1>4. \A d \in Events : ~Linked(list, WaitersOf[d], t)
    BY <1>2, EventAssumption DEF EventInv, LinkedReads, Pending, WaitFlags
  <1>5. /\ eventID' \in [Events -> SUBSET Bits] /\ taken' \in [Tasks -> BOOLEAN]
        /\ \A d \in Events, u \in Tasks : Linked(list, WaitersOf[d], u) =>
               d \in ready /\ LOS_EventPoll(eventID'[d], request[u]) = {}
        /\ \A d \in Events, u \in Tasks : u \in Woken(d) /\ u # t =>
               StillFinds(d, u)
    <2>1. CASE TimedOut(t)
      <3>1. UNCHANGED <<eventID, taken>>
        BY <2>1 DEF EventReadReturns
      <3>2. Unsatisfied
        BY <1>2, LinkByLink DEF EventInv
      <3> QED BY <1>2, <3>1, <3>2 DEF EventInv, WordsOK, Unsatisfied, WokenFindEvents, StillFinds
    <2>2. CASE ~TimedOut(t)
      <3>1. Polled(readFrom[t], request[t], t)
        BY <2>2 DEF EventReadReturns
      <3>2. PICK bits : Cleared(readFrom[t], bits, t)
        BY <3>1 DEF Polled
      <3>3. CASE readFrom[t] \in Events
        <4> DEFINE e == readFrom[t]
        <4>1. e \in Events /\ Cleared(e, bits, t)
          BY <3>2, <3>3
        <4> HIDE DEF e
        <4> QED BY <4>1, ClearedFacts
      <3>4. CASE readFrom[t] \notin Events
        <4>1. UNCHANGED eventID
          BY <1>2, <3>2, <3>4 DEF Cleared, WordsOK
        <4>2. Woken(readFrom[t]) \subseteq Tasks
          BY DEF Woken
        <4>3. /\ taken' \in [Tasks -> BOOLEAN]
              /\ \A u \in Tasks \ {t} : taken[u] => taken'[u]
          BY <1>2, <3>2 DEF Cleared, WordsOK
        <4>4. Unsatisfied
          BY <1>2, LinkByLink DEF EventInv
        <4>5. \A d \in Events : Woken(d) \subseteq Tasks
          BY DEF Woken
        <4> QED BY <1>2, <4>1, <4>3, <4>4, <4>5 DEF EventInv, WordsOK, Unsatisfied, WokenFindEvents, StillFinds
      <3> QED BY <3>3, <3>4
    <2> QED BY <2>1, <2>2
  <1>6. WordsOK'
    BY <1>1, <1>2, <1>3, <1>5 DEF WordsOK
  <1>7. WaitersUnsatisfied'
    <2>1. Unsatisfied'
      BY <1>1, <1>3, <1>4, <1>5 DEF Unsatisfied, LOS_EventPoll
    <2> QED BY <1>2, <2>1, LinkByLink, PTL
  <1>8. WokenFindEvents'
    <2>1. ASSUME NEW d \in Events, NEW u \in Woken(d)'
          PROVE  u \in Woken(d) /\ u \in Tasks /\ u # t
      BY <1>3 DEF Woken
    <2>2. \A d \in Events : \A u \in Woken(d)' :
              taken'[u] \/ LOS_EventPoll(eventID'[d], request'[u]) # {}
      BY <1>3, <1>5, <2>1, SMTT(60) DEF StillFinds
    <2> QED BY <2>2 DEF WokenFindEvents, LOS_EventPoll
  <1>9. LinkedReads'
    <2>1. ASSUME NEW d \in Events, NEW u \in Tasks, Linked(list, WaitersOf[d], u)
          PROVE  readFrom'[u] = d /\ request'[u] \in Requests /\ "PEND" \in status'[u]
      BY <1>2, <1>3, <1>4, <2>1 DEF EventInv, LinkedReads
    <2> QED BY <1>1, <2>1 DEF LinkedReads
  <1> QED BY <1>2, <1>6, <1>7, <1>8, <1>9 DEF EventInv

(***************************************************************************)
(* LOS_EventWrite: who stays in the list is not satisfied by the new word, *)
(* although only the new bits were looked at for "any"; who leaves it is.  *)
(***************************************************************************)
LEMMA WriteInv ==
    ASSUME EventInv, ~NestedIsr, NEW e \in Events, NEW bits \in SUBSET Bits,
           (\E t \in Tasks : LOS_EventWrite(t, e, bits)) \/ IsrEventWrite(e, bits)
    PROVE  EventInv'
  <1> DEFINE W == Resumes(e, bits)
             h == WaitersOf[e]
  <1>1. /\ ~fault /\ isr = "none" /\ e \in ready
        /\ eventID' = [eventID EXCEPT ![e] = @ \cup bits]
        /\ WakeAll(list[h], W)
        /\ UNCHANGED <<prio, isr, scanTask, scanStatus, needSched, sliceTask, sliceLeft, handle, taskLock>>
        /\ UNCHANGED <<ready, request, readFrom, taken>>
    BY DEF LOS_EventWrite, IsrEventWrite, Written, Calls, InTask, InIsr, Waiters, tickVars,
           scanVars, sliceVars
  <1>2. \/ LOS_Schedule /\ UNCHANGED pc
        \/ /\ UNCHANGED <<runTask, newTask, pendSV>>
           /\ \/ UNCHANGED pc
              \/ \E t \in Tasks : Calls(t) /\ pc' = [pc EXCEPT ![t] = "sched"]
    BY DEF LOS_EventWrite, IsrEventWrite, Goto, cpuVars
  <1>3. /\ TaskTypeOK /\ WordsOK /\ LinkedReads /\ Unsatisfied
        /\ list \in [ListHeads -> Seq(Tasks)]
        /\ \A d \in Events : WaitersOf[d] \in PendLists
        /\ \A d \in Events : WaitersOf[d] = h => d = e
    BY <1>1, LinkByLink, EventAssumption DEF EventInv, WaitInv, TaskInv, TaskTypeOK
  <1>4. \A u : u \in W <=> u \in Tasks /\ Linked(list, h, u) /\ Matches(u, e, bits)
    BY <1>3, InWaiters DEF Resumes
  <1>5. /\ h \in PendLists /\ W \in SUBSET Tasks
        /\ \A u \in W : Linked(list, h, u) /\ "PEND" \in status[u]
    BY <1>3, <1>4 DEF LinkedReads
  <1> HIDE DEF W, h
  <1>6. /\ WaitInv'
        /\ \A u \in Tasks \ W : status'[u] = status[u]
        /\ \A u \in W : status'[u] \cap Marks = {}
        /\ \A g \in PendLists : \A y :
               Linked(list', g, y) <=> Linked(list, g, y) /\ y \notin W
        /\ \A u \in Tasks : Waiting(pc'[u]) <=> Waiting(pc[u])
        /\ ~fault'
    <2>1. WaitInv
      BY DEF EventInv
    <2> QED BY <1>1, <1>2, <1>5, <2>1, WakeAllInv
  <1>7. /\ eventID' \in [Events -> SUBSET Bits]
        /\ \A d \in Events : eventID'[d] = IF d = e THEN eventID[e] \cup bits ELSE eventID[d]
    BY <1>1, <1>3 DEF WordsOK
  <1>8. WordsOK'
    BY <1>1, <1>3, <1>7 DEF WordsOK
  <1>9. WaitersUnsatisfied'
    <2>1. ASSUME NEW d \in Events, NEW u \in Tasks, Linked(list', WaitersOf[d], u)
          PROVE  d \in ready /\ LOS_EventPoll(eventID'[d], request[u]) = {}
      <3>1. Linked(list, WaitersOf[d], u) /\ u \notin W
        BY <1>3, <1>6, <2>1
      <3>2. d \in ready /\ LOS_EventPoll(eventID[d], request[u]) = {} /\ request[u] \in Requests
        BY <1>3, <3>1 DEF Unsatisfied, LinkedReads
      <3>3. CASE d # e
        BY <1>7, <3>2, <3>3
      <3>4. CASE d = e
        <4>1. ~Matches(u, e, bits)
          BY <1>4, <3>1, <3>4 DEF h
        <4>2. LOS_EventPoll(eventID[e] \cup bits, request[u]) = {}
          BY <3>2, <3>4, <4>1 DEF Matches, LOS_EventPoll, Requests
        <4> QED BY <1>7, <3>2, <3>4, <4>2
      <3> QED BY <3>3, <3>4
    <2>2. Unsatisfied'
      BY <1>1, <2>1 DEF Unsatisfied, LOS_EventPoll
    <2>3. TaskTypeOK'
      BY <1>6 DEF WaitInv, TaskInv
    <2> QED BY <2>2, <2>3, LinkByLink, PTL
  <1>10. WokenFindEvents'
    <2>1. ASSUME NEW d \in Events, NEW u \in Woken(d)'
          PROVE  taken[u] \/ LOS_EventPoll(eventID'[d], request[u]) # {}
      <3>1. /\ u \in Tasks /\ Waiting(pc'[u]) /\ readFrom[u] = d
            /\ status'[u] \cap {"PEND", "TIMEOUT"} = {}
        BY <1>1 DEF Woken, Waiting
      <3>2. CASE u \in W
        <4>1. Linked(list, h, u) /\ Matches(u, e, bits)
          BY <1>4, <3>2
        <4>2. readFrom[u] = e /\ request[u] \in Requests
          BY <1>3, <3>1, <4>1 DEF LinkedReads, h
        <4>3. LOS_EventPoll(eventID[e] \cup bits, request[u]) # {}
          <5>1. CASE request[u].any
            BY <4>1, <5>1 DEF Matches, LOS_EventPoll
          <5>2. CASE ~request[u].any
            <6>1. request[u].mask # {} /\ request[u].mask \subseteq eventID[e] \cup bits
              BY <4>1, <4>2, <5>2 DEF Matches, Requests
            <6> QED BY <6>1 DEF LOS_EventPoll
          <5> QED BY <5>1, <5>2
        <4> QED BY <1>7, <3>1, <4>2, <4>3
      <3>3. CASE u \notin W
        <4>1. u \in Woken(d)
          BY <1>6, <3>1, <3>3 DEF Woken, Waiting
        <4>2. taken[u] \/ LOS_EventPoll(eventID[d], request[u]) # {}
          BY <4>1 DEF EventInv, WokenFindEvents
        <4>3. LOS_EventPoll(eventID[d], request[u]) # {} => LOS_EventPoll(eventID[d] \cup bits, request[u]) # {}
          BY <1>3, <3>1, PollFacts DEF WordsOK
        <4> QED BY <1>7, <4>2, <4>3
      <3> QED BY <3>2, <3>3
    <2> QED BY <1>1, <2>1 DEF WokenFindEvents, LOS_EventPoll
  <1>11. LinkedReads'
    <2>1. ASSUME NEW d \in Events, NEW u \in Tasks, Linked(list', WaitersOf[d], u)
          PROVE  readFrom[u] = d /\ request[u] \in Requests /\ "PEND" \in status'[u]
      <3>1. Linked(list, WaitersOf[d], u) /\ u \notin W
        BY <1>3, <1>6, <2>1
      <3> QED BY <1>3, <1>6, <3>1 DEF LinkedReads
    <2> QED BY <1>1, <2>1 DEF LinkedReads
  <1> QED BY <1>6, <1>8, <1>9, <1>10, <1>11 DEF EventInv

-----------------------------------------------------------------------------
LEMMA EventInitInv ==
    ASSUME EventInit
    PROVE  EventInv
  <1>1. TaskInit /\ WaitInv
    BY InitWaits DEF EventInit
  <1>2. list = InitList /\ pc = [t \in Tasks |-> "user"]
    BY <1>1 DEF TaskInit
  <1>3. WordsOK
    BY DEF EventInit, WordsOK
  <1>4. \A e \in Events : list[WaitersOf[e]] = <<>>
    BY <1>2, EventAssumption, TaskAssumption DEF InitList, ListHeads
  <1>5. \A e \in Events, t \in Tasks : ~Linked(list, WaitersOf[e], t)
    BY <1>4 DEF Linked, Contains
  <1>6. WaitersUnsatisfied
    BY <1>1, <1>5, LinkByLink DEF Unsatisfied, WaitInv, TaskInv
  <1>7. WokenFindEvents
    BY <1>2 DEF WokenFindEvents, Woken
  <1> QED BY <1>1, <1>3, <1>5, <1>6, <1>7 DEF EventInv, LinkedReads

LEMMA EventStep ==
    ASSUME EventInv, ~NestedIsr, [EventNext]_allVars
    PROVE  EventInv'
  <1>0. EventUsers \subseteq Tasks /\ EventCreators \subseteq Tasks
    BY EventAssumption
  <1>1. CASE OtherCall
    BY <1>1, OtherCallInv
  <1>2. ASSUME NEW t \in EventCreators, NEW e \in Events, LOS_EventInit(t, e) \/ LOS_EventDestory(t, e)
        PROVE  EventInv'
    BY <1>2, InitialiseInv
  <1>3. ASSUME NEW t \in EventUsers, NEW e \in Events, EventReadNoWait(t, e) PROVE EventInv'
    <2>1. PICK bits : Cleared(e, bits, t)
      BY <1>3 DEF EventReadNoWait, Polled
    <2>2. ~Waiting(pc[t]) /\ UNCHANGED <<taskVars, ready, request, readFrom>>
      BY <1>3 DEF EventReadNoWait, Calls, Waiting
    <2> QED BY <2>1, <2>2, ClearInv
  <1>4. ASSUME NEW t \in EventUsers, NEW e \in Events, NEW r \in ReadsOf[t], NEW n \in TimeoutsOf[t],
               LOS_EventRead(t, e, r, n)
        PROVE  EventInv'
    <2>1. t \in Tasks /\ r \in Requests /\ n \in Delays \cup {Forever}
      BY <1>0, EventAssumption
    <2> QED BY <1>4, <2>1, ReadWaitsInv
  <1>5. ASSUME NEW t \in EventUsers, NEW e \in Events, NEW bits \in SUBSET Bits, LOS_EventWrite(t, e, bits)
        PROVE  EventInv'
    BY <1>0, <1>5, WriteInv
  <1>6. ASSUME NEW t \in EventUsers, NEW e \in Events, NEW bits \in SUBSET Bits, LOS_EventClear(t, e, bits)
        PROVE  EventInv'
    <2>1. /\ Cleared(e, Bits \ bits, NoTask) /\ NoTask \notin Tasks
          /\ UNCHANGED <<taskVars, ready, request, readFrom>>
      BY <1>6, TaskAssumption DEF LOS_EventClear
    <2> QED BY <2>1, ClearInv
  <1>7. ASSUME NEW t \in EventUsers, EventReadReturns(t) PROVE EventInv'
    BY <1>0, <1>7, ReturnsInv
  <1>8. ASSUME NEW e \in Events, NEW bits \in IsrWrites, IsrEventWrite(e, bits) PROVE EventInv'
    <2>1. bits \in SUBSET Bits
      BY EventAssumption
    <2> QED BY <1>8, <2>1, WriteInv
  <1>9. CASE UNCHANGED allVars
    <2>1. /\ UNCHANGED <<taskVars, request, readFrom>> /\ UNCHANGED <<eventID, ready, taken>>
      BY <1>9 DEF allVars, eventVars
    <2>2. WordsOK' /\ Unsatisfied
      BY <2>1, LinkByLink DEF EventInv, WordsOK, WaitInv, TaskInv
    <2>3. \A e \in Events, t \in Tasks : Linked(list, WaitersOf[e], t) =>
              e \in ready' /\ LOS_EventPoll(eventID'[e], request[t]) = {}
      BY <2>1, <2>2 DEF Unsatisfied
    <2>4. \A e \in Events : \A t \in Woken(e) : StillFinds(e, t)
      BY <2>1 DEF EventInv, WokenFindEvents, StillFinds
    <2> QED BY <2>1, <2>2, <2>3, <2>4, QuietCall
  <1> QED BY <1>1, <1>2, <1>3, <1>4, <1>5, <1>6, <1>7, <1>8, <1>9 DEF EventNext, EventCall

-----------------------------------------------------------------------------
(***************************************************************************)
(* The inductive invariant of los_event.c over the scheduler: words, wait  *)
(* lists, requests and the tasks on their way out of LOS_EventRead fit     *)
(* together whatever calls, interrupts, time-outs and deletions do.        *)
(***************************************************************************)
THEOREM EventInvariant ==
    ASSUME ~NestedIsr
    PROVE  EventSpec => []EventInv
  <1>1. EventInit => EventInv
    BY EventInitInv
  <1>2. EventInv /\ [EventNext]_allVars => EventInv'
    BY EventStep
  <1> QED BY <1>1, <1>2, PTL DEF EventSpec

(***************************************************************************)
(* Nobody waits for events that are there: LOS_EventWrite may show the     *)
(* waiters for "any" the new bits only, because LOS_EventRead, LOS_EventPoll*)
(* and LOS_EventClear never leave a waiter satisfied by the old ones.      *)
(***************************************************************************)
THEOREM NobodyWaitsSatisfied ==
    ASSUME ~NestedIsr
    PROVE  EventSpec => []WaitersUnsatisfied
  <1>1. EventInv => WaitersUnsatisfied
    BY EventInvImplies
  <1> QED BY <1>1, EventInvariant, PTL

(***************************************************************************)
(* LOS_EventRead returns 0 after a wake-up only if others took the events  *)
(* between the write and the second poll, however many waiters one write   *)
(* wakes and however late they run.                                        *)
(***************************************************************************)
THEOREM WokenAlwaysFind ==
    ASSUME ~NestedIsr
    PROVE  EventSpec => []WokenFindEvents
  <1>1. EventInv => WokenFindEvents
    BY EventInvImplies
  <1> QED BY <1>1, EventInvariant, PTL

=============================================================================
