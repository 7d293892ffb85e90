---------------------------- MODULE LosSemProofs ----------------------------
(***************************************************************************)
(* Proofs about semaphores: types, that no token is lost or made up, and   *)
(* that nobody waits for a semaphore with tokens.  Device interrupts do not*)
(* preempt the tick handler here; handlers may suspend any task.           *)
(***************************************************************************)
EXTENDS LosSem, LosTaskProofs, FiniteSetTheorems

(***************************************************************************)
(* What is conserved is so in every block, in use or not, faults or not: a *)
(* block that is created again inherits the carriers of the deleted one.   *)
(***************************************************************************)
AllTokens == tokens = [s \in Sems |-> semCount[s] + Cardinality(Carriers(s))]

BlocksOK ==
    /\ semCount \in [Sems -> 0 .. COUNTING_MAX]
    /\ semMax \in [Sems -> {0, BINARY_MAX, COUNTING_MAX}]
    /\ \A s \in Sems : InUse(s) => semCount[s] <= semMax[s]

(***************************************************************************)
(* The free blocks: none twice, none of them in use.                       *)
(***************************************************************************)
UnusedOK ==
    /\ unusedSem \in Seq(Sems)
    /\ NoRepeat(unusedSem)
    /\ \A s \in Sems : Contains(unusedSem, s) <=> ~InUse(s)

PendedOK ==
    /\ pended \in [Tasks -> Sems \cup {NoTask}]
    /\ \A t \in Tasks : Waiting(pc[t]) => pended[t] \in Sems

(***************************************************************************)
(* Who is in the wait list of a semaphore waits for that one.              *)
(***************************************************************************)
LinkedWaits ==
    \A s \in Sems, t \in Tasks :
        Linked(list, WaitersOf[s], t) => pended[t] = s /\ "PEND" \in status[t]

SemInv ==
    /\ WaitInv
    /\ BlocksOK
    /\ UnusedOK
    /\ PendedOK
    /\ AllTokens
    /\ WaitersFindNothing
    /\ fault \/ LinkedWaits

-----------------------------------------------------------------------------
LEMMA TaskSets ==
    \A S \in SUBSET Tasks : IsFiniteSet(S) /\ Cardinality(S) \in Nat
  <1>1. IsFiniteSet(Tasks)
    BY TaskAssumption
  <1> QED BY <1>1, FS_Subset, FS_CardinalityType

(***************************************************************************)
(* A wait list with a first task, and one with none.                       *)
(***************************************************************************)
LEMMA WaitLists ==
    ASSUME NEW l \in [ListHeads -> Seq(Tasks)], NEW s \in Sems
    PROVE  /\ l[WaitersOf[s]] # <<>> <=> \E y \in Tasks : Linked(l, WaitersOf[s], y)
           /\ l[WaitersOf[s]] # <<>> =>
                  /\ Head(l[WaitersOf[s]]) \in Tasks
                  /\ Linked(l, WaitersOf[s], Head(l[WaitersOf[s]]))
  <1> DEFINE h == WaitersOf[s]
  <1>1. h \in PendLists /\ h \in ListHeads
    BY SemAssumption DEF ListHeads
  <1> HIDE DEF h
  <1>2. l[h] = <<>> <=> \A y \in Tasks : ~Linked(l, h, y)
    BY <1>1, EmptyLinksNone
  <1>3. l[h] # <<>> => l[h][1] \in Tasks /\ Linked(l, h, l[h][1])
    BY <1>1, EmptyLinksNone
  <1>4. Head(l[h]) = l[h][1]
    OBVIOUS
  <1> QED BY <1>2, <1>3, <1>4 DEF h

(***************************************************************************)
(* The runs' invariants from the inductive one.                            *)
(***************************************************************************)
LEMMA SemInvImplies ==
    ASSUME SemInv
    PROVE  SemTypeOK /\ TokensConserved /\ WaitersFindNothing
  <1>1. \A s \in Sems : Carriers(s) \in SUBSET Tasks
    BY DEF Carriers
  <1>2. \A s \in Sems : Cardinality(Carriers(s)) \in Nat /\ semCount[s] \in Nat
    BY <1>1, TaskSets, SemAssumption DEF SemInv, BlocksOK
  <1>3. tokens \in [Sems -> Nat]
    BY <1>2 DEF SemInv, AllTokens
  <1>4. IsInjective(unusedSem) /\ ToSet(unusedSem) = {s \in Sems : ~InUse(s)}
    BY FreeListFacts DEF SemInv, UnusedOK
  <1> QED BY <1>3, <1>4 DEF SemInv, WaitInv, TaskInv, SemTypeOK, BlocksOK, UnusedOK, PendedOK,
                      AllTokens, TokensConserved

-----------------------------------------------------------------------------
(***************************************************************************)
(* What the steps share.  The list facts a step has to give for the wait   *)
(* lists, and the counts it has to give for each semaphore.                *)
(***************************************************************************)
LEMMA ListsKeep ==
    ASSUME SemInv, TaskTypeOK', UNCHANGED pended,
           NEW x, \A u \in Tasks \ {x} : status'[u] = status[u],
           \A g \in PendLists : \A y :
               Linked(list', g, y) => Linked(list, g, y) /\ y # x
    PROVE  /\ \A s \in Sems : Waiters(s)' # <<>> => Waiters(s) # <<>>
           /\ ~fault => LinkedWaits'
  <1>1. list \in [ListHeads -> Seq(Tasks)] /\ list' \in [ListHeads -> Seq(Tasks)]
    BY DEF SemInv, WaitInv, TaskInv, TaskTypeOK
  <1>2. \A s \in Sems : WaitersOf[s] \in PendLists
    BY SemAssumption
  <1>3. ASSUME NEW s \in Sems, Waiters(s)' # <<>> PROVE Waiters(s) # <<>>
    <2>1. PICK y \in Tasks : Linked(list', WaitersOf[s], y)
      BY <1>1, <1>3, WaitLists DEF Waiters
    <2>2. Linked(list, WaitersOf[s], y)
      BY <1>2, <2>1
    <2> QED BY <1>1, <2>2, WaitLists DEF Waiters
  <1>4. ASSUME ~fault PROVE LinkedWaits'
    BY <1>2, <1>4 DEF SemInv, LinkedWaits
  <1> QED BY <1>3, <1>4

(***************************************************************************)
(* A step of the scheduler, or of any other caller: a semaphore has the    *)
(* same carriers after it, but for the tasks that it deletes.              *)
(***************************************************************************)
LEMMA CarriersGo ==
    ASSUME SemInv, ~fault, WaitsEnd, NEW s \in Sems,
           NEW gone, gone = {t \in Tasks : "UNUSED" \in status'[t]},
           pended' = [t \in Tasks |-> IF t \in gone THEN NoTask ELSE pended[t]]
    PROVE  Carriers(s)' = Carriers(s) \ gone
  <1>1. \A t \in Tasks : "UNUSED" \in status[t] => ~Waiting(pc[t])
    BY DEF SemInv, WaitInv, WaitersOK
  <1>2. ASSUME NEW t \in Tasks
        PROVE  t \in Carriers(s)' <=> t \in Carriers(s) \ gone
    <2>1. /\ t \in Carriers(s)' <=> /\ Waiting(pc'[t]) /\ pended'[t] = s
                                    /\ status'[t] \cap {"PEND", "TIMEOUT"} = {}
          /\ t \in Carriers(s) <=> /\ Waiting(pc[t]) /\ pended[t] = s
                                   /\ status[t] \cap {"PEND", "TIMEOUT"} = {}
      BY DEF Carriers, Waiting
    <2>2. t \notin gone => pended'[t] = pended[t]
      OBVIOUS
    <2>3. CASE Unaffected(t)
      BY <1>1, <2>1, <2>2, <2>3 DEF Unaffected, Marks
    <2>4. CASE TimesOut(t)
      BY <2>1, <2>4 DEF TimesOut
    <2>5. CASE Dies(t)
      BY <2>1, <2>5 DEF Dies
    <2>6. CASE Born(t)
      BY <1>1, <2>1, <2>6 DEF Born
    <2> QED BY <2>3, <2>4, <2>5, <2>6 DEF WaitsEnd
  <1>3. Carriers(s) \subseteq Tasks /\ Carriers(s)' \subseteq Tasks
    BY DEF Carriers
  <1> QED BY <1>2, <1>3

LEMMA OtherCallInv ==
    ASSUME SemInv, ~NestedIsr, OtherCall
    PROVE  SemInv'
  <1> DEFINE gone == {t \in Tasks : "UNUSED" \in status'[t]}
  <1>1. /\ TaskNext
        /\ pended' = [t \in Tasks |-> IF t \in gone THEN NoTask ELSE pended[t]]
        /\ tokens' = [s \in Sems |-> tokens[s] - Cardinality(Carriers(s) \cap gone)]
        /\ UNCHANGED <<semCount, semMax, unusedSem>>
    BY DEF OtherCall
  <1>2. WaitInv' /\ WaitsEnd /\ ~fault
    <2>1. WaitInv' /\ WaitsEnd
      BY <1>1, WaitStep DEF SemInv
    <2>2. ~fault
      BY <1>1, FaultedStops
    <2> QED BY <2>1, <2>2
  <1>3. \A t \in Tasks : "UNUSED" \in status[t] => ~Waiting(pc[t])
    BY <1>2 DEF SemInv, WaitInv, WaitersOK
  <1>4. list \in [ListHeads -> Seq(Tasks)] /\ list' \in [ListHeads -> Seq(Tasks)]
    BY <1>2 DEF SemInv, WaitInv, TaskInv, TaskTypeOK
  <1>5. \A s \in Sems : WaitersOf[s] \in PendLists
    BY SemAssumption
  <1>6. BlocksOK' /\ UnusedOK'
    BY <1>1 DEF SemInv, BlocksOK, UnusedOK, InUse
  <1>7. PendedOK'
    <2>1. pended' \in [Tasks -> Sems \cup {NoTask}]
      BY <1>1 DEF SemInv, PendedOK
    <2>2. ASSUME NEW t \in Tasks, Waiting(pc'[t]) PROVE pended'[t] \in Sems
      <3>1. Unaffected(t) \/ TimesOut(t)
        BY <1>2, <2>2 DEF WaitsEnd, Dies, Born
      <3>2. Waiting(pc[t]) /\ t \notin gone
        BY <1>3, <2>2, <3>1 DEF Unaffected, TimesOut, Marks
      <3> QED BY <1>1, <3>2 DEF SemInv, PendedOK
    <2> QED BY <2>1, <2>2 DEF PendedOK
  <1>8. AllTokens'
    <2>1. ASSUME NEW s \in Sems
          PROVE  tokens'[s] = semCount'[s] + Cardinality(Carriers(s)')
      <3>1. Carriers(s)' = Carriers(s) \ gone
        BY <1>1, <1>2, CarriersGo
      <3>2. Carriers(s) \in SUBSET Tasks
        BY DEF Carriers
      <3>3. IsFiniteSet(Carriers(s)) /\ Cardinality(Carriers(s)) \in Nat
        BY <3>2, TaskSets
      <3>4. Cardinality(Carriers(s) \ gone) = Cardinality(Carriers(s)) - Cardinality(Carriers(s) \cap gone)
        BY <3>3, FS_Difference
      <3>5. Cardinality(Carriers(s) \cap gone) \in Nat
        BY <3>2, TaskSets
      <3>6. tokens'[s] = tokens[s] - Cardinality(Carriers(s) \cap gone)
        BY <1>1
      <3>7. tokens[s] = semCount[s] + Cardinality(Carriers(s)) /\ semCount[s] \in Nat
        BY SemAssumption DEF SemInv, AllTokens, BlocksOK
      <3> QED BY <1>1, <3>1, <3>3, <3>4, <3>5, <3>6, <3>7
    <2>2. tokens' = [s \in Sems |-> tokens'[s]]
      BY <1>1
    <2> QED BY <2>1, <2>2 DEF AllTokens
  <1>9. \A s \in Sems : Waiters(s)' # <<>> => Waiters(s) # <<>>
    <2>1. ASSUME NEW s \in Sems, Waiters(s)' # <<>> PROVE Waiters(s) # <<>>
      <3>1. PICK y \in Tasks : Linked(list', WaitersOf[s], y)
        BY <1>4, <2>1, WaitLists DEF Waiters
      <3>2. Linked(list, WaitersOf[s], y)
        BY <1>2, <1>5, <3>1 DEF WaitsEnd, Shrinks
      <3> QED BY <1>4, <3>2, WaitLists DEF Waiters
    <2> QED BY <2>1
  <1>10. WaitersFindNothing'
    BY <1>1, <1>9 DEF SemInv, WaitersFindNothing, InUse
  <1>11. fault' \/ LinkedWaits'
    <2>1. ASSUME ~fault', NEW s \in Sems, NEW t \in Tasks, Linked(list', WaitersOf[s], t)
          PROVE  pended'[t] = s /\ "PEND" \in status'[t]
      <3>1. pended[t] = s /\ "PEND" \in status[t]
        BY <1>2, <1>5, <2>1 DEF WaitsEnd, Shrinks, SemInv, LinkedWaits
      <3>2. Pending(t)'
        BY <1>2, <1>5, <2>1 DEF WaitInv, TaskInv, Healthy, QueuesOK, InPlace, Queues, Pending
      <3>3. Unaffected(t)
        BY <1>2, <3>2 DEF WaitsEnd, TimesOut, Dies, Born, Pending, WaitFlags
      <3>4. "UNUSED" \notin status'[t]
        BY <1>2, <2>1, <3>2 DEF WaitInv, WaitersOK
      <3> QED BY <1>1, <3>1, <3>3, <3>4 DEF Unaffected, Marks
    <2> QED BY <2>1 DEF LinkedWaits
  <1> QED BY <1>2, <1>6, <1>7, <1>8, <1>10, <1>11 DEF SemInv

-----------------------------------------------------------------------------
(***************************************************************************)
(* Calls that leave the scheduler alone change only counts and blocks.     *)
(***************************************************************************)
LEMMA QuietCall ==
    ASSUME SemInv, UNCHANGED <<taskVars, pended>>, BlocksOK', UnusedOK', WaitersFindNothing',
           tokens' \in [Sems -> Int],
           \A s \in Sems : tokens'[s] = semCount'[s] + Cardinality(Carriers(s))
    PROVE  SemInv'
  <1>1. UNCHANGED <<list, status, pc, fault>>
    BY DEF taskVars, listVars, callVars
  <1>2. WaitInv'
    BY WaitStutter DEF SemInv
  <1>3. PendedOK' /\ (fault' \/ LinkedWaits')
    BY <1>1 DEF SemInv, PendedOK, LinkedWaits
  <1>4. \A s \in Sems : Carriers(s)' = Carriers(s)
    BY <1>1 DEF Carriers
  <1>5. AllTokens'
    <2>1. tokens' = [s \in Sems |-> tokens'[s]]
      OBVIOUS
    <2> QED BY <1>4, <2>1 DEF AllTokens
  <1> QED BY <1>2, <1>3, <1>5 DEF SemInv

LEMMA Counted ==
    ASSUME SemInv
    PROVE  /\ tokens \in [Sems -> Int]
           /\ \A s \in Sems : /\ tokens[s] = semCount[s] + Cardinality(Carriers(s))
                              /\ semCount[s] \in 0 .. COUNTING_MAX
                              /\ Cardinality(Carriers(s)) \in Nat
                              /\ semMax[s] \in 0 .. COUNTING_MAX
                              /\ InUse(s) => semCount[s] <= semMax[s]
                              /\ Waiters(s) # <<>> => InUse(s) /\ semCount[s] = 0
           /\ COUNTING_MAX \in Nat /\ COUNTING_MAX >= BINARY_MAX
  <1>1. \A s \in Sems : Carriers(s) \in SUBSET Tasks
    BY DEF Carriers
  <1>2. \A s \in Sems : Cardinality(Carriers(s)) \in Nat
    BY <1>1, TaskSets
  <1>3. COUNTING_MAX \in Nat /\ COUNTING_MAX >= BINARY_MAX
    BY SemAssumption DEF BINARY_MAX
  <1>4. \A s \in Sems : /\ tokens[s] = semCount[s] + Cardinality(Carriers(s))
                        /\ semCount[s] \in 0 .. COUNTING_MAX
                        /\ InUse(s) => semCount[s] <= semMax[s]
                        /\ Waiters(s) # <<>> => InUse(s) /\ semCount[s] = 0
    BY DEF SemInv, AllTokens, BlocksOK, WaitersFindNothing
  <1>5. tokens \in [Sems -> Int]
    BY <1>2, <1>3, <1>4 DEF SemInv, AllTokens
  <1>6. \A s \in Sems : semMax[s] \in 0 .. COUNTING_MAX
    BY <1>3 DEF SemInv, BlocksOK, BINARY_MAX
  <1> QED BY <1>2, <1>3, <1>4, <1>5, <1>6

(***************************************************************************)
(* LOS_SemPend that takes a token at once, of a task or a handler.         *)
(***************************************************************************)
LEMMA TakenInv ==
    ASSUME SemInv, NEW s \in Sems, semCount[s] > 0,
           semCount' = [semCount EXCEPT ![s] = @ - 1],
           tokens' = [tokens EXCEPT ![s] = @ - 1],
           UNCHANGED <<taskVars, semMax, unusedSem, pended>>
    PROVE  SemInv'
  <1>1. /\ semCount'[s] = semCount[s] - 1 /\ semCount' \in [Sems -> 0 .. COUNTING_MAX]
        /\ tokens'[s] = tokens[s] - 1 /\ tokens' \in [Sems -> Int]
        /\ \A r \in Sems \ {s} : semCount'[r] = semCount[r] /\ tokens'[r] = tokens[r]
    BY Counted DEF SemInv, BlocksOK
  <1>2. UNCHANGED list
    BY DEF taskVars, listVars
  <1>3. BlocksOK'
    <2>1. \A r \in Sems : InUse(r)' => semCount'[r] <= semMax'[r]
      BY <1>1, Counted, SMTT(60) DEF InUse
    <2> QED BY <1>1, <2>1 DEF SemInv, BlocksOK
  <1>4. UnusedOK'
    BY DEF SemInv, UnusedOK, InUse
  <1>5. WaitersFindNothing'
    BY <1>1, <1>2, Counted DEF WaitersFindNothing, Waiters, InUse
  <1>6. \A r \in Sems : tokens'[r] = semCount'[r] + Cardinality(Carriers(r))
    BY <1>1, Counted
  <1>7. UNCHANGED <<taskVars, pended>>
    OBVIOUS
  <1> QED BY <1>1, <1>3, <1>4, <1>5, <1>6, <1>7, QuietCall

LEMMA PostedUnheardInv ==
    ASSUME SemInv, NEW s \in Sems, InUse(s), ~Full(s), Waiters(s) = <<>>,
           semCount' = [semCount EXCEPT ![s] = @ + 1],
           tokens' = [tokens EXCEPT ![s] = @ + 1],
           UNCHANGED <<taskVars, semMax, unusedSem, pended>>
    PROVE  SemInv'
  <1>0. /\ semCount[s] < semMax[s] /\ semMax[s] \in Nat /\ semMax[s] <= COUNTING_MAX
        /\ semMax \in [Sems -> {0, BINARY_MAX, COUNTING_MAX}]
    <2>1. /\ semCount[s] <= semMax[s] /\ semCount[s] # semMax[s]
          /\ semCount[s] \in 0 .. COUNTING_MAX /\ semMax[s] \in 0 .. COUNTING_MAX
          /\ COUNTING_MAX \in Nat
      BY Counted DEF Full
    <2>2. semMax \in [Sems -> {0, BINARY_MAX, COUNTING_MAX}]
      BY DEF SemInv, BlocksOK
    <2> QED BY <2>1, <2>2
  <1>1. /\ semCount'[s] = semCount[s] + 1 /\ semCount' \in [Sems -> 0 .. COUNTING_MAX]
        /\ tokens'[s] = tokens[s] + 1 /\ tokens' \in [Sems -> Int]
        /\ \A r \in Sems \ {s} : semCount'[r] = semCount[r] /\ tokens'[r] = tokens[r]
    BY <1>0, Counted DEF SemInv, BlocksOK
  <1>2. UNCHANGED list
    BY DEF taskVars, listVars
  <1>3. BlocksOK'
    <2>1. \A r \in Sems : InUse(r)' => semCount'[r] <= semMax'[r]
      BY <1>0, <1>1, Counted DEF InUse
    <2> QED BY <1>0, <1>1, <2>1 DEF BlocksOK
  <1>4. UnusedOK'
    BY DEF SemInv, UnusedOK, InUse
  <1>5. WaitersFindNothing'
    BY <1>1, <1>2, Counted DEF WaitersFindNothing, Waiters, InUse
  <1>6. \A r \in Sems : tokens'[r] = semCount'[r] + Cardinality(Carriers(r))
    BY <1>1, Counted
  <1>7. UNCHANGED <<taskVars, pended>>
    OBVIOUS
  <1> QED BY <1>1, <1>3, <1>4, <1>5, <1>6, <1>7, QuietCall

(***************************************************************************)
(* Creation takes the first free block, which nobody waits for; deletion   *)
(* gives back one that was in use and that nobody waits for.               *)
(***************************************************************************)
LEMMA CreateInv ==
    ASSUME SemInv, NEW t \in Tasks, NEW n \in 0 .. COUNTING_MAX,
           NEW max \in {BINARY_MAX, COUNTING_MAX}, osSemCreate(t, n, max)
    PROVE  SemInv'
  <1> DEFINE s == Head(unusedSem)
  <1>1. /\ unusedSem \in Seq(Sems) /\ unusedSem # <<>> /\ NoRepeat(unusedSem)
        /\ s \in Sems /\ n <= max
        /\ semCount' = [semCount EXCEPT ![s] = n]
        /\ semMax' = [semMax EXCEPT ![s] = max]
        /\ tokens' = [tokens EXCEPT ![s] = n + Cardinality(Carriers(s))]
        /\ unusedSem' = Tail(unusedSem)
        /\ UNCHANGED <<taskVars, pended>>
    BY DEF SemInv, UnusedOK, osSemCreate
  <1>0. /\ Contains(unusedSem, s)
        /\ Tail(unusedSem) \in Seq(Sems) /\ NoRepeat(Tail(unusedSem))
        /\ \A y : Contains(Tail(unusedSem), y) <=> Contains(unusedSem, y) /\ y # s
    BY <1>1, PopFacts
  <1> HIDE DEF s
  <1>2. /\ semCount'[s] = n /\ semCount' \in [Sems -> 0 .. COUNTING_MAX]
        /\ tokens'[s] = n + Cardinality(Carriers(s)) /\ tokens' \in [Sems -> Int]
        /\ semMax'[s] = max /\ semMax' \in [Sems -> {0, BINARY_MAX, COUNTING_MAX}]
        /\ \A r \in Sems \ {s} : /\ semCount'[r] = semCount[r] /\ tokens'[r] = tokens[r]
                                 /\ semMax'[r] = semMax[r]
    BY <1>1, Counted, SMTT(60) DEF SemInv, BlocksOK
  <1>3. UNCHANGED list
    BY <1>1 DEF taskVars, listVars
  <1>4. BlocksOK'
    <2>1. \A r \in Sems : InUse(r)' => semCount'[r] <= semMax'[r]
      BY <1>1, <1>2, Counted DEF InUse
    <2> QED BY <1>2, <2>1 DEF BlocksOK
  <1>5. UnusedOK'
    <2>1. ASSUME NEW r \in Sems PROVE Contains(unusedSem', r) <=> ~(semMax'[r] > 0)
      <3>1. CASE r = s
        <4>1. semMax'[s] = max /\ max \in {BINARY_MAX, COUNTING_MAX}
          BY <1>2
        <4>2. semMax'[s] > 0
          BY <4>1, SemAssumption DEF BINARY_MAX
        <4> QED BY <1>0, <1>1, <3>1, <4>2
      <3>2. CASE r # s
        BY <1>0, <1>1, <1>2, <3>2 DEF SemInv, UnusedOK, InUse
      <3> QED BY <3>1, <3>2
    <2> QED BY <1>0, <1>1, <2>1 DEF UnusedOK, InUse
  <1>6. ~InUse(s)
    BY <1>0, <1>1 DEF SemInv, UnusedOK
  <1>7. WaitersFindNothing'
    BY <1>2, <1>3, <1>6, Counted DEF WaitersFindNothing, Waiters, InUse
  <1>8. \A r \in Sems : tokens'[r] = semCount'[r] + Cardinality(Carriers(r))
    BY <1>2, Counted
  <1> QED BY <1>1, <1>2, <1>4, <1>5, <1>7, <1>8, QuietCall

LEMMA DeleteInv ==
    ASSUME SemInv, NEW t \in Tasks, NEW s \in Sems, LOS_SemDelete(t, s)
    PROVE  SemInv'
  <1>1. /\ InUse(s) /\ Waiters(s) = <<>>
        /\ semMax' = [semMax EXCEPT ![s] = 0]
        /\ unusedSem' = <<s>> \o unusedSem
        /\ UNCHANGED <<taskVars, semCount, pended, tokens>>
        /\ unusedSem \in Seq(Sems) /\ NoRepeat(unusedSem) /\ ~Contains(unusedSem, s)
    BY DEF LOS_SemDelete, SemInv, UnusedOK
  <1>2. /\ semMax'[s] = 0 /\ semMax' \in [Sems -> {0, BINARY_MAX, COUNTING_MAX}]
        /\ \A r \in Sems \ {s} : semMax'[r] = semMax[r]
    BY <1>1 DEF SemInv, BlocksOK
  <1>3. UNCHANGED list
    BY <1>1 DEF taskVars, listVars
  <1>4. ~InUse(s)'
    BY <1>2 DEF InUse
  <1>5. BlocksOK'
    <2>1. \A r \in Sems : InUse(r)' => semCount'[r] <= semMax'[r]
      BY <1>1, <1>2, <1>4, Counted DEF InUse
    <2> QED BY <1>1, <1>2, <2>1 DEF SemInv, BlocksOK
  <1>6. UnusedOK'
    <2>1. /\ unusedSem' \in Seq(Sems) /\ NoRepeat(unusedSem')
          /\ \A y : Contains(unusedSem', y) <=> Contains(unusedSem, y) \/ y = s
      BY <1>1, PushFacts
    <2>2. \A r \in Sems : Contains(unusedSem', r) <=> ~(semMax'[r] > 0)
      BY <1>1, <1>2, <2>1 DEF SemInv, UnusedOK, InUse
    <2> QED BY <2>1, <2>2 DEF UnusedOK, InUse
  <1>7. WaitersFindNothing'
    BY <1>1, <1>2, <1>3, Counted DEF WaitersFindNothing, Waiters, InUse
  <1>8. /\ \A r \in Sems : tokens'[r] = semCount'[r] + Cardinality(Carriers(r))
        /\ tokens' \in [Sems -> Int]
    BY <1>1, Counted
  <1> QED BY <1>1, <1>5, <1>6, <1>7, <1>8, QuietCall

-----------------------------------------------------------------------------
(***************************************************************************)
(* LOS_SemPend that waits: the task joins the list of a semaphore without  *)
(* tokens, and carries none.                                               *)
(***************************************************************************)
LEMMA PendWaitsInv ==
    ASSUME SemInv, NEW t \in Tasks, NEW s \in Sems, NEW n \in Delays \cup {Forever},
           SemPendWaits(t, s, n)
    PROVE  SemInv'
  <1>1. /\ Calls(t) /\ InUse(s) /\ semCount[s] = 0 /\ taskLock = 0
        /\ osTaskWait(Queues, t, WaitersOf[s], "PEND", n)
        /\ pended' = [pended EXCEPT ![t] = s]
        /\ pc' = [pc EXCEPT ![t] = "wait"]
        /\ UNCHANGED <<prio, runTask, newTask, pendSV, taskLock, isr, scanTask, scanStatus,
                       needSched, sliceTask, sliceLeft, handle>>
        /\ UNCHANGED <<semCount, semMax, unusedSem, tokens>>
    BY DEF SemPendWaits, Goto, cpuVars, tickVars, scanVars, sliceVars
  <1>2. /\ ~fault /\ pc[t] = "user"
        /\ QueuesOK(Queues, status, prio') /\ prio' \in [TCBs -> Prio] /\ prio'[t] = prio[t]
        /\ pc \in [Tasks -> {"user", "sched", "create", "wait", "woken"}]
        /\ list \in [ListHeads -> Seq(Tasks)] /\ pended \in [Tasks -> Sems \cup {NoTask}]
    BY <1>1 DEF Calls, InTask, SemInv, WaitInv, TaskInv, TaskTypeOK, Healthy, PendedOK
  <1>3. WaitersOf[s] \in PendLists /\ "PEND" \in WaitFlags
    BY SemAssumption DEF WaitFlags
  <1>4. /\ WaitInv'
        /\ \A u \in Tasks \ {t} : status'[u] = status[u]
        /\ "PEND" \in status'[t]
        /\ \A g \in PendLists : \A y :
               Linked(list', g, y) <=> (Linked(Queues.list, g, y) /\ y # t) \/ (g = WaitersOf[s] /\ y = t)
    <2> DEFINE h == WaitersOf[s]
               f == "PEND"
    <2>1. h \in PendLists /\ f \in WaitFlags /\ osTaskWait(Queues, t, h, f, n)
      BY <1>1, <1>3
    <2> HIDE DEF h, f
    <2>2. /\ WaitInv'
          /\ \A u \in Tasks \ {t} : status'[u] = status[u]
          /\ f \in status'[t]
          /\ \A g \in PendLists : \A y :
                 Linked(list', g, y) <=> (Linked(Queues.list, g, y) /\ y # t) \/ (g = h /\ y = t)
      BY <1>1, <1>2, <2>1, WaitEffect DEF SemInv
    <2> QED BY <2>2 DEF h, f
  <1>5. Queues.list = list
    BY DEF Queues
  <1>6. list' \in [ListHeads -> Seq(Tasks)]
    BY <1>4 DEF WaitInv, TaskInv, TaskTypeOK
  <1>7. /\ pc'[t] = "wait" /\ pended'[t] = s
        /\ \A u \in Tasks \ {t} : pc'[u] = pc[u] /\ pended'[u] = pended[u]
        /\ pended' \in [Tasks -> Sems \cup {NoTask}]
    BY <1>1, <1>2
  <1>8. BlocksOK' /\ UnusedOK'
    BY <1>1 DEF SemInv, BlocksOK, UnusedOK, InUse
  <1>9. PendedOK'
    BY <1>7 DEF SemInv, PendedOK
  <1>10. AllTokens'
    <2>1. ASSUME NEW r \in Sems PROVE Carriers(r)' = Carriers(r)
      <3>1. t \notin Carriers(r) /\ t \notin Carriers(r)'
        BY <1>2, <1>4 DEF Carriers
      <3>2. \A u \in Tasks \ {t} : u \in Carriers(r)' <=> u \in Carriers(r)
        BY <1>4, <1>7 DEF Carriers
      <3>3. Carriers(r) \subseteq Tasks /\ Carriers(r)' \subseteq Tasks
        BY DEF Carriers
      <3> QED BY <3>1, <3>2, <3>3
    <2> QED BY <1>1, <2>1 DEF SemInv, AllTokens
  <1>11. WaitersFindNothing'
    <2>1. ASSUME NEW r \in Sems, Waiters(r)' # <<>> PROVE InUse(r) /\ semCount[r] = 0
      <3>1. PICK y \in Tasks : Linked(list', WaitersOf[r], y)
        BY <1>6, <2>1, WaitLists DEF Waiters
      <3>2. Linked(list, WaitersOf[r], y) \/ r = s
        BY <1>4, <1>5, <3>1, SemAssumption
      <3>3. Linked(list, WaitersOf[r], y) => Waiters(r) # <<>>
        BY <1>2, WaitLists DEF Waiters
      <3> QED BY <1>1, <3>2, <3>3, Counted
    <2> QED BY <1>1, <2>1 DEF WaitersFindNothing, InUse
  <1>12. LinkedWaits'
    <2>1. ASSUME NEW r \in Sems, NEW u \in Tasks, Linked(list', WaitersOf[r], u)
          PROVE  pended'[u] = r /\ "PEND" \in status'[u]
      <3>1. CASE u = t
        BY <1>4, <1>7, <2>1, <3>1, SemAssumption
      <3>2. CASE u # t
        <4>1. Linked(list, WaitersOf[r], u)
          BY <1>4, <1>5, <2>1, <3>2, SemAssumption
        <4>2. pended[u] = r /\ "PEND" \in status[u]
          BY <1>2, <4>1 DEF SemInv, LinkedWaits
        <4> QED BY <1>4, <1>7, <3>2, <4>2
      <3> QED BY <3>1, <3>2
    <2> QED BY <2>1 DEF LinkedWaits
  <1> QED BY <1>4, <1>8, <1>9, <1>10, <1>11, <1>12 DEF SemInv

(***************************************************************************)
(* LOS_SemPost that wakes: the first waiter carries the token from now on. *)
(***************************************************************************)
LEMMA WokenInv ==
    ASSUME SemInv, NEW s \in Sems, Waiters(s) # <<>>,
           osTaskWake(Queues, Head(Waiters(s)), "PEND"),
           tokens' = [tokens EXCEPT ![s] = @ + 1],
           ~fault, isr = "none",
           UNCHANGED <<prio, taskLock, tickVars, handle, semMax, unusedSem, pended, semCount>>,
           \/ LOS_Schedule /\ UNCHANGED pc
           \/ /\ UNCHANGED cpuVars
              /\ \E t \in Tasks : Calls(t) /\ pc' = [pc EXCEPT ![t] = "sched"]
    PROVE  SemInv'
  <1> DEFINE x == Head(Waiters(s))
             f == "PEND"
  <1>1. list \in [ListHeads -> Seq(Tasks)]
    BY DEF SemInv, WaitInv, TaskInv, TaskTypeOK
  <1>2. x \in Tasks /\ Linked(list, WaitersOf[s], x)
    BY <1>1, WaitLists DEF Waiters
  <1>3. /\ pended[x] = s /\ "PEND" \in status[x]
        /\ f \in WaitFlags /\ f \in status[x]
    BY <1>2 DEF SemInv, LinkedWaits, WaitFlags
  <1>4. Waiting(pc[x])
    BY <1>2, <1>3 DEF SemInv, WaitInv, WaitersOK, Pending
  <1>5. /\ QueuesOK(Queues, status, prio') /\ prio' \in [TCBs -> Prio] /\ prio'[x] = prio[x]
        /\ UNCHANGED <<isr, scanTask, scanStatus, needSched, sliceTask, sliceLeft, handle, taskLock>>
        /\ osTaskWake(Queues, x, f)
        /\ \/ LOS_Schedule /\ UNCHANGED pc
           \/ /\ UNCHANGED <<runTask, newTask, pendSV>>
              /\ \E t \in Tasks : Calls(t) /\ pc' = [pc EXCEPT ![t] = "sched"]
    BY DEF SemInv, WaitInv, TaskInv, TaskTypeOK, Healthy, tickVars, scanVars, sliceVars, cpuVars
  <1> HIDE DEF x, f
  <1>6. /\ WaitInv'
        /\ \A u \in Tasks \ {x} : status'[u] = status[u]
        /\ status'[x] \cap Marks = {}
        /\ \A g \in PendLists : \A y :
               Linked(list', g, y) <=> Linked(Queues.list, g, y) /\ y # x
        /\ \A u \in Tasks : Waiting(pc'[u]) <=> Waiting(pc[u])
    <2>1. \A u \in Tasks : Waiting(pc'[u]) <=> Waiting(pc[u])
      BY <1>5, CallerWaits DEF SemInv, WaitInv, TaskInv
    <2> QED BY <1>2, <1>3, <1>5, <2>1, WakeStepInv DEF SemInv
  <1>7. Queues.list = list
    BY DEF Queues
  <1>8. /\ \A r \in Sems : Waiters(r)' # <<>> => Waiters(r) # <<>>
        /\ LinkedWaits'
    <2>1. TaskTypeOK' /\ UNCHANGED pended
      BY <1>6 DEF WaitInv, TaskInv
    <2>2. \A g \in PendLists : \A y : Linked(list', g, y) => Linked(list, g, y) /\ y # x
      BY <1>6, <1>7
    <2> QED BY <1>6, <2>1, <2>2, ListsKeep
  <1>9. BlocksOK' /\ UnusedOK' /\ WaitersFindNothing'
    <2>1. BlocksOK' /\ UnusedOK'
      BY DEF SemInv, BlocksOK, UnusedOK, InUse
    <2>2. WaitersFindNothing'
      BY <1>8 DEF SemInv, WaitersFindNothing, InUse
    <2> QED BY <2>1, <2>2
  <1>10. PendedOK'
    BY <1>6 DEF SemInv, PendedOK
  <1>11. Carriers(s)' = Carriers(s) \cup {x} /\ x \notin Carriers(s)
    <2>1. x \notin Carriers(s)
      BY <1>3 DEF Carriers
    <2>2. x \in Carriers(s)'
      BY <1>2, <1>3, <1>4, <1>6 DEF Carriers, Waiting, Marks
    <2>3. \A u \in Tasks \ {x} : u \in Carriers(s)' <=> u \in Carriers(s)
      BY <1>6 DEF Carriers, Waiting
    <2>4. Carriers(s) \subseteq Tasks /\ Carriers(s)' \subseteq Tasks
      BY DEF Carriers
    <2> QED BY <2>1, <2>2, <2>3, <2>4
  <1>12. ASSUME NEW r \in Sems \ {s} PROVE Carriers(r)' = Carriers(r)
    <2>1. x \notin Carriers(r) /\ x \notin Carriers(r)'
      BY <1>3, <1>12 DEF Carriers
    <2>2. ASSUME NEW u \in Tasks PROVE u \in Carriers(r)' <=> u \in Carriers(r)
      <3>1. CASE u = x
        BY <2>1, <3>1
      <3>2. CASE u # x
        BY <1>6, <3>2 DEF Carriers, Waiting
      <3> QED BY <3>1, <3>2
    <2>3. Carriers(r) \subseteq Tasks /\ Carriers(r)' \subseteq Tasks
      BY DEF Carriers
    <2> QED BY <2>2, <2>3
  <1>13. AllTokens'
    <2>1. /\ tokens'[s] = tokens[s] + 1 /\ tokens' \in [Sems -> Int]
          /\ \A r \in Sems \ {s} : tokens'[r] = tokens[r]
      BY Counted
    <2>2. Cardinality(Carriers(s) \cup {x}) = Cardinality(Carriers(s)) + 1
      <3>1. Carriers(s) \in SUBSET Tasks
        BY DEF Carriers
      <3>2. IsFiniteSet(Carriers(s))
        BY <3>1, TaskSets
      <3> QED BY <1>11, <3>2, FS_AddElement
    <2>3. tokens'[s] = semCount'[s] + Cardinality(Carriers(s)')
      BY <1>11, <2>1, <2>2, Counted
    <2>4. \A r \in Sems \ {s} : tokens'[r] = semCount'[r] + Cardinality(Carriers(r)')
      BY <1>12, <2>1, Counted
    <2>5. tokens' = [r \in Sems |-> tokens'[r]]
      BY <2>1
    <2> QED BY <2>3, <2>4, <2>5 DEF AllTokens
  <1> QED BY <1>6, <1>8, <1>9, <1>10, <1>13 DEF SemInv

(***************************************************************************)
(* LOS_SemPend returns: the task keeps the token it carried, if it did not *)
(* time out.                                                               *)
(***************************************************************************)
LEMMA ReturnsInv ==
    ASSUME SemInv, NEW t \in Tasks, SemPendReturns(t)
    PROVE  SemInv'
  <1>1. /\ InTask(t) /\ pc[t] = "woken"
        /\ status' = [status EXCEPT ![t] = @ \ {"TIMEOUT"}]
        /\ tokens' = IF TimedOut(t) THEN tokens ELSE [tokens EXCEPT ![pended[t]] = @ - 1]
        /\ pended' = [pended EXCEPT ![t] = NoTask]
        /\ pc' = [pc EXCEPT ![t] = "user"]
        /\ UNCHANGED <<list, bitmap, prio, timer, runTask, newTask, pendSV, taskLock, isr, scanTask,
                       scanStatus, needSched, sliceTask, sliceLeft, handle, fault>>
        /\ UNCHANGED <<semCount, semMax, unusedSem>>
    BY DEF SemPendReturns, Goto, listVars, cpuVars, tickVars, scanVars, sliceVars
  <1>2. /\ WaitInv' /\ ~Pending(t)
        /\ ~fault
    <2>1. WaitInv' /\ ~Pending(t)
      BY <1>1, ReturnStep DEF SemInv
    <2> QED BY <1>1, <2>1 DEF InTask
  <1>3. /\ pended[t] \in Sems /\ pended \in [Tasks -> Sems \cup {NoTask}]
        /\ "PEND" \notin status[t]
    BY <1>1, <1>2 DEF SemInv, PendedOK, Waiting, Pending, WaitFlags
  <1>4. /\ pc \in [Tasks -> {"user", "sched", "create", "wait", "woken"}]
        /\ status \in [TCBs -> SUBSET Flags]
        /\ list \in [ListHeads -> Seq(Tasks)]
    BY DEF SemInv, WaitInv, TaskInv, TaskTypeOK
  <1>5. /\ pc'[t] = "user" /\ pended'[t] = NoTask
        /\ \A u \in Tasks \ {t} : pc'[u] = pc[u] /\ pended'[u] = pended[u] /\ status'[u] = status[u]
        /\ pended' \in [Tasks -> Sems \cup {NoTask}]
    BY <1>1, <1>3, <1>4 DEF TCBs
  <1>6. BlocksOK' /\ UnusedOK' /\ WaitersFindNothing'
    <2>1. BlocksOK' /\ UnusedOK'
      BY <1>1 DEF SemInv, BlocksOK, UnusedOK, InUse
    <2>2. WaitersFindNothing'
      BY <1>1 DEF SemInv, WaitersFindNothing, Waiters, InUse
    <2> QED BY <2>1, <2>2
  <1>7. PendedOK'
    BY <1>5 DEF SemInv, PendedOK, Waiting
  <1>8. LinkedWaits'
    <2>1. ASSUME NEW r \in Sems, NEW u \in Tasks, Linked(list, WaitersOf[r], u)
          PROVE  pended'[u] = r /\ "PEND" \in status'[u]
      <3>1. pended[u] = r /\ "PEND" \in status[u]
        BY <1>2, <2>1 DEF SemInv, LinkedWaits
      <3> QED BY <1>3, <1>5, <3>1
    <2> QED BY <1>1, <2>1 DEF LinkedWaits
  <1>9. ASSUME NEW r \in Sems
        PROVE  Carriers(r)' = IF r = pended[t] /\ ~TimedOut(t) THEN Carriers(r) \ {t} ELSE Carriers(r)
    <2>1. t \notin Carriers(r)'
      BY <1>5 DEF Carriers
    <2>2. t \in Carriers(r) <=> r = pended[t] /\ ~TimedOut(t)
      BY <1>1, <1>3 DEF Carriers, TimedOut
    <2>3. \A u \in Tasks \ {t} : u \in Carriers(r)' <=> u \in Carriers(r)
      BY <1>5 DEF Carriers
    <2>4. Carriers(r) \subseteq Tasks /\ Carriers(r)' \subseteq Tasks
      BY DEF Carriers
    <2> QED BY <2>1, <2>2, <2>3, <2>4
  <1>10. AllTokens'
    <2>1. CASE TimedOut(t)
      BY <1>1, <1>9, <2>1 DEF SemInv, AllTokens
    <2>2. CASE ~TimedOut(t)
      <3>0. PICK s \in Sems : s = pended[t]
        BY <1>3
      <3>1. s \in Sems /\ tokens' = [tokens EXCEPT ![s] = @ - 1]
        BY <1>1, <2>2, <3>0
      <3>2. t \in Carriers(s) /\ Carriers(s)' = Carriers(s) \ {t}
        <4>1. t \in Carriers(s)
          BY <1>1, <1>3, <2>2, <3>0 DEF Carriers, TimedOut
        <4> QED BY <1>9, <2>2, <3>0, <4>1
      <3>3. \A r \in Sems \ {s} : Carriers(r)' = Carriers(r)
        BY <1>9, <3>0
      <3>4. /\ tokens'[s] = tokens[s] - 1 /\ tokens' \in [Sems -> Int]
            /\ \A r \in Sems \ {s} : tokens'[r] = tokens[r]
        BY <3>1, Counted
      <3>5. Cardinality(Carriers(s) \ {t}) = Cardinality(Carriers(s)) - 1
        <4>1. Carriers(s) \in SUBSET Tasks
          BY DEF Carriers
        <4>2. IsFiniteSet(Carriers(s))
          BY <4>1, TaskSets
        <4> QED BY <3>2, <4>2, FS_RemoveElement
      <3>6. tokens'[s] = semCount'[s] + Cardinality(Carriers(s)')
        BY <1>1, <3>1, <3>2, <3>4, <3>5, Counted
      <3>7. \A r \in Sems \ {s} : tokens'[r] = semCount'[r] + Cardinality(Carriers(r)')
        BY <1>1, <3>3, <3>4, Counted
      <3>8. tokens' = [r \in Sems |-> tokens'[r]]
        BY <3>4
      <3> QED BY <3>1, <3>6, <3>7, <3>8 DEF AllTokens
    <2> QED BY <2>1, <2>2
  <1> QED BY <1>2, <1>6, <1>7, <1>8, <1>10 DEF SemInv

-----------------------------------------------------------------------------
(***************************************************************************)
(* osSemInit leaves every block free or holding its first count, and nobody*)
(* waits.                                                                  *)
(***************************************************************************)
LEMMA SemInitInv ==
    ASSUME SemInit
    PROVE  SemInv
  <1>1. TaskInit /\ WaitInv
    BY InitWaits DEF SemInit
  <1>2. list = InitList /\ pc = [t \in Tasks |-> "user"]
    BY <1>1 DEF TaskInit
  <1>3. BlocksOK
    BY SemAssumption DEF SemInit, BlocksOK, InUse
  <1>4. UnusedOK
    <2> DEFINE S == Sems \ DOMAIN Created
    <2>1. IsFiniteSet(S) /\ unusedSem \in SetToSeqs(S)
      BY SemAssumption, FS_Difference DEF SemInit
    <2>2. unusedSem \in Seq(S) /\ NoRepeat(unusedSem) /\ \A y : Contains(unusedSem, y) <=> y \in S
      BY <2>1, AnyOrderFacts
    <2>3. \A s \in Sems : ~InUse(s) <=> s \in S
      BY SemAssumption DEF SemInit, InUse
    <2> QED BY <2>2, <2>3 DEF UnusedOK
  <1>5. PendedOK
    BY <1>2 DEF SemInit, PendedOK, Waiting
  <1>6. AllTokens
    <2>1. ASSUME NEW s \in Sems PROVE Cardinality(Carriers(s)) = 0
      <3>1. Carriers(s) = {}
        BY <1>2 DEF Carriers
      <3> QED BY <3>1, FS_EmptySet
    <2>2. semCount = [s \in Sems |-> semCount[s]] /\ \A s \in Sems : semCount[s] \in Int
      BY <1>3, SemAssumption DEF BlocksOK
    <2>3. \A s \in Sems : semCount[s] = semCount[s] + Cardinality(Carriers(s))
      BY <2>1, <2>2
    <2> QED BY <2>2, <2>3 DEF SemInit, AllTokens
  <1>7. \A s \in Sems : list[WaitersOf[s]] = <<>>
    BY <1>2, SemAssumption, TaskAssumption DEF InitList, ListHeads
  <1>8. WaitersFindNothing /\ LinkedWaits
    BY <1>7 DEF WaitersFindNothing, Waiters, LinkedWaits, Linked, Contains
  <1> QED BY <1>1, <1>3, <1>4, <1>5, <1>6, <1>8 DEF SemInv

LEMMA PostInv ==
    ASSUME SemInv, ~NestedIsr, NEW s \in Sems,
           (\E t \in Tasks : LOS_SemPost(t, s)) \/ IsrSemPost(s)
    PROVE  SemInv'
  <1>1. Posted(s) /\ ~fault /\ isr = "none"
    BY DEF LOS_SemPost, IsrSemPost, Calls, InTask, InIsr
  <1>2. CASE Waiters(s) # <<>>
    <2>1. /\ osTaskWake(Queues, Head(Waiters(s)), "PEND")
          /\ tokens' = [tokens EXCEPT ![s] = @ + 1]
          /\ UNCHANGED <<prio, taskLock, tickVars, handle, semMax, unusedSem, pended, semCount>>
      BY <1>1, <1>2 DEF Posted
    <2>2. \/ LOS_Schedule /\ UNCHANGED pc
          \/ /\ UNCHANGED cpuVars
             /\ \E t \in Tasks : Calls(t) /\ pc' = [pc EXCEPT ![t] = "sched"]
      BY <1>2 DEF LOS_SemPost, IsrSemPost, Goto
    <2> QED BY <1>1, <1>2, <2>1, <2>2, WokenInv
  <1>3. CASE Waiters(s) = <<>>
    <2>1. /\ InUse(s) /\ ~Full(s)
          /\ tokens' = [tokens EXCEPT ![s] = @ + 1]
          /\ semCount' = [semCount EXCEPT ![s] = @ + 1]
          /\ UNCHANGED <<listVars, status, timer, fault, prio, taskLock, tickVars, handle,
                         semMax, unusedSem, pended>>
      BY <1>1, <1>3 DEF Posted
    <2>2. UNCHANGED <<pc, cpuVars>>
      BY <1>3 DEF LOS_SemPost, IsrSemPost
    <2>3. UNCHANGED <<taskVars, semMax, unusedSem, pended>>
      BY <2>1, <2>2 DEF taskVars, listVars, callVars
    <2> QED BY <1>3, <2>1, <2>3, PostedUnheardInv
  <1> QED BY <1>2, <1>3

LEMMA SemStep ==
    ASSUME SemInv, ~NestedIsr, [SemNext]_allVars
    PROVE  SemInv'
  <1>1. CASE OtherCall
    BY <1>1, OtherCallInv
  <1>2. ASSUME NEW t \in SemCreators, NEW s \in Sems, LOS_SemDelete(t, s) PROVE SemInv'
    BY <1>2, SemAssumption, DeleteInv
  <1>3. ASSUME NEW t \in SemCreators, NEW n \in 0 .. COUNTING_MAX,
               osSemCreate(t, n, COUNTING_MAX) \/ osSemCreate(t, n, BINARY_MAX)
        PROVE  SemInv'
    BY <1>3, SemAssumption, CreateInv
  <1>4. ASSUME NEW t \in SemUsers, NEW s \in Sems, LOS_SemPend(t, s) PROVE SemInv'
    BY <1>4, TakenInv DEF LOS_SemPend
  <1>5. ASSUME NEW t \in SemUsers, NEW s \in Sems, NEW n \in TimeoutsOf[t], SemPendWaits(t, s, n)
        PROVE  SemInv'
    BY <1>5, SemAssumption, PendWaitsInv
  <1>6. ASSUME NEW t \in SemUsers, NEW s \in Sems, LOS_SemPost(t, s) PROVE SemInv'
    BY <1>6, SemAssumption, PostInv
  <1>7. ASSUME NEW t \in SemUsers, SemPendReturns(t) PROVE SemInv'
    BY <1>7, SemAssumption, ReturnsInv
  <1>8. ASSUME NEW s \in Sems, IsrSemPend(s) PROVE SemInv'
    BY <1>8, TakenInv DEF IsrSemPend
  <1>9. ASSUME NEW s \in Sems, IsrSemPost(s) PROVE SemInv'
    BY <1>9, PostInv
  <1>10. CASE UNCHANGED allVars
    <2>1. /\ UNCHANGED <<taskVars, semCount, semMax, unusedSem, pended, tokens>>
          /\ UNCHANGED list
      BY <1>10 DEF allVars, semVars, taskVars
    <2>2. BlocksOK' /\ UnusedOK' /\ WaitersFindNothing'
      BY <2>1 DEF SemInv, BlocksOK, UnusedOK, WaitersFindNothing, Waiters, InUse
    <2> QED BY <2>1, <2>2, Counted, QuietCall
  <1> QED BY <1>1, <1>2, <1>3, <1>4, <1>5, <1>6, <1>7, <1>8, <1>9, <1>10 DEF SemNext, SemCall

-----------------------------------------------------------------------------
(***************************************************************************)
(* The inductive invariant of los_sem.c over the scheduler: blocks, wait   *)
(* lists, counts and the tasks on their way out of LOS_SemPend fit together*)
(* whatever calls, interrupts, time-outs, suspensions and deletions do.    *)
(***************************************************************************)
THEOREM SemInvariant ==
    ASSUME ~NestedIsr
    PROVE  SemSpec => []SemInv
  <1>1. SemInit => SemInv
    BY SemInitInv
  <1>2. SemInv /\ [SemNext]_allVars => SemInv'
    BY SemStep
  <1> QED BY <1>1, <1>2, PTL DEF SemSpec

(***************************************************************************)
(* los_sem.c keeps every count within the maximum of its semaphore's kind, *)
(* and every pointer it follows on a block of its own.                     *)
(***************************************************************************)
THEOREM SemTypes ==
    ASSUME ~NestedIsr
    PROVE  SemSpec => []SemTypeOK
  <1>1. SemInv => SemTypeOK
    BY SemInvImplies
  <1> QED BY <1>1, SemInvariant, PTL

(***************************************************************************)
(* No post is lost and none counts twice: LOS_SemPost, LOS_SemPend, the    *)
(* tick that times a waiter out, suspension and deletion of a waiter, and  *)
(* deletion and reuse of the block, in any order, on any number of tasks.  *)
(***************************************************************************)
THEOREM TokensAlwaysConserved ==
    ASSUME ~NestedIsr
    PROVE  SemSpec => []TokensConserved
  <1>1. SemInv => TokensConserved
    BY SemInvImplies
  <1> QED BY <1>1, SemInvariant, PTL

(***************************************************************************)
(* LOS_SemPend never leaves a task waiting beside a token: a semaphore with*)
(* a waiter exists, and its count is 0.                                    *)
(***************************************************************************)
THEOREM NobodyWaitsInVain ==
    ASSUME ~NestedIsr
    PROVE  SemSpec => []WaitersFindNothing
  <1>1. SemInv => WaitersFindNothing
    BY SemInvImplies
  <1> QED BY <1>1, SemInvariant, PTL

=============================================================================
