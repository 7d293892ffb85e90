------------------------------ MODULE LosSwtmr ------------------------------
(***************************************************************************)
(* Software timers (los_swtmr.c, built with LOSCFG_BASE_CORE_SWTMR_ALIGN): *)
(* a list of the running timers sorted by expiry, each with the ticks it   *)
(* comes after the one before it; alignment of periodic timers; expiries   *)
(* queued by the tick handler for the timer task.                          *)
(***************************************************************************)
EXTENDS DeltaList, SequencesExt

CONSTANTS
    LIMIT,          \* LOSCFG_BASE_CORE_SWTMR_LIMIT, the number of control blocks
    MAX_TIMERID,    \* OS_SWTMR_MAX_TIMERID
    DIVISOR,        \* LOS_COMMON_DIVISOR
    Created         \* what timers are created as

Modes == {"ONCE", "PERIOD", "NO_SELFDELETE"}

ASSUME SwtmrAssumption ==
    /\ LIMIT \in Nat \ {0}
    /\ MAX_TIMERID \in Nat /\ MAX_TIMERID % LIMIT = 0 /\ MAX_TIMERID >= 2 * LIMIT
    /\ DIVISOR \in Nat \ {0}
    /\ Created \subseteq [interval : Nat \ {0}, mode : Modes, sensitive : BOOLEAN]
    /\ Created # {}

Timers == 0 .. LIMIT - 1
QUEUE_SIZE == LIMIT         \* OS_SWTMR_HANDLE_QUEUE_SIZE

(***************************************************************************)
(* A word of m_uwSwTmrAlignID, taken apart.                                *)
(***************************************************************************)
NotAligned == [already |-> FALSE, can |-> FALSE, multiple |-> FALSE, times |-> 0]

VARIABLES
    sortList,       \* m_pstSwtmrSortList
    count,          \* uwCount of the timers in it, ticks after the one before; else 0
    state,          \* ucState
    freeList,       \* m_pstSwtmrFreeList
    timerID,        \* usTimerID
    kind,           \* uwInterval, ucMode and ucSensitive
    align,          \* m_uwSwTmrAlignID
    queued,         \* the number of expiries in m_uwSwTmrHandlerQueue
    handling,       \* osSwTmrTimeoutHandle runs
    backlog         \* history, while it runs: queued when the tick began

listVars == <<sortList, count>>
tickVars == <<handling, backlog>>
swtmrVars == <<listVars, state, freeList, timerID, kind, align, queued,
               tickVars>>

Running(i) == Contains(sortList, i)

Place(i) == PlaceOf(sortList, i)

SwtmrInit ==
    /\ sortList = <<>>
    /\ count = [i \in Timers |-> 0]
    /\ state = [i \in Timers |-> "UNUSED"]
    /\ freeList = [k \in 1 .. LIMIT |-> k - 1]
    /\ timerID = [i \in Timers |-> i]
    /\ kind = [i \in Timers |-> CHOOSE k \in Created : TRUE]
    /\ align = [i \in Timers |-> NotAligned]
    /\ queued = 0
    /\ handling = FALSE /\ backlog = 0

-----------------------------------------------------------------------------
(***************************************************************************)
(* The sorted list as a value, so that one call can stop a timer and start *)
(* it again.                                                               *)
(***************************************************************************)
Now == [list |-> sortList, count |-> count]

(***************************************************************************)
(* Ticks from now to the k-th expiry (osSwtmrTimeGet).                     *)
(***************************************************************************)
TicksIn(l, k) == Total(l.list, l.count, k)

osSwtmrTimeGet(i) == TicksIn(Now, Place(i))

PlaceIn(l, i) == PlaceOf(l.list, i)

RemovedOnly(l, i) ==        \* faulty: the ticks of the timer are not passed on
    LET k == PlaceIn(l, i)
    IN  [list |-> RemoveAt(l.list, k), count |-> [l.count EXCEPT ![i] = 0]]

Removed(l, i) ==
    LET k == PlaceIn(l, i)
        n == [l.count EXCEPT ![i] = 0]
    IN  [list  |-> RemoveAt(l.list, k),
         count |-> IF k = Len(l.list) THEN n
                   ELSE [n EXCEPT ![l.list[k + 1]] = @ + l.count[i]]]

(***************************************************************************)
(* osSwtmrStop: the timer's ticks go to the one after it.                  *)
(***************************************************************************)
osSwtmrStop(l, i) == IF l.list = <<>> THEN l ELSE Removed(l, i)

(***************************************************************************)
(* i becomes the (k+1)-th timer, n ticks after the k-th.                   *)
(***************************************************************************)
InsertedAfter(l, i, k, n) ==
    LET c == [l.count EXCEPT ![i] = n]
    IN  [list  |-> InsertAt(l.list, k + 1, i),
         count |-> IF k = Len(l.list) THEN c
                   ELSE [c EXCEPT ![l.list[k + 1]] = @ - n]]

InsertedIn(l, i, n) ==
    LET k == PlaceFor(l.list, l.count, n) - 1
    IN  InsertedAfter(l, i, k, n - TicksIn(l, k))

(***************************************************************************)
(* The timers that osSwTmrStart may align i with.  Those whose interval is *)
(* a multiple of the common divisor are aligned with the one of the nearest*)
(* multiple (of SlowerThan), else with that of the nearest fraction of     *)
(* their own (of FasterThan); the rest only with one of the same interval. *)
(***************************************************************************)
AlreadyAligned(al, j) == al[j].already /\ al[j].can

SlowerThan(al, i) ==
    {j \in Timers \ {i} : /\ AlreadyAligned(al, j)
                          /\ al[j].times # 0
                          /\ al[j].times % al[i].times = 0}

FasterThan(al, i) ==
    {j \in Timers \ {i} : /\ AlreadyAligned(al, j)
                          /\ al[j].times # 0
                          /\ al[j].times < al[i].times
                          /\ al[i].times % al[j].times = 0}

LeastMultiple(al, J) ==
    CHOOSE j \in J : \A h \in J : al[j].times < al[h].times \/ (al[j].times = al[h].times /\ j <= h)

GreatestFraction(al, J) ==
    CHOOSE j \in J : \A h \in J : al[j].times > al[h].times \/ (al[j].times = al[h].times /\ j <= h)

SameInterval(l, al, i) ==
    {k \in 1 .. Len(l.list) : /\ kind[l.list[k]].interval = kind[i].interval
                              /\ AlreadyAligned(al, l.list[k])}

WholePhase(l, i, j) ==      \* faulty: the phase of j is not taken into account
    InsertedIn(l, i, kind[i].interval)

(***************************************************************************)
(* i expires for the first time in the phase of the slower timer j.        *)
(***************************************************************************)
InPhase(l, i, j) ==
    LET gone == kind[j].interval - TicksIn(l, PlaceIn(l, j))
    IN  InsertedIn(l, i, kind[i].interval - (gone % kind[i].interval))

(***************************************************************************)
(* osSwTmrStart, on the list l and the alignment words al.  A timer that is*)
(* aligned already, as when it expires, starts in the ordinary way.        *)
(***************************************************************************)
CanAlign(al, i) == al[i].can /\ ~al[i].already

osSwTmrStart(l, al, i) ==
    IF ~CanAlign(al, i) THEN InsertedIn(l, i, kind[i].interval)
    ELSE IF al[i].multiple
         THEN LET slower == SlowerThan(al, i)
                  faster == FasterThan(al, i)
              IN  IF slower # {}
                  THEN InPhase(l, i, LeastMultiple(al, slower))
                  ELSE IF faster # {}
                  THEN InsertedAfter(l, i, PlaceIn(l, GreatestFraction(al, faster)), 0)
                  ELSE InsertedIn(l, i, kind[i].interval)
         ELSE LET same == SameInterval(l, al, i)
              IN  IF same # {}
                  THEN InsertedAfter(l, i, CHOOSE k \in same : \A h \in same : k <= h, 0)
                  ELSE InsertedIn(l, i, kind[i].interval)

Started(al, i) == IF CanAlign(al, i) THEN [al EXCEPT ![i].already = TRUE] ELSE al

BecomeList(l) == sortList' = l.list /\ count' = l.count

-----------------------------------------------------------------------------
(***************************************************************************)
(* LOS_SwtmrCreate takes a block off the free list; it fills it in with    *)
(* interrupts on, but nobody else knows the block then.                    *)
(***************************************************************************)
LOS_SwtmrCreate(k) ==
    /\ ~handling
    /\ freeList # <<>>
    /\ LET i == Head(freeList)
       IN  /\ kind' = [kind EXCEPT ![i] = k]
           /\ state' = [state EXCEPT ![i] = "CREATED"]
    /\ freeList' = Tail(freeList)
    /\ UNCHANGED <<listVars, timerID, align, queued, tickVars>>

(***************************************************************************)
(* CHECK_SWTMRID: x is the present ID of block i; a call with an ID that is*)
(* not is refused.  Callers do not use the ID of a timer they have deleted:*)
(* the block keeps it, and LOS_SwtmrStart would mark it before it refuses. *)
(***************************************************************************)
Names(x, i) == i = x % LIMIT /\ timerID[i] = x /\ state[i] # "UNUSED"

(***************************************************************************)
(* LOS_SwtmrStart writes the alignment word whatever state the timer is in.*)
(***************************************************************************)
Marked(i) ==
    IF kind[i].sensitive \/ kind[i].mode # "PERIOD" THEN align
    ELSE [align EXCEPT ![i].can = TRUE,
                       ![i].multiple = @ \/ kind[i].interval % DIVISOR = 0,
                       ![i].times = IF kind[i].interval % DIVISOR = 0
                                    THEN kind[i].interval \div DIVISOR ELSE @]

LOS_SwtmrStart(x) ==
    \E i \in Timers :
        /\ ~handling
        /\ Names(x, i)
        /\ CASE state[i] = "CREATED" ->
                    /\ BecomeList(osSwTmrStart(Now, Marked(i), i))
                    /\ align' = Started(Marked(i), i)
                    /\ state' = [state EXCEPT ![i] = "TICKING"]
             [] state[i] = "TICKING" ->
                    LET al == [Marked(i) EXCEPT ![i].already = FALSE]
                    IN  /\ BecomeList(osSwTmrStart(osSwtmrStop(Now, i), al, i))
                        /\ align' = Started(al, i)
                        /\ UNCHANGED state
        /\ UNCHANGED <<freeList, timerID, kind, queued, tickVars>>

LOS_SwtmrStop(x) ==
    \E i \in Timers :
        /\ ~handling
        /\ Names(x, i)
        /\ state[i] = "TICKING"
        /\ BecomeList(osSwtmrStop(Now, i))
        /\ align' = [align EXCEPT ![i].already = FALSE]
        /\ state' = [state EXCEPT ![i] = "CREATED"]
        /\ UNCHANGED <<freeList, timerID, kind, queued, tickVars>>

LOS_SwtmrDelete(x) ==
    \E i \in Timers :
        /\ ~handling
        /\ Names(x, i)
        /\ state[i] # "UNUSED"
        /\ BecomeList(IF state[i] = "TICKING" THEN osSwtmrStop(Now, i) ELSE Now)
        /\ freeList' = <<i>> \o freeList
        /\ state' = [state EXCEPT ![i] = "UNUSED"]
        /\ align' = [align EXCEPT ![i] = NotAligned]
        /\ UNCHANGED <<timerID, kind, queued, tickVars>>

-----------------------------------------------------------------------------
(***************************************************************************)
(* osSwtmrScan, called by the tick handler.                                *)
(***************************************************************************)
osSwtmrScan ==
    /\ ~handling
    /\ sortList # <<>>
    /\ count' = [count EXCEPT ![Head(sortList)] = @ - 1]
    /\ handling' = (count[Head(sortList)] = 1)
    /\ backlog' = IF handling' THEN queued ELSE 0
    /\ UNCHANGED <<sortList, state, freeList, timerID, kind, align, queued>>

NextIDOneMore(id) ==        \* faulty: one ID too many
    IF id <= MAX_TIMERID - LIMIT THEN id + LIMIT ELSE id % LIMIT

NextID(id) == IF id < MAX_TIMERID - LIMIT THEN id + LIMIT ELSE id % LIMIT

RestartNow(l, al, i) ==     \* faulty: a periodic timer starts again without its interval
    InsertedAfter(l, i, 0, 0)

Restart(l, al, i) == osSwTmrStart(l, al, i)

(***************************************************************************)
(* osSwTmrTimeoutHandle, for the timer at the head of the list: its expiry *)
(* is queued, or lost; then it is deleted, restarted, or left stopped.     *)
(***************************************************************************)
osSwTmrTimeoutHandle ==
    LET i    == Head(sortList)
        rest == Removed(Now, i)
        next == IF kind[i].mode = "PERIOD" THEN Restart(rest, align, i) ELSE rest
    IN  /\ handling
        /\ queued' = IF queued < QUEUE_SIZE THEN queued + 1 ELSE queued
        /\ BecomeList(next)
        /\ handling' = (next.list # <<>> /\ next.count[Head(next.list)] = 0)
        /\ backlog' = IF handling' THEN backlog ELSE 0
        /\ CASE kind[i].mode = "ONCE" ->
                    /\ freeList' = <<i>> \o freeList
                    /\ state' = [state EXCEPT ![i] = "UNUSED"]
                    /\ align' = [align EXCEPT ![i] = NotAligned]
                    /\ timerID' = [timerID EXCEPT ![i] = NextID(@)]
             [] kind[i].mode = "PERIOD" ->
                    /\ align' = Started(align, i)
                    /\ UNCHANGED <<freeList, state, timerID>>
             [] kind[i].mode = "NO_SELFDELETE" ->
                    /\ state' = [state EXCEPT ![i] = "CREATED"]
                    /\ UNCHANGED <<freeList, timerID, align>>
        /\ UNCHANGED kind

(***************************************************************************)
(* osSwTmrTask takes an expiry and calls its handler, which makes calls as *)
(* any task does.                                                          *)
(***************************************************************************)
osSwTmrTask ==
    /\ ~handling
    /\ queued > 0
    /\ queued' = queued - 1
    /\ UNCHANGED <<listVars, state, freeList, timerID, kind, align, tickVars>>

SwtmrCall ==
    \/ \E k \in Created : LOS_SwtmrCreate(k)
    \/ \E x \in 0 .. MAX_TIMERID - 1 : LOS_SwtmrStart(x) \/ LOS_SwtmrStop(x) \/ LOS_SwtmrDelete(x)

SwtmrNext == SwtmrCall \/ osSwtmrScan \/ osSwTmrTimeoutHandle \/ osSwTmrTask

SwtmrSpec == SwtmrInit /\ [][SwtmrNext]_swtmrVars

-----------------------------------------------------------------------------
(***************************************************************************)
(* Types; an ID names its block, and is one the range check lets through;  *)
(* no count is ever taken below zero.                                      *)
(***************************************************************************)
SwtmrTypeOK ==
    /\ sortList \in Seq(Timers)
    /\ count \in [Timers -> Nat]
    /\ state \in [Timers -> {"UNUSED", "CREATED", "TICKING"}]
    /\ freeList \in Seq(Timers)
    /\ timerID \in [Timers -> 0 .. MAX_TIMERID - 1]
    /\ \A i \in Timers : timerID[i] % LIMIT = i
    /\ kind \in [Timers -> Created]
    /\ align \in [Timers -> [already : BOOLEAN, can : BOOLEAN, multiple : BOOLEAN, times : Nat]]
    /\ queued \in 0 .. QUEUE_SIZE
    /\ handling \in BOOLEAN
    /\ backlog \in 0 .. QUEUE_SIZE

(***************************************************************************)
(* The list of differences, with aligned timers put behind one another,    *)
(* implements SoftTimers: no timer is early or late for what happens to    *)
(* others, and nothing but its first interval is ever shortened.           *)
(***************************************************************************)
Left(i) == IF Running(i) THEN osSwtmrTimeGet(i) ELSE -1

Soft == INSTANCE SoftTimers
            WITH Kinds <- Created, left <- [i \in Timers |-> Left(i)]

ImplementsSoftTimers == Soft!SoftSpec

(***************************************************************************)
(* Of two intervals that alignment looks at, one divides the other.        *)
(***************************************************************************)
IntervalsNest ==
    \A a, b \in {k \in Created : k.mode = "PERIOD" /\ ~k.sensitive /\ k.interval % DIVISOR = 0} :
        a.interval % b.interval = 0 \/ b.interval % a.interval = 0

(***************************************************************************)
(* Alignment keeps its word: of two aligned timers whose intervals are     *)
(* multiples of the common divisor, one of the other, the slower expires   *)
(* at ticks at which the faster does, whatever was started, stopped and    *)
(* deleted in between.  That is so where intervals nest: a timer whose     *)
(* interval divides those of two others that run out of phase, as 4 and 6  *)
(* ticks may, cannot be in phase with both.                                *)
(***************************************************************************)
AlignedInPhase ==
    IntervalsNest =>
        \A i, j \in Timers :
            /\ AlreadyAligned(align, i) /\ AlreadyAligned(align, j)
            /\ align[i].multiple /\ align[j].multiple
            /\ align[j].times % align[i].times = 0
            /\ Running(i) /\ Running(j)
            => (osSwtmrTimeGet(j) - osSwtmrTimeGet(i)) % kind[i].interval = 0

(***************************************************************************)
(* An expiry is lost only if the timer task had not handled those of the   *)
(* tick before: the queue holds what one tick can bring, and no timer      *)
(* expires twice in a tick.                                                *)
(***************************************************************************)
LostOnlyBehindBacklog == handling /\ queued = QUEUE_SIZE => backlog > 0
=============================================================================
