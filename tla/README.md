# A TLA+ model of the firmware of nb_club-stm32l431

The repository is the firmware of an NB-IoT board (an STM32L431, one Cortex-M4
core): Huawei LiteOS, its components (AT commands, firmware update, LwM2M and
MQTT agents, file systems) and vendored stacks. What everything else stands on
is the kernel: a preemptive scheduler, and the semaphores, mutexes, queues,
events and timers through which tasks and interrupt handlers meet. These
modules model that kernel, and the three components above it whose own
protocols are hard to test: the AT command framework, firmware update over AT
messages, and the LwM2M agent's reports. TLC checks them on small instances;
TLAPS proves every safety property that the runs check, for every size and under the
hypotheses of section 5: 34 of the 39 properties, the three refinements among them.
The five others are liveness.

1. [The system](#1-the-system)
2. [The modules](#2-the-modules)
3. [The runs](#3-the-runs)
4. [What the code does otherwise than it says](#4-what-the-code-does-otherwise-than-it-says)
5. [The proofs](#5-the-proofs)
6. [The plan](#6-the-plan)
7. [What is not modelled](#7-what-is-not-modelled)

## 1. The system

Paths are under `src/`. "Correct" names what the properties of section 3 say.

| Part | State | Operations | Meets the rest through | Correct when |
|---|---|---|---|---|
| Scheduler: `kernel/base/core/los_task.c`, `los_priqueue.c`, `los_timeslice.c`, `los_tick.c`; `LOS_Schedule` in `arch/arm/arm-m/src/los_hw.c`; `PendSV_Handler` in `los_dispatch_gcc.S` | 32 ready lists and a bitmap; per task a status word, a priority, and a link (`stPendList`) that is in a ready list, a wait list, the free or the recycle list; running and next task; scheduler lock; slice | create, delete, suspend, resume, delay, priority, yield, lock, unlock; the tick; the switch | every kernel object blocks and wakes tasks with `osTaskWait` and `osTaskWake`; interrupt handlers make the same calls | the lists agree with the status words; no wake-up is lost; the highest ready task runs; equals take turns |
| Timer wheel: `los_task.c` 180-299 | 32 slots of tasks; per task the turns it waits after the one before it | add, delete, scan per tick | `osTaskWait`, delay, wake, delete; the tick handler | a timeout is over at its tick, whatever was added and removed meanwhile |
| Semaphores: `kernel/base/ipc/los_sem.c` | count, maximum, wait list | create, delete, pend, post | as above | no token is lost or made up |
| Mutexes: `los_mux.c` | owner, depth, priority to restore, wait list | create, delete, pend, post | also changes priorities of other tasks | one owner; a lifted priority comes down again; inheritance |
| Queues: `los_queue.c` | ring, counters of readable and writable slots, two wait lists, mail list | create, delete, read, write, write to the head, mail | as above; carries software timers | a bounded deque; nothing reserved for a woken task is taken from it |
| Events: `los_event.c` | event bits, wait list | read, write, clear, destroy | as above | nobody waits for bits that are there; who is woken finds its bits unless another task took them |
| Software timers: `los_swtmr.c` | sorted list of relative counts, states, a queue to the timer task | create, start, stop, delete, tick | tick handler, queue | every timer expires at its tick, aligned ones in phase; an expiry is lost only behind a backlog |
| Static pools: `kernel/base/mem/membox`; heaps: `bestfit_little`, `bestfit`, `tlsf` | free lists | alloc, free | mail, task stacks | no block twice, none lost |
| Tickless idle: `kernel/extended/tickless` | ticks slept | start, handler | idle task, tick | no tick is lost |
| AT commands: `components/net/at_frame` | listeners, one response semaphore, two mutexes | command, response, out-of-band data | kernel objects, UART interrupt | a response reaches the command it answers; every command returns |
| Firmware update: `components/ota/sota`, `flag_operate` | state record in flash and memory | notify, block, execute, timeout, restart | AT commands, flash | only a verified package is installed; the version reported is the one that runs; a resumed download ends well |
| LwM2M agent: `components/connectivity/agent_tiny/atiny_lwm2m` | report lists under one mutex; update state and last reported state | queue, dequeue, remove; download, update, acknowledge | LwM2M library, application callbacks | a report is handed back exactly once, and is in one place until then; a pending registration has a transaction that ends it; the update manager is never busy for ever |
| MQTT agent, NB-IoT interface, file systems, CMSIS adapters, ports of lwIP, PPP and mbedTLS, log | | | | |
| Vendored: lwIP, mbedTLS, Paho, Wakaama, FatFs, JFFS2, SPIFFS, CMSIS, STM32 HAL | | | | |

How they interact. A task calls the kernel; the call locks interrupts, changes
lists and status words, unlocks, and calls `LOS_Schedule`, which sets
`pstNewTask` and requests the PendSV exception. PendSV has the lowest priority,
so the switch happens at once in a task and only after the last handler
otherwise. Interrupt handlers make the same calls. The tick handler counts,
checks the slice and walks the timer wheel, *without* locking interrupts.

What is hard to get right and hard to test:

- the two halves of every call, with interrupts between them, and the switch,
  which is requested in one place and made in another;
- a status word that is a set of flags: a task may be suspended *and* wait *and*
  be on the timer list, and each of the three ends in its own time, in any order;
- the flag TIMEOUT, which means "on the timer list" before the timeout and
  "timed out, not seen yet" after it;
- tasks deleted by others, by themselves, by handlers, in all of these states;
- objects deleted and created again while a woken task still refers to them;
- relative numbers (the wheel's turns, the timers' counts) and rings that wrap around;
- priorities that change while the task is ready, blocked or owns a mutex;
- answers of a modem that come after the wait for them timed out;
- downloads that are interrupted and resumed, by messages that come late and by resets
  between two writes of one handler;
- reports on their way through a list, an observation and a CoAP transaction, each of
  which the server, the application or a lost connection can take away.

`PROJECT.json` lists these as hazards, each at its line, with the properties
that would fail.

## 2. The modules

```
 LosList ──┐                       ┌── LosSem
           ├── LosTask ── extended by ── LosMux
TaskTimers ┘      │                ├── LosEvent
     ▲                             └── LosQueue ── implements BoundedDeque
     └ implemented by SortLink

LosSwtmr ── implements SoftTimers       AtCmd       Sota       AtinyReport
(LosSwtmr and SortLink share DeltaList)

Proofs:  LosListTheorems ──┬── LosTaskProofs ──┬── LosSemProofs
                           │                   ├── LosMuxProofs
                           │                   ├── LosQueueProofs
                           │                   └── LosEventProofs
                           ├── TimerProofs      (SortLink, LosSwtmr)
                           └── ComponentProofs  (AtCmd, Sota, AtinyReport)
```

**LosList** – the doubly linked lists (`los_list.h`) as a function from list
heads to sequences. A node is deleted without naming the list it is in, which
is why all the lists that share `stPendList` are one function, `list`.

**TaskTimers** – abstract: a map from tasks to the ticks they still wait. **SortLink**
is the wheel: slots, cursor, hash, relative roll numbers, the scan's loop in its
steps. What a list of differences adds up to, and where in it an entry belongs, is in **DeltaList**, which the software
timers use too. `SortLink!ImplementsTaskTimers` shows that the second implements the
first, with `TicksLeft` as the refinement mapping; the other modules use the
abstract one (`Arm`, `Disarm`, `Elapse`).

**LosTask** – the scheduler. One action per call, named as the C function:

| State | Code |
|---|---|
| `list`, `bitmap` | the lists through `stPendList`; `g_uwPriQueueBitmap` as a set |
| `status`, `prio` | `usTaskStatus` as the set of its flags; `usPriority` |
| `timer` | the timer list, through TaskTimers |
| `runTask`, `newTask`, `pendSV` | `g_stLosTask`; PendSV pending |
| `taskLock` | `g_usLosTaskLock` |
| `isr`, `scanTask`, `scanStatus`, `needSched` | where the tick handler is, and the local variables of `osTaskScan` |
| `sliceTask`, `sliceLeft` | `g_stTaskTimeSlice` |
| `pc`, `handle` | where a task is in its call: `user` (in none), `sched` (before `LOS_Schedule`), `wait` (before `LOS_Schedule`, blocked), `woken` (after it), `create` (between the halves of `LOS_TaskCreate`); the task it is creating |
| `fault` | a NULL link was followed. `LOS_ListDelete` clears the links of what it deletes; a second deletion writes through NULL and the core ends in HardFault |

Steps. A critical section is a step, with everything it calls; the `LOS_Schedule`
after it is another, so that handlers run in between. In a handler PendSV has to
wait, nothing is in between, and the two are one step (`Isr...`). The tick
handler is one step for the tick and the slice, then `ScanExpire` (read the
status, unlink), `ScanWake` (act on what was read) per task due, and `ScanDone`.
Device interrupts come between any two steps of tasks; with `NestedIsr` they also
come between those of the tick handler, which their priorities permit when a
board configures them so.

Three simplifications. `LOS_TaskCreateOnly` takes a free block and fills it in with
interrupts on; in the model this is a step, because until it is filled in the
block is in no list and UNUSED to every other call. The test of `LOS_TaskYield`
before its critical section is made in it. An address that was a task's is not
reused while a call still refers to it, except where the code does so itself (free
list and recycle list).

**LosSem**, **LosMux**, **LosQueue**, **LosEvent** extend LosTask by the kernel objects: the call
up to where it waits, and what it does when it runs again, are actions. Every
action of LosTask remains possible (`OtherCall`), so waits race with timeouts,
suspension, deletion and priority changes. They add *history* variables that no
action reads: `tokens` (posts less acquisitions), `granted` (mutexes granted and
not given back, by task), `basePrio` (the priority a task was given by its
creator or by `LOS_TaskPriSet`), `taken` (since a reader was woken, another task
cleared bits it came for). `pended`, `wanted`, `operation` and `readFrom` are the
arguments a waiting call still has on its stack; `request` is the mask and the mode
that `LOS_EventRead` leaves in the control block. `LosEvent!QueuesAfter` is the walk of
`LOS_EventWrite` over the waiters: a recursive function of how far it has come.

**BoundedDeque** – abstract: what a queue promises. The contents in the refinement
(`LosQueue!Contents`) include messages that are reserved for woken readers.

**LosSwtmr** – software timers, as built with alignment. `sortList` and `count` are the sorted list
and the relative counts; `state`, `freeList`, `timerID`, `kind`, `align` the control blocks
and the words of alignment; `queued` how many expiries are in the queue to the timer
task. The calls are a step each (they lock interrupts); the tick handler counts in one
step and handles each timer due in another. **SoftTimers** – abstract: per timer the
ticks to its next expiry. `LosSwtmr!ImplementsSoftTimers` maps them to `osSwtmrTimeGet`, the
sum of the counts up to the timer: no start, stop, deletion, restart or alignment of
one timer may move another. `backlog` is history: what was queued when the tick began.

**AtCmd** – `at_main.c` with the receive interrupt of the board and the data indications of the
BC95 driver. Clients call `at_cmd` or `at_write` (`stage`, `cmd`); they own `trx`
(trx_mux), wait for `tokens` (resp_sem) and are in `list` (the listeners). `rx`,
`wi`, `wi_bak`, `ri` are the receive ring, in lines; `queue` is recvQueue. One socket of the driver is
modelled: a command may be the one of `nb_close` or of `nb_connect`, which frees or takes the socket when it
returns (`op`, `used`), and indications are for this socket; `valid` is the flag of the indication that was put off, and `stale`, a
history variable, says that its socket was closed since. What lies under
cmd_mux is one step. What the receive task does with one message is one step, because its
priority is 0 and nothing it calls then waits. The modem is external: it answers
each command when it likes or never, and sends indications. A client's listener lives on its stack, a callback's is
allocated and expires. History: `mixed` (a wait timed out, a callback refused a text, or the ring was overrun,
after which lines and commands need not match), `own` and `okWithout` (before that: the
answer met its command's listener; OK was returned without).

**Sota** – the download state machine (`sota.c`), what the package verification accepts
(`package.c`), and the flash page that two of its users share: half of it is the flag of the
bootloader, half the record of `sota.c`. A handler is one step, except that a reset may come between
any two of its writes. A start is three steps: `flag_upgrade_init`, the two
halves of `sota_status_check`; a failing read of the record ends it (`sota_init` then fails, phase `failed`), a failing read of the
upgrade flag, which `sota_init` ignores, does not. External: the platform, which offers versions and asks for what it did
not hear of; the network, a set of messages that loses and reorders; the flash, whose writes may fail
before or after the erasure; the bootloader. History: `checked`, `seen`, `astray`.

**AtinyReport** – one registered client of one server, with the reports of /19/0 and another resource.
The agent task runs the loop of `atiny_bind`; its program counter `pc` goes through
reconnect, state, observe, registration and transactions (with the packet that is then read), and
application tasks call `atiny_data_report` and `atiny_reconnect` at any point of it. The state is that
of the code (`state`, `status`, `observed`, `transactions`, the list `nodes` and its
limit `max_cnt`); message IDs are named by what was sent with them, `sent` is what the server
may still answer. History: `told`, the calls of each report's callback, and
`dropped`, reports lost or sent without one. External: server and network, which lose, delay, repeat and refuse.

**MC...** – the instances for TLC. They define sets and functions that a `.cfg`
cannot; the rest is in the `.cfg` files.

Some definitions are marked *faulty*: variants of the definition that follows,
with a mistake one could make in that code (a bit not set, a counter not reset, a
test too early). No action uses them. With one in the place of the right
definition the property it is meant for fails; `PROJECT.json` says which
(`mutants`). They show that no property holds for lack of trying.

## 3. The runs

State counts are distinct states. All are exhaustive for their bounds.

| Run | Question | States |
|---|---|---|
| `task` | 3 tasks, of which two are created and deleted again, 2 priorities and idle; every call; handlers resume and delete | 809 000 |
| `task_live` | 3 tasks of one priority, slice of 2 ticks, sleeps, suspension; with fairness | 13 000 |
| `sort_link` | 3 sleepers on a wheel of 3 slots, timeouts up to more than 2 turns; with fairness | 20 000 |
| `sem` | 1 semaphore (binary or counting up to 2), 3 tasks of 2 priorities, a handler that pends, posts and suspends, a task that deletes another | 672 000 |
| `mux` | 1 mutex, 3 tasks of 3 priorities, nested to depth 2, timeouts | 138 000 |
| `queue` | 1 queue of 2 slots, 3 tasks read and write at both ends, a handler writes | 667 000 |
| `event` | 1 event of 2 bits, readers for any, for all and with clearing, a handler that writes and suspends, deletion of a reader, destruction | 140 000 |
| `swtmr` | 3 software timers of 1 to 4 ticks, one-shot and periodic, aligned or not, and a timer task that may be late | 479 000 |
| `at` | 2 clients, 2 commands, one of which may close or create the socket, an indication, a failing allocation, a ring of 4 lines, a queue of 2 messages; with fairness | 590 000 |
| `sota` | 2 versions of 2 blocks, 4 messages of the platform, a failing access to the flash, 2 resets | 3 457 000 |
| `report` | 2 reports, lists of 1 and 2, an update, one retransmission, one failure; with fairness | 529 000 |

Scheduler (`task`, `task_live`):

- `ListsMatchStatus` – each control block is in exactly the list its status word
  says: ready queue of its priority, a wait list, free, recycle (`LinkMatchesStatus`); in one list,
  once (`OneListPerTask`); the bit of a priority is set when its list is not empty
  (`BitmapExact`); a task is on the timer list when the status says so (`TimerMatchesStatus`).
- `UnblockedIsReady` – a task that nothing blocks is ready: no order of
  suspension, resumption, timeout and deletion loses a wake-up.
- `HighestRuns` – when no switch is under way the running task is the first of the
  highest priority. `SwitchesToHighest` – a switch goes to the highest ready task of
  the moment it is made, not of the moment it was requested.
- `NoStarvation` – a task that stays ready, with no higher one, runs again (the run has one priority; section 4 says
  what a higher task does to time slices).
  `EverySleepEnds`.

Kernel objects:

- `TokensConserved` – posts less acquisitions equal the count plus the tokens on
  their way to woken tasks. `WaitersFindNothing` – nobody waits for a semaphore
  that has tokens or does not exist.
- `GrantedToOwner` – the mutex is granted to its owner, as often as its depth
  says, and to nobody else, a hand-over in progress included. `BoostEnds` – a task
  that holds no mutex has its own priority.
- `SlotsConserved` – readable, writable and reserved slots add up to the queue's
  length. `ReservedQueueExists` – a queue for which a woken task has a reservation
  is not deleted. `ImplementsBoundedDeque`.
- `WaitersUnsatisfied` – nobody waits for events that are there, although a write shows the
  waiters for "any" only the bits it writes. `WokenFindEvents` – a woken reader finds
  what it came for unless another reader or a clear took it.
- `ImplementsSoftTimers`. `AlignedInPhase` – where intervals nest, timers aligned with each other expire
  together at every tick of the slower, whatever was started and stopped between (section 5).
  `LostOnlyBehindBacklog` – an expiry finds the queue full only when the timer task was
  already behind at the beginning of the tick.

Components:

- `ListenersHoldTrx` – a listener on a client's stack is in the list only while that client
  owns trx_mux, and is then alone in it; the receive task owns a level of trx_mux
  for every callback. `AnswerIsOwnUnlessMixed` – OK is the answer to the command that was sent.
  `EveryCommandReturns`. `PutOffIsSeen` – while an indication that found trx_mux taken is put off, and its socket is not closed, a
  message for the receive task is queued, or a client owns trx_mux, or has just posted it, and is going to send one. That it is
  served in the end is not promised: `LOS_MuxPost` hands trx_mux to the client that has waited longest, and clients that go on taking
  turns can put it off for ever.
- `InstallsVerified` – the bootloader is told to install only what is one version in all its blocks.
  `ReportsWhatRuns` – a started device reports the version that it runs.
  `RefusedOnlyAfterAnother` – a complete download is refused only if another version was mixed into it.
- `ReportsConserved` – a report that was taken is in the list, in one transaction, or told once, or dropped on
  the way, or sent without a callback. `PendingIsAwaited` – a registration or update that is pending has a transaction. `EveryReportEnds`, for finitely many reports: while new ones
  keep coming the loop of `observe_app_step` does not end.

These say *unless* where the code does otherwise; section 4 says how. The exceptions are as narrow as the history
variables can make them.

*Bounds, and why they are enough.* Three tasks beside idle: one that acts, one
it acts on, one that comes in between or is next in the list; two that share a priority
and one that does not. Priorities: one above the tasks' own, so that they can be
raised. Timeouts of one and two ticks: two tasks due at one tick, or one after the other.
The wheel's 32 slots become 3, with timeouts of more than two turns, so that entries come before,
between and after others of their slot. COUNTING_MAX is 2 for 0xFFFF: at the limit, below it, empty.
Queue length 2: empty, full and in between, with wrap-around at either end.
Timers of 1, 2, 3 and 4 ticks with a common divisor of 2: multiples, fractions and neither; three of
them, so that one is inserted before, between and after others. IDs up to 6 for 3 blocks: they wrap around. A ring of 4 lines holds
two answers and an indication, and is overrun by the next. Two commands suffice for one
to take the other's answer. Two versions of two blocks: a first and a last block, a package of mixed blocks. Reports: two,
in a list that holds one until the server creates the instance anew. (With two updates and without the liveness property `report` has 4.7 million
states and passes, too.) `MaxCommands`, `MaxIndications`, `MaxLeaks`, `MaxNotices`, `MaxBadWrites`, `MaxResets`, `MaxReports` and
`MaxUpdates` bound what the environment does. (`MaxBadWrites` counts failing reads at a start as well; `MaxIndications` keeps the modem
from sending indications for ever, with which it could keep every command waiting.)
`MaxLock` and `MaxDepth` bound the two counters that calls can raise without limit;
the code lets both overflow 16 bits, which nested calls do not reach.

*Fairness* (`TaskFairness`, `SortLink!Fairness`). Weak fairness of the tick, because
the timer never stops and its handler is shorter than a tick. Strong fairness of PendSV,
because when it is pending it is taken before the next tick can come, though
ticks keep disabling it. Strong fairness of a task's second half of a call,
because a task that has the core executes; it is not assumed that a task makes
any call. Nothing is assumed of device interrupts. `AtFairness`: a client that has its token
or its timeout goes on, the UART reports an idle line, callbacks reach their time of expiry, the receive
task, which has the highest priority, runs; strong fairness of taking trx_mux, because the kernel hands
it to the one that has waited longest. The modem promises nothing: hence "or the modem is silent
for ever" in `EveryCommandReturns`. `ReportFairness`: the agent task runs, and the retransmission time of each report's
transaction comes (strongly, since the loop passes it again and again). The server promises nothing.

*Deadlock* is checked except in `sem`, `event`, `at` and `sota`. In the first two, a task that a
handler has suspended while it was about to be switched to may run and wait, or a task be deleted after its wait timed out (section 4); the core is
then in HardFault, where nothing happens, and the invariants hold in that state too. In the
last two the bounds on what the environment does end the behaviour.

## 4. What the code does otherwise than it says

One run, `mux_inherit`, is kept as a counterexample: the mutex goes to the first waiter in order of
arrival, who is not lifted to the priority of the others. `los_mux.h` promises priority inheritance.
The rest of this section is what the models contain (or, where it says so, leave out) and no run shows by itself.

Kernel:

- With nested interrupts, a suspension between the two lines of `osTaskScan` that read and use the
  status (`los_task.c:256`) is overruled; the task is then in no list although nothing blocks it.
  `NestedIsr = TRUE` in `MCTask.cfg` makes `UnblockedIsReady` fail.
- `LOS_Schedule` chose task b; before PendSV a handler suspends b. `LOS_TaskSuspend` looks for a new
  choice only if its target is *running*. b runs, suspended and in no ready list; when it blocks, the dequeue
  follows NULL links. `IsrSuspendIDs = {b}` makes `SwitchesToHighest` fail.
- A wait timed out; before the task has run again, it is deleted. TIMEOUT is still set, and
  `LOS_TaskDelete` (`los_task.c:1037`) unlinks it from the timer list for a second time: a fault. The runs `sem` and `event` contain it, and
  their properties hold until then; `task` and the theorems about it have no task that waits for a kernel object, where it cannot happen.
- Two tasks of one priority below one that wakes every second tick: the slice is restarted each
  time another task ran at the tick (`los_timeslice.c:72`), never used up, and one of the two never runs.
- The waiter that caused a boost timed out; the last post (`los_mux.c:310`) lowers the owner and does not
  reschedule, although a task of a priority in between is ready.
- `LOS_SwtmrStart` writes the alignment word before it looks at the state (`los_swtmr.c:761`): called with
  the ID of a deleted timer it marks the block for its next user, who is aligned though `los_swtmr.h:247`
  lets each timer choose. The model's callers do not use the ID of a timer they deleted.
- A one-shot timer is deleted, and its ID changed, before the timer task calls its handler; the expiry holds no ID, so
  a deletion cannot take it back.

AT commands:

- resp_sem is posted when a callback refuses a text, though no client waits (`at_main.c:432`): the next command
  takes that token for its answer. A timeout does the same with the late answer.
- `read_resp` sets `ri` back to the end of what it reads (`at_hal.c:190`), and `wi` may overtake `ri`.
- A failing `at_malloc` in `at_cmd_in_callback` leaves a level of trx_mux with the receive task (248).
- An expired callback is removed only when some message comes (503): while the modem is silent every command waits.
- `at_listner_list_del` looks at the first two listeners and loops for ever for another (119); `ListenersHoldTrx` is
  why that does not happen. `at_listner_list_destroy` never advances (not modelled).
- The indication that was put off survives `nb_close` (`bc95.c:720`): nothing is done for it while the socket is closed, and a socket created
  in its place is served it, with the old length.
- A second indication that is put off overwrites the first (`bc95.c:865`). `nb_cmd_match` is offered and not
  registered by `main.c`; the model registers it.

Firmware update:

- `block_tolen` is not reset by a notification of another version (`sota.c:291`); the length check then fails.
- MSG_EXC_UPDATE is executed although `write_software_end` refused the download (351), and whatever version it names.
- A block carries no version: a late one of another version is written as this one's.
- In DOWNLOADED, a timeout and the same notification again ask for a block past the last.
- In BOOT mode a restart in mid-download loses the head, so no later block is accepted.
- A failing read of the upgrade flag is ignored by `sota_init`: the device starts with a flag that says IDLE, and an upgrade that was
  made is not reported. `ReportsWhatRuns` excepts it (`astray`).
- `get_result` clears the stored result before anybody has acted on it (`upgrade_flag.c:110`).
- No task of the repository calls `sota_init` or `sota_process`. Not modelled: the restored package checksum counts the
  length of the head twice (`package_checksum.c:132`).

LwM2M agent:

- `prv_getWatcher` frees the observation it has just linked when the allocation of its watcher fails (`observe.c:190`), and leaves it in
  the list. What happens then is undefined and not modelled: `WithWatcher` assumes that this allocation succeeds.
- A report without a callback is sent once, unconfirmed (`observe.c:608`): nobody learns what became of it.
- A report answered by a reset is told as SENT_SUCCESS (`transaction.c:312`), though `agenttiny.h:267` has
  SENT_GET_RST; a transaction that was killed early may be told SENT_TIME_OUT.
- A cancellation by GET ends the newest observation, whatever its URI (`observe.c:263`).
- After a failed registration the connection is closed and its observations and transactions stay
  (`registration.c:1421`); reports then taken from the list are lost without a callback. So they are with an inactive watcher.
- `observe_clear` raises no OBSERVE_UNSUBSCRIBE: the reports stay in their list until somebody observes.
- The report callback runs under g_mutex (`atiny_rpt.c:245`), a binary semaphore: a callback that queues a report waits for ever.
  Not modelled, nor the other calls an application's callback may make.
- A value that changes between the send of a plain notification and `update = false` is not notified (`observe.c:907`; not modelled).
- The header names ATINY_MSG_CONGEST and ATINY_BUF_OVERFLOW; the code returns ATINY_RESOURCE_NOT_ENOUGH and ATINY_ARG_INVALID.

## 5. The proofs

What is proved, for every value of the constants that the assumptions allow:

| Module | Theorem | Says |
|---|---|---|
| `LosTaskProofs` | `TypeCorrect`, `ListsAgree`, `NoLostWakeUp` | `TaskTypeOK`; until a fault, `ListsMatchStatus` and `UnblockedIsReady` |
| | `HighestAlwaysRuns`, `SwitchesGoToHighest`, `ListsAlwaysAgree` | when handlers suspend nobody: `HighestRuns`, the action property `SwitchesToHighest`, and, for the calls of LosTask, which has no waits for kernel objects, the above without "until" |
| `LosSemProofs` | `SemTypes`, `TokensAlwaysConserved`, `NobodyWaitsInVain` | `SemTypeOK` (a control block is in the free list, once, exactly when it is not in use; so for mutexes and queues), `TokensConserved`, `WaitersFindNothing` |
| `LosEventProofs` | `NobodyWaitsSatisfied`, `WokenAlwaysFind` | `WaitersUnsatisfied`, `WokenFindEvents` |
| `LosMuxProofs` | `MuxTypes`, `GrantsMatchOwner`, `EveryBoostEnds` | `MuxTypeOK`, `GrantedToOwner`, `BoostEnds` |
| `LosQueueProofs` | `QueueTypes`, `SlotsAlwaysConserved`, `NoQueueDeletedUnderTask`, `QueuesAreBoundedDeques` | `QueueTypeOK`, `SlotsConserved`, `ReservedQueueExists`, and the refinement `ImplementsBoundedDeque` |
| `TimerProofs` | `WheelTypes`, `WheelIsExact` | `TypeOK` of SortLink, and the refinement `ImplementsTaskTimers` |
| | `SwtmrTypes`, `LossNeedsBacklog`, `AlignmentKeepsPhase`, `SoftTimersAreKept` | `SwtmrTypeOK`, `LostOnlyBehindBacklog`, `AlignedInPhase`, and the refinement `ImplementsSoftTimers` |
| `ComponentProofs` | `SotaTypes`, `UpgradesAreVerified`, `ReportedIsRunning`, `RefusalsExplained` | `SotaTypeOK`, `InstallsVerified`, `ReportsWhatRuns`, `RefusedOnlyAfterAnother` |
| | `ReportTypes`, `EachReportOnce`, `PendingAlwaysAwaited` | `ReportTypeOK`, `ReportsConserved`, `PendingIsAwaited` |
| | `AtTypes`, `ListenersAreSafe`, `PutOffAlwaysSeen`, `AnswersAreOwn` | `AtTypeOK`, `ListenersHoldTrx`, `PutOffIsSeen`, `AnswerIsOwnUnlessMixed` |

So every safety property that a run checks has a theorem. Each component has one inductive invariant (`TaskInv`, `SchedInv`,
`SemInv`, `EventInv`, `MuxInv`, `BoostInv`, `QueueInv`, `SortInv`, `SwtmrInv`, `PhaseOK`, `SotaInv`, `ReportInv`, `AtFit`,
`SocketFit`, `OwnFit`; the second of a pair rests on the first); each action has a lemma or a step. `LosListTheorems` and
`LosTaskProofs` hold the lemmas that several of them cite.

*Assumptions.* The named assumptions of the modules, which TLC evaluates on every run: the idle task is
alone at the lowest priority, every control block starts in one list, list heads are distinct, timeouts
are at least a tick, the control blocks of tasks, semaphores, mutexes and queues are finitely many (they
are arrays), `MAX_TIMERID` is a multiple of the number of timers (so that an ID names one block for ever). The theorems of the kernel have further hypotheses, each because the property is false without it:

| Hypothesis | Theorems | Why |
|---|---|---|
| `~NestedIsr`: no interrupt handler preempts the tick handler | all of the kernel | a suspension between the two lines of `osTaskScan` is overruled (section 4) |
| "until a fault" | `ListsAgree`, `NoLostWakeUp`, and the part of the kernel objects' invariants about lists | a handler that suspends the task a switch was requested for makes the core follow NULL links (section 4) |
| `IsrSuspendIDs = {}`: handlers suspend no task | `HighestAlwaysRuns` and those after it | the same: `LOS_TaskSuspend` leaves `pstNewTask` at a task that is no longer ready |
| `UsersLive`: no task that uses mutexes, or queues, is deleted | `LosMuxProofs`, `LosQueueProofs` | `los_mux.c` does nothing about a deleted owner; what a deleted, woken reader or writer had reserved is counted nowhere |
| `OneAtATime`: nobody holds two mutexes | `EveryBoostEnds` | released in another order than taken, the second restores the priority that the first had lifted (`los_mux.c:310`) |
| `OwnersKeepBase`: nobody sets an owner's priority | `EveryBoostEnds` | `LOS_MuxPost` restores the priority of before, and undoes `LOS_TaskPriSet` |

The last two are hypotheses on the behaviour, `MuxSpec /\ []OneAtATime /\ [][OwnersKeepBase]_allVars`. The runs
`task`, `task_live`, `mux` and `queue` are instances of the theorems with all their hypotheses; in `sem`, a handler that
suspends is allowed, and so a fault.

### The scheduler

None of the properties is inductive: a step leaves the lists
right only if it finds the status words possible. `TaskInv` is `TaskTypeOK` and, unless
the core has faulted, `Healthy`:

- `QueuesOK` – the three list properties in terms of membership (who is linked
  where), and the bitmap;
- `ShapeOK` – which sets of flags a status word can be (ready excludes waiting and suspension; a
  task nothing blocks is ready; an unused block has no other flag);
- `HandlesOK` – a block that is being created is suspended, linked nowhere, known to no other
  call and created by one task only;
- `ScanOK` – between the two halves of the scan, what was read is still so: this is
  where `~NestedIsr` is used;
- `SliceOK`, `TimerMatchesStatus`, and that the idle task is ready.

The effect of list operations on membership is stated once, in
`LosListTheorems` (what is linked after an insertion, a deletion, a move of a whole
list; that nothing is linked twice), and the action lemmas work with membership alone.

`SchedInv` adds what connects the running task with the ready queues. A switch to the highest
task may be owed in three places: the running task is between its critical section and
`LOS_Schedule`, PendSV is pending, or the tick handler has woken a task and has not ended its
scan. `SwitchOK` says that there is no fourth, and that the task chosen is the
right one as long as PendSV is pending. From that follows that no call of LosTask unlinks twice (`NoFaultWithoutWaits`); the wait
that can lead to it (section 4) is in the modules of the kernel objects.

### Kernel objects

A task that waits is at the mercy of every step of LosTask. `LosTaskProofs` proves once what such
a step may do to it: leave its wait alone, or end it, by the timeout or with the task (`WaitsEnd`); and
a task goes on only when it is in no wait list (`RunnerOK`). The four modules then
need only their own actions.

- `SemInv`: who is in a wait list waits for that semaphore; `AllTokens`, which is `TokensConserved` for every block, in
  use or not: one that is created again inherits the woken tasks of the deleted one.
- `EventInv`: who is in the wait list of an event reads that one (`LinkedReads`), and `WaitersUnsatisfied` and
  `WokenFindEvents`, which are inductive with it, deletion of readers included. `LOS_EventWrite` goes down the wait
  list with a test; the proofs follow it with a recursive function of the position (`WalkTo`) and show for every position
  who was taken off the list, and that the scheduler's invariants hold between two wake-ups.
- `MuxInv`: who was granted a mutex, or is on its way back from a wait with it, is its owner, and nobody else is
  (`OwnersKnow`, `DepthsMatch`); who waits, waits for a mutex that has an owner. `BoostInv` adds that the
  control block of a mutex remembers its owner's own priority.
- `QueueInv`: `RingsOK`, `FreeOK`, `OperationOK` (a waiting task's arguments), `LinkedWaits` (who is in a wait list of a queue
  waits for that side of it), `WaitersExist`, `SlotsConserved`, `ReservedQueueExists`.

The refinement. `Contents(q)` reads the ring from the head over the used slots, those reserved for woken readers
included; a slot reserved for a woken writer is not yet used. Lemmas about the ring (`SpanTake`, `SpanAppend`, `SpanPush`) show what moving
the head, the tail, or the head backwards does to that sequence, modulo the length. Each action of LosQueue is then
shown to be a step of BoundedDeque (create, delete, put at either end, get) or none.

### Timers

Both lists of `los_sortlink.c` and `los_swtmr.c` store differences, so that the ticks a task or timer has left are a sum over
those in front of it. The induction theorems take an operator and cannot be instantiated here; what is needed of the sums is proved
from their defining equations and the least number at which an equality could fail (`NatMinimum`).

- The wheel (`SortInv`: `TypeOK`, nobody twice in a slot, and everyone in the slot of its `sortIndex`). Insertion, deletion and
  the tick's decrement change the sum of one task as they should and of the others not at all; the slot's distance from
  the cursor adds the rest modulo the wheel's length. Each step is then one of `TaskTimers`, for every length of the wheel.
- Software timers (`SwtmrInv`): who runs is on the list once; what an alignment word tells (`WordsOK`: an aligned timer runs and
  is periodic); a timer is due only while a tick is being handled (`LeftOK`); the expiries in the queue and those to come in
  this tick do not exceed those before the tick and one per timer (`BacklogOK`).
- `PhaseOK`: all timers that alignment keeps in phase are so pairwise. That a new timer, which the code compares with
  one other only, is in phase with all of them follows by arithmetic of divisors, provided that intervals
  nest: of two intervals that alignment looks at, one divides the other (`IntervalsNest`, a premise of
  `AlignedInPhase`). Without it the property is false: a timer of 2 ticks cannot be in phase with one of 4 and one
  of 6 that expire at odd and at even ticks.

### Firmware update

Three stories have to agree: the record in memory, the record in flash, and what was written and
hashed. `SotaInv` follows them: `Typed`; `SessionOK` (where in a session the device is, as records, package and upgrade flag
tell); `HashOK` (what was hashed is what was written, from block 0 on); `CheckedWhole` (what was accepted is one version
throughout); `SeenOK` (as long as one version was seen, `block_tolen` counts its blocks and no others, in both records, and the
hash is over it); `DownloadOK` (the blocks a record counts are those of its version); `InstalledOK` (the version that runs is
the one known, or on its way there in the record).
Resets between any two writes and writes that fail are steps like others.

### Reports

`ReportInv`: `OnePlace` (`ReportsConserved` with truth values in the place of cardinalities), `OneCarrier` (no two transactions carry
one report), `ObserveOK` (a watcher that remembers a report's message belongs to an observation of /19/0; without it a
reset would cancel an observation that is not there), and types. Every step is one of five ways for reports to move
(`OverIsTold`, `SameCargo`, the sending, losing and queueing of one; a report sent without a callback counts as lost). `PendingIsAwaited` is inductive with the types alone.

### AT commands

`AtFit` gives types to what clients, interrupt and receive task share, and says who may have `trx_mux` (`TrxFits`): nobody, and no
listener is in the list; one client, and its listener is the only one; or the receive task, with one level for each
callback that is listed or was lost. The walk over expired callbacks is followed with a recursive function of the position.

`SocketFit` is `PutOffIsSeen` and that what is put off while the socket is closed is of the closed one: whoever posts trx_mux sends a
message next, and a message is lost only if others are queued.

`OwnFit` holds until something is mixed up. `SegmentsFit`: the segments of the ring that the queue announces are disjoint and
read in the order written. `Account`: every line on its way, in the modem or in the ring, is what the owner of
`trx_mux` waits for, and lines and tokens together never exceed its waits (one for a client, one for each level of the receive task). So
a token for a client can only come from its own answer.

### Only model-checked

The five liveness properties (`EveryCommandReturns`, `EveryReportEnds`, `EverySleepEnds`, `EveryTimeoutEnds`,
`NoStarvation`): fairness and ENABLED are out of the proof system's reach.

## 6. The plan

Done: LosList, TaskTimers, SortLink, LosTask, LosSem, LosMux, LosQueue,
BoundedDeque, LosEvent, LosSwtmr, SoftTimers, AtCmd, Sota, AtinyReport.

To model, in this order:

1. **LosMail** on LosQueue: the membox pool and `osQueueMailAlloc`/`Free`; blocks conserved;
   the missing scheduler-lock test; deletion of a woken waiter, for the queue too.
2. **AtinyFota**: the busy states of the firmware-update manager, the stored result, the package writer.
3. Callbacks and notifications of AtinyReport: calls under g_mutex, the `update` tag of a
   watcher against a change that comes during the send.
4. Interrupt-handler variants of the remaining task calls, the yield's window with nested
   interrupts, two mutexes at a time, tickless idle against SortLink.

To prove: the safety properties of each of these, as it is modelled; and the kernel's theorems with `NestedIsr`, for the
properties that the finding of section 4 does not refute.

## 7. What is not modelled

- Register contexts, stacks, exception frames and the idle task's work: they do
  not take part in what the properties say. That PendSV saves and restores them is taken for granted.
- Arguments out of range: the calls return an error and change nothing.
- Heaps, VFS and the other sequential libraries, wire formats, cryptography:
  no concurrency of their own, and data that small instances do not represent.
- Vendored stacks and the board support package.
- `OS_TASK_STATUS_EVENT`: tested in `OS_CHECK_TASK_BLOCK` and `osTaskScan`, set nowhere;
  events wait with PEND.
- Software timers in the tickless build (`osSwTmrAdjust`) and interrupts that nest in their scan.
- Initialisation of an event that tasks wait for: `LOS_EventInit` (`los_event.c:48`) empties the wait list unconditionally, and the links of the
  waiters still lead into it. The model initialises an event nobody waits for, again if the caller likes.
- `at_init`, `at_deinit`, the command strings and parsers of the AT devices, more than one socket, and `sota_cmd`, which sends without trx_mux
  and is only compiled with WITH_SOTA. A socket whose queue cannot be created is closed with one more command, which the model counts as a
  client's next.
- Frames, byte formats and the writer's buffering of a firmware package; check codes that collide; recovery flags;
  an empty GET_BLOCK.
- A failed allocation of a watcher, after which the agent's behaviour is undefined (section 4).
- LwM2M bootstrap, deregistration, attributes, block transfers, the retry after 4.01, and the reuse of a closed
  connection's address by the next one.
- MuxPost and the remaining task calls from interrupt handlers (see the plan).
