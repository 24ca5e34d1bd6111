# A TLA+ model of the UniProton kernel

UniProton is a real-time operating system for small cores: a preemptive,
priority-driven kernel with inter-task communication, software timers and memory
pools, and around it drivers, a C library and vendored components. This directory
holds TLA+ models of its single-core (AMP) kernel, TLC configurations that check
them on small instances, and TLAPS proofs for instances of any size.

Paths below are relative to `src/` of the repository (`core/kernel/...` is
`src/src/core/kernel/...` in `PROJECT.json`).

## 1. The system

| component | code | state | operations that change it | modelled |
|---|---|---|---|---|
| scheduler | `core/kernel/sched`, `prt_task_sched_external.h` | ready lists by priority and their bitmap, `g_highestTask`, `RUNNING_TASK`, `OS_FLG_TSK_REQ` | ready add/delete, find highest, switch now or at the interrupt's tail, round-robin slice | `TaskSched` |
| task management | `core/kernel/task/amp` | control blocks: status bits, priority, free and recycle lists, `g_uniTaskLock`, the sorted delay list | create, resume, suspend, delete, exit, delay, yield, lock, unlock, set priority | `Task` |
| tick | `core/kernel/tick` | `g_uniTicks` | scan of the delay list, of the timers | `Task` (delay list) |
| interrupts | `core/kernel/irq`, `arch/cpu/*/hwi` | active flag and nesting, handler tables | dispatch, tail, registration | `Task` (dispatch, tail) |
| semaphores, mutexes | `core/ipc/sem` | count, owner, recursion, wait list, `semBList` of a task | create, delete, pend, post, inheritance and restoring of priorities | `Sem` |
| queues | `core/ipc/queue` | circular buffer, two counters, two wait lists | create, delete, read, write (normal, urgent) | `Queue`, `BoundedDeque` |
| events | `core/ipc/event` | event bits and mask of a task | read (ANY, ALL), write | `Event`, `EventFlags` |
| read-write locks | `core/ipc/rwlock`, `libc/litelibc/src/thread` | count, owner, two wait lists | init, destroy, read/write lock, try, timed, unlock | `Rwlock` |
| signals | `core/ipc/signal` | pending set and list, mask, diverted context | deliver, wait, mask, suspend | no |
| software timers | `core/kernel/timer` | wheel of 64 lists, relative roll counts, state with `PRE_` bits | create, start, stop, restart, delete, scan | `SwTmr`, `TimerDeadlines` |
| memory | `mem/fsc` (default), `slab`, `tlsf`, `bestfit` | free lists by size class, block headers | allocate, free | `FscMem` (FSC) |
| SMP kernel | `core/kernel/task/smp`, `prt_sched.c`, `spinlock` | a run queue a core, operation marks, object locks | the same services, migration | no |
| dynamic modules, maintenance hooks, CPU usage, start-up, exceptions | `core/extend`, `om`, `core/kernel/sys`, `kexc` | - | - | no |
| architecture layer, adaptation layers, libraries, drivers, network, file systems | `arch`, `osal`, `libc`, `component`, `net`, `fs`, `drivers` | - | - | no |

The interactions that make the kernel hard to test:

* every blocking service takes the running task off the ready lists, puts it on a
  wait list, perhaps arms its timer, and switches; the task goes on later with
  whatever the hand-over, the tick or a deletion has made of its status bits;
* one `pendList` node links a task into a ready list, a wait list or the free list,
  one `timerList` node into the delay list. The status bits say which: a bit that is
  stale unlinks a node that is in no list;
* interrupt handlers call most services. They change lists at once and ask for a
  switch, which happens in the tail, perhaps after further changes;
* the scheduler lock defers switches, until the unlock or the next tail;
* priorities change under inheritance while tasks are in priority-ordered lists.

`PROJECT.json` lists these as hazards, each at the line where it bites and with the
properties that would catch it.

## 2. Modules

**`TaskSched`** declares the kernel's record `k` (its fields are described at the top
of the module) and translates the internal functions as operators from a record to
the next one. Code that runs with interrupts locked cannot be interrupted on one
core, so a service is one step and its body is the composition of the functions it
calls, in their order: `OsTskReadyAdd`, `OsTskReadyDel`, `OsTskTimerAdd`,
`OsTskHighestSet`, `OsMainSchedule`, `OsTskSchedule`, `OsMoveTaskToReady`, the
round-robin `OsHwiEndCheckTimeSlice`, and the tick's `OsTaskScan`, which is unrolled
into one step a task (`ScanTask`) and a last one (`ScanEnd`).

**`Task`** adds the control-block lists and one action per service: `TaskCreate`,
`PRT_TaskResume`, `PRT_TaskSuspend`, `PRT_TaskDelete`, `PRT_TaskDelay`,
`OsTaskYield`, `PRT_TaskLock`, `PRT_TaskUnlock`, `PRT_TaskSetPriority`; the return of
a task function in two steps (`OsTskEntryReturn`, `OsTaskExit`), because the code
opens interrupts in between; and the interrupt: `OsHwiDispatch`, `OsTickDispatcher`,
the scan, `OsHwiDispatchTail`. The services an interrupt handler and a task may call
are the constants `IsrCalls` and `TaskCalls`.

**`Sem`** extends `Task`: counting semaphores with FIFO wait lists, and recursive
mutexes with priority-ordered ones and inheritance. `PRT_SemPend` is the block
(`SemPendBlock`), a step for each turn of the loop along the owners
(`OsPriorityInherit`), the switch (`SemPendSwitch`) and the part after it
(`SemPendReturn`), with interrupts locked throughout. `TaskStep` composes the task
services with the semaphores.

**`Queue`** extends `Task`: the ring of nodes, the counters of writable nodes and
readable messages, and two FIFO wait lists. A call that can be served is one step
(`QueueAtOnce`); one that cannot is the block (`QueueBlock`) and, when the task runs
again, the rest (`QueueResume`). In between the task may have been handed a node
(`OS_TSK_QUEUE_BUSY`), timed out or been suspended. `OsQueueCreate` and
`PRT_QueueDelete` come and go around them. **`BoundedDeque`** is what it implements: a
bounded sequence with writes at either end and no tasks.

**`Event`** extends `Task`: `EventReadNow`, the block `OsEventReadNeedSche`, its second
half `EventReadResume`, and `PRT_EventWrite` from tasks and interrupts.
**`EventFlags`** is what it implements: a set of bits for each task, taken in one step.

**`Rwlock`** extends `Task`: `RdLock`, `WrLock`, `RdBlock`, `WrBlock`, the hand-over in
`OsRwLockUnlock`, `RwReturn`. The timed calls open interrupts for a moment when the
task runs again, before they look at `OS_TSK_TIMEOUT`; `RwReturn` is a step of its own
for this reason. `rd` counts the read locks each task has, which the code does not
record; properties use it.

**`SwTmr`** is the timer wheel: one action for each call, `OsSwTmrScanOneSlot` for the
tick and `OsSwtmrProc` for the return of a handler. Handlers run with interrupts open,
so all calls are possible between them; a timer on its way through the handlers keeps
what is asked of it in its `PRE_` bits, and the last call counts. A timer that expired
on the same tick as another has its handler run even if the other's handler stops it.
**`TimerDeadlines`** is what it implements: a count of ticks for each timer, no wheel.

**`FscMem`** is the FSC allocator. Addresses and sizes are in words. `heap` has the
fields of the header at each address, the lists and the bitmap. `OsFscMemAllocInner`
and `OsFscMemFree` are one step each: they run with interrupts locked. `offset` is the
half-word in front of each address: `OsMemSetHeadAddr` stores there how far an aligned
area is from its header, and `OsFscMemFree` takes the address and finds the header with
`OsMemGetHeadAddr`. The same half-word is part of the header's `prev` when the area was
not moved, and in a free block `prev` is a link; `Links` is what a call does to these
words. Half-words that belong to no pointer are not kept, so that the state does not
grow with the history of freed memory; every one is written before it is read. A caller
may write over the tail word of its area (`Overrun`), which the code detects.

**`ListProofs`**, **`SchedProofs`**, **`TaskInvariant`**, **`TaskProofs`**,
**`TaskStepProofs`**, **`TaskDelayProofs`**, **`FscMemBlocks`** and **`FscMemProofs`** hold
the proofs. **`MCTask`**, **`MCSem`**, **`MCQueue`**, **`MCEvent`**,
**`MCRwlock`**, **`MCSwTmr`** and **`MCFscMem`** name the model values for TLC.

How the data is abstracted:

* `taskStatus` is the set of its bits; a list is a sequence; the bitmap is the set of
  non-empty ready lists;
* `expirationTick - g_uniTicks` of a delayed task is the number of ticks `left`, so
  the tick counter never grows; it is a 64-bit counter in the code;
* the free list of control blocks is a set: the order in which blocks are handed out
  has no bearing on the properties;
* stacks, contexts, names, hooks and error reports are left out; a context switch is
  the change of `running` together with the `OS_TSK_RUNNING` bits;
* nested interrupts are one active interrupt: only the outermost tail switches.

`fault` marks the undefined behaviour the code could reach: `ListDelete`
(`prt_list_external.h:82-88`) sets a node's pointers to NULL, so a second one
dereferences NULL. The handler's other assignments are still made and then every
action is disabled; properties about lists are stated for `~k.fault`, and `NoFault`
is a property of its own.

Assumptions on the callers: `PRT_TaskLock`, `PRT_TaskUnlock` and `PRT_TaskDelay` are
called from tasks; the idle task calls no service; a task that owns a mutex is not
deleted and does not return (a comment at `prt_task_del.c:31` leaves this to the
application), and the same goes for read-write locks; a task unlocks a read-write lock
only if it has it, for reading or for writing (`OsRwLockUnlock` lets any task take back
a read lock as long as there is one; only the owner is recorded); memory is freed
through a pointer its caller holds; a handler of a timer returns. A pointer freed twice
is not modelled: `OsFscMemInsert` writes a link over the half-word, so what a second
free takes for the header depends on the addresses and on the word size. `semOwner` of a
counting semaphore, which only `PRT_SemGetInfo` reads, is left out.

## 3. Runs

| run | instance | shows |
|---|---|---|
| `task` | 3 tasks, 2 priorities, delays up to 2 ticks, lock depth 2, all services from tasks and interrupts; 132 000 states | `TypeOK`, `NoFault`, `ReadyListsExact`, `ReadyIffNotBlocked`, `RunsHighest`, `DelayListExact`, `TcbAccounted`, `LockedTaskRuns`, `NoSwitchWhileLocked`, `SelfDeleteDeferred` |
| `round_robin` | 2 round-robin tasks, delays up to 2 ticks, fair interrupts; 3 388 states | `DelayEnds`, `RoundRobinShares` |
| `round_robin_suspend` | as above, handlers may suspend | counterexample to `SuspendedNotReady` |
| `mutex` | 3 tasks, 2 mutexes, timed and untimed waits, recursion, priority changes, deletions from interrupts; 802 528 states | `SemTypeOK`, `MutexOwnedOnce`, `WaitersExact`, `WaitersByPriority`, `OwnerInherits`, `PriorityRestored`, `ResultMatchesOwner`, `InheritEnds` |
| `semaphore` | 3 tasks, a mutex and a counting semaphore, timed and untimed waits, posts and deletions from interrupts; 1 571 766 states | `NoFault`, `NoTokenWithWaiters`, `SemRunsHighest`, `TokensConserved` |
| `sem_timeout_delete` | 2 tasks, waits with a timeout, deletion at any time | counterexample to `DeleteReleases` |
| `queue` | 2 tasks and interrupts, queues of 1 and 2 nodes, 2 messages, suspension and deletion of tasks and of the queue; 695 358 states | `NodesAccounted`, `BusyExact`, `NoIdleWaiter`, and by `ImplementsDeque` that `Queue` implements `BoundedDeque` |
| `rwlock` | 3 tasks, 1 lock, 2 priorities, timed and untimed, suspension and deletion; 2 032 778 states | `RwExclusion`, `RwWaitersServed`, `ReaderYields` |
| `rwlock_priority` | as above, priorities change | counterexample to `ReaderYields` |
| `event` | 2 tasks and interrupts, 2 event bits, fair ticks; 337 306 states | `NoLostEvent`, `TimedReadEnds`, and by `ImplementsFlags` that `Event` implements `EventFlags` |
| `swtmr` | 3 timers, a wheel of 2 lists, intervals 3 (periodic) and 6 (once); 64 858 states | `TimersPlaced`, `TimerFires`, and by `ImplementsDeadlines` that `SwTmr` implements `TimerDeadlines` |
| `fscmem` | a heap of 38 words, 3 kinds of request, one of them aligned, one area written over; 59 218 states | `HeapExact`, `AllocComplete`, `AreasApart` |

The bounds. Three tasks are the running one, one that is handed the processor and one
that is in a list with either of them, which makes orders within a list and chains of
two owners visible; for queues and events interrupts take the part of the third. Two
priorities make preemption and ties; the idle task shares the lower one in `task`,
`round_robin` and `round_robin_suspend` and has one below them in the other runs. Delays
of 1 and 2 ticks give expiries that are equal and different. `MaxLock = 2` is the first
depth at which an unlock is not the last. `MaxCount = 1` makes the full semaphore
common. `MaxNode = 2` lets head and tail wrap, meet when the queue is full and meet when
it is empty; a queue of one node has them equal always. `MaxRead = 2` gives a lock
shared by two readers. A wheel of two lists makes interval 3 change lists and interval 6
come back to the cursor's own list, three rounds later, and three timers put one between
two others in a list. The heap holds up to five small blocks, enough for a block with a
free neighbour on either side, for one that is split and for lists of different sizes;
one overwritten area at a time is enough because each is handled on its own. `LinkHalf =
3` is an offset that aligned areas have, so that a link taken for an offset shows.
Except in `sem_timeout_delete`, a task whose timed wait has expired is not deleted
before it has run (`NoStaleDelete`): that case is the second counterexample.

Fairness. `round_robin` and `event` assume that a pending interrupt is taken
(`OsHwiDispatch`) and reaches its tail, that the scan loop goes on (it runs with
interrupts locked), that the tick timer keeps interrupting, and that a task which keeps
running uses up its slice. Strong fairness is on the tick and the tail because services
called from handlers, which are steps of their own, enable and disable them in turn.
`event` adds, and `mutex` assumes only, that code with interrupts locked goes on.
`swtmr` assumes that ticks go on and that handlers return.

### Three disagreements

* `round_robin_suspend`: `OsHwiEndCheckTimeSlice` moves the running task to the back
  of its ready list when its slice is over, whatever its status. When a handler of the
  same interrupt has just suspended the task, it is unlinked a second time and is back
  in the ready list with `OS_TSK_SUSPEND` on; `prt_task.h:1193` says that a suspended
  task is deleted from the ready queue. The run `round_robin` therefore has no suspend
  in handlers.
* `sem_timeout_delete`: `OsTaskDeleteResInit` takes `OS_TSK_TIMEOUT` for "the timer is
  linked". When a timed wait expires, the scan unlinks the timer and leaves the bit for
  the waiter to clear; a task deleted before it runs has its timer unlinked twice,
  where `prt_task.h:1216` promises that the task is deleted and its resources released.
* `rwlock_priority`: `OsRwlockPriCompare` compares a reader with the first waiting
  writer, and a change of priority does not sort the wait lists again. A reader then
  gets the lock while a writer of its own or a higher priority waits behind the first;
  the repository's POSIX test for `pthread_rwlock_rdlock` (`2-1.c`, lines 11 to 13) says
  that it shall not. With priorities that stay as they are (`rwlock`) the property holds.

## 4. Proofs

### Scheduler and tasks

`TaskProofs`, `TaskStepProofs` and `TaskDelayProofs` prove, for any sets of tasks,
priorities and round-robin tasks, any callers and any bounds (assumptions
`SchedAssumption` and `TaskAssumption`):

| theorem | states |
|---|---|
| `TypeCorrect` | `TaskSpec => []TypeOK` |
| `ReadyListsCorrect` | `TaskSpec => []ReadyListsExact` |
| `PreemptionCorrect` | `TaskSpec => []RunsHighest` |
| `RunningBitCorrect` | `TaskSpec => []RunningBitExact` |
| `TcbCorrect` | `TaskSpec => []TcbAccounted` |
| `LockedTaskCorrect` | `TaskSpec => []LockedTaskRuns` |
| `LockPreventsSwitch` | `TaskSpec => NoSwitchWhileLocked` |
| `SelfDeleteSafe` | `TaskSpec => SelfDeleteDeferred` |
| `NoLostWakeup` | `TaskSpec => []ReadyIffNotBlocked` |
| `DelayListCorrect` | `TaskSpec => []DelayListExact` |

They are about the task services without the IPC objects (`TaskSpec`); the statements
about lists and bits hold up to a fault, the `ListDelete` of a node that is in no list
(section 3 has the one way to it). They follow from one inductive invariant, `IInv` of
`TaskInvariant`:

* `TypeOK`, and the idle task is ready at the lowest priority (`IdleReady`), so the
  search for the highest ready task never comes back empty; these two hold also after
  a fault;
* before a fault, `Core`: the ready lists are exact and `g_highestTask` is the first
  task of the highest one (`ReadyQueue`), `OS_TSK_RUNNING` is exact (`RunningBit`), the
  delay list holds each task once and only tasks with `OS_TSK_DELAY` (`Delays`), and no
  task is ready and blocked (`Bits`): the scan wakes no task that is ready already;
* `Flags`: a switch is requested only while an interrupt is active;
* `Lock`: under the scheduler lock no switch is requested, and the running task is an
  application task that is ready. `LockedTaskRuns` alone is not inductive: a request
  left over from before the lock would switch at the next tail;
* `Runs`: outside the lock, and but for a task on its way out, the running task is the
  top one or the switch is requested. While the scan of the delay list is between
  tasks this is suspended: a task it has woken is not scheduled yet;
* `TcbAccounted`.

`ListProofs` has the facts about sequences (what deleting, appending and inserting do
to membership and to "each once"), `SchedProofs` one lemma for each operator of
`TaskSched` on `Core`. Records are compared field by field with the frame predicates
`SwitchFrame`, `ReadyFrame` and `TimerFrame`. `TaskInvariant` and `TaskProofs` have one
lemma per action (`StepResume`, `StepSuspend`, ...), which `NextIInv` puts together.

The last four theorems need more than `IInv => property`:

* `LockPreventsSwitch` goes through the actions once more (`HeldStep`): `OsTskSchedule`
  does nothing under the lock, the tail of an interrupt finds no request (`Lock`), and a
  deletion is never of the running task;
* `SelfDeleteSafe`: a creation frees all recycled blocks, and the running task's is not
  among them because its control block is in use (`RunningBit`, `TcbAccounted`);
* `NoLostWakeup` strengthens `IInv` with `Awake`, a control block in use without a
  blocking bit is ready. It holds in the middle of a scan too, because a turn of
  `OsTaskScan` ends the delay and readies the task together, unless the task is
  suspended, and then `PRT_TaskResume` does;
* `DelayListCorrect` strengthens it with `OnTime`, the delay list is sorted and complete.
  `InsertSorted` and `RemoveSorted` of `SchedProofs` keep the order, and ageing is
  monotone.

### The allocator

`FscMemProofs` proves, for any start and size of the heap, any number of lists that the
heap fits into, any requests, any number of overwritten areas and any value that a link
reads as (assumption `FscMemAssumption`; the heap has room for the two headers that
`OsFscMemInit` writes, where the code admits smaller partitions, in which these overlap):

| theorem | states |
|---|---|
| `HeapCorrect` | `FscMemSpec => []HeapSound` |
| `AllocNeverMisses` | `FscMemSpec => []AllocComplete` |
| `AreasNeverMeet` | `FscMemSpec => []AreasApart` |
| `HeadAlwaysFound` | `FscMemSpec => []HeadFound` |

The inductive invariant `FscMemIInv` adds to `HeapSound` and `AreasApart`:

* `Closed`: the first header says that nothing before it is free and the last one is in
  use with size 0, so merging stops at both ends;
* `BitsOn`: a list that is not empty has its bit. The converse does not hold, bits are
  cleared late; the search needs only this direction;
* `offset` has a half-word for every address.

While a block is being released it is in no list and its tag may be wrong; `Open` is
what holds then, and the argument follows the code: `MergeNextFacts` and
`MergePrevFacts` keep `Open` and establish that the neighbour on their side is not free,
`CloseFacts` goes from `Open` to a sound heap. That the tag leads to the right block
rests on `Predecessor` (every block but the first begins where another one ends) and
`BehindInjective` (only one does). For allocation `SearchFacts` and `SearchComplete`
rest on `IdxMonotone` (a larger block does not hang in an earlier list), `TakeWhole` and
`TakeEnd` are the two ways to hand out a block, and `UsrAddrFacts` is the arithmetic of
alignment. `HeadAlwaysFound` rests on `LinksKeep`: a header whose `prev` were the half-word
of an area would begin inside the block of that area (`HeaderOutside`), and only the
block's own header does. `FscMemBlocks` holds the lemmas up to `CloseFacts`.

### Only model-checked

Semaphores, queues, events, read-write locks and timers, and the three refinements;
`NoFault` of `Task`, which fails when round-robin tasks may be suspended by a handler;
the last conjunct of `HeapExact`, `g_memUsage` is the sum of the blocks in use, because
a sum over a set is defined by recursion and induction over data is beyond the installed
provers; the liveness properties, which are beyond the proof system.

## 5. Not modelled

* Signals: delivery rewrites the context saved on the target's stack so that it resumes
  in the handler. The task model has no stacks. A hazard of the timed wait is listed in
  `PROJECT.json`.
* SMP: in the single-core build interrupts are locked and a service is one step. On
  several cores the steps between two lock operations interleave, which needs another
  model of each service; two hazards are listed.
* The two-level ready bitmap with its count-leading-zeros search: `TaskSched` has the
  set of non-empty lists.
* Tickless idle, timer overrun counts and queries; nested interrupts beyond the
  outermost, registration and the combined-interrupt lists.
* The alternative allocators (`slab`, `tlsf`, `bestfit`), which are build options.
* Start-up, exceptions, dynamic modules, maintenance hooks, the architecture layer, and
  what makes up by far most of the repository's lines: vendored libraries, the C
  library, drivers, file systems, network, adaptation layers, demos and test suites.
  The map in `PROJECT.json` therefore covers a small share of the repository's lines,
  though most of what changes state in the single-core kernel's scheduler, services,
  timers and default allocator.
