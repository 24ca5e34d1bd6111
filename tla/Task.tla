-------------------------------- MODULE Task --------------------------------
(***************************************************************************)
(* Task management of the single-core (AMP) kernel: the services a task or *)
(* an interrupt handler calls, the tick, and the interrupt entry and tail. *)
(* Every service locks interrupts for its whole body, so one action is one *)
(* service; an interrupt can come between any two of them.  Calls that     *)
(* return an error leave the state as it is and are stuttering steps.      *)
(***************************************************************************)
EXTENDS TaskSched

CONSTANTS Root,      \* the task PRT_AppInit creates and resumes before OsActivate
          RootPrio,  \* its priority
          UserPrio,  \* the priorities that callers ask for
          RR,        \* the tasks with policy OS_TSK_SCHED_RR
          TaskCalls, \* the services that tasks call on other tasks
          IsrCalls,  \* the services that interrupt handlers call
          MaxDelay,  \* bound: the largest delay, in ticks
          MaxLock    \* bound: the deepest nesting of PRT_TaskLock

Services == {"create", "delete", "resume", "suspend", "priority", "post"}

ASSUME TaskAssumption ==
  /\ Root \in Task /\ RootPrio \in UserPrio /\ UserPrio \subseteq Prio
  /\ RR \subseteq Task
  /\ TaskCalls \subseteq Services /\ IsrCalls \subseteq Services
  /\ MaxDelay \in Nat /\ MaxLock \in Nat

VARIABLES k,        \* the kernel's record, see TaskSched
          free,     \* the control blocks in g_tskCbFreeList
          recycle,  \* the control blocks in g_tskRecyleList
          exiting   \* the tasks past the return of taskEntry in OsTskEntry

taskVars == <<k, free, recycle, exiting>>

\* OsTskAMPInit, the root task of PRT_AppInit, OsActivate, OsFirstTimeSwitch.
TaskInit ==
  /\ k = [status |-> [t \in Thread |->
             IF t = Root THEN {"INUSE", "READY", "RUNNING"}
             ELSE IF t = Idle THEN {"INUSE", "READY"} ELSE {}],
          priority |-> [t \in Thread |-> IF t = Root THEN RootPrio ELSE Lowest],
          origPriority |-> [t \in Thread |-> IF t = Root THEN RootPrio ELSE Lowest],
          readyList |-> [p \in Prio |->
             (IF p = RootPrio THEN <<Root>> ELSE << >>) \o
             (IF p = Lowest THEN <<Idle>> ELSE << >>)],
          pendList |-> [w \in WaitList |-> << >>],
          delayList |-> << >>, left |-> [t \in Task |-> 0],
          highest |-> Root, running |-> Root,
          taskLock |-> 0, taskReq |-> FALSE, intActive |-> FALSE,
          scan |-> "no", fault |-> FALSE]
  /\ free = Task \ {Root}
  /\ recycle = {}
  /\ exiting = {}

----------------------------------------------------------------------------
(* Who can call: an interrupt handler, or the running task.                *)

Unlocked == ~k.fault /\ k.scan = "no"
InTask   == Unlocked /\ ~k.intActive /\ k.running \in Task \ exiting
CanCall(service) ==
  \/ InTask /\ service \in TaskCalls
  \/ Unlocked /\ k.intActive /\ service \in IsrCalls

Used(t) == k.status[t] # {}

\* Mutant: the recycled blocks are forgotten.
TaskCreate_LosesRecycled(t, prio) ==
  /\ CanCall("create")
  /\ t \in free
  /\ k' = [k EXCEPT !.status[t] = {"SUSPEND", "INUSE"},
                    !.priority[t] = prio, !.origPriority[t] = prio]
  /\ free' = free \ {t}
  /\ recycle' = {}
  /\ UNCHANGED exiting

\* OsTaskCreateOnly.  The recycled control blocks go to the free list first;
\* which free block is taken is of no consequence.
TaskCreate(t, prio) ==
  /\ CanCall("create")
  /\ t \in free \cup recycle
  /\ k' = [k EXCEPT !.status[t] = {"SUSPEND", "INUSE"},
                    !.priority[t] = prio, !.origPriority[t] = prio]
  /\ free' = (free \cup recycle) \ {t}
  /\ recycle' = {}
  /\ UNCHANGED exiting

\* OsTaskCreateOnly without memory for the stack: the block goes back.
TaskCreateNoMemory ==
  /\ CanCall("create")
  /\ recycle # {}
  /\ free' = free \cup recycle
  /\ recycle' = {}
  /\ UNCHANGED <<k, exiting>>

PRT_TaskResume(t) ==
  /\ CanCall("resume")
  /\ Used(t)
  /\ ~(StatusTst(k, t, {"RUNNING"}) /\ k.taskLock # 0)
  /\ StatusTst(k, t, {"SUSPEND"})
  /\ k' = OsMoveTaskToReady(StatusClear(k, t, {"SUSPEND"}), t)
  /\ UNCHANGED <<free, recycle, exiting>>

\* Mutant: the scheduler lock does not protect the running task.
Suspendable_IgnoresLock(t) == Used(t) /\ ~StatusTst(k, t, {"SUSPEND"})

Suspendable(t) ==
  /\ Used(t)
  /\ ~StatusTst(k, t, {"SUSPEND"})
  /\ ~(StatusTst(k, t, {"RUNNING"}) /\ k.taskLock # 0)

\* Mutant: a task that is not ready is taken off the ready queue too.
Suspended_NotReady(t) ==
  LET s == StatusSet(OsTskReadyDel(k, t), t, {"SUSPEND"})
  IN  IF StatusTst(s, t, {"RUNNING"}) THEN OsTskSchedule(s) ELSE s

Suspended(t) ==
  LET s == StatusSet(IF StatusTst(k, t, {"READY"}) THEN OsTskReadyDel(k, t) ELSE k,
                     t, {"SUSPEND"})
  IN  IF StatusTst(s, t, {"RUNNING"}) THEN OsTskSchedule(s) ELSE s

PRT_TaskSuspend(t) ==
  /\ CanCall("suspend")
  /\ Suspendable(t)
  /\ k' = Suspended(t)
  /\ UNCHANGED <<free, recycle, exiting>>

----------------------------------------------------------------------------
(* Deletion.                                                               *)

OsTaskDeleteResInit(kk, t) ==
  LET a == IF StatusTst(kk, t, TSK_LISTED) THEN PendDelete(kk, t) ELSE kk
      b == IF StatusTst(a, t, {"DELAY", "TIMEOUT"}) THEN TimerDelete(a, t) ELSE a
  IN  IF StatusTst(b, t, {"READY"}) THEN OsTskReadyDel(b, t) ELSE b

\* OsTaskDelStatusCheck: a mutex the task holds is only reported.
Deletable(t) ==
  /\ Used(t)
  /\ ~(t = k.running /\ k.taskLock # 0)
  /\ ~StatusTst(k, t, {"QUEUE_BUSY"})

\* Mutant: a running task's block goes to the free list with its stack in use.
OsTaskDelete_FreesRunning(t) ==
  LET d == OsTskHighestSet(OsTaskDeleteResInit(k, t))
  IN  /\ k' = IF StatusTst(d, t, {"RUNNING"})
              THEN LET z == [d EXCEPT !.status[t] = {}, !.running = Zombie,
                                      !.taskReq = TRUE]
                   IN  IF z.intActive THEN z ELSE OsMainSchedule(z)
              ELSE [d EXCEPT !.status[t] = {}]
      /\ free' = free \cup {t}
      /\ recycle' = recycle
      /\ exiting' = exiting \ {t}

OsTaskDelete(t) ==
  LET d == OsTskHighestSet(OsTaskDeleteResInit(k, t))
      self == StatusTst(d, t, {"RUNNING"})
  IN  /\ k' = IF self
              THEN LET z == [d EXCEPT !.status[t] = {}, !.running = Zombie,
                                      !.taskReq = TRUE]
                   IN  IF z.intActive THEN z ELSE OsMainSchedule(z)
              ELSE [d EXCEPT !.status[t] = {}]
      /\ recycle' = IF self THEN recycle \cup {t} ELSE recycle
      /\ free' = IF self THEN free ELSE free \cup {t}
      /\ exiting' = exiting \ {t}

PRT_TaskDelete(t) ==
  /\ CanCall("delete")
  /\ Deletable(t)
  /\ OsTaskDelete(t)

----------------------------------------------------------------------------
(* Delays, the scheduler lock, priorities and the end of a task.           *)

DelayedTask(n) ==
  OsTskSchedule(OsTskTimerAdd(
    StatusSet(OsTskReadyDel(k, k.running), k.running, {"DELAY"}), k.running, n))

PRT_TaskDelay(n) ==
  /\ InTask
  /\ k.taskLock = 0
  /\ k' = DelayedTask(n)
  /\ UNCHANGED <<free, recycle, exiting>>

\* PRT_TaskDelay(0), OsTaskYield: the first ready task of the running task's
\* priority goes to the end of its list if it is not the only one.
OsTaskYield ==
  LET list  == k.readyList[k.priority[k.running]]
      moved == OsTskReadyAdd(OsTskReadyDel(k, Head(list)), Head(list))
  IN  /\ InTask
      /\ k.taskLock = 0
      /\ Len(list) > 1
      /\ k' = IF StatusTst(k, Head(list), {"RUNNING"})
              THEN OsTskSchedule(moved) ELSE moved
      /\ UNCHANGED <<free, recycle, exiting>>

PRT_TaskLock ==
  /\ InTask
  /\ k.taskLock < MaxLock
  /\ k' = [k EXCEPT !.taskReq = @ /\ k.taskLock # 0, !.taskLock = @ + 1]
  /\ UNCHANGED <<free, recycle, exiting>>

\* Mutant: the last unlock forgets the switch that was put off.
Unlocking_NoSchedule == [k EXCEPT !.taskLock = @ - 1]

Unlocking ==
  LET u == [k EXCEPT !.taskLock = @ - 1]
  IN  IF u.taskLock = 0 THEN OsTskSchedule(u) ELSE u

\* Mutant: an unlock without a lock is not refused.
PRT_TaskUnlock_Unpaired ==
  /\ InTask
  /\ k.taskLock > -1
  /\ k' = Unlocking
  /\ UNCHANGED <<free, recycle, exiting>>

PRT_TaskUnlock ==
  /\ InTask
  /\ k.taskLock > 0
  /\ k' = Unlocking
  /\ UNCHANGED <<free, recycle, exiting>>

\* Mutant: a ready task stays in the list of its old priority.
PrioritySet_NoRequeue(kk, t, prio) ==
  OsTskSchedule([kk EXCEPT !.priority[t] = prio, !.origPriority[t] = prio])

\* The part of PRT_TaskSetPriority after its checks.
PrioritySet(kk, t, prio) ==
  LET Set(x) == [x EXCEPT !.priority[t] = prio, !.origPriority[t] = prio]
  IN  IF StatusTst(kk, t, {"READY"})
      THEN OsTskSchedule(OsTskReadyAdd(Set(OsTskReadyDel(kk, t)), t))
      ELSE Set(kk)

PRT_TaskSetPriority(t, prio) ==
  /\ CanCall("priority")
  /\ Used(t)
  /\ k' = PrioritySet(k, t, prio)
  /\ UNCHANGED <<free, recycle, exiting>>

\* OsTskEntry, when taskEntry returns: the scheduler lock is dropped without
\* scheduling, and interrupts are restored before PRT_TaskDelete.
OsTskEntryReturn ==
  /\ InTask
  /\ k' = [k EXCEPT !.taskLock = 0]
  /\ exiting' = exiting \cup {k.running}
  /\ UNCHANGED <<free, recycle>>

OsTaskExit ==
  /\ Unlocked /\ ~k.intActive
  /\ k.running \in exiting
  /\ Deletable(k.running)
  /\ OsTaskDelete(k.running)

----------------------------------------------------------------------------
(* Interrupts.  OsHwiDispatch enters, OsHwiDispatchTail serves the ticks    *)
(* that PRT_TickISR has counted, looks at the time slice and switches.      *)

OsHwiDispatch ==
  /\ Unlocked /\ ~k.intActive
  /\ k' = [k EXCEPT !.intActive = TRUE]
  /\ UNCHANGED <<free, recycle, exiting>>

OsTickDispatcher ==
  /\ Unlocked /\ k.intActive
  /\ k' = OsTaskScan(k)
  /\ UNCHANGED <<free, recycle, exiting>>

TaskScanNext ==
  /\ ~k.fault /\ k.scan # "no" /\ ScanDue(k)
  /\ k' = ScanTask(k)
  /\ UNCHANGED <<free, recycle, exiting>>

TaskScanDone ==
  /\ ~k.fault /\ k.scan # "no" /\ ~ScanDue(k)
  /\ k' = ScanEnd(k)
  /\ UNCHANGED <<free, recycle, exiting>>

\* The interrupt's tail; a time slice can end for a round-robin task only.
OsHwiDispatchTail(slice) ==
  /\ Unlocked /\ k.intActive
  /\ slice => k.running \in RR
  /\ k' = [OsMainSchedule(IF slice THEN OsHwiEndCheckTimeSlice(k) ELSE k)
            EXCEPT !.intActive = FALSE]
  /\ UNCHANGED <<free, recycle, exiting>>

----------------------------------------------------------------------------
\* Everything but PRT_TaskSetPriority, which asks the semaphore component first
\* when that is configured.
TaskServices ==
  \/ \E t \in Task, p \in UserPrio : TaskCreate(t, p)
  \/ TaskCreateNoMemory
  \/ \E t \in Task : PRT_TaskResume(t) \/ PRT_TaskSuspend(t) \/ PRT_TaskDelete(t)
  \/ \E n \in 1 .. MaxDelay : PRT_TaskDelay(n)
  \/ OsTaskYield \/ PRT_TaskLock \/ PRT_TaskUnlock
  \/ OsTskEntryReturn \/ OsTaskExit
  \/ OsHwiDispatch \/ OsTickDispatcher \/ TaskScanNext \/ TaskScanDone
  \/ \E slice \in BOOLEAN : OsHwiDispatchTail(slice)

\* The application does not delete a task whose timed wait has expired before that
\* task runs: the kernel does not survive it, see DeleteReleases in Sem.
NoStaleDelete ==
  \A t \in Task : ("TIMEOUT" \in k.status[t] /\ t \notin ToSet(k.delayList))
                   => k'.status[t] # {}

TaskNext ==
  \/ TaskServices
  \/ \E t \in Task, p \in UserPrio : PRT_TaskSetPriority(t, p)

TaskSpec == TaskInit /\ [][TaskNext]_taskVars

\* Interrupts end, the scan of the delay list is a loop with interrupts locked,
\* the tick timer interrupts for ever, and a time slice runs out when a task goes
\* on running.
TaskFairness ==
  /\ WF_taskVars(OsHwiDispatch)
  /\ SF_taskVars(\E slice \in BOOLEAN : OsHwiDispatchTail(slice))
  /\ SF_taskVars(OsHwiDispatchTail(TRUE))
  /\ WF_taskVars(TaskScanNext) /\ WF_taskVars(TaskScanDone)
  /\ SF_taskVars(OsTickDispatcher)

TaskFairSpec == TaskSpec /\ TaskFairness

----------------------------------------------------------------------------
(* Properties.                                                             *)

\* The record, the free lists and the tasks that are exiting are well typed.
TypeOK ==
  /\ k \in KernelState
  /\ free \subseteq Task /\ recycle \subseteq Task /\ exiting \subseteq Task

\* ListDelete is never called on a node that is in no list (on the single-core
\* build the second ListDelete of a node dereferences NULL).
NoFault == ~k.fault

\* The ready lists hold exactly the tasks with OS_TSK_READY, each once and in the
\* list of its current priority: OsTskReadyDel finds its node and bitmap there.
ReadyListsExact ==
  ~k.fault =>
    /\ \A p \in Prio : IsInjective(k.readyList[p])
    /\ \A t \in Thread, p \in Prio :
         t \in ToSet(k.readyList[p]) <=> "READY" \in k.status[t] /\ k.priority[t] = p

\* doc/design/task.md: a blocked task is not in the ready lists; and the other
\* way round, a task in use that nothing blocks is ready, so no wake-up that
\* goes through suspend, resume, delay and tick in any order is lost.
ReadyIffNotBlocked ==
  (~k.fault /\ k.scan = "no") =>
    \A t \in Thread :
      "READY" \in k.status[t] <=> Used(t) /\ ~StatusTst(k, t, TSK_BLOCK)

\* Preemption: outside the scheduler lock the running task is the first task of
\* the highest non-empty ready list, or an interrupt is active and has asked for
\* the switch.  A task past its entry function is about to delete itself.
RunsHighest ==
  (Unlocked /\ k.taskLock = 0 /\ k.running \notin exiting) =>
    \/ k.intActive /\ k.taskReq
    \/ /\ ~k.taskReq
       /\ k.running = k.highest
       /\ k.running = Head(k.readyList[Min({p \in Prio : k.readyList[p] # << >>})])

\* OS_TSK_RUNNING is on for RUNNING_TASK and for no other control block, which
\* is what PRT_TaskSuspend, PRT_TaskResume and OsTaskDelete rely on.
RunningBitExact ==
  ~k.fault => \A t \in Thread : "RUNNING" \in k.status[t] <=> t = k.running

\* The delay list is sorted by expiry, holds each task once, and holds exactly
\* the tasks in PRT_TaskDelay and those still blocked in a wait with a timeout,
\* suspended in the meantime or not.
DelayListExact ==
  ~k.fault =>
    /\ IsInjective(k.delayList)
    /\ \A i, j \in DOMAIN k.delayList :
         i < j => k.left[k.delayList[i]] <= k.left[k.delayList[j]]
    /\ \A t \in Task : t \in ToSet(k.delayList) <=>
         \/ "DELAY" \in k.status[t]
         \/ "TIMEOUT" \in k.status[t] /\ StatusTst(k, t, TSK_BLOCK \ {"SUSPEND"})

\* A control block is free, waiting to be recycled, or in use: none is lost by
\* create, delete and exit, and none is handed out twice.
TcbAccounted ==
  ~k.fault =>
    /\ free \cap recycle = {}
    /\ \A t \in Task : t \in free \cup recycle <=> ~Used(t)
    /\ exiting \cap (free \cup recycle) = {}

\* While the scheduler is locked the running task can go on: no interrupt
\* handler can suspend or delete it.
LockedTaskRuns ==
  (~k.fault /\ k.taskLock > 0) => k.running \in Task /\ "READY" \in k.status[k.running]

\* PRT_TaskLock: as long as the scheduler is locked there is no task switch.
NoSwitchWhileLocked ==
  [][k.taskLock > 0 /\ k'.taskLock > 0 => k'.running = k.running]_taskVars

\* PRT_TaskDelete: the control block of the task that was running is not freed
\* by the deletion itself but when the next task is created.
SelfDeleteDeferred ==
  [][\A t \in Task : k.running = t /\ t \notin free => t \notin free']_taskVars

\* A delay ends, whatever the tasks and the interrupt handlers do meanwhile.
DelayEnds ==
  \A t \in Task : "DELAY" \in k.status[t] ~> "DELAY" \notin k.status[t]

\* Two tasks are ready for ever, at one priority, with no task above them, and the
\* scheduler is not locked.
TopPair(t, u) ==
  LET p == k.priority[t]
  IN  /\ k.taskLock = 0
      /\ ToSet(k.readyList[p]) = {t, u}
      /\ \A q \in 0 .. p - 1 : k.readyList[q] = << >>

\* Round robin: of two such tasks under OS_TSK_SCHED_RR each gets the processor
\* again and again, whatever they and the interrupt handlers do.
RoundRobinShares ==
  \A t, u \in RR : t # u => (<>[]TopPair(t, u) => []<>(k.running = t))

\* include/uapi/prt_task.h on PRT_TaskSuspend: the suspended task is deleted from
\* the ready queue.
SuspendedNotReady ==
  \A t \in Task, p \in Prio :
    "SUSPEND" \in k.status[t] => t \notin ToSet(k.readyList[p])
=============================================================================
