--------------------------- MODULE TaskStepProofs ---------------------------
(***************************************************************************)
(* More theorems about task management, from IInv of TaskInvariant: under  *)
(* the scheduler lock no step switches tasks; no step frees the control    *)
(* block of the running task; and no wake-up is lost, whatever the order   *)
(* of suspend, resume, delay, tick and deletion.                           *)
(*                                                                         *)
(* The lock needs that no switch is pending when it is taken and that the  *)
(* task it protects is refused to every deletion, both of which are parts  *)
(* of IInv and not of a property.                                          *)
(***************************************************************************)
EXTENDS TaskProofs

----------------------------------------------------------------------------
(* The scheduler lock.                                                     *)

\* The state in which a service runs while the scheduler is locked.
Held(kk) == kk \in KernelState /\ IdleReady(kk) /\ kk.taskLock # 0

\* OsTskReadyAdd and OsTskSchedule switch nothing while the lock is held.
LEMMA ReadyHeld ==
  ASSUME NEW kk, Held(kk), NEW t \in Thread
  PROVE  /\ OsTskSchedule(kk).running = kk.running
         /\ OsTskSchedule(OsTskReadyAdd(kk, t)).running = kk.running
         /\ OsTskReadyAdd(kk, t).running = kk.running
         /\ OsMoveTaskToReady(kk, t).running = kk.running
<1> DEFINE a == OsTskReadyAdd(kk, t)
<1>1. kk \in KernelState /\ IdleReady(kk) /\ kk.taskLock # 0
  BY DEF Held
<1>2. a \in KernelState /\ ReadyFrame(a, kk)
  BY <1>1, ReadyAddFields
<1>3. IdleReady(a)
  BY <1>1, ReadyAddCore
<1>4. a.taskLock # 0 /\ a.running = kk.running
  BY <1>1, <1>2 DEF ReadyFrame, SwitchFrame
<1> HIDE DEF a
<1>5. OsTskSchedule(a).running = a.running
  BY <1>2, <1>3, <1>4, ScheduleCore
<1>6. OsTskSchedule(kk).running = kk.running
  BY <1>1, ScheduleCore
<1>7. OsMoveTaskToReady(kk, t) = kk \/ OsMoveTaskToReady(kk, t) = OsTskSchedule(a)
  BY DEF OsMoveTaskToReady, a
<1> QED BY <1>4, <1>5, <1>6, <1>7 DEF a

\* Writing taskStatus neither switches nor unlocks.
LEMMA StatusHeld ==
  ASSUME NEW kk, Held(kk), NEW t \in Thread, NEW b \in SUBSET TskStatus
  PROVE  /\ Held(StatusSet(kk, t, b)) /\ StatusSet(kk, t, b).running = kk.running
         /\ Held(StatusClear(kk, t, b)) /\ StatusClear(kk, t, b).running = kk.running
<1>1. kk \in KernelState /\ IdleReady(kk) /\ kk.taskLock # 0
  BY DEF Held
<1>2. kk.status[t] \in SUBSET TskStatus
  BY <1>1 DEF KernelState
<1>3. /\ StatusSet(kk, t, b) = SetStatus(kk, t, kk.status[t] \cup b)
      /\ StatusClear(kk, t, b) = SetStatus(kk, t, kk.status[t] \ b)
  BY DEF StatusSet, StatusClear, SetStatus
<1>4. ASSUME NEW c \in SUBSET TskStatus
      PROVE  Held(SetStatus(kk, t, c)) /\ SetStatus(kk, t, c).running = kk.running
  <2> DEFINE r == SetStatus(kk, t, c)
  <2>1. r \in KernelState /\ IdleReady(r) /\ ReadyFrame(r, kk)
    BY <1>1, StatusChange
  <2> HIDE DEF r
  <2>2. Held(r) /\ r.running = kk.running
    BY <1>1, <2>1 DEF Held, ReadyFrame, SwitchFrame
  <2> QED BY <2>2 DEF r
<1>5. kk.status[t] \cup b \in SUBSET TskStatus /\ kk.status[t] \ b \in SUBSET TskStatus
  BY <1>2
<1> QED BY <1>3, <1>4, <1>5

\* Taking a task off its ready list or off the delay list neither.
LEMMA RemoveHeld ==
  ASSUME NEW kk, Held(kk), NEW t \in Task
  PROVE  /\ Held(OsTskReadyDel(kk, t)) /\ OsTskReadyDel(kk, t).running = kk.running
         /\ Held(TimerDelete(kk, t)) /\ TimerDelete(kk, t).running = kk.running
<1> DEFINE r == OsTskReadyDel(kk, t)
           d == TimerDelete(kk, t)
<1>1. kk \in KernelState /\ IdleReady(kk) /\ kk.taskLock # 0
  BY DEF Held
<1>2. r \in KernelState /\ IdleReady(r) /\ ReadyFrame(r, kk)
  BY <1>1, ReadyDelCore
<1>3. d \in KernelState /\ TimerFrame(d, kk)
  BY <1>1, TimerDeleteCore
<1> HIDE DEF r, d
<1>4. Held(r) /\ r.running = kk.running
  BY <1>1, <1>2 DEF Held, ReadyFrame, SwitchFrame
<1>5. Held(d) /\ d.running = kk.running
  BY <1>1, <1>3 DEF Held, TimerFrame, IdleReady
<1> QED BY <1>4, <1>5 DEF r, d

\* A deletion under the lock is of another task than the running one.
LEMMA DeleteHeld ==
  ASSUME IInv, Held(k), NEW t \in Task, Unlocked, Deletable(t), OsTaskDelete(t)
  PROVE  k'.running = k.running
<1> DEFINE d == OsTskHighestSet(OsTaskDeleteResInit(k, t))
<1>1. k \in KernelState /\ IdleReady(k) /\ Core(k) /\ t \in Thread /\ t # k.running
  BY DEF IInv, TypeOK, Good, Unlocked, Thread, Deletable, Held
<1>2. /\ d \in KernelState /\ d.running = k.running
      /\ d.status = [k.status EXCEPT ![t] = @ \ {"READY"}]
  BY <1>1, DeleteRes
<1>3. ~StatusTst(d, t, {"RUNNING"}) => k' = [d EXCEPT !.status[t] = {}]
  BY DEF OsTaskDelete
<1> HIDE DEF d
<1>4. "RUNNING" \notin d.status[t]
  BY <1>1, <1>2 DEF Core, RunningBit, KernelState
<1> QED BY <1>2, <1>3, <1>4 DEF StatusTst, KernelState

\* A turn of OsTaskScan under the lock readies a task and no more.
LEMMA ScanHeld ==
  ASSUME IInv, Held(k), TaskScanNext
  PROVE  k'.running = k.running
<1> DEFINE t == Head(k.delayList)
           d == TimerDelete(k, t)
           u == StatusClear(d, t, {"DELAY"})
           a == OsTskReadyAdd(u, t)
<1>1. k \in KernelState /\ Core(k) /\ k.delayList # << >>
  BY DEF IInv, TypeOK, Good, TaskScanNext, ScanDue
<1>2. t \in Task /\ t \in Thread /\ t \in ToSet(k.delayList)
  <2>1. k.delayList \in Seq(Task) /\ k.delayList # << >>
    BY <1>1 DEF KernelState
  <2>2. t \in Task /\ 1 \in DOMAIN k.delayList /\ t = k.delayList[1]
    BY <2>1
  <2> QED BY <2>2 DEF ToSet, Thread
<1> HIDE DEF t
<1>3. BlockedOn(k, t) = "DELAY"
  <2>1. /\ "DELAY" \in k.status[t]
        /\ k.status[t] \subseteq {"INUSE", "SUSPEND", "DELAY", "READY", "RUNNING"}
    BY <1>1, <1>2 DEF Core, Delays, Bits
  <2> QED BY <2>1 DEF BlockedOn, StatusTst
<1>4. k' = u \/ k' = [a EXCEPT !.scan = "need"]
  BY <1>3 DEF TaskScanNext, ScanTask, t, TSK_LISTED
<1>5. Held(d) /\ d.running = k.running
  BY <1>2, RemoveHeld
<1> HIDE DEF d
<1>6. Held(u) /\ u.running = d.running
  <2>1. {"DELAY"} \in SUBSET TskStatus
    BY DEF TskStatus
  <2> QED BY <1>2, <1>5, <2>1, StatusHeld
<1> HIDE DEF u
<1>7. a \in KernelState /\ a.running = u.running
  BY <1>2, <1>6, ReadyAddFields, ReadyHeld DEF Held
<1> HIDE DEF a
<1> QED BY <1>4, <1>5, <1>6, <1>7 DEF KernelState

\* The tail of an interrupt under the lock: no switch is pending, and the end of
\* a time slice asks for none.
LEMMA TailHeld ==
  ASSUME IInv, Held(k), NEW slice \in BOOLEAN, OsHwiDispatchTail(slice)
  PROVE  k'.running = k.running
<1> DEFINE m == OsTskReadyAdd(OsTskReadyDel(k, k.running), k.running)
           x == IF slice THEN OsHwiEndCheckTimeSlice(k) ELSE k
           r == OsMainSchedule(x)
<1>1. /\ k \in KernelState /\ IdleReady(k) /\ k.taskLock # 0 /\ ~k.taskReq
      /\ k.running \in Task /\ k' = [r EXCEPT !.intActive = FALSE]
  BY DEF IInv, TypeOK, Good, OsHwiDispatchTail, Unlocked, Held, Lock
<1>2. m \in KernelState /\ ReadyFrame(m, k)
  BY <1>1, Requeue
<1>3. m.taskLock # 0 /\ ~m.taskReq /\ m.running = k.running
  BY <1>1, <1>2 DEF ReadyFrame, SwitchFrame
<1>4. x = m \/ x = k
  BY <1>3 DEF OsHwiEndCheckTimeSlice
<1> HIDE DEF x, m
<1>5. x \in KernelState /\ ~x.taskReq /\ x.running = k.running
  BY <1>1, <1>2, <1>3, <1>4
<1>6. r = x
  BY <1>5, MainScheduleFields
<1> QED BY <1>1, <1>5, <1>6 DEF KernelState

\* PRT_TaskSetPriority under the lock requeues the task and switches nothing.
LEMMA PriorityHeld ==
  ASSUME Held(k), NEW t \in Task, NEW p \in UserPrio, PRT_TaskSetPriority(t, p)
  PROVE  k'.running = k.running
<1> DEFINE d == OsTskReadyDel(k, t)
           m == SetPrio(d, t, p)
<1>1. t \in Thread /\ p \in Prio /\ k \in KernelState /\ IdleReady(k)
  BY TaskAssumption DEF Thread, Held
<1>2. k' = OsTskSchedule(OsTskReadyAdd(m, t)) \/ k' = SetPrio(k, t, p)
  BY DEF PRT_TaskSetPriority, PrioritySet, SetPrio
<1>3. Held(d) /\ d.running = k.running
  BY RemoveHeld
<1> HIDE DEF d
<1>4. Held(m) /\ m.running = d.running
  BY <1>1, <1>3, PrioChange DEF Held
<1> HIDE DEF m
<1>5. OsTskSchedule(OsTskReadyAdd(m, t)).running = m.running
  BY <1>1, <1>4, ReadyHeld
<1>6. SetPrio(k, t, p).running = k.running
  BY <1>1, PrioChange
<1> QED BY <1>2, <1>3, <1>4, <1>5, <1>6

\* Under the lock, before and after, no step of the tasks, of an interrupt handler
\* or of the tick switches: one step per action.
LEMMA HeldStep ==
  ASSUME IInv, [TaskNext]_taskVars, k.taskLock > 0, k'.taskLock > 0
  PROVE  k'.running = k.running
<1>0. k \in KernelState /\ IdleReady(k) /\ Held(k)
  BY DEF IInv, TypeOK, Held, KernelState
<1>1. ASSUME NEW t \in Task, NEW p \in UserPrio, TaskCreate(t, p)
      PROVE  k'.running = k.running
  BY <1>0, <1>1 DEF TaskCreate, KernelState
<1>2. CASE TaskCreateNoMemory
  BY <1>2 DEF TaskCreateNoMemory
<1>3. ASSUME NEW t \in Task, PRT_TaskResume(t) PROVE k'.running = k.running
  <2> DEFINE m == StatusClear(k, t, {"SUSPEND"})
  <2>1. t \in Thread /\ {"SUSPEND"} \in SUBSET TskStatus
    BY DEF Thread, TskStatus
  <2>2. Held(m) /\ m.running = k.running
    BY <1>0, <2>1, StatusHeld
  <2>3. k' = OsMoveTaskToReady(m, t)
    BY <1>3 DEF PRT_TaskResume
  <2> HIDE DEF m
  <2> QED BY <2>1, <2>2, <2>3, ReadyHeld
<1>4. ASSUME NEW t \in Task, PRT_TaskSuspend(t) PROVE k'.running = k.running
  <2> DEFINE d == IF StatusTst(k, t, {"READY"}) THEN OsTskReadyDel(k, t) ELSE k
             s == StatusSet(d, t, {"SUSPEND"})
  <2>1. t \in Thread /\ {"SUSPEND"} \in SUBSET TskStatus
    BY DEF Thread, TskStatus
  <2>2. Held(d) /\ d.running = k.running
    BY <1>0, RemoveHeld
  <2>3. k' = s \/ k' = OsTskSchedule(s)
    BY <1>4 DEF PRT_TaskSuspend, Suspended
  <2> HIDE DEF d
  <2>4. Held(s) /\ s.running = d.running
    BY <2>1, <2>2, StatusHeld
  <2> HIDE DEF s
  <2> QED BY <2>1, <2>2, <2>3, <2>4, ReadyHeld
<1>5. ASSUME NEW t \in Task, PRT_TaskDelete(t) PROVE k'.running = k.running
  BY <1>0, <1>5, DeleteHeld DEF PRT_TaskDelete, CanCall, InTask
<1>6. ASSUME NEW n \in 1 .. MaxDelay, PRT_TaskDelay(n) PROVE k'.running = k.running
  BY <1>6 DEF PRT_TaskDelay
<1>7. CASE OsTaskYield
  <2>1. k.taskLock = 0
    BY <1>7, Zenon DEF OsTaskYield
  <2> QED BY <2>1
<1>8. CASE PRT_TaskLock
  BY <1>0, <1>8 DEF PRT_TaskLock, KernelState
<1>9. CASE PRT_TaskUnlock
  <2> DEFINE u == [k EXCEPT !.taskLock = @ - 1]
  <2>0. k.taskLock - 1 \in Nat
    BY <1>0 DEF KernelState
  <2>1. u \in KernelState /\ u.running = k.running /\ u.readyList = k.readyList
    BY <1>0, <2>0 DEF KernelState
  <2>2. k' = IF u.taskLock = 0 THEN OsTskSchedule(u) ELSE u
    BY <1>9 DEF PRT_TaskUnlock, Unlocking
  <2> HIDE DEF u
  <2>3. IdleReady(u)
    BY <1>0, <2>1 DEF IdleReady
  <2>4. OsTskSchedule(u).taskLock = u.taskLock
    BY <2>1, <2>3, ScheduleCore DEF SwitchFrame
  <2> QED BY <2>1, <2>2, <2>4
<1>10. CASE OsTskEntryReturn
  BY <1>0, <1>10 DEF OsTskEntryReturn, KernelState
<1>11. CASE OsTaskExit
  BY <1>11 DEF OsTaskExit, Deletable
<1>12. CASE OsHwiDispatch
  BY <1>0, <1>12 DEF OsHwiDispatch, KernelState
<1>13. CASE OsTickDispatcher
  BY <1>0, <1>13 DEF OsTickDispatcher, OsTaskScan, KernelState
<1>14. CASE TaskScanNext
  BY <1>0, <1>14, ScanHeld
<1>15. CASE TaskScanDone
  <2> DEFINE s == OsTskSchedule(k)
  <2>1. s \in KernelState /\ s.running = k.running
    BY <1>0, ScheduleCore DEF Held
  <2>2. k' = [s EXCEPT !.scan = "no"] \/ k' = [k EXCEPT !.scan = "no"]
    BY <1>15 DEF TaskScanDone, ScanEnd
  <2> HIDE DEF s
  <2> QED BY <1>0, <2>1, <2>2 DEF KernelState
<1>16. ASSUME NEW slice \in BOOLEAN, OsHwiDispatchTail(slice)
       PROVE  k'.running = k.running
  BY <1>0, <1>16, TailHeld
<1>17. ASSUME NEW t \in Task, NEW p \in UserPrio, PRT_TaskSetPriority(t, p)
       PROVE  k'.running = k.running
  BY <1>0, <1>17, PriorityHeld
<1>18. CASE UNCHANGED taskVars
  BY <1>18 DEF taskVars
<1> QED BY <1>1, <1>2, <1>3, <1>4, <1>5, <1>6, <1>7, <1>8, <1>9, <1>10, <1>11, <1>12,
           <1>13, <1>14, <1>15, <1>16, <1>17, <1>18 DEF TaskNext, TaskServices

\* PRT_TaskLock: as long as the scheduler stays locked no step switches tasks,
\* whatever tasks and interrupt handlers make ready, suspend, delete or promote.
THEOREM LockPreventsSwitch == TaskSpec => NoSwitchWhileLocked
<1>1. IInv /\ [TaskNext]_taskVars =>
        [k.taskLock > 0 /\ k'.taskLock > 0 => k'.running = k.running]_taskVars
  BY HeldStep
<1> QED BY <1>1, IInvAlways, PTL DEF TaskSpec, NoSwitchWhileLocked

----------------------------------------------------------------------------
(* The control block of the running task.                                  *)

\* OsTaskDelete frees a block at once only if its task is not running.
LEMMA DeleteDefers ==
  ASSUME IInv, NEW t \in Task, Unlocked, OsTaskDelete(t)
  PROVE  free' \subseteq free \cup (Task \ {k.running})
<1> DEFINE d == OsTskHighestSet(OsTaskDeleteResInit(k, t))
<1>1. k \in KernelState /\ IdleReady(k) /\ Core(k) /\ t \in Thread
  BY DEF IInv, TypeOK, Good, Unlocked, Thread
<1>2. d.status = [k.status EXCEPT ![t] = @ \ {"READY"}]
  BY <1>1, DeleteRes
<1>3. free' = IF StatusTst(d, t, {"RUNNING"}) THEN free ELSE free \cup {t}
  BY DEF OsTaskDelete
<1> HIDE DEF d
<1>4. t = k.running => "RUNNING" \in d.status[t]
  BY <1>1, <1>2 DEF Core, RunningBit, KernelState
<1> QED BY <1>3, <1>4 DEF StatusTst

\* No step frees the running task's block: OsTaskCreateOnly does free recycled
\* blocks, and the running task's is not among them, for it is in use.
LEMMA RunningNotFreed ==
  ASSUME IInv, [TaskNext]_taskVars, NEW t \in Task, k.running = t, t \notin free
  PROVE  t \notin free'
<1>1. ASSUME ~k.fault PROVE t \notin recycle
  <2>1. "RUNNING" \in k.status[t]
    BY <1>1 DEF IInv, Good, Core, RunningBit, Thread
  <2> QED BY <1>1, <2>1 DEF IInv, TcbAccounted, Used
<1>2. ASSUME NEW u \in Task, NEW p \in UserPrio, TaskCreate(u, p) PROVE t \notin free'
  BY <1>1, <1>2 DEF TaskCreate, CanCall, InTask, Unlocked
<1>3. CASE TaskCreateNoMemory
  BY <1>1, <1>3 DEF TaskCreateNoMemory, CanCall, InTask, Unlocked
<1>4. ASSUME NEW u \in Task, PRT_TaskDelete(u) PROVE t \notin free'
  BY <1>4, DeleteDefers DEF PRT_TaskDelete, CanCall, InTask
<1>5. CASE OsTaskExit
  BY <1>5, DeleteDefers DEF OsTaskExit
<1>6. CASE UNCHANGED free
  BY <1>6
<1> QED BY <1>2, <1>3, <1>4, <1>5, <1>6
        DEF TaskNext, TaskServices, taskVars, PRT_TaskResume, PRT_TaskSuspend,
            PRT_TaskDelay, OsTaskYield, PRT_TaskLock, PRT_TaskUnlock, OsTskEntryReturn,
            OsHwiDispatch, OsTickDispatcher, TaskScanNext, TaskScanDone,
            OsHwiDispatchTail, PRT_TaskSetPriority

\* PRT_TaskDelete of the running task leaves its control block, and the stack it
\* still runs on, out of the free list.
THEOREM SelfDeleteSafe == TaskSpec => SelfDeleteDeferred
<1>1. IInv /\ [TaskNext]_taskVars =>
        [\A t \in Task : k.running = t /\ t \notin free => t \notin free']_taskVars
  BY RunningNotFreed
<1> QED BY <1>1, IInvAlways, PTL DEF TaskSpec, SelfDeleteDeferred

----------------------------------------------------------------------------
(* Wake-ups.  IInv has it that a ready task is not blocked; Awake is the   *)
(* other direction, and what makes the equivalence inductive.              *)

\* A control block in use with no blocking bit has OS_TSK_READY.
Woken(b) == "INUSE" \in b /\ b \cap {"SUSPEND", "DELAY"} = {} => "READY" \in b

Awake(kk) == \A u \in Thread : Woken(kk.status[u])

WakeInv == IInv /\ (~k.fault => Awake(k))

\* The bits of the other tasks, but for OS_TSK_RUNNING, which only a switch moves.
OthersKept(r, kk, t) ==
  \A u \in Thread \ {t} : r.status[u] \ {"RUNNING"} = kk.status[u] \ {"RUNNING"}

\* OS_TSK_RUNNING has no part in Woken.
LEMMA RunningAside ==
  ASSUME NEW b, NEW c, Woken(c), b \ {"RUNNING"} = c \ {"RUNNING"}
  PROVE  Woken(b)
<1>1. /\ "INUSE" \in b <=> "INUSE" \in c
      /\ "READY" \in b <=> "READY" \in c
      /\ "SUSPEND" \in b <=> "SUSPEND" \in c
      /\ "DELAY" \in b <=> "DELAY" \in c
  OBVIOUS
<1> QED BY <1>1 DEF Woken

\* A service that changes one task's bits keeps every task awake if it leaves
\* that one awake.
LEMMA OneTask ==
  ASSUME NEW kk, NEW r, NEW t, Awake(kk), OthersKept(r, kk, t), Woken(r.status[t])
  PROVE  Awake(r)
<1> SUFFICES ASSUME NEW u \in Thread PROVE Woken(r.status[u])
  BY DEF Awake
<1>1. CASE u = t
  BY <1>1
<1>2. CASE u # t
  BY <1>2, RunningAside DEF Awake, OthersKept
<1> QED BY <1>1, <1>2

\* OsTskSchedule and OsMainSchedule move OS_TSK_RUNNING and no other bit.
LEMMA ScheduleAwake ==
  ASSUME NEW kk \in KernelState, IdleReady(kk), Awake(kk)
  PROVE  Awake(OsTskSchedule(kk)) /\ Awake(OsMainSchedule(kk))
<1> DEFINE r == OsTskSchedule(kk)
           m == OsMainSchedule(kk)
<1>1. \A u \in Thread : r.status[u] \ {"RUNNING"} = kk.status[u] \ {"RUNNING"}
  BY ScheduleCore
<1>2. \A u \in Thread : m.status[u] \ {"RUNNING"} = kk.status[u] \ {"RUNNING"}
  BY MainScheduleCore
<1> HIDE DEF r, m
<1>3. ASSUME NEW x, \A u \in Thread : x.status[u] \ {"RUNNING"} = kk.status[u] \ {"RUNNING"}
      PROVE  Awake(x)
  BY <1>3, RunningAside DEF Awake
<1> QED BY <1>1, <1>2, <1>3 DEF r, m

\* OsTskReadyAdd wakes its task, and OsTskSchedule then switches.
LEMMA ReadyAwake ==
  ASSUME NEW kk \in KernelState, NEW t \in Thread, NEW k0, Awake(k0), OthersKept(kk, k0, t)
  PROVE  Awake(OsTskReadyAdd(kk, t))
<1> DEFINE a == OsTskReadyAdd(kk, t)
<1>1. a.status = [kk.status EXCEPT ![t] = @ \cup {"READY"}]
  BY ReadyAddFields
<1> HIDE DEF a
<1>2. \A u \in Thread : a.status[u] = IF u = t THEN kk.status[t] \cup {"READY"} ELSE kk.status[u]
  BY <1>1 DEF KernelState
<1>3. OthersKept(a, k0, t) /\ Woken(a.status[t])
  BY <1>2 DEF OthersKept, Woken
<1> QED BY <1>3, OneTask DEF a

\* OsTskReadyAdd followed by OsTskSchedule.
LEMMA ReadyScheduleAwake ==
  ASSUME NEW kk \in KernelState, IdleReady(kk), NEW t \in Thread,
         NEW k0, Awake(k0), OthersKept(kk, k0, t)
  PROVE  Awake(OsTskSchedule(OsTskReadyAdd(kk, t)))
<1> DEFINE a == OsTskReadyAdd(kk, t)
<1>1. a \in KernelState
  BY ReadyAddFields
<1>2. IdleReady(a)
  BY ReadyAddCore
<1>3. Awake(a)
  BY ReadyAwake
<1> HIDE DEF a
<1> QED BY <1>1, <1>2, <1>3, ScheduleAwake DEF a

\* PRT_TaskResume readies the task unless it is still in PRT_TaskDelay.
LEMMA WakeResume ==
  ASSUME IInv, Awake(k), NEW t \in Task, PRT_TaskResume(t)
  PROVE  Awake(k')
<1> DEFINE b == k.status[t] \ {"SUSPEND"}
           m == StatusClear(k, t, {"SUSPEND"})
<1>0. k \in KernelState /\ IdleReady(k) /\ Core(k) /\ t \in Thread
  BY DEF IInv, TypeOK, Good, PRT_TaskResume, CanCall, InTask, Unlocked, Thread
<1>1. /\ b \in SUBSET TskStatus
      /\ b \subseteq {"INUSE", "DELAY", "READY", "RUNNING"}
  <2>1. k.status[t] \subseteq {"INUSE", "SUSPEND", "DELAY", "READY", "RUNNING"}
    BY <1>0 DEF Core, Bits
  <2> QED BY <2>1 DEF TskStatus
<1>2. m = SetStatus(k, t, b)
  BY DEF StatusClear, SetStatus
<1>3. k' = OsMoveTaskToReady(m, t)
  BY DEF PRT_TaskResume
<1> HIDE DEF m, b
<1>4. m \in KernelState /\ IdleReady(m) /\ m.status = [k.status EXCEPT ![t] = b]
  BY <1>0, <1>1, <1>2, StatusChange
<1>5. OthersKept(m, k, t) /\ m.status[t] = b
  BY <1>0, <1>4 DEF OthersKept, KernelState
<1>6. CASE StatusTst(m, t, TSK_BLOCK)
  <2>1. k' = m
    BY <1>3, <1>6 DEF OsMoveTaskToReady
  <2>2. Woken(m.status[t])
    BY <1>1, <1>5, <1>6 DEF StatusTst, TSK_BLOCK, Woken
  <2> QED BY <1>5, <2>1, <2>2, OneTask
<1>7. CASE ~StatusTst(m, t, TSK_BLOCK)
  <2>1. k' = OsTskSchedule(OsTskReadyAdd(m, t))
    BY <1>3, <1>7 DEF OsMoveTaskToReady
  <2> QED BY <1>0, <1>4, <1>5, <2>1, ReadyScheduleAwake
<1> QED BY <1>6, <1>7

\* Taking a task off its ready list and blocking it, as PRT_TaskSuspend and
\* PRT_TaskDelay do.
LEMMA BlockAwake ==
  ASSUME NEW kk \in KernelState, IdleReady(kk), NEW t \in Task,
         NEW bit \in {"SUSPEND", "DELAY"}, NEW k0, Awake(k0), OthersKept(kk, k0, t)
  PROVE  LET s == StatusSet(kk, t, {bit})
         IN  s \in KernelState /\ IdleReady(s) /\ Awake(s)
<1> DEFINE b == kk.status[t] \cup {bit}
           s == StatusSet(kk, t, {bit})
<1>0. t \in Thread
  BY DEF Thread
<1>1. b \in SUBSET TskStatus
  BY <1>0 DEF KernelState, TskStatus
<1>2. s = SetStatus(kk, t, b)
  BY DEF StatusSet, SetStatus
<1>3. bit \in b
  OBVIOUS
<1> HIDE DEF s, b
<1>4. s \in KernelState /\ IdleReady(s) /\ s.status = [kk.status EXCEPT ![t] = b]
  BY <1>0, <1>1, <1>2, StatusChange
<1>5. \A u \in Thread : s.status[u] = IF u = t THEN b ELSE kk.status[u]
  BY <1>4 DEF KernelState
<1>6. OthersKept(s, k0, t) /\ Woken(s.status[t])
  BY <1>0, <1>3, <1>5 DEF OthersKept, Woken
<1> QED BY <1>4, <1>6, OneTask DEF s

\* PRT_TaskSuspend blocks the task, whether it was ready or not.
LEMMA WakeSuspend ==
  ASSUME IInv, Awake(k), NEW t \in Task, PRT_TaskSuspend(t)
  PROVE  Awake(k')
<1> DEFINE d == IF StatusTst(k, t, {"READY"}) THEN OsTskReadyDel(k, t) ELSE k
           s == StatusSet(d, t, {"SUSPEND"})
<1>0. k \in KernelState /\ IdleReady(k)
  BY DEF IInv, TypeOK
<1>1. k' = s \/ k' = OsTskSchedule(s)
  BY DEF PRT_TaskSuspend, Suspended
<1>2. d \in KernelState /\ IdleReady(d) /\ OthersKept(d, k, t)
  <2> DEFINE r == OsTskReadyDel(k, t)
  <2>1. /\ r \in KernelState /\ IdleReady(r)
        /\ r.status = [k.status EXCEPT ![t] = @ \ {"READY"}]
    BY <1>0, ReadyDelCore
  <2> HIDE DEF r
  <2>2. OthersKept(r, k, t) /\ OthersKept(k, k, t)
    BY <1>0, <2>1 DEF OthersKept, KernelState
  <2> QED BY <1>0, <2>1, <2>2 DEF r
<1> HIDE DEF d
<1>3. s \in KernelState /\ IdleReady(s) /\ Awake(s)
  BY <1>2, BlockAwake
<1> HIDE DEF s
<1> QED BY <1>1, <1>3, ScheduleAwake

\* PRT_TaskDelay blocks the running task.
LEMMA WakeDelay ==
  ASSUME IInv, Awake(k), NEW n \in 1 .. MaxDelay, PRT_TaskDelay(n)
  PROVE  Awake(k')
<1> DEFINE t == k.running
           d == OsTskReadyDel(k, t)
           s == StatusSet(d, t, {"DELAY"})
           a == OsTskTimerAdd(s, t, n)
<1>0. k \in KernelState /\ IdleReady(k) /\ t \in Task /\ n \in Nat
  BY InTaskReady, TaskAssumption DEF PRT_TaskDelay
<1>1. k' = OsTskSchedule(a)
  BY DEF PRT_TaskDelay, DelayedTask
<1> HIDE DEF t
<1>2. /\ d \in KernelState /\ IdleReady(d)
      /\ d.status = [k.status EXCEPT ![t] = @ \ {"READY"}]
  BY <1>0, ReadyDelCore
<1> HIDE DEF d
<1>3. OthersKept(d, k, t)
  BY <1>0, <1>2 DEF OthersKept, KernelState
<1>4. s \in KernelState /\ IdleReady(s) /\ Awake(s)
  BY <1>0, <1>2, <1>3, BlockAwake
<1> HIDE DEF s
<1>5. a \in KernelState /\ a.status = s.status /\ a.readyList = s.readyList
  BY <1>0, <1>4, TimerAddCore DEF TimerFrame
<1> HIDE DEF a
<1>6. IdleReady(a) /\ Awake(a)
  BY <1>4, <1>5 DEF IdleReady, Awake
<1> QED BY <1>1, <1>5, <1>6, ScheduleAwake

\* OsTaskDelete clears the task's bits and no other task's.
LEMMA WakeDelete ==
  ASSUME IInv, Awake(k), NEW t \in Task, Unlocked, OsTaskDelete(t)
  PROVE  Awake(k')
<1> DEFINE d == OsTskHighestSet(OsTaskDeleteResInit(k, t))
           z == [d EXCEPT !.status[t] = {}, !.running = Zombie, !.taskReq = TRUE]
           e == SetStatus(d, t, {})
<1>0. k \in KernelState /\ IdleReady(k) /\ Core(k) /\ t \in Thread
  BY DEF IInv, TypeOK, Good, Unlocked, Thread
<1>1. /\ d \in KernelState /\ IdleReady(d)
      /\ d.status = [k.status EXCEPT ![t] = @ \ {"READY"}]
  BY <1>0, DeleteRes
<1>2. k' = z \/ k' = OsMainSchedule(z) \/ k' = e
  BY DEF OsTaskDelete, SetStatus
<1> HIDE DEF d
<1>3. [d.status EXCEPT ![t] = {}] \in [Thread -> SUBSET TskStatus]
  BY <1>0, <1>1 DEF KernelState
<1>4. /\ z.status = [d.status EXCEPT ![t] = {}] /\ z.readyList = d.readyList
      /\ e.status = [d.status EXCEPT ![t] = {}]
  BY <1>1 DEF KernelState, SetStatus
<1>5. z \in KernelState
  BY <1>1, <1>3 DEF KernelState
<1> HIDE DEF z, e
<1>6. ASSUME NEW x, x.status = [d.status EXCEPT ![t] = {}] PROVE Awake(x)
  <2>1. OthersKept(x, k, t) /\ x.status[t] = {}
    BY <1>0, <1>1, <1>6 DEF OthersKept, KernelState
  <2> QED BY <2>1, OneTask DEF Woken
<1>7. IdleReady(z)
  BY <1>1, <1>4 DEF IdleReady
<1> QED BY <1>2, <1>4, <1>5, <1>6, <1>7, ScheduleAwake

\* OsTaskYield moves the task within its list.
LEMMA WakeYield ==
  ASSUME IInv, Awake(k), OsTaskYield
  PROVE  Awake(k')
<1> DEFINE t == k.running
           m == OsTskReadyAdd(OsTskReadyDel(k, t), t)
<1>0. /\ k \in KernelState /\ IdleReady(k) /\ Core(k) /\ t \in Task
      /\ "READY" \in k.status[t] /\ t = k.highest
  BY InTaskReady DEF OsTaskYield
<1>1. Head(k.readyList[k.priority[t]]) = t
  BY <1>0, TopReady DEF Core
<1>2. k' = OsTskSchedule(m) \/ k' = m
  BY <1>1 DEF OsTaskYield
<1> HIDE DEF t
<1>3. m \in KernelState /\ IdleReady(m) /\ m.status = k.status
  BY <1>0, Requeue
<1> HIDE DEF m
<1>4. Awake(m)
  BY <1>3 DEF Awake
<1> QED BY <1>2, <1>3, <1>4, ScheduleAwake

\* A turn of OsTaskScan ends the delay and readies the task, unless a suspension
\* came in the meantime: PRT_TaskResume will ready it then.
LEMMA WakeScan ==
  ASSUME IInv, Awake(k), TaskScanNext
  PROVE  Awake(k')
<1> DEFINE t == Head(k.delayList)
           d == TimerDelete(k, t)
           b == k.status[t] \ {"DELAY"}
           u == StatusClear(d, t, {"DELAY"})
           a == OsTskReadyAdd(u, t)
<1>0. k \in KernelState /\ IdleReady(k) /\ Core(k) /\ k.delayList # << >>
  BY DEF IInv, TypeOK, Good, TaskScanNext, ScanDue
<1>1. t \in Task /\ t \in Thread /\ t \in ToSet(k.delayList)
  <2>1. k.delayList \in Seq(Task) /\ k.delayList # << >>
    BY <1>0 DEF KernelState
  <2>2. t \in Task /\ 1 \in DOMAIN k.delayList /\ t = k.delayList[1]
    BY <2>1
  <2> QED BY <2>2 DEF ToSet, Thread
<1> HIDE DEF t
<1>2. /\ "DELAY" \in k.status[t]
      /\ k.status[t] \subseteq {"INUSE", "SUSPEND", "DELAY", "READY", "RUNNING"}
  BY <1>0, <1>1 DEF Core, Delays, Bits
<1>3. BlockedOn(k, t) = "DELAY"
  BY <1>2 DEF BlockedOn, StatusTst
<1>4. k' = IF StatusTst(u, t, {"SUSPEND"}) THEN u ELSE [a EXCEPT !.scan = "need"]
  BY <1>3 DEF TaskScanNext, ScanTask, t, TSK_LISTED
<1>5. d \in KernelState /\ d.status = k.status /\ d.readyList = k.readyList
  BY <1>0, <1>1, TimerDeleteCore DEF TimerFrame
<1> HIDE DEF d
<1>6. IdleReady(d)
  BY <1>0, <1>5 DEF IdleReady
<1>7. u = SetStatus(d, t, b) /\ b \in SUBSET TskStatus
  BY <1>2, <1>5 DEF StatusClear, SetStatus, TskStatus
<1> HIDE DEF u, b
<1>8. u \in KernelState /\ u.status = [d.status EXCEPT ![t] = b]
  BY <1>1, <1>5, <1>6, <1>7, StatusChange
<1>9. OthersKept(u, k, t)
  BY <1>5, <1>8 DEF OthersKept, KernelState
<1>10. CASE StatusTst(u, t, {"SUSPEND"})
  <2>1. Woken(u.status[t])
    BY <1>10 DEF StatusTst, Woken
  <2> QED BY <1>4, <1>9, <1>10, <2>1, OneTask
<1>11. CASE ~StatusTst(u, t, {"SUSPEND"})
  <2>1. a \in KernelState
    BY <1>1, <1>8, ReadyAddFields
  <2>2. Awake(a)
    BY <1>1, <1>8, <1>9, ReadyAwake
  <2> HIDE DEF a
  <2>3. k'.status = a.status
    BY <1>4, <1>11, <2>1 DEF KernelState
  <2> QED BY <2>2, <2>3 DEF Awake
<1> QED BY <1>10, <1>11

\* The tail of an interrupt: the end of a time slice keeps the bits.
LEMMA WakeTail ==
  ASSUME IInv, Awake(k), NEW slice \in BOOLEAN, OsHwiDispatchTail(slice), ~k'.fault
  PROVE  Awake(k')
<1> DEFINE x == IF slice THEN OsHwiEndCheckTimeSlice(k) ELSE k
           r == OsMainSchedule(x)
<1>0. /\ ~k.fault /\ k.scan = "no" /\ k \in KernelState /\ IdleReady(k)
      /\ (slice => k.running \in Task) /\ k' = [r EXCEPT !.intActive = FALSE]
  BY TaskAssumption DEF IInv, TypeOK, OsHwiDispatchTail, Unlocked
<1>1. x \in KernelState /\ IdleReady(x) /\ (~x.fault => x.status = k.status)
  BY <1>0, SliceEnd
<1> HIDE DEF x
<1>2. r \in KernelState /\ r.fault = x.fault
  BY <1>1, MainScheduleFields
<1>3. Awake(x) => Awake(r)
  BY <1>1, ScheduleAwake
<1> HIDE DEF r
<1>4. k'.status = r.status /\ k'.fault = r.fault
  BY <1>0, <1>2 DEF KernelState
<1>5. Awake(x)
  BY <1>1, <1>2, <1>4 DEF Awake
<1> QED BY <1>3, <1>4, <1>5 DEF Awake

\* PRT_TaskSetPriority requeues a ready task and leaves the bits of another.
LEMMA WakePriority ==
  ASSUME IInv, Awake(k), NEW t \in Task, NEW p \in UserPrio, PRT_TaskSetPriority(t, p)
  PROVE  Awake(k')
<1> DEFINE d == OsTskReadyDel(k, t)
           m == SetPrio(d, t, p)
<1>0. k \in KernelState /\ IdleReady(k) /\ t \in Thread /\ p \in Prio
  BY TaskAssumption DEF IInv, TypeOK, Thread
<1>1. k' = OsTskSchedule(OsTskReadyAdd(m, t)) \/ k' = SetPrio(k, t, p)
  BY DEF PRT_TaskSetPriority, PrioritySet, SetPrio
<1>2. /\ d \in KernelState /\ IdleReady(d)
      /\ d.status = [k.status EXCEPT ![t] = @ \ {"READY"}]
  BY <1>0, ReadyDelCore
<1> HIDE DEF d
<1>3. m \in KernelState /\ IdleReady(m) /\ m.status = d.status
  BY <1>0, <1>2, PrioChange
<1> HIDE DEF m
<1>4. OthersKept(m, k, t)
  BY <1>0, <1>2, <1>3 DEF OthersKept, KernelState
<1>5. Awake(OsTskSchedule(OsTskReadyAdd(m, t)))
  BY <1>0, <1>3, <1>4, ReadyScheduleAwake
<1>6. SetPrio(k, t, p).status = k.status
  BY <1>0, PrioChange
<1> QED BY <1>1, <1>5, <1>6 DEF Awake

\* In the initial states the root task and the idle task are ready, and no other
\* control block is in use.
LEMMA InitAwake == TaskInit => WakeInv
<1> SUFFICES ASSUME TaskInit PROVE Awake(k)
  BY InitIInv DEF WakeInv
<1>1. \A u \in Thread : k.status[u] = {} \/ "READY" \in k.status[u]
  BY DEF TaskInit
<1> QED BY <1>1 DEF Awake, Woken

\* WakeInv is inductive: one step per action.
LEMMA NextAwake == WakeInv /\ [TaskNext]_taskVars => WakeInv'
<1> SUFFICES ASSUME IInv, ~k.fault => Awake(k), [TaskNext]_taskVars, ~k'.fault
             PROVE  Awake(k')
  BY NextIInv DEF WakeInv
<1>0. k \in KernelState /\ IdleReady(k)
  BY DEF IInv, TypeOK
<1> DEFINE Live == ~k.fault /\ Awake(k)
<1>1. ASSUME NEW t \in Task, NEW p \in UserPrio, TaskCreate(t, p) PROVE Awake(k')
  <2>1. Live /\ k'.status = [k.status EXCEPT ![t] = {"SUSPEND", "INUSE"}] /\ t \in Thread
    BY <1>0, <1>1 DEF TaskCreate, CanCall, InTask, Unlocked, KernelState, Thread
  <2>2. OthersKept(k', k, t) /\ k'.status[t] = {"SUSPEND", "INUSE"}
    BY <1>0, <2>1 DEF OthersKept, KernelState
  <2>3. Woken(k'.status[t])
    BY <2>2 DEF Woken
  <2> QED BY <2>1, <2>2, <2>3, OneTask
<1>2. CASE TaskCreateNoMemory
  BY <1>2 DEF TaskCreateNoMemory
<1>3. ASSUME NEW t \in Task, PRT_TaskResume(t) PROVE Awake(k')
  BY <1>3, WakeResume DEF PRT_TaskResume, CanCall, InTask, Unlocked
<1>4. ASSUME NEW t \in Task, PRT_TaskSuspend(t) PROVE Awake(k')
  BY <1>4, WakeSuspend DEF PRT_TaskSuspend, CanCall, InTask, Unlocked
<1>5. ASSUME NEW t \in Task, PRT_TaskDelete(t) PROVE Awake(k')
  BY <1>5, WakeDelete DEF PRT_TaskDelete, CanCall, InTask, Unlocked
<1>6. ASSUME NEW n \in 1 .. MaxDelay, PRT_TaskDelay(n) PROVE Awake(k')
  BY <1>6, WakeDelay DEF PRT_TaskDelay, InTask, Unlocked
<1>7. CASE OsTaskYield
  <2>1. ~k.fault
    BY <1>7, InTaskReady DEF OsTaskYield
  <2> QED BY <1>7, <2>1, WakeYield
<1>8. CASE PRT_TaskLock \/ OsTskEntryReturn \/ OsHwiDispatch \/ OsTickDispatcher
  <2>1. ~k.fault /\ k'.status = k.status
    BY <1>0, <1>8 DEF PRT_TaskLock, OsTskEntryReturn, OsHwiDispatch, OsTickDispatcher,
                      OsTaskScan, InTask, Unlocked, KernelState
  <2> QED BY <2>1 DEF Awake
<1>9. CASE PRT_TaskUnlock
  <2> DEFINE u == [k EXCEPT !.taskLock = @ - 1]
  <2>1. Live /\ k.taskLock - 1 \in Nat
    BY <1>0, <1>9 DEF PRT_TaskUnlock, InTask, Unlocked, KernelState
  <2>2. u \in KernelState /\ u.status = k.status /\ u.readyList = k.readyList
    BY <1>0, <2>1 DEF KernelState
  <2>3. k' = OsTskSchedule(u) \/ k' = u
    BY <1>9 DEF PRT_TaskUnlock, Unlocking
  <2> HIDE DEF u
  <2>4. IdleReady(u) /\ Awake(u)
    BY <1>0, <2>1, <2>2 DEF IdleReady, Awake
  <2> QED BY <2>2, <2>3, <2>4, ScheduleAwake
<1>10. CASE OsTaskExit
  <2>1. k.running \in Task
    BY <1>10 DEF OsTaskExit, IInv, TypeOK
  <2> QED BY <1>10, <2>1, WakeDelete DEF OsTaskExit, Unlocked
<1>11. CASE TaskScanNext
  BY <1>11, WakeScan DEF TaskScanNext
<1>12. CASE TaskScanDone
  <2> DEFINE s == IF k.scan = "need" THEN OsTskSchedule(k) ELSE k
  <2>1. Live /\ k' = [s EXCEPT !.scan = "no"]
    BY <1>12 DEF TaskScanDone, ScanEnd
  <2>2. s \in KernelState /\ Awake(s)
    BY <1>0, <2>1, ScheduleCore, ScheduleAwake
  <2> HIDE DEF s
  <2>3. k'.status = s.status
    BY <2>1, <2>2 DEF KernelState
  <2> QED BY <2>2, <2>3 DEF Awake
<1>13. ASSUME NEW slice \in BOOLEAN, OsHwiDispatchTail(slice) PROVE Awake(k')
  BY <1>13, WakeTail DEF OsHwiDispatchTail, Unlocked
<1>14. ASSUME NEW t \in Task, NEW p \in UserPrio, PRT_TaskSetPriority(t, p)
       PROVE  Awake(k')
  BY <1>14, WakePriority DEF PRT_TaskSetPriority, CanCall, InTask, Unlocked
<1>15. CASE UNCHANGED taskVars
  BY <1>15 DEF taskVars
<1> QED BY <1>1, <1>2, <1>3, <1>4, <1>5, <1>6, <1>7, <1>8, <1>9, <1>10, <1>11, <1>12,
           <1>13, <1>14, <1>15 DEF TaskNext, TaskServices

\* doc/design/task.md: a task in use is in the ready lists exactly when nothing
\* blocks it, so no order of suspend, resume, delay, tick and deletion leaves a
\* task that could run out of the ready lists, or a blocked one in them.
THEOREM NoLostWakeup == TaskSpec => []ReadyIffNotBlocked
<1>1. WakeInv => ReadyIffNotBlocked
  <2> SUFFICES ASSUME WakeInv, ~k.fault, NEW t \in Thread
               PROVE  "READY" \in k.status[t] <=> Used(t) /\ ~StatusTst(k, t, TSK_BLOCK)
    BY DEF ReadyIffNotBlocked
  <2>1. /\ k.status[t] \subseteq {"INUSE", "SUSPEND", "DELAY", "READY", "RUNNING"}
        /\ "READY" \in k.status[t] => k.status[t] \cap {"SUSPEND", "DELAY"} = {}
        /\ k.status[t] # {} => "INUSE" \in k.status[t]
        /\ Woken(k.status[t])
    BY DEF WakeInv, IInv, Good, Core, Bits, Awake
  <2> QED BY <2>1 DEF Woken, Used, StatusTst, TSK_BLOCK
<1> QED BY <1>1, InitAwake, NextAwake, PTL DEF TaskSpec
=============================================================================
