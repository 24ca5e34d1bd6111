----------------------------- MODULE TaskProofs -----------------------------
(***************************************************************************)
(* Theorems about task management, for any number of tasks and priorities, *)
(* any choice of services for tasks and interrupt handlers, and any bounds:*)
(* type correctness, the ready lists, preemption, the running bit, the     *)
(* accounting of control blocks and the scheduler lock.  They follow from  *)
(* IInv of TaskInvariant; here are the steps not done there.               *)
(***************************************************************************)
EXTENDS TaskInvariant

----------------------------------------------------------------------------
(* Steps.                                                                  *)

\* PRT_TaskDelay moves the running task from its ready list to the delay list.
LEMMA StepDelay ==
  ASSUME IInv, NEW n \in 1 .. MaxDelay, PRT_TaskDelay(n)
  PROVE  IInv'
<1> DEFINE t == k.running
           d == OsTskReadyDel(k, t)
           b == (k.status[t] \ {"READY"}) \cup {"DELAY"}
           s == StatusSet(d, t, {"DELAY"})
           a == OsTskTimerAdd(s, t, n)
<1>0. /\ ~k.fault /\ k \in KernelState /\ IdleReady(k) /\ Core(k)
      /\ Flags(k) /\ t \in Task /\ "READY" \in k.status[t] /\ k.taskLock = 0
      /\ UNCHANGED <<free, recycle, exiting>>
  BY InTaskReady DEF PRT_TaskDelay
<1>1. t \in Thread /\ n \in Nat
  BY <1>0, TaskAssumption DEF Thread
<1> HIDE DEF t
<1>2. /\ d \in KernelState /\ IdleReady(d) /\ Core(d) /\ ReadyFrame(d, k)
      /\ d.status = [k.status EXCEPT ![t] = @ \ {"READY"}]
  BY <1>0, ReadyDelCore
<1> HIDE DEF d
<1>3. \A u \in Thread : d.status[u] = IF u = t THEN k.status[t] \ {"READY"} ELSE k.status[u]
  BY <1>0, <1>2 DEF KernelState
<1>4. /\ b \in SUBSET TskStatus /\ StatusOk(d, t, b)
      /\ "DELAY" \in b /\ ("INUSE" \in b <=> "INUSE" \in k.status[t])
  <2>1. /\ k.status[t] \subseteq {"INUSE", "SUSPEND", "DELAY", "READY", "RUNNING"}
        /\ "INUSE" \in k.status[t]
    BY <1>0, <1>1 DEF Core, Bits
  <2> QED BY <1>1, <1>3, <2>1 DEF StatusOk, TskStatus
<1>5. s = SetStatus(d, t, b)
  BY <1>1, <1>3 DEF StatusSet, SetStatus
<1> HIDE DEF s, b
<1>6. /\ s \in KernelState /\ IdleReady(s) /\ Core(s) /\ ReadyFrame(s, d)
      /\ s.status = [d.status EXCEPT ![t] = b]
  BY <1>1, <1>2, <1>4, <1>5, StatusChange
<1>7. \A u \in Thread : s.status[u] = IF u = t THEN b ELSE k.status[u]
  BY <1>2, <1>3, <1>6 DEF KernelState
<1>8. t \notin ToSet(s.delayList)
  BY <1>0, <1>1, <1>2, <1>6 DEF Core, Delays, Bits, ReadyFrame, SwitchFrame
<1>9. a \in KernelState /\ Core(a) /\ TimerFrame(a, s)
  <2>1. "DELAY" \in s.status[t]
    BY <1>1, <1>4, <1>7
  <2> QED BY <1>0, <1>1, <1>6, <1>8, <2>1, TimerAddCore
<1> HIDE DEF a
<1>10. /\ a.status = s.status /\ a.readyList = s.readyList /\ a.taskLock = s.taskLock
       /\ a.intActive = s.intActive /\ a.taskReq = s.taskReq /\ a.scan = s.scan
  BY <1>9 DEF TimerFrame
<1>11. IdleReady(a) /\ Flags(a) /\ Lock(a)
  BY <1>0, <1>2, <1>6, <1>10 DEF IdleReady, Flags, Lock, ReadyFrame, SwitchFrame
<1>12. k' = OsTskSchedule(a)
  BY DEF PRT_TaskDelay, DelayedTask, a, s, d, t
<1>13. /\ k' \in KernelState /\ IdleReady(k') /\ Good(k', exiting)
       /\ \A u \in Thread : "INUSE" \in k'.status[u] <=> "INUSE" \in a.status[u]
  BY <1>9, <1>11, <1>12, ScheduleGood
<1>14. \A u \in Thread : "INUSE" \in k'.status[u] <=> "INUSE" \in k.status[u]
  BY <1>4, <1>7, <1>10, <1>13
<1> QED BY <1>0, <1>13, <1>14, Framed

\* A ready task goes to the end of the list of its priority.
LEMMA Requeue ==
  ASSUME NEW kk \in KernelState, IdleReady(kk), NEW t \in Task
  PROVE  LET m == OsTskReadyAdd(OsTskReadyDel(kk, t), t)
         IN  /\ m \in KernelState /\ IdleReady(m) /\ ReadyFrame(m, kk)
             /\ \A u \in Thread : "INUSE" \in m.status[u] <=> "INUSE" \in kk.status[u]
             /\ (/\ Core(kk) /\ "READY" \in kk.status[t]) =>
                   /\ Core(m) /\ m.fault = kk.fault
                   /\ m.status = kk.status
             /\ Core(kk) /\ "READY" \notin kk.status[t] => m.fault
<1> DEFINE d == OsTskReadyDel(kk, t)
           m == OsTskReadyAdd(d, t)
<1>0. t \in Thread
  BY DEF Thread
<1>1. /\ d \in KernelState /\ IdleReady(d)
      /\ d.status = [kk.status EXCEPT ![t] = @ \ {"READY"}]
      /\ ReadyFrame(d, kk)
      /\ Core(kk) /\ "READY" \in kk.status[t] => Core(d) /\ d.fault = kk.fault
      /\ Core(kk) /\ "READY" \notin kk.status[t] => d.fault
  BY ReadyDelCore
<1> HIDE DEF d
<1>2. /\ m \in KernelState /\ ReadyFrame(m, d) /\ m.fault = d.fault
      /\ m.status = [d.status EXCEPT ![t] = @ \cup {"READY"}]
  BY <1>0, <1>1, ReadyAddFields
<1>3. /\ IdleReady(m)
      /\ (/\ Core(d) /\ "INUSE" \in d.status[t]
          /\ d.status[t] \cap {"READY", "SUSPEND", "DELAY"} = {}) => Core(m)
  BY <1>0, <1>1, ReadyAddCore
<1> HIDE DEF m
<1>4. \A u \in Thread : d.status[u] = IF u = t THEN kk.status[t] \ {"READY"} ELSE kk.status[u]
  BY <1>0, <1>1 DEF KernelState
<1>5. \A u \in Thread : m.status[u] = IF u = t THEN d.status[t] \cup {"READY"} ELSE d.status[u]
  BY <1>0, <1>1, <1>2 DEF KernelState
<1>6. ReadyFrame(m, kk)
  BY <1>1, <1>2 DEF ReadyFrame, SwitchFrame
<1>7. \A u \in Thread : "INUSE" \in m.status[u] <=> "INUSE" \in kk.status[u]
  BY <1>4, <1>5
<1>8. ASSUME Core(kk), "READY" \in kk.status[t]
      PROVE  Core(m) /\ m.fault = kk.fault /\ m.status = kk.status
  <2>1. "INUSE" \in kk.status[t] /\ kk.status[t] \cap {"SUSPEND", "DELAY"} = {}
    BY <1>0, <1>8 DEF Core, Bits
  <2>2. "INUSE" \in d.status[t] /\ d.status[t] \cap {"READY", "SUSPEND", "DELAY"} = {}
    BY <1>0, <1>4, <2>1
  <2>3. \A u \in Thread : m.status[u] = kk.status[u]
    BY <1>4, <1>5, <1>8
  <2>4. m.status = kk.status
    <3>1. m.status \in [Thread -> SUBSET TskStatus] /\ kk.status \in [Thread -> SUBSET TskStatus]
      BY <1>2 DEF KernelState
    <3> QED BY <2>3, <3>1
  <2> QED BY <1>1, <1>2, <1>3, <1>8, <2>2, <2>4
<1> QED BY <1>1, <1>2, <1>3, <1>6, <1>7, <1>8 DEF m, d

\* OsTaskYield moves the running task to the back of its ready list.
LEMMA StepYield ==
  ASSUME IInv, OsTaskYield
  PROVE  IInv'
<1> DEFINE t == k.running
           m == OsTskReadyAdd(OsTskReadyDel(k, t), t)
<1>0. /\ ~k.fault /\ k \in KernelState /\ IdleReady(k) /\ Core(k)
      /\ Flags(k) /\ Lock(k) /\ t \in Task /\ "READY" \in k.status[t] /\ k.taskLock = 0
      /\ t = k.highest /\ UNCHANGED <<free, recycle, exiting>>
  BY InTaskReady DEF OsTaskYield
<1>1. Head(k.readyList[k.priority[t]]) = t
  BY <1>0, TopReady DEF Core
<1>2. "RUNNING" \in k.status[t]
  BY <1>0 DEF Core, RunningBit, Thread
<1>3. k' = OsTskSchedule(m)
  BY <1>1, <1>2 DEF OsTaskYield, StatusTst
<1> HIDE DEF t
<1>4. /\ m \in KernelState /\ IdleReady(m) /\ ReadyFrame(m, k)
      /\ Core(m) /\ m.fault = k.fault /\ m.status = k.status
  BY <1>0, Requeue
<1> HIDE DEF m
<1>5. Flags(m) /\ Lock(m)
  BY <1>0, <1>4, FrameGood
<1>6. /\ k' \in KernelState /\ IdleReady(k') /\ Good(k', exiting)
      /\ \A u \in Thread : "INUSE" \in k'.status[u] <=> "INUSE" \in m.status[u]
  BY <1>3, <1>4, <1>5, ScheduleGood
<1> QED BY <1>0, <1>4, <1>6, Framed

\* PRT_TaskLock, PRT_TaskUnlock, OsTskEntryReturn and OsHwiDispatch change flags only.
FlagFrame(r, kk) ==
  /\ r.status = kk.status /\ r.priority = kk.priority /\ r.readyList = kk.readyList
  /\ r.delayList = kk.delayList /\ r.highest = kk.highest /\ r.running = kk.running
  /\ r.fault = kk.fault

\* Core does not look at the flags.
LEMMA FlagCore ==
  ASSUME NEW kk, NEW r, FlagFrame(r, kk), IdleReady(kk), Core(kk)
  PROVE  IdleReady(r) /\ Core(r)
<1>1. Top(r) = Top(kk)
  BY DEF FlagFrame, Top
<1> QED BY <1>1 DEF FlagFrame, IdleReady, Core, ReadyQueue, RunningBit, Delays, Bits

\* PRT_TaskLock: no switch is pending when a task locks the scheduler.
LEMMA StepLock ==
  ASSUME IInv, PRT_TaskLock
  PROVE  IInv'
<1>0. /\ ~k.fault /\ k \in KernelState /\ IdleReady(k) /\ Core(k)
      /\ k.running \in Task /\ "READY" \in k.status[k.running]
      /\ ~k.intActive /\ ~k.taskReq /\ k.scan = "no"
      /\ UNCHANGED <<free, recycle, exiting>>
  BY InTaskReady DEF PRT_TaskLock
<1>1. k' = [k EXCEPT !.taskReq = FALSE, !.taskLock = k.taskLock + 1]
  BY <1>0 DEF PRT_TaskLock, KernelState
<1>2. /\ k' \in KernelState /\ FlagFrame(k', k)
      /\ ~k'.taskReq /\ k'.scan = "no" /\ k'.taskLock # 0
  <2>1. k.taskLock + 1 \in Nat /\ k.taskLock + 1 # 0
    BY <1>0 DEF KernelState
  <2>2. k' \in KernelState
    BY <1>0, <1>1, <2>1 DEF KernelState
  <2>3. /\ FlagFrame(k', k) /\ k'.taskReq = FALSE /\ k'.scan = "no"
        /\ k'.taskLock = k.taskLock + 1
    BY <1>0, <1>1 DEF KernelState, FlagFrame
  <2> QED BY <2>1, <2>2, <2>3
<1>3. IdleReady(k') /\ Core(k')
  BY <1>0, <1>2, FlagCore
<1>4. Good(k', exiting) /\ k'.status = k.status
  BY <1>0, <1>2, <1>3 DEF Good, Flags, Lock, Runs, FlagFrame
<1> QED BY <1>0, <1>2, <1>3, <1>4, Framed

\* The last PRT_TaskUnlock schedules, the others only count.
LEMMA StepUnlock ==
  ASSUME IInv, PRT_TaskUnlock
  PROVE  IInv'
<1> DEFINE u == [k EXCEPT !.taskLock = @ - 1]
<1>0. /\ ~k.fault /\ k \in KernelState /\ IdleReady(k) /\ Core(k)
      /\ k.running \in Task /\ "READY" \in k.status[k.running]
      /\ ~k.intActive /\ ~k.taskReq /\ k.scan = "no" /\ k.taskLock > 0
      /\ UNCHANGED <<free, recycle, exiting>>
  BY InTaskReady DEF PRT_TaskUnlock
<1>1. k' = IF u.taskLock = 0 THEN OsTskSchedule(u) ELSE u
  BY DEF PRT_TaskUnlock, Unlocking
<1>2. /\ u \in KernelState /\ FlagFrame(u, k)
      /\ u.taskReq = k.taskReq /\ u.intActive = k.intActive /\ u.scan = "no"
  <2>1. k.taskLock - 1 \in Nat
    BY <1>0 DEF KernelState
  <2>2. u \in KernelState
    BY <1>0, <2>1 DEF KernelState
  <2>3. /\ FlagFrame(u, k) /\ u.taskReq = k.taskReq /\ u.intActive = k.intActive
        /\ u.scan = "no"
    BY <1>0 DEF KernelState, FlagFrame
  <2> QED BY <2>2, <2>3
<1> HIDE DEF u
<1>3. IdleReady(u) /\ Core(u)
  BY <1>0, <1>2, FlagCore
<1>4. Flags(u) /\ Lock(u) /\ u.status = k.status
  BY <1>0, <1>2 DEF Flags, Lock, FlagFrame
<1>5. CASE u.taskLock = 0
  <2>1. /\ k' \in KernelState /\ IdleReady(k') /\ Good(k', exiting)
        /\ \A v \in Thread : "INUSE" \in k'.status[v] <=> "INUSE" \in u.status[v]
    BY <1>1, <1>2, <1>3, <1>4, <1>5, ScheduleGood
  <2> QED BY <1>0, <1>4, <2>1, Framed
<1>6. CASE u.taskLock # 0
  <2>1. k' = u /\ Good(u, exiting)
    BY <1>1, <1>3, <1>4, <1>6 DEF Good, Runs
  <2> QED BY <1>0, <1>2, <1>3, <1>4, <2>1, Framed
<1> QED BY <1>5, <1>6

\* After its entry function a task is only marked as exiting.
LEMMA StepEntryReturn ==
  ASSUME IInv, OsTskEntryReturn
  PROVE  IInv'
<1>0. /\ ~k.fault /\ k \in KernelState /\ IdleReady(k) /\ Core(k)
      /\ k.running \in Task /\ "READY" \in k.status[k.running]
      /\ ~k.intActive /\ ~k.taskReq /\ k.scan = "no"
  BY InTaskReady DEF OsTskEntryReturn
<1>1. /\ k' = [k EXCEPT !.taskLock = 0] /\ exiting' = exiting \cup {k.running}
      /\ UNCHANGED <<free, recycle>>
  BY DEF OsTskEntryReturn
<1>2. /\ k' \in KernelState /\ FlagFrame(k', k) /\ k'.taskLock = 0
      /\ k'.taskReq = k.taskReq /\ k'.scan = "no"
  BY <1>0, <1>1 DEF KernelState, FlagFrame
<1>3. IdleReady(k') /\ Core(k')
  BY <1>0, <1>2, FlagCore
<1>4. Good(k', exiting')
  BY <1>0, <1>1, <1>2, <1>3 DEF Good, Flags, Lock, Runs, FlagFrame
<1>5. Used(k.running)
  BY <1>0 DEF Used
<1>6. TcbAccounted' /\ TypeOK'
  BY <1>0, <1>1, <1>2, <1>5 DEF IInv, TcbAccounted, TypeOK, Used, FlagFrame
<1> QED BY <1>3, <1>4, <1>6 DEF IInv

SetPrio(kk, t, p) == [kk EXCEPT !.priority[t] = p, !.origPriority[t] = p]

\* A task that is not ready can be given any priority.
LEMMA PrioChange ==
  ASSUME NEW kk \in KernelState, IdleReady(kk), NEW t \in Thread, NEW p \in Prio
  PROVE  LET r == SetPrio(kk, t, p)
         IN  /\ r \in KernelState /\ IdleReady(r) /\ r.status = kk.status
             /\ r.highest = kk.highest /\ r.running = kk.running /\ r.fault = kk.fault
             /\ r.taskLock = kk.taskLock /\ r.taskReq = kk.taskReq
             /\ r.intActive = kk.intActive /\ r.scan = kk.scan
             /\ Core(kk) /\ "READY" \notin kk.status[t] => Core(r)
<1> DEFINE r == SetPrio(kk, t, p)
<1>1. /\ [kk.priority EXCEPT ![t] = p] \in [Thread -> Prio]
      /\ [kk.origPriority EXCEPT ![t] = p] \in [Thread -> Prio]
  BY DEF KernelState
<1>2. r = [kk EXCEPT !.priority = [kk.priority EXCEPT ![t] = p],
                     !.origPriority = [kk.origPriority EXCEPT ![t] = p]]
  BY DEF SetPrio
<1> HIDE DEF r
<1>3. r \in KernelState
  BY <1>1, <1>2 DEF KernelState
<1>4. /\ r.status = kk.status /\ r.readyList = kk.readyList /\ r.delayList = kk.delayList
      /\ r.highest = kk.highest /\ r.running = kk.running /\ r.fault = kk.fault
      /\ r.taskLock = kk.taskLock /\ r.taskReq = kk.taskReq
      /\ r.intActive = kk.intActive /\ r.scan = kk.scan
      /\ r.priority = [kk.priority EXCEPT ![t] = p]
  BY <1>2 DEF KernelState
<1>5. IdleReady(r) /\ Top(r) = Top(kk)
  BY <1>4 DEF IdleReady, Top
<1>6. ASSUME Core(kk), "READY" \notin kk.status[t]
      PROVE  Core(r)
  <2>1. \A u \in Thread : u # t => r.priority[u] = kk.priority[u]
    BY <1>4 DEF KernelState
  <2>2. ReadyQueue(kk)
    BY <1>6 DEF Core
  <2>3. \A u \in Thread, q \in Prio :
          u \in ToSet(r.readyList[q]) <=> "READY" \in r.status[u] /\ r.priority[u] = q
    BY <1>4, <1>6, <2>1, <2>2 DEF ReadyQueue
  <2>4. ReadyQueue(r)
    BY <1>4, <1>5, <2>2, <2>3 DEF ReadyQueue
  <2> QED BY <1>4, <1>6, <2>4 DEF Core, RunningBit, Delays, Bits
<1> QED BY <1>3, <1>4, <1>5, <1>6 DEF r

\* PRT_TaskSetPriority moves a ready task between the lists, and schedules.
LEMMA StepSetPriority ==
  ASSUME IInv, NEW t \in Task, NEW p \in UserPrio, PRT_TaskSetPriority(t, p)
  PROVE  IInv'
<1>0. /\ ~k.fault /\ k \in KernelState /\ IdleReady(k) /\ Core(k) /\ Flags(k) /\ Lock(k)
      /\ Runs(k, exiting) /\ t \in Thread /\ p \in Prio
      /\ UNCHANGED <<free, recycle, exiting>> /\ k' = PrioritySet(k, t, p)
  BY TaskAssumption
     DEF IInv, TypeOK, Good, PRT_TaskSetPriority, CanCall, InTask, Unlocked, Thread
<1>1. CASE "READY" \in k.status[t]
  <2> DEFINE d == OsTskReadyDel(k, t)
             m == SetPrio(d, t, p)
             a == OsTskReadyAdd(m, t)
  <2>1. k' = OsTskSchedule(a)
    BY <1>0, <1>1 DEF PrioritySet, StatusTst, SetPrio
  <2>2. /\ d \in KernelState /\ IdleReady(d) /\ Core(d) /\ ReadyFrame(d, k)
        /\ d.status = [k.status EXCEPT ![t] = @ \ {"READY"}]
    BY <1>0, <1>1, ReadyDelCore
  <2> HIDE DEF d
  <2>3. \A u \in Thread : d.status[u] = IF u = t THEN k.status[t] \ {"READY"} ELSE k.status[u]
    BY <1>0, <2>2 DEF KernelState
  <2>4. "READY" \notin d.status[t]
    BY <1>0, <2>3
  <2>5. /\ m \in KernelState /\ IdleReady(m) /\ Core(m) /\ m.status = d.status
        /\ m.running = d.running /\ m.taskLock = d.taskLock /\ m.taskReq = d.taskReq
        /\ m.intActive = d.intActive /\ m.scan = d.scan
    BY <1>0, <2>2, <2>4, PrioChange
  <2> HIDE DEF m
  <2>6. "INUSE" \in m.status[t] /\ m.status[t] \cap {"READY", "SUSPEND", "DELAY"} = {}
    <3>1. "INUSE" \in k.status[t] /\ k.status[t] \cap {"SUSPEND", "DELAY"} = {}
      BY <1>0, <1>1 DEF Core, Bits
    <3> QED BY <1>0, <2>3, <2>5, <3>1
  <2>7. /\ a \in KernelState /\ ReadyFrame(a, m)
        /\ a.status = [m.status EXCEPT ![t] = @ \cup {"READY"}]
    BY <1>0, <2>5, ReadyAddFields
  <2>8. IdleReady(a) /\ Core(a)
    BY <1>0, <2>5, <2>6, ReadyAddCore
  <2> HIDE DEF a
  <2>9. \A u \in Thread : a.status[u] = IF u = t THEN m.status[t] \cup {"READY"} ELSE m.status[u]
    BY <1>0, <2>5, <2>7 DEF KernelState
  <2>10. \A u \in Thread : /\ "INUSE" \in a.status[u] <=> "INUSE" \in k.status[u]
                           /\ "READY" \in k.status[u] => "READY" \in a.status[u]
    BY <2>3, <2>5, <2>9
  <2>11. /\ a.running = k.running /\ a.taskReq = k.taskReq /\ a.taskLock = k.taskLock
         /\ a.intActive = k.intActive /\ a.scan = k.scan
    BY <2>2, <2>5, <2>7 DEF ReadyFrame, SwitchFrame
  <2>12. Flags(a) /\ Lock(a)
    BY <1>0, <2>10, <2>11 DEF Flags, Lock, Thread
  <2>13. /\ k' \in KernelState /\ IdleReady(k') /\ Good(k', exiting)
         /\ \A u \in Thread : "INUSE" \in k'.status[u] <=> "INUSE" \in a.status[u]
    BY <2>1, <2>7, <2>8, <2>12, ScheduleGood
  <2> QED BY <1>0, <2>10, <2>13, Framed
<1>2. CASE "READY" \notin k.status[t]
  <2>1. k' = SetPrio(k, t, p)
    BY <1>0, <1>2 DEF PrioritySet, StatusTst, SetPrio
  <2>2. /\ k' \in KernelState /\ IdleReady(k') /\ Core(k') /\ k'.status = k.status
        /\ k'.highest = k.highest /\ k'.running = k.running
        /\ k'.taskLock = k.taskLock /\ k'.taskReq = k.taskReq
        /\ k'.intActive = k.intActive /\ k'.scan = k.scan
    BY <1>0, <1>2, <2>1, PrioChange
  <2>3. Good(k', exiting)
    BY <1>0, <2>2 DEF Good, Flags, Lock, Runs, Switched
  <2> QED BY <1>0, <2>2, <2>3, Framed
<1> QED BY <1>1, <1>2

\* An interrupt begins.
LEMMA StepDispatch ==
  ASSUME IInv, OsHwiDispatch
  PROVE  IInv'
<1>0. /\ ~k.fault /\ k \in KernelState /\ IdleReady(k) /\ Core(k) /\ Flags(k) /\ Lock(k)
      /\ Runs(k, exiting) /\ UNCHANGED <<free, recycle, exiting>> /\ ~k.intActive
      /\ k' = [k EXCEPT !.intActive = TRUE]
  BY DEF IInv, TypeOK, Good, OsHwiDispatch, Unlocked
<1>1. /\ k' \in KernelState /\ FlagFrame(k', k) /\ k'.intActive
      /\ k'.taskLock = k.taskLock /\ k'.taskReq = k.taskReq /\ k'.scan = k.scan
  BY <1>0 DEF KernelState, FlagFrame
<1>2. IdleReady(k') /\ Core(k')
  BY <1>0, <1>1, FlagCore
<1>3. Good(k', exiting) /\ k'.status = k.status
  BY <1>0, <1>1, <1>2 DEF Good, Flags, Lock, Runs, Switched, FlagFrame
<1> QED BY <1>0, <1>1, <1>2, <1>3, Framed

\* OsTickDispatcher starts the scan of the delay list.
LEMMA StepTick ==
  ASSUME IInv, OsTickDispatcher
  PROVE  IInv'
<1> DEFINE l == [t \in Task |-> IF k.left[t] > 0 THEN k.left[t] - 1 ELSE 0]
<1>0. /\ ~k.fault /\ k \in KernelState /\ IdleReady(k) /\ Core(k) /\ Flags(k) /\ Lock(k)
      /\ Runs(k, exiting) /\ UNCHANGED <<free, recycle, exiting>> /\ k.intActive
      /\ k.scan = "no" /\ k' = [k EXCEPT !.scan = "scan", !.left = l]
  BY DEF IInv, TypeOK, Good, OsTickDispatcher, OsTaskScan, Unlocked
<1>1. l \in [Task -> Nat]
  BY <1>0 DEF KernelState
<1> HIDE DEF l
<1>2. k' \in KernelState
  BY <1>0, <1>1 DEF KernelState
<1>3. /\ FlagFrame(k', k) /\ k'.intActive = k.intActive /\ k'.taskLock = k.taskLock
      /\ k'.taskReq = k.taskReq /\ k'.scan = "scan"
  BY <1>0 DEF KernelState, FlagFrame
<1>4. IdleReady(k') /\ Core(k')
  BY <1>0, <1>3, FlagCore
<1>5. Good(k', exiting) /\ k'.status = k.status
  BY <1>0, <1>3, <1>4 DEF Good, Flags, Lock, Runs, Switched, FlagFrame
<1> QED BY <1>0, <1>2, <1>4, <1>5, Framed

\* A turn of OsTaskScan: the task is in no ready list when the scan readies it.
LEMMA StepScanNext ==
  ASSUME IInv, TaskScanNext
  PROVE  IInv'
<1> DEFINE t == Head(k.delayList)
           d == TimerDelete(k, t)
           b == k.status[t] \ {"DELAY"}
           u == StatusClear(d, t, {"DELAY"})
           a == OsTskReadyAdd(u, t)
<1>0. /\ ~k.fault /\ k \in KernelState /\ IdleReady(k) /\ Core(k) /\ Flags(k) /\ Lock(k)
      /\ Runs(k, exiting) /\ UNCHANGED <<free, recycle, exiting>> /\ k.scan # "no"
      /\ k.delayList # << >>
  BY DEF IInv, TypeOK, Good, TaskScanNext, ScanDue
<1>1. t \in Task /\ t \in Thread /\ t \in ToSet(k.delayList)
  <2>1. k.delayList \in Seq(Task) /\ k.delayList # << >>
    BY <1>0 DEF KernelState
  <2>2. t \in Task /\ 1 \in DOMAIN k.delayList /\ t = k.delayList[1]
    BY <2>1
  <2> QED BY <2>2 DEF ToSet, Thread
<1> HIDE DEF t
<1>2. "DELAY" \in k.status[t] /\ "READY" \notin k.status[t] /\ "INUSE" \in k.status[t]
      /\ k.status[t] \subseteq {"INUSE", "SUSPEND", "DELAY", "READY", "RUNNING"}
  BY <1>0, <1>1 DEF Core, Delays, Bits
<1>3. BlockedOn(k, t) = "DELAY"
  BY <1>2 DEF BlockedOn, StatusTst
<1>4. k' = IF StatusTst(u, t, {"SUSPEND"}) THEN u ELSE [a EXCEPT !.scan = "need"]
  BY <1>3 DEF TaskScanNext, ScanTask, t, TSK_LISTED
<1>5. /\ d \in KernelState /\ Core(d) /\ TimerFrame(d, k) /\ d.fault = k.fault
      /\ t \notin ToSet(d.delayList)
  BY <1>0, <1>1, TimerDeleteCore
<1> HIDE DEF d
<1>6. IdleReady(d) /\ d.status = k.status
  BY <1>0, <1>5 DEF IdleReady, TimerFrame
<1>7. u = SetStatus(d, t, b)
  BY <1>6 DEF StatusClear, SetStatus
<1>8. b \in SUBSET TskStatus /\ StatusOk(d, t, b)
  BY <1>2, <1>5, <1>6 DEF StatusOk, TskStatus
<1> HIDE DEF u, b
<1>9. /\ u \in KernelState /\ IdleReady(u) /\ Core(u) /\ ReadyFrame(u, d)
      /\ u.status = [d.status EXCEPT ![t] = b] /\ u.highest = d.highest /\ u.fault = d.fault
  BY <1>1, <1>5, <1>6, <1>7, <1>8, StatusChange
<1>10. \A x \in Thread : u.status[x] = IF x = t THEN b ELSE k.status[x]
  BY <1>5, <1>6, <1>9 DEF KernelState
<1>11. \A x \in Thread : "INUSE" \in u.status[x] <=> "INUSE" \in k.status[x]
  BY <1>10 DEF b
<1>12. /\ u.running = k.running /\ u.taskReq = k.taskReq /\ u.taskLock = k.taskLock
       /\ u.intActive = k.intActive /\ u.scan = k.scan /\ u.highest = k.highest
  BY <1>5, <1>9 DEF ReadyFrame, SwitchFrame, TimerFrame
<1>13. k.intActive
  BY <1>0 DEF Flags
<1>14. k.taskLock # 0 => k.running # t
  BY <1>0, <1>2 DEF Lock
<1>15. Flags(u) /\ Lock(u) /\ Runs(u, exiting)
  BY <1>0, <1>10, <1>12, <1>14 DEF Flags, Lock, Runs, Switched, Thread
<1>16. CASE StatusTst(u, t, {"SUSPEND"})
  BY <1>0, <1>4, <1>9, <1>11, <1>15, <1>16, Framed DEF Good
<1>17. CASE ~StatusTst(u, t, {"SUSPEND"})
  <2>1. "INUSE" \in u.status[t] /\ u.status[t] \cap {"READY", "SUSPEND", "DELAY"} = {}
    BY <1>1, <1>2, <1>10, <1>17 DEF b, StatusTst
  <2>2. /\ a \in KernelState /\ ReadyFrame(a, u) /\ a.fault = u.fault
        /\ a.status = [u.status EXCEPT ![t] = @ \cup {"READY"}]
    BY <1>1, <1>9, ReadyAddFields
  <2>3. IdleReady(a) /\ Core(a)
    BY <1>1, <1>9, <2>1, ReadyAddCore
  <2> HIDE DEF a
  <2>4. \A x \in Thread : a.status[x] = IF x = t THEN u.status[t] \cup {"READY"} ELSE u.status[x]
    BY <1>1, <1>9, <2>2 DEF KernelState
  <2>5. k' = [a EXCEPT !.scan = "need"]
    BY <1>4, <1>17
  <2>6. /\ k' \in KernelState /\ FlagFrame(k', a) /\ k'.scan = "need"
        /\ k'.taskLock = a.taskLock /\ k'.taskReq = a.taskReq /\ k'.intActive = a.intActive
    BY <2>2, <2>5 DEF KernelState, FlagFrame
  <2>7. IdleReady(k') /\ Core(k')
    BY <2>3, <2>6, FlagCore
  <2>8. \A x \in Thread : /\ "INUSE" \in k'.status[x] <=> "INUSE" \in k.status[x]
                          /\ "READY" \in u.status[x] => "READY" \in k'.status[x]
    BY <1>11, <2>4, <2>6 DEF FlagFrame
  <2>9. /\ k'.running = u.running /\ k'.taskReq = u.taskReq /\ k'.taskLock = u.taskLock
        /\ k'.intActive = u.intActive
    BY <2>2, <2>6 DEF FlagFrame, ReadyFrame, SwitchFrame
  <2>10. Good(k', exiting)
    BY <1>12, <1>13, <1>15, <2>6, <2>7, <2>8, <2>9 DEF Good, Flags, Lock, Runs, Thread
  <2> QED BY <1>0, <2>6, <2>7, <2>8, <2>10, Framed
<1> QED BY <1>16, <1>17

\* The end of OsTaskScan schedules if the scan has readied a task.
LEMMA StepScanDone ==
  ASSUME IInv, TaskScanDone
  PROVE  IInv'
<1> DEFINE s == IF k.scan = "need" THEN OsTskSchedule(k) ELSE k
<1>0. /\ ~k.fault /\ k \in KernelState /\ IdleReady(k) /\ Core(k) /\ Flags(k) /\ Lock(k)
      /\ Runs(k, exiting) /\ UNCHANGED <<free, recycle, exiting>> /\ k.scan # "no"
      /\ k' = [s EXCEPT !.scan = "no"]
  BY DEF IInv, TypeOK, Good, TaskScanDone, ScanEnd
<1>1. /\ s \in KernelState /\ IdleReady(s) /\ Core(s) /\ Flags(s) /\ Lock(s)
      /\ s.taskLock = 0 /\ s.running \notin exiting => Switched(s)
      /\ \A u \in Thread : "INUSE" \in s.status[u] <=> "INUSE" \in k.status[u]
  <2>1. CASE k.scan = "need"
    <3>1. ~k.intActive => ~k.taskReq
      BY <1>0 DEF Flags
    <3>2. SwitchFrame(s, k) /\ (k.taskLock = 0 => Switched(s))
      BY <1>0, <2>1, <3>1, ScheduleCore
    <3>3. /\ s \in KernelState /\ IdleReady(s) /\ Good(s, exiting)
          /\ \A u \in Thread : "INUSE" \in s.status[u] <=> "INUSE" \in k.status[u]
      BY <1>0, <2>1, ScheduleGood
    <3> HIDE DEF s
    <3> QED BY <3>2, <3>3 DEF SwitchFrame, Good
  <2>2. CASE k.scan # "need"
    BY <1>0, <2>2 DEF Runs
  <2> QED BY <2>1, <2>2
<1> HIDE DEF s
<1>2. /\ k' \in KernelState /\ FlagFrame(k', s) /\ k'.scan = "no"
      /\ k'.taskLock = s.taskLock /\ k'.taskReq = s.taskReq /\ k'.intActive = s.intActive
  BY <1>0, <1>1 DEF KernelState, FlagFrame
<1>3. IdleReady(k') /\ Core(k')
  BY <1>1, <1>2, FlagCore
<1>4. Good(k', exiting) /\ k'.status = s.status
  BY <1>1, <1>2, <1>3 DEF Good, Flags, Lock, Runs, Switched, FlagFrame
<1> QED BY <1>0, <1>1, <1>2, <1>3, <1>4, Framed

\* What the tail may switch on: a request, or the top task is running.
TailReady(kk, ex) ==
  kk.taskLock = 0 /\ kk.running \notin ex => kk.taskReq \/ kk.running = kk.highest

\* The end of a time slice, which asks for a switch unless the scheduler is locked.
LEMMA SliceEnd ==
  ASSUME IInv, ~k.fault, k.scan = "no", k.running \in Task
  PROVE  LET x == OsHwiEndCheckTimeSlice(k)
         IN  /\ x \in KernelState /\ IdleReady(x)
             /\ ~x.fault => /\ Core(x) /\ Lock(x) /\ TailReady(x, exiting) /\ x.scan = "no"
                            /\ x.status = k.status
<1> DEFINE c == k.running
           m == OsTskReadyAdd(OsTskReadyDel(k, c), c)
           q == [m EXCEPT !.taskReq = TRUE]
           x == OsHwiEndCheckTimeSlice(k)
<1>0. k \in KernelState /\ IdleReady(k) /\ Core(k) /\ Lock(k) /\ c \in Task
  BY DEF IInv, TypeOK, Good
<1>1. x = IF m.highest # c /\ m.taskLock = 0 THEN q ELSE m
  BY DEF OsHwiEndCheckTimeSlice
<1>2. /\ m \in KernelState /\ IdleReady(m) /\ ReadyFrame(m, k)
      /\ "READY" \in k.status[c] => Core(m) /\ m.fault = k.fault /\ m.status = k.status
      /\ "READY" \notin k.status[c] => m.fault
  BY <1>0, Requeue
<1> HIDE DEF m, x
<1>3. /\ q \in KernelState /\ FlagFrame(q, m) /\ q.taskReq
      /\ q.taskLock = m.taskLock /\ q.scan = m.scan
  BY <1>2 DEF KernelState, FlagFrame
<1> HIDE DEF q
<1>4. IdleReady(q) /\ (Core(m) => Core(q))
  BY <1>2, <1>3, FlagCore DEF FlagFrame, IdleReady
<1>5. x \in KernelState /\ IdleReady(x)
  BY <1>1, <1>2, <1>3, <1>4
<1>6. ASSUME ~x.fault
      PROVE  /\ Core(x) /\ Lock(x) /\ TailReady(x, exiting) /\ x.scan = "no"
             /\ x.status = k.status
  <2>1. "READY" \in k.status[c]
    BY <1>1, <1>2, <1>3, <1>6 DEF FlagFrame
  <2>2. /\ m.running = c /\ m.taskReq = k.taskReq /\ m.taskLock = k.taskLock /\ m.scan = "no"
    BY <1>2 DEF ReadyFrame, SwitchFrame
  <2>3. CASE m.highest # c /\ m.taskLock = 0
    <3>1. x = q
      BY <1>1, <2>3
    <3> QED BY <1>2, <1>3, <1>4, <2>1, <2>2, <2>3, <3>1 DEF FlagFrame, Lock, TailReady
  <2>4. CASE ~(m.highest # c /\ m.taskLock = 0)
    <3>1. x = m
      BY <1>1, <2>4
    <3> QED BY <1>0, <1>2, <2>1, <2>2, <2>4, <3>1 DEF Lock, TailReady
  <2> QED BY <2>3, <2>4
<1> QED BY <1>5, <1>6 DEF x

\* OsHwiDispatchTail: the end of a slice, then the switch if one is asked for.
LEMMA StepTail ==
  ASSUME IInv, NEW slice \in BOOLEAN, OsHwiDispatchTail(slice)
  PROVE  IInv'
<1> DEFINE x == IF slice THEN OsHwiEndCheckTimeSlice(k) ELSE k
           r == OsMainSchedule(x)
<1>0. /\ ~k.fault /\ k \in KernelState /\ IdleReady(k) /\ Core(k) /\ Lock(k)
      /\ Runs(k, exiting) /\ UNCHANGED <<free, recycle, exiting>> /\ k.scan = "no"
      /\ (slice => k.running \in Task) /\ k' = [r EXCEPT !.intActive = FALSE]
  BY TaskAssumption DEF IInv, TypeOK, Good, OsHwiDispatchTail, Unlocked
<1>1. /\ x \in KernelState /\ IdleReady(x)
      /\ ~x.fault => /\ Core(x) /\ Lock(x) /\ TailReady(x, exiting) /\ x.scan = "no"
                     /\ x.status = k.status
  <2>1. CASE slice
    BY <1>0, <2>1, SliceEnd
  <2>2. CASE ~slice
    <3>1. TailReady(k, exiting)
      BY <1>0 DEF Runs, Switched, TailReady
    <3> QED BY <1>0, <2>2, <3>1
  <2> QED BY <2>1, <2>2
<1> HIDE DEF x
<1>2. /\ r \in KernelState /\ r.highest = x.highest /\ SwitchFrame(r, x)
      /\ r.fault = x.fault /\ ~r.taskReq
      /\ ~x.taskReq => r = x
      /\ x.taskReq => r.running = x.highest
  BY <1>1, MainScheduleFields
<1>3. /\ IdleReady(r) /\ (Core(x) => Core(r))
      /\ \A t \in Thread : r.status[t] \ {"RUNNING"} = x.status[t] \ {"RUNNING"}
  BY <1>1, MainScheduleCore
<1> HIDE DEF r
<1>4. /\ k' \in KernelState /\ FlagFrame(k', r) /\ k'.taskLock = r.taskLock
      /\ k'.taskReq = r.taskReq /\ k'.scan = r.scan
  BY <1>0, <1>2 DEF KernelState, FlagFrame
<1>5. IdleReady(k') /\ (Core(r) => Core(k'))
  BY <1>3, <1>4, FlagCore DEF FlagFrame, IdleReady
<1>6. ASSUME ~k'.fault
      PROVE  /\ Good(k', exiting)
             /\ \A t \in Thread : "INUSE" \in k'.status[t] <=> "INUSE" \in k.status[t]
  <2>1. /\ ~x.fault /\ k'.running = r.running /\ k'.highest = x.highest
        /\ k'.status = r.status /\ k'.taskLock = x.taskLock /\ k'.scan = x.scan
    BY <1>2, <1>4, <1>6 DEF FlagFrame, SwitchFrame
  <2>2. Core(k') /\ Flags(k')
    BY <1>1, <1>2, <1>3, <1>4, <1>5, <2>1 DEF Flags
  <2>3. Lock(k')
    BY <1>1, <1>2, <1>4, <2>1 DEF Lock
  <2>4. Runs(k', exiting)
    BY <1>1, <1>2, <1>4, <2>1 DEF Runs, Switched, TailReady
  <2>5. \A t \in Thread : "INUSE" \in k'.status[t] <=> "INUSE" \in k.status[t]
    BY <1>1, <1>3, <2>1
  <2> QED BY <2>2, <2>3, <2>4, <2>5 DEF Good
<1> QED BY <1>0, <1>4, <1>5, <1>6, Framed

\* IInv is inductive: one step per action.
LEMMA NextIInv == IInv /\ [TaskNext]_taskVars => IInv'
<1> SUFFICES ASSUME IInv, [TaskNext]_taskVars PROVE IInv'
  OBVIOUS
<1>1. ASSUME NEW t \in Task, NEW p \in UserPrio, TaskCreate(t, p) PROVE IInv'
  BY <1>1, StepCreate
<1>2. CASE TaskCreateNoMemory
  BY <1>2, StepCreateNoMemory
<1>3. ASSUME NEW t \in Task, PRT_TaskResume(t) PROVE IInv'
  BY <1>3, StepResume
<1>4. ASSUME NEW t \in Task, PRT_TaskSuspend(t) PROVE IInv'
  BY <1>4, StepSuspend
<1>5. ASSUME NEW t \in Task, PRT_TaskDelete(t) PROVE IInv'
  BY <1>5, StepDelete
<1>6. ASSUME NEW n \in 1 .. MaxDelay, PRT_TaskDelay(n) PROVE IInv'
  BY <1>6, StepDelay
<1>7. CASE OsTaskYield
  BY <1>7, StepYield
<1>8. CASE PRT_TaskLock
  BY <1>8, StepLock
<1>9. CASE PRT_TaskUnlock
  BY <1>9, StepUnlock
<1>10. CASE OsTskEntryReturn
  BY <1>10, StepEntryReturn
<1>11. CASE OsTaskExit
  BY <1>11, StepExit
<1>12. CASE OsHwiDispatch
  BY <1>12, StepDispatch
<1>13. CASE OsTickDispatcher
  BY <1>13, StepTick
<1>14. CASE TaskScanNext
  BY <1>14, StepScanNext
<1>15. CASE TaskScanDone
  BY <1>15, StepScanDone
<1>16. ASSUME NEW slice \in BOOLEAN, OsHwiDispatchTail(slice) PROVE IInv'
  BY <1>16, StepTail
<1>17. ASSUME NEW t \in Task, NEW p \in UserPrio, PRT_TaskSetPriority(t, p) PROVE IInv'
  BY <1>17, StepSetPriority
<1>18. CASE UNCHANGED taskVars
  BY <1>18 DEF taskVars, IInv, TypeOK, TcbAccounted, Used
<1> QED BY <1>1, <1>2, <1>3, <1>4, <1>5, <1>6, <1>7, <1>8, <1>9, <1>10, <1>11, <1>12,
           <1>13, <1>14, <1>15, <1>16, <1>17, <1>18 DEF TaskNext, TaskServices

----------------------------------------------------------------------------
(* The theorems.                                                           *)

\* IInv is an invariant of task management.
LEMMA IInvAlways == TaskSpec => []IInv
  BY InitIInv, NextIInv, PTL DEF TaskSpec

\* The kernel's record and the lists of control blocks are well typed: whatever
\* the services do, OsTskHighestSet finds a ready task and the lists stay lists.
THEOREM TypeCorrect == TaskSpec => []TypeOK
<1>1. IInv => TypeOK
  BY DEF IInv
<1> QED BY <1>1, IInvAlways, PTL

\* The ready lists hold exactly the tasks with OS_TSK_READY, each once and in the
\* list of its priority, as long as no unlinked node has been unlinked.
THEOREM ReadyListsCorrect == TaskSpec => []ReadyListsExact
<1>1. IInv => ReadyListsExact
  BY DEF IInv, Good, Core, ReadyQueue, ReadyListsExact
<1> QED BY <1>1, IInvAlways, PTL

\* Preemption: outside the scheduler lock the running task is the first one of
\* the highest non-empty ready list, or an interrupt has asked for the switch.
THEOREM PreemptionCorrect == TaskSpec => []RunsHighest
<1>1. IInv => RunsHighest
  BY DEF IInv, Good, Core, ReadyQueue, Top, Runs, Switched, Unlocked, RunsHighest
<1> QED BY <1>1, IInvAlways, PTL

\* OS_TSK_RUNNING is on for RUNNING_TASK only.
THEOREM RunningBitCorrect == TaskSpec => []RunningBitExact
<1>1. IInv => RunningBitExact
  BY DEF IInv, Good, Core, RunningBit, RunningBitExact
<1> QED BY <1>1, IInvAlways, PTL

\* No control block is lost or handed out twice by create, delete and exit.
THEOREM TcbCorrect == TaskSpec => []TcbAccounted
<1>1. IInv => TcbAccounted
  BY DEF IInv
<1> QED BY <1>1, IInvAlways, PTL

\* While the scheduler is locked the running task stays ready.
THEOREM LockedTaskCorrect == TaskSpec => []LockedTaskRuns
<1>1. IInv => LockedTaskRuns
  BY DEF IInv, TypeOK, KernelState, Good, Lock, LockedTaskRuns
<1> QED BY <1>1, IInvAlways, PTL
=============================================================================
