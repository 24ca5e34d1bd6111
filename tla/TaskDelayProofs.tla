-------------------------- MODULE TaskDelayProofs --------------------------
(***************************************************************************)
(* The delay list is sorted and holds exactly the delayed tasks, for any   *)
(* number of tasks and any delays.  IInv of TaskInvariant has it that a    *)
(* task in the list is delayed and is there once; OnTime adds the order    *)
(* and the other direction.  OsTaskScan relies on both: it stops at the    *)
(* first task that is not due.                                             *)
(***************************************************************************)
EXTENDS TaskProofs

\* The delay list is in order and holds every task in PRT_TaskDelay but those of X,
\* which a service is working on.
OnTime(kk, X) ==
  /\ Sorted(kk.delayList, kk.left)
  /\ \A u \in Task \ X : "DELAY" \in kk.status[u] => u \in ToSet(kk.delayList)

DelayInv == IInv /\ (~k.fault => OnTime(k, {}))

\* The ready queue and the switch.
LEMMA QueueOnTime ==
  ASSUME NEW kk \in KernelState, IdleReady(kk), NEW t \in Task, NEW X, OnTime(kk, X)
  PROVE  /\ OnTime(OsTskReadyAdd(kk, t), X) /\ OnTime(OsTskReadyDel(kk, t), X)
         /\ OnTime(OsTskSchedule(kk), X) /\ OnTime(OsMainSchedule(kk), X)
<1> DEFINE a == OsTskReadyAdd(kk, t)
           d == OsTskReadyDel(kk, t)
           r == OsTskSchedule(kk)
           m == OsMainSchedule(kk)
<1>0. t \in Thread
  BY DEF Thread
<1>1. SwitchFrame(a, kk) /\ a.status = [kk.status EXCEPT ![t] = @ \cup {"READY"}]
  BY <1>0, ReadyAddFields DEF ReadyFrame
<1>2. SwitchFrame(d, kk) /\ d.status = [kk.status EXCEPT ![t] = @ \ {"READY"}]
  BY ReadyDelCore DEF ReadyFrame
<1>3. /\ SwitchFrame(r, kk)
      /\ \A u \in Thread : r.status[u] \ {"RUNNING"} = kk.status[u] \ {"RUNNING"}
  BY ScheduleCore
<1>4. SwitchFrame(m, kk)
  BY MainScheduleFields
<1>5. \A u \in Thread : m.status[u] \ {"RUNNING"} = kk.status[u] \ {"RUNNING"}
  BY MainScheduleCore
<1> HIDE DEF a, d, r, m
<1>6. \A u \in Thread : /\ "DELAY" \in a.status[u] => "DELAY" \in kk.status[u]
                        /\ "DELAY" \in d.status[u] => "DELAY" \in kk.status[u]
  BY <1>0, <1>1, <1>2 DEF KernelState
<1>7. \A u \in Thread : /\ "DELAY" \in r.status[u] => "DELAY" \in kk.status[u]
                        /\ "DELAY" \in m.status[u] => "DELAY" \in kk.status[u]
  BY <1>3, <1>5
<1>8. ASSUME NEW x, SwitchFrame(x, kk),
             \A u \in Thread : "DELAY" \in x.status[u] => "DELAY" \in kk.status[u]
      PROVE  OnTime(x, X)
  BY <1>8 DEF OnTime, SwitchFrame, Thread
<1>9. OnTime(a, X) /\ OnTime(d, X)
  BY <1>1, <1>2, <1>6, <1>8
<1>10. OnTime(r, X) /\ OnTime(m, X)
  BY <1>3, <1>4, <1>7, <1>8
<1> QED BY <1>9, <1>10 DEF a, d, r, m

\* OsTskTimerAdd puts a task that is in no list in its place.
LEMMA AddOnTime ==
  ASSUME NEW kk \in KernelState, NEW t \in Task, NEW n \in Nat,
         t \notin ToSet(kk.delayList), OnTime(kk, {t})
  PROVE  OnTime(OsTskTimerAdd(kk, t, n), {})
<1> DEFINE s == InsertBefore(kk.delayList, t, {u \in Task : kk.left[u] > n})
           l == [kk.left EXCEPT ![t] = n]
           r == OsTskTimerAdd(kk, t, n)
<1>1. kk.delayList \in Seq(Task) /\ kk.left \in [Task -> Nat]
  BY DEF KernelState
<1>2. Sorted(s, l)
  BY <1>1, InsertSorted DEF OnTime
<1>3. ToSet(s) = ToSet(kk.delayList) \cup {t}
  BY <1>1, InsertBeforeFacts
<1>4. r = [kk EXCEPT !.left = l, !.delayList = s]
  BY DEF OsTskTimerAdd
<1> HIDE DEF s, l, r
<1>5. r.left = l /\ r.delayList = s /\ r.status = kk.status
  BY <1>4 DEF KernelState
<1>6. OnTime(r, {})
  BY <1>2, <1>3, <1>5 DEF OnTime
<1> QED BY <1>6 DEF r

\* ListDelete of the task's timer node keeps the other delays in order.
LEMMA DeleteOnTime ==
  ASSUME NEW kk \in KernelState, NEW t \in ToSet(kk.delayList),
         IsInjective(kk.delayList), OnTime(kk, {})
  PROVE  OnTime(TimerDelete(kk, t), {t})
<1> DEFINE s == RemoveFirst(kk.delayList, t)
           l == [kk.left EXCEPT ![t] = 0]
           r == TimerDelete(kk, t)
<1>1. kk.delayList \in Seq(Task) /\ kk.left \in [Task -> Nat]
  BY DEF KernelState
<1>2. Sorted(s, l)
  BY <1>1, RemoveSorted DEF OnTime
<1>3. ToSet(s) = ToSet(kk.delayList) \ {t}
  BY <1>1, RemoveFirstFacts
<1>4. r = [kk EXCEPT !.left = l, !.delayList = s]
  BY DEF TimerDelete
<1> HIDE DEF s, l, r
<1>5. r.left = l /\ r.delayList = s /\ r.status = kk.status
  BY <1>4 DEF KernelState
<1>6. OnTime(r, {t})
  BY <1>2, <1>3, <1>5 DEF OnTime
<1> QED BY <1>6 DEF r

\* Writing one task's taskStatus.
LEMMA StatusOnTime ==
  ASSUME NEW kk \in KernelState, IdleReady(kk), NEW t \in Task, NEW b \in SUBSET TskStatus,
         NEW X \in SUBSET {t}, OnTime(kk, X), NEW Y \in SUBSET {t},
         t \in Y \/ "DELAY" \notin b \/ ("DELAY" \in kk.status[t] /\ t \notin X)
  PROVE  OnTime(SetStatus(kk, t, b), Y)
<1> DEFINE r == SetStatus(kk, t, b)
<1>0. t \in Thread
  BY DEF Thread
<1>1. r.status = [kk.status EXCEPT ![t] = b] /\ ReadyFrame(r, kk)
  BY <1>0, StatusChange
<1> HIDE DEF r
<1>2. /\ r.delayList = kk.delayList /\ r.left = kk.left
      /\ \A u \in Task : r.status[u] = IF u = t THEN b ELSE kk.status[u]
  BY <1>0, <1>1 DEF ReadyFrame, SwitchFrame, KernelState, Thread
<1>3. OnTime(r, Y)
  BY <1>2 DEF OnTime
<1> QED BY <1>3 DEF r

\* OsTaskDelete takes the timer node of a delayed task off the list.
LEMMA DelayDelete ==
  ASSUME IInv, OnTime(k, {}), NEW t \in Task, Unlocked, OsTaskDelete(t)
  PROVE  OnTime(k', {})
<1> DEFINE b == IF StatusTst(k, t, {"DELAY", "TIMEOUT"}) THEN TimerDelete(k, t) ELSE k
           c == IF StatusTst(b, t, {"READY"}) THEN OsTskReadyDel(b, t) ELSE b
           d == OsTskHighestSet(c)
           z == [d EXCEPT !.status[t] = {}, !.running = Zombie, !.taskReq = TRUE]
           e == [d EXCEPT !.status[t] = {}]
<1>0. k \in KernelState /\ IdleReady(k) /\ Core(k) /\ t \in Thread
  BY DEF IInv, TypeOK, Good, Unlocked, Thread
<1>1. k' = z \/ k' = OsMainSchedule(z) \/ k' = e
  <2>1. ~StatusTst(k, t, TSK_LISTED)
    BY <1>0 DEF StatusTst, TSK_LISTED, Core, Bits
  <2>2. OsTaskDeleteResInit(k, t) = c
    BY <2>1 DEF OsTaskDeleteResInit
  <2> HIDE DEF c
  <2> QED BY <2>2 DEF OsTaskDelete
<1>2. b \in KernelState /\ IdleReady(b) /\ OnTime(b, {t})
  <2>1. CASE StatusTst(k, t, {"DELAY", "TIMEOUT"})
    <3>1. "DELAY" \in k.status[t]
      BY <1>0, <2>1 DEF StatusTst, Core, Bits
    <3>2. t \in ToSet(k.delayList) /\ IsInjective(k.delayList)
      BY <1>0, <3>1 DEF OnTime, Core, Delays
    <3>3. OnTime(TimerDelete(k, t), {t})
      BY <1>0, <3>2, DeleteOnTime
    <3>4. TimerDelete(k, t) \in KernelState /\ TimerFrame(TimerDelete(k, t), k)
      BY <1>0, TimerDeleteCore
    <3> QED BY <1>0, <2>1, <3>3, <3>4 DEF TimerFrame, IdleReady
  <2>2. CASE ~StatusTst(k, t, {"DELAY", "TIMEOUT"})
    BY <1>0, <2>2 DEF OnTime
  <2> QED BY <2>1, <2>2
<1> HIDE DEF b
<1>3. c \in KernelState /\ IdleReady(c) /\ OnTime(c, {t})
  BY <1>2, ReadyDelCore, QueueOnTime
<1> HIDE DEF c
<1>4. /\ d \in KernelState /\ IdleReady(d) /\ d.status = c.status
      /\ d.delayList = c.delayList /\ d.left = c.left
  BY <1>3, HighestSetFields DEF ReadyFrame, SwitchFrame
<1> HIDE DEF d
<1>5. [d.status EXCEPT ![t] = {}] \in [Thread -> SUBSET TskStatus]
  BY <1>0, <1>4 DEF KernelState
<1>6. /\ z.status = [d.status EXCEPT ![t] = {}] /\ e.status = [d.status EXCEPT ![t] = {}]
      /\ z.delayList = c.delayList /\ e.delayList = c.delayList
      /\ z.left = c.left /\ e.left = c.left /\ z.readyList = d.readyList
  BY <1>4 DEF KernelState
<1>7. z \in KernelState
  BY <1>4, <1>5 DEF KernelState
<1> HIDE DEF z, e
<1>8. IdleReady(z)
  BY <1>4, <1>6 DEF IdleReady
<1>9. \A u \in Task : /\ z.status[u] = IF u = t THEN {} ELSE c.status[u]
                      /\ e.status[u] = IF u = t THEN {} ELSE c.status[u]
  BY <1>0, <1>4, <1>6 DEF KernelState, Thread
<1>10. OnTime(z, {}) /\ OnTime(e, {})
  BY <1>3, <1>6, <1>9 DEF OnTime
<1> QED BY <1>1, <1>7, <1>8, <1>10, QueueOnTime

\* PRT_TaskDelay puts the running task into the list.
LEMMA DelayDelay ==
  ASSUME IInv, OnTime(k, {}), NEW n \in 1 .. MaxDelay, PRT_TaskDelay(n)
  PROVE  OnTime(k', {})
<1> DEFINE t == k.running
           d == OsTskReadyDel(k, t)
           s == StatusSet(d, t, {"DELAY"})
           a == OsTskTimerAdd(s, t, n)
<1>0. /\ k \in KernelState /\ IdleReady(k) /\ Core(k) /\ t \in Task /\ n \in Nat
      /\ "READY" \in k.status[t]
  BY InTaskReady, TaskAssumption DEF PRT_TaskDelay
<1>1. k' = OsTskSchedule(a)
  BY DEF PRT_TaskDelay, DelayedTask
<1>2. t \in Thread /\ t \notin ToSet(k.delayList)
  BY <1>0 DEF Core, Delays, Bits, Thread
<1> HIDE DEF t
<1>3. d \in KernelState /\ IdleReady(d) /\ d.delayList = k.delayList /\ OnTime(d, {})
  BY <1>0, ReadyDelCore, QueueOnTime DEF ReadyFrame, SwitchFrame
<1> HIDE DEF d
<1>4. s = SetStatus(d, t, d.status[t] \cup {"DELAY"})
      /\ d.status[t] \cup {"DELAY"} \in SUBSET TskStatus
  BY <1>2, <1>3 DEF StatusSet, SetStatus, KernelState, TskStatus
<1> HIDE DEF s
<1>5. s \in KernelState /\ IdleReady(s) /\ s.delayList = k.delayList
  BY <1>2, <1>3, <1>4, StatusChange DEF ReadyFrame, SwitchFrame
<1>6. OnTime(s, {t})
  BY <1>0, <1>3, <1>4, StatusOnTime
<1>7. OnTime(a, {})
  BY <1>0, <1>2, <1>5, <1>6, AddOnTime
<1>8. a \in KernelState /\ a.readyList = s.readyList
  BY <1>0, <1>5, TimerAddCore DEF TimerFrame
<1> HIDE DEF a
<1>9. IdleReady(a)
  BY <1>5, <1>8 DEF IdleReady
<1> QED BY <1>0, <1>1, <1>7, <1>8, <1>9, QueueOnTime

\* OsTaskScan ages every delay alike, so their order stays.
LEMMA DelayTick ==
  ASSUME IInv, OnTime(k, {}), OsTickDispatcher
  PROVE  OnTime(k', {})
<1> DEFINE l == [u \in Task |-> IF k.left[u] > 0 THEN k.left[u] - 1 ELSE 0]
           s == k.delayList
<1>0. k \in KernelState /\ s \in Seq(Task) /\ k.left \in [Task -> Nat]
  BY DEF IInv, TypeOK, KernelState
<1>1. k' = [k EXCEPT !.scan = "scan", !.left = l]
  BY DEF OsTickDispatcher, OsTaskScan
<1>2. \A x, y \in Task : k.left[x] <= k.left[y] => l[x] <= l[y]
  BY <1>0
<1> HIDE DEF l
<1>3. k'.left = l /\ k'.delayList = s /\ k'.status = k.status
  BY <1>0, <1>1 DEF KernelState
<1>4. \A i \in DOMAIN s : s[i] \in Task
  BY <1>0
<1>5. Sorted(s, l)
  BY <1>2, <1>4 DEF OnTime, Sorted
<1> QED BY <1>3, <1>5 DEF OnTime

\* A turn of OsTaskScan takes the head of the list, whose delay has ended.
LEMMA DelayScan ==
  ASSUME IInv, OnTime(k, {}), TaskScanNext
  PROVE  OnTime(k', {})
<1> DEFINE t == Head(k.delayList)
           d == TimerDelete(k, t)
           u == StatusClear(d, t, {"DELAY"})
           a == OsTskReadyAdd(u, t)
<1>0. k \in KernelState /\ IdleReady(k) /\ Core(k) /\ k.delayList # << >>
  BY DEF IInv, TypeOK, Good, TaskScanNext, ScanDue
<1>1. t \in Task /\ t \in Thread /\ t \in ToSet(k.delayList)
  <2>1. k.delayList \in Seq(Task) /\ k.delayList # << >>
    BY <1>0 DEF KernelState
  <2>2. t \in Task /\ 1 \in DOMAIN k.delayList /\ t = k.delayList[1]
    BY <2>1
  <2> QED BY <2>2 DEF ToSet, Thread
<1> HIDE DEF t
<1>2. BlockedOn(k, t) = "DELAY"
  <2>1. /\ "DELAY" \in k.status[t]
        /\ k.status[t] \subseteq {"INUSE", "SUSPEND", "DELAY", "READY", "RUNNING"}
    BY <1>0, <1>1 DEF Core, Delays, Bits
  <2> QED BY <2>1 DEF BlockedOn, StatusTst
<1>3. k' = u \/ k' = [a EXCEPT !.scan = "need"]
  BY <1>2 DEF TaskScanNext, ScanTask, t, TSK_LISTED
<1>4. d \in KernelState /\ d.readyList = k.readyList
  BY <1>0, <1>1, TimerDeleteCore DEF TimerFrame
<1>5. OnTime(d, {t})
  BY <1>0, <1>1, DeleteOnTime DEF Core, Delays
<1> HIDE DEF d
<1>6. IdleReady(d)
  BY <1>0, <1>4 DEF IdleReady
<1>7. /\ u = SetStatus(d, t, d.status[t] \ {"DELAY"})
      /\ d.status[t] \ {"DELAY"} \in SUBSET TskStatus
  BY <1>1, <1>4 DEF StatusClear, SetStatus, KernelState
<1> HIDE DEF u
<1>8. u \in KernelState /\ IdleReady(u)
  BY <1>1, <1>4, <1>6, <1>7, StatusChange
<1>9. OnTime(u, {})
  BY <1>1, <1>4, <1>5, <1>6, <1>7, StatusOnTime
<1>10. a \in KernelState /\ OnTime(a, {})
  BY <1>1, <1>8, <1>9, ReadyAddFields, QueueOnTime
<1> HIDE DEF a
<1>11. OnTime([a EXCEPT !.scan = "need"], {})
  BY <1>10 DEF OnTime, KernelState
<1> QED BY <1>3, <1>9, <1>11

\* PRT_TaskResume and PRT_TaskSuspend leave a delay running.
LEMMA DelayResumeSuspend ==
  ASSUME IInv, OnTime(k, {}), NEW t \in Task, PRT_TaskResume(t) \/ PRT_TaskSuspend(t)
  PROVE  OnTime(k', {})
<1>0. k \in KernelState /\ IdleReady(k) /\ t \in Thread
  BY DEF IInv, TypeOK, Thread
<1>1. ASSUME NEW kk \in KernelState, IdleReady(kk), OnTime(kk, {})
      PROVE  /\ StatusSet(kk, t, {"SUSPEND"}) \in KernelState
             /\ IdleReady(StatusSet(kk, t, {"SUSPEND"}))
             /\ OnTime(StatusSet(kk, t, {"SUSPEND"}), {})
             /\ StatusClear(kk, t, {"SUSPEND"}) \in KernelState
             /\ IdleReady(StatusClear(kk, t, {"SUSPEND"}))
             /\ OnTime(StatusClear(kk, t, {"SUSPEND"}), {})
  <2> DEFINE b == kk.status[t] \cup {"SUSPEND"}
             c == kk.status[t] \ {"SUSPEND"}
  <2>1. /\ StatusSet(kk, t, {"SUSPEND"}) = SetStatus(kk, t, b)
        /\ StatusClear(kk, t, {"SUSPEND"}) = SetStatus(kk, t, c)
    BY DEF StatusSet, StatusClear, SetStatus
  <2>2. /\ b \in SUBSET TskStatus /\ c \in SUBSET TskStatus
        /\ "DELAY" \in b => "DELAY" \in kk.status[t]
        /\ "DELAY" \in c => "DELAY" \in kk.status[t]
    BY <1>0 DEF KernelState, TskStatus
  <2> HIDE DEF b, c
  <2>3. /\ SetStatus(kk, t, b) \in KernelState /\ IdleReady(SetStatus(kk, t, b))
        /\ SetStatus(kk, t, c) \in KernelState /\ IdleReady(SetStatus(kk, t, c))
    BY <1>0, <1>1, <2>2, StatusChange
  <2>4. OnTime(SetStatus(kk, t, b), {}) /\ OnTime(SetStatus(kk, t, c), {})
    BY <1>1, <2>2, StatusOnTime
  <2> QED BY <2>1, <2>3, <2>4
<1>2. CASE PRT_TaskResume(t)
  <2> DEFINE m == StatusClear(k, t, {"SUSPEND"})
             a == OsTskReadyAdd(m, t)
  <2>1. k' = m \/ k' = OsTskSchedule(a)
    BY <1>2 DEF PRT_TaskResume, OsMoveTaskToReady
  <2>2. m \in KernelState /\ IdleReady(m) /\ OnTime(m, {})
    BY <1>0, <1>1
  <2> HIDE DEF m
  <2>3. a \in KernelState /\ IdleReady(a) /\ OnTime(a, {})
    BY <1>0, <2>2, ReadyAddFields, ReadyAddCore, QueueOnTime
  <2> HIDE DEF a
  <2> QED BY <2>1, <2>2, <2>3, QueueOnTime
<1>3. CASE PRT_TaskSuspend(t)
  <2> DEFINE d == IF StatusTst(k, t, {"READY"}) THEN OsTskReadyDel(k, t) ELSE k
             s == StatusSet(d, t, {"SUSPEND"})
  <2>1. k' = s \/ k' = OsTskSchedule(s)
    BY <1>3 DEF PRT_TaskSuspend, Suspended
  <2>2. d \in KernelState /\ IdleReady(d) /\ OnTime(d, {})
    BY <1>0, ReadyDelCore, QueueOnTime
  <2> HIDE DEF d
  <2>3. s \in KernelState /\ IdleReady(s) /\ OnTime(s, {})
    BY <1>1, <2>2
  <2> HIDE DEF s
  <2> QED BY <2>1, <2>3, QueueOnTime
<1> QED BY <1>2, <1>3

\* A task that goes to the end of its ready list.
LEMMA RequeueOnTime ==
  ASSUME NEW kk \in KernelState, IdleReady(kk), NEW t \in Task, OnTime(kk, {})
  PROVE  LET m == OsTskReadyAdd(OsTskReadyDel(kk, t), t)
         IN  m \in KernelState /\ IdleReady(m) /\ OnTime(m, {})
<1> DEFINE d == OsTskReadyDel(kk, t)
<1>1. d \in KernelState /\ IdleReady(d) /\ OnTime(d, {}) /\ t \in Thread
  BY ReadyDelCore, QueueOnTime DEF Thread
<1> HIDE DEF d
<1> QED BY <1>1, ReadyAddFields, ReadyAddCore, QueueOnTime DEF d

\* OsTaskYield, the end of a time slice and PRT_TaskSetPriority move ready tasks only.
LEMMA DelayRequeue ==
  ASSUME IInv, OnTime(k, {}),
         \/ OsTaskYield
         \/ \E slice \in BOOLEAN : OsHwiDispatchTail(slice)
         \/ \E t \in Task, p \in UserPrio : PRT_TaskSetPriority(t, p)
  PROVE  OnTime(k', {})
<1>0. k \in KernelState /\ IdleReady(k)
  BY DEF IInv, TypeOK
<1>1. CASE OsTaskYield
  <2> DEFINE t == k.running
             m == OsTskReadyAdd(OsTskReadyDel(k, t), t)
  <2>1. Core(k) /\ t \in Task /\ t = k.highest
    BY <1>1, InTaskReady DEF OsTaskYield
  <2>2. Head(k.readyList[k.priority[t]]) = t
    BY <1>0, <2>1, TopReady DEF Core
  <2>3. k' = OsTskSchedule(m) \/ k' = m
    BY <1>1, <2>2 DEF OsTaskYield
  <2> HIDE DEF t
  <2>4. m \in KernelState /\ IdleReady(m) /\ OnTime(m, {})
    BY <1>0, <2>1, RequeueOnTime
  <2> HIDE DEF m
  <2> QED BY <2>1, <2>3, <2>4, QueueOnTime
<1>2. ASSUME NEW slice \in BOOLEAN, OsHwiDispatchTail(slice) PROVE OnTime(k', {})
  <2> DEFINE t == k.running
             m == OsTskReadyAdd(OsTskReadyDel(k, t), t)
             q == [m EXCEPT !.taskReq = TRUE]
             x == IF slice THEN OsHwiEndCheckTimeSlice(k) ELSE k
             r == OsMainSchedule(x)
  <2>1. (slice => t \in Task) /\ k' = [r EXCEPT !.intActive = FALSE]
    BY <1>2, TaskAssumption DEF OsHwiDispatchTail
  <2>2. x = k \/ (slice /\ (x = m \/ x = q))
    BY DEF OsHwiEndCheckTimeSlice
  <2> HIDE DEF t, x
  <2>3. ASSUME slice PROVE m \in KernelState /\ IdleReady(m) /\ OnTime(m, {})
    BY <1>0, <2>1, <2>3, RequeueOnTime
  <2> HIDE DEF m
  <2>4. ASSUME slice PROVE q \in KernelState /\ IdleReady(q) /\ OnTime(q, {})
    <3>1. /\ q \in KernelState /\ q.readyList = m.readyList /\ q.delayList = m.delayList
          /\ q.left = m.left /\ q.status = m.status
      BY <2>3, <2>4 DEF KernelState
    <3> HIDE DEF q
    <3> QED BY <2>3, <2>4, <3>1 DEF IdleReady, OnTime
  <2> HIDE DEF q
  <2>5. x \in KernelState /\ IdleReady(x) /\ OnTime(x, {})
    BY <1>0, <2>2, <2>3, <2>4
  <2>6. r \in KernelState
    BY <2>5, MainScheduleFields
  <2>7. OnTime(r, {})
    BY <2>5, TaskAssumption, QueueOnTime
  <2> HIDE DEF r
  <2>8. k'.delayList = r.delayList /\ k'.left = r.left /\ k'.status = r.status
    BY <2>1, <2>6 DEF KernelState
  <2> QED BY <2>7, <2>8 DEF OnTime
<1>3. ASSUME NEW t \in Task, NEW p \in UserPrio, PRT_TaskSetPriority(t, p)
      PROVE  OnTime(k', {})
  <2> DEFINE d == OsTskReadyDel(k, t)
             m == SetPrio(d, t, p)
             a == OsTskReadyAdd(m, t)
  <2>0. t \in Thread /\ p \in Prio
    BY TaskAssumption DEF Thread
  <2>1. k' = OsTskSchedule(a) \/ k' = SetPrio(k, t, p)
    BY <1>3 DEF PRT_TaskSetPriority, PrioritySet, SetPrio
  <2>2. ASSUME NEW kk \in KernelState, IdleReady(kk), OnTime(kk, {})
        PROVE  LET r == SetPrio(kk, t, p)
               IN  r \in KernelState /\ IdleReady(r) /\ OnTime(r, {})
    <3> DEFINE r == SetPrio(kk, t, p)
    <3>1. r \in KernelState /\ IdleReady(r) /\ r.status = kk.status
      BY <2>0, <2>2, PrioChange
    <3>2. r.delayList = kk.delayList /\ r.left = kk.left
      BY <2>2 DEF SetPrio, KernelState
    <3> HIDE DEF r
    <3>3. OnTime(r, {})
      BY <2>2, <3>1, <3>2 DEF OnTime
    <3> QED BY <3>1, <3>3 DEF r
  <2>3. d \in KernelState /\ IdleReady(d) /\ OnTime(d, {})
    BY <1>0, ReadyDelCore, QueueOnTime
  <2> HIDE DEF d
  <2>4. m \in KernelState /\ IdleReady(m) /\ OnTime(m, {})
    BY <2>2, <2>3
  <2> HIDE DEF m
  <2>5. a \in KernelState /\ IdleReady(a) /\ OnTime(a, {})
    BY <2>0, <2>4, ReadyAddFields, ReadyAddCore, QueueOnTime
  <2> HIDE DEF a
  <2>6. OnTime(SetPrio(k, t, p), {})
    BY <1>0, <2>2
  <2> QED BY <2>1, <2>5, <2>6, QueueOnTime
<1> QED BY <1>1, <1>2, <1>3

\* DelayInv is inductive: one step per action.
LEMMA NextDelay == DelayInv /\ [TaskNext]_taskVars => DelayInv'
<1> SUFFICES ASSUME IInv, ~k.fault => OnTime(k, {}), [TaskNext]_taskVars, ~k'.fault
             PROVE  OnTime(k', {})
  BY NextIInv DEF DelayInv
<1>0. k \in KernelState /\ IdleReady(k)
  BY DEF IInv, TypeOK
<1> DEFINE Live == ~k.fault /\ OnTime(k, {})
<1>1. ASSUME NEW t \in Task, NEW p \in UserPrio, TaskCreate(t, p) PROVE OnTime(k', {})
  <2>1. /\ Live /\ k'.status = [k.status EXCEPT ![t] = {"SUSPEND", "INUSE"}]
        /\ k'.delayList = k.delayList /\ k'.left = k.left
    BY <1>0, <1>1 DEF TaskCreate, CanCall, InTask, Unlocked, KernelState
  <2>2. \A u \in Task : "DELAY" \in k'.status[u] => "DELAY" \in k.status[u]
    BY <1>0, <2>1 DEF KernelState, Thread
  <2> QED BY <2>1, <2>2 DEF OnTime
<1>2. CASE TaskCreateNoMemory
  BY <1>2 DEF TaskCreateNoMemory
<1>3. ASSUME NEW t \in Task, PRT_TaskResume(t) \/ PRT_TaskSuspend(t) PROVE OnTime(k', {})
  <2>1. ~k.fault
    BY <1>3 DEF PRT_TaskResume, PRT_TaskSuspend, CanCall, InTask, Unlocked
  <2> QED BY <1>3, <2>1, DelayResumeSuspend
<1>4. ASSUME NEW t \in Task, PRT_TaskDelete(t) PROVE OnTime(k', {})
  BY <1>4, DelayDelete DEF PRT_TaskDelete, CanCall, InTask, Unlocked
<1>5. ASSUME NEW n \in 1 .. MaxDelay, PRT_TaskDelay(n) PROVE OnTime(k', {})
  BY <1>5, DelayDelay DEF PRT_TaskDelay, InTask, Unlocked
<1>6. CASE OsTaskYield
  <2>1. ~k.fault
    BY <1>6, InTaskReady DEF OsTaskYield
  <2> QED BY <1>6, <2>1, DelayRequeue
<1>7. CASE PRT_TaskLock \/ OsTskEntryReturn \/ OsHwiDispatch
  <2>1. Live /\ k'.status = k.status /\ k'.delayList = k.delayList /\ k'.left = k.left
    BY <1>0, <1>7 DEF PRT_TaskLock, OsTskEntryReturn, OsHwiDispatch, InTask, Unlocked,
                      KernelState
  <2> QED BY <2>1 DEF OnTime
<1>8. CASE OsTickDispatcher
  BY <1>8, DelayTick DEF OsTickDispatcher, Unlocked
<1>9. CASE PRT_TaskUnlock
  <2> DEFINE u == [k EXCEPT !.taskLock = @ - 1]
  <2>1. Live /\ k.taskLock - 1 \in Nat
    BY <1>0, <1>9 DEF PRT_TaskUnlock, InTask, Unlocked, KernelState
  <2>2. /\ u \in KernelState /\ u.status = k.status /\ u.readyList = k.readyList
        /\ u.delayList = k.delayList /\ u.left = k.left
    BY <1>0, <2>1 DEF KernelState
  <2>3. k' = OsTskSchedule(u) \/ k' = u
    BY <1>9 DEF PRT_TaskUnlock, Unlocking
  <2> HIDE DEF u
  <2>4. IdleReady(u) /\ OnTime(u, {})
    BY <1>0, <2>1, <2>2 DEF IdleReady, OnTime
  <2> QED BY <2>2, <2>3, <2>4, TaskAssumption, QueueOnTime
<1>10. CASE OsTaskExit
  <2>1. k.running \in Task
    BY <1>10 DEF OsTaskExit, IInv, TypeOK
  <2> QED BY <1>10, <2>1, DelayDelete DEF OsTaskExit, Unlocked
<1>11. CASE TaskScanNext
  BY <1>11, DelayScan DEF TaskScanNext
<1>12. CASE TaskScanDone
  <2> DEFINE s == IF k.scan = "need" THEN OsTskSchedule(k) ELSE k
  <2>1. Live /\ k' = [s EXCEPT !.scan = "no"]
    BY <1>12 DEF TaskScanDone, ScanEnd
  <2>2. s \in KernelState /\ OnTime(s, {})
    BY <1>0, <2>1, TaskAssumption, ScheduleCore, QueueOnTime
  <2> HIDE DEF s
  <2>3. k'.status = s.status /\ k'.delayList = s.delayList /\ k'.left = s.left
    BY <2>1, <2>2 DEF KernelState
  <2> QED BY <2>2, <2>3 DEF OnTime
<1>13. ASSUME NEW slice \in BOOLEAN, OsHwiDispatchTail(slice) PROVE OnTime(k', {})
  BY <1>13, DelayRequeue DEF OsHwiDispatchTail, Unlocked
<1>14. ASSUME NEW t \in Task, NEW p \in UserPrio, PRT_TaskSetPriority(t, p)
       PROVE  OnTime(k', {})
  BY <1>14, DelayRequeue DEF PRT_TaskSetPriority, CanCall, InTask, Unlocked
<1>15. CASE UNCHANGED taskVars
  BY <1>15 DEF taskVars
<1> QED BY <1>1, <1>2, <1>3, <1>4, <1>5, <1>6, <1>7, <1>8, <1>9, <1>10, <1>11, <1>12,
           <1>13, <1>14, <1>15 DEF TaskNext, TaskServices

\* The delay list is sorted by expiry, holds each task once, and holds exactly the
\* tasks in PRT_TaskDelay: no delay is lost or served twice, and OsTaskScan, which
\* stops at the first task that is not due, misses none.
THEOREM DelayListCorrect == TaskSpec => []DelayListExact
<1>1. TaskInit => DelayInv
  <2> SUFFICES ASSUME TaskInit PROVE OnTime(k, {})
    BY InitIInv DEF DelayInv
  <2>1. k.delayList = << >> /\ \A u \in Task : "DELAY" \notin k.status[u]
    BY DEF TaskInit, Thread
  <2> QED BY <2>1 DEF OnTime, Sorted
<1>2. DelayInv => DelayListExact
  <2> SUFFICES ASSUME DelayInv, ~k.fault PROVE DelayListExact
    BY DEF DelayListExact
  <2>1. /\ OnTime(k, {}) /\ IsInjective(k.delayList)
        /\ \A t \in ToSet(k.delayList) : "DELAY" \in k.status[t]
        /\ \A t \in Thread : "TIMEOUT" \notin k.status[t]
    BY DEF DelayInv, IInv, Good, Core, Delays, Bits
  <2> QED BY <2>1 DEF DelayListExact, OnTime, Sorted, Thread
<1> QED BY <1>1, <1>2, NextDelay, PTL DEF TaskSpec
=============================================================================
