--------------------------- MODULE TaskInvariant ---------------------------
(***************************************************************************)
(* The inductive invariant of task management and the first part of its    *)
(* proof: the initial states, and the steps that make and delete tasks,    *)
(* resume and suspend them.  TaskProofs has the other steps and the        *)
(* theorems.                                                               *)
(*                                                                         *)
(* No property of Task is inductive alone.  IInv joins them with what they *)
(* rest on: the idle task is always ready (so the search of                *)
(* OsTskHighestSet finds a task), no task is ready and blocked, the delay  *)
(* list holds only tasks in PRT_TaskDelay (so OsTaskScan readies no ready  *)
(* task), and a switch is asked for in interrupts only and never under the *)
(* lock.                                                                   *)
(***************************************************************************)
EXTENDS Task, SchedProofs

----------------------------------------------------------------------------
(* The inductive invariant.                                                *)

\* OS_FLG_TSK_REQ and OsTaskScan belong to interrupts.
Flags(kk) == ~kk.intActive => ~kk.taskReq /\ kk.scan = "no"

\* Under the scheduler lock no switch is pending and the running task is ready.
Lock(kk) ==
  kk.taskLock # 0 =>
    ~kk.taskReq /\ kk.running \in Task /\ "READY" \in kk.status[kk.running]

\* Preemption, while OsTaskScan has no task to schedule for.
Runs(kk, ex) ==
  kk.scan # "need" /\ kk.taskLock = 0 /\ kk.running \notin ex => Switched(kk)

Good(kk, ex) == Core(kk) /\ Flags(kk) /\ Lock(kk) /\ Runs(kk, ex)

IInv ==
  /\ TypeOK
  /\ IdleReady(k)
  /\ ~k.fault => Good(k, exiting)
  /\ TcbAccounted

----------------------------------------------------------------------------
(* Records.                                                                *)

SetStatus(kk, t, b) == [kk EXCEPT !.status[t] = b]

\* A new status for a task that concerns neither the ready queue nor the running
\* task.
StatusOk(kk, t, b) ==
  /\ "READY" \in b <=> "READY" \in kk.status[t]
  /\ "RUNNING" \in b <=> "RUNNING" \in kk.status[t]
  /\ "DELAY" \in kk.status[t] /\ "DELAY" \notin b => t \notin ToSet(kk.delayList)
  /\ b \subseteq {"INUSE", "SUSPEND", "DELAY", "READY", "RUNNING"}
  /\ "READY" \in b => b \cap {"SUSPEND", "DELAY"} = {}
  /\ b # {} => "INUSE" \in b

\* Writing taskStatus touches nothing else, and keeps Core when the new bits agree
\* with the lists.
LEMMA StatusChange ==
  ASSUME NEW kk \in KernelState, IdleReady(kk), NEW t \in Thread,
         NEW b \in SUBSET TskStatus
  PROVE  LET r == SetStatus(kk, t, b)
         IN  /\ r \in KernelState /\ IdleReady(r)
             /\ r.status = [kk.status EXCEPT ![t] = b]
             /\ ReadyFrame(r, kk) /\ r.readyList = kk.readyList
             /\ r.highest = kk.highest /\ r.fault = kk.fault
             /\ Core(kk) /\ StatusOk(kk, t, b) => Core(r)
<1> DEFINE r == SetStatus(kk, t, b)
<1>0. r = [kk EXCEPT !.status[t] = b]
  BY DEF SetStatus
<1> HIDE DEF r
<1>1. [kk.status EXCEPT ![t] = b] \in [Thread -> SUBSET TskStatus]
  BY DEF KernelState
<1>2. /\ r.status = [kk.status EXCEPT ![t] = b]
      /\ ReadyFrame(r, kk) /\ r.readyList = kk.readyList
      /\ r.highest = kk.highest /\ r.fault = kk.fault
  BY <1>0 DEF KernelState, ReadyFrame, SwitchFrame
<1>3. r \in KernelState
  BY <1>0, <1>1 DEF KernelState
<1>4. \A u \in Thread : r.status[u] = IF u = t THEN b ELSE kk.status[u]
  BY <1>2 DEF KernelState
<1>5. ToSet(kk.delayList) \subseteq Thread
  BY DEF KernelState, ToSet, Thread
<1>6. IdleReady(r) /\ Top(r) = Top(kk)
  BY <1>2 DEF IdleReady, Top
<1>7. ASSUME Core(kk), StatusOk(kk, t, b)
      PROVE  Core(r)
  <2>1. ReadyQueue(r)
    BY <1>2, <1>4, <1>6, <1>7 DEF Core, ReadyQueue, ReadyFrame, SwitchFrame, StatusOk
  <2>2. RunningBit(r)
    BY <1>2, <1>4, <1>7 DEF Core, RunningBit, ReadyFrame, StatusOk
  <2>3. Delays(r)
    BY <1>2, <1>4, <1>5, <1>7 DEF Core, Delays, ReadyFrame, SwitchFrame, StatusOk
  <2>4. Bits(r)
    BY <1>4, <1>7 DEF Core, Bits, StatusOk
  <2> QED BY <2>1, <2>2, <2>3, <2>4 DEF Core
<1> QED BY <1>2, <1>3, <1>6, <1>7 DEF r

\* Scheduling makes an intermediate record good.
LEMMA ScheduleGood ==
  ASSUME NEW kk \in KernelState, IdleReady(kk), Flags(kk), NEW ex
  PROVE  LET r == OsTskSchedule(kk)
         IN  /\ r \in KernelState /\ IdleReady(r) /\ r.fault = kk.fault
             /\ \A t \in Thread : "INUSE" \in r.status[t] <=> "INUSE" \in kk.status[t]
             /\ Core(kk) /\ Lock(kk) => Good(r, ex)
<1> DEFINE r == OsTskSchedule(kk)
<1>0. ~kk.intActive => ~kk.taskReq
  BY DEF Flags
<1>1. /\ r \in KernelState /\ IdleReady(r)
      /\ SwitchFrame(r, kk) /\ r.readyList = kk.readyList /\ r.fault = kk.fault
      /\ \A t \in Thread : r.status[t] \ {"RUNNING"} = kk.status[t] \ {"RUNNING"}
      /\ kk.taskLock # 0 => r.taskReq = kk.taskReq /\ r.running = kk.running
      /\ kk.taskLock = 0 => Switched(r)
      /\ ~r.intActive => ~r.taskReq
      /\ Core(kk) => Core(r)
  BY <1>0, ScheduleCore
<1> HIDE DEF r
<1>2. Flags(r)
  BY <1>1 DEF Flags, SwitchFrame
<1>3. \A t \in Thread : /\ "INUSE" \in r.status[t] <=> "INUSE" \in kk.status[t]
                        /\ "READY" \in r.status[t] <=> "READY" \in kk.status[t]
  BY <1>1
<1>4. Lock(kk) => Lock(r)
  BY <1>1, <1>3 DEF Lock, SwitchFrame, Thread
<1>5. Runs(r, ex)
  BY <1>1 DEF Runs, SwitchFrame
<1> QED BY <1>1, <1>2, <1>3, <1>4, <1>5 DEF Good, r

\* What follows for the flags, the lock and preemption when a step changes
\* neither them nor the running task.
LEMMA FrameGood ==
  ASSUME NEW kk, NEW r, NEW ex, ReadyFrame(r, kk), Flags(kk), Lock(kk),
         kk.taskLock # 0 => "READY" \in r.status[kk.running]
  PROVE  /\ Flags(r) /\ Lock(r)
         /\ r.highest = kk.highest /\ Runs(kk, ex) => Runs(r, ex)
<1>1. /\ r.running = kk.running /\ r.taskReq = kk.taskReq /\ r.taskLock = kk.taskLock
      /\ r.intActive = kk.intActive /\ r.scan = kk.scan
  BY DEF ReadyFrame, SwitchFrame
<1>2. Flags(r)
  BY <1>1 DEF Flags
<1>3. Lock(r)
  BY <1>1 DEF Lock
<1>4. r.highest = kk.highest /\ Runs(kk, ex) => Runs(r, ex)
  BY <1>1 DEF Runs, Switched
<1> QED BY <1>2, <1>3, <1>4

----------------------------------------------------------------------------
(* Initial states.                                                         *)

\* After OsTskAMPInit the root task is the only ready one above the idle task.
LEMMA InitIInv == TaskInit => IInv
<1> SUFFICES ASSUME TaskInit PROVE IInv
  OBVIOUS
<1>0. /\ Root \in Task /\ Root # Idle /\ RootPrio \in Prio /\ RootPrio <= Lowest
      /\ Task \subseteq Thread /\ Lowest \in Prio /\ Idle \in Thread
  BY SchedAssumption, TaskAssumption DEF Prio, Thread
<1>1. /\ k.status = [t \in Thread |-> IF t = Root THEN {"INUSE", "READY", "RUNNING"}
                                      ELSE IF t = Idle THEN {"INUSE", "READY"} ELSE {}]
      /\ k.priority = [t \in Thread |-> IF t = Root THEN RootPrio ELSE Lowest]
      /\ k.readyList = [p \in Prio |-> (IF p = RootPrio THEN <<Root>> ELSE << >>) \o
                                       (IF p = Lowest THEN <<Idle>> ELSE << >>)]
      /\ k.delayList = << >> /\ k.highest = Root /\ k.running = Root
      /\ k.taskLock = 0 /\ k.taskReq = FALSE /\ k.intActive = FALSE
      /\ k.scan = "no" /\ k.fault = FALSE
  BY DEF TaskInit
<1>2. \A p \in Prio : k.readyList[p] =
        IF p = RootPrio THEN IF p = Lowest THEN <<Root, Idle>> ELSE <<Root>>
        ELSE IF p = Lowest THEN <<Idle>> ELSE << >>
  <2>1. <<Root>> \o <<Idle>> = <<Root, Idle>>
    <3>1. <<Root>> \in Seq(Thread) /\ <<Idle>> \in Seq(Thread) /\ <<Root, Idle>> \in Seq(Thread)
      BY <1>0
    <3> DEFINE c == <<Root>> \o <<Idle>>
    <3>2. c \in Seq(Thread) /\ Len(c) = 2 /\ c[1] = Root /\ c[2] = Idle
      BY <3>1
    <3>3. Len(<<Root, Idle>>) = 2 /\ <<Root, Idle>>[1] = Root /\ <<Root, Idle>>[2] = Idle
      OBVIOUS
    <3> HIDE DEF c
    <3>4. \A i \in 1 .. 2 : c[i] = <<Root, Idle>>[i]
      BY <3>2, <3>3
    <3>5. c = <<Root, Idle>>
      BY <3>1, <3>2, <3>3, <3>4, SeqEqual
    <3> QED BY <3>5 DEF c
  <2>2. /\ <<Root>> \o << >> = <<Root>>
        /\ << >> \o <<Idle>> = <<Idle>> /\ << >> \o << >> = << >>
    BY <1>0, ConcatEmptySeq
  <2>3. \A p \in Prio : k.readyList[p] = (IF p = RootPrio THEN <<Root>> ELSE << >>) \o
                                          (IF p = Lowest THEN <<Idle>> ELSE << >>)
    BY <1>1
  <2> SUFFICES ASSUME NEW p \in Prio
               PROVE  k.readyList[p] =
                        IF p = RootPrio THEN IF p = Lowest THEN <<Root, Idle>> ELSE <<Root>>
                        ELSE IF p = Lowest THEN <<Idle>> ELSE << >>
    OBVIOUS
  <2>4. CASE p = RootPrio /\ p = Lowest
    BY <2>1, <2>3, <2>4
  <2>5. CASE p = RootPrio /\ p # Lowest
    BY <2>2, <2>3, <2>5
  <2>6. CASE p # RootPrio /\ p = Lowest
    BY <2>2, <2>3, <2>6
  <2>7. CASE p # RootPrio /\ p # Lowest
    BY <2>2, <2>3, <2>7
  <2> QED BY <2>4, <2>5, <2>6, <2>7
<1>3. k.readyList \in [Prio -> Seq(Thread)]
  BY <1>0, <1>1, <1>2
<1>4. k.status \in [Thread -> SUBSET TskStatus]
  BY <1>1 DEF TskStatus
<1>5. k \in KernelState
  <2>1. k.priority \in [Thread -> Prio]
    BY <1>0, <1>1
  <2> QED BY <1>0, <1>3, <1>4, <2>1 DEF TaskInit, KernelState
<1>6. TypeOK
  BY <1>0, <1>5 DEF TypeOK, TaskInit
<1>7. \A p \in Prio :
        /\ ToSet(k.readyList[p]) = {t \in {Root, Idle} : k.priority[t] = p}
        /\ IsInjective(k.readyList[p])
  <2>1. /\ ToSet(<<Root, Idle>>) = {Root, Idle} /\ ToSet(<<Root>>) = {Root}
        /\ ToSet(<<Idle>>) = {Idle} /\ ToSet(<< >>) = {}
    BY DEF ToSet
  <2>2. IsInjective(<<Root, Idle>>)
    BY <1>0 DEF IsInjective
  <2>3. IsInjective(<<Root>>) /\ IsInjective(<<Idle>>) /\ IsInjective(<< >>)
    BY DEF IsInjective
  <2>4. k.priority[Root] = RootPrio /\ k.priority[Idle] = Lowest
    BY <1>0, <1>1
  <2> QED BY <1>2, <2>1, <2>2, <2>3, <2>4
<1>8. IdleReady(k)
  <2>1. k.priority[Idle] = Lowest
    BY <1>0, <1>1
  <2> QED BY <1>0, <1>7, <2>1 DEF IdleReady
<1>9. Top(k) = Root
  <2>1. k.readyList[RootPrio] # << >> /\ Head(k.readyList[RootPrio]) = Root
    BY <1>0, <1>2
  <2>2. \A x \in Prio : k.readyList[x] # << >> => RootPrio <= x
    BY <1>0, <1>2 DEF Prio
  <2> QED BY <1>0, <1>3, <2>1, <2>2, TopIs
<1>10. ReadyQueue(k)
  <2>1. \A t \in Thread : "READY" \in k.status[t] <=> t \in {Root, Idle}
    BY <1>0, <1>1
  <2>2. \A t \in Thread, p \in Prio :
          t \in ToSet(k.readyList[p]) <=> "READY" \in k.status[t] /\ k.priority[t] = p
    BY <1>7, <2>1
  <2> QED BY <1>1, <1>7, <1>9, <2>2 DEF ReadyQueue
<1>11. RunningBit(k)
  BY <1>0, <1>1 DEF RunningBit
<1>12. Delays(k)
  BY <1>1 DEF Delays, ToSet, IsInjective
<1>13. Bits(k)
  BY <1>1 DEF Bits
<1>14. Good(k, exiting)
  BY <1>1, <1>10, <1>11, <1>12, <1>13 DEF Good, Core, Flags, Lock, Runs, Switched
<1>15. TcbAccounted
  <2>1. \A t \in Task : Used(t) <=> t = Root
    <3>1. \A t \in Task : k.status[t] = IF t = Root THEN {"INUSE", "READY", "RUNNING"} ELSE {}
      BY <1>0, <1>1, SchedAssumption
    <3>2. {"INUSE", "READY", "RUNNING"} # {}
      OBVIOUS
    <3> QED BY <3>1, <3>2 DEF Used
  <2>2. free = Task \ {Root} /\ recycle = {} /\ exiting = {}
    BY DEF TaskInit
  <2> QED BY <1>0, <2>1, <2>2 DEF TcbAccounted
<1> QED BY <1>6, <1>8, <1>14, <1>15 DEF IInv

----------------------------------------------------------------------------
(* Steps.                                                                  *)

\* Most handlers leave the lists of control blocks alone.
LEMMA Framed ==
  ASSUME IInv, ~k.fault, UNCHANGED <<free, recycle, exiting>>,
         k' \in KernelState, IdleReady(k'),
         ~k'.fault => /\ Good(k', exiting)
                      /\ \A t \in Thread : "INUSE" \in k'.status[t] <=> "INUSE" \in k.status[t]
  PROVE  IInv'
<1>1. TypeOK'
  BY DEF IInv, TypeOK
<1>2. ASSUME ~k'.fault PROVE TcbAccounted'
  <2>1. \A t \in Thread : /\ k.status[t] # {} <=> "INUSE" \in k.status[t]
                          /\ k'.status[t] # {} <=> "INUSE" \in k'.status[t]
    BY <1>2 DEF IInv, Good, Core, Bits
  <2>2. \A t \in Task : Used(t)' <=> Used(t)
    BY <1>2, <2>1 DEF Used, Thread
  <2> QED BY <2>2 DEF IInv, TcbAccounted
<1>3. TcbAccounted'
  BY <1>2 DEF TcbAccounted
<1> QED BY <1>1, <1>3 DEF IInv

\* A task that calls a service is ready, and the top unless the lock is on.
LEMMA InTaskReady ==
  ASSUME IInv, InTask
  PROVE  /\ ~k.fault /\ k \in KernelState /\ IdleReady(k) /\ Core(k)
         /\ Flags(k) /\ Lock(k) /\ Runs(k, exiting)
         /\ k.running \in Task /\ "READY" \in k.status[k.running]
         /\ ~k.intActive /\ ~k.taskReq /\ k.scan = "no"
         /\ k.taskLock = 0 => k.running = k.highest
<1>1. /\ ~k.fault /\ k \in KernelState /\ IdleReady(k) /\ Core(k)
      /\ Flags(k) /\ Lock(k) /\ Runs(k, exiting) /\ k.running \in Task \ exiting
      /\ ~k.intActive /\ k.scan = "no"
  BY DEF IInv, TypeOK, Good, InTask, Unlocked
<1>2. ~k.taskReq
  BY <1>1 DEF Flags
<1>3. k.taskLock = 0 => k.running = k.highest
  BY <1>1, <1>2 DEF Runs, Switched
<1>4. "READY" \in k.status[k.highest]
  BY <1>1, TopReady DEF Core
<1>5. "READY" \in k.status[k.running]
  BY <1>1, <1>3, <1>4 DEF Lock
<1> QED BY <1>1, <1>2, <1>3, <1>5

\* OsTaskCreateOnly: a new task is suspended and in no list.
LEMMA StepCreate ==
  ASSUME IInv, NEW t \in Task, NEW p \in UserPrio, TaskCreate(t, p)
  PROVE  IInv'
<1>0. /\ ~k.fault /\ k \in KernelState /\ IdleReady(k) /\ Core(k) /\ Flags(k) /\ Lock(k)
      /\ Runs(k, exiting) /\ t \in Thread /\ p \in Prio
  BY TaskAssumption DEF IInv, TypeOK, Good, TaskCreate, CanCall, InTask, Unlocked, Thread
<1>1. k.status[t] = {}
  BY <1>0 DEF TaskCreate, IInv, TcbAccounted, Used
<1> DEFINE b == {"SUSPEND", "INUSE"}
           m == [k EXCEPT !.status[t] = b]
<1>2. t # k.running /\ t \notin ToSet(k.delayList)
  BY <1>0, <1>1 DEF Core, RunningBit, Delays
<1>3. /\ m \in KernelState /\ IdleReady(m) /\ Core(m)
      /\ m.status = [k.status EXCEPT ![t] = b]
      /\ ReadyFrame(m, k) /\ m.readyList = k.readyList
      /\ m.highest = k.highest /\ m.fault = k.fault
  <2>1. b \in SUBSET TskStatus /\ StatusOk(k, t, b)
    BY <1>1 DEF TskStatus, StatusOk
  <2>2. m = SetStatus(k, t, b)
    BY DEF SetStatus
  <2> HIDE DEF m, b
  <2> QED BY <1>0, <2>1, <2>2, StatusChange
<1>4. k' = [m EXCEPT !.priority = [k.priority EXCEPT ![t] = p],
                     !.origPriority = [k.origPriority EXCEPT ![t] = p]]
  BY <1>0 DEF TaskCreate, KernelState
<1>5. "READY" \notin m.status[t]
  BY <1>0, <1>3 DEF KernelState
<1> HIDE DEF m
<1>6. /\ k'.priority = [k.priority EXCEPT ![t] = p]
      /\ k'.status = m.status /\ k'.readyList = k.readyList /\ k'.highest = k.highest
      /\ k'.running = k.running /\ k'.taskLock = k.taskLock /\ k'.taskReq = k.taskReq
      /\ k'.intActive = k.intActive /\ k'.scan = k.scan /\ k'.delayList = k.delayList
      /\ k'.fault = k.fault
  BY <1>3, <1>4 DEF KernelState, ReadyFrame, SwitchFrame
<1>7. k' \in KernelState
  <2>1. /\ [k.priority EXCEPT ![t] = p] \in [Thread -> Prio]
        /\ [k.origPriority EXCEPT ![t] = p] \in [Thread -> Prio]
    BY <1>0 DEF KernelState
  <2> QED BY <1>3, <1>4, <2>1 DEF KernelState
<1>8. ReadyQueue(k')
  <2>1. Top(k') = Top(m)
    BY <1>3, <1>6 DEF Top
  <2>2. \A u \in Thread : k'.priority[u] = IF u = t THEN p ELSE m.priority[u]
    BY <1>0, <1>3, <1>6 DEF KernelState, ReadyFrame, SwitchFrame
  <2>3. ReadyQueue(m)
    BY <1>3 DEF Core
  <2> QED BY <1>3, <1>5, <1>6, <2>1, <2>2, <2>3 DEF ReadyQueue
<1>9. Core(k')
  BY <1>3, <1>6, <1>8 DEF Core, RunningBit, Delays, Bits, ReadyFrame, SwitchFrame
<1>10. k'.status[k.running] = k.status[k.running]
  BY <1>0, <1>2, <1>3, <1>6 DEF KernelState
<1>11. Flags(k') /\ Lock(k') /\ Runs(k', exiting)
  BY <1>0, <1>6, <1>10 DEF Flags, Lock, Runs, Switched
<1>12. TcbAccounted'
  <2>1. \A u \in Task : Used(u)' <=> u = t \/ Used(u)
    <3>1. \A u \in Thread : k'.status[u] = IF u = t THEN b ELSE k.status[u]
      <4>1. k.status \in [Thread -> SUBSET TskStatus]
        BY <1>0 DEF KernelState
      <4>2. k'.status = [k.status EXCEPT ![t] = b]
        BY <1>3, <1>6
      <4> HIDE DEF b
      <4> QED BY <4>1, <4>2
    <3>2. b # {}
      OBVIOUS
    <3> HIDE DEF b
    <3> QED BY <3>1, <3>2 DEF Used, Thread
  <2>2. free' = (free \cup recycle) \ {t} /\ recycle' = {} /\ exiting' = exiting
    BY DEF TaskCreate
  <2> QED BY <1>0, <2>1, <2>2 DEF IInv, TcbAccounted
<1>13. TypeOK'
  BY <1>7 DEF IInv, TypeOK, TaskCreate
<1>14. IdleReady(k') /\ exiting' = exiting
  BY <1>0, <1>6 DEF IdleReady, TaskCreate
<1> QED BY <1>9, <1>11, <1>12, <1>13, <1>14 DEF IInv, Good

\* A creation that fails gives the control block back.
LEMMA StepCreateNoMemory ==
  ASSUME IInv, TaskCreateNoMemory
  PROVE  IInv'
<1>1. TypeOK' /\ k' = k /\ exiting' = exiting
  BY DEF IInv, TypeOK, TaskCreateNoMemory
<1>2. TcbAccounted'
  BY <1>1 DEF IInv, TcbAccounted, Used, TaskCreateNoMemory
<1> QED BY <1>1, <1>2 DEF IInv

\* PRT_TaskResume readies a task that nothing else blocks, and schedules.
LEMMA StepResume ==
  ASSUME IInv, NEW t \in Task, PRT_TaskResume(t)
  PROVE  IInv'
<1>0. /\ ~k.fault /\ k \in KernelState /\ IdleReady(k) /\ Core(k) /\ Flags(k) /\ Lock(k)
      /\ Runs(k, exiting) /\ t \in Thread /\ UNCHANGED <<free, recycle, exiting>>
  BY DEF IInv, TypeOK, Good, PRT_TaskResume, CanCall, InTask, Unlocked, Thread
<1> DEFINE b == k.status[t] \ {"SUSPEND"}
           m == StatusClear(k, t, {"SUSPEND"})
           a == OsTskReadyAdd(m, t)
<1>1. /\ "SUSPEND" \in k.status[t] /\ "READY" \notin k.status[t] /\ "INUSE" \in b
      /\ b \subseteq {"INUSE", "DELAY", "RUNNING"} /\ b \in SUBSET TskStatus
  BY <1>0 DEF PRT_TaskResume, StatusTst, Core, Bits, TskStatus
<1>2. m = SetStatus(k, t, b)
  BY DEF StatusClear, SetStatus
<1> HIDE DEF m, b
<1>3. /\ m \in KernelState /\ IdleReady(m) /\ Core(m)
      /\ m.status = [k.status EXCEPT ![t] = b]
      /\ ReadyFrame(m, k) /\ m.readyList = k.readyList
      /\ m.highest = k.highest /\ m.fault = k.fault
  <2>1. StatusOk(k, t, b)
    BY <1>1 DEF b, StatusOk
  <2> QED BY <1>0, <1>1, <1>2, <2>1, StatusChange
<1>4. \A u \in Thread : m.status[u] = IF u = t THEN b ELSE k.status[u]
  BY <1>0, <1>3 DEF KernelState
<1>5. \A u \in Thread : "INUSE" \in m.status[u] <=> "INUSE" \in k.status[u]
  BY <1>1, <1>4 DEF b
<1>6. k.taskLock # 0 => k.running # t
  BY <1>0, <1>1 DEF Lock
<1>7. Flags(m) /\ Lock(m) /\ Runs(m, exiting)
  <2>1. k.taskLock # 0 => "READY" \in m.status[k.running]
    BY <1>0, <1>4, <1>6 DEF Lock, Thread
  <2> QED BY <1>0, <1>3, <2>1, FrameGood
<1>8. k' = OsMoveTaskToReady(m, t)
  BY DEF PRT_TaskResume, m
<1>9. CASE StatusTst(m, t, TSK_BLOCK)
  <2>1. k' = m
    BY <1>8, <1>9 DEF OsMoveTaskToReady
  <2> QED BY <1>0, <1>3, <1>5, <1>7, <2>1, Framed DEF Good
<1>10. CASE ~StatusTst(m, t, TSK_BLOCK)
  <2>1. k' = OsTskSchedule(a)
    BY <1>8, <1>10 DEF OsMoveTaskToReady
  <2>2. m.status[t] = b /\ b \cap {"READY", "SUSPEND", "DELAY"} = {}
    BY <1>0, <1>1, <1>4, <1>10 DEF StatusTst, TSK_BLOCK
  <2>3. /\ a \in KernelState /\ ReadyFrame(a, m) /\ a.fault = m.fault
        /\ a.status = [m.status EXCEPT ![t] = @ \cup {"READY"}]
    BY <1>0, <1>3, ReadyAddFields
  <2>4. IdleReady(a) /\ Core(a)
    BY <1>0, <1>1, <1>3, <2>2, ReadyAddCore
  <2> HIDE DEF a
  <2>5. \A u \in Thread : /\ "INUSE" \in a.status[u] <=> "INUSE" \in m.status[u]
                          /\ "READY" \in m.status[u] => "READY" \in a.status[u]
    <3>1. \A u \in Thread : a.status[u] = IF u = t THEN m.status[t] \cup {"READY"} ELSE m.status[u]
      BY <1>0, <1>3, <2>3 DEF KernelState
    <3> QED BY <3>1
  <2>6. Flags(a) /\ Lock(a)
    <3>1. m.taskLock # 0 => "READY" \in a.status[m.running]
      BY <1>7, <2>5 DEF Lock, Thread
    <3> QED BY <1>7, <2>3, <3>1, FrameGood
  <2>7. /\ k' \in KernelState /\ IdleReady(k') /\ Good(k', exiting)
        /\ \A u \in Thread : "INUSE" \in k'.status[u] <=> "INUSE" \in a.status[u]
    BY <2>1, <2>3, <2>4, <2>6, ScheduleGood
  <2> QED BY <1>0, <1>5, <2>5, <2>7, Framed
<1> QED BY <1>9, <1>10

\* PRT_TaskSuspend takes a ready task off its list; the running one gives way.
LEMMA StepSuspend ==
  ASSUME IInv, NEW t \in Task, PRT_TaskSuspend(t)
  PROVE  IInv'
<1>0. /\ ~k.fault /\ k \in KernelState /\ IdleReady(k) /\ Core(k) /\ Flags(k) /\ Lock(k)
      /\ Runs(k, exiting) /\ t \in Thread /\ UNCHANGED <<free, recycle, exiting>>
      /\ k.status[t] # {}
  BY DEF IInv, TypeOK, Good, PRT_TaskSuspend, Suspendable, Used, CanCall, InTask,
         Unlocked, Thread
<1> DEFINE d == IF StatusTst(k, t, {"READY"}) THEN OsTskReadyDel(k, t) ELSE k
           b == (k.status[t] \ {"READY"}) \cup {"SUSPEND"}
           s == StatusSet(d, t, {"SUSPEND"})
<1>1. /\ d \in KernelState /\ IdleReady(d) /\ Core(d)
      /\ ReadyFrame(d, k) /\ d.fault = k.fault
      /\ d.status = [k.status EXCEPT ![t] = @ \ {"READY"}]
      /\ k.highest # t => d.highest = k.highest
  <2>1. CASE "READY" \in k.status[t]
    <3>1. d = OsTskReadyDel(k, t)
      BY <2>1 DEF StatusTst
    <3> HIDE DEF d
    <3> QED BY <1>0, <2>1, <3>1, ReadyDelCore
  <2>2. CASE "READY" \notin k.status[t]
    <3>1. d = k
      BY <2>2 DEF StatusTst
    <3> HIDE DEF d
    <3>2. k.status = [k.status EXCEPT ![t] = @ \ {"READY"}]
      BY <1>0, <2>2 DEF KernelState
    <3> QED BY <1>0, <3>1, <3>2 DEF ReadyFrame, SwitchFrame
  <2> QED BY <2>1, <2>2
<1> HIDE DEF d
<1>2. \A u \in Thread : d.status[u] = IF u = t THEN k.status[t] \ {"READY"} ELSE k.status[u]
  BY <1>0, <1>1 DEF KernelState
<1>3. /\ b \in SUBSET TskStatus /\ b \subseteq {"INUSE", "SUSPEND", "DELAY", "READY", "RUNNING"}
      /\ "READY" \notin b /\ "INUSE" \in b /\ "INUSE" \in k.status[t]
      /\ "RUNNING" \in b <=> "RUNNING" \in k.status[t]
      /\ "DELAY" \in b <=> "DELAY" \in k.status[t]
  BY <1>0 DEF Core, Bits, TskStatus
<1>4. s = SetStatus(d, t, b)
  BY <1>0, <1>2 DEF StatusSet, SetStatus
<1> HIDE DEF s, b
<1>5. /\ s \in KernelState /\ IdleReady(s) /\ Core(s)
      /\ s.status = [d.status EXCEPT ![t] = b]
      /\ ReadyFrame(s, d) /\ s.highest = d.highest /\ s.fault = d.fault
  <2>1. StatusOk(d, t, b)
    BY <1>0, <1>2, <1>3 DEF StatusOk
  <2> QED BY <1>0, <1>1, <1>3, <1>4, <2>1, StatusChange
<1>6. \A u \in Thread : s.status[u] = IF u = t THEN b ELSE k.status[u]
  BY <1>0, <1>1, <1>2, <1>5 DEF KernelState
<1>7. \A u \in Thread : "INUSE" \in s.status[u] <=> "INUSE" \in k.status[u]
  BY <1>3, <1>6
<1>8. ReadyFrame(s, k)
  BY <1>1, <1>5 DEF ReadyFrame, SwitchFrame
<1>9. "RUNNING" \in s.status[t] <=> t = k.running
  BY <1>0, <1>3, <1>6 DEF Core, RunningBit
<1>10. k.taskLock # 0 => t # k.running
  BY <1>0 DEF PRT_TaskSuspend, Suspendable, StatusTst, Core, RunningBit
<1>11. Flags(s) /\ Lock(s) /\ (s.highest = k.highest => Runs(s, exiting))
  <2>1. k.taskLock # 0 => "READY" \in s.status[k.running]
    BY <1>0, <1>6, <1>10 DEF Lock, Thread
  <2> QED BY <1>0, <1>8, <2>1, FrameGood
<1>12. k' = IF StatusTst(s, t, {"RUNNING"}) THEN OsTskSchedule(s) ELSE s
  BY DEF PRT_TaskSuspend, Suspended, s, d
<1>13. CASE t = k.running
  <2>1. k' = OsTskSchedule(s)
    BY <1>9, <1>12, <1>13 DEF StatusTst
  <2>2. /\ k' \in KernelState /\ IdleReady(k') /\ Good(k', exiting)
        /\ \A u \in Thread : "INUSE" \in k'.status[u] <=> "INUSE" \in s.status[u]
    BY <1>5, <1>11, <2>1, ScheduleGood
  <2> QED BY <1>0, <1>7, <2>2, Framed
<1>14. CASE t # k.running
  <2>1. k' = s
    BY <1>9, <1>12, <1>14 DEF StatusTst
  <2>2. Runs(s, exiting)
    <3>1. CASE t = k.highest
      <4>1. Runs(k, exiting) => Runs(s, exiting)
        <5>1. /\ s.running = k.running /\ s.taskReq = k.taskReq /\ s.taskLock = k.taskLock
              /\ s.intActive = k.intActive /\ s.scan = k.scan
          BY <1>8 DEF ReadyFrame, SwitchFrame
        <5> QED BY <1>14, <3>1, <5>1 DEF Runs, Switched
      <4> QED BY <1>0, <4>1
    <3>2. CASE t # k.highest
      BY <1>1, <1>5, <1>11, <3>2
    <3> QED BY <3>1, <3>2
  <2> QED BY <1>0, <1>5, <1>7, <1>11, <2>1, <2>2, Framed DEF Good
<1> QED BY <1>13, <1>14

\* OsTaskDeleteResInit and OsTskHighestSet take the task off every list.
LEMMA DeleteRes ==
  ASSUME NEW kk \in KernelState, IdleReady(kk), Core(kk), NEW t \in Task
  PROVE  LET d == OsTskHighestSet(OsTaskDeleteResInit(kk, t))
         IN  /\ d \in KernelState /\ IdleReady(d) /\ Core(d)
             /\ d.status = [kk.status EXCEPT ![t] = @ \ {"READY"}]
             /\ d.running = kk.running /\ d.taskLock = kk.taskLock
             /\ d.taskReq = kk.taskReq /\ d.intActive = kk.intActive /\ d.scan = kk.scan
             /\ t \notin ToSet(d.delayList)
             /\ kk.highest # t => d.highest = kk.highest
<1> DEFINE b == IF StatusTst(kk, t, {"DELAY", "TIMEOUT"}) THEN TimerDelete(kk, t) ELSE kk
           c == IF StatusTst(b, t, {"READY"}) THEN OsTskReadyDel(b, t) ELSE b
           d == OsTskHighestSet(OsTaskDeleteResInit(kk, t))
<1>0. t \in Thread
  BY DEF Thread
<1>1. OsTaskDeleteResInit(kk, t) = c
  <2>1. ~StatusTst(kk, t, TSK_LISTED)
    BY <1>0 DEF StatusTst, TSK_LISTED, Core, Bits
  <2> QED BY <2>1 DEF OsTaskDeleteResInit
<1>2. /\ b \in KernelState /\ Core(b) /\ t \notin ToSet(b.delayList)
      /\ b.status = kk.status /\ b.readyList = kk.readyList /\ b.highest = kk.highest
      /\ b.running = kk.running /\ b.taskLock = kk.taskLock
      /\ b.taskReq = kk.taskReq /\ b.intActive = kk.intActive /\ b.scan = kk.scan
  <2>1. CASE StatusTst(kk, t, {"DELAY", "TIMEOUT"})
    <3>1. /\ b \in KernelState /\ Core(b) /\ t \notin ToSet(b.delayList)
          /\ TimerFrame(b, kk)
      BY <2>1, TimerDeleteCore
    <3> HIDE DEF b
    <3> QED BY <3>1 DEF TimerFrame
  <2>2. CASE ~StatusTst(kk, t, {"DELAY", "TIMEOUT"})
    <3>1. t \notin ToSet(kk.delayList)
      BY <2>2 DEF StatusTst, Core, Delays
    <3> QED BY <2>2, <3>1
  <2> QED BY <2>1, <2>2
<1>3. IdleReady(b)
  BY <1>2 DEF IdleReady
<1> HIDE DEF b
<1>4. /\ c \in KernelState /\ IdleReady(c) /\ Core(c)
      /\ ReadyFrame(c, b) /\ c.status = [b.status EXCEPT ![t] = @ \ {"READY"}]
      /\ b.highest # t => c.highest = b.highest
  <2>1. CASE "READY" \in b.status[t]
    <3>1. c = OsTskReadyDel(b, t)
      BY <2>1 DEF StatusTst
    <3> HIDE DEF c
    <3> QED BY <1>2, <1>3, <2>1, <3>1, ReadyDelCore
  <2>2. CASE "READY" \notin b.status[t]
    <3>1. c = b
      BY <2>2 DEF StatusTst
    <3> HIDE DEF c
    <3>2. b.status = [b.status EXCEPT ![t] = @ \ {"READY"}]
      BY <1>0, <1>2, <2>2 DEF KernelState
    <3> QED BY <1>2, <1>3, <3>1, <3>2 DEF ReadyFrame, SwitchFrame
  <2> QED BY <2>1, <2>2
<1> HIDE DEF c
<1>5. OsTskHighestSet(c) = c
  BY <1>4, HighestSetFields DEF Core, ReadyQueue
<1>6. d = c
  BY <1>1, <1>5
<1> HIDE DEF d
<1> QED BY <1>2, <1>4, <1>6 DEF d, ReadyFrame, SwitchFrame

\* The deletion of a task that the scheduler lock does not protect.
LEMMA StepOsTaskDelete ==
  ASSUME IInv, NEW t \in Task, Unlocked, Deletable(t), OsTaskDelete(t)
  PROVE  IInv'
<1>0. /\ ~k.fault /\ k \in KernelState /\ IdleReady(k) /\ Core(k) /\ Flags(k) /\ Lock(k)
      /\ Runs(k, exiting) /\ t \in Thread /\ k.scan = "no"
      /\ Used(t) /\ (k.taskLock # 0 => t # k.running)
  BY DEF IInv, TypeOK, Good, Unlocked, Thread, Deletable
<1> DEFINE d == OsTskHighestSet(OsTaskDeleteResInit(k, t))
           self == StatusTst(d, t, {"RUNNING"})
           e == SetStatus(d, t, {})
           z == [d EXCEPT !.status[t] = {}, !.running = Zombie, !.taskReq = TRUE]
<1>1. /\ d \in KernelState /\ IdleReady(d) /\ Core(d)
      /\ d.status = [k.status EXCEPT ![t] = @ \ {"READY"}]
      /\ d.running = k.running /\ d.taskLock = k.taskLock
      /\ d.taskReq = k.taskReq /\ d.intActive = k.intActive /\ d.scan = k.scan
      /\ t \notin ToSet(d.delayList)
      /\ k.highest # t => d.highest = k.highest
  BY <1>0, DeleteRes
<1>2. /\ k' = IF self THEN IF z.intActive THEN z ELSE OsMainSchedule(z) ELSE e
      /\ recycle' = IF self THEN recycle \cup {t} ELSE recycle
      /\ free' = IF self THEN free ELSE free \cup {t}
      /\ exiting' = exiting \ {t}
  BY DEF OsTaskDelete, SetStatus
<1> HIDE DEF d
<1>3. "READY" \notin d.status[t]
  <2>1. k.status \in [Thread -> SUBSET TskStatus]
    BY <1>0 DEF KernelState
  <2>2. d.status = [k.status EXCEPT ![t] = @ \ {"READY"}] /\ t \in Thread
    BY <1>0, <1>1
  <2> QED BY <2>1, <2>2
<1>4. self <=> t = k.running
  BY <1>0, <1>1 DEF StatusTst, Core, RunningBit
<1>5. ASSUME k' \in KernelState, ~k'.fault => /\ Core(k') /\ k'.status[t] = {}
                /\ \A u \in Thread \ {t} : "INUSE" \in k'.status[u] <=> "INUSE" \in k.status[u]
      PROVE  TypeOK' /\ TcbAccounted'
  <2>1. TypeOK'
    BY <1>2, <1>5 DEF TypeOK, IInv
  <2>2. ASSUME ~k'.fault PROVE \A u \in Task : Used(u)' <=> Used(u) /\ u # t
    <3>1. \A u \in Thread : /\ k.status[u] # {} <=> "INUSE" \in k.status[u]
                            /\ k'.status[u] # {} <=> "INUSE" \in k'.status[u]
      BY <1>0, <1>5, <2>2 DEF Core, Bits
    <3> QED BY <1>5, <2>2, <3>1 DEF Used, Thread
  <2> QED BY <1>0, <1>2, <2>1, <2>2 DEF TcbAccounted, IInv
<1>6. CASE t = k.running
  <2>1. k.taskLock = 0
    BY <1>0, <1>6
  <2>2. [d.status EXCEPT ![t] = {}] \in [Thread -> SUBSET TskStatus]
    BY <1>0, <1>1 DEF KernelState
  <2>3. /\ z.status = [d.status EXCEPT ![t] = {}] /\ z.running = Zombie /\ z.taskReq
        /\ z.readyList = d.readyList /\ z.highest = d.highest /\ z.priority = d.priority
        /\ z.delayList = d.delayList /\ z.taskLock = 0 /\ z.scan = "no"
        /\ z.intActive = k.intActive
    BY <1>0, <1>1, <2>1 DEF KernelState
  <2>4. z \in KernelState
    BY <1>1, <2>2 DEF KernelState
  <2> HIDE DEF z
  <2>5. \A u \in Thread : z.status[u] = IF u = t THEN {} ELSE k.status[u]
    <3>1. \A u \in Thread : z.status[u] = IF u = t THEN {} ELSE d.status[u]
      BY <1>1, <2>3 DEF KernelState
    <3>2. \A u \in Thread : u # t => d.status[u] = k.status[u]
      BY <1>0, <1>1 DEF KernelState
    <3> QED BY <3>1, <3>2
  <2>6. \A u \in Thread : d.status[u] = IF u = t THEN k.status[t] \ {"READY"} ELSE k.status[u]
    BY <1>0, <1>1 DEF KernelState
  <2>7. IdleReady(z) /\ Top(z) = Top(d)
    BY <1>1, <2>3 DEF IdleReady, Top
  <2>8. ReadyQueue(z)
    <3>1. \A u \in Thread : "READY" \in z.status[u] <=> "READY" \in d.status[u]
      BY <1>3, <2>5, <2>6
    <3>2. ReadyQueue(d)
      BY <1>1 DEF Core
    <3> QED BY <2>3, <2>7, <3>1, <3>2 DEF ReadyQueue
  <2>9. RunningBit(z)
    BY <1>0, <1>6, <2>3, <2>5, SchedAssumption DEF Core, RunningBit, Thread
  <2>10. Delays(z)
    <3>1. ToSet(d.delayList) \subseteq Thread
      BY <1>1 DEF KernelState, ToSet, Thread
    <3> QED BY <1>1, <2>3, <2>5, <2>6, <3>1 DEF Core, Delays
  <2>11. Bits(z)
    BY <1>0, <2>5 DEF Core, Bits
  <2>12. Core(z)
    BY <2>8, <2>9, <2>10, <2>11 DEF Core
  <2>13. CASE k.intActive
    <3>1. k' = z
      BY <1>2, <1>4, <1>6, <2>3, <2>13
    <3>2. Good(k', exiting')
      BY <2>3, <2>12, <2>13, <3>1 DEF Good, Flags, Lock, Runs, Switched
    <3>3. TypeOK' /\ TcbAccounted'
      BY <1>0, <1>5, <2>4, <2>5, <2>12, <3>1
    <3> QED BY <2>7, <3>1, <3>2, <3>3 DEF IInv
  <2>14. CASE ~k.intActive
    <3>1. k' = OsMainSchedule(z)
      BY <1>2, <1>4, <1>6, <2>3, <2>14
    <3>2. /\ k' \in KernelState /\ k'.highest = z.highest /\ SwitchFrame(k', z)
          /\ ~k'.taskReq /\ k'.running = z.highest
      BY <2>3, <2>4, <3>1, MainScheduleFields
    <3>3. /\ IdleReady(k') /\ Core(k')
          /\ \A u \in Thread : k'.status[u] \ {"RUNNING"} = z.status[u] \ {"RUNNING"}
      BY <2>4, <2>7, <2>12, <3>1, MainScheduleCore
    <3>4. Good(k', exiting')
      BY <2>3, <3>2, <3>3 DEF Good, Flags, Lock, Runs, Switched, SwitchFrame
    <3>5. k'.status[t] = {}
      <4>1. "INUSE" \notin k'.status[t]
        BY <1>0, <2>5, <3>3
      <4> QED BY <1>0, <3>3, <4>1 DEF Core, Bits
    <3>6. \A u \in Thread \ {t} : "INUSE" \in k'.status[u] <=> "INUSE" \in k.status[u]
      BY <2>5, <3>3
    <3>7. TypeOK' /\ TcbAccounted'
      BY <1>5, <3>2, <3>3, <3>5, <3>6
    <3> QED BY <3>3, <3>4, <3>7 DEF IInv
  <2> QED BY <2>13, <2>14
<1>7. CASE t # k.running
  <2>1. k' = e
    BY <1>2, <1>4, <1>7
  <2>2. /\ e \in KernelState /\ IdleReady(e) /\ Core(e)
        /\ e.status = [d.status EXCEPT ![t] = {}] /\ ReadyFrame(e, d) /\ e.highest = d.highest
    <3>1. "RUNNING" \notin d.status[t]
      BY <1>0, <1>1, <1>7 DEF Core, RunningBit
    <3>2. StatusOk(d, t, {})
      BY <1>1, <1>3, <3>1 DEF StatusOk
    <3> DEFINE none == {}
    <3>3. none \in SUBSET TskStatus /\ StatusOk(d, t, none) /\ e = SetStatus(d, t, none)
      BY <3>2
    <3>4. t \in Thread
      BY <1>0
    <3> HIDE DEF none, e
    <3>5. /\ e \in KernelState /\ IdleReady(e) /\ Core(e)
          /\ e.status = [d.status EXCEPT ![t] = none] /\ ReadyFrame(e, d) /\ e.highest = d.highest
      <4>1. d \in KernelState /\ IdleReady(d) /\ Core(d)
        BY <1>1
      <4> QED BY <3>3, <3>4, <4>1, StatusChange
    <3> QED BY <3>5 DEF none
  <2> HIDE DEF e
  <2>3. \A u \in Thread : e.status[u] = IF u = t THEN {} ELSE k.status[u]
    <3>1. k.status \in [Thread -> SUBSET TskStatus]
      BY <1>0 DEF KernelState
    <3>2. d.status = [k.status EXCEPT ![t] = @ \ {"READY"}]
      BY <1>1
    <3>3. \A u \in Thread : d.status[u] = IF u = t THEN k.status[t] \ {"READY"} ELSE k.status[u]
      BY <3>1, <3>2
    <3>4. d.status \in [Thread -> SUBSET TskStatus]
      BY <1>1 DEF KernelState
    <3>5. e.status = [d.status EXCEPT ![t] = {}]
      BY <2>2
    <3> QED BY <3>3, <3>4, <3>5
  <2>4. /\ e.running = k.running /\ e.taskReq = k.taskReq /\ e.taskLock = k.taskLock
        /\ e.intActive = k.intActive /\ e.scan = k.scan
    BY <1>1, <2>2 DEF ReadyFrame, SwitchFrame
  <2>5. Flags(e)
    BY <1>0, <2>4 DEF Flags
  <2>6. Lock(e)
    BY <1>0, <1>7, <2>3, <2>4 DEF Lock, Thread
  <2>7. Runs(e, exiting')
    <3>1. k.highest # t => e.highest = k.highest
      BY <1>1, <2>2
    <3> QED BY <1>0, <1>2, <1>7, <2>4, <3>1 DEF Runs, Switched
  <2>8. TypeOK' /\ TcbAccounted'
    BY <1>0, <1>5, <2>1, <2>2, <2>3
  <2> QED BY <2>1, <2>2, <2>5, <2>6, <2>7, <2>8 DEF IInv, Good
<1> QED BY <1>6, <1>7

\* PRT_TaskDelete is OsTaskDelete for a task that may be deleted.
LEMMA StepDelete ==
  ASSUME IInv, NEW t \in Task, PRT_TaskDelete(t)
  PROVE  IInv'
<1>1. Unlocked /\ Deletable(t) /\ OsTaskDelete(t)
  BY DEF PRT_TaskDelete, CanCall, InTask
<1> QED BY <1>1, StepOsTaskDelete

\* OsTaskExit is OsTaskDelete for the running task.
LEMMA StepExit ==
  ASSUME IInv, OsTaskExit
  PROVE  IInv'
<1>1. k.running \in Task /\ Unlocked /\ Deletable(k.running) /\ OsTaskDelete(k.running)
  BY DEF OsTaskExit, IInv, TypeOK
<1> QED BY <1>1, StepOsTaskDelete
=============================================================================
