----------------------------- MODULE TaskSched -----------------------------
(***************************************************************************)
(* The task control blocks and the lists of the single-core (AMP) kernel,  *)
(* and the internal functions every other component is built from: put a   *)
(* task on the ready queue, take it off, arm and disarm its timeout, find  *)
(* the highest ready task and switch to it.                                *)
(*                                                                         *)
(* The kernel's state is one record k.  Every C function that runs with    *)
(* interrupts locked is an operator from such a record to the next one, so *)
(* that a handler is the composition of the functions it calls.            *)
(*                                                                         *)
(*   status     taskStatus, the set of OS_TSK_* bits that are on; {} is    *)
(*              OS_TSK_UNUSED                                              *)
(*   priority, origPriority                                                *)
(*   readyList  g_runQueue.readyList: one list of pendList nodes a priority*)
(*   pendList   the wait lists of the IPC objects, linked through the same *)
(*              pendList nodes; taskPend is the list a task is in          *)
(*   delayList  g_tskSortedDelay.tskList, linked through timerList         *)
(*   left       expirationTick - g_uniTicks of a task in delayList, else 0 *)
(*   highest    g_highestTask             running   RUNNING_TASK           *)
(*   taskLock   g_uniTaskLock             taskReq   OS_FLG_TSK_REQ         *)
(*   intActive  OS_INT_ACTIVE             scan      where OsTaskScan is    *)
(*   fault      the kernel has unlinked a node that is in no list:         *)
(*              ListDelete sets both pointers to NULL and a second one     *)
(*              dereferences them                                          *)
(***************************************************************************)
EXTENDS Integers, SequencesExt

CONSTANTS Task,      \* the task control blocks of applications
          Idle,      \* the idle task's control block
          Zombie,    \* OS_PST_ZOMBIE_TASK, stands in for a deleted running task
          Lowest,    \* OS_TSK_PRIORITY_LOWEST; 0 is the highest priority
          WaitList   \* the wait lists of the IPC objects

ASSUME SchedAssumption ==
  /\ Idle \notin Task
  /\ Zombie \notin Task \cup {Idle}
  /\ Lowest \in Nat

Thread == Task \cup {Idle}
Prio   == 0 .. Lowest

\* The bits of taskStatus that the modelled components set.
TskStatus == {"INUSE", "SUSPEND", "PEND", "TIMEOUT", "DELAY", "READY",
              "RUNNING", "QUEUE_PEND", "QUEUE_BUSY", "EVENT_PEND", "RW_PEND"}
\* OS_TSK_BLOCK.
TSK_BLOCK == {"DELAY", "PEND", "SUSPEND", "QUEUE_PEND", "EVENT_PEND", "RW_PEND"}
\* The blocked states in which the task's pendList node is in a wait list.
TSK_LISTED == {"PEND", "QUEUE_PEND", "RW_PEND"}

KernelState ==
  [status : [Thread -> SUBSET TskStatus],
   priority : [Thread -> Prio], origPriority : [Thread -> Prio],
   readyList : [Prio -> Seq(Thread)], pendList : [WaitList -> Seq(Task)],
   delayList : Seq(Task), left : [Task -> Nat],
   highest : Thread, running : Thread \cup {Zombie},
   taskLock : Nat, taskReq : BOOLEAN, intActive : BOOLEAN,
   scan : {"no", "scan", "need"}, fault : BOOLEAN]

----------------------------------------------------------------------------
\* TSK_STATUS_SET, TSK_STATUS_CLEAR and TSK_STATUS_TST.
StatusSet(k, t, bits)   == [k EXCEPT !.status[t] = @ \cup bits]
StatusClear(k, t, bits) == [k EXCEPT !.status[t] = @ \ bits]
StatusTst(k, t, bits)   == k.status[t] \cap bits # {}

\* ListDelete on a node that is in no list.
Fault(k) == [k EXCEPT !.fault = TRUE]

\* A list with e linked in front of its first element that is in Behind, or at
\* its tail: the search loops of the sorted lists.
InsertBefore(s, e, Behind) ==
  LET after == {i \in DOMAIN s : s[i] \in Behind}
  IN  IF after = {} THEN Append(s, e) ELSE InsertAt(s, Min(after), e)

----------------------------------------------------------------------------
(* The ready queue.                                                        *)

OsTskHighestSet(k) ==
  [k EXCEPT !.highest =
     Head(k.readyList[Min({p \in Prio : k.readyList[p] # << >>})])]

OsTskReadyAdd(k, t) ==
  OsTskHighestSet([StatusSet(k, t, {"READY"}) EXCEPT
                     !.readyList[k.priority[t]] = Append(@, t)])

OsTskReadyDel(k, t) ==
  IF t \in ToSet(k.readyList[k.priority[t]])
  THEN OsTskHighestSet([StatusClear(k, t, {"READY"}) EXCEPT
         !.readyList[k.priority[t]] = RemoveFirst(@, t)])
  ELSE Fault(StatusClear(k, t, {"READY"}))

----------------------------------------------------------------------------
(* The sorted delay list and the wait lists.                               *)

\* Mutant: a new timeout goes in front of an equal one and of no other.
OsTskTimerAdd_Unsorted(k, t, timeout) ==
  [k EXCEPT !.left[t] = timeout,
            !.delayList = InsertBefore(@, t, {u \in Task : k.left[u] = timeout})]

OsTskTimerAdd(k, t, timeout) ==
  [k EXCEPT !.left[t] = timeout,
            !.delayList = InsertBefore(@, t, {u \in Task : k.left[u] > timeout})]

\* ListDelete(&taskCb->timerList), OS_TSK_DELAY_LOCKED_DETACH.
TimerDelete(k, t) ==
  IF t \in ToSet(k.delayList)
  THEN [k EXCEPT !.left[t] = 0, !.delayList = RemoveFirst(@, t)]
  ELSE Fault(k)

\* ListDelete(&taskCb->pendList) of a task that waits for an IPC object.
PendDelete(k, t) ==
  IF \E w \in WaitList : t \in ToSet(k.pendList[w])
  THEN [k EXCEPT !.pendList = [w \in WaitList |-> RemoveFirst(@[w], t)]]
  ELSE Fault(k)

----------------------------------------------------------------------------
(* Switching.                                                              *)

OsMainSchedule(k) ==
  IF k.taskReq
  THEN [k EXCEPT !.taskReq = FALSE, !.running = k.highest,
          !.status = [t \in Thread |->
             IF t = k.highest THEN @[t] \cup {"RUNNING"}
             ELSE IF t = k.running THEN @[t] \ {"RUNNING"} ELSE @[t]]]
  ELSE k

\* OsTskSchedule, OsTskScheduleFast and OsTskScheduleFastPs: in task context the
\* trap switches at once, in an interrupt the request waits for its tail.
OsTskSchedule(k) ==
  LET h == OsTskHighestSet(k)
      r == [h EXCEPT !.taskReq = TRUE]
  IN  IF h.highest = h.running \/ h.taskLock # 0 THEN h
      ELSE IF h.intActive THEN r ELSE OsMainSchedule(r)

----------------------------------------------------------------------------
(* Timeouts.  OsTaskScan runs to its end with interrupts locked: OsTaskScan *)
(* below is its start, ScanTask one turn of its loop and ScanEnd what       *)
(* follows the loop, and nothing else happens while k.scan # "no".          *)

\* Mutant: the remaining times do not shrink.
OsTaskScan_NoAging(k) == [k EXCEPT !.scan = "scan"]

OsTaskScan(k) ==
  [k EXCEPT !.scan = "scan",
            !.left = [t \in Task |-> IF @[t] > 0 THEN @[t] - 1 ELSE 0]]

\* The head of the delay list has expired.
ScanDue(k) == k.delayList # << >> /\ k.left[Head(k.delayList)] = 0

\* What the expired task was blocked on, in the order the code asks.
BlockedOn(k, t) ==
  IF StatusTst(k, t, {"PEND"}) THEN "PEND"
  ELSE IF StatusTst(k, t, {"EVENT_PEND"}) THEN "EVENT_PEND"
  ELSE IF StatusTst(k, t, {"QUEUE_PEND"}) THEN "QUEUE_PEND"
  ELSE IF StatusTst(k, t, {"RW_PEND"}) THEN "RW_PEND"
  ELSE "DELAY"

\* Mutant: an expired task is made ready even if it is suspended.
ScanTask_IgnoresSuspend(k) ==
  LET t == Head(k.delayList)
      b == BlockedOn(k, t)
      d == TimerDelete(k, t)
      u == StatusClear(IF b \in TSK_LISTED THEN PendDelete(d, t) ELSE d, t, {b})
  IN  [OsTskReadyAdd(u, t) EXCEPT !.scan = "need"]

\* Mutant: a wait that times out leaves the task in the wait list.
ScanTask_KeepsWaiting(k) ==
  LET t == Head(k.delayList)
      u == StatusClear(TimerDelete(k, t), t, {BlockedOn(k, t)})
  IN  IF StatusTst(u, t, {"SUSPEND"}) THEN u
      ELSE [OsTskReadyAdd(u, t) EXCEPT !.scan = "need"]

\* OS_TSK_TIMEOUT stays on: the woken task looks at it when it runs.
ScanTask(k) ==
  LET t == Head(k.delayList)
      b == BlockedOn(k, t)
      d == TimerDelete(k, t)
      u == StatusClear(IF b \in TSK_LISTED THEN PendDelete(d, t) ELSE d, t, {b})
  IN  IF StatusTst(u, t, {"SUSPEND"}) THEN u
      ELSE [OsTskReadyAdd(u, t) EXCEPT !.scan = "need"]

ScanEnd(k) ==
  [IF k.scan = "need" THEN OsTskSchedule(k) ELSE k EXCEPT !.scan = "no"]

----------------------------------------------------------------------------
(* The tail of an interrupt.                                               *)

\* Mutant: the task keeps its place in the ready list.
OsHwiEndCheckTimeSlice_NoRotate(k) ==
  IF k.highest # k.running /\ k.taskLock = 0 THEN [k EXCEPT !.taskReq = TRUE] ELSE k

\* The round-robin task that was interrupted has used up its time slice.
OsHwiEndCheckTimeSlice(k) ==
  LET c == k.running
      m == OsTskReadyAdd(OsTskReadyDel(k, c), c)
  IN  IF m.highest # c /\ m.taskLock = 0 THEN [m EXCEPT !.taskReq = TRUE] ELSE m

\* Mutant: a task that becomes ready preempts in spite of the scheduler lock.
OsMoveTaskToReady_IgnoresLock(k, t) ==
  LET r == [OsTskReadyAdd(k, t) EXCEPT !.taskReq = TRUE]
  IN  IF StatusTst(k, t, TSK_BLOCK) THEN k
      ELSE IF k.intActive THEN r ELSE OsMainSchedule(r)

\* If the task is not blocked any more it becomes ready and may preempt.
OsMoveTaskToReady(k, t) ==
  IF StatusTst(k, t, TSK_BLOCK) THEN k ELSE OsTskSchedule(OsTskReadyAdd(k, t))
=============================================================================
