------------------------------- MODULE Queue -------------------------------
(***************************************************************************)
(* Message queues on top of task management: a ring of nodes with one      *)
(* counter of nodes that can be written, one of messages that can be read, *)
(* and a FIFO list of waiting tasks for each.                              *)
(*                                                                         *)
(* A read or a write that finds a task waiting on the other side does not  *)
(* count up but gives what it has freed to that task, which is marked      *)
(* OS_TSK_QUEUE_BUSY until it runs and uses it.  The lists readList and    *)
(* writeList of a queue q are k.pendList[<<q, "read">>] and                *)
(* k.pendList[<<q, "write">>].                                             *)
(***************************************************************************)
EXTENDS Task, FiniteSets

CONSTANTS Queue,     \* the queue control blocks
          Msg,       \* the messages
          NoMsg,     \* srcPid of the node is OS_QUEUE_PID_INVALID
          NoCall,    \* the task is in no PRT_QueueRead or PRT_QueueWrite
          Forever,   \* OS_QUEUE_WAIT_FOREVER
          Timeouts,  \* the timeouts callers pass: ticks, 0 or Forever
          MaxNode    \* bound: the largest nodeNum

ASSUME QueueAssumption ==
  /\ Queue \X {"read", "write"} \subseteq WaitList
  /\ NoMsg \notin Msg /\ Msg # {}
  /\ Forever \notin Nat /\ Timeouts \subseteq Nat \cup {Forever}
  /\ MaxNode \in Nat \ {0}

VARIABLES queue,  \* struct TagQueCb; node[i] is the message in the i-th node
          pc,     \* the call in which a task is blocked: [q, op, msg]
          got     \* the message the last read has copied to its caller

queueVars == <<queue, pc, got>>
allVars == <<taskVars, queueVars>>

Call == [q : Queue, op : {"read"}, msg : {NoMsg}]
        \cup [q : Queue, op : {"normal", "urgent"}, msg : Msg]

\* readList or writeList, the list OsInnerPend puts the caller on, and the one of
\* the other side.
Mine(c)  == <<c.q, IF c.op = "read" THEN "read" ELSE "write">>
Other(c) == <<c.q, IF c.op = "read" THEN "write" ELSE "read">>

Unused == [nodeNum |-> 0, head |-> 0, tail |-> 0, nodePeak |-> 0,
           readable |-> 0, writable |-> 0, node |-> << >>]

QueueInit ==
  /\ TaskInit
  /\ queue = [q \in Queue |-> Unused]
  /\ pc = [t \in Task |-> NoCall]
  /\ got \in Msg

\* The running task is not inside a call with interrupts locked.
QueueIdle == k.running \in Task => pc[k.running] = NoCall

\* A task or an interrupt handler calls.
QueueCaller == QueueIdle /\ (InTask \/ (Unlocked /\ k.intActive))

InUse(q) == queue[q].nodeNum > 0

----------------------------------------------------------------------------
(* Create and delete.  nodeNum is 0 in a control block that is not in use. *)

OsQueueCreate(q, n) ==
  /\ QueueCaller
  /\ ~InUse(q)
  /\ queue' = [queue EXCEPT ![q] =
       [Unused EXCEPT !.nodeNum = n, !.writable = n,
                      !.node = [i \in 0 .. n - 1 |-> NoMsg]]]
  /\ UNCHANGED <<taskVars, pc, got>>

\* Mutant: the counters are not looked at.
QueueDeletable_Waiting(q) ==
  /\ InUse(q)
  /\ k.pendList[<<q, "read">>] = << >> /\ k.pendList[<<q, "write">>] = << >>

\* OS_ERRNO_QUEUE_IN_TSKUSE and OS_ERRNO_QUEUE_BUSY; messages are no obstacle.
QueueDeletable(q) ==
  /\ InUse(q)
  /\ k.pendList[<<q, "read">>] = << >> /\ k.pendList[<<q, "write">>] = << >>
  /\ queue[q].writable + queue[q].readable = queue[q].nodeNum

PRT_QueueDelete(q) ==
  /\ QueueCaller
  /\ QueueDeletable(q)
  /\ queue' = [queue EXCEPT ![q] = Unused]
  /\ UNCHANGED <<taskVars, pc, got>>

----------------------------------------------------------------------------
(* The ring.                                                               *)

\* The index after i, with the wrap-around of queueHead and queueTail.
Up(cb, i) == IF i + 1 = cb.nodeNum THEN 0 ELSE i + 1

\* Mutant: the head does not wrap below node 0 but stays there.
Down_Stuck(cb, i) == IF i = 0 THEN 0 ELSE i - 1

Down(cb, i) == IF i = 0 THEN cb.nodeNum - 1 ELSE i - 1

\* What PRT_QueueRead does to the ring.
ReadNode(cb) == [cb EXCEPT !.node[cb.head] = NoMsg, !.head = Up(cb, cb.head)]

\* The nodes in use after a write, as OsQueueCpData2Node computes them.
UsedNodes(cb) ==
  IF cb.tail > cb.head THEN cb.tail - cb.head ELSE cb.nodeNum - cb.head + cb.tail

OsQueueCpData2Node(cb, op, msg) ==
  LET w == IF op = "normal"
           THEN [cb EXCEPT !.node[cb.tail] = msg, !.tail = Up(cb, cb.tail)]
           ELSE [cb EXCEPT !.node[Down(cb, cb.head)] = msg, !.head = Down(cb, cb.head)]
      peak == UsedNodes(w)
  IN  [w EXCEPT !.nodePeak = IF peak > @ THEN peak ELSE @]

----------------------------------------------------------------------------
(* Waiting and being woken.                                                *)

\* OsInnerPend from OsTskReadyDel to OsTskSchedule.
PendPut(c, n) ==
  LET r == k.running
      d == StatusSet(OsTskReadyDel(k, r), r, {"QUEUE_PEND"})
      l == [d EXCEPT !.pendList[Mine(c)] = Append(@, r)]
  IN  OsTskSchedule(IF n = Forever THEN l
                    ELSE OsTskTimerAdd(StatusSet(l, r, {"TIMEOUT"}), r, n))

\* Mutant: the woken task is not marked busy if it is suspended.
OsQueuePendNeedProc_NotBusy(kk, w) ==
  LET t == Head(kk.pendList[w])
      d == StatusClear([kk EXCEPT !.pendList[w] = Tail(@)], t, {"QUEUE_PEND"})
      n == IF StatusTst(d, t, {"TIMEOUT"})
           THEN StatusClear(TimerDelete(d, t), t, {"TIMEOUT"}) ELSE d
  IN  IF StatusTst(n, t, {"SUSPEND"}) THEN n
      ELSE OsTskReadyAdd(StatusSet(n, t, {"QUEUE_BUSY"}), t)

\* OsQueuePendNeedProc on a list that is not empty: the first waiter is woken.
OsQueuePendNeedProc(kk, w) ==
  LET t == Head(kk.pendList[w])
      d == StatusClear([kk EXCEPT !.pendList[w] = Tail(@)], t, {"QUEUE_PEND"})
      n == IF StatusTst(d, t, {"TIMEOUT"})
           THEN StatusClear(TimerDelete(d, t), t, {"TIMEOUT"}) ELSE d
      b == StatusSet(n, t, {"QUEUE_BUSY"})
  IN  IF StatusTst(b, t, {"SUSPEND"}) THEN b ELSE OsTskReadyAdd(b, t)

\* Mutant: a waiter is woken and the node is counted as well.
Transfer_CountsTwice(kk, c, cb) ==
  LET new == IF c.op = "read" THEN ReadNode(cb) ELSE OsQueueCpData2Node(cb, c.op, c.msg)
  IN  /\ k' = IF kk.pendList[Other(c)] = << >> THEN kk
              ELSE OsTskSchedule(OsQueuePendNeedProc(kk, Other(c)))
      /\ queue' = [queue EXCEPT ![c.q] =
           IF c.op = "read" THEN [new EXCEPT !.writable = @ + 1]
           ELSE [new EXCEPT !.readable = @ + 1]]
      /\ got' = IF c.op = "read" THEN cb.node[cb.head] ELSE got

\* PRT_QueueRead and PRT_QueueWrite after a successful OsInnerPend, which has left
\* the kernel's record as kk and the control block as cb: the node is copied and
\* goes to the first waiter of the other side or to its counter.
Transfer(kk, c, cb) ==
  LET new == IF c.op = "read" THEN ReadNode(cb) ELSE OsQueueCpData2Node(cb, c.op, c.msg)
      waiting == kk.pendList[Other(c)] # << >>
  IN  /\ k' = IF waiting THEN OsTskSchedule(OsQueuePendNeedProc(kk, Other(c))) ELSE kk
      /\ queue' = [queue EXCEPT ![c.q] =
           IF waiting THEN new
           ELSE IF c.op = "read" THEN [new EXCEPT !.writable = @ + 1]
           ELSE [new EXCEPT !.readable = @ + 1]]
      /\ got' = IF c.op = "read" THEN cb.node[cb.head] ELSE got

----------------------------------------------------------------------------
(* PRT_QueueRead and PRT_QueueWrite.                                       *)

\* The counter a call draws on.
Count(c) == IF c.op = "read" THEN queue[c.q].readable ELSE queue[c.q].writable

\* OsInnerPend finds the counter positive; in interrupts and under the scheduler
\* lock this is the only way a call succeeds.
QueueAtOnce(c) ==
  /\ QueueCaller
  /\ InUse(c.q)
  /\ Count(c) > 0
  /\ Transfer(k, c, IF c.op = "read" THEN [queue[c.q] EXCEPT !.readable = @ - 1]
                    ELSE [queue[c.q] EXCEPT !.writable = @ - 1])
  /\ UNCHANGED <<free, recycle, exiting, pc>>

QueueBlock(c, n) ==
  /\ InTask /\ QueueIdle
  /\ InUse(c.q)
  /\ Count(c) = 0
  /\ n # 0 /\ k.taskLock = 0
  /\ k' = PendPut(c, n)
  /\ pc' = [pc EXCEPT ![k.running] = c]
  /\ UNCHANGED <<free, recycle, exiting, queue, got>>

\* The task runs again after OsTskSchedule in OsInnerPend: OS_TSK_TIMEOUT says
\* whether the wait ended by the tick.
QueueResume ==
  LET r == k.running
      c == pc[r]
      b == StatusClear(k, r, {"QUEUE_BUSY"})
  IN  /\ Unlocked /\ ~k.intActive
      /\ r \in Task /\ c # NoCall
      /\ pc' = [pc EXCEPT ![r] = NoCall]
      /\ IF StatusTst(b, r, {"TIMEOUT"})
         THEN k' = StatusClear(b, r, {"TIMEOUT"}) /\ UNCHANGED <<queue, got>>
         ELSE Transfer(b, c, queue[c.q])
      /\ UNCHANGED <<free, recycle, exiting>>

----------------------------------------------------------------------------
QueueTaskStep ==
  /\ QueueIdle
  /\ \/ TaskServices
     \/ \E t \in Task, p \in UserPrio : PRT_TaskSetPriority(t, p)
  /\ NoStaleDelete
  /\ pc' = [t \in Task |-> IF k'.status[t] = {} THEN NoCall ELSE pc[t]]
  /\ UNCHANGED <<queue, got>>

QueueNext ==
  \/ \E q \in Queue : PRT_QueueDelete(q) \/ \E n \in 1 .. MaxNode : OsQueueCreate(q, n)
  \/ \E c \in Call : QueueAtOnce(c) \/ \E n \in Timeouts : QueueBlock(c, n)
  \/ QueueResume
  \/ QueueTaskStep

QueueSpec == QueueInit /\ [][QueueNext]_allVars

----------------------------------------------------------------------------
(* Properties.                                                             *)

\* The tasks that have been given a message or a node of q and have not used it.
Granted(q, side) ==
  {t \in Task : /\ pc[t] # NoCall /\ pc[t].q = q /\ Mine(pc[t])[2] = side
                /\ k.status[t] \cap {"QUEUE_PEND", "TIMEOUT"} = {}}

\* The number of messages in the ring.
Length(cb) ==
  IF cb.nodeNum = 0 THEN 0
  ELSE IF cb.head # cb.tail THEN (cb.tail - cb.head + cb.nodeNum) % cb.nodeNum
  ELSE IF cb.node[cb.head] = NoMsg THEN 0 ELSE cb.nodeNum

\* Each message is counted as readable or given to exactly one reader that has
\* been woken and has not run, each empty node is counted as writable or given to
\* one writer: whatever timeouts, suspensions, deletions and urgent messages come
\* between the wake-up of a task and its turn, nothing is lost or given twice, and
\* PRT_QueueGetNodeNum, which counts valid srcPids, reports the messages there are.
NodesAccounted ==
  ~k.fault => \A q \in Queue :
    /\ Length(queue[q]) = queue[q].readable + Cardinality(Granted(q, "read"))
    /\ queue[q].nodeNum - Length(queue[q])
         = queue[q].writable + Cardinality(Granted(q, "write"))
    /\ Length(queue[q])
         = Cardinality({i \in DOMAIN queue[q].node : queue[q].node[i] # NoMsg})

\* OS_TSK_QUEUE_BUSY is on exactly in the tasks that have been given something:
\* PRT_TaskDelete refuses these, and would else lose the message or the node.
BusyExact ==
  ~k.fault => \A t \in Task :
    "QUEUE_BUSY" \in k.status[t]
      <=> \E q \in Queue, side \in {"read", "write"} : t \in Granted(q, side)

\* No task sleeps on a queue that could serve it, and no task waits for, or has
\* been given a node of, a queue that PRT_QueueDelete has released.
NoIdleWaiter ==
  ~k.fault => \A t \in Task : pc[t] # NoCall =>
    /\ "QUEUE_PEND" \in k.status[t] =>
         InUse(pc[t].q) /\ Count(pc[t]) = 0 /\ t \in ToSet(k.pendList[Mine(pc[t])])
    /\ "QUEUE_BUSY" \in k.status[t] => InUse(pc[t].q)

\* The ring with its counters and hand-overs implements the bounded double-ended
\* queue: reads deliver the messages in the order of the sequence, urgent ones
\* first, and nodePeak is the longest it has been.
Deque == INSTANCE BoundedDeque WITH
  cap  <- [q \in Queue |-> queue[q].nodeNum],
  seq  <- [q \in Queue |-> [i \in 1 .. Length(queue[q]) |->
             queue[q].node[(queue[q].head + i - 1) % queue[q].nodeNum]]],
  peak <- [q \in Queue |-> queue[q].nodePeak]

\* See Deque.
ImplementsDeque == Deque!Spec
=============================================================================
