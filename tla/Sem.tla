-------------------------------- MODULE Sem --------------------------------
(***************************************************************************)
(* Semaphores on top of task management: counting semaphores, which wake   *)
(* in FIFO order, and recursive mutexes, which wake by priority and lend   *)
(* their owner the priority of the best waiter, along chains of owners     *)
(* that wait themselves.                                                   *)
(*                                                                         *)
(* A semaphore's semList is k.pendList[s].  PRT_SemPend blocks in three    *)
(* parts: the running task is put on the list, OsPriorityInherit walks the *)
(* chain of owners one turn of its loop a step, and OsTskSchedule switches.*)
(* Interrupts stay locked throughout, so nothing else happens in between,  *)
(* and they are still locked when the task runs again and looks at the     *)
(* result of its wait.                                                     *)
(***************************************************************************)
EXTENDS Task, FiniteSets

CONSTANTS Mutex,     \* semaphores made by PRT_SemMutexCreate
          Count,     \* semaphores made by PRT_SemCreate
          NoTask,    \* OS_INVALID_OWNER_ID
          NoSem,     \* the task is in no PRT_SemPend
          Forever,   \* OS_WAIT_FOREVER
          Timeouts,  \* the timeouts callers pass: ticks, 0 or Forever
          MaxCount,  \* OS_SEM_COUNT_MAX
          MaxRecur   \* bound: the deepest nesting of a recursive mutex

Sem == Mutex \cup Count

ASSUME SemAssumption ==
  /\ Sem \subseteq WaitList /\ Mutex \cap Count = {}
  /\ NoTask \notin Thread \cup {Zombie} /\ NoSem \notin Sem
  /\ Forever \notin Nat /\ Timeouts \subseteq Nat \cup {Forever}
  /\ MaxCount \in Nat \ {0} /\ MaxRecur \in Nat

VARIABLES sem,      \* [used, count, owner, recur]: struct TagSemCb
          held,     \* the mutexes in a task's semBList
          pc,       \* the semaphore in whose PRT_SemPend a task is blocked
          putting,  \* the running task is inside OsSemPendListPut
          chain     \* semOwnerTask of OsPriorityInherit's loop

semVars == <<sem, held, pc, putting, chain>>
allVars == <<taskVars, semVars>>

SemInit ==
  /\ TaskInit
  /\ sem = [s \in Sem |-> [used |-> FALSE, count |-> 0, owner |-> NoTask, recur |-> 0]]
  /\ held = [t \in Task |-> {}]
  /\ pc = [t \in Task |-> NoSem]
  /\ putting = FALSE
  /\ chain = NoTask

\* The running task is not inside a PRT_SemPend with interrupts locked.
SemIdle == ~putting /\ (k.running \in Task => pc[k.running] = NoSem)

\* A task or an interrupt handler calls.
SemCaller == SemIdle /\ (InTask \/ (Unlocked /\ k.intActive))

----------------------------------------------------------------------------
(* Create and delete.                                                      *)

\* PRT_SemCreate and PRT_SemMutexCreate (OS_SEM_FULL is 1).
OsSemCreate(s, n) ==
  /\ SemCaller
  /\ ~sem[s].used
  /\ s \in Mutex => n = 1
  /\ sem' = [sem EXCEPT ![s] = [used |-> TRUE, count |-> n, owner |-> NoTask, recur |-> 0]]
  /\ UNCHANGED <<taskVars, held, pc, putting, chain>>

\* Mutant: a mutex that is held can be deleted.
SemDeletable_Held(s) == sem[s].used /\ k.pendList[s] = << >>

SemDeletable(s) ==
  /\ sem[s].used
  /\ k.pendList[s] = << >>
  /\ s \in Mutex => sem[s].owner = NoTask

PRT_SemDelete(s) ==
  /\ SemCaller
  /\ SemDeletable(s)
  /\ sem' = [sem EXCEPT ![s].used = FALSE, ![s].count = 0]
  /\ UNCHANGED <<taskVars, held, pc, putting, chain>>

----------------------------------------------------------------------------
(* Priorities of mutex owners.                                             *)

\* OsGetPendTskMaxPriority: the best of prio and of the first waiters of the
\* mutexes in set.
OsGetPendTskMaxPriority(kk, set, prio) ==
  Min({prio} \cup {kk.priority[Head(kk.pendList[m])] :
                     m \in {x \in set : kk.pendList[x] # << >>}})

\* OsResortSemList and the search of OsSemPendListPut: t goes behind the waiters
\* of its own priority and in front of those of a lower one.
PriorInsert(kk, s, t) ==
  [kk EXCEPT !.pendList[s] =
     InsertBefore(@, t, {u \in Task : kk.priority[u] > kk.priority[t]})]

OsResortSemList(kk, s, t) ==
  PriorInsert([kk EXCEPT !.pendList[s] = RemoveFirst(@, t)], s, t)

\* What one turn of OsPriorityInherit's loop does to the owner o.
Inherit(o, prio) ==
  LET up(kk) == [kk EXCEPT !.priority[o] = prio]
  IN  IF StatusTst(k, o, {"READY"})
      THEN OsTskReadyAdd(up(OsTskReadyDel(k, o)), o)
      ELSE IF StatusTst(k, o, {"PEND"}) /\ pc[o] \in Mutex
           THEN OsResortSemList(up(k), pc[o], o)
           ELSE up(k)

\* Mutant: the chain ends at the first owner.
ChainNext_OneLevel(o) == NoTask

\* The owner the loop looks at after o.
ChainNext(o) ==
  IF ~StatusTst(k, o, {"READY"}) /\ StatusTst(k, o, {"PEND"}) /\ pc[o] \in Mutex
  THEN sem[pc[o]].owner ELSE NoTask

\* Mutant: an owner that has the priority already does not end the walk.
OsPriorityInherit_NotStrict ==
  /\ putting /\ chain # NoTask
  /\ IF k.priority[chain] >= k.priority[k.running]
     THEN /\ k' = Inherit(chain, k.priority[k.running])
          /\ chain' = ChainNext(chain)
     ELSE chain' = NoTask /\ UNCHANGED k
  /\ UNCHANGED <<free, recycle, exiting, sem, held, pc, putting>>

OsPriorityInherit ==
  /\ putting /\ chain # NoTask
  /\ IF k.priority[chain] > k.priority[k.running]
     THEN /\ k' = Inherit(chain, k.priority[k.running])
          /\ chain' = ChainNext(chain)
     ELSE chain' = NoTask /\ UNCHANGED k
  /\ UNCHANGED <<free, recycle, exiting, sem, held, pc, putting>>

\* Mutant: only a task that holds other mutexes is looked at.
OsPriorityRestore_NotLast(kk, set) ==
  LET r == kk.running
      p == OsGetPendTskMaxPriority(kk, set, kk.origPriority[r])
  IN  IF set = {} \/ p = kk.priority[r] THEN kk
      ELSE OsTskReadyAdd([OsTskReadyDel(kk, r) EXCEPT !.priority[r] = p], r)

\* OsPriorityRestore; set is what the running task still holds.
OsPriorityRestore(kk, set) ==
  LET r == kk.running
      p == OsGetPendTskMaxPriority(kk, set, kk.origPriority[r])
      d == [OsTskReadyDel(kk, r) EXCEPT !.priority[r] = p]
  IN  IF kk.priority[r] = kk.origPriority[r] \/ p = kk.priority[r] THEN kk
      ELSE IF StatusTst(kk, r, {"SUSPEND"}) THEN d ELSE OsTskReadyAdd(d, r)

\* PRT_TaskSetPriority with OsCheckPrioritySet.
OsCheckPrioritySet(t, prio) ==
  /\ k.origPriority[t] = k.priority[t]
  /\ StatusTst(k, t, {"PEND"}) => pc[t] \notin Mutex
  /\ held[t] # {} => prio <= OsGetPendTskMaxPriority(k, held[t], k.origPriority[t])

SemSetPriority(t, prio) ==
  /\ SemIdle
  /\ OsCheckPrioritySet(t, prio)
  /\ PRT_TaskSetPriority(t, prio)
  /\ UNCHANGED semVars

----------------------------------------------------------------------------
(* PRT_SemPend.                                                            *)

\* OsSemPendNotNeedSche, first branch: the owner of a mutex takes it again.
SemPendAgain(s) ==
  /\ InTask /\ SemIdle /\ sem[s].used
  /\ s \in Mutex /\ sem[s].owner = k.running
  /\ sem[s].recur < MaxRecur
  /\ sem' = [sem EXCEPT ![s].recur = @ + 1]
  /\ UNCHANGED <<taskVars, held, pc, putting, chain>>

\* Second branch: the semaphore has a token.  semOwner of a counting semaphore
\* is for PRT_SemGetInfo only and is left out.
SemPendTake(s) ==
  /\ InTask /\ SemIdle /\ sem[s].used
  /\ sem[s].owner # k.running
  /\ sem[s].count > 0
  /\ sem' = [sem EXCEPT ![s].count = @ - 1,
                        ![s].owner = IF s \in Mutex THEN k.running ELSE @]
  /\ held' = IF s \in Mutex THEN [held EXCEPT ![k.running] = @ \cup {s}] ELSE held
  /\ UNCHANGED <<taskVars, pc, putting, chain>>

\* Mutant: a mutex keeps its waiters in the order they came.
SemPendListPut_Fifo(s, n) ==
  LET r == k.running
      d == StatusSet(OsTskReadyDel(k, r), r, {"PEND"})
      l == [d EXCEPT !.pendList[s] = Append(@, r)]
  IN  IF n = Forever THEN l
      ELSE OsTskTimerAdd(StatusSet(l, r, {"TIMEOUT"}), r, n)

\* OsSemPendListPut up to OsPriorityInherit.
SemPendListPut(s, n) ==
  LET r == k.running
      d == StatusSet(OsTskReadyDel(k, r), r, {"PEND"})
      l == IF s \in Mutex THEN PriorInsert(d, s, r)
           ELSE [d EXCEPT !.pendList[s] = Append(@, r)]
  IN  IF n = Forever THEN l
      ELSE OsTskTimerAdd(StatusSet(l, r, {"TIMEOUT"}), r, n)

SemPendBlock(s, n) ==
  /\ InTask /\ SemIdle /\ sem[s].used
  /\ sem[s].owner # k.running
  /\ sem[s].count = 0
  /\ n # 0 /\ k.taskLock = 0
  /\ k' = SemPendListPut(s, n)
  /\ pc' = [pc EXCEPT ![k.running] = s]
  /\ putting' = TRUE
  /\ chain' = sem[s].owner
  /\ UNCHANGED <<free, recycle, exiting, sem, held>>

SemPendSwitch ==
  /\ putting /\ chain = NoTask
  /\ k' = OsTskSchedule(k)
  /\ putting' = FALSE
  /\ UNCHANGED <<free, recycle, exiting, sem, held, pc, chain>>

\* OS_TSK_TIMEOUT says whether the wait ended by the tick: the call returns
\* OS_ERRNO_SEM_TIMEOUT, and else OS_OK.
SemPendResult(r) ==
  IF StatusTst(k, r, {"TIMEOUT"}) THEN StatusClear(k, r, {"TIMEOUT"})
  ELSE OsTskSchedule(k)

SemPendReturn ==
  /\ Unlocked /\ ~k.intActive /\ ~putting
  /\ k.running \in Task /\ pc[k.running] # NoSem
  /\ k' = SemPendResult(k.running)
  /\ pc' = [pc EXCEPT ![k.running] = NoSem]
  /\ UNCHANGED <<free, recycle, exiting, sem, held, putting, chain>>

----------------------------------------------------------------------------
(* PRT_SemPost.                                                            *)

\* Mutant: a task that is not the owner can post a mutex.
SemPostCheck_AnyTask(s) ==
  /\ SemIdle /\ sem[s].used
  /\ IF s \in Mutex THEN InTask ELSE CanCall("post") /\ sem[s].count < MaxCount

\* OsSemPostErrorCheck: a mutex is posted by its owner, in task context.
SemPostCheck(s) ==
  /\ SemIdle /\ sem[s].used
  /\ IF s \in Mutex THEN InTask /\ sem[s].owner = k.running
     ELSE CanCall("post") /\ sem[s].count < MaxCount

\* OsSemPostIsInvalid: a nested post only counts down.
SemPostAgain(s) ==
  /\ SemPostCheck(s)
  /\ s \in Mutex /\ sem[s].recur > 0
  /\ sem' = [sem EXCEPT ![s].recur = @ - 1]
  /\ UNCHANGED <<taskVars, held, pc, putting, chain>>

\* Mutant: the timer is stopped but OS_TSK_TIMEOUT stays on.
SemPendListGet_KeepsTimeout(s) ==
  LET t == Head(k.pendList[s])
      d == [k EXCEPT !.pendList[s] = Tail(@)]
      n == IF StatusTst(d, t, {"TIMEOUT"}) THEN TimerDelete(d, t) ELSE d
      w == StatusClear(n, t, {"PEND"})
  IN  IF StatusTst(w, t, {"SUSPEND"}) THEN w ELSE OsTskReadyAdd(w, t)

\* Mutant: the timer is stopped even if the wait has no timeout.
SemPendListGet_AlwaysStops(s) ==
  LET t == Head(k.pendList[s])
      d == TimerDelete([k EXCEPT !.pendList[s] = Tail(@)], t)
      w == StatusClear(d, t, {"PEND", "TIMEOUT"})
  IN  IF StatusTst(w, t, {"SUSPEND"}) THEN w ELSE OsTskReadyAdd(w, t)

\* OsSemPendListGet up to the hand-over: the first waiter becomes ready.
SemPendListGet(s) ==
  LET t == Head(k.pendList[s])
      d == [k EXCEPT !.pendList[s] = Tail(@)]
      n == IF StatusTst(d, t, {"TIMEOUT"})
           THEN StatusClear(TimerDelete(d, t), t, {"TIMEOUT"}) ELSE d
      w == StatusClear(n, t, {"PEND"})
  IN  IF StatusTst(w, t, {"SUSPEND"}) THEN w ELSE OsTskReadyAdd(w, t)

\* The mutexes held after the running task has handed s over to t.
HandOver(s, t) ==
  [u \in Task |-> IF u = t THEN held[u] \cup {s} ELSE held[u] \ {s}]

\* Mutant: the post does not schedule.
SemPostWake_NoSchedule(s) ==
  /\ SemPostCheck(s)
  /\ s \in Mutex => sem[s].recur = 0
  /\ k.pendList[s] # << >>
  /\ IF s \in Mutex
     THEN /\ held' = HandOver(s, Head(k.pendList[s]))
          /\ sem' = [sem EXCEPT ![s].owner = Head(k.pendList[s])]
          /\ k' = OsPriorityRestore(SemPendListGet(s), held'[k.running])
     ELSE k' = SemPendListGet(s) /\ UNCHANGED <<sem, held>>
  /\ UNCHANGED <<free, recycle, exiting, pc, putting, chain>>

SemPostWake(s) ==
  LET t == Head(k.pendList[s])
  IN  /\ SemPostCheck(s)
      /\ s \in Mutex => sem[s].recur = 0
      /\ k.pendList[s] # << >>
      /\ IF s \in Mutex
         THEN /\ held' = HandOver(s, t)
              /\ sem' = [sem EXCEPT ![s].owner = t]
              /\ k' = OsTskSchedule(OsPriorityRestore(SemPendListGet(s), held'[k.running]))
         ELSE k' = OsTskSchedule(SemPendListGet(s)) /\ UNCHANGED <<sem, held>>
      /\ UNCHANGED <<free, recycle, exiting, pc, putting, chain>>

\* Mutant: the token goes to the count although a task waits.
SemPostFree_IgnoresWaiters(s) ==
  /\ SemPostCheck(s)
  /\ s \in Mutex => sem[s].recur = 0
  /\ sem' = [sem EXCEPT ![s].count = @ + 1, ![s].owner = NoTask]
  /\ UNCHANGED <<taskVars, held, pc, putting, chain>>

SemPostFree(s) ==
  /\ SemPostCheck(s)
  /\ s \in Mutex => sem[s].recur = 0
  /\ k.pendList[s] = << >>
  /\ sem' = [sem EXCEPT ![s].count = @ + 1, ![s].owner = NoTask]
  /\ IF s \in Mutex
     THEN LET set == held[k.running] \ {s}
              r == OsPriorityRestore(k, set)
          IN  /\ held' = [held EXCEPT ![k.running] = set]
              /\ k' = IF r # k THEN OsTskSchedule(r) ELSE k
     ELSE UNCHANGED <<k, held>>
  /\ UNCHANGED <<free, recycle, exiting, pc, putting, chain>>

----------------------------------------------------------------------------
(* The task services, as the semaphore component sees them.                *)

\* An application gives its mutexes back before a task ends or is deleted:
\* OsTaskDelStatusCheck only plans to warn when it does not.
ReleasesFirst ==
  \A t \in Task : held[t] # {} => k'.status[t] # {} /\ t \notin exiting'

TaskStep ==
  /\ SemIdle
  /\ TaskServices
  /\ ReleasesFirst
  /\ pc' = [t \in Task |-> IF k'.status[t] = {} THEN NoSem ELSE pc[t]]
  /\ UNCHANGED <<sem, held, putting, chain>>

SemNext ==
  \/ \E s \in Sem, n \in 0 .. MaxCount : OsSemCreate(s, n)
  \/ \E s \in Sem, n \in Timeouts : SemPendBlock(s, n)
  \/ \E s \in Sem :
       \/ PRT_SemDelete(s)
       \/ SemPendAgain(s) \/ SemPendTake(s)
       \/ SemPostAgain(s) \/ SemPostWake(s) \/ SemPostFree(s)
  \/ OsPriorityInherit \/ SemPendSwitch \/ SemPendReturn
  \/ \E t \in Task, p \in UserPrio : SemSetPriority(t, p)
  \/ TaskStep

SemSpec == SemInit /\ [][SemNext]_allVars
SemSafeSpec == SemInit /\ [][SemNext /\ NoStaleDelete]_allVars

\* OsSemPendListPut runs to its end with interrupts locked.
SemFairSpec == SemSafeSpec /\ WF_allVars(OsPriorityInherit) /\ WF_allVars(SemPendSwitch)

----------------------------------------------------------------------------
(* Properties.                                                             *)

\* Semaphores, semBLists and the walk along the owners are well typed.
SemTypeOK ==
  /\ TypeOK
  /\ sem \in [Sem -> [used : BOOLEAN, count : 0 .. MaxCount,
                      owner : Task \cup {NoTask}, recur : 0 .. MaxRecur]]
  /\ held \in [Task -> SUBSET Mutex]
  /\ pc \in [Task -> Sem \cup {NoSem}]
  /\ putting \in BOOLEAN /\ chain \in Task \cup {NoTask}

\* PRT_SemPost hands a token to a waiter or keeps it, never both: a semaphore with
\* a token has no waiter, so no task sleeps on a semaphore that is available, and
\* a deleted semaphore has none at all.
NoTokenWithWaiters ==
  ~k.fault => \A s \in Sem :
    sem[s].count > 0 \/ ~sem[s].used => k.pendList[s] = << >>

\* A mutex in use is free with its one token in place, or it has lost the token
\* and exactly its owner lists it in semBList.
MutexOwnedOnce ==
  \A m \in Mutex :
    /\ \A t \in Task : m \in held[t] <=> sem[m].used /\ sem[m].owner = t
    /\ sem[m].used => sem[m].count = IF sem[m].owner = NoTask THEN 1 ELSE 0
    /\ sem[m].owner = NoTask => sem[m].recur = 0

\* A semaphore's list holds exactly the tasks that are blocked in a PRT_SemPend on
\* it, each once, however their waits end: hand-over, timeout or deletion.
WaitersExact ==
  ~k.fault => \A s \in Sem :
    /\ IsInjective(k.pendList[s])
    /\ \A t \in Task :
         t \in ToSet(k.pendList[s]) <=> "PEND" \in k.status[t] /\ pc[t] = s

\* The list of a mutex stays sorted by the waiters' current priorities, also when
\* a waiter inherits a priority while it waits: the first one is the best one.
WaitersByPriority ==
  \A m \in Mutex : \A i, j \in DOMAIN k.pendList[m] :
    i < j => k.priority[k.pendList[m][i]] <= k.priority[k.pendList[m][j]]

\* Priority inheritance: outside OsSemPendListPut the owner of a mutex runs at
\* least at the priority of each of its waiters, along chains of owners too.
OwnerInherits ==
  (~k.fault /\ ~putting) =>
    \A t \in Task : \A m \in held[t] : \A w \in ToSet(k.pendList[m]) :
      k.priority[t] <= k.priority[w]

\* doc/design/task.md: after a priority inversion the priority goes back to the
\* original one.  A task that holds no mutex has its own priority, whichever of
\* its waiters were served, timed out or were deleted before it released.
PriorityRestored ==
  ~k.fault => \A t \in Task : Used(t) =>
    /\ k.priority[t] <= k.origPriority[t]
    /\ held[t] = {} => k.priority[t] = k.origPriority[t]

\* The hand-over and the tick race for a waiter: when it runs again
\* OS_TSK_TIMEOUT, from which PRT_SemPend makes its result, is off if and only if
\* the task has become the owner of the mutex.
ResultMatchesOwner ==
  ~k.fault => \A t \in Task :
    (pc[t] \in Mutex /\ "PEND" \notin k.status[t]) =>
      ("TIMEOUT" \notin k.status[t] <=> sem[pc[t]].owner = t)

\* The tokens of a counting semaphore: those in the count and those handed to a
\* task that has been woken and has not returned from PRT_SemPend yet.
Granted(s) ==
  {t \in Task : pc[t] = s /\ k.status[t] \cap {"PEND", "TIMEOUT"} = {}}
Tokens(s) == sem[s].count + Cardinality(Granted(s))

\* A PRT_SemPost adds one token and a PRT_SemPend that returns OS_OK takes one;
\* timeouts, suspensions, ticks and every other step move none, except the
\* creation and the deletion of the semaphore and the deletion of a task.
TokensConserved ==
  [][\A s \in Count :
       LET posted == SemPostWake(s) \/ SemPostFree(s)
           got    == \/ SemPendTake(s)
                     \/ SemPendReturn /\ k.running \in Granted(s)
       IN  \/ sem'[s].used # sem[s].used
           \/ \E t \in Task : Used(t) /\ k'.status[t] = {}
           \/ Tokens(s)' - Tokens(s) = IF posted THEN 1 ELSE IF got THEN -1 ELSE 0
    ]_allVars

\* Preemption with semaphores: RunsHighest of Task, except inside
\* OsSemPendListPut, before the switch.
SemRunsHighest == ~putting => RunsHighest

\* include/uapi/prt_task.h on PRT_TaskDelete: the task is deleted and its control
\* block is released (for a running task, kept for recycling).
DeleteReleases ==
  [][\A t \in Task : PRT_TaskDelete(t) => ~k'.fault]_allVars

\* OsPriorityInherit's loop ends, also when owners wait for each other in a cycle.
InheritEnds == putting ~> ~putting
=============================================================================
