------------------------------- MODULE Rwlock -------------------------------
(***************************************************************************)
(* Read-write locks (pthread_rwlock_t) on top of task management.  rw_count*)
(* is the number of read locks, or -1 for a writer; waiting readers and    *)
(* writers have a list each, sorted by priority.  The last unlock hands    *)
(* the lock over before the woken tasks run.                               *)
(*                                                                         *)
(* Unlike the other blocking services the timed ones restore interrupts    *)
(* when the task runs again and lock them anew before they look at         *)
(* OS_TSK_TIMEOUT, so that interrupts come in between.  rw_read and        *)
(* rw_write of a lock r are k.pendList[<<r, "rd">>] and <<r, "wr">>.       *)
(***************************************************************************)
EXTENDS Task, FiniteSetsExt

CONSTANTS Lock,      \* the pthread_rwlock_t objects
          NoTask,    \* rw_owner is NULL
          NoCall,    \* the task is in no call
          Forever,   \* OS_WAIT_FOREVER
          Timeouts,  \* the timeouts callers pass: ticks or Forever
          MaxRead    \* bound: read locks of one lock (S32_MAX in the code)

ASSUME RwlockAssumption ==
  /\ Lock \X {"rd", "wr"} \subseteq WaitList
  /\ NoTask \notin Task
  /\ Forever \notin Nat /\ Timeouts \subseteq (Nat \ {0}) \cup {Forever}
  /\ MaxRead \in Nat \ {0}

VARIABLES rwl,   \* [used, count, owner]: rw_magic, rw_count, rw_owner
          pc,    \* the list a task waits in, or <<r, "got">> once it was woken
          rd     \* the read locks a task has; the code only counts them

rwVars == <<rwl, pc, rd>>
allVars == <<taskVars, rwVars>>

RwInit ==
  /\ TaskInit
  /\ rwl = [r \in Lock |-> [used |-> FALSE, count |-> 0, owner |-> NoTask]]
  /\ pc = [t \in Task |-> NoCall]
  /\ rd = [r \in Lock |-> [t \in Task |-> 0]]

\* The running task has been switched in and is still inside a call.
InCall == k.running \in Task /\ pc[k.running] # NoCall

\* OsRwLockCheck: a task calls, with the scheduler not locked.
RwCaller(r) == InTask /\ ~InCall /\ k.taskLock = 0 /\ rwl[r].used

Readers(r) == k.pendList[<<r, "rd">>]
Writers(r) == k.pendList[<<r, "wr">>]

----------------------------------------------------------------------------
pthread_rwlock_init(r) ==
  /\ InTask /\ ~InCall
  /\ ~rwl[r].used
  /\ rwl' = [rwl EXCEPT ![r].used = TRUE]
  /\ UNCHANGED <<taskVars, pc, rd>>

\* Only the count is looked at, not the lists.
pthread_rwlock_destroy(r) ==
  /\ InTask /\ ~InCall
  /\ rwl[r].used /\ rwl[r].count = 0
  /\ rwl' = [rwl EXCEPT ![r].used = FALSE]
  /\ UNCHANGED <<taskVars, pc, rd>>

----------------------------------------------------------------------------
(* Taking the lock.                                                        *)

\* Mutant: a reader passes a writer of its own priority.
OsRwlockPriCompare_Equal(t, list) ==
  list # << >> => k.priority[t] <= k.priority[Head(list)]

OsRwlockPriCompare(t, list) ==
  list # << >> => k.priority[t] < k.priority[Head(list)]

\* OsRwLockRdPend, also of a try: nobody else is asked.
RdLock(r) ==
  /\ RwCaller(r)
  /\ rwl[r].count \in 0 .. MaxRead - 1
  /\ OsRwlockPriCompare(k.running, Writers(r))
  /\ rwl' = [rwl EXCEPT ![r].count = @ + 1]
  /\ rd' = [rd EXCEPT ![r][k.running] = @ + 1]
  /\ UNCHANGED <<taskVars, pc>>

\* OsRwLockWrPend; an owner that asks again is told OS_OK and nothing changes.
WrLock(r) ==
  /\ RwCaller(r)
  /\ rwl[r].count = 0
  /\ rwl' = [rwl EXCEPT ![r].count = -1, ![r].owner = k.running]
  /\ UNCHANGED <<taskVars, pc, rd>>

\* OsRwLockPendFindPos: t goes to the front if it is better than the first waiter,
\* to the end if it is no better than the last, and else before the first one
\* that is worse or right behind the first one of its own priority.
OsRwLockPendFindPos(list, t) ==
  LET p == k.priority[t]
      i == Min({j \in DOMAIN list : k.priority[list[j]] >= p})
  IN  IF list = << >> THEN <<t>>
      ELSE IF k.priority[Head(list)] > p THEN <<t>> \o list
      ELSE IF k.priority[Last(list)] <= p THEN Append(list, t)
      ELSE IF k.priority[list[i]] > p THEN InsertAt(list, i, t)
      ELSE InsertAt(list, i + 1, t)

\* OsRwLockPendSchedule with OsRwLockPendPre, up to the switch.
OsRwLockPendPre(w, n) ==
  LET t == k.running
      d == StatusSet(OsTskReadyDel(k, t), t, {"RW_PEND"})
      m == IF n = Forever THEN d ELSE OsTskTimerAdd(StatusSet(d, t, {"TIMEOUT"}), t, n)
  IN  OsTskSchedule([m EXCEPT !.pendList[w] = OsRwLockPendFindPos(@, t)])

\* The reader has to wait; the owner of the lock is refused.
RdBlock(r, n) ==
  /\ RwCaller(r)
  /\ rwl[r].count >= 0 => ~OsRwlockPriCompare(k.running, Writers(r))
  /\ rwl[r].owner # k.running
  /\ k' = OsRwLockPendPre(<<r, "rd">>, n)
  /\ pc' = [pc EXCEPT ![k.running] = <<r, "rd">>]
  /\ UNCHANGED <<free, recycle, exiting, rwl, rd>>

WrBlock(r, n) ==
  /\ RwCaller(r)
  /\ rwl[r].count # 0
  /\ rwl[r].owner # k.running
  /\ k' = OsRwLockPendPre(<<r, "wr">>, n)
  /\ pc' = [pc EXCEPT ![k.running] = <<r, "wr">>]
  /\ UNCHANGED <<free, recycle, exiting, rwl, rd>>

\* After the switch back: OS_TSK_TIMEOUT, if still on, is the result.
RwReturn ==
  /\ Unlocked /\ ~k.intActive /\ InCall
  /\ k' = StatusClear(k, k.running, {"TIMEOUT"})
  /\ pc' = [pc EXCEPT ![k.running] = NoCall]
  /\ UNCHANGED <<free, recycle, exiting, rwl, rd>>

----------------------------------------------------------------------------
(* Unlocking.                                                              *)

\* Mutant: the timer of the woken task runs on.
OsRwLockTaskWake_KeepsTimer(kk, t) ==
  LET c == StatusClear(PendDelete(kk, t), t, {"RW_PEND"})
  IN  IF StatusTst(c, t, {"SUSPEND"}) THEN c ELSE OsTskReadyAdd(c, t)

OsRwLockTaskWake(kk, t) ==
  LET d == PendDelete(kk, t)
      n == IF StatusTst(d, t, {"TIMEOUT"}) THEN TimerDelete(d, t) ELSE d
      c == StatusClear(n, t, {"TIMEOUT", "RW_PEND"})
  IN  IF StatusTst(c, t, {"SUSPEND"}) THEN c ELSE OsTskReadyAdd(c, t)

\* OsRwLockGetMode: the first writer is served before the readers.
WriterFirst(r) ==
  /\ Writers(r) # << >>
  /\ Readers(r) # << >> => k.priority[Head(Writers(r))] <= k.priority[Head(Readers(r))]

\* The readers OsRwLockPost wakes: all of them, or up to the first one that is no
\* better than the first waiting writer.
ReadersToWake(r) ==
  LET Better(i) == OsRwlockPriCompare(Readers(r)[i], Writers(r))
      n == Max({m \in 0 .. Len(Readers(r)) : \A i \in 1 .. m : Better(i)})
  IN  SubSeq(Readers(r), 1, n)

Woken(r) == IF WriterFirst(r) THEN <<Head(Writers(r))>> ELSE ReadersToWake(r)

\* OsRwLockPost when the running task gives up the last lock: the lock belongs to
\* the woken tasks at once.
OsRwLockPost(r) ==
  LET woken == Woken(r)
      set   == ToSet(woken)
  IN  /\ k' = IF woken = << >> THEN k
              ELSE OsTskSchedule(FoldLeft(OsRwLockTaskWake, k, woken))
      /\ rwl' = [rwl EXCEPT
           ![r].count = IF WriterFirst(r) THEN -1 ELSE Len(woken),
           ![r].owner = IF WriterFirst(r) THEN Head(woken) ELSE NoTask]
      /\ rd' = [rd EXCEPT ![r] = [t \in Task |->
           IF t \in set /\ ~WriterFirst(r) THEN @[t] + 1
           ELSE IF t = k.running /\ @[t] > 0 THEN @[t] - 1 ELSE @[t]]]
      /\ pc' = [t \in Task |-> IF t \in set THEN <<r, "got">> ELSE pc[t]]

\* Mutant: the lock is handed over when one of several readers unlocks.
OsRwLockUnlock_AnyReader(r) ==
  /\ InTask /\ ~InCall
  /\ rwl[r].owner = k.running \/ rd[r][k.running] > 0
  /\ OsRwLockPost(r)
  /\ UNCHANGED <<free, recycle, exiting>>

\* pthread_rwlock_unlock by a task that has the lock.
OsRwLockUnlock(r) ==
  /\ InTask /\ ~InCall
  /\ rwl[r].owner = k.running \/ rd[r][k.running] > 0
  /\ IF rwl[r].count > 1
     THEN /\ rwl' = [rwl EXCEPT ![r].count = @ - 1]
          /\ rd' = [rd EXCEPT ![r][k.running] = @ - 1]
          /\ UNCHANGED <<k, pc>>
     ELSE OsRwLockPost(r)
  /\ UNCHANGED <<free, recycle, exiting>>

----------------------------------------------------------------------------
\* An application gives its locks back before a task ends or is deleted.
RwReleasesFirst ==
  \A t \in Task, r \in Lock :
    rwl[r].owner = t \/ rd[r][t] > 0 => k'.status[t] # {} /\ t \notin exiting'

\* A task inside a call makes no other; interrupts come in between.
RwTaskStep ==
  /\ \/ TaskServices
     \/ \E t \in Task, p \in UserPrio : PRT_TaskSetPriority(t, p)
  /\ InCall => k.intActive \/ k'.intActive
  /\ RwReleasesFirst /\ NoStaleDelete
  /\ pc' = [t \in Task |-> IF k'.status[t] = {} THEN NoCall ELSE pc[t]]
  /\ UNCHANGED <<rwl, rd>>

RwNext ==
  \/ \E r \in Lock :
       \/ pthread_rwlock_init(r) \/ pthread_rwlock_destroy(r)
       \/ RdLock(r) \/ WrLock(r) \/ OsRwLockUnlock(r)
       \/ \E n \in Timeouts : RdBlock(r, n) \/ WrBlock(r, n)
  \/ RwReturn
  \/ RwTaskStep

RwSpec == RwInit /\ [][RwNext]_allVars

----------------------------------------------------------------------------
(* Properties.                                                             *)

\* Mutual exclusion and its bookkeeping: rw_count is -1 and rw_owner set while one
\* task writes and nobody reads, and else it is the number of read locks that
\* tasks have, those handed to tasks that have not run yet included.
RwExclusion ==
  \A r \in Lock :
    LET reads == MapThenSumSet(LAMBDA t : rd[r][t], Task)
    IN  IF rwl[r].owner # NoTask
        THEN rwl[r].count = -1 /\ reads = 0
        ELSE rwl[r].count = reads

\* No task sleeps on a lock that is free, so pthread_rwlock_destroy, which looks
\* at rw_count alone, cannot strand one; and the hand-over and the tick do not
\* both serve a waiter: OS_TSK_TIMEOUT is off when it returns if and only if it
\* was given the lock.
RwWaitersServed ==
  ~k.fault => \A t \in Task : pc[t] # NoCall =>
    IF "RW_PEND" \in k.status[t]
    THEN rwl[pc[t][1]].used /\ rwl[pc[t][1]].count # 0 /\ t \in ToSet(k.pendList[pc[t]])
    ELSE "TIMEOUT" \notin k.status[t] <=> pc[t][2] = "got"

\* testsuites/posixtestsuite on pthread_rwlock_rdlock: the calling thread does not
\* get the lock while writers of higher or equal priority are blocked on it.  This
\* is asked of the readers that OsRwLockPost wakes as well.
ReaderYields ==
  [][\A r \in Lock, t \in Task : rd'[r][t] > rd[r][t] =>
       \A w \in ToSet(Writers(r)) : k.priority[t] < k.priority[w]]_allVars
=============================================================================
