------------------------------- MODULE Event -------------------------------
(***************************************************************************)
(* Events on top of task management.  Tasks and interrupts set event bits  *)
(* of a task with PRT_EventWrite; the task reads and clears them with      *)
(* PRT_EventRead and can wait for any or all bits of a mask.               *)
(*                                                                         *)
(* Waiting tasks are in no list.  eventMask and OS_TSK_EVENT_TYPE, which   *)
(* PRT_EventWrite looks at only while OS_TSK_EVENT_PEND is on, are part of *)
(* the call the task is blocked in.                                        *)
(***************************************************************************)
EXTENDS Task

CONSTANTS EventBit,  \* the bits of the event word
          NoCall,    \* the task is in no PRT_EventRead
          Forever,   \* OS_EVENT_WAIT_FOREVER
          Timeouts   \* the timeouts readers pass: ticks or Forever

ASSUME EventAssumption ==
  /\ EventBit # {}
  /\ Forever \notin Nat /\ Timeouts \subseteq (Nat \ {0}) \cup {Forever}

VARIABLES event,  \* the event word of each control block
          pc      \* the read in which a task is blocked: [mask, all]

eventVars == <<event, pc>>
allVars == <<taskVars, eventVars>>

\* The words a caller may pass; 0 is refused.
Word == SUBSET EventBit \ {{}}
Read == [mask : Word, all : BOOLEAN]

EventInit ==
  /\ TaskInit
  /\ event = [t \in Task |-> {}]
  /\ pc = [t \in Task |-> NoCall]

\* The running task is not inside a read with interrupts locked.
EventIdle == k.running \in Task => pc[k.running] = NoCall

----------------------------------------------------------------------------
(* PRT_EventRead, by tasks only.                                           *)

\* The negation of OsIsEventNotMatch, and the test of PRT_EventWrite.
Match(r, word) == IF r.all THEN r.mask \subseteq word ELSE r.mask \cap word # {}

\* The end of PRT_EventRead: the bits that were asked for are cleared.
Take(t, r) == event' = [event EXCEPT ![t] = @ \ r.mask]

EventReadNow(r) ==
  /\ InTask /\ EventIdle
  /\ Match(r, event[k.running])
  /\ Take(k.running, r)
  /\ UNCHANGED <<taskVars, pc>>

\* Mutant: the timer is not started.
OsEventTimeOutSet_NoTimer(kk, t, n) ==
  IF n = Forever THEN StatusClear(kk, t, {"TIMEOUT"}) ELSE StatusSet(kk, t, {"TIMEOUT"})

OsEventTimeOutSet(kk, t, n) ==
  IF n = Forever THEN StatusClear(kk, t, {"TIMEOUT"})
  ELSE OsTskTimerAdd(StatusSet(kk, t, {"TIMEOUT"}), t, n)

\* OsEventReadNeedSche up to the switch.
OsEventReadNeedSche(r, n) ==
  LET t == k.running
      d == StatusSet(OsTskReadyDel(k, t), t, {"EVENT_PEND"})
  IN  /\ InTask /\ EventIdle
      /\ ~Match(r, event[t])
      /\ k.taskLock = 0
      /\ k' = OsTskSchedule(OsEventTimeOutSet(d, t, n))
      /\ pc' = [pc EXCEPT ![t] = r]
      /\ UNCHANGED <<free, recycle, exiting, event>>

\* Mutant: a read that has timed out takes the bits that are there.
EventReadResume_TakesAnyway ==
  LET t == k.running
  IN  /\ Unlocked /\ ~k.intActive
      /\ ~EventIdle
      /\ k' = StatusClear(k, t, {"TIMEOUT"})
      /\ Take(t, pc[t])
      /\ pc' = [pc EXCEPT ![t] = NoCall]
      /\ UNCHANGED <<free, recycle, exiting>>

\* The reader runs again; OS_TSK_TIMEOUT says whether the tick has woken it.
EventReadResume ==
  LET t == k.running
      late == StatusTst(k, t, {"TIMEOUT"})
  IN  /\ Unlocked /\ ~k.intActive
      /\ ~EventIdle
      /\ k' = StatusClear(k, t, {"TIMEOUT"})
      /\ IF late THEN UNCHANGED event ELSE Take(t, pc[t])
      /\ pc' = [pc EXCEPT ![t] = NoCall]
      /\ UNCHANGED <<free, recycle, exiting>>

----------------------------------------------------------------------------
(* PRT_EventWrite, by tasks and interrupts.                                *)

OsEventStateChange(kk, t) ==
  LET n == IF StatusTst(kk, t, {"TIMEOUT"})
           THEN StatusClear(TimerDelete(kk, t), t, {"TIMEOUT"}) ELSE kk
  IN  IF StatusTst(n, t, {"SUSPEND"}) THEN n ELSE OsTskReadyAdd(n, t)

\* Mutant: only the bits of this call are compared with the mask.
Wakes_NewBitsOnly(t, new) == StatusTst(k, t, {"EVENT_PEND"}) /\ Match(pc[t], new)

\* The bits complete what the task is waiting for.
Wakes(t, new) == StatusTst(k, t, {"EVENT_PEND"}) /\ Match(pc[t], event[t] \cup new)

PRT_EventWrite(t, new) ==
  /\ EventIdle /\ (InTask \/ (Unlocked /\ k.intActive))
  /\ Used(t)
  /\ event' = [event EXCEPT ![t] = @ \cup new]
  /\ k' = IF Wakes(t, new)
          THEN OsTskSchedule(OsEventStateChange(StatusClear(k, t, {"EVENT_PEND"}), t))
          ELSE k
  /\ UNCHANGED <<free, recycle, exiting, pc>>

----------------------------------------------------------------------------
\* OsTskCreateTcbInit clears the event word of the new task.
EventTaskStep ==
  /\ EventIdle
  /\ \/ TaskServices
     \/ \E t \in Task, p \in UserPrio : PRT_TaskSetPriority(t, p)
  /\ NoStaleDelete
  /\ pc' = [t \in Task |-> IF k'.status[t] = {} THEN NoCall ELSE pc[t]]
  /\ event' = [t \in Task |-> IF ~Used(t) /\ k'.status[t] # {} THEN {} ELSE event[t]]

EventNext ==
  \/ \E r \in Read : EventReadNow(r) \/ \E n \in Timeouts : OsEventReadNeedSche(r, n)
  \/ EventReadResume
  \/ \E t \in Task, new \in Word : PRT_EventWrite(t, new)
  \/ EventTaskStep

\* The fairness of the kernel, and code with interrupts locked goes on.
EventSpec ==
  EventInit /\ [][EventNext]_allVars /\ TaskFairness /\ WF_allVars(EventReadResume)

----------------------------------------------------------------------------
(* Properties.                                                             *)

\* No wake-up is lost or made up: a reader sleeps only while the bits are not
\* there, and a reader that was woken without OS_TSK_TIMEOUT finds them when it
\* runs, which PRT_EventRead does not check again, however long it was suspended
\* in between.
NoLostEvent ==
  ~k.fault => \A t \in Task : pc[t] # NoCall =>
    IF "EVENT_PEND" \in k.status[t] THEN ~Match(pc[t], event[t])
    ELSE "TIMEOUT" \in k.status[t] \/ Match(pc[t], event[t])

\* A read with a timeout stops waiting, whatever is written, suspended or deleted.
TimedReadEnds ==
  \A t \in Task :
    {"EVENT_PEND", "TIMEOUT"} \subseteq k.status[t]
      ~> ~({"EVENT_PEND", "TIMEOUT"} \subseteq k.status[t])

Flags == INSTANCE EventFlags WITH
  Event <- EventBit, None <- NoCall, flags <- event, want <- pc

\* Waiting, timeouts and the hand-over do not show: every read that succeeds takes,
\* at one moment, all or some of the bits it asked for, as EventFlags says, and a
\* read that times out takes nothing, so that a late event is kept for the next.
ImplementsFlags == Flags!Spec
=============================================================================
