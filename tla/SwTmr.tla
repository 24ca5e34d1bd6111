------------------------------- MODULE SwTmr -------------------------------
(***************************************************************************)
(* Software timers of the single-core build without tickless idle.  A      *)
(* timer hangs in one of the lists of a wheel; the cursor moves one list   *)
(* further on each tick.  A timer's idxRollNum packs its list and the      *)
(* rounds it still has to wait, counted from the timer before it.          *)
(*                                                                         *)
(* The handlers of the timers that expire on a tick run one after another  *)
(* with interrupts open.  What is asked of an expired timer until its own  *)
(* handler has returned is kept in the PRE_ bits of its state.             *)
(***************************************************************************)
EXTENDS Integers, Sequences, SequencesExt, FiniteSetsExt

CONSTANTS Timer,      \* the control blocks g_swtmrCbArray
          WheelLen,   \* OS_SWTMR_SORTLINK_LEN
          Kind        \* bound: the [mode, interval] timers are created with, in ticks

ASSUME SwTmrAssumption ==
  /\ IsFiniteSet(Timer)
  /\ WheelLen \in Nat \ {0}
  /\ Kind \subseteq [mode : {"ONCE", "LOOP"}, interval : Nat \ {0}]

VARIABLES tmr,       \* TagSwTmrCtrl: state, pre, mode, interval, and idxRollNum
                     \* as idx and roll; roll alone is the word in a timer at rest
          sortLink,  \* the lists of the wheel
          cursor,
          freeList,  \* g_tmrFreeList
          outLink    \* the timers that have expired on this tick, not yet handled

swtmrVars == <<tmr, sortLink, cursor, freeList, outLink>>

Slot == 0 .. WheelLen - 1

\* A control block in the free list; its other fields are not looked at.
Unused == [state |-> "FREE", pre |-> "DEFAULT", mode |-> "ONCE",
           interval |-> 0, idx |-> 0, roll |-> 0]

OsSwTmrResInit ==
  /\ tmr = [t \in Timer |-> Unused]
  /\ sortLink = [i \in Slot |-> << >>]
  /\ cursor = 0
  /\ freeList = SetToSeq(Timer)
  /\ outLink = << >>

----------------------------------------------------------------------------
(* The wheel w = [tmr, sortLink].                                          *)

Wheel == [tmr |-> tmr, sortLink |-> sortLink]

\* The rounds that the i-th timer of a list has to wait.
Rounds(w, list, i) == MapThenSumSet(LAMBDA j : w.tmr[list[j]].roll, 1 .. i)

\* OsSwTmrStartInner: a timer in the cursor's own list is met a round later.
RollNum(interval) ==
  interval \div WheelLen - IF interval % WheelLen = 0 THEN 1 ELSE 0

\* The timer goes behind those that wait no longer than it does; its own rounds are
\* counted from the one before it, and the next timer's from it.
OsSwTmrStart(w, t, interval) ==
  LET idx  == (interval + cursor) % WheelLen
      roll == RollNum(interval)
      list == w.sortLink[idx]
      pos  == Min({i \in DOMAIN list : Rounds(w, list, i) > roll} \cup {Len(list) + 1})
      rel  == roll - Rounds(w, list, pos - 1)
  IN  [tmr |-> [u \in Timer |->
         IF u = t THEN [w.tmr[t] EXCEPT !.state = "RUNNING", !.pre = "DEFAULT",
                                        !.idx = idx, !.roll = rel]
         ELSE IF pos <= Len(list) /\ u = list[pos] THEN [w.tmr[u] EXCEPT !.roll = @ - rel]
         ELSE w.tmr[u]],
       sortLink |-> [w.sortLink EXCEPT ![idx] = InsertAt(@, pos, t)]]

\* The place of a running timer in its list.
Place(t) == CHOOSE i \in DOMAIN sortLink[tmr[t].idx] : sortLink[tmr[t].idx][i] = t

\* Ticks until a running timer expires.
OsSwTmrGetRemain(t) ==
  LET idx == tmr[t].idx
      gap == IF idx <= cursor THEN idx + WheelLen - cursor ELSE idx - cursor
  IN  Rounds(Wheel, sortLink[idx], Place(t)) * WheelLen + gap

\* Mutant: the next timer's rounds are not corrected.
OsSwTmrStop_NextKept(t, rest) ==
  [tmr |-> [tmr EXCEPT ![t] = [@ EXCEPT !.state = "CREATED", !.idx = 0, !.roll = rest]],
   sortLink |-> [sortLink EXCEPT ![tmr[t].idx] = RemoveFirst(@, t)]]

\* The rounds of the timer that goes are added to the next one; rest, if the time
\* left is kept, is what idxRollNum becomes.
OsSwTmrStop(t, rest) ==
  LET list == sortLink[tmr[t].idx]
      i    == Place(t)
  IN  [tmr |-> [u \in Timer |->
         IF u = t THEN [tmr[t] EXCEPT !.state = "CREATED", !.idx = 0, !.roll = rest]
         ELSE IF i < Len(list) /\ u = list[i + 1]
         THEN [tmr[u] EXCEPT !.roll = @ + tmr[t].roll]
         ELSE tmr[u]],
       sortLink |-> [sortLink EXCEPT ![tmr[t].idx] = RemoveFirst(@, t)]]

Becomes(w) == tmr' = w.tmr /\ sortLink' = w.sortLink

----------------------------------------------------------------------------
(* The services, by tasks, interrupts and the timers' handlers.            *)

OsSwTmrCreateTimer(kind) ==
  /\ freeList # << >>
  /\ tmr' = [tmr EXCEPT ![Head(freeList)] =
       [state |-> "CREATED", pre |-> "DEFAULT", mode |-> kind.mode,
        interval |-> kind.interval, idx |-> 0, roll |-> kind.interval]]
  /\ freeList' = Tail(freeList)
  /\ UNCHANGED <<sortLink, cursor, outLink>>

\* What is asked of an expired timer; the last call counts.
Ask(t, pre) ==
  /\ tmr[t].state = "EXPIRED"
  /\ tmr' = [tmr EXCEPT ![t].pre = pre]
  /\ UNCHANGED <<sortLink, cursor, freeList, outLink>>

\* A timer that was stopped goes on with the time it had left.
OsSwTmrStartTimer(t) ==
  \/ Ask(t, "RUNNING")
  \/ /\ tmr[t].state = "CREATED"
     /\ Becomes(OsSwTmrStart(Wheel, t,
          IF tmr[t].roll = 0 THEN tmr[t].interval ELSE tmr[t].roll))
     /\ UNCHANGED <<cursor, freeList, outLink>>

OsSwTmrStopTimer(t) ==
  \/ Ask(t, "CREATED")
  \/ /\ tmr[t].state = "RUNNING"
     /\ Becomes(OsSwTmrStop(t, OsSwTmrGetRemain(t)))
     /\ UNCHANGED <<cursor, freeList, outLink>>

OsSwTmrRestartTimer(t) ==
  \/ Ask(t, "RUNNING")
  \/ /\ tmr[t].state \in {"CREATED", "RUNNING"}
     /\ Becomes(OsSwTmrStart(
          IF tmr[t].state = "RUNNING" THEN OsSwTmrStop(t, 0) ELSE Wheel,
          t, tmr[t].interval))
     /\ UNCHANGED <<cursor, freeList, outLink>>

\* Mutant: a timer is released although its handler has not returned.
OsSwTmrDeleteTimer_AtOnce(t) ==
  LET w == IF tmr[t].state = "RUNNING" THEN OsSwTmrStop(t, 0) ELSE Wheel
  IN  /\ tmr[t].state # "FREE"
      /\ Becomes([w EXCEPT !.tmr[t] = Unused])
      /\ freeList' = <<t>> \o freeList
      /\ UNCHANGED <<cursor, outLink>>

OsSwTmrDeleteTimer(t) ==
  LET w == IF tmr[t].state = "RUNNING" THEN OsSwTmrStop(t, 0) ELSE Wheel
  IN  \/ Ask(t, "FREE")
      \/ /\ tmr[t].state \in {"CREATED", "RUNNING"}
         /\ Becomes([w EXCEPT !.tmr[t] = Unused])
         /\ freeList' = <<t>> \o freeList
         /\ UNCHANGED <<cursor, outLink>>

----------------------------------------------------------------------------
(* The tick.                                                               *)

\* Mutant: the timers that stay in the list are not a round nearer.
OsSwTmrScanOneSlot_KeepsRounds ==
  LET c    == (cursor + 1) % WheelLen
      list == sortLink[c]
      n    == Max({m \in 0 .. Len(list) : Rounds(Wheel, list, m) = 0})
      out  == SubSeq(list, 1, n)
  IN  /\ outLink = << >>
      /\ cursor' = c
      /\ outLink' = out
      /\ sortLink' = [sortLink EXCEPT ![c] = SubSeq(list, n + 1, Len(list))]
      /\ tmr' = [t \in Timer |->
           IF t \in ToSet(out) THEN [tmr[t] EXCEPT !.state = "EXPIRED"] ELSE tmr[t]]
      /\ UNCHANGED freeList

\* OsSwTmrScan up to where OsSwTmrScanProcess opens interrupts.  The next tick is
\* dispatched after the last handler of this one.
OsSwTmrScanOneSlot ==
  LET c    == (cursor + 1) % WheelLen
      list == sortLink[c]
      n    == Max({m \in 0 .. Len(list) : Rounds(Wheel, list, m) = 0})
      out  == SubSeq(list, 1, n)
  IN  /\ outLink = << >>
      /\ cursor' = c
      /\ outLink' = out
      /\ sortLink' = [sortLink EXCEPT ![c] = SubSeq(list, n + 1, Len(list))]
      /\ tmr' = [t \in Timer |->
           IF t \in ToSet(out) THEN [tmr[t] EXCEPT !.state = "EXPIRED"]
           ELSE IF n < Len(list) /\ t = list[n + 1] THEN [tmr[t] EXCEPT !.roll = @ - 1]
           ELSE tmr[t]]
      /\ UNCHANGED freeList

\* One turn of the loop in OsSwTmrScanProcess, after the handler: OsSwtmrProc does
\* what has been asked of the timer meanwhile.
OsSwtmrProc ==
  LET t    == Head(outLink)
      pre  == tmr[t].pre
      rest == [tmr[t] EXCEPT !.state = "CREATED", !.pre = "DEFAULT",
                             !.idx = 0, !.roll = 0]
  IN  /\ outLink # << >>
      /\ outLink' = Tail(outLink)
      /\ \/ /\ pre = "RUNNING" \/ (pre = "DEFAULT" /\ tmr[t].mode = "LOOP")
            /\ Becomes(OsSwTmrStart(Wheel, t, tmr[t].interval))
            /\ UNCHANGED freeList
         \/ /\ pre = "CREATED" \/ (pre = "DEFAULT" /\ tmr[t].mode = "ONCE")
            /\ tmr' = [tmr EXCEPT ![t] = rest]
            /\ UNCHANGED <<sortLink, freeList>>
         \/ /\ pre = "FREE"
            /\ tmr' = [tmr EXCEPT ![t] = Unused]
            /\ freeList' = <<t>> \o freeList
            /\ UNCHANGED sortLink
      /\ UNCHANGED cursor

----------------------------------------------------------------------------
SwTmrNext ==
  \/ \E kind \in Kind : OsSwTmrCreateTimer(kind)
  \/ \E t \in Timer :
       \/ OsSwTmrStartTimer(t) \/ OsSwTmrStopTimer(t)
       \/ OsSwTmrRestartTimer(t) \/ OsSwTmrDeleteTimer(t)
  \/ OsSwTmrScanOneSlot
  \/ OsSwtmrProc

\* Ticks go on and handlers return.
SwTmrSpec ==
  /\ OsSwTmrResInit /\ [][SwTmrNext]_swtmrVars
  /\ WF_swtmrVars(OsSwTmrScanOneSlot) /\ WF_swtmrVars(OsSwtmrProc)

----------------------------------------------------------------------------
(* Properties.                                                             *)

\* Every control block is in one place, which its state names: RUNNING in the list
\* of the wheel that its own index says, EXPIRED on the way through the handlers,
\* FREE in g_tmrFreeList, CREATED in none; what the handlers of one tick and the
\* interrupts between them ask of each other's timers does not matter.
TimersPlaced ==
  LET all == FlattenSeq([i \in 1 .. WheelLen |-> sortLink[i - 1]]) \o outLink \o freeList
  IN  /\ IsInjective(all)
      /\ \A t \in Timer :
           CASE tmr[t].state = "RUNNING" -> t \in ToSet(sortLink[tmr[t].idx])
             [] tmr[t].state = "EXPIRED" -> t \in ToSet(outLink)
             [] tmr[t].state = "FREE"    -> t \in ToSet(freeList)
             [] OTHER                    -> t \notin ToSet(all)

\* A running timer that is not restarted for ever expires or is stopped.
TimerFires ==
  \A t \in Timer :
    <>[][~OsSwTmrRestartTimer(t)]_swtmrVars
      => (tmr[t].state = "RUNNING" ~> tmr[t].state # "RUNNING")

Deadlines == INSTANCE TimerDeadlines WITH
  timer <- [t \in Timer |->
    IF tmr[t].state = "FREE" THEN [state |-> "FREE"]
    ELSE [state |-> tmr[t].state, pre |-> tmr[t].pre, mode |-> tmr[t].mode,
          interval |-> tmr[t].interval,
          left |-> CASE tmr[t].state = "RUNNING" -> OsSwTmrGetRemain(t)
                     [] tmr[t].state = "CREATED" -> tmr[t].roll
                     [] OTHER -> 0]]

\* The wheel with its relative rounds keeps time exactly: what OsSwTmrGetRemain, and
\* so PRT_TimerQuery, computes for a timer goes down by one on every tick whatever
\* other timers are started, stopped and expire, and the timer expires when it is 0.
ImplementsDeadlines == Deadlines!Spec
=============================================================================
