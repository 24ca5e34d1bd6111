--------------------------- MODULE TimerDeadlines ---------------------------
(***************************************************************************)
(* What software timers promise.  Each timer has its own count of ticks;   *)
(* there is no wheel.  What is asked of a timer that has expired takes     *)
(* effect when its handler has returned, and the last call counts.         *)
(***************************************************************************)
EXTENDS Integers

CONSTANTS Timer, Kind

VARIABLE timer   \* NotCreated or [state, pre, mode, interval, left]

NotCreated == [state |-> "FREE"]

Timers(state) == {t \in Timer : timer[t].state = state}

Init == timer = [t \in Timer |-> NotCreated]

Set(t, new) == timer' = [timer EXCEPT ![t] = new]

Running(t, n) == [timer[t] EXCEPT !.state = "RUNNING", !.pre = "DEFAULT", !.left = n]
AtRest(t, n)  == [timer[t] EXCEPT !.state = "CREATED", !.pre = "DEFAULT", !.left = n]

Create(t, kind) ==
  /\ timer[t] = NotCreated
  /\ Set(t, [state |-> "CREATED", pre |-> "DEFAULT", mode |-> kind.mode,
             interval |-> kind.interval, left |-> kind.interval])

Ask(t) == t \in Timers("EXPIRED") /\ \E p \in {"RUNNING", "CREATED", "FREE"} :
            Set(t, [timer[t] EXCEPT !.pre = p])

Start(t) ==
  /\ t \in Timers("CREATED")
  /\ Set(t, Running(t, IF timer[t].left = 0 THEN timer[t].interval ELSE timer[t].left))

Restart(t) ==
  /\ t \in Timers("CREATED") \cup Timers("RUNNING")
  /\ Set(t, Running(t, timer[t].interval))

Stop(t) == t \in Timers("RUNNING") /\ Set(t, AtRest(t, timer[t].left))

Delete(t) == t \in Timers("CREATED") \cup Timers("RUNNING") /\ Set(t, NotCreated)

\* All running timers count down, and those that reach 0 expire together.
Tick ==
  /\ Timers("EXPIRED") = {}
  /\ timer' = [t \in Timer |->
       IF t \notin Timers("RUNNING") THEN timer[t]
       ELSE [timer[t] EXCEPT !.left = @ - 1,
                             !.state = IF timer[t].left = 1 THEN "EXPIRED" ELSE @]]

\* The handler of t has returned.
Handled(t) ==
  /\ t \in Timers("EXPIRED")
  /\ LET pre == timer[t].pre
         next == IF pre # "DEFAULT" THEN pre
                 ELSE IF timer[t].mode = "LOOP" THEN "RUNNING" ELSE "CREATED"
     IN  Set(t, CASE next = "RUNNING" -> Running(t, timer[t].interval)
                  [] next = "CREATED" -> AtRest(t, 0)
                  [] next = "FREE"    -> NotCreated)

Next ==
  \/ Tick
  \/ \E t \in Timer :
       \/ \E kind \in Kind : Create(t, kind)
       \/ Ask(t) \/ Start(t) \/ Restart(t) \/ Stop(t) \/ Delete(t) \/ Handled(t)

Spec == Init /\ [][Next]_timer
=============================================================================
