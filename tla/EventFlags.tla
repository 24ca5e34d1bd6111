----------------------------- MODULE EventFlags -----------------------------
(***************************************************************************)
(* What events promise: every task has a set of flags.  Anyone adds to it; *)
(* the task asks for all or any flags of a mask and takes them in one step *)
(* or gives up and takes none.  Nothing else removes a flag while the task *)
(* exists.                                                                 *)
(***************************************************************************)
CONSTANTS Task, Event, None

VARIABLES flags,  \* the flags of each task
          want    \* what a task is asking for: [mask, all], or None

vars == <<flags, want>>

Requests == [mask : SUBSET Event \ {{}}, all : BOOLEAN]

Init ==
  /\ flags = [t \in Task |-> {}]
  /\ want = [t \in Task |-> None]

Write(t, new) ==
  /\ flags' = [flags EXCEPT ![t] = @ \cup new]
  /\ UNCHANGED want

Ask(t, r) ==
  /\ want[t] = None
  /\ want' = [want EXCEPT ![t] = r]
  /\ UNCHANGED flags

\* At the moment of the step r is satisfied.
Take(t, r) ==
  /\ want[t] \in {None, r}
  /\ IF r.all THEN r.mask \subseteq flags[t] ELSE r.mask \cap flags[t] # {}
  /\ flags' = [flags EXCEPT ![t] = @ \ r.mask]
  /\ want' = [want EXCEPT ![t] = None]

\* The time is up, or the task is deleted.
GiveUp(t) ==
  /\ want' = [want EXCEPT ![t] = None]
  /\ UNCHANGED flags

\* The task is created anew.
Reset(t) ==
  /\ want[t] = None
  /\ flags' = [flags EXCEPT ![t] = {}]
  /\ UNCHANGED want

Next ==
  \E t \in Task :
    \/ Reset(t) \/ GiveUp(t)
    \/ \E s \in SUBSET Event \ {{}} : Write(t, s)
    \/ \E r \in Requests : Ask(t, r) \/ Take(t, r)

Spec == Init /\ [][Next]_vars
=============================================================================
