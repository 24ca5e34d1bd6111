---------------------------- MODULE BoundedDeque ----------------------------
(***************************************************************************)
(* What the message queues promise: each queue in use is a sequence of at  *)
(* most cap messages, read at its head, written at its tail or, for an     *)
(* urgent message, at its head.  peak is the longest the sequence has been *)
(* since the queue was created.  Who waits, and how, does not show.        *)
(***************************************************************************)
EXTENDS Naturals, Sequences

CONSTANTS Queue, Msg, MaxNode

VARIABLES cap,    \* the number of nodes; 0 is a queue that is not created
          seq,    \* the messages in the queue, the next one to be read first
          peak,   \* what PRT_QueueGetUsedPeak reports
          got     \* the message the last read has delivered

dequeVars == <<cap, seq, peak, got>>

Init ==
  /\ cap = [q \in Queue |-> 0]
  /\ seq = [q \in Queue |-> << >>]
  /\ peak = [q \in Queue |-> 0]
  /\ got \in Msg

Create(q, n) ==
  /\ cap[q] = 0
  /\ cap' = [cap EXCEPT ![q] = n]
  /\ UNCHANGED <<seq, peak, got>>

Delete(q) ==
  /\ cap[q] > 0
  /\ cap' = [cap EXCEPT ![q] = 0]
  /\ seq' = [seq EXCEPT ![q] = << >>]
  /\ peak' = [peak EXCEPT ![q] = 0]
  /\ UNCHANGED got

Put(q, s) ==
  /\ Len(seq[q]) < cap[q]
  /\ seq' = [seq EXCEPT ![q] = s]
  /\ peak' = [peak EXCEPT ![q] = IF Len(s) > @ THEN Len(s) ELSE @]
  /\ UNCHANGED <<cap, got>>

Write(q, m)       == Put(q, Append(seq[q], m))
WriteUrgent(q, m) == Put(q, <<m>> \o seq[q])

Read(q) ==
  /\ seq[q] # << >>
  /\ got' = Head(seq[q])
  /\ seq' = [seq EXCEPT ![q] = Tail(@)]
  /\ UNCHANGED <<cap, peak>>

Next ==
  \E q \in Queue :
    \/ \E n \in 1 .. MaxNode : Create(q, n)
    \/ Delete(q) \/ Read(q)
    \/ \E m \in Msg : Write(q, m) \/ WriteUrgent(q, m)

Spec == Init /\ [][Next]_dequeVars
=============================================================================
