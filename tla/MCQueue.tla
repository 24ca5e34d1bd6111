------------------------------ MODULE MCQueue ------------------------------
(* Queue with tasks, queues and messages as model values.                  *)
EXTENDS Queue

CONSTANTS t1, t2, t3, q1, x, y

\* readList and writeList of each queue.
QueueLists == Queue \X {"read", "write"}
=============================================================================
