------------------------------- MODULE MCSem -------------------------------
(* Sem with tasks and semaphores as model values.                          *)
EXTENDS Sem

CONSTANTS t1, t2, t3, m1, m2, c1
=============================================================================
