------------------------------- MODULE MCEvent -------------------------------
(* Event with tasks and bits as model values.                              *)
EXTENDS Event

CONSTANTS t1, t2, b1, b2
=============================================================================
