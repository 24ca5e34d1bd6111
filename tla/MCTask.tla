------------------------------- MODULE MCTask -------------------------------
(* Task with the application tasks as model values.                        *)
EXTENDS Task

CONSTANTS t1, t2, t3
=============================================================================
