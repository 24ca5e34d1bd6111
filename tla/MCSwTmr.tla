------------------------------ MODULE MCSwTmr ------------------------------
(* SwTmr with timers as model values.                                      *)
EXTENDS SwTmr

CONSTANTS s1, s2, s3

\* An odd interval, and one of several whole rounds of the wheel of two lists.
Kinds == {[mode |-> "LOOP", interval |-> 3], [mode |-> "ONCE", interval |-> 6]}
=============================================================================
