------------------------------ MODULE MCRwlock ------------------------------
(* Rwlock with tasks and locks as model values.                            *)
EXTENDS Rwlock

CONSTANTS t1, t2, t3, r1

\* rw_read and rw_write of each lock.
RwLists == Lock \X {"rd", "wr"}
=============================================================================
