------------------------------ MODULE MCFscMem ------------------------------
(* FscMem with the requests of a small heap.                               *)
EXTENDS FscMem

\* Two plain requests whose blocks fall into one list and into different ones, and an
\* aligned one.
Requests == {[size |-> 1, align |-> 1], [size |-> 4, align |-> 1], [size |-> 2, align |-> 4]}
=============================================================================
