---------------------------- MODULE MCThreadPool ----------------------------
(* Instances of ThreadPool for TLC. *)
EXTENDS ThreadPool, TLC

\* Workers are interchangeable, and so are the connections: a task carries
\* nothing but its identity.  Used by the runs that check invariants only.
Symmetry == Permutations(Worker) \cup Permutations(Task)
=============================================================================
