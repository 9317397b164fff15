----------------------------- MODULE MCTimerHeap -----------------------------
(* Instances of TimerHeap for TLC. *)
EXTENDS TimerHeap

\* Timers differ in nothing but their identity.
Symmetry == Permutations(Timer)
=============================================================================
