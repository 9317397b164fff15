----------------------------- MODULE TimerQueue -----------------------------
(***************************************************************************)
(* What a timer container promises its users: timers wait for their time,  *)
(* the callback of an earlier one is called first, never before its time,  *)
(* and the timer that leaves afterwards is the one that was called.        *)
(***************************************************************************)
EXTENDS Naturals

CONSTANTS
    Timer,
    NoTimer

VARIABLES
    now,     \* the time
    due,     \* the time each timer is to be called
    pending, \* the timers that wait
    armed,   \* those not cancelled
    running  \* the timer whose callback is being run

vars == <<now, due, pending, armed, running>>

Init ==
    /\ now = 0
    /\ due \in [Timer -> Nat]
    /\ pending \in SUBSET Timer
    /\ armed = pending
    /\ running = NoTimer

Pass == now' = now + 1 /\ UNCHANGED <<due, pending, armed, running>>

\* The time is not in the past; callbacks may set timers too.
Set(t) ==
    /\ t \notin pending
    /\ due' = [due EXCEPT ![t] = due'[t]] /\ due'[t] >= now
    /\ pending' = pending \cup {t} /\ armed' = armed \cup {t}
    /\ UNCHANGED <<now, running>>

Cancel(t) ==
    /\ t \in pending
    /\ armed' = armed \ {t}
    /\ UNCHANGED <<now, due, pending, running>>

Earliest(t) == t \in pending /\ \A u \in pending : due[t] <= due[u]

Call(t) ==
    /\ running = NoTimer
    /\ Earliest(t) /\ t \in armed /\ due[t] <= now
    /\ running' = t
    /\ UNCHANGED <<now, due, pending, armed>>

\* The timer that was called leaves, or nobody was called and the earliest
\* one is taken out.
Leave(t) ==
    /\ IF running = NoTimer THEN Earliest(t) ELSE t = running
    /\ pending' = pending \ {t} /\ armed' = armed \ {t}
    /\ running' = NoTimer
    /\ UNCHANGED <<now, due>>

Next == Pass \/ \E t \in Timer : Set(t) \/ Cancel(t) \/ Call(t) \/ Leave(t)

Spec == Init /\ [][Next]_vars
=============================================================================
