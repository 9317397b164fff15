------------------------------ MODULE TimerHeap ------------------------------
(***************************************************************************)
(* The timers of src/timer.cc and include/timer.h: a binary heap of        *)
(* pointers in an array, used by one thread.  A callback runs in the       *)
(* middle of tick() and may add and delete timers itself.  The file does   *)
(* not compile; it is read as it is plainly meant (timer->->cb_func,       *)
(* chile, percalate_down).                                                 *)
(***************************************************************************)
EXTENDS Integers, Sequences, FiniteSets, SequencesExt

CONSTANTS
    Timer,    \* the HeapTimer objects
    Delay,    \* the delays they are made with
    Capacity, \* the capacities a heap is made with
    MaxTime,  \* bound on the clock
    NULL

ASSUME TimerAssumption ==
    /\ IsFiniteSet(Timer) /\ NULL \notin Timer
    /\ Delay \subseteq Nat /\ Capacity \subseteq Nat
    /\ MaxTime \in Nat

VARIABLES
    clock,   \* time(NULL)
    expire,  \* of each timer
    cb_func, \* the timers that have one
    array, cur_size,
    pc,      \* "idle", "tick", "callback", or "overrun": an illegal write
    cur,     \* tick's idea of the time
    made,    \* history: the timers made
    freed,   \* history: those deleted again
    called   \* history: the timer whose callback was called last

timerVars == <<expire, cb_func>>
heapVars  == <<array, cur_size>>
histVars  == <<made, freed, called>>
vars == <<clock, timerVars, heapVars, pc, cur, histVars>>

capacity == Cardinality(DOMAIN array)
Entries  == {array[i] : i \in 0..(cur_size - 1)}

-----------------------------------------------------------------------------
(* The heap.                                                               *)

Parent(h) == (h - 1) \div 2

\* The places of a hole that starts at h: it goes from g to next[g], and stays
\* where that is g again.
Holes(next, h) ==
    LET hole[k \in DOMAIN next] == IF k = 0 THEN h ELSE next[hole[k - 1]]
    IN  hole

Way(next, h) == {Holes(next, h)[k] : k \in DOMAIN next}

\* Faulty variant: the last place is not filled.
ShiftOnly(a, next, h, x) ==
    [i \in DOMAIN a |-> IF i \in Way(next, h) THEN a[next[i]] ELSE a[i]]

\* What the loops of add_timer and percolate_down leave: each place on the way
\* of the hole gets what the next one has, and the last place gets x.
Shift(a, next, h, x) ==
    LET way == Way(next, h)
    IN  [i \in DOMAIN a |-> IF i \notin way THEN a[i]
                            ELSE IF next[i] = i THEN x ELSE a[next[i]]]

\* Faulty variant: < for <=.
RiseAbove(a, n, e, at) ==
    [h \in 0..n |-> IF h = 0 \/ at[a[Parent(h)]] < e THEN h ELSE Parent(h)]

\* How the hole goes in add_timer, upwards from place n.
Rise(a, n, e, at) ==
    [h \in 0..n |-> IF h = 0 \/ at[a[Parent(h)]] <= e THEN h ELSE Parent(h)]

\* Faulty variant: the right child is not looked at.
LeftChild(a, n, h, at) == 2 * h + 1

\* The child of h that expires first.
Child(a, n, h, at) ==
    LET l == 2 * h + 1
    IN  IF l < n - 1 /\ at[a[l + 1]] < at[a[l]] THEN l + 1 ELSE l

\* How it goes in percolate_down, for a timer that expires at e.
Sink(a, n, e, at) ==
    [h \in 0..n |-> IF 2 * h + 1 > n - 1 \/ at[a[Child(a, n, h, at)]] >= e
                    THEN h ELSE Child(a, n, h, at)]

\* percolate_down(hole) in a heap of n timers.
PercolateDown(a, n, hole, at) == Shift(a, Sink(a, n, at[a[hole]], at), hole, a[hole])

\* The second constructor: from the last parent to the root.
Heapify(a, n, at) ==
    LET last == (n - 1) \div 2
        heap[i \in 0..(last + 1)] == IF i > last THEN a ELSE PercolateDown(heap[i + 1], n, i, at)
    IN  heap[0]

\* Both constructors: a heap of no timers, or of those in init_array.
Init ==
    \E cap \in Capacity, S \in SUBSET Timer :
        /\ Cardinality(S) <= cap
        /\ expire \in {[t \in Timer |-> IF t \in S THEN e[t] ELSE 0] : e \in [Timer -> Delay]}
        /\ cb_func = S /\ made = S
        /\ cur_size = Cardinality(S)
        /\ \E init_array \in SetToSeqs(S) :
              LET a == [i \in 0..(cap - 1) |-> IF i < cur_size THEN init_array[i + 1] ELSE NULL]
              IN  array = IF S = {} THEN a ELSE Heapify(a, cur_size, expire)
        /\ clock = 0 /\ cur = 0 /\ pc = "idle"
        /\ freed = {} /\ called = NULL

\* The clock never goes back.
Second ==
    /\ clock < MaxTime
    /\ clock' = clock + 1
    /\ UNCHANGED <<timerVars, heapVars, pc, cur, histVars>>

-----------------------------------------------------------------------------
(* What users call, from outside or from a callback.                       *)

User == pc \in {"idle", "callback"}

\* Faulty variant: > for >=.
RoomLate == IF cur_size > capacity
            THEN [i \in 0..(2 * capacity - 1) |-> IF i < cur_size THEN array[i] ELSE NULL]
            ELSE array

\* resize: twice the capacity, if the array is full.
Room == IF cur_size >= capacity
        THEN [i \in 0..(2 * capacity - 1) |-> IF i < cur_size THEN array[i] ELSE NULL]
        ELSE array

\* A timer is made and added.
AddTimer(t, delay) ==
    /\ User
    /\ t \notin made
    /\ made' = made \cup {t}
    /\ expire' = [expire EXCEPT ![t] = clock + delay]
    /\ cb_func' = cb_func \cup {t}
    /\ \/ /\ cur_size \in DOMAIN Room
          /\ array' = Shift(Room, Rise(Room, cur_size, clock + delay, expire), cur_size, t)
          /\ cur_size' = cur_size + 1
          /\ pc' = pc
       \/ /\ cur_size \notin DOMAIN Room
          /\ pc' = "overrun"
          /\ UNCHANGED heapVars
    /\ UNCHANGED <<clock, cur, freed, called>>

\* del_timer only takes the callback away: the timer leaves when it is due.
DelTimer(t) ==
    /\ User
    /\ t \in Entries
    /\ cb_func' = cb_func \ {t}
    /\ UNCHANGED <<clock, expire, heapVars, pc, cur, histVars>>

\* Faulty variant: the last timer stays where it was, too.
PopKeepsLast ==
    /\ array' = PercolateDown([array EXCEPT ![0] = array[cur_size - 1]], cur_size, 0, expire)
    /\ cur_size' = cur_size
    /\ cb_func' = cb_func \ {array[0]}
    /\ freed' = freed \cup {array[0]}

\* pop_timer.  The array keeps the pointer that was last.
Pop ==
    /\ array' = PercolateDown([array EXCEPT ![0] = array[cur_size - 1]], cur_size - 1, 0, expire)
    /\ cur_size' = cur_size - 1
    /\ cb_func' = cb_func \ {array[0]}
    /\ freed' = freed \cup {array[0]}

PopTimer ==
    /\ pc = "idle"
    /\ cur_size > 0
    /\ Pop
    /\ UNCHANGED <<clock, expire, pc, cur, made, called>>

-----------------------------------------------------------------------------
(* tick.                                                                   *)

Tick ==
    /\ pc = "idle"
    /\ pc' = "tick"
    /\ cur' = clock
    /\ UNCHANGED <<clock, timerVars, heapVars, histVars>>

\* Faulty variant: a timer is not due yet in its own second.
LaterStrictly == cur_size > 0 => expire[array[0]] >= cur

\* Nothing, or nothing more, is due.
Later == cur_size > 0 => expire[array[0]] > cur

Return ==
    /\ pc = "tick"
    /\ Later
    /\ pc' = "idle"
    /\ UNCHANGED <<clock, timerVars, heapVars, cur, histVars>>

Call ==
    /\ pc = "tick"
    /\ ~Later /\ array[0] \in cb_func
    /\ called' = array[0]
    /\ pc' = "callback"
    /\ UNCHANGED <<clock, timerVars, heapVars, cur, made, freed>>

\* pop_timer takes what is on top now, after the callback if there was one.
PopDue ==
    /\ \/ pc = "callback"
       \/ pc = "tick" /\ ~Later /\ array[0] \notin cb_func
    /\ Pop
    /\ pc' = "tick"
    /\ UNCHANGED <<clock, expire, cur, made, called>>

Next ==
    \/ Second \/ PopTimer \/ Tick \/ Return \/ Call \/ PopDue
    \/ \E t \in Timer : DelTimer(t) \/ \E d \in Delay : AddTimer(t, d)

Spec == Init /\ [][Next]_vars

-----------------------------------------------------------------------------
(* Properties.                                                             *)

TypeOK ==
    /\ clock \in 0..MaxTime /\ cur \in 0..clock
    /\ expire \in [Timer -> Nat]
    /\ array \in [DOMAIN array -> Timer \cup {NULL}]
    /\ cur_size \in 0..capacity /\ NULL \notin Entries
    /\ pc \in {"idle", "tick", "callback", "overrun"}
    /\ freed \subseteq made /\ made \subseteq Timer
    /\ called \in Timer \cup {NULL}
    /\ cb_func \subseteq made \ freed

\* No timer expires before its parent: top() is the next one, and tick may
\* stop at the first one that is not due.
HeapOrder == \A i \in 1..(cur_size - 1) : expire[array[Parent(i)]] <= expire[array[i]]

\* The moves of the hole and the growth of the array lose and double nothing:
\* the heap has each timer that was added and not deleted, once.
EntriesLive ==
    pc # "overrun" => Entries = made \ freed /\ Cardinality(Entries) = cur_size

\* resize makes room, unless the heap was made without any: twice 0 is 0.
RoomUnlessNone == pc = "overrun" => capacity = 0

\* A tick that returns leaves no timer that was due when it began, those its
\* own callbacks have added included.
NothingDueIsLeft ==
    [][pc = "tick" /\ pc' = "idle" => \A t \in made \ freed : expire[t] > cur]_vars

\* The heap implements TimerQueue: what pop_timer deletes behind a callback is
\* the timer that was called, although callbacks change the heap.
Queue == INSTANCE TimerQueue WITH
    NoTimer <- NULL,
    now     <- clock,
    due     <- expire,
    pending <- made \ freed,
    armed   <- cb_func,
    running <- IF pc = "callback" THEN called ELSE NULL

ImplementsTimerQueue == Queue!Spec
=============================================================================
