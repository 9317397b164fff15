-------------------------- MODULE ThreadPoolProofs --------------------------
(***************************************************************************)
(* Proofs about ThreadPool, for any number of workers, connections and any *)
(* block size of the deque.                                                *)
(***************************************************************************)
EXTENDS ThreadPool, SequenceTheorems, FiniteSetTheorems, TLAPS

(* The inductive invariant, in parts.                                           *)

\* Who owns the mutex, and what a thread may rely on while it owns it.
LockInv ==
    /\ \A w \in Worker : pc[w] \in Holding <=> m_mutex = w
    /\ mainpc \in {"push", "unlock"} <=> m_mutex = Main

\* What the local variables of the threads hold.
LocalsInv ==
    /\ mainpc \in {"lock", "push"} => in \in Task
    /\ \A w \in Worker :
          /\ pc[w] = "popping" => m_q # <<>> /\ out[w] = Head(m_q)
          /\ pc[w] \in {"unlock", "handle"} => out[w] \in Task

\* Main pushes nothing before it has tried to create every worker.
CreationInv ==
    /\ mainpc = "create" => m_q = <<>>
    /\ mainpc # "create" => \A w \in Worker : pc[w] # "unborn"

ControlInv == TypeOK /\ LockInv /\ LocalsInv /\ CreationInv

\* No task is pushed twice.
PushedOnce == \A i, j \in 1..Len(pushed) : pushed[i] = pushed[j] => i = j

\* What workers hold, or have finished, was popped before.
ServedInv ==
    /\ mainpc \in {"lock", "push"} => in \notin Range(pushed)
    /\ handled \subseteq Range(served)
    /\ \A w \in Worker : pc[w] \in {"unlock", "handle"} => out[w] \in Range(served)

HistoryInv == FirstInFirstOut /\ PushedOnce /\ ServedInv /\ HandledOnce

-----------------------------------------------------------------------------
(* Sequences.                                                              *)

LEMMA HeadThenTail ==
    ASSUME NEW S, NEW q \in Seq(S), q # <<>>
    PROVE  <<Head(q)>> \o Tail(q) = q
<1>1. /\ Head(q) \in S /\ Tail(q) \in Seq(S) /\ Len(Tail(q)) = Len(q) - 1
      /\ \A i \in 1..Len(Tail(q)) : Tail(q)[i] = q[i + 1]
      /\ Head(q) = q[1]
  BY HeadTailProperties
<1>2. <<Head(q)>> \in Seq(S) /\ Len(<<Head(q)>>) = 1
  BY <1>1
<1>3. /\ <<Head(q)>> \o Tail(q) \in Seq(S)
      /\ Len(<<Head(q)>> \o Tail(q)) = 1 + Len(Tail(q))
      /\ \A i \in 1..(1 + Len(Tail(q))) : (<<Head(q)>> \o Tail(q))[i] =
            IF i <= 1 THEN <<Head(q)>>[i] ELSE Tail(q)[i - 1]
  BY <1>1, <1>2, ConcatProperties
<1>4. Len(q) \in Nat
  BY LenProperties
<1>5. \A i \in 1..Len(q) : (<<Head(q)>> \o Tail(q))[i] = q[i]
  BY <1>1, <1>3, <1>4
<1> QED
  BY <1>1, <1>3, <1>4, <1>5, SeqEqual

\* Moving the head of the queue to the end of the served tasks changes
\* nothing about their concatenation.
LEMMA MoveHead ==
    ASSUME NEW S, NEW s \in Seq(S), NEW q \in Seq(S), q # <<>>
    PROVE  Append(s, Head(q)) \o Tail(q) = s \o q
<1>1. Head(q) \in S /\ Tail(q) \in Seq(S)
  BY HeadTailProperties
<1>2. <<Head(q)>> \in Seq(S)
  BY <1>1
<1>3. Append(s, Head(q)) \o Tail(q) = (s \o <<Head(q)>>) \o Tail(q)
  BY <1>1, AppendIsConcat
<1>4. @ = s \o (<<Head(q)>> \o Tail(q))
  BY <1>1, <1>2, ConcatAssociative
<1> QED
  BY <1>3, <1>4, HeadThenTail

LEMMA AppendAfterConcat ==
    ASSUME NEW S, NEW s \in Seq(S), NEW q \in Seq(S), NEW e \in S
    PROVE  s \o Append(q, e) = Append(s \o q, e)
<1>1. <<e>> \in Seq(S) /\ s \o q \in Seq(S)
  BY ConcatProperties
<1>2. Append(s \o q, e) = (s \o q) \o <<e>>
  BY <1>1, AppendIsConcat
<1>3. Append(q, e) = q \o <<e>>
  BY AppendIsConcat
<1> QED
  BY <1>1, <1>2, <1>3, ConcatAssociative

LEMMA RangeAppend ==
    ASSUME NEW S, NEW s \in Seq(S), NEW e \in S
    PROVE  Range(Append(s, e)) = Range(s) \cup {e}
<1>1. /\ Append(s, e) \in Seq(S) /\ Len(Append(s, e)) = Len(s) + 1
      /\ \A i \in 1..Len(s) : Append(s, e)[i] = s[i]
      /\ Append(s, e)[Len(s) + 1] = e
      /\ Len(s) \in Nat
  BY AppendProperties, LenProperties
<1>2. Range(s) = {s[i] : i \in 1..Len(s)}
  BY RangeEquality
<1>3. Range(Append(s, e)) = {Append(s, e)[i] : i \in 1..(Len(s) + 1)}
  BY <1>1, RangeEquality
<1>4. 1..(Len(s) + 1) = 1..Len(s) \cup {Len(s) + 1}
  BY <1>1
<1> QED
  BY <1>1, <1>2, <1>3, <1>4

\* In a sequence without repetitions, what comes after a prefix is not in it.
LEMMA HeadNotServed ==
    ASSUME NEW S, NEW s \in Seq(S), NEW q \in Seq(S), q # <<>>,
           \A i, j \in 1..Len(s \o q) : (s \o q)[i] = (s \o q)[j] => i = j
    PROVE  Head(q) \notin Range(s)
<1>1. /\ Len(s) \in Nat /\ Len(q) \in Nat /\ Len(q) # 0
      /\ Len(s \o q) = Len(s) + Len(q)
      /\ \A i \in 1..(Len(s) + Len(q)) :
            (s \o q)[i] = IF i <= Len(s) THEN s[i] ELSE q[i - Len(s)]
  BY LenProperties, EmptySeq, ConcatProperties
<1>2. (s \o q)[Len(s) + 1] = Head(q)
  BY <1>1
<1>3. \A i \in 1..Len(s) : (s \o q)[i] = s[i]
  BY <1>1
<1>4. Range(s) = {s[i] : i \in 1..Len(s)}
  BY RangeEquality
<1>5. ASSUME NEW i \in 1..Len(s), s[i] = Head(q) PROVE FALSE
  <2>1. i \in 1..Len(s \o q) /\ Len(s) + 1 \in 1..Len(s \o q)
    BY <1>1
  <2>2. i = Len(s) + 1
    BY <2>1, <1>2, <1>3, <1>5
  <2> QED
    BY <2>2, <1>1
<1> QED
  BY <1>4, <1>5

-----------------------------------------------------------------------------
(* Control: locks and local variables.                                     *)

LEMMA ControlInit == Init => ControlInv
<1> SUFFICES ASSUME Init PROVE ControlInv
  OBVIOUS
<1>1. TypeOK
  BY PoolAssumption DEF Init, TypeOK, Contending
<1>2. LockInv
  BY PoolAssumption DEF Init, LockInv, Holding
<1>3. LocalsInv /\ CreationInv
  BY DEF Init, LocalsInv, CreationInv
<1> QED
  BY <1>1, <1>2, <1>3 DEF ControlInv

\* Each step keeps the types, the owner of the mutex, the locals of the
\* threads and the order of creation and pushing consistent.
LEMMA ControlStep ==
    ASSUME ControlInv, [Next]_vars
    PROVE  ControlInv'
<1> USE PoolAssumption
        DEF ControlInv, TypeOK, LockInv, LocalsInv, CreationInv, Holding,
            Contending, vars, queueVars, mainVars
<1>1. ASSUME NEW w \in Worker, CreateWorker(w) PROVE ControlInv'
  BY <1>1 DEF CreateWorker
<1>2. ASSUME NEW t \in Task, Accept(t) PROVE ControlInv'
  BY <1>2 DEF Accept
<1>3. CASE PushLock
  BY <1>3 DEF PushLock
<1>4. CASE Push
  <2>1. m_q' \in Seq(Task) /\ pushed' \in Seq(Task) /\ m_q' # <<>>
    BY <1>4, AppendProperties DEF Push
  <2>2. m_q # <<>> => Head(m_q') = Head(m_q)
    BY <1>4, HeadTailAppend DEF Push
  <2> QED
    BY <1>4, <2>1, <2>2 DEF Push
<1>5. CASE PushUnlock
  BY <1>5 DEF PushUnlock
<1>6. CASE ReadSize
  BY <1>6 DEF ReadSize
<1>7. CASE Signal
  BY <1>7 DEF Signal
<1>8. ASSUME NEW w \in Worker, Lock(w) PROVE ControlInv'
  BY <1>8 DEF Lock
<1>9. ASSUME NEW w \in Worker, Wait(w) PROVE ControlInv'
  BY <1>9 DEF Wait
<1>10. ASSUME NEW w \in Worker, SpuriousWakeup(w) PROVE ControlInv'
  BY <1>10 DEF SpuriousWakeup
<1>11. ASSUME NEW w \in Worker, Front(w) PROVE ControlInv'
  <2>1. Head(m_q) \in Task
    BY <1>11, HeadTailProperties DEF Front
  <2> QED
    BY <1>11, <2>1 DEF Front
<1>12. ASSUME NEW w \in Worker, Pop(w) PROVE ControlInv'
  <2>1. m_q # <<>> /\ out[w] = Head(m_q) /\ m_mutex = w
    BY <1>12 DEF Pop
  <2>2. Head(m_q) \in Task /\ m_q' \in Seq(Task) /\ served' \in Seq(Task)
    BY <1>12, <2>1, HeadTailProperties, AppendProperties DEF Pop
  <2>3. m_start' \in 0..(NodeCap - 1)
    BY <1>12 DEF Pop
  <2>4. \A v \in Worker : v # w => pc[v] \notin Holding
    BY <2>1
  <2> QED
    BY <1>12, <2>1, <2>2, <2>3, <2>4 DEF Pop
<1>13. ASSUME NEW w \in Worker, Unlock(w) PROVE ControlInv'
  BY <1>13 DEF Unlock
<1>14. ASSUME NEW w \in Worker, Handle(w) PROVE ControlInv'
  BY <1>14 DEF Handle
<1>15. CASE UNCHANGED vars
  BY <1>15
<1> QED
  BY <1>1, <1>2, <1>3, <1>4, <1>5, <1>6, <1>7, <1>8, <1>9, <1>10, <1>11,
     <1>12, <1>13, <1>14, <1>15 DEF Next, PushTask, ThreadRoutine

\* Type correctness of the pool and mutual exclusion on the queue.
THEOREM ControlCorrect == Spec => []ControlInv
<1>1. Init => ControlInv
  BY ControlInit
<1>2. ControlInv /\ [Next]_vars => ControlInv'
  BY ControlStep
<1> QED
  BY <1>1, <1>2, PTL DEF Spec

\* Every variable keeps its type: in particular the head of the queue stays
\* inside its deque block and no pop ever meets an empty queue.
THEOREM TypeCorrect == Spec => []TypeOK
<1>1. ControlInv => TypeOK
  BY DEF ControlInv
<1> QED
  BY <1>1, ControlCorrect, PTL

-----------------------------------------------------------------------------
(* Histories: order, single delivery, single handling.                     *)

LEMMA HistoryInit == Init => HistoryInv
<1> SUFFICES ASSUME Init PROVE HistoryInv
  OBVIOUS
<1>1. FirstInFirstOut
  BY ConcatEmptySeq, EmptySeq DEF Init, FirstInFirstOut
<1>2. PushedOnce
  BY DEF Init, PushedOnce
<1>3. ServedInv /\ HandledOnce
  BY DEF Init, ServedInv, HandledOnce
<1> QED
  BY <1>1, <1>2, <1>3 DEF HistoryInv

\* Appending a task that was not pushed before keeps the pushes distinct.
LEMMA PushKeepsDistinct ==
    ASSUME NEW S, NEW s \in Seq(S), NEW e \in S, e \notin Range(s),
           \A i, j \in 1..Len(s) : s[i] = s[j] => i = j,
           NEW t, t = Append(s, e)
    PROVE  \A i, j \in 1..Len(t) : t[i] = t[j] => i = j
<1>1. /\ Len(s) \in Nat /\ Len(t) = Len(s) + 1
      /\ \A i \in 1..Len(s) : t[i] = s[i]
      /\ t[Len(s) + 1] = e
  BY AppendProperties, LenProperties
<1>2. \A i \in 1..Len(s) : s[i] # e
  BY RangeEquality
<1> QED
  BY <1>1, <1>2

LEMMA HistoryStep ==
    ASSUME ControlInv, HistoryInv, [Next]_vars
    PROVE  HistoryInv'
<1> USE PoolAssumption DEF ControlInv, TypeOK, vars, queueVars, mainVars
<1> DEFINE Same == UNCHANGED <<m_q, pushed, served, handled, out>>
\* A step that moves no task, and puts no worker into its handler.
<1>1. ASSUME Same, mainpc' \in {"lock", "push"} => mainpc \in {"lock", "push"} /\ in' = in,
             \A w \in Worker : pc'[w] \in {"unlock", "handle"} => pc[w] \in {"unlock", "handle"}
      PROVE  HistoryInv'
  BY <1>1 DEF HistoryInv, FirstInFirstOut, PushedOnce, ServedInv, HandledOnce
<1>2. ASSUME NEW w \in Worker, CreateWorker(w) PROVE HistoryInv'
  BY <1>1, <1>2 DEF CreateWorker
<1>3. ASSUME NEW t \in Task, Accept(t) PROVE HistoryInv'
  BY <1>3 DEF Accept, HistoryInv, FirstInFirstOut, PushedOnce, ServedInv, HandledOnce
<1>4. CASE PushLock
  BY <1>1, <1>4 DEF PushLock
<1>5. CASE Push
  <2>1. in \in Task /\ in \notin Range(pushed)
    BY <1>5 DEF Push, LocalsInv, HistoryInv, ServedInv
  <2>2. FirstInFirstOut'
    <3>1. pushed = served \o m_q
      BY DEF HistoryInv, FirstInFirstOut
    <3>2. served \o Append(m_q, in) = Append(pushed, in)
      BY <2>1, <3>1, AppendAfterConcat
    <3> QED
      BY <1>5, <3>2 DEF Push, FirstInFirstOut
  <2>3. PushedOnce'
    <3>1. pushed \in Seq(Task) /\ pushed' = Append(pushed, in)
      BY <1>5 DEF Push
    <3>2. \A i, j \in 1..Len(pushed) : pushed[i] = pushed[j] => i = j
      BY DEF HistoryInv, PushedOnce
    <3>3. \A i, j \in 1..Len(pushed') : pushed'[i] = pushed'[j] => i = j
      BY ONLY <2>1, <3>1, <3>2, PushKeepsDistinct
    <3> QED
      BY <3>3 DEF PushedOnce
  <2>4. ServedInv'
    BY <1>5 DEF Push, HistoryInv, ServedInv
  <2>5. HandledOnce'
    BY <1>5 DEF Push, HistoryInv, HandledOnce
  <2> QED
    BY <2>2, <2>3, <2>4, <2>5 DEF HistoryInv
<1>6. CASE PushUnlock
  BY <1>1, <1>6 DEF PushUnlock
<1>7. CASE ReadSize
  BY <1>1, <1>7 DEF ReadSize
<1>8. CASE Signal
  BY <1>1, <1>8 DEF Signal
<1>9. ASSUME NEW w \in Worker, Lock(w) PROVE HistoryInv'
  BY <1>1, <1>9 DEF Lock
<1>10. ASSUME NEW w \in Worker, Wait(w) PROVE HistoryInv'
  BY <1>1, <1>10 DEF Wait
<1>11. ASSUME NEW w \in Worker, SpuriousWakeup(w) PROVE HistoryInv'
  BY <1>1, <1>11 DEF SpuriousWakeup
<1>12. ASSUME NEW w \in Worker, Front(w) PROVE HistoryInv'
  BY <1>12 DEF Front, HistoryInv, FirstInFirstOut, PushedOnce, ServedInv, HandledOnce
<1>13. ASSUME NEW w \in Worker, Pop(w) PROVE HistoryInv'
  <2>1. m_q # <<>> /\ out[w] = Head(m_q) /\ Head(m_q) \in Task
    BY <1>13, HeadTailProperties DEF Pop, LocalsInv
  <2>2. Range(served') = Range(served) \cup {Head(m_q)}
    BY <1>13, <2>1, RangeAppend DEF Pop
  <2>3. Head(m_q) \notin Range(served)
    BY <2>1, HeadNotServed DEF HistoryInv, FirstInFirstOut, PushedOnce
  <2>4. FirstInFirstOut'
    BY <1>13, <2>1, MoveHead DEF Pop, HistoryInv, FirstInFirstOut
  <2>5. PushedOnce'
    BY <1>13 DEF Pop, HistoryInv, PushedOnce
  <2>6. ServedInv'
    BY <1>13, <2>1, <2>2 DEF Pop, HistoryInv, ServedInv
  <2>7. HandledOnce'
    BY <1>13, <2>1, <2>3 DEF Pop, HistoryInv, ServedInv, HandledOnce
  <2> QED
    BY <2>4, <2>5, <2>6, <2>7 DEF HistoryInv
<1>14. ASSUME NEW w \in Worker, Unlock(w) PROVE HistoryInv'
  BY <1>1, <1>14 DEF Unlock
<1>15. ASSUME NEW w \in Worker, Handle(w) PROVE HistoryInv'
  BY <1>15 DEF Handle, HistoryInv, FirstInFirstOut, PushedOnce, ServedInv, HandledOnce
<1>16. CASE UNCHANGED vars
  BY <1>1, <1>16
<1> QED
  BY <1>2, <1>3, <1>4, <1>5, <1>6, <1>7, <1>8, <1>9, <1>10, <1>11, <1>12,
     <1>13, <1>14, <1>15, <1>16 DEF Next, PushTask, ThreadRoutine

LEMMA HistoryCorrect == Spec => [](ControlInv /\ HistoryInv)
<1>1. Init => HistoryInv
  BY HistoryInit
<1>2. ControlInv /\ HistoryInv /\ [Next]_vars => HistoryInv'
  BY HistoryStep
<1> QED
  BY <1>1, <1>2, ControlCorrect, PTL DEF Spec

\* The pool is a queue: tasks are popped in the order of their PushTask
\* calls, none lost and none popped twice, however the threads interleave.
THEOREM Fifo == Spec => []FirstInFirstOut
<1>1. HistoryInv => FirstInFirstOut
  BY DEF HistoryInv
<1> QED
  BY <1>1, HistoryCorrect, PTL

\* No connection reaches two handlers, and none reaches a handler again
\* after one has returned.
THEOREM SingleHandling == Spec => []HandledOnce
<1>1. HistoryInv => HandledOnce
  BY DEF HistoryInv
<1> QED
  BY <1>1, HistoryCorrect, PTL

-----------------------------------------------------------------------------
(* Wake-ups: nobody sleeps on work that nobody else will look at.          *)

LEMMA NotStrandedStep ==
    ASSUME ControlInv, NoStrandedQueue, [Next]_vars
    PROVE  NoStrandedQueue'
<1> USE PoolAssumption
        DEF ControlInv, TypeOK, NoStrandedQueue, Owed, Contending, Holding,
            vars, queueVars, mainVars
<1>2. ASSUME NEW w \in Worker, CreateWorker(w) PROVE NoStrandedQueue'
  BY <1>2 DEF CreateWorker, CreationInv
<1>3. ASSUME NEW t \in Task, Accept(t) PROVE NoStrandedQueue'
  BY <1>3 DEF Accept
<1>4. CASE PushLock \/ Push \/ PushUnlock
  BY <1>4 DEF PushLock, Push, PushUnlock
<1>5. CASE ReadSize
  <2>1. PICK nonempty \in SizeRead :
           /\ mainpc' = IF nonempty THEN "signal" ELSE "idle"
           /\ UNCHANGED <<m_q, pc>>
    BY <1>5 DEF ReadSize
  <2>2. CASE nonempty
    BY <2>1, <2>2
  <2>3. CASE ~nonempty /\ TornRead
    BY <2>1, <2>3 DEF TornRead
  <2>4. CASE ~nonempty /\ ~TornRead
    BY <2>1, <2>4 DEF SizeRead
  <2> QED
    BY <2>2, <2>3, <2>4
<1>6. CASE Signal
  <2>1. CASE \E w \in Worker : pc[w] = "waiting"
    BY <1>6, <2>1 DEF Signal
  <2>2. CASE \A w \in Worker : pc[w] # "waiting"
    <3>1. \A w \in Worker : pc'[w] \in {"absent", "handle"} \cup Contending
      BY <1>6, <2>2 DEF Signal, CreationInv
    <3> QED
      BY <3>1
  <2> QED
    BY <2>1, <2>2
<1>7. ASSUME NEW w \in Worker, Lock(w) PROVE NoStrandedQueue'
  BY <1>7 DEF Lock
<1>8. ASSUME NEW w \in Worker, Wait(w) PROVE NoStrandedQueue'
  BY <1>8 DEF Wait
<1>9. ASSUME NEW w \in Worker, SpuriousWakeup(w) PROVE NoStrandedQueue'
  BY <1>9 DEF SpuriousWakeup
<1>10. ASSUME NEW w \in Worker, Front(w) PROVE NoStrandedQueue'
  BY <1>10 DEF Front
<1>11. ASSUME NEW w \in Worker, Pop(w) PROVE NoStrandedQueue'
  BY <1>11 DEF Pop
<1>12. ASSUME NEW w \in Worker, Unlock(w) PROVE NoStrandedQueue'
  BY <1>12 DEF Unlock
<1>13. ASSUME NEW w \in Worker, Handle(w) PROVE NoStrandedQueue'
  BY <1>13 DEF Handle
<1>14. CASE UNCHANGED vars
  BY <1>14
<1> QED
  BY <1>2, <1>3, <1>4, <1>5, <1>6, <1>7, <1>8, <1>9, <1>10, <1>11, <1>12,
     <1>13, <1>14 DEF Next, PushTask, ThreadRoutine

\* Queued connections never wait while every thread of the pool sleeps: no
\* wake-up is lost between PushTask's signal and ThreadRoutine's wait.
THEOREM NoLostWakeup == Spec => []NoStrandedQueue
<1>1. Init => NoStrandedQueue
  BY DEF Init, NoStrandedQueue
<1>2. ControlInv /\ NoStrandedQueue /\ [Next]_vars => NoStrandedQueue'
  BY NotStrandedStep
<1> QED
  BY <1>1, <1>2, ControlCorrect, PTL DEF Spec

Awake == {"lock", "relock", "check", "popping"}

LEMMA ComingFinite == IsFiniteSet(Coming) /\ Cardinality(Coming) \in Nat
<1>1. IsFiniteSet(Coming)
  BY PoolAssumption, FS_Subset DEF Coming
<1> QED
  BY <1>1, FS_CardinalityType

\* How the number of coming workers moves when one worker moves.
LEMMA ComingGains ==
    ASSUME ControlInv, NEW w \in Worker, NEW l \in Awake, pc' = [pc EXCEPT ![w] = l]
    PROVE  Cardinality(Coming') =
              IF pc[w] \in Awake THEN Cardinality(Coming) ELSE Cardinality(Coming) + 1
<1>1. pc \in [Worker -> {"unborn", "absent", "waiting", "handle"} \cup Contending]
  BY DEF ControlInv, TypeOK
<1>2. Coming' = Coming \cup {w} /\ (w \in Coming <=> pc[w] \in Awake)
  BY <1>1 DEF Coming, Awake
<1> QED
  BY <1>2, ComingFinite, FS_AddElement

LEMMA ComingLoses ==
    ASSUME ControlInv, NEW w \in Worker, NEW l, l \notin Awake, pc' = [pc EXCEPT ![w] = l]
    PROVE  Cardinality(Coming') =
              IF pc[w] \in Awake THEN Cardinality(Coming) - 1 ELSE Cardinality(Coming)
<1>1. pc \in [Worker -> {"unborn", "absent", "waiting", "handle"} \cup Contending]
  BY DEF ControlInv, TypeOK
<1>2. Coming' = Coming \ {w} /\ (w \in Coming <=> pc[w] \in Awake)
  BY <1>1 DEF Coming, Awake
<1> QED
  BY <1>2, ComingFinite, FS_RemoveElement

LEMMA WakeupInit == Init => WakeupPerTask
<1> SUFFICES ASSUME Init PROVE WakeupPerTask
  OBVIOUS
<1>1. Waiting = {}
  BY DEF Init, Waiting
<1> QED
  BY <1>1 DEF WakeupPerTask

LEMMA WakeupStep ==
    ASSUME ControlInv, WakeupPerTask, [Next]_vars
    PROVE  WakeupPerTask'
<1> DEFINE Com == Cardinality(Coming)
<1>1. /\ Com \in Nat /\ Owed \in {0, 1} /\ missed \in Nat /\ Len(m_q) \in Nat
      /\ (m_q = <<>>) <=> Len(m_q) = 0
  <2>1. m_q \in Seq(Task) /\ missed \in Nat
    BY DEF ControlInv, TypeOK
  <2> QED
    BY <2>1, ComingFinite, LenProperties, EmptySeq DEF Owed
<1>2. \A w \in Worker : w \in Waiting <=> pc[w] = "waiting"
  BY DEF Waiting
\* Steps that leave the queue, main's promise and the waiters alone.
<1>3. ASSUME NEW w \in Worker, NEW l, pc' = [pc EXCEPT ![w] = l], l # "waiting",
             l \in Awake \/ pc[w] \notin Awake,
             UNCHANGED <<m_q, mainpc, missed>>
      PROVE  WakeupPerTask'
  <2>1. Waiting' # {} => Waiting # {}
    BY <1>3 DEF Waiting, ControlInv, TypeOK
  <2>2. Com' \in {Com, Com + 1}
    <3>1. CASE l \in Awake
      BY <1>3, <3>1, ComingGains
    <3>2. CASE l \notin Awake
      BY <1>3, <3>2, ComingLoses
    <3> QED
      BY <3>1, <3>2
  <2>3. Len(m_q') = Len(m_q) /\ Owed' = Owed /\ missed' = missed
    BY <1>3 DEF Owed
  <2> QED
    BY <1>1, <2>1, <2>2, <2>3 DEF WakeupPerTask
<1>4. ASSUME NEW w \in Worker, CreateWorker(w) PROVE WakeupPerTask'
  <2>1. m_q' = <<>> /\ missed' \in Nat
    BY <1>1, <1>4 DEF CreateWorker, ControlInv, CreationInv, queueVars
  <2>2. Owed' \in {0, 1}
    BY DEF Owed
  <2>3. Com' \in {Com, Com + 1}
    <3>1. PICK l : pc' = [pc EXCEPT ![w] = l] /\ pc[w] \notin Awake
      BY <1>4 DEF CreateWorker, Awake
    <3> QED
      BY <3>1, ComingGains, ComingLoses
  <2> QED
    BY <1>1, <2>1, <2>2, <2>3, EmptySeq DEF WakeupPerTask
<1>5. ASSUME UNCHANGED <<m_q, pc, missed>>, Owed' = Owed PROVE WakeupPerTask'
  BY <1>5 DEF WakeupPerTask, Waiting, Coming
<1>6. ASSUME NEW t \in Task, Accept(t) PROVE WakeupPerTask'
  BY <1>5, <1>6 DEF Accept, Owed, queueVars
<1>7. CASE PushLock \/ PushUnlock
  BY <1>5, <1>7 DEF PushLock, PushUnlock, Owed, queueVars
<1>8. CASE Push
  <2>1. Len(m_q') = Len(m_q) + 1 /\ in \in Task
    BY <1>8, AppendProperties DEF Push, ControlInv, TypeOK, LocalsInv
  <2>2. Owed = 0 /\ Owed' = 1
    BY <1>8 DEF Push, Owed
  <2> QED
    BY <1>1, <1>8, <2>1, <2>2 DEF Push, WakeupPerTask, Waiting, Coming
<1>9. CASE ReadSize
  <2>1. PICK nonempty \in SizeRead :
           /\ mainpc' = IF nonempty THEN "signal" ELSE "idle"
           /\ missed' = IF ~nonempty /\ TornRead THEN missed + 1 ELSE missed
    BY <1>9 DEF ReadSize
  <2>2. UNCHANGED <<m_q, pc>> /\ Owed = 1
    BY <1>9 DEF ReadSize, queueVars, Owed
  <2>3. /\ Waiting' = Waiting /\ Com' = Com /\ Len(m_q') = Len(m_q)
        /\ Owed' = IF nonempty THEN 1 ELSE 0
    BY <2>1, <2>2 DEF Waiting, Coming, Owed
  <2>4. nonempty \/ TornRead \/ Len(m_q) = 0
    BY <1>1 DEF SizeRead
  <2> QED
    BY <1>1, <2>1, <2>3, <2>2, <2>4 DEF WakeupPerTask
<1>10. CASE Signal
  <2>1. m_q' = m_q /\ missed' = missed /\ Owed = 1 /\ Owed' = 0
    BY <1>10 DEF Signal, queueVars, Owed
  <2>2. CASE Waiting # {}
    <3>1. PICK w \in Worker : pc[w] = "waiting" /\ pc' = [pc EXCEPT ![w] = "relock"]
      BY <1>2, <1>10, <2>2 DEF Signal, Waiting
    <3>2. Com' = Com + 1
      BY <3>1, ComingGains DEF Awake
    <3> QED
      BY <1>1, <2>1, <2>2, <3>2 DEF WakeupPerTask
  <2>3. CASE Waiting = {}
    <3>1. pc' = pc
      BY <1>2, <1>10, <2>3 DEF Signal
    <3> QED
      BY <2>3, <3>1 DEF WakeupPerTask, Waiting
  <2> QED
    BY <2>2, <2>3
<1>11. ASSUME NEW w \in Worker, Lock(w) PROVE WakeupPerTask'
  BY <1>3, <1>11 DEF Lock, Awake, queueVars, mainVars
<1>12. ASSUME NEW w \in Worker, Wait(w) PROVE WakeupPerTask'
  <2>1. m_q' = <<>> /\ missed' = 0
    BY <1>12 DEF Wait, queueVars
  <2>2. Com' = Com - 1
    <3>1. pc[w] = "check" /\ pc' = [pc EXCEPT ![w] = "waiting"]
      BY <1>12 DEF Wait
    <3> QED
      BY <3>1, ComingLoses DEF Awake
  <2>3. Com >= 1
    <3>1. w \in Coming
      BY <1>12 DEF Wait, Coming
    <3> QED
      BY <1>1, <3>1, ComingFinite, FS_EmptySet
  <2> QED
    BY <1>1, <2>1, <2>2, <2>3, EmptySeq DEF WakeupPerTask, Owed
<1>13. ASSUME NEW w \in Worker, SpuriousWakeup(w) PROVE WakeupPerTask'
  BY <1>3, <1>13 DEF SpuriousWakeup, Awake, queueVars, mainVars
<1>14. ASSUME NEW w \in Worker, Front(w) PROVE WakeupPerTask'
  BY <1>3, <1>14 DEF Front, Awake, queueVars, mainVars
<1>15. ASSUME NEW w \in Worker, Pop(w) PROVE WakeupPerTask'
  <2>1. m_q # <<>> /\ m_q \in Seq(Task)
    BY <1>15 DEF Pop, ControlInv, LocalsInv, TypeOK
  <2>2. Len(m_q') = Len(m_q) - 1
    BY <1>15, <2>1, HeadTailProperties DEF Pop
  <2>3. Com' = Com - 1
    <3>1. pc[w] = "popping" /\ pc' = [pc EXCEPT ![w] = "unlock"]
      BY <1>15 DEF Pop
    <3> QED
      BY <3>1, ComingLoses DEF Awake
  <2>4. Waiting' # {} => Waiting # {}
    BY <1>15 DEF Pop, Waiting, ControlInv, TypeOK
  <2>5. Owed' = Owed /\ missed' = missed
    BY <1>15 DEF Pop, Owed, mainVars
  <2> QED
    BY <1>1, <2>2, <2>3, <2>4, <2>5 DEF WakeupPerTask
<1>16. ASSUME NEW w \in Worker, Unlock(w) PROVE WakeupPerTask'
  BY <1>3, <1>16 DEF Unlock, Awake, queueVars, mainVars
<1>17. ASSUME NEW w \in Worker, Handle(w) PROVE WakeupPerTask'
  BY <1>3, <1>17 DEF Handle, Awake, queueVars, mainVars
<1>18. CASE UNCHANGED vars
  BY <1>5, <1>18 DEF vars, queueVars, mainVars, Owed
<1> QED
  BY <1>4, <1>6, <1>7, <1>8, <1>9, <1>10, <1>11, <1>12, <1>13, <1>14, <1>15,
     <1>16, <1>17, <1>18 DEF Next, PushTask, ThreadRoutine

\* While a worker sleeps, every queued connection has a wake-up of its own on
\* the way, up to the signals that torn size reads have suppressed.
THEOREM WorkConserving == Spec => []WakeupPerTask
<1>1. ControlInv /\ WakeupPerTask /\ [Next]_vars => WakeupPerTask'
  BY WakeupStep
<1> QED
  BY <1>1, WakeupInit, ControlCorrect, PTL DEF Spec

-----------------------------------------------------------------------------
(* The pool implements TaskDispatch.                                       *)

\* What a worker is handling, as TaskDispatch sees it.
Running == [w \in Worker |-> IF pc[w] \in {"unlock", "handle"}
                             THEN out[w] ELSE NoTask]

LEMMA PromiseInit == Init => Promise!Init
<1> SUFFICES ASSUME Init PROVE Promise!Init
  OBVIOUS
<1>1. Range(pushed) = {}
  BY DEF Init, Range
<1> QED
  BY <1>1 DEF Init, Promise!Init

LEMMA PromiseStep ==
    ASSUME ControlInv, HistoryInv, [Next]_vars
    PROVE  [Promise!Next]_(Promise!vars)
<1> USE PoolAssumption DEF Running, queueVars, mainVars
\* Steps that TaskDispatch does not see.
<1>1. ASSUME UNCHANGED <<m_q, pushed, handled>>, Running' = Running
      PROVE  UNCHANGED Promise!vars
  BY <1>1 DEF Promise!vars
<1>2. pc \in [Worker -> {"unborn", "absent", "waiting", "handle"} \cup Contending]
  BY DEF ControlInv, TypeOK
<1>3. ASSUME NEW w \in Worker,
             \/ CreateWorker(w) \/ Lock(w) \/ Wait(w) \/ SpuriousWakeup(w)
             \/ Front(w) \/ Unlock(w)
      PROVE  UNCHANGED Promise!vars
  <2>1. /\ UNCHANGED <<m_q, pushed, handled>>
        /\ \A v \in Worker : pc'[v] \in {"unlock", "handle"} <=> pc[v] \in {"unlock", "handle"}
        /\ \A v \in Worker : pc[v] \in {"unlock", "handle"} => out'[v] = out[v]
    BY <1>2, <1>3 DEF CreateWorker, Lock, Wait, SpuriousWakeup, Front, Unlock,
         ControlInv, TypeOK
  <2>2. Running' = Running
    BY <2>1
  <2> QED
    BY <1>1, <2>1, <2>2
<1>4. ASSUME \/ \E t \in Task : Accept(t)
             \/ PushLock \/ PushUnlock \/ ReadSize \/ UNCHANGED vars
      PROVE  UNCHANGED Promise!vars
  BY <1>1, <1>4 DEF Accept, PushLock, PushUnlock, ReadSize, vars
<1>5. CASE Signal
  <2>1. /\ UNCHANGED <<m_q, pushed, handled, out>>
        /\ \A v \in Worker : pc'[v] \in {"unlock", "handle"} <=> pc[v] \in {"unlock", "handle"}
    BY <1>2, <1>5 DEF Signal
  <2>2. Running' = Running
    BY <2>1
  <2> QED
    BY <1>1, <2>1, <2>2
<1>6. CASE Push
  <2>1. in \in Task /\ in \notin Range(pushed)
    BY <1>6 DEF Push, ControlInv, LocalsInv, HistoryInv, ServedInv
  <2>2. Range(pushed') = Range(pushed) \cup {in}
    BY <1>6, <2>1, RangeAppend DEF Push, ControlInv, TypeOK
  <2>3. Promise!Submit(in)
    BY <1>6, <2>1, <2>2 DEF Push, Promise!Submit
  <2> QED
    BY <2>1, <2>3 DEF Promise!Next
<1>7. ASSUME NEW w \in Worker, Pop(w) PROVE Promise!Dispatch(w)
  <2>1. m_q # <<>> /\ out[w] = Head(m_q) /\ pc[w] = "popping"
    BY <1>7 DEF Pop, ControlInv, LocalsInv
  <2>2. Running[w] = NoTask
    BY <2>1
  <2>3. Running' = [Running EXCEPT ![w] = Head(m_q)]
    BY <1>2, <1>7, <2>1 DEF Pop
  <2> QED
    BY <1>7, <2>1, <2>2, <2>3 DEF Pop, Promise!Dispatch
<1>8. ASSUME NEW w \in Worker, Handle(w) PROVE Promise!Finish(w)
  <2>1. out[w] \in Task /\ out[w] \notin handled
    BY <1>8 DEF Handle, ControlInv, LocalsInv, HistoryInv, HandledOnce
  <2>2. Running[w] = out[w] /\ out[w] # NoTask
    BY <1>8, <2>1 DEF Handle
  <2>3. Running' = [Running EXCEPT ![w] = NoTask]
    BY <1>2, <1>8 DEF Handle, ControlInv, TypeOK
  <2> QED
    BY <1>8, <2>1, <2>2, <2>3 DEF Handle, Promise!Finish
<1> QED
  BY <1>3, <1>4, <1>5, <1>6, <1>7, <1>8
     DEF Next, PushTask, ThreadRoutine, Promise!Next

\* Every behaviour of the pool is one that TaskDispatch allows: a push is a
\* Submit, a pop a Dispatch, the return of a handler a Finish.
THEOREM PoolImplementsDispatch == Spec => ImplementsTaskDispatch
<1>1. ControlInv /\ HistoryInv /\ [Next]_vars => [Promise!Next]_(Promise!vars)
  BY PromiseStep
<1> QED
  BY <1>1, PromiseInit, HistoryCorrect, PTL DEF Spec, ImplementsTaskDispatch, Promise!Spec
=============================================================================
