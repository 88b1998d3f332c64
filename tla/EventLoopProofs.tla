--------------------------- MODULE EventLoopProofs ---------------------------
(***************************************************************************)
(* Theorems about EventLoop, for every set of calling threads, every set of *)
(* channels and every bound, and about the loop's timers, TimerQueue, for   *)
(* every set of timers, of timeouts and every time.  The two share only the *)
(* theory of numbers and sequences.                                         *)
(***************************************************************************)
EXTENDS EventLoop, TimerQueue, SequenceTheorems, FiniteSetTheorems,
        WellFoundedInduction, TLAPS

USE DEF Threads, queueVars, timerVars

(***************************************************************************)
(* The type invariant.                                                      *)
(***************************************************************************)

\* A step that does not push leaves the three lists over the same functions;
\* one that does adds the next function to m_todoList.
LEMMA PushFuncType ==
  ASSUME TypeOK, NEW t \in Threads, PushFunc(t)
  PROVE  /\ m_todoList' \in Seq(1..issued')
         /\ issued' \in Nat
         /\ pc' \in [Threads -> {"idle", "pushed"}]
         /\ \A s : s \in Seq(1..issued) => s \in Seq(1..issued')
<1> USE DEF TypeOK, PushFunc
<1>1. 1..issued \subseteq 1..issued' /\ issued + 1 \in 1..issued'
  OBVIOUS
<1>2. \A s : s \in Seq(1..issued) => s \in Seq(1..issued')
  BY <1>1, SeqMonotonic
<1>3. m_todoList' \in Seq(1..issued')
  BY <1>1, <1>2, AppendProperties
<1> QED
  BY <1>2, <1>3

\* A callback keeps the types of what it may change.
LEMMA CallbackType ==
  ASSUME TypeOK, NEW p, Callback(p)
  PROVE  /\ m_todoList' \in Seq(1..issued')
         /\ issued' \in Nat
         /\ pc' \in [Threads -> {"idle", "pushed"}]
         /\ armed' \in Nat
         /\ \A s : s \in Seq(1..issued) => s \in Seq(1..issued')
<1>1. CASE UNCHANGED <<pc, m_todoList, issued, armed>>
  BY <1>1 DEF TypeOK
<1>2. CASE armed' = armed + 1 /\ UNCHANGED <<pc, m_todoList, issued>>
  BY <1>2 DEF TypeOK
<1>3. CASE PushFunc(Loop) /\ UNCHANGED armed
  BY <1>3, PushFuncType DEF TypeOK
<1> QED
  BY <1>1, <1>2, <1>3 DEF Callback

\* The variables of every reachable state have their types; in particular the
\* lists only hold functions that have been pushed.
THEOREM TypeCorrect == Spec => []TypeOK
<1>1. Init => TypeOK
  <2> SUFFICES ASSUME Init PROVE TypeOK
    OBVIOUS
  <2>1. <<>> \in Seq(1..issued)
    BY EmptySeq
  <2>2. pc \in [Threads -> {"idle", "pushed"}]
    BY DEF Init
  <2> QED BY <2>1, <2>2 DEF Init, TypeOK
<1>2. TypeOK /\ [Next]_vars => TypeOK'
  <2> SUFFICES ASSUME TypeOK, [Next]_vars PROVE TypeOK'
    OBVIOUS
  <2>1. CASE TestQuit
    BY <2>1 DEF TestQuit, TypeOK
  <2>2. CASE Poll
    <3>1. batch' \subseteq Channels \cup {WakeupFd}
      BY <2>2 DEF Poll, Batches, ReadyFds, TypeOK
    <3> QED BY <2>2, <3>1 DEF Poll, TypeOK
  <2>3. CASE PollInterrupted
    BY <2>3 DEF PollInterrupted, TypeOK
  <2>4. CASE HandleRead
    BY <2>4 DEF HandleRead, AfterEvent, TypeOK
  <2>5. ASSUME NEW ch \in Channels, HandleEvent(ch) PROVE TypeOK'
    <3>1. Callback("dispatch")
      BY <2>5 DEF HandleEvent
    <3> QED BY <2>5, <3>1, CallbackType DEF HandleEvent, AfterEvent, TypeOK
  <2>6. CASE BeginTodoList
    BY <2>6 DEF BeginTodoList, SwappedOut, SwappedIn, TypeOK
  <2>7. CASE RunFunc
    <3>1. Callback("todo")
      BY <2>7 DEF RunFunc
    <3>2. Head(todoListCopy) \in 1..issued /\ Tail(todoListCopy) \in Seq(1..issued)
      BY <2>7, HeadTailProperties DEF RunFunc, TypeOK
    <3>3. Append(executed, Head(todoListCopy)) \in Seq(1..issued)
      BY <3>2, AppendProperties DEF TypeOK
    <3> QED BY <2>7, <3>1, <3>2, <3>3, CallbackType DEF RunFunc, TypeOK
  <2>8. CASE EndTodoList
    BY <2>8 DEF EndTodoList, TypeOK
  <2>9. CASE RunTimer
    <3>1. Callback("timers") /\ due - 1 \in Nat
      BY <2>9 DEF RunTimer, TimerDue, TypeOK
    <3> QED BY <2>9, <3>1, CallbackType DEF RunTimer, TypeOK
  <2>10. CASE EndTimers
    BY <2>10 DEF EndTimers, TypeOK
  <2>11. ASSUME NEW t \in Threads, WakeUp(t) PROVE TypeOK'
    BY <2>11 DEF WakeUp, TypeOK
  <2>12. ASSUME NEW t \in Callers, RunOneFunc(t) PROVE TypeOK'
    BY <2>12, PushFuncType DEF RunOneFunc, TypeOK
  <2>13. ASSUME NEW t \in Callers, Quit(t) PROVE TypeOK'
    BY <2>13 DEF Quit, TypeOK
  <2>14. ASSUME NEW ch \in Channels, Arrive(ch) PROVE TypeOK'
    BY <2>14 DEF Arrive, TypeOK
  <2>15. CASE Expire
    BY <2>15 DEF Expire, TypeOK
  <2>16. CASE UNCHANGED vars
    BY <2>16 DEF vars, TypeOK
  <2> QED
    BY <2>1, <2>2, <2>3, <2>4, <2>5, <2>6, <2>7, <2>8, <2>9, <2>10, <2>11, <2>12,
       <2>13, <2>14, <2>15, <2>16 DEF Next, LoopStep
<1> QED
  BY <1>1, <1>2, PTL DEF Spec

(***************************************************************************)
(* Where the loop thread is in its turn.                                    *)
(***************************************************************************)

\* m_callingTodoList is set exactly while DoTodoList runs its copy, the copy is
\* empty outside it, and the loop thread is inside QueueFunc only in a phase
\* whose callbacks call it.
TurnInv ==
  /\ m_callingTodoList <=> phase = "todo"
  /\ phase # "todo" => todoListCopy = <<>>
  /\ pc[Loop] = "pushed" => phase \in OwnQueuePhases

\* A callback moves the loop thread into QueueFunc only from such a phase, and
\* touches the thread's own entry of pc alone.
LEMMA CallbackTurn ==
  ASSUME TypeOK, pc[Loop] = "idle", NEW p, Callback(p)
  PROVE  /\ pc'[Loop] = "pushed" => p \in OwnQueuePhases
         /\ \A t \in Threads \ {Loop} : pc'[t] = pc[t]
         /\ m_todoList' # m_todoList => pc'[Loop] = "pushed"
<1>1. CASE UNCHANGED <<pc, m_todoList, issued, armed>>
  BY <1>1
<1>2. CASE UNCHANGED <<pc, m_todoList, issued>>
  BY <1>2
<1>3. CASE p \in OwnQueuePhases /\ PushFunc(Loop)
  BY <1>3 DEF PushFunc, TypeOK
<1> QED
  BY <1>1, <1>2, <1>3 DEF Callback

LEMMA TurnInvariant == Spec => []TurnInv
<1>1. Init => TurnInv
  BY DEF Init, TurnInv
<1>2. TypeOK /\ TurnInv /\ [Next]_vars => TurnInv'
  <2> SUFFICES ASSUME TypeOK, TurnInv, [Next]_vars PROVE TurnInv'
    OBVIOUS
  <2> USE DEF TurnInv
  <2>1. CASE TestQuit \/ Poll \/ PollInterrupted \/ HandleRead
    BY <2>1 DEF TestQuit, Poll, PollInterrupted, HandleRead, At
  <2>2. ASSUME NEW ch \in Channels, HandleEvent(ch) PROVE TurnInv'
    <3>1. Callback("dispatch") /\ phase' = "dispatch" /\ pc[Loop] = "idle"
      BY <2>2 DEF HandleEvent, At
    <3> QED BY <2>2, <3>1, CallbackTurn DEF HandleEvent, At
  <2>3. CASE BeginTodoList \/ EndTodoList \/ EndTimers
    BY <2>3 DEF BeginTodoList, EndTodoList, EndTimers, At
  <2>4. CASE RunFunc
    <3>1. Callback("todo") /\ phase' = "todo" /\ pc[Loop] = "idle"
      BY <2>4 DEF RunFunc, At
    <3> QED BY <2>4, <3>1, CallbackTurn DEF RunFunc, At
  <2>5. CASE RunTimer
    <3>1. Callback("timers") /\ phase' = "timers" /\ pc[Loop] = "idle"
      BY <2>5 DEF RunTimer, At
    <3> QED BY <2>5, <3>1, CallbackTurn DEF RunTimer, At
  <2>6. ASSUME NEW t \in Threads, WakeUp(t) PROVE TurnInv'
    BY <2>6 DEF WakeUp, TypeOK
  <2>7. ASSUME NEW t \in Callers, RunOneFunc(t) PROVE TurnInv'
    BY <2>7, ThreadsAssumption DEF RunOneFunc, PushFunc, TypeOK
  <2>8. ASSUME NEW t \in Callers, Quit(t) PROVE TurnInv'
    BY <2>8 DEF Quit
  <2>9. ASSUME NEW ch \in Channels, Arrive(ch) PROVE TurnInv'
    BY <2>9 DEF Arrive
  <2>10. CASE Expire \/ UNCHANGED vars
    BY <2>10 DEF Expire, vars
  <2> QED
    BY <2>1, <2>2, <2>3, <2>4, <2>5, <2>6, <2>7, <2>8, <2>9, <2>10 DEF Next, LoopStep
<1> QED
  BY <1>1, <1>2, TypeCorrect, PTL DEF Spec

(***************************************************************************)
(* The wakeup protocol.                                                     *)
(***************************************************************************)

\* On a loop whose timers never queue on the loop itself (every loop when there
\* are worker loops) no pushed function is left without a wakeup on its way,
\* whatever the number of threads that call QueueFunc and wherever they are
\* interrupted between the push and the write.
THEOREM WakeupTheorem ==
  ASSUME "timers" \notin OwnQueuePhases
  PROVE  Spec => []NoLostWakeup
<1> DEFINE After == {"todo", "timers", "top", "poll"}
           Coming == \E t \in Threads : pc[t] = "pushed" /\ NeedsWakeup(t)
<1>1. Init => NoLostWakeup
  BY DEF Init, NoLostWakeup
<1>2. TypeOK /\ TurnInv /\ NoLostWakeup /\ [Next]_vars => NoLostWakeup'
  <2> SUFFICES ASSUME TypeOK, TurnInv, NoLostWakeup, [Next]_vars,
                      phase' \in After, m_todoList' # <<>>
               PROVE  wakeupCount' > 0 \/ Coming'
    BY DEF NoLostWakeup
  <2>0. wakeupCount \in Nat
    BY DEF TypeOK
  <2>1. CASE TestQuit \/ EndTimers
    BY <2>1 DEF TestQuit, EndTimers, At, NoLostWakeup, NeedsWakeup
  <2>2. CASE Poll \/ PollInterrupted \/ HandleRead
    BY <2>2 DEF Poll, PollInterrupted, HandleRead, At
  <2>3. ASSUME NEW ch \in Channels, HandleEvent(ch) PROVE FALSE
    BY <2>3 DEF HandleEvent, At
  <2>4. CASE BeginTodoList
    BY <2>4 DEF BeginTodoList, SwappedIn, At, TurnInv
  <2>5. CASE RunFunc
    <3>1. /\ Callback("todo") /\ pc[Loop] = "idle" /\ phase = "todo"
          /\ m_callingTodoList /\ m_callingTodoList'
          /\ wakeupCount' = wakeupCount
      BY <2>5 DEF RunFunc, At, TurnInv
    <3>2. CASE m_todoList' # m_todoList
      BY <3>1, <3>2, CallbackTurn DEF NeedsWakeup
    <3>3. CASE m_todoList' = m_todoList
      <4>1. wakeupCount > 0 \/ Coming
        BY <3>1, <3>3 DEF NoLostWakeup
      <4>2. ASSUME NEW t \in Threads, pc[t] = "pushed" PROVE pc'[t] = "pushed"
        BY <3>1, <4>2, CallbackTurn
      <4> QED BY <3>1, <4>1, <4>2 DEF NeedsWakeup
    <3> QED BY <3>2, <3>3
  <2>6. CASE EndTodoList
    BY <2>6 DEF EndTodoList, At, NoLostWakeup, NeedsWakeup
  <2>7. CASE RunTimer
    <3>1. /\ Callback("timers") /\ pc[Loop] = "idle" /\ phase = "timers"
          /\ wakeupCount' = wakeupCount
          /\ m_callingTodoList' = m_callingTodoList
      BY <2>7 DEF RunTimer, At
    <3>2. UNCHANGED <<pc, m_todoList>>
      BY <3>1 DEF Callback
    <3> QED BY <3>1, <3>2 DEF NoLostWakeup, NeedsWakeup
  <2>8. ASSUME NEW t \in Threads, WakeUp(t) PROVE wakeupCount' > 0 \/ Coming'
    <3>1. CASE NeedsWakeup(t)
      BY <2>0, <2>8, <3>1 DEF WakeUp
    <3>2. CASE ~NeedsWakeup(t)
      <4>1. wakeupCount > 0 \/ Coming
        BY <2>8 DEF WakeUp, NoLostWakeup
      <4>2. ASSUME NEW u \in Threads, pc[u] = "pushed", NeedsWakeup(u)
            PROVE  pc'[u] = "pushed" /\ NeedsWakeup(u)'
        BY <2>8, <3>2, <4>2 DEF WakeUp, NeedsWakeup, TypeOK
      <4> QED BY <2>8, <3>2, <4>1, <4>2 DEF WakeUp
    <3> QED BY <3>1, <3>2
  <2>9. ASSUME NEW t \in Callers, RunOneFunc(t) PROVE Coming'
    BY <2>9, ThreadsAssumption DEF RunOneFunc, PushFunc, NeedsWakeup, TypeOK
  <2>10. ASSUME NEW t \in Callers, Quit(t) PROVE wakeupCount' > 0 \/ Coming'
    BY <2>10 DEF Quit, NoLostWakeup, NeedsWakeup
  <2>11. ASSUME NEW ch \in Channels, Arrive(ch) PROVE wakeupCount' > 0 \/ Coming'
    BY <2>11 DEF Arrive, NoLostWakeup, NeedsWakeup
  <2>12. CASE Expire \/ UNCHANGED vars
    BY <2>12 DEF Expire, vars, NoLostWakeup, NeedsWakeup
  <2> QED
    BY <2>1, <2>2, <2>3, <2>4, <2>5, <2>6, <2>7, <2>8, <2>9, <2>10, <2>11, <2>12
       DEF Next, LoopStep
<1> QED
  BY <1>1, <1>2, TypeCorrect, TurnInvariant, PTL DEF Spec

\* HandleRead never meets an empty eventfd: only the loop thread reads it, once
\* per event that reports it.
THEOREM HandleReadTheorem == Spec => []HandleReadSucceeds
<1> USE DEF HandleReadSucceeds
<1>1. Init => HandleReadSucceeds
  BY DEF Init
<1>2. TypeOK /\ HandleReadSucceeds /\ [Next]_vars => HandleReadSucceeds'
  <2> SUFFICES ASSUME TypeOK, HandleReadSucceeds, [Next]_vars
               PROVE  HandleReadSucceeds'
    OBVIOUS
  <2>1. CASE Poll
    <3>1. WakeupFd \in batch' => wakeupCount > 0
      BY <2>1, ThreadsAssumption DEF Poll, Batches, ReadyFds, TypeOK
    <3> QED BY <2>1, <3>1 DEF Poll, queueVars
  <2>2. CASE TestQuit \/ PollInterrupted \/ BeginTodoList \/ EndTodoList \/ EndTimers
    BY <2>2 DEF TestQuit, PollInterrupted, BeginTodoList, EndTodoList, EndTimers
  <2>3. CASE HandleRead
    BY <2>3 DEF HandleRead, AfterEvent, At
  <2>4. ASSUME NEW ch \in Channels, HandleEvent(ch) PROVE HandleReadSucceeds'
    BY <2>4 DEF HandleEvent, AfterEvent, At
  <2>5. CASE RunFunc \/ RunTimer
    BY <2>5 DEF RunFunc, RunTimer, At
  <2>6. ASSUME NEW t \in Threads, WakeUp(t) PROVE HandleReadSucceeds'
    BY <2>6 DEF WakeUp, TypeOK
  <2>7. ASSUME NEW t \in Callers, RunOneFunc(t) \/ Quit(t) PROVE HandleReadSucceeds'
    BY <2>7 DEF RunOneFunc, Quit
  <2>8. ASSUME NEW ch \in Channels, Arrive(ch) PROVE HandleReadSucceeds'
    BY <2>8 DEF Arrive
  <2>9. CASE Expire \/ UNCHANGED vars
    BY <2>9 DEF Expire, vars
  <2> QED
    BY <2>1, <2>2, <2>3, <2>4, <2>5, <2>6, <2>7, <2>8, <2>9 DEF Next, LoopStep
<1> QED
  BY <1>1, <1>2, TypeCorrect, PTL DEF Spec

(***************************************************************************)
(* Every function runs once, in the order of the pushes.                    *)
(***************************************************************************)

\* Running the head of a list moves the boundary of a concatenation.
LEMMA MoveHead ==
  ASSUME NEW S, NEW s \in Seq(S), NEW c \in Seq(S), c # <<>>
  PROVE  Append(s, Head(c)) \o Tail(c) = s \o c
<1>1. /\ Head(c) \in S /\ Tail(c) \in Seq(S) /\ Len(Tail(c)) = Len(c) - 1
      /\ \A i \in 1..Len(Tail(c)) : Tail(c)[i] = c[i+1]
      /\ Head(c) = c[1]
  BY HeadTailProperties
<1>2. Append(s, Head(c)) \in Seq(S) /\ Len(Append(s, Head(c))) = Len(s) + 1
  BY <1>1, AppendProperties
<1> DEFINE l == Append(s, Head(c)) \o Tail(c)
           r == s \o c
<1>3. Len(s) \in Nat /\ Len(c) \in Nat \ {0}
  BY LenProperties, EmptySeq
<1>4. l \in Seq(S) /\ r \in Seq(S) /\ Len(l) = Len(s) + Len(c) /\ Len(r) = Len(s) + Len(c)
  BY <1>1, <1>2, <1>3, ConcatProperties
<1>5. ASSUME NEW i \in 1..Len(s) + Len(c) PROVE l[i] = r[i]
  <2>1. CASE i <= Len(s)
    BY <1>1, <1>2, <1>3, <2>1, ConcatProperties, AppendProperties
  <2>2. CASE i = Len(s) + 1
    BY <1>1, <1>2, <1>3, <2>2, ConcatProperties, AppendProperties
  <2>3. CASE i > Len(s) + 1
    <3>1. l[i] = Tail(c)[i - (Len(s) + 1)] /\ r[i] = c[i - Len(s)]
      BY <1>1, <1>2, <1>3, <2>3, ConcatProperties
    <3>2. i - (Len(s) + 1) \in 1..Len(Tail(c))
      BY <1>1, <1>3, <2>3
    <3> QED BY <1>1, <1>3, <2>3, <3>1, <3>2
  <2> QED BY <1>3, <2>1, <2>2, <2>3
<1> HIDE DEF l, r
<1>6. l = r
  BY <1>4, <1>5, SeqEqual
<1> QED
  BY <1>6 DEF l, r

\* The numbers of the functions pushed so far.
Pushed(n) == [i \in 1..n |-> i]

\* One more push.
LEMMA PushedNext ==
  ASSUME NEW n \in Nat
  PROVE  Append(Pushed(n), n + 1) = Pushed(n + 1)
<1>1. /\ Pushed(n) \in Seq(Nat) /\ Len(Pushed(n)) = n
      /\ Pushed(n+1) \in Seq(Nat) /\ Len(Pushed(n+1)) = n + 1
  BY DEF Pushed
<1> QED
  BY <1>1, AppendProperties, SeqEqual DEF Pushed

\* A push extends what the three lists hold together by the new function.
LEMMA PushKeepsOrder ==
  ASSUME TypeOK, FuncsRunInOrder, NEW t \in Threads, PushFunc(t)
  PROVE  executed \o todoListCopy \o m_todoList' = Pushed(issued')
<1> DEFINE S == 1..(issued + 1)
           done == executed \o todoListCopy
<1>1. executed \in Seq(S) /\ todoListCopy \in Seq(S) /\ m_todoList \in Seq(S)
  <2>1. 1..issued \subseteq S
    BY DEF TypeOK
  <2> QED BY <2>1, SeqMonotonic DEF TypeOK
<1>2. issued + 1 \in S /\ issued \in Nat
  BY DEF TypeOK
<1> HIDE DEF S
<1>3. done \in Seq(S)
  BY <1>1, ConcatProperties
<1> HIDE DEF done
<1>4. done \o Append(m_todoList, issued + 1) = Append(done \o m_todoList, issued + 1)
  <2>1. Append(m_todoList, issued + 1) = m_todoList \o <<issued + 1>>
    BY <1>1, <1>2, AppendIsConcat
  <2>2. done \o m_todoList \in Seq(S)
    BY <1>1, <1>3, ConcatProperties
  <2>3. Append(done \o m_todoList, issued + 1) = (done \o m_todoList) \o <<issued + 1>>
    BY <1>2, <2>2, AppendIsConcat
  <2>4. <<issued + 1>> \in Seq(S)
    BY <1>2
  <2>5. (done \o m_todoList) \o <<issued + 1>> = done \o (m_todoList \o <<issued + 1>>)
    BY <1>1, <1>3, <2>4, ConcatAssociative, SMTT(30)
  <2> QED BY <2>1, <2>3, <2>5
<1>5. done \o m_todoList = Pushed(issued)
  BY DEF FuncsRunInOrder, done, Pushed
<1> QED
  BY <1>2, <1>4, <1>5, PushedNext DEF PushFunc, done

\* So does a callback that pushes; one that does not leaves it as it is.
LEMMA CallbackKeepsOrder ==
  ASSUME TypeOK, FuncsRunInOrder, NEW p, Callback(p)
  PROVE  executed \o todoListCopy \o m_todoList' = Pushed(issued')
<1>1. CASE UNCHANGED <<m_todoList, issued>>
  BY <1>1 DEF FuncsRunInOrder, Pushed
<1>2. CASE PushFunc(Loop)
  BY <1>2, PushKeepsOrder
<1> QED
  BY <1>1, <1>2 DEF Callback

\* No function is lost, run twice or overtaken: not by a push that falls
\* between two swaps, and not by a function that queues another one.
THEOREM OrderTheorem == Spec => []FuncsRunInOrder
<1>1. Init => FuncsRunInOrder
  <2>1. ASSUME Init PROVE [i \in 1..issued |-> i] = <<>>
    BY <2>1 DEF Init
  <2>2. <<>> \o <<>> = <<>>
    OBVIOUS
  <2> QED BY <2>1, <2>2 DEF Init, FuncsRunInOrder
<1>2. TypeOK /\ TurnInv /\ FuncsRunInOrder /\ [Next]_vars => FuncsRunInOrder'
  <2> SUFFICES ASSUME TypeOK, TurnInv, FuncsRunInOrder, [Next]_vars
               PROVE  FuncsRunInOrder'
    OBVIOUS
  <2>0. ASSUME UNCHANGED <<executed, todoListCopy, m_todoList, issued>>
        PROVE  FuncsRunInOrder'
    BY <2>0 DEF FuncsRunInOrder
  <2>1. CASE \/ TestQuit \/ Poll \/ PollInterrupted \/ HandleRead
             \/ EndTodoList \/ EndTimers
    BY <2>0, <2>1 DEF TestQuit, Poll, PollInterrupted, HandleRead, EndTodoList, EndTimers
  <2>2. CASE (\E ch \in Channels : HandleEvent(ch)) \/ RunTimer
    <3>1. PICK p : Callback(p)
      BY <2>2 DEF HandleEvent, RunTimer
    <3> QED BY <2>2, <3>1, CallbackKeepsOrder
            DEF HandleEvent, RunTimer, FuncsRunInOrder, Pushed
  <2>3. CASE BeginTodoList
    <3>1. todoListCopy = <<>> /\ executed \in Seq(1..issued) /\ m_todoList \in Seq(1..issued)
      BY <2>3 DEF BeginTodoList, At, TurnInv, TypeOK
    <3>2. executed \o m_todoList \in Seq(1..issued)
      BY <3>1, ConcatProperties
    <3>3. executed \o <<>> \o m_todoList = executed \o m_todoList \o <<>>
      BY <3>1, <3>2, ConcatEmptySeq
    <3> QED BY <2>3, <3>1, <3>3 DEF BeginTodoList, SwappedOut, SwappedIn, FuncsRunInOrder
  <2>4. CASE RunFunc
    <3>1. executed' \o todoListCopy' = executed \o todoListCopy
      BY <2>4, MoveHead DEF RunFunc, TypeOK
    <3>2. executed \o todoListCopy \o m_todoList' = Pushed(issued')
      BY <2>4, CallbackKeepsOrder DEF RunFunc
    <3> QED BY <3>1, <3>2 DEF FuncsRunInOrder, Pushed
  <2>5. ASSUME NEW t \in Callers, RunOneFunc(t) PROVE FuncsRunInOrder'
    BY <2>5, PushKeepsOrder DEF RunOneFunc, FuncsRunInOrder, Pushed
  <2>6. ASSUME NEW t \in Threads, WakeUp(t) PROVE FuncsRunInOrder'
    BY <2>0, <2>6 DEF WakeUp
  <2>7. ASSUME NEW t \in Callers, Quit(t) PROVE FuncsRunInOrder'
    BY <2>0, <2>7 DEF Quit
  <2>8. ASSUME NEW ch \in Channels, Arrive(ch) PROVE FuncsRunInOrder'
    BY <2>0, <2>8 DEF Arrive
  <2>9. CASE Expire \/ UNCHANGED vars
    BY <2>0, <2>9 DEF Expire, vars
  <2> QED
    BY <2>1, <2>2, <2>3, <2>4, <2>5, <2>6, <2>7, <2>8, <2>9 DEF Next, LoopStep
<1> QED
  BY <1>1, <1>2, TypeCorrect, TurnInvariant, PTL DEF Spec

(***************************************************************************)
(* TimerQueue: induction over numbers, for a set of numbers instead of a    *)
(* predicate, and the arrays that it is needed for.                         *)
(***************************************************************************)
LEMMA SetInduction ==
  ASSUME NEW T, T \subseteq Nat,
         \A n \in Nat : (\A m \in Nat : m < n => m \in T) => n \in T
  PROVE  T = Nat
<1> DEFINE less == OpToRel(<, Nat)
           rest == Nat \ T
<1>1. ASSUME NEW m \in Nat, NEW n \in Nat, m < n PROVE <<m, n>> \in less
  BY <1>1 DEF OpToRel
<1>2. IsWellFoundedOn(less, Nat)
  BY NatLessThanWellFounded
<1> HIDE DEF less
<1> SUFFICES ASSUME rest # {} PROVE FALSE
  OBVIOUS
<1>3. PICK n \in rest : \A m \in rest : ~(<<m, n>> \in less)
  BY <1>2, rest \subseteq Nat, WFMin
<1>4. \A m \in Nat : m < n => m \in T
  BY <1>1, <1>3
<1> QED
  BY <1>3, <1>4

(***************************************************************************)
(* Rearranging a deque.                                                     *)
(***************************************************************************)

\* s is q with its places in A permuted; D is the places of both.
Rearranged(s, q, D, A) ==
  \E p \in [D -> D] :
    /\ \A i, j \in D : p[i] = p[j] => i = j
    /\ \A j \in D : \E i \in D : p[i] = j
    /\ \A i \in D \ A : p[i] = i
    /\ s = [i \in D |-> q[p[i]]]

LEMMA SameIsRearranged ==
  ASSUME NEW D, NEW S, NEW q \in [D -> S], NEW A
  PROVE  Rearranged(q, q, D, A)
<1> DEFINE p == [i \in D |-> i]
<1>1. p \in [D -> D] /\ q = [i \in D |-> q[p[i]]]
  OBVIOUS
<1> QED
  BY <1>1 DEF Rearranged

LEMMA RearrangedTwice ==
  ASSUME NEW D, NEW A, NEW q, NEW r, NEW s,
         Rearranged(s, r, D, A), Rearranged(r, q, D, A)
  PROVE  Rearranged(s, q, D, A)
<1>1. PICK p \in [D -> D] :
        /\ \A i, j \in D : p[i] = p[j] => i = j
        /\ \A j \in D : \E i \in D : p[i] = j
        /\ \A i \in D \ A : p[i] = i
        /\ s = [i \in D |-> r[p[i]]]
  BY DEF Rearranged
<1>2. PICK o \in [D -> D] :
        /\ \A i, j \in D : o[i] = o[j] => i = j
        /\ \A j \in D : \E i \in D : o[i] = j
        /\ \A i \in D \ A : o[i] = i
        /\ r = [i \in D |-> q[o[i]]]
  BY DEF Rearranged
<1> DEFINE b == [i \in D |-> o[p[i]]]
<1>3. b \in [D -> D] /\ \A i \in D : b[i] = o[p[i]]
  OBVIOUS
<1>4. \A i \in D : s[i] = q[b[i]]
  BY <1>1, <1>2
<1>5. s = [i \in D |-> q[b[i]]]
  BY <1>1, <1>4
<1>6. \A j \in D : \E i \in D : b[i] = j
  BY <1>1, <1>2
<1>7. \A i, j \in D : b[i] = b[j] => i = j
  BY <1>1, <1>2
<1>8. \A i \in D \ A : b[i] = i
  BY <1>1, <1>2
<1> HIDE DEF b
<1> QED
  BY <1>3, <1>5, <1>6, <1>7, <1>8 DEF Rearranged

\* A hole at j was filled with v and the rest rearranged within B.  Then moving
\* what is at j to a hole at i rearranges the deque with the hole at i.
LEMMA HoleMoves ==
  ASSUME NEW D, NEW S, NEW q \in [D -> S], NEW A, NEW B, NEW s, NEW v \in S,
         NEW i \in A \ B, NEW j \in B, A \subseteq D, B \subseteq A,
         Rearranged(s, [q EXCEPT ![j] = v], D, B)
  PROVE  Rearranged([s EXCEPT ![i] = q[j]], [q EXCEPT ![i] = v], D, A)
<1> DEFINE q1 == [q EXCEPT ![j] = v]
           q2 == [q EXCEPT ![i] = v]
           s2 == [s EXCEPT ![i] = q[j]]
<1>0. i \in D /\ j \in D /\ i # j
  OBVIOUS
<1>1. PICK p \in [D -> D] :
        /\ \A k, m \in D : p[k] = p[m] => k = m
        /\ \A m \in D : \E k \in D : p[k] = m
        /\ \A k \in D \ B : p[k] = k
        /\ s = [k \in D |-> q1[p[k]]]
  BY DEF Rearranged
<1> DEFINE o == [k \in D |-> IF p[k] = j THEN i ELSE IF p[k] = i THEN j ELSE p[k]]
<1>2. o \in [D -> D] /\ \A k \in D : o[k] = IF p[k] = j THEN i ELSE IF p[k] = i THEN j ELSE p[k]
  BY <1>0
<1> HIDE DEF o
<1>3. \A k, m \in D : o[k] = o[m] => k = m
  BY <1>0, <1>1, <1>2
<1>4. ASSUME NEW m \in D PROVE \E k \in D : o[k] = m
  <2>1. \E k \in D : p[k] = IF m = i THEN j ELSE IF m = j THEN i ELSE m
    BY <1>0, <1>1
  <2> QED BY <1>0, <1>2, <2>1
<1>5. \A k \in D \ A : o[k] = k
  BY <1>1, <1>2
<1>6. ASSUME NEW k \in D PROVE s2[k] = q2[o[k]]
  <2>1. CASE k = i
    <3>1. p[k] = i
      BY <1>1, <2>1
    <3>2. o[k] = j /\ s2[k] = q[j]
      BY <1>0, <1>1, <1>2, <2>1, <3>1
    <3> QED BY <1>0, <3>2
  <2>2. CASE k # i
    <3>1. p[k] # i /\ s2[k] = q1[p[k]]
      BY <1>0, <1>1, <2>2
    <3> QED BY <1>0, <1>2, <3>1
  <2> QED BY <2>1, <2>2
<1>7. s2 = [k \in D |-> q2[o[k]]]
  BY <1>1, <1>6
<1> HIDE DEF q2, s2
<1>8. Rearranged(s2, q2, D, A)
  <2>1. \A m \in D : \E k \in D : o[k] = m
    BY <1>4
  <2>2. /\ o \in [D -> D]
        /\ \A k, m \in D : o[k] = o[m] => k = m
        /\ \A m \in D : \E k \in D : o[k] = m
        /\ \A k \in D \ A : o[k] = k
        /\ s2 = [k \in D |-> q2[o[k]]]
    BY <1>2, <1>3, <1>5, <1>7, <2>1
  <2> QED BY <2>2 DEF Rearranged
<1> QED
  BY <1>8 DEF q2, s2

\* A rearranged deque holds what it held, and nothing twice unless it did before.
HoldsSame(s, q, D, S) ==
  /\ s \in [D -> S]
  /\ {s[i] : i \in D} = {q[i] : i \in D}
  /\ (\A i, j \in D : q[i] = q[j] => i = j) => (\A i, j \in D : s[i] = s[j] => i = j)

LEMMA RearrangedHolds ==
  ASSUME NEW D, NEW S, NEW q \in [D -> S], NEW s, NEW A, Rearranged(s, q, D, A)
  PROVE  HoldsSame(s, q, D, S)
<1>1. PICK p \in [D -> D] :
        /\ \A i, j \in D : p[i] = p[j] => i = j
        /\ \A j \in D : \E i \in D : p[i] = j
        /\ s = [i \in D |-> q[p[i]]]
  BY DEF Rearranged
<1>2. s \in [D -> S] /\ \A i \in D : s[i] = q[p[i]] /\ p[i] \in D
  BY <1>1
<1>3. \A j \in D : \E i \in D : q[j] = s[i]
  BY <1>1, <1>2
<1> QED
  BY <1>1, <1>2, <1>3 DEF HoldsSame

LEMMA RearrangedWithin ==
  ASSUME NEW D, NEW A, NEW B, A \subseteq B, NEW q, NEW s, Rearranged(s, q, D, A)
  PROVE  Rearranged(s, q, D, B)
BY DEF Rearranged

(***************************************************************************)
(* push_heap and pop_heap rearrange, whatever the keys are.                 *)
(***************************************************************************)

\* up of PushUp, on 1..n.
IsUp(q, exp, v, n, f) ==
  f = [i \in 1..n |-> IF i > 1 /\ Later(exp, q[i \div 2], v)
                      THEN [f[i \div 2] EXCEPT ![i] = q[i \div 2]]
                      ELSE [q EXCEPT ![i] = v]]

LEMMA Half ==
  ASSUME NEW i \in Nat, i > 1
  PROVE  i \div 2 \in 1..(i - 1)
OBVIOUS

LEMMA UpExists ==
  ASSUME NEW q, NEW exp, NEW v
  PROVE  \A n \in Nat : \E f : IsUp(q, exp, v, n, f)
<1> DEFINE T == {n \in Nat : \E f : IsUp(q, exp, v, n, f)}
           Step(f, i) == IF i > 1 /\ Later(exp, q[i \div 2], v)
                         THEN [f[i \div 2] EXCEPT ![i] = q[i \div 2]]
                         ELSE [q EXCEPT ![i] = v]
<1> HIDE DEF Step
<1>1. ASSUME NEW n \in Nat, \A m \in Nat : m < n => m \in T PROVE n \in T
  <2>1. CASE n = 0
    <3>1. IsUp(q, exp, v, n, [i \in 1..0 |-> q])
      BY <2>1 DEF IsUp
    <3> QED BY <3>1
  <2>2. CASE n # 0
    <3>1. n - 1 \in Nat /\ n - 1 < n
      BY <2>2
    <3>2. PICK f : IsUp(q, exp, v, n - 1, f)
      BY <1>1, <3>1
    <3>3. \A i \in 1..(n - 1) : f[i] = Step(f, i)
      BY <3>2 DEF IsUp, Step
    <3> DEFINE g == [i \in 1..n |-> IF i = n THEN Step(f, n) ELSE f[i]]
    <3>4. \A i \in 1..n : g[i] = IF i = n THEN Step(f, n) ELSE f[i]
      OBVIOUS
    <3>5. DOMAIN g = 1..n /\ g = [i \in DOMAIN g |-> g[i]]
      OBVIOUS
    <3> HIDE DEF g
    <3>6. ASSUME NEW i \in 1..n PROVE g[i] = Step(g, i)
      <4>1. CASE i > 1
        <5>1. i \div 2 \in 1..(i - 1)
          BY <4>1, Half
        <5>2. g[i \div 2] = f[i \div 2]
          BY <3>4, <5>1
        <5>3. Step(g, i) = Step(f, i)
          BY <5>2 DEF Step
        <5> QED BY <3>3, <3>4, <5>3
      <4>2. CASE ~(i > 1)
        <5>1. Step(g, i) = Step(f, i)
          BY <4>2 DEF Step
        <5> QED BY <3>3, <3>4, <5>1
      <4> QED BY <4>1, <4>2
    <3>7. g = [i \in 1..n |-> Step(g, i)]
      BY <3>5, <3>6
    <3>8. IsUp(q, exp, v, n, g)
      BY <3>7 DEF IsUp, Step
    <3> QED BY <3>8
  <2> QED BY <2>1, <2>2
<1> HIDE DEF T
<1>2. T = Nat
  BY <1>1, T \subseteq Nat, SetInduction DEF T
<1> QED
  BY <1>2 DEF T

LEMMA PushUpRearranges ==
  ASSUME NEW n \in Nat, NEW S, NEW q \in [1..n -> S], NEW exp, NEW v \in S, NEW hole \in 1..n
  PROVE  Rearranged(PushUp(q, exp, hole, v), [q EXCEPT ![hole] = v], 1..n, 1..n)
<1> DEFINE f == CHOOSE f : IsUp(q, exp, v, hole, f)
           base(i) == [q EXCEPT ![i] = v]
           T == {i \in Nat : i \in 1..hole => Rearranged(f[i], base(i), 1..n, 1..i)}
<1>1. IsUp(q, exp, v, hole, f)
  <2>1. \E g : IsUp(q, exp, v, hole, g)
    BY UpExists
  <2> QED BY <2>1
<1>2. PushUp(q, exp, hole, v) = f[hole]
  BY DEF PushUp, IsUp
<1> HIDE DEF f
<1>3. \A i \in 1..hole :
        f[i] = IF i > 1 /\ Later(exp, q[i \div 2], v)
               THEN [f[i \div 2] EXCEPT ![i] = q[i \div 2]] ELSE base(i)
  BY <1>1 DEF IsUp
<1>4. ASSUME NEW i \in Nat, \A j \in Nat : j < i => j \in T PROVE i \in T
  <2> SUFFICES ASSUME i \in 1..hole
               PROVE  Rearranged(f[i], base(i), 1..n, 1..i)
    OBVIOUS
  <2>1. CASE i > 1 /\ Later(exp, q[i \div 2], v)
    <3> DEFINE j == i \div 2
    <3>1. j \in 1..(i - 1)
      BY <2>1, Half
    <3>2. f[i] = [f[j] EXCEPT ![i] = q[j]]
      BY <1>3, <2>1
    <3> HIDE DEF j
    <3>3. j \in Nat /\ j < i /\ j \in 1..hole
      BY <3>1
    <3>4. Rearranged(f[j], [q EXCEPT ![j] = v], 1..n, 1..j)
      BY <1>4, <3>3
    <3>5. i \in (1..i) \ (1..j) /\ j \in 1..j /\ 1..i \subseteq 1..n /\ 1..j \subseteq 1..i
      BY <3>1
    <3>6. Rearranged([f[j] EXCEPT ![i] = q[j]], [q EXCEPT ![i] = v], 1..n, 1..i)
      BY <3>4, <3>5, HoleMoves
    <3> QED BY <3>2, <3>6
  <2>2. CASE ~(i > 1 /\ Later(exp, q[i \div 2], v))
    <3>1. f[i] = base(i) /\ base(i) \in [1..n -> S]
      BY <1>3, <2>2
    <3>2. Rearranged(base(i), base(i), 1..n, 1..i)
      BY <3>1, SameIsRearranged
    <3> QED BY <3>1, <3>2
  <2> QED BY <2>1, <2>2
<1>5. hole \in T
  <2> HIDE DEF T
  <2>1. T = Nat
    BY <1>4, T \subseteq Nat, SetInduction DEF T
  <2> QED BY <2>1
<1> QED
  BY <1>2, <1>5, 1..hole \subseteq 1..n, RearrangedWithin

\* sunk of SinkHole, at one place.
SinkFrom(q, exp, f, i) ==
  IF Child(q, exp, i) = i THEN [hole |-> i, deque |-> q]
  ELSE [hole |-> f[Child(q, exp, i)].hole,
        deque |-> [f[Child(q, exp, i)].deque EXCEPT ![i] = q[Child(q, exp, i)]]]

LEMMA ChildIsBelow ==
  ASSUME NEW q, NEW exp, Len(q) \in Nat, NEW i \in 1..Len(q)
  PROVE  Child(q, exp, i) = i \/ Child(q, exp, i) \in (i + 1)..Len(q)
BY DEF Child

LEMMA SunkExists ==
  ASSUME NEW q, NEW exp, Len(q) \in Nat
  PROVE  \E f : f = [i \in 1..Len(q) |-> SinkFrom(q, exp, f, i)]
<1> DEFINE n == Len(q)
           Sunk(f, k) == \A i \in 1..n : i > n - k => f[i] = SinkFrom(q, exp, f, i)
           T == {k \in Nat : \E f : Sunk(f, k)}
<1>1. ASSUME NEW k \in Nat, \A m \in Nat : m < k => m \in T PROVE k \in T
  <2>1. CASE k = 0
    <3>1. Sunk(q, 0)
      OBVIOUS
    <3> QED BY <2>1, <3>1
  <2>2. CASE k # 0
    <3>1. k - 1 \in Nat /\ k - 1 < k
      BY <2>2
    <3>2. PICK f : Sunk(f, k - 1)
      BY <1>1, <3>1
    <3> DEFINE g == [i \in 1..n |-> IF i = n - k + 1 THEN SinkFrom(q, exp, f, i) ELSE f[i]]
    <3>3. ASSUME NEW i \in 1..n, i > n - k PROVE g[i] = SinkFrom(q, exp, g, i)
      <4>1. Child(q, exp, i) # i => Child(q, exp, i) \in (i + 1)..n
        BY ChildIsBelow
      <4>2. Child(q, exp, i) # i => g[Child(q, exp, i)] = f[Child(q, exp, i)]
        BY <3>3, <4>1
      <4>3. SinkFrom(q, exp, g, i) = SinkFrom(q, exp, f, i)
        BY <4>2 DEF SinkFrom
      <4>4. i # n - k + 1 => f[i] = SinkFrom(q, exp, f, i)
        BY <3>1, <3>2, <3>3
      <4> QED BY <4>3, <4>4
    <3>4. Sunk(g, k)
      BY <3>3
    <3> QED BY <3>4
  <2> QED BY <2>1, <2>2
<1>2. n \in T
  <2> HIDE DEF T
  <2>1. T = Nat
    BY <1>1, T \subseteq Nat, SetInduction DEF T
  <2> QED BY <2>1
<1>3. PICK f : Sunk(f, n)
  BY <1>2
<1> DEFINE g == [i \in 1..n |-> f[i]]
<1>4. ASSUME NEW i \in 1..n PROVE g[i] = SinkFrom(q, exp, g, i)
  <2>1. Child(q, exp, i) \in 1..n
    BY ChildIsBelow
  <2>2. SinkFrom(q, exp, g, i) = SinkFrom(q, exp, f, i)
    BY <2>1 DEF SinkFrom
  <2>3. i > n - n
    OBVIOUS
  <2> QED BY <1>3, <2>2, <2>3
<1>5. g = [i \in 1..n |-> SinkFrom(q, exp, g, i)]
  BY <1>4
<1> QED
  BY <1>5

\* The hole sinks to some leaf, and filling it there with w rearranges the deque
\* with w at the top.
LEMMA SinkHoleRearranges ==
  ASSUME NEW n \in Nat \ {0}, NEW S, NEW q \in [1..n -> S], Len(q) = n, NEW exp
  PROVE  LET sunk == SinkHole(q, exp)
         IN  /\ sunk.hole \in 1..n
             /\ sunk.deque \in [1..n -> S]
             /\ \A w \in S : Rearranged([sunk.deque EXCEPT ![sunk.hole] = w],
                                        [q EXCEPT ![1] = w], 1..n, 1..n)
<1> DEFINE f == CHOOSE f : f = [i \in 1..Len(q) |-> SinkFrom(q, exp, f, i)]
           Sinks(i) ==
             /\ f[i].hole \in i..n /\ f[i].deque \in [1..n -> S]
             /\ \A w \in S : Rearranged([f[i].deque EXCEPT ![f[i].hole] = w],
                                        [q EXCEPT ![i] = w], 1..n, i..n)
           T == {k \in Nat : \A i \in 1..n : i = n - k => Sinks(i)}
<1>1. f = [i \in 1..Len(q) |-> SinkFrom(q, exp, f, i)]
  <2>1. \E g : g = [i \in 1..Len(q) |-> SinkFrom(q, exp, g, i)]
    BY SunkExists
  <2> QED BY <2>1
<1>2. SinkHole(q, exp) = f[1]
  BY DEF SinkHole, SinkFrom
<1> HIDE DEF f
<1>3. \A i \in 1..n : f[i] = SinkFrom(q, exp, f, i)
  BY <1>1
<1> HIDE DEF Sinks
<1>4. ASSUME NEW k \in Nat, \A m \in Nat : m < k => m \in T PROVE k \in T
  <2> SUFFICES ASSUME NEW i \in 1..n, i = n - k
               PROVE  Sinks(i)
    OBVIOUS
  <2> DEFINE c == Child(q, exp, i)
  <2>1. CASE c = i
    <3>0. f[i] = [hole |-> i, deque |-> q]
      <4>1. SinkFrom(q, exp, f, i) = [hole |-> i, deque |-> q]
        BY <2>1 DEF SinkFrom
      <4> QED BY <1>3, <4>1
    <3>1. f[i].hole = i /\ f[i].deque = q
      BY <3>0
    <3>2. \A w \in S : [q EXCEPT ![i] = w] \in [1..n -> S]
      OBVIOUS
    <3>3. \A w \in S : Rearranged([q EXCEPT ![i] = w], [q EXCEPT ![i] = w], 1..n, i..n)
      BY <3>2, SameIsRearranged
    <3> QED BY <3>1, <3>3 DEF Sinks
  <2>2. CASE c # i
    <3>1. c \in (i + 1)..n
      BY <2>2, ChildIsBelow
    <3>0. f[i] = [hole |-> f[c].hole, deque |-> [f[c].deque EXCEPT ![i] = q[c]]]
      <4>1. SinkFrom(q, exp, f, i)
              = [hole |-> f[c].hole, deque |-> [f[c].deque EXCEPT ![i] = q[c]]]
        BY <2>2 DEF SinkFrom
      <4> QED BY <1>3, <4>1
    <3>2. f[i].hole = f[c].hole /\ f[i].deque = [f[c].deque EXCEPT ![i] = q[c]]
      BY <3>0
    <3> HIDE DEF c
    <3>3. n - c \in Nat /\ n - c < k /\ c = n - (n - c) /\ c \in 1..n
      BY <2>2, <3>1
    <3>4. Sinks(c)
      BY <1>4, <3>3
    <3>5. f[c].hole \in c..n /\ f[c].deque \in [1..n -> S]
      BY <3>4 DEF Sinks
    <3>6. f[c].hole \in i..n /\ f[c].hole # i /\ c \in 1..n /\ q[c] \in S
      BY <3>1, <3>5
    <3>7. ASSUME NEW w \in S
          PROVE  Rearranged([f[i].deque EXCEPT ![f[i].hole] = w], [q EXCEPT ![i] = w], 1..n, i..n)
      <4> DEFINE s == [f[c].deque EXCEPT ![f[c].hole] = w]
      <4>1. Rearranged(s, [q EXCEPT ![c] = w], 1..n, c..n)
        BY <3>4 DEF Sinks
      <4>2. i \in (i..n) \ (c..n) /\ c \in c..n /\ i..n \subseteq 1..n /\ c..n \subseteq i..n
        BY <3>1
      <4>3. [f[i].deque EXCEPT ![f[i].hole] = w] = [s EXCEPT ![i] = q[c]]
        BY <3>2, <3>5, <3>6
      <4> HIDE DEF s
      <4>4. Rearranged([s EXCEPT ![i] = q[c]], [q EXCEPT ![i] = w], 1..n, i..n)
        BY <4>1, <4>2, HoleMoves
      <4> QED BY <4>3, <4>4
    <3>8. f[i].deque \in [1..n -> S]
      BY <3>2, <3>5, <3>6
    <3> QED BY <3>2, <3>6, <3>7, <3>8 DEF Sinks
  <2> QED BY <2>1, <2>2
<1>5. Sinks(1)
  <2> HIDE DEF T
  <2>1. T = Nat
    BY <1>4, T \subseteq Nat, SetInduction DEF T
  <2>2. n - 1 \in T /\ 1 \in 1..n /\ 1 = n - (n - 1)
    BY <2>1
  <2> QED BY <2>2 DEF T
<1> QED
  BY <1>2, <1>5 DEF Sinks

LEMMA PrefixIs ==
  ASSUME NEW S, NEW q \in Seq(S), NEW n \in Nat \ {0}, n <= Len(q)
  PROVE  LET r == SubSeq(q, 1, n)
         IN  Len(r) = n /\ r \in [1..n -> S] /\ \A i \in 1..n : r[i] = q[i]
<1> DEFINE r == SubSeq(q, 1, n)
<1>1. \A i \in 1..n : i \in 1..Len(q) /\ 1 + i - 1 = i
  BY LenProperties
<1>2. \A i \in 1..n : q[i] \in S
  BY <1>1, ElementOfSeq
<1>3. r \in Seq(S) /\ Len(r) = IF 1 <= n THEN n - 1 + 1 ELSE 0
  BY <1>2, SubSeqProperties
<1>4. Len(r) = n
  BY <1>3
<1>5. \A i \in 1..n : r[i] = q[i]
  BY <1>1, <1>2, SubSeqProperties
<1> HIDE DEF r
<1>6. r \in [1..n -> S]
  BY <1>3, <1>4, LenProperties
<1> QED
  BY <1>4, <1>5, <1>6 DEF r

\* What a deque holds, and that it holds nothing twice.
Held(q) == {q[i] : i \in 1..Len(q)}
Once(q) == \A i, j \in 1..Len(q) : q[i] = q[j] => i = j

\* pop: the deque without its top.
LEMMA PopHolds ==
  ASSUME NEW S, NEW q \in Seq(S), q # <<>>, NEW exp, Once(q)
  PROVE  /\ Pop(q, exp) \in Seq(S) /\ Len(Pop(q, exp)) = Len(q) - 1
         /\ Held(Pop(q, exp)) = Held(q) \ {q[1]}
         /\ Once(Pop(q, exp))
<1> USE DEF Once, Held
<1> DEFINE n == Len(q) - 1
           r == SubSeq(q, 1, n)
           w == q[Len(q)]
           sunk == SinkHole(r, exp)
<1>1. Len(q) \in Nat \ {0} /\ n \in Nat /\ \A i \in 1..Len(q) : q[i] \in S
  BY LenProperties, EmptySeq, ElementOfSeq
<1>2. CASE Len(q) = 1
  <2>1. Pop(q, exp) = <<>> /\ Len(<<>>) = 0 /\ <<>> \in Seq(S)
    BY <1>2, EmptySeq DEF Pop
  <2>2. 1..Len(q) = {1} /\ 1..0 = {}
    BY <1>2
  <2> QED BY <1>2, <2>1, <2>2
<1>3. CASE Len(q) # 1
  <2>1. n \in Nat \ {0} /\ Pop(q, exp) = PushUp(sunk.deque, exp, sunk.hole, w)
    BY <1>1, <1>3 DEF Pop
  <2>2. Len(r) = n /\ r \in [1..n -> S] /\ \A i \in 1..n : r[i] = q[i]
    <3>1. n <= Len(q)
      BY <1>1
    <3> HIDE DEF n
    <3> QED BY <2>1, <3>1, PrefixIs
  <2>3. w \in S
    BY <1>1
  <2>4. /\ sunk.hole \in 1..n /\ sunk.deque \in [1..n -> S]
        /\ Rearranged([sunk.deque EXCEPT ![sunk.hole] = w], [r EXCEPT ![1] = w], 1..n, 1..n)
    <3> HIDE DEF n, r, w
    <3> QED BY <2>1, <2>2, <2>3, SinkHoleRearranges
  <2> DEFINE s == Pop(q, exp)
             b == [r EXCEPT ![1] = w]
  <2>5. Rearranged(s, [sunk.deque EXCEPT ![sunk.hole] = w], 1..n, 1..n)
    <3> HIDE DEF n, w, sunk
    <3> QED BY <2>1, <2>3, <2>4, PushUpRearranges
  <2>6. Rearranged(s, b, 1..n, 1..n)
    <3> HIDE DEF s, b, sunk, n
    <3> QED BY <2>4, <2>5, RearrangedTwice DEF b
  <2>7. b \in [1..n -> S] /\ \A i \in 1..n : b[i] = IF i = 1 THEN q[Len(q)] ELSE q[i]
    <3> HIDE DEF n, r
    <3> QED BY <2>2, <2>3
  <2>8. \A i, j \in 1..n : b[i] = b[j] => i = j
    <3> HIDE DEF b
    <3> QED BY <1>1, <2>7
  <2>9. {b[i] : i \in 1..n} = {q[i] : i \in 1..Len(q)} \ {q[1]}
    <3> HIDE DEF b
    <3>1. \A i \in 1..n : \E j \in 1..Len(q) : j # 1 /\ b[i] = q[j]
      BY <1>1, <1>3, <2>7
    <3>2. \A j \in 1..Len(q) : j # 1 => \E i \in 1..n : b[i] = q[j]
      BY <1>1, <1>3, <2>7
    <3>3. 1 \in 1..Len(q) /\ \A j \in 1..Len(q) : j # 1 => q[j] # q[1]
      BY <1>1
    <3> HIDE DEF n
    <3>4. ASSUME NEW x PROVE x \in {b[i] : i \in 1..n} <=>
                              x \in {q[i] : i \in 1..Len(q)} \ {q[1]}
      <4>1. CASE x \in {b[i] : i \in 1..n}
        BY <3>1, <3>3, <4>1
      <4>2. CASE x \in {q[i] : i \in 1..Len(q)} \ {q[1]}
        BY <3>2, <4>2
      <4> QED BY <4>1, <4>2
    <3> QED BY <3>4, Zenon
  <2>10. /\ s \in [1..n -> S] /\ {s[i] : i \in 1..n} = {b[i] : i \in 1..n}
         /\ \A i, j \in 1..n : s[i] = s[j] => i = j
    <3> HIDE DEF s, b, n
    <3>1. HoldsSame(s, b, 1..n, S)
      BY <2>6, <2>7, RearrangedHolds
    <3>2. s \in [1..n -> S] /\ \A i, j \in 1..n : s[i] = s[j] => i = j
      BY <2>8, <3>1 DEF HoldsSame
    <3>3. {s[i] : i \in 1..n} = {b[i] : i \in 1..n}
      BY <3>1, Zenon DEF HoldsSame
    <3> QED BY <3>2, <3>3
  <2>11. s \in Seq(S) /\ Len(s) = n
    <3> HIDE DEF s, n
    <3> QED BY <1>1, <2>10, SeqDef, LenProperties
  <2> HIDE DEF s, b
  <2> QED BY <2>9, <2>10, <2>11 DEF s
<1> QED
  BY <1>2, <1>3

\* push: the deque and the new timer.
LEMMA PushHolds ==
  ASSUME NEW S, NEW q \in Seq(S), NEW t \in S, NEW exp, Once(q), t \notin Held(q)
  PROVE  /\ Push(q, exp, t) \in Seq(S) /\ Len(Push(q, exp, t)) = Len(q) + 1
         /\ Held(Push(q, exp, t)) = Held(q) \cup {t}
         /\ Once(Push(q, exp, t))
<1> USE DEF Once, Held
<1> DEFINE n == Len(q) + 1
           b == Append(q, t)
           s == Push(q, exp, t)
<1>1. Len(q) \in Nat /\ n \in Nat /\ \A i \in 1..Len(q) : q[i] \in S
  BY LenProperties, ElementOfSeq
<1>2. /\ b \in Seq(S) /\ Len(b) = n /\ b \in [1..n -> S]
      /\ \A i \in 1..n : b[i] = IF i = n THEN t ELSE q[i]
  <2>1. /\ b \in Seq(S) /\ Len(b) = n /\ b[n] = t
        /\ \A i \in 1..Len(q) : b[i] = q[i]
    BY AppendProperties
  <2>2. b \in [1..n -> S]
    BY <2>1, LenProperties
  <2>3. \A i \in 1..n : i \in 1..Len(q) \/ i = n
    BY <1>1
  <2>4. \A i \in 1..Len(q) : i # n
    BY <1>1
  <2> HIDE DEF b, n
  <2> QED BY <2>1, <2>2, <2>3, <2>4
<1>3. [b EXCEPT ![n] = t] = b
  BY <1>1, <1>2
<1>4. Rearranged(s, b, 1..n, 1..n)
  <2>1. n \in 1..n /\ s = PushUp(b, exp, n, t)
    BY <1>1 DEF Push
  <2> HIDE DEF b, n, s
  <2>2. Rearranged(s, [b EXCEPT ![n] = t], 1..n, 1..n)
    BY <1>1, <1>2, <2>1, PushUpRearranges
  <2> QED BY <1>3, <2>2
<1> HIDE DEF b
<1>5. \A i, j \in 1..n : b[i] = b[j] => i = j
  BY <1>1, <1>2
<1>6. {b[i] : i \in 1..n} = {q[i] : i \in 1..Len(q)} \cup {t}
  <2>1. \A i \in 1..Len(q) : i \in 1..n /\ b[i] = q[i]
    BY <1>1, <1>2
  <2>2. n \in 1..n /\ b[n] = t
    BY <1>1, <1>2
  <2>3. \A i \in 1..n : i \in 1..Len(q) \/ i = n
    BY <1>1
  <2> QED BY <2>1, <2>2, <2>3
<1> HIDE DEF s
<1>7. /\ s \in [1..n -> S] /\ {s[i] : i \in 1..n} = {b[i] : i \in 1..n}
      /\ \A i, j \in 1..n : s[i] = s[j] => i = j
  <2> HIDE DEF n
  <2>1. HoldsSame(s, b, 1..n, S)
    BY <1>2, <1>4, RearrangedHolds
  <2>2. s \in [1..n -> S] /\ \A i, j \in 1..n : s[i] = s[j] => i = j
    BY <1>5, <2>1 DEF HoldsSame
  <2>3. {s[i] : i \in 1..n} = {b[i] : i \in 1..n}
    BY <2>1, Zenon DEF HoldsSame
  <2> QED BY <2>2, <2>3
<1>8. s \in Seq(S) /\ Len(s) = n
  BY <1>1, <1>7, SeqDef, LenProperties
<1> QED
  BY <1>6, <1>7, <1>8 DEF s

(***************************************************************************)
(* push_heap and pop_heap keep the order.                                   *)
(***************************************************************************)

\* No timer of q expires before its parent, except perhaps at the hole.
InOrderBut(q, n, exp, hole) == \A k \in 2..n : k # hole => exp[q[k \div 2]] <= exp[q[k]]
InOrder(q, exp) == \A k \in 2..Len(q) : exp[q[k \div 2]] <= exp[q[k]]

\* Both push up from a leaf.  Until v has its place it expires before what is
\* there; each place on the way gets its parent, which expires no later.
LEMMA PushUpInOrder ==
  ASSUME NEW n \in Nat, NEW S, NEW q \in [1..n -> S], NEW exp \in [S -> Nat], NEW v \in S,
         NEW hole \in 1..n, 2 * hole > n, InOrderBut(q, n, exp, hole)
  PROVE  InOrderBut(PushUp(q, exp, hole, v), n, exp, 0)
<1> DEFINE f == CHOOSE f : IsUp(q, exp, v, hole, f)
<1>1. IsUp(q, exp, v, hole, f)
  <2>1. hole \in Nat
    OBVIOUS
  <2>2. \E g : IsUp(q, exp, v, hole, g)
    BY <2>1, UpExists
  <2> QED BY <2>2
<1>2. PushUp(q, exp, hole, v) = f[hole]
  BY DEF PushUp, IsUp
<1> HIDE DEF f
<1>3. \A i \in 1..hole :
        f[i] = IF i > 1 /\ exp[q[i \div 2]] > exp[v]
               THEN [f[i \div 2] EXCEPT ![i] = q[i \div 2]] ELSE [q EXCEPT ![i] = v]
  BY <1>1 DEF IsUp, Later
<1>4. /\ \A k \in 1..n : exp[q[k]] \in Nat
      /\ \A s \in [1..n -> S] : \A k \in 1..n : exp[s[k]] \in Nat
      /\ exp[v] \in Nat
  OBVIOUS
<1>5. \A k \in 2..n : k \in 1..n /\ k \div 2 \in 1..(k - 1) /\ k \div 2 \in 1..n
  BY Half
<1> DEFINE Passed(i) ==
             /\ f[i] \in [1..n -> S] /\ InOrderBut(f[i], n, exp, hole)
             /\ \A k \in (i + 1)..n : f[i][k] = q[k]
             /\ exp[f[i][i]] <= exp[q[i]]
           T == {i \in Nat : i \in 1..(hole - 1) /\ exp[q[i]] > exp[v] => Passed(i)}
<1> HIDE DEF Passed
<1>6. ASSUME NEW i \in Nat, \A j \in Nat : j < i => j \in T PROVE i \in T
  <2> SUFFICES ASSUME i \in 1..(hole - 1), exp[q[i]] > exp[v]
               PROVE  Passed(i)
    OBVIOUS
  <2>0. i \in 1..hole /\ i \in 1..n /\ i # hole
    OBVIOUS
  <2>1. CASE i > 1 /\ exp[q[i \div 2]] > exp[v]
    <3> DEFINE j == i \div 2
    <3>1. j \in 1..(i - 1) /\ j \in 1..n /\ j \in Nat /\ j < i /\ j \in 1..(hole - 1)
      BY <2>1, Half
    <3>2. f[i] = [f[j] EXCEPT ![i] = q[j]] /\ exp[q[j]] > exp[v]
      BY <1>3, <2>0, <2>1
    <3>3. exp[q[j]] <= exp[q[i]]
      BY <2>0, <2>1 DEF InOrderBut
    <3>4. Passed(j)
      BY <1>6, <3>1, <3>2
    <3>5. /\ f[j] \in [1..n -> S] /\ InOrderBut(f[j], n, exp, hole)
          /\ \A k \in (j + 1)..n : f[j][k] = q[k]
          /\ exp[f[j][j]] <= exp[q[j]]
      BY <3>4 DEF Passed
    <3>6. f[i] \in [1..n -> S] /\ f[i][i] = q[j] /\ \A k \in 1..n : k # i => f[i][k] = f[j][k]
      BY <2>0, <3>1, <3>2, <3>5
    <3>7. \A k \in (i + 1)..n : f[i][k] = q[k]
      <4>1. \A k \in (i + 1)..n : k \in (j + 1)..n /\ k \in 1..n /\ k # i
        BY <3>1
      <4> QED BY <3>5, <3>6, <4>1
    <3>8. ASSUME NEW k \in 2..n, k # hole PROVE exp[f[i][k \div 2]] <= exp[f[i][k]]
      <4>1. CASE k = i
        <5>1. f[i][k \div 2] = f[j][j] /\ f[i][k] = q[j]
          BY <3>1, <3>6, <4>1
        <5> QED BY <3>5, <5>1
      <4>2. CASE k # i /\ k \div 2 = i
        <5>1. f[i][k \div 2] = q[j] /\ k \in (i + 1)..n
          BY <1>5, <3>6, <4>2
        <5>2. f[i][k] = q[k] /\ exp[q[i]] <= exp[q[k]]
          BY <3>7, <3>8, <4>2, <5>1 DEF InOrderBut
        <5> QED BY <1>4, <2>0, <3>1, <3>3, <5>1, <5>2
      <4>3. CASE k # i /\ k \div 2 # i
        <5>0. k \in 1..n /\ k \div 2 \in 1..n
          BY <1>5
        <5>1. f[i][k \div 2] = f[j][k \div 2] /\ f[i][k] = f[j][k]
          BY <3>6, <4>3, <5>0
        <5> QED BY <3>5, <3>8, <5>1 DEF InOrderBut
      <4> QED BY <4>1, <4>2, <4>3
    <3> QED BY <3>3, <3>6, <3>7, <3>8 DEF Passed, InOrderBut
  <2>2. CASE ~(i > 1 /\ exp[q[i \div 2]] > exp[v])
    <3>1. f[i] = [q EXCEPT ![i] = v]
      BY <1>3, <2>0, <2>2
    <3>2. f[i] \in [1..n -> S] /\ f[i][i] = v /\ \A k \in 1..n : k # i => f[i][k] = q[k]
      BY <2>0, <3>1
    <3>3. ASSUME NEW k \in 2..n, k # hole PROVE exp[f[i][k \div 2]] <= exp[f[i][k]]
      <4>1. CASE k = i
        <5>0. k \div 2 \in 1..n /\ k \div 2 # i
          BY <1>5, <4>1
        <5>1. f[i][k \div 2] = q[k \div 2] /\ f[i][k] = v
          BY <3>2, <4>1, <5>0
        <5> QED BY <1>4, <1>5, <2>2, <4>1, <5>1
      <4>2. CASE k # i /\ k \div 2 = i
        <5>0. k \in 1..n
          BY <1>5
        <5>1. f[i][k \div 2] = v /\ f[i][k] = q[k] /\ exp[q[i]] <= exp[q[k]]
          BY <3>2, <3>3, <4>2, <5>0 DEF InOrderBut
        <5> QED BY <1>4, <2>0, <5>1
      <4>3. CASE k # i /\ k \div 2 # i
        <5>0. k \in 1..n /\ k \div 2 \in 1..n
          BY <1>5
        <5>1. f[i][k \div 2] = q[k \div 2] /\ f[i][k] = q[k]
          BY <3>2, <4>3, <5>0
        <5> QED BY <3>3, <5>1 DEF InOrderBut
      <4> QED BY <4>1, <4>2, <4>3
    <3>4. \A k \in (i + 1)..n : f[i][k] = q[k]
      <4>1. \A k \in (i + 1)..n : k \in 1..n /\ k # i
        BY <2>0
      <4> QED BY <3>2, <4>1
    <3>5. exp[f[i][i]] <= exp[q[i]]
      BY <1>4, <2>0, <3>2
    <3> QED BY <3>2, <3>3, <3>4, <3>5 DEF Passed, InOrderBut
  <2> QED BY <2>1, <2>2
<1>7. \A i \in 1..(hole - 1) : exp[q[i]] > exp[v] => Passed(i)
  <2> HIDE DEF T
  <2>1. T = Nat
    BY <1>6, T \subseteq Nat, SetInduction DEF T
  <2> QED BY <2>1 DEF T
<1>8. hole \in 1..hole /\ \A k \in 2..n : k \div 2 # hole
  OBVIOUS
<1>9. ASSUME NEW k \in 2..n PROVE exp[f[hole][k \div 2]] <= exp[f[hole][k]]
  <2>1. CASE hole > 1 /\ exp[q[hole \div 2]] > exp[v]
    <3> DEFINE j == hole \div 2
    <3>1. j \in 1..(hole - 1) /\ j \in 1..n
      BY <2>1, Half
    <3>2. f[hole] = [f[j] EXCEPT ![hole] = q[j]]
      BY <1>3, <1>8, <2>1
    <3>3. /\ f[j] \in [1..n -> S] /\ InOrderBut(f[j], n, exp, hole)
          /\ exp[f[j][j]] <= exp[q[j]]
      BY <1>7, <2>1, <3>1 DEF Passed
    <3>4. f[hole][hole] = q[j] /\ \A m \in 1..n : m # hole => f[hole][m] = f[j][m]
      BY <3>2, <3>3
    <3>5. CASE k = hole
      <4>1. f[hole][k \div 2] = f[j][j] /\ f[hole][k] = q[j]
        BY <3>1, <3>4, <3>5
      <4> QED BY <3>3, <4>1
    <3>6. CASE k # hole
      <4>1. f[hole][k \div 2] = f[j][k \div 2] /\ f[hole][k] = f[j][k]
        BY <1>5, <1>8, <3>4, <3>6
      <4> QED BY <3>3, <3>6, <4>1 DEF InOrderBut
    <3> QED BY <3>5, <3>6
  <2>2. CASE ~(hole > 1 /\ exp[q[hole \div 2]] > exp[v])
    <3>1. f[hole] = [q EXCEPT ![hole] = v]
      BY <1>3, <1>8, <2>2
    <3>2. f[hole][hole] = v /\ \A m \in 1..n : m # hole => f[hole][m] = q[m]
      BY <3>1
    <3>3. CASE k = hole
      <4>1. f[hole][k \div 2] = q[k \div 2] /\ f[hole][k] = v
        BY <1>5, <1>8, <3>2, <3>3
      <4> QED BY <1>4, <1>5, <2>2, <3>3, <4>1
    <3>4. CASE k # hole
      <4>1. f[hole][k \div 2] = q[k \div 2] /\ f[hole][k] = q[k]
        BY <1>5, <1>8, <3>2, <3>4
      <4> QED BY <3>4, <4>1 DEF InOrderBut
    <3> QED BY <3>3, <3>4
  <2> QED BY <2>1, <2>2
<1> QED
  BY <1>2, <1>9 DEF InOrderBut

\* A hole that sinks is never filled with more than the earliest child, and no
\* place gets a timer that expires before the one that was there.
LEMMA SinkHoleInOrder ==
  ASSUME NEW n \in Nat \ {0}, NEW S, NEW q \in [1..n -> S], Len(q) = n,
         NEW exp \in [S -> Nat], InOrder(q, exp)
  PROVE  LET sunk == SinkHole(q, exp)
         IN  2 * sunk.hole > n /\ InOrderBut(sunk.deque, n, exp, sunk.hole)
<1> DEFINE f == CHOOSE f : f = [i \in 1..Len(q) |-> SinkFrom(q, exp, f, i)]
<1>1. f = [i \in 1..Len(q) |-> SinkFrom(q, exp, f, i)]
  <2>1. \E g : g = [i \in 1..Len(q) |-> SinkFrom(q, exp, g, i)]
    BY SunkExists
  <2> QED BY <2>1
<1>2. SinkHole(q, exp) = f[1]
  BY DEF SinkHole, SinkFrom
<1> HIDE DEF f
<1>3. \A i \in 1..n : f[i] = SinkFrom(q, exp, f, i)
  BY <1>1
<1>4. \A k \in 2..n : k \in 1..n /\ k \div 2 \in 1..(k - 1) /\ k \div 2 \in 1..n
  BY Half
<1>5. \A s \in [1..n -> S] : \A k \in 1..n : exp[s[k]] \in Nat
  OBVIOUS
<1>6. \A k \in 2..n : exp[q[k \div 2]] <= exp[q[k]]
  BY DEF InOrder
<1> DEFINE Sinks(i) ==
             /\ f[i].hole \in i..n /\ 2 * f[i].hole > n /\ f[i].deque \in [1..n -> S]
             /\ \A k \in 1..n : k < i => f[i].deque[k] = q[k]
             /\ \A k \in 1..n : exp[q[k]] <= exp[f[i].deque[k]]
             /\ InOrderBut(f[i].deque, n, exp, f[i].hole)
           T == {k \in Nat : \A i \in 1..n : i = n - k => Sinks(i)}
<1> HIDE DEF Sinks
<1>7. ASSUME NEW m \in Nat, \A k \in Nat : k < m => k \in T PROVE m \in T
  <2> SUFFICES ASSUME NEW i \in 1..n, i = n - m
               PROVE  Sinks(i)
    OBVIOUS
  <2> DEFINE c == Child(q, exp, i)
  <2>1. CASE c = i
    <3>1. f[i] = [hole |-> i, deque |-> q]
      <4>1. SinkFrom(q, exp, f, i) = [hole |-> i, deque |-> q]
        BY <2>1 DEF SinkFrom
      <4> QED BY <1>3, <4>1
    <3>2. f[i].hole = i /\ f[i].deque = q
      BY <3>1
    <3>3. 2 * i > n
      BY <2>1 DEF Child
    <3>4. InOrderBut(q, n, exp, i)
      BY <1>6 DEF InOrderBut
    <3>5. \A k \in 1..n : exp[q[k]] <= exp[q[k]]
      BY <1>5
    <3> QED BY <3>2, <3>3, <3>4, <3>5 DEF Sinks
  <2>2. CASE c # i
    <3>1. c \in (i + 1)..n /\ c \div 2 = i /\ \A k \in 2..n : k \div 2 = i => exp[q[c]] <= exp[q[k]]
      <4>1. 2 * i <= n
        BY <2>2 DEF Child
      <4>2. \A k \in 2..n : k \div 2 = i => k = 2 * i \/ k = 2 * i + 1
        OBVIOUS
      <4>3. /\ (2 * i) \div 2 = i /\ (2 * i + 1) \div 2 = i
            /\ 2 * i \in (i + 1)..n /\ (2 * i # n => 2 * i + 1 \in (i + 1)..n)
        BY <4>1
      <4>4. exp[q[2 * i]] \in Nat
        BY <1>5, <4>1
      <4>5. CASE 2 * i = n
        <5>1. c = 2 * i
          BY <4>5 DEF Child
        <5>2. c \in (i + 1)..n /\ c \div 2 = i
          BY <4>3, <5>1, Zenon
        <5>3. ASSUME NEW k \in 2..n, k \div 2 = i PROVE exp[q[c]] <= exp[q[k]]
          <6>1. k = 2 * i
            BY <4>2, <4>5, <5>3
          <6> QED BY <4>4, <5>1, <6>1
        <5> QED BY <5>2, <5>3
      <4>6. CASE 2 * i # n
        <5>1. exp[q[2 * i + 1]] \in Nat
          BY <1>5, <4>1, <4>6
        <5>2. c = IF exp[q[2 * i + 1]] > exp[q[2 * i]] THEN 2 * i ELSE 2 * i + 1
          BY <4>1, <4>6 DEF Child, Later
        <5>3. c \in (i + 1)..n /\ c \div 2 = i
          BY <4>3, <4>6, <5>2, Zenon
        <5>4. exp[q[c]] <= exp[q[2 * i]] /\ exp[q[c]] <= exp[q[2 * i + 1]]
          BY <4>4, <5>1, <5>2
        <5> QED BY <4>2, <5>3, <5>4
      <4> QED BY <4>5, <4>6
    <3>2. f[i] = [hole |-> f[c].hole, deque |-> [f[c].deque EXCEPT ![i] = q[c]]]
      <4>1. SinkFrom(q, exp, f, i)
              = [hole |-> f[c].hole, deque |-> [f[c].deque EXCEPT ![i] = q[c]]]
        BY <2>2 DEF SinkFrom
      <4> QED BY <1>3, <4>1
    <3> HIDE DEF c
    <3> DEFINE d == f[c].deque
               e == f[i].deque
               l == f[c].hole
    <3>3. f[i].hole = l /\ e = [d EXCEPT ![i] = q[c]]
      BY <3>2
    <3>4. n - c \in Nat /\ n - c < m /\ c = n - (n - c) /\ c \in 1..n
      BY <3>1
    <3>5. Sinks(c)
      BY <1>7, <3>4
    <3>6. /\ l \in c..n /\ 2 * l > n /\ d \in [1..n -> S]
          /\ \A k \in 1..n : k < c => d[k] = q[k]
          /\ \A k \in 1..n : exp[q[k]] <= exp[d[k]]
          /\ InOrderBut(d, n, exp, l)
      BY <3>5 DEF Sinks
    <3> HIDE DEF d, l
    <3>7. l \in i..n /\ l # i
      BY <3>1, <3>6
    <3>8. e \in [1..n -> S] /\ e[i] = q[c] /\ \A k \in 1..n : k # i => e[k] = d[k]
      BY <3>3, <3>4, <3>6
    <3> HIDE DEF e
    <3>9. exp[q[i]] <= exp[q[c]]
      <4>1. c \in 2..n
        BY <3>1
      <4> QED BY <1>6, <3>1, <4>1
    <3>10. \A k \in 1..n : k < i => e[k] = q[k]
      BY <3>1, <3>6, <3>8
    <3>11. \A k \in 1..n : exp[q[k]] <= exp[e[k]]
      BY <3>6, <3>8, <3>9
    <3>12. ASSUME NEW k \in 2..n, k # l PROVE exp[e[k \div 2]] <= exp[e[k]]
      <4>0. k \in 1..n /\ k \div 2 \in 1..n /\ k \div 2 < k
        BY <1>4
      <4>1. CASE k = i
        <5>1. e[k \div 2] = q[k \div 2] /\ e[k] = q[c]
          BY <3>8, <3>10, <4>0, <4>1
        <5>2. exp[q[k \div 2]] <= exp[q[i]]
          BY <1>6, <4>1
        <5> QED BY <1>5, <3>4, <3>9, <4>0, <5>1, <5>2
      <4>2. CASE k # i /\ k \div 2 = i
        <5>1. e[k \div 2] = q[c] /\ e[k] = d[k]
          BY <3>8, <4>0, <4>2
        <5>2. exp[q[c]] <= exp[q[k]] /\ exp[q[k]] <= exp[d[k]]
          BY <3>1, <3>6, <4>0, <4>2
        <5>3. exp[q[c]] \in Int /\ exp[q[k]] \in Int /\ exp[d[k]] \in Int
          BY <1>5, <3>4, <3>6, <4>0
        <5> QED BY <5>1, <5>2, <5>3
      <4>3. CASE k # i /\ k \div 2 # i
        <5>1. e[k \div 2] = d[k \div 2] /\ e[k] = d[k]
          BY <3>8, <4>0, <4>3
        <5> QED BY <3>6, <3>12, <5>1 DEF InOrderBut
      <4> QED BY <4>1, <4>2, <4>3
    <3>13. InOrderBut(e, n, exp, l)
      BY <3>12 DEF InOrderBut
    <3> QED BY <3>3, <3>6, <3>7, <3>8, <3>10, <3>11, <3>13 DEF Sinks, e
  <2> QED BY <2>1, <2>2
<1>8. Sinks(1)
  <2> HIDE DEF T
  <2>1. T = Nat
    BY <1>7, T \subseteq Nat, SetInduction DEF T
  <2>2. n - 1 \in T /\ 1 \in 1..n /\ 1 = n - (n - 1)
    BY <2>1
  <2> QED BY <2>2 DEF T
<1> QED
  BY <1>2, <1>8 DEF Sinks

LEMMA PopInOrder ==
  ASSUME NEW S, NEW q \in Seq(S), q # <<>>, NEW exp \in [S -> Nat], Once(q), InOrder(q, exp)
  PROVE  InOrder(Pop(q, exp), exp)
<1> DEFINE n == Len(q) - 1
           r == SubSeq(q, 1, n)
           w == q[Len(q)]
           sunk == SinkHole(r, exp)
<1>1. Len(q) \in Nat \ {0} /\ n \in Nat /\ \A i \in 1..Len(q) : q[i] \in S
  BY LenProperties, EmptySeq, ElementOfSeq
<1>2. CASE Len(q) = 1
  <2>1. Pop(q, exp) = <<>> /\ Len(<<>>) = 0
    BY <1>2, EmptySeq DEF Pop
  <2> QED BY <2>1 DEF InOrder
<1>3. CASE Len(q) # 1
  <2>1. n \in Nat \ {0} /\ Pop(q, exp) = PushUp(sunk.deque, exp, sunk.hole, w) /\ w \in S
    BY <1>1, <1>3 DEF Pop
  <2>2. Len(r) = n /\ r \in [1..n -> S] /\ \A i \in 1..n : r[i] = q[i]
    <3>1. n <= Len(q)
      BY <1>1
    <3> HIDE DEF n
    <3> QED BY <2>1, <3>1, PrefixIs
  <2>3. InOrder(r, exp)
    <3>1. \A k \in 2..n : k \in 2..Len(q) /\ k \in 1..n /\ k \div 2 \in 1..n
      BY <1>1, Half
    <3> HIDE DEF r, n
    <3> QED BY <2>2, <3>1 DEF InOrder
  <2> HIDE DEF n, r, w
  <2>4. sunk.hole \in 1..n /\ sunk.deque \in [1..n -> S]
    BY <2>1, <2>2, SinkHoleRearranges
  <2>5. 2 * sunk.hole > n /\ InOrderBut(sunk.deque, n, exp, sunk.hole)
    BY <2>1, <2>2, <2>3, SinkHoleInOrder
  <2> DEFINE s == Pop(q, exp)
  <2> HIDE DEF sunk
  <2>6. InOrderBut(s, n, exp, 0)
    BY <2>1, <2>4, <2>5, PushUpInOrder
  <2>7. Len(s) = n
    BY PopHolds DEF n
  <2> HIDE DEF s
  <2>8. InOrder(s, exp)
    BY <2>1, <2>6, <2>7 DEF InOrderBut, InOrder
  <2> QED BY <2>8 DEF s
<1> QED
  BY <1>2, <1>3

LEMMA PushInOrder ==
  ASSUME NEW S, NEW q \in Seq(S), NEW t \in S, NEW exp \in [S -> Nat], Once(q), t \notin Held(q),
         InOrder(q, exp)
  PROVE  InOrder(Push(q, exp, t), exp)
<1> DEFINE n == Len(q) + 1
           b == Append(q, t)
           s == Push(q, exp, t)
<1>1. n \in Nat /\ n \in 1..n /\ 2 * n > n
  BY LenProperties
<1>2. b \in [1..n -> S] /\ \A i \in 1..Len(q) : b[i] = q[i]
  <2>1. b \in Seq(S) /\ Len(b) = n /\ \A i \in 1..Len(q) : b[i] = q[i]
    BY AppendProperties
  <2> HIDE DEF b, n
  <2> QED BY <2>1, LenProperties
<1>3. InOrderBut(b, n, exp, n)
  <2>1. \A k \in 2..n : k # n => k \in 2..Len(q) /\ k \in 1..Len(q) /\ k \div 2 \in 1..Len(q)
    BY LenProperties, Half
  <2> HIDE DEF b, n
  <2> QED BY <1>2, <2>1 DEF InOrder, InOrderBut
<1>4. s = PushUp(b, exp, n, t)
  BY DEF Push
<1>5. Len(s) = n
  BY PushHolds
<1> HIDE DEF b, n, s
<1>6. InOrderBut(s, n, exp, 0)
  BY <1>1, <1>2, <1>3, <1>4, PushUpInOrder
<1>7. InOrder(s, exp)
  BY <1>1, <1>5, <1>6 DEF InOrderBut, InOrder
<1> QED
  BY <1>7 DEF s

\* Why it is enough to look at the top.
LEMMA TopIsEarliest ==
  ASSUME NEW S, NEW q \in Seq(S), NEW exp \in [S -> Nat], InOrder(q, exp)
  PROVE  \A i \in 1..Len(q) : exp[q[1]] <= exp[q[i]]
<1> DEFINE T == {i \in Nat : i \in 1..Len(q) => exp[q[1]] <= exp[q[i]]}
<1>1. Len(q) \in Nat /\ \A i \in 1..Len(q) : exp[q[i]] \in Nat
  BY LenProperties, ElementOfSeq
<1>2. ASSUME NEW i \in Nat, \A j \in Nat : j < i => j \in T PROVE i \in T
  <2> SUFFICES ASSUME i \in 1..Len(q) PROVE exp[q[1]] <= exp[q[i]]
    OBVIOUS
  <2>1. CASE i = 1
    BY <1>1, <2>1
  <2>2. CASE i # 1
    <3>1. i \div 2 \in 1..(i - 1) /\ i \in 2..Len(q)
      BY <1>1, <2>2, Half
    <3>2. i \div 2 \in Nat /\ i \div 2 < i /\ i \div 2 \in 1..Len(q) /\ 1 \in 1..Len(q)
      BY <1>1, <3>1
    <3>3. exp[q[1]] <= exp[q[i \div 2]]
      BY <1>2, <3>2
    <3>4. exp[q[i \div 2]] <= exp[q[i]]
      BY <3>1 DEF InOrder
    <3> QED BY <1>1, <3>2, <3>3, <3>4
  <2> QED BY <2>1, <2>2
<1> HIDE DEF T
<1>3. T = Nat
  BY <1>2, T \subseteq Nat, SetInduction DEF T
<1> QED
  BY <1>1, <1>3 DEF T

(***************************************************************************)
(* TimerQueue: the invariant.                                               *)
(***************************************************************************)

\* The deque holds exactly the queued timers, each at one place.
HeldOnce == Held(queue) = {t \in Timers : state[t] = "queued"} /\ Once(queue)

\* Only ClearCallback and HandleExpiredEvent mark a timer as deleted.
DeletedInv ==
  \A t \in Timers : m_deleted[t] => cleared[t] \/ state[t] = "run"

\* Until the first Update the deque is in order.
OrderInv == ~updated => InOrder(queue, m_expiredTime)

\* While the loop sleeps, it does so at most until the top expires.
SleepInv ==
  stage = "wait" /\ queue # <<>> /\ now < deadline => deadline <= m_expiredTime[queue[1]]

TimerInv == TimerTypeOK /\ HeldOnce /\ DeletedInv /\ OrderInv /\ SleepInv

LEMMA InitTimer == TimerInit => TimerInv
<1> SUFFICES ASSUME TimerInit PROVE TimerInv
  OBVIOUS
<1>1. queue \in Seq(Timers) /\ Len(queue) = 0 /\ 1..0 = {}
  BY EmptySeq DEF TimerInit
<1>2. TimerTypeOK
  <2>1. now \in 0..MaxTime /\ m_expiredTime \in [Timers -> Nat]
    BY TimeAssumption DEF TimerInit
  <2>2. state \in [Timers -> {"new", "queued", "run", "dropped"}]
    BY DEF TimerInit
  <2>3. m_deleted \in [Timers -> BOOLEAN] /\ cleared \in [Timers -> BOOLEAN]
    BY DEF TimerInit
  <2> QED BY <1>1, <2>1, <2>2, <2>3 DEF TimerInit, TimerTypeOK
<1>3. HeldOnce /\ DeletedInv /\ OrderInv /\ SleepInv
  BY <1>1 DEF TimerInit, HeldOnce, Held, Once, DeletedInv, OrderInv, InOrder, SleepInv
<1> QED
  BY <1>2, <1>3 DEF TimerInv

LEMMA AddTimerStep ==
  ASSUME TimerInv, NEW t \in Timers, NEW d \in Timeouts, AddTimer(t, d)
  PROVE  TimerInv'
<1> USE DEF TimerInv, AddTimer
<1>1. queue \in Seq(Timers) /\ Len(queue) \in Nat
  BY LenProperties DEF TimerTypeOK
<1>2. t \notin Held(queue)
  BY DEF HeldOnce
<1>3. queue' \in Seq(Timers) /\ Held(queue') = Held(queue) \cup {t} /\ Once(queue')
  BY <1>1, <1>2, PushHolds DEF HeldOnce
<1>4. m_expiredTime' \in [Timers -> Nat]
  BY TimeAssumption DEF TimerTypeOK
<1>5. TimerTypeOK'
  BY <1>3, <1>4 DEF TimerTypeOK
<1>6. {u \in Timers : state'[u] = "queued"} = {u \in Timers : state[u] = "queued"} \cup {t}
  BY DEF TimerTypeOK
<1>7. HeldOnce'
  BY <1>3, <1>6 DEF HeldOnce
<1>8. DeletedInv'
  BY DEF DeletedInv, TimerTypeOK
<1>9. OrderInv'
  <2> SUFFICES ASSUME ~updated PROVE InOrder(queue', m_expiredTime')
    BY DEF OrderInv
  <2>1. ASSUME NEW k \in 2..Len(queue)
        PROVE  m_expiredTime'[queue[k \div 2]] <= m_expiredTime'[queue[k]]
    <3>1. k \in 1..Len(queue) /\ k \div 2 \in 1..Len(queue)
      BY <1>1, Half
    <3>2. /\ queue[k] \in Timers /\ queue[k \div 2] \in Timers
          /\ queue[k] # t /\ queue[k \div 2] # t
      BY <1>1, <1>2, <3>1, ElementOfSeq DEF Held
    <3>3. m_expiredTime[queue[k \div 2]] <= m_expiredTime[queue[k]]
      BY DEF OrderInv, InOrder
    <3> QED BY <3>2, <3>3 DEF TimerTypeOK
  <2>2. InOrder(queue, m_expiredTime')
    BY <2>1 DEF InOrder
  <2> QED BY <1>1, <1>2, <1>4, <2>2, PushInOrder DEF HeldOnce
<1>10. SleepInv'
  BY DEF SleepInv
<1> QED
  BY <1>5, <1>7, <1>8, <1>9, <1>10

LEMMA RunTopStep ==
  ASSUME TimerInv, RunTop
  PROVE  TimerInv'
<1> USE DEF TimerInv, RunTop
<1> DEFINE t == queue[1]
<1>1. queue \in Seq(Timers) /\ queue # <<>> /\ Len(queue) \in Nat \ {0}
  BY LenProperties, EmptySeq DEF TimerTypeOK, TopIsDue
<1>2. t \in Timers /\ 1 \in 1..Len(queue) /\ state[t] = "queued"
  BY <1>1, ElementOfSeq DEF HeldOnce, Held
<1>3. queue' \in Seq(Timers) /\ Held(queue') = Held(queue) \ {t} /\ Once(queue')
  BY <1>1, PopHolds DEF HeldOnce
<1>4. TimerTypeOK'
  BY <1>3 DEF TimerTypeOK
<1>5. {u \in Timers : state'[u] = "queued"} = {u \in Timers : state[u] = "queued"} \ {t}
  BY <1>2 DEF TimerTypeOK
<1>6. HeldOnce'
  BY <1>3, <1>5 DEF HeldOnce
<1>7. DeletedInv'
  BY <1>2 DEF DeletedInv, TimerTypeOK, HasCallback
<1>8. OrderInv'
  BY <1>1, PopInOrder DEF OrderInv, HeldOnce, TimerTypeOK
<1>9. SleepInv'
  BY DEF SleepInv
<1> QED
  BY <1>4, <1>6, <1>7, <1>8, <1>9

LEMMA TimerInvariant == TimerSpec => []TimerInv
<1>1. TimerInv /\ [TimerNext]_timerQueueVars => TimerInv'
  <2> SUFFICES ASSUME TimerInv, [TimerNext]_timerQueueVars PROVE TimerInv'
    OBVIOUS
  <2> USE DEF TimerInv, TimerTypeOK, HeldOnce, Held, Once, DeletedInv, OrderInv, InOrder, SleepInv
  <2>1. ASSUME NEW t \in Timers, NEW d \in Timeouts, AddTimer(t, d) PROVE TimerInv'
    BY <2>1, AddTimerStep
  <2>2. ASSUME NEW t \in Timers, NEW d \in Timeouts, Update(t, d) PROVE TimerInv'
    <3>1. m_expiredTime' \in [Timers -> Nat]
      BY <2>2, TimeAssumption DEF Update
    <3> QED BY <2>2, <3>1 DEF Update
  <2>3. ASSUME NEW t \in Timers, ClearCallback(t) PROVE TimerInv'
    BY <2>3 DEF ClearCallback
  <2>4. CASE RunTop
    BY <2>4, RunTopStep
  <2>5. CASE EndExpired
    BY <2>5 DEF EndExpired
  <2>6. CASE WaitForEvents
    <3>1. CASE queue = <<>>
      BY <2>6, <3>1 DEF WaitForEvents, GetNextTimeOut
    <3>2. CASE queue # <<>>
      <4>1. m_expiredTime[queue[1]] \in Nat
        <5>1. queue[1] \in Timers
          BY <3>2, EmptySeq, LenProperties, ElementOfSeq
        <5> QED BY <5>1
      <4>2. GetNextTimeOut \in Nat
        BY <3>2, <4>1 DEF GetNextTimeOut
      <4>3. /\ deadline' \in Nat /\ deadline' >= now
            /\ now < deadline' => deadline' <= m_expiredTime[queue[1]]
        <5>1. deadline' = now + GetNextTimeOut
          BY <2>6, <4>2 DEF WaitForEvents
        <5> QED BY <3>2, <4>1, <4>2, <5>1 DEF GetNextTimeOut
      <4> QED BY <2>6, <3>2, <4>3 DEF WaitForEvents
    <3> QED BY <3>1, <3>2
  <2>7. CASE EndWait
    BY <2>7 DEF EndWait
  <2>8. CASE HandleExpiredEvent
    BY <2>8 DEF HandleExpiredEvent
  <2>9. CASE Tick
    BY <2>9, TimeAssumption DEF Tick
  <2>10. CASE UNCHANGED timerQueueVars
    BY <2>10 DEF timerQueueVars
  <2> QED
    BY <2>1, <2>2, <2>3, <2>4, <2>5, <2>6, <2>7, <2>8, <2>9, <2>10 DEF TimerNext
<1> QED
  BY <1>1, InitTimer, PTL DEF TimerSpec

\* The priority_queue loses and repeats no timer, for any number of timers and
\* however often Update changes a key inside it: push_heap and pop_heap only
\* rearrange, whatever the order is that they find (Timer.h:45, Timer.cpp:20, 47).
THEOREM QueueTheorem == TimerSpec => []QueueIsExact
<1>1. TimerInv => QueueIsExact
  <2> SUFFICES ASSUME TimerInv PROVE QueueIsExact
    OBVIOUS
  <2> DEFINE Q == {t \in Timers : state[t] = "queued"}
  <2>1. Len(queue) \in Nat /\ queue \in [1..Len(queue) -> Timers]
    BY LenProperties DEF TimerInv, TimerTypeOK
  <2>2. queue \in Bijection(1..Len(queue), Q)
    <3>1. queue \in [1..Len(queue) -> Q]
      BY <2>1 DEF TimerInv, HeldOnce, Held, Once
    <3>2. \A t \in Q : \E i \in 1..Len(queue) : queue[i] = t
      BY DEF TimerInv, HeldOnce, Held, Once
    <3>3. queue \in Injection(1..Len(queue), Q)
      BY <3>1 DEF TimerInv, HeldOnce, Held, Once, Injection, IsInjective
    <3>4. queue \in Surjection(1..Len(queue), Q)
      <4> HIDE DEF Q
      <4> QED BY <3>1, <3>2 DEF Surjection
    <3> QED BY <3>3, <3>4 DEF Bijection
  <2>3. Cardinality(Q) = Len(queue)
    BY <2>1, <2>2, FS_CountingElements DEF ExistsBijection
  <2> QED
    BY <2>3 DEF QueueIsExact, TimerInv, HeldOnce, Held, Once
<1> QED
  BY <1>1, TimerInvariant, PTL

\* Without Update the top is the earliest timer, so that the sleep, which ends when
\* the top expires, ends for each of them in time, whatever was added, cleared and
\* run in between (TimerCmp, Timer.cpp:44-64).
THEOREM OnTimeTheorem == TimerSpec => []OnTimeUnlessUpdated
<1>1. TimerInv => OnTimeUnlessUpdated
  <2> SUFFICES ASSUME TimerInv, ~updated, stage = "wait", deadline = -1 \/ now < deadline,
                      NEW t \in Timers, state[t] = "queued"
               PROVE  now < m_expiredTime[t]
    BY DEF OnTimeUnlessUpdated
  <2> USE DEF TimerInv, TimerTypeOK
  <2>1. PICK i \in 1..Len(queue) : queue[i] = t
    BY DEF HeldOnce, Held
  <2>2. queue # <<>> /\ queue[1] \in Timers
    BY <2>1, LenProperties, EmptySeq, ElementOfSeq
  <2>3. now < deadline /\ deadline <= m_expiredTime[queue[1]]
    BY <2>2 DEF SleepInv
  <2>4. m_expiredTime[queue[1]] <= m_expiredTime[t]
    BY <2>1, TopIsEarliest DEF OrderInv
  <2> QED
    BY <2>2, <2>3, <2>4
<1> QED
  BY <1>1, TimerInvariant, PTL

\* No callback runs before its time or after ClearCallback, although Update moves
\* expiries inside the heap: what is popped is what was looked at, and it is looked
\* at with its expiry of that moment (Timer.cpp:25, 44-49).
THEOREM NeverEarlyTheorem == TimerSpec => NeverEarly
<1>1. ASSUME TimerInv, TimerNext, NEW t \in Timers, state[t] # "run", state'[t] = "run"
      PROVE  now >= m_expiredTime[t] /\ ~cleared[t]
  <2> USE DEF TimerInv, TimerTypeOK
  <2>1. RunTop
    BY <1>1 DEF TimerNext, AddTimer, Update, ClearCallback, EndExpired, WaitForEvents,
                EndWait, HandleExpiredEvent, Tick
  <2>2. t = queue[1] /\ HasCallback(t)
    BY <1>1, <2>1 DEF RunTop
  <2>3. ~cleared[t]
    BY <2>2 DEF HasCallback
  <2>4. ~m_deleted[t]
    BY <1>1, <2>3 DEF DeletedInv
  <2>5. now >= m_expiredTime[t]
    BY <1>1, <2>1, <2>2, <2>4 DEF RunTop, TopIsDue, IsValid
  <2> QED
    BY <2>3, <2>5
<1>2. TimerInv /\ [TimerNext]_timerQueueVars =>
        [\A t \in Timers : (state[t] # "run" /\ state'[t] = "run")
                             => now >= m_expiredTime[t] /\ ~cleared[t]]_timerQueueVars
  BY <1>1
<1> QED
  BY <1>2, TimerInvariant, PTL DEF TimerSpec, NeverEarly
=============================================================================
