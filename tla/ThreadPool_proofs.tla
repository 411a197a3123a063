-------------------------- MODULE ThreadPool_proofs --------------------------
(***************************************************************************)
(* IInv of ThreadPool is inductive for any number of workers, callers and  *)
(* tasks and any bound of the queue; the safety properties follow.         *)
(***************************************************************************)
EXTENDS ThreadPool, SequenceTheorems, FiniteSetTheorems, TLAPS

USE PoolSizeAssumption, NoTaskAssumption

Worker == [pc : {"loop", "run", "ran", "exited"}, task : Tasks \cup {None}]
Caller == [pc : Calls, task : Tasks \cup {None}]

\* Init establishes the invariant.
LEMMA InitIInv == Init => IInv
  <1> SUFFICES ASSUME Init PROVE IInv
    OBVIOUS
  <1> USE DEF Init
  <1>1. TypeOK
    <2>1. Looping \in Worker /\ Idle \in Caller
      BY DEF Looping, Idle, Worker, Caller, Calls
    <2>2. worker \in [Workers -> Worker] /\ caller \in [Callers -> Caller]
      BY <2>1
    <2>3. << >> \in Seq(Tasks) /\ 0 \in Nat /\ FALSE \in BOOLEAN
      OBVIOUS
    <2>4. QED
      BY <2>2, <2>3, Zenon DEF TypeOK, Worker, Caller
  <1>2. QueueBounded /\ FirstInFirstOut
    BY DEF QueueBounded, FirstInFirstOut
  <1>3. ActiveCountIsExact
    <2>1. Busy = {}
      BY DEF Busy, Looping
    <2>2. QED
      BY <2>1, FS_EmptySet DEF ActiveCountIsExact
  <1>4. WorkerInv /\ CallInv
    BY DEF WorkerInv, CallInv, Looping, Idle
  <1>5. QED
    BY <1>1, <1>2, <1>3, <1>4 DEF IInv

-----------------------------------------------------------------------------
\* The steps that neither move a task nor start or end a worker's wait or life.
Quiet ==
    \/ \E c \in Callers :
          \/ \E t \in Tasks : Submit(c, t)
          \/ WaitIdle(c) \/ SubmitWaits(c) \/ SubmitRefused(c)
          \/ WaitIdleWaits(c) \/ WaitIdleReturns(c)
          \/ NotifyWorkers(c) \/ NotifySubmitters(c) \/ NotifyIdle(c)
    \/ SpuriousWakeup
    \/ UNCHANGED vars

LEMMA NextSteps ==
    [Next]_vars =>
        \/ Quiet
        \/ \E c \in Callers : Shutdown(c) \/ SubmitEnqueues(c) \/ JoinWorkers(c)
        \/ \E w \in Workers : WorkerThread(w)
  BY DEF Next, Call, CallerThread, ShutdownAgain, Quiet

LEMMA QuietFrame ==
    Quiet => /\ UNCHANGED <<tasks, active_count, shutting_down, uncaught, worker,
                            accepted, started, finished>>
             /\ task_waiters' \subseteq task_waiters
  <1> DEFINE Frame == /\ UNCHANGED <<tasks, active_count, shutting_down, uncaught, worker,
                                     accepted, started, finished>>
                      /\ task_waiters' \subseteq task_waiters
  <1> USE DEF waiters, history
  <1>1. ASSUME NEW c \in Callers
        PROVE  /\ \A t \in Tasks : Submit(c, t) => Frame
               /\ WaitIdle(c) \/ SubmitWaits(c) \/ SubmitRefused(c) => Frame
    BY DEF Submit, WaitIdle, SubmitWaits, SubmitRefused
  <1>2. ASSUME NEW c \in Callers
        PROVE  /\ WaitIdleWaits(c) \/ WaitIdleReturns(c) => Frame
               /\ NotifyWorkers(c) \/ NotifySubmitters(c) \/ NotifyIdle(c) => Frame
    BY DEF WaitIdleWaits, WaitIdleReturns, NotifyWorkers, NotifySubmitters, NotifyIdle
  <1>3. SpuriousWakeup => Frame
    BY DEF SpuriousWakeup
  <1>4. UNCHANGED vars => Frame
    BY DEF vars
  <1>5. QED
    BY <1>1, <1>2, <1>3, <1>4 DEF Quiet

\* Moving the head of the queue to the end of what was taken keeps their sum.
LEMMA MoveHead ==
    ASSUME NEW E, NEW s \in Seq(E), NEW t \in Seq(E), t # << >>
    PROVE  /\ Head(t) \in E /\ Tail(t) \in Seq(E) /\ Len(Tail(t)) = Len(t) - 1
           /\ Append(s, Head(t)) \in Seq(E)
           /\ Append(s, Head(t)) \o Tail(t) = s \o t
  <1>1. Head(t) \in E /\ Tail(t) \in Seq(E) /\ Len(Tail(t)) = Len(t) - 1
    BY HeadTailProperties
  <1>2. Append(s, Head(t)) = s \o <<Head(t)>>
    BY <1>1, AppendIsConcat
  <1>3. <<Head(t)>> \in Seq(E)
    BY <1>1
  <1>4. (s \o <<Head(t)>>) \o Tail(t) = s \o (<<Head(t)>> \o Tail(t))
    BY <1>1, <1>3, ConcatAssociative
  <1>5. <<Head(t)>> \o Tail(t) = t
    BY <1>1
  <1>6. QED
    BY <1>1, <1>2, <1>4, <1>5

\* Appending to the queue appends to the sum.
LEMMA AppendBehind ==
    ASSUME NEW E, NEW s \in Seq(E), NEW t \in Seq(E), NEW e \in E
    PROVE  s \o Append(t, e) = Append(s \o t, e)
  <1>1. Append(t, e) = t \o <<e>>
    BY AppendIsConcat
  <1>2. s \o t \in Seq(E) /\ <<e>> \in Seq(E)
    OBVIOUS
  <1>3. Append(s \o t, e) = (s \o t) \o <<e>>
    BY <1>2, AppendIsConcat
  <1>4. (s \o t) \o <<e>> = s \o (t \o <<e>>)
    BY <1>2, ConcatAssociative
  <1>5. QED
    BY <1>1, <1>3, <1>4

\* A worker between taking a task and counting it out is counted.
LEMMA BusyIsCounted ==
    ASSUME TypeOK, ActiveCountIsExact, NEW w \in Busy
    PROVE  active_count \in Nat \ {0}
  <1>1. Busy \in SUBSET Workers
    BY DEF Busy
  <1>2. IsFiniteSet(Busy)
    BY <1>1, FS_Subset
  <1>3. Cardinality(Busy) # 0
    BY <1>2, FS_EmptySet
  <1>4. QED
    BY <1>3 DEF ActiveCountIsExact, TypeOK

-----------------------------------------------------------------------------
\* Each step keeps the variables in their types.
LEMMA TypeOKStep == IInv /\ [Next]_vars => TypeOK'
  <1> SUFFICES ASSUME IInv, [Next]_vars PROVE TypeOK'
    OBVIOUS
  <1>1. /\ tasks \in Seq(Tasks) /\ accepted \in Seq(Tasks) /\ started \in Seq(Tasks)
        /\ active_count \in Nat /\ shutting_down \in BOOLEAN /\ uncaught \in Nat
        /\ worker \in [Workers -> Worker] /\ caller \in [Callers -> Caller]
        /\ task_waiters \subseteq Workers /\ space_waiters \subseteq Callers
        /\ idle_waiters \subseteq Callers /\ refused \subseteq Tasks /\ finished \subseteq Tasks
    BY DEF IInv, TypeOK, Worker, Caller
  <1> DEFINE Goal ==
        /\ tasks' \in Seq(Tasks) /\ accepted' \in Seq(Tasks) /\ started' \in Seq(Tasks)
        /\ active_count' \in Nat /\ shutting_down' \in BOOLEAN /\ uncaught' \in Nat
        /\ worker' \in [Workers -> Worker] /\ caller' \in [Callers -> Caller]
        /\ task_waiters' \subseteq Workers /\ space_waiters' \subseteq Callers
        /\ idle_waiters' \subseteq Callers /\ refused' \subseteq Tasks /\ finished' \subseteq Tasks
  <1>2. Goal => TypeOK'
    BY DEF TypeOK, Worker, Caller
  <1>3. /\ Idle \in Caller /\ Looping \in Worker
        /\ \A call \in Calls : In(call) \in Caller
        /\ \A t \in Tasks : [pc |-> "submit", task |-> t] \in Caller
        /\ \A t \in Tasks : [pc |-> "run", task |-> t] \in Worker
    BY DEF Idle, Looping, Caller, Worker, In, Calls
  <1> USE <1>1, <1>3 DEF waiters, history
  <1>4. ASSUME NEW c \in Callers, \E t \in Tasks : Submit(c, t)
        PROVE  Goal
    BY <1>4 DEF Submit
  <1>5. ASSUME NEW c \in Callers, SubmitWaits(c) \/ WaitIdleWaits(c)
        PROVE  Goal
    BY <1>5 DEF SubmitWaits, WaitIdleWaits
  <1>6. ASSUME NEW c \in Callers, SubmitRefused(c)
        PROVE  Goal
    BY <1>6 DEF SubmitRefused, IInv, CallInv
  <1>7. ASSUME NEW c \in Callers, SubmitEnqueues(c)
        PROVE  Goal
    <2>1. caller[c].task \in Tasks
      BY <1>7 DEF SubmitEnqueues, IInv, CallInv
    <2>2. \A s \in Seq(Tasks) : Append(s, caller[c].task) \in Seq(Tasks)
      BY <2>1, AppendProperties
    <2>3. task_waiters' \subseteq Workers
      BY <1>7 DEF SubmitEnqueues, NotifyOne
    <2>4. QED
      BY <1>7, <2>2, <2>3 DEF SubmitEnqueues
  <1>8. ASSUME NEW c \in Callers, WaitIdle(c) \/ WaitIdleReturns(c)
        PROVE  Goal
    BY <1>8 DEF WaitIdle, WaitIdleReturns, Calls
  <1>9. ASSUME NEW c \in Callers, Shutdown(c) \/ NotifyWorkers(c) \/ NotifySubmitters(c)
        PROVE  Goal
    BY <1>9 DEF Shutdown, NotifyWorkers, NotifySubmitters, Calls
  <1>10. ASSUME NEW c \in Callers, JoinWorkers(c) \/ NotifyIdle(c)
         PROVE  Goal
    BY <1>10 DEF JoinWorkers, NotifyIdle, Calls
  <1>11. ASSUME NEW w \in Workers, WorkerWaits(w) \/ WorkerExits(w)
         PROVE  Goal
    <2>1. [worker[w] EXCEPT !.pc = "exited"] \in Worker
      BY DEF Worker
    <2>2. QED
      BY <1>11, <2>1 DEF WorkerWaits, WorkerExits
  <1>12. ASSUME NEW w \in Workers, TakeTask(w)
         PROVE  Goal
    <2>1. /\ Head(tasks) \in Tasks /\ Tail(tasks) \in Seq(Tasks)
          /\ Append(started, Head(tasks)) \in Seq(Tasks)
      BY <1>12, MoveHead DEF TakeTask
    <2>2. space_waiters' \subseteq Callers
      BY <1>12 DEF TakeTask, NotifyOne
    <2>3. QED
      BY <1>12, <2>1, <2>2 DEF TakeTask
  <1>13. ASSUME NEW w \in Workers, RunTask(w)
         PROVE  Goal
    <2>1. [worker[w] EXCEPT !.pc = "ran"] \in Worker
      BY DEF Worker
    <2>2. worker[w].task \in Tasks
      BY <1>13 DEF RunTask, IInv, WorkerInv
    <2>3. QED
      BY <1>13, <2>1, <2>2 DEF RunTask
  <1>14. ASSUME NEW w \in Workers, TaskDone(w)
         PROVE  Goal
    <2>1. active_count \in Nat \ {0}
      BY <1>14, BusyIsCounted DEF TaskDone, Busy, IInv
    <2>2. QED
      BY <1>14, <2>1 DEF TaskDone
  <1>15. ASSUME SpuriousWakeup PROVE Goal
    BY <1>15 DEF SpuriousWakeup
  <1>16. ASSUME UNCHANGED vars PROVE Goal
    BY <1>16 DEF vars
  <1>17. QED
    BY <1>2, <1>4, <1>5, <1>6, <1>7, <1>8, <1>9, <1>10, <1>11, <1>12, <1>13, <1>14, <1>15, <1>16
       DEF Next, Call, CallerThread, WorkerThread, ShutdownAgain

\* The tasks taken and the tasks queued stay the accepted tasks in their order,
\* and the queue within its bound.
LEMMA QueueStep == IInv /\ [Next]_vars => FirstInFirstOut' /\ QueueBounded'
  <1> SUFFICES ASSUME IInv, [Next]_vars PROVE FirstInFirstOut' /\ QueueBounded'
    OBVIOUS
  <1>1. /\ tasks \in Seq(Tasks) /\ accepted \in Seq(Tasks) /\ started \in Seq(Tasks)
        /\ accepted = started \o tasks
        /\ Len(tasks) <= max_queue_size /\ Len(tasks) \in Nat
    BY DEF IInv, TypeOK, FirstInFirstOut, QueueBounded
  <1> USE DEF FirstInFirstOut, QueueBounded
  <1>2. CASE UNCHANGED <<tasks, accepted, started>>
    BY <1>1, <1>2
  <1>3. ASSUME NEW c \in Callers, SubmitEnqueues(c)
        PROVE  FirstInFirstOut' /\ QueueBounded'
    <2>1. caller[c].task \in Tasks
      BY <1>3 DEF SubmitEnqueues, IInv, CallInv
    <2>2. /\ tasks' = Append(tasks, caller[c].task)
          /\ accepted' = Append(accepted, caller[c].task)
          /\ started' = started /\ Len(tasks) < max_queue_size
      BY <1>3 DEF SubmitEnqueues
    <2>3. started \o Append(tasks, caller[c].task) = Append(started \o tasks, caller[c].task)
      BY <1>1, <2>1, AppendBehind
    <2>4. Len(tasks') = Len(tasks) + 1
      BY <1>1, <2>1, <2>2, AppendProperties
    <2>5. QED
      BY <1>1, <2>2, <2>3, <2>4
  <1>4. ASSUME NEW w \in Workers, TakeTask(w)
        PROVE  FirstInFirstOut' /\ QueueBounded'
    <2>1. /\ tasks # << >> /\ tasks' = Tail(tasks) /\ accepted' = accepted
          /\ started' = Append(started, Head(tasks))
      BY <1>4 DEF TakeTask
    <2>2. Append(started, Head(tasks)) \o Tail(tasks) = started \o tasks
      BY <1>1, <2>1, MoveHead
    <2>3. Len(Tail(tasks)) = Len(tasks) - 1
      BY <1>1, <2>1, MoveHead
    <2>4. QED
      BY <1>1, <2>1, <2>2, <2>3
  <1>5. ASSUME NEW c \in Callers, Shutdown(c) \/ JoinWorkers(c)
        PROVE  FirstInFirstOut' /\ QueueBounded'
    BY <1>2, <1>5 DEF Shutdown, JoinWorkers, history
  <1>6. ASSUME NEW w \in Workers, WorkerThread(w), ~TakeTask(w)
        PROVE  FirstInFirstOut' /\ QueueBounded'
    BY <1>2, <1>6 DEF WorkerThread, WorkerWaits, WorkerExits, RunTask, TaskDone, history
  <1>7. QED
    BY <1>2, <1>3, <1>4, <1>5, <1>6, NextSteps, QuietFrame

\* active_count_ follows the workers that take a task and count it out.
LEMMA ActiveCountStep == IInv /\ [Next]_vars => ActiveCountIsExact'
  <1> SUFFICES ASSUME IInv, [Next]_vars PROVE ActiveCountIsExact'
    OBVIOUS
  <1>1. /\ worker \in [Workers -> Worker]
        /\ active_count \in Nat /\ active_count = Cardinality(Busy) /\ IsFiniteSet(Busy)
    <2>1. Busy \in SUBSET Workers
      BY DEF Busy
    <2>2. IsFiniteSet(Busy)
      BY <2>1, FS_Subset
    <2>3. QED
      BY <2>2 DEF IInv, TypeOK, Worker, ActiveCountIsExact
  <1>2. CASE UNCHANGED <<worker, active_count>>
    BY <1>1, <1>2 DEF Busy, ActiveCountIsExact
  <1>3. ASSUME NEW w \in Workers, TakeTask(w)
        PROVE  ActiveCountIsExact'
    <2>1. w \notin Busy /\ active_count' = active_count + 1
      BY <1>3 DEF TakeTask, Busy
    <2>2. worker'[w].pc = "run" /\ \A v \in Workers : v # w => worker'[v] = worker[v]
      BY <1>1, <1>3 DEF TakeTask
    <2>3. Busy' = Busy \cup {w}
      BY <2>2 DEF Busy
    <2>4. Cardinality(Busy \cup {w}) = Cardinality(Busy) + 1
      BY <1>1, <2>1, FS_AddElement
    <2>5. QED
      BY <1>1, <2>1, <2>3, <2>4 DEF ActiveCountIsExact
  <1>4. ASSUME NEW w \in Workers, TaskDone(w)
        PROVE  ActiveCountIsExact'
    <2>1. w \in Busy /\ active_count' = active_count - 1
      BY <1>4 DEF TaskDone, Busy
    <2>2. worker'[w].pc = "loop" /\ \A v \in Workers : v # w => worker'[v] = worker[v]
      BY <1>1, <1>4 DEF TaskDone, Looping
    <2>3. Busy' = Busy \ {w}
      BY <2>2 DEF Busy
    <2>4. Cardinality(Busy \ {w}) = Cardinality(Busy) - 1
      BY <1>1, <2>1, FS_RemoveElement
    <2>5. QED
      BY <1>1, <2>1, <2>3, <2>4 DEF ActiveCountIsExact
  <1>5. ASSUME NEW w \in Workers, WorkerWaits(w) \/ WorkerExits(w) \/ RunTask(w)
        PROVE  ActiveCountIsExact'
    <2>1. active_count' = active_count
      BY <1>5 DEF WorkerWaits, WorkerExits, RunTask
    <2>2. /\ worker'[w].pc \in {"run", "ran"} <=> worker[w].pc \in {"run", "ran"}
          /\ \A v \in Workers : v # w => worker'[v] = worker[v]
      BY <1>1, <1>5 DEF WorkerWaits, WorkerExits, RunTask, Worker
    <2>3. Busy' = Busy
      BY <2>2 DEF Busy
    <2>4. QED
      BY <1>1, <2>1, <2>3 DEF ActiveCountIsExact
  <1>6. ASSUME NEW c \in Callers, Shutdown(c) \/ SubmitEnqueues(c) \/ JoinWorkers(c)
        PROVE  ActiveCountIsExact'
    BY <1>2, <1>6 DEF Shutdown, SubmitEnqueues, JoinWorkers
  <1>7. QED
    BY <1>2, <1>3, <1>4, <1>5, <1>6, NextSteps, QuietFrame DEF WorkerThread

\* Calls go through their steps with a task to submit, or with the flag set.
LEMMA CallInvStep == IInv /\ [Next]_vars => CallInv'
  <1> SUFFICES ASSUME IInv, [Next]_vars PROVE CallInv'
    OBVIOUS
  <1>1. caller \in [Callers -> Caller] /\ CallInv
    BY DEF IInv, TypeOK, Caller
  <1>2. CASE UNCHANGED <<caller, shutting_down>>
    BY <1>1, <1>2 DEF CallInv
  <1>3. ASSUME NEW c \in Callers, NEW t \in Tasks, Submit(c, t)
        PROVE  CallInv'
    BY <1>1, <1>3 DEF Submit, CallInv
  <1>4. ASSUME NEW c \in Callers,
               SubmitRefused(c) \/ SubmitEnqueues(c) \/ WaitIdleReturns(c) \/ NotifyIdle(c)
        PROVE  CallInv'
    BY <1>1, <1>4 DEF SubmitRefused, SubmitEnqueues, WaitIdleReturns, NotifyIdle, CallInv, Idle
  <1>5. ASSUME NEW c \in Callers, WaitIdle(c)
        PROVE  CallInv'
    BY <1>1, <1>5 DEF WaitIdle, CallInv, In
  <1>6. ASSUME NEW c \in Callers,
               Shutdown(c) \/ NotifyWorkers(c) \/ NotifySubmitters(c) \/ JoinWorkers(c)
        PROVE  CallInv'
    BY <1>1, <1>6 DEF Shutdown, NotifyWorkers, NotifySubmitters, JoinWorkers, CallInv, In
  <1>7. ASSUME NEW c \in Callers, SubmitWaits(c) \/ WaitIdleWaits(c)
        PROVE  CallInv'
    BY <1>2, <1>7 DEF SubmitWaits, WaitIdleWaits
  <1>8. ASSUME NEW w \in Workers, WorkerThread(w)
        PROVE  CallInv'
    BY <1>2, <1>8 DEF WorkerThread, WorkerWaits, WorkerExits, TakeTask, RunTask, TaskDone
  <1>9. CASE SpuriousWakeup \/ UNCHANGED vars
    BY <1>2, <1>9 DEF SpuriousWakeup, vars
  <1>10. QED
    BY <1>2, <1>3, <1>4, <1>5, <1>6, <1>7, <1>8, <1>9 DEF Next, Call, CallerThread, ShutdownAgain

\* The parts of WorkerInv.
NoneWaitsBusy == \A w \in task_waiters : worker[w].pc = "loop"
RunsTasks == \A w \in Workers : worker[w].pc = "run" => worker[w].task \in Tasks
ExitsDrained == \A w \in Workers : worker[w].pc = "exited" => shutting_down /\ tasks = << >>
TakenIsRun == \A i \in 1..Len(started) :
    \/ started[i] \in finished
    \/ \E w \in Workers : worker[w].pc = "run" /\ worker[w].task = started[i]
JoinedAll == \A c \in Callers :
    caller[c].pc = "notify_idle" => \A w \in Workers : worker[w].pc = "exited"

LEMMA WorkerInvParts ==
    WorkerInv <=> NoneWaitsBusy /\ RunsTasks /\ ExitsDrained /\ TakenIsRun /\ JoinedAll
  BY DEF WorkerInv, NoneWaitsBusy, RunsTasks, ExitsDrained, TakenIsRun, JoinedAll

\* Only a shutdown that saw every worker exited gets past its joins.
LEMMA JoinedAllStep == IInv /\ [Next]_vars => JoinedAll'
  <1> SUFFICES ASSUME IInv, [Next]_vars, NEW c \in Callers, caller'[c].pc = "notify_idle",
                      NEW w \in Workers
               PROVE  worker'[w].pc = "exited"
    BY DEF JoinedAll
  <1>1. caller \in [Callers -> Caller] /\ worker \in [Workers -> Worker]
    BY DEF IInv, TypeOK, Caller, Worker
  <1>2. caller[c].pc = "notify_idle" => worker[w].pc = "exited"
    BY DEF IInv, WorkerInv
  <1>3. caller[c].pc = "notify_idle" \/ \A v \in Workers : worker[v].pc = "exited"
    <2>1. ASSUME NEW d \in Callers, JoinWorkers(d)
          PROVE  \A v \in Workers : worker[v].pc = "exited"
      BY <2>1 DEF JoinWorkers
    <2>2. ASSUME NEW d \in Callers, \/ \E t \in Tasks : Submit(d, t)
                                    \/ SubmitRefused(d) \/ SubmitEnqueues(d)
          PROVE  caller[c].pc = "notify_idle"
      BY <1>1, <2>2 DEF Submit, SubmitRefused, SubmitEnqueues, Idle
    <2>3. ASSUME NEW d \in Callers, WaitIdle(d) \/ WaitIdleReturns(d) \/ NotifyIdle(d)
          PROVE  caller[c].pc = "notify_idle"
      BY <1>1, <2>3 DEF WaitIdle, WaitIdleReturns, NotifyIdle, Idle, In
    <2>4. ASSUME NEW d \in Callers, Shutdown(d) \/ NotifyWorkers(d) \/ NotifySubmitters(d)
          PROVE  caller[c].pc = "notify_idle"
      BY <1>1, <2>4 DEF Shutdown, NotifyWorkers, NotifySubmitters, In
    <2>5. ASSUME NEW d \in Callers, SubmitWaits(d) \/ WaitIdleWaits(d)
          PROVE  caller[c].pc = "notify_idle"
      BY <2>5 DEF SubmitWaits, WaitIdleWaits
    <2>6. ASSUME NEW v \in Workers, WorkerThread(v)
          PROVE  caller[c].pc = "notify_idle"
      BY <2>6 DEF WorkerThread, WorkerWaits, WorkerExits, TakeTask, RunTask, TaskDone
    <2>7. CASE SpuriousWakeup \/ UNCHANGED vars
      BY <2>7 DEF SpuriousWakeup, vars
    <2>8. QED
      BY <2>1, <2>2, <2>3, <2>4, <2>5, <2>6, <2>7
         DEF Next, Call, CallerThread, ShutdownAgain
  <1>4. worker[w].pc = "exited"
    BY <1>2, <1>3
  <1>5. CASE UNCHANGED worker
    BY <1>4, <1>5
  <1>6. ASSUME NEW v \in Workers, WorkerThread(v)
        PROVE  worker'[w] = worker[w]
    BY <1>1, <1>4, <1>6 DEF WorkerThread, WorkerWaits, WorkerExits, TakeTask, RunTask, TaskDone
  <1>7. ASSUME NEW d \in Callers, Shutdown(d) \/ SubmitEnqueues(d) \/ JoinWorkers(d)
        PROVE  UNCHANGED worker
    BY <1>7 DEF Shutdown, SubmitEnqueues, JoinWorkers
  <1>8. QED
    BY <1>4, <1>5, <1>6, <1>7, NextSteps, QuietFrame

\* Every worker that takes, runs or waits keeps the rest of WorkerInv.
LEMMA WorkerInvStep == IInv /\ [Next]_vars => WorkerInv'
  <1> SUFFICES ASSUME IInv, [Next]_vars
               PROVE  (NoneWaitsBusy /\ RunsTasks /\ ExitsDrained /\ TakenIsRun)'
    BY JoinedAllStep DEF WorkerInv, NoneWaitsBusy, RunsTasks, ExitsDrained, TakenIsRun, JoinedAll
  <1> DEFINE Goal == (NoneWaitsBusy /\ RunsTasks /\ ExitsDrained /\ TakenIsRun)'
  <1>1. /\ worker \in [Workers -> Worker] /\ task_waiters \subseteq Workers
        /\ tasks \in Seq(Tasks) /\ started \in Seq(Tasks)
        /\ NoneWaitsBusy /\ RunsTasks /\ ExitsDrained /\ TakenIsRun
    BY WorkerInvParts DEF IInv, TypeOK, Worker
  <1> USE DEF NoneWaitsBusy, RunsTasks, ExitsDrained, TakenIsRun
  <1>2. CASE /\ UNCHANGED <<tasks, worker, shutting_down, started, finished>>
             /\ task_waiters' \subseteq task_waiters
    BY <1>1, <1>2
  <1>3. ASSUME NEW c \in Callers, Shutdown(c)
        PROVE  Goal
    BY <1>1, <1>3 DEF Shutdown, waiters, history
  <1>4. ASSUME NEW c \in Callers, JoinWorkers(c)
        PROVE  Goal
    BY <1>1, <1>4 DEF JoinWorkers, waiters, history
  <1>5. ASSUME NEW c \in Callers, SubmitEnqueues(c)
        PROVE  Goal
    <2>1. ~shutting_down /\ UNCHANGED <<worker, shutting_down, started, finished>>
      BY <1>5 DEF SubmitEnqueues
    <2>2. task_waiters' \subseteq task_waiters
      BY <1>5 DEF SubmitEnqueues, NotifyOne
    <2>3. QED
      BY <1>1, <2>1, <2>2
  <1>6. ASSUME NEW w \in Workers, WorkerWaits(w)
        PROVE  Goal
    BY <1>1, <1>6 DEF WorkerWaits, history
  <1>7. ASSUME NEW w \in Workers, WorkerExits(w)
        PROVE  Goal
    <2>1. /\ worker[w].pc = "loop" /\ w \notin task_waiters /\ shutting_down /\ tasks = << >>
          /\ worker'[w].pc = "exited"
          /\ \A v \in Workers : v # w => worker'[v] = worker[v]
          /\ UNCHANGED <<tasks, shutting_down, task_waiters, started, finished>>
      BY <1>1, <1>7 DEF WorkerExits, waiters, history, Worker
    <2>2. (NoneWaitsBusy /\ RunsTasks)'
      BY <1>1, <2>1
    <2>3. ExitsDrained'
      BY <1>1, <2>1
    <2>4. TakenIsRun'
      BY <1>1, <2>1
    <2>5. QED
      BY <2>2, <2>3, <2>4
  <1>8. ASSUME NEW w \in Workers, TakeTask(w)
        PROVE  Goal
    <2>1. Head(tasks) \in Tasks /\ tasks # << >>
      BY <1>1, <1>8, MoveHead DEF TakeTask
    <2>2. /\ worker[w].pc = "loop" /\ w \notin task_waiters
          /\ worker'[w].pc = "run" /\ worker'[w].task = Head(tasks)
          /\ \A v \in Workers : v # w => worker'[v] = worker[v]
          /\ UNCHANGED <<shutting_down, task_waiters, finished>>
          /\ started' = Append(started, Head(tasks))
      BY <1>1, <1>8 DEF TakeTask
    <2>3. (NoneWaitsBusy /\ RunsTasks)'
      <3>1. NoneWaitsBusy'
        BY <1>1, <2>2
      <3>2. RunsTasks'
        BY <1>1, <2>1, <2>2
      <3>3. QED
        BY <3>1, <3>2
    <2>4. ExitsDrained'
      BY <1>1, <2>1, <2>2
    <2>5. TakenIsRun'
      <3>1. /\ Len(started') = Len(started) + 1
            /\ \A i \in 1..Len(started) : started'[i] = started[i]
            /\ started'[Len(started) + 1] = Head(tasks)
        BY <1>1, <2>1, <2>2, AppendProperties
      <3>2. \A i \in 1..Len(started) :
               \/ started'[i] \in finished'
               \/ \E v \in Workers : worker'[v].pc = "run" /\ worker'[v].task = started'[i]
        BY <1>1, <2>2, <3>1
      <3>3. Len(started) \in Nat
        BY <1>1
      <3>4. QED
        BY <2>2, <3>1, <3>2, <3>3
    <2>6. QED
      BY <2>3, <2>4, <2>5
  <1>9. ASSUME NEW w \in Workers, RunTask(w)
        PROVE  Goal
    <2>1. /\ worker[w].pc = "run" /\ worker'[w].pc = "ran"
          /\ \A v \in Workers : v # w => worker'[v] = worker[v]
          /\ finished' = finished \cup {worker[w].task}
          /\ UNCHANGED <<tasks, shutting_down, task_waiters, started>>
      BY <1>1, <1>9 DEF RunTask, waiters, Worker
    <2>2. (NoneWaitsBusy /\ RunsTasks)'
      BY <1>1, <2>1
    <2>3. ExitsDrained'
      BY <1>1, <2>1
    <2>4. TakenIsRun'
      BY <1>1, <2>1
    <2>5. QED
      BY <2>2, <2>3, <2>4
  <1>10. ASSUME NEW w \in Workers, TaskDone(w)
         PROVE  Goal
    <2>1. /\ worker[w].pc = "ran" /\ worker'[w].pc = "loop"
          /\ \A v \in Workers : v # w => worker'[v] = worker[v]
          /\ UNCHANGED <<tasks, shutting_down, task_waiters, started, finished>>
      BY <1>1, <1>10 DEF TaskDone, Looping, history
    <2>2. (NoneWaitsBusy /\ RunsTasks)'
      BY <1>1, <2>1
    <2>3. ExitsDrained'
      BY <1>1, <2>1
    <2>4. TakenIsRun'
      BY <1>1, <2>1
    <2>5. QED
      BY <2>2, <2>3, <2>4
  <1>11. CASE Quiet
    <2>1. /\ UNCHANGED <<tasks, worker, shutting_down, started, finished>>
          /\ task_waiters' \subseteq task_waiters
      BY <1>11, QuietFrame
    <2>2. QED
      BY <1>2, <2>1
  <1>12. QED
    BY <1>3, <1>4, <1>5, <1>6, <1>7, <1>8, <1>9, <1>10, <1>11, NextSteps DEF WorkerThread

-----------------------------------------------------------------------------
\* What holds between any two critical sections of the pool's mutex.
THEOREM PoolInvariant == Spec => []IInv
  <1>1. IInv /\ [Next]_vars => IInv'
    BY TypeOKStep, QueueStep, ActiveCountStep, WorkerInvStep, CallInvStep DEF IInv
  <1>2. QED
    BY InitIInv, <1>1, PTL DEF Spec

\* The queue never holds more than max_queue_size tasks.
THEOREM QueueStaysBounded == Spec => []QueueBounded
  BY PoolInvariant, PTL DEF IInv

\* No accepted task is lost, doubled or overtaken by another.
THEOREM OrderIsKept == Spec => []FirstInFirstOut
  BY PoolInvariant, PTL DEF IInv

\* active_count_ is the number of workers between taking and counting out a task.
THEOREM ActiveCountIsRight == Spec => []ActiveCountIsExact
  BY PoolInvariant, PTL DEF IInv

\* With an empty queue and no worker running a task, all accepted ones have run.
LEMMA DrainedIsFinished ==
    ASSUME IInv, tasks = << >>, \A w \in Workers : worker[w].pc # "run"
    PROVE  Elements(accepted) \subseteq finished
  <1>1. accepted = started
    BY DEF IInv, TypeOK, FirstInFirstOut
  <1>2. \A i \in 1..Len(started) : started[i] \in finished
    BY DEF IInv, WorkerInv
  <1>3. QED
    BY <1>1, <1>2 DEF Elements

\* A shutdown past its joins has run every accepted task and left no worker.
THEOREM ShutdownIsComplete == Spec => []ShutdownDrains
  <1>1. IInv => ShutdownDrains
    <2> SUFFICES ASSUME IInv, NEW c \in Callers, caller[c].pc = "notify_idle"
                 PROVE  Elements(accepted) \subseteq finished /\ task_waiters = {}
      BY DEF ShutdownDrains
    <2>1. \A w \in Workers : worker[w].pc = "exited"
      BY DEF IInv, WorkerInv
    <2>2. tasks = << >>
      BY <2>1, PoolSizeAssumption DEF IInv, WorkerInv
    <2>3. task_waiters = {}
      BY <2>1 DEF IInv, WorkerInv, TypeOK
    <2>4. QED
      BY <2>1, <2>2, <2>3, DrainedIsFinished
  <1>2. QED
    BY PoolInvariant, <1>1, PTL

\* wait_idle returns only when every accepted task has run to its end.
THEOREM WaitIdleIsRight == Spec => WaitIdleIsQuiet
  <1> DEFINE QuietReturn == \A c \in Callers :
        caller[c].pc = "wait_idle" /\ caller'[c].pc = "idle" => Elements(accepted) \subseteq finished
  <1>1. IInv /\ [Next]_vars => [QuietReturn]_vars
    <2> SUFFICES ASSUME IInv, [Next]_vars, NEW c \in Callers,
                        caller[c].pc = "wait_idle", caller'[c].pc = "idle"
                 PROVE  Elements(accepted) \subseteq finished
      OBVIOUS
    <2>1. caller \in [Callers -> Caller]
      BY DEF IInv, TypeOK, Caller
    <2>2. ASSUME NEW d \in Callers, WaitIdleReturns(d)
          PROVE  Elements(accepted) \subseteq finished
      <3>1. tasks = << >> /\ active_count = 0
        BY <2>2 DEF WaitIdleReturns, PoolIdle
      <3>2. \A w \in Workers : w \notin Busy
        BY <3>1, BusyIsCounted DEF IInv
      <3>3. QED
        BY <3>1, <3>2, DrainedIsFinished DEF Busy
    <2>3. ASSUME NEW d \in Callers, \/ \E t \in Tasks : Submit(d, t)
                                    \/ SubmitRefused(d) \/ SubmitEnqueues(d)
          PROVE  FALSE
      BY <2>1, <2>3 DEF Submit, SubmitRefused, SubmitEnqueues, Idle
    <2>4. ASSUME NEW d \in Callers, WaitIdle(d) \/ JoinWorkers(d) \/ NotifyIdle(d)
          PROVE  FALSE
      BY <2>1, <2>4 DEF WaitIdle, JoinWorkers, NotifyIdle, Idle, In
    <2>5. ASSUME NEW d \in Callers, Shutdown(d) \/ NotifyWorkers(d) \/ NotifySubmitters(d)
          PROVE  FALSE
      BY <2>1, <2>5 DEF Shutdown, NotifyWorkers, NotifySubmitters, In
    <2>6. ASSUME NEW d \in Callers, SubmitWaits(d) \/ WaitIdleWaits(d)
          PROVE  FALSE
      BY <2>6 DEF SubmitWaits, WaitIdleWaits
    <2>7. ASSUME NEW w \in Workers, WorkerThread(w)
          PROVE  FALSE
      BY <2>7 DEF WorkerThread, WorkerWaits, WorkerExits, TakeTask, RunTask, TaskDone
    <2>8. ~(SpuriousWakeup \/ UNCHANGED vars)
      BY DEF SpuriousWakeup, vars
    <2>9. QED
      BY <2>2, <2>3, <2>4, <2>5, <2>6, <2>7, <2>8
         DEF Next, Call, CallerThread, ShutdownAgain
  <1>2. QED
    BY PoolInvariant, <1>1, PTL DEF Spec, WaitIdleIsQuiet
-----------------------------------------------------------------------------
(***************************************************************************)
(* The pool implements Executor, step by step.  To its invariant one has   *)
(* to add that a task is submitted once, and that what runs was taken.     *)
(***************************************************************************)
SubmittedOnce ==
    \A c \in Callers : caller[c].pc = "submit" =>
        /\ caller[c].task \notin Elements(accepted) \cup refused
        /\ \A d \in Callers : d # c /\ caller[d].pc = "submit" => caller[d].task # caller[c].task

RunsTaken == \A w \in Workers : worker[w].pc = "run" => worker[w].task \in Elements(started)

\* Appending adds one element.
LEMMA AppendedElements ==
    ASSUME NEW E, NEW s \in Seq(E), NEW e \in E
    PROVE  Elements(Append(s, e)) = Elements(s) \cup {e}
  <1>1. /\ Append(s, e) \in Seq(E) /\ Len(Append(s, e)) = Len(s) + 1 /\ Len(s) \in Nat
        /\ \A i \in 1..Len(s) : Append(s, e)[i] = s[i]
        /\ Append(s, e)[Len(s) + 1] = e
    BY AppendProperties
  <1>2. \A i : i \in 1..Len(s) + 1 <=> i \in 1..Len(s) \/ i = Len(s) + 1
    BY <1>1
  <1>. QED
    BY <1>1, <1>2 DEF Elements

\* No task is submitted twice, by one caller or by two.
LEMMA SubmittedOnceStep == IInv /\ SubmittedOnce /\ [Next]_vars => SubmittedOnce'
  <1> SUFFICES ASSUME IInv, SubmittedOnce, [Next]_vars PROVE SubmittedOnce'
    OBVIOUS
  <1>1. caller \in [Callers -> Caller] /\ accepted \in Seq(Tasks)
    BY DEF IInv, TypeOK, Caller
  <1>2. ASSUME UNCHANGED <<accepted, refused>>,
               \A c \in Callers : caller'[c].pc = "submit" => caller'[c] = caller[c]
        PROVE  SubmittedOnce'
    BY <1>2 DEF SubmittedOnce
  <1>3. ASSUME NEW c \in Callers, NEW t \in Tasks, Submit(c, t)
        PROVE  SubmittedOnce'
    <2>1. /\ t \notin Elements(accepted) \cup refused
          /\ \A d \in Callers : caller[d].task # t
      BY <1>3 DEF Submit, Submitted
    <2>2. /\ caller'[c] = [pc |-> "submit", task |-> t]
          /\ \A d \in Callers : d # c => caller'[d] = caller[d]
          /\ UNCHANGED <<accepted, refused>>
      BY <1>1, <1>3 DEF Submit, history
    <2>. QED
      BY <2>1, <2>2 DEF SubmittedOnce
  <1>4. ASSUME NEW c \in Callers, SubmitRefused(c)
        PROVE  SubmittedOnce'
    <2>1. /\ caller[c].pc = "submit" /\ caller'[c].pc = "idle"
          /\ \A d \in Callers : d # c => caller'[d] = caller[d]
          /\ accepted' = accepted /\ refused' = refused \cup {caller[c].task}
      BY <1>1, <1>4 DEF SubmitRefused, Idle
    <2>. QED
      BY <2>1 DEF SubmittedOnce
  <1>5. ASSUME NEW c \in Callers, SubmitEnqueues(c)
        PROVE  SubmittedOnce'
    <2>1. /\ caller[c].pc = "submit" /\ caller'[c].pc = "idle"
          /\ \A d \in Callers : d # c => caller'[d] = caller[d]
          /\ accepted' = Append(accepted, caller[c].task) /\ refused' = refused
      BY <1>1, <1>5 DEF SubmitEnqueues, Idle
    <2>2. caller[c].task \in Tasks
      BY <2>1 DEF IInv, CallInv
    <2>3. Elements(accepted') = Elements(accepted) \cup {caller[c].task}
      BY <1>1, <2>1, <2>2, AppendedElements
    <2>4. Elements(accepted)' = Elements(accepted')
      BY DEF Elements
    <2>. QED
      BY <2>1, <2>3, <2>4 DEF SubmittedOnce
  <1>6. ASSUME NEW c \in Callers, WaitIdle(c) \/ WaitIdleReturns(c) \/ NotifyIdle(c) \/ JoinWorkers(c)
        PROVE  SubmittedOnce'
    BY <1>1, <1>2, <1>6 DEF WaitIdle, WaitIdleReturns, NotifyIdle, JoinWorkers, Idle, In, history
  <1>7. ASSUME NEW c \in Callers, Shutdown(c) \/ NotifyWorkers(c) \/ NotifySubmitters(c)
        PROVE  SubmittedOnce'
    BY <1>1, <1>2, <1>7 DEF Shutdown, NotifyWorkers, NotifySubmitters, In, history
  <1>8. ASSUME NEW c \in Callers, SubmitWaits(c) \/ WaitIdleWaits(c)
        PROVE  SubmittedOnce'
    BY <1>2, <1>8 DEF SubmitWaits, WaitIdleWaits, history
  <1>9. ASSUME NEW w \in Workers, WorkerThread(w)
        PROVE  SubmittedOnce'
    BY <1>2, <1>9 DEF WorkerThread, WorkerWaits, WorkerExits, TakeTask, RunTask, TaskDone, history
  <1>10. CASE SpuriousWakeup \/ UNCHANGED vars
    BY <1>2, <1>10 DEF SpuriousWakeup, vars, history
  <1>. QED
    BY <1>3, <1>4, <1>5, <1>6, <1>7, <1>8, <1>9, <1>10 DEF Next, Call, CallerThread, ShutdownAgain

\* What a worker runs it has taken from the queue.
LEMMA RunsTakenStep == IInv /\ RunsTaken /\ [Next]_vars => RunsTaken'
  <1> SUFFICES ASSUME IInv, RunsTaken, [Next]_vars PROVE RunsTaken'
    OBVIOUS
  <1>1. /\ worker \in [Workers -> Worker] /\ started \in Seq(Tasks) /\ tasks \in Seq(Tasks)
    BY DEF IInv, TypeOK, Worker
  <1>2. ASSUME NEW w \in Workers, TakeTask(w)
        PROVE  RunsTaken'
    <2>1. /\ tasks # << >> /\ started' = Append(started, Head(tasks))
          /\ worker'[w].task = Head(tasks)
          /\ \A v \in Workers : v # w => worker'[v] = worker[v]
      BY <1>1, <1>2 DEF TakeTask
    <2>2. Elements(started') = Elements(started) \cup {Head(tasks)}
      BY <1>1, <2>1, MoveHead, AppendedElements
    <2>3. Elements(started)' = Elements(started')
      BY DEF Elements
    <2>. QED
      BY <2>1, <2>2, <2>3 DEF RunsTaken
  <1>3. ASSUME started' = started,
               \A v \in Workers : worker'[v].pc = "run" => worker'[v] = worker[v]
        PROVE  RunsTaken'
    BY <1>3 DEF RunsTaken, Elements
  <1>4. ASSUME NEW w \in Workers, WorkerThread(w), ~TakeTask(w)
        PROVE  RunsTaken'
    <2>1. started' = started
      BY <1>4 DEF WorkerThread, WorkerWaits, WorkerExits, RunTask, TaskDone, history
    <2>2. \A v \in Workers : worker'[v].pc = "run" => worker'[v] = worker[v]
      BY <1>1, <1>4 DEF WorkerThread, WorkerWaits, WorkerExits, RunTask, TaskDone, Looping, Worker
    <2>. QED
      BY <1>3, <2>1, <2>2
  <1>5. ASSUME NEW c \in Callers, Shutdown(c) \/ SubmitEnqueues(c) \/ JoinWorkers(c)
        PROVE  RunsTaken'
    BY <1>3, <1>5 DEF Shutdown, SubmitEnqueues, JoinWorkers, history
  <1>. QED
    BY <1>2, <1>3, <1>4, <1>5, NextSteps, QuietFrame

\* What Executor says is running is run by a worker each.
LEMMA RunningIsRun ==
    ASSUME IInv
    PROVE  /\ Abstract!Running = Elements(started) \ finished
           /\ \A t \in Abstract!Running : \E w \in Workers : worker[w].pc = "run" /\ worker[w].task = t
           /\ Len(started) \in Nat /\ Len(accepted) = Len(started) + Len(tasks)
  <1>1. started \in Seq(Tasks) /\ tasks \in Seq(Tasks) /\ accepted = started \o tasks
    BY DEF IInv, TypeOK, FirstInFirstOut
  <1>2. /\ Len(started) \in Nat /\ Len(tasks) \in Nat /\ Len(accepted) = Len(started) + Len(tasks)
        /\ \A i \in 1..Len(started) : accepted[i] = started[i]
    BY <1>1
  <1>3. Abstract!Running = Elements(started) \ finished
    BY <1>2 DEF Abstract!Running, Elements
  <1>4. \A t \in Elements(started) \ finished :
            \E w \in Workers : worker[w].pc = "run" /\ worker[w].task = t
    BY DEF Elements, IInv, WorkerInv
  <1>. QED
    BY <1>2, <1>3, <1>4

\* While one worker runs no task, fewer tasks run than there are workers.
LEMMA RoomToRun ==
    ASSUME IInv, NEW w \in Workers, worker[w].pc = "loop"
    PROVE  Cardinality(Abstract!Running) < Cardinality(Workers)
  <1>. DEFINE R == {v \in Workers : worker[v].pc = "run"}
              T == {worker[v].task : v \in R}
              f == [v \in R |-> worker[v].task]
  <1>1. IsFiniteSet(R) /\ Cardinality(R) < Cardinality(Workers)
    <2>1. R \in SUBSET (Workers \ {w})
      OBVIOUS
    <2>2. /\ IsFiniteSet(Workers \ {w})
          /\ Cardinality(Workers \ {w}) = Cardinality(Workers) - 1
          /\ Cardinality(Workers) \in Nat
      BY FS_RemoveElement, FS_CardinalityType
    <2>3. IsFiniteSet(R) /\ Cardinality(R) <= Cardinality(Workers \ {w})
      BY <2>1, <2>2, FS_Subset
    <2>4. Cardinality(R) \in Nat
      BY <2>3, FS_CardinalityType
    <2>. HIDE DEF R
    <2>. QED
      BY <2>2, <2>3, <2>4
  <1>2. IsFiniteSet(T) /\ Cardinality(T) <= Cardinality(R)
    <2>1. f \in Surjection(R, T)
      BY DEF Surjection
    <2>. HIDE DEF f, T, R
    <2>. QED
      BY <1>1, <2>1, FS_Surjection
  <1>3. Abstract!Running \in SUBSET T
    BY RunningIsRun
  <1>4. Cardinality(Abstract!Running) <= Cardinality(T) /\ IsFiniteSet(Abstract!Running)
    <2>. HIDE DEF T
    <2>. QED
      BY <1>2, <1>3, FS_Subset
  <1>5. /\ Cardinality(Abstract!Running) \in Nat /\ Cardinality(T) \in Nat
        /\ Cardinality(R) \in Nat /\ Cardinality(Workers) \in Nat
    <2>. HIDE DEF T, R
    <2>. QED
      BY <1>1, <1>2, <1>4, FS_CardinalityType
  <1>. HIDE DEF T, R
  <1>. QED
    BY <1>1, <1>2, <1>4, <1>5

\* Executor counts with the cardinality of FiniteSets.
LEMMA SameCardinality == \A S : Abstract!Cardinality(S) = Cardinality(S)
  BY DEF Abstract!Cardinality, Cardinality

\* Every step of the pool is one of Executor or changes nothing of it.
LEMMA PoolSteps ==
    IInv /\ SubmittedOnce /\ RunsTaken /\ [Next]_vars => [Abstract!Next]_(Abstract!vars)
  <1> SUFFICES ASSUME IInv, SubmittedOnce, RunsTaken, [Next]_vars
               PROVE  [Abstract!Next]_(Abstract!vars)
    OBVIOUS
  <1>1. ASSUME UNCHANGED <<accepted, started, finished, refused, shutting_down>>
        PROVE  UNCHANGED Abstract!vars
    BY <1>1 DEF Abstract!vars
  <1>2. ASSUME NEW c \in Callers, SubmitRefused(c)
        PROVE  Abstract!Next
    <2>1. caller[c].task \in Tasks /\ caller[c].task \notin Elements(accepted) \cup refused
      BY <1>2 DEF SubmitRefused, IInv, CallInv, SubmittedOnce
    <2>2. Abstract!Refuse(caller[c].task)
      BY <1>2, <2>1 DEF SubmitRefused, Abstract!Refuse, Abstract!Accepted, Elements
    <2>. QED
      BY <2>1, <2>2 DEF Abstract!Next
  <1>3. ASSUME NEW c \in Callers, SubmitEnqueues(c)
        PROVE  Abstract!Next
    <2>1. caller[c].task \in Tasks /\ caller[c].task \notin Elements(accepted) \cup refused
      BY <1>3 DEF SubmitEnqueues, IInv, CallInv, SubmittedOnce
    <2>2. Abstract!Accept(caller[c].task)
      BY <1>3, <2>1 DEF SubmitEnqueues, Abstract!Accept, Abstract!Accepted, Elements
    <2>. QED
      BY <2>1, <2>2 DEF Abstract!Next
  <1>4. ASSUME NEW c \in Callers, Shutdown(c)
        PROVE  Abstract!Next
    BY <1>4 DEF Shutdown, history, Abstract!Close, Abstract!Next
  <1>5. ASSUME NEW w \in Workers, TakeTask(w)
        PROVE  Abstract!Next
    <2>1. Cardinality(Abstract!Running) < Cardinality(Workers)
      BY <1>5, RoomToRun DEF TakeTask
    <2>2. /\ tasks # << >> /\ started' = Append(started, Head(tasks))
          /\ UNCHANGED <<accepted, finished, refused, shutting_down>>
      BY <1>5 DEF TakeTask
    <2>3. Len(started') = Len(started) + 1 /\ Len(started) < Len(accepted)
      <3>1. started \in Seq(Tasks) /\ tasks \in Seq(Tasks)
        BY DEF IInv, TypeOK
      <3>2. Head(tasks) \in Tasks /\ Len(tasks) \in Nat \ {0}
        BY <2>2, <3>1
      <3>3. Len(started') = Len(started) + 1
        BY <2>2, <3>1, <3>2, AppendProperties
      <3>. QED
        BY <3>2, <3>3, RunningIsRun
    <2>. QED
      BY <2>1, <2>2, <2>3, SameCardinality DEF Abstract!Begin, Abstract!Next
  <1>6. ASSUME NEW w \in Workers, RunTask(w)
        PROVE  [Abstract!Next]_(Abstract!vars)
    <2>1. /\ finished' = finished \cup {worker[w].task}
          /\ UNCHANGED <<accepted, started, refused, shutting_down>>
      BY <1>6 DEF RunTask
    <2>2. CASE worker[w].task \in finished
      <3>1. finished' = finished
        BY <2>1, <2>2
      <3>. QED
        BY <1>1, <2>1, <3>1
    <2>3. CASE worker[w].task \notin finished
      <3>1. worker[w].task \in Abstract!Running
        BY <1>6, <2>3, RunningIsRun DEF RunTask, RunsTaken
      <3>2. Abstract!Finish
        BY <2>1, <3>1 DEF Abstract!Finish
      <3>. QED
        BY <3>2 DEF Abstract!Next
    <2>. QED
      BY <2>2, <2>3
  <1>7. ASSUME NEW w \in Workers, WorkerWaits(w) \/ WorkerExits(w) \/ TaskDone(w)
        PROVE  UNCHANGED Abstract!vars
    BY <1>1, <1>7 DEF WorkerWaits, WorkerExits, TaskDone, history
  <1>8. ASSUME NEW c \in Callers, \/ \E t \in Tasks : Submit(c, t)
                                  \/ SubmitWaits(c) \/ WaitIdle(c) \/ WaitIdleWaits(c)
                                  \/ WaitIdleReturns(c)
        PROVE  UNCHANGED Abstract!vars
    BY <1>1, <1>8 DEF Submit, SubmitWaits, WaitIdle, WaitIdleWaits, WaitIdleReturns, history
  <1>9. ASSUME NEW c \in Callers,
               NotifyWorkers(c) \/ NotifySubmitters(c) \/ JoinWorkers(c) \/ NotifyIdle(c)
        PROVE  UNCHANGED Abstract!vars
    BY <1>1, <1>9 DEF NotifyWorkers, NotifySubmitters, JoinWorkers, NotifyIdle, history
  <1>10. CASE SpuriousWakeup \/ UNCHANGED vars
    BY <1>1, <1>10 DEF SpuriousWakeup, vars, history
  <1>. QED
    BY <1>2, <1>3, <1>4, <1>5, <1>6, <1>7, <1>8, <1>9, <1>10
       DEF Next, Call, CallerThread, WorkerThread, ShutdownAgain

\* Mutex, condition variables and workers implement Executor: whatever they do,
\* a task is accepted once, begun in its turn, once, never on more workers than
\* there are, and none is accepted after the close.
THEOREM PoolImplementsExecutor ==
    Spec => Abstract!Init /\ [][Abstract!Next]_(Abstract!vars)
  <1>1. Init => Abstract!Init /\ SubmittedOnce /\ RunsTaken
    BY DEF Init, Abstract!Init, SubmittedOnce, RunsTaken, Idle, Looping
  <1>2. IInv /\ SubmittedOnce /\ RunsTaken /\ [Next]_vars => SubmittedOnce' /\ RunsTaken'
    BY SubmittedOnceStep, RunsTakenStep
  <1>3. IInv /\ SubmittedOnce /\ RunsTaken /\ [Next]_vars => [Abstract!Next]_(Abstract!vars)
    BY PoolSteps
  <1>. QED
    BY <1>1, <1>2, <1>3, PoolInvariant, PTL DEF Spec
=============================================================================
