----------------------------- MODULE ThreadPool -----------------------------
(***************************************************************************)
(* src/concurrency/ThreadPool.cpp: a bounded queue, worker threads, and    *)
(* callers of submit, wait_idle and shutdown.                              *)
(*                                                                         *)
(* A step is one critical section of mutex_, one notification outside it,  *)
(* the joins, or the run of a task.  condition_variable::wait releases the *)
(* mutex and enters the variable's wait set in the section that found its  *)
(* predicate false; a notification takes a thread out of the set, and the  *)
(* thread then evaluates the predicate again.                              *)
(*                                                                         *)
(* accepted, started and finished only record what happened to the tasks.  *)
(***************************************************************************)
EXTENDS Naturals, Sequences, FiniteSets

CONSTANTS Workers,        \* workers_
          Callers,        \* threads that use the pool
          Tasks,          \* the tasks submitted, each once; bounds a behaviour
          max_queue_size, \* at least 1 by the constructor
          None            \* no task

ASSUME PoolSizeAssumption ==
    /\ IsFiniteSet(Workers)
    /\ Workers # {}
    /\ max_queue_size \in Nat \ {0}
ASSUME NoTaskAssumption == None \notin Tasks

VARIABLES
    tasks,          \* tasks_
    active_count,   \* active_count_
    shutting_down,  \* shutting_down_
    uncaught,       \* uncaught_exception_count_
    worker,         \* where each worker is and its task
    caller,         \* the call each caller is in and the task it submits
    task_waiters,   \* the threads waiting on task_available_
    space_waiters,  \* on queue_space_available_
    idle_waiters,   \* on idle_
    accepted,       \* the tasks for which submit returned true, in order
    refused,        \* the tasks for which it returned false
    started,        \* the tasks taken from the queue, in order
    finished        \* the tasks that have returned or thrown

waiters == <<task_waiters, space_waiters, idle_waiters>>
history == <<accepted, refused, started, finished>>
vars == <<tasks, active_count, shutting_down, uncaught, worker, caller, waiters, history>>

Looping == [pc |-> "loop", task |-> None]
Idle == [pc |-> "idle", task |-> None]
In(call) == [pc |-> call, task |-> None]

Elements(s) == {s[i] : i \in 1..Len(s)}
Submitted == Elements(accepted) \cup refused \cup {caller[c].task : c \in Callers}

Init ==
    /\ tasks = << >>
    /\ active_count = 0
    /\ shutting_down = FALSE
    /\ uncaught = 0
    /\ worker = [w \in Workers |-> Looping]
    /\ caller = [c \in Callers |-> Idle]
    /\ task_waiters = {} /\ space_waiters = {} /\ idle_waiters = {}
    /\ accepted = << >> /\ refused = {} /\ started = << >> /\ finished = {}

\* What notify_one makes of a wait set: some waiter, if there is one, leaves it.
NotifyOne(S) == IF S = {} THEN {{}} ELSE {S \ {x} : x \in S}

-----------------------------------------------------------------------------
(* submit *)

Submit(c, t) ==
    /\ caller[c].pc = "idle"
    /\ t \notin Submitted
    /\ caller' = [caller EXCEPT ![c] = [pc |-> "submit", task |-> t]]
    /\ UNCHANGED <<tasks, active_count, shutting_down, uncaught, worker, waiters, history>>

SpaceAvailable == shutting_down \/ Len(tasks) < max_queue_size

SubmitWaits(c) ==
    /\ caller[c].pc = "submit" /\ c \notin space_waiters
    /\ ~SpaceAvailable
    /\ space_waiters' = space_waiters \cup {c}
    /\ UNCHANGED <<tasks, active_count, shutting_down, uncaught, worker, caller,
                   task_waiters, idle_waiters, history>>

SubmitRefused(c) ==
    /\ caller[c].pc = "submit" /\ c \notin space_waiters
    /\ shutting_down
    /\ refused' = refused \cup {caller[c].task}
    /\ caller' = [caller EXCEPT ![c] = Idle]
    /\ UNCHANGED <<tasks, active_count, shutting_down, uncaught, worker, waiters,
                   accepted, started, finished>>

\* Mutant: a woken submit does not look at the queue again.
SubmitEnqueuesUnchecked(c) ==
    /\ caller[c].pc = "submit" /\ c \notin space_waiters
    /\ ~shutting_down
    /\ tasks' = Append(tasks, caller[c].task)
    /\ task_waiters' \in NotifyOne(task_waiters)
    /\ accepted' = Append(accepted, caller[c].task)
    /\ caller' = [caller EXCEPT ![c] = Idle]
    /\ UNCHANGED <<active_count, shutting_down, uncaught, worker, space_waiters,
                   idle_waiters, refused, started, finished>>

\* Mutant: takes a waiting worker for granted.
SubmitEnqueuesSilently(c) ==
    /\ caller[c].pc = "submit" /\ c \notin space_waiters
    /\ ~shutting_down
    /\ Len(tasks) < max_queue_size
    /\ tasks' = Append(tasks, caller[c].task)
    /\ accepted' = Append(accepted, caller[c].task)
    /\ caller' = [caller EXCEPT ![c] = Idle]
    /\ UNCHANGED <<active_count, shutting_down, uncaught, worker, waiters,
                   refused, started, finished>>

SubmitEnqueues(c) ==
    /\ caller[c].pc = "submit" /\ c \notin space_waiters
    /\ ~shutting_down
    /\ Len(tasks) < max_queue_size
    /\ tasks' = Append(tasks, caller[c].task)
    /\ task_waiters' \in NotifyOne(task_waiters)
    /\ accepted' = Append(accepted, caller[c].task)
    /\ caller' = [caller EXCEPT ![c] = Idle]
    /\ UNCHANGED <<active_count, shutting_down, uncaught, worker, space_waiters,
                   idle_waiters, refused, started, finished>>

-----------------------------------------------------------------------------
(* wait_idle *)

WaitIdle(c) ==
    /\ caller[c].pc = "idle"
    /\ caller' = [caller EXCEPT ![c] = In("wait_idle")]
    /\ UNCHANGED <<tasks, active_count, shutting_down, uncaught, worker, waiters, history>>

PoolIdle == tasks = << >> /\ active_count = 0

WaitIdleWaits(c) ==
    /\ caller[c].pc = "wait_idle" /\ c \notin idle_waiters
    /\ ~PoolIdle
    /\ idle_waiters' = idle_waiters \cup {c}
    /\ UNCHANGED <<tasks, active_count, shutting_down, uncaught, worker, caller,
                   task_waiters, space_waiters, history>>

WaitIdleReturns(c) ==
    /\ caller[c].pc = "wait_idle" /\ c \notin idle_waiters
    /\ PoolIdle
    /\ caller' = [caller EXCEPT ![c] = Idle]
    /\ UNCHANGED <<tasks, active_count, shutting_down, uncaught, worker, waiters, history>>

-----------------------------------------------------------------------------
(* shutdown, also the destructor *)

\* The second and later calls return under the lock.
ShutdownAgain(c) ==
    /\ caller[c].pc = "idle"
    /\ shutting_down
    /\ UNCHANGED vars

Shutdown(c) ==
    /\ caller[c].pc = "idle"
    /\ ~shutting_down
    /\ shutting_down' = TRUE
    /\ caller' = [caller EXCEPT ![c] = In("notify_workers")]
    /\ UNCHANGED <<tasks, active_count, uncaught, worker, waiters, history>>

NotifyWorkers(c) ==
    /\ caller[c].pc = "notify_workers"
    /\ task_waiters' = {}
    /\ caller' = [caller EXCEPT ![c] = In("notify_submitters")]
    /\ UNCHANGED <<tasks, active_count, shutting_down, uncaught, worker,
                   space_waiters, idle_waiters, history>>

NotifySubmitters(c) ==
    /\ caller[c].pc = "notify_submitters"
    /\ space_waiters' = {}
    /\ caller' = [caller EXCEPT ![c] = In("join")]
    /\ UNCHANGED <<tasks, active_count, shutting_down, uncaught, worker,
                   task_waiters, idle_waiters, history>>

\* The joins one after another pass when every worker has exited.
JoinWorkers(c) ==
    /\ caller[c].pc = "join"
    /\ \A w \in Workers : worker[w].pc = "exited"
    /\ caller' = [caller EXCEPT ![c] = In("notify_idle")]
    /\ UNCHANGED <<tasks, active_count, shutting_down, uncaught, worker, waiters, history>>

NotifyIdle(c) ==
    /\ caller[c].pc = "notify_idle"
    /\ idle_waiters' = {}
    /\ caller' = [caller EXCEPT ![c] = Idle]
    /\ UNCHANGED <<tasks, active_count, shutting_down, uncaught, worker,
                   task_waiters, space_waiters, history>>

-----------------------------------------------------------------------------
(* worker_loop *)

WorkerWaits(w) ==
    /\ worker[w].pc = "loop" /\ w \notin task_waiters
    /\ ~shutting_down /\ tasks = << >>
    /\ task_waiters' = task_waiters \cup {w}
    /\ UNCHANGED <<tasks, active_count, shutting_down, uncaught, worker, caller,
                   space_waiters, idle_waiters, history>>

\* Mutant: a shutdown drops what is still queued.
WorkerExitsAtOnce(w) ==
    /\ worker[w].pc = "loop" /\ w \notin task_waiters
    /\ shutting_down
    /\ worker' = [worker EXCEPT ![w].pc = "exited"]
    /\ UNCHANGED <<tasks, active_count, shutting_down, uncaught, caller, waiters, history>>

WorkerExits(w) ==
    /\ worker[w].pc = "loop" /\ w \notin task_waiters
    /\ shutting_down /\ tasks = << >>
    /\ worker' = [worker EXCEPT ![w].pc = "exited"]
    /\ UNCHANGED <<tasks, active_count, shutting_down, uncaught, caller, waiters, history>>

\* Mutant: the task is in the queue no more and not counted as active either.
TakeTaskUncounted(w) ==
    /\ worker[w].pc = "loop" /\ w \notin task_waiters
    /\ tasks # << >>
    /\ worker' = [worker EXCEPT ![w] = [pc |-> "run", task |-> Head(tasks)]]
    /\ tasks' = Tail(tasks)
    /\ space_waiters' \in NotifyOne(space_waiters)
    /\ started' = Append(started, Head(tasks))
    /\ UNCHANGED <<active_count, shutting_down, uncaught, caller, task_waiters,
                   idle_waiters, accepted, refused, finished>>

\* Mutant: frees a place in the queue without telling a waiting submit.
TakeTaskSilently(w) ==
    /\ worker[w].pc = "loop" /\ w \notin task_waiters
    /\ tasks # << >>
    /\ worker' = [worker EXCEPT ![w] = [pc |-> "run", task |-> Head(tasks)]]
    /\ tasks' = Tail(tasks)
    /\ active_count' = active_count + 1
    /\ started' = Append(started, Head(tasks))
    /\ UNCHANGED <<shutting_down, uncaught, caller, waiters, accepted, refused, finished>>

TakeTask(w) ==
    /\ worker[w].pc = "loop" /\ w \notin task_waiters
    /\ tasks # << >>
    /\ worker' = [worker EXCEPT ![w] = [pc |-> "run", task |-> Head(tasks)]]
    /\ tasks' = Tail(tasks)
    /\ active_count' = active_count + 1
    /\ space_waiters' \in NotifyOne(space_waiters)
    /\ started' = Append(started, Head(tasks))
    /\ UNCHANGED <<shutting_down, uncaught, caller, task_waiters, idle_waiters,
                   accepted, refused, finished>>

\* The task returns, or throws and is counted.
RunTask(w) ==
    /\ worker[w].pc = "run"
    /\ finished' = finished \cup {worker[w].task}
    /\ worker' = [worker EXCEPT ![w].pc = "ran"]
    /\ uncaught' \in {uncaught, uncaught + 1}
    /\ UNCHANGED <<tasks, active_count, shutting_down, caller, waiters,
                   accepted, refused, started>>

TaskDone(w) ==
    /\ worker[w].pc = "ran"
    /\ active_count' = active_count - 1
    /\ idle_waiters' = IF tasks = << >> /\ active_count' = 0 THEN {} ELSE idle_waiters
    /\ worker' = [worker EXCEPT ![w] = Looping]
    /\ UNCHANGED <<tasks, shutting_down, uncaught, caller, task_waiters, space_waiters, history>>

\* A condition variable may wake a waiter for no reason.
SpuriousWakeup ==
    /\ \/ \E w \in task_waiters : task_waiters' = task_waiters \ {w}
                                  /\ UNCHANGED <<space_waiters, idle_waiters>>
       \/ \E c \in space_waiters : space_waiters' = space_waiters \ {c}
                                   /\ UNCHANGED <<task_waiters, idle_waiters>>
       \/ \E c \in idle_waiters : idle_waiters' = idle_waiters \ {c}
                                  /\ UNCHANGED <<task_waiters, space_waiters>>
    /\ UNCHANGED <<tasks, active_count, shutting_down, uncaught, worker, caller, history>>

-----------------------------------------------------------------------------
Call(c) ==
    \/ \E t \in Tasks : Submit(c, t)
    \/ WaitIdle(c) \/ Shutdown(c) \/ ShutdownAgain(c)

CallerThread(c) ==
    \/ SubmitWaits(c) \/ SubmitRefused(c) \/ SubmitEnqueues(c)
    \/ WaitIdleWaits(c) \/ WaitIdleReturns(c)
    \/ NotifyWorkers(c) \/ NotifySubmitters(c) \/ JoinWorkers(c) \/ NotifyIdle(c)

WorkerThread(w) ==
    WorkerWaits(w) \/ WorkerExits(w) \/ TakeTask(w) \/ RunTask(w) \/ TaskDone(w)

Next ==
    \/ \E c \in Callers : Call(c) \/ CallerThread(c)
    \/ \E w \in Workers : WorkerThread(w)
    \/ SpuriousWakeup

Spec == Init /\ [][Next]_vars

\* Threads that can run do, and tasks end; calls and wakeups are not promised.
FairSpec ==
    /\ Spec
    /\ \A c \in Callers : WF_vars(CallerThread(c))
    /\ \A w \in Workers : WF_vars(WorkerThread(w))
-----------------------------------------------------------------------------
Calls == {"idle", "submit", "wait_idle", "notify_workers", "notify_submitters",
          "join", "notify_idle"}

\* The type of every variable.
TypeOK ==
    /\ tasks \in Seq(Tasks)
    /\ active_count \in Nat
    /\ shutting_down \in BOOLEAN
    /\ uncaught \in Nat
    /\ worker \in [Workers -> [pc : {"loop", "run", "ran", "exited"}, task : Tasks \cup {None}]]
    /\ caller \in [Callers -> [pc : Calls, task : Tasks \cup {None}]]
    /\ task_waiters \subseteq Workers
    /\ space_waiters \subseteq Callers
    /\ idle_waiters \subseteq Callers
    /\ accepted \in Seq(Tasks) /\ refused \subseteq Tasks
    /\ started \in Seq(Tasks) /\ finished \subseteq Tasks

\* The queue never holds more than max_queue_size tasks, although a submit that
\* was notified runs only after others may have filled the place again.
QueueBounded == Len(tasks) <= max_queue_size

\* No accepted task is lost, doubled or overtaken: what was taken so far and
\* what is queued are together the accepted tasks in their order.
FirstInFirstOut == accepted = started \o tasks

Busy == {w \in Workers : worker[w].pc \in {"run", "ran"}}

\* active_count_ is the number of workers between taking a task and counting it
\* out again, so that the predicate of wait_idle means what it says.
ActiveCountIsExact == active_count = Cardinality(Busy)

\* wait_idle returns only when every task accepted so far has run to its end;
\* FileScanner::scan reads what its tasks wrote right after.
WaitIdleIsQuiet ==
    [][\A c \in Callers : caller[c].pc = "wait_idle" /\ caller'[c].pc = "idle" =>
          Elements(accepted) \subseteq finished]_vars

\* When the shutdown that closed the pool passes its joins, every accepted task
\* has run, also those that were still queued, and no worker is left waiting.
ShutdownDrains ==
    \A c \in Callers : caller[c].pc = "notify_idle" =>
        Elements(accepted) \subseteq finished /\ task_waiters = {}

\* A worker waits only between two tasks and exits only when none is left; what
\* was taken has finished or is being run; a shutdown past its joins has no
\* worker left.
WorkerInv ==
    /\ \A w \in Workers : worker[w].pc = "run" => worker[w].task \in Tasks
    /\ \A w \in task_waiters : worker[w].pc = "loop"
    /\ \A w \in Workers : worker[w].pc = "exited" => shutting_down /\ tasks = << >>
    /\ \A i \in 1..Len(started) :
           \/ started[i] \in finished
           \/ \E w \in Workers : worker[w].pc = "run" /\ worker[w].task = started[i]
    /\ \A c \in Callers :
           caller[c].pc = "notify_idle" => \A w \in Workers : worker[w].pc = "exited"

\* A submit in progress has a task, and a shutdown in progress has set the flag.
CallInv == \A c \in Callers :
    /\ caller[c].pc = "submit" => caller[c].task \in Tasks
    /\ caller[c].pc \notin {"idle", "submit", "wait_idle"} => shutting_down

\* All that holds of the pool between two critical sections.
IInv ==
    /\ TypeOK
    /\ QueueBounded
    /\ FirstInFirstOut
    /\ ActiveCountIsExact
    /\ WorkerInv
    /\ CallInv

\* No wakeup is lost: a blocked submit returns, by the place it waits for or
\* by the shutdown; wait_idle returns once no one submits any more; shutdown
\* returns, for every waiting worker is woken and exits.
CallsReturn ==
    \A c \in Callers :
        /\ caller[c].pc = "submit" ~> caller[c].pc # "submit"
        /\ caller[c].pc = "wait_idle" ~> caller[c].pc # "wait_idle"
        /\ caller[c].pc = "notify_workers" ~> caller[c].pc = "idle"
-----------------------------------------------------------------------------
Abstract == INSTANCE Executor WITH
    Parallelism <- Cardinality(Workers),
    begun <- Len(started),
    closed <- shutting_down

\* Mutex, condition variables and workers implement Executor: order, at most
\* one run of each task, and that every accepted task is run.
ImplementsExecutor == Abstract!Spec
=============================================================================
