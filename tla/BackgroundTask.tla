--------------------------- MODULE BackgroundTask ---------------------------
(***************************************************************************)
(* background_task.cc: a worker thread that runs the encode and decode     *)
(* jobs, and the barrier WaitForCompletion that SetDeviceState waits on.   *)
(*                                                                         *)
(* Every section of the code that holds mutex_ is one action.  The         *)
(* condition variable is modelled as it is used: a thread whose predicate  *)
(* is false goes to sleep (atomically with releasing mutex_), notify_all   *)
(* puts every sleeper back to the point where it re-evaluates its          *)
(* predicate, and a sleeper may also wake up for no reason.  Worker and    *)
(* waiters sleep on the same condition_variable_.                          *)
(***************************************************************************)
EXTENDS Naturals, Sequences

CONSTANTS Clients,  \* the threads that call Schedule and WaitForCompletion
          MaxTasks  \* bound: how many tasks are scheduled in a behaviour

ASSUME MaxTasksAssumption == MaxTasks \in Nat

\* Tasks are named by the order in which Schedule accepts them.
Task == 1..MaxTasks
None == 0

VARIABLES
  main_tasks,   \* scheduled tasks not yet taken by the worker
  active_tasks, \* the counter active_tasks_
  tasks,        \* the worker's local list: tasks taken and not begun
  running,      \* the task whose callback is executing, or None
  worker,       \* where the worker thread is: "check", "asleep" or "batch"
  client,       \* client[c]: "out" of the class, or in WaitForCompletion
  scheduled     \* how many tasks have been scheduled (names the next one)

vars == <<main_tasks, active_tasks, tasks, running, worker, client, scheduled>>

TypeOK ==
  /\ main_tasks \in Seq(Task)
  /\ active_tasks \in Nat
  /\ tasks \in Seq(Task)
  /\ running \in Task \cup {None}
  /\ worker \in {"check", "asleep", "batch"}
  /\ client \in [Clients -> {"out", "check", "asleep"}]
  /\ scheduled \in 0..MaxTasks

Init ==
  /\ main_tasks = <<>>
  /\ active_tasks = 0
  /\ tasks = <<>>
  /\ running = None
  /\ worker = "check"
  /\ client = [c \in Clients |-> "out"]
  /\ scheduled = 0

\* A thread asleep on condition_variable_ goes back to its predicate.
Woken(s) == IF s = "asleep" THEN "check" ELSE s

NotifyAll ==
  /\ worker' = Woken(worker)
  /\ client' = [c \in Clients |-> Woken(client[c])]

\* A slip: a barrier that looks at the queue alone.
QueueEmpty == main_tasks = <<>>

\* The predicate WaitForCompletion waits for.
Complete == main_tasks = <<>> /\ active_tasks = 0
-----------------------------------------------------------------------------
(***************************************************************************)
(* The clients.                                                            *)
(***************************************************************************)
\* A slip: active_tasks_ is not raised.
ScheduleUncounted(c) ==
  /\ client[c] = "out"
  /\ scheduled < MaxTasks
  /\ scheduled' = scheduled + 1
  /\ main_tasks' = Append(main_tasks, scheduled')
  /\ NotifyAll
  /\ UNCHANGED <<active_tasks, tasks, running>>

\* A slip: no notify_all after the task is queued.
ScheduleSilently(c) ==
  /\ client[c] = "out"
  /\ scheduled < MaxTasks
  /\ scheduled' = scheduled + 1
  /\ active_tasks' = active_tasks + 1
  /\ main_tasks' = Append(main_tasks, scheduled')
  /\ UNCHANGED <<tasks, running, worker, client>>

Schedule(c) ==
  /\ client[c] = "out"
  /\ scheduled < MaxTasks
  /\ scheduled' = scheduled + 1
  /\ active_tasks' = active_tasks + 1
  /\ main_tasks' = Append(main_tasks, scheduled')
  /\ NotifyAll
  /\ UNCHANGED <<tasks, running>>

CallWait(c) ==
  /\ client[c] = "out"
  /\ client' = [client EXCEPT ![c] = "check"]
  /\ UNCHANGED <<main_tasks, active_tasks, tasks, running, worker, scheduled>>

\* WaitForCompletion evaluates its predicate: return, or sleep.
CheckWait(c) ==
  /\ client[c] = "check"
  /\ client' = [client EXCEPT ![c] = IF Complete THEN "out" ELSE "asleep"]
  /\ UNCHANGED <<main_tasks, active_tasks, tasks, running, worker, scheduled>>

SpuriousWakeup(c) ==
  /\ client[c] = "asleep"
  /\ client' = [client EXCEPT ![c] = "check"]
  /\ UNCHANGED <<main_tasks, active_tasks, tasks, running, worker, scheduled>>
-----------------------------------------------------------------------------
(***************************************************************************)
(* The worker thread, BackgroundTaskLoop.                                  *)
(***************************************************************************)
WorkerSleep ==
  /\ worker = "check"
  /\ main_tasks = <<>>
  /\ worker' = "asleep"
  /\ UNCHANGED <<main_tasks, active_tasks, tasks, running, client, scheduled>>

WorkerWakeup ==
  /\ worker = "asleep"
  /\ worker' = "check"
  /\ UNCHANGED <<main_tasks, active_tasks, tasks, running, client, scheduled>>

\* A slip: the batch is taken from the back of the queue (one task at a time).
TakeNewest ==
  /\ worker = "check"
  /\ main_tasks # <<>>
  /\ worker' = "batch"
  /\ tasks' = <<main_tasks[Len(main_tasks)]>>
  /\ main_tasks' = SubSeq(main_tasks, 1, Len(main_tasks) - 1)
  /\ UNCHANGED <<active_tasks, running, client, scheduled>>

\* Take everything queued as one batch.
TakeBatch ==
  /\ worker = "check"
  /\ main_tasks # <<>>
  /\ worker' = "batch"
  /\ tasks' = main_tasks
  /\ main_tasks' = <<>>
  /\ UNCHANGED <<active_tasks, running, client, scheduled>>

BeginTask ==
  /\ worker = "batch"
  /\ running = None
  /\ tasks # <<>>
  /\ running' = Head(tasks)
  /\ tasks' = Tail(tasks)
  /\ UNCHANGED <<main_tasks, active_tasks, worker, client, scheduled>>

\* A slip: the count is given up, and nobody is told.
FinishTaskSilently ==
  /\ worker = "batch"
  /\ running # None
  /\ running' = None
  /\ active_tasks' = active_tasks - 1
  /\ UNCHANGED <<main_tasks, tasks, scheduled, worker, client>>

\* The callback has returned; its wrapper gives up the task's count and
\* wakes the waiters when it was the last one.
FinishTask ==
  /\ worker = "batch"
  /\ running # None
  /\ running' = None
  /\ active_tasks' = active_tasks - 1
  /\ IF main_tasks = <<>> /\ active_tasks' = 0
       THEN NotifyAll
       ELSE UNCHANGED <<worker, client>>
  /\ UNCHANGED <<main_tasks, tasks, scheduled>>

\* A slip: the loop goes back for the queue before its list is done.
EndBatchEarly ==
  /\ worker = "batch"
  /\ running = None
  /\ worker' = "check"
  /\ UNCHANGED <<main_tasks, active_tasks, tasks, running, client, scheduled>>

EndBatch ==
  /\ worker = "batch"
  /\ running = None
  /\ tasks = <<>>
  /\ worker' = "check"
  /\ UNCHANGED <<main_tasks, active_tasks, tasks, running, client, scheduled>>
-----------------------------------------------------------------------------
Worker ==
  WorkerSleep \/ WorkerWakeup \/ TakeBatch \/ BeginTask \/ FinishTask \/ EndBatch

Next ==
  \/ \E c \in Clients :
       Schedule(c) \/ CallWait(c) \/ CheckWait(c) \/ SpuriousWakeup(c)
  \/ Worker

\* The worker and a waiter that is awake keep running, and callbacks return.
\* Nothing is assumed about Schedule and WaitForCompletion being called, and
\* spurious wake-ups may never come.
Fairness ==
  /\ WF_vars(WorkerSleep \/ TakeBatch \/ BeginTask \/ FinishTask \/ EndBatch)
  /\ \A c \in Clients : WF_vars(CheckWait(c))

Spec == Init /\ [][Next]_vars /\ Fairness
-----------------------------------------------------------------------------
(***************************************************************************)
(* Properties.                                                             *)
(***************************************************************************)
RunningCount == IF running = None THEN 0 ELSE 1

\* active_tasks_ counts exactly the tasks that are queued, taken in the
\* worker's batch or being run: nothing else tells WaitForCompletion about
\* the tasks that have left main_tasks_.
Accounting ==
  active_tasks = Len(main_tasks) + Len(tasks) + RunningCount

\* No wake-up is lost: the worker never sleeps while a task is queued, and no
\* thread sleeps in WaitForCompletion once there is nothing left to wait for.
NoLostWakeup ==
  /\ worker = "asleep" => main_tasks = <<>>
  /\ \A c \in Clients : client[c] = "asleep" => active_tasks > 0

\* The worker touches the batch only while it is in its loop body; with the
\* three above this is the inductive invariant.
BatchOwned == worker # "batch" => tasks = <<>> /\ running = None

IInv == TypeOK /\ Accounting /\ NoLostWakeup /\ BatchOwned

\* WaitForCompletion is a barrier: when it returns, no task is queued, taken
\* or running.  SetDeviceState relies on it before it touches the decoder and
\* the audio processor (application.cc:462-463).
Barrier ==
  [][\A c \in Clients :
       client[c] = "check" /\ client'[c] = "out"
         => main_tasks = <<>> /\ tasks = <<>> /\ running = None]_vars

\* Every call of WaitForCompletion returns (tasks stop being scheduled once
\* MaxTasks is reached; with a producer that never pauses it need not).
WaitReturns == \A c \in Clients : client[c] # "out" ~> client[c] = "out"

\* The worker runs the scheduled tasks in order, one at a time, all of them.
Executor == INSTANCE FifoExecutor WITH pending <- tasks \o main_tasks

ExecutorSpec == Executor!Spec
=============================================================================
