------------------------------ MODULE MainLoop ------------------------------
(***************************************************************************)
(* Application::Schedule and Application::MainEventLoop, with the event    *)
(* group they use (porting/freertos/event_groups.cc).                      *)
(*                                                                         *)
(* Schedule is two critical sections, of two different mutexes: the task   *)
(* is queued under mutex_, then SCHEDULE_EVENT is set under the event      *)
(* group's mutex.  The loop is two more: wait for the bit and clear it,    *)
(* then take the queue.  Any thread may run between them; a task may also  *)
(* call Schedule itself, on the main thread.                               *)
(***************************************************************************)
EXTENDS Naturals, Sequences

CONSTANTS Threads,  \* the threads that call Schedule, besides the main one
          main,     \* the thread in MainEventLoop
          MaxTasks  \* bound: how many tasks are scheduled in a behaviour

ASSUME MaxTasksAssumption == MaxTasks \in Nat
ASSUME MainAssumption == main \notin Threads

Callers == Threads \cup {main}

\* Tasks are named by the order in which Schedule queues them.
Task == 1..MaxTasks
None == 0

VARIABLES
  main_tasks, \* main_tasks_, guarded by mutex_
  bit,        \* SCHEDULE_EVENT in the event group
  posting,    \* posting[t]: t is in Schedule, between its two sections
  pc,         \* the loop: "wait" (about to test the bit), "asleep", "take"
              \* (bit cleared, queue not taken yet) or "batch"
  tasks,      \* the loop's local list: tasks taken and not begun
  running,    \* the task being run, or None
  scheduled   \* how many tasks have been queued (names the next one)

vars == <<main_tasks, bit, posting, pc, tasks, running, scheduled>>

TypeOK ==
  /\ main_tasks \in Seq(Task)
  /\ bit \in BOOLEAN
  /\ posting \in [Callers -> BOOLEAN]
  /\ pc \in {"wait", "asleep", "take", "batch"}
  /\ tasks \in Seq(Task)
  /\ running \in Task \cup {None}
  /\ scheduled \in 0..MaxTasks

Init ==
  /\ main_tasks = <<>>
  /\ bit = FALSE
  /\ posting = [t \in Callers |-> FALSE]
  /\ pc = "wait"
  /\ tasks = <<>>
  /\ running = None
  /\ scheduled = 0
-----------------------------------------------------------------------------
(***************************************************************************)
(* Schedule.                                                               *)
(***************************************************************************)
\* The main thread calls Schedule from inside a task only.
MayCall(t) == ~posting[t] /\ (t = main => running # None)

\* A slip: the newest task goes first.
PushFront(t) ==
  /\ MayCall(t)
  /\ scheduled < MaxTasks
  /\ scheduled' = scheduled + 1
  /\ main_tasks' = <<scheduled'>> \o main_tasks
  /\ posting' = [posting EXCEPT ![t] = TRUE]
  /\ UNCHANGED <<bit, pc, tasks, running>>

Push(t) ==
  /\ MayCall(t)
  /\ scheduled < MaxTasks
  /\ scheduled' = scheduled + 1
  /\ main_tasks' = Append(main_tasks, scheduled')
  /\ posting' = [posting EXCEPT ![t] = TRUE]
  /\ UNCHANGED <<bit, pc, tasks, running>>

\* A slip: xEventGroupSetBits without notify_all.
SetBitsSilently(t) ==
  /\ posting[t]
  /\ posting' = [posting EXCEPT ![t] = FALSE]
  /\ bit' = TRUE
  /\ UNCHANGED <<main_tasks, pc, tasks, running, scheduled>>

\* xEventGroupSetBits: set the bit and notify the sleeping loop.
SetBits(t) ==
  /\ posting[t]
  /\ posting' = [posting EXCEPT ![t] = FALSE]
  /\ bit' = TRUE
  /\ pc' = IF pc = "asleep" THEN "wait" ELSE pc
  /\ UNCHANGED <<main_tasks, tasks, running, scheduled>>
-----------------------------------------------------------------------------
(***************************************************************************)
(* MainEventLoop.                                                          *)
(***************************************************************************)
\* xEventGroupWaitBits with nothing to return: sleep, forever if need be.
WaitBits ==
  /\ pc = "wait"
  /\ ~bit
  /\ pc' = "asleep"
  /\ UNCHANGED <<main_tasks, bit, posting, tasks, running, scheduled>>

SpuriousWakeup ==
  /\ pc = "asleep"
  /\ pc' = "wait"
  /\ UNCHANGED <<main_tasks, bit, posting, tasks, running, scheduled>>

\* xEventGroupWaitBits returns, having cleared the bit (xClearOnExit).
ClearOnExit ==
  /\ pc = "wait"
  /\ bit
  /\ bit' = FALSE
  /\ pc' = "take"
  /\ UNCHANGED <<main_tasks, posting, tasks, running, scheduled>>

\* A slip: one task per event.
TakeOne ==
  /\ pc = "take"
  /\ tasks' = IF main_tasks = <<>> THEN <<>> ELSE <<Head(main_tasks)>>
  /\ main_tasks' = IF main_tasks = <<>> THEN <<>> ELSE Tail(main_tasks)
  /\ pc' = "batch"
  /\ UNCHANGED <<bit, posting, running, scheduled>>

\* Take the whole queue.  It may be empty: the bit of a task that an earlier
\* turn of the loop took is still to be set.
TakeTasks ==
  /\ pc = "take"
  /\ tasks' = main_tasks
  /\ main_tasks' = <<>>
  /\ pc' = "batch"
  /\ UNCHANGED <<bit, posting, running, scheduled>>

BeginTask ==
  /\ pc = "batch"
  /\ running = None
  /\ tasks # <<>>
  /\ running' = Head(tasks)
  /\ tasks' = Tail(tasks)
  /\ UNCHANGED <<main_tasks, bit, posting, pc, scheduled>>

FinishTask ==
  /\ running # None
  /\ ~posting[main]
  /\ running' = None
  /\ UNCHANGED <<main_tasks, bit, posting, pc, tasks, scheduled>>

\* A slip: the bit is cleared when the batch is done.
EndBatchAndClear ==
  /\ pc = "batch"
  /\ running = None
  /\ tasks = <<>>
  /\ pc' = "wait"
  /\ bit' = FALSE
  /\ UNCHANGED <<main_tasks, posting, tasks, running, scheduled>>

EndBatch ==
  /\ pc = "batch"
  /\ running = None
  /\ tasks = <<>>
  /\ pc' = "wait"
  /\ UNCHANGED <<main_tasks, bit, posting, tasks, running, scheduled>>
-----------------------------------------------------------------------------
Loop ==
  WaitBits \/ ClearOnExit \/ TakeTasks \/ BeginTask \/ FinishTask \/ EndBatch

Next ==
  \/ \E t \in Callers : Push(t) \/ SetBits(t)
  \/ Loop
  \/ SpuriousWakeup

\* A thread that has entered Schedule leaves it; the loop keeps running and
\* tasks return.  Nobody is obliged to call Schedule.
Fairness ==
  /\ \A t \in Callers : WF_vars(SetBits(t))
  /\ WF_vars(Loop)

Spec == Init /\ [][Next]_vars /\ Fairness
-----------------------------------------------------------------------------
(***************************************************************************)
(* Properties.                                                             *)
(***************************************************************************)
\* The bit never misses a queued task: while main_tasks_ holds one, the loop
\* is about to take it, or the bit is set, or its poster has yet to set it.
NoStrandedTask ==
  main_tasks # <<>> => bit \/ pc = "take" \/ \E t \in Callers : posting[t]

\* The loop sleeps only while the bit is clear.
AsleepMeansClear == pc = "asleep" => ~bit

\* Once every caller has left Schedule, a sleeping loop has nothing to do:
\* no queued task waits for somebody else to call Schedule again.
QuietSleep ==
  pc = "asleep" /\ (\A t \in Callers : ~posting[t]) => main_tasks = <<>>

\* The local list and the running task belong to the loop body, and the main
\* thread is inside Schedule only while a task runs.
LoopOwned ==
  /\ pc # "batch" => tasks = <<>> /\ running = None
  /\ posting[main] => running # None

IInv == TypeOK /\ NoStrandedTask /\ AsleepMeansClear /\ LoopOwned

\* The loop runs the tasks of all threads one at a time, in the order
\* Schedule queued them, all of them: what the comment on MainEventLoop
\* (application.cc:317-319) asks other threads to rely on.
Executor == INSTANCE FifoExecutor WITH pending <- tasks \o main_tasks

ExecutorSpec == Executor!Spec
=============================================================================
