----------------------- MODULE BackgroundTask_proofs -----------------------
(***************************************************************************)
(* Proofs about BackgroundTask, for any set of client threads and any      *)
(* number of tasks: the inductive invariant IInv, what it says of the      *)
(* barrier, and that the worker implements FifoExecutor.                   *)
(***************************************************************************)
EXTENDS BackgroundTask, SequenceTheorems, TLAPS

\* Where a wake-up leaves a client.
LEMMA WokenType ==
  /\ \A s \in {"out", "check", "asleep"} : Woken(s) \in {"out", "check"}
  /\ \A s \in {"check", "asleep", "batch"} : Woken(s) \in {"check", "batch"}
BY DEF Woken

\* Taking the head off a sequence.
LEMMA HeadTail ==
  ASSUME NEW S, NEW s \in Seq(S), s # <<>>
  PROVE  /\ Head(s) \in S
         /\ Tail(s) \in Seq(S)
         /\ Len(s) \in Nat \ {0}
         /\ Len(Tail(s)) = Len(s) - 1
BY EmptySeq, HeadTailProperties, LenProperties

\* None is no task, and the next task's name is one.
LEMMA TaskNames ==
  /\ None \notin Task
  /\ \A n \in Nat : n < MaxTasks => n + 1 \in Task /\ n + 1 \in 0..MaxTasks
BY MaxTasksAssumption DEF Task, None

LEMMA InitIInv == Init => IInv
BY MaxTasksAssumption, EmptySeq
   DEF Init, IInv, TypeOK, Accounting, NoLostWakeup, BatchOwned, RunningCount,
       Task, None

LEMMA NextIInv == IInv /\ [Next]_vars => IInv'
<1> SUFFICES ASSUME IInv, [Next]_vars PROVE IInv'
  OBVIOUS
<1> USE TaskNames DEF IInv, TypeOK, BatchOwned
<1>1. ASSUME NEW c \in Clients, Schedule(c) PROVE IInv'
  <2>1. TypeOK'
    <3>1. scheduled' \in Task /\ scheduled' \in 0..MaxTasks
      BY <1>1, MaxTasksAssumption DEF Schedule
    <3>2. main_tasks' \in Seq(Task) /\ active_tasks' \in Nat
      BY <1>1, <3>1, AppendProperties DEF Schedule
    <3> QED BY <1>1, <3>1, <3>2, WokenType DEF Schedule, NotifyAll
  <2>2. Accounting'
    BY <1>1, AppendProperties, LenProperties
       DEF Schedule, Accounting, RunningCount
  <2>3. NoLostWakeup'
    BY <1>1, WokenType DEF Schedule, NotifyAll, NoLostWakeup
  <2>4. BatchOwned'
    BY <1>1, WokenType DEF Schedule, NotifyAll, Woken
  <2> QED BY <2>1, <2>2, <2>3, <2>4
<1>2. ASSUME NEW c \in Clients, CallWait(c) PROVE IInv'
  BY <1>2 DEF CallWait, Accounting, NoLostWakeup, RunningCount
<1>3. ASSUME NEW c \in Clients, CheckWait(c) PROVE IInv'
  <2>1. Accounting' /\ TypeOK' /\ BatchOwned'
    BY <1>3 DEF CheckWait, Accounting, RunningCount
  <2>2. ~Complete => active_tasks > 0
    BY LenProperties, EmptySeq DEF Complete, Accounting, RunningCount
  <2>3. NoLostWakeup'
    BY <1>3, <2>2 DEF CheckWait, NoLostWakeup
  <2> QED BY <2>1, <2>3
<1>4. ASSUME NEW c \in Clients, SpuriousWakeup(c) PROVE IInv'
  BY <1>4 DEF SpuriousWakeup, Accounting, NoLostWakeup, RunningCount
<1>5. CASE WorkerSleep
  BY <1>5 DEF WorkerSleep, Accounting, NoLostWakeup, RunningCount
<1>6. CASE WorkerWakeup
  BY <1>6 DEF WorkerWakeup, Accounting, NoLostWakeup, RunningCount
<1>7. CASE TakeBatch
  BY <1>7, EmptySeq DEF TakeBatch, Accounting, NoLostWakeup, RunningCount
<1>8. CASE BeginTask
  <2>1. /\ Head(tasks) \in Task
        /\ Tail(tasks) \in Seq(Task)
        /\ Len(tasks) \in Nat \ {0}
        /\ Len(Tail(tasks)) = Len(tasks) - 1
    BY <1>8, HeadTail DEF BeginTask
  <2>2. TypeOK' /\ NoLostWakeup' /\ BatchOwned'
    BY <1>8, <2>1 DEF BeginTask, NoLostWakeup
  <2>3. Accounting'
    <3>1. running = None /\ running' # None
      BY <1>8, <2>1 DEF BeginTask
    <3>2. active_tasks' = active_tasks /\ Len(tasks') = Len(tasks) - 1
          /\ main_tasks' = main_tasks
      BY <1>8, <2>1 DEF BeginTask
    <3>3. Len(main_tasks) \in Nat
      BY LenProperties
    <3> QED BY <2>1, <3>1, <3>2, <3>3 DEF Accounting, RunningCount
  <2> QED BY <2>2, <2>3
<1>9. CASE FinishTask
  <2>1. Accounting' /\ active_tasks' \in Nat
    BY <1>9, LenProperties DEF FinishTask, Accounting, RunningCount
  <2>2. worker' = Woken(worker) \/ worker' = worker
    BY <1>9 DEF FinishTask, NotifyAll
  <2>3. /\ worker' = "batch"
        /\ client' \in [Clients -> {"out", "check", "asleep"}]
    BY <1>9, <2>2, WokenType DEF FinishTask, NotifyAll, Woken
  <2>4. TypeOK' /\ BatchOwned'
    BY <1>9, <2>1, <2>3 DEF FinishTask
  <2>5. CASE active_tasks' = 0
    <3>1. main_tasks = <<>>
      BY <1>9, <2>1, <2>5, LenProperties, EmptySeq
         DEF FinishTask, Accounting, RunningCount
    <3>2. \A c \in Clients : client'[c] # "asleep"
      BY <1>9, <2>5, <3>1, WokenType DEF FinishTask, NotifyAll
    <3> QED BY <2>3, <2>4, <2>1, <3>2 DEF NoLostWakeup
  <2>6. CASE active_tasks' # 0
    BY <2>1, <2>3, <2>4, <2>6 DEF NoLostWakeup
  <2> QED BY <2>5, <2>6
<1>10. CASE EndBatch
  BY <1>10 DEF EndBatch, Accounting, NoLostWakeup, RunningCount
<1>11. CASE UNCHANGED vars
  BY <1>11 DEF vars, Accounting, NoLostWakeup, RunningCount
<1> QED
  BY <1>1, <1>2, <1>3, <1>4, <1>5, <1>6, <1>7, <1>8, <1>9, <1>10, <1>11
     DEF Next, Worker

\* IInv holds in every reachable state of background_task.cc's two loops.
THEOREM Invariance == Spec => []IInv
BY InitIInv, NextIInv, PTL DEF Spec

\* Every variable keeps its type.
THEOREM TypeCorrect == Spec => []TypeOK
BY Invariance, PTL DEF IInv

\* active_tasks_ is the number of tasks queued, taken or being run.
THEOREM AccountingHolds == Spec => []Accounting
BY Invariance, PTL DEF IInv

\* No thread sleeps on condition_variable_ with its predicate true.
THEOREM NoWakeupIsLost == Spec => []NoLostWakeup
BY Invariance, PTL DEF IInv

\* When WaitForCompletion returns, no task is queued, taken or running.
THEOREM BarrierHolds == Spec => Barrier
<1>1. IInv /\ [Next]_vars =>
        [\A c \in Clients :
           client[c] = "check" /\ client'[c] = "out"
             => main_tasks = <<>> /\ tasks = <<>> /\ running = None]_vars
  <2> SUFFICES ASSUME IInv, [Next]_vars, NEW c \in Clients,
                      client[c] = "check", client'[c] = "out"
               PROVE  main_tasks = <<>> /\ tasks = <<>> /\ running = None
    OBVIOUS
  <2> USE DEF IInv, TypeOK
  <2>1. Complete
    <3>1. CASE UNCHANGED vars
      BY <3>1 DEF vars
    <3>2. ASSUME NEW d \in Clients, Schedule(d) PROVE FALSE
      BY <3>2 DEF Schedule, NotifyAll, Woken
    <3>3. ASSUME NEW d \in Clients, CallWait(d) PROVE FALSE
      BY <3>3 DEF CallWait
    <3>4. ASSUME NEW d \in Clients, CheckWait(d) PROVE Complete
      BY <3>4 DEF CheckWait
    <3>5. ASSUME NEW d \in Clients, SpuriousWakeup(d) PROVE FALSE
      BY <3>5 DEF SpuriousWakeup
    <3>6. CASE Worker
      BY <3>6 DEF Worker, WorkerSleep, WorkerWakeup, TakeBatch, BeginTask,
                  FinishTask, EndBatch, NotifyAll, Woken
    <3> QED BY <3>1, <3>2, <3>3, <3>4, <3>5, <3>6 DEF Next
  <2>2. Len(tasks) = 0 /\ RunningCount = 0
    BY <2>1, LenProperties, EmptySeq DEF Complete, Accounting, RunningCount
  <2> QED
    BY <2>1, <2>2, EmptySeq DEF Complete, RunningCount
<1> QED
  BY <1>1, Invariance, PTL DEF Spec, Barrier

(***************************************************************************)
(* Refinement.  The list a FifoExecutor holds is the batch being worked on *)
(* followed by what has been queued since.                                 *)
(***************************************************************************)
LEMMA RefinementInit == Init => Executor!Init
BY EmptySeq, ConcatEmptySeq DEF Init, Executor!Init

LEMMA RefinementNext ==
  IInv /\ [Next]_vars => [Executor!Next]_Executor!vars
<1> SUFFICES ASSUME IInv, [Next]_vars PROVE [Executor!Next]_Executor!vars
  OBVIOUS
<1> USE DEF IInv, TypeOK, None
<1>1. ASSUME NEW c \in Clients, Schedule(c) PROVE Executor!Submit(scheduled')
  <2>1. scheduled' \in Task
    BY <1>1, MaxTasksAssumption DEF Schedule, Task
  <2>2. tasks \o Append(main_tasks, scheduled')
          = Append(tasks \o main_tasks, scheduled')
    BY <2>1, AppendIsConcat, ConcatAssociative, ConcatProperties
  <2> QED BY <1>1, <2>2 DEF Schedule, Executor!Submit
<1>2. ASSUME NEW c \in Clients, CallWait(c) \/ CheckWait(c) \/ SpuriousWakeup(c)
      PROVE  UNCHANGED Executor!vars
  BY <1>2 DEF CallWait, CheckWait, SpuriousWakeup, Executor!vars
<1>3. CASE WorkerSleep \/ WorkerWakeup \/ EndBatch
  BY <1>3 DEF WorkerSleep, WorkerWakeup, EndBatch, Executor!vars
<1>4. CASE TakeBatch
  <2>1. tasks = <<>>
    BY <1>4 DEF TakeBatch, BatchOwned
  <2>2. tasks \o main_tasks = main_tasks \o <<>>
    BY <2>1, ConcatEmptySeq
  <2> QED BY <1>4, <2>2 DEF TakeBatch, Executor!vars
<1>5. CASE BeginTask
  <2>1. /\ Head(tasks) = Head(tasks \o main_tasks)
        /\ Tail(tasks) \o main_tasks = Tail(tasks \o main_tasks)
        /\ tasks \o main_tasks # <<>>
    BY <1>5, ConcatProperties, HeadTailProperties, EmptySeq DEF BeginTask
  <2> QED BY <1>5, <2>1 DEF BeginTask, Executor!Begin, Executor!Next
<1>6. CASE FinishTask
  BY <1>6 DEF FinishTask, Executor!Finish, Executor!Next
<1>7. CASE UNCHANGED vars
  BY <1>7 DEF vars, Executor!vars
<1>8. ASSUME NEW c \in Clients, Schedule(c) PROVE Executor!Next
  <2>1. scheduled' \in Task
    BY <1>8, MaxTasksAssumption DEF Schedule, Task
  <2> QED BY <1>1, <1>8, <2>1 DEF Executor!Next
<1> QED
  BY <1>2, <1>3, <1>4, <1>5, <1>6, <1>7, <1>8 DEF Next, Worker, Executor!Next

\* The worker implements the safety half of FifoExecutor: the callbacks are
\* run one at a time, each once, in the order Schedule accepted them.
THEOREM ImplementsFifoExecutor == Spec => Executor!SafeSpec
BY RefinementInit, RefinementNext, Invariance, InitIInv, NextIInv, PTL
   DEF Spec, Executor!SafeSpec
=============================================================================
