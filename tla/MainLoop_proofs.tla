-------------------------- MODULE MainLoop_proofs --------------------------
(***************************************************************************)
(* Proofs about MainLoop, for any set of posting threads and any number of *)
(* tasks: no task is stranded, and the loop implements FifoExecutor.       *)
(***************************************************************************)
EXTENDS MainLoop, SequenceTheorems, TLAPS

\* None is no task, and the next task's name is one.
LEMMA TaskNames ==
  /\ None \notin Task
  /\ \A n \in Nat : n < MaxTasks => n + 1 \in Task /\ n + 1 \in 0..MaxTasks
BY MaxTasksAssumption DEF Task, None

LEMMA InitIInv == Init => IInv
<1> SUFFICES ASSUME Init PROVE IInv
  OBVIOUS
<1>1. main \in Callers
  BY DEF Callers
<1>2. TypeOK
  <2>1. <<>> \in Seq(Task)
    BY EmptySeq
  <2>2. posting \in [Callers -> BOOLEAN]
    BY DEF Init
  <2>3. scheduled \in 0..MaxTasks
    BY MaxTasksAssumption DEF Init
  <2> QED BY <2>1, <2>2, <2>3 DEF Init, TypeOK
<1>3. LoopOwned
  BY <1>1 DEF Init, LoopOwned
<1> QED
  BY <1>2, <1>3 DEF Init, IInv, NoStrandedTask, AsleepMeansClear

LEMMA NextIInv == IInv /\ [Next]_vars => IInv'
<1> SUFFICES ASSUME IInv, [Next]_vars PROVE IInv'
  OBVIOUS
<1> USE TaskNames DEF IInv, TypeOK, LoopOwned, AsleepMeansClear
<1>1. ASSUME NEW t \in Callers, Push(t) PROVE IInv'
  <2>1. scheduled' \in Task /\ scheduled' \in 0..MaxTasks
    BY <1>1, MaxTasksAssumption DEF Push
  <2>2. TypeOK'
    BY <1>1, <2>1, AppendProperties DEF Push
  <2>3. NoStrandedTask'
    BY <1>1 DEF Push, NoStrandedTask
  <2>4. (AsleepMeansClear /\ LoopOwned)'
    BY <1>1 DEF Push, MayCall
  <2> QED BY <2>2, <2>3, <2>4
<1>2. ASSUME NEW t \in Callers, SetBits(t) PROVE IInv'
  BY <1>2 DEF SetBits, NoStrandedTask
<1>3. CASE WaitBits
  BY <1>3 DEF WaitBits, NoStrandedTask
<1>4. CASE ClearOnExit
  BY <1>4 DEF ClearOnExit, NoStrandedTask
<1>5. CASE TakeTasks
  BY <1>5, EmptySeq DEF TakeTasks, NoStrandedTask
<1>6. CASE BeginTask
  <2>1. Head(tasks) \in Task /\ Tail(tasks) \in Seq(Task)
    BY <1>6, HeadTailProperties DEF BeginTask
  <2> QED BY <1>6, <2>1 DEF BeginTask, NoStrandedTask
<1>7. CASE FinishTask
  BY <1>7 DEF FinishTask, NoStrandedTask
<1>8. CASE EndBatch
  BY <1>8 DEF EndBatch, NoStrandedTask
<1>9. CASE SpuriousWakeup
  BY <1>9 DEF SpuriousWakeup, NoStrandedTask
<1>10. CASE UNCHANGED vars
  BY <1>10 DEF vars, NoStrandedTask
<1> QED
  BY <1>1, <1>2, <1>3, <1>4, <1>5, <1>6, <1>7, <1>8, <1>9, <1>10 DEF Next, Loop

\* IInv holds in every reachable state of Schedule and MainEventLoop.
THEOREM Invariance == Spec => []IInv
BY InitIInv, NextIInv, PTL DEF Spec

\* Every variable keeps its type.
THEOREM TypeCorrect == Spec => []TypeOK
BY Invariance, PTL DEF IInv

\* While main_tasks_ holds a task somebody will still make the loop look.
THEOREM NothingIsStranded == Spec => []NoStrandedTask
BY Invariance, PTL DEF IInv

\* The loop sleeps through no task whose Schedule has returned.
THEOREM QuietSleepHolds == Spec => []QuietSleep
<1>1. IInv => QuietSleep
  BY DEF IInv, NoStrandedTask, AsleepMeansClear, QuietSleep
<1> QED BY <1>1, Invariance, PTL

(***************************************************************************)
(* Refinement, as for BackgroundTask: setting and clearing the bit is      *)
(* invisible in FifoExecutor.                                              *)
(***************************************************************************)
LEMMA RefinementInit == Init => Executor!Init
BY EmptySeq, ConcatEmptySeq DEF Init, Executor!Init

LEMMA RefinementNext ==
  IInv /\ [Next]_vars => [Executor!Next]_Executor!vars
<1> SUFFICES ASSUME IInv, [Next]_vars PROVE [Executor!Next]_Executor!vars
  OBVIOUS
<1> USE DEF IInv, TypeOK, None
<1>1. ASSUME NEW t \in Callers, Push(t) PROVE Executor!Next
  <2>1. scheduled' \in Task
    BY <1>1, MaxTasksAssumption DEF Push, Task
  <2>2. tasks \o Append(main_tasks, scheduled')
          = Append(tasks \o main_tasks, scheduled')
    BY <2>1, AppendIsConcat, ConcatAssociative, ConcatProperties
  <2>3. Executor!Submit(scheduled')
    BY <1>1, <2>2 DEF Push, Executor!Submit
  <2> QED BY <2>1, <2>3 DEF Executor!Next
<1>2. ASSUME NEW t \in Callers, SetBits(t) PROVE UNCHANGED Executor!vars
  BY <1>2 DEF SetBits, Executor!vars
<1>3. CASE WaitBits \/ ClearOnExit \/ EndBatch \/ SpuriousWakeup
  BY <1>3 DEF WaitBits, ClearOnExit, EndBatch, SpuriousWakeup, Executor!vars
<1>4. CASE TakeTasks
  <2>1. tasks = <<>>
    BY <1>4 DEF TakeTasks, LoopOwned
  <2>2. tasks \o main_tasks = main_tasks \o <<>>
    BY <2>1, ConcatEmptySeq
  <2> QED BY <1>4, <2>2 DEF TakeTasks, Executor!vars
<1>5. CASE BeginTask
  <2>1. /\ Head(tasks) = Head(tasks \o main_tasks)
        /\ Tail(tasks) \o main_tasks = Tail(tasks \o main_tasks)
        /\ tasks \o main_tasks # <<>>
    BY <1>5, ConcatProperties, HeadTailProperties, EmptySeq DEF BeginTask
  <2> QED BY <1>5, <2>1 DEF BeginTask, Executor!Begin, Executor!Next
<1>6. CASE FinishTask
  BY <1>6 DEF FinishTask, Executor!Finish, Executor!Next
<1>7. CASE UNCHANGED vars
  BY <1>7 DEF vars, Executor!vars
<1> QED
  BY <1>1, <1>2, <1>3, <1>4, <1>5, <1>6, <1>7 DEF Next, Loop

\* The main loop implements the safety half of FifoExecutor: tasks run one at
\* a time, each once, in the order Schedule queued them.
THEOREM ImplementsFifoExecutor == Spec => Executor!SafeSpec
BY RefinementInit, RefinementNext, Invariance, PTL DEF Spec, Executor!SafeSpec
=============================================================================
