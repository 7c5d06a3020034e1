---------------------------- MODULE FifoExecutor ----------------------------
(***************************************************************************)
(* What the two task queues of the program promise: tasks handed over by   *)
(* any thread are run one at a time by a single thread, in the order they  *)
(* were handed over, each exactly once.  BackgroundTask (encode and decode *)
(* jobs) and MainLoop (everything that touches the chat state) are both    *)
(* shown to implement this specification.                                  *)
(***************************************************************************)
EXTENDS Sequences

CONSTANTS Task, \* what may be handed over
          None  \* no task: not a member of Task

VARIABLES pending, \* tasks accepted and not begun, oldest first
          running  \* the task being run, or None

vars == <<pending, running>>

TypeOK ==
  /\ pending \in Seq(Task)
  /\ running \in Task \cup {None}

Init ==
  /\ pending = <<>>
  /\ running = None

\* Hand over task t.
Submit(t) ==
  /\ pending' = Append(pending, t)
  /\ UNCHANGED running

\* Start the oldest task.
Begin ==
  /\ running = None
  /\ pending # <<>>
  /\ running' = Head(pending)
  /\ pending' = Tail(pending)

\* The running task returns.
Finish ==
  /\ running # None
  /\ running' = None
  /\ UNCHANGED pending

Next ==
  \/ \E t \in Task : Submit(t)
  \/ Begin
  \/ Finish

\* The safety half of the promise: order, and one task at a time.
SafeSpec == Init /\ [][Next]_vars

\* With the liveness half: every accepted task is begun and completed.
Spec == SafeSpec /\ WF_vars(Begin) /\ WF_vars(Finish)
=============================================================================
