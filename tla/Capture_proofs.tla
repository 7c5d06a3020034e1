--------------------------- MODULE Capture_proofs ---------------------------
(***************************************************************************)
(* Proofs about Capture, for any number of frames and of state changes.    *)
(***************************************************************************)
EXTENDS Capture, SequenceTheorems, TLAPS

LEMMA HandlingInit == Init => Handling
<1> SUFFICES ASSUME Init PROVE Handling
  OBVIOUS
<1>1. <<>> \in Seq(Frame) /\ 0 \in 0..MaxFrames /\ 0 \in 0..MaxSwitches
  BY EmptySeq, BoundsAssumption
<1>2. TypeOK
  BY <1>1 DEF Init, TypeOK
<1>3. HandsAndStates /\ NeverLeftBusy
  BY DEF Init, HandsAndStates, NeverLeftBusy
<1> QED BY <1>2, <1>3 DEF Handling

LEMMA LoopHandling == Handling /\ AudioLoop => Handling'
<1> SUFFICES ASSUME Handling, AudioLoop PROVE Handling'
  OBVIOUS
<1>0. /\ TypeOK /\ HandsAndStates /\ NeverLeftBusy
      /\ UNCHANGED <<is_running, outgoing, late, worker_vars, main_tasks,
                     main_vars, send_vars>>
  BY DEF Handling, AudioLoop, TestRunning, ReadAudio, Feed, processor
<1> USE <1>0 DEF TypeOK, HandsAndStates
<1>1. CASE TestRunning
  BY <1>1 DEF TestRunning, Handling, NeverLeftBusy, worker_vars, main_vars,
     send_vars, processor
<1>2. CASE ReadAudio
  <2>1. /\ frames' \in 0..MaxFrames /\ reading' \in Frame \cup {None}
        /\ loop' \in {"idle", "feed"} /\ (reading' # None <=> loop' = "feed")
    BY <1>2, BoundsAssumption DEF ReadAudio, Frame, None
  <2> QED BY <1>2, <2>1 DEF ReadAudio, Handling, NeverLeftBusy, worker_vars,
       main_vars, send_vars, processor
<1>3. CASE Feed
  <2>1. reading \in Frame
    BY <1>3 DEF Feed
  <2>2. qeue' \in Seq(Frame)
    BY <1>3, <2>1, AppendProperties DEF Feed
  <2> QED BY <1>3, <2>2 DEF Feed, Handling, NeverLeftBusy, worker_vars, main_vars,
       send_vars
<1> QED BY <1>1, <1>2, <1>3 DEF AudioLoop

LEMMA ProcessorHandling == Handling /\ Processor => Handling'
<1> SUFFICES ASSUME Handling, Processor PROVE Handling'
  OBVIOUS
<1> USE DEF Handling, TypeOK, HandsAndStates, NeverLeftBusy, loop_vars, main_vars,
     send_vars
<1>1. CASE TakeFrame
  <2>1. Head(qeue) \in Frame /\ qeue' \in Seq(Frame)
    BY <1>1, HeadTailProperties DEF TakeFrame
  <2>2. outgoing' \in Frame \cup {None} /\ (~is_running => outgoing' = None)
    BY <1>1, <2>1 DEF TakeFrame
  <2> QED BY <1>1, <2>1, <2>2 DEF TakeFrame, worker_vars
<1>2. CASE Output
  <2>1. jobs' \in Seq(Frame)
    <3>1. outgoing \in Frame
      BY <1>2 DEF Output
    <3> QED BY <1>2, <3>1, AppendProperties DEF Output
  <2>2. late' \in Nat /\ late' <= 1 /\ (is_running => late' = 0)
    BY <1>2 DEF Output
  <2> QED BY <1>2, <2>1, <2>2 DEF Output
<1> QED BY <1>1, <1>2 DEF Processor

LEMMA WorkerHandling == Handling /\ Worker => Handling'
<1> SUFFICES ASSUME Handling, Worker PROVE Handling'
  OBVIOUS
<1> USE DEF Handling, TypeOK, HandsAndStates, NeverLeftBusy, loop_vars, processor,
     main_vars, send_vars
<1>1. CASE BeginEncode
  <2>1. Head(jobs) \in Frame /\ jobs' \in Seq(Frame)
    BY <1>1, HeadTailProperties DEF BeginEncode
  <2> QED BY <1>1, <2>1 DEF BeginEncode
<1>2. CASE FinishEncode
  <2>1. main_tasks' \in Seq(Frame)
    <3>1. encoding \in Frame
      BY <1>2 DEF FinishEncode
    <3> QED BY <1>2, <3>1, AppendProperties DEF FinishEncode
  <2> QED BY <1>2, <2>1 DEF FinishEncode
<1> QED BY <1>1, <1>2 DEF Worker

LEMMA MainHandling == Handling /\ Main => Handling'
<1> SUFFICES ASSUME Handling, Main PROVE Handling'
  OBVIOUS
<1> USE DEF Handling, TypeOK, HandsAndStates, NeverLeftBusy, loop_vars, processor,
     worker_vars
<1>1. CASE BeginSend
  <2>1. Head(main_tasks) \in Frame /\ main_tasks' \in Seq(Frame)
    BY <1>1, HeadTailProperties DEF BeginSend
  <2>2. Head(main_tasks) # None
    BY <2>1, BoundsAssumption DEF Frame, None
  <2>3. CASE UNCHANGED <<main, busy, sending>>
    BY <1>1, <2>1, <2>3 DEF BeginSend
  <2>4. CASE udp # "none" /\ main' = "send" /\ busy' = TRUE
             /\ sending' = Head(main_tasks)
    BY <1>1, <2>1, <2>2, <2>4 DEF BeginSend
  <2> QED BY <1>1, <2>3, <2>4 DEF BeginSend
<1>2. CASE FinishSend
  BY <1>2 DEF FinishSend
<1>3. CASE SetDeviceState
  <2>1. switches' \in 0..MaxSwitches
    BY <1>3, BoundsAssumption DEF SetDeviceState
  <2> QED BY <1>3, <2>1 DEF SetDeviceState, send_vars
<1>4. CASE WaitForCompletion
  BY <1>4 DEF WaitForCompletion, send_vars
<1>5. CASE SwitchState
  <2>1. is_running' \in BOOLEAN
    BY <1>5 DEF SwitchState
  <2>2. late' \in Nat /\ late' <= 1 /\ (is_running' => late' = 0)
    BY <1>5 DEF SwitchState
  <2>3. ~is_running' /\ outgoing' # None => late' = 0
    BY <1>5 DEF SwitchState
  <2>4. TypeOK'
    BY <1>5, <2>1, <2>2 DEF SwitchState, send_vars
  <2>5. HandsAndStates' /\ NeverLeftBusy'
    BY <1>5, <2>2, <2>3 DEF SwitchState, send_vars
  <2> QED BY <2>4, <2>5
<1>6. CASE OpenChannel \/ CloseChannel
  <2>1. switches' \in 0..MaxSwitches
    BY <1>6, BoundsAssumption DEF OpenChannel, CloseChannel
  <2>2. CASE OpenChannel
    BY <2>1, <2>2 DEF OpenChannel
  <2>3. CASE CloseChannel
    BY <2>1, <2>3 DEF CloseChannel, send_vars
  <2> QED BY <1>6, <2>2, <2>3
<1> QED BY <1>1, <1>2, <1>3, <1>4, <1>5, <1>6 DEF Main

\* Who holds a frame, the flag around sending and the count of frames that
\* outlive a stop.
LEMMA NextHandling == Handling /\ [Next]_vars => Handling'
<1>1. Handling /\ UNCHANGED vars => Handling'
  BY DEF vars, loop_vars, processor, worker_vars, main_vars, send_vars, Handling,
     TypeOK, HandsAndStates, NeverLeftBusy
<1> QED BY <1>1, LoopHandling, ProcessorHandling, WorkerHandling, MainHandling DEF Next
-----------------------------------------------------------------------------
(***************************************************************************)
(* Refinement.  What a LossyFifo has pending is what OnTheWay lists: the   *)
(* packet in SendAudio, the SendAudio tasks, the frame being encoded, the  *)
(* encode jobs, the frame the processor's thread holds, its queue and the  *)
(* frame in the audio loop's hand.                                         *)
(***************************************************************************)
\* The seven stages of the way, joined as OnTheWay joins them.
Joined(a, b, c, d, e, f, g) == a \o b \o c \o d \o e \o f \o g

\* The same, with what is behind the third stage joined first.
JoinedBehind(a, b, c, d, e, f, g) == (a \o b) \o (c \o (d \o e \o f \o g))

AreSequences(a, b, c, d, e, f, g) == {a, b, c, d, e, f, g} \subseteq Seq(Frame)

\* They may be taken apart behind the first, and on both sides of the third.
LEMMA TakenApart ==
  ASSUME NEW a, NEW b, NEW c, NEW d, NEW e, NEW f, NEW g,
         AreSequences(a, b, c, d, e, f, g)
  PROVE  /\ Joined(a, b, c, d, e, f, g) \in Seq(Frame)
         /\ Joined(a, b, c, d, e, f, g) = a \o (b \o c \o d \o e \o f \o g)
         /\ Joined(a, b, c, d, e, f, g) = JoinedBehind(a, b, c, d, e, f, g)
<1>a. a \in Seq(Frame) BY DEF AreSequences
<1>b. b \in Seq(Frame) BY DEF AreSequences
<1>c. c \in Seq(Frame) BY DEF AreSequences
<1>d. d \in Seq(Frame) BY DEF AreSequences
<1>e. e \in Seq(Frame) BY DEF AreSequences
<1>f. f \in Seq(Frame) BY DEF AreSequences
<1>g. g \in Seq(Frame) BY DEF AreSequences
<1> DEFINE ab == a \o b
           abc == ab \o c
           bc == b \o c
           bcd == bc \o d
           bcde == bcd \o e
           bcdef == bcde \o f
           de == d \o e
           def == de \o f
           defg == def \o g
<1>ab. ab \in Seq(Frame)
  BY ONLY <1>a, <1>b, ConcatProperties
<1>bc. bc \in Seq(Frame)
  BY ONLY <1>b, <1>c, ConcatProperties
<1>de. de \in Seq(Frame)
  BY ONLY <1>d, <1>e, ConcatProperties
<1>1. ab \o c = a \o bc
  BY ONLY <1>a, <1>b, <1>c, ConcatAssociative
<1> HIDE DEF ab, abc, bc, bcd, bcde, bcdef, de, def, defg
<1>abc. abc \in Seq(Frame)
  BY ONLY <1>ab, <1>c, ConcatProperties DEF abc
<1>bcd. bcd \in Seq(Frame)
  BY ONLY <1>bc, <1>d, ConcatProperties DEF bcd
<1>bcde. bcde \in Seq(Frame)
  BY ONLY <1>bcd, <1>e, ConcatProperties DEF bcde
<1>bcdef. bcdef \in Seq(Frame)
  BY ONLY <1>bcde, <1>f, ConcatProperties DEF bcdef
<1>def. def \in Seq(Frame)
  BY ONLY <1>de, <1>f, ConcatProperties DEF def
<1>defg. defg \in Seq(Frame)
  BY ONLY <1>def, <1>g, ConcatProperties DEF defg
\* The first against the six others...
<1>4. a \o bc \o d = a \o (bc \o d)
  BY ONLY <1>a, <1>bc, <1>d, ConcatAssociative
<1>5. a \o bcd \o e = a \o (bcd \o e)
  BY ONLY <1>a, <1>bcd, <1>e, ConcatAssociative
<1>6. a \o bcde \o f = a \o (bcde \o f)
  BY ONLY <1>a, <1>bcde, <1>f, ConcatAssociative
<1>7. a \o bcdef \o g = a \o (bcdef \o g)
  BY ONLY <1>a, <1>bcdef, <1>g, ConcatAssociative
\* ... and the first three against the last four.
<1>8. abc \o d \o e = abc \o (d \o e)
  BY ONLY <1>abc, <1>d, <1>e, ConcatAssociative
<1>9. abc \o de \o f = abc \o (de \o f)
  BY ONLY <1>abc, <1>de, <1>f, ConcatAssociative
<1>10. abc \o def \o g = abc \o (def \o g)
  BY ONLY <1>abc, <1>def, <1>g, ConcatAssociative
<1>11. ab \o c \o defg = ab \o (c \o defg)
  BY ONLY <1>ab, <1>c, <1>defg, ConcatAssociative
<1>12. abc \o defg \in Seq(Frame)
  BY ONLY <1>abc, <1>defg, ConcatProperties
<1>13. Joined(a, b, c, d, e, f, g) = abc \o d \o e \o f \o g
  BY DEF Joined, ab, abc
<1>14. abc \o d \o e \o f \o g = abc \o defg
  BY ONLY <1>8, <1>9, <1>10 DEF de, def, defg
<1>15. abc \o d \o e \o f \o g = a \o (bcdef \o g)
  BY ONLY <1>1, <1>4, <1>5, <1>6, <1>7 DEF abc, bc, bcd, bcde, bcdef
<1>16. abc \o defg = ab \o (c \o defg)
  BY ONLY <1>11 DEF abc
<1> QED
  BY ONLY <1>12, <1>13, <1>14, <1>15, <1>16 DEF JoinedBehind, ab, bc, bcd, bcde,
        bcdef, de, def, defg

\* A frame that leaves a queue for the stage ahead of it stays where it was.
LEMMA MovedAhead ==
  ASSUME NEW S, NEW a \in Seq(S), NEW q \in Seq(S), q # <<>>
  PROVE  /\ Head(q) \in S /\ Tail(q) \in Seq(S)
         /\ <<Head(q)>> \o Tail(q) = q
         /\ (a \o <<Head(q)>>) \o Tail(q) = (a \o <<>>) \o q
<1>1. Head(q) \in S /\ Tail(q) \in Seq(S) /\ <<Head(q)>> \in Seq(S)
  BY HeadTailProperties
<1>2. <<Head(q)>> \o Tail(q) = q
  <2>1. Len(q) \in Nat \ {0} /\ Head(q) = q[1]
    BY EmptySeq
  <2>2. /\ SubSeq(q, 1, Len(q)) = <<q[1]>> \o SubSeq(q, 2, Len(q))
        /\ SubSeq(q, 1, Len(q)) = q
        /\ Tail(q) = SubSeq(q, 2, Len(q))
    BY <2>1, SubSeqRecursiveFirst, SubSeqFull, TailIsSubSeq
  <2> QED BY <2>1, <2>2
<1>3. (a \o <<Head(q)>>) \o Tail(q) = a \o (<<Head(q)>> \o Tail(q))
  BY <1>1, ConcatAssociative
<1>4. a \o <<>> = a
  BY ConcatEmptySeq
<1> QED BY <1>1, <1>2, <1>3, <1>4

\* So does one that joins the queue ahead of it.
LEMMA JoinedAhead ==
  ASSUME NEW S, NEW a \in Seq(S), NEW q \in Seq(S), NEW x \in S
  PROVE  (a \o Append(q, x)) \o <<>> = (a \o q) \o <<x>>
<1>1. <<x>> \in Seq(S) /\ Append(q, x) \in Seq(S) /\ Append(q, x) = q \o <<x>>
  BY AppendProperties, AppendIsConcat
<1>2. a \o (q \o <<x>>) = (a \o q) \o <<x>>
  BY <1>1, ConcatAssociative
<1>3. a \o Append(q, x) \in Seq(S)
  BY <1>1, ConcatProperties
<1> QED BY <1>1, <1>2, <1>3, ConcatEmptySeq

\* Losing one frame, whatever is ahead of it and behind it, is a step of the
\* abstract queue.
LEMMA LosesOne ==
  ASSUME NEW a \in Seq(Frame), NEW x \in Frame, NEW c \in Seq(Frame),
         OnTheWay = a \o (<<x>> \o c), OnTheWay' = a \o c, UNCHANGED sent
  PROVE  Path!Lose
<1> DEFINE s == OnTheWay
           n == Len(a)
           first == SubSeq(s, 1, n)
           last == SubSeq(s, n + 2, Len(s))
<1>1. /\ <<x>> \in Seq(Frame) /\ n \in Nat /\ Len(c) \in Nat
      /\ <<x>> \o c \in Seq(Frame) /\ Len(<<x>> \o c) = Len(c) + 1
      /\ \A k \in 1..Len(c) : (<<x>> \o c)[k + 1] = c[k]
  BY ConcatProperties, LenProperties
<1>2. /\ s \in Seq(Frame) /\ Len(s) = n + Len(c) + 1
      /\ \A k \in 1..n : s[k] = a[k]
      /\ \A k \in 1..Len(c) : s[n + 1 + k] = c[k]
  <2>1. /\ s \in Seq(Frame) /\ Len(s) = n + Len(<<x>> \o c)
        /\ \A k \in 1..(n + Len(<<x>> \o c)) :
             s[k] = IF k <= n THEN a[k] ELSE (<<x>> \o c)[k - n]
    BY <1>1, ConcatProperties
  <2>2. \A k \in 1..Len(c) : s[n + 1 + k] = (<<x>> \o c)[k + 1]
    BY <1>1, <2>1
  <2> QED BY <1>1, <2>1, <2>2
<1>3. \A k \in 1..Len(s) : s[k] \in Frame
  BY <1>2, ElementOfSeq
<1>4. OnTheWay' = a \o c
  OBVIOUS
<1>5. first = a
  <2>1. /\ first \in Seq(Frame) /\ Len(first) = n
        /\ \A k \in 1..n : first[k] = s[k]
    BY <1>1, <1>2, <1>3, SubSeqProperties
  <2> QED BY <1>2, <2>1, SeqEqual
<1>6. last = c
  <2>1. /\ last \in Seq(Frame) /\ Len(last) = Len(c)
        /\ \A k \in 1..Len(c) : last[k] = s[n + 1 + k]
    BY <1>1, <1>2, <1>3, SubSeqProperties
  <2> QED BY <1>2, <2>1, SeqEqual
<1>7. /\ n + 1 \in 1..(Len(OnTheWay) + 1) /\ n + 2 \in 1..(Len(OnTheWay) + 1)
      /\ n + 1 < n + 2
  BY <1>1, <1>2
<1>8. OnTheWay' = SubSeq(OnTheWay, 1, (n + 1) - 1)
                    \o SubSeq(OnTheWay, n + 2, Len(OnTheWay))
  <2>1. (n + 1) - 1 = n
    BY <1>1
  <2>2. OnTheWay' = SubSeq(OnTheWay, 1, n) \o SubSeq(OnTheWay, n + 2, Len(OnTheWay))
    BY ONLY <1>4, <1>5, <1>6
  <2> QED BY ONLY <2>1, <2>2
<1> QED BY <1>7, <1>8 DEF Path!Lose

\* What each stage holds is a sequence of frames; OnTheWay joins the stages.
LEMMA Stages ==
  ASSUME TypeOK
  PROVE  /\ One(sending) \in Seq(Frame) /\ main_tasks \in Seq(Frame)
         /\ One(encoding) \in Seq(Frame) /\ jobs \in Seq(Frame)
         /\ One(outgoing) \in Seq(Frame) /\ qeue \in Seq(Frame)
         /\ One(reading) \in Seq(Frame) /\ <<>> \in Seq(Frame)
         /\ OnTheWay = Joined(One(sending), main_tasks, One(encoding), jobs,
                              One(outgoing), qeue, One(reading))
         /\ OnTheWay \in Seq(Frame)
<1>1. \A x \in Frame \cup {None} : One(x) \in Seq(Frame)
  BY EmptySeq DEF One
<1>2. /\ One(sending) \in Seq(Frame) /\ main_tasks \in Seq(Frame)
      /\ One(encoding) \in Seq(Frame) /\ jobs \in Seq(Frame)
      /\ One(outgoing) \in Seq(Frame) /\ qeue \in Seq(Frame)
      /\ One(reading) \in Seq(Frame) /\ <<>> \in Seq(Frame)
  BY <1>1, EmptySeq DEF TypeOK
<1>3. OnTheWay = Joined(One(sending), main_tasks, One(encoding), jobs,
                        One(outgoing), qeue, One(reading))
  BY DEF OnTheWay, Joined
<1>4. AreSequences(One(sending), main_tasks, One(encoding), jobs, One(outgoing), qeue,
                   One(reading))
  BY <1>2 DEF AreSequences
<1> QED BY <1>2, <1>3, <1>4, TakenApart

\* What a LossyFifo may do to what it holds.
Moves == Path!Deliver \/ Path!Lose

LEMMA RefinementInit == Init => Path!Init
BY EmptySeq, ConcatEmptySeq DEF Init, Path!Init, OnTheWay, One

\* A frame read is put on the way; giving it to the processor leaves it there.
LEMMA LoopRefines ==
  ASSUME Handling, AudioLoop
  PROVE  \/ frames' = frames + 1 /\ frames + 1 \in Frame /\ Path!Put(frames + 1)
         \/ UNCHANGED <<frames, Path!vars>>
<1>0. /\ TypeOK /\ HandsAndStates
      /\ UNCHANGED <<outgoing, worker_vars, main_tasks, send_vars>>
  BY DEF Handling, AudioLoop, TestRunning, ReadAudio, Feed, processor
<1>1. UNCHANGED <<sending, main_tasks, encoding, jobs, outgoing, sent>>
  BY <1>0 DEF worker_vars, send_vars
<1> DEFINE front == One(sending) \o main_tasks \o One(encoding) \o jobs \o One(outgoing)
<1>2. front' = front
  BY <1>1 DEF One
<1>3. /\ front \in Seq(Frame) /\ front \o qeue \in Seq(Frame)
      /\ qeue \in Seq(Frame) /\ OnTheWay \in Seq(Frame)
  <2>1. One(sending) \o main_tasks \in Seq(Frame)
    BY <1>0, Stages, ConcatProperties
  <2>2. One(sending) \o main_tasks \o One(encoding) \in Seq(Frame)
    BY <1>0, <2>1, Stages, ConcatProperties
  <2>3. One(sending) \o main_tasks \o One(encoding) \o jobs \in Seq(Frame)
    BY <1>0, <2>2, Stages, ConcatProperties
  <2>4. front \in Seq(Frame)
    BY <1>0, <2>3, Stages, ConcatProperties
  <2> QED BY <1>0, <2>4, Stages, ConcatProperties
<1>4. OnTheWay = (front \o qeue) \o One(reading)
  BY DEF OnTheWay
<1>5. OnTheWay' = (front \o qeue') \o One(reading)'
  BY <1>2 DEF OnTheWay
<1> HIDE DEF front
<1>6. CASE TestRunning \/ UNCHANGED <<qeue, reading, frames>>
  <2>1. UNCHANGED <<qeue, reading>>
    BY <1>6 DEF TestRunning, processor
  <2>2. OnTheWay' = OnTheWay
    BY <1>4, <1>5, <2>1 DEF One
  <2> QED BY <1>1, <1>6, <2>2 DEF TestRunning, Path!vars
<1>7. CASE ReadAudio /\ ~UNCHANGED <<qeue, reading, frames>>
  <2>1. /\ reading = None /\ reading' \in Frame /\ qeue' = qeue
        /\ reading' = frames + 1 /\ frames' = frames + 1
    BY <1>0, <1>7, BoundsAssumption DEF ReadAudio, HandsAndStates, TypeOK, Frame, processor
  <2>2. reading' # None
    BY <2>1, BoundsAssumption DEF Frame, None
  <2>3. One(reading) = <<>> /\ One(reading)' = <<reading'>>
    BY <2>1, <2>2 DEF One
  <2>4. OnTheWay = front \o qeue /\ OnTheWay' = (front \o qeue) \o <<reading'>>
    BY <1>3, <1>4, <1>5, <2>1, <2>3, ConcatEmptySeq
  <2>5. OnTheWay' = Append(OnTheWay, reading')
    BY <1>3, <2>1, <2>4, AppendIsConcat
  <2> QED BY <1>1, <2>1, <2>5 DEF Path!Put
<1>8. CASE Feed
  <2>1. reading \in Frame /\ qeue' = Append(qeue, reading) /\ reading' = None
        /\ reading # None
    BY <1>0, <1>8 DEF Feed, HandsAndStates, TypeOK
  <2>2. One(reading) = <<reading>> /\ One(reading)' = <<>>
    BY <2>1 DEF One
  <2>3. OnTheWay' = OnTheWay
    BY <1>3, <1>4, <1>5, <2>1, <2>2, JoinedAhead
  <2> QED BY <1>1, <1>8, <2>3 DEF Feed, Path!vars
<1> QED BY <1>6, <1>7, <1>8 DEF AudioLoop

\* The processor's thread hands a frame on, or loses it when it is stopped.
LEMMA ProcessorRefines == Handling /\ Processor => [Moves]_Path!vars
<1> SUFFICES ASSUME Handling, Processor PROVE [Moves]_Path!vars
  OBVIOUS
<1>0. TypeOK /\ UNCHANGED <<sending, main_tasks, encoding, reading, sent>>
  BY DEF Handling, Processor, TakeFrame, Output, loop_vars, worker_vars, send_vars
<1> DEFINE early == One(sending) \o main_tasks \o One(encoding)
           front == early \o jobs
<1>1. early' = early /\ One(reading)' = One(reading)
  BY <1>0 DEF One
<1>2. early \in Seq(Frame) /\ front \in Seq(Frame)
  <2>1. One(sending) \o main_tasks \in Seq(Frame)
    BY <1>0, Stages, ConcatProperties
  <2>2. early \in Seq(Frame)
    BY <1>0, <2>1, Stages, ConcatProperties
  <2> QED BY <1>0, <2>2, Stages, ConcatProperties
<1>3. CASE TakeFrame
  <2>1. /\ outgoing = None /\ qeue # <<>> /\ qeue' = Tail(qeue) /\ jobs' = jobs
        /\ outgoing' \in {Head(qeue), None}
    BY <1>3 DEF TakeFrame, worker_vars
  <2>2. /\ qeue \in Seq(Frame) /\ Head(qeue) \in Frame /\ qeue' \in Seq(Frame)
        /\ One(reading) \in Seq(Frame) /\ Head(qeue) # None
        /\ <<Head(qeue)>> \o qeue' = qeue
    <3>1. qeue \in Seq(Frame) /\ One(reading) \in Seq(Frame)
      BY <1>0, Stages
    <3>2. /\ Head(qeue) \in Frame /\ qeue' \in Seq(Frame)
          /\ <<Head(qeue)>> \o qeue' = qeue
      BY <2>1, <3>1, MovedAhead
    <3> QED BY <3>1, <3>2, BoundsAssumption DEF Frame, None
  <2>a. qeue' \in Seq(Frame)
    BY <2>2
  <2>b. One(reading) \in Seq(Frame)
    BY <2>2
  <2>c. qeue \in Seq(Frame)
    BY <2>2
  <2>3. OnTheWay = ((front \o <<>>) \o qeue) \o One(reading)
    BY <2>1 DEF OnTheWay, One
  <2>4. OnTheWay' = ((front \o One(outgoing)') \o qeue') \o One(reading)
    BY <1>1, <2>1 DEF OnTheWay
  <2> HIDE DEF front
  <2>5. CASE outgoing' = Head(qeue)
    <3>1. One(outgoing)' = <<Head(qeue)>>
      BY <2>2, <2>5 DEF One
    <3>2. (front \o <<Head(qeue)>>) \o Tail(qeue) = (front \o <<>>) \o qeue
      <4>1. front \in Seq(Frame)
        BY <1>2
      <4>2. qeue # <<>>
        BY <2>1
      <4> QED BY ONLY <4>1, <4>2, <2>c, MovedAhead
    <3>3. OnTheWay' = OnTheWay
      BY ONLY <2>1, <2>3, <2>4, <3>1, <3>2
    <3> QED BY <1>0, <3>3 DEF Path!vars
  <2>6. CASE outgoing' = None
    <3> DEFINE rest == qeue' \o One(reading)
    <3>1. One(outgoing)' = <<>> /\ front \o <<>> = front
      BY <1>2, <2>6, ConcatEmptySeq DEF One
    <3>2. OnTheWay' = front \o rest
      <4>1. (front \o qeue') \o One(reading) = front \o rest
        BY ONLY <1>2, <2>a, <2>b, ConcatAssociative
      <4> QED BY ONLY <2>4, <3>1, <4>1
    <3>3. OnTheWay = front \o (<<Head(qeue)>> \o rest)
      <4>1. (front \o qeue) \o One(reading) = front \o (qeue \o One(reading))
        BY ONLY <1>2, <2>c, <2>b, ConcatAssociative
      <4>2. <<Head(qeue)>> \in Seq(Frame)
        BY <2>2
      <4>3. (<<Head(qeue)>> \o qeue') \o One(reading) = <<Head(qeue)>> \o rest
        BY ONLY <2>a, <2>b, <4>2, ConcatAssociative
      <4> QED BY ONLY <2>2, <2>3, <3>1, <4>1, <4>3
    <3>4. rest \in Seq(Frame)
      BY <2>a, <2>b, ConcatProperties
    <3> HIDE DEF rest
    <3>5. Path!Lose
      BY <1>0, <1>2, <2>2, <3>2, <3>3, <3>4, LosesOne
    <3> QED BY <3>5 DEF Moves
  <2> QED BY <2>1, <2>5, <2>6
<1>4. CASE Output
  <2>1. /\ outgoing \in Frame /\ outgoing # None /\ outgoing' = None
        /\ jobs' = Append(jobs, outgoing) /\ qeue' = qeue
    BY <1>0, <1>4 DEF Output, TypeOK
  <2>2. OnTheWay = ((early \o jobs) \o <<outgoing>>) \o qeue \o One(reading)
    BY <2>1 DEF OnTheWay, One
  <2>3. OnTheWay' = ((early \o Append(jobs, outgoing)) \o <<>>) \o qeue \o One(reading)
    BY <1>1, <2>1 DEF OnTheWay, One
  <2> HIDE DEF early
  <2>4. (early \o Append(jobs, outgoing)) \o <<>> = (early \o jobs) \o <<outgoing>>
    BY <1>0, <1>2, <2>1, Stages, JoinedAhead
  <2> QED BY <1>0, <2>2, <2>3, <2>4 DEF Path!vars
<1> QED BY <1>3, <1>4 DEF Processor

\* The background task encodes a frame, or loses it: the channel is busy, the
\* frame cannot be encoded, or too many timestamps are waiting.
LEMMA WorkerRefines == Handling /\ Worker => [Moves]_Path!vars
<1> SUFFICES ASSUME Handling, Worker PROVE [Moves]_Path!vars
  OBVIOUS
<1>0. TypeOK /\ UNCHANGED <<sending, outgoing, qeue, reading, sent>>
  BY DEF Handling, Worker, BeginEncode, FinishEncode, loop_vars, processor, send_vars
<1> DEFINE o == One(outgoing)
           r == One(reading)
           p == One(sending)
           front == p \o main_tasks
           behind == jobs' \o o \o qeue \o r
<1>1. o' = o /\ r' = r /\ p' = p
  BY <1>0 DEF One
<1>2. /\ front \in Seq(Frame) /\ o \in Seq(Frame) /\ r \in Seq(Frame)
      /\ qeue \in Seq(Frame) /\ jobs \in Seq(Frame) /\ <<>> \in Seq(Frame)
      /\ main_tasks \in Seq(Frame) /\ p \in Seq(Frame)
  BY <1>0, Stages, ConcatProperties
<1>3. ASSUME jobs' \in Seq(Frame)
      PROVE  behind \in Seq(Frame)
  <2>1. jobs' \o o \in Seq(Frame)
    BY <1>2, <1>3, ConcatProperties
  <2>2. jobs' \o o \o qeue \in Seq(Frame)
    BY <1>2, <2>1, ConcatProperties
  <2> QED BY <1>2, <1>3, <2>2, ConcatProperties
\* What the job has given up is gone, what was behind it follows.
<1>4. ASSUME NEW x \in Frame, jobs' \in Seq(Frame), main_tasks' = main_tasks,
             OnTheWay = (front \o <<x>>) \o jobs' \o o \o qeue \o r,
             OnTheWay' = (front \o <<>>) \o jobs' \o o \o qeue \o r
      PROVE  Path!Lose
  <2>0. <<x>> \in Seq(Frame)
    OBVIOUS
  <2> PICK left \in Seq(Frame) : left = jobs'
    BY <1>4
  <2> DEFINE rest == left \o o \o qeue \o r
  <2>1. OnTheWay = Joined(p, main_tasks, <<x>>, left, o, qeue, r)
    BY <1>4 DEF Joined
  <2>2. OnTheWay' = Joined(p, main_tasks, <<>>, left, o, qeue, r)
    BY <1>4 DEF Joined
  <2>3. \A c \in Seq(Frame) : Joined(p, main_tasks, c, left, o, qeue, r)
                                = front \o (c \o rest)
    <3> SUFFICES ASSUME NEW c \in Seq(Frame)
                 PROVE  Joined(p, main_tasks, c, left, o, qeue, r)
                          = front \o (c \o rest)
      OBVIOUS
    <3>1. AreSequences(p, main_tasks, c, left, o, qeue, r)
      BY <1>2 DEF AreSequences
    <3> HIDE DEF p, o, r
    <3>2. Joined(p, main_tasks, c, left, o, qeue, r)
            = JoinedBehind(p, main_tasks, c, left, o, qeue, r)
      BY ONLY <3>1, TakenApart
    <3> QED BY <3>2 DEF JoinedBehind
  <2>4. OnTheWay = front \o (<<x>> \o behind)
    BY <2>0, <2>1, <2>3
  <2>5. OnTheWay' = front \o (<<>> \o behind)
    BY <1>2, <2>2, <2>3
  <2> HIDE DEF front, behind
  <2>6. behind \in Seq(Frame)
    BY <1>3, <1>4
  <2>7. OnTheWay' = front \o behind
    BY ONLY <2>5, <2>6, ConcatEmptySeq
  <2> QED BY <1>0, <1>2, <2>4, <2>6, <2>7, LosesOne
<1>5. CASE BeginEncode
  <2>1. /\ encoding = None /\ jobs # <<>> /\ jobs' = Tail(jobs)
        /\ encoding' \in {Head(jobs), None} /\ main_tasks' = main_tasks
    BY <1>5 DEF BeginEncode
  <2>2. /\ Head(jobs) \in Frame /\ jobs' \in Seq(Frame) /\ <<Head(jobs)>> \o jobs' = jobs
        /\ (front \o <<Head(jobs)>>) \o jobs' = (front \o <<>>) \o jobs
    <3>1. front \in Seq(Frame) /\ jobs \in Seq(Frame)
      BY <1>2
    <3> HIDE DEF front
    <3> QED BY ONLY <2>1, <3>1, MovedAhead
  <2>3. OnTheWay = (front \o <<>>) \o jobs \o o \o qeue \o r
    BY <2>1 DEF OnTheWay, One
  <2>4. OnTheWay' = (front \o One(encoding)') \o jobs' \o o \o qeue \o r
    BY <1>0, <1>1, <2>1 DEF OnTheWay
  <2>5. CASE encoding' = Head(jobs)
    <3>1. One(encoding)' = <<Head(jobs)>>
      BY <2>2, <2>5, BoundsAssumption DEF One, Frame, None
    <3> QED BY <1>0, <2>2, <2>3, <2>4, <3>1 DEF Path!vars
  <2>6. CASE encoding' = None
    <3>1. One(encoding)' = <<>>
      BY <2>6 DEF One
    <3>2. OnTheWay = (front \o <<Head(jobs)>>) \o jobs' \o o \o qeue \o r
      BY <2>2, <2>3
    <3> HIDE DEF front, p, o, r
    <3>3. Path!Lose
      BY <1>4, <2>1, <2>2, <2>4, <3>1, <3>2
    <3> QED BY <3>3 DEF Moves
  <2> QED BY <2>1, <2>5, <2>6
<1>6. CASE FinishEncode
  <2>1. /\ encoding \in Frame /\ encoding # None /\ encoding' = None
        /\ jobs' = jobs /\ jobs \in Seq(Frame)
        /\ main_tasks' \in {main_tasks, Append(main_tasks, encoding)}
    BY <1>0, <1>6 DEF FinishEncode, TypeOK
  <2>2. OnTheWay = (front \o <<encoding>>) \o jobs' \o o \o qeue \o r
    BY <2>1 DEF OnTheWay, One
  <2>3. OnTheWay' = ((p \o main_tasks') \o <<>>) \o jobs' \o o \o qeue \o r
    BY <1>0, <1>1, <2>1 DEF OnTheWay, One
  <2>4. CASE main_tasks' = main_tasks
    <3>1. OnTheWay' = (front \o <<>>) \o jobs' \o o \o qeue \o r
      BY <2>3, <2>4
    <3> HIDE DEF front, p, o, r
    <3>2. Path!Lose
      BY <1>4, <2>1, <2>2, <2>4, <3>1
    <3> QED BY <3>2 DEF Moves
  <2>5. CASE main_tasks' = Append(main_tasks, encoding)
    <3>1. (p \o Append(main_tasks, encoding)) \o <<>>
            = (p \o main_tasks) \o <<encoding>>
      BY <1>2, <2>1, JoinedAhead
    <3> QED BY <1>0, <2>2, <2>3, <2>5, <3>1 DEF Path!vars
  <2> QED BY <2>1, <2>4, <2>5
<1> QED BY <1>5, <1>6 DEF Worker

\* The main thread takes the packet that is ahead of all others, and sends it or
\* loses it.
LEMMA MainRefines == Handling /\ Main => [Moves]_Path!vars
<1> SUFFICES ASSUME Handling, Main PROVE [Moves]_Path!vars
  OBVIOUS
<1>0. /\ TypeOK /\ HandsAndStates
      /\ UNCHANGED <<encoding, jobs, outgoing, qeue, reading>>
  BY DEF Handling, Main, BeginSend, FinishSend, SetDeviceState, WaitForCompletion,
     SwitchState, OpenChannel, CloseChannel, loop_vars, processor, worker_vars
<1> DEFINE e == One(encoding)
           o == One(outgoing)
           r == One(reading)
           behind == main_tasks' \o e \o jobs \o o \o qeue \o r
<1>1. e' = e /\ o' = o /\ r' = r
  BY <1>0 DEF One
<1>2. /\ One(sending) \in Seq(Frame) /\ main_tasks \in Seq(Frame)
      /\ e \in Seq(Frame) /\ jobs \in Seq(Frame) /\ o \in Seq(Frame)
      /\ qeue \in Seq(Frame) /\ r \in Seq(Frame) /\ <<>> \in Seq(Frame)
  BY <1>0, Stages
<1>3. OnTheWay' = One(sending)' \o main_tasks' \o e \o jobs \o o \o qeue \o r
  BY <1>0, <1>1 DEF OnTheWay
\* The packet that is ahead of all others, once it is gone.
<1>4. ASSUME NEW x \in Frame, main_tasks' \in Seq(Frame), One(sending)' = <<>>,
             OnTheWay = <<x>> \o main_tasks' \o e \o jobs \o o \o qeue \o r
      PROVE  /\ OnTheWay = <<x>> \o behind /\ OnTheWay' = behind
             /\ behind \in Seq(Frame)
  <2>0. <<x>> \in Seq(Frame)
    OBVIOUS
  <2>1. OnTheWay = <<x>> \o behind
    <3> PICK left \in Seq(Frame) : left = main_tasks'
      BY <1>4
    <3>1. OnTheWay = Joined(<<x>>, left, e, jobs, o, qeue, r)
      BY <1>4 DEF Joined
    <3>2. \A a \in Seq(Frame) : Joined(a, left, e, jobs, o, qeue, r)
                                  = a \o (left \o e \o jobs \o o \o qeue \o r)
      <4> SUFFICES ASSUME NEW a \in Seq(Frame)
                   PROVE  Joined(a, left, e, jobs, o, qeue, r)
                            = a \o (left \o e \o jobs \o o \o qeue \o r)
        OBVIOUS
      <4>1. AreSequences(a, left, e, jobs, o, qeue, r)
        BY <1>2 DEF AreSequences
      <4> HIDE DEF e, o, r
      <4> QED BY ONLY <4>1, TakenApart
    <3> QED BY <2>0, <3>1, <3>2
  <2>2. behind \in Seq(Frame)
    <3>1. main_tasks' \o e \in Seq(Frame)
      BY <1>2, <1>4, ConcatProperties
    <3>2. main_tasks' \o e \o jobs \in Seq(Frame)
      BY <1>2, <3>1, ConcatProperties
    <3>3. main_tasks' \o e \o jobs \o o \in Seq(Frame)
      BY <1>2, <3>2, ConcatProperties
    <3>4. main_tasks' \o e \o jobs \o o \o qeue \in Seq(Frame)
      BY <1>2, <3>3, ConcatProperties
    <3> QED BY <1>2, <3>4, ConcatProperties
  <2>3. OnTheWay' = behind
    BY <1>2, <1>3, <1>4, ConcatEmptySeq
  <2> QED BY <2>1, <2>2, <2>3
<1>5. ASSUME NEW x \in Frame, main_tasks' \in Seq(Frame), One(sending)' = <<>>,
             OnTheWay = <<x>> \o main_tasks' \o e \o jobs \o o \o qeue \o r,
             UNCHANGED sent
      PROVE  Path!Lose
  <2>1. OnTheWay = <<x>> \o behind /\ OnTheWay' = behind /\ behind \in Seq(Frame)
    BY <1>4, <1>5
  <2> HIDE DEF behind
  <2>2. <<x>> \o behind \in Seq(Frame)
    BY <2>1, ConcatProperties
  <2>3. OnTheWay = <<>> \o (<<x>> \o behind) /\ OnTheWay' = <<>> \o behind
    BY <2>1, <2>2, ConcatEmptySeq
  <2> QED BY <1>2, <1>5, <2>1, <2>3, LosesOne
<1>6. CASE UNCHANGED <<sending, main_tasks, sent>>
  BY <1>0, <1>6 DEF OnTheWay, One, Path!vars
<1>7. CASE BeginSend
  <2>1. /\ sending = None /\ main_tasks # <<>> /\ main_tasks' = Tail(main_tasks)
        /\ sending' \in {None, Head(main_tasks)} /\ sent' = sent
    BY <1>0, <1>7 DEF BeginSend, HandsAndStates
  <2>2. /\ Head(main_tasks) \in Frame /\ main_tasks' \in Seq(Frame)
        /\ <<Head(main_tasks)>> \o main_tasks' = main_tasks
    BY <1>2, <2>1, MovedAhead
  <2>3. OnTheWay = <<Head(main_tasks)>> \o main_tasks' \o e \o jobs \o o \o qeue \o r
    <3>1. OnTheWay = <<>> \o main_tasks \o e \o jobs \o o \o qeue \o r
      BY <2>1 DEF OnTheWay, One
    <3> QED BY <1>2, <2>2, <3>1, ConcatEmptySeq
  <2>4. CASE sending' = None
    <3>1. One(sending)' = <<>>
      BY <2>4 DEF One
    <3> HIDE DEF e, o, r
    <3>2. Path!Lose
      BY <1>5, <2>1, <2>2, <2>3, <3>1
    <3> QED BY <3>2 DEF Moves
  <2>5. CASE sending' = Head(main_tasks)
    <3>1. One(sending)' = <<Head(main_tasks)>>
      BY <2>2, <2>5, BoundsAssumption DEF One, Frame, None
    <3> QED BY <1>3, <2>1, <2>3, <3>1 DEF Path!vars
  <2> QED BY <2>1, <2>4, <2>5
<1>8. CASE FinishSend
  <2>1. /\ sending \in Frame /\ sending # None /\ sending' = None
        /\ main_tasks' = main_tasks /\ sent' \in {sent, sending}
    BY <1>0, <1>8 DEF FinishSend, HandsAndStates, TypeOK
  <2>2. /\ OnTheWay = <<sending>> \o main_tasks' \o e \o jobs \o o \o qeue \o r
        /\ One(sending)' = <<>>
    BY <2>1 DEF OnTheWay, One
  <2> HIDE DEF e, o, r
  <2>3. CASE sent' = sent
    <3>1. Path!Lose
      BY <1>2, <1>5, <2>1, <2>2, <2>3
    <3> QED BY <3>1 DEF Moves
  <2>4. CASE sent' = sending
    <3>1. OnTheWay = <<sending>> \o behind /\ OnTheWay' = behind /\ behind \in Seq(Frame)
      BY <1>2, <1>4, <2>1, <2>2
    <3> HIDE DEF behind
    <3>2. OnTheWay # <<>> /\ Head(OnTheWay) = sending /\ Tail(OnTheWay) = behind
      BY <2>1, <3>1, ConcatProperties, SMTT(30)
    <3> QED BY <2>4, <3>1, <3>2 DEF Path!Deliver, Moves
  <2> QED BY <2>1, <2>3, <2>4
<1> QED BY <1>6, <1>7, <1>8 DEF Main, SetDeviceState, WaitForCompletion,
      SwitchState, OpenChannel, CloseChannel, send_vars

\* A step of the program is a step of LossyFifo, or none; only what the audio loop
\* reads is put on the way.
LEMMA NextRefines ==
  ASSUME Handling, [Next]_vars
  PROVE  \/ frames' = frames + 1 /\ frames + 1 \in Frame /\ Path!Put(frames + 1)
         \/ frames' = frames /\ [Moves]_Path!vars
<1>1. CASE AudioLoop
  BY <1>1, LoopRefines
<1>2. CASE Processor \/ Worker \/ Main
  <2>1. frames' = frames
    BY <1>2 DEF Processor, TakeFrame, Output, Worker, BeginEncode, FinishEncode, Main,
       BeginSend, FinishSend, SetDeviceState, WaitForCompletion, SwitchState,
       OpenChannel, CloseChannel, loop_vars
  <2> QED BY <1>2, <2>1, ProcessorRefines, WorkerRefines, MainRefines
<1>3. CASE UNCHANGED vars
  BY <1>3 DEF vars, loop_vars, processor, worker_vars, send_vars, OnTheWay, One,
     Path!vars
<1> QED BY <1>1, <1>2, <1>3 DEF Next
-----------------------------------------------------------------------------
(***************************************************************************)
(* The order of the frames, which the steps of LossyFifo keep.             *)
(***************************************************************************)
\* A frame newer than all others goes behind them.
LEMMA AscendingPut ==
  ASSUME NEW s \in Seq(Nat), NEW lo \in Nat, NEW hi \in Nat, lo <= hi,
         Ascending(s, lo, hi)
  PROVE  Ascending(Append(s, hi + 1), lo, hi + 1)
<1> DEFINE t == Append(s, hi + 1)
<1>1. /\ DOMAIN s = 1..Len(s) /\ DOMAIN t = 1..(Len(s) + 1) /\ Len(s) \in Nat
      /\ \A i \in 1..Len(s) : t[i] = s[i] /\ s[i] \in Nat
      /\ t[Len(s) + 1] = hi + 1
  BY AppendProperties, LenProperties, ElementOfSeq
<1> HIDE DEF t
<1>2. \A i \in 1..Len(s) : lo < s[i] /\ s[i] <= hi
  BY <1>1 DEF Ascending
<1>3. \A i, j \in DOMAIN t : i < j => t[i] < t[j]
  <2> SUFFICES ASSUME NEW i \in 1..(Len(s) + 1), NEW j \in 1..(Len(s) + 1), i < j
               PROVE  t[i] < t[j]
    BY <1>1
  <2>1. CASE j = Len(s) + 1
    <3>1. i \in 1..Len(s)
      BY <1>1, <2>1
    <3> QED BY <1>1, <1>2, <2>1, <3>1
  <2>2. CASE j # Len(s) + 1
    <3>1. i \in 1..Len(s) /\ j \in 1..Len(s)
      BY <1>1, <2>2
    <3> QED BY <1>1, <3>1 DEF Ascending
  <2> QED BY <2>1, <2>2
<1>4. \A i \in DOMAIN t : lo < t[i] /\ t[i] <= hi + 1
  BY <1>1, <1>2
<1> QED BY <1>3, <1>4 DEF Ascending, t

\* The oldest taken away, the others are behind it.
LEMMA AscendingTail ==
  ASSUME NEW s \in Seq(Nat), s # <<>>, NEW lo, NEW hi, Ascending(s, lo, hi)
  PROVE  /\ lo < Head(s) /\ Head(s) <= hi
         /\ Ascending(Tail(s), Head(s), hi)
<1>1. /\ DOMAIN s = 1..Len(s) /\ Len(s) \in Nat \ {0} /\ Head(s) = s[1]
      /\ Tail(s) \in Seq(Nat) /\ Len(Tail(s)) = Len(s) - 1
      /\ \A i \in 1..(Len(s) - 1) : Tail(s)[i] = s[i + 1]
  BY HeadTailProperties, LenProperties, EmptySeq
<1>2. DOMAIN Tail(s) = 1..(Len(s) - 1)
  BY <1>1, LenProperties
<1>3. \A i \in DOMAIN Tail(s) : /\ i + 1 \in DOMAIN s /\ 1 \in DOMAIN s /\ 1 < i + 1
                                /\ Tail(s)[i] = s[i + 1]
  BY <1>1, <1>2
<1>4. \A i, j \in DOMAIN Tail(s) : i < j => i + 1 < j + 1
  BY <1>2
<1> QED BY <1>1, <1>3, <1>4 DEF Ascending

\* Losing a run of neighbours leaves the order of the others.
LEMMA AscendingLose ==
  ASSUME NEW s \in Seq(Nat), NEW lo, NEW hi, Ascending(s, lo, hi),
         NEW m \in 1..(Len(s) + 1), NEW n \in 1..(Len(s) + 1), m < n
  PROVE  Ascending(SubSeq(s, 1, m - 1) \o SubSeq(s, n, Len(s)), lo, hi)
<1> DEFINE a == SubSeq(s, 1, m - 1)
           b == SubSeq(s, n, Len(s))
           t == a \o b
<1>1. DOMAIN s = 1..Len(s) /\ Len(s) \in Nat /\ \A i \in 1..Len(s) : s[i] \in Nat
  BY LenProperties, ElementOfSeq
<1>2. /\ a \in Seq(Nat) /\ Len(a) = m - 1
      /\ \A i \in 1..(m - 1) : a[i] = s[i]
  <2>1. \A i \in 1..(m - 1) : s[i] \in Nat
    BY <1>1
  <2> QED BY <1>1, <2>1, SubSeqProperties
<1>3. /\ b \in Seq(Nat) /\ Len(b) = Len(s) - n + 1
      /\ \A i \in 1..(Len(s) - n + 1) : b[i] = s[n + i - 1]
  <2>1. \A i \in n..Len(s) : s[i] \in Nat
    BY <1>1
  <2> QED BY <1>1, <2>1, SubSeqProperties
<1> HIDE DEF a, b
\* Where in s the elements of t are.
<1> DEFINE at(i) == IF i < m THEN i ELSE i + (n - m)
<1>4. /\ DOMAIN t = 1..(Len(s) - (n - m))
      /\ \A i \in DOMAIN t : at(i) \in DOMAIN s /\ t[i] = s[at(i)]
  <2>1. /\ t \in Seq(Nat) /\ Len(t) = Len(a) + Len(b)
        /\ \A i \in 1..(Len(a) + Len(b)) :
             t[i] = IF i <= Len(a) THEN a[i] ELSE b[i - Len(a)]
    BY <1>2, <1>3, ConcatProperties
  <2> HIDE DEF t
  <2>2. Len(t) = Len(s) - (n - m) /\ DOMAIN t = 1..Len(t)
    <3>1. Len(t) = (m - 1) + (Len(s) - n + 1)
      BY <1>2, <1>3, <2>1
    <3>2. DOMAIN t = 1..Len(t)
      BY ONLY <2>1, LenProperties
    <3>3. (m - 1) + (Len(s) - n + 1) = Len(s) - (n - m)
      BY <1>1
    <3> QED BY ONLY <3>1, <3>2, <3>3
  <2>a. \A i \in 1..(Len(s) - (n - m)) : t[i] = IF i < m THEN a[i] ELSE b[i - (m - 1)]
    <3> SUFFICES ASSUME NEW i \in 1..(Len(s) - (n - m))
                 PROVE  t[i] = IF i < m THEN a[i] ELSE b[i - (m - 1)]
      OBVIOUS
    <3>1. i \in 1..(Len(a) + Len(b)) /\ (i <= Len(a) <=> i < m) /\ Len(a) = m - 1
      BY <1>1, <1>2, <1>3
    <3> QED BY <2>1, <3>1
  <2>3. ASSUME NEW i \in 1..(Len(s) - (n - m)) PROVE at(i) \in DOMAIN s /\ t[i] = s[at(i)]
    <3>1. CASE i < m
      BY <1>1, <1>2, <2>a, <3>1
    <3>2. CASE ~(i < m)
      <4>1. i - (m - 1) \in 1..(Len(s) - n + 1)
        BY <1>1, <3>2
      <4>2. t[i] = b[i - (m - 1)]
        BY <2>a, <3>2
      <4>3. b[i - (m - 1)] = s[n + (i - (m - 1)) - 1]
        BY <1>3, <4>1
      <4>4. n + (i - (m - 1)) - 1 = i + (n - m)
        BY <1>1
      <4> QED BY <1>1, <3>2, <4>2, <4>3, <4>4
    <3> QED BY <3>1, <3>2
  <2> QED BY <2>2, <2>3
<1> HIDE DEF t
<1>5. \A i, j \in DOMAIN t : i < j => at(i) < at(j)
  BY <1>1, <1>4
<1> HIDE DEF at
<1>6. Ascending(t, lo, hi)
  BY <1>4, <1>5 DEF Ascending
<1> QED BY <1>6 DEF t, a, b

\* Whoever is sent is the oldest on the way.
LEMMA NextOrder ==
  ASSUME Handling, InCaptureOrder, [Next]_vars
  PROVE  InCaptureOrder' /\ (sent' # sent => sent' > sent)
<1>1. /\ OnTheWay \in Seq(Nat) /\ sent \in Nat /\ frames \in Nat
      /\ Ascending(OnTheWay, sent, frames) /\ sent <= frames
  <2>1. OnTheWay \in Seq(Frame) /\ Frame \subseteq Nat
    BY Stages DEF Handling, Frame
  <2>2. OnTheWay \in Seq(Nat)
    <3>1. \A i \in 1..Len(OnTheWay) : OnTheWay[i] \in Nat
      BY <2>1, ElementOfSeq
    <3> HIDE DEF Frame
    <3> QED BY <2>1, <3>1
  <2> QED BY <2>2, BoundsAssumption DEF Handling, TypeOK, Frame, None, InCaptureOrder
<1>2. CASE frames' = frames + 1 /\ Path!Put(frames + 1)
  <2>1. OnTheWay' = Append(OnTheWay, frames + 1) /\ sent' = sent
    BY <1>2 DEF Path!Put
  <2> QED BY <1>1, <1>2, <2>1, AscendingPut DEF InCaptureOrder
<1>3. CASE frames' = frames /\ Path!Deliver
  <2>1. OnTheWay # <<>> /\ sent' = Head(OnTheWay) /\ OnTheWay' = Tail(OnTheWay)
    BY <1>3 DEF Path!Deliver
  <2>2. /\ sent < Head(OnTheWay) /\ Head(OnTheWay) <= frames
        /\ Ascending(Tail(OnTheWay), Head(OnTheWay), frames)
    BY <1>1, <2>1, AscendingTail
  <2> QED BY <1>3, <2>1, <2>2 DEF InCaptureOrder
<1>4. CASE frames' = frames /\ Path!Lose
  <2> PICK m, n \in 1..(Len(OnTheWay) + 1) :
             /\ m < n
             /\ OnTheWay' = SubSeq(OnTheWay, 1, m - 1)
                              \o SubSeq(OnTheWay, n, Len(OnTheWay))
             /\ UNCHANGED sent
    BY <1>4 DEF Path!Lose
  <2> QED BY <1>1, <1>4, AscendingLose DEF InCaptureOrder
<1>5. CASE frames' = frames /\ UNCHANGED Path!vars
  BY <1>1, <1>5 DEF InCaptureOrder, Path!vars
<1> QED BY <1>2, <1>3, <1>4, <1>5, NextRefines DEF Moves
-----------------------------------------------------------------------------
LEMMA InitIInv == Init => IInv
<1> SUFFICES ASSUME Init PROVE IInv
  OBVIOUS
<1>1. OnTheWay = <<>> /\ sent = 0 /\ frames = 0
  BY RefinementInit DEF Init, Path!Init, None
<1>2. DOMAIN OnTheWay = {}
  BY <1>1
<1> QED BY <1>1, <1>2, HandlingInit DEF IInv, InCaptureOrder, Ascending

\* IInv is invariant: who holds a frame when, the flag around sending, the count
\* of frames that outlive a stop, and the order of the frames on the way.
THEOREM Invariance == Spec => []IInv
<1>1. IInv /\ [Next]_vars => IInv'
  BY NextHandling, NextOrder DEF IInv
<1> QED BY <1>1, InitIInv, PTL DEF Spec

\* Every variable keeps its type.
THEOREM TypeCorrect == Spec => []TypeOK
<1>1. IInv => TypeOK
  BY DEF IInv, Handling
<1> QED BY <1>1, Invariance, PTL

\* After the processor is stopped no more than one frame goes on to be encoded.
THEOREM StopLetsOneThrough == Spec => []StopQuiesces
<1>1. IInv => StopQuiesces
  BY DEF IInv, Handling, HandsAndStates, StopQuiesces
<1> QED BY <1>1, Invariance, PTL

\* No frame is sent twice, nor after one that was captured later.
THEOREM CaptureOrder == Spec => SentInCaptureOrder
<1>1. IInv /\ [Next]_vars => [sent' # sent => sent' > sent]_vars
  BY NextOrder DEF IInv
<1> QED BY <1>1, Invariance, PTL DEF Spec, SentInCaptureOrder

\* Capture implements LossyFifo: frames reach the socket in the order in which
\* they were read from the microphone, none twice, over two locked queues, two
\* executors and four threads.
THEOREM ImplementsLossyFifo == Spec => PathSpec
<1>1. IInv /\ [Next]_vars => [Path!Next]_Path!vars
  BY NextRefines DEF IInv, Path!Next, Moves
<1> QED BY <1>1, RefinementInit, Invariance, PTL DEF Spec, PathSpec, Path!Spec
=============================================================================
