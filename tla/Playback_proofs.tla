-------------------------- MODULE Playback_proofs --------------------------
(***************************************************************************)
(* Proofs about Playback, for every size of the queue and any number of    *)
(* packets.                                                                *)
(***************************************************************************)
EXTENDS Playback, SequenceTheorems, TLAPS

LEMMA InitIInv == Init => IInv
<1> SUFFICES ASSUME Init PROVE IInv
  OBVIOUS
<1>1. <<>> \in Seq(Packet) /\ Len(<<>>) = 0 /\ DOMAIN <<>> = {}
  BY EmptySeq
<1>2. TypeOK
  <2>1. 0 \in 0..MaxPackets /\ 0 \in 0..MaxSequence
    BY BoundsAssumption
  <2> QED BY <1>1, <2>1 DEF Init, TypeOK
<1>3. BusyMeansPending /\ Handover /\ LateOnce /\ OutputStays
  BY <1>1 DEF Init, BusyMeansPending, Handover, LateOnce, OutputStays
<1>4. InOrder
  <2>1. Queued = {} /\ Handed = {} /\ Decoded = {}
    BY <1>1 DEF Init, Queued, Handed, Decoded
  <2> QED BY <1>1, <2>1 DEF Init, InOrder, NoLater, None
<1>5. CountedOnce
  BY <1>1 DEF Init, CountedOnce, Occupied
<1> QED BY <1>2, <1>3, <1>4, <1>5 DEF IInv

\* Every action of the main thread and of the environment, by what it leaves
\* alone: what follows needs no more of them than this.
MainStep ==
  /\ UNCHANGED <<network, loop_vars, jobs, worker, decoding, heard>>
  /\ queue' \in {queue, <<>>}

LEMMA MainSteps ==
  ASSUME Main \/ Alert \/ EncodeTakesTimestamp \/ SilencePasses
  PROVE  MainStep
<1> USE DEF MainStep, state, output, network, loop_vars, worker_vars
<1>1. CASE TtsStart \/ TtsStop \/ TtsStopped
  BY <1>1 DEF TtsStart, TtsStop, TtsStopped
<1>2. CASE \E s \in {"idle", "connecting", "listening"} : SetDeviceState(s)
  BY <1>2 DEF SetDeviceState
<1>3. CASE WaitForCompletion \/ SwitchState \/ AbortSpeaking
  BY <1>3 DEF WaitForCompletion, SwitchState, AbortSpeaking, ResetDecoder
<1>4. CASE Alert \/ EncodeTakesTimestamp \/ SilencePasses
  BY <1>4 DEF Alert, ResetDecoder, EncodeTakesTimestamp, SilencePasses
<1> QED BY <1>1, <1>2, <1>3, <1>4 DEF Main

LEMMA NextType == IInv /\ [Next]_vars => TypeOK'
<1> SUFFICES ASSUME IInv, [Next]_vars PROVE TypeOK'
  OBVIOUS
<1>0. TypeOK /\ <<>> \in Seq(Packet)
  BY EmptySeq DEF IInv
<1> USE <1>0 DEF TypeOK, state, output, network, loop_vars, worker_vars
<1>1. ASSUME NEW p \in Packet, Receive(p) PROVE TypeOK'
  <2>1. received' \in 0..MaxPackets /\ remote_sequence' \in 0..MaxSequence
    BY <1>1, BoundsAssumption DEF Receive, OnIncomingAudio, Packet
  <2>2. queue' \in Seq(Packet)
    BY <1>1, AppendProperties DEF Receive, OnIncomingAudio
  <2> QED BY <1>1, <2>1, <2>2 DEF Receive, OnIncomingAudio
<1>2. CASE AudioLoop
  <2>1. queue' \in Seq(Packet) /\ jobs' \in Seq(Packet)
    <3>1. CASE Pop
      <4>1. Tail(queue) \in Seq(Packet)
        BY <3>1, HeadTailProperties DEF Pop
      <4> QED BY <3>1, <4>1 DEF Pop
    <3>2. CASE ScheduleDecode
      <4>1. held \in Packet
        BY <3>2 DEF ScheduleDecode, IInv, Handover
      <4> QED BY <3>2, <4>1, AppendProperties DEF ScheduleDecode
    <3>3. CASE \/ LoopTurn \/ LookEmpty \/ DisableOutput \/ LookListening
               \/ SetBusy
      BY <3>3 DEF LoopTurn, LookEmpty, DisableOutput, LookListening, SetBusy
    <3> QED BY <1>2, <3>1, <3>2, <3>3 DEF AudioLoop
  <2>2. held' \in Packet \cup {None}
    <3>1. CASE Pop
      <4>1. Head(queue) \in Packet
        BY <3>1, HeadTailProperties DEF Pop
      <4> QED BY <3>1, <4>1 DEF Pop
    <3>2. CASE ~Pop
      BY <1>2, <3>2 DEF AudioLoop, LoopTurn, LookEmpty, DisableOutput,
         LookListening, SetBusy, ScheduleDecode
    <3> QED BY <3>1, <3>2
  <2>3. /\ UNCHANGED <<state, silent, network, worker_vars>>
        /\ output_enabled' \in BOOLEAN /\ busy' \in BOOLEAN
        /\ loop' \in {"idle", "look", "disable", "popped", "schedule"}
    BY <1>2 DEF AudioLoop, LoopTurn, LookEmpty, DisableOutput, LookListening,
       Pop, SetBusy, ScheduleDecode
  <2> QED BY <2>1, <2>2, <2>3
<1>3. CASE Worker
  <2>1. jobs' \in Seq(Packet) /\ decoding' \in Packet \cup {None}
    <3>1. CASE BeginDecode
      <4>1. Head(jobs) \in Packet /\ Tail(jobs) \in Seq(Packet)
        BY <3>1, HeadTailProperties DEF BeginDecode
      <4> QED BY <3>1, <4>1 DEF BeginDecode
    <3>2. CASE DropPacket \/ DecodePacket \/ OutputPacket
      BY <3>2 DEF DropPacket, DecodePacket, OutputPacket
    <3> QED BY <1>3, <3>1, <3>2 DEF Worker
  <2>2. /\ UNCHANGED <<state, output_enabled, network, queue, loop, held>>
        /\ silent' \in BOOLEAN /\ busy' \in BOOLEAN
        /\ worker' \in {"idle", "decode", "output"}
        /\ heard' \in Packet \cup {None}
    BY <1>3 DEF Worker, BeginDecode, DropPacket, DecodePacket, OutputPacket
  <2>3. /\ late' \in {late, late + 1}
        /\ timestamps' \in {timestamps, timestamps + 1}
    BY <1>3 DEF Worker, BeginDecode, DropPacket, DecodePacket, OutputPacket
  <2>4. late' \in Nat /\ timestamps' \in Nat
    BY <2>3
  <2> QED BY <2>1, <2>2, <2>4
<1>4. CASE Main \/ Alert \/ EncodeTakesTimestamp \/ SilencePasses
  <2>1. MainStep
    BY <1>4, MainSteps
  <2>2. /\ device_state' \in {"idle", "connecting", "listening", "speaking"}
        /\ main' \in {"run", "stop", "wait", "switch"}
        /\ aborted' \in BOOLEAN /\ output_enabled' \in BOOLEAN
        /\ silent' \in BOOLEAN
        /\ late' \in {late, 0}
    <3>1. CASE TtsStart \/ TtsStop \/ TtsStopped
      BY <3>1 DEF TtsStart, TtsStop, TtsStopped
    <3>2. CASE \E s \in {"idle", "connecting", "listening"} : SetDeviceState(s)
      BY <3>2 DEF SetDeviceState
    <3>3. CASE WaitForCompletion \/ SwitchState \/ AbortSpeaking
      BY <3>3 DEF WaitForCompletion, SwitchState, ResetDecoder, AbortSpeaking
    <3>4. CASE Alert \/ EncodeTakesTimestamp \/ SilencePasses
      BY <3>4 DEF Alert, ResetDecoder, EncodeTakesTimestamp, SilencePasses
    <3> QED BY <1>4, <3>1, <3>2, <3>3, <3>4 DEF Main
  <2>3. timestamps' \in Nat
    BY <1>4 DEF Main, TtsStart, TtsStop, TtsStopped, SetDeviceState,
       WaitForCompletion, SwitchState, AbortSpeaking, Alert,
       EncodeTakesTimestamp, SilencePasses
  <2>4. /\ queue' \in Seq(Packet) /\ jobs' \in Seq(Packet)
        /\ UNCHANGED <<network, loop_vars, worker, decoding, heard>>
    BY <2>1 DEF MainStep
  <2> QED BY <2>2, <2>3, <2>4
<1>5. CASE UNCHANGED vars
  BY <1>5 DEF vars
<1> QED BY <1>1, <1>2, <1>3, <1>4, <1>5 DEF Next

\* What the order in which the loop and a job move does to a queue of at most
\* one job.
LEMMA OneJob ==
  ASSUME NEW s \in Seq(Packet), Len(s) <= 1, s # <<>>
  PROVE  Len(s) = 1 /\ Head(s) = s[1] /\ Tail(s) = <<>> /\ DOMAIN s = {1}
<1>1. Len(s) \in Nat /\ Len(s) # 0
  BY EmptySeq
<1>2. Len(s) = 1 /\ Head(s) = s[1]
  <2>1. \A n \in Nat : n <= 1 /\ n # 0 => n = 1
    OBVIOUS
  <2>2. Len(s) = 1
    BY <1>1, <2>1, Zenon
  <2> QED BY <2>2, HeadTailProperties
<1>3. DOMAIN s = {1}
  BY <1>2
<1>4. Len(Tail(s)) = Len(s) - 1 /\ Tail(s) \in Seq(Packet)
  BY HeadTailProperties
<1>5. Tail(s) = <<>>
  <2>1. Len(Tail(s)) = 0
    BY <1>2, <1>4
  <2> QED BY <1>4, <2>1, EmptySeq
<1> QED BY <1>2, <1>3, <1>5

LEMMA NextHandover ==
  IInv /\ [Next]_vars => (BusyMeansPending /\ Handover)'
<1> SUFFICES ASSUME IInv, [Next]_vars PROVE (BusyMeansPending /\ Handover)'
  OBVIOUS
<1> USE DEF IInv, BusyMeansPending, Handover
<1>0. Packet \subseteq Nat \ {None} /\ Len(<<>>) = 0
  BY BoundsAssumption, EmptySeq DEF Packet, None
<1>1. CASE \E p \in Packet : Receive(p)
  BY <1>1 DEF Receive, OnIncomingAudio, loop_vars, worker_vars
<1>2. CASE AudioLoop
  <2>1. CASE LoopTurn \/ LookEmpty \/ DisableOutput \/ LookListening \/ SetBusy
    BY <2>1 DEF LoopTurn, LookEmpty, DisableOutput, LookListening, SetBusy,
       worker_vars
  <2>2. CASE Pop
    <3>1. Head(queue) # None
      BY <2>2, <1>0, HeadTailProperties DEF Pop, TypeOK
    <3> QED BY <2>2, <3>1 DEF Pop, worker_vars
  <2>3. CASE ScheduleDecode
    <3>1. jobs = <<>> /\ held \in Packet
      BY <2>3 DEF ScheduleDecode, TypeOK
    <3>2. jobs' = <<held>> /\ Len(jobs') = 1 /\ jobs' # <<>>
      BY <2>3, <3>1 DEF ScheduleDecode
    <3> QED BY <2>3, <3>2 DEF ScheduleDecode, worker_vars
  <2> QED BY <1>2, <2>1, <2>2, <2>3 DEF AudioLoop
<1>3. CASE Worker
  <2>1. CASE BeginDecode
    <3>1. Head(jobs) # None /\ Tail(jobs) = <<>> /\ loop = "idle"
      BY <2>1, <1>0, OneJob, HeadTailProperties DEF BeginDecode, TypeOK
    <3> QED BY <2>1, <3>1, <1>0 DEF BeginDecode
  <2>2. CASE DropPacket \/ DecodePacket \/ OutputPacket
    BY <2>2 DEF DropPacket, DecodePacket, OutputPacket, loop_vars
  <2> QED BY <1>3, <2>1, <2>2 DEF Worker
<1>4. CASE Main \/ Alert \/ EncodeTakesTimestamp \/ SilencePasses
  BY <1>4, MainSteps DEF MainStep, loop_vars
<1>5. CASE UNCHANGED vars
  BY <1>5 DEF vars, loop_vars, worker_vars
<1> QED BY <1>1, <1>2, <1>3, <1>4, <1>5 DEF Next

LEMMA NextLateOnce == IInv /\ [Next]_vars => LateOnce'
<1> SUFFICES ASSUME IInv, [Next]_vars PROVE LateOnce'
  OBVIOUS
<1> USE DEF IInv, LateOnce, TypeOK, state, worker_vars
<1>1. CASE \E p \in Packet : Receive(p)
  BY <1>1 DEF Receive, OnIncomingAudio
<1>2. CASE AudioLoop
  BY <1>2 DEF AudioLoop, LoopTurn, LookEmpty, DisableOutput, LookListening,
     Pop, SetBusy, ScheduleDecode
<1>3. CASE Worker
  BY <1>3 DEF Worker, BeginDecode, DropPacket, DecodePacket, OutputPacket
<1>4. CASE Main \/ Alert \/ EncodeTakesTimestamp \/ SilencePasses
  BY <1>4 DEF Main, TtsStart, TtsStop, TtsStopped, SetDeviceState,
     WaitForCompletion, SwitchState, AbortSpeaking, Alert,
     EncodeTakesTimestamp, SilencePasses
<1>5. CASE UNCHANGED vars
  BY <1>5 DEF vars
<1> QED BY <1>1, <1>2, <1>3, <1>4, <1>5 DEF Next

LEMMA NextOutputStays == IInv /\ [Next]_vars => OutputStays'
<1> SUFFICES ASSUME IInv, [Next]_vars PROVE OutputStays'
  OBVIOUS
<1> USE DEF IInv, OutputStays, TypeOK, state, output, loop_vars
<1>1. CASE \E p \in Packet : Receive(p)
  BY <1>1 DEF Receive, OnIncomingAudio
<1>2. CASE AudioLoop
  BY <1>2 DEF AudioLoop, LoopTurn, LookEmpty, DisableOutput, LookListening,
     Pop, SetBusy, ScheduleDecode
<1>3. CASE Worker
  BY <1>3 DEF Worker, BeginDecode, DropPacket, DecodePacket, OutputPacket
<1>4. CASE Main
  BY <1>4 DEF Main, TtsStart, TtsStop, TtsStopped, SetDeviceState,
     WaitForCompletion, SwitchState, ResetDecoder, MutexFree, AbortSpeaking
<1>5. CASE Alert \/ EncodeTakesTimestamp \/ SilencePasses
  BY <1>5 DEF Alert, ResetDecoder, EncodeTakesTimestamp, SilencePasses
<1>6. CASE UNCHANGED vars
  BY <1>6 DEF vars
<1> QED BY <1>1, <1>2, <1>3, <1>4, <1>5, <1>6 DEF Next

\* A stage that hands on or loses packets keeps its place in the order.
LEMMA FewerPackets ==
  ASSUME InOrder, TypeOK, UNCHANGED <<remote_sequence, heard>>,
         queue' \in {queue, <<>>}, Handed' \subseteq Handed,
         Decoded' \subseteq Decoded
  PROVE  InOrder'
<1>1. /\ Queued' \subseteq Queued
      /\ \A i, j \in DOMAIN queue' : i <= j => queue'[i] <= queue'[j]
  <2>1. CASE queue' = queue
    BY <2>1 DEF Queued, InOrder
  <2>2. CASE queue' = <<>>
    BY <2>2, EmptySeq DEF Queued, InOrder
  <2> QED BY <2>1, <2>2
<1> QED BY <1>1 DEF InOrder, NoLater

LEMMA ReceiveInOrder ==
  ASSUME IInv, NEW p \in Packet, Receive(p)
  PROVE  InOrder'
<1>1. /\ p \in Nat /\ p >= remote_sequence /\ remote_sequence' = p
      /\ remote_sequence \in Nat
      /\ UNCHANGED <<held, jobs, decoding, heard>>
  BY BoundsAssumption DEF Receive, OnIncomingAudio, Packet, IInv, TypeOK,
     loop_vars, worker_vars
<1>2. Handed' = Handed /\ Decoded' = Decoded
  BY <1>1 DEF Handed, Decoded
<1>3. /\ Queued \subseteq Nat /\ Handed \subseteq Nat /\ Decoded \subseteq Nat
      /\ heard \in Nat
  <2>1. Packet \subseteq Nat /\ None \in Nat
    BY BoundsAssumption DEF Packet, None
  <2>2. queue \in Seq(Packet) /\ jobs \in Seq(Packet)
    BY DEF IInv, TypeOK
  <2>3. /\ \A i \in DOMAIN queue : queue[i] \in Packet
        /\ \A i \in DOMAIN jobs : jobs[i] \in Packet
    BY <2>2
  <2> QED BY <2>1, <2>3 DEF IInv, TypeOK, Queued, Handed, Decoded
<1>4. InOrder
  BY DEF IInv
<1>5. CASE queue' = queue
  <2>1. Queued' = Queued
    BY <1>5 DEF Queued
  <2> QED BY <1>1, <1>2, <1>3, <1>4, <1>5, <2>1 DEF InOrder, NoLater
<1>6. CASE queue' = Append(queue, p)
  <2>1. queue \in Seq(Packet)
    BY DEF IInv, TypeOK
  <2>2. /\ DOMAIN queue = 1..Len(queue) /\ DOMAIN queue' = 1..(Len(queue) + 1)
        /\ Len(queue) \in Nat
        /\ \A i \in 1..Len(queue) : queue'[i] = queue[i]
        /\ queue'[Len(queue) + 1] = p
    BY <1>6, <2>1, AppendProperties
  <2>3. \A i \in DOMAIN queue' : queue'[i] \in Queued \cup {p}
    BY <2>2 DEF Queued
  <2>4. Queued' \subseteq Queued \cup {p}
    BY <2>3 DEF Queued
  <2>5. \A q \in Queued \cup Handed \cup Decoded
                  \cup {heard, remote_sequence} :
          q <= p
    <3>1. \A q \in Queued \cup Handed \cup Decoded \cup {heard} :
            q <= remote_sequence
      BY <1>4 DEF InOrder, NoLater
    <3> QED BY <3>1, <1>1, <1>3
  <2>6. \A i, j \in DOMAIN queue' : i <= j => queue'[i] <= queue'[j]
    <3> SUFFICES ASSUME NEW i \in DOMAIN queue', NEW j \in DOMAIN queue',
                        i <= j
                 PROVE  queue'[i] <= queue'[j]
      OBVIOUS
    <3>1. CASE j = Len(queue) + 1
      BY <3>1, <2>2, <2>3, <2>5, <1>1
    <3>2. CASE j # Len(queue) + 1
      <4>1. i \in 1..Len(queue) /\ j \in 1..Len(queue)
        BY <3>2, <2>2
      <4> QED BY <4>1, <2>2, <1>4 DEF InOrder
    <3> QED BY <3>1, <3>2
  <2>7. /\ NoLater(Queued', {remote_sequence'})
        /\ NoLater(Handed', Queued' \cup {remote_sequence'})
        /\ NoLater(Decoded', Handed' \cup Queued' \cup {remote_sequence'})
        /\ NoLater({heard'}, Decoded' \cup Handed' \cup Queued'
                               \cup {remote_sequence'})
    BY <1>1, <1>2, <1>4, <2>4, <2>5 DEF InOrder, NoLater
  <2> QED BY <2>6, <2>7 DEF InOrder
<1> QED BY <1>5, <1>6 DEF Receive, OnIncomingAudio

LEMMA PopInOrder == ASSUME IInv, Pop PROVE InOrder'
<1>1. /\ queue \in Seq(Packet) /\ queue # <<>> /\ jobs = <<>> /\ held = None
      /\ UNCHANGED <<remote_sequence, jobs, decoding, heard>>
  BY DEF Pop, IInv, TypeOK, Handover, network, worker_vars
<1>2. /\ Len(queue) \in Nat \ {0} /\ DOMAIN queue = 1..Len(queue)
      /\ Head(queue) = queue[1]
      /\ DOMAIN queue' = 1..(Len(queue) - 1)
      /\ \A i \in 1..(Len(queue) - 1) : queue'[i] = queue[i + 1]
  <2>1. Len(queue) \in Nat \ {0}
    BY <1>1, EmptySeq
  <2> QED BY <1>1, <2>1, HeadTailProperties DEF Pop
<1>3. Handed' = {queue[1]} /\ queue[1] \in Queued
  <2>1. /\ jobs' = <<>> /\ DOMAIN jobs' = {}
        /\ held' = queue[1] /\ queue[1] # None
    <3>1. queue[1] \in Packet /\ \A q \in Packet : q # None
      BY <1>1, <1>2, BoundsAssumption DEF Packet, None
    <3> QED BY <1>1, <1>2, <3>1, EmptySeq DEF Pop
  <2>2. queue[1] \in Queued
    BY <1>2 DEF Queued
  <2> QED BY <2>1, <2>2 DEF Handed
<1>4. Queued' \subseteq Queued
  <2>1. \A i \in DOMAIN queue' :
          i + 1 \in DOMAIN queue /\ queue'[i] = queue[i + 1]
    BY <1>2
  <2> QED BY <2>1 DEF Queued
<1>5. InOrder /\ Decoded' = Decoded
  BY <1>1 DEF IInv, Decoded
<1>6. \A i, j \in DOMAIN queue' : i <= j => queue'[i] <= queue'[j]
  BY <1>2, <1>5 DEF InOrder
<1>7. \A q \in Queued' : queue[1] <= q
  <2>1. \A i \in DOMAIN queue' : queue[1] <= queue'[i]
    BY <1>2, <1>5 DEF InOrder
  <2> QED BY <2>1 DEF Queued
<1>8. /\ NoLater(Queued', {remote_sequence'})
      /\ NoLater(Handed', Queued' \cup {remote_sequence'})
      /\ NoLater(Decoded', Handed' \cup Queued' \cup {remote_sequence'})
      /\ NoLater({heard'}, Decoded' \cup Handed' \cup Queued'
                             \cup {remote_sequence'})
  BY <1>1, <1>3, <1>4, <1>5, <1>7 DEF InOrder, NoLater
<1> QED BY <1>6, <1>8 DEF InOrder

LEMMA WorkerInOrder == ASSUME IInv, Worker PROVE InOrder'
<1>1. /\ queue' = queue /\ held' = held /\ UNCHANGED remote_sequence
      /\ InOrder /\ TypeOK
  BY DEF Worker, BeginDecode, DropPacket, DecodePacket, OutputPacket, network,
     loop_vars, IInv
<1>2. CASE BeginDecode
  <2>1. /\ held = None /\ jobs' = <<>> /\ jobs # <<>> /\ DOMAIN jobs = {1}
        /\ decoding' = jobs[1] /\ heard' = heard
    BY <1>2, OneJob DEF BeginDecode, IInv, Handover, TypeOK
  <2>2. Handed = {jobs[1]} /\ Handed' = {} /\ Decoded' \subseteq {jobs[1]}
    BY <1>1, <2>1, EmptySeq DEF Handed, Decoded
  <2>3. Queued' = Queued
    BY <1>1 DEF Queued
  <2> QED BY <1>1, <2>1, <2>2, <2>3 DEF InOrder, NoLater
<1>3. CASE DropPacket \/ DecodePacket
  <2>1. jobs' = jobs /\ heard' = heard /\ decoding' \in {decoding, None}
    BY <1>3 DEF DropPacket, DecodePacket
  <2>2. Handed' = Handed /\ Decoded' \subseteq Decoded
    BY <1>1, <2>1 DEF Handed, Decoded
  <2> QED BY <1>1, <2>1, <2>2, FewerPackets
<1>4. CASE OutputPacket
  <2>1. /\ jobs' = jobs /\ decoding' = None /\ heard' \in {heard, decoding}
        /\ decoding # None
    BY <1>4 DEF OutputPacket, IInv, Handover
  <2>2. /\ Handed' = Handed /\ Decoded' = {} /\ Decoded = {decoding}
        /\ Queued' = Queued
    BY <1>1, <2>1 DEF Handed, Decoded, Queued
  <2> QED BY <1>1, <2>1, <2>2 DEF InOrder, NoLater
<1> QED BY <1>2, <1>3, <1>4 DEF Worker

LEMMA NextInOrder == IInv /\ [Next]_vars => InOrder'
<1> SUFFICES ASSUME IInv, [Next]_vars PROVE InOrder'
  OBVIOUS
<1>0. InOrder /\ TypeOK
  BY DEF IInv
<1>1. CASE \E p \in Packet : Receive(p)
  BY <1>1, ReceiveInOrder
<1>2. CASE AudioLoop
  <2>1. CASE LoopTurn \/ LookEmpty \/ DisableOutput \/ LookListening \/ SetBusy
    <3>1. /\ queue' \in {queue, <<>>}
          /\ UNCHANGED <<network, held, jobs, decoding, heard>>
      BY <2>1 DEF LoopTurn, LookEmpty, DisableOutput, LookListening, SetBusy,
         worker_vars
    <3>2. Handed' = Handed /\ Decoded' = Decoded /\ UNCHANGED remote_sequence
      BY <3>1 DEF Handed, Decoded, network
    <3> QED BY <1>0, <3>1, <3>2, FewerPackets
  <2>2. CASE Pop
    BY <2>2, PopInOrder
  <2>3. CASE ScheduleDecode
    <3>1. /\ jobs = <<>> /\ jobs' = <<held>> /\ held' = None /\ held # None
          /\ queue' = queue /\ UNCHANGED <<remote_sequence, decoding, heard>>
      <4>1. jobs = <<>> /\ held # None
        BY <2>3 DEF ScheduleDecode, IInv, Handover
      <4> QED BY <2>3, <4>1 DEF ScheduleDecode, network, worker_vars
    <3>2. Handed' = {held} /\ Handed = {held} /\ Decoded' = Decoded
      BY <3>1, EmptySeq DEF Handed, Decoded
    <3> QED BY <1>0, <3>1, <3>2, FewerPackets
  <2> QED BY <1>2, <2>1, <2>2, <2>3 DEF AudioLoop
<1>3. CASE Worker
  BY <1>3, WorkerInOrder
<1>4. CASE Main \/ Alert \/ EncodeTakesTimestamp \/ SilencePasses
  <2>1. MainStep
    BY <1>4, MainSteps
  <2>2. Handed' = Handed /\ Decoded' = Decoded
    BY <2>1 DEF MainStep, Handed, Decoded, loop_vars
  <2> QED BY <1>0, <2>1, <2>2, FewerPackets DEF MainStep, network
<1>5. CASE UNCHANGED vars
  <2>1. Handed' = Handed /\ Decoded' = Decoded /\ Queued' = Queued
    BY <1>5 DEF vars, Handed, Decoded, Queued, loop_vars, worker_vars
  <2> QED BY <1>0, <1>5, <2>1, FewerPackets DEF vars, network, worker_vars
<1> QED BY <1>1, <1>2, <1>3, <1>4, <1>5 DEF Next

LEMMA NextCounted == IInv /\ [Next]_vars => CountedOnce'
<1> SUFFICES ASSUME IInv, [Next]_vars PROVE CountedOnce'
  OBVIOUS
<1>0. /\ CountedOnce
      /\ Len(queue) \in Nat /\ Len(jobs) \in Nat
      /\ timestamps \in Nat /\ received \in Nat
      /\ Occupied(held) \in 0..1 /\ Occupied(decoding) \in 0..1
      /\ Len(<<>>) = 0 /\ Occupied(None) = 0
      /\ \A q \in Packet : Occupied(q) = 1
  BY BoundsAssumption, EmptySeq DEF IInv, TypeOK, Occupied, Packet, None
<1>t. TypeOK
  BY DEF IInv
<1>1. ASSUME NEW p \in Packet, Receive(p) PROVE CountedOnce'
  <2>1. Len(queue') <= Len(queue) + 1 /\ Len(queue') \in Nat
    BY <1>0, <1>1, <1>t, AppendProperties DEF Receive, OnIncomingAudio, TypeOK
  <2>2. /\ received' = received + 1
        /\ UNCHANGED <<held, jobs, decoding, timestamps>>
    BY <1>1 DEF Receive, OnIncomingAudio, loop_vars, worker_vars
  <2> QED BY <1>0, <2>1, <2>2 DEF CountedOnce
<1>2. CASE AudioLoop
  <2>1. received' = received /\ decoding' = decoding
        /\ timestamps' = timestamps
    BY <1>2 DEF AudioLoop, LoopTurn, LookEmpty, DisableOutput, LookListening,
       Pop, SetBusy, ScheduleDecode, network, worker_vars
  <2>2. CASE LoopTurn \/ LookEmpty \/ DisableOutput \/ LookListening \/ SetBusy
    <3>1. queue' \in {queue, <<>>} /\ held' = held /\ jobs' = jobs
      BY <2>2 DEF LoopTurn, LookEmpty, DisableOutput, LookListening, SetBusy
    <3> QED BY <1>0, <2>1, <3>1 DEF CountedOnce
  <2>3. CASE Pop
    <3>1. Len(queue') = Len(queue) - 1 /\ held = None /\ jobs' = jobs
      BY <1>0, <2>3, <1>t, HeadTailProperties DEF Pop, TypeOK, IInv, Handover
    <3>2. Occupied(held') \in 0..1 /\ Occupied(held) = 0
      BY <1>0, <3>1 DEF Occupied
    <3> QED BY <1>0, <2>1, <3>1, <3>2 DEF CountedOnce
  <2>4. CASE ScheduleDecode
    <3>1. held \in Packet /\ held' = None /\ queue' = queue
      BY <1>t, <2>4 DEF ScheduleDecode, TypeOK, IInv, Handover
    <3>2. Len(jobs') = Len(jobs) + 1
      BY <1>0, <2>4, <3>1, <1>t, AppendProperties DEF ScheduleDecode, TypeOK
    <3>3. Occupied(held) = 1 /\ Occupied(held') = 0
      BY <1>0, <3>1
    <3> QED BY <1>0, <2>1, <3>1, <3>2, <3>3 DEF CountedOnce
  <2> QED BY <1>2, <2>2, <2>3, <2>4 DEF AudioLoop
<1>3. CASE Worker
  <2>1. received' = received /\ queue' = queue /\ held' = held
    BY <1>3 DEF Worker, BeginDecode, DropPacket, DecodePacket, OutputPacket,
       network, loop_vars
  <2>2. CASE BeginDecode
    <3>1. /\ Len(jobs') = Len(jobs) - 1 /\ decoding = None
          /\ timestamps' = timestamps
      BY <1>0, <2>2, <1>t, HeadTailProperties DEF BeginDecode, TypeOK, IInv, Handover
    <3>2. Occupied(decoding') \in 0..1 /\ Occupied(decoding) = 0
      BY <1>0, <3>1 DEF Occupied
    <3> QED BY <1>0, <2>1, <3>1, <3>2 DEF CountedOnce
  <2>3. CASE DropPacket \/ DecodePacket
    <3>1. /\ jobs' = jobs /\ decoding' \in {decoding, None}
          /\ timestamps' = timestamps
      BY <2>3 DEF DropPacket, DecodePacket
    <3> QED BY <1>0, <2>1, <3>1 DEF CountedOnce
  <2>4. CASE OutputPacket
    <3>1. /\ jobs' = jobs /\ decoding \in Packet /\ decoding' = None
          /\ timestamps' = timestamps + 1
      BY <1>0, <1>t, <2>4 DEF OutputPacket, IInv, Handover, TypeOK
    <3>2. Occupied(decoding) = 1 /\ Occupied(decoding') = 0
      BY <1>0, <3>1
    <3> QED BY <1>0, <2>1, <3>1, <3>2 DEF CountedOnce
  <2> QED BY <1>3, <2>2, <2>3, <2>4 DEF Worker
<1>4. CASE Main \/ Alert \/ EncodeTakesTimestamp \/ SilencePasses
  <2>1. MainStep
    BY <1>4, MainSteps
  <2>2. timestamps' <= timestamps /\ timestamps' \in Nat
    BY <1>0, <1>4 DEF Main, TtsStart, TtsStop, TtsStopped, SetDeviceState,
       WaitForCompletion, SwitchState, AbortSpeaking, Alert, worker_vars,
       EncodeTakesTimestamp, SilencePasses
  <2>3. /\ received' = received /\ held' = held /\ jobs' = jobs
        /\ decoding' = decoding /\ queue' \in {queue, <<>>}
    BY <2>1 DEF MainStep, network, loop_vars
  <2> QED BY <1>0, <2>2, <2>3 DEF CountedOnce
<1>5. CASE UNCHANGED vars
  BY <1>0, <1>5 DEF vars, network, loop_vars, worker_vars, CountedOnce
<1> QED BY <1>1, <1>2, <1>3, <1>4, <1>5 DEF Next

LEMMA NextIInv == IInv /\ [Next]_vars => IInv'
BY NextType, NextHandover, NextLateOnce, NextOutputStays, NextInOrder,
   NextCounted DEF IInv

\* IInv is invariant: the hand-over from the audio loop to the background task,
\* the flag that governs it and the order of what is on its way.
THEOREM Invariance == Spec => []IInv
<1>1. Init => IInv
  BY InitIInv
<1>2. IInv /\ [Next]_vars => IInv'
  BY NextIInv
<1> QED BY <1>1, <1>2, PTL DEF Spec

\* Every variable keeps its type.
THEOREM TypeCorrect == Spec => []TypeOK
<1>1. IInv => TypeOK
  BY DEF IInv
<1> QED BY <1>1, Invariance, PTL

\* busy_decoding_audio_ is set exactly while a decode job is pending.
THEOREM FlagIsRight == Spec => []BusyMeansPending
<1>1. IInv => BusyMeansPending
  BY DEF IInv
<1> QED BY <1>1, Invariance, PTL

\* At most two packets are past the queue.
THEOREM PipelineIsBounded == Spec => []PipelineBounded
<1>1. IInv => PipelineBounded
  <2> SUFFICES ASSUME IInv PROVE PipelineBounded
    OBVIOUS
  <2>1. Occupied(decoding) \in 0..1
    BY DEF Occupied
  <2>2. Occupied(held) \in 0..1
    BY DEF Occupied
  <2>3. Len(jobs) \in Nat /\ Len(jobs) <= 1
    BY DEF IInv, TypeOK, Handover
  <2>4. held # None => Len(jobs) = 0
    BY EmptySeq DEF IInv, Handover
  <2>5. Occupied(held) + Len(jobs) <= 1
    BY <2>2, <2>3, <2>4 DEF Occupied
  <2> QED BY <2>1, <2>2, <2>3, <2>5 DEF PipelineBounded
<1> QED BY <1>1, Invariance, PTL

\* Aborting speech lets no more than one packet through.
THEOREM AbortStops == Spec => []AbortStopsPlayback
<1>1. IInv => AbortStopsPlayback
  BY DEF IInv, LateOnce, AbortStopsPlayback
<1> QED BY <1>1, Invariance, PTL

\* The output is on while the device speaks, between two tasks of the main
\* thread.
THEOREM SpeakingIsHeard == Spec => []SpeakingHasOutput
<1>1. IInv => SpeakingHasOutput
  BY DEF IInv, OutputStays, SpeakingHasOutput
<1> QED BY <1>1, Invariance, PTL

\* Speech is never played backwards.
THEOREM PlaybackGoesForward == Spec => NeverBackwards
<1>1. IInv /\ [Next]_vars => [heard' >= heard]_vars
  <2> SUFFICES ASSUME IInv, [Next]_vars PROVE heard' >= heard
    OBVIOUS
  <2>0. heard \in Nat /\ decoding \in Nat
    <3>1. Packet \cup {None} \subseteq Nat
      BY BoundsAssumption DEF Packet, None
    <3> QED BY <3>1 DEF IInv, TypeOK
  <2>1. heard' = heard \/ OutputPacket
    <3>1. CASE \E p \in Packet : Receive(p)
      BY <3>1 DEF Receive, OnIncomingAudio, worker_vars
    <3>2. CASE AudioLoop
      BY <3>2 DEF AudioLoop, LoopTurn, LookEmpty, DisableOutput, LookListening,
         Pop, SetBusy, ScheduleDecode, worker_vars
    <3>3. CASE Worker
      BY <3>3 DEF Worker, BeginDecode, DropPacket, DecodePacket
    <3>4. CASE Main \/ Alert \/ EncodeTakesTimestamp \/ SilencePasses
      BY <3>4, MainSteps DEF MainStep
    <3>5. CASE UNCHANGED vars
      BY <3>5 DEF vars, worker_vars
    <3> QED BY <3>1, <3>2, <3>3, <3>4, <3>5 DEF Next
  <2>2. CASE OutputPacket
    <3>1. heard' \in {heard, decoding} /\ decoding \in Decoded
      BY <2>2 DEF OutputPacket, IInv, Handover, Decoded
    <3>2. heard <= decoding
      BY <3>1 DEF IInv, InOrder, NoLater
    <3> QED BY <2>0, <3>1, <3>2
  <2> QED BY <2>0, <2>1, <2>2
<1> QED BY <1>1, Invariance, PTL DEF Spec, NeverBackwards
(***************************************************************************)
(* Refinement.  What a LossyFifo has pending is the packet in a decode     *)
(* job, those of the jobs not begun, the one the audio loop holds and      *)
(* audio_decode_queue_, in this order.                                     *)
(***************************************************************************)
\* What comes before the second part of a concatenation is the first part.
LEMMA PrefixOfConcat ==
  ASSUME NEW S, NEW a \in Seq(S), NEW b \in Seq(S)
  PROVE  SubSeq(a \o b, 1, Len(a)) = a
<1> DEFINE s == a \o b
           first == SubSeq(s, 1, Len(a))
<1>1. /\ s \in Seq(S) /\ Len(s) = Len(a) + Len(b)
      /\ Len(a) \in Nat /\ Len(b) \in Nat
      /\ \A k \in 1..Len(a) : s[k] = a[k]
  BY ConcatProperties, LenProperties
<1>2. \A k \in 1..Len(s) : s[k] \in S
  BY <1>1, ElementOfSeq
<1> HIDE DEF s
<1>3. /\ first \in Seq(S) /\ Len(first) = Len(a)
      /\ \A k \in 1..Len(a) : first[k] = s[k]
  BY <1>1, <1>2, SubSeqProperties
<1>4. first = a
  BY <1>1, <1>3, SeqEqual
<1> QED BY <1>4 DEF s

\* The head of a sequence and its tail make it up.
LEMMA HeadAndTail ==
  ASSUME NEW S, NEW s \in Seq(S), s # <<>>
  PROVE  <<Head(s)>> \o Tail(s) = s
<1>1. Len(s) \in Nat \ {0} /\ Head(s) = s[1]
  BY EmptySeq
<1>2. /\ SubSeq(s, 1, Len(s)) = <<s[1]>> \o SubSeq(s, 2, Len(s))
      /\ SubSeq(s, 1, Len(s)) = s
      /\ Tail(s) = SubSeq(s, 2, Len(s))
  BY <1>1, SubSeqRecursiveFirst, SubSeqFull, TailIsSubSeq
<1> QED BY <1>1, <1>2

\* The parts of the way are sequences, and together are one.
LEMMA WayType ==
  ASSUME TypeOK
  PROVE  /\ One(decoding) \in Seq(Packet) /\ One(held) \in Seq(Packet)
         /\ One(decoding) \o jobs \in Seq(Packet)
         /\ (One(decoding) \o jobs) \o One(held) \in Seq(Packet)
         /\ OnTheWay \in Seq(Packet)
<1>1. One(decoding) \in Seq(Packet) /\ One(held) \in Seq(Packet)
  BY EmptySeq DEF TypeOK, One
<1>2. One(decoding) \o jobs \in Seq(Packet)
  BY <1>1, ConcatProperties DEF TypeOK
<1>3. (One(decoding) \o jobs) \o One(held) \in Seq(Packet)
  BY <1>1, <1>2, ConcatProperties
<1>4. OnTheWay \in Seq(Packet)
  BY <1>3, ConcatProperties DEF TypeOK, OnTheWay
<1> QED BY <1>1, <1>2, <1>3, <1>4

\* Throwing the queue away loses a run of neighbours, if there is anything in it.
LEMMA EmptyQueueLoses ==
  ASSUME TypeOK, queue' = <<>>, UNCHANGED <<decoding, jobs, held, heard>>
  PROVE  [Path!Lose]_Path!vars
<1> DEFINE ahead == (One(decoding) \o jobs) \o One(held)
<1>1. OnTheWay = ahead \o queue /\ OnTheWay' = ahead \o <<>>
  BY DEF OnTheWay, One
<1>2. ahead \in Seq(Packet) /\ queue \in Seq(Packet)
  BY WayType DEF TypeOK
<1> HIDE DEF ahead
<1>3. CASE queue = <<>>
  BY <1>1, <1>3 DEF Path!vars
<1>4. CASE queue # <<>>
  <2> DEFINE n == Len(OnTheWay)
  <2>1. /\ n = Len(ahead) + Len(queue) /\ Len(ahead) \in Nat /\ n \in Nat
        /\ Len(queue) \in Nat \ {0} /\ OnTheWay \in Seq(Packet)
    BY <1>1, <1>2, <1>4, EmptySeq, ConcatProperties
  <2>2. SubSeq(OnTheWay, 1, Len(ahead)) = ahead
    BY <1>1, <1>2, PrefixOfConcat
  <2>3. SubSeq(OnTheWay, n + 1, n) = <<>>
    BY <2>1, SubSeqEmpty
  <2>4. OnTheWay' = SubSeq(OnTheWay, 1, (Len(ahead) + 1) - 1)
                      \o SubSeq(OnTheWay, n + 1, n)
    BY <1>1, <2>1, <2>2, <2>3
  <2>5. Len(ahead) + 1 \in 1..(n + 1) /\ n + 1 \in 1..(n + 1) /\ Len(ahead) + 1 < n + 1
    BY <2>1
  <2> QED BY <2>4, <2>5 DEF Path!Lose
<1> QED BY <1>3, <1>4

\* The packet being decoded is the oldest: without it the rest is on the way.
LEMMA DecodingIsFirst ==
  ASSUME TypeOK, decoding # None, decoding' = None, UNCHANGED <<jobs, held, queue>>
  PROVE  /\ OnTheWay # <<>>
         /\ decoding = Head(OnTheWay)
         /\ OnTheWay' = Tail(OnTheWay)
<1> DEFINE rest == (jobs \o One(held)) \o queue
<1>1. /\ decoding \in Packet /\ <<decoding>> \in Seq(Packet)
      /\ jobs \in Seq(Packet) /\ queue \in Seq(Packet) /\ One(held) \in Seq(Packet)
  BY WayType DEF TypeOK
<1>2. jobs \o One(held) \in Seq(Packet) /\ rest \in Seq(Packet)
  BY <1>1, ConcatProperties
<1>3. OnTheWay = <<decoding>> \o rest
  <2>1. OnTheWay = ((<<decoding>> \o jobs) \o One(held)) \o queue
    BY DEF OnTheWay, One
  <2>2. (<<decoding>> \o jobs) \o One(held) = <<decoding>> \o (jobs \o One(held))
    BY <1>1, ConcatAssociative
  <2>3. (<<decoding>> \o (jobs \o One(held))) \o queue = <<decoding>> \o rest
    BY <1>1, <1>2, ConcatAssociative
  <2> QED BY <2>1, <2>2, <2>3
<1>4. OnTheWay' = rest
  <2>1. OnTheWay' = ((<<>> \o jobs) \o One(held)) \o queue
    BY DEF OnTheWay, One
  <2> QED BY <1>1, <2>1, ConcatEmptySeq
<1> HIDE DEF rest
<1>5. OnTheWay # <<>> /\ Head(OnTheWay) = decoding /\ Tail(OnTheWay) = rest
  BY <1>1, <1>2, <1>3, ConcatProperties, SMTT(30)
<1> QED BY <1>4, <1>5

LEMMA RefinementInit == Init => Path!Init
BY EmptySeq, ConcatEmptySeq DEF Init, Path!Init, OnTheWay, One

LEMMA LoopRefines == IInv /\ AudioLoop => [Path!Next]_Path!vars
<1> SUFFICES ASSUME IInv, AudioLoop PROVE [Path!Next]_Path!vars
  OBVIOUS
<1>0. TypeOK /\ Handover
  BY DEF IInv
<1> USE DEF Path!vars, Path!Next
<1>1. CASE LoopTurn \/ LookEmpty \/ DisableOutput \/ SetBusy
  BY <1>1 DEF LoopTurn, LookEmpty, DisableOutput, SetBusy, worker_vars, OnTheWay, One
<1>2. CASE LookListening
  <2>1. queue' = <<>> /\ UNCHANGED <<decoding, jobs, held, heard>>
    BY <1>2 DEF LookListening, loop_vars, worker_vars
  <2> QED BY <1>0, <2>1, EmptyQueueLoses
<1>3. CASE Pop
  <2>1. held = None /\ held' = Head(queue) /\ queue # <<>> /\ queue' = Tail(queue)
    BY <1>0, <1>3 DEF Pop, Handover
  <2>2. held' \in Packet /\ held' # None /\ queue' \in Seq(Packet)
    BY <1>0, <2>1, HeadTailProperties, BoundsAssumption DEF TypeOK, Packet, None
  <2>3. UNCHANGED <<decoding, jobs, heard>>
    BY <1>3 DEF Pop, worker_vars
  <2> DEFINE d == One(decoding) \o jobs
  <2>4. d \in Seq(Packet) /\ queue \in Seq(Packet) /\ <<held'>> \in Seq(Packet)
    BY <1>0, <2>2, WayType DEF TypeOK
  <2>5. OnTheWay = (d \o <<>>) \o queue /\ OnTheWay' = (d \o <<held'>>) \o queue'
    BY <2>1, <2>2, <2>3 DEF OnTheWay, One
  <2> HIDE DEF d
  <2>6. (d \o <<held'>>) \o queue' = d \o (<<held'>> \o queue')
    BY <2>2, <2>4, ConcatAssociative
  <2>7. <<held'>> \o queue' = queue
    BY <2>1, <2>4, HeadAndTail
  <2> QED BY <2>3, <2>4, <2>5, <2>6, <2>7, ConcatEmptySeq
<1>4. CASE ScheduleDecode
  <2>1. held \in Packet /\ held # None /\ queue' = queue /\ held' = None
        /\ jobs' = Append(jobs, held) /\ UNCHANGED <<decoding, heard>>
    BY <1>0, <1>4, BoundsAssumption
       DEF ScheduleDecode, Handover, TypeOK, Packet, None, worker_vars
  <2>2. /\ One(decoding) \in Seq(Packet) /\ jobs \in Seq(Packet)
        /\ <<held>> \in Seq(Packet)
        /\ One(decoding) \o jobs' \in Seq(Packet)
    <3>1. jobs' \in Seq(Packet) /\ One(decoding) \in Seq(Packet)
      BY <1>0, <2>1, AppendProperties, WayType DEF TypeOK
    <3> QED BY <1>0, <2>1, <3>1, ConcatProperties DEF TypeOK
  <2>3. /\ OnTheWay = ((One(decoding) \o jobs) \o <<held>>) \o queue
        /\ OnTheWay' = ((One(decoding) \o jobs') \o <<>>) \o queue
    BY <2>1 DEF OnTheWay, One
  <2>4. (One(decoding) \o jobs') \o <<>> = (One(decoding) \o jobs) \o <<held>>
    <3>1. (One(decoding) \o jobs') \o <<>> = One(decoding) \o jobs'
      BY <2>2, ConcatEmptySeq
    <3>2. jobs' = jobs \o <<held>>
      BY <2>1, <2>2, AppendIsConcat
    <3>3. One(decoding) \o (jobs \o <<held>>) = (One(decoding) \o jobs) \o <<held>>
      BY <2>2, ConcatAssociative
    <3> QED BY <3>1, <3>2, <3>3
  <2> QED BY <2>1, <2>3, <2>4
<1> QED BY <1>0, <1>1, <1>2, <1>3, <1>4 DEF AudioLoop

LEMMA WorkerRefines == IInv /\ Worker => [Path!Next]_Path!vars
<1> SUFFICES ASSUME IInv, Worker PROVE [Path!Next]_Path!vars
  OBVIOUS
<1>0. TypeOK /\ Handover
  BY DEF IInv
<1> USE DEF Path!vars, Path!Next
<1>1. CASE BeginDecode
  <2>1. /\ decoding = None /\ jobs # <<>> /\ decoding' = Head(jobs)
        /\ jobs' = Tail(jobs) /\ UNCHANGED <<held, queue, heard>>
    BY <1>0, <1>1 DEF BeginDecode, Handover
  <2>2. jobs \in Seq(Packet) /\ decoding' \in Packet /\ decoding' # None
    BY <1>0, <2>1, HeadTailProperties, BoundsAssumption DEF TypeOK, Packet, None
  <2>3. /\ OnTheWay = ((<<>> \o jobs) \o One(held)) \o queue
        /\ OnTheWay' = ((<<decoding'>> \o jobs') \o One(held)) \o queue
    BY <2>1, <2>2 DEF OnTheWay, One
  <2>4. <<decoding'>> \o jobs' = jobs /\ <<>> \o jobs = jobs
    BY <2>1, <2>2, HeadAndTail, ConcatEmptySeq
  <2> QED BY <2>1, <2>3, <2>4
<1>2. CASE DecodePacket
  BY <1>2 DEF DecodePacket, loop_vars, OnTheWay, One
<1>3. CASE DropPacket \/ OutputPacket
  <2>1. /\ decoding # None /\ decoding' = None /\ UNCHANGED <<jobs, held, queue>>
        /\ heard' \in {heard, decoding}
    BY <1>0, <1>3 DEF DropPacket, OutputPacket, Handover, loop_vars
  <2>2. /\ OnTheWay # <<>> /\ decoding = Head(OnTheWay)
        /\ OnTheWay' = Tail(OnTheWay) /\ OnTheWay \in Seq(Packet)
    BY <1>0, <2>1, DecodingIsFirst, WayType
  <2>3. CASE heard' = decoding
    BY <2>2, <2>3 DEF Path!Deliver
  <2>4. CASE heard' = heard
    <3>1. /\ Len(OnTheWay) \in Nat \ {0}
          /\ SubSeq(OnTheWay, 1, 0) = <<>>
          /\ Tail(OnTheWay) = SubSeq(OnTheWay, 2, Len(OnTheWay))
          /\ <<>> \o Tail(OnTheWay) = Tail(OnTheWay)
      BY <2>2, EmptySeq, SubSeqEmpty, TailIsSubSeq, HeadTailProperties, ConcatEmptySeq
    <3>2. /\ 1 \in 1..(Len(OnTheWay) + 1) /\ 2 \in 1..(Len(OnTheWay) + 1) /\ 1 < 2
          /\ OnTheWay' = SubSeq(OnTheWay, 1, 1 - 1)
                           \o SubSeq(OnTheWay, 2, Len(OnTheWay))
      BY <2>2, <3>1
    <3> QED BY <2>4, <3>2 DEF Path!Lose
  <2> QED BY <2>1, <2>3, <2>4
<1> QED BY <1>1, <1>2, <1>3 DEF Worker

LEMMA RefinementNext == IInv /\ [Next]_vars => [Path!Next]_Path!vars
<1> SUFFICES ASSUME IInv, [Next]_vars PROVE [Path!Next]_Path!vars
  OBVIOUS
<1>0. TypeOK
  BY DEF IInv
<1>1. ASSUME NEW p \in Packet, Receive(p) PROVE [Path!Next]_Path!vars
  <2>1. /\ UNCHANGED <<decoding, jobs, held, heard>>
        /\ queue' \in {queue, Append(queue, p)}
    BY <1>1 DEF Receive, OnIncomingAudio, loop_vars, worker_vars
  <2>2. CASE queue' = queue
    BY <2>1, <2>2 DEF OnTheWay, One, Path!vars
  <2>3. CASE queue' = Append(queue, p)
    <3> DEFINE ahead == (One(decoding) \o jobs) \o One(held)
    <3>1. ahead \in Seq(Packet) /\ queue \in Seq(Packet) /\ <<p>> \in Seq(Packet)
          /\ OnTheWay \in Seq(Packet)
      BY <1>0, WayType DEF TypeOK
    <3>2. OnTheWay = ahead \o queue /\ OnTheWay' = ahead \o Append(queue, p)
      BY <2>1, <2>3 DEF OnTheWay, One
    <3> HIDE DEF ahead
    <3>3. ahead \o Append(queue, p) = ahead \o (queue \o <<p>>)
      BY <3>1, AppendIsConcat
    <3>4. ahead \o (queue \o <<p>>) = (ahead \o queue) \o <<p>>
      BY <3>1, ConcatAssociative
    <3>5. OnTheWay \o <<p>> = Append(OnTheWay, p)
      BY <3>1, AppendIsConcat
    <3> QED BY <2>1, <3>2, <3>3, <3>4, <3>5 DEF Path!Put, Path!Next
  <2> QED BY <2>1, <2>2, <2>3
<1>2. CASE Main \/ Alert \/ EncodeTakesTimestamp \/ SilencePasses
  <2>1. UNCHANGED <<decoding, jobs, held, heard>> /\ queue' \in {queue, <<>>}
    BY <1>2, MainSteps DEF MainStep, loop_vars
  <2>2. CASE queue' = queue
    BY <2>1, <2>2 DEF OnTheWay, One, Path!vars
  <2>3. CASE queue' = <<>>
    BY <1>0, <2>1, <2>3, EmptyQueueLoses DEF Path!Next
  <2> QED BY <2>1, <2>2, <2>3
<1>3. CASE UNCHANGED vars
  BY <1>3 DEF vars, loop_vars, worker_vars, OnTheWay, One, Path!vars
<1> QED BY <1>1, <1>2, <1>3, LoopRefines, WorkerRefines DEF Next

\* Playback implements LossyFifo: what has passed the receive filter is heard
\* in the order in which it passed, none twice, whatever the three threads and
\* the main thread's resets do in between.
THEOREM ImplementsLossyFifo == Spec => PathSpec
BY RefinementInit, RefinementNext, Invariance, PTL DEF Spec, PathSpec, Path!Spec
=============================================================================
