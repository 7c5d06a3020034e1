------------------------------ MODULE Playback ------------------------------
(***************************************************************************)
(* The way of a packet of speech: MqttProtocol's receive filter,           *)
(* audio_decode_queue_, the audio loop (OnAudioOutput), a decode job of    *)
(* the background task, the codec.  It crosses three threads, and the main *)
(* thread changes the device state, resets the decoder and aborts speech   *)
(* meanwhile.                                                              *)
(*                                                                         *)
(* The background task is the FIFO executor BackgroundTask is shown to be; *)
(* its other jobs only delay these.  The module covers one audio channel:  *)
(* remote_sequence_ starts at 0 when the channel's hello is parsed.        *)
(***************************************************************************)
EXTENDS Naturals, Sequences

CONSTANTS MaxQueue,    \* max_packets_in_queue (10 in the code)
          MaxSequence, \* bound: the highest sequence number the server uses
          MaxPackets   \* bound: how many packets arrive

ASSUME QueueAssumption == MaxQueue \in Nat \ {0}
ASSUME BoundsAssumption == MaxSequence \in Nat /\ MaxPackets \in Nat

\* A packet is its sequence number.
Packet == 1..MaxSequence
None == 0

VARIABLES
  device_state,    \* device_state_
  main,            \* the main thread: "run" (between two moves), "stop" (in
                   \* the task of a tts stop, waiting), "wait" (SetDeviceState
                   \* has set the state and waits) or "switch" (after that)
  aborted,         \* aborted_
  output_enabled,  \* the codec's output is on
  silent,          \* more than max_silence_seconds since last_output_time_
  received,        \* packets that have arrived
  remote_sequence, \* remote_sequence_
  queue,           \* audio_decode_queue_
  loop,            \* the audio loop: "idle", "look", "disable" (holding
                   \* mutex_), "popped" or "schedule"
  held,            \* the packet the loop has popped, or None
  busy,            \* busy_decoding_audio_
  jobs,            \* decode jobs not begun
  worker,          \* the background task: "idle", "decode" (in a job, before
                   \* it looks at aborted_) or "output"
  decoding,        \* the packet of the job being run, or None
  heard,           \* the packet output last, or None
  late,            \* packets output since speech was aborted
  timestamps       \* how many entries timestamp_queue_ has

state == <<device_state, main, aborted>>
output == <<output_enabled, silent>>
network == <<received, remote_sequence>>
loop_vars == <<loop, held, busy>>
worker_vars == <<worker, decoding, heard, late, timestamps>>
vars == <<state, output, network, queue, loop_vars, jobs, worker_vars>>

TypeOK ==
  /\ device_state \in {"idle", "connecting", "listening", "speaking"}
  /\ main \in {"run", "stop", "wait", "switch"}
  /\ aborted \in BOOLEAN
  /\ output_enabled \in BOOLEAN
  /\ silent \in BOOLEAN
  /\ received \in 0..MaxPackets
  /\ remote_sequence \in 0..MaxSequence
  /\ queue \in Seq(Packet)
  /\ loop \in {"idle", "look", "disable", "popped", "schedule"}
  /\ held \in Packet \cup {None}
  /\ busy \in BOOLEAN
  /\ jobs \in Seq(Packet)
  /\ worker \in {"idle", "decode", "output"}
  /\ decoding \in Packet \cup {None}
  /\ heard \in Packet \cup {None}
  /\ late \in Nat
  /\ timestamps \in Nat

Init ==
  /\ device_state = "idle"
  /\ main = "run"
  /\ aborted = FALSE
  /\ output_enabled = TRUE
  /\ silent = FALSE
  /\ received = 0
  /\ remote_sequence = 0
  /\ queue = <<>>
  /\ loop = "idle"
  /\ held = None
  /\ busy = FALSE
  /\ jobs = <<>>
  /\ worker = "idle"
  /\ decoding = None
  /\ heard = None
  /\ late = 0
  /\ timestamps = 0

\* Nobody holds the mutex_ of Application across a step, but for the loop
\* while it turns the output off.
MutexFree == loop # "disable"

\* WaitForCompletion may return.
Complete == jobs = <<>> /\ worker = "idle"
-----------------------------------------------------------------------------
(***************************************************************************)
(* The UDP receiver.                                                       *)
(***************************************************************************)
\* The callback for incoming audio drops what finds the queue full.
OnIncomingAudio(p) ==
  queue' = IF Len(queue) < MaxQueue THEN Append(queue, p) ELSE queue

\* A slip: an old packet is reported and used all the same.
ReceiveUnfiltered(p) ==
  /\ MutexFree
  /\ received < MaxPackets
  /\ received' = received + 1
  /\ remote_sequence' = p
  /\ OnIncomingAudio(p)
  /\ UNCHANGED <<state, output, loop_vars, jobs, worker_vars>>

\* The network delivers a packet: any one the server may have sent, again or
\* out of order.  One older than the newest seen is dropped.
Receive(p) ==
  /\ MutexFree
  /\ p >= remote_sequence
  /\ received < MaxPackets
  /\ received' = received + 1
  /\ remote_sequence' = p
  /\ OnIncomingAudio(p)
  /\ UNCHANGED <<state, output, loop_vars, jobs, worker_vars>>
-----------------------------------------------------------------------------
(***************************************************************************)
(* The audio loop, OnAudioOutput.                                          *)
(***************************************************************************)
\* A slip: busy_decoding_audio_ is not looked at.
TurnThoughBusy ==
  /\ loop = "idle"
  /\ output_enabled
  /\ loop' = "look"
  /\ UNCHANGED <<state, output, network, queue, held, busy, jobs,
                 worker_vars>>

\* AudioLoop and OnAudioOutput up to the lock.
LoopTurn ==
  /\ loop = "idle"
  /\ output_enabled
  /\ ~busy
  /\ loop' = "look"
  /\ UNCHANGED <<state, output, network, queue, held, busy, jobs,
                 worker_vars>>

\* Nothing to play: after a long silence in the idle state, go and turn the
\* output off, with mutex_ held.
LookEmpty ==
  /\ loop = "look"
  /\ queue = <<>>
  /\ loop' = IF device_state = "idle" /\ silent THEN "disable" ELSE "idle"
  /\ UNCHANGED <<state, output, network, queue, held, busy, jobs,
                 worker_vars>>

DisableOutput ==
  /\ loop = "disable"
  /\ output_enabled' = FALSE
  /\ loop' = "idle"
  /\ UNCHANGED <<state, silent, network, queue, held, busy, jobs,
                 worker_vars>>

\* While the device listens, what is left of the speech is thrown away.
LookListening ==
  /\ loop = "look"
  /\ queue # <<>>
  /\ device_state = "listening"
  /\ queue' = <<>>
  /\ loop' = "idle"
  /\ UNCHANGED <<state, output, network, held, busy, jobs, worker_vars>>

\* A slip: the newest packet is taken first.
PopNewest ==
  /\ loop = "look"
  /\ queue # <<>>
  /\ device_state # "listening"
  /\ held' = queue[Len(queue)]
  /\ queue' = SubSeq(queue, 1, Len(queue) - 1)
  /\ loop' = "popped"
  /\ UNCHANGED <<state, output, network, busy, jobs, worker_vars>>

Pop ==
  /\ loop = "look"
  /\ queue # <<>>
  /\ device_state # "listening"
  /\ held' = Head(queue)
  /\ queue' = Tail(queue)
  /\ loop' = "popped"
  /\ UNCHANGED <<state, output, network, busy, jobs, worker_vars>>

\* A slip: the job is queued before the flag is set.
ScheduleFirst ==
  /\ loop = "popped"
  /\ jobs' = Append(jobs, held)
  /\ loop' = "schedule"
  /\ UNCHANGED <<state, output, network, queue, held, busy, worker_vars>>

SetBusy ==
  /\ loop = "popped"
  /\ busy' = TRUE
  /\ loop' = "schedule"
  /\ UNCHANGED <<state, output, network, queue, held, jobs, worker_vars>>

ScheduleDecode ==
  /\ loop = "schedule"
  /\ jobs' = Append(jobs, held)
  /\ held' = None
  /\ loop' = "idle"
  /\ UNCHANGED <<state, output, network, queue, busy, worker_vars>>
-----------------------------------------------------------------------------
(***************************************************************************)
(* The decode job, on the background task.                                 *)
(***************************************************************************)
\* A slip: the job clears busy_decoding_audio_ only if speech goes on.
BeginDecodeStillBusy ==
  /\ worker = "idle"
  /\ jobs # <<>>
  /\ decoding' = Head(jobs)
  /\ jobs' = Tail(jobs)
  /\ busy' = aborted
  /\ worker' = "decode"
  /\ UNCHANGED <<state, output, network, queue, loop, held, heard, late,
                 timestamps>>

BeginDecode ==
  /\ worker = "idle"
  /\ jobs # <<>>
  /\ decoding' = Head(jobs)
  /\ jobs' = Tail(jobs)
  /\ busy' = FALSE
  /\ worker' = "decode"
  /\ UNCHANGED <<state, output, network, queue, loop, held, heard, late,
                 timestamps>>

\* Speech has been aborted, or the packet cannot be decoded.
DropPacket ==
  /\ worker = "decode"
  /\ decoding' = None
  /\ worker' = "idle"
  /\ UNCHANGED <<state, output, network, queue, loop_vars, jobs, heard,
                 late, timestamps>>

\* A slip: aborted_ is not looked at.
DecodeAlways ==
  /\ worker = "decode"
  /\ worker' = "output"
  /\ UNCHANGED <<state, output, network, queue, loop_vars, jobs, decoding,
                 heard, late, timestamps>>

DecodePacket ==
  /\ worker = "decode"
  /\ ~aborted
  /\ worker' = "output"
  /\ UNCHANGED <<state, output, network, queue, loop_vars, jobs, decoding,
                 heard, late, timestamps>>

\* OutputData (which drops the samples while the output is off), the timestamp
\* for the encoder, and last_output_time_.
OutputPacket ==
  /\ worker = "output"
  /\ heard' = IF output_enabled THEN decoding ELSE heard
  /\ late' = IF aborted /\ output_enabled THEN late + 1 ELSE late
  /\ timestamps' = timestamps + 1
  /\ silent' = FALSE
  /\ decoding' = None
  /\ worker' = "idle"
  /\ UNCHANGED <<state, output_enabled, network, queue, loop_vars, jobs>>

\* An encode job, which the background task runs between two decode jobs, takes
\* a timestamp for its frame, and another one, with which the frame is dropped,
\* while more than three are left.
EncodeTakesTimestamp ==
  /\ worker = "idle"
  /\ timestamps > 0
  /\ timestamps' = IF timestamps > 4 THEN timestamps - 2 ELSE timestamps - 1
  /\ UNCHANGED <<state, output, network, queue, loop_vars, jobs, worker,
                 decoding, heard, late>>
-----------------------------------------------------------------------------
(***************************************************************************)
(* The main thread.                                                        *)
(***************************************************************************)
\* A slip: ResetDecoder without its lock.
ResetDecoderUnlocked ==
  /\ queue' = <<>>
  /\ silent' = FALSE
  /\ output_enabled' = TRUE

ResetDecoder ==
  /\ MutexFree
  /\ queue' = <<>>
  /\ silent' = FALSE
  /\ output_enabled' = TRUE

\* The task of a tts start.
TtsStart ==
  /\ main = "run"
  /\ aborted' = FALSE
  /\ late' = 0
  /\ IF device_state \in {"idle", "listening"}
       THEN device_state' = "speaking" /\ main' = "wait"
       ELSE UNCHANGED <<device_state, main>>
  /\ UNCHANGED <<output, network, queue, loop_vars, jobs, worker, decoding,
                 heard, timestamps>>

\* The task of a tts stop waits for the background task before it looks at
\* the state.
TtsStop ==
  /\ main = "run"
  /\ main' = "stop"
  /\ UNCHANGED <<device_state, aborted, output, network, queue, loop_vars,
                 jobs, worker_vars>>

TtsStopped ==
  /\ main = "stop"
  /\ Complete
  /\ IF device_state = "speaking"
       THEN device_state' = "listening" /\ main' = "wait"
       ELSE device_state' = device_state /\ main' = "run"
  /\ UNCHANGED <<aborted, output, network, queue, loop_vars, jobs,
                 worker_vars>>

\* The other tasks set the idle, connecting and listening states.
SetDeviceState(s) ==
  /\ main = "run"
  /\ device_state # s
  /\ device_state' = s
  /\ main' = "wait"
  /\ UNCHANGED <<aborted, output, network, queue, loop_vars, jobs,
                 worker_vars>>

WaitForCompletion ==
  /\ main = "wait"
  /\ Complete
  /\ main' = "switch"
  /\ UNCHANGED <<device_state, aborted, output, network, queue, loop_vars,
                 jobs, worker_vars>>

\* The switch at the end of SetDeviceState, as far as it is about playing.
SwitchState ==
  /\ main = "switch"
  /\ main' = "run"
  /\ IF device_state = "speaking"
       THEN ResetDecoder
       ELSE UNCHANGED <<queue, silent, output_enabled>>
  /\ timestamps' = IF device_state = "connecting" THEN 0 ELSE timestamps
  /\ UNCHANGED <<device_state, aborted, network, loop_vars, jobs, worker,
                 decoding, heard, late>>

AbortSpeaking ==
  /\ main = "run"
  /\ aborted' = TRUE
  /\ UNCHANGED <<device_state, main, output, network, queue, loop_vars,
                 jobs, worker_vars>>

\* Alert, on the MQTT thread (an alert of the server) or on the main one.
Alert ==
  /\ ResetDecoder
  /\ UNCHANGED <<state, network, loop_vars, jobs, worker_vars>>

\* Ten seconds without output.
SilencePasses ==
  /\ ~silent
  /\ silent' = TRUE
  /\ UNCHANGED <<state, output_enabled, network, queue, loop_vars, jobs,
                 worker_vars>>
-----------------------------------------------------------------------------
AudioLoop ==
  \/ LoopTurn \/ LookEmpty \/ DisableOutput \/ LookListening \/ Pop \/ SetBusy
  \/ ScheduleDecode

Worker == BeginDecode \/ DropPacket \/ DecodePacket \/ OutputPacket

Main ==
  \/ TtsStart \/ TtsStop \/ TtsStopped
  \/ \E s \in {"idle", "connecting", "listening"} : SetDeviceState(s)
  \/ WaitForCompletion \/ SwitchState \/ AbortSpeaking

Next ==
  \/ \E p \in Packet : Receive(p)
  \/ AudioLoop \/ Worker \/ Main
  \/ Alert \/ EncodeTakesTimestamp \/ SilencePasses

\* The audio loop and the background task keep running.
Spec == Init /\ [][Next]_vars /\ WF_vars(AudioLoop) /\ WF_vars(Worker)
-----------------------------------------------------------------------------
(***************************************************************************)
(* Properties.                                                             *)
(***************************************************************************)
\* busy_decoding_audio_, which the loop sets and the job clears without any
\* lock, is set exactly while a job has been or is about to be queued: were it
\* left set, nothing would ever be played again; were it clear, decode jobs
\* would pile up.
BusyMeansPending == busy <=> loop = "schedule" \/ jobs # <<>>

\* Beyond the queue, no more than two packets are on their way to the codec:
\* ResetDecoder empties the queue, and this bounds what can still be heard of
\* the speech before it.
Occupied(x) == IF x = None THEN 0 ELSE 1

PipelineBounded == Occupied(held) + Len(jobs) + Occupied(decoding) <= 2

\* Once speech has been aborted at most one more packet is output, until the
\* next tts start.
AbortStopsPlayback == aborted => late <= 1

\* Between tasks the output is on while the device speaks, although the loop
\* decides to turn it off from a state it read earlier.
SpeakingHasOutput ==
  main = "run" /\ device_state = "speaking" => output_enabled

\* Speech is never played backwards, however the network reorders it.
NeverBackwards == [][heard' >= heard]_vars

One(p) == IF p = None THEN <<>> ELSE <<p>>

\* What has passed the filter and is not yet heard, oldest first.
OnTheWay == One(decoding) \o jobs \o One(held) \o queue

\* What has passed the filter is heard in the order in which it passed, none
\* twice, over a locked queue, an executor and three threads, whatever the main
\* thread throws away in between.
Path == INSTANCE LossyFifo
          WITH Item <- Packet, pending <- OnTheWay, out <- heard

PathSpec == Path!Spec

\* The parts of the inductive invariant that are no property of their own.

\* At most one packet is between the queue and the background task, and one
\* that has been scheduled holds the loop back.
Handover ==
  /\ held # None <=> loop \in {"popped", "schedule"}
  /\ decoding # None <=> worker # "idle"
  /\ Len(jobs) <= 1
  /\ jobs # <<>> => loop = "idle"

\* The packet output after an abort was past its test of aborted_.
LateOnce ==
  /\ ~aborted => late = 0
  /\ worker = "output" => late = 0
  /\ late <= 1

\* While the device speaks, the loop does not turn the output off either.
OutputStays ==
  main = "run" /\ device_state = "speaking" =>
    output_enabled /\ loop # "disable"

\* The packets not yet heard, from the newest to the one being output.
Queued == {queue[i] : i \in DOMAIN queue}
Handed ==
  (IF held = None THEN {} ELSE {held}) \cup {jobs[i] : i \in DOMAIN jobs}
Decoded == IF decoding = None THEN {} ELSE {decoding}

NoLater(S, T) == \A p \in S, q \in T : p <= q

\* Each stage holds packets no newer than the stage before it.
InOrder ==
  /\ \A i, j \in DOMAIN queue : i <= j => queue[i] <= queue[j]
  /\ NoLater(Queued, {remote_sequence})
  /\ NoLater(Handed, Queued \cup {remote_sequence})
  /\ NoLater(Decoded, Handed \cup Queued \cup {remote_sequence})
  /\ NoLater({heard}, Decoded \cup Handed \cup Queued \cup {remote_sequence})

\* A packet is queued, handed on, decoded or counted in timestamp_queue_, one
\* after the other and never in two places: nothing else bounds that queue
\* while only decode jobs run, since the comment's limit of three
\* (application.cc:277) is looked at by encode jobs alone.
CountedOnce ==
  Len(queue) + Occupied(held) + Len(jobs) + Occupied(decoding) + timestamps
    <= received

\* The inductive invariant.
IInv ==
  /\ TypeOK
  /\ BusyMeansPending
  /\ CountedOnce
  /\ Handover
  /\ LateOnce
  /\ OutputStays
  /\ InOrder

\* What is in the queue is played or thrown away, unless the output is off.
QueueDrains == queue # <<>> ~> queue = <<>> \/ ~output_enabled
=============================================================================
