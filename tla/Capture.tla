------------------------------ MODULE Capture ------------------------------
(***************************************************************************)
(* The way of a frame from the microphone to the server: the audio loop    *)
(* (OnAudioInput), the queue and the thread of SdlAudioProcessor, an       *)
(* encode job of the background task, a SendAudio task of the main thread, *)
(* the UDP client.  The main thread starts and stops the processor and     *)
(* opens and closes the channel meanwhile.                                 *)
(*                                                                         *)
(* The background task and the main loop are the FIFO executors they are   *)
(* shown to be; their other jobs and tasks only delay these.  Deleting a   *)
(* connected UDP client never returns (UdpClient, DeleteNeverReturns): the *)
(* main thread is then "dead".  Where deleting an unjoined client ends the *)
(* program it is not followed any further.                                 *)
(***************************************************************************)
EXTENDS Naturals, Sequences

CONSTANTS MaxFrames,  \* bound: how many frames are captured
          MaxSwitches \* bound: how often the main thread changes the state

ASSUME BoundsAssumption == MaxFrames \in Nat /\ MaxSwitches \in Nat

\* Frames are named by the order in which they are captured.
Frame == 1..MaxFrames
None == 0

VARIABLES
  loop,       \* the audio loop: "idle", "read" (the processor was running)
              \* or "feed" (with a frame in its hand)
  reading,    \* that frame, or None
  frames,     \* how many frames have been read (names the next one)
  is_running, \* is_running_
  qeue,       \* qeue_, the processor's queue
  outgoing,   \* the frame the processor's thread is about to hand over, or
              \* None: the thread is waiting
  jobs,       \* encode jobs not begun
  encoding,   \* the frame of the job being run, or None
  main_tasks, \* SendAudio tasks not begun
  main,       \* the main thread: "run" (between two tasks), "send" (in
              \* SendAudio), "wait" and "switch" (in SetDeviceState) or "dead"
  listening,  \* the state being set is kDeviceStateListening
  switches,   \* how often the state has been set
  udp,        \* udp_: "none" (null), "live" or "inert" (not connected)
  busy,       \* busy_sending_audio_
  sending,    \* the packet SendAudio has got, or None
  sent,       \* the frame sent last, or None
  late        \* frames handed to the background task since the processor was
              \* stopped

loop_vars == <<loop, reading, frames>>
processor == <<is_running, qeue, outgoing, late>>
worker_vars == <<jobs, encoding>>
main_vars == <<main, listening, switches, udp>>
send_vars == <<busy, sending, sent>>
vars == <<loop_vars, processor, worker_vars, main_tasks, main_vars, send_vars>>

TypeOK ==
  /\ loop \in {"idle", "read", "feed"}
  /\ reading \in Frame \cup {None}
  /\ frames \in 0..MaxFrames
  /\ is_running \in BOOLEAN
  /\ qeue \in Seq(Frame)
  /\ outgoing \in Frame \cup {None}
  /\ jobs \in Seq(Frame)
  /\ encoding \in Frame \cup {None}
  /\ main_tasks \in Seq(Frame)
  /\ main \in {"run", "send", "wait", "switch", "dead"}
  /\ listening \in BOOLEAN
  /\ switches \in 0..MaxSwitches
  /\ udp \in {"none", "live", "inert"}
  /\ busy \in BOOLEAN
  /\ sending \in Frame \cup {None}
  /\ sent \in Frame \cup {None}
  /\ late \in Nat

\* Start() has reached the idle state with the processor stopped or, after an
\* error of the network, left running (ChatSession, ListensAfterTelling).
Init ==
  /\ loop = "idle"
  /\ reading = None
  /\ frames = 0
  /\ is_running \in BOOLEAN
  /\ qeue = <<>>
  /\ outgoing = None
  /\ jobs = <<>>
  /\ encoding = None
  /\ main_tasks = <<>>
  /\ main = "run"
  /\ listening = FALSE
  /\ switches = 0
  /\ udp = "none"
  /\ busy = FALSE
  /\ sending = None
  /\ sent = None
  /\ late = 0

\* WaitForCompletion may return.
Complete == jobs = <<>> /\ encoding = None
-----------------------------------------------------------------------------
(***************************************************************************)
(* The audio loop, OnAudioInput.                                           *)
(***************************************************************************)
TestRunning ==
  /\ loop = "idle"
  /\ is_running
  /\ loop' = "read"
  /\ UNCHANGED <<reading, frames, processor, worker_vars, main_tasks,
                 main_vars, send_vars>>

\* GetFeedSize finds a whole frame, which ReadAudio reads, or too little.
ReadAudio ==
  /\ loop = "read"
  /\ \/ /\ frames < MaxFrames
        /\ frames' = frames + 1
        /\ reading' = frames'
        /\ loop' = "feed"
     \/ /\ loop' = "idle"
        /\ UNCHANGED <<reading, frames>>
  /\ UNCHANGED <<processor, worker_vars, main_tasks, main_vars, send_vars>>

\* A slip: the frame goes to the head of the queue.
FeedFront ==
  /\ loop = "feed"
  /\ qeue' = <<reading>> \o qeue
  /\ reading' = None
  /\ loop' = "idle"
  /\ UNCHANGED <<frames, is_running, outgoing, late, worker_vars, main_tasks,
                 main_vars, send_vars>>

Feed ==
  /\ loop = "feed"
  /\ qeue' = Append(qeue, reading)
  /\ reading' = None
  /\ loop' = "idle"
  /\ UNCHANGED <<frames, is_running, outgoing, late, worker_vars, main_tasks,
                 main_vars, send_vars>>
-----------------------------------------------------------------------------
(***************************************************************************)
(* The processor's thread.                                                 *)
(***************************************************************************)
\* A slip: is_running_ is not looked at when a frame is taken.
TakeAlways ==
  /\ outgoing = None
  /\ qeue # <<>>
  /\ qeue' = Tail(qeue)
  /\ outgoing' = Head(qeue)
  /\ UNCHANGED <<loop_vars, is_running, late, worker_vars, main_tasks,
                 main_vars, send_vars>>

\* A slip: the thread waits for the processor to run before it takes a frame.
TakeWhenRunning ==
  /\ outgoing = None
  /\ qeue # <<>>
  /\ is_running
  /\ qeue' = Tail(qeue)
  /\ outgoing' = Head(qeue)
  /\ UNCHANGED <<loop_vars, is_running, late, worker_vars, main_tasks,
                 main_vars, send_vars>>

\* Take a frame, and throw it away unless the processor is running.
TakeFrame ==
  /\ outgoing = None
  /\ qeue # <<>>
  /\ qeue' = Tail(qeue)
  /\ outgoing' = IF is_running THEN Head(qeue) ELSE None
  /\ UNCHANGED <<loop_vars, is_running, late, worker_vars, main_tasks,
                 main_vars, send_vars>>

\* output_callback_: schedule an encode job.
Output ==
  /\ outgoing # None
  /\ jobs' = Append(jobs, outgoing)
  /\ outgoing' = None
  /\ late' = IF is_running THEN late ELSE late + 1
  /\ UNCHANGED <<loop_vars, is_running, qeue, encoding, main_tasks, main_vars,
                 send_vars>>
-----------------------------------------------------------------------------
(***************************************************************************)
(* The encode job, on the background task.                                 *)
(***************************************************************************)
\* The job gives its frame up when it finds the channel busy.
BeginEncode ==
  /\ encoding = None
  /\ jobs # <<>>
  /\ jobs' = Tail(jobs)
  /\ encoding' = IF busy THEN None ELSE Head(jobs)
  /\ UNCHANGED <<loop_vars, processor, main_tasks, main_vars, send_vars>>

\* The packet is given to the main thread, or dropped: it could not be
\* encoded, or too many timestamps are waiting.
FinishEncode ==
  /\ encoding # None
  /\ main_tasks' \in {main_tasks, Append(main_tasks, encoding)}
  /\ encoding' = None
  /\ UNCHANGED <<loop_vars, processor, jobs, main_vars, send_vars>>
-----------------------------------------------------------------------------
(***************************************************************************)
(* The main thread.                                                        *)
(***************************************************************************)
\* SendAudio: without a channel, or when it cannot be encrypted, the packet is
\* dropped.
BeginSend ==
  /\ main = "run"
  /\ main_tasks # <<>>
  /\ main_tasks' = Tail(main_tasks)
  /\ \/ UNCHANGED <<main, busy, sending>>
     \/ /\ udp # "none"
        /\ main' = "send"
        /\ busy' = TRUE
        /\ sending' = Head(main_tasks)
  /\ UNCHANGED <<loop_vars, processor, worker_vars, listening, switches, udp,
                 sent>>

\* A slip: busy_sending_audio_ is reset only when the packet went out.
FinishSendBusy ==
  /\ main = "send"
  /\ main' = "run"
  /\ \/ udp = "live" /\ sent' = sending /\ busy' = FALSE
     \/ UNCHANGED <<sent, busy>>
  /\ sending' = None
  /\ UNCHANGED <<loop_vars, processor, worker_vars, main_tasks, listening,
                 switches, udp>>

\* UdpClient::Send gives the packet to the socket, if it is connected.
FinishSend ==
  /\ main = "send"
  /\ main' = "run"
  /\ busy' = FALSE
  /\ \/ udp = "live" /\ sent' = sending
     \/ UNCHANGED sent
  /\ sending' = None
  /\ UNCHANGED <<loop_vars, processor, worker_vars, main_tasks, listening,
                 switches, udp>>

\* SetDeviceState, of the listening state or of another one.
SetDeviceState ==
  /\ main = "run"
  /\ switches < MaxSwitches
  /\ switches' = switches + 1
  /\ listening' \in BOOLEAN
  /\ main' = "wait"
  /\ UNCHANGED <<loop_vars, processor, worker_vars, main_tasks, udp, send_vars>>

WaitForCompletion ==
  /\ main = "wait"
  /\ Complete
  /\ main' = "switch"
  /\ UNCHANGED <<loop_vars, processor, worker_vars, main_tasks, listening,
                 switches, udp, send_vars>>

\* Start or Stop of the processor, whose queue neither of them touches.  Some
\* states do neither.
SwitchState ==
  /\ main = "switch"
  /\ main' = "run"
  /\ is_running' \in IF listening THEN {TRUE} ELSE {FALSE, is_running}
  /\ late' = IF is_running' = is_running THEN late ELSE 0
  /\ UNCHANGED <<loop_vars, qeue, outgoing, worker_vars, main_tasks, listening,
                 switches, udp, send_vars>>

\* OpenAudioChannel, from the server's answer on.
OpenChannel ==
  /\ main = "run"
  /\ switches < MaxSwitches
  /\ switches' = switches + 1
  /\ busy' = FALSE
  /\ IF udp = "live"
       THEN main' = "dead" /\ UNCHANGED udp
       ELSE udp' \in {"live", "inert"} /\ UNCHANGED main
  /\ UNCHANGED <<loop_vars, processor, worker_vars, main_tasks, listening,
                 sending, sent>>

\* CloseAudioChannel.
CloseChannel ==
  /\ main = "run"
  /\ switches < MaxSwitches
  /\ switches' = switches + 1
  /\ IF udp = "live"
       THEN main' = "dead" /\ UNCHANGED udp
       ELSE udp' = "none" /\ UNCHANGED main
  /\ UNCHANGED <<loop_vars, processor, worker_vars, main_tasks, listening,
                 send_vars>>
-----------------------------------------------------------------------------
AudioLoop == TestRunning \/ ReadAudio \/ Feed

Processor == TakeFrame \/ Output

Worker == BeginEncode \/ FinishEncode

Main ==
  \/ BeginSend \/ FinishSend
  \/ SetDeviceState \/ WaitForCompletion \/ SwitchState
  \/ OpenChannel \/ CloseChannel

Next == AudioLoop \/ Processor \/ Worker \/ Main

\* The threads keep running; nobody is obliged to speak, or to change the
\* state.
Fairness ==
  /\ WF_vars(Feed)
  /\ WF_vars(Processor)
  /\ WF_vars(Worker)
  /\ WF_vars(BeginSend \/ FinishSend \/ WaitForCompletion \/ SwitchState)

Spec == Init /\ [][Next]_vars /\ Fairness
-----------------------------------------------------------------------------
(***************************************************************************)
(* Properties.                                                             *)
(***************************************************************************)
One(f) == IF f = None THEN <<>> ELSE <<f>>

\* Everything between the microphone and the socket, oldest first.
OnTheWay ==
  One(sending) \o main_tasks \o One(encoding) \o jobs \o One(outgoing) \o qeue
    \o One(reading)

\* Frames reach the socket in the order they were captured, none twice, over
\* two locked queues, two executors and four threads.
Path == INSTANCE LossyFifo
          WITH Item <- Frame, pending <- OnTheWay, out <- sent

PathSpec == Path!Spec

\* Stop does not empty the processor's queue, but no more than one frame goes
\* on to the background task after it: the one its thread had already taken.
StopQuiesces == ~is_running => late <= 1

\* busy_sending_audio_, which makes encode jobs drop their frames, is never
\* left set: between two tasks of the main thread it is clear.
NeverLeftBusy == main # "send" => ~busy

\* Nothing gets stuck in the processor or in the background task, whatever the
\* main thread does, even when it has stopped for good.
FramesMoveOn == qeue # <<>> \/ jobs # <<>> ~> qeue = <<>> /\ Complete

\* The parts of the inductive invariant that are no property of their own:
\* who holds a frame when.
HandsAndStates ==
  /\ reading # None <=> loop = "feed"
  /\ sending # None <=> main = "send"
  /\ main = "send" => udp # "none"
  /\ ~is_running /\ outgoing # None => late = 0
  /\ late <= 1
  /\ is_running => late = 0

Handling == TypeOK /\ HandsAndStates /\ NeverLeftBusy

\* The frames on the way are named in ascending order, above lo and up to hi.
Ascending(s, lo, hi) ==
  /\ \A i, j \in DOMAIN s : i < j => s[i] < s[j]
  /\ \A i \in DOMAIN s : lo < s[i] /\ s[i] <= hi

\* Behind the frame sent last there are only later ones, each once.
InCaptureOrder == Ascending(OnTheWay, sent, frames) /\ sent <= frames

\* The inductive invariant.
IInv == Handling /\ InCaptureOrder

\* Read with IInv, PathSpec says this of the frames that are sent: none is sent
\* twice, and none after one that was captured later.
SentInCaptureOrder == [][sent' # sent => sent' > sent]_vars
=============================================================================
