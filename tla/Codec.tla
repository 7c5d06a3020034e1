------------------------------- MODULE Codec -------------------------------
(***************************************************************************)
(* SdlAudioCodec and opus_decoder_, which five threads use: the main one   *)
(* sets them up, resets and replaces them, the audio loop reads the        *)
(* microphone and turns the output off, decode jobs decode and write, the  *)
(* MQTT thread sets the server's format and raises alerts, and the user    *)
(* interface's thread shows the flags and the samples (UiThread).          *)
(*                                                                         *)
(* EnableOutput is called under mutex_ only, SetOutputFormat without it.   *)
(* The queue of packets is in Playback: here a job may be scheduled        *)
(* whenever the loop finds a packet.  As in ChatSession, replacing or      *)
(* closing a connected channel stops the main thread for good ("dead").    *)
(***************************************************************************)
EXTENDS UiThread, FiniteSets

CONSTANTS CodecRate,    \* the codec's two sample rates (16000)
          Formats,      \* what a hello may ask for: sample rate and duration
          CodecFormat,  \* the decoder's first format: CodecRate, 60 ms
          ServerFormat, \* server_sample_rate_ and the duration at first
          Gone,         \* opus_decoder_ while there is none
          FrameSize,    \* the samples of a frame (960)
          SizeLimit,    \* one more than the largest size_t (2^64)
          MaxUnanswered \* bound: hellos the server has not answered

ASSUME FormatAssumption ==
  /\ \A f \in Formats : DOMAIN f = {"rate", "duration"}
  /\ {CodecFormat, ServerFormat} \subseteq Formats
  /\ CodecFormat.rate = CodecRate
  /\ Gone \notin Formats
ASSUME FrameAssumption ==
  /\ FrameSize \in Nat \ {0} /\ SizeLimit \in Nat
  /\ 2 * FrameSize + 2 < SizeLimit
ASSUME BoundAssumption == MaxUnanswered \in Nat

Stream == {"in", "out"}
Thread == {"main", "loop", "mqtt"}

VARIABLES
  streams,        \* the streams that could be opened
  running,        \* those whose device runs
  source,         \* the sample rate at the input side of each stream
  input_enabled,  \* input_enabled_
  output_enabled, \* output_enabled_
  decoder,        \* opus_decoder_: its format, or Gone
  asked,          \* the format SetDecodeSampleRate was called with
  main,           \* where the main thread is; "run" between two tasks
  device_state,   \* device_state_
  channel,        \* udp_: "none", "live" or "inert" (not connected)
  holder,         \* who holds mutex_ and is in EnableOutput, or "none"
  enable,         \* the argument of that call
  at,             \* where it is: "device", "flag" or "light"
  loop,           \* the audio loop: "input", "output" or "calling"
  available,      \* samples the microphone's stream has
  phantom,        \* a frame was fed that was not all read from the microphone
  jobs,           \* decode jobs not begun
  worker,         \* the background task: "idle", "decode" or "write"
  mqtt,           \* the MQTT thread: "idle", "hello" or "alert"
  server,         \* server_sample_rate_ and server_frame_duration_
  responded,      \* hello_responsed_
  unanswered,     \* hellos the server may still answer
  gave_up,        \* a wait for the server's hello has timed out
  crossed         \* EnableOutput and SetOutputFormat have overlapped

devices == <<streams, running, source>>
flags == <<input_enabled, output_enabled>>
decoding == <<decoder, asked>>
app == <<main, device_state, channel>>
call == <<holder, enable, at>>
input == <<loop, available, phantom>>
work == <<jobs, worker>>
hello == <<mqtt, server, responded, unanswered, gave_up>>
vars == <<ui_thread, devices, flags, decoding, app, call, input, work, hello,
          crossed>>

Formatting == {"pause", "format", "resume"}
Opening == {"hello", "opened", "drop", "make", "test"} \cup Formatting

TypeOK ==
  /\ UiTypeOK
  /\ streams \in SUBSET Stream
  /\ running \in SUBSET streams
  /\ DOMAIN source = Stream
  /\ input_enabled \in BOOLEAN
  /\ output_enabled \in BOOLEAN
  /\ decoder \in Formats \cup {Gone}
  /\ asked \in Formats
  /\ main \in {"boot", "start", "run", "wait", "reset", "resetting", "open",
               "listen", "dead"} \cup Opening
  /\ device_state \in {"unknown", "starting", "idle", "connecting", "listening",
                       "speaking"}
  /\ channel \in {"none", "live", "inert"}
  /\ holder \in Thread \cup {"none"}
  /\ enable \in BOOLEAN
  /\ at \in {"device", "flag", "light"}
  /\ loop \in {"input", "output", "calling"}
  /\ available \in 0..(FrameSize + 1)
  /\ phantom \in BOOLEAN
  /\ jobs \in 0..1
  /\ worker \in {"idle", "decode", "write"}
  /\ mqtt \in {"idle", "hello", "alert"}
  /\ server \in Formats
  /\ responded \in BOOLEAN
  /\ unanswered \in 0..MaxUnanswered
  /\ gave_up \in BOOLEAN
  /\ crossed \in BOOLEAN

Init ==
  /\ UiInit
  /\ streams = {} /\ running = {} /\ source = [s \in Stream |-> CodecRate]
  /\ input_enabled = FALSE /\ output_enabled = FALSE
  /\ decoder = Gone /\ asked = ServerFormat
  /\ main = "boot" /\ device_state = "unknown" /\ channel = "none"
  /\ holder = "none" /\ enable = FALSE /\ at = "device"
  /\ loop = "input" /\ available = 0 /\ phantom = FALSE
  /\ jobs = 0 /\ worker = "idle"
  /\ mqtt = "idle" /\ server = ServerFormat /\ responded = FALSE
  /\ unanswered = 0 /\ gave_up = FALSE
  /\ crossed = FALSE

\* WaitForCompletion may return.
Complete == jobs = 0 /\ worker = "idle"
-----------------------------------------------------------------------------
(***************************************************************************)
(* Starting: the constructor, which gives up at the first device that does *)
(* not open, the first decoder, and AudioCodec::Start, when nobody else is *)
(* there yet.                                                              *)
(***************************************************************************)
StartUi == Start /\ UNCHANGED <<shown, sample_array_index, devices, flags, decoding,
                                app, call, input, work, hello, crossed>>

OpenDevices == streams' \in {{}, {"out"}, Stream}

\* EnableInput(true), and EnableOutput(true) as a whole.
EnableBoth ==
  /\ running' = streams'
  /\ input_enabled' = TRUE /\ output_enabled' = TRUE
  /\ ui_input_enabled' = TRUE /\ ui_output_enabled' = TRUE

StartCodec ==
  /\ main = "boot"
  /\ starter = "started"
  /\ OpenDevices
  /\ EnableBoth
  /\ decoder' = CodecFormat
  /\ main' = "start"
  /\ device_state' = "starting"
  /\ UNCHANGED <<start_vars, sample_array_index, source, asked, channel, call,
                 input, work, hello, crossed>>

\* The rest of Application::Start, whose last move resets the decoder when the
\* protocol has started.
FinishStart ==
  /\ main = "start"
  /\ device_state' = "idle"
  /\ main' \in {"run", "reset"}
  /\ UNCHANGED <<ui_thread, devices, flags, decoding, channel, call, input, work,
                 hello, crossed>>
-----------------------------------------------------------------------------
(***************************************************************************)
(* EnableOutput, under mutex_: ResetDecoder on the main and on the MQTT    *)
(* thread turns the output on, the audio loop turns it off.                *)
(***************************************************************************)
Enter(thread, on) ==
  /\ holder = "none"
  /\ holder' = thread
  /\ enable' = on
  /\ at' = "device"
  /\ crossed' = (crossed \/ main \in Formatting)

\* Back in the caller, and the lock is free.
Return ==
  /\ holder' = "none" /\ enable' = FALSE /\ at' = "device"
  /\ main' = IF holder = "main" THEN "run" ELSE main
  /\ loop' = IF holder = "loop" THEN "input" ELSE loop
  /\ mqtt' = IF holder = "mqtt" THEN "idle" ELSE mqtt

\* Nothing to do, or resume or pause the device.
SwitchDevice ==
  /\ holder # "none"
  /\ at = "device"
  /\ IF enable = output_enabled THEN Return /\ UNCHANGED running
     ELSE /\ running' = IF enable THEN running \cup ({"out"} \cap streams)
                                  ELSE running \ {"out"}
          /\ at' = "flag"
          /\ UNCHANGED <<holder, enable, main, loop, mqtt>>
  /\ UNCHANGED <<ui_thread, streams, source, flags, decoding, device_state,
                 channel, available, phantom, work, server, responded, unanswered,
                 gave_up, crossed>>

SetFlag ==
  /\ holder # "none"
  /\ at = "flag"
  /\ output_enabled' = enable
  /\ at' = "light"
  /\ UNCHANGED <<ui_thread, devices, input_enabled, decoding, app, holder, enable,
                 input, work, hello, crossed>>

SetLight ==
  /\ holder # "none"
  /\ at = "light"
  /\ ui_output_enabled' = enable
  /\ Return
  /\ UNCHANGED <<start_vars, ui_input_enabled, sample_array_index, devices, flags,
                 decoding, device_state, channel, available, phantom, work, server,
                 responded, unanswered, gave_up, crossed>>

\* ResetDecoder of the main thread: ResetState of the decoder does nothing.
ResetDecoder ==
  /\ main = "reset"
  /\ Enter("main", TRUE)
  /\ main' = "resetting"
  /\ UNCHANGED <<ui_thread, devices, flags, decoding, device_state, channel, input,
                 work, hello>>

\* An alert of the server.
Alert ==
  /\ main \notin {"boot", "start"}
  /\ mqtt = "idle"
  /\ Enter("mqtt", TRUE)
  /\ mqtt' = "alert"
  /\ UNCHANGED <<ui_thread, devices, flags, decoding, app, input, work, server,
                 responded, unanswered, gave_up>>

EnableOutput == SwitchDevice \/ SetFlag \/ SetLight
-----------------------------------------------------------------------------
(***************************************************************************)
(* The main thread's tasks, as far as the codec and the decoder are about. *)
(***************************************************************************)
\* SetDeviceState as far as the wait for the background task...
SetDeviceState(s) ==
  /\ device_state # s
  /\ device_state' = s
  /\ main' = "wait"

\* ... and after it.  The idle state may be an error's, which raises an alert.
SwitchState ==
  /\ main = "wait"
  /\ Complete
  /\ main' \in CASE device_state = "speaking"   -> {"reset"}
                 [] device_state = "connecting" -> {"open"}
                 [] device_state = "idle"       -> {"run", "reset"}
                 [] OTHER                       -> {"run"}
  /\ UNCHANGED <<ui_thread, devices, flags, decoding, device_state, channel, call,
                 input, work, hello, crossed>>

\* A key, a tts message, the end of a channel, an error.
Task ==
  /\ main = "run"
  /\ \/ SetDeviceState("connecting")
     \/ device_state \in {"idle", "listening"} /\ SetDeviceState("speaking")
     \/ device_state = "speaking" /\ SetDeviceState("listening")
     \/ SetDeviceState("idle")
     \/ device_state = "idle" /\ main' = "reset" /\ UNCHANGED device_state
  /\ UNCHANGED <<ui_thread, devices, flags, decoding, channel, call, input, work,
                 hello, crossed>>

CloseChannel ==
  /\ main = "run"
  /\ IF channel = "live" THEN main' = "dead" /\ UNCHANGED channel
                         ELSE channel' = "none" /\ UNCHANGED main
  /\ UNCHANGED <<ui_thread, devices, flags, decoding, device_state, call, input,
                 work, hello, crossed>>

\* OpenAudioChannel: clear the flag and publish the hello, or fail.
PublishHello ==
  /\ main = "open"
  /\ \/ SetDeviceState("idle") /\ UNCHANGED <<responded, unanswered>>
     \/ /\ unanswered < MaxUnanswered
        /\ unanswered' = unanswered + 1
        /\ responded' = FALSE
        /\ main' = "hello"
        /\ UNCHANGED device_state
  /\ UNCHANGED <<ui_thread, devices, flags, decoding, channel, call, input, work,
                 mqtt, server, gave_up, crossed>>

HelloTimeout ==
  /\ main = "hello"
  /\ ~responded
  /\ gave_up' = TRUE
  /\ SetDeviceState("idle")
  /\ UNCHANGED <<ui_thread, devices, flags, decoding, channel, call, input, work,
                 mqtt, server, responded, unanswered, crossed>>

\* Replace the UDP client: packets may come from now on.
OpenUdp ==
  /\ main = "hello"
  /\ responded
  /\ IF channel = "live" THEN main' = "dead" /\ UNCHANGED channel
                         ELSE main' = "opened" /\ channel' \in {"live", "inert"}
  /\ UNCHANGED <<ui_thread, devices, flags, decoding, device_state, call, input,
                 work, hello, crossed>>

\* A slip: the server's format is compared with the codec's, not the decoder's.
OnAudioChannelOpenedCodec ==
  /\ main = "opened"
  /\ asked' = server
  /\ main' = IF server = CodecFormat THEN "listen" ELSE "drop"
  /\ UNCHANGED <<ui_thread, devices, flags, decoder, device_state, channel, call,
                 input, work, hello, crossed>>

\* The callback for an opened channel, and the test of SetDecodeSampleRate.
OnAudioChannelOpened ==
  /\ main = "opened"
  /\ asked' = server
  /\ main' = IF decoder = server THEN "listen" ELSE "drop"
  /\ UNCHANGED <<ui_thread, devices, flags, decoder, device_state, channel, call,
                 input, work, hello, crossed>>

DropDecoder ==
  /\ main = "drop"
  /\ decoder' = Gone
  /\ main' = "make"
  /\ UNCHANGED <<ui_thread, devices, flags, asked, device_state, channel, call,
                 input, work, hello, crossed>>

MakeDecoder ==
  /\ main = "make"
  /\ decoder' = asked
  /\ main' = IF asked.rate # CodecRate THEN "test" ELSE "listen"
  /\ UNCHANGED <<ui_thread, devices, flags, asked, device_state, channel, call,
                 input, work, hello, crossed>>

\* SetOutputFormat looks at output_enabled_, and pauses the device...
TestOutput ==
  /\ main = "test"
  /\ main' = IF output_enabled THEN "pause" ELSE "format"
  /\ crossed' = (crossed \/ holder # "none")
  /\ UNCHANGED <<ui_thread, devices, flags, decoding, device_state, channel, call,
                 input, work, hello>>

PauseOutput ==
  /\ main = "pause"
  /\ running' = running \ {"out"}
  /\ main' = "format"
  /\ UNCHANGED <<ui_thread, streams, source, flags, decoding, device_state, channel,
                 call, input, work, hello, crossed>>

\* A slip: the device is not resumed.
SetFormatPaused ==
  /\ main = "format"
  /\ source' = IF "in" \in streams THEN [source EXCEPT !["in"] = asked.rate] ELSE source
  /\ main' = "listen"
  /\ UNCHANGED <<ui_thread, streams, running, flags, decoding, device_state, channel,
                 call, input, work, hello, crossed>>

\* ... sets the format, but of the microphone's stream, and looks again...
SetFormat ==
  /\ main = "format"
  /\ source' = IF "in" \in streams THEN [source EXCEPT !["in"] = asked.rate] ELSE source
  /\ main' = IF output_enabled THEN "resume" ELSE "listen"
  /\ UNCHANGED <<ui_thread, streams, running, flags, decoding, device_state, channel,
                 call, input, work, hello, crossed>>

\* ... before it resumes the device.
ResumeOutput ==
  /\ main = "resume"
  /\ running' = running \cup ({"out"} \cap streams)
  /\ main' = "listen"
  /\ UNCHANGED <<ui_thread, streams, source, flags, decoding, device_state, channel,
                 call, input, work, hello, crossed>>

Listen ==
  /\ main = "listen"
  /\ SetDeviceState("listening")
  /\ UNCHANGED <<ui_thread, devices, flags, decoding, channel, call, input, work,
                 hello, crossed>>

Main ==
  \/ StartCodec \/ FinishStart \/ ResetDecoder \/ SwitchState \/ Task
  \/ CloseChannel \/ PublishHello \/ HelloTimeout \/ OpenUdp
  \/ OnAudioChannelOpened \/ DropDecoder \/ MakeDecoder \/ TestOutput
  \/ PauseOutput \/ SetFormat \/ ResumeOutput \/ Listen
-----------------------------------------------------------------------------
(***************************************************************************)
(* The audio loop.                                                         *)
(***************************************************************************)
\* SDL_GetAudioStreamAvailable: bytes of two to a sample, or -1 for no stream.
Bytes == IF "in" \in streams THEN 2 * available ELSE -1

\* A slip: bytes are compared with samples.
FeedSizeInSamples == IF Bytes % SizeLimit <= FrameSize THEN 0 ELSE FrameSize

\* GetFeedSize compares them as unsigned numbers.
FeedSize == IF Bytes % SizeLimit <= 2 * FrameSize THEN 0 ELSE FrameSize

\* What Read gets of a frame.
Got ==
  IF ~(input_enabled /\ "in" \in streams) THEN 0
  ELSE IF available < FrameSize THEN available ELSE FrameSize

\* OnAudioInput with nothing to feed, or with the processor stopped.
SkipInput ==
  /\ main # "boot"
  /\ loop = "input"
  /\ loop' = "output"
  /\ UNCHANGED <<ui_thread, devices, flags, decoding, app, call, available, phantom,
                 work, hello, crossed>>

\* ReadAudio, and Feed whatever it has brought.
ReadAudio ==
  /\ main # "boot"
  /\ loop = "input"
  /\ FeedSize > 0
  /\ loop' = "output"
  /\ available' = available - Got
  /\ phantom' = (phantom \/ Got < FeedSize)
  /\ UpdateSampleDisplay(Got)
  /\ UNCHANGED <<start_vars, shown, devices, flags, decoding, app, call, work, hello,
                 crossed>>

\* The output is off, the last job has not begun, or there is nothing to play.
SkipOutput ==
  /\ loop = "output"
  /\ loop' = "input"
  /\ UNCHANGED <<ui_thread, devices, flags, decoding, app, call, available, phantom,
                 work, hello, crossed>>

\* Nothing for a long time in the idle state.
DisableOutput ==
  /\ loop = "output"
  /\ output_enabled
  /\ jobs = 0
  /\ device_state = "idle"
  /\ Enter("loop", FALSE)
  /\ loop' = "calling"
  /\ UNCHANGED <<ui_thread, devices, flags, decoding, app, available, phantom, work,
                 hello>>

ScheduleDecode ==
  /\ loop = "output"
  /\ output_enabled
  /\ jobs = 0
  /\ holder = "none"
  /\ channel = "live"
  /\ device_state # "listening"
  /\ jobs' = 1
  /\ loop' = "input"
  /\ UNCHANGED <<ui_thread, devices, flags, decoding, app, call, available, phantom,
                 worker, hello, crossed>>

AudioLoop == SkipInput \/ ReadAudio \/ SkipOutput \/ DisableOutput \/ ScheduleDecode
-----------------------------------------------------------------------------
(***************************************************************************)
(* The decode job, the MQTT thread and the microphone.                     *)
(***************************************************************************)
\* A job enters Decode, unless speech has been aborted...
BeginDecode ==
  /\ worker = "idle"
  /\ jobs = 1
  /\ jobs' = 0
  /\ worker' \in {"idle", "decode"}
  /\ UNCHANGED <<ui_thread, devices, flags, decoding, app, call, input, hello,
                 crossed>>

\* ... and comes out of it, with samples or without.
EndDecode ==
  /\ worker = "decode"
  /\ worker' \in {"idle", "write"}
  /\ UNCHANGED <<ui_thread, devices, flags, decoding, app, call, input, jobs, hello,
                 crossed>>

\* OutputData: the samples are shown and played while the output is enabled.
Write ==
  /\ worker = "write"
  /\ worker' = "idle"
  /\ IF output_enabled /\ "out" \in streams
       THEN \E samples \in 1..FrameSize : UpdateSampleDisplay(samples)
       ELSE UNCHANGED sample_array_index
  /\ UNCHANGED <<start_vars, shown, devices, flags, decoding, app, call, input, jobs,
                 hello, crossed>>

Worker == BeginDecode \/ EndDecode \/ Write

\* ParseServerHello sets the format, if the hello names one...
ReceiveHello ==
  /\ mqtt = "idle"
  /\ unanswered > 0
  /\ unanswered' = unanswered - 1
  /\ server' \in Formats
  /\ mqtt' = "hello"
  /\ UNCHANGED <<ui_thread, devices, flags, decoding, app, call, input, work,
                 responded, gave_up, crossed>>

\* ... and later, unless it lacks an address, the flag.
HelloFlag ==
  /\ mqtt = "hello"
  /\ responded' \in {responded, TRUE}
  /\ mqtt' = "idle"
  /\ UNCHANGED <<ui_thread, devices, flags, decoding, app, call, input, work, server,
                 unanswered, gave_up, crossed>>

Mqtt == Alert \/ ReceiveHello \/ HelloFlag

\* The microphone records.
Record ==
  /\ "in" \in running
  /\ available <= FrameSize
  /\ available' = available + 1
  /\ UNCHANGED <<ui_thread, devices, flags, decoding, app, call, loop, phantom, work,
                 hello, crossed>>

Next == StartUi \/ EnableOutput \/ Main \/ AudioLoop \/ Worker \/ Mqtt \/ Record

\* The two threads of the start go on: SDL comes up or says that it does not.
Spec ==
  /\ Init /\ [][Next]_vars
  /\ WF_vars(StartUi /\ starter' # starter /\ starter # "asleep")
  /\ WF_vars(StartUi /\ ui' # ui)
-----------------------------------------------------------------------------
(***************************************************************************)
(* Properties.                                                             *)
(***************************************************************************)
\* Whenever nobody is in the middle of a call, the playback device runs if and
\* only if output_enabled_ says so, and the window shows it, as long as no
\* EnableOutput has overlapped with SetOutputFormat, which takes no lock.
SpeakerFollowsFlag ==
  holder = "none" =>
    /\ ui_output_enabled = output_enabled
    /\ main \notin Formatting /\ ~crossed =>
         ("out" \in running <=> output_enabled /\ "out" \in streams)

\* While a channel is there and the main thread is not opening another, packets
\* are decoded with the format the server's hello has named, through any number
\* of channels, unless an answer may be late.
DecoderMatchesServer ==
  channel # "none" /\ main \notin Opening \cup {"dead"} /\ ~gave_up
    => decoder = server

\* With a microphone, no frame is fed that was not recorded; -1 for an error is
\* a large number of bytes when there is none.
NoPhantomFrames == phantom => "in" \notin streams

\* The parts of the inductive invariant that are no property of their own.

\* Before the codec is set up nobody else is there.
BootIsQuiet ==
  /\ main = "boot" => /\ holder = "none" /\ channel = "none" /\ ~phantom
                      /\ running = {} /\ ~output_enabled /\ ~ui_output_enabled
  /\ main # "boot" => input_enabled

\* Who is in EnableOutput knows it.
CallOwner ==
  /\ holder = "main" <=> main = "resetting"
  /\ holder = "loop" <=> loop = "calling"
  /\ holder = "mqtt" <=> mqtt = "alert"
  /\ holder = "none" => at = "device"

\* The device, the flag and the window at each point of a call.
Switching ==
  /\ at = "light" => output_enabled = enable
  /\ at # "light" => ui_output_enabled = output_enabled
  /\ ~crossed =>
       /\ main \in Formatting => holder = "none"
       /\ main \notin Formatting =>
            ("out" \in running <=>
               (IF at = "device" THEN output_enabled ELSE enable) /\ "out" \in streams)
       /\ main \in {"pause", "resume"} => output_enabled
       /\ main \in {"format", "resume"} => "out" \notin running

\* While no answer can be late, a hello is answered during the wait for it, once.
Pending(b) == IF b THEN 1 ELSE 0

OneAnswer ==
  ~gave_up =>
    /\ main # "hello" => unanswered = 0 /\ mqtt # "hello"
    /\ main = "hello" =>
         unanswered + Pending(mqtt = "hello") + Pending(responded) <= 1

\* What SetDecodeSampleRate works with is still the server's format.
FormatIsServers ==
  ~gave_up /\ channel # "none" =>
    /\ main \in {"drop", "make"} => asked = server
    /\ main \notin {"hello", "opened", "drop", "make", "dead"} => decoder = server

\* The inductive invariant.
IInv ==
  /\ TypeOK
  /\ Handshake
  /\ DrawnInBounds
  /\ BootIsQuiet
  /\ CallOwner
  /\ Switching
  /\ OneAnswer
  /\ FormatIsServers
  /\ NoPhantomFrames

\* What the comment at application.cc:462 says of a change of state: the jobs in
\* the background have ended before the main thread goes on to change what they
\* use.  No job is inside a decoder that is destroyed.  It does not hold for the
\* first packets of a new channel, which may come as soon as OpenUdp has
\* connected it and before the callback has set the decoder.
DecoderInUseStays == [][worker = "decode" => decoder' = decoder]_vars
=============================================================================
