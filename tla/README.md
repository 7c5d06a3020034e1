# A formal model of xiaozhi-pc

xiaozhi-pc is a port of the xiaozhi voice assistant from ESP32 to a PC: the
user presses a key, the program opens a channel to a server (MQTT for control,
UDP for sound), sends what the microphone hears as Opus packets and plays what
the server says. It is a few thousand lines of C++ that run on seven threads,
with no tests; what can go wrong is mostly a matter of which thread comes first.

This directory holds TLA+ modules of its concurrent core, the TLC
configurations that model-check them on small instances, and theorems about
them checked by TLAPS. `PROJECT.json` lists components, runs, mutants, the code
each definition stands for, findings, hazards and theorems.

To check a run: `tlc -config MCPlayback.cfg MCPlayback`; to check the proofs of a
module: `tlapm Playback_proofs.tla`.

## 1. Inventory

### Threads

| thread | started by | runs | talks to the others through |
|---|---|---|---|
| main | `main` | `Application::Start`, then `MainEventLoop` for ever | `main_tasks_` under `mutex_`, an event group bit |
| user interface | `UIThread::start` | `ui_routine`: window, two keys, drawing | `inited` under `mtx_init`; two atomic flags and the rings of samples under `sample_mtx`; reads `device_state_`, posts tasks with `Schedule` |
| audio loop | `Application::Start` | `OnAudioInput`, `OnAudioOutput` in turn | `audio_decode_queue_` under `mutex_`, `busy_decoding_audio_`, `BackgroundTask`, the processor's queue |
| background task | `BackgroundTask` | encode and decode jobs | its own mutex, condition variable and counter |
| processor | `SdlAudioProcessor` | `task`: hands frames to `BackgroundTask` | `qeue_` and `is_running_` under its mutex |
| MQTT callbacks | libpaho | `connlost`, `messageArrived`, `onConnect`, ... | `hello_responsed_`, `session_id_`, the UDP parameters, `Schedule` |
| UDP receiver | `UdpClient::Connect` | `ReceiveLoop` | the client's mutex, the receive callback: `remote_sequence_`, `audio_decode_queue_` |

### Components

**BackgroundTask** (`background_task.cc`). State: `main_tasks_`,
`active_tasks_`, the worker's local batch. Operations: `Schedule`,
`WaitForCompletion`, the worker's loop. One condition variable serves the
worker and the waiters. Correct when jobs run once each, in order, one at a
time; when `WaitForCompletion` is a barrier and returns; when no wake-up is
lost.

**Main loop and event group** (`application.cc:309-333`,
`freertos/event_groups.cc`). State: `main_tasks_`, the event bits. Operations:
`Schedule` (two critical sections: queue, then bit), `MainEventLoop` (wait for
and clear the bit, take the queue, run it). Correct when no task is stranded
behind a cleared bit and tasks run in the order they were scheduled.

**UdpClient** (`impl/udp_client.cc`). State: `connected_`, the socket, the
receiver thread. Operations: `Connect`, `Send`, `Disconnect`, destruction, the
receive loop with its four sections. Correct when datagrams reach the callback
once and in order, the client is never freed under its receiver, and it can be
shut down.

**Chat state** (`application.cc`). State: `device_state_`, `listening_mode_`,
`aborted_`. Operations: `ToggleChatState`, `SetDeviceState`,
`SetListeningMode`, `AbortSpeaking`, the protocol's callbacks, the end of
`Start`. All run as tasks on the main thread, but the decision which task to
schedule is taken elsewhere, on a state that may have changed when the task
runs. Correct when the state moves along its edges only, the connecting state
ends, and the microphone follows the state.

**MqttProtocol / Protocol** (`protocols/`). State: `mqtt_`, `udp_`,
`session_id_`, the server's parameters, `hello_responsed_`, `error_occurred_`,
`busy_sending_audio_`, sequence numbers, AES state. Operations: `Start`,
`OpenAudioChannel` (publish a hello, wait ten seconds for the answer, connect
UDP), `CloseAudioChannel`, `SendText`, `SendAudio`, `ParseServerHello`, the receive filter.
Correct when an answer belongs to the question, the flag is published after
what it stands for, and a failure leaves the device idle.

**PahoMqtt** (`impl/paho_mqtt.cc`). State: `connected_`, the link. Operations:
`Connect`, `Publish`, the callbacks; nobody calls `Subscribe` or `Disconnect`, the server addresses
the client without. It reconnects once from `connlost`. Correct when a client that counts as connected can
publish, which a failed reconnect breaks for good.

**Playback path** (receive filter of `OpenAudioChannel`, `OnAudioOutput`, the
decode job, `ResetDecoder`, `SdlAudioCodec::EnableOutput`). State:
`audio_decode_queue_`, `busy_decoding_audio_`, `aborted_`,
`timestamp_queue_`, the codec's switch. Correct when packets are heard in order and at most once, an
abort is heard at once, the output is on while the device speaks, and the queue
moves on.

**Capture path** (`OnAudioInput`, `SdlAudioProcessor`, the encode job,
`SendAudio`). State: `qeue_`, `is_running_`, `busy_sending_audio_`. Correct when
frames reach the socket in order and at most once, stopping the processor
stops the flow, and nothing gets stuck.

**Codec and decoder** (`impl/sdl_audio_codec.cc`, `audio_codec.cc`, `opus_decoder_`
of `Application`). State: two SDL streams with their devices and formats,
`input_enabled_`, `output_enabled_`, the decoder object. Operations: `Start`,
`EnableOutput`, `SetOutputFormat`, `Read`, `Write`, `GetFeedSize`;
`ResetDecoder`, `SetDecodeSampleRate`, the decode job. Four threads call them, some with
`mutex_` and some without. Correct when the device follows its flag, packets are
decoded with the format the server has named, at the rate it has named, by a decoder that stays
while it is used, and what is sent was recorded.

**User interface's thread** (`impl/ui_thread.cc`). State: `inited`, `init_success`, the
flags shown as colours, two rings of samples with one index. Operations: `start`,
which waits for the window, `set_output_enabled`, `update_sample_display`, drawing, the keys.
Correct when `start` returns whichever thread is first, and drawing stays inside the rings.

**Settings, NVS, OTA, Board** (`settings.cc`, `nvs_flash.cc`, `ota.cc`, `impl/board.cc`). A map of
sections to key/value pairs, read once from `.xiaozhi_config` and rewritten as a
whole by `nvs_commit`; `CheckVersion` fetches the MQTT settings over HTTP and
stores them; `Board` makes up the identity the server knows the device by. Correct when what was
set is what is read after a restart, wherever the last run ended.

**The rest**: HTTP client (a blocking wrapper of libcurl), display, LED, system
information, entry, ESP-IDF shims.

### How they interact, and what is hard about it

- A key or a server message becomes a task of the main thread. Tasks decide
  nothing again: `ToggleChatState` looks at the state on the user interface's
  thread and the task trusts it.
- `SetDeviceState` waits for the background task, then changes what the jobs
  use. The audio loop goes on scheduling jobs meanwhile.
- A packet crosses the UDP receiver, the audio loop and the background task; a
  frame crosses the audio loop, the processor's thread, the background task and
  the main thread. Order is kept by a chain of queues with different locks,
  and a flag without one (`busy_decoding_audio_`).
- The hello handshake pairs a publish on the main thread with a callback on the
  MQTT thread through three variables and no identity.
- Error handling re-enters: a publish that fails inside `SetDeviceState` calls
  `SetDeviceState` again.
- `EnableOutput` is called under `mutex_` by three threads, `SetOutputFormat`, which
  switches the same device, without it; and the main thread replaces the decoder while the audio loop
  goes on scheduling jobs that use it.
- Deleting a UDP client joins a thread that needs the lock the deleter holds.

The list of hazards, each with its line and the properties that watch it, is in
`PROJECT.json`.

## 2. The modules

    FifoExecutor  <---- BackgroundTask        LossyFifo <---- UdpClient
                  <---- MainLoop                        <---- Playback
                                                        <---- Capture
    Settings    (what a start finds of the one before)
    UdpClient   (its delete is what ChatSession and Capture build on)
    ChatSession (its queue is the FIFO of MainLoop)
    UiThread  <==== Codec

`A <---- B`: B implements A under the refinement mapping at the end of B.
`A <==== B`: B extends A, whose actions are among its own. Each `X` but the two abstract modules and
`UiThread` has `MCX` and `.cfg` files for TLC, and `X_proofs` with the theorems. Some modules
contain definitions introduced by "A slip": they are plausible mistakes, not
part of the model, with which the runs' properties are tested for their teeth.

**FifoExecutor** (abstract): tasks are accepted, begun in order, one at a time,
and finished. **LossyFifo** (abstract): items go in at one end and come out at
the other in order, none twice; runs of neighbours may be lost. The three legs of the sound implement
it: from the socket to the receive callback (`UdpClient`), from there to the loudspeaker (`Playback`),
from the microphone to the socket (`Capture`).

**BackgroundTask**: one action per critical section. `Schedule` appends and
counts; `TakeBatch` moves the whole queue to the worker's batch; `BeginTask`,
`FinishTask` (the wrapper's locked decrement), `EndBatch`; `CallWait`/`CheckWait`
with sleeping threads as a state, since who is woken is what matters. Spurious
wake-ups are actions.

**MainLoop**: `Push` and `SetBits` are the two sections of `Schedule`; the loop's
are `WaitBits`, `ClearOnExit`, `TakeTasks`, `BeginTask`, `FinishTask`,
`EndBatch`. A task running on the main thread may itself call `Schedule`
(`MayCall`), as `CloseAudioChannel` does.

**UdpClient**: the owner's `Connect`, `Send`, `Disconnect` and `Destroy`, and the
receiver's `EnterRecv`, `Recv`, `CheckResult`, `Callback` and `Leave`, which are
its sections between locks and calls. `Arrive` is the kernel's socket.

**ChatSession**: the main thread as a program counter over the points where
another thread can see or change what it works on, from `StartMqttClient` to
the main loop; the user interface's two steps (look, then schedule); the MQTT
thread's (parse a hello: parameters, then flag; goodbye; tts); and an
environment that connects, drops the connection, loses hellos, answers late
and may close a session it did not open. Publishing fails when the link is
down although `connected_` may still be set, as in the code.
Each configuration of the settings (no endpoint, no topic, both) is a start.
Four history variables serve the properties: `told` and `stray` (has the server been told
that the device listens, and may the microphone be on without), `peer` (the session the
UDP client was connected for) and `gave_up` (a wait for a hello has timed out, so that an answer may be
late).

**Playback**: the receive filter, the audio loop's five points (`LoopTurn`,
`LookEmpty`/`DisableOutput`/`LookListening`/`Pop`, `SetBusy`, `ScheduleDecode`),
the job's three (`BeginDecode` clears the flag, the test of `aborted_`, the
output), and the main thread's `SetDeviceState` in three steps around
`WaitForCompletion`, with `ResetDecoder`. A packet is its sequence number.

**UiThread**: `UIThread::start` and the thread's answer, a flag or a step per
critical section, with spurious wake-ups; `UpdateSampleDisplay` moves the index of the
rings; `Drawn` is the set of indices that drawing reads, with the remainder of C++ for negative
numbers. Drawing changes nothing, so it is an operator and no action.

**Codec**: extends `UiThread` with the codec and the decoder. `StartCodec` opens none, one or both
devices. `EnableOutput` is three steps (device, flag, colour) inside `mutex_`, called by
`ResetDecoder` on the main thread, an alert on the MQTT thread and the audio loop; `SetOutputFormat`
is four without it. The main thread's tasks are those of `ChatSession` cut down to what the
decoder is about: change of state, wait for the jobs, hello, format, decoder. The hello sets the format in one
step and the flag in the next. A decode job enters the decoder, leaves it, writes. `crossed`
remembers that the two calls have overlapped, `gave_up` that a hello may be late.

**Capture**: the audio loop (`TestRunning`, `ReadAudio`, `Feed`), the processor's
thread (`TakeFrame` under the lock, `Output` after it), the encode job, the
`SendAudio` task, and the main thread's starting, stopping, opening and closing.

**Settings**: the three users of the settings in the order of the start (`Board`,
`CheckVersion` with `StoreMqtt` and `StoreWebsocket`, `StartMqttClient`), the load, and the commit
as the code does it: open and thereby empty the file, then a line at a time. `Exit` may come at any
point, since closing the window calls `exit(0)` on another thread. `lost` remembers that
the identity went with it, so that the properties can say that nothing else loses it. `answer` stays for the rest
of the start, to be compared with what was stored and with the client's `broker`.

### Correspondence

Variables have the names of the members they stand for, without the trailing
underscore; variables that have no counterpart (`loop`, `pc`, `heard`, `late`,
`sent`, ...) are where a thread is, what it holds in a local variable, or the history
a property needs, and are commented so where they are declared. The lines each
definition stands for are in `PROJECT.json` under "map".

Atomicity: a step is what one thread does between two points where another can
interfere, that is, a critical section, an access to an unlocked shared variable, or a
call into another component. Code that touches only what its own thread owns is
part of the neighbouring step.

## 3. Runs

Passing runs:

| run | instance | what it shows |
|---|---|---|
| `background_task` | 3 clients (main, audio loop, processor), 4 tasks | `NoLostWakeup`, `Barrier`, `WaitReturns`; implements `FifoExecutor` with its liveness |
| `main_loop` | 2 posting threads and the main thread, 4 tasks | `QuietSleep`; implements `FifoExecutor` with its liveness |
| `udp_client` | 3 datagrams, 1 send | `ConnectedMeansReading`, `DeleteNeverReturns`; implements `LossyFifo` |
| `chat_session` | all three configurations, 2 keys, 2 server messages besides hellos, 1 lost connection | `MicFollowsState`, `ListensAfterTelling`, `ChannelKeepsItsKeys`, `AnswerIsToThisHello`, `LegalTransitions`, `ConnectingEnds`, `CloseLeadsToIdle` |
| `playback` | queue of 2, sequence numbers 1-3, 4 packets | `PipelineBounded`, `AbortStopsPlayback`, `SpeakingHasOutput`, `NeverBackwards`, `QueueDrains`; implements `LossyFifo` |
| `capture` | 4 frames, 4 moves of the main thread | `StopQuiesces`, `FramesMoveOn`; implements `LossyFifo` |
| `settings` | 2 values of each setting, 2 exits (three starts) | `NothingUnsaved`, `IdentityKept` |
| `codec` | 2 formats, frames and rings of 3 samples, 1 unanswered hello, any number of channels | `SpeakerFollowsFlag`, `DecoderMatchesServer`, `NoPhantomFrames`, `StartReturns` |

Each also checks its inductive invariant `IInv`, of which the type invariant is
one conjunct. Every property of a passing run is broken by one of the slips,
under the same configuration.

Why the bounds are enough. `background_task`: three waiters and a worker on one
condition variable are the threads the program has; with four tasks a batch of
two, a task scheduled during a batch and a waiter that arrives in between occur
together. `main_loop`: the races are between one poster's two sections and
the loop's two, and every poster is like another; two and the loop itself give every overlap.
`udp_client`: a datagram before, in flight during and after `Disconnect`.
`chat_session`: two keys are what the stale look at `device_state_` needs, two
messages give a goodbye around a tts start, one dropped connection gives
every failure a publish can have; the safety part of the first version has also been run with three keys, and the theorems hold for any number.
Chat in real time is off, as it is in the code (`realtime_chat_enabled_` is never set); the theorems cover both.
`playback`: the queue of two fills, overflows and is emptied, three numbers can come
in every order and twice. The code's limit is ten; nothing but the comparison
depends on it. `capture`: overtaking takes two frames in
neighbouring places and a loss between them a third; four moves open the channel, start
the processor, stop it and start it again. `settings`: three starts let one lose what
the first stored and the next store another; two values tell the old answer from the new (`new_broker` needs two starts). `codec`: the codec's format and the
server's are the two that a hello can choose between; a ring as long as a frame comes round with
every frame and puts the index where the difference behind it is negative; size_t holds 16 values, enough
that a -1 is larger than any number of bytes; one hello without an answer
may be answered in any later attempt. No bound limits the number of
channels, jobs or calls: the state space is finite without one. Where a theorem states the same
property it holds for every value of these bounds.

Runs that end in a violation show a comment that the code does not keep, or (`new_broker`) a
statement whose purpose it does not reach:

| run | property | what TLC finds |
|---|---|---|
| `udp_join` | `DisconnectReturns` | `Disconnect` holds `mutex_` while it joins the receiver, which needs `mutex_` to leave: the join never returns (`udp_client.cc:59-71` and `:110`, `:126`) |
| `late_hello` | `HelloAnswersThisAttempt` | the late answer to a hello that timed out satisfies the wait of the next attempt (`mqtt_protocol.cc:196`) |
| `new_broker` | `NewBrokerIsStored` | in a later start `CheckVersion` sets an address that is not the one stored, as `ota.cc:138-139` means to; `nvs_set_str` leaves what is there alone (`nvs_flash.cc:138`), the commit writes the old address again and the client is started with it |
| `decoder_race` | `DecoderInUseStays` | a packet of the new channel, received after `udp_->Connect` (`mqtt_protocol.cc:254`), has been scheduled and is in the decoder when the callback for the opened channel replaces it (`SetDecodeSampleRate`, `application.cc:540`); the wait of `SetDeviceState` lies before the hello |

Passing properties that record a weaker truth than one would like, because the code
guarantees no more: `DeleteNeverReturns` (whoever deletes a client whose receiver has been started stops
in the join, or ends the program when the receiver has left by itself); `ListensAfterTelling`, which
excepts a microphone that was left on, as by `Start()` after a network error
(`application.cc:291`); `ChannelKeepsItsKeys`, `AnswerIsToThisHello` and `DecoderMatchesServer`, which hold until a wait
for a hello times out; `SpeakerFollowsFlag`, which holds until `EnableOutput` and
`SetOutputFormat` overlap; and `NoPhantomFrames`, which excepts a PC without a microphone.
TLC finds each of those with an exception violated without it. What lies in the exception is what the code does:
the hazards of `PROJECT.json` that describe it name none of these, and their notes say where the exception is.
`LegalTransitions` lists the edges that the code takes, those of a stale key press among them;
`CloseLeadsToIdle` does not say that a closed session does not speak first; `IdentityKept` concedes the
identity whose line an exit took.

Two faults that the modules contain have no run. A link whose one attempt to reconnect has failed stays down, with
`connected_` set: nothing in the repository promises more. And `SetOutputFormat` sets the format of the
microphone's stream where the playback stream's was meant (`sdl_audio_codec.cc:167`), so that speech at another
rate is played at the codec's: a single wrong name, which a property could only repeat.

### Fairness

Weak fairness of each thread that the code keeps running, and of nothing that
comes from outside: no key, datagram, connection or spurious wake-up is ever
obliged to come. The main thread's wait for the hello ends because the code
gives `wait_for` ten seconds (`mqtt_protocol.cc:196`). In `UdpClient` nothing obliges the owner to
delete the client; only a `Destroy` that can go on does, since a thread that is
joined and has ended does not stay joined. In `Codec` only the two threads of the start are fair,
as SDL comes up or says that it does not; nothing else there is about progress. `Capture`'s audio loop must hand over the
frame it holds but need not read another. `WaitReturns` holds because the
number of tasks is bounded: with a producer that never pauses `WaitForCompletion`
need not return, which is listed as a hazard. Where the main thread can stop for good
("dead": the join above), the liveness properties say so instead of assuming it away.

Deadlock is checked in `background_task`, `main_loop` and `playback` runs. In the others
the environment's bounded moves, or the end of the client's life, may leave nothing to do.

## 4. Proofs

All theorems hold for every value of the constants, under the assumptions the modules name:
the bounds are natural numbers, the queue's size is positive, `Configs` are
among the three, `realtime_chat_enabled` is a Boolean, the value for "no task", "no thread" or
"no decoder" is not one of them, the codec's format has the codec's rate, a frame's bytes and the -1
fit in size_t, and the rings of samples are longer than what is drawn behind the index (as
4 * 65536 is against 480 + 640).

Each `X_proofs` has the same shape: `Init => IInv`; `IInv` is kept by every action,
one lemma per thread or group of actions; `THEOREM Invariance == Spec => []IInv`; the properties follow.
What the inductive invariants add to the properties, and why:

- **BackgroundTask**: `BatchOwned`, since `Accounting` is kept by `EndBatch` only
  when the batch is empty outside the loop body. `Barrier` follows from
  `Accounting`: a returning waiter has seen the counter at zero.
- **MainLoop**: `AsleepMeansClear` and `LoopOwned`: `NoStrandedTask` alone does not
  say that the loop wakes for the bit.
- **UdpClient**: `Lifecycle` ties owner, flag, socket and receiver together, `Flow`
  orders what is delivered, in flight and in the socket.
- **ChatSession**: `StateByPC` (what the main thread knows of the state at each
  point), `AtRest` (the two properties, also in the middle of closing the channel),
  `HelloOrder` (what the MQTT thread knows while it parses), `ModeIsConfigured`,
  `MicAnnounced` (a running processor was announced, or is a stray), `OneAnswer` (while no answer
  can be late, the hello on its way is the one waited for, wherever it is: unanswered at the server,
  with the broker, being parsed, or announced by `hello_responsed_`; and at each of these places
  the session it names is that of the last hello sent). `MicFollowsState`
  and `ListensAfterTelling` need the first ones because error handling re-enters `SetDeviceState`;
  `ChannelKeepsItsKeys`, which since it speaks of `session_id_` too needs the main thread's and the MQTT
  thread's halves of the handshake together, and `AnswerIsToThisHello` need the last.
- **Playback**: `Handover` (a scheduled job holds the loop back), `LateOnce`,
  `OutputStays` (the loop decides with a state it read earlier, but under `mutex_`,
  which `ResetDecoder` takes), `InOrder` (each stage holds packets no newer than the stage
  before it), `CountedOnce` (a timestamp for each packet received at most).
- **Codec**: `CallOwner` and `Switching` (the device, the flag and the colour at each
  point of `EnableOutput` and `SetOutputFormat`), `OneAnswer` and `FormatIsServers` (what the main thread
  holds is still what the last hello said), `BootIsQuiet`; from `UiThread` `Handshake`, and
  `DrawnInBounds`, which rests on lemmas about the remainder of a negative number.
- **Capture**: `Handling`, that is, `HandsAndStates` (who holds a frame when) and `NeverLeftBusy`; and
  `InCaptureOrder` (the seven stages, joined, hold ascending frames, all later than the last one sent),
  which is kept because every step is one of `LossyFifo` and only a new frame is put in.
- **Settings**: `Kept`: the identity the server has seen is in memory, or on disk while
  nothing has been read, unless it was lost.

Besides the invariants: the action properties `Barrier`, `LegalTransitions`,
`NeverBackwards`, `SentInCaptureOrder` and `IdentityKept`; and five refinements, in
which initial states map to initial states and every step to a step or a stutter.

- `BackgroundTask` and `MainLoop` implement the safety part of `FifoExecutor`
  (`ImplementsFifoExecutor`).
- `UdpClient`, `Playback` and `Capture` implement `LossyFifo` (`ImplementsLossyFifo`). What is pending
  in the abstract queue is `OnTheWay`, the stages of the way joined, the oldest first: what a thread
  holds is a sequence of one or none, a queue stands for itself. A step that hands an item from one
  stage to the next moves a bracket in the joined sequence and so is a stutter; the last stage giving
  its item away is `Deliver`; one that drops an item is `Lose`, and so is emptying a queue.
  What they need of sequences is stated as lemmas in the module: `MovedAhead` and `JoinedAhead` (a hand-over
  leaves the whole as it was), `LosesOne` (an item taken out of the middle), `PrefixOfConcat` (a queue
  emptied at the end), `TakenApart` (the brackets of seven stages).
  The proofs need the invariant where the code hands over without looking: that a thread has nothing
  in its hand when it takes the next item.

  `LossyFifo` does not say which item is put in. That `Capture` sends in the order of capture
  (`CaptureOrder`) is proved from the refinement by three lemmas on ascending sequences: they stay
  ascending when the next frame is put behind them, when the first is taken, and when a run of neighbours is lost.

`AnswerIsToThisHello` is the part that the code does keep of the comment which `late_hello` refutes:
until a wait has timed out, the channel is opened with the answer to the hello just sent.

Nine proved properties are listed in no run of their own, as they are parts of an `IInv` that
a run checks or follow from one: `Accounting`, `NoStrandedTask`, `FreedMeansQuiet`, `DeliveredInOrder`,
`BusyMeansPending`, `SentInCaptureOrder`, `ConnectingIsTransient`, `AddressReady`,
`DrawnInBounds`.

Only model-checked: what is about liveness (`WaitReturns`, `StartReturns`, the liveness of
`ExecutorSpec`, `ConnectingEnds`, `CloseLeadsToIdle`, `QueueDrains`, `FramesMoveOn`), which
rests on fairness and ENABLED and so is out of the prover's reach. Every safety property of a passing
run is proved.

## 5. What is assumed and what is left out

- A recv that is blocked on a socket which another thread closes returns with an
  error. This is the favourable reading; without it the receiver would not even
  reach the lock it then waits for.
- The server answers a hello with a session and transport "udp", and its messages parse. A
  configuration with a topic and no endpoint (`mqtt_` null and used) is not considered in `ChatSession`;
  `Settings` shows that an exit during a commit can leave one.
- Settings are not empty and have no blanks at their ends and no line breaks, which `parseLine`
  would not read back; nobody calls `EraseKey` or `EraseAll`. A line is written as a whole, as
  `std::endl` flushes it.
- Booleans and integers shared without a lock (`busy_decoding_audio_`, `aborted_`,
  `device_state_`, `connected_`) are read and written as a whole.
- `ChatSession` treats the audio processor's `is_running_` as changed at once, and leaves the
  wait for the background task to `Playback` and `Capture`, which do not have the protocol's detail.
- `Playback` has one channel and one key; that no hello replaces them while the channel is in use is
  `ChannelKeepsItsKeys`, within its limits. What the receiver makes of a packet with a wrong key is not
  modelled.
- In `Codec` an SDL device that has been opened can be bound to its stream, paused and resumed.
  `ResetState` of the decoder has an empty body, so a reset during a job is none.
- Keys are pressed when `Application::Start` has set up the protocol; what a key does before that
  (no `protocol_` yet) is listed as a hazard.
- The other jobs and tasks of the two executors only delay those modelled.
- Not modelled: what libopus, libcurl, AES and JSON compute, how the window looks, SDL's resampling,
  the identity strings. `exit(0)` on closing the window is modelled where it matters after a
  restart (`Settings`); which static is destroyed under which thread is not. The HTTP client keeps no
  state between calls, `entry.cc` and the shims only start what is modelled; display and LED are
  stubs that log.

## 6. Plan

Done: the two executors, `UdpClient`, `ChatSession`, `Playback`, `Capture`, `Settings`, `UiThread`,
`Codec`, their invariants and the five refinements proved.

Left, in this order:

1. A composition of the chat state with the two audio paths, so that the microphone and the
   output are followed through `SetDeviceState`'s wait; and of the settings with the
   configurations `ChatSession` starts from.
2. Frames fed to the processor before it is stopped and taken after the next start, across `Capture`'s
   sessions: how many can be stale.
3. What `local_sequence_` promises the server across channels.
