----------------------------- MODULE ChatSession -----------------------------
(***************************************************************************)
(* The chat state of Application and the session of MqttProtocol: what the *)
(* main thread does for the tasks in its queue, what the user interface's  *)
(* thread and the MQTT callback thread put there, and what the server, the *)
(* broker's connection and the clock may do meanwhile.                     *)
(*                                                                         *)
(* A step of the main thread ends where another thread could see or change *)
(* what it works on: device_state_ is read by the user interface's thread, *)
(* session_id_, the server's parameters and hello_responsed_ are written   *)
(* by the MQTT thread.  The queue is the FIFO that MainLoop is shown to    *)
(* implement.  Deleting a connected UdpClient never returns (UdpClient,    *)
(* DeleteNeverReturns): the main thread is then "dead".                    *)
(***************************************************************************)
EXTENDS Naturals, Sequences

CONSTANTS
  Configs,               \* the configurations a behaviour may start with
  realtime_chat_enabled, \* realtime_chat_enabled_
  MaxKeys,               \* bound: keys pressed
  MaxServerMsgs,         \* bound: messages of the server, its hellos aside
  MaxDrops               \* bound: connections lost

\* What StartMqttClient finds in the settings: neither an endpoint nor a
\* publish_topic, an endpoint alone, or both.
ASSUME ConfigsAssumption == Configs \subseteq {"none", "no_topic", "full"}
ASSUME RealtimeAssumption == realtime_chat_enabled \in BOOLEAN
ASSUME BoundsAssumption == /\ MaxKeys \in Nat
                           /\ MaxServerMsgs \in Nat
                           /\ MaxDrops \in Nat

DeviceState == {"starting", "idle", "connecting", "listening", "speaking"}

\* The tasks that touch the chat state, named for what they do.
TaskKind == {"open", "abort", "close", "idle", "tts_start", "tts_stop"}

\* Sessions are named by the hello they answer; 0 is the empty string.
Session == Nat \ {0}
NoSession == 0

\* What the server sends.  A goodbye may name no session.
Message == [type : {"hello"}, session : Session]
             \cup [type : {"goodbye"}, session : Session \cup {NoSession}]
             \cup [type : {"tts_start", "tts_stop"}]

VARIABLES
  config,          \* the settings
  pc,              \* where the main thread is; "loop" between two tasks
  device_state,    \* device_state_
  listening_mode,  \* listening_mode_: "auto" or "realtime"
  aborted,         \* aborted_
  processor,       \* the audio processor's is_running_
  main_tasks,      \* tasks scheduled and not begun, oldest first
  ui,              \* the task the user interface's thread is about to schedule
  keys,            \* keys pressed
  link,            \* mqtt_: "none" (null), "down", "connecting" or "up"
  connected,       \* PahoMqtt::connected_
  drops,           \* connections lost
  session_id,      \* session_id_
  params,          \* the session udp_server_, the key and the nonce are from
  hello_responsed, \* hello_responsed_
  udp,             \* udp_: "none" (null), "live" or "inert" (not connected)
  mqtt_pc,         \* the MQTT thread: "idle" or in ParseServerHello
  parsing,         \* the session it is parsing the hello of
  inbox,           \* what the broker has for this client
  hellos,          \* hello messages published
  unanswered,      \* the hellos the server has not answered
  server_msgs,     \* other messages the server has sent
  told,            \* the start listening command has gone out since the audio
                   \* channel was opened
  stray,           \* the processor was running before that, or was started by
                   \* a command that failed
  peer,            \* the session udp_ was connected for
  gave_up          \* a wait for the server's hello has timed out

app == <<device_state, listening_mode, aborted, processor>>
ui_vars == <<ui, keys>>
conn == <<link, connected, drops>>
session == <<session_id, params, hello_responsed>>
mqtt_vars == <<mqtt_pc, parsing>>
server == <<hellos, unanswered, server_msgs>>
history == <<told, stray, peer, gave_up>>
vars == <<config, pc, app, main_tasks, ui_vars, conn, session, udp, mqtt_vars,
          inbox, server, history>>

MainPC == {"start_mqtt", "start_processor", "start_idle", "loop", "open_mqtt",
           "open_session", "open_flag", "open_hello", "hello_wait", "open_udp",
           "listen", "listen_cmd", "close_send", "dead"}

TypeOK ==
  /\ config \in {"none", "no_topic", "full"}
  /\ pc \in MainPC
  /\ device_state \in DeviceState
  /\ listening_mode \in {"auto", "realtime"}
  /\ aborted \in BOOLEAN
  /\ processor \in BOOLEAN
  /\ main_tasks \in Seq(TaskKind)
  /\ ui \in TaskKind \cup {"none"}
  /\ keys \in 0..MaxKeys
  /\ link \in {"none", "down", "connecting", "up"}
  /\ connected \in BOOLEAN
  /\ drops \in 0..MaxDrops
  /\ session_id \in Session \cup {NoSession}
  /\ params \in Session \cup {NoSession}
  /\ hello_responsed \in BOOLEAN
  /\ udp \in {"none", "live", "inert"}
  /\ mqtt_pc \in {"idle", "hello_params", "hello_flag"}
  /\ parsing \in Session \cup {NoSession}
  /\ inbox \in Seq(Message)
  /\ hellos \in Nat
  /\ unanswered \subseteq Session
  /\ server_msgs \in 0..MaxServerMsgs
  /\ told \in BOOLEAN
  /\ stray \in BOOLEAN
  /\ peer \in Session \cup {NoSession}
  /\ gave_up \in BOOLEAN

\* Application::Start has set the state and started the audio loop.
Init ==
  /\ config \in Configs
  /\ pc = "start_mqtt"
  /\ device_state = "starting"
  /\ listening_mode = "auto"
  /\ aborted = FALSE
  /\ processor = FALSE
  /\ main_tasks = <<>>
  /\ ui = "none"
  /\ keys = 0
  /\ link = "none"
  /\ connected = FALSE
  /\ drops = 0
  /\ session_id = NoSession
  /\ params = NoSession
  /\ hello_responsed = FALSE
  /\ udp = "none"
  /\ mqtt_pc = "idle"
  /\ parsing = NoSession
  /\ inbox = <<>>
  /\ hellos = 0
  /\ unanswered = {}
  /\ server_msgs = 0
  /\ told = FALSE
  /\ stray = FALSE
  /\ peer = NoSession
  /\ gave_up = FALSE
-----------------------------------------------------------------------------
(***************************************************************************)
(* Pieces the handlers share.                                              *)
(***************************************************************************)
\* SendText gives up, silently, when there is no topic to publish to.
HasTopic == config = "full"

\* MQTTAsync_sendMessage takes a message only while it is connected.
CanPublish == link = "up"

\* Publishing fails, which is reported as a network error.
SendFails == HasTopic /\ ~CanPublish

\* SetDeviceState(kDeviceStateIdle): it does nothing when idle already.
EnterIdle ==
  /\ device_state' = "idle"
  /\ processor' = IF device_state = "idle" THEN processor ELSE FALSE

\* SetError: the handler of network errors makes the device idle.
NetworkError ==
  /\ EnterIdle
  /\ UNCHANGED <<listening_mode, aborted>>

\* The commands to the server.  When the first cannot be published the error
\* handler makes the device idle inside of SetDeviceState, which goes on.
SendStartListening ==
  /\ told' = (told \/ (HasTopic /\ CanPublish))
  /\ stray' = (stray \/ SendFails)
  /\ device_state' = IF SendFails THEN "idle" ELSE device_state

SendAbortSpeaking ==
  IF SendFails THEN EnterIdle ELSE UNCHANGED <<device_state, processor>>

\* PahoMqtt::Connect returns at once: the connecting goes on in the background,
\* or has failed.  Either way the broker forgets what it had for the client.
Connect ==
  /\ link' \in {"connecting", "down"}
  /\ inbox' = <<>>

\* StartMqttClient with an endpoint: a new client, which connects; failing at
\* once is reported.
NewClient(next) ==
  /\ connected' = FALSE
  /\ Connect
  /\ IF link' = "connecting"
       THEN pc' = next /\ UNCHANGED app
       ELSE NetworkError /\ pc' = IF pc = "start_mqtt" THEN next ELSE "loop"
  /\ UNCHANGED drops
-----------------------------------------------------------------------------
(***************************************************************************)
(* Application::Start, from protocol_->Start() on.                         *)
(***************************************************************************)
StartProtocol ==
  /\ pc = "start_mqtt"
  /\ \/ /\ config = "none"
        /\ pc' = "start_processor"
        /\ UNCHANGED <<app, conn, inbox>>
     \/ /\ config # "none"
        /\ NewClient("start_processor")
  /\ UNCHANGED <<config, main_tasks, ui_vars, session, udp, mqtt_vars, server,
                 history>>

StartProcessor ==
  /\ pc = "start_processor"
  /\ processor' = TRUE
  /\ pc' = "start_idle"
  /\ UNCHANGED <<config, device_state, listening_mode, aborted, main_tasks,
                 ui_vars, conn, session, udp, mqtt_vars, inbox, server, history>>

StartIdle ==
  /\ pc = "start_idle"
  /\ EnterIdle
  /\ stray' = (device_state = "idle")
  /\ pc' = "loop"
  /\ UNCHANGED <<config, listening_mode, aborted, main_tasks, ui_vars, conn,
                 session, udp, mqtt_vars, inbox, server, told, peer, gave_up>>
-----------------------------------------------------------------------------
(***************************************************************************)
(* The task of ToggleChatState in the idle state: SetDeviceState           *)
(* (kDeviceStateConnecting), OpenAudioChannel, SetListeningMode.  It does  *)
(* not look at the state again when it is run.                             *)
(***************************************************************************)
\* The main thread begins the oldest task, which is of this kind.
BeginTask(kind) ==
  /\ pc = "loop"
  /\ main_tasks # <<>>
  /\ Head(main_tasks) = kind
  /\ main_tasks' = Tail(main_tasks)

OpenBegin ==
  /\ BeginTask("open")
  /\ device_state' = "connecting"
  /\ stray' = processor
  /\ pc' = "open_mqtt"
  /\ UNCHANGED <<config, listening_mode, aborted, processor, ui_vars, conn, session,
                 udp, mqtt_vars, inbox, server, told, peer, gave_up>>

\* OpenAudioChannel: restart a client that has never been connected.
OpenMqtt ==
  /\ pc = "open_mqtt"
  /\ \/ /\ link # "none" /\ connected
        /\ pc' = "open_session"
        /\ UNCHANGED <<app, conn, inbox>>
     \/ /\ ~(link # "none" /\ connected)
        /\ config = "none"
        /\ NetworkError
        /\ pc' = "loop"
        /\ UNCHANGED <<conn, inbox>>
     \/ /\ ~(link # "none" /\ connected)
        /\ config # "none"
        /\ NewClient("open_session")
  /\ UNCHANGED <<config, main_tasks, ui_vars, session, udp, mqtt_vars, server,
                 history>>

OpenResetSession ==
  /\ pc = "open_session"
  /\ session_id' = NoSession
  /\ pc' = "open_flag"
  /\ UNCHANGED <<config, app, main_tasks, ui_vars, conn, params,
                 hello_responsed, udp, mqtt_vars, inbox, server, history>>

\* A slip: the flag is not cleared.
OpenKeepFlag ==
  /\ pc = "open_flag"
  /\ pc' = "open_hello"
  /\ UNCHANGED <<config, app, main_tasks, ui_vars, conn, session, udp, mqtt_vars,
                 inbox, server, history>>

OpenResetFlag ==
  /\ pc = "open_flag"
  /\ hello_responsed' = FALSE
  /\ pc' = "open_hello"
  /\ UNCHANGED <<config, app, main_tasks, ui_vars, conn, session_id, params,
                 udp, mqtt_vars, inbox, server, history>>

\* Publish the hello.  Without a topic OpenAudioChannel fails and nothing else
\* happens: the device stays in the connecting state.
OpenHello ==
  /\ pc = "open_hello"
  /\ \/ /\ ~HasTopic
        /\ pc' = "loop"
        /\ UNCHANGED <<app, server>>
     \/ /\ SendFails
        /\ NetworkError
        /\ pc' = "loop"
        /\ UNCHANGED server
     \/ /\ HasTopic /\ CanPublish
        /\ hellos' = hellos + 1
        /\ unanswered' = unanswered \cup {hellos'}
        /\ pc' = "hello_wait"
        /\ UNCHANGED <<app, server_msgs>>
  /\ UNCHANGED <<config, main_tasks, ui_vars, conn, session, udp, mqtt_vars,
                 inbox, history>>

\* cnd_server_hello_.wait_for returns true.
HelloArrived ==
  /\ pc = "hello_wait"
  /\ hello_responsed
  /\ pc' = "open_udp"
  /\ UNCHANGED <<config, app, main_tasks, ui_vars, conn, session, udp,
                 mqtt_vars, inbox, server, history>>

\* A slip: the timeout is not reported.
HelloTimeoutSilent ==
  /\ pc = "hello_wait"
  /\ ~hello_responsed
  /\ pc' = "loop"
  /\ UNCHANGED <<config, app, main_tasks, ui_vars, conn, session, udp,
                 mqtt_vars, inbox, server, history>>

\* It returns false after ten seconds.
HelloTimeout ==
  /\ pc = "hello_wait"
  /\ ~hello_responsed
  /\ NetworkError
  /\ gave_up' = TRUE
  /\ pc' = "loop"
  /\ UNCHANGED <<config, main_tasks, ui_vars, conn, session, udp, mqtt_vars,
                 inbox, server, told, stray, peer>>

\* Replace the UDP client.  Connecting it may fail (the host is a name, there
\* is no socket), which nobody looks at.
OpenUdp ==
  /\ pc = "open_udp"
  /\ IF udp = "live"
       THEN pc' = "dead" /\ UNCHANGED <<udp, told, peer>>
       ELSE pc' = "listen" /\ udp' \in {"live", "inert"} /\ told' = FALSE
            /\ peer' = params
  /\ UNCHANGED <<config, app, main_tasks, ui_vars, conn, session, mqtt_vars,
                 inbox, server, stray, gave_up>>

\* SetListeningMode, as far as the assignment of device_state_.
Listen ==
  /\ pc = "listen"
  /\ listening_mode' = IF realtime_chat_enabled THEN "realtime" ELSE "auto"
  /\ device_state' = "listening"
  /\ pc' = "listen_cmd"
  /\ UNCHANGED <<config, aborted, processor, main_tasks, ui_vars, conn, session,
                 udp, mqtt_vars, inbox, server, history>>

\* A slip: the processor is started only when the command went out.
ListenCommandChecked ==
  /\ pc = "listen_cmd"
  /\ IF processor \/ ~CanPublish THEN UNCHANGED <<app, told, stray>>
     ELSE /\ SendStartListening
          /\ processor' = TRUE
          /\ UNCHANGED <<listening_mode, aborted>>
  /\ pc' = "loop"
  /\ UNCHANGED <<config, main_tasks, ui_vars, conn, session, udp, mqtt_vars,
                 inbox, server, peer, gave_up>>

\* The rest of SetDeviceState(kDeviceStateListening): unless the processor is
\* running, send the command and start it, whatever has become of the command.
ListenCommand ==
  /\ pc = "listen_cmd"
  /\ IF processor THEN UNCHANGED <<app, told, stray>>
     ELSE /\ SendStartListening
          /\ processor' = TRUE
          /\ UNCHANGED <<listening_mode, aborted>>
  /\ pc' = "loop"
  /\ UNCHANGED <<config, main_tasks, ui_vars, conn, session, udp, mqtt_vars,
                 inbox, server, peer, gave_up>>
-----------------------------------------------------------------------------
(***************************************************************************)
(* The other tasks.                                                        *)
(***************************************************************************)
\* AbortSpeaking(kAbortReasonNone).
Abort ==
  /\ BeginTask("abort")
  /\ aborted' = TRUE
  /\ SendAbortSpeaking
  /\ UNCHANGED <<config, pc, listening_mode, ui_vars, conn, session, udp,
                 mqtt_vars, inbox, server, history>>

\* CloseAudioChannel: delete the UDP client...
CloseBegin ==
  /\ BeginTask("close")
  /\ IF udp = "live"
       THEN pc' = "dead" /\ UNCHANGED udp
       ELSE pc' = "close_send" /\ udp' = "none"
  /\ UNCHANGED <<config, app, ui_vars, conn, session, mqtt_vars, inbox, server,
                 history>>

\* A slip: the closed callback is called only when the goodbye went out.
CloseSendChecked ==
  /\ pc = "close_send"
  /\ main_tasks' = IF CanPublish THEN Append(main_tasks, "idle") ELSE main_tasks
  /\ pc' = "loop"
  /\ UNCHANGED <<config, app, ui_vars, conn, session, udp, mqtt_vars, inbox,
                 server, history>>

\* ... say goodbye, and schedule the return to the idle state.
CloseSend ==
  /\ pc = "close_send"
  /\ IF SendFails THEN NetworkError ELSE UNCHANGED app
  /\ main_tasks' = Append(main_tasks, "idle")
  /\ pc' = "loop"
  /\ UNCHANGED <<config, ui_vars, conn, session, udp, mqtt_vars, inbox, server,
                 history>>

BecomeIdle ==
  /\ BeginTask("idle")
  /\ EnterIdle
  /\ UNCHANGED <<config, pc, listening_mode, aborted, ui_vars, conn, session,
                 udp, mqtt_vars, inbox, server, history>>

TtsStart ==
  /\ BeginTask("tts_start")
  /\ aborted' = FALSE
  /\ IF device_state \in {"idle", "listening"}
       THEN /\ device_state' = "speaking"
            /\ processor' = IF listening_mode = "realtime" THEN processor ELSE FALSE
       ELSE UNCHANGED <<device_state, processor>>
  /\ UNCHANGED <<config, pc, listening_mode, ui_vars, conn, session, udp,
                 mqtt_vars, inbox, server, history>>

\* A slip: the state is not looked at.
TtsStopAlways ==
  /\ BeginTask("tts_stop")
  /\ device_state' = "listening"
  /\ pc' = "listen_cmd"
  /\ UNCHANGED <<config, listening_mode, aborted, processor, ui_vars, conn,
                 session, udp, mqtt_vars, inbox, server, history>>

\* Back to listening (the manual mode, which would go idle, is never set).
TtsStop ==
  /\ BeginTask("tts_stop")
  /\ IF device_state = "speaking"
       THEN device_state' = "listening" /\ pc' = "listen_cmd"
       ELSE UNCHANGED <<device_state, pc>>
  /\ UNCHANGED <<config, listening_mode, aborted, processor, ui_vars, conn,
                 session, udp, mqtt_vars, inbox, server, history>>
-----------------------------------------------------------------------------
(***************************************************************************)
(* The user interface's thread: a key is handled by reading device_state_  *)
(* and then scheduling a task.                                             *)
(***************************************************************************)
\* ToggleChatState, on the T key.
ToggleTask ==
  CASE device_state = "idle"      -> "open"
    [] device_state = "speaking"  -> "abort"
    [] device_state = "listening" -> "close"
    [] OTHER                      -> "none"

PressKey ==
  /\ ui = "none"
  /\ keys < MaxKeys
  /\ keys' = keys + 1
  /\ ui' \in {ToggleTask, "abort"} \* the T key, the A key
  /\ UNCHANGED <<config, pc, app, main_tasks, conn, session, udp, mqtt_vars,
                 inbox, server, history>>

ScheduleKey ==
  /\ ui # "none"
  /\ main_tasks' = Append(main_tasks, ui)
  /\ ui' = "none"
  /\ UNCHANGED <<config, pc, app, keys, conn, session, udp, mqtt_vars, inbox,
                 server, history>>
-----------------------------------------------------------------------------
(***************************************************************************)
(* The MQTT callback thread: one message at a time.                        *)
(***************************************************************************)
Receive(type) ==
  /\ mqtt_pc = "idle"
  /\ inbox # <<>>
  /\ Head(inbox).type = type
  /\ inbox' = Tail(inbox)

\* ParseServerHello, as far as session_id_.
ReceiveHello ==
  /\ Receive("hello")
  /\ session_id' = Head(inbox).session
  /\ parsing' = Head(inbox).session
  /\ mqtt_pc' = "hello_params"
  /\ UNCHANGED <<config, pc, app, main_tasks, ui_vars, conn, params,
                 hello_responsed, udp, server, history>>

\* The server's address, key and nonce; a hello without them is dropped.
HelloParams ==
  /\ mqtt_pc = "hello_params"
  /\ \/ params' = parsing /\ mqtt_pc' = "hello_flag"
     \/ params' = params /\ mqtt_pc' = "idle"
  /\ UNCHANGED <<config, pc, app, main_tasks, ui_vars, conn, session_id,
                 hello_responsed, udp, parsing, inbox, server, history>>

HelloFlag ==
  /\ mqtt_pc = "hello_flag"
  /\ hello_responsed' = TRUE
  /\ mqtt_pc' = "idle"
  /\ UNCHANGED <<config, pc, app, main_tasks, ui_vars, conn, session_id, params,
                 udp, parsing, inbox, server, history>>

\* A goodbye to the current session, or to none, schedules the closing of the
\* channel.
ReceiveGoodbye ==
  /\ Receive("goodbye")
  /\ main_tasks' = IF Head(inbox).session \in {session_id, NoSession}
                     THEN Append(main_tasks, "close") ELSE main_tasks
  /\ UNCHANGED <<config, pc, app, ui_vars, conn, session, udp, mqtt_vars,
                 server, history>>

ReceiveTts ==
  /\ \E type \in {"tts_start", "tts_stop"} :
       Receive(type) /\ main_tasks' = Append(main_tasks, type)
  /\ UNCHANGED <<config, pc, app, ui_vars, conn, session, udp, mqtt_vars,
                 server, history>>
-----------------------------------------------------------------------------
(***************************************************************************)
(* The server and the connection to the broker.                            *)
(***************************************************************************)
\* The server answers a hello, at any time, or never.
ServerHello ==
  /\ link = "up"
  /\ \E s \in unanswered :
       /\ unanswered' = unanswered \ {s}
       /\ inbox' = Append(inbox, [type |-> "hello", session |-> s])
  /\ UNCHANGED <<config, pc, app, main_tasks, ui_vars, conn, session, udp,
                 mqtt_vars, hellos, server_msgs, history>>

\* It speaks, or ends a session, once it has answered a hello.
ServerSends ==
  /\ link = "up"
  /\ server_msgs < MaxServerMsgs
  /\ server_msgs' = server_msgs + 1
  /\ \E s \in (1..hellos) \ unanswered :
       \E m \in {[type |-> "goodbye", session |-> s],
                 [type |-> "goodbye", session |-> NoSession],
                 [type |-> "tts_start"], [type |-> "tts_stop"]} :
         inbox' = Append(inbox, m)
  /\ UNCHANGED <<config, pc, app, main_tasks, ui_vars, conn, session, udp,
                 mqtt_vars, hellos, unanswered, history>>

\* onConnect.
Connected ==
  /\ link = "connecting"
  /\ link' = "up"
  /\ connected' = TRUE
  /\ UNCHANGED <<config, pc, app, main_tasks, ui_vars, drops, session, udp,
                 mqtt_vars, inbox, server, history>>

\* onConnectFailure: nobody tries again.
ConnectFailed ==
  /\ link = "connecting"
  /\ link' = "down"
  /\ UNCHANGED <<config, pc, app, main_tasks, ui_vars, connected, drops,
                 session, udp, mqtt_vars, inbox, server, history>>

\* connlost: connect again at once; connected_ stays set.
ConnectionLost ==
  /\ link = "up"
  /\ drops < MaxDrops
  /\ drops' = drops + 1
  /\ Connect
  /\ UNCHANGED <<config, pc, app, main_tasks, ui_vars, connected, session, udp,
                 mqtt_vars, server, history>>
-----------------------------------------------------------------------------
Main ==
  \/ StartProtocol \/ StartProcessor \/ StartIdle
  \/ OpenBegin \/ OpenMqtt \/ OpenResetSession \/ OpenResetFlag \/ OpenHello
  \/ HelloArrived \/ HelloTimeout \/ OpenUdp \/ Listen \/ ListenCommand
  \/ Abort \/ CloseBegin \/ CloseSend \/ BecomeIdle \/ TtsStart \/ TtsStop

Ui == PressKey \/ ScheduleKey

Mqtt ==
  ReceiveHello \/ HelloParams \/ HelloFlag \/ ReceiveGoodbye \/ ReceiveTts

Environment ==
  ServerHello \/ ServerSends \/ Connected \/ ConnectFailed \/ ConnectionLost

Next == Main \/ Ui \/ Mqtt \/ Environment

\* The main thread keeps running (the wait for the server's hello ends after
\* ten seconds at the latest) and so do the two threads that post to it, once
\* they have something to post.
Fairness ==
  /\ WF_vars(Main)
  /\ WF_vars(ScheduleKey)
  /\ WF_vars(Mqtt)

Spec == Init /\ [][Next]_vars /\ Fairness
-----------------------------------------------------------------------------
(***************************************************************************)
(* Properties.                                                             *)
(***************************************************************************)
\* Between tasks the microphone follows the state: it is on while the device
\* listens and, unless the chat is in real time, off while it speaks.  (When
\* the device is idle it may be on, see ListensAfterTelling.)
MicFollowsState ==
  pc = "loop" =>
    /\ device_state = "listening" => processor
    /\ device_state = "speaking" /\ ~realtime_chat_enabled => ~processor

\* Whoever listens has told the server so since the channel was opened, if there
\* is a topic to tell it on, whatever was lost, aborted or spoken in between.
\* Not so when the microphone has been left on: by the processor that Start
\* starts after a network error, by a key whose task is run in the listening
\* state, or by a start command that failed.
ListensAfterTelling ==
  pc = "loop" /\ device_state = "listening" => told \/ ~HasTopic \/ stray

\* As long as no wait for a hello has timed out, the key, the nonce and the
\* sequence numbers are those of the session the UDP client was connected for:
\* no hello replaces them under the packets that are on their way.  Nor do
\* commands name another session than that one, if they name any.
ChannelKeepsItsKeys ==
  udp # "none" =>
    /\ peer # NoSession
    /\ ~gave_up /\ pc \notin {"hello_wait", "open_udp", "dead"}
         => params = peer /\ session_id \in {peer, NoSession}

\* The connecting state does not outlive the task that opens the channel, but
\* for one way out of OpenAudioChannel that reports no error: a SendText that
\* has no topic.
ConnectingIsTransient ==
  pc = "loop" /\ device_state = "connecting" => ~HasTopic

\* hello_responsed_ is published after what it stands for: when the wait for
\* the server's hello is over, there is an address to connect to.
AddressReady ==
  /\ hello_responsed => params # NoSession
  /\ pc = "open_udp" => params # NoSession

\* The state moves along these edges only, whatever the order of keys, server
\* messages and failures: in particular the device never starts to speak
\* while it is connecting, and never starts to listen from the idle state.
Edges ==
  {<<"starting", "idle">>, <<"idle", "connecting">>, <<"idle", "speaking">>,
   <<"connecting", "idle">>, <<"connecting", "listening">>,
   <<"listening", "idle">>, <<"listening", "connecting">>,
   <<"listening", "speaking">>, <<"speaking", "idle">>,
   <<"speaking", "connecting">>, <<"speaking", "listening">>}

LegalTransitions ==
  [][device_state' # device_state => <<device_state, device_state'>> \in Edges]_vars

\* What the main thread knows of the state at each point of its code.
Opening == {"open_mqtt", "open_session", "open_flag", "open_hello", "hello_wait",
            "open_udp", "listen"}

StateByPC ==
  /\ pc = "start_mqtt" => device_state = "starting" /\ link = "none"
  /\ pc \in {"start_processor", "start_idle"} => device_state \in {"starting", "idle"}
  /\ pc \notin {"start_mqtt", "start_processor", "start_idle"}
       => device_state # "starting"
  /\ pc \in Opening => device_state = "connecting"
  /\ pc = "listen_cmd" => device_state = "listening"

\* Between tasks and in the middle of closing the channel.
AtRest ==
  pc \in {"loop", "close_send"} =>
    /\ device_state = "listening" => processor
    /\ device_state = "speaking" /\ ~realtime_chat_enabled => ~processor
    /\ device_state = "connecting" => ~HasTopic

\* What the MQTT thread knows at each point of ParseServerHello.
HelloOrder ==
  /\ mqtt_pc # "idle" => parsing # NoSession
  /\ mqtt_pc = "hello_flag" => params # NoSession
  /\ hello_responsed => params # NoSession
  /\ pc = "open_udp" => hello_responsed

ModeIsConfigured == listening_mode = "realtime" => realtime_chat_enabled

\* Between tasks a running processor has been announced, and while a channel is
\* opened it is one that was running before.
MicAnnounced ==
  /\ pc \in {"start_mqtt", "start_processor"} => ~processor
  /\ pc \in Opening /\ processor => stray
  /\ pc \in {"loop", "close_send", "listen_cmd"} /\ processor
       => told \/ ~HasTopic \/ stray

\* As long as no wait for a hello has timed out, OpenAudioChannel goes on with
\* the answer to the hello it has just sent.  HelloAnswersThisAttempt, below,
\* says so without the condition, and does not hold.
AnswerIsToThisHello == ~gave_up /\ pc = "open_udp" => params = hellos

\* While no answer can be late, the only hello on its way, wherever it is, is the
\* one that the main thread waits for: the answer to the last it sent.
Hellos == {i \in DOMAIN inbox : inbox[i].type = "hello"}

OneAnswer ==
  ~gave_up =>
    /\ pc = "open_hello" => ~hello_responsed
    /\ pc # "hello_wait" \/ hello_responsed
         => unanswered = {} /\ Hellos = {} /\ mqtt_pc = "idle"
    /\ \A i, j \in Hellos : i = j
    /\ unanswered # {} => Hellos = {} /\ mqtt_pc = "idle"
    /\ Hellos # {} => mqtt_pc = "idle"
    /\ unanswered \subseteq {hellos}
    /\ \A i \in Hellos : inbox[i].session = hellos
    /\ mqtt_pc # "idle" => session_id = hellos /\ parsing = hellos
    /\ mqtt_pc = "hello_flag" => params = hellos
    /\ hello_responsed
         => params = hellos /\ (pc # "open_flag" => session_id = hellos)

\* The inductive invariant.
IInv ==
  /\ TypeOK
  /\ StateByPC
  /\ AtRest
  /\ HelloOrder
  /\ ModeIsConfigured
  /\ MicAnnounced
  /\ OneAnswer
  /\ ChannelKeepsItsKeys

\* An attempt to open the channel ends: the device leaves the connecting
\* state, unless there is no topic to publish the hello to or the main thread
\* has stopped for good.
ConnectingEnds ==
  device_state = "connecting" ~> device_state # "connecting" \/ ~HasTopic \/ pc = "dead"

\* Once CloseAudioChannel has let go of the channel the device becomes idle,
\* whatever was scheduled before it.
CloseLeadsToIdle ==
  pc = "close_send" ~> device_state = "idle" \/ pc = "dead"

\* What the comment at mqtt_protocol.cc:193 says: OpenAudioChannel waits for the
\* server's answer to the hello it has just sent, and goes on with it.
HelloAnswersThisAttempt == pc = "open_udp" => params = hellos
=============================================================================
